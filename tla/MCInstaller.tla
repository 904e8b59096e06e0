----------------------------- MODULE MCInstaller -----------------------------
\* Model-checking instance of Installer: a disk with a GPT whose copies
\* differ, one with logical partitions, and one on which those, left in the
\* static array, overlap its own.
EXTENDS Installer

Data(a, b) == [kind |-> "data", start |-> a, end |-> b]
MCTable(f) == [x \in Slots |-> IF x \in DOMAIN f THEN f[x] ELSE Blank]

MCDevices == <<
  [gpt |-> TRUE, extended |-> FALSE, sectors |-> 13,
   first |-> MCTable(<<Data(2, 3)>>), second |-> MCTable(<<Data(4, 9), Data(6, 7)>>)],
  [gpt |-> FALSE, extended |-> TRUE, sectors |-> 13,
   first |-> MCTable(<<Data(4, 5)>>), second |-> MCTable(<<Blank, Blank, Data(8, 9)>>)],
  [gpt |-> FALSE, extended |-> FALSE, sectors |-> 14,
   first |-> MCTable(<<Blank, Data(6, 9)>>), second |-> MCTable(<< >>)] >>

\* Two states that differ only in what mode 2 left behind, or in the place an
\* empty entry had, behave alike: neither is read before it is written again.
View == << menuVars, config, dev, mbr, role, made,
           [x \in Slots |-> IF x \in Live(table) THEN table[x] ELSE Blank],
           IF mode = 2 THEN newVars ELSE << >> >>
=============================================================================
