---------------------------- MODULE MCInstallerOld ----------------------------
\* Model-checking instance of Installer with a disk another tool has
\* partitioned: a partition does not end on a MiB boundary.
EXTENDS Installer

Table(f) == [x \in Slots |-> IF x \in DOMAIN f THEN f[x] ELSE Blank]
Data(a, b) == [kind |-> "data", start |-> a, end |-> b]

UnevenDevices == <<
  [gpt |-> TRUE, extended |-> FALSE, sectors |-> 16,
   first |-> Table(<<Data(2, 4)>>), second |-> Table(<<Data(2, 4)>>)] >>
=============================================================================
