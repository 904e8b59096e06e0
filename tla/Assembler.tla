------------------------------ MODULE Assembler ------------------------------
(***************************************************************************)
(* asm turns lines of assembly text into the bytes of an executable.  The  *)
(* first pass over the lines (stage 0) encodes every line without knowing  *)
(* the labels; the passes that follow (stage 1) encode the lines again     *)
(* that depend on a label or on their own place, until a pass moves no     *)
(* label.  A branch has a short and a long form: its length depends on the *)
(* distance of its label, which depends on the length of the branches in   *)
(* between.                                                                *)
(*                                                                         *)
(* An encoded line is its length and, for a branch, the distance written   *)
(* in it.  That a branch has to reach 2 GiB and that numbers have 64 bits  *)
(* is left out, and so are the bytes themselves.                           *)
(***************************************************************************)
EXTENDS Integers, Sequences

CONSTANTS
    Programs,       \* the programs to assemble: sequences of lines
    Names,          \* the names of labels
    Base,           \* ELF_OFF, the address of the first line
    Reach           \* a short branch reaches -Reach..Reach - 1 (in the code 128)

Branches == {"jmp", "jcond"}
Padding == {"align", "offset", "addr"}
Kinds == Branches \union Padding \union {"label", "call", "imm", "const", "data", "entry"}

\* A line: a label (name), an instruction that names a label, a constant
\* expression of a label, plain bytes (arg of them), or a pseudo-op: .align val
\* with arg = 1<<val, .offset arg, .addr arg.
Line == {line \in [kind : Kinds, name : Names, arg : Nat] : line.kind = "align" => line.arg # 0}

ASSUME ProgramAssumption == Programs \subseteq Seq(Line)
ASSUME BaseAssumption == Base \in Nat
ASSUME ReachAssumption == Reach \in Nat \ {0}

VARIABLES
    code,           \* lines_head: the lines
    phase,          \* "passes" until the executable is "written", or "failed" with an error message
    stage,          \* 0 in the first pass, then 1
    at,             \* l: the line to encode next
    pc,             \* the address of that line
    spos,           \* how many bytes were encoded in this pass
    moved,          \* s: a label got a new value in this pass
    value,          \* label_tab: the value of every label that is in it
    pos,            \* ins_pos of every line
    len,            \* ins_len of every line
    dist,           \* the distance encoded in a branch
    entry           \* elf_header.entry

vars == <<code, phase, stage, at, pc, spos, moved, value, pos, len, dist, entry>>

------------------------------------------------------------------------------
(* One line                                                                *)

NoLabel == -1       \* label_tab_find finds nothing
Known(x) == value[x] # NoLabel

\* A constant expression with a label in it is 0 as long as stage is 0.
Const(x) == IF stage = 0 THEN 0 ELSE value[x]

Near(d) == d \in -Reach..Reach - 1
LongForm(kind) == IF kind = "jmp" THEN 5 ELSE 6
BranchLen(line) == IF Near(Const(line.name) - pc - 2) THEN 2 ELSE LongForm(line.kind)

Dist(line) == Const(line.name) - pc - BranchLen(line)

\* An immediate operand has one byte if its value fits (write_default_ins).
ImmLen(line) == IF Near(Const(line.name)) THEN 4 ELSE 7

\* How many zeros .align makes: up to the next multiple of 1<<val, val < 20.
AlignLimit == 1048576
Zeros(line) == IF line.arg < AlignLimit THEN (-spos) % line.arg ELSE 0

Bytes(line) ==
    CASE line.kind \in Branches -> BranchLen(line)
      [] line.kind = "call" -> 5
      [] line.kind = "imm" -> ImmLen(line)
      [] line.kind = "const" -> 4
      [] line.kind = "data" -> line.arg
      [] line.kind = "align" -> Zeros(line)
      [] line.kind = "offset" -> line.arg - spos
      [] OTHER -> 0

NamesLabel(line) == line.kind \in Branches \union {"call", "imm", "const"}

\* The assembler stops: label redefined, label undefined, invalid offset.
Wrong(line) ==
    \/ line.kind = "label" /\ stage = 0 /\ Known(line.name)
    \/ NamesLabel(line) /\ stage = 1 /\ ~Known(line.name)
    \/ line.kind = "offset" /\ line.arg < spos

------------------------------------------------------------------------------

Init ==
    /\ code \in Programs
    /\ phase = "passes"
    /\ stage = 0
    /\ at = 1
    /\ pc = Base
    /\ spos = 0
    /\ moved = FALSE
    /\ value = [x \in Names |-> NoLabel]
    /\ pos = [i \in 1..Len(code) |-> 0]
    /\ len = [i \in 1..Len(code) |-> 0]
    /\ dist = [i \in 1..Len(code) |-> 0]
    /\ entry = 0

\* error ends the program.
Fail ==
    /\ phase = "passes"
    /\ at <= Len(code)
    /\ Wrong(code[at])
    /\ phase' = "failed"
    /\ UNCHANGED <<code, stage, at, pc, spos, moved, value, pos, len, dist, entry>>

\* What every line does: its place is noted (from stage 1 on) and what it
\* encodes moves the next one.
Encode(line) ==
    /\ at' = at + 1
    /\ pos' = IF stage = 1 THEN [pos EXCEPT ![at] = pc] ELSE pos
    /\ len' = [len EXCEPT ![at] = Bytes(line)]
    /\ dist' = [dist EXCEPT ![at] = IF line.kind \in Branches THEN Dist(line) ELSE 0]
    /\ spos' = spos + Bytes(line)
    /\ pc' = IF line.kind = "addr" THEN line.arg ELSE pc + Bytes(line)

\* Two mutants: only a label that moved up asks for another pass, every label does.
MovesUp(line) == line.kind = "label" /\ stage = 1 /\ value[line.name] < pc
MovesAlways(line) == line.kind = "label" /\ stage = 1

\* A label is entered in stage 0 and moved in stage 1.
Moves(line) == line.kind = "label" /\ stage = 1 /\ value[line.name] # pc

Write ==
    /\ phase = "passes"
    /\ at <= Len(code)
    /\ ~Wrong(code[at])
    /\ Encode(code[at])
    /\ value' = IF code[at].kind = "label" THEN [value EXCEPT ![code[at].name] = pc] ELSE value
    /\ moved' = (moved \/ Moves(code[at]))
    /\ entry' = IF code[at].kind = "entry" THEN pc ELSE entry
    /\ UNCHANGED <<code, phase, stage>>

\* The next pass: after stage 0 always, then as long as a label moved.
NextPass ==
    /\ phase = "passes"
    /\ at > Len(code)
    /\ stage = 0 \/ moved
    /\ stage' = 1
    /\ at' = 1
    /\ pc' = Base
    /\ spos' = 0
    /\ moved' = FALSE
    /\ entry' = 0
    /\ UNCHANGED <<code, phase, value, pos, len, dist>>

\* No label moved: mkelf writes the header and the lines.
MkElf ==
    /\ phase = "passes"
    /\ at > Len(code)
    /\ stage = 1 /\ ~moved
    /\ phase' = "written"
    /\ UNCHANGED <<code, stage, at, pc, spos, moved, value, pos, len, dist, entry>>

Assemble == Fail \/ Write \/ NextPass \/ MkElf

Next == Assemble

Spec == Init /\ [][Next]_vars

\* asm is one sequential program, its loop is never left alone.
FairSpec == Spec /\ WF_vars(Assemble)

------------------------------------------------------------------------------
(* Properties                                                              *)

TypeOK ==
    /\ code \in Seq(Line)
    /\ phase \in {"passes", "written", "failed"}
    /\ stage \in {0, 1}
    /\ at \in 1..Len(code) + 1
    /\ pc \in Nat
    /\ spos \in Nat
    /\ moved \in BOOLEAN
    /\ value \in [Names -> Nat \union {NoLabel}]
    /\ pos \in [1..Len(code) -> Nat]
    /\ len \in [1..Len(code) -> Nat]
    /\ dist \in [1..Len(code) -> Int]
    /\ entry \in Nat

\* Where the line after line i is.
After(i) == IF code[i].kind = "addr" THEN code[i].arg ELSE pos[i] + len[i]

IsLabel(i, x) == code[i].kind = "label" /\ code[i].name = x

\* In an executable that is written, every line is where the lines before it
\* end and every branch, short or long, arrives at the line of its label,
\* although it was encoded before the place of a later label was known
\* (main.c: do ... while(s), jmp.c).
BranchesArrive ==
    phase = "written" =>
        /\ \A i \in 1..Len(code) - 1 : pos[i + 1] = After(i)
        /\ \A i \in 1..Len(code) : code[i].kind \in Branches =>
               \E j \in 1..Len(code) :
                   /\ IsLabel(j, code[i].name)
                   /\ pos[i] + len[i] + dist[i] = pos[j]
                   /\ len[i] = 2 => Near(dist[i])

NoPadding == \A i \in 1..Len(code) : code[i].kind \notin Padding
NoImm == \A i \in 1..Len(code) : code[i].kind # "imm"

\* The passes come to an end (main.c: while(s)), although a branch may get
\* longer again: the label ahead of it still has its place of the pass before.
\* What can grow on its own is excluded: with padding, or an immediate that was
\* 0 in stage 0, between a branch and its label there are programs that asm
\* never finishes.
Ends == NoPadding /\ NoImm ~> phase # "passes"
==============================================================================
