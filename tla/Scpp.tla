--------------------------------- MODULE Scpp ---------------------------------
(***************************************************************************)
(* The preprocessor of lfs_install/scc/scpp: its first pass, load_file of  *)
(* load_file.c, with includes, conditionals, the check of #define and      *)
(* #undef and the line numbers of messages; of its second pass, in main.c, *)
(* the definitions.                                                        *)
(*                                                                         *)
(* Each action is one round of the loop in load_file: a line of k physical *)
(* lines (read_line joins those that end in a backslash) and what the      *)
(* directive on it does.  load_file calls itself for an #include; files is *)
(* the stack of its activations.                                           *)
(*                                                                         *)
(* The code keeps four numbers for all nested conditionals.  The history   *)
(* variable cond keeps what C means by them: for each open conditional     *)
(* whether its lines are taken ("on"), not taken so far ("wait"), or not   *)
(* taken any more ("done"), and whether its #else has been seen.           *)
(***************************************************************************)
EXTENDS Integers, Sequences

CONSTANTS
  Macros,    \* macro names
  MaxDepth,  \* include_level may reach this [128]
  Joined,    \* physical lines in a line: a set of positive numbers
  MaxLine    \* bound: lines read

ASSUME ScppAssumption ==
  /\ MaxDepth \in Nat
  /\ Joined \subseteq Nat \ {0}
  /\ MaxLine \in Nat

Messages == {"none", "user", "redefined", "not defined", "endif", "else", "unknown",
             "name", "depth", "open", "end of file"}

VARIABLES
  condc,        \* condc: lines are being skipped
  levels,       \* condc_levels: open conditionals
  oldLevels,    \* old_condc_levels: the one that made the skipping start
  condcElse,    \* condc_else: it started at an #else
  defs,         \* macro_tab2: the macros defined
  currentLine,  \* current_line: lines read in all files
  files,        \* the activations of load_file, innermost last
  err,          \* the message error() has printed before it left
  cond,         \* history: the conditionals, innermost last
  legal,        \* history: no conditional has had two #else
  kept,         \* lines_head: the definitions among the lines kept
  tab           \* macro_tab: the macros defined in the second pass

condVars == <<condc, levels, oldLevels, condcElse>>
refVars  == <<cond, legal>>
macVars  == <<defs, kept, tab>>
lineVars == <<currentLine, files>>
vars     == <<condVars, refVars, macVars, lineVars, err>>

-----------------------------------------------------------------------------
(***************************************************************************)
(* Reading.                                                                *)
(***************************************************************************)
Top   == Len(files)
Taken == cond = << >> \/ cond[Len(cond)].state = "on"

\* flines and old_current_line are locals of load_file; read is history: the
\* physical lines this activation has read.
File(n) == [flines |-> n, old |-> n, read |-> 0]

Reading(k) ==
  /\ err = "none"
  /\ files # << >>
  /\ currentLine + k <= MaxLine

ReadLine(k) ==
  /\ Reading(k)
  /\ currentLine' = currentLine + k
  /\ files' = [files EXCEPT ![Top].read = @ + k]

Error(message) == err' = message

-----------------------------------------------------------------------------
(***************************************************************************)
(* Lines that are neither conditionals nor includes.                       *)
(***************************************************************************)

\* Text, and the directives whose message the line does not provoke.
Text(k) ==
  /\ ReadLine(k)
  /\ UNCHANGED <<condVars, refVars, macVars, err>>

\* #error, and # with an unknown word: a message unless skipped.
Complain(k) ==
  /\ ReadLine(k)
  /\ condc = 0
  /\ err' \in {"user", "unknown"}
  /\ UNCHANGED <<condVars, refVars, macVars>>

\* A line that is not skipped is kept for the second pass.
Keep(op, m) == kept' = Append(kept, [op |-> op, macro |-> m])

\* #define.
Define(m, k) ==
  /\ ReadLine(k)
  /\ \/ condc = 1 /\ UNCHANGED <<macVars, err>>
     \/ condc = 0 /\ m \in defs /\ Error("redefined") /\ UNCHANGED macVars
     \/ /\ condc = 0 /\ m \notin defs
        /\ defs' = defs \cup {m}
        /\ Keep("define", m)
        /\ UNCHANGED <<tab, err>>
  /\ UNCHANGED <<condVars, refVars>>

\* Slip: a skipped #undef is checked and done all the same.
UndefAlways(m, k) ==
  /\ ReadLine(k)
  /\ m \in defs
  /\ defs' = defs \ {m}
  /\ IF condc = 0 THEN Keep("undef", m) ELSE UNCHANGED kept
  /\ UNCHANGED <<condVars, refVars, tab, err>>

\* #undef.
Undef(m, k) ==
  /\ ReadLine(k)
  /\ \/ condc = 1 /\ UNCHANGED <<macVars, err>>
     \/ condc = 0 /\ m \notin defs /\ Error("not defined") /\ UNCHANGED macVars
     \/ /\ condc = 0 /\ m \in defs
        /\ defs' = defs \ {m}
        /\ Keep("undef", m)
        /\ UNCHANGED <<tab, err>>
  /\ UNCHANGED <<condVars, refVars>>

-----------------------------------------------------------------------------
(***************************************************************************)
(* Conditionals.                                                           *)
(***************************************************************************)

\* #ifdef (want = TRUE) and #ifndef (want = FALSE).
If(m, want, k) ==
  /\ ReadLine(k)
  /\ levels' = levels + 1
  /\ \/ /\ condc = 0 /\ (m \in defs) # want
        /\ condc' = 1
        /\ oldLevels' = levels + 1
     \/ /\ ~(condc = 0 /\ (m \in defs) # want)
        /\ UNCHANGED <<condc, oldLevels>>
  /\ cond' = Append(cond, [else |-> FALSE,
                           state |-> IF ~Taken THEN "done"
                                     ELSE IF (m \in defs) = want THEN "on" ELSE "wait"])
  /\ UNCHANGED <<condcElse, legal, macVars, err>>

\* Slip: any #endif ends the skipping.
EndifAny(k) ==
  /\ ReadLine(k)
  /\ levels > 0
  /\ condc' = 0 /\ oldLevels' = 0 /\ condcElse' = 0
  /\ levels' = levels - 1
  /\ cond' = SubSeq(cond, 1, Len(cond) - 1)
  /\ UNCHANGED <<legal, macVars, err>>

\* #endif.
Endif(k) ==
  /\ ReadLine(k)
  /\ \/ levels = 0 /\ Error("endif") /\ UNCHANGED <<condVars, cond>>
     \/ /\ levels > 0
        /\ levels' = levels - 1
        /\ \/ /\ oldLevels = levels
              /\ condc' = 0 /\ oldLevels' = 0 /\ condcElse' = 0
           \/ /\ oldLevels # levels
              /\ UNCHANGED <<condc, oldLevels, condcElse>>
        /\ cond' = SubSeq(cond, 1, Len(cond) - 1)
        /\ UNCHANGED err
  /\ UNCHANGED <<legal, macVars>>

\* What #else means for the innermost conditional.
AfterElse(c) ==
  [else |-> TRUE, state |-> IF c.state = "wait" THEN "on" ELSE "done"]

\* #else.
Else(k) ==
  /\ ReadLine(k)
  /\ \/ /\ levels = 0 \/ condcElse = 1
        /\ Error("else")
        /\ UNCHANGED <<condVars, cond, legal>>
     \/ /\ ~(levels = 0 \/ condcElse = 1)
        /\ \/ /\ condc = 1 /\ oldLevels = levels
              /\ condc' = 0
              /\ UNCHANGED <<oldLevels, condcElse>>
           \/ /\ condc = 0
              /\ condc' = 1 /\ oldLevels' = levels /\ condcElse' = 1
           \/ /\ condc = 1 /\ oldLevels # levels
              /\ UNCHANGED <<condc, oldLevels, condcElse>>
        /\ legal' = (legal /\ ~cond[Len(cond)].else)
        /\ cond' = [cond EXCEPT ![Len(cond)] = AfterElse(@)]
        /\ UNCHANGED <<levels, err>>
  /\ UNCHANGED macVars

-----------------------------------------------------------------------------
(***************************************************************************)
(* Includes and the end of a file.                                         *)
(***************************************************************************)

\* #include: no name, too deep, no such file, or load_file calls itself.
Include(k) ==
  /\ Reading(k)
  /\ condc = 0
  /\ currentLine' = currentLine + k
  /\ \/ /\ \/ Error("name")
           \/ Top > MaxDepth /\ Error("depth")
           \/ Top <= MaxDepth /\ Error("open")
        /\ files' = [files EXCEPT ![Top].read = @ + k]
     \/ /\ Top <= MaxDepth
        /\ files' = Append([files EXCEPT ![Top].read = @ + k, ![Top].old = currentLine'],
                           File(currentLine'))
        /\ UNCHANGED err
  /\ UNCHANGED <<condVars, refVars, macVars>>

\* Slip: the lines of the included file are not taken out of the count.
EofCountsOn ==
  /\ err = "none" /\ Top > 1
  /\ files' = SubSeq(files, 1, Top - 1)
  /\ UNCHANGED <<condVars, refVars, macVars, currentLine, err>>

\* The end of a file: the caller takes the included lines out of its count.
\* Only the main file is checked for open conditionals.
Eof ==
  /\ err = "none" /\ Top > 0
  /\ \/ /\ Top > 1
        /\ files' = [i \in 1 .. Top - 1 |->
                       IF i < Top - 1 THEN files[i]
                       ELSE [files[i] EXCEPT !.flines = @ + (currentLine - files[i].old)]]
        /\ UNCHANGED err
     \/ /\ Top = 1
        /\ files' = << >>
        /\ err' = IF levels > 0 THEN "end of file" ELSE "none"
  /\ UNCHANGED <<condVars, refVars, macVars, currentLine>>

-----------------------------------------------------------------------------
(***************************************************************************)
(* The second pass.                                                        *)
(***************************************************************************)

\* The next definition among the lines kept: add_macro or macro_tab_del.  What
\* current_line is set to for the messages of this pass is left out.
SecondPass ==
  /\ err = "none" /\ files = << >>
  /\ kept # << >>
  /\ kept' = Tail(kept)
  /\ tab' = IF Head(kept).op = "define" THEN tab \cup {Head(kept).macro}
            ELSE tab \ {Head(kept).macro}
  /\ UNCHANGED <<condVars, refVars, lineVars, defs, err>>

-----------------------------------------------------------------------------
Init ==
  /\ condc = 0 /\ levels = 0 /\ oldLevels = 0 /\ condcElse = 0
  /\ defs = {} /\ kept = << >> /\ tab = {}
  /\ currentLine = 0
  /\ files = <<File(0)>>
  /\ err = "none"
  /\ cond = << >>
  /\ legal = TRUE

Next ==
  \/ \E k \in Joined :
       \/ Text(k) \/ Complain(k)
       \/ \E m \in Macros : Define(m, k) \/ Undef(m, k)
       \/ \E m \in Macros, want \in BOOLEAN : If(m, want, k)
       \/ Endif(k) \/ Else(k) \/ Include(k)
  \/ Eof \/ SecondPass

Spec == Init /\ [][Next]_vars

-----------------------------------------------------------------------------
(***************************************************************************)
(* Properties.                                                             *)
(***************************************************************************)
Activation == [flines : Nat, old : Nat, read : Nat]
Definition == [op : {"define", "undef"}, macro : Macros]
Conditional == [else : BOOLEAN, state : {"on", "wait", "done"}]

TypeOK ==
  /\ condc \in {0, 1}
  /\ levels \in Nat
  /\ oldLevels \in Nat
  /\ condcElse \in {0, 1}
  /\ defs \subseteq Macros
  /\ kept \in Seq(Definition)
  /\ tab \subseteq Macros
  /\ currentLine \in Nat
  /\ files \in Seq(Activation)
  /\ err \in Messages
  /\ cond \in Seq(Conditional)
  /\ legal \in BOOLEAN

\* In a program without a second #else, the four numbers skip exactly the lines
\* that C skips, however conditionals nest and whatever files they span.
SkipsWhatCSkips == legal => (condc = 0 <=> Taken)

\* As many conditionals are open as the code thinks: #endif is refused, and the
\* end of the main file accepted, exactly when none is.
LevelsRight == levels = Len(cond)

\* The line number in a message, current_line - flines, is the line of the file
\* that is being read, whatever was included before.  A file that is waiting
\* for an included one has kept what it takes to go on right.
LineNumbersRight ==
  \A i \in 1 .. Top :
    files[i].read = (IF i = Top THEN currentLine ELSE files[i].old) - files[i].flines

\* macro_tab_del follows the chain of a macro that must be there (macro.c:24,
\* "call macro_tab_find first") and add_macro puts a second definition before
\* the first.  main calls both without a look, and may: the first pass has let
\* only a removal follow a definition, and a definition a removal.
SecondPassSafe ==
  err = "none" /\ files = << >> /\ kept # << >> =>
    (Head(kept).op = "undef" <=> Head(kept).macro \in tab)

\* The message "#else without #ifdef or #ifndef." (load_file.c:347) is printed
\* only when that is so: no conditional is open, or it has had its #else.
ElseMessageTrue ==
  err = "else" => cond = << >> \/ cond[Len(cond)].else
=============================================================================
