------------------------------ MODULE RegAlloc ------------------------------
(***************************************************************************)
(* How bcode gives the variables of a function their places: reg_init      *)
(* (fg.c) collects the declared variables in batches, get_reg (reg.c)      *)
(* computes where each one is live and puts it in the first register map   *)
(* that is free there, the last pass of reg_init lays out the stack, and   *)
(* the code gencode.c emits then runs with those places.                   *)
(*                                                                         *)
(* What a variable holds is not modelled.  Every store to v goes to the    *)
(* place of v, so a read of v is right exactly when nothing else has been  *)
(* stored in that place since: "intact" is the set of variables of which   *)
(* that is true, "written" the set of those that have a value at all.      *)
(***************************************************************************)
EXTENDS Integers, Sequences

CONSTANTS
    Vars,       \* the variables of the function
    Args,       \* those declared between arglist and enda
    Mem,        \* those declared "local mem": arrays and structures
    Void,       \* those declared "local void": nothing reads them
    Size,       \* the bytes of each variable
    Functions,  \* the functions to compile, each a sequence of lines
    Batch,      \* get_reg is called for that many declarations (256)
    Regs,       \* registers 0 .. Regs-1 are of the machine (11)
    None        \* no variable, no line

NoReg == -1

(* A line of bcode: what it does, its operands, the line of its label and, *)
(* for a "local", the variable it declares.                                *)
Line(n) == [op : {0, 1, 2, 3, 4, 5, 6, 7, 8, 9, 10, 11, 12, 13, 14, 17},
            a : [1..3 -> Vars \cup {None}],
            branch : 1..n \cup {None},
            local : Vars \cup {None}]

(***************************************************************************)
(* Every variable is declared once, and before any line that names it.     *)
(* A stack object has bytes (a "local mem 0" would share its address with  *)
(* its neighbour), a value is at most 8 bytes, and the arguments are       *)
(* neither arrays nor void.                                                *)
(***************************************************************************)
ASSUME BatchAssumption == Batch \in Nat \ {0} /\ Regs \in Nat
ASSUME VarsAssumption ==
    /\ Args \subseteq Vars
    /\ Mem \subseteq Vars \ Args
    /\ Void \subseteq Vars \ (Args \cup Mem)
    /\ Size \in [Vars -> Nat \ {0}]
    /\ \A v \in Vars \ Mem : Size[v] <= 8
    /\ None \notin Vars
ASSUME FunctionsAssumption ==
    \A f \in Functions :
        /\ f \in Seq(Line(Len(f)))
        /\ \A i \in 1..Len(f) : i # None /\ (f[i].local # None => f[i].op = 0)
        /\ \A v \in Vars : \E i \in 1..Len(f) :
             /\ f[i].local = v
             /\ \A j \in 1..Len(f) : /\ f[j].local = v => j = i
                                     /\ j < i => \A x \in 1..3 : f[j].a[x] # v

VARIABLES
    code,       \* the function, from its "fun" to its "endf"
    phase,      \* what the compiler is doing
    line,       \* the line that is looked at; the program counter in the end
    idList,     \* id_list_head: the batch, the last declared first
    count,      \* x of reg_init: declarations since the last get_reg
    resume,     \* the line reg_init goes on at when get_reg returns
    live,       \* valin, by variable: the lines at which it is live
    changed,    \* s of calculate_df
    fitting,    \* how many variables of the batch have been fitted
    maps,       \* reg_map_head: the register maps, the most used first
    reg,        \* the map of each variable
    argMap,     \* arg_map: the argument "fun" loads into each register
    off,        \* the stack address of each variable of its own
    frame,      \* off of reg_init: the lowest address given so far
    lastSize,   \* size of reg_init: of the last declared variable
    topReg,     \* x of the last pass: the highest map of a declared variable
    stackSize,  \* stack_size
    written,    \* the variables that have a value
    intact      \* the variables whose place still holds that value

batchVars == <<idList, count, resume>>
mapVars == <<maps, reg, argMap>>
stackVars == <<off, frame, lastSize, topReg, stackSize>>
runVars == <<written, intact>>
vars == <<code, phase, line, batchVars, live, changed, fitting, mapVars, stackVars, runVars>>

Lines == 1..Len(code)

(* struct reg_map: its number, the lines it is taken at, how many it serves. *)
RegMap == [n : Nat, bits : SUBSET Lines, uses : Nat]
InBatch == {idList[i] : i \in DOMAIN idList}

------------------------------------------------------------------------------
(* Uses and definitions, as init_def_use finds them from the class of the  *)
(* operation.  A variable that is used is not marked as defined too.       *)

DefinesFirst == {1, 2, 4, 6, 11, 12, 13, 14, 17}
UsesFirst == {3, 5, 7, 9}
UsesSecond == DefinesFirst \cup {5, 7}
UsesThird == {2, 13, 14, 17}

Use(i) ==
    LET c == code[i]
    IN  (IF c.op \in UsesFirst THEN {c.a[1]} ELSE {})
        \cup (IF c.op \in UsesSecond THEN {c.a[2]} ELSE {})
        \cup (IF c.op \in UsesThird THEN {c.a[3]} ELSE {})

Stored(i) == IF code[i].op \in DefinesFirst THEN {code[i].a[1]} ELSE {}

Def(i) == Stored(i) \ Use(i)

(* The lines that may be executed after a line of the function. *)
Falls(i) == i + 1 \in Lines /\ code[i].op \notin {8, 9, 10}

Succ(i) == {j \in Lines : (Falls(i) /\ j = i + 1) \/ j = code[i].branch}

(* One line of calculate_df, for one variable. *)
LiveIn(v, i) ==
    \/ v \in Use(i)
    \/ v \notin Def(i) /\ \E j \in Succ(i) : j \in live[v]

(* gen_var_map: the lines at which a variable needs its place. *)
VarMap(v) == {i \in Lines : i \in live[v] \/ v \in Def(i)}

------------------------------------------------------------------------------
(* reg_init goes through the lines and collects declarations. *)

Collects(v) == v \notin Mem

StartGetReg(next) ==
    /\ phase' = "flow"
    /\ resume' = next
    /\ count' = 0
    /\ line' = 1
    /\ changed' = FALSE

Declared(v) == IF v \in Void THEN idList ELSE <<v>> \o idList

Scan ==
    /\ phase = "scan"
    /\ line \in Lines
    /\ LET v == code[line].local
       IN  IF v # None /\ Collects(v)
           THEN /\ idList' = Declared(v)
                /\ IF count + 1 = Batch
                   THEN StartGetReg(line + 1)
                   ELSE /\ count' = count + 1
                        /\ line' = line + 1
                        /\ UNCHANGED <<phase, resume, changed>>
           ELSE /\ line' = line + 1
                /\ UNCHANGED <<phase, batchVars, changed>>
    /\ UNCHANGED <<code, live, fitting, mapVars, stackVars, runVars>>

(* At "endf" the variables that are left are given their registers. *)
EndOfFunction ==
    /\ phase = "scan"
    /\ line \notin Lines
    /\ IF count # 0
       THEN StartGetReg(line) /\ UNCHANGED idList
       ELSE /\ phase' = "layout"
            /\ line' = 1
            /\ UNCHANGED <<batchVars, changed>>
    /\ UNCHANGED <<code, live, fitting, mapVars, stackVars, runVars>>

------------------------------------------------------------------------------
(* calculate_df: over the lines from first to last until nothing changes. *)

(* A faulty one: only the last line decides whether there is another pass. *)
FlowForgets ==
    /\ phase = "flow"
    /\ line \in Lines
    /\ LET new == [v \in Vars |->
                     IF v \notin InBatch THEN live[v]
                     ELSE IF LiveIn(v, line) THEN live[v] \cup {line}
                          ELSE live[v] \ {line}]
       IN  /\ live' = new
           /\ changed' = (new # live)
    /\ line' = line + 1
    /\ UNCHANGED <<code, phase, batchVars, fitting, mapVars, stackVars, runVars>>

Flow ==
    /\ phase = "flow"
    /\ line \in Lines
    /\ LET new == [v \in Vars |->
                     IF v \notin InBatch THEN live[v]
                     ELSE IF LiveIn(v, line) THEN live[v] \cup {line}
                          ELSE live[v] \ {line}]
       IN  /\ live' = new
           /\ changed' = (changed \/ new # live)
    /\ line' = line + 1
    /\ UNCHANGED <<code, phase, batchVars, fitting, mapVars, stackVars, runVars>>

(* A faulty one: s is not cleared. *)
FlowAgainForEver ==
    /\ phase = "flow"
    /\ line \notin Lines
    /\ changed
    /\ line' = 1
    /\ changed' = TRUE
    /\ UNCHANGED <<code, phase, batchVars, live, fitting, mapVars, stackVars, runVars>>

FlowAgain ==
    /\ phase = "flow"
    /\ line \notin Lines
    /\ changed
    /\ line' = 1
    /\ changed' = FALSE
    /\ UNCHANGED <<code, phase, batchVars, live, fitting, mapVars, stackVars, runVars>>

FlowDone ==
    /\ phase = "flow"
    /\ line \notin Lines
    /\ ~changed
    /\ phase' = "fit"
    /\ UNCHANGED <<code, line, batchVars, live, changed, fitting, mapVars, stackVars, runVars>>

------------------------------------------------------------------------------
(* get_reg puts the variables of the batch in the maps, first fit. *)

Available(m, v) == m.bits \cap VarMap(v) = {}

(* A faulty one: two arguments may be loaded into one register. *)
SuitsAnyArgument(m, v) == Available(m, v)

Suits(m, v) ==
    /\ Available(m, v)
    /\ v \in Args => m.n >= Regs \/ argMap[m.n] = None

FirstFit(v) ==
    {q \in DOMAIN maps : /\ Suits(maps[q], v)
                         /\ \A j \in 1..(q - 1) : ~ Suits(maps[j], v)}

(* An argument gets no stack slot: it has a place on the stack already. *)
Assigned(n, v) == n < Regs \/ v \notin Args

UseReg(m, v) == [n |-> m.n, bits |-> m.bits \cup VarMap(v), uses |-> m.uses + 1]

(* reg_map_sort when only the map at place q has more uses than before: it *)
(* goes before the maps that now have fewer.                               *)
Sorted(ms, q) ==
    LET p == CHOOSE i \in 1..q : /\ i = q \/ ms[i].uses < ms[q].uses
                                 /\ \A j \in 1..(i - 1) : ms[j].uses >= ms[q].uses
    IN  [i \in 1..Len(ms) |-> IF i = p THEN ms[q]
                              ELSE IF i \in (p + 1)..q THEN ms[i - 1]
                              ELSE ms[i]]

(* The map at place q of ms is given to v, if it may be. *)
Give(v, ms, q) ==
    LET n == ms[q].n
    IN  IF Assigned(n, v)
        THEN /\ reg' = [reg EXCEPT ![v] = n]
             /\ argMap' = IF v \in Args THEN [argMap EXCEPT ![n] = v] ELSE argMap
             /\ maps' = Sorted([ms EXCEPT ![q] = UseReg(ms[q], v)], q)
        ELSE maps' = ms /\ UNCHANGED <<reg, argMap>>

NewRegMap == [n |-> Len(maps), bits |-> {}, uses |-> 0]

Fit ==
    /\ phase = "fit"
    /\ fitting < Len(idList)
    /\ LET v == idList[fitting + 1]
       IN  IF FirstFit(v) # {}
           THEN \E q \in FirstFit(v) : Give(v, maps, q)
           ELSE Give(v, Append(maps, NewRegMap), Len(maps) + 1)
    /\ fitting' = fitting + 1
    /\ UNCHANGED <<code, phase, line, batchVars, live, changed, stackVars, runVars>>

(* id_list_release, and back to reg_init. *)
FitDone ==
    /\ phase = "fit"
    /\ fitting = Len(idList)
    /\ phase' = "scan"
    /\ idList' = <<>>
    /\ fitting' = 0
    /\ line' = resume
    /\ UNCHANGED <<code, count, resume, live, changed, mapVars, stackVars, runVars>>

------------------------------------------------------------------------------
(* The last pass of reg_init: whatever has no register, or has its address *)
(* taken, gets a place on the stack.                                       *)

Align(n) == 16 * (n \div 16)

Down(bytes) == Align(frame - bytes)

Place(v, bytes) ==
    /\ frame' = Down(bytes)
    /\ off' = [off EXCEPT ![v] = Down(bytes)]

LayLocal(v) ==
    /\ lastSize' = Size[v]
    /\ IF v \in Args
       THEN UNCHANGED <<frame, off, topReg>>
       ELSE IF reg[v] = NoReg
            THEN Place(v, Size[v]) /\ UNCHANGED topReg
            ELSE /\ topReg' = IF reg[v] > topReg THEN reg[v] ELSE topReg
                 /\ UNCHANGED <<frame, off>>
    /\ UNCHANGED reg

(* The place is made for the size of the last declaration, whichever *)
(* variable that was of.                                              *)
LayAddress(v) ==
    /\ IF v \in Vars /\ reg[v] # NoReg
       THEN /\ reg' = [reg EXCEPT ![v] = NoReg]
            /\ IF v \in Args THEN UNCHANGED <<frame, off>> ELSE Place(v, lastSize)
       ELSE UNCHANGED <<reg, frame, off>>
    /\ UNCHANGED <<lastSize, topReg>>

Layout ==
    /\ phase = "layout"
    /\ line \in Lines
    /\ CASE code[line].local # None -> LayLocal(code[line].local)
         [] code[line].local = None /\ code[line].op = 11 -> LayAddress(code[line].a[2])
         [] OTHER -> UNCHANGED <<reg, off, frame, lastSize, topReg>>
    /\ line' = line + 1
    /\ UNCHANGED <<code, phase, batchVars, live, changed, fitting, maps, argMap, stackSize, runVars>>

(* The slots of the maps that are no registers come below everything else. *)
SlotBytes == IF topReg >= Regs THEN (topReg - (Regs - 1)) * 8 ELSE 0

Loaded == {a \in Args : reg[a] # NoReg => argMap[reg[a]] = a}

(* At "endf" the frame is closed; the function can be called: "fun" loads  *)
(* the arguments that have a register.                                     *)
LayoutDone ==
    /\ phase = "layout"
    /\ line \notin Lines
    /\ stackSize' = Align(frame - 32 - SlotBytes)
    /\ phase' = "run"
    /\ line' = 1
    /\ written' = Args
    /\ intact' = Loaded
    /\ UNCHANGED <<code, batchVars, live, changed, fitting, mapVars, off, frame, lastSize, topReg>>

------------------------------------------------------------------------------
(* The function runs, with the operands gencode.c writes: op_is_reg and    *)
(* op_out_mem find the place of a variable.                                *)

InReg(v) == reg[v] # NoReg /\ reg[v] < Regs
OnStack(v) == v \notin Args /\ ~ InReg(v)

Address(v) == IF reg[v] # NoReg THEN (reg[v] - Regs) * 8 + stackSize ELSE off[v]

Overlap(v, w) ==
    \/ InReg(v) /\ InReg(w) /\ reg[v] = reg[w]
    \/ /\ OnStack(v) /\ OnStack(w)
       /\ Address(v) < Address(w) + Size[w]
       /\ Address(w) < Address(v) + Size[v]

(* The variables whose address the function takes: a pointer may reach     *)
(* them at any time.                                                       *)
Pointed == {v \in Vars : \E i \in Lines : code[i].op = 11 /\ code[i].a[2] = v}

Store(S) ==
    /\ written' = written \cup S
    /\ intact' = {v \in intact : \A w \in S : ~ Overlap(v, w)} \cup S

(* A call leaves the registers as they were ("endf" restores used_regs);   *)
(* what is called and what is stored through a pointer may change a        *)
(* variable whose address was taken.                                       *)
Run ==
    /\ phase = "run"
    /\ line \in Lines
    /\ \/ Store(Stored(line) \ {None})
       \/ /\ code[line].op \in {4, 5}
          /\ \E v \in Pointed : Store({v} \cup (Stored(line) \ {None}))
    /\ IF Succ(line) # {} THEN line' \in Succ(line) ELSE line' = Len(code) + 1
    /\ UNCHANGED <<code, phase, batchVars, live, changed, fitting, mapVars, stackVars>>

------------------------------------------------------------------------------
Init ==
    /\ code \in Functions
    /\ phase = "scan"
    /\ line = 1
    /\ idList = <<>>
    /\ count = 0
    /\ resume = 1
    /\ live = [v \in Vars |-> {}]
    /\ changed = FALSE
    /\ fitting = 0
    /\ maps = <<>>
    /\ reg = [v \in Vars |-> NoReg]
    /\ argMap = [n \in 0..(Regs - 1) |-> None]
    /\ off = [v \in Vars |-> 0]
    /\ frame = 0
    /\ lastSize = 1
    /\ topReg = 0
    /\ stackSize = 0
    /\ written = {}
    /\ intact = {}

Compile == \/ Scan \/ EndOfFunction
           \/ Flow \/ FlowAgain \/ FlowDone
           \/ Fit \/ FitDone
           \/ Layout \/ LayoutDone

Next == Compile \/ Run

Spec == Init /\ [][Next]_vars /\ WF_vars(Compile)

------------------------------------------------------------------------------
(* Type correctness of the tables of the compiler. *)
TypeOK ==
    /\ phase \in {"scan", "flow", "fit", "layout", "run"}
    /\ line \in 1..(Len(code) + 1)
    /\ idList \in Seq(Vars)
    /\ count \in 0..(Batch - 1)
    /\ resume \in 1..(Len(code) + 1)
    /\ live \in [Vars -> SUBSET Lines]
    /\ changed \in BOOLEAN
    /\ fitting \in 0..Len(idList)
    /\ maps \in Seq(RegMap)
    /\ reg \in [Vars -> Nat \cup {NoReg}]
    /\ argMap \in [0..(Regs - 1) -> Args \cup {None}]
    /\ off \in [Vars -> Int]
    /\ frame \in Int
    /\ lastSize \in Nat \ {0}
    /\ topReg \in Nat
    /\ stackSize \in Int
    /\ written \subseteq Vars
    /\ intact \subseteq written

(* Closed under what one line of calculate_df adds. *)
Closed(v, S) ==
    \A i \in Lines : \/ i \in S
                     \/ v \notin Use(i) /\ (v \in Def(i) \/ Succ(i) \cap S = {})

(* When calculate_df has ended, after however many passes, a variable of the    *)
(* batch is live exactly where some way leads to a use of it without a     *)
(* definition before: at the lines of the least closed set.                *)
LiveRight ==
    phase = "fit" /\ fitting = 0 =>
        \A v \in InBatch :
            /\ Closed(v, live[v])
            /\ \A S \in SUBSET Lines : Closed(v, S) => live[v] \subseteq S

(* Whichever way the function runs, a line that reads a variable finds the *)
(* value that was last stored in it, and so does a pointer to a variable:  *)
(* no two variables are in one register or on one byte of the stack while  *)
(* both are needed, in one batch or in two, arguments included.            *)
ReadsRight ==
    phase = "run" /\ line \in Lines =>
        (Use(line) \cup Pointed) \cap written \subseteq intact

(* The passes of calculate_df come to an end, and the function is compiled. *)
Ends == <>(phase = "run")
==============================================================================
