------------------------------ MODULE Compiled ------------------------------
(***************************************************************************)
(* What scc promises: a file that is no C is refused, and any other is     *)
(* translated into lines of bcode that do what the file means.             *)
(*                                                                         *)
(* A file is translated (Translate), and the lines of the function that    *)
(* stands last in it are run, with the arguments and the answers of the    *)
(* environment for which its meaning is known (CMeaning).  The machine     *)
(* that runs the lines has bytes, and a place for every declared variable; *)
(* what a line does is what Bcode says of it.                              *)
(***************************************************************************)
EXTENDS CMeaning

CONSTANTS
  Given,            \* the arguments the function is called with
  NFiles,           \* how many files are compiled
  Compilation(_)    \* Compiling(F), for each of them

VARIABLES
  prog,       \* which file
  asks,       \* which one of its answers the environment gives
  doing,      \* "translate", "run", and "refused" or "done" in the end
  ip,         \* the next line, 0 at the end
  tgt         \* the state of the machine

compiledVars == <<prog, asks, doing, ip, tgt>>

-----------------------------------------------------------------------------
(* The machine                                                             *)

Declaring(line) == line.op \in {"local", "global"}

\* One declared name after the other, from address WordLen on: of each its class,
\* its size and its address.
Layout(out) ==
  LET names == SelectSeq(out, Declaring)
      shifted(l, n) == [o \in DOMAIN l |-> [l[o] EXCEPT !.at = @ + n]]
      span[i, j \in Nat] ==
        LET line == names[i]
            m == (i + j) \div 2
            left == span[i, m]
            right == span[m + 1, j]
        IN  IF i = j THEN [size |-> line.a[2][3],
                           place |-> line.a[3] :> [class |-> line.a[1][2], size |-> line.a[2][3], at |-> 0]]
            ELSE [size |-> left.size + right.size, place |-> left.place @@ shifted(right.place, left.size)]
      all == IF names = <<>> THEN [size |-> 0, place |-> <<>>] ELSE span[1, Len(names)]
  IN  [next |-> WordLen + all.size, place |-> shifted(all.place, WordLen)]

\* F is a file with answers for it and a bound on its calls: compiled, and what it
\* means.  Answers differ if the file asks for the first one in which they do.
Compiling(F) ==
  LET e == scc_run(F.file)
      l == Layout(e.out)
      fine == WellFormed(F.file)
      means == IF fine THEN <<>> \o [a \in DOMAIN F.answers |-> Meaning(F.file, Given, F.answers[a], F.calls)] ELSE <<>>
      given == <<>> \o [a \in DOMAIN means |-> SubSeq(F.answers[a], 1, Len(SelectSeq(means[a].log, LAMBDA c : c[1] = "ask")))]
  IN  [file |-> F.file, answers |-> F.answers, calls |-> F.calls,
       bad |-> e.bad, code |-> e.out, place |-> l.place, memSize |-> l.next, fine |-> fine, means |-> means,
       differ |-> {1} \union {a \in DOMAIN given : \A b \in 1..(a - 1) : given[b] # given[a]}]

File == Compilation(prog).file
lines == Compilation(prog).code
place == Compilation(prog).place
MemSize == Compilation(prog).memSize

\* A function is at the end of the addresses, in the order of the file.
FunctionAt(x) == Word - (CHOOSE i \in DOMAIN File : File[i].x = x)

Load(a, n) == Fold(LAMBDA w, b : w * Byte + b, 0, [i \in 1..n |-> tgt.bytes[a + n - i]])
Stored8(bytes, a, n, w) ==
  Fold(LAMBDA b, i : [b EXCEPT ![a + i - 1] = (w \div Byte ^ (i - 1)) % Byte], bytes, [i \in 1..n |-> i])

IsVar(o) == o \in DOMAIN place /\ place[o].class # "mem"
Raw(o) ==
  CASE o[1] = -3 -> o[3]
    [] o[1] # -3 /\ o \notin DOMAIN place -> FunctionAt(o[2])
    [] IsVar(o) -> Load(place[o].at, place[o].size)
    [] OTHER -> place[o].at

Signed(os) == \A o \in os : IsVar(o) => place[o].class = "s64"
Sign(w) == IF w >= Word \div 2 THEN w - Word ELSE w
Quotient(a, b) == IF (a < 0) = (b < 0) THEN a \div b ELSE -((-a) \div b)

\* An operation in the class of its result.
Result(line) ==
  LET n == Byte ^ place[line.a[1]].size
      x == Raw(line.a[2]) % n
      y == Raw(line.a[3]) % n
  IN  IF line.op = "div" /\ Signed({line.a[2], line.a[3]}) THEN Quotient(Sign(x), Sign(y)) % n
      ELSE Arith(line.op, x, y) % n

\* A comparison in the wider of the two classes.
Holds(line) ==
  LET os == {o \in {line.a[1], line.a[2]} : IsVar(o)}
      n == IF os = {} THEN Word ELSE Byte ^ (IF \E o \in os : place[o].size = WordLen THEN WordLen ELSE 1)
      of(o) == IF os # {} /\ Signed(os) THEN Sign(Raw(o) % n) ELSE Raw(o) % n
  IN  Compares(line.op, of(line.a[1]), of(line.a[2]))

LineOf(lab) == {i \in DOMAIN lines : lines[i].op = "label" /\ lines[i].a[1] = lab}

\* What a line does: assign to a variable, write bytes, go to a label, and so on.
Faults == [to |-> 0, s |-> [tgt EXCEPT !.st = "fault"]]
Goes(lab) == IF LineOf(lab) = {} THEN Faults ELSE [to |-> CHOOSE i \in LineOf(lab) : TRUE, s |-> tgt]
Write8(s, a, n, w) == IF a + n > MemSize THEN Faults ELSE [to |-> ip + 1, s |-> [s EXCEPT !.bytes = Stored8(@, a, n, w)]]
Sets(s, o, w) == IF IsVar(o) THEN Write8(s, place[o].at, place[o].size, w) ELSE Faults
Width(op) == IF op \in {"ldb", "stb"} THEN 1 ELSE WordLen

Called(line) ==
  LET f == Word - Raw(line.a[2])
      n == IF f \in DOMAIN File THEN Len(File[f].t.args) ELSE 0
      E == CallEvent(Compilation(prog), tgt, f, SubSeq(tgt.stack, 1, n))
  IN  IF f \notin DOMAIN File \/ n > Len(tgt.stack) THEN Faults
      ELSE IF E.s.st # "runs" THEN [to |-> 0, s |-> E.s] ELSE Sets(E.s, line.a[1], E.v.n)

Operations == {"add", "sub", "mul", "div", "mod", "and", "orr", "eor", "lsh", "rsh"}
BranchOps == {"beq", "bne", "blt", "ble", "bgt", "bge"}

Done(line) ==
  LET a == line.a
      goes(s) == [to |-> ip + 1, s |-> s]
      address(o, off) == (Raw(o) + off[3]) % Word
  IN  CASE line.op \in {"label", "local", "global", "fun", "arglist", "enda"} -> goes(tgt)
        [] line.op = "mov" -> Sets(tgt, a[1], Raw(a[2]))
        [] line.op \in Operations ->
             IF line.op \in {"div", "mod"} /\ Raw(a[3]) % Byte ^ place[a[1]].size = 0 THEN Faults
             ELSE Sets(tgt, a[1], Result(line))
        [] line.op = "neg" -> Sets(tgt, a[1], (-Raw(a[2])) % Word)
        [] line.op = "not" -> Sets(tgt, a[1], Word - 1 - Raw(a[2]))
        [] line.op = "adr" -> Sets(tgt, a[1], place[a[2]].at)
        [] line.op \in {"ldb", "ldq"} ->
             LET n == Width(line.op)
                 from == address(a[2], a[3])
             IN  IF from + n > MemSize THEN Faults ELSE Sets(tgt, a[1], Load(from, n))
        [] line.op \in {"stb", "stq"} -> Write8(tgt, address(a[1], a[3]), Width(line.op), Raw(a[2]))
        [] line.op \in BranchOps -> IF Holds(line) THEN Goes(a[3]) ELSE goes(tgt)
        [] line.op = "bal" -> Goes(a[1])
        [] line.op = "push" -> goes([tgt EXCEPT !.stack = <<Raw(a[1])>> \o @])
        [] line.op = "del" -> goes([tgt EXCEPT !.stack = SubSeq(@, a[1][3] + 1, Len(@))])
        [] line.op = "call" -> Called(line)
        [] line.op = "retval" -> [to |-> 0, s |-> [tgt EXCEPT !.ret = Raw(a[1])]]
        [] line.op \in {"ret", "endf"} -> [to |-> 0, s |-> tgt]

-----------------------------------------------------------------------------

FirstLine == Max({i \in DOMAIN lines : lines[i].op = "fun"})

\* Before the first line: globals are 0, the arguments have their places, and in
\* what else there is could be anything.
FirstBytes ==
  LET args == SelectSeq(SubSeq(lines, FirstLine, Len(lines)), Declaring)
      put(bytes, o, w) == Stored8(bytes, place[o].at, place[o].size, w)
      zeroed == Fold(LAMBDA bytes, line : put(bytes, line.a[3], 0), [i \in 0..(MemSize - 1) |-> Byte - 1],
                     SelectSeq(lines, LAMBDA line : line.op = "global"))
  IN  Fold(LAMBDA bytes, i : put(bytes, args[i].a[3], Given[i]), zeroed, [i \in DOMAIN Given |-> i])

CompiledInit ==
  /\ prog \in 1..NFiles /\ asks \in Compilation(prog).differ
  /\ doing = "translate" /\ ip = 0 /\ tgt = <<>>

\* scc_run.
CompileFile ==
  /\ doing = "translate"
  /\ IF Compilation(prog).bad THEN doing' = "refused" /\ UNCHANGED <<ip, tgt>>
     ELSE /\ doing' = "run"
          /\ ip' = FirstLine
          /\ tgt' = Fresh(Compilation(prog).answers[asks], Compilation(prog).calls) @@ [stack |-> <<>>, bytes |-> FirstBytes]
  /\ UNCHANGED <<prog, asks>>

RunLine ==
  /\ doing = "run" /\ ip # 0
  /\ \E D \in {Done(lines[ip])} : ip' = D.to /\ tgt' = D.s
  /\ UNCHANGED <<prog, asks, doing>>

LinesEnd ==
  /\ doing = "run" /\ ip = 0
  /\ doing' = "done"
  /\ UNCHANGED <<prog, asks, ip, tgt>>

CompiledNext == CompileFile \/ RunLine \/ LinesEnd

CompiledSpec == CompiledInit /\ [][CompiledNext]_compiledVars /\ WF_compiledVars(CompiledNext)

-----------------------------------------------------------------------------
(* Properties                                                              *)

\* A file is refused if and only if it is wrong, and the lines of any other call
\* the same functions with the same arguments, in the same order, as the file
\* says, return what it returns, and leave nothing pushed (main.c: scc_run, and
\* all of translate).
CompiledRight ==
  /\ doing = "refused" => ~Compilation(prog).fine
  /\ doing = "done" =>
       /\ Compilation(prog).fine
       /\ [log |-> tgt.log, st |-> tgt.st, ret |-> tgt.ret] = Compilation(prog).means[asks]
       /\ tgt.st = "runs" => tgt.stack = <<>>

\* Every file is refused or its lines end (stmt.c, branch.c).
CompiledEnds == <>(doing \in {"refused", "done"})
=============================================================================
