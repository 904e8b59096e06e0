----------------------------- MODULE MCCompiler -----------------------------
(***************************************************************************)
(* The compiler and the assembler.  Neither sees the other: a behaviour is *)
(* one of one of them, and part says of which.                             *)
(*                                                                         *)
(* asm gets every program of five lines of the kinds with a length of      *)
(* their own in which both labels are there once, and every program, right *)
(* or wrong, of three lines of any kind followed by two .entry.            *)
(*                                                                         *)
(* scc gets files with conditions in every statement, with places of every *)
(* kind under every operator, with names in every arrangement of scopes,   *)
(* and files that are wrong.  ask and put are their environment.           *)
(***************************************************************************)
EXTENDS Assembler, Compiled

CONSTANTS la, lb

VARIABLE part

L(kind, name, arg) == [kind |-> kind, name |-> name, arg |-> arg]

LabelLines == {L("label", x, 0) : x \in Names}
LengthLines == {L("jmp", x, 0) : x \in Names}
               \union {L("jcond", la, 0), L("imm", lb, 0), L("call", lb, 0), L("data", la, 4), L("align", la, 8), L("offset", la, 12)}
Lines == LengthLines \union {L("const", lb, 0), L("addr", la, 9), L("entry", la, 0)}

Once(p, x) == \E i \in 1..5 : p[i] = L("label", x, 0) /\ \A j \in 1..5 : p[j] = L("label", x, 0) => j = i
Short(p) == p[4] = L("entry", la, 0) /\ p[5] = L("entry", la, 0)

MCPrograms == {p \in [1..5 -> LabelLines \union LengthLines] : \A x \in Names : Once(p, x)}
              \union {p \in [1..5 -> LabelLines \union Lines] : Short(p)}
OneProgram == [i \in 1..5 |-> L("entry", la, 0)]

-----------------------------------------------------------------------------
(* Nodes of the syntax tree                                                *)
Id(x) == [k |-> "Identifier", x |-> x, s |-> <<>>]
C(n) == [k |-> "Constant", n |-> n, s |-> <<>>]
Op1(k, a) == [k |-> k, s |-> <<a>>]
Op2(k, a, b) == [k |-> k, s |-> <<a, b>>]
Dot(a, x) == [k |-> ".", x |-> x, s |-> <<a>>]
Arrow(a, x) == [k |-> "->", x |-> x, s |-> <<a>>]
At2(a, i) == Op2("[]", a, i)
Ask(n) == Op2("call", Id("ask"), C(n))
Put(e) == Op1("expr", Op2("call", Id("put"), e))
Do(e) == Op1("expr", e)
Set(a, b) == Do(Op2("=", a, b))
Local(x, t) == [k |-> "decl", x |-> x, t |-> t, s |-> <<>>]
Static(x, t) == [k |-> "static_decl", x |-> x, t |-> t, s |-> <<>>]
Block(ss) == [k |-> "block", s |-> ss]
If(c, st) == Op2("if", c, st)
IfElse(c, st1, st2) == [k |-> "ifelse", s |-> <<c, st1, st2>>]
While(c, st) == Op2("while", c, st)
DoWhile(st, c) == Op2("dowhile", st, c)
Break == [k |-> "break", s |-> <<>>]
GoTo(x) == [k |-> "goto", x |-> x, s |-> <<>>]
Label(x) == [k |-> "Label", x |-> x, s |-> <<>>]
Return(e) == Op1("return", e)

\* "main" has the arguments n and c.
Function(x, body) ==
  [k |-> "fundef", x |-> x, t |-> Fun(U64, <<U64, U8>>), args |-> <<"n", "c">>, s |-> <<Block(body)>>]
Environment == <<Local("ask", Fun(U64, <<U64>>)), Local("put", Fun(U64, <<U64>>)),
                 Local("put2", Fun(U64, <<U64, U64>>))>>

\* Of every element, and of every pair of elements.
Each(A, f(_)) == <<>> \o [i \in DOMAIN A |-> f(A[i])]
Cross(A, B, f(_, _)) ==
  <<>> \o [n \in 1..(Len(A) * Len(B)) |-> f(A[1 + ((n - 1) \div Len(B))], B[1 + ((n - 1) % Len(B))])]
\* The sequences of n of 0 and 1, and all of them.
Tuple(i, n) == <<>> \o [j \in 1..n |-> (i \div 2 ^ (j - 1)) % 2]
Tuples(n) == <<>> \o [i \in 1..(2 ^ n) |-> Tuple(i, n)]
Flat(A) == Fold(LAMBDA s, x : s \o x, <<>>, A)

-----------------------------------------------------------------------------
(* Control: ask(n) is one of two answers, n says who asks.                 *)

No(x) == Op1("!", x)
Both(x, y) == Op2("&&", x, y)
Either(x, y) == Op2("||", x, y)
Conditions ==
  <<Ask(1), No(Ask(1)), No(No(Ask(1))), Both(Ask(1), Ask(2)), Either(Ask(1), Ask(2)), Both(No(Ask(1)), Ask(2)),
    Either(Ask(1), No(Ask(2))), No(Both(Ask(1), Ask(2))), No(Either(Ask(1), Ask(2))),
    Both(Both(Ask(1), Ask(2)), Ask(3)), Both(Either(Ask(1), Ask(2)), Ask(3)), Either(Both(Ask(1), Ask(2)), Ask(3)),
    Either(Either(Ask(1), Ask(2)), No(Ask(3))), Both(Ask(1), Either(Ask(2), Ask(3))), Either(Ask(1), Both(Ask(2), Ask(3))),
    No(Both(Ask(1), Either(Ask(2), No(Ask(3))))), Either(No(Both(Ask(1), Ask(2))), Ask(3)),
    Both(C(1), Ask(1)), Both(C(0), Ask(1)), Either(C(0), Ask(1)), Either(C(1), Ask(1)), Both(Ask(1), C(0)), Either(Ask(1), C(1)),
    C(0), C(1), Op2("<", C(1), C(2)), No(Op2("<", C(0), Ask(1))), Op2("==", Ask(1), C(1)), Op2("+", Ask(1), Ask(2))>>
  \o Each(<<"<=", ">=", "<", ">", "==", "!=">>, LAMBDA k : Op2(k, Ask(1), Ask(2)))

Statements(x) ==
  <<<<If(x, Put(C(1))), Put(C(2))>>,
    <<IfElse(x, Put(C(1)), Put(C(2))), Put(C(3))>>,
    <<IfElse(x, If(Ask(8), Put(C(1))), Block(<<Put(C(2)), Return(C(5))>>))>>,
    <<While(x, Put(C(1))), Put(C(2))>>,
    <<DoWhile(Put(C(1)), x), Put(C(2))>>,
    <<While(x, Block(<<Put(C(1)), If(Ask(8), Break), Put(C(2))>>)), Put(C(3))>>,
    <<While(Ask(7), Block(<<DoWhile(If(Ask(8), Break), x), If(Ask(9), Break), Put(C(1))>>)), Put(C(2))>>,
    <<Label("l"), Put(C(1)), If(x, GoTo("l")), Put(C(2)), GoTo("m"), Put(C(3)), Label("m")>>,
    <<Return(Op2("+", x, C(2)))>>,
    <<Set(Id("n"), x), Put(Id("n")), Put(Op2("+", C(3), x)), Put(x)>>>>

ControlFiles == Each(Flat(Each(Conditions, Statements)), LAMBDA b : Append(Environment, Function("main", b)))

-----------------------------------------------------------------------------
(* Data: operations on places, and then all places are looked at.          *)

Pair == Struct("pair")

Globals == <<Local("g", U64), Local("h", U8), Local("t", Pair)>>
Variables ==
  <<Local("x", U64), Local("b", U8), Local("i", U64), Local("a", Arr(3, U64)), Local("ba", Arr(3, U8)),
    Local("aa", Arr(2, Arr(2, U64))), Local("s", Pair), Local("sa", Arr(2, Pair)),
    Local("p", Ptr(U64)), Local("bp", Ptr(U8)), Local("q", Ptr(Pair)), Local("pp", Ptr(Ptr(U64))), Static("st", U64)>>

Wide == <<Id("g"), Id("x"), Id("st"), At2(Id("a"), C(0)), At2(Id("a"), C(1)), At2(Id("a"), C(2)),
          At2(At2(Id("aa"), C(0)), C(1)), At2(At2(Id("aa"), C(1)), C(1)), Dot(Id("s"), "m"),
          At2(Dot(Id("s"), "v"), C(1)), Dot(At2(Id("sa"), C(1)), "m"),
          At2(Dot(At2(Id("sa"), C(1)), "v"), C(1)), Dot(Id("t"), "m")>>
Narrow == <<Id("h"), Id("b"), At2(Id("ba"), C(1)), At2(Id("ba"), C(2)), Dot(Id("s"), "u"), Dot(At2(Id("sa"), C(1)), "u")>>

\* Every place has a number of its own.
SetUp ==
  [j \in DOMAIN Wide |-> Set(Wide[j], C(20 + j))] \o [j \in DOMAIN Narrow |-> Set(Narrow[j], C(6 + j))]
  \o <<Set(Id("i"), C(1)), Set(Id("p"), Op2("+", Id("a"), C(1))), Set(Id("bp"), Op1("addr", At2(Id("ba"), C(1)))),
       Set(Id("q"), Op1("addr", At2(Id("sa"), C(1)))), Set(Id("pp"), Op1("addr", Id("p")))>>
Look == Each(Wide \o Narrow \o <<Id("i"), Op2("-", Id("p"), Id("a")), Op1("deref", Id("bp")), Arrow(Id("q"), "m")>>, Put)

\* The same places and others, by every way that leads to them.
WideTargets ==
  <<Id("x"), Id("g"), Id("st"), Id("n"), At2(Id("a"), C(1)), At2(Id("a"), Id("i")), At2(Id("p"), C(1)),
    At2(Id("p"), Id("i")), Op1("deref", Id("p")), Op1("deref", Op2("+", Id("p"), Id("i"))), Dot(Id("s"), "m"),
    At2(Dot(Id("s"), "v"), Id("i")), At2(Dot(Id("s"), "v"), C(1)), Arrow(Id("q"), "m"), At2(Arrow(Id("q"), "v"), C(1)),
    At2(At2(Id("aa"), Id("i")), C(1)), At2(At2(Id("aa"), C(0)), Id("i")), Dot(At2(Id("sa"), Id("i")), "m"),
    Op1("deref", Op1("deref", Id("pp"))), At2(Op1("deref", Id("pp")), C(1)), Op1("deref", Op1("addr", Id("x"))),
    Arrow(Op1("addr", Id("s")), "m"), Dot(Op1("deref", Id("q")), "m"), Dot(Id("t"), "m"), At2(Id("a"), Id("c"))>>
NarrowTargets ==
  <<Id("b"), Id("h"), Id("c"), At2(Id("ba"), Id("i")), Op1("deref", Id("bp")), At2(Id("bp"), C(1)), Dot(Id("s"), "u"),
    Arrow(Id("q"), "u"), Dot(At2(Id("sa"), Id("i")), "u")>>
Pointers == <<Id("p"), Op1("deref", Id("pp"))>>

\* One operation on every place in turn, and its result.
InTurn(k, A) == Flat(Each(A, LAMBDA l : <<Do(Op1(k, l)), Put(l)>>))
InTurn2(k, A, r) == Flat(Each(A, LAMBDA l : <<Do(Op2(k, l, r)), Put(l)>>))
Wides(k, r) == InTurn2(k, WideTargets, r)
Narrows(k, r) == InTurn2(k, NarrowTargets, r)

\* Pointers to every place in turn, and what they point to changed.
Pointing(p) ==
  Flat(Each(SelectSeq(WideTargets, LAMBDA l : l # Id("n")),
            LAMBDA l : <<Set(p, Op1("addr", l)), Do(Op2("+=", Op1("deref", p), C(3))), Set(p, Op2("+", Id("a"), C(1)))>>))
Moving(p, r) == <<Do(Op2("-=", p, r)), Put(Op1("deref", p)), Do(Op2("+=", p, r)), Do(Op1("--", p)), Do(Op1("++", p))>>

Changes ==
  Each(<<"++", "--">>, LAMBDA k : InTurn(k, WideTargets \o NarrowTargets))
  \o Cross(<<"=", "+=", "-=", "*=", "/=", "%=", "&=", "|=", "^=">>, <<C(3), Id("i"), Arrow(Id("q"), "u")>>, Wides)
  \o Cross(<<"<<=", ">>=">>, <<C(2)>>, Wides)
  \o Cross(<<"=", "+=", "*=", "^=">>, <<C(3), Id("h"), Id("i")>>, Narrows)
  \o Each(Pointers, Pointing) \o Cross(Pointers, <<C(1), Id("i")>>, Moving)

Applied(k, b) == Each(<<C(29), Id("x"), At2(Id("p"), Id("i"))>>, LAMBDA a : Op2(k, a, b))
SizeOf(t) == [k |-> "sizeof_type", t |-> t, s |-> <<>>]
Cast(t, a) == [k |-> "cast", t |-> t, s |-> <<a>>]
Put2(a, b) == [k |-> "call", s |-> <<Id("put2"), a, b>>]

\* Expressions, some at a time.
Reads ==
  Cross(<<"+", "-", "*", "/", "%", "&", "|", "^">>, <<C(5), Id("i"), Arrow(Id("q"), "u")>>, Applied)
  \o Cross(<<"<<", ">>">>, <<C(2), Id("i")>>, Applied)
  \o <<Cross(<<"neg", "~">>, <<C(29), Id("x"), Arrow(Id("q"), "m")>>, Op1),
       Each(<<Id("a"), Id("p"), Op1("addr", At2(Id("a"), C(2)))>>, LAMBDA a : Op2("-", Op1("addr", At2(Id("a"), C(1))), a)),
       Cross(<<"+", "-">>, <<C(1), Id("i")>>, LAMBDA k, r : Op1("deref", Op2(k, Id("p"), r))),
       Each(<<Id("x"), Id("b"), Id("a"), Id("s"), Id("p"), Op1("deref", Id("q")), Dot(Id("s"), "v")>>, LAMBDA a : Op1("sizeof", a)),
       Each(<<U8, U64, Ptr(U8), Arr(3, Pair), Union("either")>>, SizeOf),
       Cross(<<U8, U64>>, <<Id("x"), Id("b"), At2(Id("a"), C(1)), C(29)>>, Cast),
       Each(<<C(1), C(2)>>, LAMBDA r : Op2("==", Id("p"), Op1("addr", At2(Id("a"), r)))),
       <<Op2(",", Op2("=", Id("x"), C(3)), Op2("+=", Id("x"), C(4))), Op2("=", Id("x"), Op2("=", Id("g"), C(9))),
         Op2("call", Id("put"), Op2("call", Id("put"), Id("x"))), Put2(Op2("call", Id("put"), C(4)), Put2(Id("x"), Id("b")))>>>>

\* In blocks of a few statements.
Blocks(sts) ==
  Block(<<>> \o [n \in 1..((Len(sts) + 9) \div 10) |->
                  Block(SubSeq(sts, 10 * n - 9, IF 10 * n > Len(sts) THEN Len(sts) ELSE 10 * n))])
DataFiles ==
  Each(Changes \o Each(Reads, LAMBDA A : Each(A, Put)),
       LAMBDA sts : Environment \o Globals \o <<Function("main", Variables \o <<Blocks(SetUp), Blocks(sts), Blocks(Look)>>)>>)

-----------------------------------------------------------------------------
(* Names: n may be declared in each of three blocks, outside of them, and  *)
(* as the argument; it is also set in each of them.                        *)

Ways == <<<<>>, <<Local("n", U64)>>, <<Static("n", U64)>>, <<Local("n", U8)>>>>
Nested(d1, d2) ==
  Each(Ways, LAMBDA d3 :
    <<Put(Id("n")),
      Block(d1 \o <<Set(Id("n"), C(3)), Block(<<Put(Id("n"))>> \o d2 \o <<Set(Id("n"), C(4)), Put(Id("n"))>>),
                    Block(d3 \o <<Set(Id("n"), C(5))>>), Put(Id("n")), If(C(0), GoTo("l"))>>),
      Put(Id("n")), Label("l")>>)
NameFiles ==
  Cross(<<<<>>, <<Local("n", U64)>>>>, Flat(Cross(Ways, Ways, Nested)),
        LAMBDA top, body : Environment \o top \o
          <<Function("f", <<Label("l"), Put(Id("n")), If(C(0), GoTo("l")), Label("k")>>), Function("main", body)>>)

-----------------------------------------------------------------------------
(* Files that are wrong, and some that nearly are.                         *)

Odd(body) == Environment \o <<Local("g", U64), Function("main", body)>>
OddFiles ==
  Each(<<<<Put(Id("m"))>>, <<Local("m", U64), Local("m", U64)>>, <<Local("n", U64)>>, <<Local("c", U8)>>,
         <<Local("m", U64), Block(<<Local("m", U64)>>), Put(C(1))>>, <<Local("m", U64), Static("m", U64)>>,
         <<Block(<<Local("m", U64)>>), Set(Id("m"), C(1))>>, <<Set(Id("m"), C(1)), Local("m", U64)>>,
         <<Break>>, <<If(C(1), Break)>>, <<While(Ask(1), Block(<<>>)), Break>>,
         <<While(Ask(1), While(Ask(2), Break)), Break>>,
         <<DoWhile(While(Ask(1), Put(C(1))), Ask(2)), Block(<<Break>>)>>,
         <<While(Id("n"), Do(Op1("--", Id("n")))), Put(Id("n"))>>,
         <<GoTo("l")>>, <<Block(<<Label("l"), Put(C(1))>>), If(Ask(1), GoTo("l"))>>,
         <<Local("g", U64), Set(Id("g"), C(2)), Put(Id("g"))>>>>, Odd)
  \o Each(<<<<Function("f", <<Label("l")>>), Function("main", <<GoTo("l")>>)>>,
            <<Local("g", U64), Local("g", U64), Function("main", <<>>)>>,
            <<Local("g", U64), Local("g", U8), Function("main", <<>>)>>,
            <<Function("f", <<>>), Function("f", <<>>), Function("main", <<>>)>>,
            <<Local("f", Fun(U64, <<U64, U8>>)), Function("f", <<>>), Function("main", <<Put(C(1))>>)>>,
            <<Local("f", Fun(U64, <<U64>>)), Function("f", <<>>), Function("main", <<>>)>>,
            Environment \o <<Function("main", <<Put(C(1))>>)>>,
            <<Function("main", <<Put(Id("g"))>>), Local("g", U64)>>>>, LAMBDA file : Environment \o file)
  \o <<<<Function("main", <<Put(C(1))>>)>>>>

-----------------------------------------------------------------------------

MCMembers == [pair |-> <<[x |-> "u", t |-> U8], [x |-> "m", t |-> U64], [x |-> "v", t |-> Arr(2, U64)]>>,
              either |-> <<[x |-> "u", t |-> U8], [x |-> "m", t |-> U64]>>]
ThenOneAndNone(A) == Each(A, LAMBDA t : t \o <<1, 0>>)

MCGiven == <<9, 1>>
MCFiles == Each(ControlFiles, LAMBDA f : [file |-> f, answers |-> ThenOneAndNone(Tuples(3)), calls |-> 15])
           \o Each(DataFiles \o NameFiles \o OddFiles, LAMBDA f : [file |-> f, answers |-> <<<<1, 0, 1>>>>, calls |-> 200])
MCNFiles == Len(MCFiles)

\* Compiled once.  The LET keeps TLC's statistics from looking into each use of it.
CompiledFiles == Each(MCFiles, Compiling)
MCCompilation(n) == LET all == CompiledFiles IN all[n]

CompilerInit ==
  \/ part = "asm" /\ Init /\ prog = 1 /\ asks = 1 /\ CompiledInit
  \/ part = "scc" /\ code = OneProgram /\ Init /\ CompiledInit

AsmStep == part = "asm" /\ Next /\ UNCHANGED <<part, compiledVars>>
SccStep == part = "scc" /\ CompiledNext /\ UNCHANGED <<part, vars>>

CompilerNext == AsmStep \/ SccStep

CompilerSpec ==
  /\ CompilerInit
  /\ [][CompilerNext]_<<part, vars, compiledVars>>
  /\ WF_<<part, vars, compiledVars>>(CompilerNext)

\* asm comes to an end, and so does what scc has made of a program that ends
\* (asm/main.c: while(s); scc/translate/branch.c, stmt.c).
AllEnds == (part = "asm" => Ends) /\ (part = "scc" => CompiledEnds)
=============================================================================
