------------------------------ MODULE CMeaning ------------------------------
(***************************************************************************)
(* What the programs that scc translates mean, without names of bcode,     *)
(* labels, offsets or temporary variables: C, as far as the language of    *)
(* scc has it.  A place in a function is the path to it in the tree; an    *)
(* object is the place of its declaration; a pointer is an object and the  *)
(* way into it (indices, and members by their number); memory is a         *)
(* function from these to values.                                          *)
(*                                                                         *)
(* A file is a sequence of declarations and functions.  Functions that are *)
(* only declared are the environment: a call of one is an event, and what  *)
(* it returns is given (s.ask) or follows from its arguments.              *)
(***************************************************************************)
EXTENDS Translate, FiniteSets

-----------------------------------------------------------------------------
(* Places and names.  c is the context: the file, the function (its index  *)
(* in the file), and the place.                                            *)

RECURSIVE Node(_, _)
Node(root, p) == IF p = <<>> THEN root ELSE Node(root.s[Head(p)], Tail(p))

Body(c) == c.file[c.fun].s[1]
IsDecl(st) == st.k \in {"decl", "static_decl"}

\* Where x is declared, in the innermost block around p that declares it before p;
\* <<>> if none does.
RECURSIVE InBlocks(_, _, _)
InBlocks(body, p, x) ==
  LET block == Node(body, Front(p))
      before == {i \in 1..(Last(p) - 1) : IsDecl(block.s[i]) /\ block.s[i].x = x}
  IN  IF p = <<>> THEN <<>>
      ELSE IF block.k = "block" /\ before # {} THEN Append(Front(p), CHOOSE i \in before : TRUE)
      ELSE InBlocks(body, Front(p), x)

Args(c) == c.file[c.fun].args
FileDecls(c, x) == {i \in 1..c.fun : c.file[i].x = x}

\* The object that x is.
Object(c, x) ==
  LET p == InBlocks(Body(c), c.at, x)
  IN  IF p # <<>> THEN p
      ELSE IF \E i \in DOMAIN Args(c) : Args(c)[i] = x THEN <<0, CHOOSE i \in DOMAIN Args(c) : Args(c)[i] = x>>
      ELSE <<-1, CHOOSE i \in FileDecls(c, x) : TRUE>>

Declared(c, x) ==
  InBlocks(Body(c), c.at, x) # <<>> \/ (\E i \in DOMAIN Args(c) : Args(c)[i] = x) \/ FileDecls(c, x) # {}

TypeOf(c, o) ==
  CASE o[1] = 0 -> array_function_to_pointer(c.file[c.fun].t.args[o[2]])
    [] o[1] = -1 -> c.file[o[2]].t
    [] OTHER -> Node(Body(c), o).t

-----------------------------------------------------------------------------
(* Values                                                                  *)

Number(n) == [n |-> n, o |-> <<>>, way |-> <<>>]
Pointer(o, way) == [n |-> 0, o |-> o, way |-> way]
IsTrue(v) == v.n # 0 \/ v.o # <<>>

\* n elements further; a pointer to what is no element moves nowhere.
Moved(v, n) == IF n % Word = 0 THEN v ELSE [v EXCEPT !.way = Append(Front(@), (Last(@) + n) % Word)]

Fits(t, v) == IF t.k = "u8" THEN [v EXCEPT !.n = @ % Byte] ELSE v
Read(s, o, way) == LET l == <<o, way>> IN IF l \in DOMAIN s.mem THEN s.mem[l] ELSE Number(0)
Written(s, o, way, t, v) == [s EXCEPT !.mem = (<<o, way>> :> Fits(t, v)) @@ @]

\* s.st is "stopped" once the environment answers no more.
CallEvent(c, s, f, args) ==
  LET name == c.file[f].x
      n == Cardinality({i \in DOMAIN s.log : s.log[i][1] = "ask"}) + 1
      stops == Len(s.log) = s.calls \/ (name = "ask" /\ n > Len(s.answers))
  IN  CASE s.st # "runs" -> [v |-> Number(0), s |-> s]
        [] s.st = "runs" /\ stops -> [v |-> Number(0), s |-> [s EXCEPT !.st = "stopped"]]
        [] OTHER -> [v |-> Number(IF name = "ask" THEN s.answers[n] ELSE IF args = <<>> THEN 1 ELSE Head(args) + 1),
                     s |-> [s EXCEPT !.log = Append(@, <<name>> \o args)]]

-----------------------------------------------------------------------------
(* Expressions: Ref is an object or a part of one, Val is a value.         *)

RECURSIVE Ref(_, _, _), Val(_, _, _)

IsRef(x) == x.k \in {"Identifier", "deref", "[]", ".", "->"}

Ref(c, x, s) ==
  CASE x.k = "Identifier" -> LET o == Object(c, x.x) IN [t |-> TypeOf(c, o), o |-> o, way |-> <<>>, s |-> s]
    [] x.k = "deref" -> LET V == Val(c, x.s[1], s) IN [t |-> V.t.to, o |-> V.v.o, way |-> V.v.way, s |-> V.s]
    [] x.k = "[]" -> LET A == Val(c, x.s[1], s)
                         I == Val(c, x.s[2], A.s)
                         v == Moved(A.v, I.v.n)
                     IN  [t |-> A.t.to, o |-> v.o, way |-> v.way, s |-> I.s]
    [] x.k = "." -> LET R == Ref(c, x.s[1], s)
                    IN  [R EXCEPT !.t = get_member_type(R.t, x.x), !.way = Append(@, MemberAt(R.t, x.x))]
    [] x.k = "->" -> LET V == Val(c, x.s[1], s)
                     IN  [t |-> get_member_type(V.t.to, x.x), o |-> V.v.o,
                          way |-> Append(V.v.way, MemberAt(V.t.to, x.x)), s |-> V.s]

\* Of what a reference leads to: an array is a pointer to its first element.
Loads(R) ==
  CASE R.t.k = "array" -> [t |-> Ptr(R.t.to), v |-> Pointer(R.o, Append(R.way, 0)), s |-> R.s]
    [] R.t.k = "function" -> [t |-> Ptr(R.t), v |-> Pointer(R.o, <<>>), s |-> R.s]
    [] OTHER -> [t |-> R.t, v |-> Read(R.s, R.o, R.way), s |-> R.s]

Plus(A, n) == IF A.t.k = "pointer" THEN Moved(A.v, n) ELSE Number((A.v.n + n) % Word)

OpName(k) ==
  CASE k = "*" -> "mul" [] k = "/" -> "div" [] k = "%" -> "mod" [] k = "&" -> "and"
    [] k = "|" -> "orr" [] k = "^" -> "eor" [] k = "<<" -> "lsh" [] k = ">>" -> "rsh"

Comparison(k, v, w) ==
  CASE k = "==" -> v = w [] k = "!=" -> v # w [] k = "<" -> v.n < w.n [] k = ">" -> v.n > w.n
    [] k = "<=" -> v.n <= w.n [] k = ">=" -> v.n >= w.n

Truth(b) == Number(IF b THEN 1 ELSE 0)

\* An operation on values that were read already.
Operated(k, A, B) ==
  CASE k = "+" -> Plus(A, B.v.n)
    [] k = "-" /\ B.t.k # "pointer" -> Plus(A, -B.v.n)
    [] k = "-" /\ B.t.k = "pointer" -> Number((Last(A.v.way) - Last(B.v.way)) % Word)
    [] k \in DOMAIN Relops -> Truth(Comparison(k, A.v, B.v))
    [] OTHER -> Number(Arith(OpName(k), A.v.n, B.v.n))

Binary == {"+", "-", "*", "/", "%", "&", "|", "^", "<<", ">>"} \cup DOMAIN Relops

\* What the operator of an assignment does.
Assigning == [o \in {"+=", "-=", "*=", "/=", "%=", "<<=", ">>=", "&=", "|=", "^="} |->
                CASE o = "+=" -> "+" [] o = "-=" -> "-" [] o = "*=" -> "*" [] o = "/=" -> "/" [] o = "%=" -> "%"
                  [] o = "<<=" -> "<<" [] o = ">>=" -> ">>" [] o = "&=" -> "&" [] o = "|=" -> "|" [] o = "^=" -> "^"]

Stored(R, s, v) == [t |-> R.t, v |-> Fits(R.t, v), s |-> Written(s, R.o, R.way, R.t, v)]

\* Arguments, of which the last is calculated first, as a sequence of numbers.
Arguments(c, xs, s) ==
  Fold(LAMBDA r, x : LET V == Val(c, x, r.s) IN [ns |-> <<V.v.n>> \o r.ns, s |-> V.s], [ns |-> <<>>, s |-> s], Reverse(xs))

Val(c, x, s) ==
  CASE IsRef(x) -> Loads(Ref(c, x, s))
    [] x.k = "Constant" -> [t |-> U64, v |-> Number(x.n), s |-> s]
    [] x.k = "," -> Val(c, x.s[2], Val(c, x.s[1], s).s)
    [] x.k = "=" -> LET R == Ref(c, x.s[1], s)
                        V == Val(c, x.s[2], R.s)
                    IN  Stored(R, V.s, V.v)
    [] x.k \in DOMAIN Assigning -> LET R == Ref(c, x.s[1], s)
                                       V == Val(c, x.s[2], R.s)
                                       A == [t |-> R.t, v |-> Read(V.s, R.o, R.way)]
                                   IN  Stored(R, V.s, Operated(Assigning[x.k], A, V))
    [] x.k \in {"++", "--"} -> LET R == Ref(c, x.s[1], s)
                                   A == [t |-> R.t, v |-> Read(R.s, R.o, R.way)]
                               IN  Stored(R, R.s, Plus(A, IF x.k = "++" THEN 1 ELSE -1))
    [] x.k \in Binary -> LET A == Val(c, x.s[1], s)
                             B == Val(c, x.s[2], A.s)
                         IN  [t |-> IF A.t.k = "pointer" /\ x.k \in {"+", "-"} /\ B.t.k # "pointer" THEN A.t ELSE U64,
                              v |-> Operated(x.k, A, B), s |-> B.s]
    [] x.k = "neg" -> LET A == Val(c, x.s[1], s) IN [A EXCEPT !.v = Number((-A.v.n) % Word)]
    [] x.k = "~" -> LET A == Val(c, x.s[1], s) IN [A EXCEPT !.v = Number(Word - 1 - A.v.n)]
    [] x.k = "!" -> LET A == Val(c, x.s[1], s) IN [t |-> U64, v |-> Truth(~IsTrue(A.v)), s |-> A.s]
    [] x.k = "&&" -> LET A == Val(c, x.s[1], s)
                         B == Val(c, x.s[2], A.s)
                     IN  IF IsTrue(A.v) THEN [t |-> U64, v |-> Truth(IsTrue(B.v)), s |-> B.s]
                         ELSE [t |-> U64, v |-> Number(0), s |-> A.s]
    [] x.k = "||" -> LET A == Val(c, x.s[1], s)
                         B == Val(c, x.s[2], A.s)
                     IN  IF IsTrue(A.v) THEN [t |-> U64, v |-> Number(1), s |-> A.s]
                         ELSE [t |-> U64, v |-> Truth(IsTrue(B.v)), s |-> B.s]
    [] x.k = "addr" -> LET R == Ref(c, x.s[1], s) IN [t |-> Ptr(R.t), v |-> Pointer(R.o, R.way), s |-> R.s]
    [] x.k = "sizeof" -> [t |-> U64, v |-> Number(type_size(Ref(c, x.s[1], s).t)), s |-> s]
    [] x.k = "sizeof_type" -> [t |-> U64, v |-> Number(type_size(x.t)), s |-> s]
    [] x.k = "cast" -> LET A == Val(c, x.s[1], s) IN [t |-> x.t, v |-> Fits(x.t, A.v), s |-> A.s]
    [] x.k = "call" -> LET F == Val(c, x.s[1], s)
                           A == Arguments(c, Tail(x.s), F.s)
                           E == CallEvent(c, A.s, F.v.o[2], A.ns)
                       IN  [t |-> F.t.to.to, v |-> E.v, s |-> E.s]

-----------------------------------------------------------------------------
(* Statements: where control goes.  A point is a place and whether it is   *)
(* entered or, of a dowhile, its condition is tested.                      *)

Enter(p) == [at |-> p, test |-> FALSE]
End == [at |-> <<0>>, test |-> FALSE]

\* Following the statement at p.
RECURSIVE Following(_, _)
Following(body, p) ==
  IF p = <<>> THEN End
  ELSE LET q == Front(p)
           up == Node(body, q)
       IN  CASE up.k = "block" -> IF Last(p) < Len(up.s) THEN Enter(Append(q, Last(p) + 1)) ELSE Following(body, q)
             [] up.k \in {"if", "ifelse"} -> Following(body, q)
             [] up.k = "while" -> Enter(q)
             [] up.k = "dowhile" -> [at |-> q, test |-> TRUE]

Loops(body, p) == {n \in 0..(Len(p) - 1) : Node(body, SubSeq(p, 1, n)).k \in {"while", "dowhile"}}
Innermost(body, p) == SubSeq(p, 1, CHOOSE n \in Loops(body, p) : \A m \in Loops(body, p) : m <= n)

IsStmt(st) == st.k \in {"decl", "static_decl", "expr", "block", "return", "if", "ifelse", "while", "dowhile",
                        "break", "goto", "Label"}

\* All places of a function.
RECURSIVE Places(_, _)
Places(body, p) ==
  {p} \cup UNION {Places(body, Append(p, i)) : i \in {j \in DOMAIN Node(body, p).s : IsStmt(Node(body, p).s[j])}}

LabelAt(body, x) == {p \in Places(body, <<>>) : Node(body, p).k = "Label" /\ Node(body, p).x = x}

\* One statement, or the part of it up to the next one: the next point and the new s.
Executed(c, point, s) ==
  LET body == Body(c)
      p == point.at
      st == Node(body, p)
      goes(to, s1) == [to |-> to, s |-> s1]
  IN  CASE st.k \in {"decl", "static_decl", "Label"} -> goes(Following(body, p), s)
        [] st.k = "block" -> goes(IF st.s = <<>> THEN Following(body, p) ELSE Enter(Append(p, 1)), s)
        [] st.k = "expr" -> goes(Following(body, p), Val(c, st.s[1], s).s)
        [] st.k = "return" -> IF st.s = <<>> THEN goes(End, s)
                              ELSE LET V == Val(c, st.s[1], s)
                                   IN  goes(End, IF V.s.st = "runs" THEN [V.s EXCEPT !.ret = V.v.n] ELSE V.s)
        [] st.k \in {"if", "while"} -> LET V == Val(c, st.s[1], s)
                                       IN  goes(IF IsTrue(V.v) THEN Enter(Append(p, 2)) ELSE Following(body, p), V.s)
        [] st.k = "ifelse" -> LET V == Val(c, st.s[1], s)
                              IN  goes(Enter(Append(p, IF IsTrue(V.v) THEN 2 ELSE 3)), V.s)
        [] st.k = "dowhile" /\ ~point.test -> goes(Enter(Append(p, 1)), s)
        [] st.k = "dowhile" /\ point.test -> LET V == Val(c, st.s[2], s)
                                             IN  goes(IF IsTrue(V.v) THEN Enter(p) ELSE Following(body, p), V.s)
        [] st.k = "break" -> goes(Following(body, Innermost(body, p)), s)
        [] st.k = "goto" -> goes(Following(body, CHOOSE q \in LabelAt(body, st.x) : TRUE), s)

\* From a point to the end.
RECURSIVE Run(_, _, _)
Run(c, point, s) ==
  IF s.st # "runs" \/ point = End THEN s
  ELSE LET E == Executed([c EXCEPT !.at = point.at], point, s) IN Run(c, E.to, E.s)

\* What a program and its lines begin with.
Fresh(answers, calls) == [log |-> <<>>, st |-> "runs", ret |-> 0, answers |-> answers, calls |-> calls]

\* What the last function of a file calls and returns, with these arguments.
Meaning(file, given, answers, calls) ==
  LET s == Run([file |-> file, fun |-> Len(file), at |-> <<>>], Enter(<<>>),
               Fresh(answers, calls) @@ [mem |-> [l \in {<<<<0, i>>, <<>>>> : i \in DOMAIN given} |-> Number(given[l[1][2]])]])
  IN  [log |-> s.log, st |-> s.st, ret |-> s.ret]

-----------------------------------------------------------------------------
(* What C refuses, of what the translator is to refuse.                    *)

RECURSIVE NamesIn(_)
NamesIn(x) == (IF x.k = "Identifier" THEN {x.x} ELSE {}) \cup
            (IF "s" \in DOMAIN x THEN UNION {NamesIn(x.s[i]) : i \in DOMAIN x.s} ELSE {})

NamesAt(st) == UNION {NamesIn(st.s[i]) : i \in {j \in DOMAIN st.s : ~IsStmt(st.s[j])}}

WellFormedFun(file, f) ==
  LET c(p) == [file |-> file, fun |-> f, at |-> p]
      body == file[f].s[1]
      args == file[f].args
      same(p, i, j) == LET b == Node(body, p) IN IsDecl(b.s[i]) /\ IsDecl(b.s[j]) /\ b.s[i].x = b.s[j].x
  IN  /\ \A p \in Places(body, <<>>) :
           LET st == Node(body, p)
           IN  /\ \A x \in NamesAt(st) : Declared(c(p), x)
               /\ st.k = "block" => \A i, j \in DOMAIN st.s : same(p, i, j) => i = j
               /\ st.k = "break" => Loops(body, p) # {}
               /\ st.k = "goto" => LabelAt(body, st.x) # {}
      /\ \A i, j \in DOMAIN args : args[i] = args[j] => i = j
      /\ \A i \in DOMAIN body.s : IsDecl(body.s[i]) => \A j \in DOMAIN args : args[j] # body.s[i].x

WellFormed(file) ==
  /\ \A f \in DOMAIN file : file[f].k = "fundef" => WellFormedFun(file, f)
  /\ \A i, j \in DOMAIN file : i < j /\ file[i].x = file[j].x =>
       file[i].k = "decl" /\ file[i].t.k = "function" /\ file[i].t = file[j].t
=============================================================================
