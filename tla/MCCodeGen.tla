----------------------------- MODULE MCCodeGen -----------------------------
(* Bytes of two bits.  Three variables, each in a register or in memory,   *)
(* and an object; the words above a variable are all ones or all zeros.    *)
EXTENDS CodeGen

V(v) == [kind |-> "var", v |-> v, n |-> 0]
Num(n) == [kind |-> "num", v |-> "", n |-> n]
Flt(n) == [kind |-> "float", v |-> "", n |-> n]
Label(n) == [kind |-> "label", v |-> "", n |-> n]
a == V("a")
b == V("b")
c == V("c")
o == V("o")

(* A line: a generator, an operation or the class of a word, operands.     *)
L(gen, op, k, p, q, r, off) == [gen |-> gen, op |-> op, k |-> k, a |-> p, b |-> q, c |-> r, off |-> off]
Plain(gen, p, q) == L(gen, "", 0, p, q, q, 0)
Operation(gen, op, p, q, r) == L(gen, op, 0, p, q, r, 0)
Sized(gen, k, p, q, off) == L(gen, "", k, p, q, q, off)

Regs == [a |-> "rbx", b |-> "rsi", c |-> "rdi"]
Addr == [a |-> 0, b |-> 8, c |-> 16]
MCObject == 24..35
MCSaved == <<"rbx", "rsi", "rdi">>

Var(v, k, inReg) ==
    [class |-> k, reg |-> IF inReg THEN Regs[v] ELSE "", addr |-> Addr[v], arg |-> FALSE, unused |-> FALSE]
TheObject == [class |-> 0, reg |-> "", addr |-> 24, arg |-> FALSE, unused |-> FALSE]

(* The number v of class k in a word whose other bits are all ones or zeros. *)
Spoilt(k, v, spoil) ==
    Word(k, v) + (IF spoil THEN 2 * Half(8) - 2 * Half(Bytes(k)) ELSE 0)

MachineOf(d, num, spoil) ==
    LET w == [v \in {"a", "b", "c"} |-> Spoilt(d[v].class, num[v], spoil)]
    IN  [r |-> [rax |-> Junk, rcx |-> Junk, rdx |-> Junk, xmm0 |-> Junk, xmm1 |-> Junk, rbp |-> 0,
                rbx |-> w.a, rsi |-> w.b, rdi |-> w.c],
         mem |-> [i \in 0..(MemSize - 1) |->
                    IF i < 24 THEN (w[IF i < 8 THEN "a" ELSE IF i < 16 THEN "b" ELSE "c"] \div 2 ^ (Byte * (i % 8))) % 2 ^ Byte
                    ELSE (3 * i + i \div 4) % 2 ^ Byte],
         stack |-> <<>>, called |-> <<>>, jumped |-> FALSE, fault |-> "",
         flags |-> [equal |-> FALSE, below |-> FALSE, less |-> FALSE]]

Ends(k) == IF IsFloat(k) THEN {-3, 2} ELSE IF SignedClass(k) THEN {-Half(Bytes(k)), Half(Bytes(k)) - 1}
           ELSE {1, 2 * Half(Bytes(k)) - 1}

N3(x, y, z) == [a |-> x, b |-> y, c |-> z]

Ints == 1..8
Floats == {9, 10}
Some == {1, 4, 5, 6, 7}
Pointers == {5, 6, 7, 8}
Sizes == {1, 3, 5, 7, 9, 10}
Words8 == {7, 9, 10}
Nums == {0, 1, 2, 3, 127, 128, 4096, 65408, 65535}
Consts == {Num(n) : n \in Nums} \cup {Label(37)}

Spare(v) == Var(v, 7, FALSE)
Three == {[a |-> Var("a", k[1], i[1]), b |-> Var("b", k[2], i[2]), c |-> Var("c", k[3], i[3]), o |-> TheObject] :
            k \in (Some \X Some \X Some) \cup (Floats \X Floats \X Floats), i \in BOOLEAN \X BOOLEAN \X BOOLEAN}
Two == {[a |-> Var("a", k[1], i[1]), b |-> Var("b", k[2], i[2]), c |-> Spare("c"), o |-> TheObject] :
          k \in Classes \X Classes, i \in BOOLEAN \X BOOLEAN}
One == {[a |-> Var("a", k, i), b |-> Spare("b"), c |-> Spare("c"), o |-> TheObject] : k \in Classes, i \in BOOLEAN}

(* A function of two arguments: the first one in a register, the second    *)
(* perhaps.                                                                *)
Called == {[a |-> [Var("a", k[1], TRUE) EXCEPT !.arg = TRUE], b |-> [Var("b", k[2], i) EXCEPT !.arg = TRUE],
            c |-> [Var("c", k[3], TRUE) EXCEPT !.unused = u], o |-> TheObject] :
            k \in {1, 6, 7} \X {4, 7} \X {5, 7}, i \in BOOLEAN, u \in BOOLEAN}

Operations == {<<"gen_mul", "mul">>, <<"gen_div", "div">>, <<"gen_mod", "mod">>, <<"gen_lsh", "lsh">>,
               <<"gen_rsh", "rsh">>} \cup ({"gen_basic_op"} \X {"add", "sub", "and", "or", "xor"})
Conditions == {"ble", "bge", "blt", "bgt", "beq", "bne"}

Arith(p, q, r) == {Operation(x[1], x[2], p, q, r) : x \in Operations}
Unary(p, q) == {Plain(g, p, q) : g \in {"gen_mov", "gen_neg", "gen_not"}}
Branches(p, q) == {Operation("gen_branch", x, p, q, q) : x \in Conditions}
Lds(p, q) == {Sized("gen_ld", k, p, q, n) : k \in Sizes, n \in {0, 3}}
Sts(p, q) == {Sized("gen_st", k, p, q, n) : k \in Sizes, n \in {0, 3}}
Calls(p, q) == {Sized("gen_call", k, p, q, 0) : k \in {8, 9, 10}}
Pushes(p) == {Sized("gen_push", k, p, p, 0) : k \in Words8}
Retvals(p) == {Sized("gen_retval", k, p, p, 0) : k \in Words8}
Adrs(p, q) == {Sized("gen_adr", 0, p, q, n) : n \in {0, 3}}
Del(n) == Sized("del", 0, a, a, n)

ThreeLines == Arith(a, b, c)

TwoLines ==
    Unary(a, b) \cup Unary(a, a) \cup Branches(a, b) \cup Lds(a, b) \cup Sts(a, b) \cup Calls(a, b)
    \cup Adrs(a, b)

SomeTwoLines ==
    Arith(a, a, b) \cup Arith(a, b, a) \cup Arith(a, b, b) \cup Arith(a, o, b)
    \cup UNION {Arith(a, b, k) : k \in Consts} \cup Arith(a, Num(3), b) \cup Arith(a, Num(65535), b)

OneLines ==
    UNION {Unary(a, x) \cup Branches(a, x) \cup Branches(x, a) \cup Pushes(x) : x \in Consts \cup {Flt(2), o}}
    \cup UNION {Lds(a, x) \cup Sts(x, a) : x \in {o, Num(24), Label(24)}}
    \cup UNION {Sts(a, x) : x \in Consts \cup {Flt(2), o}}
    \cup UNION {Sts(o, x) : x \in {Num(65535), Flt(2), o}}
    \cup Pushes(a) \cup Calls(a, Label(37)) \cup Calls(a, o) \cup Adrs(a, o)

Bodies ==
    {<<Sized("gen_push", 7, b, b, 0), Sized("gen_push", 7, a, a, 0), Sized("gen_call", 8, c, Label(37), 0), Del(2),
       Operation("gen_basic_op", "add", a, a, b)>>,
     <<Plain("gen_mov", c, a), Operation("gen_mul", "mul", c, c, Num(3)), Sized("gen_st", 5, o, c, 0),
       Operation("gen_branch", "blt", c, b, b), Sized("gen_ld", 3, b, o, 1), Del(0)>>}

(* The function a body belongs to. *)
Function(body) == <<Plain("fun", a, a)>> \o body \o <<Plain("endf", a, a)>>

(***************************************************************************)
(* Lines that do not compute what they say; the reasons are in README.md.  *)
(***************************************************************************)
RegIn(d, x) == x.kind = "var" /\ d[x.v].class # 0 /\ d[x.v].reg # ""
MemIn(d, x) == x.kind = "var" /\ d[x.v].class # 0 /\ d[x.v].reg = ""
ClassIn(d, x) == IF x.kind = "var" THEN d[x.v].class ELSE 0
IsFloatIn(d, x) == x.kind = "float" \/ IsFloat(ClassIn(d, x))

AddsNarrowRegister(d, l) ==
    /\ l.gen = "gen_basic_op" /\ MemIn(d, l.a) /\ l.b # l.a
    /\ (MemIn(d, l.b) \/ RegIn(d, l.b))
    /\ RegIn(d, l.c) /\ Rank(ClassIn(d, l.c)) < Rank(ClassIn(d, l.a))

AddsWithLea(d, l) ==
    /\ l.gen = "gen_basic_op" /\ l.op = "add"
    /\ RegIn(d, l.a) /\ RegIn(d, l.b) /\ RegIn(d, l.c) /\ l.a \notin {l.b, l.c}
    /\ Rank(ClassIn(d, l.a)) = 3
    /\ \E k \in {ClassIn(d, l.b), ClassIn(d, l.c)} : Rank(k) = 2 \/ (Rank(k) < 2 /\ SignedClass(k))

MultipliesByHighBit(d, l) ==
    /\ l.gen = "gen_mul" /\ RegIn(d, l.a) /\ RegIn(d, l.b)
    /\ Rank(ClassIn(d, l.a)) < 3 /\ l.c.kind = "num" /\ l.c.n \in {2 ^ x : x \in (4 * Byte)..(8 * Byte - 1)}

DividesBytes(d, l) == l.gen = "gen_div" /\ Rank(ClassIn(d, l.a)) = 0

ModLooksElsewhere(d, l) ==
    /\ l.gen = "gen_mod" /\ MemIn(d, l.c)
    /\ \/ IsConst(l.b)
       \/ SignedClass(ClassIn(d, l.b)) /\ ~SignedClass(ClassIn(d, l.c))
       \/ ClassIn(d, l.b) = 0 /\ SignedClass(ClassIn(d, l.c))

UnaryReadsTooMuch(d, l) ==
    /\ l.gen \in {"gen_neg", "gen_not"} /\ RegIn(d, l.a) /\ MemIn(d, l.b)
    /\ Rank(ClassIn(d, l.a)) > Rank(ClassIn(d, l.b))

(* A register that is converted in place, or an integer in rax or rcx that *)
(* would become a float; constants and addresses among floats.             *)
FloatsGoWrong(d, l) ==
    LET k == ClassIn(d, l.a)
        j == ClassIn(d, l.b)
        mixed(x, p) == (p.kind = "var") /\ (IsFloat(x) # IsFloat(ClassIn(d, p)))
        converts(x, p) == x # ClassIn(d, p) /\ (IsFloat(x) \/ IsFloatIn(d, p))
        odd(x, p) == (IsConst(p) \/ ClassIn(d, p) = 0) /\ ~(x = 10 /\ p.kind \in {"num", "float"})
                     /\ (IsFloat(x) \/ p.kind = "float") /\ p.n # 0
    IN  CASE l.gen = "gen_mov" ->
               \/ IsFloat(k) /\ mixed(k, l.b) /\ (MemIn(d, l.a) \/ j \in {0, 8})
               \/ odd(k, l.b)
          [] l.gen = "gen_neg" ->
               \/ IsFloat(k) /\ ~IsFloat(j)
               \/ odd(k, l.b)
               \/ IsFloat(j) /\ ~IsFloat(k) /\ RegIn(d, l.a) # RegIn(d, l.b)
          [] l.gen = "gen_not" -> IsFloat(k) \/ IsFloatIn(d, l.b)
          [] l.gen \in {"gen_mul", "gen_div", "gen_basic_op", "gen_mod", "gen_lsh", "gen_rsh"} ->
               {IsFloatIn(d, l.a), IsFloatIn(d, l.b), IsFloatIn(d, l.c)} = BOOLEAN
          [] l.gen = "gen_branch" ->
               \/ odd(k, l.b) \/ odd(j, l.a)
               \/ mixed(k, l.b) /\ ~IsConst(l.a)
               \/ mixed(j, l.a) /\ ~IsConst(l.b)
          [] l.gen = "gen_ld" -> IsFloat(k) /\ ~IsFloat(l.k) /\ MemIn(d, l.a)
          [] l.gen = "gen_st" ->
               \/ RegIn(d, l.b) /\ converts(l.k, l.b)
               \/ MemIn(d, l.b) /\ IsFloat(l.k) /\ ~IsFloat(j)
               \/ odd(l.k, l.b)
               \/ RegIn(d, l.a) /\ IsFloat(l.k) /\ IsConst(l.b)
          [] l.gen = "gen_retval" ->
               \/ IsFloat(l.k) /\ ~IsFloat(k) /\ (MemIn(d, l.a) \/ k = 8)
               \/ IsConst(l.a) /\ l.k = 9
          [] l.gen = "gen_push" ->
               \/ IsFloat(l.k) /\ ~IsFloat(k) /\ ~IsConst(l.a)
               \/ IsConst(l.a) /\ (IsFloat(l.k) \/ l.a.kind = "float")
          [] l.gen = "gen_call" -> IsFloat(k) /\ l.k = 8
          [] OTHER -> FALSE

(* A constant goes to a pointer that has not been extended. *)
StoresByNarrowPointer(d, l) ==
    l.gen = "gen_st" /\ RegIn(d, l.a) /\ l.b.kind \in {"num", "float"} /\ ClassIn(d, l.a) \notin {7, 8}

UsesFloat(d, l) ==
    \/ IsFloatIn(d, l.a) \/ IsFloatIn(d, l.b)
    \/ l.gen \in {"gen_ld", "gen_st", "gen_push", "gen_retval", "gen_call"} /\ IsFloat(l.k)

(* Lines that are no bcode: a pointer of a class that holds no address, an *)
(* address of a register.                                                  *)
Meant(d, l) ==
    /\ l.gen = "gen_ld" /\ l.b = b => d.b.class \in Pointers
    /\ l.gen = "gen_st" /\ l.a = a => d.a.class \in Pointers
    /\ l.gen = "gen_call" /\ l.b = b => d.b.class \in Pointers
    /\ l.gen = "gen_adr" => ~RegIn(d, l.b) /\ ClassIn(d, l.a) \in Ints
    /\ IsFloat(ClassIn(d, l.a)) => l.op \notin {"and", "or", "xor", "mod", "lsh", "rsh"}
    /\ \A x \in {l.a, l.b} : (x.kind = "label" \/ (x.kind = "var" /\ ClassIn(d, x) = 0)) => ~UsesFloat(d, l)

Kept(d, l) ==
    /\ Meant(d, l)
    /\ ~(\/ AddsNarrowRegister(d, l) \/ AddsWithLea(d, l) \/ MultipliesByHighBit(d, l) \/ DividesBytes(d, l)
         \/ ModLooksElsewhere(d, l) \/ UnaryReadsTooMuch(d, l) \/ FloatsGoWrong(d, l) \/ StoresByNarrowPointer(d, l))

MCDeclarations == Three \cup Two \cup One \cup Called

MCFunctions(d) ==
    LET lines == (IF d \in Three THEN ThreeLines ELSE {})
                 \cup (IF d \in Two THEN TwoLines ELSE {})
                 \cup (IF d \in Two /\ {d.a.class, d.b.class} \subseteq Some THEN SomeTwoLines ELSE {})
                 \cup (IF d \in One THEN OneLines ELSE {})
    IN  {<<l>> : l \in {k \in lines : Kept(d, k)}}
        \cup {Function(<<l>>) : l \in {k \in IF d \in One THEN Retvals(a) \cup Retvals(Num(3)) \cup Retvals(o) ELSE {} :
                                        Kept(d, k)}}
        \cup {Function(Append(ls, Sized("gen_retval", 7, a, a, 0))) : ls \in IF d \in Called THEN Bodies ELSE {}}

(* The numbers a variable begins with: one is enough for what is not read. *)
Read(v, l) ==
    \/ l.b.v = v \/ l.c.v = v
    \/ l.a.v = v /\ l.gen \in {"gen_st", "gen_push", "gen_retval", "gen_branch"}

Starts(v, p) ==
    IF \E i \in DOMAIN p.lines : LET l == p.lines[i] IN \/ l.gen = "gen_ld" /\ l.b.v = v
                                                        \/ l.gen = "gen_st" /\ l.a.v = v
    THEN {24, 25}
    ELSE IF \E i \in DOMAIN p.lines : Read(v, p.lines[i]) THEN Ends(p.decl[v].class) ELSE {1}

MCMachines(p) ==
    {MachineOf(p.decl, N3(x, y, z), s) : x \in Starts("a", p), y \in Starts("b", p), z \in Starts("c", p), s \in BOOLEAN}
==============================================================================
