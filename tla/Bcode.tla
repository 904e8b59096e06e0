------------------------------- MODULE Bcode -------------------------------
(***************************************************************************)
(* What a program of bcode computes, whatever place its variables have: a  *)
(* result gets the class of its variable, the operands of arithmetic are   *)
(* taken in the class of the result, and an operation is unsigned when one *)
(* of its variables is.                                                    *)
(*                                                                         *)
(* A program is a sequence of lines over declared variables; a variable of *)
(* class 0 is an object in memory and stands for its address.  What a      *)
(* division by zero does, or a pointer to nothing, is left open: the       *)
(* program is then undefined.                                              *)
(***************************************************************************)
EXTENDS Words, Sequences, SequencesExt, Bitwise

CONSTANTS Vars, Object, Answer

VARIABLES
    prog,       \* declarations and lines
    pc,         \* the line that is executed next
    val,        \* the number in each variable
    bytes,      \* the contents of the object
    args,       \* what has been pushed for a call, the last first
    called,     \* the functions that have been called
    jumped,     \* whether the last branch was taken
    ret,        \* the value of the function, when it has one
    fault       \* "undefined" when anything may happen

vars == <<prog, pc, val, bytes, args, called, jumped, ret, fault>>

Line == prog.lines[pc]
Class(o) == prog.decl[o.v].class
IsVar(o) == o.kind = "var" /\ Class(o) # 0

Raw(o) == CASE IsVar(o) -> val[o.v]
            [] o.kind = "var" -> prog.decl[o.v].addr
            [] OTHER -> o.n

Num(o, c) == Convert(c, Raw(o))
Bits(o, c) == Word(c, Raw(o))

(* Whether an operation on some operands is a signed one. *)
Signed(os) == \A o \in os : IsVar(o) => SignedClass(Class(o))

Continues == pc' = pc + 1 /\ UNCHANGED prog
Only(changed) == changed /\ Continues

Assigned(o, v) == val' = [val EXCEPT ![o.v] = Convert(Class(o), v)]

Computes(o, v) ==
    /\ Assigned(o, v)
    /\ Continues
    /\ UNCHANGED <<bytes, args, called, jumped, ret, fault>>

Undefined ==
    /\ fault' = "undefined"
    /\ Continues
    /\ UNCHANGED <<val, bytes, args, called, jumped, ret>>

Combined(op, x, y, k) ==
    IF IsFloat(k) THEN FloatResult(op, FloatNumber(x, Bytes(k)), FloatNumber(y, Bytes(k)))
    ELSE CASE op = "add" -> x + y
           [] op = "sub" -> x - y
           [] op = "and" -> x & y
           [] op = "or" -> x | y
           [] op = "xor" -> x ^^ y
           [] op = "mul" -> Product(x, y, Bytes(k))

Basic(l) == Computes(l.a, Combined(l.op, Bits(l.b, Class(l.a)), Bits(l.c, Class(l.a)), Class(l.a)))

Division(l) ==
    LET k == Class(l.a)
        signed == Signed({l.b, l.c})
        x == Number(signed, Bits(l.b, k), Bytes(k))
        y == Number(signed, Bits(l.c, k), Bytes(k))
    IN  IF IsFloat(k) THEN Computes(l.a, FloatResult("div", Num(l.b, k), Num(l.c, k)))
        ELSE IF y = 0 \/ Number(signed, Quotient(x, y), Bytes(k)) # Quotient(x, y) THEN Undefined
        ELSE Computes(l.a, IF l.op = "div" THEN Quotient(x, y) ELSE Remainder(x, y))

(* The count of a shift is its lowest byte. *)
Shift(l) ==
    LET k == Class(l.a)
        by == 2 ^ Low(Raw(l.c), 1)
        x == Number(Signed({l.b}), Bits(l.b, k), Bytes(k))
    IN  Computes(l.a, IF l.op = "lsh" THEN Low(x * by, Bytes(k)) ELSE x \div by)

Holds(cond, x, y) ==
    CASE cond = "beq" -> x = y
      [] cond = "bne" -> x # y
      [] cond = "blt" -> x < y
      [] cond = "ble" -> x <= y
      [] cond = "bgt" -> x > y
      [] cond = "bge" -> x >= y

(* The operands are compared in the greater of their classes. *)
Branch(l) ==
    LET os == {o \in {l.a, l.b} : IsVar(o)}
        c == IF os = {} THEN 8
             ELSE CHOOSE c \in {Class(o) : o \in os} : \A o \in os : c >= Class(o)
        of(o) == IF IsFloat(c) THEN Num(o, c) ELSE Number(Signed({l.a, l.b}), Bits(o, c), Bytes(c))
    IN  /\ jumped' = Holds(l.op, of(l.a), of(l.b))
        /\ Continues
        /\ UNCHANGED <<val, bytes, args, called, ret, fault>>

(* Bytes of the object, through a pointer and an offset. *)
Pointed(p, l) == Bits(p, 8) + l.off

ObjectWord(a, n) == FoldLeft(LAMBDA w, b : w * 2 ^ Byte + b, 0, [i \in 1..n |-> bytes[a + n - i]])

InObject(a, n) == a..(a + n - 1) \subseteq Object

LoadFrom(l) ==
    LET a == Pointed(l.b, l)
        n == Bytes(l.k)
    IN  IF InObject(a, n) THEN Computes(l.a, Meaning(l.k, ObjectWord(a, n))) ELSE Undefined

StoreTo(l) ==
    LET a == Pointed(l.a, l)
        n == Bytes(l.k)
    IN  IF InObject(a, n)
        THEN /\ bytes' = [i \in Object |-> IF i \in a..(a + n - 1)
                                           THEN (Bits(l.b, l.k) \div 2 ^ (Byte * (i - a))) % 2 ^ Byte
                                           ELSE bytes[i]]
             /\ Continues
             /\ UNCHANGED <<val, args, called, jumped, ret, fault>>
        ELSE Undefined

Push(l) ==
    /\ args' = <<Bits(l.a, l.k)>> \o args
    /\ Continues
    /\ UNCHANGED <<val, bytes, called, jumped, ret, fault>>

Delete(l) ==
    /\ args' = SubSeq(args, l.off + 1, Len(args))
    /\ Continues
    /\ UNCHANGED <<val, bytes, called, jumped, ret, fault>>

Call(l) ==
    /\ called' = Append(called, Bits(l.b, 8))
    /\ IF prog.decl[l.a.v].unused THEN UNCHANGED val ELSE Assigned(l.a, Meaning(l.k, Answer))
    /\ Continues
    /\ UNCHANGED <<bytes, args, jumped, ret, fault>>

(* The value of the function; only its end may follow, and nothing reads   *)
(* the variables any more.                                                 *)
Return(l) ==
    /\ ret' = <<Num(l.a, l.k)>>
    /\ val' = [v \in Vars |-> 0]
    /\ pc' = Len(prog.lines)
    /\ UNCHANGED <<prog, bytes, args, called, jumped, fault>>

Do(l) ==
    CASE l.gen = "gen_mov" -> Computes(l.a, Raw(l.b))
      [] l.gen \in {"gen_basic_op", "gen_mul"} -> Basic(l)
      [] l.gen \in {"gen_div", "gen_mod"} -> Division(l)
      [] l.gen \in {"gen_lsh", "gen_rsh"} -> Shift(l)
      [] l.gen = "gen_branch" -> Branch(l)
      [] l.gen = "gen_ld" -> LoadFrom(l)
      [] l.gen = "gen_st" -> StoreTo(l)
      [] l.gen = "gen_push" -> Push(l)
      [] l.gen = "gen_call" -> Call(l)
      [] l.gen = "gen_retval" -> Return(l)
      [] l.gen = "gen_neg" -> Computes(l.a, -Num(l.b, Class(l.a)))
      [] l.gen = "gen_not" -> Computes(l.a, -Num(l.b, Class(l.a)) - 1)
      [] l.gen = "gen_adr" -> Computes(l.a, prog.decl[l.b.v].addr + l.off)
      [] l.gen = "del" -> Delete(l)
      [] l.gen \in {"fun", "endf"} -> Continues /\ UNCHANGED <<val, bytes, args, called, jumped, ret, fault>>

Init ==
    /\ pc = 1
    /\ args = <<>> /\ called = <<>> /\ ret = <<>>
    /\ jumped = FALSE /\ fault = ""

Next == pc <= Len(prog.lines) /\ fault = "" /\ Do(Line)

Spec == Init /\ [][Next]_vars
==============================================================================
