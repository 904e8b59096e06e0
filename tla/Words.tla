------------------------------- MODULE Words -------------------------------
(***************************************************************************)
(* Numbers in words of 1, 2, 4 and 8 bytes, for bcode and for the machine. *)
(* The classes are those of bcode: 1 to 8 are s8, u8, s16, ..., s64, u64,  *)
(* 9 is hfloat and 10 is float.  A byte has Byte bits.                     *)
(*                                                                         *)
(* The numbers in floats are whole.  Their encoding is a sign and a        *)
(* magnitude times an odd factor, another one for each of the two formats, *)
(* so that bits taken for an integer or for the other format show.         *)
(***************************************************************************)
EXTENDS Integers

CONSTANT Byte       \* the bits of a byte (8)

ASSUME ByteAssumption == Byte \in Nat \ {0, 1}

Classes == 1..10
IsFloat(c) == c \in {9, 10}
SignedClass(c) == c \in {1, 3, 5, 7}

(* The size of a class of integers as its power of two. *)
Rank(c) == (c - 1) \div 2

Bytes(c) == IF c = 9 THEN 4 ELSE IF c = 10 THEN 8 ELSE 2 ^ Rank(c)

Low(w, n) == w % 2 ^ (Byte * n)
Half(n) == 2 ^ (Byte * n - 1)
TwosComplement(w, n) == IF Low(w, n) >= Half(n) THEN Low(w, n) - 2 * Half(n) ELSE Low(w, n)
Number(signed, w, n) == IF signed THEN TwosComplement(w, n) ELSE Low(w, n)

Abs(v) == IF v < 0 THEN -v ELSE v
Quotient(x, y) == IF (x < 0) = (y < 0) THEN Abs(x) \div Abs(y) ELSE -(Abs(x) \div Abs(y))
Remainder(x, y) == x - y * Quotient(x, y)

(* x * y in n bytes, for TLC's numbers of 32 bits. *)
Product(x, y, n) ==
    LET k == 2 ^ (4 * Byte)
        a == Low(x, n)
        b == Low(y, n)
    IN  Low(a * (b % k) + Low(a * (b \div k), n) * k, n)

Factor(n) == IF n = 4 THEN 5 ELSE 37
Inverse4 == CHOOSE x \in 1..Half(4) : (x * Factor(4)) % Half(4) = 1
Inverse8 == CHOOSE x \in 1..Half(8) : (x * Factor(8)) % Half(8) = 1

FloatWord(v, n) ==
    (IF v < 0 THEN Half(n) ELSE 0) + (((Abs(v) % Half(n)) * Factor(n)) % Half(n))

FloatNumber(w, n) ==
    LET mag == ((Low(w, n) % Half(n)) * (IF n = 4 THEN Inverse4 ELSE Inverse8)) % Half(n)
    IN  IF Low(w, n) >= Half(n) THEN -mag ELSE mag

(* The number that a word stands for in a class, and back. *)
Meaning(c, w) ==
    IF IsFloat(c) THEN FloatNumber(w, Bytes(c)) ELSE Number(SignedClass(c), w, Bytes(c))
Word(c, v) == IF IsFloat(c) THEN FloatWord(v, Bytes(c)) ELSE Low(v, Bytes(c))

(* A number of any class as one of class c. *)
Convert(c, v) == Meaning(c, Word(c, v))

FloatResult(op, x, y) ==
    CASE op = "add" -> x + y
      [] op = "sub" -> x - y
      [] op = "mul" -> x * y
      [] op = "div" -> IF y = 0 THEN 0 ELSE Quotient(x, y)
==============================================================================
