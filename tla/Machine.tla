------------------------------- MODULE Machine -------------------------------
(***************************************************************************)
(* What the instructions that bcode prints do on an x86-64: registers      *)
(* whose low 1, 2, 4 or 8 bytes are written (a write of 4 bytes clears the *)
(* upper 4, shorter ones keep what is above), memory by bytes, a stack of  *)
(* words, and the flags as the three comparisons they stand for.           *)
(*                                                                         *)
(* An instruction has a name, a size in bytes, a source, a destination and *)
(* the size of the destination where it differs.                           *)
(***************************************************************************)
EXTENDS Words, Sequences, SequencesExt, Bitwise

CONSTANTS
    MemSize,    \* memory has the addresses 0 .. MemSize-1
    Junk,       \* what a register holds that the ABI or the manual leaves open
    Answer      \* the word every called function leaves in rax

(* Operands: a register, a number, memory at an offset from the sum of two *)
(* registers.                                                              *)
Operand(kind, r, index, n) == [kind |-> kind, r |-> r, index |-> index, n |-> n]
Reg(r) == Operand("reg", r, "", 0)
Imm(n) == Operand("imm", "", "", n)
At(n) == Operand("mem", "", "", n)
Ind(r, n) == Operand("mem", r, "", n)
Sum(r, s) == Operand("mem", r, s, 0)
NoOperand == Operand("none", "", "", 0)
AH == Operand("ah", "", "", 0)

RAX == Reg("rax")
RCX == Reg("rcx")
RDX == Reg("rdx")
X0 == Reg("xmm0")
X1 == Reg("xmm1")

Ins2(op, n, s, d, w) == [op |-> op, n |-> n, s |-> s, d |-> d, w |-> w]
Ins(op, n, s, d) == Ins2(op, n, s, d, n)
Ins1(op, n, d) == Ins(op, n, NoOperand, d)
Mov(n, s, d) == Ins("mov", n, s, d)
Lea(n, s, d) == Ins("lea", n, s, d)

Held(m, r) == IF r = "" THEN 0 ELSE m.r[r]
Address(m, o) == Low(Held(m, o.r) + Held(m, o.index) + o.n, 8)
Outside(m, o, n) == o.kind = "mem" /\ Address(m, o) + n > MemSize

Load(m, a, n) == FoldLeft(LAMBDA w, b : w * 2 ^ Byte + b, 0, [i \in 1..n |-> m.mem[a + n - i]])

Stored(mem, a, n, w) ==
    [i \in DOMAIN mem |-> IF i \in a..(a + n - 1) THEN (w \div 2 ^ (Byte * (i - a))) % 2 ^ Byte
                          ELSE mem[i]]

Value(m, o, n) ==
    CASE o.kind = "reg" -> Low(m.r[o.r], n)
      [] o.kind = "ah" -> Low(m.r.rax \div 2 ^ Byte, 1)
      [] o.kind = "imm" -> Low(o.n, n)
      [] OTHER -> Load(m, Address(m, o), n)

(* The register after its low n bytes have been written. *)
Merged(old, n, w) == IF n \in {4, 8} THEN Low(w, n) ELSE old - Low(old, n) + Low(w, n)

SetTo(m, o, n, w) ==
    CASE o.kind = "reg" -> [m EXCEPT !.r[o.r] = Merged(@, n, w)]
      [] o.kind = "ah" -> [m EXCEPT !.r.rax = Merged(@, 2, Low(w, 1) * 2 ^ Byte + Low(@, 1))]
      [] OTHER -> [m EXCEPT !.mem = Stored(@, Address(m, o), n, Low(w, n))]

Alu(op, x, y) ==
    CASE op = "add" -> y + x
      [] op = "sub" -> y - x
      [] op = "and" -> x & y
      [] op = "or" -> x | y
      [] op = "xor" -> x ^^ y

(* The count of a shift is a number or in cl; it is taken modulo 32, of a  *)
(* shift of 8 bytes modulo 64.                                             *)
Count(m, o, n) ==
    (IF o.kind = "imm" THEN o.n ELSE Value(m, o, 1)) % (Byte * (IF n = 8 THEN 8 ELSE 4))

Shifted(op, w, k, n) ==
    CASE op = "shl" -> Low(Low(w, n) * 2 ^ k, n)
      [] op = "shr" -> Low(w, n) \div 2 ^ k
      [] op = "sar" -> TwosComplement(w, n) \div 2 ^ k

(* mul and imul of one operand; the upper half of the product is of no use. *)
Multiply(m, n, y) ==
    LET p == Product(m.r.rax, y, n)
    IN  IF n = 1 THEN SetTo(SetTo(m, AH, 1, Junk), RAX, 1, p)
        ELSE SetTo(SetTo(m, RDX, n, Junk), RAX, n, p)

(* div and idiv; a dividend that does not come from one word is a fault,   *)
(* as is a quotient that has no place.                                     *)
Divide(m, n, signed, y) ==
    LET up == IF n = 1 THEN AH ELSE RDX
        x == Number(signed, m.r.rax, n)
        d == Number(signed, y, n)
    IN  IF \/ Value(m, up, n) # (IF x < 0 THEN 2 * Half(n) - 1 ELSE 0)
           \/ d = 0
           \/ Number(signed, Quotient(x, d), n) # Quotient(x, d)
        THEN [m EXCEPT !.fault = "trap"]
        ELSE SetTo(SetTo(m, up, n, Remainder(x, d)), RAX, n, Quotient(x, d))

Compare(m, x, y, lessSigned) == [m EXCEPT !.flags = [equal |-> x = y, below |-> x < y, less |-> lessSigned]]

Taken(cond, f) ==
    CASE cond = "je" -> f.equal
      [] cond = "jne" -> ~f.equal
      [] cond = "jb" -> f.below
      [] cond = "jae" -> ~f.below
      [] cond = "jbe" -> f.below \/ f.equal
      [] cond = "ja" -> ~(f.below \/ f.equal)
      [] cond = "jl" -> f.less
      [] cond = "jge" -> ~f.less
      [] cond = "jle" -> f.less \/ f.equal
      [] cond = "jg" -> ~(f.less \/ f.equal)

Step(m, i) ==
    LET s == Value(m, i.s, i.n)
        d == Value(m, i.d, i.n)
        f(o) == FloatNumber(Value(m, o, i.n), i.n)
    IN  CASE i.op = "mov" -> SetTo(m, i.d, i.n, s)
          [] i.op = "movz" -> SetTo(m, i.d, i.w, s)
          [] i.op = "movs" -> SetTo(m, i.d, i.w, TwosComplement(s, i.n))
          [] i.op = "lea" -> SetTo(m, i.d, i.n, Address(m, i.s))
          [] i.op \in {"add", "sub", "and", "or", "xor"} -> SetTo(m, i.d, i.n, Alu(i.op, s, d))
          [] i.op = "neg" -> SetTo(m, i.d, i.n, -d)
          [] i.op = "not" -> SetTo(m, i.d, i.n, -d - 1)
          [] i.op \in {"shl", "shr", "sar"} ->
                SetTo(m, i.d, i.n, Shifted(i.op, d, Count(m, i.s, i.n), i.n))
          [] i.op \in {"mul", "imul"} -> Multiply(m, i.n, s)
          [] i.op = "div" -> Divide(m, i.n, FALSE, s)
          [] i.op = "idiv" -> Divide(m, i.n, TRUE, s)
          [] i.op = "cmp" -> Compare(m, d, s, TwosComplement(d, i.n) < TwosComplement(s, i.n))
          [] i.op = "comis" -> Compare(m, f(i.d), f(i.s), FALSE)
          [] i.op = "push" -> [m EXCEPT !.stack = <<s>> \o @]
          [] i.op = "pop" -> [m EXCEPT !.stack = Tail(@), !.r[i.d.r] = Head(m.stack)]
          [] i.op = "drop" -> [m EXCEPT !.stack = SubSeq(@, i.n + 1, Len(@))]
          [] i.op = "enter" -> [m EXCEPT !.r.rbp = Len(m.stack)]
          [] i.op = "leave" -> [m EXCEPT !.stack = SubSeq(@, Len(@) - m.r.rbp + 1, Len(@))]
          [] i.op = "call" -> [m EXCEPT !.called = Append(@, s), !.r.rax = Answer,
                                        !.r.rcx = Junk, !.r.rdx = Junk]
          [] i.op = "btc" -> SetTo(m, i.d, i.n, IF d >= Half(i.n) THEN d - Half(i.n) ELSE d + Half(i.n))
          [] i.op = "cvtsi2s" -> SetTo(m, i.d, i.w, FloatWord(TwosComplement(s, i.n), i.w))
          [] i.op = "cvts2si" -> SetTo(m, i.d, 8, f(i.s))
          [] i.op = "cvts2s" -> SetTo(m, i.d, i.w, FloatWord(f(i.s), i.w))
          [] i.op = "fop" -> SetTo(m, i.d, i.n, FloatWord(FloatResult(i.w, f(i.d), f(i.s)), i.n))
          [] i.op = "refused" -> [m EXCEPT !.fault = "refused"]
          [] OTHER -> [m EXCEPT !.jumped = Taken(i.op, m.flags)]

(* One instruction; a machine that has faulted stays as it is. *)
Exec(m, i) ==
    IF m.fault # "" THEN m
    ELSE IF i.op # "lea" /\ (Outside(m, i.s, i.n) \/ Outside(m, i.d, i.w)) THEN [m EXCEPT !.fault = "wild"]
    ELSE Step(m, i)

Run(m, code) == FoldLeft(Exec, m, code)
==============================================================================
