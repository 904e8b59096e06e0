------------------------------ MODULE CodeGen ------------------------------
(***************************************************************************)
(* The machine code that bcode prints for each line, run on Machine.  The  *)
(* variables have the places RegAlloc gave them: a register, or memory     *)
(* (the frame, an argument, @_$DATA).  A variable is in the low bytes of   *)
(* its place; what is above them is anything.  rax, rcx, rdx, xmm0 and     *)
(* xmm1 belong to no variable.                                             *)
(*                                                                         *)
(* Each generator of the source is an operator that gives the instructions *)
(* it prints; the action of the same name runs them.  last_store_valid is  *)
(* never set in the source and left out.                                   *)
(***************************************************************************)
EXTENDS Machine

CONSTANTS
    Vars,       \* the variables, with the object
    Object,     \* the addresses of the object, a "local mem" or a "mem"
    Saved,      \* the registers that hold variables, in the order of out_reg64
    Declarations,   \* the class and the place of every variable
    Functions(_),   \* the lines that are compiled under some declarations
    Machines(_)     \* the machines that may run a program

VARIABLES
    prog,       \* the program: decl (id_tab) and lines (ins_head)
    pc,         \* the line that is compiled and executed next
    m,          \* the machine
    pushed,     \* the classes of the words pushed for a call, the last first
    retClass,   \* the class of the value the function has returned, or 0
    entry       \* registers and stack in the beginning

vars == <<prog, pc, m, pushed, retClass, entry>>

------------------------------------------------------------------------------
(* Operands (get_operand): variables, numbers and labels. *)

Decl(o) == prog.decl[o.v]
Class(o) == Decl(o).class
IsConst(o) == o.kind \in {"num", "float", "label"}
IsNum(o) == o.kind \in {"num", "float"}
IsAddr(o) == o.kind = "var" /\ Class(o) = 0
IsVar(o) == o.kind = "var" /\ Class(o) # 0
IsReg(o) == IsVar(o) /\ Decl(o).reg # ""
InMem(o) == IsVar(o) /\ Decl(o).reg = ""

SignedVars(os) == \A o \in os : IsVar(o) => SignedClass(Class(o))

(* opcmp, for variables: whether both are in one place. *)
Same(o, p) ==
    \/ IsReg(o) /\ IsReg(p) /\ Decl(o).reg = Decl(p).reg
    \/ InMem(o) /\ InMem(p) /\ Decl(o).addr = Decl(p).addr

(* The number that op_out_const prints.  out_num takes the bits of an      *)
(* hfloat for those of a float, which makes it 0; the cast of a literal    *)
(* with a point to an integer type keeps its bits.                         *)
Constant(c, o) ==
    CASE o.kind = "label" -> o.n
      [] o.kind # "label" /\ c = 10 -> FloatWord(o.n, 8)
      [] o.kind # "label" /\ c = 9 -> 0
      [] o.kind = "float" /\ ~IsFloat(c) -> FloatWord(o.n, 8)
      [] OTHER -> o.n

(* op_out_reg, op_out_mem and op_out_const: the operand as it is printed. *)
Out(c, o) ==
    CASE IsReg(o) -> Reg(Decl(o).reg)
      [] IsConst(o) -> Imm(Low(Constant(c, o), Bytes(c)))
      [] OTHER -> At(Decl(o).addr)

OutOff(o, off) == At(Decl(o).addr + off)

(* The constants an instruction with a number of 32 bits may have. *)
Small(o) ==
    IsNum(o) /\ (o.n < Half(4) - 1 \/ o.n > 2 * Half(8) - Half(4))
SmallAs(c, o) == IsNum(o) /\ (c < 7 \/ Small(o))
SmallStored(o) == IsNum(o) /\ (o.n <= Half(4) - 1 \/ o.n >= 2 * Half(8) - Half(4))

------------------------------------------------------------------------------
(* Conversions in a register, and the shapes out_ins and its kin print. *)

(* A faulty one: the sign is that of the class that is wanted. *)
ExtendBySignWanted(r, to, from) ==
    CASE Rank(to) <= Rank(from) -> <<>>
      [] Rank(to) = 3 /\ Rank(from) = 2 /\ ~SignedClass(to) -> <<Mov(4, r, r)>>
      [] OTHER -> <<Ins2(IF SignedClass(to) THEN "movs" ELSE "movz", Bytes(from), r, r, Bytes(to))>>

ExtendInteger(r, to, from) ==
    CASE Rank(to) <= Rank(from) -> <<>>
      [] Rank(to) = 3 /\ Rank(from) = 2 /\ ~SignedClass(from) -> <<Mov(4, r, r)>>
      [] OTHER -> <<Ins2(IF SignedClass(from) THEN "movs" ELSE "movz", Bytes(from), r, r, Bytes(to))>>

(* From one class to another where one of them is a float.  The registers  *)
(* of variables and rax, rcx have a function each; the one for the latter  *)
(* leaves out a newline, and asm refuses the line.                         *)
ConvertFloat(r, to, from, scratch) ==
    CASE IsFloat(to) /\ ~IsFloat(from) ->
            (IF from < 7 THEN ExtendInteger(r, 7, from) ELSE <<>>)
            \o (IF scratch THEN <<Ins1("refused", 8, NoOperand)>>
                ELSE <<Ins2("cvtsi2s", 8, r, X0, Bytes(to)), Mov(Bytes(to), X0, r)>>)
      [] IsFloat(to) /\ IsFloat(from) ->
            IF to = from THEN <<>>
            ELSE <<Mov(Bytes(from), r, X0), Ins2("cvts2s", Bytes(from), X0, X0, Bytes(to)),
                   Mov(Bytes(to), X0, r)>>
      [] OTHER -> <<Mov(Bytes(from), r, X0), Ins2("cvts2si", Bytes(from), X0, r, 8)>>

Extend(r, to, from, scratch) ==
    IF IsFloat(to) \/ IsFloat(from) THEN ConvertFloat(r, to, from, scratch)
    ELSE ExtendInteger(r, to, from)

AcdExtend(r, to, from) == Extend(r, to, from, TRUE)
RegExtend(o, to, from) == Extend(Reg(Decl(o).reg), to, from, FALSE)

(* What most generators begin with: an operand into rax or rcx, in class k. *)
Fetch(o, r, k) ==
    CASE IsAddr(o) -> <<Lea(8, Out(8, o), r)>>
      [] IsConst(o) -> <<Mov(Bytes(k), Out(k, o), r)>>
      [] OTHER -> <<Mov(Bytes(Class(o)), Out(k, o), r)>> \o AcdExtend(r, k, Class(o))

(* And end with: the result from rax. *)
Store(a) == <<Mov(Bytes(Class(a)), RAX, Out(Class(a), a))>>

(* out_ins_acd1 reads all of class k from memory, however short the        *)
(* variable, and adds a register in the register's own class.              *)
InsAcd(op, o, r, k) ==
    CASE IsReg(o) -> <<Ins(op, Bytes(Class(o)), Out(k, o), r)>> \o AcdExtend(r, k, Class(o))
      [] IsConst(o) -> <<Ins(op, Bytes(k), Out(k, o), r)>>
      [] IsAddr(o) -> <<Ins(op, 8, Out(k, o), r)>> \o AcdExtend(r, k, 8)
      [] OTHER -> <<Ins(op, Bytes(k), Out(k, o), r)>> \o AcdExtend(r, k, Class(o))

(* out_ins, with the source before the destination. *)
InsOut(op, s, d, k) ==
    (IF IsReg(s) /\ Class(s) # 9 /\ Class(d) # 9 THEN RegExtend(s, k, Class(s)) ELSE <<>>)
    \o <<Ins(op, Bytes(k), Out(k, s), Out(k, d))>>
    \o (IF IsReg(d) THEN RegExtend(d, k, Class(d)) ELSE <<>>)

------------------------------------------------------------------------------
(* The generators. *)

MovCode(a, b) ==
    LET k == Class(a)
    IN  CASE Same(a, b) -> <<>>
          [] InMem(a) -> Fetch(b, RAX, k) \o Store(a)
          [] IsReg(a) /\ IsVar(b) /\ ~Same(a, b) ->
                <<Mov(Bytes(Class(b)), Out(k, b), Out(k, a))>> \o RegExtend(a, k, Class(b))
          [] IsReg(a) /\ IsConst(b) -> <<Mov(Bytes(k), Out(k, b), Out(k, a))>>
          [] IsReg(a) /\ IsAddr(b) -> <<Lea(8, Out(8, b), Out(8, a))>>

(* An operand of a float operation that is no variable of that class. *)
FetchFloat(o, r, k) ==
    CASE IsAddr(o) -> <<Lea(8, Out(8, o), r)>>
      [] InMem(o) -> <<Mov(Bytes(Class(o)), Out(k, o), r)>> \o AcdExtend(r, k, Class(o))
      [] IsReg(o) -> <<Mov(8, Out(k, o), r)>> \o AcdExtend(r, k, Class(o))

(* gen_float_basic_op and gen_hfloat_basic_op.  A constant on the left is  *)
(* printed without "$", one on the right goes to rax.                      *)
FloatCode(op, a, b, c) ==
    LET k == Class(a)
        n == Bytes(k)
        ready(o) == IsVar(o) /\ Class(o) = k
    IN  (IF ready(b) /\ ready(c)
         THEN <<Mov(n, Out(k, b), X0)>>
              \o (IF IsReg(c) THEN <<Mov(n, Out(k, c), X1), Ins2("fop", n, X1, X0, op)>>
                  ELSE <<Ins2("fop", n, Out(k, c), X0, op)>>)
         ELSE (IF IsConst(b) THEN <<Mov(n, At(Low(Constant(k, b), n)), RAX)>> ELSE FetchFloat(b, RAX, k))
              \o (IF IsConst(c) THEN <<Mov(n, Out(k, c), RAX)>> ELSE FetchFloat(c, RCX, k))
              \o <<Mov(n, RAX, X0), Mov(n, RCX, X1), Ins2("fop", n, X1, X0, op)>>)
        \o <<Mov(n, X0, Out(k, a))>>

(* Both operands in rax and rcx: what is left when no shorter form fits. *)
GeneralCode(op, a, b, c) ==
    LET k == Class(a)
        fetch(o, r) == InsAcd(IF IsAddr(o) THEN "lea" ELSE "mov", o, r, IF IsAddr(o) THEN 8 ELSE k)
    IN  fetch(b, RAX) \o fetch(c, RCX) \o <<Ins(op, Bytes(k), RCX, RAX)>> \o Store(a)

(* Three registers: lea adds two of them. *)
LeaCode(a, b, c) ==
    RegExtend(b, 5, Class(b)) \o RegExtend(c, 5, Class(c))
    \o <<Lea(IF Class(a) < 5 THEN 4 ELSE Bytes(Class(a)), Sum(Decl(b).reg, Decl(c).reg), Out(8, a))>>

BasicCode(op, a, b, c) ==
    LET k == Class(a)
        nothing == IsNum(c) /\ c.n = 0 /\ op # "and"
        inPlace == InsOut(op, c, a, k)
        inTwo == InsOut("mov", b, a, k) \o inPlace
        throughRax == InsAcd("mov", b, RAX, k) \o InsAcd(op, c, RAX, k) \o Store(a)
        fits == IsReg(c) \/ SmallAs(k, c)
    IN  IF IsFloat(k) /\ op \in {"add", "sub"} THEN FloatCode(op, a, b, c) ELSE
        CASE InMem(a) /\ Same(a, b) /\ fits -> IF nothing THEN <<>> ELSE inPlace
          [] InMem(a) /\ ~Same(a, b) /\ IsVar(b) /\ fits -> throughRax
          [] IsReg(a) /\ IsReg(b) /\ IsReg(c) ->
                IF Same(a, b) THEN inPlace
                ELSE IF Same(a, c) THEN throughRax
                ELSE IF op = "add" THEN LeaCode(a, b, c) ELSE inTwo
          [] IsReg(a) /\ IsReg(b) /\ SmallAs(k, c) ->
                (IF Same(a, b) THEN <<>> ELSE InsOut("mov", b, a, k)) \o (IF nothing THEN <<>> ELSE inPlace)
          [] IsReg(a) /\ IsAddr(b) /\ (Small(c) \/ (IsReg(c) /\ ~Same(a, c))) ->
                InsOut("lea", b, a, 8) \o InsOut(op, c, a, 8)
          [] IsReg(a) /\ InMem(b) /\ Rank(k) <= Rank(Class(b)) /\ (Small(c) \/ (IsReg(c) /\ ~Same(a, c))) ->
                inTwo
          [] OTHER -> GeneralCode(op, a, b, c)

(* A constant 0, 1 or power of two on the right of registers is special.   *)
(* The move of the last case has been printed when no power fits.          *)
MulCode(a, b, c) ==
    LET k == Class(a)
        moved == IF Same(a, b) THEN <<>> ELSE InsOut("mov", b, a, k)
        powers == {x \in 1..(8 * Byte - 1) : IsNum(c) /\ c.n = 2 ^ x}
        special == IsNum(c) /\ IsReg(a) /\ IsReg(b)
        general == Fetch(b, RAX, k) \o Fetch(c, RCX, k)
                   \o <<Ins(IF SignedVars({b, c}) THEN "imul" ELSE "mul", Bytes(k), RCX, NoOperand)>>
                   \o Store(a)
    IN  IF IsFloat(k) THEN FloatCode("mul", a, b, c) ELSE
        CASE special /\ c.n = 0 -> InsOut("xor", a, a, k)
          [] special /\ c.n = 1 -> moved
          [] special /\ powers # {} ->
                moved \o <<Ins("shl", Bytes(k), Imm(CHOOSE x \in powers : TRUE), Out(k, a))>>
          [] special /\ powers = {} /\ c.n > 1 -> moved \o general
          [] ~special -> general

(* The upper half of the dividend, by its sign. *)
Dividend(k, signed) ==
    LET n == Bytes(k)
        up == IF n = 1 THEN AH ELSE RDX
    IN  IF signed THEN <<Mov(n, RAX, up), Ins("shr", n, Imm(n * Byte - 1), up), Ins1("neg", n, up)>>
        ELSE <<Ins("xor", n, up, up)>>

(* The lines for one byte lack a newline in gen_div. *)
DivCode(a, b, c) ==
    LET k == Class(a)
        signed == SignedVars({b, c})
    IN  IF IsFloat(k) THEN FloatCode("div", a, b, c)
        ELSE Fetch(b, RAX, k) \o Fetch(c, RCX, k)
             \o (IF Bytes(k) = 1 THEN <<Ins1("refused", 1, NoOperand)>> ELSE Dividend(k, signed))
             \o <<Ins(IF signed THEN "idiv" ELSE "div", Bytes(k), RCX, NoOperand)>>
             \o Store(a)

(* Of a third operand in memory it is the class of the second that counts: *)
(* 0 for an object; a constant has none, and the compiler reads through a  *)
(* null pointer.                                                           *)
ModCode(a, b, c) ==
    LET k == Class(a)
        signed == IF InMem(c) THEN IsVar(b) /\ SignedClass(Class(b)) ELSE SignedVars({b, c})
        remainder == IF Bytes(k) = 1 THEN <<Mov(1, AH, RAX)>> ELSE <<Mov(Bytes(k), RDX, RAX)>>
    IN  IF InMem(c) /\ IsConst(b) THEN <<Ins1("refused", 8, NoOperand)>>
        ELSE Fetch(b, RAX, k) \o Fetch(c, RCX, k) \o Dividend(k, signed)
             \o <<Ins(IF signed THEN "idiv" ELSE "div", Bytes(k), RCX, NoOperand)>>
             \o remainder \o Store(a)

(* gen_lsh and gen_rsh: the count is the lowest byte, in cl. *)
ShiftCode(op, a, b, c) ==
    LET k == Class(a)
        count == IF IsAddr(c) THEN <<Lea(8, Out(8, c), RCX)>> ELSE <<Mov(1, Out(1, c), RCX)>>
        ins == IF op = "lsh" THEN "shl" ELSE IF SignedVars({b}) THEN "sar" ELSE "shr"
    IN  Fetch(b, RAX, k) \o count \o <<Ins(ins, Bytes(k), RCX, RAX)>> \o Store(a)

SignedJump == [ble |-> "jle", bge |-> "jge", blt |-> "jl", bgt |-> "jg", beq |-> "je", bne |-> "jne"]
UnsignedJump == [ble |-> "jbe", bge |-> "jae", blt |-> "jb", bgt |-> "ja", beq |-> "je", bne |-> "jne"]

BranchClass(a, b) ==
    LET ks == {Class(o) : o \in {p \in {a, b} : IsVar(p)}}
    IN  IF ks = {} THEN 8 ELSE CHOOSE k \in ks : \A j \in ks : k >= j

BranchCode(cond, a, b) ==
    LET k == BranchClass(a, b)
        signed == SignedVars({a, b}) /\ ~IsFloat(k)
    IN  Fetch(a, RAX, k) \o Fetch(b, RCX, k)
        \o (IF IsFloat(k) THEN <<Mov(Bytes(k), RAX, X0), Mov(Bytes(k), RCX, X1), Ins("comis", Bytes(k), X1, X0)>>
            ELSE <<Ins("cmp", Bytes(k), RCX, RAX)>>)
        \o <<Ins1(IF signed THEN SignedJump[cond] ELSE UnsignedJump[cond], 8, NoOperand)>>

(* gen_ld and gen_ldo: class k from where b points to. *)
LdCode(k, a, b, off) ==
    LET ready == IF IsReg(b) THEN RegExtend(b, 8, Class(b)) ELSE IF IsAddr(b) THEN <<>> ELSE Fetch(b, RAX, 8)
        from == IF IsReg(b) THEN Ind(Decl(b).reg, off) ELSE IF IsAddr(b) THEN OutOff(b, off) ELSE Ind("rax", off)
    IN  ready
        \o (IF IsReg(a) THEN <<Mov(Bytes(k), from, Out(k, a))>> \o RegExtend(a, Class(a), k)
            ELSE <<Mov(Bytes(k), from, RAX)>> \o AcdExtend(RAX, Class(a), k) \o Store(a))

(* gen_st and gen_sto: b, in class k, to where a points to.  The short     *)
(* form for a constant takes the register of the pointer as it is, and has *)
(* no length for floats.                                                   *)
StCode(k, a, b, off) ==
    LET value == IF IsReg(b) THEN Out(k, b) ELSE RAX
        toRax == IF IsReg(b) THEN RegExtend(b, k, Class(b)) ELSE Fetch(b, RAX, k)
    IN  IF IsReg(a) /\ IsNum(b) /\ (k < 7 \/ SmallStored(b))
        THEN IF IsFloat(k) THEN <<Ins1("refused", 8, NoOperand)>>
             ELSE <<Mov(Bytes(k), Out(k, b), Ind(Decl(a).reg, off))>>
        ELSE toRax
             \o (CASE IsReg(a) -> RegExtend(a, 8, Class(a)) \o <<Mov(Bytes(k), value, Ind(Decl(a).reg, off))>>
                   [] IsAddr(a) -> <<Mov(Bytes(k), value, OutOff(a, off))>>
                   [] OTHER -> Fetch(a, RCX, 8) \o <<Mov(Bytes(k), value, Ind("rcx", off))>>)

(* A word for a call; a constant that fits is pushed as an integer. *)
PushCode(k, a) ==
    CASE SmallStored(a) -> <<Ins("push", 8, Imm(Low(Constant(8, a), 8)), NoOperand)>>
      [] IsReg(a) /\ (k = Class(a) \/ (~IsFloat(k) /\ ~IsFloat(Class(a)))) ->
            RegExtend(a, k, Class(a)) \o <<Ins("push", 8, Out(k, a), NoOperand)>>
      [] IsReg(a) /\ k # Class(a) /\ (IsFloat(k) \/ IsFloat(Class(a))) ->
            <<Mov(8, Out(k, a), RAX)>> \o AcdExtend(RAX, k, Class(a)) \o <<Ins("push", 8, RAX, NoOperand)>>
      [] IsConst(a) /\ ~SmallStored(a) -> <<Mov(8, Out(k, a), RAX), Ins("push", 8, RAX, NoOperand)>>
      [] OTHER -> Fetch(a, RAX, k) \o <<Ins("push", 8, RAX, NoOperand)>>

(* The function returns in rax, as an integer (8), an hfloat or a float. *)
CallCode(k, a, b) ==
    LET target ==
          CASE IsConst(b) -> <<Ins("call", 8, Out(8, b), NoOperand)>>
            [] IsReg(b) -> RegExtend(b, 8, Class(b)) \o <<Ins("call", 8, Out(8, b), NoOperand)>>
            [] OTHER -> Fetch(b, RAX, 8) \o <<Ins("call", 8, RAX, NoOperand)>>
    IN  target \o (IF Decl(a).unused THEN <<>> ELSE AcdExtend(RAX, Class(a), k) \o Store(a))

RetvalCode(k, a) ==
    CASE IsReg(a) -> RegExtend(a, k, Class(a)) \o <<Mov(8, Out(k, a), RAX)>>
      [] IsConst(a) -> <<Mov(8, Out(k, a), RAX)>>
      [] OTHER -> Fetch(a, RAX, k)

(* gen_neg for floats: the bit of the sign is flipped in rcx. *)
NegFloatCode(a, b) ==
    LET k == Class(a)
    IN  (IF IsConst(b) THEN <<Mov(Bytes(k), At(Low(Constant(k, b), Bytes(k))), RCX)>> ELSE FetchFloat(b, RCX, k))
        \o <<Ins1("btc", Bytes(k), RCX), Mov(Bytes(k), RCX, Out(k, a))>>

(* gen_neg and gen_not.  From memory to a register the class of the        *)
(* result is read, whatever the class of the variable.                     *)
UnaryCode(op, a, b) ==
    LET k == Class(a)
        reg == Out(k, a)
        own == IF IsAddr(b) THEN 8 ELSE Bytes(k)
        inRegister ==
          CASE IsConst(b) \/ InMem(b) -> <<Mov(Bytes(k), Out(k, b), reg)>>
            [] IsAddr(b) -> <<Lea(8, Out(8, b), reg)>>
            [] IsReg(b) /\ op = "neg" -> <<Mov(Bytes(Class(b)), Out(k, b), reg)>> \o RegExtend(a, k, Class(b))
            [] IsReg(b) /\ op = "not" -> RegExtend(b, k, Class(b)) \o <<Mov(Bytes(k), Out(k, b), reg)>>
        before == IF IsReg(b) THEN RegExtend(b, k, Class(b)) ELSE <<>>
    IN  CASE op = "neg" /\ IsFloat(k) -> NegFloatCode(a, b)
          [] IsReg(a) /\ ~(op = "neg" /\ IsFloat(k)) -> inRegister \o <<Ins1(op, own, reg)>>
          [] OTHER -> before \o Fetch(b, RAX, k) \o <<Ins1(op, own, RAX)>> \o Store(a)

(* gen_adr and gen_adro. *)
AdrCode(a, b, off) ==
    IF IsReg(a) THEN <<Lea(8, OutOff(b, off), Out(8, a))>>
    ELSE <<Lea(8, OutOff(b, off), RAX)>> \o Store(a)

------------------------------------------------------------------------------
(* A function saves the registers it uses and loads the arguments that     *)
(* have one; at its end it restores them in the opposite order.            *)

Used == SelectSeq(Saved, LAMBDA r : \E v \in Vars : prog.decl[v].reg = r)

ArgMap(r) == {prog.decl[v].addr : v \in {u \in Vars : prog.decl[u].reg = r /\ prog.decl[u].arg}}

SaveCode(r) ==
    <<Ins("push", 8, Reg(r), NoOperand)>>
    \o (IF ArgMap(r) = {} THEN <<>> ELSE <<Mov(8, At(CHOOSE a \in ArgMap(r) : TRUE), Reg(r))>>)

FunCode ==
    <<Ins("push", 8, Reg("rbp"), NoOperand), Ins1("enter", 8, NoOperand)>>
    \o FlattenSeq([i \in DOMAIN Used |-> SaveCode(Used[i])])

Restores(rs) == [i \in DOMAIN rs |-> Ins1("pop", 8, Reg(rs[i]))]

(* A faulty one: the registers are restored in the order they were saved. *)
EndfCodeForwards == Restores(Used) \o <<Ins1("leave", 8, NoOperand), Ins1("pop", 8, Reg("rbp"))>>

EndfCode == Restores(Reverse(Used)) \o <<Ins1("leave", 8, NoOperand), Ins1("pop", 8, Reg("rbp"))>>

------------------------------------------------------------------------------
(* gen_code: one line is compiled, and the machine runs it. *)

Line == prog.lines[pc]

Generates(gen) == pc <= Len(prog.lines) /\ m.fault = "" /\ Line.gen = gen

Runs(code) == m' = Run(m, code)

Continues(code) ==
    /\ Runs(code)
    /\ pc' = pc + 1
    /\ UNCHANGED <<prog, pushed, retClass, entry>>

GenMov == Generates("gen_mov") /\ Continues(MovCode(Line.a, Line.b))
GenBasicOp == Generates("gen_basic_op") /\ Continues(BasicCode(Line.op, Line.a, Line.b, Line.c))
GenMul == Generates("gen_mul") /\ Continues(MulCode(Line.a, Line.b, Line.c))
GenDiv == Generates("gen_div") /\ Continues(DivCode(Line.a, Line.b, Line.c))
GenMod == Generates("gen_mod") /\ Continues(ModCode(Line.a, Line.b, Line.c))
GenLsh == Generates("gen_lsh") /\ Continues(ShiftCode("lsh", Line.a, Line.b, Line.c))
GenRsh == Generates("gen_rsh") /\ Continues(ShiftCode("rsh", Line.a, Line.b, Line.c))
GenBranch == Generates("gen_branch") /\ Continues(BranchCode(Line.op, Line.a, Line.b))
GenLd == Generates("gen_ld") /\ Continues(LdCode(Line.k, Line.a, Line.b, Line.off))
GenSt == Generates("gen_st") /\ Continues(StCode(Line.k, Line.a, Line.b, Line.off))
GenCall == Generates("gen_call") /\ Continues(CallCode(Line.k, Line.a, Line.b))
GenNeg == Generates("gen_neg") /\ Continues(UnaryCode("neg", Line.a, Line.b))
GenNot == Generates("gen_not") /\ Continues(UnaryCode("not", Line.a, Line.b))
GenAdr == Generates("gen_adr") /\ Continues(AdrCode(Line.a, Line.b, Line.off))
GenFun == Generates("fun") /\ Continues(FunCode)
GenEndf == Generates("endf") /\ Continues(EndfCode)

GenPush ==
    /\ Generates("gen_push")
    /\ Runs(PushCode(Line.k, Line.a))
    /\ pushed' = <<Line.k>> \o pushed
    /\ pc' = pc + 1
    /\ UNCHANGED <<prog, retClass, entry>>

GenDel ==
    /\ Generates("del")
    /\ Runs(IF Line.off = 0 THEN <<>> ELSE <<Ins1("drop", Line.off, NoOperand)>>)
    /\ pushed' = SubSeq(pushed, Line.off + 1, Len(pushed))
    /\ pc' = pc + 1
    /\ UNCHANGED <<prog, retClass, entry>>

(* A jump to the end of the function, unless it comes next anyway. *)
GenRetval ==
    /\ Generates("gen_retval")
    /\ Runs(RetvalCode(Line.k, Line.a))
    /\ retClass' = Line.k
    /\ pc' = Len(prog.lines)
    /\ UNCHANGED <<prog, pushed, entry>>

Init ==
    /\ \E d \in Declarations : \E ls \in Functions(d) : prog = [decl |-> d, lines |-> ls]
    /\ m \in Machines(prog)
    /\ entry = [r |-> m.r, stack |-> m.stack]
    /\ pc = 1 /\ pushed = <<>> /\ retClass = 0

Next ==
    \/ GenMov \/ GenBasicOp \/ GenMul \/ GenDiv \/ GenMod \/ GenLsh \/ GenRsh
    \/ GenBranch \/ GenLd \/ GenSt \/ GenPush \/ GenDel \/ GenCall \/ GenRetval
    \/ GenNeg \/ GenNot \/ GenAdr \/ GenFun \/ GenEndf

Spec == Init /\ [][Next]_vars

------------------------------------------------------------------------------
(* Properties. *)

(* The word a variable is in; "fun" has to load the arguments first. *)
Entered == pc > 1 \/ prog.lines[1].gen # "fun"
Held8(d) == IF d.reg = "" \/ (d.arg /\ ~Entered) THEN Load(m, d.addr, 8) ELSE m.r[d.reg]

Abstract == INSTANCE Bcode WITH
    val <- [v \in Vars |-> IF prog.decl[v].class = 0 \/ retClass # 0 THEN 0
                           ELSE Meaning(prog.decl[v].class, Held8(prog.decl[v]))],
    bytes <- [i \in Object |-> m.mem[i]],
    args <- [i \in DOMAIN pushed |-> Low(m.stack[i], Bytes(pushed[i]))],
    called <- m.called,
    jumped <- m.jumped,
    ret <- IF retClass = 0 THEN <<>> ELSE <<Meaning(retClass, m.r.rax)>>,
    fault <- IF m.fault = "trap" THEN "undefined" ELSE m.fault

(* Every line that is compiled does to the variables, the object in memory *)
(* and the words on the stack what bcode means by it, from any contents of *)
(* the upper parts of registers and places, and to nothing else; no        *)
(* instruction is one that asm refuses (bcode/gencode.c and what it        *)
(* includes).                                                              *)
Implements == Abstract!Spec

(* A function leaves the registers of its caller's variables, rbp and the  *)
(* stack as they were (the cases "fun" and "endf" of gen_code).            *)
CalleeSaves ==
    (m.fault = "" /\ pc > Len(prog.lines) /\ Last(prog.lines).gen = "endf")
    => /\ m.stack = entry.stack
       /\ \A r \in DOMAIN m.r \ {"rax", "rcx", "rdx", "xmm0", "xmm1"} : m.r[r] = entry.r[r]
==============================================================================
