----------------------------- MODULE Translate ------------------------------
(***************************************************************************)
(* The translator of scc (scc/scc/translate): from the syntax tree of a    *)
(* file to lines of bcode.                                                 *)
(*                                                                         *)
(* A node of the tree is a record: its kind k, its subtrees s, and where   *)
(* it has them the name x, the number n or the type t.  A type is read     *)
(* from the identifier outwards, as get_decl_type and decl_next do.  The   *)
(* functions of the code change t_env; here each takes it as e and returns *)
(* it, with the result in r if there is one.  error() stops the program;   *)
(* here e.bad says that it was called.                                     *)
(*                                                                         *)
(* The types are u8 for what is narrower than a word, u64, s64 for the     *)
(* difference of pointers, and what is made of them.  A declaration has    *)
(* one name, and structures have their members before they are used.       *)
(* Floats, strings, asm and namespaces are left out.                       *)
(***************************************************************************)
EXTENDS Integers, Sequences, SequencesExt, Bitwise, TLC

CONSTANTS
  Byte,        \* how many values a byte has [256]
  WordLen,     \* the bytes of a word and of a pointer [8]
  Members      \* name of a structure -> its members, [x, t]

Word == Byte ^ WordLen

Max2(a, b) == IF a > b THEN a ELSE b

\* FoldLeft, by a function of the index: the sequences here are long.
Fold(op(_, _), base, seq) ==
  LET f[i \in 0..Len(seq)] == IF i = 0 THEN base ELSE op(f[i - 1], seq[i]) IN f[Len(seq)]

-----------------------------------------------------------------------------
(* Types                                                                   *)

U8 == [k |-> "u8"]
U64 == [k |-> "u64"]
S64 == [k |-> "s64"]
Void == [k |-> "void"]
Ptr(t) == [k |-> "pointer", to |-> t]
Arr(m, t) == [k |-> "array", n |-> m, to |-> t]
Fun(t, args) == [k |-> "function", to |-> t, args |-> args]
Struct(tag) == [k |-> "struct", tag |-> tag]
Union(tag) == [k |-> "union", tag |-> tag]

is_basic(t) == t.k \in {"u8", "u64", "s64"}
is_pointer_array(t) == t.k \in {"pointer", "array"}
is_array_function(t) == t.k \in {"array", "function"}
is_pointer_array_function(t) == t.k \in {"pointer", "array", "function"}

\* TRUE if the types do not go together.
if_type_compat(t1, t2) == \E t \in {t1, t2} : ~(is_basic(t) \/ is_pointer_array_function(t))

array_function_to_pointer(t) ==
  CASE t.k = "array" -> Ptr(t.to) [] t.k = "function" -> Ptr(t) [] OTHER -> t

\* Arrays of any length are one type, and so are structures of any name.
RECURSIVE type_cmp(_, _)
type_cmp(t1, t2) ==
  /\ t1.k = t2.k
  /\ t1.k = "function" => /\ Len(t1.args) = Len(t2.args)
                          /\ \A i \in DOMAIN t1.args : type_cmp(t1.args[i], t2.args[i])
  /\ is_pointer_array_function(t1) => type_cmp(t1.to, t2.to)

RECURSIVE type_size(_)
type_size(t) ==
  CASE t.k \in {"pointer", "u64", "s64"} -> WordLen
    [] t.k = "u8" -> 1
    [] t.k = "array" -> t.n * type_size(t.to)
    [] t.k = "struct" -> Fold(LAMBDA n, m : n + type_size(m.t), 0, Members[t.tag])
    [] t.k = "union" -> Fold(LAMBDA n, m : Max2(n, type_size(m.t)), 0, Members[t.tag])
    [] OTHER -> 0

Scale(t) == IF type_size(t) = 0 THEN 1 ELSE type_size(t)

MemberAt(t, x) == CHOOSE i \in DOMAIN Members[t.tag] : Members[t.tag][i].x = x
get_member_type(t, x) == Members[t.tag][MemberAt(t, x)].t

\* Slip: the members of a structure before this one, and this one.
OffsetPast(t, x) ==
  IF t.k = "union" THEN 0
  ELSE Fold(LAMBDA n, m : n + type_size(m.t), 0, SubSeq(Members[t.tag], 1, MemberAt(t, x)))

get_member_offset(t, x) ==
  IF t.k = "union" THEN 0
  ELSE Fold(LAMBDA n, m : n + type_size(m.t), 0, SubSeq(Members[t.tag], 1, MemberAt(t, x) - 1))

-----------------------------------------------------------------------------
(* Names, labels, lines                                                    *)

Global == -1
\* What stands in a line: a variable x of a scope, a temporary variable, a number, a label.
Var(scope, x) == <<scope, x, 0>>
Temp(n) == <<-2, "", n>>
Num(n) == <<-3, "", n>>
Lab(n) == <<-4, "", n>>
Goto(func, x) == <<func, x, -4>>
Class(c) == <<-5, c, 0>>
None == -1                                     \* of branch_args

t_env0 == [out |-> <<>>, ids |-> <<>>, def |-> {}, stack |-> <<>>, next_num |-> 0, next_label |-> 0, label |-> <<>>,
           break_label |-> None, label_in_use |-> FALSE, func_num |-> 0, new_tmp_name |-> 0,
           label_use |-> {}, label_def |-> {}, write |-> FALSE, bad |-> FALSE]

\* c_write, which writes nothing while t_env.write is set.
Emit(e, op, a) == IF e.write THEN e ELSE [e EXCEPT !.out = Append(@, [op |-> op, a |-> a])]
Error(e) == [e EXCEPT !.bad = TRUE]
Need(e, fine) == IF fine THEN e ELSE Error(e)

control_label_push(e) ==
  [e EXCEPT !.next_label = @ + 3, !.label = Append(@, e.next_label + 3)]
control_label_pop(e) == [e EXCEPT !.label = Front(@)]
l1(e) == Last(e.label)
l2(e) == Last(e.label) + 1
l3(e) == Last(e.label) + 2
write_label(e, l) == Emit(e, "label", <<Lab(l)>>)
Bal(e, l) == Emit(e, "bal", <<Lab(l)>>)

translate_stack_push(e) == [e EXCEPT !.stack = Append(@, e.next_num), !.next_num = @ + 1]
translate_stack_pop(e) == [e EXCEPT !.stack = Front(@)]

\* Slip: the outermost declaration is found first.
FindOutermost(e, x) ==
  LET found == {i \in DOMAIN e.stack : Var(e.stack[i], x) \in DOMAIN e.ids}
  IN  IF found = {} THEN Var(Global, x)
      ELSE Var(e.stack[CHOOSE i \in found : \A j \in found : i <= j], x)

\* The name under which x is known, from the innermost scope outwards.  The names
\* of a scope that was left stay in ids: its number is never on the stack again.
id_find(e, x) ==
  LET found == {i \in DOMAIN e.stack : Var(e.stack[i], x) \in DOMAIN e.ids}
  IN  IF found = {} THEN Var(Global, x)
      ELSE Var(e.stack[CHOOSE i \in found : \A j \in found : i >= j], x)

\* x of this scope only.
id_find2(e, x) == IF e.stack = <<>> THEN Var(Global, x) ELSE Var(Last(e.stack), x)

\* A line for a variable: an array or a structure is "mem", which stands for its address.
Declare(e, where, name, t) ==
  LET class == CASE t.k \in {"array", "struct", "union"} -> "mem" [] t.k = "pointer" -> "u64" [] OTHER -> t.k
  IN  Emit(e, where, <<Class(class), Num(type_size(t)), name>>)

\* add_decl of what the program declares.  A function is known everywhere from
\* here on; one that is not defined here gets no line.
add_decl(e, t, x, isStatic, isDef) ==
  LET here == id_find2(e, x)
      name == IF t.k = "function" THEN Var(Global, x) ELSE here
      e1 == Need(e, here \in DOMAIN e.ids => ~(isDef /\ here \in e.def) /\ type_cmp(e.ids[here], t))
      e2 == IF t.k # "function"
            THEN Declare(e1, IF e.stack = <<>> \/ isStatic THEN "global" ELSE "local", name, t)
            ELSE IF isDef THEN Emit(e1, "fun", <<name>>) ELSE e1
  IN  [e2 EXCEPT !.ids = (name :> t) @@ @, !.def = IF isDef THEN @ \cup {name} ELSE @]

\* mktmpname, and add_decl of that name.
Tmp(e, t) ==
  LET id == Temp(e.new_tmp_name + 1)
  IN  [e |-> Declare([e EXCEPT !.new_tmp_name = @ + 1], "local", id, t), id |-> id]

-----------------------------------------------------------------------------
(* Results of expressions                                                  *)

Value(t, id) == [const |-> FALSE, v |-> 0, lval |-> FALSE, deref |-> FALSE, off |-> 0, t |-> t, id |-> id]
Constant(v) == [Value(U64, Num(0)) EXCEPT !.const = TRUE, !.v = v % Word]
At(t, id, off) == [Value(t, id) EXCEPT !.lval = TRUE, !.deref = TRUE, !.off = off]
Operand(r) == IF r.const THEN Num(r.v) ELSE r.id

Ld(t) == IF t.k = "u8" THEN "ldb" ELSE "ldq"
St(t) == IF t.k = "u8" THEN "stb" ELSE "stq"

deref_ptr(e, r) ==
  IF ~r.deref THEN [e |-> e, r |-> r]
  ELSE LET t == r.t.to
           T == Tmp(e, array_function_to_pointer(t))
           Into(e1) == [e |-> e1, r |-> [r EXCEPT !.t = array_function_to_pointer(t), !.id = T.id, !.off = 0]]
       IN  CASE t.k \in {"struct", "union", "void"} -> [e |-> Error(e), r |-> r]
             [] is_basic(t) \/ t.k = "pointer" -> Into(Emit(T.e, Ld(t), <<T.id, r.id, Num(r.off)>>))
             [] is_array_function(t) /\ r.off # 0 -> Into(Emit(T.e, "add", <<T.id, r.id, Num(r.off)>>))
             [] OTHER -> [e |-> [e EXCEPT !.new_tmp_name = @ + 1], r |-> [r EXCEPT !.t = array_function_to_pointer(t)]]

\* The result has the type of r, also if that is narrow.
scale_result(e, r, scale) ==
  LET T == Tmp(e, r.t)
  IN  IF scale = 1 THEN [e |-> e, r |-> r]
      ELSE [e |-> Emit(T.e, "mul", <<T.id, r.id, Num(scale)>>), r |-> [r EXCEPT !.id = T.id]]

\* A number is scaled by the compiler, a variable by the program.
Scaled(e, r, scale) ==
  IF r.const THEN [e |-> e, r |-> Constant(r.v * scale)] ELSE scale_result(e, r, scale)

\* What the compiler, and the bcode of unsigned classes, calculate.
Arith(op, a, b) ==
  CASE op = "add" -> (a + b) % Word
    [] op = "sub" -> (a - b) % Word
    [] op = "mul" -> (a * b) % Word
    [] op = "div" -> a \div b
    [] op = "mod" -> a % b
    [] op = "and" -> a & b
    [] op = "orr" -> a | b
    [] op = "eor" -> a ^^ b
    [] op = "lsh" -> (a * 2 ^ b) % Word
    [] op = "rsh" -> a \div 2 ^ b

Compares(op, a, b) ==
  CASE op = "ble" -> a <= b [] op = "bge" -> a >= b [] op = "blt" -> a < b
    [] op = "bgt" -> a > b [] op = "beq" -> a = b [] op = "bne" -> a # b

-----------------------------------------------------------------------------
(* Expressions                                                             *)

RECURSIVE calculate_expr(_, _), translate_branch(_, _, _, _)

\* Both operands, the left one first, before anything is loaded.
Operands(e, root) ==
  LET L == calculate_expr(e, root.s[1])
      R == calculate_expr(L.e, root.s[2])
  IN  [e |-> R.e, l |-> L.r, r |-> R.r]

\* Both operands as numbers, variables or temporary variables.
Loaded(e, l, r) ==
  LET A == deref_ptr(e, l)
      B == deref_ptr(A.e, r)
  IN  [e |-> B.e, l |-> A.r, r |-> B.r]

calculate_id(e, root) ==
  LET id == id_find(e, root.x)
      known == id \in DOMAIN e.ids
      t == IF known THEN e.ids[id] ELSE U64
  IN  [e |-> Need(e, known), r |-> [Value(t, id) EXCEPT !.lval = t.k # "function"]]

\* ins of l and r into a temporary variable of type t.
Into(e, ins, t, l, r) ==
  LET T == Tmp(e, t)
  IN  [e |-> Emit(T.e, ins, <<T.id, Operand(l), Operand(r)>>), r |-> Value(t, T.id)]

\* Slip: a number added to a pointer is not scaled.
AddUnscaled(e, root) ==
  LET O == Operands(e, root)
      D == Loaded(O.e, O.l, O.r)
  IN  IF O.l.const /\ O.r.const THEN [e |-> O.e, r |-> Constant(O.l.v + O.r.v)]
      ELSE Into(D.e, "add", array_function_to_pointer(D.l.t), D.l, D.r)

calculate_add(e, root) ==
  LET O == Operands(e, root)
      D == Loaded(O.e, O.l, O.r)
      e1 == Need(D.e, ~if_type_compat(D.l.t, D.r.t) /\ is_basic(D.r.t))
      S == Scaled(e1, D.r, IF is_pointer_array_function(D.l.t) THEN Scale(D.l.t.to) ELSE 1)
  IN  IF O.l.const /\ O.r.const THEN [e |-> O.e, r |-> Constant(O.l.v + O.r.v)]
      ELSE Into(S.e, "add", array_function_to_pointer(D.l.t), D.l, S.r)

\* The difference of two pointers is divided by the size of what they point to.
calculate_sub(e, root) ==
  LET O == Operands(e, root)
      D == Loaded(O.e, O.l, O.r)
      scale == IF is_pointer_array_function(D.l.t) THEN Scale(D.l.t.to) ELSE 1
      e1 == Need(D.e, ~if_type_compat(D.l.t, D.r.t))
      S == Scaled(e1, D.r, scale)
      P == Into(Need(e1, is_pointer_array_function(D.l.t)), "sub", S64, D.l, D.r)
  IN  CASE O.l.const /\ O.r.const -> [e |-> O.e, r |-> Constant(O.l.v - O.r.v)]
        [] ~(O.l.const /\ O.r.const) /\ is_pointer_array_function(D.r.t) ->
             IF scale = 1 THEN P ELSE Into(P.e, "div", S64, P.r, Constant(scale))
        [] OTHER -> Into(S.e, "sub", array_function_to_pointer(D.l.t), D.l, S.r)

\* The operations that are for numbers only.
Numbers(e, root, ins) ==
  LET O == Operands(e, root)
      D == Loaded(O.e, O.l, O.r)
      e1 == Need(D.e, is_basic(D.l.t) /\ is_basic(D.r.t))
  IN  CASE ~(O.l.const /\ O.r.const) -> Into(e1, ins, D.l.t, D.l, D.r)
        [] O.l.const /\ O.r.const /\ ins \in {"div", "mod"} /\ O.r.v = 0 -> [e |-> Error(O.e), r |-> Constant(0)]
        [] OTHER -> [e |-> O.e, r |-> Constant(Arith(ins, O.l.v, O.r.v))]

calculate_mul(e, root) == Numbers(e, root, "mul")
calculate_div(e, root) == Numbers(e, root, "div")
calculate_mod(e, root) == Numbers(e, root, "mod")
calculate_and(e, root) == Numbers(e, root, "and")
calculate_orr(e, root) == Numbers(e, root, "orr")
calculate_eor(e, root) == Numbers(e, root, "eor")
calculate_lsh(e, root) == Numbers(e, root, "lsh")
calculate_rsh(e, root) == Numbers(e, root, "rsh")

Unary(e, root, ins) ==
  LET A == calculate_expr(e, root.s[1])
      D == deref_ptr(A.e, [A.r EXCEPT !.t = array_function_to_pointer(@)])
      T == Tmp(Need(D.e, ~is_pointer_array_function(D.r.t)), D.r.t)
  IN  IF A.r.const THEN [e |-> A.e, r |-> Constant(IF ins = "neg" THEN -A.r.v ELSE -A.r.v - 1)]
      ELSE [e |-> Emit(T.e, ins, <<T.id, D.r.id>>), r |-> Value(D.r.t, T.id)]

calculate_neg(e, root) == Unary(e, root, "neg")
calculate_not(e, root) == Unary(e, root, "not")

calculate_cast(e, root) ==
  LET A == calculate_expr(e, root.s[1])
      D == deref_ptr(A.e, [A.r EXCEPT !.t = array_function_to_pointer(@)])
      T == Tmp(Need(D.e, ~is_array_function(root.t)), root.t)
  IN  [e |-> Emit(T.e, "mov", <<T.id, Operand(D.r)>>), r |-> Value(root.t, T.id)]

\* The lines of the operand are not written, but its names are used up.
calculate_sizeof(e, root) ==
  LET A == calculate_expr([e EXCEPT !.write = TRUE], root.s[1])
  IN  [e |-> [A.e EXCEPT !.write = e.write], r |-> Constant(type_size(IF A.r.deref THEN A.r.t.to ELSE A.r.t))]

-----------------------------------------------------------------------------
(* Addresses                                                               *)

calculate_addr(e, root) ==
  LET A == calculate_expr(e, root.s[1])
      r == A.r
      e1 == Need(A.e, r.lval)
      T == Tmp(e1, IF r.deref THEN r.t ELSE Ptr(r.t))
  IN  CASE r.deref /\ r.off = 0 -> [e |-> e1, r |-> Value(r.t, r.id)]
        [] r.deref /\ r.off # 0 -> [e |-> Emit(T.e, "add", <<T.id, r.id, Num(r.off)>>), r |-> Value(r.t, T.id)]
        [] ~r.deref -> [e |-> Emit(T.e, "adr", <<T.id, r.id>>), r |-> Value(Ptr(r.t), T.id)]

calculate_deref(e, root) ==
  LET A == calculate_expr(e, root.s[1])
      D == deref_ptr(A.e, A.r)
  IN  [e |-> Need(D.e, is_pointer_array(D.r.t)), r |-> [D.r EXCEPT !.lval = TRUE, !.deref = TRUE]]

\* Element r of what begins at offset off of l, where t is the array or the pointer.
Element(e, l, t, r, off) ==
  LET S == scale_result(e, r, Scale(t.to))
      T == Tmp(S.e, array_function_to_pointer(t))
  IN  IF r.const THEN [e |-> e, r |-> At(array_function_to_pointer(t), l.id, off + r.v * Scale(t.to))]
      ELSE [e |-> Emit(T.e, "add", <<T.id, l.id, S.r.id>>), r |-> At(array_function_to_pointer(t), T.id, off)]

calculate_index_ptr(e, root) ==
  LET O == Operands(e, root)
      D == Loaded(O.e, O.l, O.r)
  IN  Element(D.e, D.l, D.l.t, D.r, 0)

\* With a pointer, both operands are calculated, and calculated again.
calculate_index(e, root) ==
  LET O == Operands(e, root)
      D == deref_ptr(O.e, O.r)
      t == IF O.l.deref THEN O.l.t.to ELSE O.l.t
      e1 == Need(D.e, is_basic(D.r.t) /\ is_pointer_array(t))
  IN  IF t.k = "pointer" THEN calculate_index_ptr(e1, root) ELSE Element(e1, O.l, t, D.r, O.l.off)

calculate_member(e, root) ==
  LET A == calculate_expr(e, root.s[1])
      t == IF A.r.deref THEN A.r.t.to ELSE A.r.t
  IN  [e |-> A.e, r |-> At(Ptr(get_member_type(t, root.x)), A.r.id, A.r.off + get_member_offset(t, root.x))]

calculate_member_ptr(e, root) ==
  LET A == calculate_expr(e, root.s[1])
      D == deref_ptr(A.e, A.r)
      t == D.r.t.to
  IN  [e |-> Need(D.e, is_pointer_array(D.r.t)),
       r |-> At(Ptr(get_member_type(t, root.x)), D.r.id, get_member_offset(t, root.x))]

-----------------------------------------------------------------------------
(* Assignments                                                             *)

\* What can be stored is a number or a pointer.
Storable(t) == is_basic(t) \/ t.k = "pointer"

calculate_assign(e, root) ==
  LET O == Operands(e, root)
      D == deref_ptr(O.e, O.r)
      to == IF O.l.deref THEN O.l.t.to ELSE O.l.t
      e1 == Need(D.e, /\ O.l.lval /\ ~is_array_function(O.l.t)
                      /\ ~if_type_compat(to, D.r.t) /\ (O.l.deref => Storable(to)))
  IN  [e |-> IF O.l.deref THEN Emit(e1, St(to), <<O.l.id, Operand(D.r), Num(O.l.off)>>)
             ELSE Emit(e1, "mov", <<O.l.id, Operand(D.r)>>),
       r |-> [D.r EXCEPT !.lval = FALSE, !.deref = FALSE]]

\* ins of l and r into l, by way of a temporary variable if l is in memory.
Update(e, ins, l, r, scale) ==
  LET t == array_function_to_pointer(l.t.to)
      T == Tmp(e, t)
      R == Scaled(IF l.deref THEN Emit(T.e, Ld(t), <<T.id, l.id, Num(l.off)>>) ELSE e, r, scale)
      to == IF l.deref THEN T.id ELSE l.id
      e1 == Emit(R.e, ins, <<to, to, Operand(R.r)>>)
  IN  IF l.deref THEN [e |-> Emit(e1, St(t), <<l.id, T.id, Num(l.off)>>), r |-> Value(t, T.id)]
      ELSE [e |-> e1, r |-> Value(l.t, l.id)]

\* What is added to a pointer is counted in what it points to.
PointerScale(t) == IF is_pointer_array(t) THEN Scale(t.to) ELSE 1

Step(e, root, ins) ==
  LET A == calculate_expr(e, root.s[1])
      t == IF A.r.deref THEN A.r.t.to ELSE A.r.t
      e1 == Need(A.e, /\ A.r.lval /\ ~is_array_function(A.r.t)
                      /\ is_basic(t) \/ is_pointer_array(t))
  IN  Update(e1, ins, A.r, Constant(1), PointerScale(t))

calculate_inc(e, root) == Step(e, root, "add")
calculate_dec(e, root) == Step(e, root, "sub")

AssignScaled(e, root, ins) ==
  LET O == Operands(e, root)
      D == deref_ptr(O.e, O.r)
      t == IF O.l.deref THEN O.l.t.to ELSE O.l.t
      e1 == Need(D.e, /\ O.l.lval /\ ~is_array_function(O.l.t) /\ ~is_pointer_array_function(D.r.t)
                      /\ (O.l.deref => is_basic(t) \/ is_pointer_array(t)))
  IN  Update(e1, ins, O.l, D.r, PointerScale(t))

calculate_assign_add(e, root) == AssignScaled(e, root, "add")
calculate_assign_sub(e, root) == AssignScaled(e, root, "sub")

OpOf == [o \in {"*=", "/=", "%=", "<<=", ">>=", "&=", "|=", "^="} |->
           CASE o = "*=" -> "mul" [] o = "/=" -> "div" [] o = "%=" -> "mod" [] o = "<<=" -> "lsh"
             [] o = ">>=" -> "rsh" [] o = "&=" -> "and" [] o = "|=" -> "orr" [] o = "^=" -> "eor"]

calculate_assign_op(e, root, ins) ==
  LET O == Operands(e, root)
      D == deref_ptr(O.e, O.r)
      e1 == Need(D.e, O.l.lval /\ ~is_pointer_array_function(D.r.t) /\ (O.l.deref => is_basic(O.l.t.to)))
  IN  Update(e1, ins, O.l, D.r, 1)

-----------------------------------------------------------------------------
(* Calls                                                                   *)

\* Slip: the first argument is pushed first.
PushForward(e, root, args) ==
  Fold(LAMBDA e1, i : LET A == calculate_expr(e1, root.s[i + 1])
                          D == deref_ptr(A.e, A.r)
                      IN  Emit(D.e, "push", <<Operand(D.r)>>),
       e, [i \in 1..Len(args) |-> i])

\* The last argument is calculated and pushed first.
PushArguments(e, root, args) ==
  Fold(LAMBDA e1, i : LET A == calculate_expr(e1, root.s[i + 1])
                          D == deref_ptr(A.e, A.r)
                      IN  Emit(Need(D.e, ~if_type_compat(D.r.t, args[i])), "push", <<Operand(D.r)>>),
       e, [i \in 1..Len(args) |-> Len(args) + 1 - i])

calculate_call(e, root) ==
  LET A == calculate_expr(e, root.s[1])
      D == deref_ptr(A.e, A.r)
      t == IF is_pointer_array(D.r.t) THEN D.r.t.to ELSE D.r.t
      m == Len(root.s) - 1
      fine == t.k = "function" /\ Len(t.args) = m
      P == PushArguments(D.e, root, t.args)
      T == Tmp(P, t.to)
      e1 == Emit(T.e, "call", <<T.id, D.r.id>>)
  IN  IF fine THEN [e |-> IF m > 0 THEN Emit(e1, "del", <<Num(m)>>) ELSE e1, r |-> Value(t.to, T.id)]
      ELSE [e |-> Error(D.e), r |-> D.r]

-----------------------------------------------------------------------------
(* Conditions                                                              *)

Relops == [o \in {"<=", ">=", "<", ">", "==", "!="} |->
             CASE o = "<=" -> <<"ble", "bgt">> [] o = ">=" -> <<"bge", "blt">> [] o = "<" -> <<"blt", "bge">>
               [] o = ">" -> <<"bgt", "ble">> [] o = "==" -> <<"beq", "bne">> [] o = "!=" -> <<"bne", "beq">>]
Logical == DOMAIN Relops \cup {"!", "&&", "||"}

\* A truth into a variable.
calculate_branch(e, root) ==
  LET e0 == control_label_push(e)
      T == Tmp(e0, U64)
      e1 == translate_branch(Emit(T.e, "mov", <<T.id, Num(0)>>), root, None, l2(e0))
      e2 == write_label(Emit(e1, "mov", <<T.id, Num(1)>>), l2(e0))
  IN  [e |-> control_label_pop(e2), r |-> Value(U64, T.id)]

\* The comparison ins1 of l and r, whose contrary is ins2, or what is known of it.
\* A label of None means to go on with what follows.
BranchOn(e, ins1, ins2, l, r, ltrue, lfalse) ==
  LET to(e1, label) == IF label = None THEN e1 ELSE Bal(e1, label)
  IN  CASE l.const /\ r.const -> to(e, IF Compares(ins1, l.v, r.v) THEN ltrue ELSE lfalse)
        [] ~(l.const /\ r.const) /\ ltrue # None ->
             to(Emit(e, ins1, <<Operand(l), Operand(r), Lab(ltrue)>>), lfalse)
        [] ~(l.const /\ r.const) /\ ltrue = None /\ lfalse # None ->
             Emit(e, ins2, <<Operand(l), Operand(r), Lab(lfalse)>>)
        [] OTHER -> e

translate_branch_relop(e, root, ltrue, lfalse) ==
  LET O == Operands(e, root)
      D == Loaded(O.e, O.l, O.r)
      e1 == Need(D.e, D.l.const \/ D.r.const \/ ~if_type_compat(D.l.t, D.r.t))
  IN  BranchOn(e1, Relops[root.k][1], Relops[root.k][2], D.l, D.r, ltrue, lfalse)

\* Slip: if the left side is false, the right side is looked at.
AndGoesOn(e, root, ltrue, lfalse) ==
  LET e0 == control_label_push(e)
      e1 == translate_branch(e0, root.s[1], None, lfalse)
      e2 == translate_branch(e1, root.s[2], ltrue, lfalse)
  IN  control_label_pop(write_label(e2, l3(e0)))

translate_branch_and(e, root, ltrue, lfalse) ==
  LET e0 == control_label_push(e)
      e1 == translate_branch(e0, root.s[1], None, IF lfalse = None THEN l3(e0) ELSE lfalse)
      e2 == translate_branch(e1, root.s[2], ltrue, lfalse)
  IN  control_label_pop(write_label(e2, l3(e0)))

translate_branch_or(e, root, ltrue, lfalse) ==
  LET e0 == control_label_push(e)
      e1 == translate_branch(e0, root.s[1], IF ltrue = None THEN l3(e0) ELSE ltrue, None)
      e2 == translate_branch(e1, root.s[2], ltrue, lfalse)
  IN  control_label_pop(write_label(e2, l3(e0)))

translate_branch_not(e, root, ltrue, lfalse) == translate_branch(e, root.s[1], lfalse, ltrue)

translate_branch(e, root, ltrue, lfalse) ==
  CASE root.k \in DOMAIN Relops -> translate_branch_relop(e, root, ltrue, lfalse)
    [] root.k = "!" -> translate_branch_not(e, root, ltrue, lfalse)
    [] root.k = "&&" -> translate_branch_and(e, root, ltrue, lfalse)
    [] root.k = "||" -> translate_branch_or(e, root, ltrue, lfalse)
    [] OTHER -> LET A == calculate_expr(e, root)
                    D == deref_ptr(A.e, A.r)
                IN  BranchOn(D.e, "bne", "beq", D.r, Constant(0), ltrue, lfalse)

calculate_expr(e, root) ==
  CASE root.k = "Identifier" -> calculate_id(e, root)
    [] root.k = "Constant" -> [e |-> e, r |-> Constant(root.n)]
    [] root.k = "," -> calculate_expr(calculate_expr(e, root.s[1]).e, root.s[2])
    [] root.k = "=" -> calculate_assign(e, root)
    [] root.k = "+" -> calculate_add(e, root)
    [] root.k = "*" -> calculate_mul(e, root)
    [] root.k = "-" -> calculate_sub(e, root)
    [] root.k = "/" -> calculate_div(e, root)
    [] root.k = "%" -> calculate_mod(e, root)
    [] root.k = "&" -> calculate_and(e, root)
    [] root.k = "|" -> calculate_orr(e, root)
    [] root.k = "^" -> calculate_eor(e, root)
    [] root.k = "<<" -> calculate_lsh(e, root)
    [] root.k = ">>" -> calculate_rsh(e, root)
    [] root.k = "neg" -> calculate_neg(e, root)
    [] root.k = "~" -> calculate_not(e, root)
    [] root.k = "." -> calculate_member(e, root)
    [] root.k = "->" -> calculate_member_ptr(e, root)
    [] root.k = "sizeof" -> calculate_sizeof(e, root)
    [] root.k = "sizeof_type" -> [e |-> e, r |-> Constant(type_size(root.t))]
    [] root.k = "addr" -> calculate_addr(e, root)
    [] root.k = "deref" -> calculate_deref(e, root)
    [] root.k = "[]" -> calculate_index(e, root)
    [] root.k = "++" -> calculate_inc(e, root)
    [] root.k = "--" -> calculate_dec(e, root)
    [] root.k = "+=" -> calculate_assign_add(e, root)
    [] root.k = "-=" -> calculate_assign_sub(e, root)
    [] root.k \in DOMAIN OpOf -> calculate_assign_op(e, root, OpOf[root.k])
    [] root.k \in Logical -> calculate_branch(e, root)
    [] root.k = "call" -> calculate_call(e, root)
    [] root.k = "cast" -> calculate_cast(e, root)

-----------------------------------------------------------------------------
(* Statements                                                              *)

RECURSIVE translate_stmt(_, _)

translate_return(e, root) ==
  IF root.s = <<>> THEN Emit(e, "ret", <<>>)
  ELSE LET A == calculate_expr(e, root.s[1])
           D == deref_ptr(A.e, A.r)
       IN  Emit(D.e, "retval", <<Operand(D.r)>>)

translate_if(e, root) ==
  LET e0 == control_label_push(e)
      e1 == translate_stmt(translate_branch(e0, root.s[1], None, l3(e0)), root.s[2])
  IN  control_label_pop(write_label(e1, l3(e0)))

translate_ifelse(e, root) ==
  LET e0 == control_label_push(e)
      e1 == translate_stmt(translate_branch(e0, root.s[1], None, l2(e0)), root.s[2])
      e2 == translate_stmt(write_label(Bal(e1, l3(e0)), l2(e0)), root.s[3])
  IN  control_label_pop(write_label(e2, l3(e0)))

\* break leaves the loop that has the labels of e0.
LoopBegins(e) ==
  LET e0 == control_label_push(e)
  IN  [e0 EXCEPT !.label_in_use = TRUE, !.break_label = Last(e0.label)]

\* Slip: after an inner loop, break still means that loop.
BreakStays(e, before) == [control_label_pop(e) EXCEPT !.label_in_use = before.label_in_use]

LoopEnds(e, before) ==
  [control_label_pop(e) EXCEPT !.label_in_use = before.label_in_use, !.break_label = before.break_label]

\* Slip: behind the body the condition is not looked at again.
WhileForever(e, root) ==
  LET e0 == LoopBegins(e)
      e1 == write_label(translate_branch(e0, root.s[1], None, l3(e0)), l1(e0))
      e2 == Bal(translate_stmt(e1, root.s[2]), l1(e0))
  IN  LoopEnds(write_label(e2, l3(e0)), e)

\* The condition stands before the body and behind it.
translate_while(e, root) ==
  LET e0 == LoopBegins(e)
      e1 == write_label(translate_branch(e0, root.s[1], None, l3(e0)), l1(e0))
      e2 == translate_branch(translate_stmt(e1, root.s[2]), root.s[1], l1(e0), None)
  IN  LoopEnds(write_label(e2, l3(e0)), e)

translate_dowhile(e, root) ==
  LET e0 == LoopBegins(e)
      e1 == translate_stmt(write_label(e0, l1(e0)), root.s[1])
      e2 == translate_branch(e1, root.s[2], l1(e0), None)
  IN  LoopEnds(write_label(e2, l3(e0)), e)

translate_break(e) == Bal(Need(e, e.label_in_use), e.break_label + 2)

translate_goto(e, root) ==
  LET l == Goto(e.func_num, root.x)
  IN  [Emit(e, "bal", <<l>>) EXCEPT !.label_use = @ \cup {l}]

translate_label(e, root) ==
  LET l == Goto(e.func_num, root.x)
  IN  [Emit(e, "label", <<l>>) EXCEPT !.label_def = @ \cup {l}]

translate_block(e, root, push) ==
  LET inner(e1) == Fold(LAMBDA e2, st : translate_stmt(e2, st), e1, root.s)
  IN  IF push THEN translate_stack_pop(inner(translate_stack_push(e))) ELSE inner(e)

translate_decl(e, root) == add_decl(e, root.t, root.x, root.k = "static_decl", root.t.k # "function")

\* After an error nothing more is translated.
translate_stmt(e, root) ==
  IF e.bad THEN e
  ELSE CASE root.k \in {"decl", "static_decl"} -> translate_decl(e, root)
         [] root.k = "expr" -> calculate_expr(e, root.s[1]).e
         [] root.k = "block" -> translate_block(e, root, TRUE)
         [] root.k = "return" -> translate_return(e, root)
         [] root.k = "if" -> translate_if(e, root)
         [] root.k = "ifelse" -> translate_ifelse(e, root)
         [] root.k = "while" -> translate_while(e, root)
         [] root.k = "dowhile" -> translate_dowhile(e, root)
         [] root.k = "break" -> translate_break(e)
         [] root.k = "goto" -> translate_goto(e, root)
         [] root.k = "Label" -> translate_label(e, root)

-----------------------------------------------------------------------------
(* Files                                                                   *)

\* root has the name x, the type t, the names of the arguments args, and the body.
translate_fundef(e, root) ==
  LET e1 == add_decl(e, root.t, root.x, FALSE, TRUE)
      e2 == translate_stack_push(Emit([e1 EXCEPT !.func_num = @ + 1], "arglist", <<>>))
      e3 == Fold(LAMBDA e4, i : add_decl(e4, array_function_to_pointer(root.t.args[i]), root.args[i], FALSE, TRUE),
                     e2, [i \in DOMAIN root.args |-> i])
      e5 == translate_block(Emit(e3, "enda", <<>>), root.s[1], FALSE)
  IN  Emit(translate_stack_pop(e5), "endf", <<>>)

translate_file(e, root) ==
  Fold(LAMBDA e1, d : IF d.k = "fundef" THEN translate_fundef(e1, d) ELSE translate_stmt(e1, d), e, root)

\* At the end, every label that was gone to has to be there.
scc_run(root) == LET e == translate_file(t_env0, root) IN Need(e, e.label_use \subseteq e.label_def)
=============================================================================
