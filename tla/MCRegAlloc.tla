----------------------------- MODULE MCRegAlloc -----------------------------
(* Functions of two arguments, two locals, an array and a void variable,   *)
(* in three batches, with one machine register.  The four lines after the  *)
(* declarations make loops, branches over each other and early returns,    *)
(* take addresses and store through them.                                  *)
EXTENDS RegAlloc

CONSTANTS a, b, x, y, m, q

Const == None
Instr(op, v, u, w, l) == [op |-> op, a |-> <<v, u, w>>, branch |-> l, local |-> None]
Local(v) == [op |-> 0, a |-> <<None, None, None>>, branch |-> None, local |-> v]
Mov(v, u) == Instr(12, v, u, None, None)


Firsts == {Mov(x, a), Mov(x, Const), Mov(b, Const), Instr(11, y, m, None, None)}
Seconds == {Mov(y, x), Mov(y, b), Instr(7, a, Const, None, 9), Instr(7, x, Const, None, 10),
            Instr(8, None, None, None, 9), Instr(4, q, None, None, None)}
Thirds == {Mov(x, b), Instr(13, b, x, y, None), Instr(11, y, x, None, None), Instr(11, x, b, None, None),
           Instr(5, y, x, None, None), Instr(7, y, a, None, 7), Instr(8, None, None, None, 7),
           Instr(10, None, None, None, None), Instr(9, b, None, None, None)}
Lasts == {Instr(9, x, None, None, None), Instr(2, a, x, y, None), Instr(8, None, None, None, 8),
          Instr(3, y, None, None, None)}

MCFunctions ==
    {<<Local(a), Local(b), Local(x), Local(q), Local(m), Local(y), i, j, k, l>> :
        i \in Firsts, j \in Seconds, k \in Thirds, l \in Lasts}

MCSize == [v \in {a, b, x, y, m, q} |-> CASE v = m -> 24 [] v = x -> 1 [] OTHER -> 8]
==============================================================================
