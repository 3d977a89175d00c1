-------------------------- MODULE MCAllocatedCode --------------------------
(***************************************************************************)
(* Programs for AllocatedCode.                                             *)
(***************************************************************************)
EXTENDS AllocatedCode

CONSTANTS a, b, c, r1, r2, m1, m2

Cmd(in, out, to, falls, clobber, late, asks, kept) ==
  [in |-> in, out |-> out, to |-> to, falls |-> falls, clobber |-> clobber,
   late |-> late, asks |-> asks, kept |-> kept]

\* A function's argument or a literal, a copy, a sum, a division (which
\* clobbers r1), a call (which clobbers both), a jump and a return.
Arg(v) == Cmd(<<>>, <<v>>, 0, TRUE, {}, {}, 0, {})
Copy(v, w) == Cmd(<<v>>, <<w>>, 0, TRUE, {}, {}, 0, {})
Store(v, w) == Cmd(<<v, w>>, <<>>, 0, TRUE, {}, {}, 1, {v, w})
Div(v, w, x) == Cmd(<<v, w>>, <<x>>, 0, TRUE, {r1}, {w}, 0, {})
CallOf(v, w) == Cmd(<<v>>, <<w>>, 0, TRUE, {r1, r2}, {}, 0, {})
JumpZero(v, to) == Cmd(<<v>>, <<>>, to, TRUE, {}, {}, 0, {})
Less(v, w, to) == Cmd(<<v, w>>, <<>>, to, TRUE, {}, {}, 1, {v, w})
Return(v) == Cmd(<<v>>, <<>>, 0, FALSE, {r1}, {}, 0, {})

Middle ==
  { Arg(c), Copy(a, c), Store(a, b), Div(a, b, c), CallOf(a, c), CallOf(b, a) }
Last(n) ==
  { Store(b, c), Div(c, a, b), JumpZero(a, 2), JumpZero(b, 3) }

\* The least solution of the analysis's equations, grown as a set of pairs.
LiveOf(p, pairs) == [i \in 1..Len(p) |-> { v \in Vars : <<i, v>> \in pairs }]

LeastLive(p) ==
  LET pass[n \in Nat] ==
        IF n = 0 THEN {}
        ELSE LET li == LiveOf(p, pass[n - 1])
             IN  UNION { {i} \X LiveIn(p, li, i) : i \in 1..Len(p) }
  IN  LiveOf(p, pass[2 * Len(p)])

WithLive(P) == { [code |-> p, live |-> LeastLive(p)] : p \in P }

StraightPrograms == WithLive(
  { << Arg(a), Arg(b), x, y, z, Return(r) >> :
      x \in Middle, y \in Middle, z \in Last(5), r \in {a, b, c} })

\* A comparison of two values with the third live on both ways out.
BranchingPrograms == WithLive(
  { << Arg(a), Arg(b), Arg(c), Less(a, b, 6), Copy(c, a), Return(c) >> })
=============================================================================
