---------------------------- MODULE MCHomedCode ----------------------------
(***************************************************************************)
(* Functions for HomedCode.  x and y are of a floating type, g is of       *)
(* static storage and w an array.                                          *)
(***************************************************************************)
EXTENDS HomedCode

CONSTANTS a, b, c, t, h, x, y, g, w

MCBytes == [v \in Vars |-> IF v = w THEN 16 ELSE IF v \in {x, y} THEN 8 ELSE 4]

Cmd(op, in, out, to) == [op |-> op, in |-> in, out |-> out, to |-> to]

Arg(v) == Cmd("arg", <<>>, <<v>>, 0)
Set(v, u) == Cmd("set", <<v>>, <<u>>, 0)
SetLiteral(v) == Cmd("set", <<>>, <<v>>, 0)
Add(v, u, r) == Cmd("plain", <<v, u>>, <<r>>, 0)
Compare(v, u, r) == Cmd("compare", <<v, u>>, <<r>>, 0)
Address(v, r) == Cmd("address", <<v>>, <<r>>, 0)
CallOn(args, out) == Cmd("call", args, out, 0)
Label == Cmd("label", <<>>, <<>>, 0)
Jump(to) == Cmd("jump", <<>>, <<>>, to)
Branch(v, to) == Cmd("branch", <<v>>, <<>>, to)
Return(v) == Cmd("return", <<v>>, <<>>, 0)

Steps ==
  { Add(a, b, t), Set(t, a), Set(t, b), Set(b, a), Set(a, c), Add(a, a, c),
    CallOn(<<b, a>>, <<t>>), CallOn(<<>>, <<c>>) }

\* Straight code over three variables and a temporary: swaps, calls, copies.
Straight ==
  { << Arg(a), Arg(b), s1, s2, s3, s4, Return(r) >> :
      s1 \in Steps, s2 \in Steps, s3 \in Steps, s4 \in { Set(t, a), Set(t, b), CallOn(<<>>, <<c>>), Compare(a, b, h) },
      r \in {a, c} }

\* A loop that runs while a comparison says so.
Loops ==
  { << Arg(a), Arg(b), Label, s1, Compare(a, b, h), Branch(h, 9), s2, Jump(3), Label, Return(r) >> :
      s1 \in Steps, s2 \in Steps, r \in {b, c, h} }

MixedSteps ==
  { Set(a, x), Set(x, y), Add(x, x, y), Set(y, x), CallOn(<<x, a>>, <<y>>),
    Set(a, g), Set(g, b), Add(g, a, t), Set(t, g), Address(b, c), Address(g, c),
    Add(w, a, t), CallOn(<<c>>, <<w>>), Compare(x, y, h) }

\* Values of both kinds, in memory and static.
Mixed ==
  { << Arg(a), Arg(x), Arg(b), s1, s2, s3, Return(r) >> :
      s1 \in MixedSteps, s2 \in MixedSteps, s3 \in MixedSteps, r \in {b} }

\* More values at a time than registers, some of them across a call.
Crowded ==
  { << Arg(a), Arg(b), SetLiteral(c), SetLiteral(t), s1, Add(g, a, h), Set(h, g),
       Add(b, c, h), Add(t, h, x), Return(r) >> :
      s1 \in { CallOn(<<a, b>>, <<h>>), CallOn(<<>>, <<h>>), Set(b, h) }, r \in {a, b, c, t} }

\* A comparison makes a value of its own.
Compares(p) == Cardinality({ i \in 1..Len(p) : p[i].op = "compare" })

Functions ==
  Straight \cup Loops \cup Crowded \cup { p \in Mixed : Compares(p) <= 1 }

(***************************************************************************)
(* int f(int c) { int b = c++; c = b; return c; }                          *)
(***************************************************************************)
Chained ==
  { << Arg(c), Set(c, t), Add(c, c, a), Set(a, c), Set(t, b), Set(b, c), Return(c) >> }
=============================================================================
