----------------------------- MODULE MCPeephole -----------------------------
(***************************************************************************)
(* Functions with one loop, in the commands the tree makes of them.        *)
(***************************************************************************)
EXTENDS Peephole

Binary(op, o, x, y) == Cmd(op, <<o>>, <<x, y>>, "")
Copy(o, x) == Cmd("set", <<o>>, <<x>>, "")
Load(o, a) == Cmd("read", <<o>>, <<a>>, "")
Act(op, l, x) == Cmd(op, << >>, x, l)

\* The statements; each one has temporaries of its own.
Statement == [
  sum    |-> << Copy("t1", "i"), Binary("mul", "t2", "t1", "four"), Binary("add", "t3", "a", "t2"),
                Load("t4", "t3"), Binary("add", "t5", "s", "t4"), Copy("s", "t5") >>,
  last   |-> << Binary("sub", "u1", "n", "i"), Binary("mul", "u2", "u1", "one"),
                Binary("add", "u3", "a", "u2"), Load("u4", "u3"), Copy("s", "u4") >>,
  save   |-> << Copy("w1", "i"), Binary("mul", "w2", "w1", "four"), Binary("add", "w3", "a", "w2"),
                Act("store", "", <<"w3", "s">>) >>,
  double |-> << Binary("mul", "d1", "i", "four"), Copy("k", "d1") >>,
  far    |-> << Binary("add", "f1", "a", "k"), Load("f2", "f1"), Copy("s", "f2") >>,
  next   |-> << Binary("add", "i1", "i", "one"), Copy("i", "i1") >>,
  outer  |-> << Binary("add", "x1", "g", "zero"), Copy("x", "x1") >>,
  use    |-> << Binary("add", "y1", "a", "x"), Load("y2", "y1"), Copy("s", "y2") >>,
  call   |-> << Act("call", "", <<"s">>) >> ]

\* No statement of a body reads what a later one computes afresh.
Bodies ==
  { b \in UNION { [1..n -> DOMAIN Statement] : n \in 1..3 } :
      /\ \A j, k \in DOMAIN b : b[j] = b[k] => j = k
      /\ \A j, k \in DOMAIN b :
           <<b[j], b[k]>> \in {<<"double", "far">>, <<"outer", "use">>} => j < k }

Code(b) == FlattenSeq([k \in DOMAIN b |-> Statement[b[k]]])

Test(exit) == << Binary("less", "c", "i", "n"), Act("jz", exit, <<"c">>) >>

WhileLoop(b, r) ==
  << Copy("s", "zero"), Act("label", "L", << >>) >> \o Test("E") \o Code(b)
    \o << Act("jump", "L", << >>), Act("label", "E", << >>), Act("return", "", <<r>>) >>

DoLoop(b, r) ==
  << Copy("s", "zero"), Act("label", "L", << >>) >> \o Code(b) \o Test("E")
    \o << Act("jump", "L", << >>), Act("label", "E", << >>), Act("return", "", <<r>>) >>

\* L: body; goto L;  with or without a return at its end.
EndlessLoop(b, stop) ==
  << Copy("s", "zero"), Act("label", "L", << >>) >> \o Code(b)
    \o (IF stop THEN << Act("return", "", <<"s">>) >> ELSE << >>)
    \o << Act("jump", "L", << >>) >>

Functions ==
  { WhileLoop(b, "s") : b \in Bodies }
    \cup { WhileLoop(b, "k") : b \in { x \in Bodies : "double" \in Range(x) } }
    \cup { DoLoop(b, "s") : b \in Bodies }
    \cup { EndlessLoop(b, stop) : b \in Bodies, stop \in BOOLEAN }

Literals == "zero" :> 0 @@ "one" :> 1 @@ "four" :> 4

\* On entry i is 0, a is an address and n the number of rounds.
Entry(n) == "i" :> 0 @@ "n" :> n @@ "s" :> 0 @@ "a" :> 100 @@ "k" :> 1 @@ "x" :> 3 @@ "g" :> 8

AllCases ==
  { [commands |-> p, literals |-> Literals, env |-> Entry(n)] : p \in Functions, n \in {0, 2} }

\* Two names for each round.
NewNames == [k \in 1..2 * MaxRounds |-> "new" \o ToString(k)]

AllNames ==
  DOMAIN Literals \cup DOMAIN Entry(0) \cup ToSet(NewNames) \cup {"c"}
    \cup UNION { UNION { ToSet(c.out) : c \in ToSet(Statement[s]) } : s \in DOMAIN Statement }

\* Cells differ from each other.
OwnAddress(a) == a

=============================================================================
