--------------------------- MODULE MCMemorySafety ---------------------------
(***************************************************************************)
(* A function that allocates and does two or three things with two         *)
(* pointers, one of them in an if or some of them in a loop; and helpers.  *)
(***************************************************************************)
EXTENDS MemorySafety

Op(op, x) == Cmd(op, "", x, "")
To(op, out, x) == Cmd(op, out, <<x>>, "")
New(out) == Cmd("alloc", out, << >>, "")
Call(out, name, x) == Cmd("call", out, x, name)
Jump(op, l) == Cmd(op, "", << >>, l)
Param == Cmd("param", "x", << >>, "")
End == Op("return", << >>)

Helper == [
  id    |-> << Param, Op("return", <<"x">>) >>,
  drop  |-> << Param, Op("free", <<"x">>), End >>,
  maybe |-> << Param, Jump("branch", "N"), Op("free", <<"x">>), Jump("label", "N"), End >>,
  touch |-> << Param, To("read", "y", "x"), End >>,
  keep  |-> << Param, To("set", "g", "x"), End >>,
  make  |-> << New("y"), Op("return", <<"y">>) >> ]

Statement == [
  newp   |-> << New("t1"), To("set", "p", "t1") >>,
  newq   |-> << New("t2"), To("set", "q", "t2") >>,
  copy   |-> << To("set", "q", "p") >>,
  back   |-> << To("set", "p", "q") >>,
  freep  |-> << To("set", "t3", "p"), Op("free", <<"t3">>) >>,
  freeq  |-> << To("set", "t4", "q"), Op("free", <<"t4">>) >>,
  readp  |-> << To("read", "r", "p") >>,
  usep   |-> << Op("store", <<"p", "one">>) >>,
  link   |-> << Op("store", <<"q", "p">>) >>,
  global |-> << To("set", "g", "p") >>,
  field  |-> << Cmd("putrel", "", <<"p">>, "s") >>,
  pass   |-> << Op("extern", <<"q">>) >>,
  next   |-> << To("derive", "t5", "p"), To("set", "q", "t5") >>,
  local  |-> << To("addrof", "t6", "p"), To("set", "q", "t6") >>,
  id     |-> << Call("t7", "id", <<"p">>), To("set", "q", "t7") >>,
  drop   |-> << Call("", "drop", <<"p">>) >>,
  maybe  |-> << Call("", "maybe", <<"p">>) >>,
  touch  |-> << To("set", "t8", "p"), Call("", "touch", <<"t8">>) >>,
  keep   |-> << Call("", "keep", <<"q">>) >>,
  make   |-> << Call("t9", "make", << >>), To("set", "p", "t9") >>,
  retp   |-> << Op("return", <<"p">>) >> ]

Joined(bodies) ==
  LET cat[k \in 0..Len(bodies)] == IF k = 0 THEN << >> ELSE cat[k - 1] \o bodies[k]
  IN cat[Len(bodies)]

Straight(b) == Joined([k \in DOMAIN b |-> Statement[b[k]]]) \o << End >>

\* The j-th statement in an if.
Guarded(b, j) ==
  Joined([k \in DOMAIN b |->
            IF k = j THEN << Jump("branch", "N") >> \o Statement[b[k]] \o << Jump("label", "N") >>
                     ELSE Statement[b[k]]]) \o << End >>

\* The statements from the j-th on in a loop.
Looped(b, j) ==
  Joined([k \in DOMAIN b |->
            IF k = j THEN << Jump("label", "L"), Jump("branch", "E") >> \o Statement[b[k]]
                     ELSE Statement[b[k]]])
    \o << Jump("jump", "L"), Jump("label", "E"), End >>

Bodies == { <<a>> \o b : a \in {"newp", "make"}, b \in [1..2 -> DOMAIN Statement] }

Roots == { Straight(b) : b \in Bodies }
         \cup { Straight(b \o <<c>>) : b \in { x \in Bodies : x[1] = "newp" },
                                       c \in {"freep", "usep", "newq"} }
         \cup { Guarded(b, j) : b \in Bodies, j \in 1..2 }
         \cup { Looped(b, j) : b \in Bodies, j \in 1..2 }

SmallPrograms ==
  { [f \in {"root"} \cup CalledBy(p) |-> IF f = "root" THEN p ELSE Helper[f]] : p \in Roots }

=============================================================================
