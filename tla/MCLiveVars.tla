----------------------------- MODULE MCLiveVars -----------------------------
(***************************************************************************)
(* Programs for LiveVars.                                                  *)
(***************************************************************************)
EXTENDS LiveVars, TLC

CONSTANTS a, b

Cmd(in, out, to, falls) ==
  [in |-> in, out |-> out, to |-> to, falls |-> falls, clobber |-> {},
   late |-> {}, asks |-> 0, kept |-> {}]

Plain(in, out) == Cmd(in, out, 0, TRUE)
JumpZero(in, to) == Cmd(in, <<>>, to, TRUE)
Jump(to) == Cmd(<<>>, <<>>, to, FALSE)
Return(in) == Cmd(in, <<>>, 0, FALSE)

Reads == { <<>>, <<a>>, <<a, a>>, <<a, b>>, <<b, a>> }

AllCommands(n) ==
  { Plain(in, out) : in \in Reads, out \in { <<>> } }
    \cup { Plain(in, <<v>>) : in \in { <<>>, <<a>>, <<b>> }, v \in {a, b} }
    \cup { JumpZero(in, to) : in \in { <<a>>, <<a, b>> }, to \in 1..n }
    \cup { Jump(to) : to \in 1..n }
    \cup { Return(in) : in \in { <<a>>, <<b>> } }

\* Every program of three commands over two values.
SmallPrograms ==
  [1..3 -> { cmd \in AllCommands(3) : Elems(cmd.in) \cap Elems(cmd.out) = {} }]

(***************************************************************************)
(* Two loops that jump into each other and leave through exits that read   *)
(* the same two values in different orders, with unreachable assignments   *)
(* after the gotos and returns:                                            *)
(*     goto h2;                                                            *)
(*     e1: return a - b;  a = 0; b = 0;                                    *)
(*     e2: return b - a;  a = 0; b = 0;                                    *)
(*     h2: if (..) goto e2;  goto h1;  a = 0; b = 0;                       *)
(*     h1: if (..) goto e1;  goto h2;                                      *)
(***************************************************************************)
Exits(in) == << Return(in), Plain(<<>>, <<a>>), Plain(<<>>, <<b>>) >>

CrossedLoops ==
  { << Jump(8) >> \o Exits(x) \o Exits(y)
     \o << JumpZero(<<>>, 5), Jump(12), Plain(<<>>, <<a>>), Plain(<<>>, <<b>>) >>
     \o << JumpZero(<<>>, 2), Jump(8) >> : x, y \in { <<a, b>>, <<b, a>> } }

\* The analysis of the crossed loops does not end where x # y.
MCPrograms == SmallPrograms \cup CrossedLoops
=============================================================================
