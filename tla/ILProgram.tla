----------------------------- MODULE ILProgram -----------------------------
(***************************************************************************)
(* The intermediate language as the x86 back end sees it: lists of         *)
(* commands, each known only by what il_cmds' ILCommand methods report.    *)
(***************************************************************************)
EXTENDS Integers, Sequences, FiniteSets

CONSTANTS
  Vars,      \* the free values
  Registers  \* the registers a command can clobber

Elems(s) == { s[k] : k \in 1..Len(s) }

(***************************************************************************)
(* in, out   inputs() and outputs(), in order                              *)
(* to        the command that the label in targets() marks, 0 for none     *)
(* falls     whether control can go on to the next command                 *)
(* clobber   clobber()                                                     *)
(* late      the inputs read after the clobbered registers are written,    *)
(*           which abs_spot_conf() keeps out of them: the divisor, the     *)
(*           called function                                               *)
(* asks      how many scratch registers make_asm takes from get_reg        *)
(* kept      the inputs read after those registers are written, whose      *)
(*           places get_reg is told to avoid                               *)
(***************************************************************************)
Command == [in : Seq(Vars), out : Seq(Vars), to : Nat, falls : BOOLEAN,
            clobber : SUBSET Registers, late : SUBSET Vars,
            asks : Nat, kept : SUBSET Vars]

(***************************************************************************)
(* Jumps stay inside the program and a command writes no value it reads:   *)
(* the tree hands the result of an expression over with a Set of its own,  *)
(* and the strength reducer goes through a temporary for the sake of the   *)
(* liveness analysis.                                                      *)
(***************************************************************************)
WellFormed(p) ==
  /\ p \in Seq(Command)
  /\ \A i \in 1..Len(p) :
       /\ p[i].to \in 0..Len(p)
       /\ Elems(p[i].in) \cap Elems(p[i].out) = {}
       /\ p[i].kept \subseteq Elems(p[i].in)
       /\ p[i].late \subseteq Elems(p[i].in)
       /\ p[i].asks > 0 => p[i].late \subseteq p[i].kept
       /\ \A j, k \in 1..Len(p[i].out) : p[i].out[j] = p[i].out[k] => j = k

\* Where control can really go after command i.
Successors(p, i) ==
  { j \in 1..Len(p) : (p[i].falls /\ j = i + 1) \/ j = p[i].to }

(***************************************************************************)
(* The data-flow equations of the analysis, over sets.  Every command is   *)
(* taken to fall through to the next, the jumps and returns too.           *)
(***************************************************************************)
Below(p, livein, i) == IF i = Len(p) THEN {} ELSE livein[i + 1]

Ahead(p, livein, i) == IF p[i].to = 0 THEN {} ELSE livein[p[i].to]

LiveIn(p, livein, i) ==
  (Below(p, livein, i) \cup Ahead(p, livein, i) \cup Elems(p[i].in)) \ Elems(p[i].out)

\* Mutant of LiveOut: a value nobody reads is not live after its definition.
LiveOutReadOnly(p, livein, i) == Below(p, livein, i) \cup Ahead(p, livein, i)

\* A value written is live after the command even if nobody reads it.
LiveOut(p, livein, i) ==
  Below(p, livein, i) \cup Ahead(p, livein, i) \cup Elems(p[i].out)

=============================================================================
