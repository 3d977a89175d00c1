------------------------------ MODULE LiveVars ------------------------------
(***************************************************************************)
(* The live-variable analysis of the x86 back end: ASMGen._get_live_vars.  *)
(* Passes over the IL commands, last to first, are repeated until one      *)
(* leaves the array of live-in and live-out LISTS unchanged.  The lists    *)
(* are kept as sequences because the code compares them as lists, in order.*)
(*                                                                         *)
(* The analysis never looks at `falls`.                                    *)
(***************************************************************************)
EXTENDS ILProgram

CONSTANT Programs  \* the command lists analysed

ASSUME ListingAssumption == \A p \in Programs : WellFormed(p)

VARIABLES
  listing,  \* the command list; never changes
  live,     \* live_vars
  prev,     \* prev_live_vars
  cur,      \* cur_live
  here,     \* the command the pass is at, 0 at its end
  pc

analysisVars == <<listing, live, prev, cur, here, pc>>

Entries == 1..Len(listing)

Nothing == [in |-> <<>>, out |-> <<>>]

AnalysisInit ==
  /\ listing \in Programs
  /\ live = [i \in Entries |-> Nothing]
  /\ prev = live
  /\ cur = <<>>
  /\ here = Len(listing)
  /\ pc = "pass"

\* list with those of more that it does not have yet, in their order.
Joined(list, more) ==
  LET joined[n \in 0..Len(more)] ==
        IF n = 0 THEN list
        ELSE IF more[n] \in Elems(joined[n - 1]) THEN joined[n - 1]
        ELSE Append(joined[n - 1], more[n])
  IN  joined[Len(more)]

\* list without those of S.
Minus(list, S) ==
  LET kept[n \in 0..Len(list)] ==
        IF n = 0 THEN <<>>
        ELSE IF list[n] \in S THEN kept[n - 1]
        ELSE Append(kept[n - 1], list[n])
  IN  kept[Len(list)]

\* Mutant of LiveAfter: labels are ignored.
LiveAfterNoLabels(i) == cur

\* What is live after command i: what is live before the next command, and
\* before the jump target as the previous pass left it.
LiveAfter(i) ==
  LET t == listing[i].to
  IN  IF t = 0 THEN cur ELSE Joined(cur, prev[t].in)

\* A value written but not live is live on output only.
OutOf(i) ==
  LiveAfter(i) \o Minus(listing[i].out, Elems(LiveAfter(i)) \cup Elems(listing[i].in))

InOf(i) == Minus(Joined(LiveAfter(i), listing[i].in), Elems(listing[i].out))

Visit ==
  /\ pc = "pass"
  /\ here > 0
  /\ live' = [live EXCEPT ![here] = [in |-> InOf(here), out |-> OutOf(here)]]
  /\ cur' = InOf(here)
  /\ here' = here - 1
  /\ UNCHANGED <<listing, prev, pc>>

\* Mutant of Repeat: the previous pass is not remembered.
RepeatKeepingPrev ==
  /\ pc = "pass"
  /\ here = 0
  /\ live # prev
  /\ cur' = <<>>
  /\ here' = Len(listing)
  /\ UNCHANGED <<listing, live, prev, pc>>

\* The lists changed in this pass: go round again.
Repeat ==
  /\ pc = "pass"
  /\ here = 0
  /\ live # prev
  /\ prev' = live
  /\ cur' = <<>>
  /\ here' = Len(listing)
  /\ UNCHANGED <<listing, live, pc>>

Stop ==
  /\ pc = "pass"
  /\ here = 0
  /\ live = prev
  /\ pc' = "done"
  /\ UNCHANGED <<listing, live, prev, cur, here>>

Analyse == Visit \/ Repeat \/ Stop

Finished == pc = "done" /\ UNCHANGED analysisVars

AnalysisNext == Analyse \/ Finished

\* The analysis is one sequential loop.
AnalysisSpec == AnalysisInit /\ [][AnalysisNext]_analysisVars /\ WF_analysisVars(Analyse)

-----------------------------------------------------------------------------
(***************************************************************************)
(* What the analysis should find: a value is live before a command when    *)
(* some run from there reads it before writing it.                         *)
(***************************************************************************)
TrulyLiveWithin[n \in 0..Len(listing)] ==
  IF n = 0 THEN [i \in Entries |-> {}]
  ELSE [i \in Entries |->
          Elems(listing[i].in) \cup
          ((UNION { TrulyLiveWithin[n - 1][j] : j \in Successors(listing, i) })
             \ Elems(listing[i].out))]

\* No path needs to visit a command twice.
TrulyLive == TrulyLiveWithin[Len(listing)]

\* Types; and no list names a value twice: _generate_graph would make a value
\* conflict with itself.
AnalysisTypeOK ==
  /\ listing \in Programs
  /\ live \in [Entries -> [in : Seq(Vars), out : Seq(Vars)]]
  /\ prev \in [Entries -> [in : Seq(Vars), out : Seq(Vars)]]
  /\ cur \in Seq(Vars)
  /\ here \in 0..Len(listing)
  /\ pc \in {"pass", "done"}
  /\ \A i \in Entries : \A side \in {live[i].in, live[i].out} :
       \A j, k \in 1..Len(side) : side[j] = side[k] => j = k

\* Every value some run still needs is listed, at the command and after it.
NothingLost ==
  \A i \in Entries :
    /\ TrulyLive[i] \subseteq Elems(live[i].in)
    /\ \A j \in Successors(listing, i) : TrulyLive[j] \subseteq Elems(live[i].out)
    /\ Elems(listing[i].out) \subseteq Elems(live[i].out)

\* The lists satisfy the data-flow equations.
IsFixpoint ==
  LET found == [i \in Entries |-> Elems(live[i].in)]
  IN  \A i \in Entries : /\ found[i] = LiveIn(listing, found, i)
                         /\ Elems(live[i].out) = LiveOut(listing, found, i)

(***************************************************************************)
(* When the analysis stops, its lists are well formed, lose nothing that   *)
(* some run of the program still reads, and solve the data-flow equations, *)
(* although they are filled in place while a copy of them is read          *)
(* (_get_live_vars).                                                       *)
(***************************************************************************)
LivenessIsSound == AnalysisTypeOK /\ (pc = "done" => NothingLost /\ IsFixpoint)

(***************************************************************************)
(* The one way the analysis may fail to end, README section 5: no list     *)
(* gains or loses a value any more, but two labels of one loop, each fed   *)
(* by a jump with what the other listed in the previous pass, go on        *)
(* listing two values in opposite orders.                                  *)
(***************************************************************************)
SameValues ==
  \A i \in Entries : /\ Elems(live[i].in) = Elems(prev[i].in)
                     /\ Elems(live[i].out) = Elems(prev[i].out)

Labelled == { listing[i].to : i \in Entries } \ {0}

ReachedWithin[n \in 0..Len(listing)] ==
  IF n = 0 THEN [i \in Entries |-> Successors(listing, i)]
  ELSE [i \in Entries |->
          Successors(listing, i) \cup
          UNION { ReachedWithin[n - 1][j] : j \in Successors(listing, i) }]

InOneLoop(i, j) ==
  LET reached == ReachedWithin[Len(listing)] IN j \in reached[i] /\ i \in reached[j]

ListedBefore(v, w, list) == \E j, k \in 1..Len(list) : j < k /\ list[j] = v /\ list[k] = w

OppositeOrders(i, j) ==
  \E v, w \in Elems(prev[i].in) : ListedBefore(v, w, prev[i].in) /\ ListedBefore(w, v, prev[j].in)

OrderAlternates ==
  SameValues /\ \E i, j \in Labelled : OppositeOrders(i, j) /\ InOneLoop(i, j)

(***************************************************************************)
(* The analysis (_get_live_vars) ends, although it compares lists and      *)
(* fills them in place, unless from some pass on only the order of lists   *)
(* alternates around a loop.                                               *)
(***************************************************************************)
Terminates == <>(pc = "done") \/ <>[]OrderAlternates

=============================================================================
