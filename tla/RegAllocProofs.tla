--------------------------- MODULE RegAllocProofs ---------------------------
(***************************************************************************)
(* Proofs about RegAlloc, for every set of values and registers, every     *)
(* register order and every bound on the preferences.                      *)
(***************************************************************************)
EXTENDS RegAlloc, SequenceTheorems, FiniteSetTheorems, TLAPS

USE DEF NoSpot, Reg, Mem

(***************************************************************************)
(* What the graph and stack operations return.                             *)
(***************************************************************************)
LEMMA NodesType == Temps \subseteq Nodes /\ Spots \subseteq Nodes /\ Temps \cap Spots = {}
                   /\ Temps \cap Pool = {} /\ NReg \in Nat
BY AllocAssumption DEF Nodes, NReg

\* Folding keeps an adjacency function one.
LEMMA FoldedType ==
  ASSUME NEW f \in [Nodes -> SUBSET Nodes], NEW a \in Nodes, NEW b \in Nodes
  PROVE  Folded(f, a, b) \in [Nodes -> SUBSET Nodes]
<1> DEFINE joint == (f[a] \cup f[b]) \ {a, b}
<1>1. joint \subseteq Nodes
  OBVIOUS
<1>2. ASSUME NEW m \in Nodes
      PROVE  (CASE m = a -> joint [] m = b -> {}
                [] m \in joint -> (f[m] \ {b}) \cup {a} [] OTHER -> f[m]) \in SUBSET Nodes
  BY <1>1
<1> QED BY <1>2 DEF Folded

\* So does removing a node.
LEMMA WithoutType ==
  ASSUME NEW f \in [Nodes -> SUBSET Nodes], NEW n \in Nodes
  PROVE  Without(f, n) \in [Nodes -> SUBSET Nodes]
BY DEF Without

LEMMA AdjacentType ==
  ASSUME NEW E PROVE Adjacent(E) \in [Nodes -> SUBSET Nodes]
BY DEF Adjacent

\* A sequence without its last element.
LEMMA PopProperties ==
  ASSUME NEW S, NEW s \in Seq(S), s # <<>>
  PROVE  /\ Len(s) \in Nat \ {0}
         /\ SubSeq(s, 1, Len(s) - 1) \in Seq(S)
         /\ Len(SubSeq(s, 1, Len(s) - 1)) = Len(s) - 1
         /\ \A k \in 1..(Len(s) - 1) : SubSeq(s, 1, Len(s) - 1)[k] = s[k]
<1> DEFINE n == Len(s) - 1
<1>1. n \in Nat /\ n \in Int /\ 1 \in Int /\ Len(s) \in Nat \ {0}
  BY EmptySeq
<1>2. \A i \in 1..n : s[i] \in S
  BY <1>1
<1> HIDE DEF n
<1>3. /\ SubSeq(s, 1, n) \in Seq(S)
      /\ Len(SubSeq(s, 1, n)) = IF 1 <= n THEN n - 1 + 1 ELSE 0
      /\ \A i \in 1..(n - 1 + 1) : SubSeq(s, 1, n)[i] = s[1 + i - 1]
  BY <1>1, <1>2, SubSeqProperties
<1>4. Len(SubSeq(s, 1, n)) = n /\ \A i \in 1..n : SubSeq(s, 1, n)[i] = s[i]
  BY <1>1, <1>3
<1> QED BY <1>1, <1>3, <1>4 DEF n

\* Pushing a node moves it to the stack.
LEMMA PushFacts ==
  ASSUME TypeOK, NEW n \in nodes, Push(n)
  PROVE  /\ removed' \in Seq(Nodes)
         /\ Len(removed') = Len(removed) + 1
         /\ \A k \in 1..Len(removed) : removed'[k] = removed[k]
         /\ removed'[Len(removed) + 1] = n
         /\ OnStack' = OnStack \cup {n}
         /\ Reps' = Reps
<1>1. /\ removed \in Seq(Nodes) /\ n \in Nodes /\ Len(removed) \in Nat
  BY DEF TypeOK
<1>2. /\ removed' \in Seq(Nodes)
      /\ Len(removed') = Len(removed) + 1
      /\ \A k \in 1..Len(removed) : removed'[k] = removed[k]
      /\ removed'[Len(removed) + 1] = n
  BY <1>1, AppendProperties DEF Push
<1>3. OnStack' = OnStack \cup {n}
  BY <1>1, <1>2 DEF OnStack
<1> QED BY <1>2, <1>3 DEF Reps, Push

\* Popping takes one node off the stack and leaves the others where they are.
LEMMA PopFacts ==
  ASSUME TypeOK, StackInv, nodes = {}, removed # <<>>, PopTop, nodes' = nodes
  PROVE  /\ removed' \in Seq(Nodes)
         /\ Len(removed') = Len(removed) - 1
         /\ \A k \in 1..Len(removed') : removed'[k] = removed[k]
         /\ Len(removed) \in Nat \ {0}
         /\ Top \in Nodes /\ Top \in Reps
         /\ OnStack' = OnStack \ {Top}
         /\ Reps' = Reps \ {Top}
<1>1. /\ removed \in Seq(Nodes) /\ Len(removed) \in Nat \ {0}
  BY EmptySeq DEF TypeOK
<1>2. /\ removed' \in Seq(Nodes)
      /\ Len(removed') = Len(removed) - 1
      /\ \A k \in 1..Len(removed') : removed'[k] = removed[k]
  BY <1>1, PopProperties DEF PopTop
<1>3. Top \in Nodes /\ Top \in OnStack
  BY <1>1 DEF Top, OnStack
<1>4. OnStack' = OnStack \ {Top}
  <2>1. \A k \in 1..(Len(removed) - 1) : removed[k] # Top
    BY <1>1 DEF StackInv, Top
  <2> QED BY <1>1, <1>2, <2>1 DEF OnStack, Top
<1> QED BY <1>1, <1>2, <1>3, <1>4 DEF Reps

-----------------------------------------------------------------------------
(***************************************************************************)
(* The steps, grouped by what they do to the state the invariants are      *)
(* about.                                                                  *)
(***************************************************************************)
Late == pc \in {"colour", "done", "crashed"}

QuietStep ==
  /\ UNCHANGED <<present, gbak, size, graph, removed, merged, placing>>
  /\ Late' => Late \/ Real = {}
  /\ Late => Late'
  /\ pc' \in {"simplify", "coalesce", "freeze", "colour", "done", "crashed"}
  /\ changed' \in BOOLEAN

PushStep(n) ==
  /\ Push(n)
  /\ \/ n \in Real /\ ~Late /\ pc' = "simplify"
     \/ n \in Spots /\ n \in nodes /\ Late /\ pc' = pc
  /\ changed' \in BOOLEAN
  /\ UNCHANGED <<present, gbak, size, merged, placing>>

MergeStep(a, b) ==
  /\ Merge(a, b)
  /\ a \in nodes /\ b \in Real
  /\ b \notin conf[a] \/ a \notin conf[b]
  /\ b \in pref[a] \/ a \in pref[b]
  /\ ~Late /\ pc' = pc
  /\ changed' \in BOOLEAN
  /\ UNCHANGED <<present, gbak, size, removed, placing>>

FreezeStep(a, b) ==
  /\ b \in pref[a]
  /\ pref' = [pref EXCEPT ![a] = @ \ {b}, ![b] = @ \ {a}]
  /\ ~Late /\ pc' = "simplify"
  /\ UNCHANGED <<present, gbak, size, changed, nodes, conf, removed, merged, placing>>

PlaceStep(spot) ==
  /\ Popping /\ PopTop
  /\ PlaceAll(merged[Top], spot)
  /\ \/ Top \in Pool /\ spot = Reg(Top) /\ offset' = offset
     \/ /\ Top \notin Pool /\ offset' = offset
        /\ \E r \in Free(Top) : spot = Reg(r)
     \/ Top \in Temps /\ offset' \in Nat /\ offset' > offset /\ spot = Mem(offset')
  /\ spilled' \subseteq spilled \cup (Temps \cap {Top})
  /\ UNCHANGED <<present, gbak, size, pc, changed, graph, merged>>

LEMMA StepCases ==
  ASSUME TypeOK, PrefInv, [Next]_vars
  PROVE  \/ QuietStep
         \/ \E n \in nodes : PushStep(n)
         \/ \E a, b \in nodes : MergeStep(a, b)
         \/ \E a, b \in Nodes : FreezeStep(a, b)
         \/ \E spot \in Spot : PlaceStep(spot)
<1> USE NodesType
<1>1. ASSUME NEW n \in Nodes, Simplify(n) PROVE n \in nodes /\ PushStep(n)
  BY <1>1 DEF Simplify, PushStep, Late, Real
<1>2. ASSUME NEW n \in Nodes, PushPotentialSpill(n) PROVE n \in nodes /\ PushStep(n)
  BY <1>2 DEF PushPotentialSpill, PushStep, Late, Real, TypeOK
<1>3. ASSUME NEW s \in Spots, PushDummy(s) PROVE s \in nodes /\ PushStep(s)
  BY <1>3 DEF PushDummy, PushStep, Late, TypeOK
<1>4. ASSUME NEW a \in Nodes, NEW b \in Nodes, Coalesce(a, b)
      PROVE  \E c, d \in nodes : MergeStep(c, d)
  <2>1. /\ a \in Real /\ b \in nodes /\ b \in pref[a] /\ b \notin conf[a]
    BY <1>4 DEF Coalesce, Mergeable, PrefInv, TypeOK, Real
  <2>2. CASE b \in Spots
    <3>1. MergeStep(b, a)
      BY <1>4, <2>1, <2>2 DEF Coalesce, MergeStep, Late
    <3> QED BY <2>1, <3>1 DEF Real
  <2>3. CASE b \notin Spots
    <3>1. b \in Real
      BY <2>1, <2>3 DEF Real, TypeOK, Nodes
    <3>2. MergeStep(a, b)
      BY <1>4, <2>1, <2>3, <3>1 DEF Coalesce, MergeStep, Late, Real
    <3> QED BY <2>1, <3>2 DEF Real
  <2> QED BY <2>2, <2>3
<1>5. ASSUME NEW a \in Nodes, NEW b \in Nodes, Freeze(a, b) PROVE FreezeStep(a, b)
  BY <1>5 DEF Freeze, FreezeStep, Late
<1>6. CASE PlaceDummy
  <2>1. PlaceStep(Reg(Top)) /\ Reg(Top) \in Spot
    BY <1>6 DEF PlaceDummy, PlaceStep, Spot
  <2> QED BY <2>1
<1>7. ASSUME NEW k \in 1..NReg, PlaceInRegister(k)
      PROVE  \E spot \in Spot : PlaceStep(spot)
  <2>1. AllocRegisters[k] \in Pool
    BY DEF Pool, NReg
  <2>2. PlaceStep(Reg(AllocRegisters[k])) /\ Reg(AllocRegisters[k]) \in Spot
    BY <1>7, <2>1 DEF PlaceInRegister, PlaceStep, Spot
  <2> QED BY <2>2
<1>8. CASE Spill
  <2>1. size[Top] \in Nat \ {0}
    BY <1>8, AllocAssumption DEF Spill, TypeOK
  <2>2. offset' \in Nat /\ offset' > offset
    BY <1>8, <2>1 DEF Spill, TypeOK
  <2>3. PlaceStep(Mem(offset')) /\ Mem(offset') \in Spot
    BY <1>8, <2>2 DEF Spill, PlaceStep, Spot
  <2> QED BY <2>3
<1>9. CASE EndSimplify \/ EndCoalesce \/ EndReduce
  BY <1>9 DEF EndSimplify, EndCoalesce, EndReduce, QuietStep, Late, TypeOK
<1>10. CASE Crash \/ Finish \/ Halted
  BY <1>10 DEF Crash, Finish, Halted, QuietStep, Late, TypeOK, Popping, vars, graph, placing
<1>11. CASE UNCHANGED vars
  BY <1>11 DEF QuietStep, Late, TypeOK, vars, graph, placing
<1> QED
  BY <1>1, <1>2, <1>3, <1>4, <1>5, <1>6, <1>7, <1>8, <1>9, <1>10, <1>11
     DEF Next, Reduce, Colour

-----------------------------------------------------------------------------
(***************************************************************************)
(* Type correctness: every set of neighbours, group and stack entry stays  *)
(* within the nodes, and every place is a register of the pool or a slot.  *)
(***************************************************************************)
LEMMA InitType == Init => TypeOK
<1> SUFFICES ASSUME Init PROVE TypeOK
  OBVIOUS
<1>1. gbak \in [Nodes -> SUBSET Nodes] /\ pref \in [Nodes -> SUBSET Nodes]
  BY AdjacentType DEF Init
<1>2. merged \in [Nodes -> SUBSET Nodes]
  BY DEF Init
<1>3. spotmap \in [Nodes -> Spot \cup {NoSpot}]
  BY DEF Init
<1>4. removed \in Seq(Nodes) /\ offset \in Nat /\ spilled \subseteq Temps
  BY DEF Init
<1>5. /\ size \in [Temps -> Sizes] /\ conf = gbak
      /\ present \subseteq Nodes /\ nodes = present
  BY DEF Init
<1>6. pc = "simplify" /\ changed = FALSE
  BY DEF Init
<1> QED BY <1>1, <1>2, <1>3, <1>4, <1>5, <1>6 DEF TypeOK

LEMMA StepType == TypeOK /\ PrefInv /\ [Next]_vars => TypeOK'
<1> SUFFICES ASSUME TypeOK, PrefInv, [Next]_vars PROVE TypeOK'
  OBVIOUS
<1> USE NodesType
<1>1. ASSUME NEW n \in nodes, PushStep(n) PROVE TypeOK'
  <2>1. conf' \in [Nodes -> SUBSET Nodes] /\ pref' \in [Nodes -> SUBSET Nodes]
    BY <1>1, WithoutType DEF TypeOK, Push, PushStep
  <2>2. removed' \in Seq(Nodes)
    BY <1>1, PushFacts DEF PushStep
  <2> QED BY <1>1, <2>1, <2>2 DEF TypeOK, Push, PushStep, placing
<1>2. ASSUME NEW a \in nodes, NEW b \in nodes, MergeStep(a, b) PROVE TypeOK'
  <2>1. conf' \in [Nodes -> SUBSET Nodes] /\ pref' \in [Nodes -> SUBSET Nodes]
    BY <1>2, FoldedType DEF TypeOK, Merge, MergeStep
  <2>2. merged' \in [Nodes -> SUBSET Nodes]
    BY <1>2 DEF TypeOK, Merge, MergeStep
  <2> QED BY <1>2, <2>1, <2>2 DEF TypeOK, Merge, MergeStep, placing
<1>3. ASSUME NEW a \in Nodes, NEW b \in Nodes, FreezeStep(a, b) PROVE TypeOK'
  BY <1>3 DEF FreezeStep, TypeOK, placing
<1>4. ASSUME NEW spot \in Spot, PlaceStep(spot) PROVE TypeOK'
  <2>1. removed' \in Seq(Nodes)
    BY <1>4, PopProperties DEF PlaceStep, Popping, PopTop, TypeOK
  <2>2. spotmap' \in [Nodes -> Spot \cup {NoSpot}]
    BY <1>4 DEF PlaceStep, PlaceAll, TypeOK
  <2>3. offset' \in Nat /\ spilled' \subseteq Temps
    BY <1>4 DEF PlaceStep, TypeOK
  <2> QED BY <1>4, <2>1, <2>2, <2>3 DEF PlaceStep, TypeOK, graph
<1>5. CASE QuietStep
  BY <1>5 DEF QuietStep, TypeOK, graph, placing
<1> QED BY <1>1, <1>2, <1>3, <1>4, <1>5, StepCases

-----------------------------------------------------------------------------
(***************************************************************************)
(* The invariants, one at a time.                                          *)
(***************************************************************************)
LEMMA AdjacentSymmetric ==
  ASSUME NEW E, NEW m \in Nodes, NEW n \in Nodes
  PROVE  /\ n \in Adjacent(E)[m] => m \in Adjacent(E)[n]
         /\ n \notin Adjacent(E)[n]
<1>1. {m, n} = {n, m}
  OBVIOUS
<1> QED BY <1>1 DEF Adjacent

\* Edges between nodes of N lead to nodes of N.
LEMMA AdjacentInside ==
  ASSUME NEW N, NEW E \in SUBSET TempEdges(N), NEW n \in Nodes
  PROVE  /\ Adjacent(E)[n] \subseteq N
         /\ Adjacent(E \cup DummyEdges(N))[n] \subseteq N
<1>1. \A e \in E \cup DummyEdges(N) : e \subseteq N
  BY DEF TempEdges, DummyEdges
<1> QED BY <1>1 DEF Adjacent

LEMMA InitInv == Init => AllocInv
<1> SUFFICES ASSUME Init PROVE AllocInv
  OBVIOUS
<1> USE NodesType
<1>1. GraphInv
  <2>1. PICK E \in SUBSET TempEdges(present) : gbak = Adjacent(E \cup DummyEdges(present))
    BY DEF Init
  <2>2. ASSUME NEW r \in Spots \cap present, NEW s \in Spots \cap present, r # s
        PROVE  s \in gbak[r]
    <3>1. {r, s} \in DummyEdges(present)
      BY <2>2 DEF DummyEdges
    <3> QED BY <2>1, <2>2, <3>1 DEF Adjacent
  <2>3. \A n \in Nodes : gbak[n] \subseteq present
    BY <2>1, AdjacentInside
  <2> QED BY <2>1, <2>2, <2>3, AdjacentSymmetric DEF GraphInv
<1>2. PrefInv
  <2>1. PICK P \in SUBSET TempEdges(present) : pref = Adjacent(P)
    BY DEF Init
  <2>2. nodes = present /\ pref \in [Nodes -> SUBSET Nodes]
    BY <2>1, AdjacentType DEF Init
  <2>3. \A n \in Nodes : pref[n] \subseteq present
    BY <2>1, AdjacentInside
  <2> QED BY <2>1, <2>2, <2>3, AdjacentSymmetric DEF PrefInv
<1>3. /\ removed = <<>> /\ Len(removed) = 0 /\ OnStack = {} /\ Reps = present /\ nodes = present
      /\ pc = "simplify" /\ merged = [n \in Nodes |-> {n}]
      /\ spotmap = [n \in Nodes |-> NoSpot] /\ conf = gbak
  BY DEF Init, OnStack, Reps
<1>10. present \subseteq Nodes
  BY DEF Init
<1>4. StackInv
  BY <1>3 DEF StackInv
<1>5. GroupInv
  BY <1>10, <1>1, <1>3 DEF GroupInv, GraphInv
<1>6. PlacementInv /\ ProperColouring
  BY <1>10, <1>3 DEF PlacementInv, ProperColouring, Placed
<1>7. SpotInv
  BY <1>3 DEF SpotInv
<1>8. WorkingGraphIsQuotient
  BY <1>10, <1>3 DEF WorkingGraphIsQuotient
<1> QED BY <1>1, <1>2, <1>4, <1>5, <1>6, <1>7, <1>8 DEF AllocInv

LEMMA StepGraph == TypeOK /\ PrefInv /\ GraphInv /\ [Next]_vars => GraphInv'
<1> SUFFICES ASSUME TypeOK, PrefInv, GraphInv, [Next]_vars PROVE GraphInv'
  OBVIOUS
<1>1. gbak' = gbak /\ present' = present
  BY StepCases DEF QuietStep, PushStep, MergeStep, FreezeStep, PlaceStep
<1> QED BY <1>1 DEF GraphInv

\* Folding keeps the preference edges symmetric and inside the working graph.
LEMMA StepPref == TypeOK /\ PrefInv /\ [Next]_vars => PrefInv'
<1> SUFFICES ASSUME TypeOK, PrefInv, [Next]_vars PROVE PrefInv'
  OBVIOUS
<1>1. ASSUME NEW n \in nodes, PushStep(n) PROVE PrefInv'
  BY <1>1 DEF PushStep, Push, Without, PrefInv, TypeOK
<1>2. ASSUME NEW a \in nodes, NEW b \in nodes, MergeStep(a, b) PROVE PrefInv'
  <2> DEFINE joint == (pref[a] \cup pref[b]) \ {a, b}
  <2>1. /\ a \in Nodes /\ b \in Nodes /\ a # b /\ joint \subseteq nodes \ {a, b}
        /\ nodes' = nodes \ {b}
    BY <1>2 DEF MergeStep, Merge, PrefInv, TypeOK
  <2>2. /\ pref'[a] = joint
        /\ pref'[b] = {}
        /\ \A m \in joint : pref'[m] = (pref[m] \ {b}) \cup {a}
        /\ \A m \in Nodes \ (joint \cup {a, b}) : pref'[m] = pref[m]
    BY <1>2, <2>1 DEF MergeStep, Merge, Folded, TypeOK
  <2>3. \A n \in Nodes : pref'[n] \subseteq nodes' \ {n}
    BY <2>1, <2>2 DEF PrefInv
  <2>4. ASSUME NEW m \in Nodes, NEW n \in Nodes, n \in pref'[m] PROVE m \in pref'[n]
    BY <2>1, <2>2, <2>3, <2>4 DEF PrefInv
  <2> QED BY <2>3, <2>4 DEF PrefInv
<1>3. ASSUME NEW a \in Nodes, NEW b \in Nodes, FreezeStep(a, b) PROVE PrefInv'
  BY <1>3 DEF FreezeStep, PrefInv, TypeOK
<1>4. CASE UNCHANGED <<nodes, pref>>
  BY <1>4 DEF PrefInv
<1> QED BY <1>1, <1>2, <1>3, <1>4, StepCases DEF QuietStep, PlaceStep, graph

LEMMA StepStack == TypeOK /\ PrefInv /\ StackInv /\ [Next]_vars => StackInv'
<1> SUFFICES ASSUME TypeOK, PrefInv, StackInv, [Next]_vars PROVE StackInv'
  OBVIOUS
<1> USE NodesType
<1>1. ASSUME NEW n \in nodes, PushStep(n) PROVE StackInv'
  <2>1. /\ Len(removed') = Len(removed) + 1 /\ Len(removed) \in Nat
        /\ \A k \in 1..Len(removed) : removed'[k] = removed[k]
        /\ removed'[Len(removed) + 1] = n
        /\ OnStack' = OnStack \cup {n}
    BY <1>1, PushFacts DEF PushStep, TypeOK
  <2>2. \A k \in 1..Len(removed) : removed[k] # n
    BY DEF StackInv, OnStack
  <2>3. \A j, k \in 1..Len(removed') : removed'[j] = removed'[k] => j = k
    BY <2>1, <2>2 DEF StackInv
  <2>4. nodes' \cap OnStack' = {}
    BY <1>1, <2>1 DEF StackInv, PushStep, Push
  <2>5. ASSUME NEW k \in 1..Len(removed'), removed'[k] \in Temps, NEW j \in 1..k
        PROVE  removed'[j] \in Temps
    <3>1. CASE k \in 1..Len(removed)
      BY <2>1, <2>5, <3>1 DEF StackInv
    <3>2. CASE k = Len(removed) + 1
      <4>1. n \in Temps /\ ~Late
        BY <1>1, <2>1, <2>5, <3>2 DEF PushStep
      <4>2. OnStack \cap Spots = {}
        BY <4>1 DEF StackInv, Late
      <4>3. CASE j = k
        BY <2>5, <4>3
      <4>4. CASE j \in 1..Len(removed)
        <5>1. removed[j] \in Nodes \ Spots
          BY <4>2, <4>4 DEF TypeOK, OnStack
        <5> QED BY <2>1, <4>4, <5>1 DEF Nodes
      <4> QED BY <2>1, <3>2, <4>3, <4>4
    <3> QED BY <2>1, <3>1, <3>2
  <2>6. /\ OnStack' \cap Spots # {} => Late'
        /\ Late' => nodes' \subseteq Spots
    BY <1>1, <2>1 DEF StackInv, PushStep, Push, Late, Real
  <2>7. Reps' \subseteq present'
    BY <1>1, PushFacts DEF PushStep, StackInv
  <2> QED BY <2>3, <2>4, <2>5, <2>6, <2>7 DEF StackInv, Late
<1>2. ASSUME NEW a \in nodes, NEW b \in nodes, MergeStep(a, b) PROVE StackInv'
  BY <1>2 DEF MergeStep, Merge, StackInv, OnStack, Reps, Late
<1>3. ASSUME NEW a \in Nodes, NEW b \in Nodes, FreezeStep(a, b) PROVE StackInv'
  BY <1>3 DEF FreezeStep, StackInv, OnStack, Reps, Late
<1>4. ASSUME NEW spot \in Spot, PlaceStep(spot) PROVE StackInv'
  <2>1. /\ Len(removed') = Len(removed) - 1 /\ Len(removed) \in Nat \ {0}
        /\ \A k \in 1..Len(removed') : removed'[k] = removed[k]
        /\ OnStack' = OnStack \ {Top}
    BY <1>4, PopFacts DEF PlaceStep, Popping, graph
  <2>2. nodes' = nodes /\ pc' = pc /\ present' = present
    BY <1>4 DEF PlaceStep, graph
  <2>3. Reps' \subseteq present'
    BY <2>1, <2>2 DEF StackInv, Reps
  <2> QED BY <2>1, <2>2, <2>3 DEF StackInv
<1>5. CASE QuietStep
  <2>1. UNCHANGED <<present, nodes, removed, OnStack, Reps>>
    BY <1>5 DEF QuietStep, graph, OnStack, Reps
  <2>2. Late' => nodes \subseteq Spots
    BY <1>5 DEF QuietStep, Late, Real, StackInv, TypeOK, Nodes
  <2> QED BY <1>5, <2>1, <2>2 DEF QuietStep, StackInv, Late
<1> QED BY <1>1, <1>2, <1>3, <1>4, <1>5, StepCases

\* What a merge does to the groups: a's takes in b's, and b stands for none.
LEMMA MergeFacts ==
  ASSUME TypeOK, PrefInv, StackInv, GraphInv, GroupInv, WorkingGraphIsQuotient,
         NEW a \in nodes, NEW b \in nodes, MergeStep(a, b)
  PROVE  /\ a \in Nodes /\ b \in Nodes /\ a # b /\ b \in Temps
         /\ merged'[a] = merged[a] \cup merged[b]
         /\ \A x \in Nodes \ {a} : merged'[x] = merged[x]
         /\ nodes' = nodes \ {b}
         /\ Reps' = Reps \ {b}
         /\ OnStack' = OnStack
         /\ \A u \in merged[a] : gbak[u] \cap merged[b] = {}
         /\ \A u \in merged[b] : gbak[u] \cap merged[a] = {}
<1>1. a \in Nodes /\ b \in Nodes /\ a # b /\ b \in Temps /\ OnStack' = OnStack
  BY DEF MergeStep, TypeOK, PrefInv, OnStack, Real
<1>2. /\ merged'[a] = merged[a] \cup merged[b]
      /\ \A x \in Nodes \ {a} : merged'[x] = merged[x]
      /\ nodes' = nodes \ {b}
  BY <1>1 DEF MergeStep, Merge, TypeOK
<1>3. Reps' = Reps \ {b}
  BY <1>1, <1>2 DEF Reps, StackInv
<1>4. \/ \A u \in merged[a] : gbak[u] \cap merged[b] = {}
      \/ \A u \in merged[b] : gbak[u] \cap merged[a] = {}
  BY DEF MergeStep, WorkingGraphIsQuotient
<1>5. merged[a] \subseteq Nodes /\ merged[b] \subseteq Nodes
  BY <1>1 DEF TypeOK
<1>6. /\ \A u \in merged[a] : gbak[u] \cap merged[b] = {}
      /\ \A u \in merged[b] : gbak[u] \cap merged[a] = {}
  BY <1>4, <1>5 DEF GraphInv
<1> QED BY <1>1, <1>2, <1>3, <1>6

LEMMA StepGroup ==
  TypeOK /\ PrefInv /\ StackInv /\ GraphInv /\ GroupInv /\ WorkingGraphIsQuotient
    /\ [Next]_vars => GroupInv'
<1> SUFFICES ASSUME TypeOK, PrefInv, StackInv, GraphInv, GroupInv,
                    WorkingGraphIsQuotient, [Next]_vars
             PROVE  GroupInv'
  OBVIOUS
<1> USE NodesType
<1>1. CASE Reps' \subseteq Reps /\ UNCHANGED <<present, gbak, merged>>
  BY <1>1 DEF GroupInv
<1>2. ASSUME NEW a \in nodes, NEW b \in nodes, MergeStep(a, b) PROVE GroupInv'
  <2> USE <1>2, MergeFacts
  <2>1. a \in Reps /\ b \in Reps /\ gbak' = gbak /\ present' = present
    BY DEF Reps, MergeStep
  <2>2. \A x \in Reps' : x \in Nodes /\ x \in Reps /\ x # b
    BY DEF Reps, OnStack, TypeOK
  <2>3. ASSUME NEW x \in Reps'
        PROVE  /\ x \in merged'[x] /\ merged'[x] \cap Spots \subseteq {x}
               /\ merged'[x] \subseteq present'
    BY <2>1, <2>2 DEF GroupInv
  <2>4. ASSUME NEW x \in Reps', NEW u \in merged'[x] PROVE gbak'[u] \cap merged'[x] = {}
    BY <2>1, <2>2 DEF GroupInv
  <2>5. ASSUME NEW x \in Reps', NEW y \in Reps', x # y
        PROVE  merged'[x] \cap merged'[y] = {}
    BY <2>1, <2>2, <2>5 DEF GroupInv
  <2> QED BY <2>3, <2>4, <2>5 DEF GroupInv
<1>3. ASSUME NEW n \in nodes, PushStep(n) PROVE Reps' \subseteq Reps /\ UNCHANGED <<present, gbak, merged>>
  BY <1>3, PushFacts DEF PushStep
<1>4. ASSUME NEW spot \in Spot, PlaceStep(spot)
      PROVE  Reps' \subseteq Reps /\ UNCHANGED <<present, gbak, merged>>
  BY <1>4, PopFacts DEF PlaceStep, Popping, graph
<1>5. ASSUME NEW a \in Nodes, NEW b \in Nodes, FreezeStep(a, b)
      PROVE  Reps' \subseteq Reps /\ UNCHANGED <<present, gbak, merged>>
  BY <1>5 DEF FreezeStep, Reps, OnStack
<1>6. CASE QuietStep
  BY <1>1, <1>6 DEF QuietStep, Reps, OnStack, graph
<1> QED BY <1>1, <1>2, <1>3, <1>4, <1>5, <1>6, StepCases

\* merge() repairs its neighbours' sets: the working graph stays the quotient
\* of the generated one.
LEMMA StepQuotient ==
  TypeOK /\ PrefInv /\ StackInv /\ GraphInv /\ GroupInv /\ WorkingGraphIsQuotient
    /\ [Next]_vars => WorkingGraphIsQuotient'
<1> SUFFICES ASSUME TypeOK, PrefInv, StackInv, GraphInv, GroupInv,
                    WorkingGraphIsQuotient, [Next]_vars
             PROVE  WorkingGraphIsQuotient'
  OBVIOUS
<1>1. ASSUME NEW n \in nodes, PushStep(n) PROVE WorkingGraphIsQuotient'
  <2>1. \A x, y \in nodes' : x \in nodes /\ y \in nodes /\ (y \in conf'[x] <=> y \in conf[x])
    BY <1>1 DEF PushStep, Push, Without, TypeOK
  <2>2. gbak' = gbak /\ merged' = merged
    BY <1>1 DEF PushStep
  <2> QED BY <2>1, <2>2 DEF WorkingGraphIsQuotient
<1>2. ASSUME NEW a \in nodes, NEW b \in nodes, MergeStep(a, b) PROVE WorkingGraphIsQuotient'
  <2> DEFINE joint == (conf[a] \cup conf[b]) \ {a, b}
  <2> USE <1>2, MergeFacts
  <2>1. /\ conf'[a] = joint
        /\ \A m \in joint \ {a, b} : conf'[m] = (conf[m] \ {b}) \cup {a}
        /\ \A m \in Nodes \ (joint \cup {a, b}) : conf'[m] = conf[m]
        /\ gbak' = gbak
    BY DEF MergeStep, Merge, Folded, TypeOK
  <2>2. \A x \in nodes : x \in Nodes /\ merged[x] \subseteq Nodes
    BY DEF TypeOK
  <2>3. \A x, y \in nodes : y \in conf[x] => x \in conf[y]
    BY <2>2 DEF WorkingGraphIsQuotient, GraphInv
  <2>4. ASSUME NEW x \in nodes', NEW y \in nodes'
        PROVE  (y \in conf'[x]) <=> (\E u \in merged'[x] : gbak'[u] \cap merged'[y] # {})
    <3>1. x \in nodes /\ y \in nodes /\ x # b /\ y # b /\ x \in Nodes /\ y \in Nodes
      BY DEF TypeOK
    <3>2. CASE x = a /\ y = a
      <4>1. a \in Reps /\ b \in Reps
        BY DEF Reps
      <4>2. \A u \in merged'[a] : gbak[u] \cap merged'[a] = {}
        BY <4>1 DEF GroupInv
      <4> QED BY <2>1, <3>2, <4>2
    <3>3. CASE x = a /\ y # a
      <4>1. y \in conf'[x] <=> y \in conf[a] \/ y \in conf[b]
        BY <2>1, <3>1, <3>3
      <4>2. (\E u \in merged'[x] : gbak[u] \cap merged'[y] # {})
              <=> \/ \E u \in merged[a] : gbak[u] \cap merged[y] # {}
                  \/ \E u \in merged[b] : gbak[u] \cap merged[y] # {}
        BY <3>1, <3>3
      <4> QED BY <2>1, <3>1, <4>1, <4>2 DEF WorkingGraphIsQuotient
    <3>4. CASE x # a /\ y = a
      <4>1. y \in conf'[x] <=> a \in conf[x] \/ b \in conf[x]
        BY <2>1, <2>3, <3>1, <3>4
      <4>2. (\E u \in merged'[x] : gbak[u] \cap merged'[y] # {})
              <=> \/ \E u \in merged[x] : gbak[u] \cap merged[a] # {}
                  \/ \E u \in merged[x] : gbak[u] \cap merged[b] # {}
        BY <3>1, <3>4
      <4> QED BY <2>1, <3>1, <4>1, <4>2 DEF WorkingGraphIsQuotient
    <3>5. CASE x # a /\ y # a
      <4>1. y \in conf'[x] <=> y \in conf[x]
        BY <2>1, <3>1, <3>5
      <4> QED BY <2>1, <3>1, <3>5, <4>1 DEF WorkingGraphIsQuotient
    <3> QED BY <3>2, <3>3, <3>4, <3>5
  <2> QED BY <2>4 DEF WorkingGraphIsQuotient
<1>3. CASE UNCHANGED <<gbak, nodes, conf, merged>>
  BY <1>3 DEF WorkingGraphIsQuotient
<1> QED
  BY <1>1, <1>2, <1>3, StepCases DEF QuietStep, FreezeStep, PlaceStep, graph

\* What a placement does: the group on top of the stack, so far unplaced, gets
\* its place; the others keep theirs.
LEMMA PlaceFacts ==
  ASSUME TypeOK, StackInv, GroupInv, PlacementInv, NEW spot \in Spot, PlaceStep(spot)
  PROVE  /\ Top \in Nodes /\ Top \in Reps /\ Top \in merged[Top]
         /\ merged[Top] \subseteq Nodes
         /\ Reps' = Reps \ {Top}
         /\ nodes = {}
         /\ spot # NoSpot
         /\ \A n \in merged[Top] : spotmap[n] = NoSpot /\ spotmap'[n] = spot
         /\ \A n \in Nodes \ merged[Top] : spotmap'[n] = spotmap[n]
<1>1. Top \in Nodes /\ Top \in Reps /\ Reps' = Reps \ {Top} /\ nodes = {}
  BY PopFacts DEF PlaceStep, Popping, graph
<1>2. merged[Top] \subseteq Nodes /\ Top \in merged[Top]
  BY <1>1 DEF TypeOK, GroupInv
<1>3. spot # NoSpot
  BY DEF Spot
<1>4. \A n \in merged[Top] : spotmap[n] = NoSpot
  <2>1. merged[Top] \subseteq present
    BY <1>1 DEF GroupInv
  <2> QED BY <1>1, <1>2, <2>1 DEF PlacementInv, Placed
<1>5. /\ \A n \in merged[Top] : spotmap'[n] = spot
      /\ \A n \in Nodes \ merged[Top] : spotmap'[n] = spotmap[n]
  BY <1>2 DEF PlaceStep, PlaceAll
<1> QED BY <1>1, <1>2, <1>3, <1>4, <1>5

LEMMA StepPlacement ==
  TypeOK /\ PrefInv /\ StackInv /\ GraphInv /\ GroupInv /\ WorkingGraphIsQuotient
    /\ PlacementInv /\ [Next]_vars => PlacementInv'
<1> SUFFICES ASSUME TypeOK, PrefInv, StackInv, GraphInv, GroupInv,
                    WorkingGraphIsQuotient, PlacementInv, [Next]_vars
             PROVE  PlacementInv'
  OBVIOUS
<1>1. ASSUME NEW n \in nodes, PushStep(n) PROVE PlacementInv'
  <2>1. Reps' = Reps /\ UNCHANGED <<present, merged, spotmap>> /\ nodes' \subseteq nodes
    BY <1>1, PushFacts DEF PushStep, placing, Push
  <2> QED BY <2>1 DEF PlacementInv, Placed
<1>2. ASSUME NEW a \in nodes, NEW b \in nodes, MergeStep(a, b) PROVE PlacementInv'
  <2> USE <1>2, MergeFacts
  <2>1. /\ a \in Reps' /\ b \in Reps /\ spotmap' = spotmap /\ nodes' \subseteq nodes
        /\ present' = present /\ present \subseteq Nodes
    BY DEF Reps, MergeStep, placing, TypeOK
  <2>2. Reps \subseteq Nodes
    BY DEF Reps, OnStack, TypeOK
  <2>3. \A n \in Nodes : (\A x \in Reps' : n \notin merged'[x])
                           <=> (\A x \in Reps : n \notin merged[x])
    BY <2>1, <2>2
  <2> QED BY <2>1, <2>3 DEF PlacementInv, Placed
<1>3. ASSUME NEW spot \in Spot, PlaceStep(spot) PROVE PlacementInv'
  <2> USE <1>3, PlaceFacts
  <2>1. merged' = merged /\ nodes' = {} /\ present' = present /\ present \subseteq Nodes
    BY DEF PlaceStep, graph, TypeOK
  <2>2. ASSUME NEW n \in merged[Top]
        PROVE  spotmap'[n] # NoSpot /\ \A x \in Reps' : n \notin merged'[x]
    BY <2>1, <2>2 DEF GroupInv
  <2>3. ASSUME NEW n \in present \ merged[Top]
        PROVE  spotmap'[n] # NoSpot <=> \A x \in Reps' : n \notin merged'[x]
    BY <2>1, <2>3 DEF PlacementInv, Placed
  <2> QED BY <2>1, <2>2, <2>3 DEF PlacementInv, Placed
<1>4. CASE UNCHANGED <<present, nodes, removed, merged, spotmap>>
  BY <1>4 DEF PlacementInv, Placed, Reps, OnStack
<1> QED
  BY <1>1, <1>2, <1>3, <1>4, StepCases DEF QuietStep, FreezeStep, graph, placing

\* While a value is placed, every register of the graph already is.
LEMMA DummiesFirst ==
  ASSUME TypeOK, StackInv, GroupInv, PlacementInv, NEW spot \in Spot, PlaceStep(spot),
         Top \in Temps, NEW r \in Spots \cap present
  PROVE  spotmap[r] # NoSpot
<1> USE NodesType
<1>1. nodes = {} /\ removed # <<>>
  BY DEF PlaceStep, Popping
<1>2. \A k \in 1..Len(removed) : removed[k] \in Temps
  BY <1>1, EmptySeq DEF StackInv, Top, TypeOK
<1>3. \A x \in Reps : x \in Temps /\ x \in Nodes
  BY <1>1, <1>2 DEF Reps, OnStack
<1>4. \A x \in Reps : r \notin merged[x]
  BY <1>3 DEF GroupInv
<1> QED BY <1>4 DEF PlacementInv, Placed

\* A register chosen as free belongs to no dummy node still to be placed.
LEMMA FreeFacts ==
  ASSUME TypeOK, GraphInv, StackInv, GroupInv, PlacementInv, SpotInv,
         NEW spot \in Spot, PlaceStep(spot), Top \notin Pool,
         NEW r \in Free(Top), spot = Reg(r)
  PROVE  /\ r \in Pool
         /\ r \in present => spotmap[r] = Reg(r)
         /\ r \notin merged[Top]
         /\ \A u \in merged[Top] : \A v \in gbak[u] : spotmap[v] # Reg(r)
<1> USE NodesType, PlaceFacts
<1>1. /\ r \in Pool
      /\ \A u \in merged[Top] : r \notin gbak[u]
      /\ \A u \in merged[Top] : \A v \in gbak[u] : spotmap[v] # Reg(r)
  BY DEF Free, Conflicts
<1>2. r \in Spots => r \notin merged[Top]
  <2>1. SUFFICES ASSUME r \in Spots, r \in merged[Top] PROVE FALSE
    OBVIOUS
  <2>2. r = Top
    BY <2>1 DEF GroupInv
  <2> QED BY <1>1, <2>2
<1>3. r \in present => spotmap[r] = Reg(r)
  <2>0. present \subseteq Nodes /\ Top \in present
    BY DEF TypeOK, StackInv
  <2>1. SUFFICES ASSUME r \in present, r \in Spots PROVE spotmap[r] = Reg(r)
    BY <1>1, <2>0 DEF Nodes
  <2>2. CASE Top \in Temps
    BY <1>1, <2>1, <2>2, DummiesFirst DEF SpotInv
  <2>3. CASE Top \in Spots
    <3>1. r # Top
      BY <1>1
    <3>2. r \in gbak[Top]
      BY <2>0, <2>1, <2>3, <3>1 DEF GraphInv
    <3> QED BY <1>1, <3>2
  <2> QED BY <2>2, <2>3 DEF Nodes
<1>4. r \notin Nodes \ Spots
  BY <1>1 DEF Nodes
<1> QED BY <1>1, <1>2, <1>3, <1>4

LEMMA StepSpot ==
  TypeOK /\ PrefInv /\ StackInv /\ GraphInv /\ GroupInv /\ PlacementInv /\ SpotInv
    /\ [Next]_vars => SpotInv'
<1> SUFFICES ASSUME TypeOK, PrefInv, StackInv, GraphInv, GroupInv, PlacementInv,
                    SpotInv, [Next]_vars
             PROVE  SpotInv'
  OBVIOUS
<1> USE NodesType
<1>1. ASSUME NEW spot \in Spot, PlaceStep(spot) PROVE SpotInv'
  <2> USE <1>1, PlaceFacts
  <2>1. \/ Top \in Pool /\ spot = Reg(Top) /\ offset' = offset
        \/ Top \notin Pool /\ offset' = offset /\ \E r \in Free(Top) : spot = Reg(r)
        \/ Top \in Temps /\ offset' > offset /\ offset' \in Nat /\ spot = Mem(offset')
    BY DEF PlaceStep
  <2>2. offset \in Nat /\ \A n \in Nodes : spotmap[n] \in Spot \cup {NoSpot}
    BY DEF TypeOK
  <2>3. ASSUME NEW r \in Spots \cap Pool \cap present, NEW n \in Nodes, spotmap'[n] = Reg(r)
        PROVE  spotmap'[r] = Reg(r)
    <3>1. CASE n \in merged[Top]
      <4>1. CASE Top \in Pool
        BY <2>1, <2>3, <3>1, <4>1
      <4>2. CASE Top \notin Pool
        BY <2>1, <2>3, <3>1, <4>2, FreeFacts
      <4> QED BY <4>1, <4>2
    <3>2. CASE n \notin merged[Top]
      <4>1. spotmap[r] = Reg(r)
        BY <2>3, <3>2 DEF SpotInv
      <4> QED BY <4>1
    <3> QED BY <3>1, <3>2
  <2>4. ASSUME NEW r \in Spots \cap Pool PROVE spotmap'[r] \in {NoSpot, Reg(r)}
    <3>1. CASE r \in merged[Top]
      <4>1. Top = r
        BY <3>1 DEF GroupInv
      <4> QED BY <2>1, <3>1, <4>1
    <3>2. CASE r \notin merged[Top]
      BY <3>2 DEF SpotInv
    <3> QED BY <3>1, <3>2
  <2>5. ASSUME NEW n \in Nodes, spotmap'[n][1] = "mem" PROVE spotmap'[n][2] <= offset'
    <3>1. CASE n \in merged[Top]
      BY <2>1, <2>2, <2>5, <3>1
    <3>2. CASE n \notin merged[Top]
      <4>1. spotmap[n][2] <= offset /\ spotmap[n][2] \in Nat
        BY <2>2, <2>5, <3>2 DEF SpotInv, Spot
      <4> QED BY <2>1, <2>2, <3>2, <4>1
    <3> QED BY <3>1, <3>2
  <2>6. present' = present
    BY DEF PlaceStep
  <2> QED BY <2>3, <2>4, <2>5, <2>6 DEF SpotInv
<1>2. CASE UNCHANGED <<present, spotmap, offset>>
  BY <1>2 DEF SpotInv
<1> QED
  BY <1>1, <1>2, StepCases DEF QuietStep, PushStep, MergeStep, FreezeStep, placing

\* A group is never placed where one of its conflicts already is.
LEMMA PlacedApart ==
  ASSUME TypeOK, StackInv, GraphInv, GroupInv, PlacementInv, SpotInv,
         NEW spot \in Spot, PlaceStep(spot),
         NEW u \in merged[Top], NEW v \in gbak[u]
  PROVE  spotmap'[v] # spotmap'[u]
<1> USE NodesType, PlaceFacts
<1>1. u \in Nodes /\ v \in Nodes /\ v \notin merged[Top]
  BY DEF TypeOK, GroupInv
<1>2. \/ Top \in Pool /\ spot = Reg(Top)
      \/ Top \notin Pool /\ \E r \in Free(Top) : spot = Reg(r)
      \/ offset' > offset /\ offset' \in Nat /\ spot = Mem(offset')
  BY DEF PlaceStep
<1>3. CASE Top \in Pool /\ spot = Reg(Top)
  <2>1. Top \in Spots \cap Pool \cap present /\ spotmap[Top] = NoSpot
    BY <1>3 DEF Nodes, StackInv
  <2>2. spotmap[v] # Reg(Top)
    BY <1>1, <2>1 DEF SpotInv
  <2> QED BY <1>1, <1>3, <2>2
<1>4. CASE Top \notin Pool /\ \E r \in Free(Top) : spot = Reg(r)
  BY <1>1, <1>4, FreeFacts
<1>5. CASE offset' > offset /\ offset' \in Nat /\ spot = Mem(offset')
  <2>1. spotmap[v] \in Spot \cup {NoSpot} /\ offset \in Nat
    BY <1>1 DEF TypeOK
  <2>2. spotmap[v][1] = "mem" => spotmap[v][2] <= offset
    BY <1>1 DEF SpotInv
  <2>3. spotmap[v] # Mem(offset')
    BY <1>5, <2>1, <2>2
  <2> QED BY <1>1, <1>5, <2>3
<1> QED BY <1>2, <1>3, <1>4, <1>5

LEMMA StepColouring ==
  TypeOK /\ PrefInv /\ StackInv /\ GraphInv /\ GroupInv /\ PlacementInv /\ SpotInv
    /\ ProperColouring /\ [Next]_vars => ProperColouring'
<1> SUFFICES ASSUME TypeOK, PrefInv, StackInv, GraphInv, GroupInv, PlacementInv,
                    SpotInv, ProperColouring, [Next]_vars
             PROVE  ProperColouring'
  OBVIOUS
<1>1. ASSUME NEW spot \in Spot, PlaceStep(spot) PROVE ProperColouring'
  <2>1. SUFFICES ASSUME NEW u \in Nodes, NEW v \in gbak[u], spotmap'[u] # NoSpot,
                        spotmap'[v] # NoSpot
                 PROVE  spotmap'[u] # spotmap'[v]
    BY <1>1 DEF ProperColouring, Placed, PlaceStep
  <2>2. v \in Nodes /\ u \in gbak[v]
    BY DEF TypeOK, GraphInv
  <2>3. CASE u \in merged[Top]
    BY <1>1, <2>3, PlacedApart
  <2>4. CASE v \in merged[Top]
    BY <1>1, <2>2, <2>4, PlacedApart
  <2>5. CASE u \notin merged[Top] /\ v \notin merged[Top]
    BY <1>1, <2>1, <2>2, <2>5, PlaceFacts DEF ProperColouring, Placed
  <2> QED BY <2>3, <2>4, <2>5
<1>2. CASE UNCHANGED <<gbak, spotmap>>
  BY <1>2 DEF ProperColouring, Placed
<1> QED
  BY <1>1, <1>2, StepCases DEF QuietStep, PushStep, MergeStep, FreezeStep, placing

-----------------------------------------------------------------------------
(***************************************************************************)
(* The theorems.                                                           *)
(***************************************************************************)
LEMMA Invariance == Spec => [](TypeOK /\ AllocInv)
<1>1. Init => TypeOK /\ AllocInv
  BY InitType, InitInv
<1>2. TypeOK /\ AllocInv /\ [Next]_vars => (TypeOK /\ AllocInv)'
  BY StepType, StepGraph, StepPref, StepStack, StepGroup, StepPlacement, StepSpot,
     StepQuotient, StepColouring
     DEF AllocInv
<1> QED BY <1>1, <1>2, PTL DEF Spec

\* Type correctness, for every graph the allocator can be given.
THEOREM TypeCorrect == Spec => []TypeOK
BY Invariance, PTL

\* Two values live at the same time never share a register or a slot.
THEOREM Colouring == Spec => []ProperColouring
<1>1. TypeOK /\ AllocInv => ProperColouring
  BY DEF AllocInv
<1> QED BY <1>1, Invariance, PTL

\* No value live across a command that clobbers a register is in that register.
THEOREM ClobberSafety == Spec => []NeverInClobbered
<1>1. TypeOK /\ AllocInv => NeverInClobbered
  <2> SUFFICES ASSUME TypeOK, AllocInv, NEW t \in Temps, NEW s \in gbak[t] \cap Spots,
                      spotmap[t] = Reg(s)
               PROVE  FALSE
    BY DEF NeverInClobbered
  <2>1. t \in Nodes /\ s \in Nodes
    BY NodesType
  <2>2. spotmap[t] \in Spot \cup {NoSpot}
    BY <2>1 DEF TypeOK
  <2>3. Reg(s) # NoSpot
    OBVIOUS
  <2>4. t \in Nodes /\ s \in Nodes /\ spotmap[t] \in Spot
    BY <2>1, <2>2, <2>3
  <2>5. s \in Pool
    BY <2>4 DEF Spot
  <2>6. spotmap[s] = Reg(s)
    BY <2>4, <2>5 DEF AllocInv, SpotInv, GraphInv
  <2> QED BY <2>4, <2>6 DEF AllocInv, ProperColouring, Placed
<1> QED BY <1>1, Invariance, PTL

\* The working graph is always the generated graph seen through the merges.
THEOREM QuotientGraph == Spec => []WorkingGraphIsQuotient
<1>1. TypeOK /\ AllocInv => WorkingGraphIsQuotient
  BY DEF AllocInv
<1> QED BY <1>1, Invariance, PTL

\* The allocator implements the abstract assignment: each step places one
\* unplaced group away from its conflicts, or places nothing.
THEOREM Refinement == Spec => ImplementsAssignment
<1>1. Init => Assignment!Init
  <2> SUFFICES ASSUME Init PROVE Assignment!Init
    OBVIOUS
  <2>1. gbak \in [Nodes -> SUBSET Nodes]
    BY InitType DEF TypeOK
  <2> QED BY <2>1 DEF Init, Assignment!Init, Assignment!NoSpot
<1>2. TypeOK /\ AllocInv /\ TypeOK' /\ AllocInv' /\ [Next]_vars => [Assignment!Next]_(Assignment!vars)
  <2> SUFFICES ASSUME TypeOK, AllocInv, TypeOK', AllocInv', [Next]_vars
               PROVE  [Assignment!Next]_(Assignment!vars)
    OBVIOUS
  <2>1. ASSUME NEW spot \in Spot, PlaceStep(spot) PROVE Assignment!Place
    <3> USE <2>1, PlaceFacts DEF AllocInv, Assignment!NoSpot
    <3>1. spotmap' \in [Nodes -> Assignment!Spot \cup {NoSpot}]
      BY DEF TypeOK, Spot, Assignment!Spot
    <3>2. Assignment!Moved = merged[Top]
      BY DEF Assignment!Moved
    <3>3. \A n \in merged[Top] : \A m \in gbak[n] : spotmap'[m] # spotmap'[n]
      BY PlacedApart
    <3>4. gbak' = gbak
      BY DEF PlaceStep
    <3> QED BY <3>1, <3>2, <3>3, <3>4 DEF Assignment!Place
  <2>2. CASE UNCHANGED <<gbak, spotmap>>
    BY <2>2 DEF Assignment!vars
  <2> QED
    BY <2>1, <2>2, StepCases
       DEF QuietStep, PushStep, MergeStep, FreezeStep, placing, AllocInv, Assignment!Next
<1> QED BY <1>1, <1>2, Invariance, PTL DEF Spec, ImplementsAssignment, Assignment!Spec

-----------------------------------------------------------------------------
(***************************************************************************)
(* Who never spills: groups of values, and every value of a graph that     *)
(* simplification alone colours.                                           *)
(***************************************************************************)
\* Registers held by something in conflict with the group of x.
Taken(x) == { r \in Pool : \E m \in Conflicts(x) : spotmap[m] = Reg(r) }

\* The nodes still to be placed before the k-th of the stack, and those of a set
\* that stand for something in conflict with the group of x.
Beyond(k) == nodes \cup { removed[j] : j \in (k + 1)..Len(removed) }
Rivals(x, S) == { y \in S : merged[y] \cap Conflicts(x) # {} }

\* The values that must not spill: groups, and all values of a graph that
\* simplification alone colours.
Sheltered(x) == x \in Temps /\ (merged[x] # {x} \/ GreedyColourable)

\* What is already held and what may be before its turn leave such a value room.
RoomInv ==
  \A k \in 1..Len(removed) : Sheltered(removed[k]) =>
    Cardinality(Taken(removed[k])) + Cardinality(Rivals(removed[k], Beyond(k))) < NReg

\* The working graph is an undirected graph over its own nodes.
ConfInv ==
  /\ IsFiniteSet(present)
  /\ \A n \in Nodes : conf[n] \subseteq nodes
  /\ \A m, n \in Nodes : n \in conf[m] => m \in conf[n]

\* Briggs's test: a group of values never has many conflicts.
DegreeInv == \A x \in nodes \cap Temps : merged[x] # {x} => Degree(x) < NReg

\* Neither merging nor simplifying makes the graph harder to colour.
GreedyInv ==
  GreedyColourable =>
    \A S \in (SUBSET (nodes \cap Temps)) \ {{}} :
      \E t \in S : Cardinality(conf[t] \cap (S \cup Spots)) < NReg

\* A node is pushed as a potential spill only when none can be simplified.
RoundInv ==
  /\ pc = "coalesce" /\ ~changed => \A n \in Real : ~Simplifiable(n)
  /\ pc = "freeze" => \A n \in Real : ~Simplifiable(n)

ShelterInv == RoomInv /\ ConfInv /\ DegreeInv /\ GreedyInv /\ RoundInv

LEMMA PoolSize == IsFiniteSet(Pool) /\ Cardinality(Pool) = NReg
<1> DEFINE order == [k \in 1..NReg |-> AllocRegisters[k]]
<1>1. NReg \in Nat
  BY NodesType
<1>2. order \in Surjection(1..NReg, Pool)
  BY DEF Pool, NReg, Surjection
<1>3. \A j, k \in 1..NReg : order[j] = order[k] => j = k
  BY AllocAssumption
<1>4. order \in Bijection(1..NReg, Pool)
  BY <1>2, <1>3 DEF Bijection, Injection, Surjection, IsInjective
<1>5. IsFiniteSet(1..NReg) /\ Cardinality(1..NReg) = NReg
  BY <1>1, FS_Interval
<1> QED BY <1>4, <1>5, FS_Bijection DEF ExistsBijection

\* A smaller set of neighbours.
LEMMA Fewer ==
  ASSUME NEW S, IsFiniteSet(S), NEW T, T \subseteq S
  PROVE  /\ IsFiniteSet(T) /\ Cardinality(T) \in Nat /\ Cardinality(S) \in Nat
         /\ Cardinality(T) <= Cardinality(S)
BY FS_Subset, FS_CardinalityType

\* Renaming b to a adds no neighbour.
LEMMA Renamed ==
  ASSUME NEW S, IsFiniteSet(S), NEW a, NEW b, a \in S \/ b \in S
  PROVE  /\ IsFiniteSet((S \ {b}) \cup {a})
         /\ Cardinality((S \ {b}) \cup {a}) \in Nat /\ Cardinality(S) \in Nat
         /\ Cardinality((S \ {b}) \cup {a}) <= Cardinality(S)
<1>1. CASE a \in S
  <2>1. (S \ {b}) \cup {a} \subseteq S
    BY <1>1
  <2> QED BY <2>1, Fewer
<1>2. CASE a \notin S /\ b \in S
  <2>1. IsFiniteSet(S \ {b}) /\ Cardinality(S \ {b}) = Cardinality(S) - 1
    BY <1>2, FS_RemoveElement
  <2>2. a \notin S \ {b}
    BY <1>2
  <2>3. /\ IsFiniteSet((S \ {b}) \cup {a})
        /\ Cardinality((S \ {b}) \cup {a}) = Cardinality(S \ {b}) + 1
    BY <2>1, <2>2, FS_AddElement
  <2>4. Cardinality(S) \in Nat /\ Cardinality((S \ {b}) \cup {a}) \in Nat
    BY <2>3, FS_CardinalityType
  <2> QED BY <2>1, <2>3, <2>4
<1> QED BY <1>1, <1>2

-----------------------------------------------------------------------------
(***************************************************************************)
(* The steps once more, with the tests that let them happen.               *)
(***************************************************************************)
Removal(n) ==
  /\ PushStep(n)
  /\ \/ n \in Real /\ Simplifiable(n)
     \/ n \in Real /\ pc = "freeze" /\ NoPrefs
     \/ n \in Spots

Folding(a, b) ==
  /\ MergeStep(a, b)
  /\ \/ a \in Spots /\ George(b, a)
     \/ a \in Temps /\ Briggs(a, b)

Placing(spot) ==
  /\ PlaceStep(spot)
  /\ \/ offset' = offset /\ spilled' = spilled /\ spot[1] = "reg"
     \/ Spill /\ spot = Mem(offset')

Idle == UNCHANGED <<present, gbak, size, nodes, conf, removed, merged, placing>>

LEMMA TestedSteps ==
  ASSUME TypeOK, PrefInv, [Next]_vars
  PROVE  \/ Idle
         \/ \E n \in nodes : Removal(n)
         \/ \E a, b \in nodes : Folding(a, b)
         \/ \E spot \in Spot : Placing(spot)
<1> USE NodesType
<1>1. ASSUME NEW n \in Nodes, Simplify(n) PROVE n \in nodes /\ Removal(n)
  BY <1>1 DEF Simplify, PushStep, Removal, Late, Real
<1>2. ASSUME NEW n \in Nodes, PushPotentialSpill(n) PROVE n \in nodes /\ Removal(n)
  BY <1>2 DEF PushPotentialSpill, PushStep, Removal, Late, Real, TypeOK
<1>3. ASSUME NEW s \in Spots, PushDummy(s) PROVE s \in nodes /\ Removal(s)
  BY <1>3 DEF PushDummy, PushStep, Removal, Late, TypeOK
<1>4. ASSUME NEW a \in Nodes, NEW b \in Nodes, Coalesce(a, b)
      PROVE  \E c, d \in nodes : Folding(c, d)
  <2>1. /\ a \in Real /\ b \in nodes /\ b \in pref[a] /\ b \notin conf[a]
    BY <1>4 DEF Coalesce, Mergeable, PrefInv, TypeOK, Real
  <2>2. CASE b \in Spots
    <3>1. MergeStep(b, a)
      BY <1>4, <2>1, <2>2 DEF Coalesce, MergeStep, Late
    <3>2. Folding(b, a)
      BY <1>4, <2>2, <3>1 DEF Coalesce, Mergeable, Folding
    <3> QED BY <2>1, <3>2 DEF Real
  <2>3. CASE b \notin Spots
    <3>1. b \in Real
      BY <2>1, <2>3 DEF Real, TypeOK, Nodes
    <3>2. MergeStep(a, b)
      BY <1>4, <2>1, <2>3, <3>1 DEF Coalesce, MergeStep, Late, Real
    <3>3. Folding(a, b)
      BY <1>4, <2>1, <2>3, <3>2 DEF Coalesce, Mergeable, Folding, Real
    <3> QED BY <2>1, <3>1, <3>3 DEF Real
  <2> QED BY <2>2, <2>3
<1>5. ASSUME NEW a \in Nodes, NEW b \in Nodes, Freeze(a, b) PROVE Idle
  BY <1>5 DEF Freeze, Idle
<1>6. CASE PlaceDummy
  <2>1. Placing(Reg(Top)) /\ Reg(Top) \in Spot
    BY <1>6 DEF PlaceDummy, PlaceStep, Placing, Spot
  <2> QED BY <2>1
<1>7. ASSUME NEW k \in 1..NReg, PlaceInRegister(k)
      PROVE  \E spot \in Spot : Placing(spot)
  <2>1. AllocRegisters[k] \in Pool
    BY DEF Pool, NReg
  <2>2. Placing(Reg(AllocRegisters[k])) /\ Reg(AllocRegisters[k]) \in Spot
    BY <1>7, <2>1 DEF PlaceInRegister, PlaceStep, Placing, Spot
  <2> QED BY <2>2
<1>8. CASE Spill
  <2>1. size[Top] \in Nat \ {0}
    BY <1>8, AllocAssumption DEF Spill, TypeOK
  <2>2. offset' \in Nat /\ offset' > offset
    BY <1>8, <2>1 DEF Spill, TypeOK
  <2>3. PlaceStep(Mem(offset')) /\ Mem(offset') \in Spot
    BY <1>8, <2>2 DEF Spill, PlaceStep, Spot
  <2>4. Placing(Mem(offset'))
    BY <1>8, <2>3 DEF Placing
  <2> QED BY <2>3, <2>4
<1>9. CASE EndSimplify \/ EndCoalesce \/ EndReduce
  BY <1>9 DEF EndSimplify, EndCoalesce, EndReduce, Idle, graph
<1>10. CASE Crash \/ Finish \/ Halted
  BY <1>10 DEF Crash, Finish, Halted, Idle, vars, graph, placing
<1>11. CASE UNCHANGED vars
  BY <1>11 DEF Idle, vars, graph, placing
<1> QED
  BY <1>1, <1>2, <1>3, <1>4, <1>5, <1>6, <1>7, <1>8, <1>9, <1>10, <1>11
     DEF Next, Reduce, Colour

\* The edges after a merge.
LEMMA FoldedEdges ==
  ASSUME TypeOK, PrefInv, ConfInv, NEW a \in nodes, NEW b \in nodes, MergeStep(a, b)
  PROVE  LET joint == (conf[a] \cup conf[b]) \ {a, b}
         IN  /\ a # b /\ a \in Nodes /\ b \in Nodes /\ nodes' = nodes \ {b}
             /\ conf'[a] = joint /\ conf'[b] = {}
             /\ \A m \in joint \ {a, b} : /\ conf'[m] = (conf[m] \ {b}) \cup {a}
                                          /\ a \in conf[m] \/ b \in conf[m]
             /\ \A m \in Nodes \ (joint \cup {a, b}) : conf'[m] = conf[m] /\ b \notin conf[m]
             /\ gbak' = gbak /\ present' = present /\ spotmap' = spotmap /\ removed' = removed
<1>1. a \in Nodes /\ b \in Nodes /\ a # b
  BY DEF MergeStep, TypeOK, PrefInv
<1> DEFINE joint == (conf[a] \cup conf[b]) \ {a, b}
<1>2. joint \subseteq Nodes
  BY <1>1 DEF TypeOK
<1>3. /\ conf'[a] = joint /\ conf'[b] = {}
      /\ \A m \in joint \ {a, b} : conf'[m] = (conf[m] \ {b}) \cup {a}
      /\ \A m \in Nodes \ (joint \cup {a, b}) : conf'[m] = conf[m]
  BY <1>1, <1>2 DEF MergeStep, Merge, Folded
<1>4. \A m \in joint : a \in conf[m] \/ b \in conf[m]
  BY <1>1, <1>2 DEF ConfInv
<1>5. \A m \in Nodes \ (joint \cup {a, b}) : b \notin conf[m]
  BY <1>1 DEF ConfInv
<1> QED BY <1>1, <1>3, <1>4, <1>5 DEF MergeStep, Merge, placing

-----------------------------------------------------------------------------
(***************************************************************************)
(* The working graph stays small and easy.                                 *)
(***************************************************************************)
LEMMA ShelterInit == Init => ShelterInv
<1> SUFFICES ASSUME Init PROVE ShelterInv
  OBVIOUS
<1>1. TypeOK /\ AllocInv
  BY InitType, InitInv
<1>2. RoomInv
  BY DEF Init, RoomInv
<1>3. ConfInv
  BY <1>1 DEF Init, ConfInv, AllocInv, GraphInv
<1>4. DegreeInv
  BY NodesType DEF Init, DegreeInv
<1>5. GreedyInv
  <2> SUFFICES ASSUME GreedyColourable, NEW S \in (SUBSET (nodes \cap Temps)) \ {{}}
               PROVE  \E t \in S : Cardinality(conf[t] \cap (S \cup Spots)) < NReg
    BY DEF GreedyInv
  <2>1. S \in (SUBSET (Temps \cap present)) \ {{}} /\ conf = gbak
    BY DEF Init
  <2> QED BY <2>1 DEF GreedyColourable
<1>6. RoundInv
  BY DEF Init, RoundInv
<1> QED BY <1>2, <1>3, <1>4, <1>5, <1>6 DEF ShelterInv

\* Every set of nodes of the working graph is finite.
LEMMA Small ==
  ASSUME ConfInv, StackInv
  PROVE  IsFiniteSet(Reps) /\ IsFiniteSet(nodes) /\ \A n \in Nodes : IsFiniteSet(conf[n])
BY FS_Subset DEF ConfInv, StackInv, Reps

LEMMA StepConf ==
  TypeOK /\ PrefInv /\ ConfInv /\ [Next]_vars => ConfInv'
<1> SUFFICES ASSUME TypeOK, PrefInv, ConfInv, [Next]_vars PROVE ConfInv'
  OBVIOUS
<1>1. ASSUME NEW n \in nodes, Removal(n) PROVE ConfInv'
  <2>1. /\ \A m \in Nodes : conf'[m] = IF m = n THEN {} ELSE conf[m] \ {n}
        /\ nodes' = nodes \ {n} /\ present' = present
    BY <1>1 DEF Removal, PushStep, Push, Without
  <2> QED BY <2>1 DEF ConfInv
<1>2. ASSUME NEW a \in nodes, NEW b \in nodes, Folding(a, b) PROVE ConfInv'
  <2> DEFINE joint == (conf[a] \cup conf[b]) \ {a, b}
  <2>0. MergeStep(a, b)
    BY <1>2 DEF Folding
  <2>1. /\ a # b /\ a \in Nodes /\ b \in Nodes /\ nodes' = nodes \ {b}
        /\ conf'[a] = joint /\ conf'[b] = {}
        /\ \A m \in joint \ {a, b} : conf'[m] = (conf[m] \ {b}) \cup {a}
        /\ \A m \in Nodes \ (joint \cup {a, b}) : conf'[m] = conf[m] /\ b \notin conf[m]
        /\ present' = present
    BY <2>0, FoldedEdges
  <2>2. joint \subseteq nodes \ {b} /\ joint \subseteq Nodes
    BY <2>1 DEF ConfInv, TypeOK
  <2>3. ASSUME NEW m \in Nodes PROVE conf'[m] \subseteq nodes \ {b}
    BY <2>1, <2>2 DEF ConfInv
  <2>4. ASSUME NEW m \in Nodes, NEW n \in Nodes, n \in conf'[m] PROVE m \in conf'[n]
    <3>1. CASE m = b
      BY <2>1, <2>4, <3>1
    <3>2. CASE m = a
      BY <2>1, <2>4, <3>2
    <3>3. CASE m \in joint
      <4>1. CASE n = a
        BY <2>1, <3>3, <4>1
      <4>2. CASE n # a
        <5>1. n \in conf[m] /\ n # b
          BY <2>1, <2>4, <3>3, <4>2
        <5>2. m \in conf[n] /\ m # b /\ m # a
          BY <3>3, <5>1 DEF ConfInv
        <5> QED BY <2>1, <4>2, <5>1, <5>2
      <4> QED BY <4>1, <4>2
    <3>4. CASE m \notin joint \cup {a, b}
      <4>1. n \in conf[m] /\ n # b /\ m \in conf[n]
        BY <2>1, <2>4, <3>4 DEF ConfInv
      <4>2. n # a
        BY <3>4, <4>1
      <4> QED BY <2>1, <3>4, <4>1, <4>2
    <3> QED BY <3>1, <3>2, <3>3, <3>4
  <2> QED BY <2>1, <2>3, <2>4 DEF ConfInv
<1>3. CASE UNCHANGED <<present, nodes, conf>>
  BY <1>3 DEF ConfInv
<1> QED BY <1>1, <1>2, <1>3, TestedSteps DEF Idle, Placing, PlaceStep, graph

\* Briggs's test admits a merge only if the group has few conflicts, and it
\* never gains one.
LEMMA StepDegree ==
  TypeOK /\ PrefInv /\ StackInv /\ ConfInv /\ DegreeInv /\ [Next]_vars => DegreeInv'
<1> SUFFICES ASSUME TypeOK, PrefInv, StackInv, ConfInv, DegreeInv, [Next]_vars
             PROVE  DegreeInv'
  OBVIOUS
<1> USE NodesType
<1>0. \A n \in Nodes : IsFiniteSet(conf[n])
  BY Small
<1>1. ASSUME NEW n \in nodes, Removal(n) PROVE DegreeInv'
  <2>1. /\ \A m \in Nodes : conf'[m] = IF m = n THEN {} ELSE conf[m] \ {n}
        /\ nodes' = nodes \ {n} /\ merged' = merged
    BY <1>1 DEF Removal, PushStep, Push, Without
  <2> SUFFICES ASSUME NEW x \in nodes' \cap Temps, merged[x] # {x}
               PROVE  Cardinality(conf'[x]) < NReg
    BY <2>1 DEF DegreeInv, Degree
  <2>2. x \in nodes \cap Temps /\ conf'[x] \subseteq conf[x] /\ x \in Nodes
    BY <2>1
  <2>3. Cardinality(conf[x]) < NReg
    BY <2>2 DEF DegreeInv, Degree
  <2>4. /\ Cardinality(conf'[x]) \in Nat /\ Cardinality(conf[x]) \in Nat
        /\ Cardinality(conf'[x]) <= Cardinality(conf[x])
    BY <1>0, <2>2, Fewer
  <2> QED BY <2>3, <2>4
<1>2. ASSUME NEW a \in nodes, NEW b \in nodes, Folding(a, b) PROVE DegreeInv'
  <2> DEFINE joint == (conf[a] \cup conf[b]) \ {a, b}
  <2>0. MergeStep(a, b)
    BY <1>2 DEF Folding
  <2>1. /\ a # b /\ a \in Nodes /\ b \in Nodes /\ nodes' = nodes \ {b}
        /\ conf'[a] = joint /\ conf'[b] = {}
        /\ \A m \in joint \ {a, b} : /\ conf'[m] = (conf[m] \ {b}) \cup {a}
                                     /\ a \in conf[m] \/ b \in conf[m]
        /\ \A m \in Nodes \ (joint \cup {a, b}) : conf'[m] = conf[m] /\ b \notin conf[m]
    BY <2>0, FoldedEdges
  <2>2. \A x \in Nodes \ {a} : merged'[x] = merged[x]
    BY <2>0, <2>1 DEF MergeStep, Merge, TypeOK
  <2> SUFFICES ASSUME NEW x \in nodes' \cap Temps, merged'[x] # {x}
               PROVE  Cardinality(conf'[x]) < NReg
    BY DEF DegreeInv, Degree
  <2>3. x \in nodes \cap Temps /\ x # b /\ x \in Nodes
    BY <2>1
  <2>4. CASE x = a
    <3>1. Cardinality(conf[a] \cup conf[b]) < NReg
      BY <1>2, <2>3, <2>4 DEF Folding, Briggs
    <3>2. IsFiniteSet(conf[a] \cup conf[b])
      BY <1>0, <2>1, FS_Union
    <3>3. joint \subseteq conf[a] \cup conf[b]
      OBVIOUS
    <3>4. /\ Cardinality(joint) \in Nat /\ Cardinality(conf[a] \cup conf[b]) \in Nat
          /\ Cardinality(joint) <= Cardinality(conf[a] \cup conf[b])
      BY <3>2, <3>3, Fewer
    <3> HIDE DEF joint
    <3> QED BY <2>1, <2>4, <3>1, <3>4
  <2>5. CASE x # a
    <3>1. Cardinality(conf[x]) < NReg
      BY <2>2, <2>3, <2>5 DEF DegreeInv, Degree
    <3>2. CASE x \in joint
      <4>1. conf'[x] = (conf[x] \ {b}) \cup {a} /\ (a \in conf[x] \/ b \in conf[x])
        BY <2>1, <2>3, <2>5, <3>2
      <4>2. /\ Cardinality(conf'[x]) \in Nat /\ Cardinality(conf[x]) \in Nat
            /\ Cardinality(conf'[x]) <= Cardinality(conf[x])
        BY <1>0, <2>3, <4>1, Renamed
      <4> QED BY <3>1, <4>2
    <3>3. CASE x \notin joint
      BY <2>1, <2>3, <2>5, <3>1, <3>3
    <3> QED BY <3>2, <3>3
  <2> QED BY <2>4, <2>5
<1>3. CASE UNCHANGED <<nodes, conf, merged>>
  BY <1>3 DEF DegreeInv, Degree
<1> QED BY <1>1, <1>2, <1>3, TestedSteps DEF Idle, Placing, PlaceStep, graph

LEMMA StepGreedy ==
  TypeOK /\ PrefInv /\ StackInv /\ ConfInv /\ GreedyInv /\ [Next]_vars => GreedyInv'
<1> SUFFICES ASSUME TypeOK, PrefInv, StackInv, ConfInv, GreedyInv, [Next]_vars
             PROVE  GreedyInv'
  OBVIOUS
<1> USE NodesType
<1>0. \A n \in Nodes : IsFiniteSet(conf[n])
  BY Small
<1>1. ASSUME NEW n \in nodes, Removal(n) PROVE GreedyInv'
  <2>1. /\ \A m \in Nodes : conf'[m] = IF m = n THEN {} ELSE conf[m] \ {n}
        /\ nodes' = nodes \ {n} /\ gbak' = gbak /\ present' = present
    BY <1>1 DEF Removal, PushStep, Push, Without
  <2> SUFFICES ASSUME GreedyColourable, NEW S \in (SUBSET (nodes' \cap Temps)) \ {{}}
               PROVE  \E t \in S : Cardinality(conf'[t] \cap (S \cup Spots)) < NReg
    BY <2>1 DEF GreedyInv, GreedyColourable
  <2>2. S \in (SUBSET (nodes \cap Temps)) \ {{}}
    BY <2>1
  <2> DEFINE near(t) == conf[t] \cap (S \cup Spots)
             later(t) == conf'[t] \cap (S \cup Spots)
  <2>3. PICK t \in S : Cardinality(near(t)) < NReg
    BY <2>2 DEF GreedyInv
  <2>4. t \in Nodes /\ later(t) \subseteq near(t)
    BY <2>1, <2>2
  <2>5. IsFiniteSet(near(t))
    BY <1>0, <2>4, FS_Subset
  <2> HIDE DEF near, later
  <2>6. /\ Cardinality(later(t)) \in Nat /\ Cardinality(near(t)) \in Nat
        /\ Cardinality(later(t)) <= Cardinality(near(t))
    BY <2>4, <2>5, Fewer
  <2>7. Cardinality(later(t)) < NReg
    BY <2>3, <2>6
  <2> QED BY <2>7 DEF later
<1>2. ASSUME NEW a \in nodes, NEW b \in nodes, Folding(a, b) PROVE GreedyInv'
  <2> DEFINE joint == (conf[a] \cup conf[b]) \ {a, b}
  <2>0. MergeStep(a, b)
    BY <1>2 DEF Folding
  <2>1. /\ a # b /\ a \in Nodes /\ b \in Nodes /\ nodes' = nodes \ {b}
        /\ conf'[a] = joint /\ conf'[b] = {}
        /\ \A m \in joint \ {a, b} : /\ conf'[m] = (conf[m] \ {b}) \cup {a}
                                     /\ a \in conf[m] \/ b \in conf[m]
        /\ \A m \in Nodes \ (joint \cup {a, b}) : conf'[m] = conf[m] /\ b \notin conf[m]
        /\ gbak' = gbak /\ present' = present
    BY <2>0, FoldedEdges
  <2>2. b \in Temps
    BY <2>0 DEF MergeStep, Real
  <2> SUFFICES ASSUME GreedyColourable, NEW S \in (SUBSET (nodes' \cap Temps)) \ {{}}
               PROVE  \E t \in S : Cardinality(conf'[t] \cap (S \cup Spots)) < NReg
    BY <2>1 DEF GreedyInv, GreedyColourable
  <2> DEFINE near(t) == conf[t] \cap (S \cup Spots)
             later(t) == conf'[t] \cap (S \cup Spots)
  <2>3. /\ S \in (SUBSET (nodes \cap Temps)) \ {{}} /\ b \notin S /\ b \notin Spots
        /\ \A t \in S : t \in Nodes
    BY <2>1, <2>2
  <2>4. CASE a \in S
    <3>1. Cardinality(conf[a] \cup conf[b]) < NReg
      BY <1>2, <2>3, <2>4 DEF Folding, Briggs
    <3>2. IsFiniteSet(conf[a] \cup conf[b])
      BY <1>0, <2>1, FS_Union
    <3>3. later(a) \subseteq conf[a] \cup conf[b]
      BY <2>1
    <3> HIDE DEF later
    <3>4. /\ Cardinality(later(a)) \in Nat /\ Cardinality(conf[a] \cup conf[b]) \in Nat
          /\ Cardinality(later(a)) <= Cardinality(conf[a] \cup conf[b])
      BY <3>2, <3>3, Fewer
    <3>5. Cardinality(later(a)) < NReg
      BY <3>1, <3>4
    <3> QED BY <2>4, <3>5 DEF later
  <2>5. CASE a \notin S /\ a \in Temps
    <3>1. \A t \in S : later(t) = near(t)
      BY <2>1, <2>3, <2>5
    <3>2. \E t \in S : Cardinality(near(t)) < NReg
      BY <2>3 DEF GreedyInv
    <3> QED BY <3>1, <3>2
  <2>6. CASE a \in Spots
    <3>1. George(b, a) /\ a \notin S
      BY <1>2, <2>3, <2>6 DEF Folding
    <3>2. CASE \E t \in S : b \in conf[t] /\ a \notin conf[t]
      <4>1. PICK t \in S : b \in conf[t] /\ a \notin conf[t]
        BY <3>2
      <4>2. t \in conf[b] /\ t \in Nodes /\ t # a /\ t # b
        BY <2>1, <2>3, <3>1, <4>1 DEF ConfInv
      <4>3. Cardinality(conf[t]) < NReg
        BY <3>1, <4>1, <4>2 DEF George, Degree
      <4>4. conf'[t] = (conf[t] \ {b}) \cup {a}
        BY <2>1, <4>2
      <4> DEFINE renamed == (conf[t] \ {b}) \cup {a}
      <4>9. IsFiniteSet(conf[t])
        BY <1>0, <4>2
      <4>10. /\ IsFiniteSet(renamed)
             /\ Cardinality(renamed) \in Nat /\ Cardinality(conf[t]) \in Nat
             /\ Cardinality(renamed) <= Cardinality(conf[t])
        BY <4>1, <4>9, Renamed
      <4>5. /\ IsFiniteSet(conf'[t])
            /\ Cardinality(conf'[t]) \in Nat /\ Cardinality(conf[t]) \in Nat
            /\ Cardinality(conf'[t]) <= Cardinality(conf[t])
        BY <4>4, <4>10
      <4>6. later(t) \subseteq conf'[t]
        OBVIOUS
      <4> HIDE DEF later
      <4>7. Cardinality(later(t)) \in Nat /\ Cardinality(later(t)) <= Cardinality(conf'[t])
        BY <4>5, <4>6, Fewer
      <4>8. Cardinality(later(t)) < NReg
        BY <4>3, <4>5, <4>7
      <4> QED BY <4>8 DEF later
    <3>3. CASE \A t \in S : b \in conf[t] => a \in conf[t]
      <4>1. ASSUME NEW t \in S PROVE later(t) = near(t)
        <5>1. t \in Nodes /\ t # a /\ t # b
          BY <2>3, <3>1
        <5>2. CASE t \in joint
          <6>1. conf'[t] = (conf[t] \ {b}) \cup {a} /\ a \in conf[t]
            BY <2>1, <3>3, <5>1, <5>2
          <6> QED BY <2>3, <6>1
        <5>3. CASE t \notin joint
          BY <2>1, <5>1, <5>3
        <5> QED BY <5>2, <5>3
      <4>2. \E t \in S : Cardinality(near(t)) < NReg
        BY <2>3 DEF GreedyInv
      <4> QED BY <4>1, <4>2
    <3> QED BY <3>2, <3>3
  <2> QED BY <2>1, <2>4, <2>5, <2>6 DEF Nodes
<1>3. CASE UNCHANGED <<present, gbak, nodes, conf>>
  BY <1>3 DEF GreedyInv, GreedyColourable
<1> QED BY <1>1, <1>2, <1>3, TestedSteps DEF Idle, Placing, PlaceStep, graph

\* The rounds of _make_asm.
LEMMA StepRound ==
  TypeOK /\ RoundInv /\ [Next]_vars => RoundInv'
<1> SUFFICES ASSUME TypeOK, RoundInv, [Next]_vars PROVE RoundInv'
  OBVIOUS
<1> USE DEF RoundInv, Real, Simplifiable, Degree
<1>1. ASSUME NEW n \in Nodes, Simplify(n) PROVE RoundInv'
  BY <1>1 DEF Simplify
<1>2. CASE EndSimplify
  BY <1>2 DEF EndSimplify, graph
<1>3. ASSUME NEW a \in Nodes, NEW b \in Nodes, Coalesce(a, b) PROVE RoundInv'
  BY <1>3 DEF Coalesce
<1>4. CASE EndCoalesce
  <2>1. pc = "coalesce" /\ pc' = (IF changed THEN "simplify" ELSE "freeze") /\ UNCHANGED graph
    BY <1>4 DEF EndCoalesce
  <2> QED BY <2>1 DEF graph
<1>5. ASSUME NEW a \in Nodes, NEW b \in Nodes, Freeze(a, b) PROVE RoundInv'
  BY <1>5 DEF Freeze
<1>6. ASSUME NEW n \in Nodes, PushPotentialSpill(n) PROVE RoundInv'
  BY <1>6 DEF PushPotentialSpill
<1>7. CASE EndReduce
  BY <1>7 DEF EndReduce
<1>8. CASE Colour
  <2>1. pc = "colour" /\ pc' \in {"colour", "crashed", "done"}
    BY <1>8 DEF Colour, PushDummy, PlaceDummy, PlaceInRegister, Spill, Crash, Finish, Popping
  <2> QED BY <2>1
<1>9. CASE UNCHANGED vars
  BY <1>9 DEF vars
<1> QED BY <1>1, <1>2, <1>3, <1>4, <1>5, <1>6, <1>7, <1>8, <1>9 DEF Next, Reduce, Halted

-----------------------------------------------------------------------------
(***************************************************************************)
(* The room of a value on the stack.                                       *)
(***************************************************************************)
\* What the counts of RoomInv are of.
LEMMA RoomSets ==
  ASSUME TypeOK, AllocInv, ConfInv, NEW k \in 1..Len(removed)
  PROVE  LET x == removed[k]
         IN  /\ x \in Nodes /\ x \in OnStack /\ x \in Reps /\ Conflicts(x) \subseteq Nodes
             /\ Beyond(k) \subseteq Reps /\ IsFiniteSet(Beyond(k))
             /\ IsFiniteSet(Rivals(x, Beyond(k))) /\ IsFiniteSet(Taken(x))
             /\ Cardinality(Rivals(x, Beyond(k))) \in Nat /\ Cardinality(Taken(x)) \in Nat
<1> DEFINE x == removed[k]
<1>1. x \in OnStack /\ x \in Nodes /\ Len(removed) \in Nat /\ x \in Reps
  BY DEF TypeOK, OnStack, Reps
<1>2. Conflicts(x) \subseteq Nodes
  <2>1. merged[x] \subseteq Nodes
    BY <1>1 DEF TypeOK
  <2> QED BY <2>1 DEF Conflicts, TypeOK
<1>3. Beyond(k) \subseteq Reps
  BY <1>1 DEF Beyond, Reps, OnStack
<1>4. IsFiniteSet(Beyond(k))
  BY <1>3, Small, FS_Subset DEF AllocInv
<1>5. Rivals(x, Beyond(k)) \subseteq Beyond(k) /\ Taken(x) \subseteq Pool
  BY DEF Rivals, Taken
<1> HIDE DEF x
<1>6. IsFiniteSet(Rivals(x, Beyond(k))) /\ IsFiniteSet(Taken(x))
  BY <1>4, <1>5, PoolSize, FS_Subset
<1>7. Cardinality(Rivals(x, Beyond(k))) \in Nat /\ Cardinality(Taken(x)) \in Nat
  BY <1>6, FS_CardinalityType
<1> QED BY <1>1, <1>2, <1>3, <1>4, <1>6, <1>7 DEF x

\* A value is pushed with few conflicts, or is not one that must not spill.
LEMMA PushedThin ==
  ASSUME TypeOK, AllocInv, ShelterInv, NEW n \in nodes, Removal(n), Sheltered(n)
  PROVE  Cardinality(conf[n]) < NReg
<1> USE NodesType
<1>1. n \in Temps /\ n \in Real
  BY DEF Sheltered, Real
<1>2. CASE Simplifiable(n)
  BY <1>2 DEF Simplifiable, Degree
<1>3. CASE merged[n] # {n}
  BY <1>1, <1>3 DEF ShelterInv, DegreeInv, Degree
<1>4. CASE GreedyColourable /\ pc = "freeze" /\ NoPrefs
  <2> DEFINE S == nodes \cap Temps
  <2>0. n \in S
    BY <1>1
  <2>7. S # {}
    BY <2>0
  <2>8. S \subseteq nodes \cap Temps
    OBVIOUS
  <2> HIDE DEF S
  <2>1. S \in (SUBSET (nodes \cap Temps)) \ {{}}
    BY <2>7, <2>8
  <2>2. PICK t \in S : Cardinality(conf[t] \cap (S \cup Spots)) < NReg
    BY <1>4, <2>1 DEF ShelterInv, GreedyInv
  <2>3. t \in Nodes /\ t \in Real /\ pref[t] = {}
    BY <1>4, <2>8 DEF Real, NoPrefs
  <2>4. conf[t] \subseteq S \cup Spots
    BY <2>3 DEF ShelterInv, ConfInv, TypeOK, Nodes, S
  <2>5. conf[t] \cap (S \cup Spots) = conf[t]
    BY <2>4
  <2>6. Simplifiable(t)
    BY <2>2, <2>3, <2>5 DEF Simplifiable, Degree
  <2> QED BY <1>4, <2>3, <2>6 DEF ShelterInv, RoundInv
<1> QED BY <1>1, <1>2, <1>3, <1>4 DEF Removal, Sheltered

LEMMA RoomPush ==
  ASSUME TypeOK, AllocInv, ShelterInv, NEW n \in nodes, Removal(n)
  PROVE  RoomInv'
<1> USE NodesType
<1>1. /\ nodes' = nodes \ {n} /\ n \in Nodes
      /\ UNCHANGED <<present, gbak, merged, spotmap>>
  BY DEF Removal, PushStep, Push, placing, TypeOK
<1>2. /\ Len(removed') = Len(removed) + 1 /\ Len(removed) \in Nat
      /\ \A k \in 1..Len(removed) : removed'[k] = removed[k]
      /\ removed'[Len(removed) + 1] = n
  BY PushFacts DEF Removal, PushStep, TypeOK
<1> SUFFICES ASSUME NEW k \in 1..Len(removed'), Sheltered(removed[k])'
             PROVE  Cardinality(Taken(removed[k])') + Cardinality(Rivals(removed[k], Beyond(k))') < NReg
  BY DEF RoomInv
<1>3. CASE k <= Len(removed)
  <2>1. k \in 1..Len(removed) /\ removed'[k] = removed[k]
    BY <1>2, <1>3
  <2>2. Sheltered(removed[k])
    BY <1>1, <2>1 DEF Sheltered, GreedyColourable
  <2>3. Taken(removed[k])' = Taken(removed[k])
    BY <1>1, <2>1 DEF Taken, Conflicts
  <2>4. (nodes \ {n}) \cup { removed'[j] : j \in (k + 1)..(Len(removed) + 1) }
          = nodes \cup { removed[j] : j \in (k + 1)..Len(removed) }
    <3>1. \A j \in (k + 1)..Len(removed) : removed'[j] = removed[j] /\ j \in (k + 1)..(Len(removed) + 1)
      BY <1>2, <2>1
    <3>2. \A j \in (k + 1)..(Len(removed) + 1) : j \in (k + 1)..Len(removed) \/ j = Len(removed) + 1
      BY <1>2, <2>1
    <3>3. Len(removed) + 1 \in (k + 1)..(Len(removed) + 1)
      BY <1>2, <2>1
    <3> QED BY <1>2, <3>1, <3>2, <3>3
  <2>5. Rivals(removed[k], Beyond(k))' = Rivals(removed[k], Beyond(k))
    BY <1>1, <1>2, <2>1, <2>4 DEF Rivals, Beyond, Conflicts
  <2> QED BY <2>1, <2>2, <2>3, <2>5 DEF ShelterInv, RoomInv
<1>4. CASE k = Len(removed) + 1
  <2>1. removed'[k] = n /\ (k + 1)..Len(removed') = {}
    BY <1>2, <1>4
  <2>2. Sheltered(n)
    BY <1>1, <2>1 DEF Sheltered, GreedyColourable
  <2>3. Cardinality(conf[n]) < NReg
    BY <2>2, PushedThin
  <2>4. merged[n] \subseteq Nodes /\ Conflicts(n) \subseteq Nodes
    BY <1>1 DEF Conflicts, TypeOK
  <2>5. Taken(removed[k])' = {}
    <3>1. \A m \in Nodes : spotmap[m] = NoSpot
      BY DEF AllocInv, PlacementInv, Placed
    <3>2. \A r \in Pool : Reg(r) # NoSpot
      OBVIOUS
    <3>3. Conflicts(removed[k])' = Conflicts(n)
      BY <1>1, <2>1 DEF Conflicts
    <3> QED BY <1>1, <2>4, <3>1, <3>2, <3>3 DEF Taken
  <2>6. Rivals(removed[k], Beyond(k))' \subseteq conf[n]
    <3>1. Beyond(k)' = nodes \ {n}
      BY <1>1, <2>1 DEF Beyond
    <3>2. \A y \in nodes : merged[y] \cap Conflicts(n) # {} => y \in conf[n]
      BY DEF Conflicts, AllocInv, WorkingGraphIsQuotient
    <3>3. Conflicts(removed[k])' = Conflicts(n)
      BY <1>1, <2>1 DEF Conflicts
    <3> QED BY <1>1, <3>1, <3>2, <3>3 DEF Rivals
  <2>7. IsFiniteSet(conf[n])
    BY <1>1, Small DEF ShelterInv, AllocInv
  <2>8. /\ Cardinality(Rivals(removed[k], Beyond(k))') \in Nat /\ Cardinality(conf[n]) \in Nat
        /\ Cardinality(Rivals(removed[k], Beyond(k))') <= Cardinality(conf[n])
    BY <2>6, <2>7, Fewer
  <2>9. Cardinality(Taken(removed[k])') = 0
    BY <2>5, FS_EmptySet
  <2> QED BY <2>3, <2>8, <2>9
<1> QED BY <1>2, <1>3, <1>4

LEMMA RoomMerge ==
  ASSUME TypeOK, AllocInv, ShelterInv, NEW a \in nodes, NEW b \in nodes, Folding(a, b)
  PROVE  RoomInv'
<1> USE NodesType
<1>1. /\ a \in Nodes /\ b \in Nodes /\ a # b
      /\ merged'[a] = merged[a] \cup merged[b]
      /\ \A x \in Nodes \ {a} : merged'[x] = merged[x]
      /\ nodes' = nodes \ {b}
  BY MergeFacts DEF Folding, AllocInv
<1>2. UNCHANGED <<present, gbak, removed, spotmap>>
  BY DEF Folding, MergeStep, placing
<1> SUFFICES ASSUME NEW k \in 1..Len(removed), Sheltered(removed[k])'
             PROVE  Cardinality(Taken(removed[k])') + Cardinality(Rivals(removed[k], Beyond(k))') < NReg
  BY <1>2 DEF RoomInv
<1> DEFINE x == removed[k]
           R == Rivals(x, Beyond(k))
<1>3. /\ x \in Nodes /\ x \in OnStack /\ Beyond(k) \subseteq Reps
      /\ IsFiniteSet(R) /\ Cardinality(R) \in Nat /\ Cardinality(Taken(x)) \in Nat
  BY RoomSets DEF ShelterInv
<1>4. x # a /\ merged'[x] = merged[x]
  BY <1>1, <1>3 DEF AllocInv, StackInv
<1>5. Sheltered(x)
  BY <1>2, <1>4 DEF Sheltered, GreedyColourable
<1>6. Taken(removed[k])' = Taken(x) /\ Conflicts(removed[k])' = Conflicts(x)
  BY <1>2, <1>4 DEF Taken, Conflicts
<1>7. Beyond(k)' \subseteq Beyond(k) \ {b} /\ a \in Beyond(k) /\ b \in Beyond(k)
  <2>1. \A j \in (k + 1)..Len(removed) : removed[j] # b
    BY DEF AllocInv, StackInv, OnStack, TypeOK
  <2> QED BY <1>1, <1>2, <2>1 DEF Beyond
<1>8. Rivals(removed[k], Beyond(k))' = { y \in Beyond(k)' : merged'[y] \cap Conflicts(x) # {} }
  BY <1>6 DEF Rivals
<1>9. Beyond(k) \subseteq Nodes
  BY DEF Beyond, TypeOK
<1> HIDE DEF x
<1>10. CASE a \in R \/ b \in R
  <2> DEFINE renamed == (R \ {b}) \cup {a}
  <2>1. Rivals(removed[k], Beyond(k))' \subseteq renamed
    BY <1>1, <1>7, <1>8, <1>9 DEF Rivals
  <2> HIDE DEF R
  <2>2. IsFiniteSet(renamed) /\ Cardinality(renamed) \in Nat /\ Cardinality(renamed) <= Cardinality(R)
    BY <1>3, <1>10, Renamed
  <2> HIDE DEF renamed
  <2>3. /\ Cardinality(Rivals(removed[k], Beyond(k))') \in Nat
        /\ Cardinality(Rivals(removed[k], Beyond(k))') <= Cardinality(renamed)
    BY <2>1, <2>2, Fewer
  <2>4. Cardinality(Taken(x)) + Cardinality(R) < NReg
    BY <1>5 DEF ShelterInv, RoomInv, x, R
  <2>5. Cardinality(Taken(removed[k])') = Cardinality(Taken(x))
    BY <1>6
  <2> QED BY <1>3, <2>2, <2>3, <2>4, <2>5
<1>11. CASE ~(a \in R \/ b \in R)
  <2>1. Rivals(removed[k], Beyond(k))' \subseteq R
    <3>1. merged[a] \cap Conflicts(x) = {} /\ merged[b] \cap Conflicts(x) = {}
      BY <1>7, <1>11 DEF Rivals
    <3>2. merged'[a] \cap Conflicts(x) = {}
      BY <1>1, <3>1
    <3> QED BY <1>1, <1>7, <1>8, <1>9, <3>2 DEF Rivals
  <2> HIDE DEF R
  <2>2. /\ Cardinality(Rivals(removed[k], Beyond(k))') \in Nat
        /\ Cardinality(Rivals(removed[k], Beyond(k))') <= Cardinality(R)
    BY <1>3, <2>1, Fewer
  <2>3. Cardinality(Taken(x)) + Cardinality(R) < NReg
    BY <1>5 DEF ShelterInv, RoomInv, x, R
  <2>4. Cardinality(Taken(removed[k])') = Cardinality(Taken(x))
    BY <1>6
  <2> QED BY <1>3, <2>2, <2>3, <2>4
<1> QED BY <1>10, <1>11

\* A placement turns a rival into at most one register held.
LEMMA RoomPlace ==
  ASSUME TypeOK, AllocInv, ShelterInv, NEW spot \in Spot, PlaceStep(spot)
  PROVE  RoomInv'
<1> USE NodesType
<1>1. /\ Top \in Nodes /\ Top \in merged[Top] /\ nodes = {}
      /\ \A n \in merged[Top] : spotmap'[n] = spot
      /\ \A n \in Nodes \ merged[Top] : spotmap'[n] = spotmap[n]
  BY PlaceFacts DEF AllocInv
<1>2. UNCHANGED <<present, gbak, merged, nodes>>
  BY DEF PlaceStep, graph
<1>3. /\ Len(removed) \in Nat \ {0} /\ Len(removed') = Len(removed) - 1
      /\ \A k \in 1..Len(removed') : removed'[k] = removed[k]
  BY PopFacts DEF PlaceStep, Popping, graph, AllocInv
<1> SUFFICES ASSUME NEW k \in 1..(Len(removed) - 1), Sheltered(removed[k])'
             PROVE  Cardinality(Taken(removed[k])') + Cardinality(Rivals(removed[k], Beyond(k))') < NReg
  BY <1>3 DEF RoomInv
<1> DEFINE x == removed[k]
           R == Rivals(x, Beyond(k))
<1>4. k \in 1..Len(removed) /\ k \in 1..Len(removed') /\ removed'[k] = x
  BY <1>3
<1>5. /\ Conflicts(x) \subseteq Nodes /\ IsFiniteSet(R) /\ IsFiniteSet(Taken(x))
      /\ Cardinality(R) \in Nat /\ Cardinality(Taken(x)) \in Nat
  BY <1>4, RoomSets DEF ShelterInv
<1>6. Sheltered(x)
  BY <1>2, <1>4 DEF Sheltered, GreedyColourable
<1>7. Conflicts(removed[k])' = Conflicts(x)
  BY <1>2, <1>4 DEF Conflicts
<1>8. Top \in Beyond(k) /\ Beyond(k)' = Beyond(k) \ {Top}
  <2>1. Len(removed) \in (k + 1)..Len(removed) /\ removed[Len(removed)] = Top
    BY <1>3 DEF Top
  <2>2. \A j \in (k + 1)..(Len(removed) - 1) : removed[j] # Top
    BY <1>3 DEF AllocInv, StackInv, Top
  <2>3. { removed'[j] : j \in (k + 1)..Len(removed') }
          = { removed[j] : j \in (k + 1)..Len(removed) } \ {Top}
    <3> DEFINE m == Len(removed) - 1
    <3>3. k \in Nat /\ m \in Nat /\ Len(removed') = m
      BY <1>3
    <3>4. \A j \in (k + 1)..m : j \in 1..m /\ j \in (k + 1)..Len(removed)
      BY <1>3, <3>3
    <3>1. \A j \in (k + 1)..Len(removed') : /\ j \in (k + 1)..(Len(removed) - 1)
                                            /\ j \in (k + 1)..Len(removed)
                                            /\ removed'[j] = removed[j]
      BY <1>3, <3>3, <3>4
    <3>5. ASSUME NEW j \in (k + 1)..Len(removed), j # Len(removed) PROVE j \in (k + 1)..m
      <4>1. Len(removed) \in Nat /\ k \in Nat
        BY <1>3, <3>3
      <4>2. j \in Nat /\ j >= k + 1 /\ j < Len(removed)
        BY <3>5, <4>1
      <4> QED BY <4>1, <4>2
    <3>2. \A j \in (k + 1)..Len(removed) : j \in (k + 1)..Len(removed') \/ j = Len(removed)
      BY <3>3, <3>5
    <3> QED BY <2>1, <2>2, <3>1, <3>2
  <2> QED BY <1>1, <1>2, <2>1, <2>3 DEF Beyond
<1>9. Rivals(removed[k], Beyond(k))' = R \ {Top}
  BY <1>2, <1>7, <1>8 DEF Rivals
<1>10. Cardinality(Taken(x)) + Cardinality(R) < NReg
  BY <1>4, <1>6 DEF ShelterInv, RoomInv
<1>11. Taken(removed[k])' = { r \in Pool : \E m \in Conflicts(x) : spotmap'[m] = Reg(r) }
  BY <1>7 DEF Taken
<1>12. CASE Top \in R
  <2>1. Taken(removed[k])' \subseteq Taken(x) \cup {spot[2]}
    <3>1. ASSUME NEW r \in Pool, NEW m \in Conflicts(x), spotmap'[m] = Reg(r)
          PROVE  r \in Taken(x) \cup {spot[2]}
      <4>1. CASE m \in merged[Top]
        <5>1. spot = <<"reg", r>>
          BY <1>1, <3>1, <4>1
        <5> QED BY <5>1
      <4>2. CASE m \notin merged[Top]
        <5>1. spotmap[m] = Reg(r)
          BY <1>1, <1>5, <3>1, <4>2
        <5> QED BY <5>1 DEF Taken
      <4> QED BY <4>1, <4>2
    <3> QED BY <1>11, <3>1
  <2> DEFINE T == Taken(x)
             U == Taken(removed[k])'
             V == Rivals(removed[k], Beyond(k))'
  <2>2. V = R \ {Top} /\ U \subseteq T \cup {spot[2]} /\ IsFiniteSet(T)
    BY <1>5, <1>9, <2>1
  <2>3. Cardinality(T) + Cardinality(R) < NReg /\ Cardinality(T) \in Nat /\ Cardinality(R) \in Nat
    BY <1>5, <1>10
  <2>4. IsFiniteSet(R)
    BY <1>5
  <2> HIDE DEF T, U, V, R
  <2>5. /\ IsFiniteSet(T \cup {spot[2]}) /\ Cardinality(T \cup {spot[2]}) \in Nat
        /\ Cardinality(T \cup {spot[2]}) <= Cardinality(T) + 1
    <3>1. IsFiniteSet(T \cup {spot[2]}) /\ Cardinality(T \cup {spot[2]}) =
             IF spot[2] \in T THEN Cardinality(T) ELSE Cardinality(T) + 1
      BY <2>2, FS_AddElement
    <3> QED BY <2>3, <3>1
  <2>6. Cardinality(U) \in Nat /\ Cardinality(U) <= Cardinality(T \cup {spot[2]})
    BY <2>2, <2>5, Fewer
  <2>7. Cardinality(V) = Cardinality(R) - 1
    BY <1>12, <2>2, <2>4, FS_RemoveElement
  <2>8. Cardinality(U) + Cardinality(V) < NReg
    BY <2>3, <2>5, <2>6, <2>7
  <2> QED BY <2>8 DEF U, V
<1>13. CASE Top \notin R
  <2>1. Rivals(removed[k], Beyond(k))' = R
    BY <1>9, <1>13
  <2>2. merged[Top] \cap Conflicts(x) = {}
    BY <1>8, <1>13 DEF Rivals
  <2>3. \A m \in Conflicts(x) : spotmap'[m] = spotmap[m]
    BY <1>1, <1>5, <2>2
  <2>4. Taken(removed[k])' = Taken(x)
    BY <1>11, <2>3 DEF Taken
  <2> QED BY <1>10, <2>1, <2>4
<1> QED BY <1>12, <1>13

LEMMA StepRoom ==
  TypeOK /\ AllocInv /\ ShelterInv /\ [Next]_vars => RoomInv'
<1> SUFFICES ASSUME TypeOK, AllocInv, ShelterInv, [Next]_vars PROVE RoomInv'
  OBVIOUS
<1>1. CASE Idle
  <2>1. UNCHANGED <<present, gbak, nodes, removed, merged, spotmap>>
    BY <1>1 DEF Idle, placing
  <2> SUFFICES ASSUME NEW k \in 1..Len(removed), Sheltered(removed[k])'
               PROVE  Cardinality(Taken(removed[k])') + Cardinality(Rivals(removed[k], Beyond(k))')
                        < NReg
    BY <2>1 DEF RoomInv
  <2>2. Sheltered(removed[k])
    BY <2>1 DEF Sheltered, GreedyColourable
  <2>3. /\ Taken(removed[k])' = Taken(removed[k])
        /\ Rivals(removed[k], Beyond(k))' = Rivals(removed[k], Beyond(k))
    BY <2>1 DEF Taken, Conflicts, Rivals, Beyond
  <2> QED BY <2>2, <2>3 DEF ShelterInv, RoomInv
<1> QED
  BY <1>1, RoomPush, RoomMerge, RoomPlace, TestedSteps DEF AllocInv, Placing

LEMMA Shelter == Spec => []ShelterInv
<1>1. TypeOK /\ AllocInv /\ ShelterInv /\ [Next]_vars => ShelterInv'
  BY StepRoom, StepConf, StepDegree, StepGreedy, StepRound DEF ShelterInv, AllocInv
<1> QED BY <1>1, ShelterInit, Invariance, PTL DEF Spec

\* A value that must not spill finds a register: those in conflict with its
\* group hold fewer than there are, and a register in conflict with it holds
\* its own node.
LEMMA ShelteredPlaced ==
  ASSUME TypeOK, AllocInv, ShelterInv, NEW spot \in Spot, PlaceStep(spot), Sheltered(Top)
  PROVE  Free(Top) # {}
<1> USE NodesType
<1>1. nodes = {} /\ Top \in Temps /\ Top \in Nodes /\ removed # <<>> /\ present \subseteq Nodes
  BY PopFacts DEF PlaceStep, Popping, graph, AllocInv, Sheltered, TypeOK
<1>2. Len(removed) \in 1..Len(removed) /\ removed[Len(removed)] = Top
  BY <1>1, EmptySeq DEF Top, TypeOK
<1>3. Cardinality(Taken(Top)) < NReg
  <2>1. Beyond(Len(removed)) = {}
    <3>1. (Len(removed) + 1)..Len(removed) = {}
      BY <1>2
    <3> QED BY <1>1, <3>1 DEF Beyond
  <2>2. Rivals(Top, Beyond(Len(removed))) = {}
    BY <2>1 DEF Rivals
  <2>3. Cardinality(Rivals(Top, Beyond(Len(removed)))) = 0
    BY <2>2, FS_EmptySet
  <2>4. Cardinality(Taken(Top)) + Cardinality(Rivals(Top, Beyond(Len(removed)))) < NReg
    BY <1>2 DEF ShelterInv, RoomInv
  <2>5. Cardinality(Taken(Top)) \in Nat
    BY <1>2, RoomSets DEF ShelterInv
  <2> QED BY <2>3, <2>4, <2>5
<1>4. Conflicts(Top) \cap Pool \subseteq Taken(Top)
  <2> SUFFICES ASSUME NEW r \in Conflicts(Top), r \in Pool PROVE spotmap[r] = Reg(r)
    BY DEF Taken
  <2>1. r \in present
    <3>1. merged[Top] \subseteq Nodes
      BY <1>1 DEF TypeOK
    <3> QED BY <3>1 DEF Conflicts, AllocInv, GraphInv
  <2>2. r \in Spots \cap present
    BY <1>1, <2>1 DEF Nodes
  <2>3. spotmap[r] # NoSpot
    BY <1>1, <2>2, DummiesFirst DEF AllocInv
  <2> QED BY <2>2, <2>3 DEF AllocInv, SpotInv
<1> SUFFICES ASSUME Free(Top) = {} PROVE FALSE
  OBVIOUS
<1>5. Taken(Top) = Pool
  BY <1>4 DEF Free, Taken
<1> QED BY <1>3, <1>5, PoolSize

\* What a spill does: one value, unmoved by any merge, gets bytes above all others.
LEMMA SpillFacts ==
  ASSUME TypeOK, AllocInv, ShelterInv, Spill
  PROVE  /\ Top \in Temps /\ ~GreedyColourable
         /\ size[Top] \in Nat \ {0} /\ offset \in Nat /\ offset' = offset + size[Top]
         /\ spotmap'[Top] = Mem(offset')
         /\ \A n \in Nodes \ {Top} : spotmap'[n] = spotmap[n]
         /\ size' = size /\ gbak' = gbak
<1> USE NodesType
<1>1. Top \in Temps /\ offset' = offset + size[Top] /\ offset \in Nat /\ Free(Top) = {}
      /\ size' = size /\ gbak' = gbak
  BY DEF Spill, TypeOK
<1>2. size[Top] \in Nat \ {0}
  BY <1>1, AllocAssumption DEF TypeOK
<1>3. Mem(offset') \in Spot /\ PlaceStep(Mem(offset'))
  BY <1>1, <1>2 DEF Spill, PlaceStep, Spot
<1>4. ~Sheltered(Top)
  BY <1>1, <1>3, ShelteredPlaced
<1>5. merged[Top] = {Top} /\ ~GreedyColourable
  BY <1>1, <1>4 DEF Sheltered
<1>6. /\ \A n \in merged[Top] : spotmap'[n] = Mem(offset')
      /\ \A n \in Nodes \ merged[Top] : spotmap'[n] = spotmap[n]
  BY <1>3, PlaceFacts DEF AllocInv
<1> QED BY <1>1, <1>2, <1>5, <1>6

LEMMA NoSpillStep ==
  TypeOK /\ AllocInv /\ ShelterInv /\ NoNeedlessSpill /\ [Next]_vars => NoNeedlessSpill'
<1> SUFFICES ASSUME TypeOK, AllocInv, ShelterInv, NoNeedlessSpill, [Next]_vars,
                    GreedyColourable'
             PROVE  spilled' = {}
  BY DEF NoNeedlessSpill
<1>1. UNCHANGED <<gbak, present>>
  BY StepCases DEF AllocInv, QuietStep, PushStep, MergeStep, FreezeStep, PlaceStep
<1>2. GreedyColourable
  BY <1>1 DEF GreedyColourable
<1>3. spilled = {}
  BY <1>2 DEF NoNeedlessSpill
<1>4. CASE Spill
  BY <1>2, <1>4, SpillFacts
<1>5. CASE ~Spill
  <2>1. spilled' = spilled
    BY <1>5, TestedSteps
       DEF AllocInv, Idle, Removal, PushStep, Folding, MergeStep, Placing, placing
  <2> QED BY <1>3, <2>1
<1> QED BY <1>4, <1>5

\* _generate_spotmap: the slots of different values are different bytes.
Slots ==
  \A t \in Temps :
    /\ Bytes(t) \subseteq 1..offset
    /\ \A u \in Temps \ {t} : Bytes(t) \cap Bytes(u) = {}

LEMMA SlotsStep ==
  TypeOK /\ AllocInv /\ ShelterInv /\ Slots /\ [Next]_vars => Slots'
<1> SUFFICES ASSUME TypeOK, AllocInv, ShelterInv, Slots, [Next]_vars PROVE Slots'
  OBVIOUS
<1> USE NodesType
<1>1. CASE Spill
  <2>0. PICK p \in Temps : p = Top
    BY <1>1, SpillFacts
  <2> DEFINE top == offset + size[p]
             new == (top - size[p] + 1)..top
  <2>1. /\ size[p] \in Nat \ {0} /\ offset \in Nat /\ offset' = top
        /\ spotmap'[p] = Mem(top) /\ size' = size
        /\ \A t \in Temps \ {p} : spotmap'[t] = spotmap[t]
    BY <1>1, <2>0, SpillFacts
  <2>2. /\ Bytes(p)' = new
        /\ \A t \in Temps \ {p} : Bytes(t)' = Bytes(t)
    BY <2>1 DEF Bytes
  <2>3. 1..offset \subseteq 1..top /\ new \subseteq 1..top /\ new \cap (1..offset) = {}
    BY <2>1
  <2> HIDE DEF new
  <2>4. ASSUME NEW t \in Temps
        PROVE  /\ Bytes(t)' \subseteq 1..top
               /\ \A u \in Temps \ {t} : Bytes(t)' \cap Bytes(u)' = {}
    <3>1. \A u \in Temps : Bytes(u) \subseteq 1..offset
      BY DEF Slots
    <3>2. CASE t = p
      BY <2>2, <2>3, <3>1, <3>2
    <3>3. CASE t # p
      <4>1. Bytes(t)' = Bytes(t) /\ Bytes(t) \subseteq 1..offset
        BY <2>2, <3>1, <3>3
      <4>2. ASSUME NEW u \in Temps \ {t} PROVE Bytes(t)' \cap Bytes(u)' = {}
        <5>1. CASE u = p
          BY <2>2, <2>3, <4>1, <5>1
        <5>2. CASE u # p
          <6>1. Bytes(u)' = Bytes(u)
            BY <2>2, <5>2
          <6> QED BY <4>1, <6>1 DEF Slots
        <5> QED BY <5>1, <5>2
      <4> QED BY <2>3, <4>1, <4>2
    <3> QED BY <3>2, <3>3
  <2> QED BY <2>1, <2>4 DEF Slots
<1>2. CASE ~Spill
  <2>1. /\ offset' = offset /\ size' = size
        /\ \A t \in Temps : \/ spotmap'[t] = spotmap[t]
                            \/ spotmap[t][1] # "mem" /\ spotmap'[t][1] # "mem"
    <3>1. ASSUME NEW spot \in Spot, Placing(spot)
          PROVE  /\ offset' = offset /\ size' = size
                 /\ \A t \in Temps : \/ spotmap'[t] = spotmap[t]
                                     \/ spotmap[t][1] # "mem" /\ spotmap'[t][1] # "mem"
      <4>1. PlaceStep(spot) /\ offset' = offset /\ spot[1] = "reg" /\ size' = size
        BY <1>2, <3>1 DEF Placing, PlaceStep
      <4>2. /\ \A n \in merged[Top] : spotmap[n] = NoSpot /\ spotmap'[n] = spot
            /\ \A n \in Nodes \ merged[Top] : spotmap'[n] = spotmap[n]
        BY <4>1, PlaceFacts DEF AllocInv
      <4>3. NoSpot[1] # "mem"
        OBVIOUS
      <4> QED BY <4>1, <4>2, <4>3
    <3> QED BY <3>1, TestedSteps
            DEF AllocInv, Idle, Removal, PushStep, Folding, MergeStep, placing
  <2>2. \A t \in Temps : Bytes(t)' = Bytes(t)
    BY <2>1 DEF Bytes
  <2> QED BY <2>1, <2>2 DEF Slots
<1> QED BY <1>1, <1>2

\* Coalescing and the optimistic push are conservative: a graph that
\* simplification alone colours is coloured without a spill.
THEOREM ConservativeCoalescing == Spec => []NoNeedlessSpill
<1>1. Init => NoNeedlessSpill
  BY DEF Init, NoNeedlessSpill
<1> QED BY <1>1, NoSpillStep, Invariance, Shelter, PTL DEF Spec

\* The stack bytes of values live together are disjoint and inside the frame,
\* although a group that spills gets a slot of one size only.
THEOREM SlotsAreEnough == Spec => []SlotsFit
<1>1. Init => Slots
  BY NodesType DEF Init, Slots, Bytes
<1>2. AllocInv /\ Slots => SlotsFit
  BY NodesType DEF AllocInv, GraphInv, Slots, SlotsFit
<1> QED BY <1>1, <1>2, SlotsStep, Invariance, Shelter, PTL DEF Spec

=============================================================================
