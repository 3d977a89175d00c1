------------------------------ MODULE RegAlloc ------------------------------
(***************************************************************************)
(* The x86 register allocator of shivyc/asm_gen.py: an optimistic          *)
(* (Briggs) graph colouring with conservative coalescing.  One run of the  *)
(* specification is one call of ASMGen._make_asm on one function, from the *)
(* finished conflict/preference graph to the complete spot map.            *)
(*                                                                         *)
(* The graph is not fixed: Init picks up to MaxNodes nodes, any conflict   *)
(* edges, up to MaxPrefs preference edges and any value sizes, so a check  *)
(* covers every function whose graph fits.  The program walks lists; their order depends on the  *)
(* order of the IL commands, so where the code takes "the first" node of a *)
(* list the specification takes any.                                       *)
(***************************************************************************)
EXTENDS Naturals, Sequences, FiniteSets

CONSTANTS
  Temps,           \* the free IL values: nodes the allocator must place
  Spots,           \* physical registers that can be in a graph as dummy nodes
  AllocRegisters,  \* ASMGen.alloc_registers, preferred register first
  Sizes,           \* the sizes a free value can have
  MaxNodes,        \* bound on the number of nodes of the graph Init picks
  MaxPrefs         \* bound on the number of preference edges Init picks

Nodes == Temps \cup Spots
Pool  == { AllocRegisters[k] : k \in 1..Len(AllocRegisters) }
NReg  == Len(AllocRegisters)

(***************************************************************************)
(* A value is never a register, and a register is listed once.             *)
(***************************************************************************)
ASSUME AllocAssumption ==
  /\ Temps \cap (Spots \cup Pool) = {}
  /\ AllocRegisters \in Seq(Pool)
  /\ \A j, k \in 1..NReg : AllocRegisters[j] = AllocRegisters[k] => j = k
  /\ Sizes \subseteq Nat \ {0}
  /\ MaxNodes \in Nat
  /\ MaxPrefs \in Nat

VARIABLES
  present,  \* the nodes of the graph as generated; never changes
  gbak,     \* conflict neighbours in the graph as generated; never changes
  size,     \* ctype.size of every value; never changes
  pc,       \* the loop _make_asm is in
  changed,  \* did simplify or coalesce do something in this round?
  nodes,    \* nodes still in the working graph
  conf,     \* conflict neighbours in the working graph
  pref,     \* preference neighbours in the working graph
  removed,  \* the colouring stack removed_nodes, top last
  merged,   \* the nodes folded into each node, itself included
  spotmap,  \* where each node has been placed
  offset,   \* bytes of stack frame handed out so far
  spilled   \* spilled_nodes

graph == <<nodes, conf, pref>>
placing == <<spotmap, offset, spilled>>
vars == <<present, gbak, size, pc, changed, nodes, conf, pref, removed, merged,
          spotmap, offset, spilled>>

NoSpot  == <<"none", 0>>
Reg(r)  == <<"reg", r>>
Mem(o)  == <<"mem", o>>

(***************************************************************************)
(* The generated graph.                                                    *)
(***************************************************************************)
TempEdges(N) ==
  { {t, n} : t \in Temps \cap N, n \in N } \ { {t} : t \in Temps }

\* add_dummy_node makes the dummy nodes conflict with one another.
DummyEdges(N) == { {r, s} : r, s \in Spots \cap N }

Adjacent(E) == [n \in Nodes |-> { m \in Nodes \ {n} : {n, m} \in E }]

Init ==
  /\ present \in SUBSET Nodes
  /\ IsFiniteSet(present)
  /\ Cardinality(present) <= MaxNodes
  /\ \E E \in SUBSET TempEdges(present) : gbak = Adjacent(E \cup DummyEdges(present))
  /\ \E P \in SUBSET TempEdges(present) :
       /\ Cardinality(P) <= MaxPrefs
       /\ pref = Adjacent(P)
  /\ size \in [Temps -> Sizes]
  /\ conf = gbak
  /\ nodes = present
  /\ pc = "simplify"
  /\ changed = FALSE
  /\ removed = <<>>
  /\ merged = [n \in Nodes |-> {n}]
  /\ spotmap = [n \in Nodes |-> NoSpot]
  /\ offset = 0
  /\ spilled = {}

(***************************************************************************)
(* NodeGraph.                                                              *)
(***************************************************************************)
Real == nodes \cap Temps

Degree(n) == Cardinality(conf[n])

\* The edges of f once node n has left the graph.
Without(f, n) == [m \in Nodes |-> IF m = n THEN {} ELSE f[m] \ {n}]

\* NodeGraph.remove_node and the push of its result onto removed_nodes.
Push(n) ==
  /\ nodes' = nodes \ {n}
  /\ conf' = Without(conf, n)
  /\ pref' = Without(pref, n)
  /\ removed' = Append(removed, n)

\* Mutant of Folded: a's neighbours do not learn of a.
FoldedOneSided(f, a, b) ==
  LET joint == (f[a] \cup f[b]) \ {a, b}
  IN  [m \in Nodes |-> CASE m = a -> joint
                         [] m = b -> {}
                         [] m \in joint -> f[m] \ {b}
                         [] OTHER -> f[m]]

\* The edges of f once b is folded into a.
Folded(f, a, b) ==
  LET joint == (f[a] \cup f[b]) \ {a, b}
  IN  [m \in Nodes |-> CASE m = a -> joint
                         [] m = b -> {}
                         [] m \in joint -> (f[m] \ {b}) \cup {a}
                         [] OTHER -> f[m]]

\* NodeGraph.merge(a, b): b disappears into a.
Merge(a, b) ==
  /\ nodes' = nodes \ {b}
  /\ conf' = Folded(conf, a, b)
  /\ pref' = Folded(pref, a, b)
  /\ merged' = [merged EXCEPT ![a] = merged[a] \cup merged[b]]

(***************************************************************************)
(* Simplify: push value nodes that have no preference edge and fewer than  *)
(* NReg conflicts, until there is none.                                    *)
(***************************************************************************)
Simplifiable(n) == pref[n] = {} /\ Degree(n) < NReg

Simplify(n) ==
  /\ pc = "simplify"
  /\ n \in Real
  /\ Simplifiable(n)
  /\ Push(n)
  /\ changed' = TRUE
  /\ UNCHANGED <<present, gbak, size, pc, merged, placing>>

EndSimplify ==
  /\ pc = "simplify"
  /\ \A n \in Real : ~Simplifiable(n)
  /\ pc' = "coalesce"
  /\ UNCHANGED <<present, gbak, size, changed, graph, removed, merged, placing>>

(***************************************************************************)
(* Coalesce: merge the ends of a preference edge when the conservative     *)
(* test allows it (George's against a register, Briggs's between two       *)
(* values), until no edge passes.                                          *)
(***************************************************************************)
\* Mutant of George: any value may join a register it does not conflict with.
GeorgeAlways(a, s) == TRUE

\* Mutant of Briggs: one conflict too many.
BriggsOffByOne(a, b) == Cardinality(conf[a] \cup conf[b]) <= NReg

George(a, s) == \A t \in conf[a] : s \in conf[t] \/ Degree(t) < NReg

Briggs(a, b) == Cardinality(conf[a] \cup conf[b]) < NReg

Mergeable(a, b) ==
  /\ a \in Real
  /\ b \in pref[a]
  /\ b \notin conf[a]
  /\ IF b \in Spots THEN George(a, b) ELSE Briggs(a, b)

Coalesce(a, b) ==
  /\ pc = "coalesce"
  /\ Mergeable(a, b)
  /\ IF b \in Spots THEN Merge(b, a) ELSE Merge(a, b)
  /\ changed' = TRUE
  /\ UNCHANGED <<present, gbak, size, pc, removed, placing>>

\* Mutant of EndCoalesce: the round's flag is not reset.
EndCoalesceKeepingFlag ==
  /\ pc = "coalesce"
  /\ \A a, b \in nodes : ~Mergeable(a, b)
  /\ pc' = IF changed THEN "simplify" ELSE "freeze"
  /\ changed' = changed
  /\ UNCHANGED <<present, gbak, size, graph, removed, merged, placing>>

EndCoalesce ==
  /\ pc = "coalesce"
  /\ \A a, b \in nodes : ~Mergeable(a, b)
  /\ pc' = IF changed THEN "simplify" ELSE "freeze"
  /\ changed' = FALSE
  /\ UNCHANGED <<present, gbak, size, graph, removed, merged, placing>>

(***************************************************************************)
(* Freeze: drop the preference edge whose ends have the least conflicts.   *)
(***************************************************************************)
Least(x, y) == IF x <= y THEN x ELSE y

KeyAtMost(a, b, c, d) ==
  LET p == Degree(a) + Degree(b)
      q == Degree(c) + Degree(d)
  IN  \/ p < q
      \/ p = q /\ Least(Degree(a), Degree(b)) <= Least(Degree(c), Degree(d))

NoPrefs == \A n \in nodes : pref[n] = {}

Freeze(a, b) ==
  /\ pc = "freeze"
  /\ b \in pref[a]
  /\ \A c \in nodes : \A d \in pref[c] : KeyAtMost(a, b, c, d)
  /\ pref' = [pref EXCEPT ![a] = @ \ {b}, ![b] = @ \ {a}]
  /\ pc' = "simplify"
  /\ UNCHANGED <<present, gbak, size, changed, nodes, conf, removed, merged, placing>>

(***************************************************************************)
(* Nothing left to freeze: push the value with the most conflicts as a     *)
(* potential spill and go on; once no value is left, colour.               *)
(***************************************************************************)
PushPotentialSpill(n) ==
  /\ pc = "freeze"
  /\ NoPrefs
  /\ n \in Real
  /\ \A m \in Real : Degree(m) <= Degree(n)
  /\ Push(n)
  /\ pc' = "simplify"
  /\ UNCHANGED <<present, gbak, size, changed, merged, placing>>

EndReduce ==
  /\ pc = "freeze"
  /\ NoPrefs
  /\ Real = {}
  /\ pc' = "colour"
  /\ UNCHANGED <<present, gbak, size, changed, graph, removed, merged, placing>>

\* The dummy nodes are pushed last, so they are popped, and placed, first.
PushDummy(s) ==
  /\ pc = "colour"
  /\ s \in nodes
  /\ Push(s)
  /\ UNCHANGED <<present, gbak, size, pc, changed, merged, placing>>

(***************************************************************************)
(* _generate_spotmap.                                                      *)
(***************************************************************************)
Top == removed[Len(removed)]

PopTop == removed' = SubSeq(removed, 1, Len(removed) - 1)

Popping == pc = "colour" /\ nodes = {} /\ removed # <<>>

\* Mutant of Conflicts: what was merged into n is forgotten.
ConflictsOfNodeAlone(n) == gbak[n]

\* get_conflicts: against the graph as generated, not the working graph.
Conflicts(n) == UNION { gbak[m] : m \in merged[n] }

\* Mutant of Free: only the conflicting dummy nodes are excluded.
FreeIgnoringPlaced(n) == Pool \ Conflicts(n)

Free(n) == Pool \ ( Conflicts(n) \cup
                    { r \in Pool : \E m \in Conflicts(n) : spotmap[m] = Reg(r) } )

PlaceAll(S, spot) == spotmap' = [n \in Nodes |-> IF n \in S THEN spot ELSE spotmap[n]]

\* A dummy node of the pool is its own register.
PlaceDummy ==
  /\ Popping
  /\ Top \in Pool
  /\ PlaceAll(merged[Top], Reg(Top))
  /\ PopTop
  /\ UNCHANGED <<present, gbak, size, pc, changed, graph, merged, offset, spilled>>

\* Anything else takes the first register of the pool that is free.
PlaceInRegister(k) ==
  /\ Popping
  /\ Top \notin Pool
  /\ AllocRegisters[k] \in Free(Top)
  /\ \A j \in 1..(k - 1) : AllocRegisters[j] \notin Free(Top)
  /\ PlaceAll(merged[Top], Reg(AllocRegisters[k]))
  /\ PopTop
  /\ UNCHANGED <<present, gbak, size, pc, changed, graph, merged, offset, spilled>>

\* A value that finds no register gets a slot of its own size, and so does
\* everything merged into it.
Spill ==
  /\ Popping
  /\ Top \in Temps
  /\ Free(Top) = {}
  /\ offset' = offset + size[Top]
  /\ PlaceAll(merged[Top], Mem(offset'))
  /\ spilled' = spilled \cup {Top}
  /\ PopTop
  /\ UNCHANGED <<present, gbak, size, pc, changed, graph, merged>>

\* A dummy node outside the pool that finds no register: the program reads
\* the ctype of a Spot, which has none, and the compilation aborts.
Crash ==
  /\ Popping
  /\ Top \in Spots \ Pool
  /\ Free(Top) = {}
  /\ pc' = "crashed"
  /\ UNCHANGED <<present, gbak, size, changed, graph, removed, merged, placing>>

Finish ==
  /\ pc = "colour"
  /\ nodes = {}
  /\ removed = <<>>
  /\ pc' = "done"
  /\ UNCHANGED <<present, gbak, size, changed, graph, removed, merged, placing>>

Halted == pc \in {"done", "crashed"} /\ UNCHANGED vars

Reduce ==
  \/ \E n \in Nodes : Simplify(n)
  \/ EndSimplify
  \/ \E a, b \in Nodes : Coalesce(a, b)
  \/ EndCoalesce
  \/ \E a, b \in Nodes : Freeze(a, b)
  \/ \E n \in Nodes : PushPotentialSpill(n)
  \/ EndReduce

Colour ==
  \/ \E s \in Spots : PushDummy(s)
  \/ PlaceDummy
  \/ \E k \in 1..NReg : PlaceInRegister(k)
  \/ Spill
  \/ Crash
  \/ Finish

Next == Reduce \/ Colour \/ Halted

\* The allocator is one sequential loop: it always takes its next step.
Spec == Init /\ [][Next]_vars /\ WF_vars(Reduce \/ Colour)

-----------------------------------------------------------------------------
(***************************************************************************)
(* Properties                                                              *)
(***************************************************************************)
Spot == ({"reg"} \X Pool) \cup ({"mem"} \X Nat)

TypeOK ==
  /\ present \subseteq Nodes
  /\ gbak \in [Nodes -> SUBSET Nodes]
  /\ size \in [Temps -> Sizes]
  /\ pc \in {"simplify", "coalesce", "freeze", "colour", "done", "crashed"}
  /\ changed \in BOOLEAN
  /\ nodes \subseteq Nodes
  /\ conf \in [Nodes -> SUBSET Nodes]
  /\ pref \in [Nodes -> SUBSET Nodes]
  /\ removed \in Seq(Nodes)
  /\ merged \in [Nodes -> SUBSET Nodes]
  /\ spotmap \in [Nodes -> Spot \cup {NoSpot}]
  /\ offset \in Nat
  /\ spilled \subseteq Temps

Placed(n) == spotmap[n] # NoSpot

(***************************************************************************)
(* Two values that are live together never share a register or a slot, and *)
(* no value sits in a register it conflicts with (one clobbered while it   *)
(* is live).  The code colours each merged group from the original graph   *)
(* although it merged, removed and pushed nodes in the working graph.      *)
(***************************************************************************)
ProperColouring ==
  \A u \in Nodes : \A v \in gbak[u] :
    Placed(u) /\ Placed(v) => spotmap[u] # spotmap[v]

\* No value is placed in a precoloured register it conflicts with, even when
\* the node of that register was pushed outside the pool or placed elsewhere.
NeverInClobbered ==
  \A t \in Temps : \A s \in gbak[t] \cap Spots : spotmap[t] # Reg(s)

(***************************************************************************)
(* The working graph is the generated graph seen through the merges: two   *)
(* of its nodes are adjacent exactly when something folded into the one    *)
(* conflicts with something folded into the other.  merge() must repair    *)
(* the neighbours' sets for this to hold.                                  *)
(***************************************************************************)
WorkingGraphIsQuotient ==
  \A x, y \in nodes :
    (y \in conf[x]) <=> (\E u \in merged[x] : gbak[u] \cap merged[y] # {})

(***************************************************************************)
(* The stack bytes of values live together are disjoint, and lie inside    *)
(* the frame the allocator reserved.  A spilled group gets a slot with the *)
(* size of its own node alone, so this needs that no value of another size *)
(* was folded into a node that spills.                                     *)
(***************************************************************************)
Bytes(t) == IF spotmap[t][1] = "mem"
            THEN (spotmap[t][2] - size[t] + 1) .. spotmap[t][2]
            ELSE {}

SlotsFit ==
  \A t \in Temps :
    /\ Bytes(t) \subseteq 1..offset
    /\ \A u \in Temps \cap gbak[t] : Bytes(t) \cap Bytes(u) = {}

(***************************************************************************)
(* The generated graph can be coloured by simplification alone when every  *)
(* set of values has a member with fewer than NReg conflicts inside it and *)
(* among the registers.  Coalescing is meant to be conservative: on such a *)
(* graph neither it nor the optimistic push may cost a spill.              *)
(***************************************************************************)
GreedyColourable ==
  \A S \in (SUBSET (Temps \cap present)) \ {{}} :
    \E t \in S : Cardinality(gbak[t] \cap (S \cup Spots)) < NReg

NoNeedlessSpill == GreedyColourable => spilled = {}

(***************************************************************************)
(* Each round removes, merges or freezes something: the loop ends, with    *)
(* every value of the graph in a register or a slot.  Only a thread budget *)
(* with fewer registers than the function clobbers, which leaves a dummy   *)
(* node without a register, makes the compilation abort instead.           *)
(***************************************************************************)
Outnumbered == Cardinality(present \cap Spots) > NReg

EveryValuePlaced ==
  ~Outnumbered => <>(pc = "done" /\ \A t \in Temps \cap present : Placed(t))

(***************************************************************************)
(* The allocator implements the abstract assignment.                       *)
(***************************************************************************)
Assignment == INSTANCE SpotAssignment WITH conf <- gbak

\* Every step places one unplaced, conflict-free group in a place none of its
\* conflicts has, or places nothing; no value is ever moved.
ImplementsAssignment == Assignment!Spec

(***************************************************************************)
(* Why the colouring is proper: the inductive strengthening.               *)
(***************************************************************************)
OnStack == { removed[k] : k \in 1..Len(removed) }

\* The nodes that stand for a group not yet placed.
Reps == nodes \cup OnStack

\* The generated graph: symmetric, among its own nodes, and the dummy nodes
\* conflict pairwise.
GraphInv ==
  /\ \A n \in Nodes : gbak[n] \subseteq present
  /\ \A m, n \in Nodes : n \in gbak[m] => m \in gbak[n]
  /\ \A n \in Nodes : n \notin gbak[n]
  /\ \A r, s \in Spots \cap present : r # s => s \in gbak[r]

\* Preference edges join two nodes of the working graph.
PrefInv ==
  /\ \A n \in Nodes : pref[n] \subseteq nodes \ {n}
  /\ \A m, n \in Nodes : n \in pref[m] => m \in pref[n]

\* No node is on the stack twice, or both there and in the working graph, and
\* the dummy nodes sit above the values.
StackInv ==
  /\ Reps \subseteq present
  /\ \A j, k \in 1..Len(removed) : removed[j] = removed[k] => j = k
  /\ nodes \cap OnStack = {}
  /\ \A k \in 1..Len(removed) : removed[k] \in Temps =>
       \A j \in 1..k : removed[j] \in Temps
  /\ OnStack \cap Spots # {} => pc \in {"colour", "done", "crashed"}
  /\ pc \in {"colour", "done", "crashed"} => nodes \subseteq Spots

\* The groups are disjoint, free of conflicts, hold their own node, and a
\* register belongs to no group but its own.
GroupInv ==
  /\ \A x \in Reps : x \in merged[x] /\ merged[x] \cap Spots \subseteq {x}
  /\ \A x \in Reps : merged[x] \subseteq present
  /\ \A x \in Reps : \A u \in merged[x] : gbak[u] \cap merged[x] = {}
  /\ \A x, y \in Reps : x # y => merged[x] \cap merged[y] = {}

\* A group is placed when its node leaves the stack, and not before.
PlacementInv ==
  /\ \A n \in present : Placed(n) <=> \A x \in Reps : n \notin merged[x]
  /\ nodes # {} => \A n \in Nodes : ~Placed(n)

\* A register of the pool that is in the graph holds its own node first, so
\* nothing else takes it before; the slots handed out lie within the frame.
SpotInv ==
  /\ \A r \in Spots \cap Pool \cap present : \A n \in Nodes :
       spotmap[n] = Reg(r) => spotmap[r] = Reg(r)
  /\ \A r \in Spots \cap Pool : spotmap[r] \in {NoSpot, Reg(r)}
  /\ \A n \in Nodes : spotmap[n][1] = "mem" => spotmap[n][2] <= offset

AllocInv ==
  /\ GraphInv
  /\ PrefInv
  /\ StackInv
  /\ GroupInv
  /\ PlacementInv
  /\ SpotInv
  /\ WorkingGraphIsQuotient
  /\ ProperColouring

=============================================================================
