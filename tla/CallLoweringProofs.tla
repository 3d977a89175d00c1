------------------------- MODULE CallLoweringProofs -------------------------
(***************************************************************************)
(* Proofs about CallLowering, for every program over every set of files.   *)
(***************************************************************************)
EXTENDS CallLowering, TLAPS, WellFoundedInduction

Form == {"direct", "tail", "pointer", "spliced"}
LoweredSite == [to : Names, last : BOOLEAN, form : Form, kept : BOOLEAN]

LEMMA Smallest ==
  ASSUME NEW S \in SUBSET Nat, S # {}
  PROVE  \E m \in S : \A x \in S : m <= x
<1> DEFINE R == {ss \in Nat \X Nat : ss[1] < ss[2]}
<1>1. IsWellFoundedOn(R, Nat)
  BY NatLessThanWellFounded DEF OpToRel
<1>2. PICK m \in S : \A x \in S : <<x, m>> \notin R
  <2> HIDE DEF R
  <2> QED BY <1>1, WFMin
<1>3. ASSUME NEW x \in S, NEW y \in S, <<x, y>> \notin R PROVE ~(x < y)
  <2>1. <<x, y>> \in Nat \X Nat /\ <<x, y>>[1] = x /\ <<x, y>>[2] = y
    OBVIOUS
  <2> QED BY <1>3, <2>1
<1>4. \A x \in S : ~(x < m)
  BY <1>2, <1>3
<1>5. \A x, y \in Nat : ~(x < y) => y <= x
  OBVIOUS
<1> QED BY <1>4, <1>5

LEMMA Greatest ==
  ASSUME NEW n \in Nat, NEW S \in SUBSET (0..n), S # {}
  PROVE  \E m \in S : \A x \in S : x <= m
<1> DEFINE T == { k \in Nat : n - k \in S }
<1>1. PICK s \in S : s \in 0..n
  OBVIOUS
<1>2. n - s \in T
  BY <1>1
<1>3. PICK k \in T : \A x \in T : k <= x
  <2>1. T \in SUBSET Nat /\ T # {}
    BY <1>2
  <2> HIDE DEF T
  <2> QED BY <2>1, Smallest
<1>4. ASSUME NEW x \in S PROVE x <= n - k
  <2>1. x \in 0..n /\ n - x \in Nat /\ n - (n - x) = x
    OBVIOUS
  <2>2. n - x \in T
    BY <2>1
  <2> QED BY <1>3, <2>1, <2>2
<1> QED BY <1>3, <1>4

-----------------------------------------------------------------------------
(***************************************************************************)
(* The passes add no callee.                                               *)
(***************************************************************************)
LEMMA SourceSites ==
  ASSUME NEW p \in Programs, NEW u \in Files
  PROVE  /\ DOMAIN p.code[u] \subseteq Names
         /\ \A n \in DOMAIN p.code[u] : p.code[u][n] \in Seq(Site)
<1>1. p.code[u] \in [DOMAIN p.code[u] -> Seq(Site)] /\ DOMAIN p.code[u] \subseteq Names
  BY ProgramsAssumption DEF IsProgram
<1> QED BY <1>1

\* What the passes make of the calls t of a function: the same calls, in the
\* same order, made in another way.
From(s, t, noTail) ==
  /\ DOMAIN s = DOMAIN t
  /\ \A i \in DOMAIN s :
       /\ s[i].to = t[i].to /\ s[i].last = t[i].last
       /\ s[i].kept <=> t[i].how = "variable"
       /\ s[i].form = "pointer" <=> t[i].how # "name"
       /\ s[i].form = "tail" => t[i].last /\ t[i].to \notin noTail

LEMMA FoldedSites ==
  ASSUME NEW sites \in Seq(Site), NEW noTail
  PROVE  Folded(sites) \in Seq(LoweredSite) /\ From(Folded(sites), sites, noTail)
<1>1. DOMAIN sites = 1..Len(sites) /\ Len(sites) \in Nat
  OBVIOUS
<1>2. \A i \in DOMAIN sites : sites[i] \in Site
  OBVIOUS
<1>3. \A i \in 1..Len(sites) : Folded(sites)[i] \in LoweredSite
  BY <1>1, <1>2 DEF Folded, Site, LoweredSite, Form
<1>4. From(Folded(sites), sites, noTail)
  BY <1>1, <1>2 DEF Folded, From, Site
<1> QED BY <1>1, <1>3, <1>4 DEF Folded

LEMMA SplicedSites ==
  ASSUME NEW sites \in Seq(LoweredSite), NEW bodies, NEW t, NEW noTail, From(sites, t, noTail)
  PROVE  /\ Spliced(sites, bodies) \in Seq(LoweredSite)
         /\ From(Spliced(sites, bodies), t, noTail)
<1> DEFINE s == Spliced(sites, bodies)
<1>1. DOMAIN sites = 1..Len(sites) /\ Len(sites) \in Nat
  OBVIOUS
<1>2. \A i \in DOMAIN sites : sites[i] \in LoweredSite
  OBVIOUS
<1>3. DOMAIN s = DOMAIN sites
  BY DEF Spliced
<1>4. \A i \in DOMAIN sites :
         /\ s[i] \in LoweredSite /\ s[i].to = sites[i].to
         /\ s[i].last = sites[i].last /\ s[i].kept = sites[i].kept
         /\ s[i].form = sites[i].form \/ (s[i].form = "spliced" /\ sites[i].form = "direct")
  BY <1>2 DEF Spliced, LoweredSite, Form
<1>5. s \in Seq(LoweredSite)
  <2>1. s = [i \in 1..Len(sites) |-> s[i]]
    BY <1>1 DEF Spliced
  <2> HIDE DEF s
  <2> QED BY <1>1, <1>4, <2>1
<1> HIDE DEF s
<1>6. From(s, t, noTail)
  BY <1>3, <1>4 DEF From
<1> QED BY <1>5, <1>6 DEF s

LEMMA TailCallsSites ==
  ASSUME NEW sites \in Seq(LoweredSite), NEW t, NEW noTail, From(sites, t, noTail)
  PROVE  /\ TailCalls(sites, noTail) \in Seq(LoweredSite)
         /\ From(TailCalls(sites, noTail), t, noTail)
<1> DEFINE s == TailCalls(sites, noTail)
<1>1. DOMAIN sites = 1..Len(sites) /\ Len(sites) \in Nat
  OBVIOUS
<1>2. \A i \in DOMAIN sites : sites[i] \in LoweredSite
  OBVIOUS
<1>3. DOMAIN s = DOMAIN sites
  BY DEF TailCalls
<1>4. \A i \in DOMAIN sites :
         /\ s[i] \in LoweredSite /\ s[i].to = sites[i].to
         /\ s[i].last = sites[i].last /\ s[i].kept = sites[i].kept
         /\ \/ s[i].form = sites[i].form
            \/ /\ s[i].form = "tail" /\ sites[i].form = "direct"
               /\ sites[i].last /\ sites[i].to \notin noTail
  BY <1>2 DEF TailCalls, LoweredSite, Form
<1>5. s \in Seq(LoweredSite)
  <2>1. s = [i \in 1..Len(sites) |-> s[i]]
    BY <1>1 DEF TailCalls
  <2> HIDE DEF s
  <2> QED BY <1>1, <1>4, <2>1
<1> HIDE DEF s
<1>6. From(s, t, noTail)
  BY <1>3, <1>4 DEF From
<1> QED BY <1>5, <1>6 DEF s

\* The callees that are left are among those of the folded calls.
LEMMA FromCallees ==
  ASSUME NEW t \in Seq(Site), NEW noTail, NEW s \in Seq(LoweredSite), From(s, t, noTail)
  PROVE  Callees(s) \subseteq Callees(Folded(t))
BY DEF From, Callees, Folded

LEMMA AliveLocal ==
  ASSUME NEW u, NEW code PROVE Alive(u, code) \subseteq Local(u)
<1> DEFINE roots == (Local(u) \ Statics(u)) \cup ((TakenIn(code) \cup Tables(u)) \cap Local(u))
           reached == UNION { Reach(EdgesOf(code), r) : r \in roots }
<1>1. roots \subseteq Local(u)
  OBVIOUS
<1>2. Alive(u, code) = roots \cup (reached \cap Local(u))
  BY DEF Alive
<1> HIDE DEF roots, reached
<1> QED BY <1>1, <1>2

\* The code of file u after its passes.
Sound(u, code) ==
  /\ DOMAIN code \subseteq Local(u)
  /\ \A n \in DOMAIN code : /\ code[n] \in Seq(LoweredSite)
                            /\ From(code[n], prog.code[u][n], Metamorphic(u))

\* What removing dead functions must not take away: what can be entered from
\* outside the file, and what the code that is left calls.
Closed(u, code) ==
  /\ Local(u) \ Statics(u) \subseteq DOMAIN code
  /\ (TakenIn(code) \cup Tables(u)) \cap Local(u) \subseteq DOMAIN code
  /\ \A n \in DOMAIN code :
       { code[n][i].to : i \in { j \in DOMAIN code[n] : code[n][j].form # "spliced" } }
         \cap Local(u) \subseteq DOMAIN code

LEMMA TakenFrom ==
  ASSUME prog \in Programs, NEW u \in Files, NEW code, Sound(u, code),
         NEW n \in DOMAIN code, NEW i \in DOMAIN code[n]
  PROVE  /\ code[n][i] \in LoweredSite /\ code[n][i].to \in Names
         /\ code[n][i].form = "pointer" => code[n][i].to \in TakenIn(code) \cup Tables(u)
<1>1. code[n] \in Seq(LoweredSite) /\ From(code[n], prog.code[u][n], Metamorphic(u))
      /\ n \in Local(u)
  BY DEF Sound
<1>2. code[n][i] \in LoweredSite
  BY <1>1
<1>3. prog.code[u][n][i] \in Site
  <2>1. prog.code[u][n] \in Seq(Site)
    BY <1>1, SourceSites DEF Local
  <2> QED BY <1>1, <2>1 DEF From
<1>4. CASE prog.code[u][n][i].how = "variable"
  <2>1. code[n][i].to \in Taken(code[n])
    BY <1>1, <1>4 DEF From, Taken
  <2> QED BY <1>2, <2>1 DEF TakenIn, LoweredSite
<1>5. CASE prog.code[u][n][i].how = "table"
  <2>1. code[n][i].to \in Names /\ prog.code[u][n][i].to = code[n][i].to
        /\ i \in DOMAIN prog.code[u][n]
    BY <1>1, <1>2 DEF From, LoweredSite
  <2>2. code[n][i].to \in Tables(u)
    BY <1>1, <1>5, <2>1 DEF Tables
  <2> QED BY <1>2, <2>1, <2>2
<1>6. CASE prog.code[u][n][i].how = "name"
  BY <1>1, <1>2, <1>6 DEF From, LoweredSite
<1> QED BY <1>3, <1>4, <1>5, <1>6 DEF Site

-----------------------------------------------------------------------------
(***************************************************************************)
(* Reachability.                                                           *)
(***************************************************************************)
LEMMA ReachFirst ==
  ASSUME NEW edges, NEW n, NEW m \in Names, m \in edges[n] PROVE m \in Reach(edges, n)
BY DEF Reach

LEMMA ReachNext ==
  ASSUME NEW edges, NEW n, NEW m \in Reach(edges, n), NEW k \in Names, k \in edges[m]
  PROVE  k \in Reach(edges, n)
BY DEF Reach

\* What a function that is alive calls is alive.
LEMMA AliveOnward ==
  ASSUME NEW u, NEW code, NEW n \in Alive(u, code), n \in DOMAIN code, n \in Names,
         NEW k \in Callees(code[n]), k \in Names, k \in Local(u)
  PROVE  k \in Alive(u, code)
<1> DEFINE roots == (Local(u) \ Statics(u)) \cup ((TakenIn(code) \cup Tables(u)) \cap Local(u))
           edges == EdgesOf(code)
<1>1. Alive(u, code) = roots \cup ((UNION { Reach(edges, r) : r \in roots }) \cap Local(u))
  BY DEF Alive
<1>2. k \in edges[n]
  BY DEF EdgesOf
<1> HIDE DEF roots, edges
<1>3. PICK r \in roots : n = r \/ n \in Reach(edges, r)
  BY <1>1
<1>4. k \in Reach(edges, r)
  BY <1>2, <1>3, ReachFirst, ReachNext
<1> QED BY <1>1, <1>3, <1>4

LEMMA AliveRoots ==
  ASSUME NEW u, NEW code
  PROVE  /\ Local(u) \ Statics(u) \subseteq Alive(u, code)
         /\ (TakenIn(code) \cup Tables(u)) \cap Local(u) \subseteq Alive(u, code)
BY DEF Alive

\* Tail calls take no address and call nothing new.
LEMMA SameCallees ==
  ASSUME NEW sites \in Seq(LoweredSite), NEW noTail
  PROVE  /\ DOMAIN TailCalls(sites, noTail) = DOMAIN sites
         /\ Taken(TailCalls(sites, noTail)) \subseteq Taken(sites)
         /\ \A i \in DOMAIN sites :
              /\ TailCalls(sites, noTail)[i].to = sites[i].to
              /\ sites[i].form = "spliced" => TailCalls(sites, noTail)[i].form = "spliced"
<1> DEFINE s == TailCalls(sites, noTail)
<1>1. DOMAIN s = DOMAIN sites
  BY DEF TailCalls
<1>2. \A i \in DOMAIN sites : sites[i] \in LoweredSite
  OBVIOUS
<1>3. \A i \in DOMAIN sites : /\ s[i].to = sites[i].to /\ s[i].kept = sites[i].kept
                              /\ sites[i].form = "spliced" => s[i].form = "spliced"
  BY <1>2 DEF TailCalls, LoweredSite
<1> HIDE DEF s
<1>4. Taken(s) \subseteq Taken(sites)
  BY <1>1, <1>3 DEF Taken
<1> QED BY <1>1, <1>3, <1>4 DEF s

LEMMA LoweredSound ==
  ASSUME prog \in Programs, NEW u \in Files
  PROVE  Sound(u, Lowered(u)) /\ Closed(u, Lowered(u))
<1> DEFINE folded == [n \in Local(u) |-> Folded(prog.code[u][n])]
           spliced == [n \in Local(u) |-> Spliced(folded[n], Bodies)]
           alive == Alive(u, spliced)
           noTail == Metamorphic(u)
<1>0. Local(u) \subseteq Names /\ \A n \in Local(u) : prog.code[u][n] \in Seq(Site)
  BY SourceSites DEF Local
<1>1. \A n \in Local(u) : /\ folded[n] \in Seq(LoweredSite)
                          /\ From(folded[n], prog.code[u][n], noTail)
  BY <1>0, FoldedSites
<1>2. Sound(u, folded) /\ Closed(u, folded)
  BY <1>1 DEF Sound, Closed
<1>3. Sound(u, spliced) /\ DOMAIN spliced = Local(u)
  <2>1. \A n \in Local(u) : /\ spliced[n] \in Seq(LoweredSite)
                            /\ From(spliced[n], prog.code[u][n], noTail)
    BY <1>1, SplicedSites
  <2> QED BY <2>1 DEF Sound
<1>4. Inlined(u) = IF DOMAIN Bodies = {} THEN folded ELSE Restricted(spliced, alive)
  BY DEF Inlined
<1> HIDE DEF folded, spliced
<1>5. alive \subseteq Local(u)
  BY AliveLocal
<1> HIDE DEF alive
<1>6. Sound(u, Restricted(spliced, alive))
  BY <1>3, <1>5 DEF Sound, Restricted
<1>7. Closed(u, Restricted(spliced, alive))
  <2> DEFINE r == Restricted(spliced, alive)
  <2>1. DOMAIN r = alive /\ \A n \in alive : r[n] = spliced[n]
    BY DEF Restricted
  <2>2. TakenIn(r) \subseteq TakenIn(spliced)
    BY <1>3, <1>5, <2>1 DEF TakenIn
  <2>3. /\ Local(u) \ Statics(u) \subseteq alive
        /\ (TakenIn(spliced) \cup Tables(u)) \cap Local(u) \subseteq alive
    BY AliveRoots DEF alive
  <2>4. ASSUME NEW n \in alive, NEW i \in DOMAIN spliced[n], spliced[n][i].form # "spliced",
               spliced[n][i].to \in Local(u)
        PROVE  spliced[n][i].to \in alive
    <3>1. /\ spliced[n][i] \in LoweredSite /\ spliced[n][i].to \in Names
          /\ spliced[n][i].form = "pointer" => spliced[n][i].to \in TakenIn(spliced) \cup Tables(u)
      BY <1>3, <1>5, TakenFrom
    <3>2. CASE spliced[n][i].form = "pointer"
      BY <2>3, <2>4, <3>1, <3>2
    <3>3. CASE spliced[n][i].form # "pointer"
      <4>1. spliced[n][i].to \in Callees(spliced[n])
        BY <2>4, <3>1, <3>3 DEF LoweredSite, Form, Callees
      <4> QED BY <1>0, <1>3, <1>5, <2>4, <3>1, <4>1, AliveOnward DEF alive
    <3> QED BY <3>2, <3>3
  <2> HIDE DEF r
  <2> QED BY <2>1, <2>2, <2>3, <2>4 DEF Closed, r
<1>8. Sound(u, Inlined(u)) /\ Closed(u, Inlined(u))
  BY <1>2, <1>4, <1>6, <1>7
<1>9. DOMAIN Lowered(u) = DOMAIN Inlined(u)
      /\ \A n \in DOMAIN Inlined(u) : \/ Lowered(u)[n] = TailCalls(Inlined(u)[n], noTail)
                                      \/ Lowered(u)[n] = Inlined(u)[n]
  BY DEF Lowered
<1>10. Sound(u, Lowered(u))
  <2>1. ASSUME NEW n \in DOMAIN Inlined(u)
        PROVE  /\ Lowered(u)[n] \in Seq(LoweredSite)
               /\ From(Lowered(u)[n], prog.code[u][n], noTail)
    <3>1. Inlined(u)[n] \in Seq(LoweredSite) /\ From(Inlined(u)[n], prog.code[u][n], noTail)
      BY <1>8 DEF Sound
    <3> HIDE DEF noTail
    <3> QED BY <1>9, <3>1, TailCallsSites
  <2> QED BY <1>8, <1>9, <2>1 DEF Sound
<1>11. Closed(u, Lowered(u))
  <2>1. \A n \in DOMAIN Inlined(u) :
          /\ DOMAIN Lowered(u)[n] = DOMAIN Inlined(u)[n]
          /\ Taken(Lowered(u)[n]) \subseteq Taken(Inlined(u)[n])
          /\ \A i \in DOMAIN Inlined(u)[n] :
               /\ Lowered(u)[n][i].to = Inlined(u)[n][i].to
               /\ Inlined(u)[n][i].form = "spliced" => Lowered(u)[n][i].form = "spliced"
    <3>1. \A n \in DOMAIN Inlined(u) : Inlined(u)[n] \in Seq(LoweredSite)
      BY <1>8 DEF Sound
    <3> HIDE DEF noTail
    <3> QED BY <1>9, <3>1, SameCallees
  <2>2. TakenIn(Lowered(u)) \subseteq TakenIn(Inlined(u))
    BY <1>9, <2>1 DEF TakenIn
  <2> QED BY <1>8, <1>9, <2>1, <2>2 DEF Closed
<1> QED BY <1>10, <1>11

-----------------------------------------------------------------------------
(***************************************************************************)
(* What the compilation leaves behind.                                     *)
(***************************************************************************)
GraphHolds(u) ==
  \A n \in Local(u) : Callees(Folded(prog.code[u][n])) \subseteq graph.edges[n]

\* No metamorphic function may reach itself: there is one slot for it.
Fit(u, code) ==
  /\ Sound(u, code) /\ Closed(u, code)
  /\ \A m \in Metamorphic(u) : m \notin Reach(View(code), m)

Finished(u) ==
  /\ ToMerge = {} /\ Fit(u, unit[u].code)
  /\ \A n \in unit[u].near : n \in DOMAIN unit[u].code /\ Eligible(u, unit[u].code, n)

Compiled ==
  /\ prog \in Programs
  /\ merged \subseteq Files /\ (~WholeProgram => merged = {})
  /\ graph.defined = UNION { Local(u) : u \in merged }
  /\ \A u \in merged : GraphHolds(u)
  /\ unit = [u \in Files |-> unit[u]]
  /\ \A u \in Files : IF unit[u].done THEN Finished(u) ELSE unit[u] = NoCode

\* What a file's passes made of it depends on the program only.
LEMMA SameProgram ==
  ASSUME prog' = prog
  PROVE  \A u : /\ Local(u)' = Local(u) /\ Statics(u)' = Statics(u)
                /\ Tables(u)' = Tables(u) /\ Metamorphic(u)' = Metamorphic(u)
                /\ \A code : /\ Sound(u, code)' = Sound(u, code)
                             /\ Closed(u, code)' = Closed(u, code)
<1>1. \A u : Local(u)' = Local(u)
  BY DEF Local
<1>2. \A u : Statics(u)' = Statics(u) /\ Tables(u)' = Tables(u)
  BY <1>1 DEF Statics, Tables
<1>3. \A u : Metamorphic(u)' = Metamorphic(u)
  BY <1>1 DEF Metamorphic
<1>4. \A u, code : Sound(u, code)' = Sound(u, code)
  BY <1>1, <1>3 DEF Sound
<1>5. \A u, code : Closed(u, code)' = Closed(u, code)
  BY <1>1, <1>2 DEF Closed
<1> QED BY <1>1, <1>2, <1>3, <1>4, <1>5

LEMMA CompiledInit == Init => Compiled
<1> SUFFICES ASSUME Init PROVE Compiled
  OBVIOUS
<1>1. prog \in Programs /\ merged = {} /\ graph.defined = {} /\ unit = [u \in Files |-> NoCode]
  BY DEF Init
<1>2. ~NoCode.done
  BY DEF NoCode
<1> QED BY <1>1, <1>2 DEF Compiled

LEMMA CompiledAddUnit ==
  ASSUME Compiled, AddUnit PROVE Compiled'
<1> PICK u \in Least(ToMerge) :
      LET code == [n \in Local(u) |-> Folded(prog.code[u][n])]
      IN  /\ merged' = merged \cup {u}
          /\ graph'.defined = graph.defined \cup Local(u)
          /\ graph'.edges = [n \in Names |-> graph.edges[n] \cup EdgesOf(code)[n]]
  BY DEF AddUnit
<1> DEFINE code == [n \in Local(u) |-> Folded(prog.code[u][n])]
<1>0. UNCHANGED <<prog, unit>> /\ ToMerge # {}
  BY DEF AddUnit
<1>1. u \in ToMerge /\ u \in Files /\ u \notin merged /\ WholeProgram
  BY DEF Least, ToMerge
<1>2. \A v \in Files : Local(v)' = Local(v) /\ Local(v) \subseteq Names
  BY <1>0, SourceSites DEF Local, Compiled
<1>3. graph'.defined = UNION { Local(v) : v \in merged' }
  BY DEF Compiled
<1>4. \A n \in Local(u) : EdgesOf(code)[n] = Callees(Folded(prog.code[u][n]))
  BY <1>1, <1>2 DEF EdgesOf
<1>5. \A v \in merged \cup {u} : GraphHolds(v)'
  <2> HIDE DEF code
  <2>1. \A n \in Names : graph.edges[n] \subseteq graph'.edges[n]
                         /\ EdgesOf(code)[n] \subseteq graph'.edges[n]
    BY DEF code
  <2> QED BY <1>0, <1>1, <1>2, <1>4, <2>1 DEF Compiled, GraphHolds
<1>6. \A v \in Files : ~unit[v].done
  BY <1>0 DEF Compiled, Finished
<1>7. WholeProgram' /\ merged' \subseteq Files
  BY <1>0, <1>1 DEF WholeProgram, Compiled
<1>8. graph'.defined = UNION { Local(v)' : v \in merged' }
  BY <1>2, <1>3, <1>7
<1> QED BY <1>0, <1>5, <1>6, <1>7, <1>8 DEF Compiled

\* The parts of a file's result depend on nothing that its compilation changes.
LEMMA CompiledCompileFile ==
  ASSUME Compiled, CompileFile PROVE Compiled'
<1>0. UNCHANGED <<prog, graph, merged>> /\ ToMerge = {}
  BY DEF CompileFile
<1>1. \A v \in Files : Local(v)' = Local(v)
  BY <1>0 DEF Local
<1>2. WholeProgram' = WholeProgram /\ ToMerge' = ToMerge
  BY <1>0 DEF WholeProgram, ToMerge
<1>3. \A v : GraphHolds(v)' = GraphHolds(v)
  BY <1>0 DEF GraphHolds, Local
<1>4. \A v, code : Fit(v, code)' = Fit(v, code)
  <2>1. \A code : View(code)' = View(code)
    BY <1>0 DEF View
  <2> QED BY <1>0, <2>1, SameProgram DEF Fit
<1>5. \A v, code, n : Eligible(v, code, n)' = Eligible(v, code, n)
  BY <1>0 DEF Eligible, View, Statics, Local
<1>6. CASE unit' = unit
  <2>1. \A v : Finished(v)' = Finished(v)
    BY <1>2, <1>4, <1>5, <1>6 DEF Finished
  <2> QED BY <1>0, <1>1, <1>2, <1>3, <1>6, <2>1 DEF Compiled
<1>7. ASSUME NEW u \in Files, NEW near,
             near \subseteq { n \in DOMAIN Lowered(u) : Eligible(u, Lowered(u), n) },
             \A m \in Metamorphic(u) : m \notin Reach(View(Lowered(u)), m),
             unit' = [unit EXCEPT ![u] = [done |-> TRUE, code |-> Lowered(u), near |-> near]]
      PROVE  Compiled'
  <2>1. unit'[u] = [done |-> TRUE, code |-> Lowered(u), near |-> near]
        /\ \A v \in Files \ {u} : unit'[v] = unit[v]
    BY <1>7 DEF Compiled
  <2>2. Finished(u)'
    <3>1. Fit(u, Lowered(u))
      BY <1>7, LoweredSound DEF Compiled, Fit
    <3>2. unit'[u].code = Lowered(u) /\ unit'[u].near = near
      BY <2>1
    <3> QED BY <1>0, <1>2, <1>4, <1>5, <1>7, <3>1, <3>2 DEF Finished
  <2>3. \A v \in Files \ {u} : Finished(v)' = Finished(v)
    BY <1>2, <1>4, <1>5, <2>1 DEF Finished
  <2>4. \A v \in Files : IF unit'[v].done THEN Finished(v)' ELSE unit'[v] = NoCode
    BY <2>1, <2>2, <2>3 DEF Compiled
  <2>5. unit' = [v \in Files |-> unit'[v]]
    BY <1>7 DEF Compiled
  <2> QED BY <1>0, <1>1, <1>2, <1>3, <2>4, <2>5 DEF Compiled, NoCode
<1>8. QED
  <2>1. \/ unit' = unit
        \/ \E u \in Files :
             /\ \A m \in Metamorphic(u) : m \notin Reach(View(Lowered(u)), m)
             /\ unit' = [unit EXCEPT ![u] =
                  [done |-> TRUE, code |-> Lowered(u),
                   near |-> IF prog.o4 THEN { n \in DOMAIN Lowered(u) : Eligible(u, Lowered(u), n) }
                            ELSE {}]]
    BY DEF CompileFile, Least, ToCompile
  <2>2. ASSUME NEW u \in Files,
               \A m \in Metamorphic(u) : m \notin Reach(View(Lowered(u)), m),
               unit' = [unit EXCEPT ![u] =
                 [done |-> TRUE, code |-> Lowered(u),
                  near |-> IF prog.o4
                             THEN { n \in DOMAIN Lowered(u) : Eligible(u, Lowered(u), n) }
                             ELSE {}]]
        PROVE  Compiled'
    <3> DEFINE able == { n \in DOMAIN Lowered(u) : Eligible(u, Lowered(u), n) }
               near == IF prog.o4 THEN able ELSE {}
    <3>1. near \subseteq able
      OBVIOUS
    <3>2. unit' = [unit EXCEPT ![u] = [done |-> TRUE, code |-> Lowered(u), near |-> near]]
      BY <2>2
    <3> HIDE DEF near
    <3> QED BY <1>7, <2>2, <3>1, <3>2
  <2> QED BY <1>6, <2>1, <2>2

-----------------------------------------------------------------------------
(***************************************************************************)
(* The running program.                                                    *)
(***************************************************************************)
GoodPlace == { p \in Place : p.fn # Outside => p.pc > 0 }
Call == [at : GoodPlace, form : Form]

\* The k-th activation, from the first caller to what runs now.
Who(k) == IF k \in DOMAIN calls THEN calls[k].at.fn ELSE here.fn

\* A call that is not made through a pointer goes where its caller's code, or
\* the names that code outside knows, can lead.
Plain(k) ==
  IF Who(k) = Outside THEN Who(k + 1) \in Exported
  ELSE /\ Who(k) \in Functions /\ Emitted(Who(k))
       /\ \E m \in Callees(CodeOf(Who(k))) : Who(k + 1) = Meaning(Who(k)[1], m)

Threaded ==
  /\ calls # <<>> \/ here # Away => Linked
  /\ here \in GoodPlace /\ calls \in Seq(Call)
  /\ \A k \in DOMAIN calls : calls[k].form # "pointer" => Plain(k)

\* What the check of file u does not excuse.
Counts(u, n, k) == calls[k].form # "pointer" /\ ~(n \in Statics(u) /\ Unseen(u, k))

\* Where a function with a static buffer can lead.
Reached(u, n, f) ==
  \/ f = Outside /\ n \in Statics(u)
  \/ f \in Defined /\ f[2] \in Reach(View(unit[u].code), n)

Confined ==
  Distinct =>
    \A u \in Files : \A n \in unit[u].near : \A i, j \in 1..(Len(calls) + 1) :
      i < j /\ Who(i) = <<u, n>> /\ (\A k \in i..(j - 1) : Counts(u, n, k))
        => Reached(u, n, Who(j))

CallInv == Compiled /\ Threaded /\ Confined

\* A name means a function of its own file first.
LEMMA MeaningLocal ==
  ASSUME NEW v, NEW m \in Local(v) PROVE Meaning(v, m) = <<v, m>>
BY DEF Meaning

LEMMA MeaningExported ==
  ASSUME NEW v \in Files, NEW w \in Files, NEW m \in Names, m \in Local(w), <<w, m>> \in Exported
  PROVE  Meaning(v, m) \in Defined /\ Meaning(v, m)[2] = m
<1>1. CASE m \in Local(v)
  BY <1>1, MeaningLocal DEF Defined, Functions
<1>2. CASE m \notin Local(v)
  BY <1>2 DEF Meaning, Exported
<1> QED BY <1>1, <1>2

\* Whatever a name means, it is a function of that name, or it is outside.
LEMMA MeaningType ==
  ASSUME prog \in Programs, NEW v \in Files, NEW m \in Names
  PROVE  Meaning(v, m) = Outside \/ (Meaning(v, m) \in Defined /\ Meaning(v, m)[2] = m)
<1>1. CASE m \in Local(v)
  BY <1>1, MeaningLocal DEF Defined, Functions
<1>2. CASE m \notin Local(v) /\ \E w \in Files : <<w, m>> \in Exported
  BY <1>2 DEF Meaning, Exported
<1>3. CASE m \notin Local(v) /\ ~\E w \in Files : <<w, m>> \in Exported
  BY <1>3 DEF Meaning
<1> QED BY <1>1, <1>2, <1>3

LEMMA NoSharedName ==
  ASSUME prog \in Programs, Distinct, NEW u \in Files, NEW v \in Files, u # v
  PROVE  Local(u) \cap Local(v) = {}
<1> SUFFICES ASSUME NEW n \in Local(u), n \in Local(v) PROVE FALSE
  OBVIOUS
<1>1. <<u, n>> \in prog.static \/ <<v, n>> \in prog.static
  BY ProgramsAssumption DEF IsProgram, Local
<1>2. n \in Names
  BY SourceSites DEF Local
<1>3. n \in Uses(u) /\ n \in Uses(v)
  BY <1>2 DEF Uses
<1> QED BY <1>1, <1>3 DEF Distinct, Statics

\* One step from a function that may run under one with a static buffer.
LEMMA Onward ==
  ASSUME Compiled, Distinct, NEW u \in Files, NEW n \in unit[u].near,
         NEW v \in Files, NEW m, <<v, m>> \in Defined, Emitted(<<v, m>>),
         <<v, m>> = <<u, n>> \/ m \in Reach(View(unit[u].code), n),
         n \notin Statics(u) \/ WholeProgram \/ v = u,
         NEW k \in Callees(CodeOf(<<v, m>>))
  PROVE  Reached(u, n, Meaning(v, k))
<1> DEFINE view == View(unit[u].code)
<1>0. prog \in Programs
  BY DEF Compiled
<1>1. Finished(u)
  BY DEF Compiled, NoCode
<1>2. Finished(v) /\ m \in DOMAIN unit[v].code
  BY DEF Compiled, NoCode, Emitted
<1>3. m \in Local(v) /\ Local(v) \subseteq Names
  BY <1>0, <1>2, SourceSites DEF Finished, Fit, Sound, Local
<1>4. k \in Callees(unit[v].code[m]) /\ k \in Callees(Folded(prog.code[v][m]))
  <2>1. /\ unit[v].code[m] \in Seq(LoweredSite) /\ m \in Local(v)
        /\ From(unit[v].code[m], prog.code[v][m], Metamorphic(v))
    BY <1>2 DEF Finished, Fit, Sound
  <2>2. prog.code[v][m] \in Seq(Site)
    BY <1>0, <2>1, SourceSites DEF Local
  <2> QED BY <2>1, <2>2, FromCallees DEF CodeOf
<1>5. k \in Names /\ k \in Uses(v)
  <2>1. PICK i \in DOMAIN prog.code[v][m] : prog.code[v][m][i].to = k
    BY <1>4 DEF Callees, Folded
  <2>2. prog.code[v][m] \in Seq(Site)
    BY <1>0, <1>3, SourceSites DEF Local
  <2>3. prog.code[v][m][i] \in Site
    BY <2>1, <2>2
  <2>4. k \in Names
    BY <2>1, <2>3 DEF Site
  <2> QED BY <1>3, <2>1, <2>4 DEF Uses
<1>6. n \in DOMAIN unit[u].code /\ Eligible(u, unit[u].code, n)
  BY <1>1 DEF Finished
<1>7. v = u \/ WholeProgram
  <2> SUFFICES ASSUME v # u, ~WholeProgram PROVE FALSE
    OBVIOUS
  <2>1. n \notin Statics(u) /\ m \in Reach(view, n)
    OBVIOUS
  <2>2. graph.defined = {}
    BY DEF Compiled
  <2>3. m \in DOMAIN unit[u].code
    BY <1>6, <2>1, <2>2 DEF Eligible
  <2>4. m \in Local(u)
    BY <1>1, <2>3 DEF Finished, Fit, Sound
  <2> QED BY <1>0, <1>3, <2>4, NoSharedName
<1>8. WholeProgram => merged = Files
  BY <1>1 DEF Finished, ToMerge, Compiled
<1>9. k \in view[m]
  <2>1. CASE v = u
    BY <1>2, <1>3, <1>4, <2>1 DEF View
  <2>2. CASE v # u
    <3>1. m \notin DOMAIN unit[u].code
      BY <1>0, <1>1, <1>3, <2>2, NoSharedName DEF Finished, Fit, Sound
    <3>2. GraphHolds(v)
      BY <1>7, <1>8, <2>2 DEF Compiled
    <3> QED BY <1>3, <1>4, <3>1, <3>2 DEF View, GraphHolds
  <2> QED BY <2>1, <2>2
<1>10. k \in Reach(view, n)
  <2> HIDE DEF view
  <2>1. m = n \/ m \in Reach(view, n)
    BY DEF view
  <2> QED BY <1>5, <1>9, <2>1, ReachFirst, ReachNext
<1>11. CASE Meaning(v, k) # Outside
  BY <1>0, <1>5, <1>10, <1>11, MeaningType DEF Reached
<1>12. CASE Meaning(v, k) = Outside /\ n \notin Statics(u)
  <2>1. k \in DOMAIN unit[u].code \cup graph.defined
    BY <1>6, <1>10, <1>12 DEF Eligible
  <2>2. PICK w \in Files : k \in Local(w) /\ (w = v \/ WholeProgram)
    BY <1>1, <1>7, <2>1 DEF Compiled, Finished, Fit, Sound
  <2>3. <<w, k>> \in Defined /\ Outside \notin Functions
    BY <1>5, <2>2, NamesAssumption DEF Defined, Functions
  <2>4. CASE w = v
    BY <1>12, <2>2, <2>3, <2>4, MeaningLocal DEF Defined
  <2>5. CASE w # v
    <3>1. k \notin Statics(w)
      BY <1>5, <2>5 DEF Distinct
    <3>2. <<w, k>> \in Exported
      BY <2>2, <2>3, <3>1 DEF Exported, Statics
    <3>3. Meaning(v, k) \in Defined
      BY <1>5, <2>2, <3>2, MeaningExported
    <3> QED BY <1>12, <2>3, <3>3 DEF Defined
  <2> QED BY <2>4, <2>5
<1>13. CASE Meaning(v, k) = Outside /\ n \in Statics(u)
  BY <1>13 DEF Reached
<1> QED BY <1>11, <1>12, <1>13

-----------------------------------------------------------------------------
(***************************************************************************)
(* The steps.                                                              *)
(***************************************************************************)
Running == UNCHANGED <<prog, graph, merged, unit, refused>>

\* A running program changes nothing that the compilation left.
LEMMA Frozen ==
  ASSUME Running
  PROVE  /\ Compiled' = Compiled /\ Linked' = Linked /\ Distinct' = Distinct
         /\ WholeProgram' = WholeProgram /\ Exported' = Exported
         /\ \A u : Statics(u)' = Statics(u)
         /\ \A u, n : Meaning(u, n)' = Meaning(u, n)
         /\ \A u, n, f : Reached(u, n, f)' = Reached(u, n, f)
<1>0. UNCHANGED <<prog, graph, merged, unit, refused>>
  BY DEF Running
<1>1. WholeProgram' = WholeProgram /\ ToMerge' = ToMerge /\ Linked' = Linked
  BY <1>0 DEF WholeProgram, ToMerge, Linked, ToCompile
<1>2. \A u : Local(u)' = Local(u)
  BY <1>0 DEF Local
<1>3. \A u : Statics(u)' = Statics(u)
  BY <1>0, <1>2 DEF Statics
<1>4. Distinct' = Distinct
  BY <1>0 DEF Distinct, Uses, Statics, Local
<1>5. Defined' = Defined /\ Exported' = Exported
  BY <1>0, <1>2 DEF Defined, Exported
<1>6. \A u, n : Meaning(u, n)' = Meaning(u, n)
  BY <1>2, <1>5 DEF Meaning
<1>7. \A u, n, f : Reached(u, n, f)' = Reached(u, n, f)
  BY <1>0, <1>3, <1>5 DEF Reached, View
<1>8. \A u, code, n : Eligible(u, code, n)' = Eligible(u, code, n)
  BY <1>0, <1>3 DEF Eligible, View
<1>9. \A u : Finished(u)' = Finished(u)
  <2>1. \A u, code : Fit(u, code)' = Fit(u, code)
    <3>1. \A code : View(code)' = View(code)
      BY <1>0 DEF View
    <3> QED BY <1>0, <3>1, SameProgram DEF Fit
  <2> QED BY <1>0, <1>1, <1>8, <2>1 DEF Finished
<1>10. Compiled' = Compiled
  BY <1>0, <1>1, <1>2, <1>9 DEF Compiled, GraphHolds
<1> QED BY <1>1, <1>3, <1>4, <1>5, <1>6, <1>7, <1>10

\* The program runs only when every file has been compiled.
LEMMA NotYet ==
  ASSUME Compiled, Threaded, AddUnit \/ CompileFile
  PROVE  calls = <<>> /\ here = Away /\ ~Linked
<1>1. ToCompile # {}
  <2>1. CASE AddUnit
    <3>1. PICK u \in ToMerge : u \in Files
      BY <2>1 DEF AddUnit, ToMerge
    <3> QED BY <2>1, <3>1 DEF AddUnit, Compiled, Finished, ToCompile, NoCode
  <2>2. CASE CompileFile
    BY <2>2 DEF CompileFile
  <2> QED BY <2>1, <2>2
<1> QED BY <1>1 DEF Threaded, Linked

LEMMA CompiledCode ==
  ASSUME Compiled, Linked, NEW f \in Functions, Emitted(f)
  PROVE  CodeOf(f) \in Seq(LoweredSite)
<1>1. f[1] \in Files
  BY DEF Functions
<1>2. unit[f[1]].done
  BY <1>1 DEF Linked, ToCompile
<1>3. Finished(f[1])
  BY <1>1, <1>2 DEF Compiled
<1> QED BY <1>3 DEF Finished, Fit, Sound, Emitted, CodeOf

\* The calls below the last ones stay as they were.
LEMMA Prefix ==
  ASSUME CallInv, Running, Linked, here' \in GoodPlace, calls' \in Seq(Call),
         Len(calls') <= Len(calls),
         \A k \in 1..Len(calls') : calls'[k] = calls[k],
         \A k \in 1..(Len(calls') + 1) : Who(k)' = Who(k)
  PROVE  CallInv'
<1>0. Len(calls') \in Nat /\ Len(calls) \in Nat /\ DOMAIN calls' = 1..Len(calls')
      /\ DOMAIN calls = 1..Len(calls)
  BY DEF CallInv, Threaded
<1>1. Compiled'
  BY Frozen DEF CallInv
<1>2. ASSUME NEW k \in DOMAIN calls', calls'[k].form # "pointer" PROVE Plain(k)'
  <2>1. k \in DOMAIN calls /\ k \in 1..(Len(calls') + 1) /\ k + 1 \in 1..(Len(calls') + 1)
        /\ calls'[k] = calls[k]
    BY <1>0
  <2>2. Plain(k)
    BY <1>2, <2>1 DEF CallInv, Threaded
  <2>3. Who(k)' = Who(k) /\ Who(k + 1)' = Who(k + 1)
    BY <2>1
  <2> QED BY <2>2, <2>3, Frozen DEF Plain, Emitted, CodeOf, Running
<1>3. Threaded'
  BY <1>2, Frozen DEF Threaded
<1>4. \A u, n : \A k \in 1..Len(calls') : Counts(u, n, k)' = Counts(u, n, k)
  BY Frozen DEF Counts, Unseen
<1>5. ASSUME Distinct', NEW u \in Files, NEW n \in unit'[u].near,
             NEW i \in 1..(Len(calls') + 1), NEW j \in 1..(Len(calls') + 1),
             i < j, Who(i)' = <<u, n>>, \A k \in i..(j - 1) : Counts(u, n, k)'
      PROVE  Reached(u, n, Who(j))'
  <2>1. i \in 1..(Len(calls) + 1) /\ j \in 1..(Len(calls) + 1) /\ i..(j - 1) \subseteq 1..Len(calls')
    BY <1>0
  <2>2. \A k \in i..(j - 1) : Counts(u, n, k)
    BY <1>4, <1>5, <2>1
  <2>3. Who(i) = <<u, n>> /\ Who(j)' = Who(j) /\ Distinct /\ n \in unit[u].near
    BY <1>5, Frozen DEF Running
  <2>4. Reached(u, n, Who(j))
    BY <1>5, <2>1, <2>2, <2>3 DEF CallInv, Confined
  <2> QED BY <2>3, <2>4, Frozen
<1>6. Confined'
  BY <1>5 DEF Confined
<1> QED BY <1>1, <1>3, <1>6 DEF CallInv

\* One call more.
LEMMA Extended ==
  ASSUME CallInv, Running, Linked, here' \in GoodPlace, NEW c \in Call,
         calls' = Append(calls, c), c.at.fn = here.fn,
         NEW N \in Nat, N = Len(calls) + 1, c.form # "pointer" => Plain(N)'
  PROVE  CallInv'
<1>0. N \in Nat \ {0} /\ Len(calls') = N /\ DOMAIN calls' = 1..N /\ DOMAIN calls = 1..(N - 1)
      /\ calls' \in Seq(Call) /\ calls'[N] = c
      /\ \A k \in 1..(N - 1) : calls'[k] = calls[k]
  BY DEF CallInv, Threaded
<1>1. \A k \in 1..N : Who(k)' = Who(k)
  BY <1>0 DEF Who
<1>2. Compiled'
  BY Frozen DEF CallInv
<1>3. ASSUME NEW k \in 1..N, calls'[k].form # "pointer" PROVE Plain(k)'
  <2>1. CASE k = N
    BY <1>0, <1>3, <2>1
  <2>2. CASE k \in 1..(N - 1)
    <3>1. k \in 1..N /\ k + 1 \in 1..N
      BY <1>0, <2>2
    <3>2. Plain(k)
      BY <1>0, <1>3, <2>2 DEF CallInv, Threaded
    <3>3. Who(k)' = Who(k) /\ Who(k + 1)' = Who(k + 1)
      BY <1>1, <3>1
    <3> QED BY <3>2, <3>3, Frozen DEF Plain, Emitted, CodeOf, Running
  <2> QED BY <1>0, <2>1, <2>2
<1>4. Threaded'
  BY <1>0, <1>3, Frozen DEF Threaded
<1>5. \A u, n : \A k \in 1..(N - 1) : Counts(u, n, k)' = Counts(u, n, k)
  BY <1>0, Frozen DEF Counts, Unseen
<1>6. ASSUME Distinct', NEW u \in Files, NEW n \in unit'[u].near,
             NEW i \in 1..(N + 1), NEW j \in 1..(N + 1),
             i < j, Who(i)' = <<u, n>>, \A k \in i..(j - 1) : Counts(u, n, k)'
      PROVE  Reached(u, n, Who(j))'
  <2>0. Distinct /\ n \in unit[u].near /\ i \in 1..N /\ Who(i) = <<u, n>>
    <3>1. i \in 1..N
      BY <1>0, <1>6
    <3>2. Who(i)' = Who(i) /\ Distinct' = Distinct /\ unit' = unit
      BY <1>1, <3>1, Frozen DEF Running
    <3> QED BY <1>6, <3>1, <3>2
  <2>1. ASSUME NEW l \in 1..N, i < l, l <= j PROVE Reached(u, n, Who(l))
    <3>1. \A k \in i..(l - 1) : Counts(u, n, k)
      BY <1>0, <1>5, <1>6, <2>1
    <3> QED BY <1>0, <2>0, <2>1, <3>1 DEF CallInv, Confined
  <2>2. CASE j \in 1..N
    <3>1. Reached(u, n, Who(j)) /\ Who(j)' = Who(j)
      BY <1>1, <1>6, <2>1, <2>2
    <3> QED BY <3>1, Frozen
  <2>3. CASE j = N + 1
    <3>1. Counts(u, n, N)'
      BY <1>0, <1>6, <2>0, <2>3
    <3>2. c.form # "pointer" /\ (n \notin Statics(u) \/
             (here.fn # Outside /\ (WholeProgram \/ here.fn[1] = u)))
      BY <1>0, <3>1, Frozen DEF Counts, Unseen
    <3>3. Who(N)' = here.fn /\ Plain(N)'
      BY <1>0, <3>2 DEF Who
    <3>4. <<u, n>> \in Defined
      <4>1. Finished(u) /\ prog \in Programs
        BY <2>0 DEF CallInv, Compiled, NoCode
      <4>2. n \in Local(u) /\ n \in Names
        BY <2>0, <4>1, SourceSites DEF Finished, Fit, Sound, Local
      <4> QED BY <4>2 DEF Defined, Functions
    <3>5. here.fn = <<u, n>> \/ Reached(u, n, here.fn)
      <4>1. i = N \/ Reached(u, n, Who(N))
        BY <1>0, <1>6, <2>0, <2>1, <2>3
      <4>2. Who(N) = here.fn
        BY <1>0, <1>1, <3>3
      <4> QED BY <2>0, <4>1, <4>2
    <3>6. here.fn # Outside /\ here.fn \in Defined
      <4>1. Outside \notin Defined
        BY NamesAssumption DEF Defined, Functions
      <4> QED BY <3>2, <3>4, <3>5, <4>1 DEF Reached
    <3>7. PICK m \in Callees(CodeOf(here.fn)) : Who(N + 1)' = Meaning(here.fn[1], m)
      BY <3>3, <3>6, Frozen DEF Plain, CodeOf, Running
    <3>8. Emitted(here.fn)
      BY <3>3, <3>6 DEF Plain, Emitted, Running
    <3>9. PICK v \in Files, w \in Names : here.fn = <<v, w>>
      BY <3>6 DEF Defined, Functions
    <3>10. <<v, w>> = <<u, n>> \/ w \in Reach(View(unit[u].code), n)
      BY <3>5, <3>6, <3>9 DEF Reached
    <3>11. n \notin Statics(u) \/ WholeProgram \/ v = u
      BY <3>2, <3>9
    <3>12. Reached(u, n, Meaning(v, m))
      <4>1. Compiled /\ <<v, w>> \in Defined /\ Emitted(<<v, w>>) /\ m \in Callees(CodeOf(<<v, w>>))
        BY <3>6, <3>7, <3>8, <3>9 DEF CallInv
      <4> QED BY <2>0, <3>10, <3>11, <4>1, Onward
    <3> QED BY <2>3, <3>7, <3>9, <3>12, Frozen
  <2> QED BY <1>0, <2>2, <2>3
<1>7. Confined'
  BY <1>0, <1>6 DEF Confined
<1> QED BY <1>2, <1>4, <1>7 DEF CallInv

-----------------------------------------------------------------------------
(***************************************************************************)
(* The theorem.                                                            *)
(***************************************************************************)
LEMMA CallInvInit == Init => CallInv
<1> SUFFICES ASSUME Init PROVE CallInv
  OBVIOUS
<1>1. here = Away /\ calls = <<>> /\ \A u \in Files : unit[u].near = {}
  BY DEF Init, NoCode
<1>2. Away \in GoodPlace
  BY DEF Away, GoodPlace, Place
<1>3. Threaded
  BY <1>1, <1>2 DEF Threaded
<1>4. Confined
  BY <1>1 DEF Confined
<1> QED BY <1>3, <1>4, CompiledInit DEF CallInv

\* The next place in a function's code, after the call or past it.
LEMMA PlaceMoves ==
  ASSUME Compiled, Linked, here \in GoodPlace, Calling
  PROVE  /\ here.fn \in Functions /\ here.fn # Outside /\ Emitted(here.fn)
         /\ TheSite \in LoweredSite
         /\ TheSite.form \in {"direct", "tail"} => TheSite.to \in Callees(CodeOf(here.fn))
         /\ \A p \in {[here EXCEPT !.pc = @ + 1], Next_(CodeOf(here.fn), here)} :
              p \in GoodPlace /\ p.fn = here.fn
<1>1. here \in Place /\ here.fn \in Functions /\ here.fn # Outside /\ Emitted(here.fn)
      /\ here.pc \in Nat \ {0} /\ here.pc <= Len(CodeOf(here.fn))
  BY DEF Calling, Inside, GoodPlace, Place
<1>2. CodeOf(here.fn) \in Seq(LoweredSite)
  BY <1>1, CompiledCode
<1>3. here.pc \in DOMAIN CodeOf(here.fn) /\ TheSite \in LoweredSite /\ Len(CodeOf(here.fn)) \in Nat
  BY <1>1, <1>2 DEF TheSite
<1>4. TheSite.form \in {"direct", "tail"} => TheSite.to \in Callees(CodeOf(here.fn))
  BY <1>3 DEF Callees, TheSite
<1>5. ASSUME NEW q \in Nat \ {0} PROVE [here EXCEPT !.pc = q] \in GoodPlace
                                       /\ [here EXCEPT !.pc = q].fn = here.fn
  BY <1>1 DEF GoodPlace, Place
<1>6. /\ [here EXCEPT !.pc = @ + 1] = [here EXCEPT !.pc = here.pc + 1]
      /\ Next_(CodeOf(here.fn), here) =
           [here EXCEPT !.pc = IF CodeOf(here.fn)[here.pc].last
                                 THEN Len(CodeOf(here.fn)) + 1 ELSE here.pc + 1]
  BY <1>1 DEF Next_, Place
<1>7. ASSUME NEW p \in {[here EXCEPT !.pc = @ + 1], Next_(CodeOf(here.fn), here)}
      PROVE  p \in GoodPlace /\ p.fn = here.fn
  <2>1. PICK q \in Nat \ {0} : p = [here EXCEPT !.pc = q]
    <3>1. here.pc + 1 \in Nat \ {0} /\ Len(CodeOf(here.fn)) + 1 \in Nat \ {0}
      BY <1>1, <1>3
    <3> QED BY <1>6, <1>7, <3>1
  <2> QED BY <1>5, <2>1
<1> QED BY <1>1, <1>3, <1>4, <1>7

\* Where a call leads, a place of code or outside.
LEMMA EntryPlace ==
  ASSUME NEW f \in Functions \cup {Outside} PROVE Entry(f) \in GoodPlace /\ Entry(f).fn = f
BY DEF Entry, GoodPlace, Place

LEMMA SameCalls ==
  ASSUME CallInv, Running, Linked, here' \in GoodPlace, here'.fn = here.fn, calls' = calls
  PROVE  CallInv'
<1>1. \A k : Who(k)' = Who(k)
  BY DEF Who
<1>2. calls' \in Seq(Call) /\ Len(calls') <= Len(calls)
  BY DEF CallInv, Threaded
<1> QED BY <1>1, <1>2, Prefix

LEMMA CallOutKeeps == ASSUME CallInv, CallOut PROVE CallInv'
<1> DEFINE site == TheSite
           callee == Meaning(here.fn[1], site.to)
           then == Next_(CodeOf(here.fn), here)
           c == [at |-> then, form |-> site.form]
<1>0. Compiled /\ Threaded /\ Linked /\ Calling /\ here \in GoodPlace /\ calls \in Seq(Call)
      /\ prog \in Programs /\ Running
  BY DEF CallInv, Threaded, CallOut, Compiled, Running
<1>1. here' = Entry(callee) /\ calls' = Append(calls, c) /\ site.form # "spliced"
  BY DEF CallOut
<1>2. /\ here.fn \in Functions /\ here.fn # Outside /\ Emitted(here.fn)
      /\ site \in LoweredSite
      /\ site.form \in {"direct", "tail"} => site.to \in Callees(CodeOf(here.fn))
      /\ then \in GoodPlace /\ then.fn = here.fn
  BY <1>0, PlaceMoves
<1>3. callee \in Functions \cup {Outside}
  <2>1. here.fn[1] \in Files /\ site.to \in Names
    BY <1>2 DEF Functions, LoweredSite
  <2> QED BY <1>0, <2>1, MeaningType DEF Defined
<1>4. c \in Call /\ c.at.fn = here.fn
  BY <1>2 DEF Call, LoweredSite
<1> HIDE DEF callee, then, c
<1>5. here' \in GoodPlace /\ here'.fn = callee
  BY <1>1, <1>3, EntryPlace
<1>6. PICK N \in Nat : N = Len(calls) + 1
  BY <1>0
<1>7. c.form # "pointer" => Plain(N)'
  <2> SUFFICES ASSUME c.form # "pointer" PROVE Plain(N)'
    OBVIOUS
  <2>1. site.to \in Callees(CodeOf(here.fn))
    BY <1>1, <1>2 DEF LoweredSite, Form, c
  <2>2. Len(calls') = N /\ DOMAIN calls' = 1..N /\ calls'[N] = c
    BY <1>0, <1>1, <1>4, <1>6
  <2>3. Who(N)' = here.fn /\ Who(N + 1)' = callee
    <3>1. N \in DOMAIN calls' /\ N + 1 \notin DOMAIN calls'
      BY <1>6, <2>2, <1>0
    <3>2. Who(N)' = calls'[N].at.fn /\ Who(N + 1)' = here'.fn
      BY <3>1 DEF Who
    <3> QED BY <1>4, <1>5, <2>2, <3>2
  <2>4. PICK f : f = here.fn
    OBVIOUS
  <2>5. PICK m : m = site.to
    OBVIOUS
  <2>6. Meaning(f[1], m)' = callee
    BY <1>0, <2>4, <2>5, Frozen DEF callee
  <2>7. Emitted(f)' /\ m \in Callees(CodeOf(f)')
    BY <1>0, <1>2, <2>1, <2>4, <2>5 DEF Emitted, CodeOf, Running
  <2> QED BY <1>2, <2>3, <2>4, <2>6, <2>7 DEF Plain
<1> QED BY <1>0, <1>1, <1>4, <1>5, <1>6, <1>7, Extended

LEMMA CallInKeeps == ASSUME CallInv, CallIn PROVE CallInv'
<1>0. Threaded /\ Linked /\ calls \in Seq(Call) /\ Running /\ here.fn = Outside
  BY DEF CallInv, Threaded, CallIn, Running
<1>1. PICK f \in Exported \cup Given :
        /\ here' = Entry(f)
        /\ calls' = Append(calls, [at |-> Away,
                                   form |-> IF f \in Exported THEN "direct" ELSE "pointer"])
  BY DEF CallIn
<1>2. PICK c \in Call : calls' = Append(calls, c) /\ c.at = Away
                        /\ (c.form # "pointer" => f \in Exported)
  <2> DEFINE c == [at |-> Away, form |-> IF f \in Exported THEN "direct" ELSE "pointer"]
  <2>1. c \in Call
    BY DEF Call, Form, Away, GoodPlace, Place
  <2> QED BY <1>1, <2>1
<1>3. f \in Functions
  BY DEF Exported, Defined, Given
<1>4. here' \in GoodPlace /\ here'.fn = f
  BY <1>1, <1>3, EntryPlace
<1>5. PICK N \in Nat : N = Len(calls) + 1
  BY <1>0
<1>6. c.form # "pointer" => Plain(N)'
  <2>1. Len(calls') = N /\ DOMAIN calls' = 1..N /\ calls'[N] = c
    BY <1>0, <1>2, <1>5
  <2>2. Who(N)' = Outside /\ Who(N + 1)' = f
    BY <1>2, <1>4, <2>1 DEF Who, Away
  <2> QED BY <1>0, <1>2, <2>2, Frozen DEF Plain
<1>7. c.at.fn = here.fn
  BY <1>0, <1>2 DEF Away
<1> QED BY <1>0, <1>2, <1>4, <1>5, <1>6, <1>7, Extended

LEMMA ReturnKeeps == ASSUME CallInv, Return PROVE CallInv'
<1>0. Threaded /\ Linked /\ calls \in Seq(Call) /\ Running
  BY DEF CallInv, Threaded, Return, Running
<1>1. PICK k \in DOMAIN calls : here' = calls[k].at /\ calls' = SubSeq(calls, 1, k - 1)
  BY DEF Return, Answers
<1>2. k \in 1..Len(calls) /\ Len(calls) \in Nat
  BY <1>0
<1>3. here' \in GoodPlace
  <2>1. calls[k] \in Call
    BY <1>0, <1>1
  <2> QED BY <1>1, <2>1 DEF Call
<1>4. /\ calls' \in Seq(Call) /\ Len(calls') = k - 1 /\ DOMAIN calls' = 1..(k - 1)
      /\ \A l \in 1..(k - 1) : calls'[l] = calls[l]
  BY <1>0, <1>1, <1>2
<1>5. \A l \in 1..k : Who(l)' = Who(l)
  BY <1>0, <1>1, <1>2, <1>4 DEF Who
<1> QED BY <1>0, <1>2, <1>3, <1>4, <1>5, Prefix

LEMMA CallInvStep == CallInv /\ [Next]_vars => CallInv'
<1> SUFFICES ASSUME CallInv, [Next]_vars PROVE CallInv'
  OBVIOUS
<1>0. Compiled /\ Threaded /\ here \in GoodPlace /\ calls \in Seq(Call)
  BY DEF CallInv, Threaded
<1>1. CASE AddUnit \/ CompileFile
  <2>1. calls = <<>> /\ here = Away /\ UNCHANGED <<here, calls>>
    BY <1>0, <1>1, NotYet DEF AddUnit, CompileFile
  <2>2. calls' = <<>> /\ here' = Away
    BY <2>1
  <2>3. Threaded'
    BY <1>0, <2>1, <2>2 DEF Threaded
  <2>4. Confined'
    BY <2>2 DEF Confined
  <2> QED BY <1>0, <1>1, <2>3, <2>4, CompiledAddUnit, CompiledCompileFile DEF CallInv
<1>2. CASE Skip
  <2>1. Running /\ Linked /\ Calling /\ calls' = calls /\ here' = [here EXCEPT !.pc = @ + 1]
    BY <1>2 DEF Skip, Running
  <2> QED BY <1>0, <2>1, PlaceMoves, SameCalls
<1>3. CASE RunSpliced
  <2>1. Running /\ Linked /\ Calling /\ calls' = calls /\ here' = Next_(CodeOf(here.fn), here)
    BY <1>3 DEF RunSpliced, Running
  <2> QED BY <1>0, <2>1, PlaceMoves, SameCalls
<1>4. CASE CallOut
  BY <1>4, CallOutKeeps
<1>5. CASE CallIn
  BY <1>5, CallInKeeps
<1>6. CASE Return
  BY <1>6, ReturnKeeps
<1>7. CASE UNCHANGED vars
  <2>1. Running /\ here' = here /\ calls' = calls
    BY <1>7 DEF vars, Running
  <2>2. CASE Linked
    BY <1>0, <2>1, <2>2, SameCalls
  <2>3. CASE ~Linked
    <3>1. calls' = <<>> /\ here' = Away /\ here' \in GoodPlace
      BY <1>0, <2>1, <2>3 DEF Threaded
    <3>2. Threaded'
      BY <3>1 DEF Threaded
    <3>3. Confined'
      BY <3>1 DEF Confined
    <3> QED BY <1>0, <2>1, <3>2, <3>3, Frozen DEF CallInv
  <2> QED BY <2>2, <2>3
<1> QED BY <1>1, <1>2, <1>3, <1>4, <1>5, <1>6, <1>7 DEF Next

LEMMA CallInvNearOnce == CallInv => NearOnce
<1> SUFFICES ASSUME CallInv, Distinct, NEW u \in Files, NEW n \in unit[u].near,
                    NEW i \in Active(<<u, n>>), NEW j \in Active(<<u, n>>), i < j,
                    \A k \in i..(j - 1) : Counts(u, n, k)
             PROVE  FALSE
  BY DEF NearOnce, Counts
<1>1. calls \in Seq(Call)
  BY DEF CallInv, Threaded
<1>2. /\ i \in 1..(Len(calls) + 1) /\ j \in 1..(Len(calls) + 1)
      /\ Who(i) = <<u, n>> /\ Who(j) = <<u, n>>
  BY <1>1 DEF Active, Who
<1>3. Reached(u, n, <<u, n>>)
  BY <1>2 DEF CallInv, Confined
<1>4. Finished(u) /\ prog \in Programs
  BY DEF CallInv, Compiled, NoCode
<1>5. n \in Names /\ n \notin Reach(View(unit[u].code), n)
  BY <1>4, SourceSites DEF Finished, Fit, Sound, Local, Eligible
<1> QED BY <1>3, <1>5, NamesAssumption DEF Reached

\* A function that keeps its spills in a static buffer is active once at a time
\* (main.py:767), whatever the files, their functions and their calls are.
THEOREM BuffersServeOne == Spec => []NearOnce
<1>1. Spec => []CallInv
  BY CallInvInit, CallInvStep, PTL DEF Spec
<1> QED BY <1>1, CallInvNearOnce, PTL

-----------------------------------------------------------------------------
(***************************************************************************)
(* What is called was emitted.                                             *)
(***************************************************************************)
\* Code that is there, or code that the compiler never sees.
Present(f) == f # Outside => f \in Functions /\ Emitted(f)

Bounded ==
  /\ refused \in BOOLEAN /\ graph.taken \subseteq Names
  /\ graph.edges \in [Names -> SUBSET Names]
  /\ \A n \in DOMAIN graph.bodies : graph.bodies[n] \in prog.pure
  /\ back \in Seq(Place) /\ slot \in [Functions -> Place]
  /\ Len(calls) <= MaxDepth /\ Len(back) <= MaxDepth
  /\ ~Linked => back = <<>>

AllPresent == Linked => \A k \in 1..(Len(calls) + 1) : Present(Who(k))

HeldInv == CallInv /\ Bounded /\ AllPresent

\* A name that is not the file's own means nothing, or what another exports.
LEMMA MeaningFar ==
  ASSUME NEW v, NEW m, m \notin Local(v)
  PROVE  Meaning(v, m) = Outside \/ Meaning(v, m) \in Exported
<1>1. CASE \E w \in Files : <<w, m>> \in Exported
  <2>1. PICK w \in Files : <<w, m>> \in Exported
    BY <1>1
  <2>2. <<w, m>>[2] = m
    OBVIOUS
  <2> QED BY <2>1, <2>2 DEF Meaning
<1>2. CASE ~\E w \in Files : <<w, m>> \in Exported
  BY <1>2 DEF Meaning
<1> QED BY <1>1, <1>2

LEMMA LinkedFit ==
  ASSUME Compiled, Linked, NEW u \in Files PROVE Fit(u, unit[u].code)
<1>1. unit[u].done
  BY DEF Linked, ToCompile
<1> QED BY <1>1 DEF Compiled, Finished

LEMMA ExportedPresent ==
  ASSUME Compiled, Linked, NEW f \in Exported PROVE Present(f)
<1>1. f \in Functions /\ f[1] \in Files /\ f[2] \in Local(f[1]) /\ f = <<f[1], f[2]>>
  BY DEF Exported, Defined, Functions
<1>2. f[2] \notin Statics(f[1])
  BY <1>1 DEF Exported, Statics
<1>3. f[2] \in DOMAIN unit[f[1]].code
  BY <1>1, <1>2, LinkedFit DEF Fit, Closed
<1> QED BY <1>1, <1>3 DEF Present, Emitted

LEMMA LocalPresent ==
  ASSUME prog \in Programs, NEW u \in Files, NEW n \in DOMAIN unit[u].code, n \in Local(u)
  PROVE  Present(Meaning(u, n))
<1>1. Meaning(u, n) = <<u, n>> /\ n \in Names
  BY MeaningLocal, SourceSites DEF Local
<1> QED BY <1>1 DEF Present, Emitted, Functions

LEMMA CalleePresent ==
  ASSUME Compiled, Linked, NEW u \in Files, NEW n \in DOMAIN unit[u].code,
         NEW i \in DOMAIN unit[u].code[n], unit[u].code[n][i].form # "spliced"
  PROVE  Present(Meaning(u, unit[u].code[n][i].to))
<1> DEFINE to == unit[u].code[n][i].to
<1>1. prog \in Programs
  BY DEF Compiled
<1>2. CASE to \in Local(u)
  <2>1. to \in DOMAIN unit[u].code
    BY <1>2, LinkedFit DEF Fit, Closed
  <2> QED BY <1>1, <1>2, <2>1, LocalPresent
<1>3. CASE to \notin Local(u)
  BY <1>3, MeaningFar, ExportedPresent DEF Present
<1> QED BY <1>2, <1>3

LEMMA GivenPresent ==
  ASSUME Compiled, Linked, NEW f \in Given PROVE Present(f)
<1>1. PICK u \in Files, n \in Names :
        n \in TakenIn(unit[u].code) \cup Tables(u) /\ f = Meaning(u, n)
  BY DEF Given
<1>2. prog \in Programs
  BY DEF Compiled
<1>3. CASE n \in Local(u)
  <2>1. n \in DOMAIN unit[u].code
    BY <1>1, <1>3, LinkedFit DEF Fit, Closed
  <2> QED BY <1>1, <1>2, <1>3, <2>1, LocalPresent
<1>4. CASE n \notin Local(u)
  BY <1>1, <1>4, MeaningFar, ExportedPresent DEF Present
<1> QED BY <1>3, <1>4

\* What a call out of the code does.
Makes(u, m, i, then) ==
  LET site == unit[u].code[m][i]
      callee == Meaning(u, site.to)
      bySlot == site.form # "pointer" /\ site.to \in Metamorphic(u)
  IN  /\ u \in Files /\ m \in DOMAIN unit[u].code /\ i \in DOMAIN unit[u].code[m]
      /\ <<u, m>> \in Functions /\ here.fn = <<u, m>> /\ site.form # "spliced"
      /\ then \in GoodPlace /\ then.fn = <<u, m>>
      /\ site.last => then.pc = Len(unit[u].code[m]) + 1
      /\ here' = Entry(callee) /\ calls' = Append(calls, [at |-> then, form |-> site.form])
      /\ slot' = IF bySlot THEN [slot EXCEPT ![callee] = then] ELSE slot
      /\ back' = IF bySlot \/ site.form = "tail" THEN back ELSE Append(back, then)

LEMMA CallOutMakes ==
  ASSUME CallInv, CallOut
  PROVE  /\ Running /\ Linked /\ Len(calls) < MaxDepth /\ Len(back) < MaxDepth
         /\ \E u, m, i, then : Makes(u, m, i, then)
<1>0. Compiled /\ Threaded /\ Linked /\ Calling /\ here \in GoodPlace /\ Running
      /\ TheSite.form # "spliced" /\ Len(calls) < MaxDepth /\ Len(back) < MaxDepth
  BY DEF CallInv, Threaded, CallOut, Running
<1> DEFINE then == Next_(CodeOf(here.fn), here)
<1>1. /\ here.fn \in Functions /\ here.fn # Outside /\ Emitted(here.fn)
      /\ then \in GoodPlace /\ then.fn = here.fn
  BY <1>0, PlaceMoves
<1>2. PICK u \in Files, m \in Names : here.fn = <<u, m>>
  BY <1>1 DEF Functions
<1>3. m \in DOMAIN unit[u].code /\ CodeOf(here.fn) = unit[u].code[m]
  BY <1>1, <1>2 DEF Emitted, CodeOf
<1>4. unit[u].code[m] \in Seq(LoweredSite)
  BY <1>0, <1>1, <1>3, CompiledCode
<1>5. here.pc \in Nat \ {0} /\ here.pc <= Len(unit[u].code[m]) /\ here = [here EXCEPT !.pc = here.pc]
  BY <1>0, <1>1, <1>3 DEF Calling, GoodPlace, Place
<1>6. here.pc \in DOMAIN unit[u].code[m] /\ TheSite = unit[u].code[m][here.pc]
  BY <1>3, <1>4, <1>5 DEF TheSite
<1>7. TheSite.last => then.pc = Len(unit[u].code[m]) + 1
  <2>1. here \in Place
    BY <1>0 DEF GoodPlace
  <2> QED BY <1>3, <1>6, <2>1 DEF Next_, Place
<1>8. /\ here' = Entry(Meaning(u, TheSite.to))
      /\ calls' = Append(calls, [at |-> then, form |-> TheSite.form])
      /\ slot' = IF TheSite.form # "pointer" /\ TheSite.to \in Metamorphic(u)
                   THEN [slot EXCEPT ![Meaning(u, TheSite.to)] = then] ELSE slot
      /\ back' = IF (TheSite.form # "pointer" /\ TheSite.to \in Metamorphic(u))
                      \/ TheSite.form = "tail"
                   THEN back ELSE Append(back, then)
  BY <1>2 DEF CallOut
<1> HIDE DEF then
<1>9. Makes(u, m, here.pc, then)
  BY <1>0, <1>1, <1>2, <1>3, <1>6, <1>7, <1>8 DEF Makes
<1> QED BY <1>0, <1>9

\* The activations once a call is made.
LEMMA Grown ==
  ASSUME calls \in Seq(Call), NEW c \in Call, calls' = Append(calls, c), c.at.fn = here.fn,
         NEW N \in Nat, N = Len(calls) + 1
  PROVE  /\ Len(calls') = N /\ DOMAIN calls' = 1..N /\ calls'[N] = c
         /\ DOMAIN calls = 1..(N - 1) /\ \A k \in 1..(N - 1) : calls'[k] = calls[k]
         /\ \A k \in 1..N : Who(k)' = Who(k)
         /\ Who(N) = here.fn /\ Who(N + 1)' = here'.fn
<1>1. /\ Len(calls') = N /\ DOMAIN calls' = 1..N /\ calls'[N] = c
      /\ DOMAIN calls = 1..(N - 1) /\ \A k \in 1..(N - 1) : calls'[k] = calls[k]
  OBVIOUS
<1>2. Who(N) = here.fn /\ Who(N + 1)' = here'.fn /\ Who(N)' = here.fn
  BY <1>1 DEF Who
<1>3. \A k \in 1..(N - 1) : Who(k)' = Who(k)
  BY <1>1 DEF Who
<1> QED BY <1>1, <1>2, <1>3

LEMMA MakesGrown ==
  ASSUME CallInv, Running, NEW u, NEW m, NEW i, NEW then, Makes(u, m, i, then)
  PROVE  \E N \in Nat \ {0} :
           /\ N = Len(calls) + 1 /\ Len(calls') = N /\ DOMAIN calls' = 1..N /\ calls'[N].at = then
           /\ DOMAIN calls = 1..(N - 1) /\ \A k \in 1..(N - 1) : calls'[k] = calls[k]
           /\ \A k \in 1..N : Who(k)' = Who(k)
           /\ Who(N) = <<u, m>> /\ Who(N + 1)' = Meaning(u, unit[u].code[m][i].to)
<1> DEFINE site == unit[u].code[m][i]
           c == [at |-> then, form |-> site.form]
<1>0. calls \in Seq(Call) /\ Compiled /\ prog \in Programs
  BY DEF CallInv, Threaded, Compiled
<1>1. Finished(u)
  <2>1. u \in Files /\ m \in DOMAIN unit[u].code
    BY DEF Makes
  <2>2. IF unit[u].done THEN Finished(u) ELSE unit[u] = NoCode
    BY <1>0, <2>1 DEF Compiled
  <2>3. m \notin DOMAIN NoCode.code
    BY DEF NoCode
  <2> QED BY ONLY <2>1, <2>2, <2>3
<1>2. site \in LoweredSite
  <2> DEFINE code == unit[u].code
  <2>1. \A k \in DOMAIN code : code[k] \in Seq(LoweredSite)
    BY <1>1 DEF Finished, Fit, Sound
  <2>2. m \in DOMAIN code /\ i \in DOMAIN code[m]
    BY DEF Makes
  <2> HIDE DEF code
  <2>3. code[m][i] \in LoweredSite
    BY <2>1, <2>2
  <2> QED BY <2>3 DEF code
<1>3. c \in Call /\ c.at = then
  BY <1>2 DEF Makes, Call, LoweredSite
<1>4. calls' = Append(calls, c) /\ c.at.fn = here.fn /\ here.fn = <<u, m>>
  BY DEF Makes
<1>5. here'.fn = Meaning(u, site.to)
  BY DEF Makes, Entry
<1> HIDE DEF c, site
<1>6. PICK N \in Nat : N = Len(calls) + 1
  BY <1>0
<1>7. N # 0
  BY <1>0, <1>6
<1> QED BY <1>0, <1>3, <1>4, <1>5, <1>6, <1>7, Grown DEF site

\* A return gives up the call it answers and those above it.
LEMMA ReturnShrinks ==
  ASSUME CallInv, Return
  PROVE  /\ Running /\ Linked /\ Returning /\ slot' = slot
         /\ back' = IF BySlot \/ back = <<>> THEN back ELSE SubSeq(back, 1, Len(back) - 1)
         /\ \E k \in DOMAIN calls :
              /\ k \in Answers(Target) /\ \A l \in Answers(Target) : l <= k
              /\ k \in 1..Len(calls) /\ Len(calls) \in Nat
              /\ here' = Target /\ here' = calls[k].at
              /\ Len(calls') = k - 1 /\ DOMAIN calls' = 1..(k - 1)
              /\ \A l \in 1..(k - 1) : calls'[l] = calls[l]
              /\ \A l \in 1..k : Who(l)' = Who(l)
<1>0. calls \in Seq(Call) /\ Running /\ Linked /\ Returning /\ slot' = slot
      /\ back' = IF BySlot \/ back = <<>> THEN back ELSE SubSeq(back, 1, Len(back) - 1)
  BY DEF CallInv, Threaded, Return, Running
<1>1. PICK k \in DOMAIN calls :
        /\ k \in Answers(Target) /\ \A l \in Answers(Target) : l <= k
        /\ here' = Target /\ here' = calls[k].at /\ calls' = SubSeq(calls, 1, k - 1)
  BY DEF Return, Answers
<1>2. k \in 1..Len(calls) /\ Len(calls) \in Nat
  BY <1>0
<1>3. Len(calls') = k - 1 /\ DOMAIN calls' = 1..(k - 1) /\ \A l \in 1..(k - 1) : calls'[l] = calls[l]
  BY <1>0, <1>1, <1>2
<1>4. \A l \in 1..k : Who(l)' = Who(l)
  BY <1>0, <1>1, <1>2, <1>3 DEF Who
<1> QED BY <1>0, <1>1, <1>2, <1>3, <1>4

LEMMA HeldOn ==
  ASSUME HeldInv, Running, Linked, CallInv',
         back' \in Seq(Place), slot' \in [Functions -> Place],
         Len(calls') <= MaxDepth, Len(back') <= MaxDepth,
         \A k \in 1..(Len(calls') + 1) : Present(Who(k))'
  PROVE  HeldInv'
<1>1. Bounded'
  BY Frozen DEF HeldInv, Bounded, Running
<1> QED BY <1>1 DEF HeldInv, AllPresent

LEMMA Continued ==
  ASSUME HeldInv, Running, Linked, CallInv', here'.fn = here.fn,
         UNCHANGED <<calls, back, slot>>
  PROVE  HeldInv'
<1>1. \A k : Who(k)' = Who(k)
  BY DEF Who
<1>2. \A k \in 1..(Len(calls') + 1) : Present(Who(k))'
  BY <1>1 DEF HeldInv, AllPresent, Present, Emitted, Running
<1> QED BY <1>2, HeldOn DEF HeldInv, Bounded

LEMMA HeldCallOut == ASSUME HeldInv, CallOut PROVE HeldInv'
<1>0. CallInv /\ Compiled /\ back \in Seq(Place) /\ slot \in [Functions -> Place] /\ MaxDepth \in Nat
      /\ calls \in Seq(Call)
  BY DepthAssumption DEF HeldInv, CallInv, Threaded, Bounded
<1>1. Running /\ Linked /\ Len(calls) < MaxDepth /\ Len(back) < MaxDepth
  BY <1>0, CallOutMakes
<1>2. PICK u, m, i, then : Makes(u, m, i, then)
  BY <1>0, CallOutMakes
<1>3. PICK N \in Nat \ {0} :
        /\ N = Len(calls) + 1 /\ Len(calls') = N /\ \A k \in 1..N : Who(k)' = Who(k)
        /\ Who(N + 1)' = Meaning(u, unit[u].code[m][i].to)
  BY <1>0, <1>1, <1>2, MakesGrown
<1>4. Present(Meaning(u, unit[u].code[m][i].to))
  BY <1>0, <1>1, <1>2, CalleePresent DEF Makes
<1>5. \A k \in 1..(Len(calls') + 1) : Present(Who(k))'
  <2>1. ASSUME NEW k \in 1..N PROVE Present(Who(k))'
    <3>1. Present(Who(k)) /\ Who(k)' = Who(k)
      BY <1>0, <1>1, <1>3 DEF HeldInv, AllPresent
    <3> QED BY <1>1, <3>1 DEF Present, Emitted, Running
  <2>2. Present(Who(N + 1))'
    BY <1>1, <1>3, <1>4 DEF Present, Emitted, Running
  <2> QED BY <1>3, <2>1, <2>2
<1>6. then \in Place
  BY <1>2 DEF Makes, GoodPlace
<1>7. back' \in Seq(Place) /\ Len(back') <= MaxDepth
  <2>1. back' = back \/ back' = Append(back, then)
    BY <1>2 DEF Makes
  <2> QED BY <1>0, <1>1, <1>6, <2>1
<1>8. slot' \in [Functions -> Place]
  <2>1. slot' = slot \/ slot' = [slot EXCEPT ![Meaning(u, unit[u].code[m][i].to)] = then]
    BY <1>2 DEF Makes
  <2> QED BY <1>0, <1>6, <2>1
<1>9. Len(calls') <= MaxDepth
  BY <1>0, <1>1, <1>3
<1>10. CallInv'
  BY <1>0, CallOutKeeps
<1> QED BY <1>1, <1>5, <1>7, <1>8, <1>9, <1>10, HeldOn

LEMMA HeldCallIn == ASSUME HeldInv, CallIn PROVE HeldInv'
<1>0. CallInv /\ Compiled /\ back \in Seq(Place) /\ slot \in [Functions -> Place] /\ MaxDepth \in Nat
      /\ calls \in Seq(Call)
  BY DepthAssumption DEF HeldInv, CallInv, Threaded, Bounded
<1>1. Running /\ Linked /\ Len(calls) < MaxDepth /\ Len(back) < MaxDepth /\ here.fn = Outside
      /\ slot' = slot /\ back' = Append(back, Away)
  BY DEF CallIn, Running
<1>2. PICK f \in Exported \cup Given :
        /\ here' = Entry(f)
        /\ calls' = Append(calls, [at |-> Away,
                                   form |-> IF f \in Exported THEN "direct" ELSE "pointer"])
  BY DEF CallIn
<1>3. PICK c \in Call : calls' = Append(calls, c) /\ c.at = Away
  <2> DEFINE c == [at |-> Away, form |-> IF f \in Exported THEN "direct" ELSE "pointer"]
  <2>1. c \in Call
    BY DEF Call, Form, Away, GoodPlace, Place
  <2> QED BY <1>2, <2>1
<1>4. c.at.fn = here.fn /\ here'.fn = f /\ Away \in Place
  BY <1>1, <1>2, <1>3 DEF Away, Entry, Place
<1>5. PICK N \in Nat : N = Len(calls) + 1
  BY <1>0
<1>6. Len(calls') = N /\ (\A k \in 1..N : Who(k)' = Who(k)) /\ Who(N + 1)' = f
  BY <1>0, <1>3, <1>4, <1>5, Grown
<1>7. Present(f)
  BY <1>0, <1>1, ExportedPresent, GivenPresent
<1>8. \A k \in 1..(Len(calls') + 1) : Present(Who(k))'
  <2>1. ASSUME NEW k \in 1..N PROVE Present(Who(k))'
    <3>1. Present(Who(k)) /\ Who(k)' = Who(k)
      BY <1>0, <1>1, <1>5, <1>6 DEF HeldInv, AllPresent
    <3> QED BY <1>1, <3>1 DEF Present, Emitted, Running
  <2>2. Present(Who(N + 1))'
    BY <1>1, <1>6, <1>7 DEF Present, Emitted, Running
  <2> QED BY <1>6, <2>1, <2>2
<1>9. back' \in Seq(Place) /\ Len(back') <= MaxDepth /\ Len(calls') <= MaxDepth
  BY <1>0, <1>1, <1>4, <1>5, <1>6
<1>10. CallInv'
  BY <1>0, CallInKeeps
<1> QED BY <1>0, <1>1, <1>8, <1>9, <1>10, HeldOn

LEMMA HeldReturn == ASSUME HeldInv, Return PROVE HeldInv'
<1>0. CallInv /\ back \in Seq(Place) /\ slot \in [Functions -> Place] /\ MaxDepth \in Nat
      /\ Len(back) <= MaxDepth /\ Len(calls) <= MaxDepth
  BY DepthAssumption DEF HeldInv, Bounded
<1>1. /\ Running /\ Linked /\ slot' = slot
      /\ back' = back \/ (back # <<>> /\ back' = SubSeq(back, 1, Len(back) - 1))
  BY <1>0, ReturnShrinks
<1>2. PICK k \in 1..Len(calls) : /\ Len(calls') = k - 1 /\ Len(calls) \in Nat
                                 /\ \A l \in 1..k : Who(l)' = Who(l)
  BY <1>0, ReturnShrinks
<1>3. \A l \in 1..(Len(calls') + 1) : Present(Who(l))'
  <2>1. ASSUME NEW l \in 1..k PROVE Present(Who(l))'
    <3>1. Present(Who(l)) /\ Who(l)' = Who(l)
      BY <1>0, <1>1, <1>2 DEF HeldInv, AllPresent
    <3> QED BY <1>1, <3>1 DEF Present, Emitted, Running
  <2> QED BY <1>2, <2>1
<1>4. back' \in Seq(Place) /\ Len(back') <= MaxDepth
  <2>1. CASE back # <<>> /\ back' = SubSeq(back, 1, Len(back) - 1)
    <3>1. PICK n \in 1..Len(back) : n = Len(back) /\ Len(back) \in Nat
      BY <1>0, <2>1
    <3>2. back' = SubSeq(back, 1, n - 1)
      BY <2>1, <3>1
    <3>3. back' \in Seq(Place) /\ Len(back') = n - 1
      BY <1>0, <3>1, <3>2
    <3> QED BY <1>0, <3>1, <3>3
  <2> QED BY <1>0, <1>1, <2>1
<1>5. Len(calls') <= MaxDepth
  BY <1>0, <1>2
<1>6. CallInv'
  BY <1>0, ReturnKeeps
<1> QED BY <1>0, <1>1, <1>3, <1>4, <1>5, <1>6, HeldOn

LEMMA HeldBuild == ASSUME HeldInv, AddUnit \/ CompileFile PROVE HeldInv'
<1>0. CallInv /\ Compiled /\ Threaded /\ Bounded /\ prog \in Programs
  BY DEF HeldInv, CallInv, Compiled
<1>1. calls = <<>> /\ here = Away /\ ~Linked /\ back = <<>>
  BY <1>0, NotYet DEF Bounded
<1>2. calls' = <<>> /\ here' = Away /\ back' = <<>> /\ slot' = slot /\ prog' = prog
  BY <1>1 DEF AddUnit, CompileFile
<1>3. CallInv'
  <2>1. [Next]_vars
    BY DEF Next
  <2> QED BY <1>0, <2>1, CallInvStep
<1>4. refused' \in BOOLEAN
  BY <1>0 DEF Bounded, AddUnit, CompileFile
<1>5. /\ graph'.taken \subseteq Names /\ graph'.edges \in [Names -> SUBSET Names]
      /\ \A n \in DOMAIN graph'.bodies : graph'.bodies[n] \in prog.pure
  <2>1. CASE AddUnit
    <3>1. PICK u \in Least(ToMerge) :
          LET code == [n \in Local(u) |-> Folded(prog.code[u][n])]
              new == { n \in Local(u) : <<u, n>> \in prog.pure } \ DOMAIN graph.bodies
          IN  /\ graph'.edges = [n \in Names |-> graph.edges[n] \cup EdgesOf(code)[n]]
              /\ graph'.taken = graph.taken \cup TakenIn(code)
              /\ graph'.bodies = [n \in new \cup DOMAIN graph.bodies |->
                                    IF n \in new THEN <<u, n>> ELSE graph.bodies[n]]
      BY <2>1 DEF AddUnit
    <3> DEFINE code == [n \in Local(u) |-> Folded(prog.code[u][n])]
               new == { n \in Local(u) : <<u, n>> \in prog.pure } \ DOMAIN graph.bodies
    <3>2. u \in Files
      BY DEF Least, ToMerge
    <3>3. \A n \in Local(u) : code[n] \in Seq(LoweredSite)
      BY <1>0, <3>2, SourceSites, FoldedSites DEF Local
    <3>4. \A n \in Local(u) : Callees(code[n]) \subseteq Names /\ Taken(code[n]) \subseteq Names
      <4>1. \A sites \in Seq(LoweredSite) : \A i \in DOMAIN sites : sites[i] \in LoweredSite
        OBVIOUS
      <4>2. \A sites \in Seq(LoweredSite) : Callees(sites) \subseteq Names /\ Taken(sites) \subseteq Names
        BY <4>1 DEF Callees, Taken, LoweredSite
      <4> HIDE DEF code
      <4> QED BY <3>3, <4>2
    <3>5. DOMAIN code = Local(u)
      OBVIOUS
    <3> HIDE DEF code
    <3>6. graph'.taken \subseteq Names
      BY <1>0, <3>1, <3>4, <3>5 DEF code, TakenIn, Bounded
    <3>7. graph'.edges \in [Names -> SUBSET Names]
      <4>1. EdgesOf(code) \in [Names -> SUBSET Names]
        BY <3>4, <3>5 DEF EdgesOf
      <4>2. graph'.edges = [n \in Names |-> graph.edges[n] \cup EdgesOf(code)[n]]
        BY <3>1 DEF code
      <4> QED BY <1>0, <4>1, <4>2 DEF Bounded
    <3>8. \A n \in DOMAIN graph'.bodies : graph'.bodies[n] \in prog.pure
      BY <1>0, <3>1 DEF Bounded
    <3> QED BY <3>6, <3>7, <3>8
  <2>2. CASE CompileFile
    BY <1>0, <2>2 DEF CompileFile, Bounded
  <2> QED BY <2>1, <2>2
<1>6. Bounded'
  <2>1. Len(calls') <= MaxDepth /\ Len(back') <= MaxDepth /\ back' \in Seq(Place)
    BY <1>2, DepthAssumption
  <2> QED BY <1>0, <1>2, <1>4, <1>5, <2>1 DEF Bounded
<1>7. AllPresent'
  <2>1. \A k \in 1..(Len(calls') + 1) : Who(k)' = Outside
    BY <1>2 DEF Who, Away
  <2> QED BY <2>1 DEF AllPresent, Present
<1> QED BY <1>3, <1>6, <1>7 DEF HeldInv

LEMMA HeldInit == Init => HeldInv
<1> SUFFICES ASSUME Init PROVE HeldInv
  OBVIOUS
<1>1. calls = <<>> /\ here = Away /\ back = <<>> /\ refused = FALSE
      /\ slot = [f \in Functions |-> Away]
      /\ graph = [defined |-> {}, edges |-> [n \in Names |-> {}], taken |-> {}, bodies |-> <<>>]
  BY DepthAssumption DEF Init
<1>2. Away \in Place /\ Away.fn = Outside
  BY DEF Away, Place
<1>3. back \in Seq(Place) /\ Len(calls) <= MaxDepth /\ Len(back) <= MaxDepth
  BY <1>1, DepthAssumption
<1>4. Bounded
  <2>1. refused \in BOOLEAN
    BY <1>1
  <2>2. graph.taken \subseteq Names /\ graph.edges \in [Names -> SUBSET Names]
        /\ graph.bodies = <<>>
    BY <1>1
  <2>3. \A n \in DOMAIN graph.bodies : graph.bodies[n] \in prog.pure
    BY <2>2
  <2>4. slot \in [Functions -> Place]
    BY <1>1, <1>2
  <2> QED BY <1>1, <1>3, <2>1, <2>2, <2>3, <2>4 DEF Bounded
<1>5. AllPresent
  <2>1. \A k \in 1..(Len(calls) + 1) : Who(k) = Outside
    BY <1>1, <1>2 DEF Who
  <2> QED BY <2>1 DEF AllPresent, Present
<1> QED BY <1>4, <1>5, CallInvInit DEF HeldInv

LEMMA HeldStep == HeldInv /\ [Next]_vars => HeldInv'
<1> SUFFICES ASSUME HeldInv, [Next]_vars PROVE HeldInv'
  OBVIOUS
<1>0. CallInv /\ Compiled /\ here \in GoodPlace /\ CallInv'
  BY CallInvStep DEF HeldInv, CallInv, Threaded
<1>1. CASE AddUnit \/ CompileFile
  BY <1>1, HeldBuild
<1>2. CASE Skip
  <2>1. Running /\ Linked /\ Calling /\ UNCHANGED <<calls, back, slot>>
        /\ here' = [here EXCEPT !.pc = @ + 1]
    BY <1>2 DEF Skip, Running
  <2>2. here'.fn = here.fn
    BY <1>0, <2>1, PlaceMoves
  <2> QED BY <1>0, <2>1, <2>2, Continued
<1>3. CASE RunSpliced
  <2>1. Running /\ Linked /\ Calling /\ UNCHANGED <<calls, back, slot>>
        /\ here' = Next_(CodeOf(here.fn), here)
    BY <1>3 DEF RunSpliced, Running
  <2>2. here'.fn = here.fn
    BY <1>0, <2>1, PlaceMoves
  <2> QED BY <1>0, <2>1, <2>2, Continued
<1>4. CASE CallOut
  BY <1>4, HeldCallOut
<1>5. CASE CallIn
  BY <1>5, HeldCallIn
<1>6. CASE Return
  BY <1>6, HeldReturn
<1>7. CASE UNCHANGED vars
  <2>1. Running /\ here' = here /\ UNCHANGED <<calls, back, slot>>
    BY <1>7 DEF vars, Running
  <2>2. CASE Linked
    BY <1>0, <2>1, <2>2, Continued
  <2>3. CASE ~Linked
    <3>1. Bounded'
      BY <2>1, Frozen DEF HeldInv, Bounded, Running
    <3>2. ~Linked'
      BY <2>1, <2>3, Frozen
    <3> QED BY <1>0, <3>1, <3>2 DEF HeldInv, AllPresent
  <2> QED BY <2>2, <2>3
<1> QED BY <1>1, <1>2, <1>3, <1>4, <1>5, <1>6, <1>7 DEF Next

LEMMA HeldNothingMissing == HeldInv => NothingMissing
<1> SUFFICES ASSUME HeldInv PROVE NothingMissing
  OBVIOUS
<1>0. Compiled /\ Threaded /\ Bounded /\ AllPresent /\ calls \in Seq(Call) /\ here \in GoodPlace
      /\ prog \in Programs
  BY DEF HeldInv, CallInv, Threaded, Compiled
<1>1. IsProgram(prog)
  BY <1>0, ProgramsAssumption
<1>2. \A u \in Files : /\ DOMAIN unit[u].code \subseteq Local(u)
                       /\ unit[u].near \subseteq DOMAIN unit[u].code
  BY <1>0 DEF Compiled, Finished, Fit, Sound, NoCode
<1>3. graph.defined \subseteq Names
  <2>1. \A u \in Files : Local(u) \subseteq Names
    BY <1>0, SourceSites DEF Local
  <2> QED BY <1>0, <2>1 DEF Compiled
<1>4. \A k \in DOMAIN calls : calls[k].at \in Place
  <2>1. \A k \in DOMAIN calls : calls[k] \in Call
    BY <1>0
  <2> QED BY <2>1 DEF Call, GoodPlace
<1>5. here \in Place
  BY <1>0 DEF GoodPlace
<1>6. TypeOK
  BY <1>0, <1>1, <1>2, <1>3, <1>4, <1>5 DEF TypeOK, Bounded, Compiled
<1>7. Linked /\ here.fn # Outside => Emitted(here.fn)
  <2>1. Len(calls) + 1 \in 1..(Len(calls) + 1) /\ Who(Len(calls) + 1) = here.fn
    BY <1>0 DEF Who
  <2> QED BY <1>0, <2>1 DEF AllPresent, Present
<1> QED BY <1>6, <1>7 DEF NothingMissing

\* No function that is called was removed as dead (dce.py:8): wherever the
\* program runs in the compiled files, the code is there.
THEOREM NothingCalledIsRemoved == Spec => []NothingMissing
<1>1. Spec => []HeldInv
  BY HeldInit, HeldStep, PTL DEF Spec
<1> QED BY <1>1, HeldNothingMissing, PTL

-----------------------------------------------------------------------------
(***************************************************************************)
(* Where a return goes.                                                    *)
(***************************************************************************)
Slotted(f) == f # Outside /\ f[2] \in Metamorphic(f[1])

\* What runs above a metamorphic function is what its file shows it to reach:
\* it is active once at a time.
Under(u, n) == {n} \cup Reach(View(unit[u].code), n)

Once ==
  \A u \in Files : \A n \in Metamorphic(u) : \A i, j \in 1..(Len(calls) + 1) :
    i < j /\ Who(i) \in {u} \X Under(u, n) => Who(j) \in {u} \X Reach(View(unit[u].code), n)

\* The slot of an active metamorphic function holds the place of its call.
SlotsHold == \A k \in DOMAIN calls : Slotted(Who(k + 1)) => slot[Who(k + 1)] = calls[k].at

\* The return addresses are those of calls in progress, in their order; a call
\* without one is spent or returns through a slot, and a metamorphic function
\* calls others with one.
Placed(pos) ==
  /\ pos \in [1..Len(back) -> DOMAIN calls]
  /\ \A i, j \in 1..Len(back) : i < j => pos[i] < pos[j]
  /\ \A i \in 1..Len(back) : calls[pos[i]].at = back[i] /\ ~Slotted(Who(pos[i] + 1))
  /\ \A k \in DOMAIN calls :
       (\A i \in 1..Len(back) : pos[i] # k) =>
         /\ Spent(calls[k]) \/ Slotted(Who(k + 1))
         /\ Slotted(Who(k)) => Slotted(Who(k + 1))

Matched == Who(1) = Outside /\ Once /\ SlotsHold /\ \E pos : Placed(pos)

\* The programs that the property speaks of.
Plainly == NoSlots \/ Tame

ReturnInv == HeldInv /\ (Linked /\ Plainly => Matched)

LEMMA TameFacts ==
  ASSUME Plainly, NEW u \in Files, NEW n \in Metamorphic(u)
  PROVE  /\ n \in Statics(u) \ (Tables(u) \cup TakenIn(unit[u].code))
         /\ \A i \in DOMAIN prog.code[u][n] : ~prog.code[u][n][i].last
         /\ Reach(View(unit[u].code), n) \subseteq Local(u)
         /\ \A m \in Under(u, n) :
              \A i \in DOMAIN prog.code[u][m] : prog.code[u][m][i].how = "name"
BY DEF Plainly, NoSlots, Tame, Under

LEMMA MetamorphicLocal == \A u : Metamorphic(u) \subseteq Local(u)
BY DEF Metamorphic

LEMMA FrozenSlots ==
  ASSUME Running
  PROVE  /\ Plainly' = Plainly
         /\ \A f : Slotted(f)' = Slotted(f)
         /\ \A c : Spent(c)' = Spent(c)
         /\ \A u : Metamorphic(u)' = Metamorphic(u)
         /\ \A u, n : Under(u, n)' = Under(u, n)
<1>0. UNCHANGED <<prog, graph, unit>>
  BY DEF Running
<1>1. \A u : Metamorphic(u)' = Metamorphic(u) /\ Statics(u)' = Statics(u)
            /\ Tables(u)' = Tables(u) /\ Local(u)' = Local(u)
  BY <1>0, SameProgram
<1>2. \A code : View(code)' = View(code)
  BY <1>0 DEF View
<1>3. Plainly' = Plainly
  BY <1>0, <1>1, <1>2, Frozen DEF Plainly, NoSlots, Tame
<1>4. \A f : Slotted(f)' = Slotted(f)
  BY <1>1 DEF Slotted
<1>5. \A c : Spent(c)' = Spent(c)
  BY <1>0 DEF Spent, CodeOf
<1>6. \A u, n : Under(u, n)' = Under(u, n)
  BY <1>0, <1>2 DEF Under
<1> QED BY <1>1, <1>3, <1>4, <1>5, <1>6

\* What code outside may call, and what a pointer may lead to.
LEMMA OutsideUnslotted ==
  ASSUME Compiled, Plainly, NEW f \in Exported \cup Given PROVE ~Slotted(f)
<1>1. ASSUME NEW g \in Exported PROVE ~Slotted(g)
  <2>1. g \in Functions /\ g[1] \in Files /\ g[2] \in Local(g[1]) /\ g = <<g[1], g[2]>>
        /\ g \notin prog.static
    BY DEF Exported, Defined, Functions
  <2>2. g[2] \notin Statics(g[1])
    BY <2>1 DEF Statics
  <2> QED BY <2>1, <2>2, TameFacts DEF Slotted
<1>2. CASE f \in Given
  <2>1. PICK u \in Files, n \in Names :
        n \in TakenIn(unit[u].code) \cup Tables(u) /\ f = Meaning(u, n)
    BY <1>2 DEF Given
  <2>2. CASE n \in Local(u)
    <3>1. f = <<u, n>> /\ f[1] = u /\ f[2] = n
      BY <2>1, <2>2, MeaningLocal
    <3> QED BY <2>1, <3>1, TameFacts DEF Slotted
  <2>3. CASE n \notin Local(u)
    BY <1>1, <2>1, <2>3, MeaningFar DEF Slotted
  <2> QED BY <2>2, <2>3
<1> QED BY <1>1, <1>2

\* A call goes through a slot exactly if its callee returns through it.
LEMMA SlotCall ==
  ASSUME Compiled, Linked, Plainly, NEW u, NEW m, NEW i, NEW then, Makes(u, m, i, then)
  PROVE  LET site == unit[u].code[m][i]
         IN  /\ Slotted(Meaning(u, site.to)) <=>
                  site.form # "pointer" /\ site.to \in Metamorphic(u)
             /\ site.to \in Metamorphic(u) => Meaning(u, site.to) \in Functions
<1> DEFINE site == unit[u].code[m][i]
<1>0. prog \in Programs /\ u \in Files /\ m \in DOMAIN unit[u].code /\ i \in DOMAIN unit[u].code[m]
  BY DEF Compiled, Makes
<1>1. Sound(u, unit[u].code)
  BY <1>0, LinkedFit DEF Fit
<1>2. /\ site \in LoweredSite /\ site.to \in Names
      /\ site.form = "pointer" => site.to \in TakenIn(unit[u].code) \cup Tables(u)
  BY <1>0, <1>1, TakenFrom
<1> HIDE DEF site
<1>3. ASSUME site.to \in Metamorphic(u)
      PROVE  site.form # "pointer" /\ Slotted(Meaning(u, site.to)) /\ Meaning(u, site.to) \in Functions
  <2>1. Meaning(u, site.to) = <<u, site.to>>
    BY <1>3, MetamorphicLocal, MeaningLocal
  <2>2. <<u, site.to>> \in Functions /\ <<u, site.to>> # Outside
    BY <1>0, <1>2, NamesAssumption DEF Functions
  <2>3. site.to \notin TakenIn(unit[u].code) \cup Tables(u)
    BY <1>0, <1>3, TameFacts
  <2> QED BY <1>2, <1>3, <2>1, <2>2, <2>3 DEF Slotted
<1>4. ASSUME Slotted(Meaning(u, site.to)) PROVE site.to \in Metamorphic(u)
  <2>1. CASE site.to \in Local(u)
    BY <1>4, <2>1, MeaningLocal DEF Slotted
  <2>2. CASE site.to \notin Local(u)
    BY <1>4, <2>2, MeaningFar, OutsideUnslotted DEF Slotted
  <2> QED BY <2>1, <2>2
<1> QED BY <1>3, <1>4 DEF site

\* A metamorphic function calls nothing last; a tail call has nothing after it.
LEMMA TailSpent ==
  ASSUME Compiled, Linked, Plainly, NEW u, NEW m, NEW i, NEW then, Makes(u, m, i, then),
         unit[u].code[m][i].form = "tail"
  PROVE  /\ m \notin Metamorphic(u)
         /\ \A c : c.at = then => Spent(c)
         /\ unit[u].code[m][i].to \notin Metamorphic(u)
<1>0. u \in Files /\ m \in DOMAIN unit[u].code /\ i \in DOMAIN unit[u].code[m]
      /\ <<u, m>> \in Functions
  BY DEF Makes
<1>1. Sound(u, unit[u].code)
  BY <1>0, LinkedFit DEF Fit
<1>2. /\ unit[u].code[m][i].last /\ prog.code[u][m][i].last /\ i \in DOMAIN prog.code[u][m]
      /\ unit[u].code[m][i].to \notin Metamorphic(u) /\ unit[u].code[m] \in Seq(LoweredSite)
  BY <1>0, <1>1 DEF Sound, From
<1>3. m \notin Metamorphic(u)
  BY <1>0, <1>2, TameFacts
<1>4. then.pc = Len(unit[u].code[m]) + 1 /\ then.fn = <<u, m>> /\ <<u, m>> # Outside
  BY <1>0, <1>2, NamesAssumption DEF Makes, Functions
<1>5. Len(unit[u].code[m]) + 1 > Len(unit[u].code[m])
  <2>1. Len(unit[u].code[m]) \in Nat
    BY <1>2
  <2> QED BY <2>1
<1>6. \A c : c.at = then => Spent(c)
  <2>1. CodeOf(then.fn) = unit[u].code[m]
    BY <1>4 DEF CodeOf
  <2>2. then.fn # Outside /\ then.pc > Len(CodeOf(then.fn))
    BY <1>4, <1>5, <2>1
  <2> QED BY <2>2 DEF Spent
<1> QED BY <1>2, <1>3, <1>6

LEMMA OnceGrows ==
  ASSUME Running, Once, NEW N \in Nat \ {0}, N = Len(calls) + 1, Len(calls') = N,
         \A k \in 1..N : Who(k)' = Who(k),
         \A u \in Files : \A n \in Metamorphic(u) :
           Who(N) \in {u} \X Under(u, n) => Who(N + 1)' \in {u} \X Reach(View(unit[u].code), n)
  PROVE  Once'
<1> SUFFICES ASSUME NEW u \in Files, NEW n \in Metamorphic(u)', NEW i \in 1..(N + 1),
                    NEW j \in 1..(N + 1), i < j, Who(i)' \in {u} \X Under(u, n)'
             PROVE  Who(j)' \in {u} \X Reach(View(unit[u].code), n)'
  BY DEF Once
<1>0. Reach(View(unit[u].code), n)' = Reach(View(unit[u].code), n)
  BY DEF Running, View
<1>1. i \in 1..N /\ Who(i) \in {u} \X Under(u, n) /\ n \in Metamorphic(u)
  <2>1. i \in 1..N
    OBVIOUS
  <2> QED BY <2>1, FrozenSlots
<1>2. ASSUME NEW l \in 1..N, i < l PROVE Who(l) \in {u} \X Reach(View(unit[u].code), n)
  BY <1>1, <1>2 DEF Once
<1>3. CASE j \in 1..N
  BY <1>0, <1>2, <1>3
<1>4. CASE j = N + 1
  <2>1. Who(N) \in {u} \X Under(u, n)
    <3>1. i = N \/ i < N
      BY <1>1
    <3> QED BY <1>1, <1>2, <3>1 DEF Under
  <2> QED BY <1>0, <1>1, <1>4, <2>1
<1> QED BY <1>3, <1>4

LEMMA OnceShrinks ==
  ASSUME Running, Once, NEW k \in 1..Len(calls), Len(calls) \in Nat, Len(calls') = k - 1,
         \A l \in 1..k : Who(l)' = Who(l)
  PROVE  Once'
<1> SUFFICES ASSUME NEW u \in Files, NEW n \in Metamorphic(u)', NEW i \in 1..k,
                    NEW j \in 1..k, i < j, Who(i)' \in {u} \X Under(u, n)'
             PROVE  Who(j)' \in {u} \X Reach(View(unit[u].code), n)'
  BY DEF Once
<1>0. Reach(View(unit[u].code), n)' = Reach(View(unit[u].code), n)
  BY DEF Running, View
<1>1. Who(i) \in {u} \X Under(u, n) /\ n \in Metamorphic(u) /\ i \in 1..(Len(calls) + 1)
      /\ j \in 1..(Len(calls) + 1)
  BY FrozenSlots
<1> QED BY <1>0, <1>1 DEF Once

\* A metamorphic function is active once.
LEMMA Unique ==
  ASSUME Compiled, Linked, Once, NEW i \in 1..(Len(calls) + 1), NEW j \in 1..(Len(calls) + 1),
         i < j, Slotted(Who(i)), Who(i) \in Functions
  PROVE  Who(j) # Who(i)
<1>1. PICK u \in Files, n \in Names : Who(i) = <<u, n>> /\ n \in Metamorphic(u)
  BY DEF Functions, Slotted
<1>2. Who(j) \in {u} \X Reach(View(unit[u].code), n)
  BY <1>1 DEF Once, Under
<1>3. n \notin Reach(View(unit[u].code), n)
  BY <1>1, LinkedFit DEF Fit
<1> QED BY <1>1, <1>2, <1>3

\* What a metamorphic function reaches it reaches by direct calls in its file.
LEMMA OnceOnward ==
  ASSUME Compiled, Linked, Plainly, NEW v, NEW m, NEW i, NEW then, Makes(v, m, i, then),
         NEW u \in Files, NEW n \in Metamorphic(u), <<v, m>> \in {u} \X Under(u, n)
  PROVE  Meaning(v, unit[v].code[m][i].to) \in {u} \X Reach(View(unit[u].code), n)
<1> DEFINE site == unit[u].code[m][i]
<1>0. v = u /\ m \in Under(u, n) /\ m \in DOMAIN unit[u].code /\ i \in DOMAIN unit[u].code[m]
      /\ prog \in Programs /\ site.form # "spliced" /\ <<u, m>> \in Functions
  BY DEF Makes, Compiled
<1>1. Sound(u, unit[u].code)
  BY LinkedFit DEF Fit
<1>2. site \in LoweredSite /\ site.to \in Names
  BY <1>0, <1>1, TakenFrom
<1>3. site.form # "pointer"
  <2>1. From(unit[u].code[m], prog.code[u][m], Metamorphic(u))
    BY <1>0, <1>1 DEF Sound
  <2> QED BY <1>0, <2>1, TameFacts DEF From
<1>4. site.to \in Callees(unit[u].code[m])
  BY <1>0, <1>2, <1>3 DEF LoweredSite, Form, Callees
<1>5. site.to \in View(unit[u].code)[m]
  BY <1>0, <1>4 DEF View, Functions
<1>6. site.to \in Reach(View(unit[u].code), n)
  <2> HIDE DEF site
  <2>1. m = n \/ m \in Reach(View(unit[u].code), n)
    BY <1>0 DEF Under
  <2> QED BY <1>2, <1>5, <2>1, ReachFirst, ReachNext
<1>7. Meaning(u, site.to) = <<u, site.to>>
  BY <1>6, TameFacts, MeaningLocal
<1> QED BY <1>0, <1>6, <1>7

LEMMA UniqueNext ==
  ASSUME Compiled, Linked, Running, Once', NEW i \in 1..(Len(calls') + 1),
         NEW j \in 1..(Len(calls') + 1), i < j, Slotted(Who(i)'), Who(i)' \in Functions
  PROVE  Who(j)' # Who(i)'
<1>1. PICK u \in Files, n \in Names : Who(i)' = <<u, n>> /\ n \in Metamorphic(u)
  BY DEF Functions, Slotted
<1>2. n \in Metamorphic(u)' /\ Who(i)' \in {u} \X Under(u, n)'
  BY <1>1, FrozenSlots DEF Under
<1>3. Who(j)' \in {u} \X Reach(View(unit[u].code), n)'
  BY <1>2 DEF Once
<1>4. Reach(View(unit[u].code), n)' = Reach(View(unit[u].code), n)
  BY DEF Running, View
<1>5. n \notin Reach(View(unit[u].code), n)
  BY <1>1, LinkedFit DEF Fit
<1> QED BY <1>1, <1>3, <1>4, <1>5

\* One call more, with a return address or without one.
Extends(N) ==
  /\ N = Len(calls) + 1 /\ Len(calls') = N /\ DOMAIN calls' = 1..N
  /\ DOMAIN calls = 1..(N - 1) /\ \A k \in 1..(N - 1) : calls'[k] = calls[k]
  /\ \A k \in 1..N : Who(k)' = Who(k)

LEMMA PlacedPush ==
  ASSUME Running, NEW N \in Nat \ {0}, Extends(N), NEW pos, Placed(pos), back \in Seq(Place),
         NEW p \in Place, back' = Append(back, p), calls'[N].at = p, ~Slotted(Who(N + 1)')
  PROVE  \E q : Placed(q)'
<1>0. PICK b \in Nat : b = Len(back)
  BY DEF Placed
<1> DEFINE q == [i \in 1..(b + 1) |-> IF i = b + 1 THEN N ELSE pos[i]]
<1>1. Len(back') = b + 1 /\ back'[b + 1] = p /\ \A i \in 1..b : back'[i] = back[i]
  BY <1>0
<1>2. \A i \in 1..b : /\ pos[i] \in 1..(N - 1) /\ q[i] = pos[i] /\ calls'[pos[i]] = calls[pos[i]]
                      /\ Who(pos[i] + 1)' = Who(pos[i] + 1)
  <2> SUFFICES ASSUME NEW i \in 1..b
               PROVE  /\ pos[i] \in 1..(N - 1) /\ q[i] = pos[i] /\ calls'[pos[i]] = calls[pos[i]]
                      /\ Who(pos[i] + 1)' = Who(pos[i] + 1)
    OBVIOUS
  <2>1. pos[i] \in 1..(N - 1)
    BY <1>0 DEF Placed, Extends
  <2>2. q[i] = pos[i]
    BY <1>0
  <2>3. pos[i] + 1 \in 1..N
    BY <2>1
  <2> QED BY <2>1, <2>2, <2>3 DEF Extends
<1>3. q[b + 1] = N
  OBVIOUS
<1>4. q \in [1..Len(back') -> DOMAIN calls']
  <2>1. \A i \in 1..(b + 1) : q[i] \in 1..N
    <3>1. \A i \in 1..(b + 1) : i \in 1..b \/ i = b + 1
      BY <1>0
    <3>2. \A i \in 1..b : q[i] \in 1..N
      <4>1. \A k \in 1..(N - 1) : k \in 1..N
        OBVIOUS
      <4> HIDE DEF q
      <4> QED BY <1>2, <4>1
    <3>3. q[b + 1] \in 1..N
      BY <1>3
    <3> QED BY <3>1, <3>2, <3>3
  <2>2. DOMAIN calls' = 1..N
    BY DEF Extends
  <2> QED BY <1>1, <2>1, <2>2
<1> HIDE DEF q
<1>5. \A i, j \in 1..Len(back') : i < j => q[i] < q[j]
  <2> SUFFICES ASSUME NEW i \in 1..(b + 1), NEW j \in 1..(b + 1), i < j PROVE q[i] < q[j]
    BY <1>1
  <2>1. i \in 1..b /\ (j \in 1..b \/ j = b + 1)
    BY <1>0
  <2>2. CASE j \in 1..b
    BY <1>0, <1>2, <2>1, <2>2 DEF Placed
  <2>3. CASE j = b + 1
    BY <1>2, <1>3, <2>1, <2>3
  <2> QED BY <2>1, <2>2, <2>3
<1>6. ASSUME NEW i \in 1..Len(back')
      PROVE  calls'[q[i]].at = back'[i] /\ ~Slotted(Who(q[i] + 1)')
  <2>1. i \in 1..b \/ i = b + 1
    BY <1>0, <1>1
  <2>2. CASE i \in 1..b
    BY <1>0, <1>1, <1>2, <2>2 DEF Placed
  <2>3. CASE i = b + 1
    BY <1>1, <1>3, <2>3
  <2> QED BY <2>1, <2>2, <2>3
<1>7. ASSUME NEW k \in DOMAIN calls', \A i \in 1..Len(back') : q[i] # k
      PROVE  /\ Spent(calls'[k]) \/ Slotted(Who(k + 1)')
             /\ Slotted(Who(k)') => Slotted(Who(k + 1)')
  <2>1. k # N /\ \A i \in 1..b : pos[i] # k
    <3>1. b + 1 \in 1..Len(back') /\ \A i \in 1..b : i \in 1..Len(back')
      BY <1>0, <1>1
    <3> QED BY <1>2, <1>3, <1>7, <3>1
  <2>2. k \in 1..(N - 1) /\ k \in 1..N /\ k + 1 \in 1..N
    BY <2>1 DEF Extends
  <2>3. Who(k)' = Who(k) /\ Who(k + 1)' = Who(k + 1) /\ calls'[k] = calls[k] /\ k \in DOMAIN calls
    BY <2>2 DEF Extends
  <2> QED BY <1>0, <2>1, <2>3 DEF Placed
<1>8. Placed(q)'
  BY <1>4, <1>5, <1>6, <1>7, FrozenSlots DEF Placed
<1> QED BY <1>8

LEMMA PlacedWait ==
  ASSUME Running, NEW N \in Nat \ {0}, Extends(N), NEW pos, Placed(pos), back' = back,
         Slotted(Who(N + 1)') \/ (Spent(calls'[N]) /\ ~Slotted(Who(N)'))
  PROVE  Placed(pos)'
<1>1. \A i \in 1..Len(back) : /\ pos[i] \in 1..(N - 1) /\ calls'[pos[i]] = calls[pos[i]]
                              /\ Who(pos[i] + 1)' = Who(pos[i] + 1)
  BY DEF Placed, Extends
<1>2. pos \in [1..Len(back) -> DOMAIN calls']
  <2>1. DOMAIN calls \subseteq DOMAIN calls'
    BY DEF Extends
  <2> QED BY <2>1 DEF Placed
<1>3. ASSUME NEW k \in DOMAIN calls', \A i \in 1..Len(back) : pos[i] # k
      PROVE  /\ Spent(calls'[k]) \/ Slotted(Who(k + 1)')
             /\ Slotted(Who(k)') => Slotted(Who(k + 1)')
  <2>1. CASE k = N
    BY <2>1
  <2>2. CASE k # N
    <3>1. k \in 1..(N - 1) /\ k \in 1..N /\ k + 1 \in 1..N
      BY <2>2 DEF Extends
    <3>2. Who(k)' = Who(k) /\ Who(k + 1)' = Who(k + 1) /\ calls'[k] = calls[k] /\ k \in DOMAIN calls
      BY <3>1 DEF Extends
    <3> QED BY <1>3, <3>2 DEF Placed
  <2> QED BY <2>1, <2>2
<1>4. \A i, j \in 1..Len(back) : i < j => pos[i] < pos[j]
  BY DEF Placed
<1>5. ASSUME NEW i \in 1..Len(back)
      PROVE  calls'[pos[i]].at = back[i] /\ ~Slotted(Who(pos[i] + 1)')
  <2>1. calls[pos[i]].at = back[i] /\ ~Slotted(Who(pos[i] + 1))
    BY DEF Placed
  <2> QED BY <1>1, <2>1
<1> QED BY <1>2, <1>3, <1>4, <1>5, FrozenSlots DEF Placed

\* Above an active metamorphic function, unless it runs itself, a call waits
\* that has a return address.
LEMMA Descent ==
  ASSUME calls \in Seq(Call), NEW pos, Placed(pos), ~Slotted(here.fn),
         NEW k \in DOMAIN calls, Slotted(Who(k + 1))
  PROVE  \E i \in 1..Len(back) : pos[i] > k
<1>0. PICK n \in Nat : n = Len(calls) /\ DOMAIN calls = 1..n
  OBVIOUS
<1> DEFINE S == { l \in 0..(n + 1) : l > k /\ Slotted(Who(l)) }
<1>1. k + 1 \in S
  BY <1>0
<1>2. PICK l \in S : \A x \in S : x <= l
  <2>1. S \in SUBSET (0..(n + 1)) /\ S # {} /\ n + 1 \in Nat
    BY <1>1
  <2> HIDE DEF S
  <2> QED BY <2>1, Greatest
<1>3. Who(n + 1) = here.fn
  BY <1>0 DEF Who
<1>4. l \in DOMAIN calls /\ l > k /\ Slotted(Who(l))
  BY <1>0, <1>3
<1>5. ~Slotted(Who(l + 1))
  <2>1. l + 1 \in 0..(n + 1) /\ l + 1 > k /\ ~(l + 1 <= l)
    BY <1>0, <1>4
  <2> QED BY <1>2, <2>1
<1>6. \E i \in 1..Len(back) : pos[i] = l
  BY <1>4, <1>5 DEF Placed
<1> QED BY <1>4, <1>6

\* The last return address is there, and those who called since are spent.
LEMMA LastPlace ==
  ASSUME calls \in Seq(Call), calls # <<>>, back \in Seq(Place), NEW pos, Placed(pos),
         Who(1) = Outside, ~BySlot
  PROVE  /\ Len(back) \in Nat \ {0} /\ back # <<>>
         /\ pos[Len(back)] \in Answers(Target)
         /\ \A i \in 1..Len(back) : pos[i] <= pos[Len(back)]
<1>0. ~Slotted(here.fn)
  BY DEF BySlot, Slotted
<1>1. 1 \in DOMAIN calls /\ DOMAIN calls = 1..Len(calls) /\ Len(calls) \in Nat
  OBVIOUS
<1>2. ~Spent(calls[1])
  BY <1>1 DEF Who, Spent
<1>3. \E i \in 1..Len(back) : TRUE
  <2>1. CASE \E i \in 1..Len(back) : pos[i] = 1
    BY <2>1
  <2>2. CASE \A i \in 1..Len(back) : pos[i] # 1
    BY <1>0, <1>1, <1>2, <2>2, Descent DEF Placed
  <2> QED BY <2>1, <2>2
<1>4. PICK b \in Nat \ {0} : b = Len(back)
  BY <1>3
<1>5. back # <<>> /\ Target = back[b]
  BY <1>4 DEF Target
<1>6. \A i \in 1..b : pos[i] \in 1..Len(calls)
  BY <1>1, <1>4 DEF Placed
<1>7. \A i \in 1..b : pos[i] <= pos[b]
  <2> SUFFICES ASSUME NEW i \in 1..b PROVE pos[i] <= pos[b]
    OBVIOUS
  <2>1. CASE i = b
    BY <1>6, <2>1
  <2>2. CASE i < b
    <3>1. pos[i] < pos[b]
      BY <1>4, <2>2 DEF Placed
    <3> QED BY <1>4, <1>6, <3>1
  <2> QED BY <2>1, <2>2
<1>8. calls[pos[b]].at = Target /\ pos[b] \in DOMAIN calls
  BY <1>1, <1>4, <1>5, <1>6 DEF Placed
<1>9. ASSUME NEW j \in (pos[b] + 1)..Len(calls) PROVE Spent(calls[j])
  <2>1. j \in DOMAIN calls /\ j > pos[b]
    BY <1>1, <1>4, <1>6
  <2>2. \A i \in 1..b : ~(pos[i] >= j)
    BY <1>1, <1>4, <1>6, <1>7, <2>1
  <2>3. \A i \in 1..b : pos[i] # j /\ ~(pos[i] > j)
    BY <1>1, <1>6, <2>1, <2>2
  <2> QED BY <1>0, <1>4, <2>1, <2>3, Descent DEF Placed
<1> QED BY <1>4, <1>5, <1>7, <1>8, <1>9 DEF Answers

\* The caller of a metamorphic function is the last one that called.
LEMMA SlotPlace ==
  ASSUME calls \in Seq(Call), calls # <<>>, SlotsHold, BySlot
  PROVE  Len(calls) \in DOMAIN calls /\ Len(calls) \in Answers(Target)
<1>1. PICK n \in Nat \ {0} : n = Len(calls) /\ DOMAIN calls = 1..n
  OBVIOUS
<1>2. Who(n + 1) = here.fn /\ Slotted(here.fn)
  BY <1>1 DEF Who, BySlot, Slotted
<1>3. calls[n].at = Target
  BY <1>1, <1>2 DEF SlotsHold, Target
<1>4. \A j \in (n + 1)..n : Spent(calls[j])
  OBVIOUS
<1> QED BY <1>1, <1>3, <1>4 DEF Answers

LEMMA ReturnMatched ==
  ASSUME HeldInv, Return, Plainly, Matched PROVE Matched'
<1>0. CallInv /\ Compiled /\ calls \in Seq(Call) /\ back \in Seq(Place) /\ calls # <<>> /\ Once /\ SlotsHold
  BY DEF HeldInv, CallInv, Threaded, Bounded, Matched, Return
<1>1. Running /\ Linked /\ slot' = slot
      /\ back' = IF BySlot \/ back = <<>> THEN back ELSE SubSeq(back, 1, Len(back) - 1)
  BY <1>0, ReturnShrinks
<1>2. PICK k \in 1..Len(calls) :
        /\ k \in DOMAIN calls /\ k \in Answers(Target) /\ \A l \in Answers(Target) : l <= k
        /\ Len(calls) \in Nat /\ here' = calls[k].at /\ Len(calls') = k - 1 /\ DOMAIN calls' = 1..(k - 1)
        /\ \A l \in 1..(k - 1) : calls'[l] = calls[l]
        /\ \A l \in 1..k : Who(l)' = Who(l)
  BY <1>0, ReturnShrinks
<1>3. PICK pos : Placed(pos)
  BY DEF Matched
<1>4. Who(1)' = Outside
  BY <1>2 DEF Matched
<1>5. Once'
  BY <1>0, <1>1, <1>2, OnceShrinks
<1>6. \A l \in 1..(k - 1) : /\ l \in DOMAIN calls /\ calls'[l] = calls[l]
                            /\ Who(l)' = Who(l) /\ Who(l + 1)' = Who(l + 1)
  <2>1. \A l \in 1..(k - 1) : l \in 1..k /\ l + 1 \in 1..k /\ l \in 1..Len(calls)
    BY <1>2
  <2> QED BY <1>0, <1>2, <2>1
<1>7. SlotsHold'
  BY <1>1, <1>2, <1>6, FrozenSlots, <1>0 DEF SlotsHold
<1>8. CASE BySlot
  <2>1. k = Len(calls)
    <3>1. Len(calls) \in DOMAIN calls /\ Len(calls) \in Answers(Target)
      BY <1>0, <1>8, SlotPlace
    <3> QED BY <1>2, <3>1
  <2>2. Slotted(Who(k + 1)) /\ back' = back
    BY <1>1, <1>2, <1>8, <2>1, <1>0 DEF BySlot, Slotted, Who
  <2>3. \A i \in 1..Len(back) : pos[i] \in 1..(k - 1)
    <3>1. \A i \in 1..Len(back) : pos[i] \in 1..k /\ pos[i] # k
      BY <1>0, <1>3, <2>1, <2>2 DEF Placed
    <3> QED BY <1>2, <3>1
  <2>4. pos \in [1..Len(back') -> DOMAIN calls']
    BY <1>2, <1>3, <2>2, <2>3 DEF Placed
  <2>5. \A i, j \in 1..Len(back') : i < j => pos[i] < pos[j]
    BY <1>3, <2>2 DEF Placed
  <2>6. ASSUME NEW i \in 1..Len(back')
        PROVE  calls'[pos[i]].at = back'[i] /\ ~Slotted(Who(pos[i] + 1)')
    <3>1. calls[pos[i]].at = back[i] /\ ~Slotted(Who(pos[i] + 1)) /\ pos[i] \in 1..(k - 1)
      BY <1>3, <2>2, <2>3 DEF Placed
    <3> QED BY <1>6, <2>2, <3>1
  <2>7. ASSUME NEW l \in DOMAIN calls', \A i \in 1..Len(back') : pos[i] # l
        PROVE  /\ Spent(calls'[l]) \/ Slotted(Who(l + 1)')
               /\ Slotted(Who(l)') => Slotted(Who(l + 1)')
    BY <1>2, <1>3, <1>6, <2>2, <2>7 DEF Placed
  <2>8. Placed(pos)'
    BY <2>4, <2>5, <2>6, <2>7, <1>1, FrozenSlots DEF Placed
  <2> QED BY <1>4, <1>5, <1>7, <2>8 DEF Matched
<1>9. CASE ~BySlot
  <2>0. Who(1) = Outside
    BY DEF Matched
  <2>1. PICK b \in Nat \ {0} : b = Len(back) /\ back # <<>> /\ pos[b] \in Answers(Target)
                               /\ \A i \in 1..b : pos[i] <= pos[b]
    BY <1>0, <1>3, <1>9, <2>0, LastPlace
  <2>2. back' = SubSeq(back, 1, b - 1)
    BY <1>1, <1>9, <2>1
  <2>3. Len(back') = b - 1 /\ \A i \in 1..(b - 1) : back'[i] = back[i]
    BY <1>0, <2>1, <2>2
  <2>4. \A i \in 1..b : pos[i] \in 1..Len(calls)
    <3>1. pos \in [1..b -> DOMAIN calls]
      BY <1>3, <2>1 DEF Placed
    <3>2. DOMAIN calls = 1..Len(calls)
      BY <1>0
    <3> QED BY ONLY <3>1, <3>2
  <2>5. pos[b] <= k
    BY <1>2, <2>1
  <2>6. ASSUME NEW i \in 1..(b - 1) PROVE pos[i] \in 1..(k - 1) /\ i \in 1..Len(back)
    <3>1. pos[i] < pos[b] /\ i \in 1..b
      BY <1>3, <2>1 DEF Placed
    <3>2. pos[i] \in 1..Len(calls) /\ pos[b] \in 1..Len(calls)
      BY <2>1, <2>4, <3>1
    <3> QED BY <1>2, <2>1, <2>5, <3>1, <3>2
  <2> DEFINE q == [i \in 1..(b - 1) |-> pos[i]]
  <2>7. q \in [1..Len(back') -> DOMAIN calls'] /\ \A i \in 1..(b - 1) : q[i] = pos[i]
    BY <1>2, <2>3, <2>6
  <2> HIDE DEF q
  <2>8. \A i, j \in 1..Len(back') : i < j => q[i] < q[j]
    <3> SUFFICES ASSUME NEW i \in 1..(b - 1), NEW j \in 1..(b - 1), i < j PROVE q[i] < q[j]
      BY <2>3
    <3> QED BY <1>3, <2>6, <2>7 DEF Placed
  <2>9. ASSUME NEW i \in 1..Len(back')
        PROVE  calls'[q[i]].at = back'[i] /\ ~Slotted(Who(q[i] + 1)')
    <3>1. i \in 1..(b - 1) /\ i \in 1..Len(back) /\ q[i] = pos[i] /\ pos[i] \in 1..(k - 1)
      BY <2>3, <2>6, <2>7
    <3>2. calls[pos[i]].at = back[i] /\ ~Slotted(Who(pos[i] + 1))
      BY <1>3, <3>1 DEF Placed
    <3> QED BY <1>6, <2>3, <3>1, <3>2
  <2>10. ASSUME NEW l \in DOMAIN calls', \A i \in 1..Len(back') : q[i] # l
         PROVE  /\ Spent(calls'[l]) \/ Slotted(Who(l + 1)')
                /\ Slotted(Who(l)') => Slotted(Who(l + 1)')
    <3>1. l \in 1..(k - 1) /\ \A i \in 1..(b - 1) : pos[i] # l
      BY <1>2, <2>3, <2>7, <2>10
    <3>2. CASE l # pos[b]
      <4>1. \A i \in 1..Len(back) : pos[i] # l
        <5>1. \A i \in 1..Len(back) : i \in 1..(b - 1) \/ i = b
          BY <2>1
        <5> QED BY <3>1, <3>2, <5>1
      <4> QED BY <1>3, <1>6, <3>1, <4>1 DEF Placed
    <3>3. CASE l = pos[b]
      <4>1. calls[l].at = calls[k].at /\ l < k /\ Spent(calls[k])
        <5>1. l < k /\ k \in (l + 1)..Len(calls)
          BY <1>2, <3>1
        <5> QED BY <1>2, <2>1, <3>3, <5>1 DEF Answers
      <4>2. Spent(calls[l])
        BY <4>1 DEF Spent
      <4>3. Who(l) = Who(k)
        BY <1>2, <1>6, <3>1, <4>1 DEF Who
      <4>4. ~Slotted(Who(l))
        <5>1. l \in 1..(Len(calls) + 1) /\ k \in 1..(Len(calls) + 1)
          BY <1>2, <3>1
        <5>2. Slotted(Who(l)) => Who(l) \in Functions
          BY <1>1, <5>1 DEF HeldInv, AllPresent, Present, Slotted
        <5> QED BY <1>0, <1>1, <4>1, <4>3, <5>1, <5>2, Unique
      <4> QED BY <1>6, <3>1, <4>2, <4>4
    <3> QED BY <3>2, <3>3
  <2>11. Placed(q)'
    BY <2>7, <2>8, <2>9, <2>10, <1>1, FrozenSlots DEF Placed
  <2> QED BY <1>4, <1>5, <1>7, <2>11 DEF Matched
<1> QED BY <1>8, <1>9

LEMMA CallOutMatched ==
  ASSUME HeldInv, CallOut, Plainly, Matched PROVE Matched'
<1>0. CallInv /\ Compiled /\ calls \in Seq(Call) /\ back \in Seq(Place) /\ Once /\ SlotsHold
      /\ slot \in [Functions -> Place]
  BY DEF HeldInv, CallInv, Threaded, Bounded, Matched
<1>1. Running /\ Linked
  BY <1>0, CallOutMakes
<1>2. PICK u, m, i, then : Makes(u, m, i, then)
  BY <1>0, CallOutMakes
<1>3. PICK N \in Nat \ {0} : /\ Extends(N) /\ calls'[N].at = then /\ Who(N) = <<u, m>>
                             /\ Who(N + 1)' = Meaning(u, unit[u].code[m][i].to)
  BY <1>0, <1>1, <1>2, MakesGrown DEF Extends
<1> DEFINE site == unit[u].code[m][i]
           callee == Meaning(u, site.to)
           bySlot == site.form # "pointer" /\ site.to \in Metamorphic(u)
<1>4. /\ Slotted(callee) <=> bySlot
      /\ site.to \in Metamorphic(u) => callee \in Functions
  BY <1>0, <1>1, <1>2, SlotCall
<1>5. /\ slot' = IF bySlot THEN [slot EXCEPT ![callee] = then] ELSE slot
      /\ back' = IF bySlot \/ site.form = "tail" THEN back ELSE Append(back, then)
      /\ then \in Place
  BY <1>2 DEF Makes, GoodPlace
<1>6. site.form = "tail" => /\ m \notin Metamorphic(u) /\ \A c : c.at = then => Spent(c)
                            /\ site.to \notin Metamorphic(u)
  BY <1>0, <1>1, <1>2, TailSpent
<1> HIDE DEF site, callee, bySlot
<1>7. Who(1)' = Outside
  <2>1. 1 \in 1..N
    OBVIOUS
  <2> QED BY <1>3, <2>1 DEF Matched, Extends
<1>8. Once'
  <2>1. ASSUME NEW v \in Files, NEW n \in Metamorphic(v), Who(N) \in {v} \X Under(v, n)
        PROVE  Who(N + 1)' \in {v} \X Reach(View(unit[v].code), n)
    BY <1>0, <1>1, <1>2, <1>3, <2>1, OnceOnward
  <2> QED BY <1>0, <1>1, <1>3, <2>1, OnceGrows DEF Extends
<1>9. \A k \in 1..N : Slotted(Who(k)) => Who(k) \in Functions
  BY <1>1, <1>3 DEF HeldInv, AllPresent, Present, Slotted, Extends
<1>10. SlotsHold'
  <2> SUFFICES ASSUME NEW k \in 1..N, Slotted(Who(k + 1)') PROVE slot'[Who(k + 1)'] = calls'[k].at
    BY <1>1, <1>3, FrozenSlots DEF SlotsHold, Extends
  <2>1. CASE k = N
    <3>1. bySlot /\ callee \in Functions /\ Who(k + 1)' = callee
      BY <1>3, <1>4, <2>1 DEF callee, site, bySlot
    <3> QED BY <1>0, <1>3, <1>5, <2>1, <3>1
  <2>2. CASE k # N
    <3>1. k \in 1..(N - 1) /\ k \in DOMAIN calls /\ k + 1 \in 1..N /\ calls'[k] = calls[k]
          /\ Who(k + 1)' = Who(k + 1)
      BY <1>3, <2>2 DEF Extends
    <3>2. slot[Who(k + 1)] = calls[k].at
      BY <1>0, <3>1 DEF SlotsHold
    <3>3. Who(k + 1)' # Who(N + 1)'
      <4>1. /\ k + 1 \in 1..(Len(calls') + 1) /\ N + 1 \in 1..(Len(calls') + 1) /\ k + 1 < N + 1
            /\ Who(k + 1)' \in Functions
        BY <1>3, <1>9, <3>1 DEF Extends
      <4> QED BY <1>0, <1>1, <1>8, <4>1, UniqueNext
    <3>4. slot'[Who(k + 1)] = slot[Who(k + 1)]
      <4>1. Who(k + 1) # callee /\ Who(k + 1) \in Functions
        BY <1>3, <1>9, <3>1, <3>3 DEF callee, site
      <4> QED BY <1>0, <1>5, <4>1
    <3> QED BY <3>1, <3>2, <3>4
  <2> QED BY <2>1, <2>2
<1>11. PICK pos : Placed(pos)
  BY DEF Matched
<1>12. \E q : Placed(q)'
  <2>1. CASE bySlot
    <3>1. back' = back /\ Slotted(Who(N + 1)')
      BY <1>3, <1>4, <1>5, <2>1 DEF callee, site
    <3> QED BY <1>1, <1>3, <1>11, <3>1, PlacedWait
  <2>2. CASE ~bySlot /\ site.form = "tail"
    <3>1. back' = back /\ Spent(calls'[N])
      BY <1>3, <1>5, <1>6, <2>2
    <3>2. ~Slotted(Who(N)')
      <4>1. Who(N)' = <<u, m>>
        BY <1>3 DEF Extends
      <4> QED BY <1>6, <2>2, <4>1 DEF Slotted
    <3> QED BY <1>1, <1>3, <1>11, <3>1, <3>2, PlacedWait
  <2>3. CASE ~bySlot /\ site.form # "tail"
    <3>1. back' = Append(back, then) /\ ~Slotted(Who(N + 1)')
      BY <1>3, <1>4, <1>5, <2>3 DEF callee, site
    <3> QED BY <1>0, <1>1, <1>3, <1>5, <1>11, <3>1, PlacedPush
  <2> QED BY <2>1, <2>2, <2>3
<1> QED BY <1>7, <1>8, <1>10, <1>12 DEF Matched

LEMMA CallInMatched ==
  ASSUME HeldInv, CallIn, Plainly, Matched PROVE Matched'
<1>0. CallInv /\ Compiled /\ calls \in Seq(Call) /\ back \in Seq(Place) /\ Once /\ SlotsHold
      /\ prog \in Programs
  BY DEF HeldInv, CallInv, Threaded, Bounded, Matched, Compiled
<1>1. Running /\ Linked /\ here.fn = Outside /\ slot' = slot /\ back' = Append(back, Away)
  BY DEF CallIn, Running
<1>2. PICK f \in Exported \cup Given :
        /\ here' = Entry(f)
        /\ calls' = Append(calls, [at |-> Away,
                                   form |-> IF f \in Exported THEN "direct" ELSE "pointer"])
  BY DEF CallIn
<1>3. PICK c \in Call : calls' = Append(calls, c) /\ c.at = Away
  <2> DEFINE c == [at |-> Away, form |-> IF f \in Exported THEN "direct" ELSE "pointer"]
  <2>1. c \in Call
    BY DEF Call, Form, Away, GoodPlace, Place
  <2> QED BY <1>2, <2>1
<1>4. c.at.fn = here.fn /\ here'.fn = f /\ Away \in Place
  BY <1>1, <1>2, <1>3 DEF Away, Entry, Place
<1>5. PICK N \in Nat \ {0} : N = Len(calls) + 1
  BY <1>0
<1>6. Extends(N) /\ calls'[N].at = Away /\ Who(N) = Outside /\ Who(N + 1)' = f
  BY <1>0, <1>1, <1>3, <1>4, <1>5, Grown DEF Extends
<1>7. ~Slotted(f)
  BY <1>0, OutsideUnslotted
<1>8. Who(1)' = Outside
  <2>1. 1 \in 1..N
    OBVIOUS
  <2> QED BY <1>6, <2>1 DEF Matched, Extends
<1>9. Once'
  <2>1. ASSUME NEW v \in Files, NEW n \in Metamorphic(v), Who(N) \in {v} \X Under(v, n)
        PROVE  FALSE
    <3>1. n \in Names
      BY <1>0, MetamorphicLocal, SourceSites DEF Local
    <3>2. Under(v, n) \subseteq Names
      BY <3>1 DEF Under, Reach
    <3> QED BY <1>6, <2>1, <3>2, NamesAssumption
  <2> QED BY <1>0, <1>1, <1>6, <2>1, OnceGrows DEF Extends
<1>10. SlotsHold'
  <2> SUFFICES ASSUME NEW k \in 1..N, Slotted(Who(k + 1)') PROVE slot'[Who(k + 1)'] = calls'[k].at
    BY <1>1, <1>6, FrozenSlots DEF SlotsHold, Extends
  <2>1. k # N
    BY <1>6, <1>7
  <2>2. k \in DOMAIN calls /\ calls'[k] = calls[k] /\ Who(k + 1)' = Who(k + 1)
    <3>1. k \in 1..(N - 1) /\ k + 1 \in 1..N
      BY <2>1
    <3> QED BY <1>6, <3>1 DEF Extends
  <2> QED BY <1>0, <1>1, <2>2 DEF SlotsHold
<1>11. PICK pos : Placed(pos)
  BY DEF Matched
<1>12. \E q : Placed(q)'
  BY <1>0, <1>1, <1>4, <1>6, <1>7, <1>11, PlacedPush
<1> QED BY <1>8, <1>9, <1>10, <1>12 DEF Matched

LEMMA MatchedStays ==
  ASSUME Matched, Running, UNCHANGED <<calls, back, slot>>, here'.fn = here.fn PROVE Matched'
<1>1. \A k : Who(k)' = Who(k)
  BY DEF Who
<1>2. \A u, n : Reach(View(unit[u].code), n)' = Reach(View(unit[u].code), n)
  BY DEF Running, View
<1>3. Once'
  <2> SUFFICES ASSUME NEW u \in Files, NEW n \in Metamorphic(u)', NEW i \in 1..(Len(calls) + 1),
                      NEW j \in 1..(Len(calls) + 1), i < j, Who(i)' \in {u} \X Under(u, n)'
               PROVE  Who(j)' \in {u} \X Reach(View(unit[u].code), n)'
    BY DEF Once
  <2>1. Who(i) \in {u} \X Under(u, n) /\ n \in Metamorphic(u) /\ Once
    BY <1>1, FrozenSlots DEF Matched
  <2> QED BY <1>1, <1>2, <2>1 DEF Once
<1>4. SlotsHold'
  BY <1>1, FrozenSlots DEF Matched, SlotsHold
<1>5. PICK pos : Placed(pos)
  BY DEF Matched
<1>6. Placed(pos)'
  BY <1>1, <1>5, FrozenSlots DEF Placed
<1> QED BY <1>1, <1>3, <1>4, <1>6 DEF Matched

\* Before anything is called.
LEMMA MatchedEmpty ==
  ASSUME calls = <<>>, back = <<>>, here.fn = Outside PROVE Matched
<1>1. Who(1) = Outside
  BY DEF Who
<1>2. Once
  BY DEF Once
<1>3. SlotsHold
  BY DEF SlotsHold
<1>4. Placed(<<>>)
  <2>1. <<>> \in [1..Len(back) -> DOMAIN calls]
    <3>1. 1..Len(back) = {} /\ DOMAIN calls = {}
      OBVIOUS
    <3> QED BY <3>1
  <2> QED BY <2>1 DEF Placed
<1> QED BY <1>1, <1>2, <1>3, <1>4 DEF Matched

LEMMA ReturnInvStep == ReturnInv /\ [Next]_vars => ReturnInv'
<1> SUFFICES ASSUME ReturnInv, [Next]_vars PROVE ReturnInv'
  OBVIOUS
<1>0. HeldInv /\ HeldInv' /\ Compiled /\ Threaded /\ Bounded /\ here \in GoodPlace
  BY HeldStep DEF ReturnInv, HeldInv, CallInv, Threaded
<1>1. CASE AddUnit \/ CompileFile
  <2>1. calls' = <<>> /\ here' = Away /\ back' = <<>>
    <3>1. calls = <<>> /\ here = Away /\ back = <<>>
      BY <1>0, <1>1, NotYet DEF Bounded
    <3> QED BY <1>1, <3>1 DEF AddUnit, CompileFile
  <2>2. Matched'
    <3>1. DOMAIN calls' = {} /\ Len(calls') = 0 /\ 1..Len(back') = {}
      BY <2>1
    <3>2. Who(1)' = Outside
      BY <2>1, <3>1 DEF Who, Away
    <3>3. Once' /\ SlotsHold'
      BY <3>1 DEF Once, SlotsHold
    <3>4. Placed(<<>>)'
      <4>1. <<>> \in [1..Len(back') -> DOMAIN calls']
        BY <3>1
      <4> QED BY <3>1, <4>1 DEF Placed
    <3> QED BY <3>2, <3>3, <3>4 DEF Matched
  <2> QED BY <1>0, <2>2 DEF ReturnInv
<1>2. ASSUME Running, Linked, Plainly => (Matched => Matched') PROVE ReturnInv'
  BY <1>0, <1>2, Frozen, FrozenSlots DEF ReturnInv
<1>3. CASE Skip
  <2>1. Running /\ Linked /\ Calling /\ UNCHANGED <<calls, back, slot>>
        /\ here' = [here EXCEPT !.pc = @ + 1]
    BY <1>3 DEF Skip, Running
  <2>2. here'.fn = here.fn
    BY <1>0, <2>1, PlaceMoves
  <2> QED BY <1>2, <2>1, <2>2, MatchedStays
<1>4. CASE RunSpliced
  <2>1. Running /\ Linked /\ Calling /\ UNCHANGED <<calls, back, slot>>
        /\ here' = Next_(CodeOf(here.fn), here)
    BY <1>4 DEF RunSpliced, Running
  <2>2. here'.fn = here.fn
    BY <1>0, <2>1, PlaceMoves
  <2> QED BY <1>2, <2>1, <2>2, MatchedStays
<1>5. CASE CallOut
  BY <1>0, <1>2, <1>5, CallOutMakes, CallOutMatched DEF HeldInv
<1>6. CASE CallIn
  <2>1. Running /\ Linked
    BY <1>6 DEF CallIn, Running
  <2> QED BY <1>0, <1>2, <1>6, <2>1, CallInMatched
<1>7. CASE Return
  BY <1>0, <1>2, <1>7, ReturnShrinks, ReturnMatched DEF HeldInv
<1>8. CASE UNCHANGED vars
  <2>1. Running /\ here' = here /\ UNCHANGED <<calls, back, slot>>
    BY <1>8 DEF vars, Running
  <2>2. CASE Linked
    BY <1>2, <2>1, <2>2, MatchedStays
  <2>3. CASE ~Linked
    BY <1>0, <2>1, <2>3, Frozen DEF ReturnInv
  <2> QED BY <2>2, <2>3
<1> QED BY <1>1, <1>3, <1>4, <1>5, <1>6, <1>7, <1>8 DEF Next

LEMMA MatchedReturns ==
  ASSUME ReturnInv PROVE ReturnsRight
<1> SUFFICES ASSUME Linked, calls # <<>>, Plainly PROVE Answers(Target) # {}
  BY DEF ReturnsRight, Plainly
<1>1. Matched /\ calls \in Seq(Call) /\ back \in Seq(Place)
  BY DEF ReturnInv, HeldInv, CallInv, Threaded, Bounded
<1>2. CASE BySlot
  BY <1>1, <1>2, SlotPlace DEF Matched
<1>3. CASE ~BySlot
  <2>1. PICK pos : Placed(pos) /\ Who(1) = Outside
    BY <1>1 DEF Matched
  <2> QED BY <1>1, <1>3, <2>1, LastPlace
<1> QED BY <1>2, <1>3

\* Every return goes where the source's call left off, or where nothing is left
\* to do before (stackless.py:13, METAMORPHIC.md:87): with tail calls for every
\* program, and with returns through slots for the programs that are tame.
THEOREM EveryReturnAnswersACall == Spec => []ReturnsRight
<1>1. Init => ReturnInv
  <2> SUFFICES ASSUME Init PROVE ReturnInv
    OBVIOUS
  <2>1. calls = <<>> /\ back = <<>> /\ here.fn = Outside
    BY DEF Init, Away
  <2> QED BY <2>1, HeldInit, MatchedEmpty DEF ReturnInv
<1>2. Spec => []ReturnInv
  BY <1>1, ReturnInvStep, PTL DEF Spec
<1> QED BY <1>2, MatchedReturns, PTL

=============================================================================
