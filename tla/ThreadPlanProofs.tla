-------------------------- MODULE ThreadPlanProofs --------------------------
(***************************************************************************)
(* Proofs about ThreadPlan, for every program, pool of registers and       *)
(* choice of the allocator, and about the switchers of ThreadSwitch, for   *)
(* footprints of any length.                                               *)
(***************************************************************************)
EXTENDS ThreadPlan, ThreadSwitch, FiniteSetTheorems, SequenceTheorems, TLAPS

\* What the scan can see everything of: every function is exported, every
\* register written is named, and every file compiles.
Transparent(x) ==
  /\ x.exported = Functions
  /\ x.broken = {}
  /\ \A f \in Functions : x.implied[f] \subseteq x.fixed[f]

\* The strengthening: what is scanned is what is written, and the plan is the
\* one for what was scanned.
Agreement ==
  /\ Transparent(source) => \A f \in Functions : written[f] \subseteq scanned[f]
  /\ Planned => plan = Analyze(source, scanned)
  /\ pass = "second" =>
       \E found \in [Functions -> SUBSET Registers] : plan = Analyze(source, found)

IInv == TypeOK /\ Agreement

-----------------------------------------------------------------------------
(***************************************************************************)
(* The analysis.                                                           *)
(***************************************************************************)
LEMMA MembersType ==
  ASSUME NEW x, NEW side PROVE Members(x, side) \subseteq Functions
BY DEF Members, Closure

\* They hold the side's threads and are closed under calls.
LEMMA MembersClosed ==
  ASSUME NEW x \in Sources, NEW side \in Sides
  PROVE  /\ x.threads[side] \subseteq Members(x, side)
         /\ \A f \in Members(x, side) : x.calls[f] \subseteq Members(x, side)
<1>1. /\ x.threads[side] \subseteq Functions
      /\ \A f \in Functions : x.calls[f] \subseteq Functions
  BY SourceAssumption DEF SourceType
<1>2. \A f \in Functions : f \in Closure(x.calls, f)
  BY DEF Closure
<1>3. ASSUME NEW root, NEW f \in Closure(x.calls, root), NEW g \in x.calls[f]
      PROVE  g \in Closure(x.calls, root)
  <2>1. f \in Functions /\ g \in Functions
    BY <1>1, <1>3 DEF Closure
  <2> QED BY <1>3, <2>1 DEF Closure
<1> QED BY <1>1, <1>2, <1>3 DEF Members

LEMMA CutType ==
  ASSUME NEW left \in Nat, NEW right \in Nat, left + right > Len(Pool)
  PROVE  Cut(left, right) \in 0..Len(Pool)
<1> DEFINE n == Len(Pool)
<1>1. n \in Nat
  BY PoolAssumption
<1>2. \A num, den \in Nat : den > 0 => Round(num, den) \in Int
  BY DEF Round
<1>3. n * left \in Nat /\ left + right \in Nat /\ left + right > 0
  BY <1>1
<1>4. Round(n * left, left + right) \in Int
  BY <1>2, <1>3
<1> QED BY <1>1, <1>4 DEF Cut

\* The two ends of the pool, as images of intervals.
LEMMA EndsOfPool ==
  ASSUME NEW k \in 0..Len(Pool)
  PROVE  /\ Front(k) \subseteq Registers /\ Back(k) \subseteq Registers
         /\ IsFiniteSet(Front(k)) /\ IsFiniteSet(Back(k))
         /\ Cardinality(Front(k)) = k /\ Cardinality(Back(k)) = k
<1> DEFINE n == Len(Pool)
           low == n - k + 1
           front == [i \in 1..k |-> Pool[i]]
           back == [i \in low..n |-> Pool[i]]
<1>1. n \in Nat /\ k \in Nat /\ k <= n /\ low \in Int /\ low >= 1 /\ n \in Int
  BY PoolAssumption
<1>2. Front(k) \subseteq Registers /\ Back(k) \subseteq Registers
  BY <1>1 DEF Front, Back, Registers
<1>3. front \in Bijection(1..k, Front(k))
  <2>1. front \in Surjection(1..k, Front(k))
    BY DEF Front, Surjection
  <2>2. \A i, j \in 1..k : front[i] = front[j] => i = j
    BY <1>1, PoolAssumption
  <2> QED BY <2>1, <2>2 DEF Bijection, Injection, Surjection, IsInjective
<1>4. back \in Bijection(low..n, Back(k))
  <2>1. back \in Surjection(low..n, Back(k))
    BY DEF Back, Surjection
  <2>2. \A i, j \in low..n : back[i] = back[j] => i = j
    BY <1>1, PoolAssumption
  <2> QED BY <2>1, <2>2 DEF Bijection, Injection, Surjection, IsInjective
<1>5. IsFiniteSet(1..k) /\ Cardinality(1..k) = k
  BY <1>1, FS_Interval
<1>6. IsFiniteSet(low..n) /\ Cardinality(low..n) = k
  <2>1. (IF low > n THEN 0 ELSE n - low + 1) = k
    BY <1>1
  <2> HIDE DEF low, n
  <2>2. IsFiniteSet(low..n) /\ Cardinality(low..n) = IF low > n THEN 0 ELSE n - low + 1
    BY <1>1, FS_Interval
  <2> QED BY <2>1, <2>2
<1>7. IsFiniteSet(Front(k)) /\ Cardinality(Front(k)) = k
  BY <1>3, <1>5, FS_Bijection DEF ExistsBijection
<1>8. IsFiniteSet(Back(k)) /\ Cardinality(Back(k)) = k
  BY <1>4, <1>6, FS_Bijection DEF ExistsBijection
<1> QED BY <1>2, <1>7, <1>8

LEMMA RegistersFinite ==
  IsFiniteSet(Registers) /\ Cardinality(Registers) = Len(Pool)
<1>1. Len(Pool) \in 0..Len(Pool) /\ Registers = Front(Len(Pool))
  BY PoolAssumption DEF Registers, Front
<1> QED BY <1>1, EndsOfPool

\* _split_budget: budgets as large as the needs, and apart when these fit.
LEMMA SplitProperties ==
  ASSUME NEW left \in 0..Len(Pool), NEW right \in 0..Len(Pool)
  PROVE  LET share == SplitBudget(left, right)
         IN  /\ share \in [Sides -> SUBSET Registers]
             /\ Cardinality(share["left"]) >= left
             /\ Cardinality(share["right"]) >= right
             /\ left + right <= Len(Pool) =>
                  share["left"] \cap share["right"] = {}
<1> DEFINE n == Len(Pool)
<1>0. n \in Nat
  BY PoolAssumption
<1>1. CASE left + right <= n
  <2>1. SplitBudget(left, right) = [left |-> Front(left), right |-> Back(right)]
    BY <1>1 DEF SplitBudget
  <2>2. Front(left) \cap Back(right) = {}
    <3> SUFFICES ASSUME NEW i \in 1..left, NEW j \in (n - right + 1)..n, Pool[i] = Pool[j]
                 PROVE  FALSE
      BY DEF Front, Back
    <3> QED BY <1>0, <1>1, PoolAssumption
  <2>3. /\ Front(left) \subseteq Registers /\ Back(right) \subseteq Registers
        /\ Cardinality(Front(left)) = left /\ Cardinality(Back(right)) = right
    BY EndsOfPool
  <2> QED BY <2>1, <2>2, <2>3 DEF Sides
<1>2. CASE ~(left + right <= n)
  <2> DEFINE k == Larger(Cut(left, right), left)
             m == Larger(n - Cut(left, right), right)
  <2>1. Cut(left, right) \in 0..n
    BY <1>0, <1>2, CutType
  <2>2. k \in 0..n /\ m \in 0..n /\ k >= left /\ m >= right
    BY <1>0, <2>1 DEF Larger
  <2>3. SplitBudget(left, right) = [left |-> Front(k), right |-> Back(m)]
    BY <1>2 DEF SplitBudget
  <2> HIDE DEF k, m
  <2>4. /\ Front(k) \subseteq Registers /\ Back(m) \subseteq Registers
        /\ Cardinality(Front(k)) = k /\ Cardinality(Back(m)) = m
    BY <2>2, EndsOfPool
  <2> QED BY <1>2, <2>2, <2>3, <2>4 DEF Sides
<1> QED BY <1>1, <1>2

LEMMA FootprintType ==
  ASSUME NEW x, NEW side, NEW found \in [Functions -> SUBSET Registers]
  PROVE  /\ Footprint(x, found, side) \subseteq Registers
         /\ Cardinality(Footprint(x, found, side)) \in 0..Len(Pool)
<1>1. Footprint(x, found, side) \subseteq Registers
  BY MembersType DEF Footprint
<1>2. /\ IsFiniteSet(Footprint(x, found, side))
      /\ Cardinality(Footprint(x, found, side)) <= Len(Pool)
  BY <1>1, RegistersFinite, FS_Subset
<1>3. Cardinality(Footprint(x, found, side)) \in Nat /\ Len(Pool) \in Nat
  BY <1>2, FS_CardinalityType, PoolAssumption
<1> QED BY <1>1, <1>2, <1>3

LEMMA AnalyzeProperties ==
  ASSUME NEW x, NEW found \in [Functions -> SUBSET Registers]
  PROVE  LET p == Analyze(x, found)
         IN  /\ p \in Plans
             /\ \A side \in Sides : p.gp[side] = Footprint(x, found, side)
             /\ \A side \in Sides : Cardinality(p.share[side]) >= Cardinality(p.gp[side])
             /\ Cardinality(p.gp["left"]) + Cardinality(p.gp["right"]) <= Len(Pool)
                  => p.share["left"] \cap p.share["right"] = {}
<1> DEFINE gp == [side \in Sides |-> Footprint(x, found, side)]
           l == Cardinality(gp["left"])
           r == Cardinality(gp["right"])
           share == SplitBudget(l, r)
<1>1. gp \in [Sides -> SUBSET Registers] /\ l \in 0..Len(Pool) /\ r \in 0..Len(Pool)
  BY FootprintType DEF Sides
<1>2. Analyze(x, found) = [gp |-> gp, share |-> share]
  BY DEF Analyze
<1> HIDE DEF l, r
<1>3. /\ share \in [Sides -> SUBSET Registers]
      /\ Cardinality(share["left"]) >= l
      /\ Cardinality(share["right"]) >= r
      /\ l + r <= Len(Pool) => share["left"] \cap share["right"] = {}
  BY <1>1, SplitProperties
<1> HIDE DEF share
<1>4. [gp |-> gp, share |-> share] \in Plans
  BY <1>1, <1>3 DEF Plans
<1>5. \A side \in Sides : Cardinality(share[side]) >= Cardinality(gp[side])
  BY <1>3 DEF Sides, l, r
<1>6. Cardinality(gp["left"]) + Cardinality(gp["right"]) <= Len(Pool)
        => share["left"] \cap share["right"] = {}
  BY <1>3 DEF l, r
<1> QED BY <1>2, <1>4, <1>5, <1>6

LEMMA BudgetsType ==
  ASSUME NEW x, NEW p \in Plans
  PROVE  Budgets(x, p) \in [Functions -> SUBSET Registers]
BY DEF Budgets, Plans, Sides

-----------------------------------------------------------------------------
(***************************************************************************)
(* Every step keeps the invariant.                                         *)
(***************************************************************************)
LEMMA SourceFields ==
  ASSUME TypeOK
  PROVE  /\ Texts \in Seq(Seq(Functions))
         /\ Len(Texts) \in Nat
         /\ \A f \in Functions : /\ source.fixed[f] \subseteq Registers
                                 /\ source.implied[f] \subseteq Registers
<1>1. source \in SourceType
  BY SourceAssumption DEF TypeOK
<1>2. /\ source.files \in Seq(Seq(Functions))
      /\ source.fixed \in [Functions -> SUBSET Registers]
      /\ source.implied \in [Functions -> SUBSET Registers]
  BY <1>1 DEF SourceType
<1> QED BY <1>2 DEF Texts

LEMMA InitHolds == Init => IInv
<1> SUFFICES ASSUME Init PROVE IInv
  OBVIOUS
<1>1. source \in SourceType /\ source \in Sources
  BY SourceAssumption DEF Init
<1>2. 1 \in 1..(Len(Texts) + 1)
  <2>1. source.files \in Seq(Seq(Functions))
    BY <1>1 DEF SourceType
  <2> QED BY <2>1 DEF Texts
<1>3. Nothing \in [Functions -> SUBSET Registers]
  BY DEF Nothing
<1>4. TypeOK
  BY <1>1, <1>2, <1>3 DEF Init, TypeOK
<1>5. Agreement
  BY DEF Init, Agreement, Planned, Nothing
<1> QED BY <1>4, <1>5 DEF IInv

\* Which registers a function may get, and who is credited with them.
LEMMA CompileFunctionKeeps ==
  ASSUME IInv, CompileFunction PROVE IInv'
<1> DEFINE f == Texts[file][done + 1]
           pool == Applied(f)
           home == IF file \in source.broken THEN {} ELSE Label(f)
<1>1. TypeOK /\ Agreement
  BY DEF IInv
<1>2. f \in Functions
  <2>1. Texts[file] \in Seq(Functions)
    BY <1>1, SourceFields DEF CompileFunction, TypeOK
  <2>2. done + 1 \in 1..Len(Texts[file])
    BY <1>1, <2>1 DEF CompileFunction, TypeOK
  <2> HIDE DEF f
  <2> QED BY <2>1, <2>2 DEF f
<1>3. PICK S \in Allocations(f, pool) :
        /\ avail' = pool
        /\ label' = Label(f)
        /\ scanned' = [g \in Functions |->
             IF g \in home THEN scanned[g] \cup (S \cup source.fixed[f]) ELSE scanned[g]]
        /\ written' = [written EXCEPT ![f] = (S \cup source.fixed[f]) \cup source.implied[f]]
  BY DEF CompileFunction
<1>4. UNCHANGED <<source, pass, file, plan, budget>> /\ done' = done + 1
  BY DEF CompileFunction
<1> HIDE DEF f
<1>5. pool \subseteq Registers
  BY <1>1, <1>2 DEF Applied, TypeOK
<1>6. S \subseteq Registers
  BY DEF Allocations, Preferred, Registers
<1>7. /\ source.fixed[f] \subseteq Registers
      /\ source.implied[f] \subseteq Registers
  BY <1>1, <1>2, SourceFields
<1>8. TypeOK'
  <2>1. scanned' \in [Functions -> SUBSET Registers]
    BY <1>1, <1>3, <1>6, <1>7 DEF TypeOK
  <2>2. written' \in [Functions -> SUBSET Registers]
    BY <1>1, <1>3, <1>6, <1>7 DEF TypeOK
  <2>3. label' \subseteq Functions
    BY <1>1, <1>2, <1>3 DEF Label, TypeOK
  <2>4. avail' \subseteq Registers /\ done' \in Nat
    BY <1>1, <1>3, <1>4, <1>5 DEF TypeOK
  <2> QED BY <1>1, <1>4, <2>1, <2>2, <2>3, <2>4 DEF TypeOK, Texts
<1>9. Agreement'
  <2>1. ASSUME Transparent(source), NEW g \in Functions
        PROVE  written'[g] \subseteq scanned'[g]
    <3>1. written[g] \subseteq scanned[g]
      BY <1>1, <2>1 DEF Agreement
    <3>2. home = {f} /\ source.implied[f] \subseteq source.fixed[f]
      BY <1>2, <2>1 DEF Transparent, Label
    <3>3. CASE g = f
      <4>1. written'[g] = (S \cup source.fixed[f]) \cup source.implied[f]
        BY <1>1, <1>2, <1>3, <3>3 DEF TypeOK
      <4>2. scanned'[g] = scanned[g] \cup (S \cup source.fixed[f])
        BY <1>3, <3>2, <3>3
      <4> QED BY <3>2, <4>1, <4>2
    <3>4. CASE g # f
      <4>1. written'[g] = written[g] /\ scanned'[g] = scanned[g]
        BY <1>1, <1>3, <3>2, <3>4 DEF TypeOK
      <4> QED BY <3>1, <4>1
    <3> QED BY <3>3, <3>4
  <2>2. ~Planned'
    BY <1>4 DEF CompileFunction, Compiling, Planned
  <2>3. pass' = "second" =>
          \E found \in [Functions -> SUBSET Registers] : plan' = Analyze(source', found)
    BY <1>1, <1>4 DEF Agreement
  <2> QED BY <1>4, <2>1, <2>2, <2>3 DEF Agreement
<1> QED BY <1>8, <1>9 DEF IInv

LEMMA FinishFileKeeps ==
  ASSUME IInv, FinishFile PROVE IInv'
<1> USE DEF FinishFile
<1>1. file + 1 \in 1..(Len(Texts) + 1)
  BY SourceFields DEF IInv, TypeOK
<1>2. TypeOK'
  BY <1>1 DEF IInv, TypeOK, Texts
<1>3. Agreement'
  BY DEF IInv, Agreement, Planned, Compiling
<1> QED BY <1>2, <1>3 DEF IInv

LEMMA FeedBackKeeps ==
  ASSUME IInv, FeedBack PROVE IInv'
<1> DEFINE p == Analyze(source, scanned)
<1>1. scanned \in [Functions -> SUBSET Registers]
  BY DEF IInv, TypeOK
<1>2. p \in Plans
  BY <1>1, AnalyzeProperties
<1>3. /\ plan' = p /\ budget' = Budgets(source, p) /\ pass' = "second" /\ file' = 1
      /\ done' = 0 /\ avail' = Registers /\ label' = {} /\ scanned' = Nothing
      /\ written' = Nothing /\ source' = source
  BY DEF FeedBack
<1> HIDE DEF p
<1>4. Nothing \in [Functions -> SUBSET Registers]
  BY DEF Nothing
<1>5. 1 \in 1..(Len(Texts) + 1)
  BY SourceFields DEF IInv
<1>6. TypeOK'
  <2>1. budget' \in [Functions -> SUBSET Registers]
    BY <1>2, <1>3, BudgetsType
  <2>2. plan' \in Plans /\ plan' # Unplanned
    BY <1>2, <1>3, PlanAssumption
  <2> QED BY <1>3, <1>4, <1>5, <2>1, <2>2 DEF IInv, TypeOK, Texts
<1>7. Agreement'
  BY <1>1, <1>3 DEF Agreement, Planned, Nothing, p
<1> QED BY <1>6, <1>7 DEF IInv

LEMMA ReplanKeeps ==
  ASSUME IInv, Replan PROVE IInv'
<1>1. scanned \in [Functions -> SUBSET Registers]
  BY DEF IInv, TypeOK
<1>2. Analyze(source, scanned) \in Plans
  BY <1>1, AnalyzeProperties
<1>3. TypeOK'
  <2>1. plan' \in Plans /\ pass' = "emit"
    BY <1>2 DEF Replan
  <2>2. plan' # Unplanned
    BY <2>1, PlanAssumption
  <2> QED BY <2>1, <2>2 DEF IInv, TypeOK, Replan, Texts
<1>4. Agreement'
  BY DEF IInv, Agreement, Replan
<1> QED BY <1>3, <1>4 DEF IInv

LEMMA OutcomeKeeps ==
  ASSUME IInv, NoThreads \/ EmitBoth \/ EmitOne PROVE IInv'
<1>1. /\ UNCHANGED <<source, file, done, avail, label, scanned, written, plan, budget>>
      /\ \/ pass = "first" /\ pass' = "none"
         \/ pass = "emit" /\ pass' \in {"both", "one"}
  BY DEF NoThreads, EmitBoth, EmitOne
<1>2. TypeOK'
  BY <1>1 DEF IInv, TypeOK, Texts
<1>3. Agreement'
  BY <1>1 DEF IInv, Agreement, Planned
<1> QED BY <1>2, <1>3 DEF IInv

LEMMA StepKeeps == IInv /\ [Next]_vars => IInv'
<1> SUFFICES ASSUME IInv, [Next]_vars PROVE IInv'
  OBVIOUS
<1>1. CASE CompileFunction
  BY <1>1, CompileFunctionKeeps
<1>2. CASE FinishFile
  BY <1>2, FinishFileKeeps
<1>3. CASE FeedBack
  BY <1>3, FeedBackKeeps
<1>4. CASE Replan
  BY <1>4, ReplanKeeps
<1>5. CASE NoThreads \/ EmitBoth \/ EmitOne
  BY <1>5, OutcomeKeeps
<1>6. CASE UNCHANGED vars
  BY <1>6 DEF vars, IInv, TypeOK, Agreement, Planned, Texts
<1> QED BY <1>1, <1>2, <1>3, <1>4, <1>5, <1>6 DEF Next

THEOREM Invariant == Spec => []IInv
BY InitHolds, StepKeeps, PTL DEF Spec

\* Type correctness of the driver, for every program and pool.
THEOREM PlanTypeCorrect == Spec => []TypeOK
<1>1. IInv => TypeOK
  BY DEF IInv
<1> QED BY <1>1, Invariant, PTL

\* _split_budget (as analyze calls it): the budgets cover the needs, and are
\* apart whenever these fit in the pool.
THEOREM BudgetsStayApart == Spec => []BudgetsApart
<1>1. IInv => BudgetsApart
  <2> SUFFICES ASSUME IInv, pass = "second"
               PROVE  /\ \A side \in Sides :
                           Cardinality(plan.share[side]) >= Cardinality(plan.gp[side])
                      /\ Cardinality(plan.gp["left"]) + Cardinality(plan.gp["right"])
                           <= Len(Pool)
                           => plan.share["left"] \cap plan.share["right"] = {}
    BY DEF BudgetsApart
  <2>1. PICK found \in [Functions -> SUBSET Registers] : plan = Analyze(source, found)
    BY DEF IInv, Agreement
  <2> QED BY <2>1, AnalyzeProperties
<1> QED BY <1>1, Invariant, PTL

\* scan_asm_registers and analyze together: the switchers cover what the threads
\* write, when every function is exported and every register named.
THEOREM TransparentCovered == Spec => [](Transparent(source) => FootprintsCover)
<1>1. IInv => (Transparent(source) => FootprintsCover)
  <2> SUFFICES ASSUME IInv, Transparent(source), Planned, NEW side \in Sides
               PROVE  \E S \in SUBSET Covered(side) :
                        /\ source.threads[side] \subseteq S
                        /\ \A f \in S : source.calls[f] \subseteq S
    BY DEF FootprintsCover
  <2>1. plan.gp[side] = Footprint(source, scanned, side)
    <3>1. scanned \in [Functions -> SUBSET Registers]
      BY DEF IInv, TypeOK
    <3>2. plan = Analyze(source, scanned)
      BY DEF IInv, Agreement
    <3> QED BY <3>1, <3>2, AnalyzeProperties
  <2>2. Members(source, side) \subseteq Covered(side)
    <3> SUFFICES ASSUME NEW f \in Members(source, side) PROVE f \in Covered(side)
      OBVIOUS
    <3>1. f \in Functions
      BY MembersType
    <3>2. written[f] \subseteq scanned[f]
      BY <3>1 DEF IInv, Agreement
    <3>3. scanned[f] \subseteq Footprint(source, scanned, side)
      BY DEF Footprint
    <3> QED BY <2>1, <3>1, <3>2, <3>3 DEF Covered
  <2>3. /\ source.threads[side] \subseteq Members(source, side)
        /\ \A f \in Members(source, side) : source.calls[f] \subseteq Members(source, side)
    BY MembersClosed DEF IInv, TypeOK
  <2> QED BY <2>2, <2>3
<1> QED BY <1>1, Invariant, PTL

-----------------------------------------------------------------------------
(***************************************************************************)
(* Who the scan credits, and what with.                                    *)
(***************************************************************************)
\* What a function may be seen to use when it is compiled under budgets b.
Used(x, b, f) ==
  x.fixed[f] \cup
    (IF x.wants[f] = 0 THEN {}
     ELSE IF b[f] = {} \/ Cardinality(b[f]) = 1 THEN Registers ELSE b[f])

\* A side none of whose code wants a register.
Quiet(x, side) == \A f \in Credited(x, side) : x.wants[f] = 0

\* How far the compilation is, and under which label the scan reads.
LabelInv ==
  pass \in {"first", "second"} /\ file <= Len(Texts) =>
    /\ done <= Len(Texts[file])
    /\ label = LabelAt(source, file, done)

\* The first compilation finds registers wherever some are wanted.
FirstInv ==
  pass = "first" =>
    /\ \A f \in Functions : budget[f] = {}
    /\ \A i \in 1..Len(Texts) : \A n \in 1..Len(Texts[i]) :
         \A h \in LabelAt(source, i, n) :
           /\ i < file \/ (i = file /\ n <= done)
           /\ i \notin source.broken
           /\ source.wants[Texts[i][n]] > 0
           => scanned[h] # {}

Again == pass \in {"second", "emit", "both", "one"}

\* So unless a side is quiet both have budgets, and the second compilation
\* finds what these allow.
SecondInv ==
  Again =>
    /\ \/ \E side \in Sides : Quiet(source, side)
       \/ \A side \in Sides : \A f \in Members(source, side) : budget[f] # {}
    /\ \A h \in Functions : \A r \in scanned[h] :
         \E f \in CreditedTo(source, h) : r \in Used(source, budget, f)

CreditInv == LabelInv /\ FirstInv /\ SecondInv

LEMMA ProgramFields ==
  ASSUME TypeOK
  PROVE  /\ source \in Sources
         /\ \A i \in 1..Len(Texts) : /\ Texts[i] \in Seq(Functions)
                                     /\ Len(Texts[i]) \in Nat
                                     /\ \A n \in 1..Len(Texts[i]) : Texts[i][n] \in Functions
         /\ source.exported \subseteq Functions
         /\ \A f \in Functions : source.wants[f] \in Nat
         /\ file \in Nat \ {0} /\ done \in Nat /\ Len(Texts) \in Nat
<1>1. source \in Sources /\ source \in SourceType
  BY SourceAssumption DEF TypeOK
<1>2. /\ source.files \in Seq(Seq(Functions))
      /\ source.exported \subseteq Functions
      /\ source.wants \in [Functions -> Nat]
  BY <1>1 DEF SourceType
<1>3. ASSUME NEW i \in 1..Len(Texts)
      PROVE  /\ Texts[i] \in Seq(Functions) /\ Len(Texts[i]) \in Nat
             /\ \A n \in 1..Len(Texts[i]) : Texts[i][n] \in Functions
  <2>1. Texts[i] \in Seq(Functions)
    BY <1>2 DEF Texts
  <2> QED BY <2>1
<1>4. file \in Nat \ {0} /\ done \in Nat /\ Len(Texts) \in Nat
  BY <1>2 DEF TypeOK, Texts
<1> QED BY <1>1, <1>2, <1>3, <1>4

LEMMA LabelGrows ==
  ASSUME NEW x, NEW i, NEW n \in Nat
  PROVE  LabelAt(x, i, n + 1) = IF x.files[i][n + 1] \in x.exported
                                  THEN {x.files[i][n + 1]} ELSE LabelAt(x, i, n)
<1> DEFINE g == x.files[i][n + 1]
<1>1. CASE g \in x.exported
  <2>1. \A j \in 1..n : n + 1 \in (j + 1)..(n + 1)
    OBVIOUS
  <2>2. ASSUME NEW h \in LabelAt(x, i, n + 1) PROVE h = g
    <3>1. PICK j \in 1..(n + 1) : /\ x.files[i][j] = h
                                  /\ \A m \in (j + 1)..(n + 1) : x.files[i][m] \notin x.exported
      BY <2>2 DEF LabelAt
    <3>2. CASE j = n + 1
      BY <3>1, <3>2
    <3>3. CASE j \in 1..n
      BY <1>1, <2>1, <3>1, <3>3
    <3> QED BY <3>2, <3>3
  <2>3. g \in LabelAt(x, i, n + 1)
    <3>1. n + 1 \in 1..(n + 1) /\ (n + 1 + 1)..(n + 1) = {}
      OBVIOUS
    <3> QED BY <1>1, <3>1 DEF LabelAt
  <2> QED BY <1>1, <2>2, <2>3
<1>2. CASE g \notin x.exported
  <2>1. ASSUME NEW h \in LabelAt(x, i, n + 1) PROVE h \in LabelAt(x, i, n)
    <3>1. PICK j \in 1..(n + 1) : /\ x.files[i][j] = h
                                  /\ \A m \in (j + 1)..(n + 1) : x.files[i][m] \notin x.exported
      BY <2>1 DEF LabelAt
    <3>2. h \in x.exported
      BY <2>1 DEF LabelAt
    <3>3. j \in 1..n
      BY <1>2, <3>1, <3>2
    <3>4. \A m \in (j + 1)..n : m \in (j + 1)..(n + 1)
      OBVIOUS
    <3> QED BY <3>1, <3>2, <3>3, <3>4 DEF LabelAt
  <2>2. ASSUME NEW h \in LabelAt(x, i, n) PROVE h \in LabelAt(x, i, n + 1)
    <3>1. PICK j \in 1..n : /\ x.files[i][j] = h
                            /\ \A m \in (j + 1)..n : x.files[i][m] \notin x.exported
      BY <2>2 DEF LabelAt
    <3>2. j \in 1..(n + 1)
      OBVIOUS
    <3>3. \A m \in (j + 1)..(n + 1) : x.files[i][m] \notin x.exported
      BY <1>2, <3>1
    <3> QED BY <2>2, <3>1, <3>2, <3>3 DEF LabelAt
  <2> QED BY <1>2, <2>1, <2>2
<1> QED BY <1>1, <1>2

LEMMA NoLabelYet ==
  ASSUME NEW x, NEW i PROVE LabelAt(x, i, 0) = {}
BY DEF LabelAt

LEMMA CreditInit == Init => CreditInv
<1> SUFFICES ASSUME Init PROVE CreditInv
  OBVIOUS
<1>1. TypeOK
  BY InitHolds DEF IInv
<1>2. LabelInv
  <2>1. file <= Len(Texts) => Len(Texts[file]) \in Nat
    <3>1. file = 1 /\ Len(Texts) \in Nat
      BY <1>1, ProgramFields DEF Init
    <3> QED BY <1>1, <3>1, ProgramFields
  <2> QED BY <2>1, NoLabelYet DEF Init, LabelInv
<1>3. FirstInv
  BY <1>1, ProgramFields DEF Init, FirstInv, Nothing
<1>4. SecondInv
  BY DEF Init, SecondInv, Again
<1> QED BY <1>2, <1>3, <1>4 DEF CreditInv

LEMMA CreditCompile ==
  ASSUME IInv, CreditInv, CompileFunction PROVE CreditInv'
<1> DEFINE f == Texts[file][done + 1]
           pool == Applied(f)
           home == IF file \in source.broken THEN {} ELSE Label(f)
<1>1. TypeOK
  BY DEF IInv
<1>2. /\ file \in 1..Len(Texts) /\ done \in Nat /\ done + 1 \in 1..Len(Texts[file])
      /\ f \in Functions /\ source.wants[f] \in Nat
  BY <1>1, ProgramFields DEF CompileFunction
<1>3. PICK S \in Allocations(f, pool) :
        /\ avail' = pool
        /\ label' = Label(f)
        /\ scanned' = [g \in Functions |->
             IF g \in home THEN scanned[g] \cup (S \cup source.fixed[f]) ELSE scanned[g]]
  BY DEF CompileFunction
<1>4. UNCHANGED <<source, pass, file, plan, budget>> /\ done' = done + 1
  BY DEF CompileFunction
<1>5. pass \in {"first", "second"} /\ label = LabelAt(source, file, done)
  BY <1>2 DEF CompileFunction, Compiling, CreditInv, LabelInv
<1>6. f = source.files[file][done + 1]
  BY DEF Texts
<1> HIDE DEF f
<1>7. Label(f) = LabelAt(source, file, done + 1)
  BY <1>2, <1>5, <1>6, LabelGrows DEF Label
<1>8. LabelInv'
  BY <1>2, <1>3, <1>4, <1>7 DEF LabelInv, Texts
<1>9. pool \subseteq Registers /\ IsFiniteSet(Registers) /\ Cardinality(Registers) > 0
  BY <1>1, <1>2, RegistersFinite, PoolAssumption DEF Applied, TypeOK
<1>10. /\ S \subseteq Registers /\ S \subseteq pool
       /\ Cardinality(S) = IF source.wants[f] < Cardinality(pool)
                             THEN source.wants[f] ELSE Cardinality(pool)
  BY DEF Allocations, Preferred, Registers
<1>11. IsFiniteSet(S) /\ IsFiniteSet(pool) /\ Cardinality(pool) \in Nat
  BY <1>9, <1>10, FS_Subset, FS_CardinalityType
<1> HIDE DEF home
<1>12. FirstInv'
  <2> SUFFICES ASSUME pass = "first",
                      NEW i \in 1..Len(Texts), NEW n \in 1..Len(Texts[i]),
                      NEW h \in LabelAt(source, i, n),
                      i < file \/ (i = file /\ n <= done + 1),
                      i \notin source.broken, source.wants[Texts[i][n]] > 0
               PROVE  scanned'[h] # {}
    BY <1>4 DEF FirstInv, Texts, CreditInv
  <2>1. h \in Functions
    BY <1>1, ProgramFields DEF LabelAt
  <2>2. CASE i < file \/ (i = file /\ n <= done)
    <3>1. scanned[h] # {}
      BY <2>2 DEF CreditInv, FirstInv
    <3> QED BY <1>3, <2>1, <3>1
  <2>3. CASE i = file /\ n = done + 1
    <3>1. h \in home
      BY <1>7, <2>3 DEF home
    <3>2. source.wants[f] > 0
      BY <1>6, <2>3 DEF Texts
    <3>3. pool = Registers
      BY <1>2 DEF Applied, CreditInv, FirstInv
    <3>4. Cardinality(S) > 0
      BY <1>2, <1>9, <1>10, <1>11, <3>2, <3>3
    <3>5. S # {}
      <4>1. Cardinality({}) = 0
        BY FS_EmptySet
      <4>2. Cardinality(S) # 0
        BY ONLY <3>4
      <4> QED BY ONLY <4>1, <4>2, Zenon
    <3> QED BY <1>3, <2>1, <3>1, <3>5
  <2> QED BY <1>2, <2>2, <2>3
<1>13. SecondInv'
  <2> SUFFICES ASSUME Again, NEW h \in Functions, NEW r \in scanned'[h]
               PROVE  \E g \in CreditedTo(source, h) : r \in Used(source, budget, g)
    BY <1>4 DEF SecondInv, Again, CreditInv
  <2>1. CASE r \in scanned[h]
    BY <2>1 DEF CreditInv, SecondInv
  <2>2. CASE r \notin scanned[h]
    <3>1. h \in home /\ r \in S \cup source.fixed[f]
      BY <1>3, <2>2
    <3>2. file \notin source.broken /\ h \in LabelAt(source, file, done + 1)
      BY <1>7, <3>1 DEF home
    <3>3. f \in CreditedTo(source, h)
      BY <1>2, <1>6, <3>2 DEF CreditedTo, Texts
    <3>4. r \in Used(source, budget, f)
      <4>1. CASE r \in source.fixed[f]
        BY <4>1 DEF Used
      <4>2. CASE r \in S
        <5>1. source.wants[f] # 0
          <6>1. SUFFICES ASSUME source.wants[f] = 0 PROVE FALSE
            OBVIOUS
          <6>2. Cardinality(S) = 0
            BY <1>10, <1>11, <6>1
          <6> QED BY <1>11, <4>2, <6>2, FS_EmptySet
        <5>2. CASE budget[f] = {} \/ Cardinality(budget[f]) = 1
          BY <1>10, <4>2, <5>1, <5>2 DEF Used
        <5>3. CASE ~(budget[f] = {} \/ Cardinality(budget[f]) = 1)
          <6>1. budget[f] \subseteq Registers
            BY <1>1, <1>2 DEF TypeOK
          <6>2. IsFiniteSet(budget[f])
            BY <1>9, <6>1, FS_Subset
          <6>3. Cardinality(budget[f]) \in Nat /\ Cardinality(budget[f]) # 0
            BY <5>3, <6>2, FS_CardinalityType, FS_EmptySet
          <6>4. ~(Cardinality(budget[f]) < 2)
            BY <5>3, <6>3
          <6>5. pool = budget[f]
            BY <5>3, <6>4 DEF Applied
          <6> QED BY <1>10, <4>2, <5>1, <5>3, <6>5 DEF Used
        <5> QED BY <5>2, <5>3
      <4> QED BY <3>1, <4>1, <4>2
    <3> QED BY <3>3, <3>4
  <2> QED BY <2>1, <2>2
<1> QED BY <1>8, <1>12, <1>13 DEF CreditInv

LEMMA CreditFinish ==
  ASSUME IInv, CreditInv, FinishFile PROVE CreditInv'
<1>1. TypeOK
  BY DEF IInv
<1>2. /\ file' = file + 1 /\ done' = 0 /\ label' = {}
      /\ UNCHANGED <<source, pass, scanned, budget>>
      /\ file <= Len(Texts) /\ done = Len(Texts[file])
  BY DEF FinishFile
<1>3. LabelInv'
  <2> SUFFICES ASSUME file + 1 <= Len(Texts) PROVE 0 <= Len(Texts[file + 1])
    BY <1>2, NoLabelYet DEF LabelInv, Texts
  <2> QED BY <1>1, ProgramFields
<1>4. FirstInv'
  <2> SUFFICES ASSUME pass = "first",
                      NEW i \in 1..Len(Texts), NEW n \in 1..Len(Texts[i]),
                      NEW h \in LabelAt(source, i, n),
                      i < file + 1 \/ (i = file + 1 /\ n <= 0),
                      i \notin source.broken, source.wants[Texts[i][n]] > 0
               PROVE  scanned[h] # {}
    BY <1>2 DEF FirstInv, Texts, CreditInv
  <2>1. i < file \/ (i = file /\ n <= done)
    BY <1>1, <1>2, ProgramFields
  <2> QED BY <2>1 DEF CreditInv, FirstInv
<1>5. SecondInv'
  BY <1>2 DEF CreditInv, SecondInv, Again
<1> QED BY <1>3, <1>4, <1>5 DEF CreditInv

LEMMA MembersFinite ==
  ASSUME NEW S, S \subseteq Registers, S # {}
  PROVE  Cardinality(S) \in Nat \ {0}
BY RegistersFinite, FS_Subset, FS_CardinalityType, FS_EmptySet

\* analyze gives a budget to each side seen to use a register.
LEMMA CreditFeedBack ==
  ASSUME IInv, CreditInv, FeedBack PROVE CreditInv'
<1> DEFINE p == Analyze(source, scanned)
<1>1. TypeOK /\ scanned \in [Functions -> SUBSET Registers]
  BY DEF IInv, TypeOK
<1>2. /\ pass = "first" /\ file > Len(Texts)
      /\ budget' = Budgets(source, p) /\ pass' = "second" /\ file' = 1
      /\ done' = 0 /\ label' = {} /\ scanned' = Nothing /\ source' = source
  BY DEF FeedBack
<1>3. /\ p \in Plans
      /\ \A side \in Sides : p.gp[side] = Footprint(source, scanned, side)
      /\ \A side \in Sides : Cardinality(p.share[side]) >= Cardinality(p.gp[side])
  BY <1>1, AnalyzeProperties
<1> HIDE DEF p
<1>4. LabelInv'
  <2> SUFFICES ASSUME 1 <= Len(Texts) PROVE 0 <= Len(Texts[1])
    BY <1>2, NoLabelYet DEF LabelInv, Texts
  <2> QED BY <1>1, ProgramFields
<1>5. FirstInv'
  BY <1>2 DEF FirstInv
<1>6. ASSUME NEW side \in Sides, ~Quiet(source, side)
      PROVE  p.share[side] # {}
  <2>1. PICK h \in Members(source, side) : \E f \in CreditedTo(source, h) : source.wants[f] # 0
    BY <1>6 DEF Quiet, Credited
  <2> PICK f \in CreditedTo(source, h) : source.wants[f] # 0
    BY <2>1
  <2>2. PICK i \in 1..Len(source.files) : \E n \in 1..Len(source.files[i]) :
          i \notin source.broken /\ f = source.files[i][n] /\ h \in LabelAt(source, i, n)
    BY <2>1 DEF CreditedTo
  <2>3. PICK n \in 1..Len(source.files[i]) :
          i \notin source.broken /\ f = source.files[i][n] /\ h \in LabelAt(source, i, n)
    BY <2>2
  <2>4. f \in Functions /\ h \in Functions /\ source.wants[f] > 0
    <3>1. f \in Functions /\ source.wants[f] # 0
      BY <2>1 DEF CreditedTo
    <3>2. h \in Functions
      BY <2>1, MembersType
    <3>3. source.wants[f] \in Nat
      BY <1>1, <3>1, ProgramFields
    <3> QED BY ONLY <3>1, <3>2, <3>3
  <2>5. i < file
    BY <1>1, <1>2, <2>2, ProgramFields DEF Texts
  <2>6. scanned[h] # {}
    BY <1>2, <2>3, <2>4, <2>5 DEF CreditInv, FirstInv, Texts
  <2>7. scanned[h] \subseteq Footprint(source, scanned, side)
    BY <2>1 DEF Footprint
  <2>8. p.gp[side] # {} /\ p.gp[side] \subseteq Registers /\ p.share[side] \subseteq Registers
    BY <1>3, <2>6, <2>7 DEF Plans
  <2>9. Cardinality(p.gp[side]) \in Nat \ {0}
    BY <2>8, MembersFinite
  <2>10. p.share[side] # {}
    <3> SUFFICES ASSUME p.share[side] = {} PROVE FALSE
      OBVIOUS
    <3>1. Cardinality(p.share[side]) = 0
      BY FS_EmptySet
    <3>2. Cardinality(p.share[side]) >= Cardinality(p.gp[side])
      BY <1>3
    <3> QED BY <2>9, <3>1, <3>2
  <2> QED BY <2>10
<1>7. \/ \E side \in Sides : Quiet(source, side)
      \/ \A side \in Sides : \A f \in Members(source, side) : budget'[f] # {}
  <2> SUFFICES ASSUME \A side \in Sides : ~Quiet(source, side),
                      NEW side \in Sides, NEW f \in Members(source, side)
               PROVE  budget'[f] # {}
    OBVIOUS
  <2>1. p.share["left"] # {} /\ p.share["right"] # {}
    BY <1>6 DEF Sides
  <2>2. f \in Functions /\ (side = "left" \/ side = "right")
    BY MembersType DEF Sides
  <2> QED BY <1>2, <2>1, <2>2 DEF Budgets
<1>8. SecondInv'
  BY <1>2, <1>7 DEF SecondInv, Again, Nothing
<1> QED BY <1>4, <1>5, <1>8 DEF CreditInv

LEMMA CreditKeeps == IInv /\ CreditInv /\ [Next]_vars => CreditInv'
<1> SUFFICES ASSUME IInv, CreditInv, [Next]_vars PROVE CreditInv'
  OBVIOUS
<1>1. CASE CompileFunction
  BY <1>1, CreditCompile
<1>2. CASE FinishFile
  BY <1>2, CreditFinish
<1>3. CASE FeedBack
  BY <1>3, CreditFeedBack
<1>4. CASE Replan
  BY <1>4 DEF Replan, CreditInv, LabelInv, FirstInv, SecondInv, Again
<1>5. CASE NoThreads
  BY <1>5 DEF NoThreads, CreditInv, LabelInv, FirstInv, SecondInv, Again
<1>6. CASE EmitBoth \/ EmitOne
  BY <1>6 DEF EmitBoth, EmitOne, CreditInv, LabelInv, FirstInv, SecondInv, Again
<1>7. CASE UNCHANGED vars
  BY <1>7 DEF vars, CreditInv, LabelInv, FirstInv, SecondInv, Again, Texts
<1> QED BY <1>1, <1>2, <1>3, <1>4, <1>5, <1>6, <1>7 DEF Next

\* What the switchers are made for: a register in both footprints is one that
\* two budgets share, or one of the exceptions let in.
LEMMA ApartFromCredit ==
  ASSUME IInv, CreditInv PROVE FootprintsApart
<1> SUFFICES ASSUME Planned, NEW r \in plan.gp["left"], r \in plan.gp["right"],
                    \A side \in Sides : Credited(source, side) \subseteq Members(source, side),
                    \A f \in Members(source, "left"), g \in Members(source, "right") :
                      /\ budget[f] \cap budget[g] = {}
                      /\ \A h \in {f, g} : Cardinality(budget[h]) # 1 /\ Alone(source, h)
             PROVE  FALSE
  BY DEF FootprintsApart
<1>1. \A side \in Sides : plan.gp[side] = Footprint(source, scanned, side)
  <2>1. scanned \in [Functions -> SUBSET Registers] /\ plan = Analyze(source, scanned)
    BY DEF IInv, TypeOK, Agreement
  <2> QED BY <2>1, AnalyzeProperties
<1>2. Again
  BY DEF Planned, Again
<1>3. \A side \in Sides : \E f \in Credited(source, side) : r \in Used(source, budget, f)
  <2> SUFFICES ASSUME NEW side \in Sides
               PROVE  \E f \in Credited(source, side) : r \in Used(source, budget, f)
    OBVIOUS
  <2>1. PICK h \in Members(source, side) : r \in scanned[h]
    BY <1>1 DEF Footprint, Sides
  <2>2. h \in Functions
    BY <2>1, MembersType
  <2>3. PICK f \in CreditedTo(source, h) : r \in Used(source, budget, f)
    BY <1>2, <2>1, <2>2 DEF CreditInv, SecondInv
  <2> QED BY <2>1, <2>3 DEF Credited
<1>4. PICK f \in Credited(source, "left") : r \in Used(source, budget, f)
  BY <1>3 DEF Sides
<1>5. PICK g \in Credited(source, "right") : r \in Used(source, budget, g)
  BY <1>3 DEF Sides
<1>6. f \in Members(source, "left") /\ g \in Members(source, "right")
  BY <1>4, <1>5 DEF Sides
<1>7. \A h \in {f, g} : Cardinality(budget[h]) # 1 /\ source.fixed[h] = {}
  BY <1>6 DEF Alone
<1>8. source.wants[f] # 0 /\ source.wants[g] # 0
  BY <1>4, <1>5, <1>7 DEF Used
<1>9. ~Quiet(source, "left") /\ ~Quiet(source, "right")
  BY <1>4, <1>5, <1>8 DEF Quiet
<1>10. budget[f] # {} /\ budget[g] # {}
  BY <1>2, <1>6, <1>9 DEF CreditInv, SecondInv, Sides
<1>11. r \in budget[f] /\ r \in budget[g]
  BY <1>4, <1>5, <1>7, <1>8, <1>10 DEF Used
<1> QED BY <1>6, <1>11

\* _apply_thread_budget, the scan and the second analyze: where the budgets of
\* the sides are apart, and are what the functions get, no register is used on
\* both sides.
THEOREM FootprintsEndApart == Spec => []FootprintsApart
<1>1. Spec => []CreditInv
  BY Invariant, CreditInit, CreditKeeps, PTL DEF Spec
<1> QED BY <1>1, Invariant, ApartFromCredit, PTL

-----------------------------------------------------------------------------
(***************************************************************************)
(* The switchers the driver emits, run instruction by instruction.         *)
(***************************************************************************)
\* The registers the switchers name are different ones.
Machine ==
  /\ {Rax, Rdx, Rsi, Rdi} \subseteq General
  /\ {Rsp, Rip, Flags} \cap General = {}
  /\ Rsp # Rip /\ Rsp # Flags /\ Rip # Flags
  /\ Rax # Rdi /\ Rax # Rsi /\ Rdi # Rsi
  /\ MaxWork \in Nat

Listed(gp) == { gp[k] : k \in 1..Len(gp) }

\* The footprints a switcher is emitted for: each register once, and either
\* apart, with four at least on each side, for the timer's routines, whose scratch
\* registers are the other side's (FootprintsEndApart says when the plan is like
\* that), or, for the routines a thread calls, without the register that holds the
\* incoming thread's TCB while its registers are loaded.
Fits(x) ==
  /\ \A side \in Sides :
       /\ x.gp[side] \in Seq(General)
       /\ \A j, k \in 1..Len(x.gp[side]) : x.gp[side][j] = x.gp[side][k] => j = k
  /\ \/ /\ x.kind = "timer"
        /\ \A side \in Sides : Len(x.gp[side]) >= 4
        /\ Listed(x.gp["left"]) \cap Listed(x.gp["right"]) = {}
     \/ /\ x.kind = "called"
        /\ \A side \in Sides : Rsi \notin Listed(x.gp[side])

\* The footprints of the thread being left and of the one taken up.
Out == layout.gp[running]
In == layout.gp[Other(running)]
N == Len(Out)
M == Len(In)

LEMMA Sizes ==
  ASSUME Machine, Fits(layout), running \in Sides
  PROVE  /\ Out \in Seq(General) /\ In \in Seq(General)
         /\ N \in Nat /\ M \in Nat
         /\ Other(running) \in Sides /\ Other(running) # running
         /\ Other(Other(running)) = running
         /\ \A k \in 1..N : Out[k] \in General
         /\ \A k \in 1..M : In[k] \in General
         /\ \A j, k \in 1..N : Out[j] = Out[k] => j = k
         /\ \A j, k \in 1..M : In[j] = In[k] => j = k
<1>1. Other(running) \in Sides /\ Other(running) # running /\ Other(Other(running)) = running
  BY DEF Sides, Other
<1>2. Out \in Seq(General) /\ In \in Seq(General)
  BY <1>1 DEF Fits, Out, In
<1>3. /\ \A j, k \in 1..N : Out[j] = Out[k] => j = k
      /\ \A j, k \in 1..M : In[j] = In[k] => j = k
  BY <1>1 DEF Fits, Out, In, N, M
<1> QED BY <1>1, <1>2, <1>3 DEF N, M

LEMMA TimerSizes ==
  ASSUME Machine, Fits(layout), running \in Sides, layout.kind = "timer"
  PROVE  /\ N >= 4 /\ M >= 4
         /\ \A j \in 1..N : \A k \in 1..M : Out[j] # In[k]
<1>1. Other(running) \in Sides
  BY DEF Sides, Other
<1>2. /\ \A side \in Sides : Len(layout.gp[side]) >= 4
      /\ Listed(layout.gp["left"]) \cap Listed(layout.gp["right"]) = {}
  BY DEF Fits
<1>3. Listed(Out) \cap Listed(In) = {}
  BY <1>2 DEF Out, In, Sides, Other
<1> QED BY <1>1, <1>2, <1>3 DEF Out, In, N, M, Listed

-----------------------------------------------------------------------------
\* Four parts put one after the other.
LEMMA FourParts ==
  ASSUME NEW A, NEW a \in Seq(A), NEW b \in Seq(A), NEW c \in Seq(A), NEW d \in Seq(A),
         NEW s, s = a \o b \o c \o d
  PROVE  /\ Len(s) = Len(a) + Len(b) + Len(c) + Len(d)
         /\ \A j \in 1..Len(a) : s[j] = a[j]
         /\ \A j \in 1..Len(b) : s[Len(a) + j] = b[j]
         /\ \A j \in 1..Len(c) : s[Len(a) + Len(b) + j] = c[j]
         /\ \A j \in 1..Len(d) : s[Len(a) + Len(b) + Len(c) + j] = d[j]
<1> DEFINE ab == a \o b
           abc == ab \o c
<1>0. s = abc \o d
  OBVIOUS
<1>1. /\ ab \in Seq(A) /\ Len(ab) = Len(a) + Len(b)
      /\ \A j \in 1..Len(a) : ab[j] = a[j]
      /\ \A j \in 1..Len(b) : ab[Len(a) + j] = b[j]
  OBVIOUS
<1> HIDE DEF ab
<1>2. /\ abc \in Seq(A) /\ Len(abc) = Len(ab) + Len(c)
      /\ \A j \in 1..Len(ab) : abc[j] = ab[j]
      /\ \A j \in 1..Len(c) : abc[Len(ab) + j] = c[j]
  <2>1. ab \in Seq(A)
    BY <1>1
  <2> QED BY <2>1
<1> HIDE DEF abc
<1>3. /\ s \in Seq(A) /\ Len(s) = Len(abc) + Len(d)
      /\ \A j \in 1..Len(abc) : s[j] = abc[j]
      /\ \A j \in 1..Len(d) : s[Len(abc) + j] = d[j]
  <2>1. abc \in Seq(A)
    BY <1>2
  <2>2. /\ abc \o d \in Seq(A) /\ Len(abc \o d) = Len(abc) + Len(d)
        /\ \A j \in 1..Len(abc) : (abc \o d)[j] = abc[j]
        /\ \A j \in 1..Len(d) : (abc \o d)[Len(abc) + j] = d[j]
    BY <2>1
  <2> QED BY <1>0, <2>2
<1>4. Len(a) \in Nat /\ Len(b) \in Nat /\ Len(c) \in Nat /\ Len(d) \in Nat
  OBVIOUS
<1>5. Len(s) = Len(a) + Len(b) + Len(c) + Len(d)
  BY <1>1, <1>2, <1>3, <1>4
<1>6. ASSUME NEW j \in 1..Len(a) PROVE s[j] = a[j]
  BY <1>1, <1>2, <1>3, <1>4
<1>7. ASSUME NEW j \in 1..Len(b) PROVE s[Len(a) + j] = b[j]
  <2>1. Len(a) + j \in 1..Len(ab)
    BY <1>1, <1>4
  <2>2. Len(a) + j \in 1..Len(abc)
    BY <1>2, <1>4, <2>1, <1>1
  <2> QED BY <1>1, <1>2, <1>3, <2>1, <2>2
<1>8. ASSUME NEW j \in 1..Len(c) PROVE s[Len(a) + Len(b) + j] = c[j]
  <2>1. Len(ab) + j \in 1..Len(abc)
    BY <1>1, <1>2, <1>4
  <2>2. s[Len(ab) + j] = c[j]
    BY <1>2, <1>3, <2>1
  <2> QED BY <1>1, <2>2
<1>9. ASSUME NEW j \in 1..Len(d) PROVE s[Len(a) + Len(b) + Len(c) + j] = d[j]
  <2>1. Len(abc) = Len(a) + Len(b) + Len(c)
    BY <1>1, <1>2
  <2> QED BY <1>3, <2>1
<1> QED BY <1>3, <1>5, <1>6, <1>7, <1>8, <1>9

\* Which instruction stands where in switch_to_right and switch_to_left.
LEMMA CalledCode ==
  ASSUME Machine, Fits(layout), running \in Sides
  PROVE  LET c == Called(Out, In)
         IN  /\ Len(c) = N + M + 5
             /\ \A j \in 1..N : c[j] = Store(Rdi, j + 1, Out[j])
             /\ c[N + 1] = Store(Rdi, 0, Rsp)
             /\ c[N + 2] = Pop(Rax, Rip)
             /\ c[N + 3] = Store(Rdi, 1, Rax)
             /\ \A j \in 1..M : c[N + 3 + j] = Load(In[j], Rsi, j + 1)
             /\ c[N + M + 4] = Load(Rsp, Rsi, 0)
             /\ c[N + M + 5] = Do("ret", Rsp)
<1> DEFINE a == SaveAll(Rdi, Out, 2)
           b == << Store(Rdi, 0, Rsp), Pop(Rax, Rip), Store(Rdi, 1, Rax) >>
           c == RestoreAll(Rsi, In, 2)
           d == << Load(Rsp, Rsi, 0), Do("ret", Rsp) >>
           A == { a[j] : j \in 1..N } \cup { b[j] : j \in 1..3 }
                  \cup { c[j] : j \in 1..M } \cup { d[j] : j \in 1..2 }
           s == a \o b \o c \o d
<1>1. N \in Nat /\ M \in Nat /\ Out \in Seq(General) /\ In \in Seq(General)
  BY Sizes
<1>2. /\ a = [j \in 1..N |-> Store(Rdi, 2 + j - 1, Out[j])]
      /\ c = [j \in 1..M |-> Load(In[j], Rsi, 2 + j - 1)]
  BY DEF SaveAll, RestoreAll, N, M
<1>3. /\ Len(b) = 3 /\ b[1] = Store(Rdi, 0, Rsp) /\ b[2] = Pop(Rax, Rip)
      /\ b[3] = Store(Rdi, 1, Rax) /\ DOMAIN b = 1..3
      /\ Len(d) = 2 /\ d[1] = Load(Rsp, Rsi, 0) /\ d[2] = Do("ret", Rsp) /\ DOMAIN d = 1..2
  OBVIOUS
<1>4. b \in Seq({b[j] : j \in 1..3}) /\ d \in Seq({d[j] : j \in 1..2})
  OBVIOUS
<1>5. a \in Seq(A) /\ Len(a) = N
  <2>1. \A j \in 1..N : a[j] \in A
    OBVIOUS
  <2>2. a \in [1..N -> A]
    <3> HIDE DEF A
    <3> QED BY <1>2, <2>1
  <2> HIDE DEF a, A
  <2> QED BY <1>1, <2>2
<1>6. c \in Seq(A) /\ Len(c) = M
  <2>1. \A j \in 1..M : c[j] \in A
    OBVIOUS
  <2>2. c \in [1..M -> A]
    <3> HIDE DEF A
    <3> QED BY <1>2, <2>1
  <2> HIDE DEF c, A
  <2> QED BY <1>1, <2>2
<1>7. b \in Seq(A) /\ d \in Seq(A)
  <2>1. {b[j] : j \in 1..3} \subseteq A /\ {d[j] : j \in 1..2} \subseteq A
    <3> HIDE DEF a, b, c, d
    <3> QED OBVIOUS
  <2> HIDE DEF A, b, d
  <2> QED BY <1>4, <2>1, SeqMonotonic
<1>8. \A j \in 1..N : a[j] = Store(Rdi, j + 1, Out[j])
  <2>1. \A j \in 1..N : 2 + j - 1 = j + 1
    BY <1>1
  <2> QED BY <1>2, <2>1
<1>9. \A j \in 1..M : c[j] = Load(In[j], Rsi, j + 1)
  <2>1. \A j \in 1..M : 2 + j - 1 = j + 1
    BY <1>1
  <2> QED BY <1>2, <2>1
<1>10. Called(Out, In) = s
  BY DEF Called
<1> HIDE DEF a, b, c, d, A
<1>11. /\ Len(s) = N + 3 + M + 2
       /\ \A j \in 1..N : s[j] = a[j]
       /\ \A j \in 1..3 : s[N + j] = b[j]
       /\ \A j \in 1..M : s[N + 3 + j] = c[j]
       /\ \A j \in 1..2 : s[N + 3 + M + j] = d[j]
  <2>1. s = a \o b \o c \o d
    OBVIOUS
  <2> HIDE DEF s
  <2>2. a \in Seq(A) /\ b \in Seq(A) /\ c \in Seq(A) /\ d \in Seq(A)
    BY <1>5, <1>6, <1>7
  <2>3. /\ Len(s) = Len(a) + Len(b) + Len(c) + Len(d)
        /\ \A j \in 1..Len(a) : s[j] = a[j]
        /\ \A j \in 1..Len(b) : s[Len(a) + j] = b[j]
        /\ \A j \in 1..Len(c) : s[Len(a) + Len(b) + j] = c[j]
        /\ \A j \in 1..Len(d) : s[Len(a) + Len(b) + Len(c) + j] = d[j]
    BY <2>1, <2>2, FourParts
  <2>4. Len(a) = N /\ Len(b) = 3 /\ Len(c) = M /\ Len(d) = 2
    BY <1>3, <1>5, <1>6
  <2> QED BY <2>3, <2>4
<1> HIDE DEF s
<1>12. s[N + 1] = b[1] /\ s[N + 2] = b[2] /\ s[N + 3] = b[3]
  BY <1>11
<1>13. s[N + M + 4] = d[1] /\ s[N + M + 5] = d[2]
  <2>1. N + 3 + M + 1 = N + M + 4 /\ N + 3 + M + 2 = N + M + 5
    BY <1>1
  <2> QED BY <1>11, <2>1
<1>14. Len(s) = N + M + 5
  BY <1>1, <1>11
<1> QED BY <1>3, <1>8, <1>9, <1>10, <1>11, <1>12, <1>13, <1>14

\* Which instruction stands where in timer_isr_left and timer_isr_right.
LEMMA TimerCode ==
  ASSUME Machine, Fits(layout), running \in Sides, layout.kind = "timer"
  PROVE  LET c == Timer(running, Out, In)
         IN  /\ Len(c) = N + M + 22
             /\ c[1] = Get(In[1], "cur")
             /\ \A j \in 1..N : c[j + 1] = Store(In[1], j + 2, Out[j])
             /\ c[N + 2] = Pop(In[2], Rip)
             /\ c[N + 3] = Store(In[1], 1, In[2])
             /\ c[N + 4] = Pop(In[2], Flags)
             /\ c[N + 5] = Store(In[1], 2, In[2])
             /\ c[N + 6] = Pop(In[2], Rsp)
             /\ c[N + 7] = Store(In[1], 0, In[2])
             /\ c[N + 8] = Do("eoi", Rax)
             /\ c[N + 9] = Do("flip", In[2])
             /\ c[N + 10] = Get(In[2], "cur")
             /\ c[N + 11] = Get(Out[1], "next")
             /\ c[N + 12] = Put("next", In[2])
             /\ c[N + 13] = Put("cur", Out[1])
             /\ \A j \in 1..M : c[N + 13 + j] = Load(In[j], Out[1], j + 2)
             /\ c[N + M + 14] = Load(Out[2], Out[1], 0)
             /\ c[N + M + 15] = Load(Out[3], Out[1], 1)
             /\ c[N + M + 16] = Load(Out[4], Out[1], 2)
             /\ c[N + M + 17] = Push(Rip, Out[3], Out[2])
             /\ c[N + M + 18] = Push(Flags, Out[4], Out[2])
             /\ c[N + M + 19] = Load(Out[3], Out[1], 0)
             /\ c[N + M + 20] = Push(Rsp, Out[3], Out[2])
             /\ c[N + M + 21] = Do("stack", Out[2])
             /\ c[N + M + 22] = Do("iret", Rsp)
<1> DEFINE g == << Get(In[1], "cur") >>
           v == SaveAll(In[1], Out, 3)
           a == g \o v
           b == << Pop(In[2], Rip), Store(In[1], 1, In[2]),
                   Pop(In[2], Flags), Store(In[1], 2, In[2]),
                   Pop(In[2], Rsp), Store(In[1], 0, In[2]),
                   Do("eoi", Rax), Do("flip", In[2]),
                   Get(In[2], "cur"), Get(Out[1], "next"),
                   Put("next", In[2]), Put("cur", Out[1]) >>
           c == RestoreAll(Out[1], In, 3)
           d == << Load(Out[2], Out[1], 0), Load(Out[3], Out[1], 1), Load(Out[4], Out[1], 2),
                   Push(Rip, Out[3], Out[2]), Push(Flags, Out[4], Out[2]),
                   Load(Out[3], Out[1], 0), Push(Rsp, Out[3], Out[2]),
                   Do("stack", Out[2]), Do("iret", Rsp) >>
           A == { g[1] } \cup { v[j] : j \in 1..N } \cup { b[j] : j \in 1..12 }
                  \cup { c[j] : j \in 1..M } \cup { d[j] : j \in 1..9 }
           s == a \o b \o c \o d
<1>1. N \in Nat /\ M \in Nat /\ Out \in Seq(General) /\ In \in Seq(General)
  BY Sizes
<1>2. /\ v = [j \in 1..N |-> Store(In[1], 3 + j - 1, Out[j])]
      /\ c = [j \in 1..M |-> Load(In[j], Out[1], 3 + j - 1)]
  BY DEF SaveAll, RestoreAll, N, M
<1>3. /\ Len(b) = 12 /\ b \in Seq({b[j] : j \in 1..12})
      /\ b[1] = Pop(In[2], Rip) /\ b[2] = Store(In[1], 1, In[2])
      /\ b[3] = Pop(In[2], Flags) /\ b[4] = Store(In[1], 2, In[2])
      /\ b[5] = Pop(In[2], Rsp) /\ b[6] = Store(In[1], 0, In[2])
      /\ b[7] = Do("eoi", Rax) /\ b[8] = Do("flip", In[2])
      /\ b[9] = Get(In[2], "cur") /\ b[10] = Get(Out[1], "next")
      /\ b[11] = Put("next", In[2]) /\ b[12] = Put("cur", Out[1])
  OBVIOUS
<1>4. /\ Len(d) = 9 /\ d \in Seq({d[j] : j \in 1..9})
      /\ d[1] = Load(Out[2], Out[1], 0) /\ d[2] = Load(Out[3], Out[1], 1)
      /\ d[3] = Load(Out[4], Out[1], 2) /\ d[4] = Push(Rip, Out[3], Out[2])
      /\ d[5] = Push(Flags, Out[4], Out[2]) /\ d[6] = Load(Out[3], Out[1], 0)
      /\ d[7] = Push(Rsp, Out[3], Out[2]) /\ d[8] = Do("stack", Out[2])
      /\ d[9] = Do("iret", Rsp)
  OBVIOUS
<1>5. v \in Seq(A) /\ Len(v) = N
  <2>1. \A j \in 1..N : v[j] \in A
    OBVIOUS
  <2>2. v \in [1..N -> A]
    <3> HIDE DEF A
    <3> QED BY <1>2, <2>1
  <2> HIDE DEF v, A
  <2> QED BY <1>1, <2>2
<1>6. c \in Seq(A) /\ Len(c) = M
  <2>1. \A j \in 1..M : c[j] \in A
    OBVIOUS
  <2>2. c \in [1..M -> A]
    <3> HIDE DEF A
    <3> QED BY <1>2, <2>1
  <2> HIDE DEF c, A
  <2> QED BY <1>1, <2>2
<1>7. b \in Seq(A) /\ d \in Seq(A)
  <2>1. {b[j] : j \in 1..12} \subseteq A /\ {d[j] : j \in 1..9} \subseteq A
    <3> HIDE DEF g, v, b, c, d
    <3> QED OBVIOUS
  <2> HIDE DEF A, b, d
  <2> QED BY <1>3, <1>4, <2>1, SeqMonotonic
<1>8. g \in Seq(A) /\ Len(g) = 1 /\ g[1] = Get(In[1], "cur")
  <2>1. g[1] \in A /\ g = <<g[1]>> /\ g[1] = Get(In[1], "cur")
    OBVIOUS
  <2> DEFINE x == g[1]
  <2>2. x \in A /\ g = <<x>>
    BY <2>1
  <2> HIDE DEF A, x
  <2>3. <<x>> \in Seq(A) /\ Len(<<x>>) = 1
    BY <2>2
  <2> HIDE DEF g
  <2> QED BY <2>1, <2>2, <2>3
<1>9. \A j \in 1..N : v[j] = Store(In[1], j + 2, Out[j])
  <2>1. \A j \in 1..N : 3 + j - 1 = j + 2
    BY <1>1
  <2> QED BY <1>2, <2>1
<1>10. \A j \in 1..M : c[j] = Load(In[j], Out[1], j + 2)
  <2>1. \A j \in 1..M : 3 + j - 1 = j + 2
    BY <1>1
  <2> QED BY <1>2, <2>1
<1>11. Timer(running, Out, In) = s
  BY DEF Timer
<1> HIDE DEF g, v, b, c, d, A
<1>12. /\ a \in Seq(A) /\ Len(a) = N + 1
       /\ a[1] = g[1]
       /\ \A j \in 1..N : a[j + 1] = v[j]
  <2>1. /\ g \o v \in Seq(A) /\ Len(g \o v) = Len(g) + Len(v)
        /\ \A j \in 1..Len(g) : (g \o v)[j] = g[j]
        /\ \A j \in 1..Len(v) : (g \o v)[Len(g) + j] = v[j]
    <3>1. g \in Seq(A) /\ v \in Seq(A)
      BY <1>5, <1>8
    <3> QED BY <3>1
  <2>2. \A j \in 1..N : 1 + j = j + 1
    BY <1>1
  <2>3. 1 + N = N + 1
    BY <1>1
  <2> HIDE DEF a
  <2>4. a = g \o v
    BY DEF a
  <2>5. Len(a) = N + 1 /\ a \in Seq(A)
    BY <1>5, <1>8, <2>1, <2>3, <2>4
  <2>6. a[1] = g[1]
    <3>1. 1 \in 1..Len(g)
      BY <1>8
    <3> QED BY <2>1, <2>4, <3>1
  <2>7. ASSUME NEW j \in 1..N PROVE a[j + 1] = v[j]
    <3>1. a[Len(g) + j] = v[j] /\ Len(g) + j = j + 1
      BY <1>1, <1>5, <1>8, <2>1, <2>4
    <3> QED BY <3>1
  <2> QED BY <2>5, <2>6, <2>7
<1> HIDE DEF a
<1>13. /\ Len(s) = N + 1 + 12 + M + 9
       /\ \A j \in 1..(N + 1) : s[j] = a[j]
       /\ \A j \in 1..12 : s[N + 1 + j] = b[j]
       /\ \A j \in 1..M : s[N + 1 + 12 + j] = c[j]
       /\ \A j \in 1..9 : s[N + 1 + 12 + M + j] = d[j]
  <2>1. s = a \o b \o c \o d
    OBVIOUS
  <2> HIDE DEF s
  <2>2. a \in Seq(A) /\ b \in Seq(A) /\ c \in Seq(A) /\ d \in Seq(A)
    BY <1>12, <1>6, <1>7
  <2>3. /\ Len(s) = Len(a) + Len(b) + Len(c) + Len(d)
        /\ \A j \in 1..Len(a) : s[j] = a[j]
        /\ \A j \in 1..Len(b) : s[Len(a) + j] = b[j]
        /\ \A j \in 1..Len(c) : s[Len(a) + Len(b) + j] = c[j]
        /\ \A j \in 1..Len(d) : s[Len(a) + Len(b) + Len(c) + j] = d[j]
    BY <2>1, <2>2, FourParts
  <2>4. Len(a) = N + 1 /\ Len(b) = 12 /\ Len(c) = M /\ Len(d) = 9
    BY <1>3, <1>4, <1>6, <1>12
  <2> QED BY <2>3, <2>4
<1> HIDE DEF s
<1>14. Len(s) = N + M + 22 /\ s[1] = g[1]
  <2>1. N + 1 + 12 + M + 9 = N + M + 22 /\ 1 \in 1..(N + 1)
    BY <1>1
  <2> QED BY <1>12, <1>13, <2>1
<1>15. \A j \in 1..N : s[j + 1] = v[j]
  <2>1. \A j \in 1..N : j + 1 \in 1..(N + 1)
    BY <1>1
  <2> QED BY <1>12, <1>13, <2>1
<1>16. /\ s[N + 2] = b[1] /\ s[N + 3] = b[2] /\ s[N + 4] = b[3] /\ s[N + 5] = b[4]
       /\ s[N + 6] = b[5] /\ s[N + 7] = b[6] /\ s[N + 8] = b[7] /\ s[N + 9] = b[8]
       /\ s[N + 10] = b[9] /\ s[N + 11] = b[10] /\ s[N + 12] = b[11] /\ s[N + 13] = b[12]
  <2>1. \A j \in 1..12 : s[N + (j + 1)] = b[j]
    <3>1. \A j \in 1..12 : N + 1 + j = N + (j + 1)
      BY <1>1
    <3> QED BY <1>13, <3>1
  <2> QED BY <2>1
<1>17. \A j \in 1..M : s[N + 13 + j] = c[j]
  <2>1. N + 1 + 12 = N + 13
    BY <1>1
  <2> QED BY <1>13, <2>1
<1>18. /\ s[N + M + 14] = d[1] /\ s[N + M + 15] = d[2] /\ s[N + M + 16] = d[3]
       /\ s[N + M + 17] = d[4] /\ s[N + M + 18] = d[5] /\ s[N + M + 19] = d[6]
       /\ s[N + M + 20] = d[7] /\ s[N + M + 21] = d[8] /\ s[N + M + 22] = d[9]
  <2>1. \A j \in 1..9 : s[N + M + (j + 13)] = d[j]
    <3>1. \A j \in 1..9 : N + 1 + 12 + M + j = N + M + (j + 13)
      BY <1>1
    <3> QED BY <1>13, <3>1
  <2> QED BY <2>1
<1>19. \A j \in 1..N : s[j + 1] = Store(In[1], j + 2, Out[j])
  BY <1>9, <1>15
<1>20. \A j \in 1..M : s[N + 13 + j] = Load(In[j], Out[1], j + 2)
  BY <1>10, <1>17
<1>21. s[1] = Get(In[1], "cur")
  BY <1>8, <1>14
<1> QED BY <1>3, <1>4, <1>11, <1>14, <1>16, <1>18, <1>19, <1>20, <1>21

-----------------------------------------------------------------------------
\* What an instruction does, each variable it may touch taken apart.
Typed ==
  /\ layout \in Layouts
  /\ regs \in [Regs -> Values]
  /\ tcb \in [Sides -> [Slots -> Values]]
  /\ stack \in [Sides -> [{Rip, Flags, Rsp} -> Values]]
  /\ cur \in Values /\ next \in Values
  /\ vector \in Sides
  /\ running \in Sides
  /\ own \in [Sides -> [Regs -> Values]]
  /\ clock \in 0..MaxWork

Goes == pc' = pc + 1 /\ UNCHANGED <<layout, code, running, own, clock>>

LEMMA DoesStore ==
  ASSUME Typed, pc # 0, SwitchNext, NEW b \in Regs, NEW k \in Slots, NEW r \in Regs,
         code[pc] = Store(b, k, r), NEW x \in Sides, regs[b] = Tcb(x)
  PROVE  /\ Goes /\ UNCHANGED <<regs, stack, cur, next, vector>>
         /\ tcb' \in [Sides -> [Slots -> Values]]
         /\ tcb'[x][k] = regs[r]
         /\ \A side \in Sides : \A j \in Slots :
              (side # x \/ j # k) => tcb'[side][j] = tcb[side][j]
<1>1. /\ code[pc].op = "store" /\ code[pc].base = b /\ code[pc].slot = k /\ code[pc].reg = r
  BY DEF Store, Ins
<1>2. StoreStep
  BY <1>1 DEF SwitchNext, Work, CallSwitch, TimerTick, FillStep, PutStep, EoiStep, FlipStep,
              PushStep, StackStep, Return, InterruptReturn, At
<1>3. IsTcb(regs[b]) /\ regs[b].side = x
  BY DEF IsTcb, Tcb
<1>4. tcb' = [tcb EXCEPT ![x][k] = regs[r]]
  BY <1>1, <1>2, <1>3 DEF StoreStep, Now
<1>5. regs[r] \in Values
  BY DEF Typed
<1>6. Goes /\ UNCHANGED <<regs, stack, cur, next, vector>>
  BY <1>2 DEF StoreStep, Goes
<1> QED BY <1>4, <1>5, <1>6 DEF Typed

LEMMA DoesLoad ==
  ASSUME Typed, pc # 0, SwitchNext, NEW b \in Regs, NEW k \in Slots, NEW r \in Regs,
         code[pc] = Load(r, b, k), NEW x \in Sides, regs[b] = Tcb(x)
  PROVE  /\ Goes /\ UNCHANGED <<tcb, stack, cur, next, vector>>
         /\ regs' \in [Regs -> Values]
         /\ regs'[r] = tcb[x][k]
         /\ \A q \in Regs : q # r => regs'[q] = regs[q]
<1>1. /\ code[pc].op = "load" /\ code[pc].base = b /\ code[pc].slot = k /\ code[pc].reg = r
  BY DEF Load, Ins
<1>2. FillStep
  BY <1>1 DEF SwitchNext, Work, CallSwitch, TimerTick, StoreStep, PutStep, EoiStep, FlipStep,
              PushStep, StackStep, Return, InterruptReturn, At
<1>3. IsTcb(regs[b]) /\ regs[b].side = x
  BY DEF IsTcb, Tcb
<1>4. Fetched = tcb[x][k]
  BY <1>1, <1>3 DEF Fetched, Now
<1>5. regs' = [regs EXCEPT ![r] = tcb[x][k]]
  BY <1>1, <1>2, <1>4 DEF FillStep, Now
<1>6. Goes /\ UNCHANGED <<tcb, stack, cur, next, vector>>
  BY <1>2 DEF FillStep, Goes
<1>7. tcb[x][k] \in Values
  BY DEF Typed
<1> QED BY <1>5, <1>6, <1>7 DEF Typed

LEMMA DoesPop ==
  ASSUME Typed, pc # 0, SwitchNext, NEW r \in Regs, NEW field \in {Rip, Flags, Rsp},
         code[pc] = Pop(r, field), NEW x \in Sides, NEW time, regs[Rsp] = Value(x, Rsp, time)
  PROVE  /\ Goes /\ UNCHANGED <<tcb, stack, cur, next, vector>>
         /\ regs' \in [Regs -> Values]
         /\ regs'[r] = stack[x][field]
         /\ \A q \in Regs : q # r => regs'[q] = regs[q]
<1>1. /\ code[pc].op = "pop" /\ code[pc].base = field /\ code[pc].reg = r
  BY DEF Pop, Ins
<1>2. FillStep
  BY <1>1 DEF SwitchNext, Work, CallSwitch, TimerTick, StoreStep, PutStep, EoiStep, FlipStep,
              PushStep, StackStep, Return, InterruptReturn, At
<1>3. IsStack(regs[Rsp]) /\ regs[Rsp].side = x
  BY DEF IsStack, Value
<1>4. Fetched = stack[x][field]
  BY <1>1, <1>3 DEF Fetched, Now
<1>5. regs' = [regs EXCEPT ![r] = stack[x][field]]
  BY <1>1, <1>2, <1>4 DEF FillStep, Now
<1>6. Goes /\ UNCHANGED <<tcb, stack, cur, next, vector>>
  BY <1>2 DEF FillStep, Goes
<1>7. stack[x][field] \in Values
  BY DEF Typed
<1> QED BY <1>5, <1>6, <1>7 DEF Typed

LEMMA DoesGet ==
  ASSUME Typed, pc # 0, SwitchNext, NEW r \in Regs, NEW global \in {"cur", "next"},
         code[pc] = Get(r, global)
  PROVE  /\ Goes /\ UNCHANGED <<tcb, stack, cur, next, vector>>
         /\ regs' \in [Regs -> Values]
         /\ regs'[r] = IF global = "cur" THEN cur ELSE next
         /\ \A q \in Regs : q # r => regs'[q] = regs[q]
<1>1. /\ code[pc].op = "get" /\ code[pc].base = global /\ code[pc].reg = r
  BY DEF Get, Ins
<1>2. FillStep
  BY <1>1 DEF SwitchNext, Work, CallSwitch, TimerTick, StoreStep, PutStep, EoiStep, FlipStep,
              PushStep, StackStep, Return, InterruptReturn, At
<1>4. Fetched = IF global = "cur" THEN cur ELSE next
  BY <1>1 DEF Fetched, Now
<1>5. regs' = [regs EXCEPT ![r] = IF global = "cur" THEN cur ELSE next]
  BY <1>1, <1>2, <1>4 DEF FillStep, Now
<1>6. Goes /\ UNCHANGED <<tcb, stack, cur, next, vector>>
  BY <1>2 DEF FillStep, Goes
<1> QED BY <1>5, <1>6 DEF Typed

LEMMA DoesPut ==
  ASSUME Typed, pc # 0, SwitchNext, NEW r \in Regs, NEW global \in {"cur", "next"},
         code[pc] = Put(global, r)
  PROVE  /\ Goes /\ UNCHANGED <<regs, tcb, stack, vector>>
         /\ cur' = IF global = "cur" THEN regs[r] ELSE cur
         /\ next' = IF global = "cur" THEN next ELSE regs[r]
<1>1. /\ code[pc].op = "put" /\ code[pc].base = global /\ code[pc].reg = r
  BY DEF Put, Ins
<1>2. PutStep
  BY <1>1 DEF SwitchNext, Work, CallSwitch, TimerTick, StoreStep, FillStep, EoiStep, FlipStep,
              PushStep, StackStep, Return, InterruptReturn, At
<1> QED BY <1>1, <1>2 DEF PutStep, Now, Goes

LEMMA DoesEoi ==
  ASSUME Typed, Machine, pc # 0, SwitchNext, code[pc] = Do("eoi", Rax)
  PROVE  /\ Goes /\ UNCHANGED <<tcb, stack, cur, next, vector>>
         /\ regs' \in [Regs -> Values]
         /\ \A q \in Regs : q # Rax /\ q # Rdx => regs'[q] = regs[q]
<1>1. code[pc].op = "eoi"
  BY DEF Do, Ins
<1>2. EoiStep
  BY <1>1 DEF SwitchNext, Work, CallSwitch, TimerTick, StoreStep, FillStep, PutStep, FlipStep,
              PushStep, StackStep, Return, InterruptReturn, At
<1>3. Junk \in Values
  BY DEF Values
<1> HIDE DEF Junk
<1>4. regs' = [regs EXCEPT ![Rax] = Junk, ![Rdx] = Junk]
  BY <1>2 DEF EoiStep
<1>5. Goes /\ UNCHANGED <<tcb, stack, cur, next, vector>>
  BY <1>2 DEF EoiStep, Goes
<1> QED BY <1>3, <1>4, <1>5 DEF Typed

LEMMA DoesFlip ==
  ASSUME Typed, pc # 0, SwitchNext, NEW r \in Regs, code[pc] = Do("flip", r)
  PROVE  /\ Goes /\ UNCHANGED <<tcb, stack, cur, next>>
         /\ vector' = Other(vector)
         /\ regs' \in [Regs -> Values]
         /\ \A q \in Regs : q # r => regs'[q] = regs[q]
<1>1. code[pc].op = "flip" /\ code[pc].reg = r
  BY DEF Do, Ins
<1>2. FlipStep
  BY <1>1 DEF SwitchNext, Work, CallSwitch, TimerTick, StoreStep, FillStep, PutStep, EoiStep,
              PushStep, StackStep, Return, InterruptReturn, At
<1>3. Junk \in Values
  BY DEF Values
<1> HIDE DEF Junk
<1>4. regs' = [regs EXCEPT ![r] = Junk]
  BY <1>1, <1>2 DEF FlipStep, Now
<1>5. Goes /\ UNCHANGED <<tcb, stack, cur, next>> /\ vector' = Other(vector)
  BY <1>2 DEF FlipStep, Goes
<1> QED BY <1>3, <1>4, <1>5 DEF Typed

LEMMA DoesPush ==
  ASSUME Typed, pc # 0, SwitchNext, NEW b \in Regs, NEW field \in {Rip, Flags, Rsp}, NEW r \in Regs,
         code[pc] = Push(field, r, b), NEW x \in Sides, regs[b] = Value(x, Rsp, 0)
  PROVE  /\ Goes /\ UNCHANGED <<regs, tcb, cur, next, vector>>
         /\ stack' \in [Sides -> [{Rip, Flags, Rsp} -> Values]]
         /\ stack'[x][field] = regs[r]
         /\ \A side \in Sides : \A f \in {Rip, Flags, Rsp} :
              (side # x \/ f # field) => stack'[side][f] = stack[side][f]
<1>1. /\ code[pc].op = "push" /\ code[pc].slot = field /\ code[pc].reg = r /\ code[pc].base = b
  BY DEF Push, Ins
<1>2. PushStep
  BY <1>1 DEF SwitchNext, Work, CallSwitch, TimerTick, StoreStep, FillStep, PutStep, EoiStep,
              FlipStep,
              StackStep, Return, InterruptReturn, At
<1>3. IsStack(regs[b]) /\ regs[b].side = x
  BY DEF IsStack, Value
<1>4. stack' = [stack EXCEPT ![x][field] = regs[r]]
  BY <1>1, <1>2, <1>3 DEF PushStep, Now
<1>5. regs[r] \in Values
  BY DEF Typed
<1>6. Goes /\ UNCHANGED <<regs, tcb, cur, next, vector>>
  BY <1>2 DEF PushStep, Goes
<1> QED BY <1>4, <1>5, <1>6 DEF Typed

LEMMA DoesStack ==
  ASSUME Typed, pc # 0, SwitchNext, NEW r \in Regs, code[pc] = Do("stack", r)
  PROVE  /\ Goes /\ UNCHANGED <<tcb, stack, cur, next, vector>>
         /\ regs' \in [Regs -> Values]
         /\ regs'[Rsp] = regs[r]
         /\ \A q \in Regs : q # Rsp => regs'[q] = regs[q]
<1>1. code[pc].op = "stack" /\ code[pc].reg = r
  BY DEF Do, Ins
<1>2. StackStep
  BY <1>1 DEF SwitchNext, Work, CallSwitch, TimerTick, StoreStep, FillStep, PutStep, EoiStep,
              FlipStep, PushStep, Return, InterruptReturn, At
<1>3. regs[r] \in Values /\ Rsp \in Regs
  BY DEF Typed, Regs
<1>4. regs' = [regs EXCEPT ![Rsp] = regs[r]]
  BY <1>1, <1>2 DEF StackStep, Now
<1>5. Goes /\ UNCHANGED <<tcb, stack, cur, next, vector>>
  BY <1>2 DEF StackStep, Goes
<1> QED BY <1>3, <1>4, <1>5 DEF Typed

LEMMA DoesReturn ==
  ASSUME Typed, pc # 0, SwitchNext, code[pc] = Do("ret", Rsp),
         NEW x \in Sides, NEW time, regs[Rsp] = Value(x, Rsp, time)
  PROVE  /\ UNCHANGED <<layout, tcb, stack, cur, next, vector, own, clock>>
         /\ pc' = 0 /\ code' = <<>> /\ running' = stack[x][Rip].side
         /\ regs' \in [Regs -> Values]
         /\ regs'[Rip] = stack[x][Rip]
         /\ \A q \in Regs : q # Rip => regs'[q] = regs[q]
<1>1. code[pc].op = "ret"
  BY DEF Do, Ins
<1>2. Return
  BY <1>1 DEF SwitchNext, Work, CallSwitch, TimerTick, StoreStep, FillStep, PutStep, EoiStep,
              FlipStep, PushStep, StackStep, InterruptReturn, At
<1>3. Frame = stack[x]
  BY DEF Frame, IsStack, Value
<1>4. regs' = [regs EXCEPT ![Rip] = stack[x][Rip]]
  BY <1>2, <1>3 DEF Return
<1>5. stack[x][Rip] \in Values /\ Rip \in Regs
  BY DEF Typed, Regs
<1>6. /\ UNCHANGED <<layout, tcb, stack, cur, next, vector, own, clock>>
      /\ pc' = 0 /\ code' = <<>> /\ running' = stack[x][Rip].side
  BY <1>2, <1>3 DEF Return
<1> QED BY <1>4, <1>5, <1>6 DEF Typed

LEMMA DoesInterruptReturn ==
  ASSUME Typed, pc # 0, SwitchNext, code[pc] = Do("iret", Rsp),
         NEW x \in Sides, NEW time, regs[Rsp] = Value(x, Rsp, time)
  PROVE  /\ UNCHANGED <<layout, tcb, stack, cur, next, vector, own, clock>>
         /\ pc' = 0 /\ code' = <<>> /\ running' = stack[x][Rip].side
         /\ regs' \in [Regs -> Values]
         /\ \A q \in {Rip, Flags, Rsp} : regs'[q] = stack[x][q]
         /\ \A q \in General : q \notin {Rip, Flags, Rsp} => regs'[q] = regs[q]
<1>1. code[pc].op = "iret"
  BY DEF Do, Ins
<1>2. InterruptReturn
  BY <1>1 DEF SwitchNext, Work, CallSwitch, TimerTick, StoreStep, FillStep, PutStep, EoiStep,
              FlipStep, PushStep, StackStep, Return, At
<1>3. Frame = stack[x]
  BY DEF Frame, IsStack, Value
<1>4. regs' = [q \in Regs |-> IF q \in {Rip, Flags, Rsp} THEN stack[x][q] ELSE regs[q]]
  BY <1>2, <1>3 DEF InterruptReturn
<1>5. stack[x] \in [{Rip, Flags, Rsp} -> Values] /\ {Rip, Flags, Rsp} \subseteq Regs /\ General \subseteq Regs
  BY DEF Typed, Regs
<1>6. /\ UNCHANGED <<layout, tcb, stack, cur, next, vector, own, clock>>
      /\ pc' = 0 /\ code' = <<>> /\ running' = stack[x][Rip].side
  BY <1>2, <1>3 DEF InterruptReturn
<1>7. regs' \in [Regs -> Values]
  BY <1>4, <1>5 DEF Typed
<1> QED BY <1>4, <1>5, <1>6, <1>7

-----------------------------------------------------------------------------
(***************************************************************************)
(* The invariant.                                                          *)
(***************************************************************************)
Timed == layout.kind = "timer"

\* The slot the k-th register of a footprint is saved to.
Slot(k) == IF Timed THEN k + 2 ELSE k + 1

\* What a thread's stack pointer and place in the code look like.
OwnInv ==
  \A side \in Sides :
    /\ own[side][Rsp] = Value(side, Rsp, 0)
    /\ \E time : own[side][Rip] = Value(side, Rip, time)

\* A thread that does not run is whole in its TCB, and has called or been
\* called from where its stack says.
Aside(side) ==
  /\ tcb[side][0] = own[side][Rsp]
  /\ tcb[side][1] = own[side][Rip]
  /\ Timed => tcb[side][2] = own[side][Flags]
  /\ \A k \in 1..Len(layout.gp[side]) : tcb[side][Slot(k)] = own[side][layout.gp[side][k]]
  /\ ~Timed => stack[side][Rip] = own[side][Rip]

\* While a thread runs its registers are its own and the other is aside.
Resting ==
  /\ regs[Rsp] = own[running][Rsp] /\ regs[Rip] = own[running][Rip]
  /\ \A k \in 1..N : regs[Out[k]] = own[running][Out[k]]
  /\ Timed => /\ regs[Flags] = own[running][Flags]
              /\ vector = running
              /\ cur = Tcb(running)
              /\ next = Tcb(Other(running))
  /\ Aside(Other(running))

\* In the middle of a switch the running thread asked for.
CalledInv ==
  /\ code = Called(Out, In)
  /\ stack[running][Rip] = own[running][Rip]
  /\ pc <= N + 3 => regs[Rdi] = Tcb(running)
  /\ pc <= N + M + 4 => regs[Rsi] = Tcb(Other(running)) /\ regs[Rsp] = own[running][Rsp]
  /\ pc <= N => \A k \in 1..N : regs[Out[k]] = own[running][Out[k]]
  /\ \A k \in 1..N : k < pc => tcb[running][k + 1] = own[running][Out[k]]
  /\ pc > N + 1 => tcb[running][0] = own[running][Rsp]
  /\ pc = N + 3 => regs[Rax] = own[running][Rip]
  /\ pc > N + 3 => tcb[running][1] = own[running][Rip]
  /\ \A k \in 1..M : N + 3 + k < pc => regs[In[k]] = own[Other(running)][In[k]]
  /\ pc = N + M + 5 => regs[Rsp] = own[Other(running)][Rsp]
  /\ Aside(Other(running))

\* In the middle of a switch the timer forced.
SavedInv ==
  /\ pc <= N + 7 => \A f \in {Rip, Flags, Rsp} : stack[running][f] = own[running][f]
  /\ pc <= N + 21 + M => regs[Rsp] = own[running][Rsp]
  /\ pc <= N + 7 => \A k \in 1..N : regs[Out[k]] = own[running][Out[k]]
  /\ 1 < pc /\ pc <= N + 7 => regs[In[1]] = Tcb(running)
  /\ \A k \in 1..N : k + 1 < pc => tcb[running][k + 2] = own[running][Out[k]]
  /\ pc = N + 3 => regs[In[2]] = own[running][Rip]
  /\ pc = N + 5 => regs[In[2]] = own[running][Flags]
  /\ pc = N + 7 => regs[In[2]] = own[running][Rsp]
  /\ pc > N + 3 => tcb[running][1] = own[running][Rip]
  /\ pc > N + 5 => tcb[running][2] = own[running][Flags]
  /\ pc > N + 7 => tcb[running][0] = own[running][Rsp]

DispatchInv ==
  /\ vector = IF pc <= N + 9 THEN running ELSE Other(running)
  /\ cur = IF pc <= N + 13 THEN Tcb(running) ELSE Tcb(Other(running))
  /\ next = IF pc <= N + 12 THEN Tcb(Other(running)) ELSE Tcb(running)
  /\ N + 10 < pc /\ pc <= N + 12 => regs[In[2]] = Tcb(running)
  /\ N + 11 < pc /\ pc <= N + M + 21 => regs[Out[1]] = Tcb(Other(running))

TakenUpInv ==
  /\ Aside(Other(running))
  /\ \A k \in 1..M : N + 13 + k < pc => regs[In[k]] = own[Other(running)][In[k]]
  /\ N + M + 14 < pc /\ pc <= N + M + 21 => regs[Out[2]] = own[Other(running)][Rsp]
  /\ N + M + 15 < pc /\ pc <= N + M + 19 => regs[Out[3]] = own[Other(running)][Rip]
  /\ N + M + 19 < pc /\ pc <= N + M + 21 => regs[Out[3]] = own[Other(running)][Rsp]
  /\ N + M + 16 < pc /\ pc <= N + M + 21 => regs[Out[4]] = own[Other(running)][Flags]
  /\ pc > N + M + 17 => stack[Other(running)][Rip] = own[Other(running)][Rip]
  /\ pc > N + M + 18 => stack[Other(running)][Flags] = own[Other(running)][Flags]
  /\ pc > N + M + 20 => stack[Other(running)][Rsp] = own[Other(running)][Rsp]
  /\ pc = N + M + 22 => regs[Rsp] = own[Other(running)][Rsp]

TimerInv == code = Timer(running, Out, In) /\ SavedInv /\ DispatchInv /\ TakenUpInv

SwitchInv ==
  /\ Machine /\ Fits(layout)
  /\ Typed /\ OwnInv
  /\ pc \in 0..Len(code)
  /\ pc = 0 => Resting
  /\ pc # 0 /\ ~Timed => CalledInv
  /\ pc # 0 /\ Timed => TimerInv

-----------------------------------------------------------------------------
LEMMA RegFacts ==
  ASSUME Machine
  PROVE  /\ General \subseteq Regs /\ {Rax, Rdx, Rsi, Rdi, Rsp, Rip, Flags} \subseteq Regs
         /\ \A r \in General : r # Rsp /\ r # Rip /\ r # Flags
         /\ {Rax, Rdx, Rsi, Rdi} \subseteq General
         /\ Rsp # Rip /\ Rsp # Flags /\ Rip # Flags
         /\ Rax # Rdi /\ Rax # Rsi /\ Rdi # Rsi
BY DEF Machine, Regs

LEMMA ValueFacts ==
  ASSUME Machine, NEW side \in Sides, NEW r \in Regs
  PROVE  /\ \A time \in 0..MaxWork : Value(side, r, time) \in Values
         /\ Value(side, r, 0) \in Values
         /\ Tcb(side) \in Values
BY DEF Values, Machine

LEMMA SlotFacts ==
  ASSUME Machine, Fits(layout), NEW side \in Sides
  PROVE  /\ {0, 1, 2} \subseteq Slots
         /\ \A k \in 1..Len(layout.gp[side]) : k + 1 \in Slots /\ k + 2 \in Slots
<1>1. Len(layout.gp["left"]) \in Nat /\ Len(layout.gp["right"]) \in Nat /\ side \in {"left", "right"}
  BY DEF Fits, Sides
<1> DEFINE L == Len(layout.gp["left"])
           R == Len(layout.gp["right"])
           K == Len(layout.gp[side])
<1>2. K = L \/ K = R
  BY <1>1
<1>3. Slots = 0..(L + R + 2)
  BY DEF Slots
<1>4. L \in Nat /\ R \in Nat
  BY <1>1
<1> HIDE DEF L, R, K
<1>5. \A k \in 1..K : k + 1 \in 0..(L + R + 2) /\ k + 2 \in 0..(L + R + 2)
  BY <1>2, <1>4
<1>6. {0, 1, 2} \subseteq 0..(L + R + 2)
  BY <1>4
<1> QED BY <1>3, <1>5, <1>6 DEF K

LEMMA InitSwitchInv == Machine /\ SwitchInit /\ Fits(layout) => SwitchInv
<1> SUFFICES ASSUME Machine, SwitchInit, Fits(layout) PROVE SwitchInv
  OBVIOUS
<1>0. /\ running = "left" /\ "left" \in Sides /\ "right" \in Sides /\ Other("left") = "right"
      /\ Other(running) = "right" /\ pc = 0 /\ code = <<>> /\ layout \in Layouts
  BY DEF SwitchInit, Sides, Other
<1>1. /\ regs = [r \in Regs |-> Value("left", r, 0)]
      /\ own = [side \in Sides |-> [r \in Regs |-> Value(side, r, 0)]]
      /\ tcb = [side \in Sides |-> Seeded(side)]
      /\ stack = [side \in Sides |-> [r \in {Rip, Flags, Rsp} |-> Value(side, r, 0)]]
      /\ cur = Tcb("left") /\ next = Tcb("right") /\ vector = "left" /\ clock = 0
  BY DEF SwitchInit, Start
<1>2. \A side \in Sides : \A r \in Regs : Value(side, r, 0) \in Values /\ Tcb(side) \in Values
  BY ValueFacts
<1>3. /\ {Rip, Flags, Rsp} \subseteq Regs /\ General \subseteq Regs
      /\ Junk \in Values
  BY RegFacts DEF Values
<1>4. \A side \in Sides : \A k \in 1..Len(layout.gp[side]) : layout.gp[side][k] \in General
  BY DEF Fits
<1>4a. \A side \in Sides : Len(layout.gp[side]) \in Nat
  BY DEF Fits
<1>5. First = IF Timed THEN 3 ELSE 2
  BY DEF First, Timed
<1> HIDE DEF Value, Tcb, Junk
<1>6. ASSUME NEW side \in Sides PROVE Seeded(side) \in [Slots -> Values]
  <2>1. \A j \in Slots : j - First + 1 \in 1..Len(layout.gp[side]) =>
          Value(side, layout.gp[side][j - First + 1], 0) \in Values
    BY <1>2, <1>3, <1>4
  <2> QED BY <1>2, <1>3, <2>1 DEF Seeded
<1>7. Typed
  <2>1. clock \in 0..MaxWork
    BY <1>1 DEF Machine
  <2> QED BY <1>0, <1>1, <1>2, <1>3, <1>6, <2>1 DEF Typed
<1>8. OwnInv
  BY <1>1, <1>3 DEF OwnInv
<1>9. Aside("right")
  <2> DEFINE g == layout.gp["right"]
  <2>1. tcb["right"] = Seeded("right")
    BY <1>0, <1>1
  <2>2. {0, 1, 2} \subseteq Slots
    BY <1>0, SlotFacts
  <2>3. Seeded("right")[0] = Value("right", Rsp, 0) /\ Seeded("right")[1] = Value("right", Rip, 0)
    BY <2>2 DEF Seeded
  <2>4. Timed => Seeded("right")[2] = Value("right", Flags, 0)
    BY <2>2, <1>5 DEF Seeded
  <2>5. ASSUME NEW k \in 1..Len(g)
        PROVE  Seeded("right")[Slot(k)] = Value("right", g[k], 0)
    <3>1. /\ Slot(k) \in Slots
          /\ Slot(k) # 0 /\ Slot(k) # 1 /\ ~(Slot(k) = 2 /\ First = 3)
          /\ Slot(k) - First + 1 = k
      <4>1. k + 1 \in Slots /\ k + 2 \in Slots
        BY <1>0, SlotFacts
      <4>2. k \in Nat /\ k >= 1
        BY <1>0, <1>4a
      <4> QED BY <4>1, <4>2, <1>5 DEF Slot
    <3> QED BY <3>1 DEF Seeded
  <2>6. /\ own["right"][Rsp] = Value("right", Rsp, 0)
        /\ own["right"][Rip] = Value("right", Rip, 0)
        /\ own["right"][Flags] = Value("right", Flags, 0)
        /\ \A k \in 1..Len(g) : own["right"][g[k]] = Value("right", g[k], 0)
        /\ stack["right"][Rip] = Value("right", Rip, 0)
    BY <1>0, <1>1, <1>3, <1>4
  <2> QED BY <2>1, <2>3, <2>4, <2>5, <2>6 DEF Aside
<1>10. Resting
  <2>1. \A k \in 1..N : Out[k] \in Regs
    BY <1>0, <1>3, <1>4 DEF N, Out
  <2> QED BY <1>0, <1>1, <1>3, <1>9, <2>1 DEF Resting
<1>11. pc \in 0..Len(code)
  BY <1>0
<1> QED BY <1>0, <1>7, <1>8, <1>10, <1>11 DEF SwitchInv

-----------------------------------------------------------------------------
LEMMA WorkKeeps == ASSUME SwitchInv, Work PROVE SwitchInv'
<1>0. Machine /\ Fits(layout) /\ Typed /\ OwnInv /\ Resting /\ pc = 0 /\ running \in Sides
  BY DEF SwitchInv, Work, Typed
<1>1. /\ UNCHANGED <<layout, tcb, stack, cur, next, vector, code, pc, running>>
      /\ clock' = clock + 1 /\ clock < MaxWork
      /\ own' = [own EXCEPT ![running] = regs']
  BY DEF Work
<1>2. PICK r \in Uses(running) \cup {Flags} :
        regs' = [regs EXCEPT ![r] = Value(running, r, clock'),
                             ![Rip] = Value(running, Rip, clock')]
  BY DEF Work
<1>3. clock' \in 0..MaxWork
  BY <1>0, <1>1 DEF Typed, Machine
<1>4. r \in Regs /\ r # Rip /\ r # Rsp /\ Rip \in Regs /\ Rsp \in Regs /\ Rsp # Rip
  BY <1>0, RegFacts DEF Uses, Fits
<1>5. Value(running, r, clock') \in Values /\ Value(running, Rip, clock') \in Values
  BY <1>0, <1>3, <1>4, ValueFacts
<1> DEFINE v == Value(running, r, clock')
           w == Value(running, Rip, clock')
<1>6. regs' \in [Regs -> Values] /\ regs'[Rip] = w /\ regs'[Rsp] = regs[Rsp]
  <2>1. regs' = [regs EXCEPT ![r] = v, ![Rip] = w] /\ v \in Values /\ w \in Values
    BY <1>2, <1>5
  <2> HIDE DEF v, w
  <2> QED BY <1>0, <1>4, <2>1 DEF Typed
<1>7. own' \in [Sides -> [Regs -> Values]] /\ own'[running] = regs'
      /\ \A side \in Sides : side # running => own'[side] = own[side]
  BY <1>0, <1>1, <1>6 DEF Typed
<1>8. Typed'
  BY <1>0, <1>1, <1>3, <1>6, <1>7 DEF Typed, Slots
<1>9. OwnInv'
  <2> HIDE DEF w
  <2>1. own'[running][Rsp] = Value(running, Rsp, 0)
    BY <1>0, <1>6, <1>7 DEF Resting, OwnInv
  <2>2. \E time : own'[running][Rip] = Value(running, Rip, time)
    BY <1>6, <1>7 DEF w
  <2>3. ASSUME NEW side \in Sides, side # running
        PROVE  own'[side][Rsp] = Value(side, Rsp, 0) /\ \E time : own'[side][Rip] = Value(side, Rip, time)
    BY <1>0, <1>7, <2>3 DEF OwnInv
  <2> QED BY <2>1, <2>2, <2>3 DEF OwnInv
<1>10. Resting'
  <2>1. Other(running) \in Sides /\ Other(running) # running
    BY <1>0, Sizes
  <2>2. Aside(Other(running))'
    BY <1>0, <1>1, <1>7, <2>1 DEF Resting, Aside, Slot, Timed
  <2>3. Timed' = Timed /\ Out' = Out /\ N' = N
    BY <1>1 DEF Timed, Out, N
  <2> QED BY <1>0, <1>1, <1>7, <2>2, <2>3 DEF Resting
<1>11. Machine' /\ Fits(layout)' /\ pc' = 0 /\ pc' \in 0..Len(code')
  BY <1>0, <1>1 DEF Machine, SwitchInv
<1> QED BY <1>8, <1>9, <1>10, <1>11 DEF SwitchInv

LEMMA CallKeeps == ASSUME SwitchInv, CallSwitch PROVE SwitchInv'
<1>0. /\ Machine /\ Fits(layout) /\ Typed /\ OwnInv /\ Resting /\ pc = 0 /\ running \in Sides
      /\ layout.kind = "called" /\ ~Timed
  BY DEF SwitchInv, CallSwitch, Typed, Timed
<1>1. /\ UNCHANGED <<layout, tcb, cur, next, vector, running, clock>>
      /\ regs' = [regs EXCEPT ![Rdi] = Tcb(running), ![Rsi] = Tcb(Other(running))]
      /\ own' = [own EXCEPT ![running] = regs']
      /\ stack' = [stack EXCEPT ![running][Rip] = regs[Rip]]
      /\ code' = Called(Out, In) /\ pc' = 1
  BY <1>0 DEF CallSwitch, Routine, Out, In
<1>2. Other(running) \in Sides /\ Other(running) # running /\ N \in Nat /\ M \in Nat
  BY <1>0, Sizes
<1>3. Tcb(running) \in Values /\ Tcb(Other(running)) \in Values
  <2>1. Rsp \in Regs
    BY DEF Regs
  <2> QED BY <1>0, <1>2, <2>1, ValueFacts
<1>4. /\ Rdi \in Regs /\ Rsi \in Regs /\ Rdi # Rsi /\ Rsp \in Regs /\ Rip \in Regs
      /\ Rsp # Rdi /\ Rsp # Rsi /\ Rip # Rdi /\ Rip # Rsi
  BY <1>0, RegFacts
<1> HIDE DEF Tcb
<1>5. /\ regs' \in [Regs -> Values]
      /\ regs'[Rdi] = Tcb(running) /\ regs'[Rsi] = Tcb(Other(running))
      /\ regs'[Rsp] = regs[Rsp] /\ regs'[Rip] = regs[Rip]
  BY <1>0, <1>1, <1>3, <1>4 DEF Typed
<1>6. own' \in [Sides -> [Regs -> Values]] /\ own'[running] = regs'
      /\ \A side \in Sides : side # running => own'[side] = own[side]
  BY <1>0, <1>1, <1>5 DEF Typed
<1>7. /\ stack' \in [Sides -> [{Rip, Flags, Rsp} -> Values]]
      /\ stack'[running][Rip] = regs[Rip]
      /\ \A side \in Sides : side # running => stack'[side] = stack[side]
  BY <1>0, <1>1, <1>4 DEF Typed
<1>8. Typed'
  BY <1>0, <1>1, <1>5, <1>6, <1>7 DEF Typed, Slots
<1>9. OwnInv'
  <2>1. own'[running][Rsp] = own[running][Rsp] /\ own'[running][Rip] = own[running][Rip]
    BY <1>0, <1>5, <1>6 DEF Resting
  <2>2. ASSUME NEW side \in Sides
        PROVE  own'[side][Rsp] = own[side][Rsp] /\ own'[side][Rip] = own[side][Rip]
    BY <1>6, <2>1
  <2> HIDE DEF Value
  <2> QED BY <1>0, <2>2 DEF OwnInv
<1>10. Timed' = Timed /\ Out' = Out /\ In' = In /\ N' = N /\ M' = M
  BY <1>1 DEF Timed, Out, In, N, M
<1>11. CalledInv'
  <2>1. Aside(Other(running))'
    BY <1>0, <1>1, <1>2, <1>6, <1>7 DEF Resting, Aside, Slot, Timed
  <2>2. stack'[running][Rip] = own'[running][Rip]
    BY <1>5, <1>6, <1>7
  <2>3. /\ ~(N + 1 < 1) /\ 1 # N + 3 /\ ~(N + 3 < 1) /\ 1 # N + M + 5
        /\ \A k \in 1..N : ~(k < 1)
        /\ \A k \in 1..M : ~(N + 3 + k < 1)
        /\ ~(1 > N + 1) /\ ~(1 > N + 3)
    BY <1>2
  <2> QED BY <1>1, <1>5, <1>6, <1>10, <2>1, <2>2, <2>3 DEF CalledInv
<1>12. Machine' /\ Fits(layout)' /\ pc' # 0 /\ pc' \in 0..Len(code')
  <2>1. Len(code') = N + M + 5
    BY <1>0, <1>1, CalledCode
  <2> QED BY <1>0, <1>1, <1>2, <2>1 DEF Machine
<1> QED BY <1>0, <1>8, <1>9, <1>10, <1>11, <1>12 DEF SwitchInv

LEMMA TickKeeps == ASSUME SwitchInv, TimerTick PROVE SwitchInv'
<1>0. /\ Machine /\ Fits(layout) /\ Typed /\ OwnInv /\ Resting /\ pc = 0 /\ running \in Sides
      /\ layout.kind = "timer" /\ Timed /\ vector = running
  BY DEF SwitchInv, TimerTick, Typed, Timed, Resting
<1>1. /\ UNCHANGED <<layout, regs, tcb, cur, next, vector, running, own, clock>>
      /\ stack' = [stack EXCEPT ![running] = [r \in {Rip, Flags, Rsp} |-> regs[r]]]
      /\ code' = Timer(running, Out, In) /\ pc' = 1
  BY <1>0 DEF TimerTick, Routine, Out, In
<1>2. Other(running) \in Sides /\ Other(running) # running /\ N \in Nat /\ M \in Nat
  BY <1>0, Sizes
<1>3. {Rip, Flags, Rsp} \subseteq Regs
  BY DEF Regs
<1>4. /\ stack' \in [Sides -> [{Rip, Flags, Rsp} -> Values]]
      /\ \A f \in {Rip, Flags, Rsp} : stack'[running][f] = regs[f]
      /\ \A side \in Sides : side # running => stack'[side] = stack[side]
  <2> DEFINE frame == [r \in {Rip, Flags, Rsp} |-> regs[r]]
  <2>1. frame \in [{Rip, Flags, Rsp} -> Values] /\ \A f \in {Rip, Flags, Rsp} : frame[f] = regs[f]
    BY <1>0, <1>3 DEF Typed
  <2>2. stack' = [stack EXCEPT ![running] = frame]
    BY <1>1
  <2> HIDE DEF frame
  <2> QED BY <1>0, <2>1, <2>2 DEF Typed
<1>5. Typed'
  BY <1>0, <1>1, <1>4 DEF Typed, Slots
<1>6. OwnInv'
  BY <1>0, <1>1 DEF OwnInv
<1>7. Timed' = Timed /\ Out' = Out /\ In' = In /\ N' = N /\ M' = M
  BY <1>1 DEF Timed, Out, In, N, M
<1>8. /\ 1 # N + 3 /\ 1 # N + 5 /\ 1 # N + 7
      /\ ~(1 > N + 3) /\ ~(1 > N + 5) /\ ~(1 > N + 7) /\ ~(1 < 1)
      /\ \A k \in 1..N : ~(k + 1 < 1)
      /\ \A k \in 1..M : ~(N + 13 + k < 1)
      /\ 1 <= N + 9 /\ 1 <= N + 13 /\ 1 <= N + 12
      /\ ~(N + 10 < 1) /\ ~(N + 11 < 1) /\ ~(N + M + 14 < 1) /\ ~(N + M + 15 < 1)
      /\ ~(N + M + 19 < 1) /\ ~(N + M + 16 < 1)
      /\ ~(1 > N + M + 17) /\ ~(1 > N + M + 18) /\ ~(1 > N + M + 20) /\ 1 # N + M + 22
  BY <1>2
<1>9. SavedInv'
  <2>1. \A f \in {Rip, Flags, Rsp} : stack'[running][f] = own[running][f]
    BY <1>0, <1>4 DEF Resting
  <2> QED BY <1>0, <1>1, <1>7, <1>8, <2>1 DEF SavedInv, Resting
<1>10. DispatchInv'
  BY <1>0, <1>1, <1>7, <1>8 DEF DispatchInv, Resting
<1>11. TakenUpInv'
  <2>1. Aside(Other(running))'
    BY <1>0, <1>1, <1>2, <1>4 DEF Resting, Aside, Slot, Timed
  <2> QED BY <1>1, <1>7, <1>8, <2>1 DEF TakenUpInv
<1>12. Machine' /\ Fits(layout)' /\ pc' # 0 /\ pc' \in 0..Len(code')
  <2>1. Len(code') = N + M + 22
    BY <1>0, <1>1, TimerCode
  <2> QED BY <1>0, <1>1, <1>2, <2>1 DEF Machine
<1> QED BY <1>0, <1>1, <1>5, <1>6, <1>7, <1>9, <1>10, <1>11, <1>12 DEF SwitchInv, TimerInv

-----------------------------------------------------------------------------
LEMMA SameSizes ==
  ASSUME UNCHANGED <<layout, running>>
  PROVE  Timed' = Timed /\ Out' = Out /\ In' = In /\ N' = N /\ M' = M
BY DEF Timed, Out, In, N, M

\* A thread aside stays aside when its slots and its stack are left alone.
LEMMA AsideKept ==
  ASSUME Machine, Fits(layout), running \in Sides, Aside(Other(running)),
         UNCHANGED <<layout, running, own>>,
         \A j \in Slots : tcb'[Other(running)][j] = tcb[Other(running)][j],
         ~Timed => stack'[Other(running)][Rip] = stack[Other(running)][Rip]
  PROVE  Aside(Other(running))'
<1>1. Other(running) \in Sides
  BY Sizes
<1>2. /\ {0, 1, 2} \subseteq Slots
      /\ \A k \in 1..Len(layout.gp[Other(running)]) : k + 1 \in Slots /\ k + 2 \in Slots
  BY <1>1, SlotFacts
<1>3. \A k \in 1..Len(layout.gp[Other(running)]) : Slot(k) \in Slots
  BY <1>2 DEF Slot
<1>4. Timed' = Timed /\ \A k : Slot(k)' = Slot(k)
  BY DEF Timed, Slot
<1> QED BY <1>2, <1>3, <1>4 DEF Aside

LEMMA CalledGoesOn ==
  ASSUME SwitchInv, pc # 0, ~Timed, Goes, Typed', CalledInv', pc < N + M + 5
  PROVE  SwitchInv'
<1>1. Machine /\ Fits(layout) /\ OwnInv /\ running \in Sides /\ CalledInv
  BY DEF SwitchInv, Typed
<1>2. Len(code) = N + M + 5 /\ N \in Nat /\ M \in Nat
  BY <1>1, CalledCode, Sizes DEF CalledInv
<1>3. pc \in Nat
  BY <1>2 DEF SwitchInv
<1>4. pc' \in 0..Len(code') /\ pc' # 0
  BY <1>2, <1>3 DEF Goes
<1>5. OwnInv' /\ Machine' /\ Fits(layout)' /\ ~Timed'
  BY <1>1 DEF Goes, OwnInv, Machine, Timed
<1> QED BY <1>4, <1>5 DEF SwitchInv

LEMMA CalledReturns ==
  ASSUME SwitchInv, SwitchNext, ~Timed, pc # 0, pc = N + M + 5
  PROVE  SwitchInv' /\ pc' = 0 /\ running' = Other(running)
<1> DEFINE t == Other(running)
<1>0. Machine /\ Fits(layout) /\ Typed /\ OwnInv /\ CalledInv /\ running \in Sides
  BY DEF SwitchInv, Typed
<1>1. /\ N \in Nat /\ M \in Nat /\ t \in Sides /\ t # running
      /\ \A k \in 1..M : In[k] \in General
  BY <1>0, Sizes
<1>2. code[N + M + 5] = Do("ret", Rsp)
  BY <1>0, CalledCode DEF CalledInv
<1>4. /\ \A r \in General : r \in Regs /\ r # Rsp /\ r # Rip /\ r # Flags
      /\ Rsp \in Regs /\ Rip \in Regs
  BY <1>0, RegFacts
<1>6. own[t][Rsp] = Value(t, Rsp, 0)
  BY <1>0, <1>1 DEF OwnInv
<1> HIDE DEF t
<1>11. regs[Rsp] = Value(t, Rsp, 0)
  BY <1>0, <1>6 DEF CalledInv, t
<1>12. /\ UNCHANGED <<layout, tcb, stack, cur, next, vector, own, clock>>
      /\ pc' = 0 /\ code' = <<>> /\ running' = stack[t][Rip].side
      /\ regs' \in [Regs -> Values]
      /\ regs'[Rip] = stack[t][Rip]
      /\ \A q \in Regs : q # Rip => regs'[q] = regs[q]
  BY <1>0, <1>1, <1>2, <1>11, DoesReturn
<1>13. stack[t][Rip] = own[t][Rip]
  BY <1>0 DEF CalledInv, Aside, t
<1>14. running' = t
  <2>1. PICK time : own[t][Rip] = Value(t, Rip, time)
    BY <1>0, <1>1 DEF OwnInv
  <2> QED BY <1>12, <1>13, <2>1 DEF Value
<1>15. Typed'
  BY <1>0, <1>1, <1>12, <1>14 DEF Typed, Slots
<1>16. OwnInv' /\ Machine' /\ Fits(layout)' /\ pc' \in 0..Len(code')
  BY <1>0, <1>12 DEF OwnInv, Machine
<1>17. /\ ~Timed' /\ N' = M /\ Out' = In /\ Other(running)' = running
  BY <1>0, <1>12, <1>14, Sizes DEF Timed, N, M, Out, In, t
<1>18. PICK s \in Sides : s = running
  BY <1>0
<1>19. Aside(Other(running))'
  <2>1. /\ N + M + 5 > N + 1 /\ N + M + 5 > N + 3
        /\ \A k \in 1..N : k < N + M + 5
    BY <1>1
  <2>2. Aside(s)
    BY <1>0, <1>18, <2>1 DEF CalledInv, Aside, Slot, N, Out
  <2>3. Aside(s)'
    BY <1>12, <1>17, <2>2 DEF Aside, Slot, Timed
  <2>4. Other(running)' = s
    BY <1>17, <1>18
  <2> QED BY <2>3, <2>4 DEF Aside
<1>20. /\ \A k \in 1..M : regs'[In[k]] = own[t][In[k]]
       /\ regs'[Rsp] = own[t][Rsp] /\ regs'[Rip] = own[t][Rip]
  <2>1. \A k \in 1..M : N + 3 + k < pc
    BY <1>1
  <2>2. \A k \in 1..M : In[k] \in Regs /\ In[k] # Rip
    BY <1>1, <1>4
  <2>3. Rsp # Rip
    BY <1>0, RegFacts
  <2> QED BY <1>0, <1>4, <1>6, <1>11, <1>12, <1>13, <2>1, <2>2, <2>3 DEF CalledInv, t
<1>21. Resting'
  BY <1>12, <1>14, <1>17, <1>19, <1>20 DEF Resting
<1> QED BY <1>12, <1>14, <1>15, <1>16, <1>17, <1>21 DEF SwitchInv, t

LEMMA CalledKeeps == ASSUME SwitchInv, SwitchNext, pc # 0, ~Timed PROVE SwitchInv'
<1> DEFINE t == Other(running)
<1>0. Machine /\ Fits(layout) /\ Typed /\ OwnInv /\ CalledInv /\ running \in Sides
  BY DEF SwitchInv, Typed
<1>1. /\ N \in Nat /\ M \in Nat /\ t \in Sides /\ t # running
      /\ \A k \in 1..N : Out[k] \in General
      /\ \A k \in 1..M : In[k] \in General
      /\ \A j, k \in 1..M : In[j] = In[k] => j = k
  BY <1>0, Sizes
<1>2. /\ Len(code) = N + M + 5
      /\ \A j \in 1..N : code[j] = Store(Rdi, j + 1, Out[j])
      /\ code[N + 1] = Store(Rdi, 0, Rsp)
      /\ code[N + 2] = Pop(Rax, Rip)
      /\ code[N + 3] = Store(Rdi, 1, Rax)
      /\ \A j \in 1..M : code[N + 3 + j] = Load(In[j], Rsi, j + 1)
      /\ code[N + M + 4] = Load(Rsp, Rsi, 0)
      /\ code[N + M + 5] = Do("ret", Rsp)
  BY <1>0, CalledCode DEF CalledInv
<1>3. pc \in 1..(N + M + 5)
  BY <1>1, <1>2 DEF SwitchInv
<1>4. /\ \A r \in General : r \in Regs /\ r # Rsp /\ r # Rip /\ r # Flags
      /\ Rax \in Regs /\ Rdi \in Regs /\ Rsi \in Regs /\ Rsp \in Regs /\ Rip \in Regs
      /\ Rax # Rdi /\ Rax # Rsi /\ Rax # Rsp /\ Rdi # Rsp /\ Rsi # Rsp
  BY <1>0, RegFacts
<1>5. /\ {0, 1, 2} \subseteq Slots
      /\ \A k \in 1..N : k + 1 \in Slots
      /\ \A k \in 1..M : k + 1 \in Slots
  <2>1. {0, 1, 2} \subseteq Slots /\ \A k \in 1..N : k + 1 \in Slots
    BY <1>0, SlotFacts DEF N, Out
  <2>2. \A k \in 1..M : k + 1 \in Slots
    BY <1>0, <1>1, SlotFacts DEF M, In
  <2> QED BY <2>1, <2>2
<1>6. own[running][Rsp] = Value(running, Rsp, 0) /\ own[t][Rsp] = Value(t, Rsp, 0)
  BY <1>0, <1>1 DEF OwnInv
<1>7. \A k \in 1..M : In[k] # Rsi
  <2>1. layout.kind # "timer"
    BY DEF Timed
  <2>2. Rsi \notin Listed(layout.gp[t])
    BY <1>0, <1>1, <2>1 DEF Fits
  <2> QED BY <2>2 DEF Listed, In, M
<1> HIDE DEF t
<1>10. CASE pc \in 1..N
  <2>1. /\ Goes /\ UNCHANGED <<regs, stack, cur, next, vector>>
        /\ tcb' \in [Sides -> [Slots -> Values]]
        /\ tcb'[running][pc + 1] = regs[Out[pc]]
        /\ \A side \in Sides : \A j \in Slots :
             (side # running \/ j # pc + 1) => tcb'[side][j] = tcb[side][j]
    <3>1. code[pc] = Store(Rdi, pc + 1, Out[pc]) /\ pc + 1 \in Slots /\ Out[pc] \in Regs
      BY <1>1, <1>2, <1>4, <1>5, <1>10
    <3>2. regs[Rdi] = Tcb(running)
      BY <1>0, <1>1, <1>10 DEF CalledInv
    <3> QED BY <1>0, <1>4, <3>1, <3>2, DoesStore
  <2>2. Typed'
    BY <1>0, <2>1 DEF Typed, Goes, Slots
  <2>3. Aside(Other(running))'
    BY <1>0, <1>1, <2>1, AsideKept DEF Goes, CalledInv, t
  <2>4. Timed' = Timed /\ Out' = Out /\ In' = In /\ N' = N /\ M' = M
    BY <2>1, SameSizes DEF Goes
  <2>5. ASSUME NEW k \in 1..N, k < pc + 1 PROVE tcb'[running][k + 1] = own[running][Out[k]]
    <3>1. CASE k = pc
      BY <1>0, <1>1, <1>10, <2>1, <3>1 DEF CalledInv
    <3>2. CASE k # pc
      <4>1. k < pc /\ k + 1 # pc + 1 /\ k + 1 \in Slots
        BY <1>1, <1>5, <1>10, <2>5, <3>2
      <4> QED BY <1>0, <2>1, <4>1 DEF CalledInv
    <3> QED BY <3>1, <3>2
  <2>6. /\ pc + 1 <= N + 3 /\ pc <= N + 3 /\ pc + 1 <= N + M + 4 /\ pc <= N + M + 4
        /\ ~(pc + 1 > N + 1) /\ pc + 1 # N + 3 /\ ~(pc + 1 > N + 3) /\ pc + 1 # N + M + 5
        /\ pc <= N /\ \A k \in 1..M : ~(N + 3 + k < pc + 1)
    BY <1>1, <1>10
  <2>7. CalledInv'
    BY <1>0, <2>1, <2>3, <2>4, <2>5, <2>6 DEF CalledInv, Goes
  <2>8. pc # 0 /\ pc < N + M + 5
    BY <1>1, <1>10
  <2> QED BY <2>1, <2>2, <2>7, <2>8, CalledGoesOn
<1>11. CASE pc = N + 1
  <2>1. /\ Goes /\ UNCHANGED <<regs, stack, cur, next, vector>>
        /\ tcb' \in [Sides -> [Slots -> Values]]
        /\ tcb'[running][0] = regs[Rsp]
        /\ \A side \in Sides : \A j \in Slots :
             (side # running \/ j # 0) => tcb'[side][j] = tcb[side][j]
    <3>1. code[pc] = Store(Rdi, 0, Rsp) /\ 0 \in Slots
      BY <1>2, <1>5, <1>11
    <3>2. regs[Rdi] = Tcb(running)
      BY <1>0, <1>1, <1>11 DEF CalledInv
    <3> QED BY <1>0, <1>4, <3>1, <3>2, DoesStore
  <2>2. Typed'
    BY <1>0, <2>1 DEF Typed, Goes, Slots
  <2>3. Aside(Other(running))'
    BY <1>0, <1>1, <2>1, AsideKept DEF Goes, CalledInv, t
  <2>4. Timed' = Timed /\ Out' = Out /\ In' = In /\ N' = N /\ M' = M
    BY <2>1, SameSizes DEF Goes
  <2>5. ASSUME NEW k \in 1..N PROVE k < pc /\ tcb'[running][k + 1] = tcb[running][k + 1]
    <3>1. k < pc /\ k + 1 # 0
      BY <1>1, <1>11
    <3>2. k + 1 \in Slots
      BY <1>5
    <3> QED BY <1>0, <2>1, <3>1, <3>2
  <2>6. /\ pc + 1 <= N + 3 /\ pc <= N + 3 /\ pc + 1 <= N + M + 4 /\ pc <= N + M + 4
        /\ ~(pc + 1 <= N) /\ pc + 1 # N + 3 /\ ~(pc + 1 > N + 3) /\ pc + 1 # N + M + 5
        /\ \A k \in 1..M : ~(N + 3 + k < pc + 1)
    BY <1>1, <1>11
  <2>7. CalledInv'
    BY <1>0, <2>1, <2>3, <2>4, <2>5, <2>6 DEF CalledInv, Goes
  <2> QED BY <1>1, <1>11, <2>1, <2>2, <2>6, <2>7, CalledGoesOn
<1>12. CASE pc = N + 2
  <2>1. /\ Goes /\ UNCHANGED <<tcb, stack, cur, next, vector>>
        /\ regs' \in [Regs -> Values]
        /\ regs'[Rax] = stack[running][Rip]
        /\ \A q \in Regs : q # Rax => regs'[q] = regs[q]
    <3>1. regs[Rsp] = Value(running, Rsp, 0)
      BY <1>0, <1>1, <1>6, <1>12 DEF CalledInv
    <3>2. code[pc] = Pop(Rax, Rip) /\ Rip \in {Rip, Flags, Rsp}
      BY <1>2, <1>12
    <3> QED BY <1>0, <1>4, <3>1, <3>2, DoesPop
  <2>2. Typed'
    BY <1>0, <2>1 DEF Typed, Goes, Slots
  <2>3. Aside(Other(running))'
    BY <1>0, <1>1, <2>1, AsideKept DEF Goes, CalledInv, t
  <2>4. Timed' = Timed /\ Out' = Out /\ In' = In /\ N' = N /\ M' = M
    BY <2>1, SameSizes DEF Goes
  <2>6. /\ pc + 1 <= N + 3 /\ pc <= N + 3 /\ pc + 1 <= N + M + 4 /\ pc <= N + M + 4
        /\ ~(pc + 1 <= N) /\ pc > N + 1 /\ ~(pc + 1 > N + 3) /\ pc + 1 # N + M + 5
        /\ \A k \in 1..M : ~(N + 3 + k < pc + 1)
        /\ \A k \in 1..N : k < pc
    BY <1>1, <1>12
  <2>7. regs'[Rdi] = regs[Rdi] /\ regs'[Rsi] = regs[Rsi] /\ regs'[Rsp] = regs[Rsp]
    BY <1>4, <2>1
  <2>8. CalledInv'
    BY <1>0, <2>1, <2>3, <2>4, <2>6, <2>7 DEF CalledInv, Goes
  <2> QED BY <1>1, <1>12, <2>1, <2>2, <2>6, <2>8, CalledGoesOn
<1>13. CASE pc = N + 3
  <2>1. /\ Goes /\ UNCHANGED <<regs, stack, cur, next, vector>>
        /\ tcb' \in [Sides -> [Slots -> Values]]
        /\ tcb'[running][1] = regs[Rax]
        /\ \A side \in Sides : \A j \in Slots :
             (side # running \/ j # 1) => tcb'[side][j] = tcb[side][j]
    <3>1. code[pc] = Store(Rdi, 1, Rax) /\ 1 \in Slots
      BY <1>2, <1>5, <1>13
    <3>2. regs[Rdi] = Tcb(running)
      BY <1>0, <1>1, <1>13 DEF CalledInv
    <3> QED BY <1>0, <1>4, <3>1, <3>2, DoesStore
  <2>2. Typed'
    BY <1>0, <2>1 DEF Typed, Goes, Slots
  <2>3. Aside(Other(running))'
    BY <1>0, <1>1, <2>1, AsideKept DEF Goes, CalledInv, t
  <2>4. Timed' = Timed /\ Out' = Out /\ In' = In /\ N' = N /\ M' = M
    BY <2>1, SameSizes DEF Goes
  <2>5. ASSUME NEW k \in 1..N PROVE k < pc /\ tcb'[running][k + 1] = tcb[running][k + 1]
    <3>1. k < pc /\ k + 1 # 1
      BY <1>1, <1>13
    <3>2. k + 1 \in Slots
      BY <1>5
    <3> QED BY <1>0, <2>1, <3>1, <3>2
  <2>5a. tcb'[running][0] = tcb[running][0]
    BY <1>0, <1>5, <2>1
  <2>6. /\ ~(pc + 1 <= N + 3) /\ pc + 1 <= N + M + 4 /\ pc <= N + M + 4
        /\ ~(pc + 1 <= N) /\ pc + 1 # N + 3 /\ pc > N + 1 /\ pc + 1 # N + M + 5
        /\ \A k \in 1..M : ~(N + 3 + k < pc + 1)
    BY <1>1, <1>13
  <2>7. CalledInv'
    BY <1>0, <1>13, <2>1, <2>3, <2>4, <2>5, <2>5a, <2>6 DEF CalledInv, Goes
  <2> QED BY <1>1, <1>13, <2>1, <2>2, <2>6, <2>7, CalledGoesOn
<1>14. CASE pc \in (N + 4)..(N + M + 3)
  <2> DEFINE j == pc - (N + 3)
  <2>0. j \in 1..M /\ pc = N + 3 + j
    BY <1>1, <1>14
  <2> HIDE DEF j
  <2>1. /\ Goes /\ UNCHANGED <<tcb, stack, cur, next, vector>>
        /\ regs' \in [Regs -> Values]
        /\ regs'[In[j]] = tcb[t][j + 1]
        /\ \A q \in Regs : q # In[j] => regs'[q] = regs[q]
    <3>1. code[pc] = Load(In[j], Rsi, j + 1)
      BY <1>2, <2>0
    <3>1a. j + 1 \in Slots /\ In[j] \in Regs
      BY <1>1, <1>4, <1>5, <2>0
    <3>2. regs[Rsi] = Tcb(t)
      BY <1>0, <1>1, <2>0 DEF CalledInv, t
    <3>3. pc # 0
      BY <1>3
    <3> QED BY <1>0, <1>1, <1>4, <3>1, <3>1a, <3>2, <3>3, DoesLoad
  <2>2. Typed'
    BY <1>0, <2>1 DEF Typed, Goes, Slots
  <2>3. Aside(Other(running))'
    BY <1>0, <1>1, <2>1, AsideKept DEF Goes, CalledInv, t
  <2>4. Timed' = Timed /\ Out' = Out /\ In' = In /\ N' = N /\ M' = M
    BY <2>1, SameSizes DEF Goes
  <2>5. tcb[t][j + 1] = own[t][In[j]]
    <3>1. Slot(j) = j + 1
      BY DEF Slot
    <3>2. Aside(t) /\ j \in 1..Len(layout.gp[t]) /\ In[j] = layout.gp[t][j]
      BY <1>0, <2>0 DEF CalledInv, In, M, t
    <3> QED BY <3>1, <3>2 DEF Aside
  <2>6. ASSUME NEW k \in 1..M, N + 3 + k < pc + 1 PROVE regs'[In[k]] = own[t][In[k]]
    <3>1. CASE k = j
      BY <2>1, <2>5, <3>1
    <3>2. CASE k # j
      <4>1. N + 3 + k < pc
        BY <1>1, <2>0, <2>6, <3>2
      <4>2. In[k] # In[j] /\ In[k] \in Regs
        BY <1>1, <1>4, <2>0, <3>2
      <4> QED BY <1>0, <2>1, <4>1, <4>2 DEF CalledInv, t
    <3> QED BY <3>1, <3>2
  <2>7. /\ ~(pc + 1 <= N + 3) /\ pc + 1 <= N + M + 4 /\ pc <= N + M + 4
        /\ ~(pc + 1 <= N) /\ pc + 1 # N + 3 /\ pc > N + 1 /\ pc > N + 3 /\ pc + 1 # N + M + 5
        /\ \A k \in 1..N : k < pc
    BY <1>1, <2>0
  <2>8. regs'[Rsi] = regs[Rsi] /\ regs'[Rsp] = regs[Rsp]
    <3>1. In[j] # Rsi /\ In[j] # Rsp
      BY <1>1, <1>4, <1>7, <2>0
    <3> QED BY <1>4, <2>1, <3>1
  <2>9. CalledInv'
    BY <1>0, <2>1, <2>3, <2>4, <2>6, <2>7, <2>8 DEF CalledInv, Goes, t
  <2> QED BY <1>1, <2>0, <2>1, <2>2, <2>7, <2>9, CalledGoesOn
<1>15. CASE pc = N + M + 4
  <2>1. /\ Goes /\ UNCHANGED <<tcb, stack, cur, next, vector>>
        /\ regs' \in [Regs -> Values]
        /\ regs'[Rsp] = tcb[t][0]
        /\ \A q \in Regs : q # Rsp => regs'[q] = regs[q]
    <3>1. code[pc] = Load(Rsp, Rsi, 0) /\ 0 \in Slots
      BY <1>2, <1>5, <1>15
    <3>2. regs[Rsi] = Tcb(t)
      BY <1>0, <1>1, <1>15 DEF CalledInv, t
    <3> QED BY <1>0, <1>1, <1>4, <3>1, <3>2, DoesLoad
  <2>2. Typed'
    BY <1>0, <2>1 DEF Typed, Goes, Slots
  <2>3. Aside(Other(running))'
    BY <1>0, <1>1, <2>1, AsideKept DEF Goes, CalledInv, t
  <2>4. Timed' = Timed /\ Out' = Out /\ In' = In /\ N' = N /\ M' = M
    BY <2>1, SameSizes DEF Goes
  <2>5. tcb[t][0] = own[t][Rsp]
    BY <1>0 DEF CalledInv, Aside, t
  <2>6. ASSUME NEW k \in 1..M PROVE regs'[In[k]] = own[t][In[k]]
    <3>1. N + 3 + k < pc
      BY <1>1, <1>15
    <3>2. In[k] # Rsp /\ In[k] \in Regs
      BY <1>1, <1>4
    <3> QED BY <1>0, <2>1, <3>1, <3>2 DEF CalledInv, t
  <2>7. /\ ~(pc + 1 <= N + 3) /\ ~(pc + 1 <= N + M + 4)
        /\ ~(pc + 1 <= N) /\ pc + 1 # N + 3 /\ pc > N + 1 /\ pc > N + 3
        /\ \A k \in 1..N : k < pc
    BY <1>1, <1>15
  <2>9. CalledInv'
    BY <1>0, <2>1, <2>3, <2>4, <2>5, <2>6, <2>7 DEF CalledInv, Goes, t
  <2> QED BY <1>1, <1>15, <2>1, <2>2, <2>7, <2>9, CalledGoesOn
<1>16. CASE pc = N + M + 5
  BY <1>16, CalledReturns
<1> QED BY <1>1, <1>3, <1>10, <1>11, <1>12, <1>13, <1>14, <1>15, <1>16

-----------------------------------------------------------------------------
LEMMA TimerFacts ==
  ASSUME SwitchInv, Timed, pc # 0
  PROVE  /\ Machine /\ Fits(layout) /\ Typed /\ OwnInv /\ TimerInv
         /\ N \in Nat /\ M \in Nat /\ N >= 4 /\ M >= 4 /\ pc \in 1..(N + M + 22)
         /\ running \in Sides /\ Other(running) \in Sides /\ Other(running) # running
         /\ Len(code) = N + M + 22
<1>1. Machine /\ Fits(layout) /\ Typed /\ OwnInv /\ TimerInv /\ running \in Sides
  BY DEF SwitchInv, Typed
<1>2. /\ N \in Nat /\ M \in Nat /\ N >= 4 /\ M >= 4
      /\ Other(running) \in Sides /\ Other(running) # running
  BY <1>1, Sizes, TimerSizes DEF Timed
<1>3. Len(code) = N + M + 22
  BY <1>1, TimerCode DEF TimerInv, Timed
<1>4. pc \in 1..(N + M + 22)
  BY <1>2, <1>3 DEF SwitchInv
<1> QED BY <1>1, <1>2, <1>3, <1>4

LEMMA TimerRegs ==
  ASSUME SwitchInv, Timed, pc # 0
  PROVE  /\ \A k \in 1..N : Out[k] \in Regs /\ Out[k] # Rsp
         /\ \A k \in 1..M : In[k] \in Regs /\ In[k] # Rsp /\ In[k] # Rip /\ In[k] # Flags
         /\ {In[1], In[2], Out[1], Out[2], Out[3], Out[4], Rsp, Rip, Flags, Rax, Rdx} \subseteq Regs
         /\ Rsp # Rip /\ Rsp # Flags /\ Rip # Flags /\ Rax # Rsp /\ Rdx # Rsp
         /\ \A j, k \in 1..N : Out[j] = Out[k] => j = k
         /\ \A j, k \in 1..M : In[j] = In[k] => j = k
         /\ \A j \in 1..N : \A k \in 1..M : Out[j] # In[k]
         /\ {1, 2, 3, 4} \subseteq 1..N /\ {1, 2} \subseteq 1..M
<1>1. Machine /\ Fits(layout) /\ running \in Sides /\ N \in Nat /\ M \in Nat /\ N >= 4 /\ M >= 4
  BY TimerFacts
<1>2. /\ \A k \in 1..N : Out[k] \in General
      /\ \A k \in 1..M : In[k] \in General
      /\ \A j, k \in 1..N : Out[j] = Out[k] => j = k
      /\ \A j, k \in 1..M : In[j] = In[k] => j = k
  BY <1>1, Sizes
<1>3. \A j \in 1..N : \A k \in 1..M : Out[j] # In[k]
  BY <1>1, TimerSizes DEF Timed
<1>4. {1, 2, 3, 4} \subseteq 1..N /\ {1, 2} \subseteq 1..M
  BY <1>1
<1>5. /\ General \subseteq Regs /\ {Rax, Rdx, Rsp, Rip, Flags} \subseteq Regs
      /\ \A r \in General : r # Rsp /\ r # Rip /\ r # Flags
      /\ Rax \in General /\ Rdx \in General
      /\ Rsp # Rip /\ Rsp # Flags /\ Rip # Flags
  BY <1>1, RegFacts
<1> QED BY <1>2, <1>3, <1>4, <1>5

LEMMA TimerSlots ==
  ASSUME SwitchInv, Timed, pc # 0
  PROVE  /\ {0, 1, 2} \subseteq Slots
         /\ \A k \in 1..N : k + 2 \in Slots
         /\ \A k \in 1..M : k + 2 \in Slots
<1>1. Machine /\ Fits(layout) /\ running \in Sides /\ Other(running) \in Sides
  BY TimerFacts
<1>2. {0, 1, 2} \subseteq Slots /\ \A k \in 1..N : k + 2 \in Slots
  BY <1>1, SlotFacts DEF N, Out
<1>3. \A k \in 1..M : k + 2 \in Slots
  BY <1>1, SlotFacts DEF M, In
<1> QED BY <1>2, <1>3

LEMMA TimerGoesOn ==
  ASSUME SwitchInv, pc # 0, Timed, Goes, Typed', SavedInv', DispatchInv', TakenUpInv',
         pc < N + M + 22
  PROVE  SwitchInv'
<1>1. /\ Machine /\ Fits(layout) /\ OwnInv /\ TimerInv /\ N \in Nat /\ M \in Nat
      /\ Len(code) = N + M + 22 /\ pc \in 1..(N + M + 22)
  BY TimerFacts
<1>2. pc' \in 0..Len(code') /\ pc' # 0
  BY <1>1 DEF Goes
<1>3. OwnInv' /\ Machine' /\ Fits(layout)' /\ Timed' /\ Out' = Out /\ In' = In
  BY <1>1, SameSizes DEF Goes, OwnInv, Machine, Timed
<1>4. TimerInv'
  BY <1>1, <1>3 DEF TimerInv, Goes
<1> QED BY <1>2, <1>3, <1>4 DEF SwitchInv

\* Once the outgoing thread is saved nothing disturbs what was saved.
LEMMA SavedKept ==
  ASSUME SwitchInv, pc # 0, Timed, Goes, UNCHANGED tcb, pc \in (N + 8)..(N + M + 21),
         pc < N + M + 21 => regs'[Rsp] = regs[Rsp]
  PROVE  SavedInv'
<1>1. N \in Nat /\ M \in Nat /\ SavedInv
  BY TimerFacts DEF TimerInv
<1>2. Timed' = Timed /\ Out' = Out /\ In' = In /\ N' = N /\ M' = M
  BY SameSizes DEF Goes
<1>3. /\ ~(pc + 1 <= N + 7) /\ pc + 1 # N + 3 /\ pc + 1 # N + 5 /\ pc + 1 # N + 7
      /\ pc > N + 3 /\ pc > N + 5 /\ pc > N + 7 /\ pc <= N + 21 + M
      /\ pc + 1 <= N + 21 + M => pc < N + M + 21
      /\ \A k \in 1..N : k + 1 < pc
  BY <1>1
<1> QED BY <1>1, <1>2, <1>3 DEF SavedInv, Goes

\* Away from the instructions that change hands the globals stay as they are.
LEMMA DispatchKept ==
  ASSUME SwitchInv, pc # 0, Timed, Goes, UNCHANGED <<cur, next, vector>>,
         \/ pc \in 1..(N + 8)
         \/ /\ pc \in (N + 14)..(N + M + 21)
            /\ pc < N + M + 21 => regs'[Out[1]] = regs[Out[1]]
  PROVE  DispatchInv'
<1>1. N \in Nat /\ M \in Nat /\ DispatchInv
  BY TimerFacts DEF TimerInv
<1>2. Timed' = Timed /\ Out' = Out /\ In' = In /\ N' = N /\ M' = M
  BY SameSizes DEF Goes
<1>3. CASE pc \in 1..(N + 8)
  <2>1. /\ pc <= N + 9 /\ pc + 1 <= N + 9 /\ pc <= N + 13 /\ pc + 1 <= N + 13
        /\ pc <= N + 12 /\ pc + 1 <= N + 12
        /\ ~(N + 10 < pc + 1) /\ ~(N + 11 < pc + 1)
    BY <1>1, <1>3
  <2> QED BY <1>1, <1>2, <2>1 DEF DispatchInv, Goes
<1>4. CASE /\ pc \in (N + 14)..(N + M + 21)
           /\ pc < N + M + 21 => regs'[Out[1]] = regs[Out[1]]
  <2>1. /\ ~(pc <= N + 9) /\ ~(pc + 1 <= N + 9) /\ ~(pc <= N + 13) /\ ~(pc + 1 <= N + 13)
        /\ ~(pc <= N + 12) /\ ~(pc + 1 <= N + 12)
        /\ N + 11 < pc /\ pc <= N + M + 21 /\ (pc + 1 <= N + M + 21 => pc < N + M + 21)
    BY <1>1, <1>4
  <2> QED BY <1>1, <1>2, <1>4, <2>1 DEF DispatchInv, Goes
<1> QED BY <1>3, <1>4

\* Before the incoming thread is taken up all there is to know of it is its TCB.
LEMMA TakenUpLater ==
  ASSUME SwitchInv, pc # 0, Timed, Goes, UNCHANGED stack, pc \in 1..(N + 13),
         \A j \in Slots : tcb'[Other(running)][j] = tcb[Other(running)][j]
  PROVE  TakenUpInv'
<1>1. N \in Nat /\ M \in Nat /\ TakenUpInv /\ Machine /\ Fits(layout) /\ running \in Sides
  BY TimerFacts DEF TimerInv
<1>2. Timed' = Timed /\ Out' = Out /\ In' = In /\ N' = N /\ M' = M
  BY SameSizes DEF Goes
<1>3. Aside(Other(running))'
  BY <1>1, AsideKept DEF Goes, TakenUpInv
<1>4. /\ \A k \in 1..M : ~(N + 13 + k < pc + 1)
      /\ ~(N + M + 14 < pc + 1) /\ ~(N + M + 15 < pc + 1) /\ ~(N + M + 16 < pc + 1)
      /\ ~(N + M + 19 < pc + 1) /\ ~(pc + 1 > N + M + 17) /\ ~(pc + 1 > N + M + 18)
      /\ ~(pc + 1 > N + M + 20) /\ pc + 1 # N + M + 22
  BY <1>1
<1> QED BY <1>2, <1>3, <1>4 DEF TakenUpInv, Goes

LEMMA SavingGoesOn ==
  ASSUME SwitchInv, pc # 0, Timed, pc \in 1..(N + 8), Goes, Typed', SavedInv',
         UNCHANGED <<stack, cur, next, vector>>,
         \A j \in Slots : tcb'[Other(running)][j] = tcb[Other(running)][j]
  PROVE  SwitchInv'
<1>1. N \in Nat /\ M \in Nat
  BY TimerFacts
<1>2. pc \in 1..(N + 13) /\ pc < N + M + 22
  BY <1>1
<1>3. DispatchInv'
  BY DispatchKept
<1>4. TakenUpInv'
  BY <1>2, TakenUpLater
<1> QED BY <1>2, <1>3, <1>4, TimerGoesOn

LEMMA TimerText ==
  ASSUME SwitchInv, Timed, pc # 0
  PROVE  /\ code[1] = Get(In[1], "cur")
         /\ \A j \in 1..N : code[j + 1] = Store(In[1], j + 2, Out[j])
         /\ code[N + 2] = Pop(In[2], Rip)
         /\ code[N + 3] = Store(In[1], 1, In[2])
         /\ code[N + 4] = Pop(In[2], Flags)
         /\ code[N + 5] = Store(In[1], 2, In[2])
         /\ code[N + 6] = Pop(In[2], Rsp)
         /\ code[N + 7] = Store(In[1], 0, In[2])
         /\ code[N + 8] = Do("eoi", Rax)
         /\ code[N + 9] = Do("flip", In[2])
         /\ code[N + 10] = Get(In[2], "cur")
         /\ code[N + 11] = Get(Out[1], "next")
         /\ code[N + 12] = Put("next", In[2])
         /\ code[N + 13] = Put("cur", Out[1])
         /\ \A j \in 1..M : code[N + 13 + j] = Load(In[j], Out[1], j + 2)
         /\ code[N + M + 14] = Load(Out[2], Out[1], 0)
         /\ code[N + M + 15] = Load(Out[3], Out[1], 1)
         /\ code[N + M + 16] = Load(Out[4], Out[1], 2)
         /\ code[N + M + 17] = Push(Rip, Out[3], Out[2])
         /\ code[N + M + 18] = Push(Flags, Out[4], Out[2])
         /\ code[N + M + 19] = Load(Out[3], Out[1], 0)
         /\ code[N + M + 20] = Push(Rsp, Out[3], Out[2])
         /\ code[N + M + 21] = Do("stack", Out[2])
         /\ code[N + M + 22] = Do("iret", Rsp)
<1>1. code = Timer(running, Out, In) /\ Machine /\ Fits(layout) /\ running \in Sides
  BY TimerFacts DEF TimerInv
<1> QED BY <1>1, TimerCode DEF Timed

LEMMA SavingKeeps == ASSUME SwitchInv, SwitchNext, Timed, pc \in 1..(N + 7) PROVE SwitchInv'
<1>0. pc # 0
  <2>1. N \in Nat
    BY Sizes DEF SwitchInv, Typed
  <2> QED BY <2>1
<1>1. /\ Machine /\ Fits(layout) /\ Typed /\ OwnInv /\ SavedInv /\ DispatchInv
      /\ N \in Nat /\ M \in Nat /\ N >= 4 /\ M >= 4
      /\ running \in Sides /\ Other(running) \in Sides /\ Other(running) # running
  BY <1>0, TimerFacts DEF TimerInv
<1>2. /\ \A k \in 1..N : Out[k] \in Regs /\ Out[k] # Rsp
      /\ {In[1], In[2], Rsp, Rip, Flags} \subseteq Regs
      /\ In[1] # Rsp /\ In[2] # Rsp /\ In[1] # In[2]
      /\ \A k \in 1..N : Out[k] # In[1] /\ Out[k] # In[2]
  <2>1. 1 \in 1..M /\ 2 \in 1..M /\ 1 # 2
    BY <1>1
  <2> QED BY <1>0, <2>1, TimerRegs
<1>3. {0, 1, 2} \subseteq Slots /\ \A k \in 1..N : k + 2 \in Slots
  BY <1>0, TimerSlots
<1>4. own[running][Rsp] = Value(running, Rsp, 0)
  BY <1>1 DEF OwnInv
<1>5. /\ regs[Rsp] = own[running][Rsp]
      /\ \A k \in 1..N : regs[Out[k]] = own[running][Out[k]]
      /\ \A f \in {Rip, Flags, Rsp} : stack[running][f] = own[running][f]
      /\ 1 < pc => regs[In[1]] = Tcb(running)
  <2>1. pc <= N + 7 /\ pc <= N + 21 + M
    BY <1>1
  <2> QED BY <1>1, <2>1 DEF SavedInv
<1>6. pc \in 1..(N + 8) /\ pc + 1 <= N + 21 + M /\ 1 < pc + 1
  BY <1>1
<1>10. CASE pc = 1
  <2>1. /\ Goes /\ UNCHANGED <<tcb, stack, cur, next, vector>>
        /\ regs' \in [Regs -> Values]
        /\ regs'[In[1]] = cur
        /\ \A q \in Regs : q # In[1] => regs'[q] = regs[q]
    <3>1. code[pc] = Get(In[1], "cur")
      BY <1>0, <1>10, TimerText
    <3> QED BY <1>0, <1>1, <1>2, <3>1, DoesGet
  <2>2. Typed'
    BY <1>1, <2>1 DEF Typed, Goes, Slots
  <2>3. cur = Tcb(running)
    <3>1. pc <= N + 13
      BY <1>1, <1>10
    <3> QED BY <1>1, <3>1 DEF DispatchInv
  <2>4. /\ pc + 1 # N + 3 /\ pc + 1 # N + 5 /\ pc + 1 # N + 7
        /\ ~(pc + 1 > N + 3) /\ ~(pc + 1 > N + 5) /\ ~(pc + 1 > N + 7)
        /\ \A k \in 1..N : ~(k + 1 < pc + 1)
    BY <1>1, <1>10
  <2>5. Timed' = Timed /\ Out' = Out /\ In' = In /\ N' = N /\ M' = M
    BY <2>1, SameSizes DEF Goes
  <2>6. SavedInv'
    BY <1>2, <1>5, <1>6, <2>1, <2>3, <2>4, <2>5 DEF SavedInv, Goes
  <2> QED BY <1>0, <1>6, <2>1, <2>2, <2>6, SavingGoesOn
<1>11. CASE pc \in 2..(N + 1)
  <2> DEFINE j == pc - 1
  <2>0. j \in 1..N /\ pc = j + 1
    BY <1>1, <1>11
  <2> HIDE DEF j
  <2>1. /\ Goes /\ UNCHANGED <<regs, stack, cur, next, vector>>
        /\ tcb' \in [Sides -> [Slots -> Values]]
        /\ tcb'[running][j + 2] = regs[Out[j]]
        /\ \A side \in Sides : \A i \in Slots :
             (side # running \/ i # j + 2) => tcb'[side][i] = tcb[side][i]
    <3>1. code[pc] = Store(In[1], j + 2, Out[j])
      BY <1>0, <2>0, TimerText
    <3>2. regs[In[1]] = Tcb(running)
      BY <1>1, <1>5, <1>11
    <3>3. j + 2 \in Slots /\ Out[j] \in Regs /\ In[1] \in Regs
      BY <1>2, <1>3, <2>0
    <3> QED BY <1>0, <1>1, <3>1, <3>2, <3>3, DoesStore
  <2>2. Typed'
    BY <1>1, <2>1 DEF Typed, Goes, Slots
  <2>3. ASSUME NEW k \in 1..N, k + 1 < pc + 1
        PROVE  tcb'[running][k + 2] = own[running][Out[k]]
    <3>1. CASE k = j
      BY <1>5, <2>0, <2>1, <3>1
    <3>2. CASE k # j
      <4>1. k + 1 < pc /\ k + 2 # j + 2
        BY <2>0, <2>3, <3>2
      <4>2. k + 2 \in Slots
        BY <1>3
      <4> QED BY <1>1, <2>1, <4>1, <4>2 DEF SavedInv
    <3> QED BY <3>1, <3>2
  <2>4. /\ pc + 1 # N + 3 /\ pc + 1 # N + 5 /\ pc + 1 # N + 7 /\ 1 < pc
        /\ ~(pc + 1 > N + 3) /\ ~(pc + 1 > N + 5) /\ ~(pc + 1 > N + 7)
    BY <1>1, <1>11
  <2>5. Timed' = Timed /\ Out' = Out /\ In' = In /\ N' = N /\ M' = M
    BY <2>1, SameSizes DEF Goes
  <2>6. SavedInv'
    BY <1>5, <1>6, <2>1, <2>3, <2>4, <2>5 DEF SavedInv, Goes
  <2> QED BY <1>0, <1>1, <1>6, <2>1, <2>2, <2>6, SavingGoesOn
<1>12. CASE pc = N + 2
  <2>1. /\ Goes /\ UNCHANGED <<tcb, stack, cur, next, vector>>
        /\ regs' \in [Regs -> Values]
        /\ regs'[In[2]] = stack[running][Rip]
        /\ \A q \in Regs : q # In[2] => regs'[q] = regs[q]
    <3>1. code[pc] = Pop(In[2], Rip)
      BY <1>0, <1>12, TimerText
    <3>2. regs[Rsp] = Value(running, Rsp, 0) /\ In[2] \in Regs /\ Rip \in {Rip, Flags, Rsp}
      BY <1>2, <1>4, <1>5
    <3> QED BY <1>0, <1>1, <3>1, <3>2, DoesPop
  <2>2. Typed'
    BY <1>1, <2>1 DEF Typed, Goes, Slots
  <2>3. \A k \in 1..N : k + 1 < pc
    BY <1>1, <1>12
  <2>4. /\ 1 < pc
        /\ pc + 1 = N + 3 /\ pc + 1 # N + 5 /\ pc + 1 # N + 7
        /\ ~(pc + 1 > N + 3) /\ ~(pc + 1 > N + 5) /\ ~(pc + 1 > N + 7) /\ pc + 1 <= N + 7
    BY <1>1, <1>12
  <2>5. Timed' = Timed /\ Out' = Out /\ In' = In /\ N' = N /\ M' = M
    BY <2>1, SameSizes DEF Goes
  <2>6. SavedInv'
    BY <1>1, <1>2, <1>5, <1>6, <2>1, <2>3, <2>4, <2>5 DEF SavedInv, Goes
  <2> QED BY <1>0, <1>6, <2>1, <2>2, <2>6, SavingGoesOn
<1>13. CASE pc = N + 3
  <2>1. /\ Goes /\ UNCHANGED <<regs, stack, cur, next, vector>>
        /\ tcb' \in [Sides -> [Slots -> Values]]
        /\ tcb'[running][1] = regs[In[2]]
        /\ \A side \in Sides : \A i \in Slots :
             (side # running \/ i # 1) => tcb'[side][i] = tcb[side][i]
    <3>1. code[pc] = Store(In[1], 1, In[2])
      BY <1>0, <1>13, TimerText
    <3>2. regs[In[1]] = Tcb(running)
      BY <1>1, <1>5, <1>13
    <3>3. 1 \in Slots /\ In[2] \in Regs /\ In[1] \in Regs
      BY <1>2, <1>3
    <3> QED BY <1>0, <1>1, <3>1, <3>2, <3>3, DoesStore
  <2>2. Typed'
    BY <1>1, <2>1 DEF Typed, Goes, Slots
  <2>3. ASSUME NEW k \in 1..N PROVE k + 1 < pc /\ tcb'[running][k + 2] = tcb[running][k + 2]
    <3>1. k + 1 < pc /\ k + 2 # 1 /\ k + 2 \in Slots
      BY <1>1, <1>3, <1>13
    <3> QED BY <1>1, <2>1, <3>1
  <2>4. /\ 1 < pc
        /\ pc + 1 # N + 3 /\ pc + 1 # N + 5 /\ pc + 1 # N + 7
        /\ ~(pc + 1 > N + 5) /\ ~(pc + 1 > N + 7) /\ pc + 1 <= N + 7
    BY <1>1, <1>13
  <2>5. Timed' = Timed /\ Out' = Out /\ In' = In /\ N' = N /\ M' = M
    BY <2>1, SameSizes DEF Goes
  <2>6. regs[In[2]] = own[running][Rip]
    BY <1>1, <1>13 DEF SavedInv
  <2>7. \A i \in {0, 1, 2} : i # 1 => tcb'[running][i] = tcb[running][i]
    BY <1>1, <1>3, <2>1
  <2>8. SavedInv'
    BY <1>1, <1>5, <1>6, <1>13, <2>1, <2>3, <2>4, <2>5, <2>6, <2>7 DEF SavedInv, Goes
  <2> QED BY <1>0, <1>1, <1>6, <2>1, <2>2, <2>8, SavingGoesOn
<1>14. CASE pc = N + 4
  <2>1. /\ Goes /\ UNCHANGED <<tcb, stack, cur, next, vector>>
        /\ regs' \in [Regs -> Values]
        /\ regs'[In[2]] = stack[running][Flags]
        /\ \A q \in Regs : q # In[2] => regs'[q] = regs[q]
    <3>1. code[pc] = Pop(In[2], Flags)
      BY <1>0, <1>14, TimerText
    <3>2. regs[Rsp] = Value(running, Rsp, 0) /\ In[2] \in Regs /\ Flags \in {Rip, Flags, Rsp}
      BY <1>2, <1>4, <1>5
    <3> QED BY <1>0, <1>1, <3>1, <3>2, DoesPop
  <2>2. Typed'
    BY <1>1, <2>1 DEF Typed, Goes, Slots
  <2>3. \A k \in 1..N : k + 1 < pc
    BY <1>1, <1>14
  <2>4. /\ 1 < pc
        /\ pc + 1 # N + 3 /\ pc + 1 = N + 5 /\ pc + 1 # N + 7
        /\ pc > N + 3 /\ ~(pc + 1 > N + 5) /\ ~(pc + 1 > N + 7) /\ pc + 1 <= N + 7
    BY <1>1, <1>14
  <2>5. Timed' = Timed /\ Out' = Out /\ In' = In /\ N' = N /\ M' = M
    BY <2>1, SameSizes DEF Goes
  <2>6. SavedInv'
    BY <1>1, <1>2, <1>5, <1>6, <2>1, <2>3, <2>4, <2>5 DEF SavedInv, Goes
  <2> QED BY <1>0, <1>6, <2>1, <2>2, <2>6, SavingGoesOn
<1>15. CASE pc = N + 5
  <2>1. /\ Goes /\ UNCHANGED <<regs, stack, cur, next, vector>>
        /\ tcb' \in [Sides -> [Slots -> Values]]
        /\ tcb'[running][2] = regs[In[2]]
        /\ \A side \in Sides : \A i \in Slots :
             (side # running \/ i # 2) => tcb'[side][i] = tcb[side][i]
    <3>1. code[pc] = Store(In[1], 2, In[2])
      BY <1>0, <1>15, TimerText
    <3>2. regs[In[1]] = Tcb(running)
      BY <1>1, <1>5, <1>15
    <3>3. 2 \in Slots /\ In[2] \in Regs /\ In[1] \in Regs
      BY <1>2, <1>3
    <3> QED BY <1>0, <1>1, <3>1, <3>2, <3>3, DoesStore
  <2>2. Typed'
    BY <1>1, <2>1 DEF Typed, Goes, Slots
  <2>3. ASSUME NEW k \in 1..N PROVE k + 1 < pc /\ tcb'[running][k + 2] = tcb[running][k + 2]
    <3>1. k + 1 < pc /\ k + 2 # 2 /\ k + 2 \in Slots
      BY <1>1, <1>3, <1>15
    <3> QED BY <1>1, <2>1, <3>1
  <2>4. /\ 1 < pc
        /\ pc + 1 # N + 3 /\ pc + 1 # N + 5 /\ pc + 1 # N + 7
        /\ pc > N + 3 /\ ~(pc + 1 > N + 7) /\ pc + 1 <= N + 7
    BY <1>1, <1>15
  <2>5. Timed' = Timed /\ Out' = Out /\ In' = In /\ N' = N /\ M' = M
    BY <2>1, SameSizes DEF Goes
  <2>6. regs[In[2]] = own[running][Flags]
    BY <1>1, <1>15 DEF SavedInv
  <2>7. \A i \in {0, 1, 2} : i # 2 => tcb'[running][i] = tcb[running][i]
    BY <1>1, <1>3, <2>1
  <2>8. SavedInv'
    BY <1>1, <1>5, <1>6, <1>15, <2>1, <2>3, <2>4, <2>5, <2>6, <2>7 DEF SavedInv, Goes
  <2> QED BY <1>0, <1>1, <1>6, <2>1, <2>2, <2>8, SavingGoesOn
<1>16. CASE pc = N + 6
  <2>1. /\ Goes /\ UNCHANGED <<tcb, stack, cur, next, vector>>
        /\ regs' \in [Regs -> Values]
        /\ regs'[In[2]] = stack[running][Rsp]
        /\ \A q \in Regs : q # In[2] => regs'[q] = regs[q]
    <3>1. code[pc] = Pop(In[2], Rsp)
      BY <1>0, <1>16, TimerText
    <3>2. regs[Rsp] = Value(running, Rsp, 0) /\ In[2] \in Regs /\ Rsp \in {Rip, Flags, Rsp}
      BY <1>2, <1>4, <1>5
    <3> QED BY <1>0, <1>1, <3>1, <3>2, DoesPop
  <2>2. Typed'
    BY <1>1, <2>1 DEF Typed, Goes, Slots
  <2>3. \A k \in 1..N : k + 1 < pc
    BY <1>1, <1>16
  <2>4. /\ 1 < pc
        /\ pc + 1 # N + 3 /\ pc + 1 # N + 5 /\ pc + 1 = N + 7
        /\ pc > N + 3 /\ pc > N + 5 /\ ~(pc + 1 > N + 7) /\ pc + 1 <= N + 7
    BY <1>1, <1>16
  <2>5. Timed' = Timed /\ Out' = Out /\ In' = In /\ N' = N /\ M' = M
    BY <2>1, SameSizes DEF Goes
  <2>6. SavedInv'
    BY <1>1, <1>2, <1>5, <1>6, <2>1, <2>3, <2>4, <2>5 DEF SavedInv, Goes
  <2> QED BY <1>0, <1>6, <2>1, <2>2, <2>6, SavingGoesOn
<1>17. CASE pc = N + 7
  <2>1. /\ Goes /\ UNCHANGED <<regs, stack, cur, next, vector>>
        /\ tcb' \in [Sides -> [Slots -> Values]]
        /\ tcb'[running][0] = regs[In[2]]
        /\ \A side \in Sides : \A i \in Slots :
             (side # running \/ i # 0) => tcb'[side][i] = tcb[side][i]
    <3>1. code[pc] = Store(In[1], 0, In[2])
      BY <1>0, <1>17, TimerText
    <3>2. regs[In[1]] = Tcb(running)
      BY <1>1, <1>5, <1>17
    <3>3. 0 \in Slots /\ In[2] \in Regs /\ In[1] \in Regs
      BY <1>2, <1>3
    <3> QED BY <1>0, <1>1, <3>1, <3>2, <3>3, DoesStore
  <2>2. Typed'
    BY <1>1, <2>1 DEF Typed, Goes, Slots
  <2>3. ASSUME NEW k \in 1..N PROVE k + 1 < pc /\ tcb'[running][k + 2] = tcb[running][k + 2]
    <3>1. k + 1 < pc /\ k + 2 # 0 /\ k + 2 \in Slots
      BY <1>1, <1>3, <1>17
    <3> QED BY <1>1, <2>1, <3>1
  <2>4. /\ 1 < pc
        /\ pc + 1 # N + 3 /\ pc + 1 # N + 5 /\ pc + 1 # N + 7
        /\ pc > N + 3 /\ pc > N + 5 /\ ~(pc + 1 <= N + 7)
    BY <1>1, <1>17
  <2>5. Timed' = Timed /\ Out' = Out /\ In' = In /\ N' = N /\ M' = M
    BY <2>1, SameSizes DEF Goes
  <2>6. regs[In[2]] = own[running][Rsp]
    BY <1>1, <1>17 DEF SavedInv
  <2>7. \A i \in {0, 1, 2} : i # 0 => tcb'[running][i] = tcb[running][i]
    BY <1>1, <1>3, <2>1
  <2>8. SavedInv'
    BY <1>1, <1>5, <1>6, <1>17, <2>1, <2>3, <2>4, <2>5, <2>6, <2>7 DEF SavedInv, Goes
  <2> QED BY <1>0, <1>1, <1>6, <2>1, <2>2, <2>8, SavingGoesOn
<1>20. \/ pc = 1 \/ pc \in 2..(N + 1) \/ pc = N + 2 \/ pc = N + 3 \/ pc = N + 4
       \/ pc = N + 5 \/ pc = N + 6 \/ pc = N + 7
  BY <1>1
<1> QED BY <1>10, <1>11, <1>12, <1>13, <1>14, <1>15, <1>16, <1>17, <1>20

LEMMA DispatchingGoesOn ==
  ASSUME SwitchInv, pc # 0, Timed, pc \in (N + 8)..(N + 13), Goes, Typed', DispatchInv',
         UNCHANGED <<tcb, stack>>, regs'[Rsp] = regs[Rsp]
  PROVE  SwitchInv'
<1>1. N \in Nat /\ M \in Nat /\ M >= 4
  BY TimerFacts
<1>2. pc \in 1..(N + 13) /\ pc < N + M + 22 /\ pc \in (N + 8)..(N + M + 21)
  BY <1>1
<1>3. SavedInv'
  BY <1>2, SavedKept
<1>4. TakenUpInv'
  BY <1>2, TakenUpLater
<1> QED BY <1>2, <1>3, <1>4, TimerGoesOn

LEMMA DispatchingKeeps == ASSUME SwitchInv, SwitchNext, Timed, pc \in (N + 8)..(N + 13) PROVE SwitchInv'
<1>0. pc # 0
  <2>1. N \in Nat
    BY Sizes DEF SwitchInv, Typed
  <2> QED BY <2>1
<1>1. /\ Machine /\ Fits(layout) /\ Typed /\ OwnInv /\ SavedInv /\ DispatchInv
      /\ N \in Nat /\ M \in Nat /\ N >= 4 /\ M >= 4
      /\ running \in Sides /\ Other(running) \in Sides /\ Other(running) # running
  BY <1>0, TimerFacts DEF TimerInv
<1>2. /\ {In[2], Out[1], Rsp, Rax} \subseteq Regs
      /\ In[2] # Rsp /\ Out[1] # Rsp /\ In[2] # Out[1] /\ Rax # Rsp /\ Rdx # Rsp
  <2>1. 2 \in 1..M /\ 1 \in 1..N
    BY <1>1
  <2> QED BY <1>0, <2>1, TimerRegs
<1>8. CASE pc = N + 8
  <2>1. /\ Goes /\ UNCHANGED <<tcb, stack, cur, next, vector>>
        /\ regs' \in [Regs -> Values]
        /\ \A q \in Regs : q # Rax /\ q # Rdx => regs'[q] = regs[q]
    <3>1. code[pc] = Do("eoi", Rax)
      BY <1>0, <1>8, TimerText
    <3> QED BY <1>0, <1>1, <3>1, DoesEoi
  <2>2. Typed'
    BY <1>1, <2>1 DEF Typed, Goes, Slots
  <2>3. pc \in 1..(N + 8)
    BY <1>1, <1>8
  <2>4. DispatchInv'
    BY <1>0, <2>1, <2>3, DispatchKept
  <2>5. regs'[Rsp] = regs[Rsp]
    BY <1>2, <2>1
  <2> QED BY <1>0, <2>1, <2>2, <2>4, <2>5, DispatchingGoesOn
<1>9. CASE pc = N + 9
  <2>1. /\ Goes
        /\ UNCHANGED <<tcb, stack, cur, next>> /\ vector' = Other(vector)
        /\ regs' \in [Regs -> Values]
        /\ \A q \in Regs : q # In[2] => regs'[q] = regs[q]
    <3>1. code[pc] = Do("flip", In[2])
      BY <1>0, <1>9, TimerText
    <3> QED BY <1>0, <1>1, <1>2, <3>1, DoesFlip
  <2>2. Typed'
    <3>1. Other(vector) \in Sides
      BY DEF Sides, Other
    <3> QED BY <1>1, <2>1, <3>1 DEF Typed, Goes, Slots
  <2>3. Timed' = Timed /\ Out' = Out /\ In' = In /\ N' = N /\ M' = M
    BY <2>1, SameSizes DEF Goes
  <2>4. /\ pc + 1 <= N + M + 21
        /\ pc <= N + 9 /\ pc <= N + 13 /\ pc <= N + 12
        /\ ~(pc + 1 <= N + 9) /\ pc + 1 <= N + 13 /\ pc + 1 <= N + 12
        /\ ~(N + 10 < pc) /\ ~(N + 11 < pc) /\ ~(N + 10 < pc + 1)
        /\ ~(N + 11 < pc + 1) /\ pc <= N + M + 21
    BY <1>1, <1>9
  <2>5. DispatchInv'
    BY <1>1, <1>2, <2>1, <2>3, <2>4 DEF DispatchInv, Goes
  <2>6. regs'[Rsp] = regs[Rsp]
    BY <1>2, <2>1
  <2> QED BY <1>0, <2>1, <2>2, <2>5, <2>6, DispatchingGoesOn
<1>10. CASE pc = N + 10
  <2>1. /\ Goes
        /\ UNCHANGED <<tcb, stack, cur, next, vector>>
        /\ regs' \in [Regs -> Values] /\ regs'[In[2]] = cur
        /\ \A q \in Regs : q # In[2] => regs'[q] = regs[q]
    <3>1. code[pc] = Get(In[2], "cur")
      BY <1>0, <1>10, TimerText
    <3> QED BY <1>0, <1>1, <1>2, <3>1, DoesGet
  <2>2. Typed'
    BY <1>1, <2>1 DEF Typed, Goes, Slots
  <2>3. Timed' = Timed /\ Out' = Out /\ In' = In /\ N' = N /\ M' = M
    BY <2>1, SameSizes DEF Goes
  <2>4. /\ pc + 1 <= N + M + 21
        /\ ~(pc <= N + 9) /\ pc <= N + 13 /\ pc <= N + 12
        /\ ~(pc + 1 <= N + 9) /\ pc + 1 <= N + 13 /\ pc + 1 <= N + 12
        /\ ~(N + 10 < pc) /\ ~(N + 11 < pc) /\ N + 10 < pc + 1
        /\ ~(N + 11 < pc + 1) /\ pc <= N + M + 21
    BY <1>1, <1>10
  <2>5. DispatchInv'
    BY <1>1, <1>2, <2>1, <2>3, <2>4 DEF DispatchInv, Goes
  <2>6. regs'[Rsp] = regs[Rsp]
    BY <1>2, <2>1
  <2> QED BY <1>0, <2>1, <2>2, <2>5, <2>6, DispatchingGoesOn
<1>11. CASE pc = N + 11
  <2>1. /\ Goes
        /\ UNCHANGED <<tcb, stack, cur, next, vector>>
        /\ regs' \in [Regs -> Values] /\ regs'[Out[1]] = next
        /\ \A q \in Regs : q # Out[1] => regs'[q] = regs[q]
    <3>1. code[pc] = Get(Out[1], "next")
      BY <1>0, <1>11, TimerText
    <3> QED BY <1>0, <1>1, <1>2, <3>1, DoesGet
  <2>2. Typed'
    BY <1>1, <2>1 DEF Typed, Goes, Slots
  <2>3. Timed' = Timed /\ Out' = Out /\ In' = In /\ N' = N /\ M' = M
    BY <2>1, SameSizes DEF Goes
  <2>4. /\ pc + 1 <= N + M + 21
        /\ ~(pc <= N + 9) /\ pc <= N + 13 /\ pc <= N + 12
        /\ ~(pc + 1 <= N + 9) /\ pc + 1 <= N + 13 /\ pc + 1 <= N + 12
        /\ N + 10 < pc /\ ~(N + 11 < pc) /\ N + 10 < pc + 1
        /\ N + 11 < pc + 1 /\ pc <= N + M + 21
    BY <1>1, <1>11
  <2>5. DispatchInv'
    BY <1>1, <1>2, <2>1, <2>3, <2>4 DEF DispatchInv, Goes
  <2>6. regs'[Rsp] = regs[Rsp]
    BY <1>2, <2>1
  <2> QED BY <1>0, <2>1, <2>2, <2>5, <2>6, DispatchingGoesOn
<1>12. CASE pc = N + 12
  <2>1. /\ Goes
        /\ UNCHANGED <<regs, tcb, stack, cur, vector>>
        /\ next' = regs[In[2]]
    <3>1. code[pc] = Put("next", In[2])
      BY <1>0, <1>12, TimerText
    <3> QED BY <1>0, <1>1, <1>2, <3>1, DoesPut
  <2>2. Typed'
    BY <1>1, <1>2, <2>1 DEF Typed, Goes, Slots
  <2>3. Timed' = Timed /\ Out' = Out /\ In' = In /\ N' = N /\ M' = M
    BY <2>1, SameSizes DEF Goes
  <2>4. /\ pc + 1 <= N + M + 21
        /\ ~(pc <= N + 9) /\ pc <= N + 13 /\ pc <= N + 12
        /\ ~(pc + 1 <= N + 9) /\ pc + 1 <= N + 13 /\ ~(pc + 1 <= N + 12)
        /\ N + 10 < pc /\ N + 11 < pc /\ N + 10 < pc + 1
        /\ N + 11 < pc + 1 /\ pc <= N + M + 21
    BY <1>1, <1>12
  <2>5. DispatchInv'
    BY <1>1, <1>2, <2>1, <2>3, <2>4 DEF DispatchInv, Goes
  <2>6. regs'[Rsp] = regs[Rsp]
    BY <1>2, <2>1
  <2> QED BY <1>0, <2>1, <2>2, <2>5, <2>6, DispatchingGoesOn
<1>13. CASE pc = N + 13
  <2>1. /\ Goes
        /\ UNCHANGED <<regs, tcb, stack, next, vector>>
        /\ cur' = regs[Out[1]]
    <3>1. code[pc] = Put("cur", Out[1])
      BY <1>0, <1>13, TimerText
    <3> QED BY <1>0, <1>1, <1>2, <3>1, DoesPut
  <2>2. Typed'
    BY <1>1, <1>2, <2>1 DEF Typed, Goes, Slots
  <2>3. Timed' = Timed /\ Out' = Out /\ In' = In /\ N' = N /\ M' = M
    BY <2>1, SameSizes DEF Goes
  <2>4. /\ pc + 1 <= N + M + 21
        /\ ~(pc <= N + 9) /\ pc <= N + 13 /\ ~(pc <= N + 12)
        /\ ~(pc + 1 <= N + 9) /\ ~(pc + 1 <= N + 13) /\ ~(pc + 1 <= N + 12)
        /\ N + 10 < pc /\ N + 11 < pc /\ N + 10 < pc + 1
        /\ N + 11 < pc + 1 /\ pc <= N + M + 21
    BY <1>1, <1>13
  <2>5. DispatchInv'
    BY <1>1, <1>2, <2>1, <2>3, <2>4 DEF DispatchInv, Goes
  <2>6. regs'[Rsp] = regs[Rsp]
    BY <1>2, <2>1
  <2> QED BY <1>0, <2>1, <2>2, <2>5, <2>6, DispatchingGoesOn
<1>20. \/ pc = N + 8 \/ pc = N + 9 \/ pc = N + 10 \/ pc = N + 11 \/ pc = N + 12 \/ pc = N + 13
  BY <1>1
<1> QED BY <1>8, <1>9, <1>10, <1>11, <1>12, <1>13, <1>20

LEMMA TakingUpGoesOn ==
  ASSUME SwitchInv, pc # 0, Timed, pc \in (N + 14)..(N + M + 21), Goes, Typed', TakenUpInv',
         UNCHANGED <<tcb, cur, next, vector>>,
         pc < N + M + 21 => regs'[Rsp] = regs[Rsp] /\ regs'[Out[1]] = regs[Out[1]]
  PROVE  SwitchInv'
<1>1. N \in Nat /\ M \in Nat
  BY TimerFacts
<1>2. pc < N + M + 22 /\ pc \in (N + 8)..(N + M + 21)
  BY <1>1
<1>3. SavedInv'
  BY <1>2, SavedKept
<1>4. DispatchInv'
  BY DispatchKept
<1> QED BY <1>2, <1>3, <1>4, TimerGoesOn

LEMMA TakingUpKeeps == ASSUME SwitchInv, SwitchNext, Timed, pc \in (N + 14)..(N + M + 21) PROVE SwitchInv'
<1> DEFINE t == Other(running)
<1>0. pc # 0
  <2>1. N \in Nat
    BY Sizes DEF SwitchInv, Typed
  <2> QED BY <2>1
<1>1. /\ Machine /\ Fits(layout) /\ Typed /\ OwnInv /\ DispatchInv /\ TakenUpInv
      /\ N \in Nat /\ M \in Nat /\ N >= 4 /\ M >= 4
      /\ running \in Sides /\ t \in Sides /\ t # running
  BY <1>0, TimerFacts DEF TimerInv
<1>2. /\ {Out[1], Out[2], Out[3], Out[4], Rsp, Rip, Flags} \subseteq Regs
      /\ Out[1] # Rsp /\ Out[2] # Rsp /\ Out[3] # Rsp /\ Out[4] # Rsp
      /\ Out[1] # Out[2] /\ Out[1] # Out[3] /\ Out[1] # Out[4]
      /\ Out[2] # Out[3] /\ Out[2] # Out[4] /\ Out[3] # Out[4]
  <2>1. {1, 2, 3, 4} \subseteq 1..N /\ 1 # 2 /\ 1 # 3 /\ 1 # 4 /\ 2 # 3 /\ 2 # 4 /\ 3 # 4
    BY <1>1
  <2> QED BY <1>0, <2>1, TimerRegs
<1>3. \A k \in 1..M :
        /\ In[k] \in Regs /\ In[k] # Rsp
        /\ In[k] # Out[1] /\ In[k] # Out[2] /\ In[k] # Out[3] /\ In[k] # Out[4]
  <2>1. {1, 2, 3, 4} \subseteq 1..N
    BY <1>1
  <2> QED BY <1>0, <2>1, TimerRegs
<1>4. /\ \A j, k \in 1..M : In[j] = In[k] => j = k
      /\ Rsp # Rip /\ Rsp # Flags /\ Rip # Flags
  BY <1>0, TimerRegs
<1>5. {0, 1, 2} \subseteq Slots /\ \A k \in 1..M : k + 2 \in Slots
  BY <1>0, TimerSlots
<1>6. own[t][Rsp] = Value(t, Rsp, 0)
  BY <1>1 DEF OwnInv
<1>7. regs[Out[1]] = Tcb(t)
  <2>1. N + 11 < pc /\ pc <= N + M + 21
    BY <1>1
  <2> QED BY <1>1, <2>1 DEF DispatchInv
<1>8. /\ Aside(t)
      /\ tcb[t][0] = own[t][Rsp] /\ tcb[t][1] = own[t][Rip] /\ tcb[t][2] = own[t][Flags]
      /\ \A k \in 1..M : tcb[t][k + 2] = own[t][In[k]]
  <2>1. Aside(t)
    BY <1>1 DEF TakenUpInv
  <2>2. \A k \in 1..M : Slot(k) = k + 2 /\ k \in 1..Len(layout.gp[t]) /\ In[k] = layout.gp[t][k]
    BY DEF Slot, M, In
  <2> QED BY <2>1, <2>2 DEF Aside
<1>9. ASSUME Goes, UNCHANGED tcb PROVE Aside(Other(running))'
  BY <1>1, <1>8, <1>9, AsideKept DEF Goes
<1> HIDE DEF t
<1>10. CASE pc \in (N + 14)..(N + M + 13)
  <2> DEFINE j == pc - (N + 13)
  <2>0. j \in 1..M /\ pc = N + 13 + j
    BY <1>1, <1>10
  <2> HIDE DEF j
  <2>1. /\ Goes /\ UNCHANGED <<tcb, stack, cur, next, vector>>
        /\ regs' \in [Regs -> Values]
        /\ regs'[In[j]] = tcb[t][j + 2]
        /\ \A q \in Regs : q # In[j] => regs'[q] = regs[q]
    <3>1. code[pc] = Load(In[j], Out[1], j + 2)
      BY <1>0, <2>0, TimerText
    <3>2. j + 2 \in Slots /\ In[j] \in Regs /\ Out[1] \in Regs
      BY <1>2, <1>3, <1>5, <2>0
    <3> QED BY <1>0, <1>1, <1>7, <3>1, <3>2, DoesLoad
  <2>2. Typed'
    BY <1>1, <2>1 DEF Typed, Goes, Slots
  <2>3. ASSUME NEW k \in 1..M, N + 13 + k < pc + 1 PROVE regs'[In[k]] = own[t][In[k]]
    <3>1. CASE k = j
      BY <1>8, <2>0, <2>1, <3>1
    <3>2. CASE k # j
      <4>1. N + 13 + k < pc
        BY <1>1, <2>0, <2>3, <3>2
      <4>2. In[k] # In[j] /\ In[k] \in Regs
        BY <1>3, <1>4, <2>0, <3>2
      <4> QED BY <1>1, <2>1, <4>1, <4>2 DEF TakenUpInv, t
    <3> QED BY <3>1, <3>2
  <2>4. /\ ~(N + M + 14 < pc + 1) /\ ~(N + M + 15 < pc + 1) /\ ~(N + M + 16 < pc + 1)
        /\ ~(N + M + 19 < pc + 1) /\ ~(pc + 1 > N + M + 17) /\ ~(pc + 1 > N + M + 18)
        /\ ~(pc + 1 > N + M + 20) /\ pc + 1 # N + M + 22
    BY <1>1, <2>0
  <2>5. Timed' = Timed /\ Out' = Out /\ In' = In /\ N' = N /\ M' = M
    BY <2>1, SameSizes DEF Goes
  <2>6. TakenUpInv'
    BY <1>9, <2>1, <2>3, <2>4, <2>5 DEF TakenUpInv, Goes, t
  <2>7. regs'[Rsp] = regs[Rsp] /\ regs'[Out[1]] = regs[Out[1]]
    <3>1. In[j] # Rsp /\ In[j] # Out[1]
      BY <1>3, <2>0
    <3> QED BY <1>2, <2>1, <3>1
  <2> QED BY <1>0, <2>1, <2>2, <2>6, <2>7, TakingUpGoesOn
<1>14. CASE pc = N + M + 14
  <2>1. /\ Goes /\ UNCHANGED <<tcb, stack, cur, next, vector>>
        /\ regs' \in [Regs -> Values]
        /\ regs'[Out[2]] = tcb[t][0]
        /\ \A q \in Regs : q # Out[2] => regs'[q] = regs[q]
    <3>1. code[pc] = Load(Out[2], Out[1], 0)
      BY <1>0, <1>14, TimerText
    <3> QED BY <1>0, <1>1, <1>2, <1>5, <1>7, <3>1, DoesLoad
  <2>2. Typed'
    BY <1>1, <2>1 DEF Typed, Goes, Slots
  <2>3. \A k \in 1..M : N + 13 + k < pc
    BY <1>1, <1>14
  <2>4. /\ ~(N + M + 14 < pc) /\ ~(N + M + 15 < pc) /\ ~(N + M + 16 < pc) /\ ~(N + M + 19 < pc)
        /\ pc <= N + M + 19 /\ pc <= N + M + 21 /\ ~(pc > N + M + 17) /\ ~(pc > N + M + 18)
        /\ ~(pc > N + M + 20) /\ pc # N + M + 22 /\ N + M + 14 < pc + 1 /\ ~(N + M + 15 < pc + 1)
        /\ ~(N + M + 16 < pc + 1) /\ ~(N + M + 19 < pc + 1) /\ pc + 1 <= N + M + 19
        /\ pc + 1 <= N + M + 21
        /\ ~(pc + 1 > N + M + 17) /\ ~(pc + 1 > N + M + 18) /\ ~(pc + 1 > N + M + 20)
        /\ pc + 1 # N + M + 22
    BY <1>1, <1>14
  <2>5. Timed' = Timed /\ Out' = Out /\ In' = In /\ N' = N /\ M' = M
    BY <2>1, SameSizes DEF Goes
  <2>6. \A k \in 1..M : regs'[In[k]] = regs[In[k]]
    BY <1>3, <2>1
  <2>7. TakenUpInv'
    BY <1>1, <1>2, <1>8, <1>9, <2>1, <2>3, <2>4, <2>5, <2>6 DEF TakenUpInv, Goes, t
  <2>8. regs'[Rsp] = regs[Rsp] /\ regs'[Out[1]] = regs[Out[1]]
    BY <1>2, <2>1
  <2> QED BY <1>0, <2>1, <2>2, <2>7, <2>8, TakingUpGoesOn
<1>15. CASE pc = N + M + 15
  <2>1. /\ Goes /\ UNCHANGED <<tcb, stack, cur, next, vector>>
        /\ regs' \in [Regs -> Values]
        /\ regs'[Out[3]] = tcb[t][1]
        /\ \A q \in Regs : q # Out[3] => regs'[q] = regs[q]
    <3>1. code[pc] = Load(Out[3], Out[1], 1)
      BY <1>0, <1>15, TimerText
    <3> QED BY <1>0, <1>1, <1>2, <1>5, <1>7, <3>1, DoesLoad
  <2>2. Typed'
    BY <1>1, <2>1 DEF Typed, Goes, Slots
  <2>3. \A k \in 1..M : N + 13 + k < pc
    BY <1>1, <1>15
  <2>4. /\ N + M + 14 < pc /\ ~(N + M + 15 < pc) /\ ~(N + M + 16 < pc) /\ ~(N + M + 19 < pc)
        /\ pc <= N + M + 19 /\ pc <= N + M + 21 /\ ~(pc > N + M + 17) /\ ~(pc > N + M + 18)
        /\ ~(pc > N + M + 20) /\ pc # N + M + 22 /\ N + M + 14 < pc + 1 /\ N + M + 15 < pc + 1
        /\ ~(N + M + 16 < pc + 1) /\ ~(N + M + 19 < pc + 1) /\ pc + 1 <= N + M + 19
        /\ pc + 1 <= N + M + 21
        /\ ~(pc + 1 > N + M + 17) /\ ~(pc + 1 > N + M + 18) /\ ~(pc + 1 > N + M + 20)
        /\ pc + 1 # N + M + 22
    BY <1>1, <1>15
  <2>5. Timed' = Timed /\ Out' = Out /\ In' = In /\ N' = N /\ M' = M
    BY <2>1, SameSizes DEF Goes
  <2>6. \A k \in 1..M : regs'[In[k]] = regs[In[k]]
    BY <1>3, <2>1
  <2>7. TakenUpInv'
    BY <1>1, <1>2, <1>8, <1>9, <2>1, <2>3, <2>4, <2>5, <2>6 DEF TakenUpInv, Goes, t
  <2>8. regs'[Rsp] = regs[Rsp] /\ regs'[Out[1]] = regs[Out[1]]
    BY <1>2, <2>1
  <2> QED BY <1>0, <2>1, <2>2, <2>7, <2>8, TakingUpGoesOn
<1>16. CASE pc = N + M + 16
  <2>1. /\ Goes /\ UNCHANGED <<tcb, stack, cur, next, vector>>
        /\ regs' \in [Regs -> Values]
        /\ regs'[Out[4]] = tcb[t][2]
        /\ \A q \in Regs : q # Out[4] => regs'[q] = regs[q]
    <3>1. code[pc] = Load(Out[4], Out[1], 2)
      BY <1>0, <1>16, TimerText
    <3> QED BY <1>0, <1>1, <1>2, <1>5, <1>7, <3>1, DoesLoad
  <2>2. Typed'
    BY <1>1, <2>1 DEF Typed, Goes, Slots
  <2>3. \A k \in 1..M : N + 13 + k < pc
    BY <1>1, <1>16
  <2>4. /\ N + M + 14 < pc /\ N + M + 15 < pc /\ ~(N + M + 16 < pc) /\ ~(N + M + 19 < pc)
        /\ pc <= N + M + 19 /\ pc <= N + M + 21 /\ ~(pc > N + M + 17) /\ ~(pc > N + M + 18)
        /\ ~(pc > N + M + 20) /\ pc # N + M + 22 /\ N + M + 14 < pc + 1 /\ N + M + 15 < pc + 1
        /\ N + M + 16 < pc + 1 /\ ~(N + M + 19 < pc + 1) /\ pc + 1 <= N + M + 19
        /\ pc + 1 <= N + M + 21
        /\ ~(pc + 1 > N + M + 17) /\ ~(pc + 1 > N + M + 18) /\ ~(pc + 1 > N + M + 20)
        /\ pc + 1 # N + M + 22
    BY <1>1, <1>16
  <2>5. Timed' = Timed /\ Out' = Out /\ In' = In /\ N' = N /\ M' = M
    BY <2>1, SameSizes DEF Goes
  <2>6. \A k \in 1..M : regs'[In[k]] = regs[In[k]]
    BY <1>3, <2>1
  <2>7. TakenUpInv'
    BY <1>1, <1>2, <1>8, <1>9, <2>1, <2>3, <2>4, <2>5, <2>6 DEF TakenUpInv, Goes, t
  <2>8. regs'[Rsp] = regs[Rsp] /\ regs'[Out[1]] = regs[Out[1]]
    BY <1>2, <2>1
  <2> QED BY <1>0, <2>1, <2>2, <2>7, <2>8, TakingUpGoesOn
<1>17. CASE pc = N + M + 17
  <2>0. regs[Out[2]] = Value(t, Rsp, 0) /\ regs[Out[3]] = own[t][Rip]
    <3>1. /\ N + M + 14 < pc /\ N + M + 15 < pc /\ N + M + 16 < pc /\ pc <= N + M + 21
          /\ pc <= N + M + 19
      BY <1>1, <1>17
    <3> QED BY <1>1, <1>6, <3>1 DEF TakenUpInv, t
  <2>1. /\ Goes /\ UNCHANGED <<regs, tcb, cur, next, vector>>
        /\ stack' \in [Sides -> [{Rip, Flags, Rsp} -> Values]]
        /\ stack'[t][Rip] = regs[Out[3]]
        /\ \A g \in {Rip, Flags, Rsp} : g # Rip => stack'[t][g] = stack[t][g]
    <3>1. code[pc] = Push(Rip, Out[3], Out[2])
      BY <1>0, <1>17, TimerText
    <3>2. Rip \in {Rip, Flags, Rsp}
      OBVIOUS
    <3>3. Out[2] \in Regs /\ Out[3] \in Regs
      BY <1>2
    <3>4. Typed /\ t \in Sides /\ regs[Out[2]] = Value(t, Rsp, 0)
      BY <1>1, <2>0
    <3> HIDE DEF Value
    <3>5. Goes /\ UNCHANGED <<regs, tcb, cur, next, vector>>
      BY <1>0, <3>1, <3>2, <3>3, <3>4, DoesPush
    <3>6. stack' \in [Sides -> [{Rip, Flags, Rsp} -> Values]]
      BY <1>0, <3>1, <3>2, <3>3, <3>4, DoesPush
    <3>7. stack'[t][Rip] = regs[Out[3]]
      BY <1>0, <3>1, <3>2, <3>3, <3>4, DoesPush
    <3>8. \A side \in Sides : \A g \in {Rip, Flags, Rsp} :
            (side # t \/ g # Rip) => stack'[side][g] = stack[side][g]
      BY <1>0, <3>1, <3>2, <3>3, <3>4, DoesPush
    <3> QED BY <1>1, <3>5, <3>6, <3>7, <3>8
  <2>2. Typed'
    BY <1>1, <2>1 DEF Typed, Goes, Slots
  <2>3. \A k \in 1..M : N + 13 + k < pc
    BY <1>1, <1>17
  <2>4. /\ N + M + 14 < pc /\ N + M + 15 < pc /\ N + M + 16 < pc /\ ~(N + M + 19 < pc)
        /\ pc <= N + M + 19 /\ pc <= N + M + 21 /\ ~(pc > N + M + 17) /\ ~(pc > N + M + 18)
        /\ ~(pc > N + M + 20) /\ pc # N + M + 22 /\ N + M + 14 < pc + 1 /\ N + M + 15 < pc + 1
        /\ N + M + 16 < pc + 1 /\ ~(N + M + 19 < pc + 1) /\ pc + 1 <= N + M + 19
        /\ pc + 1 <= N + M + 21
        /\ pc + 1 > N + M + 17 /\ ~(pc + 1 > N + M + 18) /\ ~(pc + 1 > N + M + 20)
        /\ pc + 1 # N + M + 22
    BY <1>1, <1>17
  <2>5. Timed' = Timed /\ Out' = Out /\ In' = In /\ N' = N /\ M' = M
    BY <2>1, SameSizes DEF Goes
  <2>6. stack'[t][Rip] = own[t][Rip]
    BY <2>0, <2>1
  <2>7. TakenUpInv'
    BY <1>1, <1>4, <1>9, <2>1, <2>3, <2>4, <2>5, <2>6 DEF TakenUpInv, Goes, t
  <2> QED BY <1>0, <2>1, <2>2, <2>7, TakingUpGoesOn
<1>18. CASE pc = N + M + 18
  <2>0. regs[Out[2]] = Value(t, Rsp, 0) /\ regs[Out[4]] = own[t][Flags]
    <3>1. /\ N + M + 14 < pc /\ N + M + 15 < pc /\ N + M + 16 < pc /\ pc <= N + M + 21
          /\ pc <= N + M + 19
      BY <1>1, <1>18
    <3> QED BY <1>1, <1>6, <3>1 DEF TakenUpInv, t
  <2>1. /\ Goes /\ UNCHANGED <<regs, tcb, cur, next, vector>>
        /\ stack' \in [Sides -> [{Rip, Flags, Rsp} -> Values]]
        /\ stack'[t][Flags] = regs[Out[4]]
        /\ \A g \in {Rip, Flags, Rsp} : g # Flags => stack'[t][g] = stack[t][g]
    <3>1. code[pc] = Push(Flags, Out[4], Out[2])
      BY <1>0, <1>18, TimerText
    <3>2. Flags \in {Rip, Flags, Rsp}
      OBVIOUS
    <3>3. Out[2] \in Regs /\ Out[4] \in Regs
      BY <1>2
    <3>4. Typed /\ t \in Sides /\ regs[Out[2]] = Value(t, Rsp, 0)
      BY <1>1, <2>0
    <3> HIDE DEF Value
    <3>5. Goes /\ UNCHANGED <<regs, tcb, cur, next, vector>>
      BY <1>0, <3>1, <3>2, <3>3, <3>4, DoesPush
    <3>6. stack' \in [Sides -> [{Rip, Flags, Rsp} -> Values]]
      BY <1>0, <3>1, <3>2, <3>3, <3>4, DoesPush
    <3>7. stack'[t][Flags] = regs[Out[4]]
      BY <1>0, <3>1, <3>2, <3>3, <3>4, DoesPush
    <3>8. \A side \in Sides : \A g \in {Rip, Flags, Rsp} :
            (side # t \/ g # Flags) => stack'[side][g] = stack[side][g]
      BY <1>0, <3>1, <3>2, <3>3, <3>4, DoesPush
    <3> QED BY <1>1, <3>5, <3>6, <3>7, <3>8
  <2>2. Typed'
    BY <1>1, <2>1 DEF Typed, Goes, Slots
  <2>3. \A k \in 1..M : N + 13 + k < pc
    BY <1>1, <1>18
  <2>4. /\ N + M + 14 < pc /\ N + M + 15 < pc /\ N + M + 16 < pc /\ ~(N + M + 19 < pc)
        /\ pc <= N + M + 19 /\ pc <= N + M + 21 /\ pc > N + M + 17 /\ ~(pc > N + M + 18)
        /\ ~(pc > N + M + 20) /\ pc # N + M + 22 /\ N + M + 14 < pc + 1 /\ N + M + 15 < pc + 1
        /\ N + M + 16 < pc + 1 /\ ~(N + M + 19 < pc + 1) /\ pc + 1 <= N + M + 19
        /\ pc + 1 <= N + M + 21
        /\ pc + 1 > N + M + 17 /\ pc + 1 > N + M + 18 /\ ~(pc + 1 > N + M + 20)
        /\ pc + 1 # N + M + 22
    BY <1>1, <1>18
  <2>5. Timed' = Timed /\ Out' = Out /\ In' = In /\ N' = N /\ M' = M
    BY <2>1, SameSizes DEF Goes
  <2>6. stack'[t][Flags] = own[t][Flags]
    BY <2>0, <2>1
  <2>7. TakenUpInv'
    BY <1>1, <1>4, <1>9, <2>1, <2>3, <2>4, <2>5, <2>6 DEF TakenUpInv, Goes, t
  <2> QED BY <1>0, <2>1, <2>2, <2>7, TakingUpGoesOn
<1>19. CASE pc = N + M + 19
  <2>1. /\ Goes /\ UNCHANGED <<tcb, stack, cur, next, vector>>
        /\ regs' \in [Regs -> Values]
        /\ regs'[Out[3]] = tcb[t][0]
        /\ \A q \in Regs : q # Out[3] => regs'[q] = regs[q]
    <3>1. code[pc] = Load(Out[3], Out[1], 0)
      BY <1>0, <1>19, TimerText
    <3> QED BY <1>0, <1>1, <1>2, <1>5, <1>7, <3>1, DoesLoad
  <2>2. Typed'
    BY <1>1, <2>1 DEF Typed, Goes, Slots
  <2>3. \A k \in 1..M : N + 13 + k < pc
    BY <1>1, <1>19
  <2>4. /\ N + M + 14 < pc /\ N + M + 15 < pc /\ N + M + 16 < pc /\ ~(N + M + 19 < pc)
        /\ pc <= N + M + 19 /\ pc <= N + M + 21 /\ pc > N + M + 17 /\ pc > N + M + 18
        /\ ~(pc > N + M + 20) /\ pc # N + M + 22 /\ N + M + 14 < pc + 1 /\ N + M + 15 < pc + 1
        /\ N + M + 16 < pc + 1 /\ N + M + 19 < pc + 1 /\ ~(pc + 1 <= N + M + 19)
        /\ pc + 1 <= N + M + 21
        /\ pc + 1 > N + M + 17 /\ pc + 1 > N + M + 18 /\ ~(pc + 1 > N + M + 20)
        /\ pc + 1 # N + M + 22
    BY <1>1, <1>19
  <2>5. Timed' = Timed /\ Out' = Out /\ In' = In /\ N' = N /\ M' = M
    BY <2>1, SameSizes DEF Goes
  <2>6. \A k \in 1..M : regs'[In[k]] = regs[In[k]]
    BY <1>3, <2>1
  <2>7. TakenUpInv'
    BY <1>1, <1>2, <1>8, <1>9, <2>1, <2>3, <2>4, <2>5, <2>6 DEF TakenUpInv, Goes, t
  <2>8. regs'[Rsp] = regs[Rsp] /\ regs'[Out[1]] = regs[Out[1]]
    BY <1>2, <2>1
  <2> QED BY <1>0, <2>1, <2>2, <2>7, <2>8, TakingUpGoesOn
<1>20. CASE pc = N + M + 20
  <2>0. regs[Out[2]] = Value(t, Rsp, 0) /\ regs[Out[3]] = own[t][Rsp]
    <3>1. /\ N + M + 14 < pc /\ N + M + 15 < pc /\ N + M + 16 < pc /\ pc <= N + M + 21
          /\ N + M + 19 < pc
      BY <1>1, <1>20
    <3> QED BY <1>1, <1>6, <3>1 DEF TakenUpInv, t
  <2>1. /\ Goes /\ UNCHANGED <<regs, tcb, cur, next, vector>>
        /\ stack' \in [Sides -> [{Rip, Flags, Rsp} -> Values]]
        /\ stack'[t][Rsp] = regs[Out[3]]
        /\ \A g \in {Rip, Flags, Rsp} : g # Rsp => stack'[t][g] = stack[t][g]
    <3>1. code[pc] = Push(Rsp, Out[3], Out[2])
      BY <1>0, <1>20, TimerText
    <3>2. Rsp \in {Rip, Flags, Rsp}
      OBVIOUS
    <3>3. Out[2] \in Regs /\ Out[3] \in Regs
      BY <1>2
    <3>4. Typed /\ t \in Sides /\ regs[Out[2]] = Value(t, Rsp, 0)
      BY <1>1, <2>0
    <3> HIDE DEF Value
    <3>5. Goes /\ UNCHANGED <<regs, tcb, cur, next, vector>>
      BY <1>0, <3>1, <3>2, <3>3, <3>4, DoesPush
    <3>6. stack' \in [Sides -> [{Rip, Flags, Rsp} -> Values]]
      BY <1>0, <3>1, <3>2, <3>3, <3>4, DoesPush
    <3>7. stack'[t][Rsp] = regs[Out[3]]
      BY <1>0, <3>1, <3>2, <3>3, <3>4, DoesPush
    <3>8. \A side \in Sides : \A g \in {Rip, Flags, Rsp} :
            (side # t \/ g # Rsp) => stack'[side][g] = stack[side][g]
      BY <1>0, <3>1, <3>2, <3>3, <3>4, DoesPush
    <3> QED BY <1>1, <3>5, <3>6, <3>7, <3>8
  <2>2. Typed'
    BY <1>1, <2>1 DEF Typed, Goes, Slots
  <2>3. \A k \in 1..M : N + 13 + k < pc
    BY <1>1, <1>20
  <2>4. /\ N + M + 14 < pc /\ N + M + 15 < pc /\ N + M + 16 < pc /\ N + M + 19 < pc
        /\ ~(pc <= N + M + 19) /\ pc <= N + M + 21 /\ pc > N + M + 17 /\ pc > N + M + 18
        /\ ~(pc > N + M + 20) /\ pc # N + M + 22 /\ N + M + 14 < pc + 1 /\ N + M + 15 < pc + 1
        /\ N + M + 16 < pc + 1 /\ N + M + 19 < pc + 1 /\ ~(pc + 1 <= N + M + 19)
        /\ pc + 1 <= N + M + 21
        /\ pc + 1 > N + M + 17 /\ pc + 1 > N + M + 18 /\ pc + 1 > N + M + 20 /\ pc + 1 # N + M + 22
    BY <1>1, <1>20
  <2>5. Timed' = Timed /\ Out' = Out /\ In' = In /\ N' = N /\ M' = M
    BY <2>1, SameSizes DEF Goes
  <2>6. stack'[t][Rsp] = own[t][Rsp]
    BY <2>0, <2>1
  <2>7. TakenUpInv'
    BY <1>1, <1>4, <1>9, <2>1, <2>3, <2>4, <2>5, <2>6 DEF TakenUpInv, Goes, t
  <2> QED BY <1>0, <2>1, <2>2, <2>7, TakingUpGoesOn
<1>21. CASE pc = N + M + 21
  <2>1. /\ Goes /\ UNCHANGED <<tcb, stack, cur, next, vector>>
        /\ regs' \in [Regs -> Values]
        /\ regs'[Rsp] = regs[Out[2]]
        /\ \A q \in Regs : q # Rsp => regs'[q] = regs[q]
    <3>1. code[pc] = Do("stack", Out[2])
      BY <1>0, <1>21, TimerText
    <3> QED BY <1>0, <1>1, <1>2, <3>1, DoesStack
  <2>2. Typed'
    BY <1>1, <2>1 DEF Typed, Goes, Slots
  <2>3. \A k \in 1..M : N + 13 + k < pc
    BY <1>1, <1>21
  <2>4. /\ N + M + 14 < pc /\ N + M + 15 < pc /\ N + M + 16 < pc /\ N + M + 19 < pc
        /\ ~(pc <= N + M + 19) /\ pc <= N + M + 21 /\ pc > N + M + 17 /\ pc > N + M + 18
        /\ pc > N + M + 20 /\ pc # N + M + 22 /\ N + M + 14 < pc + 1 /\ N + M + 15 < pc + 1
        /\ N + M + 16 < pc + 1 /\ N + M + 19 < pc + 1 /\ ~(pc + 1 <= N + M + 19)
        /\ ~(pc + 1 <= N + M + 21)
        /\ pc + 1 > N + M + 17 /\ pc + 1 > N + M + 18 /\ pc + 1 > N + M + 20 /\ pc + 1 = N + M + 22
    BY <1>1, <1>21
  <2>5. Timed' = Timed /\ Out' = Out /\ In' = In /\ N' = N /\ M' = M
    BY <2>1, SameSizes DEF Goes
  <2>6. \A k \in 1..M : regs'[In[k]] = regs[In[k]]
    BY <1>3, <2>1
  <2>7. TakenUpInv'
    BY <1>1, <1>2, <1>9, <2>1, <2>3, <2>4, <2>5, <2>6 DEF TakenUpInv, Goes, t
  <2>8. ~(pc < N + M + 21)
    BY <1>1, <1>21
  <2> QED BY <1>0, <2>1, <2>2, <2>7, <2>8, TakingUpGoesOn
<1>22. \/ pc \in (N + 14)..(N + M + 13)
       \/ pc = N + M + 14 \/ pc = N + M + 15 \/ pc = N + M + 16 \/ pc = N + M + 17
       \/ pc = N + M + 18 \/ pc = N + M + 19 \/ pc = N + M + 20 \/ pc = N + M + 21
  BY <1>1
<1> QED BY <1>10, <1>14, <1>15, <1>16, <1>17, <1>18, <1>19, <1>20, <1>21, <1>22

LEMMA TimerReturns == ASSUME SwitchInv, SwitchNext, Timed, pc # 0, pc = N + M + 22
                      PROVE  SwitchInv' /\ pc' = 0 /\ running' = Other(running)
<1> DEFINE t == Other(running)
<1>1. /\ Machine /\ Fits(layout) /\ Typed /\ OwnInv /\ SavedInv /\ DispatchInv /\ TakenUpInv
      /\ N \in Nat /\ M \in Nat /\ N >= 4 /\ M >= 4
      /\ running \in Sides /\ t \in Sides /\ t # running /\ Other(t) = running
  BY TimerFacts, Sizes DEF TimerInv
<1>2. /\ regs[Rsp] = own[t][Rsp] /\ own[t][Rsp] = Value(t, Rsp, 0)
      /\ \A f \in {Rip, Flags, Rsp} : stack[t][f] = own[t][f]
      /\ \A k \in 1..M : regs[In[k]] = own[t][In[k]]
  <2>1. /\ pc > N + M + 17 /\ pc > N + M + 18 /\ pc > N + M + 20
        /\ \A k \in 1..M : N + 13 + k < pc
    BY <1>1
  <2> QED BY <1>1, <2>1 DEF TakenUpInv, OwnInv
<1>3. /\ UNCHANGED <<layout, tcb, stack, cur, next, vector, own, clock>>
      /\ pc' = 0 /\ code' = <<>> /\ running' = stack[t][Rip].side
      /\ regs' \in [Regs -> Values]
      /\ \A q \in {Rip, Flags, Rsp} : regs'[q] = stack[t][q]
      /\ \A q \in General : q \notin {Rip, Flags, Rsp} => regs'[q] = regs[q]
  BY <1>1, <1>2, TimerText, DoesInterruptReturn
<1>4. running' = t
  <2>1. PICK time : own[t][Rip] = Value(t, Rip, time)
    BY <1>1 DEF OwnInv
  <2>2. stack[t][Rip] = own[t][Rip]
    BY <1>2
  <2> QED BY <1>3, <2>1, <2>2 DEF Value
<1>5. vector = t /\ cur = Tcb(t) /\ next = Tcb(running)
  <2>1. ~(pc <= N + 9) /\ ~(pc <= N + 13) /\ ~(pc <= N + 12)
    BY <1>1
  <2> QED BY <1>1, <2>1 DEF DispatchInv
<1>6. Typed' /\ OwnInv' /\ Machine' /\ Fits(layout)' /\ pc' \in 0..Len(code') /\ Timed'
  <2>1. Typed'
    BY <1>1, <1>3, <1>4 DEF Typed, Slots
  <2>2. OwnInv' /\ Machine' /\ Fits(layout)' /\ Timed'
    BY <1>1, <1>3 DEF OwnInv, Machine, Timed
  <2>3. pc' \in 0..Len(code')
    BY <1>3
  <2> QED BY <2>1, <2>2, <2>3
<1>7. N' = M /\ Out' = In /\ Other(running)' = running
  BY <1>1, <1>3, <1>4 DEF N, M, Out, In
<1>8. PICK s \in Sides : s = running
  BY <1>1
<1>9. Aside(Other(running))'
  <2>1. /\ pc > N + 3 /\ pc > N + 5 /\ pc > N + 7 /\ \A k \in 1..N : k + 1 < pc
    BY <1>1
  <2>2. Aside(s)
    BY <1>1, <1>8, <2>1 DEF SavedInv, Aside, Slot, N, Out
  <2>3. Aside(s)'
    BY <1>3, <1>6, <2>2 DEF Aside, Slot, Timed
  <2>4. Other(running)' = s
    BY <1>7, <1>8
  <2> QED BY <2>3, <2>4 DEF Aside
<1>10. /\ \A q \in {Rip, Flags, Rsp} : regs'[q] = own[t][q]
       /\ \A k \in 1..M : regs'[In[k]] = own[t][In[k]]
  <2>1. \A k \in 1..M : In[k] \in General /\ In[k] \notin {Rip, Flags, Rsp}
    BY <1>1, Sizes, TimerRegs
  <2> QED BY <1>2, <1>3, <2>1
<1>11. Resting'
  BY <1>3, <1>4, <1>5, <1>6, <1>7, <1>9, <1>10 DEF Resting
<1> QED BY <1>3, <1>4, <1>6, <1>11 DEF SwitchInv

LEMMA SwitchStep == SwitchInv /\ [SwitchNext]_switchVars => SwitchInv'
<1> SUFFICES ASSUME SwitchInv, [SwitchNext]_switchVars PROVE SwitchInv'
  OBVIOUS
<1>1. CASE UNCHANGED switchVars
  <2>1. UNCHANGED <<layout, regs, tcb, stack, cur, next, vector, code, pc, running, own, clock>>
    BY <1>1 DEF switchVars
  <2>2. UNCHANGED <<N, M, Out, In, Timed, Slots>>
    BY <2>1 DEF N, M, Out, In, Timed, Slots
  <2>3. Typed' /\ OwnInv' /\ Machine' /\ Fits(layout)' /\ pc' \in 0..Len(code')
    BY <2>1, <2>2 DEF SwitchInv, Typed, OwnInv, Machine
  <2>4. Aside(Other(running))' <=> Aside(Other(running))
    BY <2>1 DEF Aside, Slot, Timed
  <2>5. Resting' <=> Resting
    BY <2>1, <2>2, <2>4 DEF Resting
  <2>6. CalledInv' <=> CalledInv
    BY <2>1, <2>2, <2>4 DEF CalledInv
  <2>7. TimerInv' <=> TimerInv
    BY <2>1, <2>2, <2>4 DEF TimerInv, SavedInv, DispatchInv, TakenUpInv
  <2> QED BY <2>1, <2>2, <2>3, <2>5, <2>6, <2>7 DEF SwitchInv
<1>2. CASE SwitchNext /\ pc = 0
  <2>1. Work \/ CallSwitch \/ TimerTick
    BY <1>2 DEF SwitchNext, At, StoreStep, FillStep, PutStep, EoiStep, FlipStep, PushStep,
                StackStep,
                Return, InterruptReturn
  <2> QED BY <2>1, WorkKeeps, CallKeeps, TickKeeps
<1>3. CASE SwitchNext /\ pc # 0 /\ ~Timed
  BY <1>3, CalledKeeps
<1>4. CASE SwitchNext /\ pc # 0 /\ Timed
  <2>1. N \in Nat /\ M \in Nat /\ pc \in 1..(N + M + 22)
    BY <1>4, TimerFacts
  <2>2. \/ pc \in 1..(N + 7) \/ pc \in (N + 8)..(N + 13)
        \/ pc \in (N + 14)..(N + M + 21) \/ pc = N + M + 22
    BY <2>1
  <2> QED BY <1>4, <2>2, SavingKeeps, DispatchingKeeps, TakingUpKeeps, TimerReturns
<1> QED BY <1>1, <1>2, <1>3, <1>4

LEMMA OpOf ==
  \A a, b, c :
    /\ Store(a, b, c).op = "store" /\ Load(a, b, c).op = "load" /\ Pop(a, b).op = "pop"
    /\ Push(a, b, c).op = "push" /\ Get(a, b).op = "get" /\ Put(a, b).op = "put"
    /\ Do(a, b).op = a
BY DEF Store, Load, Pop, Push, Get, Put, Do, Ins

\* Only the last instruction of a switcher leaves it.
LEMMA LastLeaves ==
  ASSUME SwitchInv, pc # 0, code[pc].op \in {"ret", "iret"}
  PROVE  IF Timed THEN pc = N + M + 22 ELSE pc = N + M + 5
<1>1. CASE Timed
  <2>1. N \in Nat /\ M \in Nat /\ pc \in 1..(N + M + 22)
    BY <1>1, TimerFacts
  <2>2. /\ code[1].op = "get"
        /\ \A j \in 1..N : code[j + 1].op = "store"
        /\ code[N + 2].op = "pop" /\ code[N + 3].op = "store" /\ code[N + 4].op = "pop"
        /\ code[N + 5].op = "store" /\ code[N + 6].op = "pop" /\ code[N + 7].op = "store"
        /\ code[N + 8].op = "eoi" /\ code[N + 9].op = "flip" /\ code[N + 10].op = "get"
        /\ code[N + 11].op = "get" /\ code[N + 12].op = "put" /\ code[N + 13].op = "put"
    BY <1>1, TimerText, OpOf
  <2>3. /\ \A j \in 1..M : code[N + 13 + j].op = "load"
        /\ code[N + M + 14].op = "load" /\ code[N + M + 15].op = "load"
        /\ code[N + M + 16].op = "load" /\ code[N + M + 17].op = "push"
        /\ code[N + M + 18].op = "push" /\ code[N + M + 19].op = "load"
        /\ code[N + M + 20].op = "push" /\ code[N + M + 21].op = "stack"
    BY <1>1, TimerText, OpOf
  <2>4. pc \notin 2..(N + 1)
    <3> SUFFICES ASSUME pc \in 2..(N + 1) PROVE FALSE
      OBVIOUS
    <3>1. pc - 1 \in 1..N /\ pc = (pc - 1) + 1
      BY <2>1
    <3> QED BY <2>2, <3>1
  <2>5. pc \notin (N + 14)..(N + M + 13)
    <3> SUFFICES ASSUME pc \in (N + 14)..(N + M + 13) PROVE FALSE
      OBVIOUS
    <3>1. pc - (N + 13) \in 1..M /\ pc = N + 13 + (pc - (N + 13))
      BY <2>1
    <3> QED BY <2>3, <3>1
  <2>6. \/ pc = N + M + 22 \/ pc = 1 \/ pc \in 2..(N + 1) \/ pc \in (N + 14)..(N + M + 13)
        \/ pc = N + 2 \/ pc = N + 3 \/ pc = N + 4 \/ pc = N + 5 \/ pc = N + 6 \/ pc = N + 7
        \/ pc = N + 8 \/ pc = N + 9 \/ pc = N + 10 \/ pc = N + 11 \/ pc = N + 12 \/ pc = N + 13
        \/ pc = N + M + 14 \/ pc = N + M + 15 \/ pc = N + M + 16 \/ pc = N + M + 17
        \/ pc = N + M + 18 \/ pc = N + M + 19 \/ pc = N + M + 20 \/ pc = N + M + 21
    BY <2>1
  <2> QED BY <1>1, <2>2, <2>3, <2>4, <2>5, <2>6
<1>2. CASE ~Timed
  <2>1. Machine /\ Fits(layout) /\ running \in Sides /\ code = Called(Out, In)
    BY <1>2 DEF SwitchInv, Typed, CalledInv
  <2>2. N \in Nat /\ M \in Nat /\ Len(code) = N + M + 5
    BY <2>1, Sizes, CalledCode
  <2>3. pc \in 1..(N + M + 5)
    BY <2>2 DEF SwitchInv
  <2>4. /\ \A j \in 1..N : code[j].op = "store"
        /\ code[N + 1].op = "store" /\ code[N + 2].op = "pop" /\ code[N + 3].op = "store"
        /\ \A j \in 1..M : code[N + 3 + j].op = "load"
        /\ code[N + M + 4].op = "load"
    BY <2>1, CalledCode, OpOf
  <2>5. pc \notin (N + 4)..(N + M + 3)
    <3> SUFFICES ASSUME pc \in (N + 4)..(N + M + 3) PROVE FALSE
      OBVIOUS
    <3>1. pc - (N + 3) \in 1..M /\ pc = N + 3 + (pc - (N + 3))
      BY <2>2
    <3> QED BY <2>4, <3>1
  <2>6. \/ pc \in 1..N \/ pc \in (N + 4)..(N + M + 3) \/ pc = N + 1 \/ pc = N + 2
        \/ pc = N + 3 \/ pc = N + M + 4 \/ pc = N + M + 5
    BY <2>2, <2>3
  <2> QED BY <1>2, <2>4, <2>5, <2>6
<1> QED BY <1>1, <1>2

LEMMA TurnTaken ==
  ASSUME SwitchInv, SwitchNext, pc # 0, pc' = 0
  PROVE  running' = Other(running)
<1>1. pc \in Nat
  BY DEF SwitchInv
<1>2. pc + 1 # 0
  BY <1>1
<1>3. code[pc].op \in {"ret", "iret"}
  BY <1>2 DEF SwitchNext, Work, CallSwitch, TimerTick, StoreStep, FillStep, PutStep, EoiStep,
              FlipStep,
              PushStep, StackStep, Return, InterruptReturn, At
<1>4. IF Timed THEN pc = N + M + 22 ELSE pc = N + M + 5
  BY <1>3, LastLeaves
<1>5. CASE Timed
  BY <1>4, <1>5, TimerReturns
<1>6. CASE ~Timed
  BY <1>4, <1>6, CalledReturns
<1> QED BY <1>5, <1>6

\* The invariant above holds throughout every run of the switchers that
\* generate_switcher and generate_preempt_switcher emit, from a machine whose
\* other TCB is filled, for footprints of any length.
THEOREM SwitchInvariant == Machine /\ Fits(layout) /\ SwitchSpec => []SwitchInv
BY InitSwitchInv, SwitchStep, PTL DEF SwitchSpec

LEMMA RestingIsIntact == SwitchInv => Intact
<1> SUFFICES ASSUME SwitchInv, pc = 0 PROVE Intact
  BY DEF Intact
<1>1. Resting /\ running \in Sides
  BY DEF SwitchInv, Typed
<1>2. ASSUME NEW r \in Uses(running) \cup {Rsp, Rip} PROVE regs[r] = own[running][r]
  BY <1>1 DEF Uses, Resting, Out, N
<1> QED BY <1>1, <1>2 DEF Intact, Resting, Timed

LEMMA RestingIsDispatched == SwitchInv => Dispatched
<1> SUFFICES ASSUME SwitchInv PROVE Dispatched
  OBVIOUS
<1>1. SwitchTypeOK
  BY DEF SwitchInv, Typed, SwitchTypeOK
<1>2. pc = 0 /\ layout.kind = "timer" =>
        vector = running /\ cur = Tcb(running) /\ next = Tcb(Other(running))
  BY DEF SwitchInv, Resting, Timed
<1> QED BY <1>1, <1>2 DEF Dispatched

\* A thread that switch_to_right, switch_to_left or a timer routine gives the
\* processor to finds its registers, its stack, its place in the code and, after
\* an interrupt, its flags as it left them.
THEOREM ThreadsIntact == Machine /\ Fits(layout) /\ SwitchSpec => []Intact
BY SwitchInvariant, RestingIsIntact, PTL

\* While a thread runs timer_vector names the routine of its side and cur_tcb and
\* next_tcb its TCB and the other's: the next tick saves to the right place.
THEOREM TicksDispatched == Machine /\ Fits(layout) /\ SwitchSpec => []Dispatched
BY SwitchInvariant, RestingIsDispatched, PTL

\* A switcher entered by one side ends, with its ret or iretq, in the code of the
\* other side.
THEOREM TurnsTaken == Machine /\ Fits(layout) /\ SwitchSpec => TakesTurns
<1>1. SwitchInv /\ [SwitchNext]_switchVars => [pc # 0 /\ pc' = 0 => running' = Other(running)]_switchVars
  BY TurnTaken
<1> QED BY <1>1, SwitchInvariant, PTL DEF SwitchSpec, TakesTurns
=============================================================================
