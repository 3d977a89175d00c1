-------------------------- MODULE LinearScanProofs --------------------------
(***************************************************************************)
(* The allocator of the arm64 back end keeps values apart, and the code    *)
(* emitted over its homes reads what the program means, whatever the       *)
(* function and the registers.                                             *)
(***************************************************************************)
EXTENDS HomedCode, FiniteSetTheorems, WellFoundedInduction, TLAPS

(***************************************************************************)
(* The intervals found so far cover every command where a value was seen,  *)
(* and those live across a call are known.                                 *)
(***************************************************************************)
CoveredUpTo(m) ==
  \A i \in Commands : i < m =>
    /\ \A v \in Here(i) : 1 <= start[v] /\ start[v] <= i /\ i <= end[v]
    /\ Across(i) \subseteq crosses

Ordered == \A v \in Vars : start[v] <= end[v]

IntervalsCover ==
  /\ phase \in {"copies", "uses", "live"} => \A v \in Vars : end[v] = 0
  /\ phase = "intervals" => /\ at >= 1
                            /\ \A v \in Vars : end[v] < at
                            /\ CoveredUpTo(at)
  /\ Given => CoveredUpTo(n + 1)

\* A register is busy until every value it was given to has ended, and no two
\* of those values were alive together.
BusyLongEnough ==
  \A v \in Own : home[v] \in Registers => end[v] <= busy[home[v]]

IntervalsApart ==
  \A v, w \in Own :
    v # w /\ home[v] \in Registers /\ home[v] = home[w]
      => end[v] < start[w] \/ end[w] < start[v]

CrossersSaved ==
  \A v \in Own : v \in crosses /\ home[v] \in Registers => home[v] \in CalleeSaved

Unhomed == home = [v \in Vars |-> NoHome]

IInv ==
  /\ TypeOK
  /\ program \in Programs
  /\ Ordered
  /\ IntervalsCover
  /\ ~Given => Unhomed
  /\ Given => BusyLongEnough /\ IntervalsApart /\ CrossersSaved

-----------------------------------------------------------------------------
LEMMA SpillsAreNotRegisters ==
  /\ NoHome \notin Registers
  /\ \A k : Slot(k) \notin Registers
BY DEF NoHome, Slot, Registers, Gpr, Fpr

LEMMA CalleeSavedAreRegisters == CalleeSaved \subseteq Registers
BY DEF CalleeSaved, Registers

\* What each command reads and writes are values.
LEMMA ElemsAreVars ==
  ASSUME program \in Programs, NEW i \in Commands
  PROVE  /\ Elems(program[i].in) \subseteq Vars
         /\ Elems(program[i].out) \subseteq Vars
         /\ Len(program[i].in) \in Nat
         /\ n \in Nat
<1>1. program \in Seq(Command)  BY ProgramAssumption
<1>2. program[i] \in Command  BY <1>1 DEF Commands, n
<1>3. program[i].in \in Seq(Vars) /\ program[i].out \in Seq(Vars)  BY <1>2 DEF Command
<1>4. \A s \in Seq(Vars) : Elems(s) \subseteq Vars  BY DEF Elems
<1>5. QED  BY <1>1, <1>3, <1>4 DEF n

LEMMA CanonIsVar ==
  ASSUME TypeOK, NEW v \in Vars
  PROVE  Canon(v) \in Vars
<1>1. Copied \subseteq Vars  BY DEF TypeOK, Copied
<1>2. Reach(v) \subseteq Vars  BY <1>1 DEF Reach
<1>3. QED  BY <1>2 DEF Canon

\* Copies go from a value to a value.
LEMMA CoalescedTyped ==
  ASSUME program \in Programs
  PROVE  /\ DOMAIN Coalesced \subseteq Vars
         /\ \A v \in DOMAIN Coalesced : Coalesced[v] \in Vars
<1>1. ASSUME NEW k \in Copies
      PROVE  program[k].in[1] \in Vars /\ program[k].out[1] \in Vars
  <2>1. k \in Commands /\ program[k].op = "set" /\ program[k].in # <<>>
    BY DEF Copies, Elidable
  <2>2. program \in Seq(Command) /\ Len(program[k].out) = 1
    BY <2>1, ProgramAssumption DEF Commands, n
  <2>3. program[k] \in Command  BY <2>1, <2>2 DEF Commands, n
  <2>4. program[k].in \in Seq(Vars) /\ program[k].out \in Seq(Vars)  BY <2>3 DEF Command
  <2>5. Len(program[k].in) >= 1  BY <2>1, <2>4
  <2>6. QED  BY <2>2, <2>4, <2>5
<1>2. DOMAIN Coalesced = { program[k].in[1] : k \in Copies }  BY DEF Coalesced
<1>3. ASSUME NEW v \in DOMAIN Coalesced
      PROVE  Coalesced[v] \in Vars
  <2>1. PICK k \in Copies : program[k].in[1] = v  BY <1>2
  <2>2. TargetOf(v) \in Vars
    <3> DEFINE c == CHOOSE c \in Copies : program[c].in[1] = v
    <3>1. c \in Copies  BY <2>1
    <3>2. QED  BY <3>1, <1>1 DEF TargetOf
  <2>3. QED  BY <2>2, <1>2 DEF Coalesced
<1>4. QED  BY <1>1, <1>2, <1>3

\* A register picked is one of the pools, idle, and callee-saved when it must be.
LEMMA ChosenRegister ==
  ASSUME NEW v \in Vars, NEW x \in Choices(v)
  PROVE  /\ x \in Registers
         /\ busy[x] < start[v]
         /\ v \in crosses => x \in CalleeSaved
<1>1. x \in PoolsOf(v).caller \cup PoolsOf(v).callee /\ Idle(x, start[v])
  BY DEF Choices, Picked
<1>2. PoolsOf(v).callee \subseteq CalleeSaved
  BY DEF PoolsOf, CalleeSaved
<1>3. PoolsOf(v).caller \subseteq Registers
  BY DEF PoolsOf, Registers, IntCaller
<1>4. v \in crosses => PoolsOf(v).caller = {}
  BY DEF PoolsOf
<1>5. QED  BY <1>1, <1>2, <1>3, <1>4, CalleeSavedAreRegisters DEF Idle

-----------------------------------------------------------------------------
LEMMA InitIInv == Init => IInv
<1> SUFFICES ASSUME Init PROVE IInv  OBVIOUS
<1>1. program \in Programs /\ program \in Seq(Command) /\ n \in Nat
  BY ProgramAssumption DEF Init, n
<1>2. TypeOK
  BY <1>1 DEF Init, TypeOK, Commands, Homes
<1>3. Ordered  BY DEF Init, Ordered
<1>4. QED  BY <1>1, <1>2, <1>3 DEF IInv, Init, Given, IntervalsCover, Unhomed

-----------------------------------------------------------------------------
\* While no home is given only the analysis moves.
LEMMA AnalysisStep ==
  ASSUME IInv, Prepare \/ Collect \/ Visit \/ Again \/ Settled
  PROVE  IInv'
<1> USE DEF IInv
<1>1. ~Given /\ Unhomed
  BY DEF Prepare, Collect, Visit, Again, Settled, Given
<1>2. /\ program' = program /\ start' = start /\ end' = end /\ crosses' = crosses
      /\ home' = home /\ gaddr' = gaddr /\ busy' = busy /\ used' = used /\ spill' = spill
      /\ off' = off
  BY DEF Prepare, Collect, Visit, Again, Settled, ranges, pools, homes
<1>3. n \in Nat
  BY DEF TypeOK, n
<1>4. TypeOK'
  <2>1. coalesce' = coalesce \/ coalesce' = Coalesced
    BY DEF Prepare, Collect, Visit, Again, Settled, copies
  <2>2. DOMAIN coalesce' \subseteq Vars /\ \A v \in DOMAIN coalesce' : coalesce'[v] \in Vars
    BY <2>1, CoalescedTyped DEF TypeOK
  <2>3. fuse' \subseteq Commands
    BY DEF Prepare, Collect, Visit, Again, Settled, copies, TypeOK, Fused
  <2>4. uses' \in [Commands -> SUBSET Vars] /\ defs' \in [Commands -> SUBSET Vars]
    <3>1. CASE Collect
      <4>1. \A i \in Commands :
              /\ InRegisters(Elems(program[i].in)) \subseteq Vars
              /\ InRegisters(Elems(program[i].out)) \subseteq Vars
        BY ElemsAreVars DEF InRegisters
      <4>2. \A v \in Vars : Canon(v) \in Vars  BY CanonIsVar
      <4>3. QED  BY <3>1, <4>1, <4>2 DEF Collect
    <3>2. CASE ~Collect
      BY <3>2 DEF Prepare, Visit, Again, Settled, refs, TypeOK
    <3>3. QED  BY <3>1, <3>2
  <2>5. livein' \in [Commands -> SUBSET Vars] /\ liveout' \in [Commands -> SUBSET Vars]
    <3>1. CASE Visit
      <4>1. \A i \in Commands : OutOf(i) \subseteq Vars
        BY DEF OutOf, Succ, TypeOK
      <4>2. \A i \in Commands : InOf(i) \subseteq Vars
        BY <4>1 DEF InOf, TypeOK
      <4>3. QED  BY <3>1, <4>1, <4>2 DEF Visit, TypeOK
    <3>2. CASE ~Visit
      BY <3>2 DEF Prepare, Collect, Again, Settled, lives, TypeOK
    <3>3. QED  BY <3>1, <3>2
  <2>6. changed' \in BOOLEAN
    <3>1. CASE Visit
      BY <3>1 DEF Visit
    <3>2. CASE ~Visit
      BY <3>2 DEF Prepare, Collect, Again, Settled, lives, TypeOK
    <3>3. QED  BY <3>1, <3>2
  <2>7. at' \in 0..(n + 1)
    BY <1>3 DEF Prepare, Collect, Visit, Again, Settled, TypeOK
  <2>8. phase' \in {"copies", "uses", "live", "intervals", "scan", "slots", "run"}
    BY DEF Prepare, Collect, Visit, Again, Settled, TypeOK
  <2>9. QED
    BY <1>2, <2>2, <2>3, <2>4, <2>5, <2>6, <2>7, <2>8
    DEF TypeOK, Commands, n, Registers, CalleeSaved, Homes
<1>5. Ordered'  BY <1>2 DEF Ordered
<1>6. ~Given'
  BY DEF Prepare, Collect, Visit, Again, Settled, Given
<1>7. Unhomed'  BY <1>1, <1>2 DEF Unhomed
<1>8. IntervalsCover'
  <2>1. CASE Settled
    <3>1. at' = 1 /\ phase' = "intervals"  BY <2>1 DEF Settled
    <3>2. \A v \in Vars : end'[v] = 0
      BY <2>1, <1>2 DEF Settled, IntervalsCover
    <3>3. QED  BY <1>6, <3>1, <3>2 DEF IntervalsCover, CoveredUpTo, Commands
  <2>2. CASE ~Settled
    BY <2>2, <1>2, <1>6 DEF Prepare, Collect, Visit, Again, IntervalsCover
  <2>3. QED  BY <2>1, <2>2
<1>9. QED  BY <1>2, <1>4, <1>5, <1>6, <1>7, <1>8

\* One more command is taken into the intervals.
LEMMA ExtendStep ==
  ASSUME IInv, Extend
  PROVE  IInv'
<1> USE DEF IInv
<1>1. n \in Nat /\ at \in 1..n /\ at \in Commands
  BY DEF Extend, TypeOK, n, Commands, IntervalsCover
<1>2. ~Given /\ ~Given' /\ Unhomed' /\ program' = program
  BY DEF Extend, Given, Unhomed, homes
<1>3. Here(at) \subseteq Vars /\ Across(at) \subseteq Vars
  BY <1>1 DEF Here, Across, TypeOK
<1>4. /\ start' \in [Vars -> Nat] /\ end' \in [Vars -> Nat] /\ crosses' \subseteq Vars
      /\ at' \in 0..(n + 1)
  BY <1>1, <1>3 DEF Extend, TypeOK
<1>5. TypeOK'
  BY <1>2, <1>4 DEF Extend, TypeOK, copies, refs, lives, pools, homes, Commands, n,
    Registers, CalleeSaved, Homes
<1>6. \A v \in Vars : end[v] < at /\ start[v] <= end[v] /\ start[v] \in Nat /\ end[v] \in Nat
  BY DEF Extend, IntervalsCover, Ordered, TypeOK
<1>7. \A v \in Vars :
        /\ start'[v] = IF v \in Here(at) /\ start[v] = 0 THEN at ELSE start[v]
        /\ end'[v] = IF v \in Here(at) THEN at ELSE end[v]
  BY DEF Extend
<1>8. Ordered'
  BY <1>1, <1>6, <1>7 DEF Ordered
<1>9. IntervalsCover'
  <2>1. at' = at + 1 /\ phase' = "intervals" /\ crosses' = crosses \cup Across(at)
    BY DEF Extend
  <2>2. \A v \in Vars : end'[v] < at'
    BY <1>1, <1>6, <1>7, <2>1
  <2>3. CoveredUpTo(at)
    BY DEF Extend, IntervalsCover
  <2>4. \A i \in Commands : Here(i)' = Here(i) /\ Across(i)' = Across(i)
    BY <1>2 DEF Extend, Here, Across, refs, lives
  <2>5. ASSUME NEW i \in Commands, i < at + 1
        PROVE  /\ \A v \in Here(i) : 1 <= start'[v] /\ start'[v] <= i /\ i <= end'[v]
               /\ Across(i) \subseteq crosses'
    <3>1. i \in Nat  BY <1>1 DEF Commands
    <3>2. Here(i) \subseteq Vars  BY DEF Here, TypeOK
    <3>3. CASE i = at
      BY <3>3, <3>2, <1>1, <1>6, <1>7, <2>1
    <3>4. CASE i < at
      <4>1. /\ \A v \in Here(i) : 1 <= start[v] /\ start[v] <= i /\ i <= end[v]
            /\ Across(i) \subseteq crosses
        BY <2>3, <3>4 DEF CoveredUpTo
      <4>2. QED  BY <4>1, <3>1, <3>2, <3>4, <1>1, <1>6, <1>7, <2>1
    <3>5. QED  BY <2>5, <3>1, <3>3, <3>4, <1>1
  <2>6. QED
    BY <1>1, <1>2, <2>1, <2>2, <2>4, <2>5 DEF IntervalsCover, CoveredUpTo, Commands, n
<1>10. QED  BY <1>2, <1>5, <1>8, <1>9

-----------------------------------------------------------------------------
\* What the later steps leave alone keeps the intervals and the types.
LEMMA AnalysisKept ==
  ASSUME IInv, UNCHANGED <<program, copies, refs, lives, ranges, at>>,
         phase = "intervals" => at > n,
         phase \notin {"copies", "uses", "live"},
         phase' \in {"scan", "slots", "run"},
         gaddr' = gaddr \/ (DOMAIN gaddr' \subseteq Statics
                              /\ \A v \in DOMAIN gaddr' : gaddr'[v] \in IntCallee),
         busy' \in [Registers -> Nat],
         used' \subseteq CalleeSaved, spill' \subseteq Vars,
         home' \in [Vars -> Homes], off' \in Nat
  PROVE  /\ TypeOK' /\ program' \in Programs /\ Ordered' /\ IntervalsCover'
         /\ Given' /\ Own' = Own /\ CoveredUpTo(n + 1)
<1> USE DEF IInv
<1>1. n \in Nat  BY DEF TypeOK, n
<1>2. TypeOK'
  BY DEF TypeOK, copies, refs, lives, ranges, Commands, n, Registers, CalleeSaved, Homes
<1>3. Ordered'  BY DEF Ordered, ranges
<1>4. Given'  BY DEF Given
<1>5. CoveredUpTo(n + 1)
  <2>1. CASE phase = "intervals"
    <3>1. CoveredUpTo(at) /\ at > n /\ at \in 0..(n + 1)
      BY <2>1 DEF IntervalsCover, TypeOK
    <3>2. at = n + 1  BY <1>1, <3>1
    <3>3. QED  BY <3>1, <3>2
  <2>2. CASE phase # "intervals"
    BY <2>2 DEF IntervalsCover, TypeOK, Given
  <2>3. QED  BY <2>1, <2>2
<1>6. CoveredUpTo(n + 1)'
  BY <1>5 DEF CoveredUpTo, Commands, n, Here, Across, refs, lives, ranges
<1>7. IntervalsCover'
  BY <1>6, <1>4 DEF IntervalsCover
<1>8. Own' = Own  BY DEF Own, copies
<1>9. program' \in Programs  OBVIOUS
<1>10. QED  BY <1>2, <1>3, <1>4, <1>5, <1>7, <1>8, <1>9

\* Registers that cache an address leave the pools; no value has a home yet.
LEMMA CacheStep ==
  ASSUME IInv, CacheAddresses
  PROVE  IInv'
<1> USE DEF IInv
<1>1. ~Given /\ Unhomed /\ home' = home /\ phase' = "scan"
  BY DEF CacheAddresses, Given, homes
<1>2. PICK S \in SUBSET Cacheable, R \in SUBSET IntCallee :
        /\ \E f \in [S -> R] : gaddr' = f
        /\ busy' = [x \in Registers |->
                      IF x \in { Gpr(r) : r \in R } THEN n + 1 ELSE busy[x]]
        /\ used' = used \cup { Gpr(r) : r \in R }
  BY DEF CacheAddresses
<1>3. DOMAIN gaddr' \subseteq Statics /\ \A v \in DOMAIN gaddr' : gaddr'[v] \in IntCallee
  BY <1>2 DEF Cacheable
<1>4. n \in Nat  BY DEF TypeOK, n
<1>5. busy' \in [Registers -> Nat]
  BY <1>2, <1>4 DEF TypeOK
<1>6. used' \subseteq CalleeSaved
  BY <1>2 DEF TypeOK, CalleeSaved
<1>7. home' \in [Vars -> Homes] /\ spill' \subseteq Vars /\ off' \in Nat
  BY <1>1 DEF CacheAddresses, homes, TypeOK
<1>8. /\ TypeOK' /\ program' \in Programs /\ Ordered' /\ IntervalsCover'
      /\ Given' /\ Own' = Own
  BY <1>3, <1>5, <1>6, <1>7, AnalysisKept DEF CacheAddresses
<1>9. \A v \in Vars : home'[v] \notin Registers'
  BY <1>1, SpillsAreNotRegisters DEF Unhomed, Registers
<1>10. BusyLongEnough' /\ IntervalsApart' /\ CrossersSaved'
  BY <1>9 DEF BusyLongEnough, IntervalsApart, CrossersSaved, Own
<1>11. QED  BY <1>8, <1>10

\* A value is given an idle register, or none.
LEMMA AllocateStep ==
  ASSUME IInv, Allocate
  PROVE  IInv'
<1> USE DEF IInv
<1>1. Given /\ BusyLongEnough /\ IntervalsApart /\ CrossersSaved
  BY DEF Allocate, Given
<1>2. PICK v \in Scanned :
        /\ home[v] = NoHome
        /\ \/ \E x \in Choices(v) : Give(v, x) /\ spill' = spill
           \/ spill' = spill \cup {v} /\ home' = home /\ busy' = busy /\ used' = used
  BY DEF Allocate, Turn, Waiting
<1>3. v \in Vars
  <2>1. Mentioned \subseteq Vars  BY ElemsAreVars DEF Mentioned
  <2>2. QED  BY <2>1, CanonIsVar DEF Scanned, Representatives
<1>4. /\ UNCHANGED <<program, copies, refs, lives, ranges, at>>
      /\ phase = "scan" /\ phase' = "scan" /\ gaddr' = gaddr /\ off' = off
  BY DEF Allocate
<1>5. CASE spill' = spill \cup {v} /\ home' = home /\ busy' = busy /\ used' = used
  <2>1. /\ TypeOK' /\ program' \in Programs /\ Ordered' /\ IntervalsCover'
        /\ Given' /\ Own' = Own
    <3>1. spill' \subseteq Vars  BY <1>3, <1>5 DEF TypeOK
    <3>2. busy' \in [Registers -> Nat] /\ used' \subseteq CalleeSaved /\ home' \in [Vars -> Homes]
          /\ off' \in Nat
      BY <1>4, <1>5 DEF TypeOK
    <3>3. QED  BY <1>4, <3>1, <3>2, AnalysisKept
  <2>2. BusyLongEnough' /\ IntervalsApart' /\ CrossersSaved'
    BY <1>1, <1>4, <1>5, <2>1
    DEF BusyLongEnough, IntervalsApart, CrossersSaved, ranges, Registers, CalleeSaved
  <2>3. QED  BY <2>1, <2>2
<1>6. ASSUME NEW x \in Choices(v), Give(v, x), spill' = spill
      PROVE  IInv'
  <2>1. x \in Registers /\ busy[x] < start[v] /\ (v \in crosses => x \in CalleeSaved)
    BY <1>3, ChosenRegister
  <2>2. /\ home' = [home EXCEPT ![v] = x]
        /\ busy' = [busy EXCEPT ![x] = end[v]]
        /\ used' = used \cup ({x} \cap CalleeSaved)
    BY <1>6 DEF Give
  <2>3. /\ TypeOK' /\ program' \in Programs /\ Ordered' /\ IntervalsCover'
        /\ Given' /\ Own' = Own
    <3>1. busy' \in [Registers -> Nat]  BY <1>3, <2>1, <2>2 DEF TypeOK
    <3>2. home' \in [Vars -> Homes]  BY <1>3, <2>1, <2>2 DEF TypeOK, Homes
    <3>3. used' \subseteq CalleeSaved /\ spill' \subseteq Vars /\ off' \in Nat
      BY <1>4, <1>6, <2>2 DEF TypeOK
    <3>4. QED  BY <1>4, <3>1, <3>2, <3>3, AnalysisKept
  <2>4. \A u \in Vars : /\ start[u] \in Nat /\ end[u] \in Nat /\ start[u] <= end[u]
                        /\ start'[u] = start[u] /\ end'[u] = end[u]
    BY <1>4 DEF TypeOK, Ordered, ranges
  <2>5. \A u \in Vars : home'[u] = IF u = v THEN x ELSE home[u]
    BY <1>3, <2>2 DEF TypeOK
  <2>6. \A y \in Registers : busy'[y] = (IF y = x THEN end[v] ELSE busy[y]) /\ busy[y] \in Nat
    BY <2>1, <2>2 DEF TypeOK
  <2>7. Registers' = Registers /\ CalleeSaved' = CalleeSaved /\ crosses' = crosses
    BY <1>4 DEF Registers, CalleeSaved, ranges
  <2>8. Own \subseteq Vars  BY DEF Own
  <2>9. ASSUME NEW u \in Own, u # v, home[u] = x
        PROVE  end[u] < start[v]
    BY <1>1, <2>1, <2>4, <2>6, <2>8, <2>9, <1>3 DEF BusyLongEnough
  <2>10. BusyLongEnough'
    <3> SUFFICES ASSUME NEW u \in Own, home'[u] \in Registers
                 PROVE  end[u] <= busy'[home'[u]]
      BY <2>3, <2>4, <2>7, <2>8 DEF BusyLongEnough
    <3>1. CASE u = v  BY <3>1, <2>4, <2>5, <2>6, <2>1, <2>8
    <3>2. CASE u # v /\ home[u] = x
      BY <3>2, <2>9, <2>4, <2>5, <2>6, <2>1, <2>8, <1>3
    <3>3. CASE u # v /\ home[u] # x
      BY <3>3, <2>5, <2>6, <2>8, <1>1 DEF BusyLongEnough
    <3>4. QED  BY <3>1, <3>2, <3>3
  <2>11. IntervalsApart'
    <3> SUFFICES ASSUME NEW u \in Own, NEW w \in Own, u # w,
                        home'[u] \in Registers, home'[u] = home'[w]
                 PROVE  end[u] < start[w] \/ end[w] < start[u]
      BY <2>3, <2>4, <2>7, <2>8 DEF IntervalsApart
    <3>1. CASE u = v  BY <3>1, <2>5, <2>8, <2>9
    <3>2. CASE w = v  BY <3>2, <2>5, <2>8, <2>9
    <3>3. CASE u # v /\ w # v
      BY <3>3, <2>5, <2>8, <1>1 DEF IntervalsApart
    <3>4. QED  BY <3>1, <3>2, <3>3
  <2>12. CrossersSaved'
    BY <1>1, <2>1, <2>3, <2>5, <2>7, <2>8 DEF CrossersSaved
  <2>13. QED  BY <2>3, <2>10, <2>11, <2>12
<1>7. QED  BY <1>2, <1>5, <1>6

\* Laying out the frame gives no register.
LEMMA FrameStep ==
  ASSUME IInv, SaveRegisters \/ GiveSlot \/ Share
  PROVE  IInv'
<1> USE DEF IInv
<1>1. Given /\ BusyLongEnough /\ IntervalsApart /\ CrossersSaved
  BY DEF SaveRegisters, GiveSlot, Share, Given
<1>2. /\ UNCHANGED <<program, copies, refs, lives, ranges, at>>
      /\ phase \in {"scan", "slots"} /\ phase' \in {"slots", "run"}
      /\ gaddr' = gaddr /\ busy' = busy /\ used' = used /\ spill' = spill
  BY DEF SaveRegisters, GiveSlot, Share, pools, homes
<1>3. Mentioned \subseteq Vars  BY ElemsAreVars DEF Mentioned
<1>4. off' \in Nat
  <2>1. CASE SaveRegisters
    <3>1. IsFiniteSet(used)  BY CalleeAssumption, FS_Subset DEF TypeOK
    <3>2. Cardinality(used) \in Nat  BY <3>1, FS_CardinalityType
    <3>3. QED  BY <2>1, <3>2 DEF SaveRegisters, TypeOK
  <2>2. CASE GiveSlot
    <3>1. PICK v \in Slotless : off' = off + Words(v)  BY <2>2 DEF GiveSlot
    <3>2. v \in Vars  BY <1>3, CanonIsVar DEF Slotless, Representatives
    <3>3. Words(v) \in Nat  BY <3>2, ValueAssumption DEF Words
    <3>4. QED  BY <3>1, <3>3 DEF TypeOK
  <2>3. CASE Share  BY <2>3 DEF Share, TypeOK
  <2>4. QED  BY <2>1, <2>2, <2>3
<1>5. home' \in [Vars -> Homes]
  <2>1. CASE SaveRegisters  BY <2>1 DEF SaveRegisters, homes, TypeOK
  <2>2. CASE GiveSlot
    <3>1. off \in Nat /\ home \in [Vars -> Homes]  BY DEF TypeOK
    <3>2. Slot(off) \in Homes  BY <3>1 DEF Homes, Slot
    <3>3. QED  BY <2>2, <3>1, <3>2 DEF GiveSlot
  <2>3. CASE Share
    <3>1. \A v \in DOMAIN coalesce : v \in Vars /\ Canon(v) \in Vars
      BY CanonIsVar DEF TypeOK
    <3>2. QED  BY <2>3, <3>1 DEF Share, TypeOK
  <2>4. QED  BY <2>1, <2>2, <2>3
<1>6. /\ TypeOK' /\ program' \in Programs /\ Ordered' /\ IntervalsCover'
      /\ Given' /\ Own' = Own
  <2>1. busy' \in [Registers -> Nat] /\ used' \subseteq CalleeSaved /\ spill' \subseteq Vars
    BY <1>2 DEF TypeOK
  <2>2. QED  BY <1>2, <1>4, <1>5, <2>1, AnalysisKept
<1>7. \A v \in Own : home'[v] \in Registers => home'[v] = home[v]
  <2>1. CASE SaveRegisters  BY <2>1 DEF SaveRegisters, homes
  <2>2. CASE GiveSlot
    BY <2>2, SpillsAreNotRegisters DEF GiveSlot, TypeOK, Own
  <2>3. CASE Share  BY <2>3 DEF Share, Own
  <2>4. QED  BY <2>1, <2>2, <2>3
<1>8. /\ Registers' = Registers /\ CalleeSaved' = CalleeSaved
      /\ start' = start /\ end' = end /\ crosses' = crosses
  BY <1>2 DEF Registers, CalleeSaved, ranges
<1>9. BusyLongEnough'  BY <1>1, <1>2, <1>6, <1>7, <1>8 DEF BusyLongEnough
<1>10. IntervalsApart'  BY <1>1, <1>6, <1>7, <1>8 DEF IntervalsApart
<1>11. CrossersSaved'  BY <1>1, <1>6, <1>7, <1>8 DEF CrossersSaved
<1>12. QED  BY <1>6, <1>9, <1>10, <1>11

-----------------------------------------------------------------------------
LEMMA StepIInv ==
  ASSUME IInv, [AllocNext]_allocVars
  PROVE  IInv'
<1>1. CASE Prepare \/ Collect \/ Visit \/ Again \/ Settled  BY <1>1, AnalysisStep
<1>2. CASE Extend  BY <1>2, ExtendStep
<1>3. CASE CacheAddresses  BY <1>3, CacheStep
<1>4. CASE Allocate  BY <1>4, AllocateStep
<1>5. CASE SaveRegisters \/ GiveSlot \/ Share  BY <1>5, FrameStep
<1>6. CASE UNCHANGED allocVars
  BY <1>6 DEF allocVars, copies, refs, lives, ranges, pools, homes, IInv, TypeOK, Ordered,
    IntervalsCover, CoveredUpTo, Given, Unhomed, BusyLongEnough, IntervalsApart, CrossersSaved,
    Own, Here, Across, Commands, n, Registers, CalleeSaved, Homes
<1>7. QED  BY <1>1, <1>2, <1>3, <1>4, <1>5, <1>6 DEF AllocNext

\* Values alive together have intervals that meet.
LEMMA TogetherMeets ==
  ASSUME IInv, Given, NEW v \in Vars, NEW w \in Vars, Together(v, w)
  PROVE  start[v] <= end[w] /\ start[w] <= end[v]
<1>1. n \in Nat /\ CoveredUpTo(n + 1)  BY DEF IInv, IntervalsCover, TypeOK, n
<1>2. PICK i \in Commands : v \in Here(i) /\ w \in Here(i)  BY DEF Together, Here
<1>3. /\ start[v] <= i /\ i <= end[v] /\ start[w] <= i /\ i <= end[w]
  BY <1>1, <1>2 DEF CoveredUpTo, Commands
<1>4. i \in Nat /\ start[v] \in Nat /\ end[v] \in Nat /\ start[w] \in Nat /\ end[w] \in Nat
  BY <1>1 DEF IInv, TypeOK, Commands
<1>5. QED  BY <1>3, <1>4

LEMMA InvariantsFollow == IInv => TypeOK /\ HomesApart /\ CallsKeepHomes
<1> SUFFICES ASSUME IInv PROVE TypeOK /\ HomesApart /\ CallsKeepHomes  OBVIOUS
<1>1. TypeOK  BY DEF IInv
<1>2. HomesApart
  <2> SUFFICES ASSUME Given, NEW v \in Own, NEW w \in Own, v # w, Together(v, w),
                      home[v] \in Registers, home[v] = home[w]
               PROVE  FALSE
    BY DEF HomesApart
  <2>1. v \in Vars /\ w \in Vars  BY DEF Own
  <2>2. end[v] < start[w] \/ end[w] < start[v]  BY DEF IInv, IntervalsApart
  <2>3. start[v] <= end[w] /\ start[w] <= end[v]  BY <2>1, TogetherMeets
  <2>4. start[v] \in Nat /\ end[v] \in Nat /\ start[w] \in Nat /\ end[w] \in Nat
    BY <2>1, <1>1 DEF TypeOK
  <2>5. QED  BY <2>2, <2>3, <2>4
<1>3. CallsKeepHomes
  <2> SUFFICES ASSUME Given, NEW i \in Commands, program[i].op = "call",
                      NEW v \in (livein[i] \cap liveout[i]) \cap Own, home[v] \in Registers
               PROVE  home[v] \in CalleeSaved
    BY DEF CallsKeepHomes
  <2>1. n \in Nat /\ CoveredUpTo(n + 1)  BY DEF IInv, IntervalsCover, TypeOK, n
  <2>2. v \in crosses  BY <2>1 DEF CoveredUpTo, Commands, Across
  <2>3. QED  BY <2>2 DEF IInv, CrossersSaved
<1>4. QED  BY <1>1, <1>2, <1>3

(***************************************************************************)
(* Allocation, for every function, pool and order of ties: the variables   *)
(* keep their types, values alive together never share a register, and a   *)
(* value live across a call is never in a register the call may change.    *)
(***************************************************************************)
THEOREM AllocationSafe == Spec => [](TypeOK /\ HomesApart /\ CallsKeepHomes)
<1>1. Init => IInv  BY InitIInv
<1>2. IInv /\ [AllocNext]_allocVars => IInv'  BY StepIInv
<1>3. IInv => TypeOK /\ HomesApart /\ CallsKeepHomes  BY InvariantsFollow
<1>4. QED  BY <1>1, <1>2, <1>3, PTL DEF Spec

(***************************************************************************)
(* A call changes no value that is live across it and has a home of its    *)
(* own: such a value is in memory or in a register the callee must keep.   *)
(***************************************************************************)
THEOREM CallsKeepRegisters == Spec => []CallsKeepHomes
<1>1. TypeOK /\ HomesApart /\ CallsKeepHomes => CallsKeepHomes  OBVIOUS
<1>2. QED  BY <1>1, AllocationSafe, PTL

(***************************************************************************)
(* Compiling and then running a function is compiling it, as far as the    *)
(* allocator goes: what it promises holds while the code runs.             *)
(***************************************************************************)
THEOREM RunningKeepsAllocation == RunSpec => Spec
<1>1. RunInit => Init  BY DEF RunInit
<1>2. [Next]_vars => [AllocNext]_allocVars
  BY DEF Next, vars, Enter, Execute, ExecuteFused, Compute, Elide, Leave, Finished
<1>3. QED  BY <1>1, <1>2, PTL DEF RunSpec, Spec

-----------------------------------------------------------------------------
(***************************************************************************)
(* What the analysis found, in terms of the program.                       *)
(***************************************************************************)

\* u is defined by command d alone, and read by its copy k alone.
Window(u, d, k) ==
  /\ program[k].op = "set" /\ program[k].in = <<u>> /\ program[k].out = <<coalesce[u]>>
  /\ \A i \in Commands : u \in Elems(program[i].in) <=> i = k
  /\ \A i \in Commands : u \in Elems(program[i].out) <=> i = d
  /\ CoalesceSafe(d, k, coalesce[u])

CopiesKnown ==
  \A u \in DOMAIN coalesce :
    /\ \E d, k \in Commands : Window(u, d, k)
    /\ {u, coalesce[u]} \cap (Forced \cup Statics) = {}

FusedKnown ==
  \A i \in fuse :
    /\ program[i].op = "compare" /\ i + 1 \in Commands /\ program[i + 1].op = "branch"
    /\ \A j \in Commands : program[i].out[1] \in Elems(program[j].in) => j = i + 1

\* What shares its home with v, where no copies are chained.
Target(v) == IF v \in DOMAIN coalesce THEN coalesce[v] ELSE v

Referenced ==
  \A i \in Commands :
    /\ uses[i] = { Target(v) : v \in InRegisters(Elems(program[i].in)) }
    /\ defs[i] = { Target(v) : v \in InRegisters(Elems(program[i].out)) }

\* The equations of liveness hold of the commands after m.
Fixpoint(m) ==
  \A i \in Commands : i > m => livein[i] = InOf(i) /\ liveout[i] = OutOf(i)

Analysed ==
  /\ CopiesKnown /\ FusedKnown
  /\ phase \notin {"copies", "uses"} /\ NoChains => Referenced
  /\ phase \in {"copies", "uses"} => changed
  /\ phase = "live" /\ ~changed => Fixpoint(at)
  /\ phase = "intervals" \/ Given => Fixpoint(0)

-----------------------------------------------------------------------------
LEMMA UsesFinite ==
  ASSUME program \in Programs, NEW v
  PROVE  IsFiniteSet(Uses(v)) /\ IsFiniteSet(Definitions(v))
<1> DEFINE K(i) == { k \in 1..Len(program[i].in) : program[i].in[k] = v }
           U(i) == {i} \X K(i)
           A == { U(i) : i \in Commands }
<1>1. n \in Nat /\ IsFiniteSet(Commands)
  <2>1. program \in Seq(Command)  BY ProgramAssumption
  <2>2. n \in Nat  BY <2>1 DEF n
  <2>3. QED  BY <2>2, FS_Interval DEF Commands
<1>2. ASSUME NEW i \in Commands PROVE IsFiniteSet(U(i))
  <2>1. Len(program[i].in) \in Nat  BY ElemsAreVars
  <2>2. IsFiniteSet(1..Len(program[i].in))  BY <2>1, FS_Interval
  <2>3. K(i) \in SUBSET (1..Len(program[i].in))  OBVIOUS
  <2>4. IsFiniteSet(K(i))
    <3> HIDE DEF K
    <3> QED BY <2>2, <2>3, FS_Subset
  <2>5. IsFiniteSet({i})  BY FS_Singleton
  <2>6. QED
    <3> HIDE DEF K
    <3> QED BY <2>4, <2>5, FS_Product
<1>3. IsFiniteSet(A)
  <2> DEFINE f == [i \in Commands |-> U(i)]
  <2>1. f \in Surjection(Commands, A)
    <3> HIDE DEF U
    <3> QED BY DEF Surjection
  <2>2. QED
    <3> HIDE DEF A, f
    <3> QED BY <1>1, <2>1, FS_Surjection
<1>4. IsFiniteSet(UNION A)
  <2>1. \A T \in A : IsFiniteSet(T)  BY <1>2
  <2>2. QED
    <3> HIDE DEF A
    <3> QED BY <1>3, <2>1, FS_UNION
<1>5. Uses(v) = UNION A  BY DEF Uses
<1>6. IsFiniteSet(Definitions(v))
  <2>1. Definitions(v) \in SUBSET Commands  BY DEF Definitions
  <2>2. QED  BY <1>1, <2>1, FS_Subset
<1>7. QED  BY <1>4, <1>5, <1>6

\* The copies elided, in terms of the program.
LEMMA CopyWindow ==
  ASSUME program \in Programs, NEW k \in Copies
  PROVE  /\ k \in Commands /\ program[k].op = "set"
         /\ program[k].in = <<program[k].in[1]>> /\ program[k].out = <<program[k].out[1]>>
         /\ \A i \in Commands : program[k].in[1] \in Elems(program[i].in) <=> i = k
         /\ \E d \in Commands :
              /\ \A i \in Commands : program[k].in[1] \in Elems(program[i].out) <=> i = d
              /\ CoalesceSafe(d, k, program[k].out[1])
         /\ {program[k].in[1], program[k].out[1]} \cap (Forced \cup Statics) = {}
<1> DEFINE u == program[k].in[1]
<1>1. /\ k \in Commands /\ program[k].op = "set" /\ program[k].in # <<>>
      /\ Cardinality(Uses(u)) = 1 /\ Cardinality(Definitions(u)) = 1
      /\ {program[k].in[1], program[k].out[1]} \cap (Forced \cup Statics) = {}
      /\ \A d \in Definitions(u) : CoalesceSafe(d, k, program[k].out[1])
  BY DEF Copies, Elidable
<1>2. /\ program \in Seq(Command) /\ Len(program[k].out) = 1 /\ Len(program[k].in) <= 1
  BY <1>1, ProgramAssumption DEF Commands, n
<1>3. program[k] \in Command  BY <1>1, <1>2 DEF Commands, n
<1>4. program[k].in \in Seq(Vars) /\ program[k].out \in Seq(Vars)  BY <1>3 DEF Command
<1>5. Len(program[k].in) = 1  BY <1>1, <1>2, <1>4
<1>6. program[k].in = <<u>> /\ program[k].out = <<program[k].out[1]>>
  BY <1>2, <1>4, <1>5
<1>7. \A i \in Commands : u \in Elems(program[i].in) => <<i, CHOOSE q \in 1..Len(program[i].in) : program[i].in[q] = u>> \in Uses(u)
  <2> SUFFICES ASSUME NEW i \in Commands, u \in Elems(program[i].in)
               PROVE  <<i, CHOOSE q \in 1..Len(program[i].in) : program[i].in[q] = u>> \in Uses(u)
    OBVIOUS
  <2> DEFINE K == { q \in 1..Len(program[i].in) : program[i].in[q] = u }
             c == CHOOSE q \in 1..Len(program[i].in) : program[i].in[q] = u
  <2>1. c \in K
    BY DEF Elems
  <2> HIDE DEF c, K
  <2>2. <<i, c>> \in {i} \X K
    BY <2>1
  <2> QED BY <2>2 DEF Uses, c, K
<1>8. <<k, 1>> \in Uses(u)  BY <1>1, <1>5 DEF Uses
<1>9. PICK z : Uses(u) = {z}  BY <1>1, UsesFinite, FS_Singleton
<1>10. \A i \in Commands : u \in Elems(program[i].in) <=> i = k
  <2>1. \A i \in Commands : u \in Elems(program[i].in) => i = k
    <3> SUFFICES ASSUME NEW i \in Commands, u \in Elems(program[i].in) PROVE i = k
      OBVIOUS
    <3> DEFINE q == CHOOSE q \in 1..Len(program[i].in) : program[i].in[q] = u
    <3>1. <<i, q>> = <<k, 1>>  BY <1>7, <1>8, <1>9
    <3>2. QED  BY <3>1
  <2>2. u \in Elems(program[k].in)  BY <1>5 DEF Elems
  <2>3. QED  BY <2>1, <2>2
<1>11. PICK d : Definitions(u) = {d}  BY <1>1, UsesFinite, FS_Singleton
<1>12. QED  BY <1>1, <1>6, <1>10, <1>11 DEF Definitions

\* What coalesces and jumps itself is found from the program.
LEMMA CopiesFound ==
  ASSUME IInv, Prepare
  PROVE  CopiesKnown' /\ FusedKnown'
<1>1. program \in Programs /\ program \in Seq(Command)  BY DEF IInv, TypeOK
<1>2. program' = program /\ coalesce' = Coalesced /\ fuse' = Fused
  BY DEF Prepare
<1>3. ASSUME NEW u \in DOMAIN Coalesced
      PROVE  \E k \in Copies : program[k].in[1] = u /\ Coalesced[u] = program[k].out[1]
  <2>1. PICK c \in Copies : program[c].in[1] = u  BY <1>3 DEF Coalesced
  <2> DEFINE k == CHOOSE k \in Copies : program[k].in[1] = u
  <2>2. k \in Copies /\ program[k].in[1] = u  BY <2>1
  <2>3. Coalesced[u] = program[k].out[1]  BY <1>3, <2>2 DEF Coalesced, TargetOf
  <2>4. QED  BY <2>2, <2>3
<1>4. CopiesKnown'
  <2>1. ASSUME NEW u \in DOMAIN Coalesced
        PROVE  /\ \E d, k \in Commands : Window(u, d, k)'
               /\ {u, Coalesced[u]} \cap (Forced' \cup Statics) = {}
    <3>1. PICK k \in Copies : program[k].in[1] = u /\ Coalesced[u] = program[k].out[1]
      BY <1>3
    <3>2. /\ k \in Commands /\ program[k].op = "set"
          /\ program[k].in = <<u>> /\ program[k].out = <<Coalesced[u]>>
          /\ \A i \in Commands : u \in Elems(program[i].in) <=> i = k
          /\ {u, Coalesced[u]} \cap (Forced \cup Statics) = {}
      BY <1>1, <3>1, CopyWindow
    <3>3. PICK d \in Commands :
            /\ \A i \in Commands : u \in Elems(program[i].out) <=> i = d
            /\ CoalesceSafe(d, k, Coalesced[u])
      BY <1>1, <3>1, CopyWindow
    <3>5. Window(u, d, k)'
      BY <1>2, <3>2, <3>3 DEF Window, CoalesceSafe, Commands, n, Elems
    <3>6. Forced' = Forced
      BY <1>2 DEF Forced, Mentioned, Commands, n
    <3>7. QED  BY <3>2, <3>5, <3>6
  <2>2. Commands' = Commands  BY <1>2 DEF Commands, n
  <2>3. QED  BY <1>2, <2>1, <2>2 DEF CopiesKnown
<1>5. FusedKnown'
  <2>1. ASSUME NEW i \in Fused
        PROVE  /\ program[i].op = "compare" /\ i + 1 \in Commands
               /\ program[i + 1].op = "branch"
               /\ \A j \in Commands : program[i].out[1] \in Elems(program[j].in) => j = i + 1
    <3> DEFINE o == program[i].out[1]
    <3>1. /\ i \in Commands /\ program[i].op = "compare" /\ i < n
          /\ program[i + 1].op = "branch" /\ program[i + 1].in[1] = o
          /\ Cardinality(Uses(o)) = 1
      BY DEF Fused
    <3>2. n \in Nat  BY <1>1 DEF n
    <3>3. i + 1 \in Commands  BY <3>1, <3>2 DEF Commands
    <3>4. Len(program[i + 1].in) = 1
      BY <1>1, <3>1, <3>3, ProgramAssumption DEF Commands, n
    <3>5. PICK z : Uses(o) = {z}  BY <1>1, <3>1, UsesFinite, FS_Singleton
    <3>6. <<i + 1, 1>> \in Uses(o)  BY <3>1, <3>3, <3>4 DEF Uses
    <3>7. ASSUME NEW j \in Commands, o \in Elems(program[j].in) PROVE j = i + 1
      <4>1. PICK q \in 1..Len(program[j].in) : program[j].in[q] = o  BY <3>7 DEF Elems
      <4>2. <<j, q>> \in Uses(o)  BY <4>1 DEF Uses
      <4>3. <<j, q>> = <<i + 1, 1>>  BY <3>5, <3>6, <4>2
      <4>4. QED  BY <4>3
    <3>8. QED  BY <3>1, <3>3, <3>7
  <2>2. QED  BY <1>2, <2>1 DEF FusedKnown, Commands, n, Elems
<1>6. QED  BY <1>4, <1>5

LEMMA TargetsAreCanonical ==
  ASSUME NoChains, NEW v
  PROVE  Canon(v) = Target(v)
<1>1. CASE v \notin DOMAIN coalesce  BY <1>1 DEF Canon, Target
<1>2. CASE v \in DOMAIN coalesce
  <2> DEFINE w == coalesce[v]
             both == {v, w}
  <2>1. w \notin DOMAIN coalesce  BY <1>2 DEF NoChains
  <2>2. both \in SUBSET Copied /\ w \in Copied  BY <1>2 DEF Copied
  <2>3. \A x \in both \cap DOMAIN coalesce : coalesce[x] \in both  BY <2>1
  <2>4. Reach(v) \subseteq both
    <3> SUFFICES ASSUME NEW z \in Reach(v) PROVE z \in both  OBVIOUS
    <3> QED BY <2>2, <2>3 DEF Reach
  <2>5. w \in Reach(v)
    <3> SUFFICES ASSUME NEW S \in SUBSET Copied, v \in S,
                        \A x \in S \cap DOMAIN coalesce : coalesce[x] \in S
                 PROVE  w \in S
      BY <2>2 DEF Reach
    <3> QED BY <1>2
  <2>6. Reach(v) \ DOMAIN coalesce = {w}  BY <1>2, <2>1, <2>4, <2>5
  <2>7. QED  BY <1>2, <2>6 DEF Canon, Target
<1>3. QED  BY <1>1, <1>2

LEMMA AnalysedStep ==
  ASSUME IInv, Analysed, [AllocNext]_allocVars
  PROVE  Analysed'
<1>1. program' = program
  BY DEF AllocNext, allocVars, Prepare, Collect, Visit, Again, Settled, Extend, CacheAddresses,
    Allocate, SaveRegisters, GiveSlot, Share
<1>2. n \in Nat /\ program \in Programs /\ at \in 0..(n + 1)  BY DEF IInv, TypeOK, n
<1>3. CASE Prepare
  <2>1. CopiesKnown' /\ FusedKnown'  BY <1>3, CopiesFound
  <2>2. QED  BY <1>3, <2>1 DEF Analysed, Prepare, Given, lives
<1>4. CASE ~Prepare
  <2>1. coalesce' = coalesce /\ fuse' = fuse
    BY <1>4 DEF AllocNext, allocVars, Collect, Visit, Again, Settled, Extend, CacheAddresses,
      Allocate, SaveRegisters, GiveSlot, Share, copies
  <2>2. CopiesKnown'
    <3>1. \A u, d, k : Window(u, d, k)' <=> Window(u, d, k)
      BY <1>1, <2>1 DEF Window, CoalesceSafe, Commands, n, Elems
    <3>2. Forced' = Forced /\ Commands' = Commands
      BY <1>1 DEF Forced, Mentioned, Commands, n
    <3>3. QED  BY <2>1, <3>1, <3>2 DEF CopiesKnown, Analysed
  <2>3. FusedKnown'
    BY <1>1, <2>1 DEF FusedKnown, Analysed, Commands, n, Elems
  <2>4. phase' \notin {"copies", "uses"} /\ NoChains' => Referenced'
    <3> SUFFICES ASSUME phase' \notin {"copies", "uses"}, NoChains PROVE Referenced'
      BY <2>1 DEF NoChains
    <3>1. /\ \A S : InRegisters(S)' = InRegisters(S)
          /\ \A v : Target(v)' = Target(v)
      BY <1>1, <2>1 DEF InRegisters, Forced, Mentioned, Unmade, Commands, n, Target
    <3>2. CASE Collect
      <4>1. \A i \in Commands :
              /\ uses'[i] = { Target(v) : v \in InRegisters(Elems(program[i].in)) }
              /\ defs'[i] = { Target(v) : v \in InRegisters(Elems(program[i].out)) }
        BY <3>2, TargetsAreCanonical DEF Collect
      <4>2. QED  BY <1>1, <3>1, <4>1 DEF Referenced, Commands, n
    <3>3. CASE ~Collect
      <4>1. uses' = uses /\ defs' = defs /\ phase \notin {"copies", "uses"}
        BY <1>4, <3>3 DEF AllocNext, allocVars, Visit, Again, Settled, Extend, CacheAddresses,
          Allocate, SaveRegisters, GiveSlot, Share, refs
      <4>2. Referenced  BY <4>1 DEF Analysed
      <4>3. QED  BY <1>1, <3>1, <4>1, <4>2 DEF Referenced, Commands, n
    <3>4. QED  BY <3>2, <3>3
  <2>5. \A i \in Commands : (InOf(i)' = InOf(i) /\ OutOf(i)' = OutOf(i)) \/ Collect \/ Visit
    BY <1>1, <1>4 DEF AllocNext, allocVars, Again, Settled, Extend, CacheAddresses,
      Allocate, SaveRegisters, GiveSlot, Share, refs, lives, InOf, OutOf, Succ, Commands, n
  <2>6. /\ phase' \in {"copies", "uses"} => changed'
        /\ phase' = "live" /\ ~changed' => Fixpoint(at)'
        /\ phase' = "intervals" \/ Given' => Fixpoint(0)'
    <3>1. CASE Collect
      <4>1. phase' = "live" /\ changed' = changed /\ phase = "uses"
        BY <3>1 DEF Collect, lives
      <4>2. QED  BY <3>1, <4>1 DEF Given, Analysed
    <3>2. CASE Visit
      <4>1. /\ phase = "live" /\ phase' = "live" /\ at' = at - 1 /\ at > 0
            /\ livein' = [livein EXCEPT ![at] = InOf(at)]
            /\ liveout' = [liveout EXCEPT ![at] = OutOf(at)]
            /\ defs' = defs /\ uses' = uses
            /\ ~changed' => ~changed /\ livein' = livein /\ liveout' = liveout
        BY <3>2 DEF Visit, refs
      <4>2. ASSUME ~changed' PROVE Fixpoint(at)'
        <5>1. Fixpoint(at) /\ livein' = livein /\ liveout' = liveout
          BY <4>1, <4>2 DEF Analysed
        <5>2. \A i \in Commands : InOf(i)' = InOf(i) /\ OutOf(i)' = OutOf(i)
          BY <1>1, <4>1, <5>1 DEF InOf, OutOf, Succ, Commands, n
        <5>3. at \in Commands => livein[at] = InOf(at) /\ liveout[at] = OutOf(at)
          BY <4>1, <5>1 DEF IInv, TypeOK
        <5>4. \A i \in Commands : i > at - 1 => i = at \/ i > at
          BY <1>2 DEF Commands
        <5>5. QED
          BY <1>1, <4>1, <5>1, <5>2, <5>3, <5>4 DEF Fixpoint, Commands, n
      <4>3. QED  BY <4>1, <4>2 DEF Given
    <3>3. CASE Again
      <4>1. at' = n /\ phase' = "live"  BY <3>3 DEF Again
      <4>2. Fixpoint(at)'
        BY <1>1, <1>2, <4>1 DEF Fixpoint, Commands, n
      <4>3. QED  BY <4>1, <4>2 DEF Given
    <3>4. CASE Settled
      <4>1. Fixpoint(0) /\ phase' = "intervals"  BY <3>4 DEF Settled, Analysed
      <4>2. Fixpoint(0)'
        BY <1>1, <2>5, <3>4, <4>1 DEF Settled, Visit, Collect, lives, Fixpoint, Commands, n
      <4>3. QED  BY <4>1, <4>2
    <3>5. CASE ~(Collect \/ Visit \/ Again \/ Settled)
      <4>1. /\ livein' = livein /\ liveout' = liveout /\ changed' = changed
            /\ \/ phase' = phase /\ at' = at
               \/ phase' \in {"intervals", "scan", "slots", "run"}
            /\ phase' # phase => phase \in {"intervals", "scan", "slots"}
        BY <1>4, <3>5 DEF AllocNext, allocVars, Extend, CacheAddresses,
          Allocate, SaveRegisters, GiveSlot, Share, lives
      <4>2. Fixpoint(0) => Fixpoint(0)'
        BY <1>1, <2>5, <3>5, <4>1 DEF Fixpoint, Commands, n
      <4>3. Fixpoint(at) /\ at' = at => Fixpoint(at)'
        BY <1>1, <2>5, <3>5, <4>1 DEF Fixpoint, Commands, n
      <4>4. QED
        BY <1>4, <3>5, <4>2, <4>3 DEF AllocNext, allocVars, Extend, CacheAddresses,
          Allocate, SaveRegisters, GiveSlot, Share, lives, Analysed, Given
    <3>6. QED  BY <3>1, <3>2, <3>3, <3>4, <3>5
  <2>7. QED  BY <2>2, <2>3, <2>4, <2>6 DEF Analysed
<1>5. QED  BY <1>3, <1>4

-----------------------------------------------------------------------------
(***************************************************************************)
(* Where the homes lie: in registers set aside for values, apart from the  *)
(* cached addresses, or in words of the frame above the saved registers.   *)
(***************************************************************************)
Scratch == { Gpr(r) : r \in IntCaller } \cup { Fpr(r) : r \in FpCaller }

OnFrame(x) == \E k \in Nat : x = Slot(k) /\ 2 + Cardinality(used) <= k /\ k < off

Placed ==
  /\ ~Given => gaddr = << >>
  /\ Cached \subseteq used
  /\ \A v, w \in DOMAIN gaddr : gaddr[v] = gaddr[w] => v = w
  /\ \A v \in Vars : home[v] \in Registers => home[v] \in Scratch \cup (used \ Cached)
  /\ \A v \in Own : home[v] # NoHome => v \notin Statics \cup Unmade
  /\ \A v \in Own : home[v] \in Registers => v \notin Forced

FrameLaid ==
  /\ phase \notin {"slots", "run"} =>
       off = 2 /\ \A v \in Vars : home[v] \in Registers \cup {NoHome}
  /\ phase \in {"slots", "run"} =>
       /\ off >= 2 + Cardinality(used)
       /\ \A v \in Vars : home[v] \in Registers \cup {NoHome} \/ OnFrame(home[v])
  /\ \A v, w \in Own : v # w /\ home[v] = home[w] => home[v] \in Registers \cup {NoHome}
  /\ phase = "run" =>
       /\ NoChains => \A v \in DOMAIN coalesce : home[v] = home[coalesce[v]]
       /\ \A v \in Own \cap Mentioned : v \notin Statics \cup Unmade => home[v] # NoHome

\* A register picked caches no address, and is not one that arguments pass in.
LEMMA ChosenUncached ==
  ASSUME NEW v \in Vars, NEW x \in Choices(v)
  PROVE  x \in Scratch \cup (CalleeSaved \ Cached)
<1>1. x \in PoolsOf(v).caller \cup PoolsOf(v).callee  BY DEF Choices, Picked
<1>2. PoolsOf(v).caller \subseteq Scratch  BY DEF PoolsOf, Scratch
<1>3. PoolsOf(v).callee \subseteq CalleeSaved \ Cached
  <2>1. \A r : Fpr(r) \notin Cached  BY DEF Fpr, Gpr, Cached
  <2>2. QED  BY <2>1 DEF PoolsOf, CalleeSaved
<1>4. QED  BY <1>1, <1>2, <1>3

LEMMA UsedCounted ==
  ASSUME IInv
  PROVE  IsFiniteSet(used) /\ Cardinality(used) \in Nat
<1>1. IsFiniteSet(used)  BY CalleeAssumption, FS_Subset DEF IInv, TypeOK
<1>2. QED  BY <1>1, FS_CardinalityType

LEMMA PlacedStep ==
  ASSUME IInv, Placed, FrameLaid, [AllocNext]_allocVars
  PROVE  Placed' /\ FrameLaid'
<1>1. program' = program
  BY DEF AllocNext, allocVars, Prepare, Collect, Visit, Again, Settled, Extend, CacheAddresses,
    Allocate, SaveRegisters, GiveSlot, Share
<1>2. /\ Registers' = Registers /\ Scratch' = Scratch /\ CalleeSaved' = CalleeSaved
      /\ Mentioned' = Mentioned /\ Forced' = Forced
  BY <1>1 DEF Registers, Scratch, CalleeSaved, IntCaller, IntParams, IsLoad, IntArgs, Mentioned,
    Forced, Commands, n
<1>3. CASE Prepare \/ Collect \/ Visit \/ Again \/ Settled \/ Extend
  <2>1. ~Given /\ Unhomed /\ phase \notin {"slots", "run"} /\ phase' \notin {"slots", "run"} /\ ~Given'
    BY <1>3 DEF Prepare, Collect, Visit, Again, Settled, Extend, Given, IInv
  <2>2. home' = home /\ gaddr' = gaddr /\ used' = used /\ off' = off
    BY <1>3 DEF Prepare, Collect, Visit, Again, Settled, Extend, pools, homes
  <2>3. \A v \in Vars : home[v] = NoHome /\ home[v] \notin Registers
    BY <2>1, SpillsAreNotRegisters DEF Unhomed
  <2>4. Own \subseteq Vars /\ Own' \subseteq Vars  BY DEF Own
  <2>5. Placed'  BY <1>2, <2>1, <2>2, <2>3, <2>4 DEF Placed, Cached
  <2>6. FrameLaid'  BY <1>2, <2>1, <2>2, <2>3, <2>4 DEF FrameLaid
  <2>7. QED  BY <2>5, <2>6
<1>4. CASE CacheAddresses
  <2>1. /\ home' = home /\ off' = off /\ coalesce' = coalesce /\ fuse' = fuse
        /\ phase = "intervals" /\ phase' = "scan"
    BY <1>4 DEF CacheAddresses, homes, copies
  <2>2. \A v \in Vars : home[v] = NoHome /\ home[v] \notin Registers
    BY <2>1, SpillsAreNotRegisters DEF Unhomed, IInv, Given
  <2>3. PICK S \in SUBSET Cacheable, R \in SUBSET IntCallee :
          /\ \E f \in [S -> R] :
               /\ \A v, w \in S : v # w => f[v] # f[w]
               /\ gaddr' = f
          /\ used' = used \cup { Gpr(r) : r \in R }
    BY <1>4 DEF CacheAddresses
  <2>4. Own' = Own /\ Own \subseteq Vars  BY <2>1 DEF Own
  <2>5. Placed'  BY <1>2, <2>1, <2>2, <2>3, <2>4 DEF Placed, Cached, Given
  <2>6. FrameLaid'  BY <1>2, <2>1, <2>2, <2>4 DEF FrameLaid
  <2>7. QED  BY <2>5, <2>6
<1>5. CASE Allocate
  <2>1. /\ gaddr' = gaddr /\ off' = off /\ coalesce' = coalesce /\ fuse' = fuse
        /\ phase = "scan" /\ phase' = "scan"
    BY <1>5 DEF Allocate, copies
  <2>2. PICK v \in Scanned :
          /\ home[v] = NoHome
          /\ \/ \E x \in Choices(v) : Give(v, x)
             \/ home' = home /\ used' = used
    BY <1>5 DEF Allocate, Turn, Waiting
  <2>3. v \in Vars /\ v \notin Forced \cup Statics \cup Unmade
    <3>1. Mentioned \subseteq Vars  BY ElemsAreVars DEF Mentioned, IInv
    <3>2. QED  BY <3>1, CanonIsVar DEF Scanned, Representatives, IInv
  <2>4. /\ Own' = Own /\ Own \subseteq Vars /\ Unmade' = Unmade /\ Cached' = Cached
        /\ Given /\ Given'
    BY <1>1, <2>1 DEF Own, Unmade, Cached, Given
  <2>5. CASE home' = home /\ used' = used
    <3>1. Placed'  BY <1>2, <2>1, <2>4, <2>5 DEF Placed
    <3>2. FrameLaid'  BY <1>2, <2>1, <2>4, <2>5 DEF FrameLaid
    <3>3. QED  BY <3>1, <3>2
  <2>6. ASSUME NEW x \in Choices(v), Give(v, x)
        PROVE  Placed' /\ FrameLaid'
    <3>1. \A w \in Vars : home'[w] = IF w = v THEN x ELSE home[w]
      BY <2>3, <2>6 DEF Give, IInv, TypeOK
    <3>2. used' = used \cup ({x} \cap CalleeSaved)  BY <2>6 DEF Give
    <3>3. x \in Scratch \cup (CalleeSaved \ Cached) /\ x \in Registers
      BY <2>3, ChosenUncached, ChosenRegister
    <3>4. Placed'  BY <1>2, <2>1, <2>3, <2>4, <3>1, <3>2, <3>3 DEF Placed
    <3>5. FrameLaid'
      BY <1>2, <2>1, <2>3, <2>4, <3>1, <3>3 DEF FrameLaid
    <3>6. QED  BY <3>4, <3>5
  <2>7. QED  BY <2>2, <2>5, <2>6
<1>6. CASE SaveRegisters
  <2>1. /\ gaddr' = gaddr /\ coalesce' = coalesce /\ fuse' = fuse /\ home' = home /\ used' = used
        /\ phase = "scan" /\ phase' = "slots" /\ off' = off + Cardinality(used)
    BY <1>6 DEF SaveRegisters, pools, homes, copies
  <2>2. Cardinality(used) \in Nat  BY UsedCounted
  <2>3. Own' = Own /\ Own \subseteq Vars /\ Unmade' = Unmade /\ Cached' = Cached /\ Given /\ Given'
    BY <1>1, <2>1 DEF Own, Unmade, Cached, Given
  <2>4. Placed'  BY <1>2, <2>1, <2>3 DEF Placed
  <2>5. off' >= 2 + Cardinality(used')  BY <2>1, <2>2 DEF FrameLaid
  <2>6. FrameLaid'  BY <1>2, <2>1, <2>3, <2>5 DEF FrameLaid
  <2>7. QED  BY <2>4, <2>6
<1>7. CASE GiveSlot
  <2>1. /\ gaddr' = gaddr /\ coalesce' = coalesce /\ fuse' = fuse /\ used' = used
        /\ phase = "slots" /\ phase' = "slots"
    BY <1>7 DEF GiveSlot, pools, copies
  <2>2. PICK v \in Slotless : home' = [home EXCEPT ![v] = Slot(off)] /\ off' = off + Words(v)
    BY <1>7 DEF GiveSlot
  <2>3. v \in Vars /\ v \notin Statics \cup Unmade /\ home[v] = NoHome
    <3>1. Mentioned \subseteq Vars  BY ElemsAreVars DEF Mentioned, IInv
    <3>2. QED  BY <3>1, CanonIsVar DEF Slotless, Representatives, IInv
  <2>4. /\ Cardinality(used) \in Nat /\ off \in Nat /\ off >= 2 + Cardinality(used)
        /\ off' \in Nat /\ off' >= off + 1
    <3>1. Words(v) \in Nat /\ Words(v) >= 1  BY <2>3, ValueAssumption DEF Words
    <3>2. QED  BY <2>1, <2>2, <3>1, UsedCounted DEF FrameLaid, IInv, TypeOK
  <2>5. Own' = Own /\ Own \subseteq Vars /\ Unmade' = Unmade /\ Cached' = Cached /\ Given /\ Given'
    BY <1>1, <2>1 DEF Own, Unmade, Cached, Given
  <2>6. \A w \in Vars : home'[w] = IF w = v THEN Slot(off) ELSE home[w]
    BY <2>2, <2>3 DEF IInv, TypeOK
  <2>7. Slot(off) \notin Registers /\ Slot(off) # NoHome
    BY SpillsAreNotRegisters DEF Slot, NoHome
  <2>8. Placed'  BY <1>2, <2>1, <2>3, <2>5, <2>6, <2>7 DEF Placed
  <2>9. /\ \A w \in Vars : OnFrame(home[w]) => home[w] # Slot(off)
        /\ \A w \in Vars : home'[w] = home[w] /\ OnFrame(home[w]) => OnFrame(home[w])'
        /\ \A w \in Vars : home'[w] = Slot(off) => OnFrame(home[w])'
    <3>1. ASSUME NEW w \in Vars, OnFrame(home[w]) PROVE home[w] # Slot(off)
      BY <2>4, <3>1 DEF OnFrame, Slot
    <3>2. ASSUME NEW w \in Vars, home'[w] = home[w], OnFrame(home[w]) PROVE OnFrame(home[w])'
      <4>1. PICK k \in Nat : home[w] = Slot(k) /\ 2 + Cardinality(used) <= k /\ k < off
        BY <3>2 DEF OnFrame
      <4>2. k < off'  BY <2>4, <4>1
      <4>3. QED  BY <2>1, <3>2, <4>1, <4>2 DEF OnFrame, Slot
    <3>3. ASSUME NEW w \in Vars, home'[w] = Slot(off) PROVE OnFrame(home[w])'
      <4>1. off \in Nat /\ 2 + Cardinality(used) <= off /\ off < off'  BY <2>4
      <4>2. QED  BY <2>1, <3>3, <4>1 DEF OnFrame, Slot
    <3>4. QED  BY <3>1, <3>2, <3>3
  <2>11. \A w \in Vars : home'[w] \in Registers \cup {NoHome} \/ OnFrame(home[w])'
    BY <2>1, <2>6, <2>9 DEF FrameLaid
  <2>12. \A w \in Vars : home[w] # Slot(off)
    BY <2>1, <2>7, <2>9 DEF FrameLaid
  <2>13. \A w, z \in Own :
           w # z /\ home'[w] = home'[z] => home'[w] \in Registers \cup {NoHome}
    BY <2>5, <2>6, <2>12 DEF FrameLaid
  <2>14. FrameLaid'  BY <1>2, <2>1, <2>4, <2>5, <2>11, <2>13 DEF FrameLaid
  <2>15. QED  BY <2>8, <2>14
<1>8. CASE Share
  <2>1. /\ gaddr' = gaddr /\ coalesce' = coalesce /\ fuse' = fuse /\ used' = used /\ off' = off
        /\ phase = "slots" /\ phase' = "run" /\ Slotless = {}
        /\ home' = [v \in Vars |-> IF v \in DOMAIN coalesce THEN home[Canon(v)] ELSE home[v]]
    BY <1>8 DEF Share, pools, copies
  <2>2. Own' = Own /\ Own \subseteq Vars /\ Unmade' = Unmade /\ Cached' = Cached /\ Given /\ Given'
    BY <1>1, <2>1 DEF Own, Unmade, Cached, Given
  <2>3. \A v \in Own : home'[v] = home[v]  BY <2>1 DEF Own
  <2>4. \A v \in Vars : \E w \in Vars : home'[v] = home[w]
    BY <2>1, CanonIsVar DEF IInv
  <2>5. Placed'  BY <1>2, <2>1, <2>2, <2>3, <2>4 DEF Placed
  <2>6. \A v, w \in Vars : home'[v] = home[w] /\ OnFrame(home[w]) => OnFrame(home[v])'
    BY <2>1 DEF OnFrame
  <2>7. \A v \in Vars : home'[v] \in Registers \cup {NoHome} \/ OnFrame(home[v])'
    BY <2>1, <2>4, <2>6 DEF FrameLaid
  <2>8. ASSUME NoChains, NEW v \in DOMAIN coalesce PROVE home'[v] = home'[coalesce[v]]
    <3>1. v \in Vars /\ coalesce[v] \in Vars /\ coalesce[v] \notin DOMAIN coalesce
      BY <2>8 DEF IInv, TypeOK, NoChains
    <3>2. Canon(v) = coalesce[v]  BY <2>8, TargetsAreCanonical DEF Target
    <3>3. QED  BY <2>1, <3>1, <3>2
  <2>9. ASSUME NEW v \in Own \cap Mentioned, v \notin Statics \cup Unmade
        PROVE  home'[v] # NoHome
    <3>1. Canon(v) = v /\ v \in Representatives  BY DEF Canon, Own, Representatives
    <3>2. home[v] # NoHome  BY <2>1, <2>9, <3>1 DEF Slotless
    <3>3. QED  BY <2>3, <3>2
  <2>10. FrameLaid'
    BY <1>2, <2>1, <2>2, <2>3, <2>7, <2>8, <2>9 DEF FrameLaid, NoChains
  <2>11. QED  BY <2>5, <2>10
<1>9. CASE UNCHANGED allocVars
  BY <1>2, <1>9 DEF allocVars, copies, pools, homes, Placed, FrameLaid, Given, Cached, Own, Unmade, NoChains,
    OnFrame
<1>10. QED  BY <1>3, <1>4, <1>5, <1>6, <1>7, <1>8, <1>9 DEF AllocNext

-----------------------------------------------------------------------------
(***************************************************************************)
(* Counting: induction over the numbers up to a bound, and the numbers of  *)
(* the members of a set of positions.                                      *)
(***************************************************************************)
LEMMA UpTo ==
  ASSUME NEW L \in Nat, NEW S, 0 \in S,
         \A k \in 0..L : k + 1 \in 0..L /\ k \in S => k + 1 \in S
  PROVE  0..L \subseteq S
<1> DEFINE R == { ss \in Nat \X Nat : ss[1] < ss[2] }
           T == (0..L) \ S
<1>1. SUFFICES ASSUME T # {} PROVE FALSE  OBVIOUS
<1>2. IsWellFoundedOn(R, Nat)
  BY NatLessThanWellFounded DEF OpToRel
<1>3. T \in SUBSET Nat  OBVIOUS
<1>4. PICK m \in T : \A x \in T : <<x, m>> \notin R
  <2> HIDE DEF R, T
  <2> QED BY <1>1, <1>2, <1>3, WFMin
<1>5. m \in 1..L /\ m - 1 \in 0..L /\ m - 1 \in Nat /\ m - 1 < m /\ (m - 1) + 1 = m  OBVIOUS
<1>6. <<m - 1, m>> \in R
  <2>1. <<m - 1, m>> \in Nat \X Nat /\ <<m - 1, m>>[1] = m - 1 /\ <<m - 1, m>>[2] = m  BY <1>5
  <2>2. QED  BY <1>5, <2>1
<1>7. m - 1 \notin T  BY <1>4, <1>6
<1>8. m - 1 \in S /\ m \in 0..L  BY <1>5, <1>7
<1>9. m \in S  BY <1>5, <1>8
<1>10. QED  BY <1>4, <1>9

LEMMA NumberedBelow ==
  ASSUME NEW S, Cardinality(S) \in Nat, NEW x \in Numbered(S)
  PROVE  x \in Nat /\ x < Cardinality(S)
BY DEF Numbered

LEMMA Numbering ==
  ASSUME NEW L \in Nat, NEW S \in SUBSET (1..L), NEW i \in S
  PROVE  /\ Cardinality({ j \in S : j < i }) \in Numbered(S)
         /\ \A k \in S : Cardinality({ j \in S : j < k }) = Cardinality({ j \in S : j < i })
                           => k = i
<1> DEFINE B(k) == { j \in S : j < k }
<1>1. IsFiniteSet(S) /\ Cardinality(S) \in Nat
  <2>1. IsFiniteSet(1..L)  BY FS_Interval
  <2>2. QED  BY <2>1, FS_Subset, FS_CardinalityType
<1>2. ASSUME NEW A \in SUBSET S, NEW C \in SUBSET S, A \subseteq C, A # C
      PROVE  Cardinality(A) \in Nat /\ Cardinality(C) \in Nat /\ Cardinality(A) < Cardinality(C)
  <2>1. IsFiniteSet(C) /\ IsFiniteSet(A)  BY <1>1, FS_Subset
  <2>2. Cardinality(A) \in Nat /\ Cardinality(C) \in Nat  BY <2>1, FS_CardinalityType
  <2>3. Cardinality(A) <= Cardinality(C) /\ Cardinality(A) # Cardinality(C)
    BY <1>2, <2>1, FS_Subset
  <2>4. QED  BY <2>2, <2>3
<1>3. B(i) \in SUBSET S /\ i \notin B(i)  OBVIOUS
<1>4. Cardinality(B(i)) \in Nat /\ Cardinality(B(i)) < Cardinality(S)
  <2> HIDE DEF B
  <2> QED BY <1>2, <1>3
<1>5. ASSUME NEW a \in S, NEW b \in S, a < b
      PROVE  Cardinality(B(a)) # Cardinality(B(b))
  <2>1. B(a) \in SUBSET S /\ B(b) \in SUBSET S /\ B(a) \subseteq B(b)
    <3>1. \A j \in S : j \in Nat  OBVIOUS
    <3>2. \A j \in S : j < a => j < b  BY <1>5, <3>1
    <3>3. QED  BY <3>2
  <2>2. a \in B(b) /\ a \notin B(a)  BY <1>5
  <2>3. Cardinality(B(a)) \in Nat /\ Cardinality(B(b)) \in Nat
        /\ Cardinality(B(a)) < Cardinality(B(b))
    <3> HIDE DEF B
    <3> QED BY <1>2, <2>1, <2>2
  <2>4. QED  BY <2>3
<1>6. ASSUME NEW k \in S, Cardinality(B(k)) = Cardinality(B(i)) PROVE k = i
  <2>1. k \in Nat /\ i \in Nat  OBVIOUS
  <2>2. ~(k < i) /\ ~(i < k)
    <3> HIDE DEF B
    <3> QED BY <1>5, <1>6
  <2>3. QED  BY <2>1, <2>2
<1>7. Cardinality(B(i)) \in Numbered(S)
  <2> HIDE DEF B
  <2> QED BY <1>1, <1>4 DEF Numbered
<1>8. QED  BY <1>6, <1>7

-----------------------------------------------------------------------------
(***************************************************************************)
(* The words the registers are saved in, and the registers arguments pass  *)
(* in.                                                                     *)
(***************************************************************************)
LEMMA SaveWords ==
  ASSUME IInv
  PROVE  /\ \A x \in used : \E k \in Nat :
              SaveWord(x) = Slot(k) /\ 2 <= k /\ k < 2 + Cardinality(used)
         /\ \A x, y \in used : SaveWord(x) = SaveWord(y) => x = y
<1> DEFINE B(x) == { y \in used : Comes(y, x) }
<1>1. IsFiniteSet(used) /\ Cardinality(used) \in Nat  BY UsedCounted
<1>2. ASSUME NEW A \in SUBSET used, NEW C \in SUBSET used, A \subseteq C, A # C
      PROVE  Cardinality(A) \in Nat /\ Cardinality(C) \in Nat /\ Cardinality(A) < Cardinality(C)
  <2>1. IsFiniteSet(C) /\ IsFiniteSet(A)  BY <1>1, FS_Subset
  <2>2. Cardinality(A) \in Nat /\ Cardinality(C) \in Nat  BY <2>1, FS_CardinalityType
  <2>3. Cardinality(A) <= Cardinality(C) /\ Cardinality(A) # Cardinality(C)
    BY <1>2, <2>1, FS_Subset
  <2>4. QED  BY <2>2, <2>3
<1>3. \A x \in used : /\ x = <<x[1], x[2]>> /\ x[2] \in Nat
                      /\ x[1] = "int" \/ x[1] = "fp"
  <2>1. used \subseteq CalleeSaved  BY DEF IInv, TypeOK
  <2>2. QED  BY <2>1, RegisterAssumption DEF CalleeSaved, Gpr, Fpr
<1>4. \A x \in used : ~Comes(x, x)  BY <1>3 DEF Comes
<1>5. \A x, y, z \in used : Comes(x, y) /\ Comes(y, z) => Comes(x, z)
  BY <1>3 DEF Comes
<1>6. \A x, y \in used : x = y \/ Comes(x, y) \/ Comes(y, x)
  <2> SUFFICES ASSUME NEW x \in used, NEW y \in used, ~Comes(x, y), ~Comes(y, x) PROVE x = y
    OBVIOUS
  <2>1. x[1] = y[1]  BY <1>3 DEF Comes
  <2>2. x[2] = y[2]
    <3>1. x[2] \in Nat /\ y[2] \in Nat /\ ~(x[2] < y[2]) /\ ~(y[2] < x[2])
      BY <1>3, <2>1 DEF Comes
    <3>2. QED  BY <3>1
  <2>3. QED  BY <1>3, <2>1, <2>2
<1>7. ASSUME NEW x \in used
      PROVE  Cardinality(B(x)) \in Nat /\ Cardinality(B(x)) < Cardinality(used)
  <2>1. B(x) \in SUBSET used /\ x \notin B(x)  BY <1>4
  <2>2. QED
    <3> HIDE DEF B
    <3> QED BY <1>2, <1>7, <2>1
<1>8. ASSUME NEW x \in used, NEW y \in used, Comes(x, y)
      PROVE  Cardinality(B(x)) # Cardinality(B(y))
  <2>1. B(x) \in SUBSET used /\ B(y) \in SUBSET used /\ B(x) \subseteq B(y)
    BY <1>5, <1>8
  <2>2. x \in B(y) /\ x \notin B(x)  BY <1>4, <1>8
  <2>3. Cardinality(B(x)) \in Nat /\ Cardinality(B(y)) \in Nat
        /\ Cardinality(B(x)) < Cardinality(B(y))
    <3> HIDE DEF B
    <3> QED BY <1>2, <2>1, <2>2
  <2>4. QED  BY <2>3
<1>9. \A x : SaveWord(x) = Slot(2 + Cardinality(B(x)))  BY DEF SaveWord
<1>10. ASSUME NEW x \in used, NEW y \in used, SaveWord(x) = SaveWord(y)
       PROVE  x = y
  <2>1. Slot(2 + Cardinality(B(x))) = Slot(2 + Cardinality(B(y)))
    <3> HIDE DEF B
    <3> QED BY <1>9, <1>10
  <2>2. Cardinality(B(x)) = Cardinality(B(y))
    <3>1. 2 + Cardinality(B(x)) = 2 + Cardinality(B(y))
      <4> HIDE DEF B
      <4> QED BY <2>1 DEF Slot
    <3>2. Cardinality(B(x)) \in Nat /\ Cardinality(B(y)) \in Nat
      <4> HIDE DEF B
      <4> QED BY <1>7
    <3>3. QED
      <4> HIDE DEF B
      <4> QED BY <3>1, <3>2
  <2>3. ~Comes(x, y) /\ ~Comes(y, x)
    <3> HIDE DEF B
    <3> QED BY <1>8, <2>2
  <2>4. QED  BY <1>6, <2>3
<1>11. ASSUME NEW x \in used
       PROVE  \E k \in Nat : SaveWord(x) = Slot(k) /\ 2 <= k /\ k < 2 + Cardinality(used)
  <2> DEFINE k == 2 + Cardinality(B(x))
  <2>1. k \in Nat /\ 2 <= k /\ k < 2 + Cardinality(used)
    <3> HIDE DEF B
    <3> QED BY <1>1, <1>7
  <2>2. SaveWord(x) = Slot(k)  BY <1>9
  <2>3. QED
    <3> HIDE DEF k
    <3> QED BY <2>1, <2>2
<1>12. QED  BY <1>10, <1>11

\* The registers a call takes its arguments in are caller-saved, hold no value,
\* and are distinct.
LEMMA OutgoingApart ==
  ASSUME program \in Programs, NEW i \in Commands, program[i].op = "call",
         NEW k \in 1..Len(program[i].in)
  PROVE  /\ Outgoing(i, k) \in Registers \ CalleeSaved
         /\ Outgoing(i, k) \notin Scratch
         /\ \A q \in 1..Len(program[i].in) : Outgoing(i, q) = Outgoing(i, k) => q = k
<1> DEFINE args == program[i].in
           A(f) == { j \in 1..Len(args) : (args[j] \in Floats) = f }
           B(q) == { j \in 1..(q - 1) : args[j] \in Floats <=> args[q] \in Floats }
<1>1. Len(args) \in Nat  BY ElemsAreVars
<1>2. /\ Numbered(A(FALSE)) \subseteq ArgRegs /\ Numbered(A(TRUE)) \subseteq FpArgs
  BY CodeAssumption DEF Commands, n
<1>3. \A q \in 1..Len(args) :
        /\ args[q] \in Floats => q \in A(TRUE) /\ B(q) = { j \in A(TRUE) : j < q }
        /\ args[q] \notin Floats => q \in A(FALSE) /\ B(q) = { j \in A(FALSE) : j < q }
  BY <1>1
<1>4. \A q \in 1..Len(args) :
        Outgoing(i, q) = IF args[q] \in Floats THEN Fpr(Cardinality(B(q))) ELSE Gpr(Cardinality(B(q)))
  BY DEF Outgoing
<1>5. \A f \in BOOLEAN : A(f) \in SUBSET (1..Len(args))  OBVIOUS
<1>6. IntArgs(i) = Cardinality(A(FALSE))
  BY DEF IntArgs
<1>7. ASSUME NEW f \in BOOLEAN, NEW q \in A(f)
      PROVE  Cardinality({ j \in A(f) : j < q }) \in Numbered(A(f))
  <2> HIDE DEF A
  <2> QED BY <1>1, <1>5, Numbering
<1>8. ASSUME NEW f \in BOOLEAN, NEW q \in A(f), NEW r \in A(f),
             Cardinality({ j \in A(f) : j < q }) = Cardinality({ j \in A(f) : j < r })
      PROVE  q = r
  <2> HIDE DEF A
  <2> QED BY <1>1, <1>5, <1>8, Numbering
<1>9. \A r \in IntCaller : r \in ArgRegs /\ r >= IntArgs(i)
  BY DEF IntCaller
<1>10. \A r : /\ Gpr(r) \in CalleeSaved <=> r \in IntCallee
              /\ Fpr(r) \in CalleeSaved <=> r \in FpCallee
              /\ Gpr(r) \in Scratch <=> r \in IntCaller
              /\ Fpr(r) \in Scratch <=> r \in FpCaller
              /\ r \in ArgRegs => Gpr(r) \in Registers
              /\ r \in FpArgs => Fpr(r) \in Registers
  BY DEF CalleeSaved, Scratch, Registers, Gpr, Fpr
<1>11. \A r, s : /\ Gpr(r) # Fpr(s)
                 /\ Gpr(r) = Gpr(s) => r = s
                 /\ Fpr(r) = Fpr(s) => r = s
  BY DEF Gpr, Fpr
<1>12. CASE args[k] \in Floats
  <2>1. k \in A(TRUE) /\ Cardinality(B(k)) \in Numbered(A(TRUE))  BY <1>3, <1>7, <1>12
  <2>2. Outgoing(i, k) = Fpr(Cardinality(B(k)))  BY <1>4, <1>12
  <2>3. Cardinality(B(k)) \in FpArgs  BY <1>2, <2>1
  <2>4. Cardinality(B(k)) \notin FpCallee \cup FpCaller  BY <2>3, RegisterAssumption
  <2>5. ASSUME NEW q \in 1..Len(args), Outgoing(i, q) = Outgoing(i, k) PROVE q = k
    <3>1. args[q] \in Floats /\ Cardinality(B(q)) = Cardinality(B(k))
      <4> HIDE DEF B
      <4> QED BY <1>4, <1>11, <2>2, <2>5
    <3>2. QED  BY <1>3, <1>8, <1>12, <2>1, <3>1
  <2>6. QED
    <3> HIDE DEF B
    <3> QED BY <1>10, <2>2, <2>3, <2>4, <2>5
<1>13. CASE args[k] \notin Floats
  <2>1. k \in A(FALSE) /\ Cardinality(B(k)) \in Numbered(A(FALSE))  BY <1>3, <1>7, <1>13
  <2>2. Outgoing(i, k) = Gpr(Cardinality(B(k)))  BY <1>4, <1>13
  <2>3. Cardinality(B(k)) \in ArgRegs  BY <1>2, <2>1
  <2>4. Cardinality(B(k)) \notin IntCallee  BY <2>3, RegisterAssumption
  <2>5. Cardinality(B(k)) \notin IntCaller
    <3>1. IsFiniteSet(A(FALSE)) /\ Cardinality(A(FALSE)) \in Nat
      <4>1. IsFiniteSet(1..Len(args))  BY <1>1, FS_Interval
      <4>2. A(FALSE) \in SUBSET (1..Len(args))  OBVIOUS
      <4> HIDE DEF A
      <4>3. QED  BY <4>1, <4>2, FS_Subset, FS_CardinalityType
    <3>2. Cardinality(B(k)) < IntArgs(i) /\ Cardinality(B(k)) \in Nat /\ IntArgs(i) \in Nat
      <4> HIDE DEF A, B
      <4> QED BY <1>6, <2>1, <3>1, NumberedBelow
    <3>3. QED
      <4> HIDE DEF B
      <4> QED BY <1>9, <3>2
  <2>6. ASSUME NEW q \in 1..Len(args), Outgoing(i, q) = Outgoing(i, k) PROVE q = k
    <3>1. args[q] \notin Floats /\ Cardinality(B(q)) = Cardinality(B(k))
      <4> HIDE DEF B
      <4> QED BY <1>4, <1>11, <2>2, <2>6
    <3>2. QED  BY <1>3, <1>8, <1>13, <2>1, <3>1
  <2>7. QED
    <3> HIDE DEF B
    <3> QED BY <1>10, <2>2, <2>3, <2>4, <2>5, <2>6
<1>14. QED  BY <1>12, <1>13

\* So are the registers the parameters arrive in.
LEMMA IncomingApart ==
  ASSUME program \in Programs, NEW i \in Loads
  PROVE  /\ Incoming(i) \in Registers \ CalleeSaved
         /\ Incoming(i) \notin Scratch
         /\ \A q \in Loads : Incoming(q) = Incoming(i) => q = i
<1> DEFINE A(f) == { j \in 1..Len(program) : program[j].op = "arg" /\ (program[j].out[1] \in Floats) = f }
           B(q) == { j \in A(program[q].out[1] \in Floats) : j < q }
<1>1. Len(program) \in Nat /\ Loads \subseteq 1..Len(program) /\ Loads \subseteq Nat
  <2>1. program \in Seq(Command)  BY ProgramAssumption
  <2>2. QED  BY <2>1 DEF Loads, Commands, n
<1>2. /\ Numbered(A(FALSE)) \subseteq ArgRegs /\ Numbered(A(TRUE)) \subseteq FpArgs
  BY CodeAssumption
<1>3. \A q \in Loads : q \in A(program[q].out[1] \in Floats)
  BY <1>1 DEF Loads
<1>4. \A q \in Loads :
        Incoming(q) = IF program[q].out[1] \in Floats
                      THEN Fpr(Cardinality(B(q))) ELSE Gpr(Cardinality(B(q)))
  <2> SUFFICES ASSUME NEW q \in Loads
               PROVE  /\ program[q].out[1] \in Floats => Before(q, TRUE) = Cardinality(B(q))
                      /\ program[q].out[1] \notin Floats => Before(q, FALSE) = Cardinality(B(q))
    BY DEF Incoming
  <2>1. q \in 1..Len(program)  BY <1>1
  <2>2. CASE program[q].out[1] \in Floats
    <3>1. (program[q].out[1] \in Floats) = TRUE  BY <2>2
    <3>2. { j \in 1..(q - 1) : IsLoad(j, TRUE) } = B(q)
      BY <1>1, <2>1, <3>1 DEF IsLoad
    <3>3. QED  BY <2>2, <3>2 DEF Before
  <2>3. CASE program[q].out[1] \notin Floats
    <3>1. (program[q].out[1] \in Floats) = FALSE  BY <2>3
    <3>2. { j \in 1..(q - 1) : IsLoad(j, FALSE) } = B(q)
      BY <1>1, <2>1, <3>1 DEF IsLoad
    <3>3. QED  BY <2>3, <3>2 DEF Before
  <2>4. QED  BY <2>2, <2>3
<1>5. \A f \in BOOLEAN : A(f) \in SUBSET (1..Len(program))  OBVIOUS
<1>6. IntParams = Cardinality(A(FALSE))
  BY DEF IntParams, IsLoad, Commands, n
<1>7. ASSUME NEW f \in BOOLEAN, NEW q \in A(f)
      PROVE  Cardinality({ j \in A(f) : j < q }) \in Numbered(A(f))
  <2> HIDE DEF A
  <2> QED BY <1>1, <1>5, Numbering
<1>8. ASSUME NEW f \in BOOLEAN, NEW q \in A(f), NEW r \in A(f),
             Cardinality({ j \in A(f) : j < q }) = Cardinality({ j \in A(f) : j < r })
      PROVE  q = r
  <2> HIDE DEF A
  <2> QED BY <1>1, <1>5, <1>8, Numbering
<1>9. \A r \in IntCaller : r \in ArgRegs /\ r >= IntParams
  BY DEF IntCaller
<1>10. \A r : /\ Gpr(r) \in CalleeSaved <=> r \in IntCallee
              /\ Fpr(r) \in CalleeSaved <=> r \in FpCallee
              /\ Gpr(r) \in Scratch <=> r \in IntCaller
              /\ Fpr(r) \in Scratch <=> r \in FpCaller
              /\ r \in ArgRegs => Gpr(r) \in Registers
              /\ r \in FpArgs => Fpr(r) \in Registers
  BY DEF CalleeSaved, Scratch, Registers, Gpr, Fpr
<1>11. \A r, s : /\ Gpr(r) # Fpr(s)
                 /\ Gpr(r) = Gpr(s) => r = s
                 /\ Fpr(r) = Fpr(s) => r = s
  BY DEF Gpr, Fpr
<1>12. CASE program[i].out[1] \in Floats
  <2>0. (program[i].out[1] \in Floats) = TRUE  BY <1>12
  <2>1. i \in A(TRUE) /\ Cardinality(B(i)) \in Numbered(A(TRUE))
    <3>1. i \in A(TRUE) /\ B(i) = { j \in A(TRUE) : j < i }  BY <1>3, <2>0
    <3>2. QED
      <4> HIDE DEF A, B
      <4> QED BY <1>7, <3>1
  <2>2. Incoming(i) = Fpr(Cardinality(B(i)))  BY <1>4, <1>12
  <2>3. Cardinality(B(i)) \in FpArgs
    <3> HIDE DEF A, B
    <3> QED BY <1>2, <2>1
  <2>4. Cardinality(B(i)) \notin FpCallee \cup FpCaller
    <3> HIDE DEF A, B
    <3> QED BY <2>3, RegisterAssumption
  <2>5. ASSUME NEW q \in Loads, Incoming(q) = Incoming(i) PROVE q = i
    <3>1. program[q].out[1] \in Floats /\ Cardinality(B(q)) = Cardinality(B(i))
      <4> HIDE DEF A, B
      <4> QED BY <1>4, <1>11, <2>2, <2>5
    <3>2. q \in A(TRUE) /\ B(q) = { j \in A(TRUE) : j < q } /\ B(i) = { j \in A(TRUE) : j < i }
      <4>1. (program[q].out[1] \in Floats) = TRUE  BY <3>1
      <4>2. QED  BY <1>3, <2>0, <4>1
    <3>3. QED
      <4> HIDE DEF A, B
      <4> QED BY <1>8, <2>1, <3>1, <3>2
  <2>6. QED
    <3> HIDE DEF A, B
    <3> QED BY <1>10, <2>2, <2>3, <2>4, <2>5
<1>13. CASE program[i].out[1] \notin Floats
  <2>0. (program[i].out[1] \in Floats) = FALSE  BY <1>13
  <2>1. i \in A(FALSE) /\ Cardinality(B(i)) \in Numbered(A(FALSE))
    <3>1. i \in A(FALSE) /\ B(i) = { j \in A(FALSE) : j < i }  BY <1>3, <2>0
    <3>2. QED
      <4> HIDE DEF A, B
      <4> QED BY <1>7, <3>1
  <2>2. Incoming(i) = Gpr(Cardinality(B(i)))  BY <1>4, <1>13
  <2>3. Cardinality(B(i)) \in ArgRegs
    <3> HIDE DEF A, B
    <3> QED BY <1>2, <2>1
  <2>4. Cardinality(B(i)) \notin IntCallee
    <3> HIDE DEF A, B
    <3> QED BY <2>3, RegisterAssumption
  <2>5. Cardinality(B(i)) \notin IntCaller
    <3>1. IsFiniteSet(A(FALSE)) /\ Cardinality(A(FALSE)) \in Nat
      <4>1. IsFiniteSet(1..Len(program))  BY <1>1, FS_Interval
      <4>2. A(FALSE) \in SUBSET (1..Len(program))  OBVIOUS
      <4> HIDE DEF A
      <4>3. QED  BY <4>1, <4>2, FS_Subset, FS_CardinalityType
    <3>2. Cardinality(B(i)) < IntParams /\ Cardinality(B(i)) \in Nat /\ IntParams \in Nat
      <4> HIDE DEF A, B
      <4> QED BY <1>6, <2>1, <3>1, NumberedBelow
    <3>3. QED
      <4> HIDE DEF A, B
      <4> QED BY <1>9, <3>2
  <2>6. ASSUME NEW q \in Loads, Incoming(q) = Incoming(i) PROVE q = i
    <3>1. program[q].out[1] \notin Floats /\ Cardinality(B(q)) = Cardinality(B(i))
      <4> HIDE DEF A, B
      <4> QED BY <1>4, <1>11, <2>2, <2>6
    <3>2. q \in A(FALSE) /\ B(q) = { j \in A(FALSE) : j < q } /\ B(i) = { j \in A(FALSE) : j < i }
      <4>1. (program[q].out[1] \in Floats) = FALSE  BY <3>1
      <4>2. QED  BY <1>3, <2>0, <4>1
    <3>3. QED
      <4> HIDE DEF A, B
      <4> QED BY <1>8, <2>1, <3>1, <3>2
  <2>7. QED
    <3> HIDE DEF A, B
    <3> QED BY <1>10, <2>2, <2>3, <2>4, <2>5, <2>6
<1>14. QED  BY <1>12, <1>13

-----------------------------------------------------------------------------
(***************************************************************************)
(* What the argument moves of a call leave.                                *)
(***************************************************************************)
Moves(i, f) == f = [k \in 0..Len(program[i].in) |->
                      IF k = 0 THEN mach ELSE Pass(f[k - 1], i, k)]

\* The moves can be made one after the other.
LEMMA MovesExist ==
  ASSUME NEW i, Len(program[i].in) \in Nat
  PROVE  \E f : Moves(i, f) /\ Moved(i) = f[Len(program[i].in)]
<1> DEFINE L == Len(program[i].in)
           Upto(m, f) == f = [k \in 0..m |-> IF k = 0 THEN mach ELSE Pass(f[k - 1], i, k)]
           S == { m \in 0..L : \E f : Upto(m, f) }
<1>1. 0 \in S
  <2> DEFINE f == [k \in 0..0 |-> mach]
  <2>1. f = [k \in 0..0 |-> IF k = 0 THEN mach ELSE Pass(f[k - 1], i, k)]
    <3>1. \A k \in 0..0 : k = 0  OBVIOUS
    <3>2. QED  BY <3>1
  <2>2. Upto(0, f)  BY <2>1
  <2>3. QED
    <3> HIDE DEF f, Upto
    <3> QED BY <2>2
<1>2. ASSUME NEW m \in 0..L, m + 1 \in 0..L, m \in S PROVE m + 1 \in S
  <2>1. PICK f : Upto(m, f)  BY <1>2
  <2> DEFINE g == [k \in 0..(m + 1) |-> IF k <= m THEN f[k] ELSE Pass(f[m], i, m + 1)]
  <2>2. \A k \in 0..m : f[k] = IF k = 0 THEN mach ELSE Pass(f[k - 1], i, k)  BY <2>1
  <2>3. \A k \in 0..(m + 1) : k \in 0..m \/ k = m + 1  OBVIOUS
  <2>4. \A k \in 0..m : g[k] = f[k]  OBVIOUS
  <2>5. g[m + 1] = Pass(g[m], i, m + 1)  BY <2>4
  <2>6. \A k \in 0..m : k # 0 => k - 1 \in 0..m  OBVIOUS
  <2>7. \A k \in 0..(m + 1) : g[k] = IF k = 0 THEN mach ELSE Pass(g[k - 1], i, k)
    <3> SUFFICES ASSUME NEW k \in 0..(m + 1)
                 PROVE  g[k] = IF k = 0 THEN mach ELSE Pass(g[k - 1], i, k)
      OBVIOUS
    <3>1. CASE k \in 0..m
      <4> HIDE DEF g
      <4> QED BY <2>2, <2>4, <2>6, <3>1
    <3>2. CASE k = m + 1
      <4>1. k # 0 /\ k - 1 = m  BY <3>2
      <4> HIDE DEF g
      <4>2. QED  BY <2>5, <3>2, <4>1
    <3>3. QED  BY <2>3, <3>1, <3>2
  <2>8. Upto(m + 1, g)
    <3>1. g = [k \in 0..(m + 1) |-> g[k]]  OBVIOUS
    <3> HIDE DEF g
    <3>2. QED  BY <2>7, <3>1
  <2>9. QED
    <3> HIDE DEF g, Upto
    <3> QED BY <1>2, <2>8
<1>3. L \in S
  <2>1. 0..L \subseteq S
    <3> HIDE DEF S
    <3> QED BY <1>1, <1>2, UpTo
  <2>2. QED  BY <2>1
<1>4. \E f : Moves(i, f)  BY <1>3 DEF Moves
<1> DEFINE f == CHOOSE f : Moves(i, f)
<1>5. Moves(i, f)  BY <1>4
<1>6. Moved(i) = f[L]
  BY DEF Moved, Moves
<1>7. QED  BY <1>5, <1>6

\* Where no argument passes.
Unpassed == (Places \ Registers) \cup Scratch \cup CalleeSaved

\* What reading v reads is such a place.
Readable(v) ==
  /\ v \notin Statics => home[v] \in Unpassed
  /\ v \in Statics => Static(v) \in Unpassed
  /\ v \in DOMAIN gaddr => Gpr(gaddr[v]) \in Unpassed

LEMMA LoadSame ==
  ASSUME NEW m, NEW m2, NEW v, Readable(v), \A x \in Unpassed : m[x] = m2[x]
  PROVE  Load(m, v) = Load(m2, v)
BY DEF Load, Astray, Readable

LEMMA UnpassedApart ==
  ASSUME program \in Programs
  PROVE  /\ Unpassed \subseteq Places /\ Registers \subseteq Places
         /\ \A i \in Commands : program[i].op = "call" =>
              \A k \in 1..Len(program[i].in) :
                Outgoing(i, k) \in Registers /\ Outgoing(i, k) \notin Unpassed
         /\ \A i \in Loads : Incoming(i) \in Registers /\ Incoming(i) \notin Unpassed
<1>1. Scratch \subseteq Registers  BY DEF Scratch, Registers, IntCaller
<1>2. CalleeSaved \subseteq Registers  BY CalleeSavedAreRegisters
<1>3. Registers \subseteq Places  BY DEF Places
<1>4. Unpassed \subseteq Places  BY <1>1, <1>2, <1>3 DEF Unpassed
<1>5. QED  BY <1>3, <1>4, OutgoingApart, IncomingApart DEF Unpassed

LEMMA MovedLeaves ==
  ASSUME program \in Programs, NEW i \in Commands, program[i].op = "call",
         DOMAIN mach = Places
  PROVE  /\ DOMAIN Moved(i) = Places
         /\ \A x \in Places :
              (\A k \in 1..Len(program[i].in) : Outgoing(i, k) # x) => Moved(i)[x] = mach[x]
         /\ \A k \in 1..Len(program[i].in) :
              Readable(program[i].in[k]) =>
                Moved(i)[Outgoing(i, k)] = Load(mach, program[i].in[k])
<1> DEFINE L == Len(program[i].in)
<1>1. L \in Nat  BY ElemsAreVars
<1>2. PICK f : Moves(i, f) /\ Moved(i) = f[L]  BY <1>1, MovesExist
<1>3. \A k \in 0..L : f[k] = IF k = 0 THEN mach ELSE Pass(f[k - 1], i, k)
  BY <1>2 DEF Moves
<1> DEFINE Good(k) ==
             /\ DOMAIN f[k] = Places
             /\ \A x \in Places : (\A j \in 1..L : Outgoing(i, j) # x) => f[k][x] = mach[x]
             /\ \A j \in 1..k : Readable(program[i].in[j]) =>
                  f[k][Outgoing(i, j)] = Load(mach, program[i].in[j])
           S == { k \in 0..L : Good(k) }
<1>4. 0 \in S
  <2>1. f[0] = mach  BY <1>1, <1>3
  <2>2. Good(0)  BY <2>1
  <2>3. QED  BY <1>1, <2>2
<1>5. ASSUME NEW k \in 0..L, k + 1 \in 0..L, k \in S PROVE k + 1 \in S
  <2> DEFINE o == Outgoing(i, k + 1)
             v == program[i].in[k + 1]
  <2>1. k + 1 \in 1..L /\ (k + 1) # 0 /\ (k + 1) - 1 = k  BY <1>1, <1>5
  <2>2. f[k + 1] = [f[k] EXCEPT ![o] = Load(f[k], v)]
    <3>1. f[k + 1] = Pass(f[k], i, k + 1)  BY <1>3, <1>5, <2>1
    <3>2. QED  BY <3>1 DEF Pass
  <2>3. Good(k)  BY <1>5
  <2>4. o \in Places /\ \A j \in 1..L : j # k + 1 => Outgoing(i, j) # o
    BY <2>1, UnpassedApart, OutgoingApart
  <2>5. DOMAIN f[k + 1] = Places
    <3>1. DOMAIN f[k] = Places  BY <2>3
    <3>2. QED  BY <2>2, <3>1
  <2>6. \A x \in Places : f[k + 1][x] = IF x = o THEN Load(f[k], v) ELSE f[k][x]
    <3>1. DOMAIN f[k] = Places  BY <2>3
    <3>2. QED  BY <2>2, <3>1
  <2>7. Readable(v) => Load(f[k], v) = Load(mach, v)
    <3>1. \A x \in Unpassed : f[k][x] = mach[x]
      <4>1. \A x \in Unpassed : x \in Places /\ \A j \in 1..L : Outgoing(i, j) # x
        BY UnpassedApart
      <4>2. QED  BY <2>3, <4>1
    <3>2. QED  BY <3>1, LoadSame
  <2>8. \A x \in Places : (\A j \in 1..L : Outgoing(i, j) # x) => f[k + 1][x] = mach[x]
    <3>1. ASSUME NEW x \in Places, \A j \in 1..L : Outgoing(i, j) # x
          PROVE  f[k + 1][x] = mach[x]
      <4>1. x # o  BY <2>1, <3>1
      <4>2. f[k][x] = mach[x]  BY <2>3, <3>1
      <4>3. QED  BY <2>6, <4>1, <4>2
    <3>2. QED  BY <3>1
  <2>9. ASSUME NEW j \in 1..(k + 1), Readable(program[i].in[j])
        PROVE  f[k + 1][Outgoing(i, j)] = Load(mach, program[i].in[j])
    <3>1. CASE j = k + 1  BY <2>4, <2>6, <2>7, <2>9, <3>1
    <3>2. CASE j # k + 1
      <4>1. j \in 1..k /\ j \in 1..L  BY <1>1, <2>1, <3>2
      <4>2. Outgoing(i, j) \in Places /\ Outgoing(i, j) # o  BY <2>4, <3>2, <4>1, UnpassedApart
      <4>3. f[k][Outgoing(i, j)] = Load(mach, program[i].in[j])  BY <2>3, <2>9, <4>1
      <4>4. QED  BY <2>6, <4>2, <4>3
    <3>3. QED  BY <3>1, <3>2
  <2>10. Good(k + 1)
    <3> HIDE DEF o, v
    <3> QED BY <2>5, <2>8, <2>9
  <2>11. QED
    <3> HIDE DEF Good
    <3> QED BY <1>5, <2>10
<1>6. L \in S
  <2>1. 0..L \subseteq S
    <3> HIDE DEF S
    <3> QED BY <1>1, <1>4, <1>5, UpTo
  <2>2. QED  BY <1>1, <2>1
<1>7. Good(L)  BY <1>6
<1>8. QED  BY <1>2, <1>7

-----------------------------------------------------------------------------
(***************************************************************************)
(* Where the homes of the values of a program lie once it runs.            *)
(***************************************************************************)
Laid == IInv /\ Analysed /\ Placed /\ FrameLaid

\* The result of a fused comparison is defined there alone, and read by the
\* branch after it alone.
LEMMA FusedResult ==
  ASSUME Laid, NEW v \in Unmade
  PROVE  \E i \in fuse :
           /\ program[i].op = "compare" /\ i + 1 \in Commands /\ program[i + 1].op = "branch"
           /\ \A j \in Commands : v \in Elems(program[j].out) <=> j = i
           /\ \A j \in Commands : v \in Elems(program[j].in) => j = i + 1
<1>1. PICK i \in fuse : v = program[i].out[1]  BY DEF Unmade
<1>2. i \in Commands  BY <1>1 DEF Laid, IInv, TypeOK
<1>3. /\ program[i].op = "compare" /\ i + 1 \in Commands /\ program[i + 1].op = "branch"
      /\ \A j \in Commands : v \in Elems(program[j].in) => j = i + 1
  BY <1>1 DEF Laid, Analysed, FusedKnown
<1>4. program \in Programs  BY DEF Laid, IInv
<1>5. Len(program[i].out) = 1 /\ \A j \in Commands : j # i => v \notin Elems(program[j].out)
  BY <1>1, <1>2, <1>3, <1>4, ProgramAssumption DEF Commands, n
<1>6. v \in Elems(program[i].out)  BY <1>1, <1>5 DEF Elems
<1>7. QED  BY <1>3, <1>5, <1>6

\* A temporary copied and its target: the target has a home of its own.
LEMMA CopyTarget ==
  ASSUME Laid, NoChains, NEW u \in DOMAIN coalesce
  PROVE  /\ \E d, k \in Commands : Window(u, d, k) /\ d < k
         /\ u \in Vars /\ coalesce[u] \in Own /\ coalesce[u] # u
         /\ {u, coalesce[u]} \cap (Forced \cup Statics \cup Unmade) = {}
         /\ {u, coalesce[u]} \subseteq Mentioned
<1>1. PICK d \in Commands, k \in Commands : Window(u, d, k)
  BY DEF Laid, Analysed, CopiesKnown
<1>2. u \in Vars /\ coalesce[u] \in Own /\ coalesce[u] # u
  BY DEF Laid, IInv, TypeOK, Own, NoChains
<1>3. /\ program[k].op = "set" /\ program[k].in = <<u>> /\ program[k].out = <<coalesce[u]>>
      /\ u \in Elems(program[k].in) /\ coalesce[u] \in Elems(program[k].out)
      /\ u \in Elems(program[d].out)
  BY <1>1 DEF Window, Elems
<1>4. d # k
  <2>1. u \notin Elems(program[k].out)  BY <1>2, <1>3 DEF Elems
  <2>2. QED  BY <1>3, <2>1
<1>5. d < k
  <2>1. d <= k  BY <1>1 DEF Window, CoalesceSafe
  <2>2. d \in Nat /\ k \in Nat  BY DEF Commands
  <2>3. QED  BY <1>4, <2>1, <2>2
<1>6. {u, coalesce[u]} \subseteq Mentioned  BY <1>3 DEF Mentioned
<1>7. u \notin Unmade /\ coalesce[u] \notin Unmade
  <2>1. ASSUME NEW v \in Unmade, v = u \/ v = coalesce[u] PROVE FALSE
    <3>1. PICK i \in fuse :
            /\ program[i].op = "compare" /\ program[i + 1].op = "branch" /\ i + 1 \in Commands
            /\ \A j \in Commands : v \in Elems(program[j].out) <=> j = i
            /\ \A j \in Commands : v \in Elems(program[j].in) => j = i + 1
      BY FusedResult
    <3>2. QED  BY <1>3, <2>1, <3>1
  <2>2. QED  BY <2>1
<1>8. {u, coalesce[u]} \cap (Forced \cup Statics) = {}
  BY DEF Laid, Analysed, CopiesKnown
<1>9. QED  BY <1>1, <1>2, <1>5, <1>6, <1>7, <1>8

\* A value's home, or where a static value is.
Place(v) == IF v \in Statics THEN Static(v) ELSE home[v]

LEMMA PlacesApart ==
  /\ \A v : Static(v) \notin Registers
  /\ \A v, k : Static(v) # Slot(k)
  /\ \A v, w : Static(v) = Static(w) => v = w
  /\ \A k : Slot(k) \notin Registers /\ Slot(k) # NoHome
  /\ \A v : Static(v) # NoHome
BY DEF Static, Slot, Registers, NoHome, Gpr, Fpr

\* Storing to a value leaves the saved registers, the cached addresses and the
\* parameters not loaded yet alone.
LEMMA PlaceSpares ==
  ASSUME Laid, phase = "run", NEW v \in Vars
  PROVE  /\ Place(v) \notin Cached
         /\ Place(v) \in CalleeSaved => Place(v) \in used
         /\ \A x \in used : SaveWord(x) # Place(v)
         /\ \A i \in Loads : Incoming(i) # Place(v)
<1>1. program \in Programs /\ Given /\ used \subseteq CalleeSaved
  BY DEF Laid, IInv, TypeOK, Given
<1>2. Cached \subseteq used /\ used \subseteq Registers /\ Cached \subseteq Registers
  BY <1>1, CalleeSavedAreRegisters DEF Laid, Placed
<1>3. Scratch \cap CalleeSaved = {}
  BY RegisterAssumption DEF Scratch, CalleeSaved, IntCaller, Gpr, Fpr
<1>4. Place(v) \in Registers => Place(v) \in Scratch \cup (used \ Cached)
  BY PlacesApart DEF Place, Laid, Placed
<1>5. Place(v) \notin Cached
  BY <1>1, <1>2, <1>3, <1>4
<1>6. Place(v) \in CalleeSaved => Place(v) \in used
  BY <1>1, <1>2, <1>3, <1>4, CalleeSavedAreRegisters
<1>7. ASSUME NEW x \in used, SaveWord(x) = Place(v) PROVE FALSE
  <2>1. PICK k \in Nat : SaveWord(x) = Slot(k) /\ 2 <= k /\ k < 2 + Cardinality(used)
    BY SaveWords DEF Laid
  <2>2. v \notin Statics /\ home[v] = Slot(k)
    BY <1>7, <2>1, PlacesApart DEF Place
  <2>3. OnFrame(home[v])
    BY <1>1, <2>2, PlacesApart DEF Laid, FrameLaid
  <2>4. PICK q \in Nat : Slot(k) = Slot(q) /\ 2 + Cardinality(used) <= q  BY <2>2, <2>3 DEF OnFrame
  <2>5. k = q  BY <2>4 DEF Slot
  <2>6. Cardinality(used) \in Nat  BY UsedCounted DEF Laid
  <2>7. QED  BY <2>1, <2>4, <2>5, <2>6
<1>8. ASSUME NEW i \in Loads PROVE Incoming(i) # Place(v)
  <2>1. Incoming(i) \in Registers \ CalleeSaved /\ Incoming(i) \notin Scratch
    BY <1>1, IncomingApart
  <2>2. QED  BY <1>1, <1>4, <2>1
<1>9. QED  BY <1>5, <1>6, <1>7, <1>8

\* Where the saved registers are.
LEMMA SaveArea ==
  ASSUME Laid, phase = "run"
  PROVE  \A x \in used : SaveWord(x) \in Places /\ SaveWord(x) \notin Registers
                         /\ \A v : SaveWord(x) # Static(v)
<1> SUFFICES ASSUME NEW x \in used
             PROVE  SaveWord(x) \in Places /\ SaveWord(x) \notin Registers
                    /\ \A v : SaveWord(x) # Static(v)
  OBVIOUS
<1>1. PICK k \in Nat : SaveWord(x) = Slot(k) /\ 2 <= k /\ k < 2 + Cardinality(used)
  BY SaveWords DEF Laid
<1>2. Cardinality(used) \in Nat /\ off \in Nat /\ off >= 2 + Cardinality(used)
  BY UsedCounted DEF Laid, IInv, TypeOK, FrameLaid
<1>3. k \in 0..(off - 1)  BY <1>1, <1>2
<1>4. Slot(k) \in Places  BY <1>3 DEF Places, Frame
<1>5. QED  BY <1>1, <1>4, PlacesApart

-----------------------------------------------------------------------------
(***************************************************************************)
(* The frame of the function while it runs: the caller's registers are     *)
(* where they were or saved, the cached addresses and the parameters still *)
(* to be loaded are in their registers.                                    *)
(***************************************************************************)
CallerKept ==
  /\ \A x \in CalleeSaved \ used : mach[x] = Kept(x)
  /\ \A x \in used : mach[SaveWord(x)] = Kept(x)

AddressesCached == \A v \in DOMAIN gaddr : mach[Gpr(gaddr[v])] = AddressOf(v)

ParametersWait ==
  \A i \in Loads : i >= pc => mach[Incoming(i)] = Parameter(program[i].out[1])

Framed == DOMAIN mach = Places /\ CallerKept /\ AddressesCached /\ ParametersWait

\* What running leaves of the allocation: all of it.
LEMMA AllocationStill ==
  ASSUME UNCHANGED allocVars
  PROVE  /\ Registers' = Registers /\ CalleeSaved' = CalleeSaved /\ Places' = Places
         /\ Scratch' = Scratch /\ Cached' = Cached /\ Loads' = Loads /\ Commands' = Commands
         /\ \A x : SaveWord(x)' = SaveWord(x)
         /\ \A i : Incoming(i)' = Incoming(i)
         /\ program' = program /\ used' = used /\ gaddr' = gaddr /\ phase' = phase
         /\ coalesce' = coalesce /\ fuse' = fuse /\ home' = home /\ livein' = livein
<1> USE DEF allocVars, copies, refs, lives, ranges, pools, homes
<1>1. Registers' = Registers /\ CalleeSaved' = CalleeSaved
  BY DEF Registers, CalleeSaved
<1>2. Places' = Places  BY <1>1 DEF Places, Frame
<1>3. Scratch' = Scratch
  BY DEF Scratch, IntCaller, IntParams, IsLoad, IntArgs, Commands, n
<1>4. Cached' = Cached /\ Loads' = Loads /\ Commands' = Commands
  BY DEF Cached, Loads, Commands, n
<1>5. \A x : SaveWord(x)' = SaveWord(x)  BY DEF SaveWord
<1>6. \A i : Incoming(i)' = Incoming(i)  BY DEF Incoming, Before, IsLoad
<1>7. QED  BY <1>1, <1>2, <1>3, <1>4, <1>5, <1>6

\* Parameters are loaded before anything else, once.
LEMMA LoadsComeFirst ==
  ASSUME program \in Programs, NEW c \in Commands, NEW j \in Succ(c), NEW i \in Loads, i >= j
  PROVE  program[c].op = "arg" /\ j = c + 1
<1>1. /\ c \in Nat /\ c >= 1 /\ j \in Nat /\ i \in Nat /\ j \in Commands /\ i \in Commands /\ j >= 1
  BY DEF Succ, Commands, Loads
<1>2. \A q \in 1..i : program[q].op = "arg"
  BY CodeAssumption DEF Loads, Commands, n
<1>3. program[j].op = "arg"  BY <1>1, <1>2
<1>4. j # program[c].to
  <2>1. program[c].to # 0 => program[program[c].to].op = "label"
    BY ProgramAssumption DEF Commands, n
  <2>2. QED  BY <1>1, <1>3, <2>1
<1>5. j = c + 1  BY <1>4 DEF Succ
<1>6. c \in 1..i  BY <1>1, <1>5
<1>7. QED  BY <1>2, <1>5, <1>6

\* The machine when a command has computed its result and not stored it yet.
Base(i) == IF program[i].op = "call" THEN Called(Moved(i)) ELSE mach

LEMMA BaseKeeps ==
  ASSUME program \in Programs, NEW i \in Commands, DOMAIN mach = Places
  PROVE  /\ DOMAIN Base(i) = Places
         /\ \A x \in (Places \ Registers) \cup CalleeSaved : Base(i)[x] = mach[x]
<1>1. CASE program[i].op # "call"  BY <1>1 DEF Base
<1>2. CASE program[i].op = "call"
  <2>1. /\ DOMAIN Moved(i) = Places
        /\ \A x \in Unpassed : Moved(i)[x] = mach[x]
    BY <1>2, MovedLeaves, UnpassedApart
  <2>2. Base(i) = [x \in Places |-> IF x \in Registers \ CalleeSaved THEN Junk ELSE Moved(i)[x]]
    BY <1>2, <2>1 DEF Base, Called
  <2>3. CalleeSaved \subseteq Places  BY CalleeSavedAreRegisters DEF Places
  <2>4. QED  BY <2>1, <2>2, <2>3 DEF Unpassed
<1>3. QED  BY <1>1, <1>2

\* What is in the machine after a command.
LEMMA ComputeStores ==
  ASSUME Laid, NEW i \in Commands, NEW j, Compute(i, j), DOMAIN mach = Places
  PROVE  /\ pc' = j /\ clock' = clock + 1 /\ UNCHANGED allocVars
         /\ DOMAIN mach' = Places
         /\ \A x \in Places :
              (program[i].out = <<>> \/ i \in fuse \/ x # Place(program[i].out[1]))
                => mach'[x] = Base(i)[x]
         /\ program[i].out # <<>> => program[i].out[1] \in Vars
<1>1. pc' = j /\ clock' = clock + 1 /\ UNCHANGED allocVars
  BY DEF Compute
<1>2. program \in Programs  BY DEF Laid, IInv
<1>3. DOMAIN Base(i) = Places  BY <1>2, BaseKeeps
<1>4. PICK y : mach' = IF program[i].out = <<>> \/ i \in fuse THEN Base(i)
                       ELSE Store(Base(i), program[i].out[1], y)
  BY DEF Compute, Base
<1>5. \/ mach' = Base(i)
      \/ /\ ~(program[i].out = <<>> \/ i \in fuse)
         /\ mach' = [Base(i) EXCEPT ![Place(program[i].out[1])] = y]
  BY <1>4 DEF Store, Place
<1>6. program[i].out # <<>> => program[i].out[1] \in Vars
  <2>1. program \in Seq(Command)  BY DEF Laid, IInv, TypeOK
  <2>2. program[i] \in Command  BY <2>1 DEF Commands, n
  <2>3. program[i].out \in Seq(Vars)  BY <2>2 DEF Command
  <2>4. QED  BY <2>3
<1>7. QED  BY <1>1, <1>3, <1>5, <1>6

LEMMA ComputeKeepsFrame ==
  ASSUME Laid, phase = "run", pc \in Commands, Framed, NEW j, Compute(pc, j),
         \A i \in Loads : i >= j => program[pc].op = "arg" /\ j = pc + 1
  PROVE  Framed'
<1>1. program \in Programs /\ used \subseteq CalleeSaved /\ CalleeSaved \subseteq Places
  BY CalleeSavedAreRegisters DEF Laid, IInv, TypeOK, Places
<1>2. /\ pc' = j /\ UNCHANGED allocVars /\ DOMAIN mach' = Places
      /\ \A x \in Places :
           (program[pc].out = <<>> \/ pc \in fuse \/ x # Place(program[pc].out[1]))
             => mach'[x] = Base(pc)[x]
      /\ program[pc].out # <<>> => program[pc].out[1] \in Vars
  BY ComputeStores DEF Framed
<1>3. \A x \in (Places \ Registers) \cup CalleeSaved : Base(pc)[x] = mach[x]
  BY <1>1, BaseKeeps DEF Framed
<1>4. ASSUME NEW x \in CalleeSaved \ used PROVE mach'[x] = mach[x]
  <2>1. program[pc].out # <<>> => x # Place(program[pc].out[1])
    BY <1>2, PlaceSpares
  <2>2. QED  BY <1>1, <1>2, <1>3, <2>1
<1>5. ASSUME NEW x \in used PROVE mach'[SaveWord(x)] = mach[SaveWord(x)]
  <2>1. program[pc].out # <<>> => SaveWord(x) # Place(program[pc].out[1])
    BY <1>2, PlaceSpares
  <2>2. SaveWord(x) \in Places \ Registers  BY SaveArea
  <2>3. QED  BY <1>2, <1>3, <2>1, <2>2
<1>6. ASSUME NEW x \in Cached PROVE mach'[x] = mach[x]
  <2>1. program[pc].out # <<>> => x # Place(program[pc].out[1])
    BY <1>2, PlaceSpares
  <2>2. x \in CalleeSaved  BY <1>1 DEF Laid, Placed
  <2>3. QED  BY <1>1, <1>2, <1>3, <2>1, <2>2
<1>7. ASSUME NEW i \in Loads, i >= j
      PROVE  i >= pc /\ mach'[Incoming(i)] = mach[Incoming(i)]
  <2>1. i \in Nat /\ pc \in Nat  BY <1>1 DEF Loads, Commands
  <2>3. program[pc].op = "arg" /\ j = pc + 1  BY <1>7
  <2>4. Incoming(i) \in Places  BY <1>1, UnpassedApart
  <2>5. program[pc].out # <<>> => Incoming(i) # Place(program[pc].out[1])
    BY <1>2, PlaceSpares
  <2>6. Base(pc) = mach  BY <2>3 DEF Base
  <2>7. QED  BY <1>2, <1>7, <2>1, <2>3, <2>4, <2>5, <2>6
<1>8. CallerKept'
  BY <1>2, <1>4, <1>5, AllocationStill DEF CallerKept, Framed
<1>9. AddressesCached'
  <2>1. \A v \in DOMAIN gaddr : mach'[Gpr(gaddr[v])] = AddressOf(v)
    BY <1>6 DEF Framed, AddressesCached, Cached
  <2>2. QED  BY <1>2, <2>1, AllocationStill DEF AddressesCached
<1>10. ParametersWait'
  <2>1. \A i \in Loads : i >= j => mach'[Incoming(i)] = Parameter(program[i].out[1])
    BY <1>7 DEF Framed, ParametersWait
  <2>2. QED  BY <1>2, <2>1, AllocationStill DEF ParametersWait
<1>11. QED  BY <1>2, <1>8, <1>9, <1>10, AllocationStill DEF Framed

\* The prologue makes the frame.
LEMMA EnterFrames ==
  ASSUME Laid, Enter
  PROVE  /\ Framed'
         /\ \A v \in Statics : mach'[Static(v)] = env[v]
<1>1. program \in Programs /\ used \subseteq CalleeSaved /\ CalleeSaved \subseteq Places
      /\ Registers \subseteq Places /\ used \subseteq Registers /\ phase = "run"
  BY CalleeSavedAreRegisters DEF Laid, IInv, TypeOK, Places, Enter
<1>2. /\ pc' = 1 /\ UNCHANGED allocVars
      /\ mach' = [x \in Places |->
                   IF \E v \in DOMAIN gaddr : Gpr(gaddr[v]) = x
                   THEN AddressOf(CHOOSE v \in DOMAIN gaddr : Gpr(gaddr[v]) = x)
                   ELSE Saved(Arrival)[x]]
  BY DEF Enter
<1>3. \A x \in Places : x \notin Cached => mach'[x] = Saved(Arrival)[x]
  BY <1>2 DEF Cached
<1>4. \A x \in CalleeSaved : Arrival[x] = Kept(x)
  BY <1>1 DEF Arrival
<1>5. /\ \A x \in used : Saved(Arrival)[SaveWord(x)] = Kept(x)
      /\ \A x \in Places : (\A y \in used : SaveWord(y) # x) => Saved(Arrival)[x] = Arrival[x]
  <2>1. DOMAIN Arrival = Places  BY DEF Arrival
  <2>2. ASSUME NEW x \in used PROVE Saved(Arrival)[SaveWord(x)] = Kept(x)
    <3>1. SaveWord(x) \in Places  BY <1>1, SaveArea
    <3> DEFINE z == CHOOSE y \in used : SaveWord(y) = SaveWord(x)
    <3>2. z \in used /\ SaveWord(z) = SaveWord(x)  OBVIOUS
    <3>3. z = x  BY <3>2, SaveWords DEF Laid
    <3>4. Saved(Arrival)[SaveWord(x)] = Arrival[z]  BY <2>1, <3>1 DEF Saved
    <3>5. QED  BY <1>1, <1>4, <3>3, <3>4
  <2>3. QED  BY <2>1, <2>2 DEF Saved
<1>6. Cached \subseteq used  BY DEF Laid, Placed
<1>7. \A x \in used : SaveWord(x) \in Places \ Registers  BY <1>1, SaveArea
<1>8. CallerKept'
  <2>1. \A x \in CalleeSaved \ used : mach'[x] = Kept(x)
    BY <1>1, <1>3, <1>4, <1>5, <1>6, <1>7, CalleeSavedAreRegisters
  <2>2. \A x \in used : mach'[SaveWord(x)] = Kept(x)
    BY <1>1, <1>3, <1>5, <1>6, <1>7
  <2>3. QED  BY <1>2, <2>1, <2>2, AllocationStill DEF CallerKept
<1>9. AddressesCached'
  <2>1. ASSUME NEW v \in DOMAIN gaddr PROVE mach'[Gpr(gaddr[v])] = AddressOf(v)
    <3> DEFINE z == CHOOSE w \in DOMAIN gaddr : Gpr(gaddr[w]) = Gpr(gaddr[v])
    <3>1. z \in DOMAIN gaddr /\ Gpr(gaddr[z]) = Gpr(gaddr[v])  OBVIOUS
    <3>2. gaddr[z] = gaddr[v]  BY <3>1 DEF Gpr
    <3>3. z = v  BY <3>1, <3>2 DEF Laid, Placed
    <3>4. Gpr(gaddr[v]) \in Places  BY <1>1, <1>6 DEF Cached
    <3>5. QED  BY <1>2, <3>3, <3>4
  <2>2. QED  BY <1>2, <2>1, AllocationStill DEF AddressesCached
<1>10. ParametersWait'
  <2>1. ASSUME NEW i \in Loads PROVE mach'[Incoming(i)] = Parameter(program[i].out[1])
    <3>1. Incoming(i) \in Registers \ CalleeSaved  BY <1>1, IncomingApart
    <3>2. mach'[Incoming(i)] = Arrival[Incoming(i)]
      BY <1>1, <1>3, <1>5, <1>6, <1>7, <3>1
    <3> DEFINE z == CHOOSE q \in Loads : Incoming(q) = Incoming(i)
    <3>3. z \in Loads /\ Incoming(z) = Incoming(i)  BY <2>1
    <3>4. z = i  BY <1>1, <3>3, IncomingApart
    <3>5. Incoming(i)[1] # "static"  BY DEF Incoming, Fpr, Gpr
    <3>6. Arrival[Incoming(i)] = Parameter(program[z].out[1])
      BY <1>1, <2>1, <3>1, <3>5 DEF Arrival
    <3>7. QED  BY <3>2, <3>4, <3>6
  <2>2. QED  BY <1>2, <2>1, AllocationStill DEF ParametersWait
<1>11. ASSUME NEW v \in Statics PROVE mach'[Static(v)] = env[v]
  <2>1. Static(v) \in Places /\ Static(v) \notin Registers
    BY PlacesApart DEF Places
  <2>2. \A y \in used : SaveWord(y) # Static(v)  BY <1>1, SaveArea
  <2>3. mach'[Static(v)] = Arrival[Static(v)]
    BY <1>1, <1>3, <1>5, <1>6, <2>1, <2>2
  <2>4. Static(v)[1] = "static" /\ Static(v)[2] = v  BY DEF Static
  <2>5. QED  BY <2>1, <2>3, <2>4, CalleeSavedAreRegisters DEF Arrival
<1>12. Places' = Places /\ DOMAIN mach' = Places  BY <1>2, AllocationStill
<1>13. QED  BY <1>8, <1>9, <1>10, <1>11, <1>12 DEF Framed

\* The epilogue gives the caller its registers.
LEMMA LeaveRestores ==
  ASSUME Laid, Framed, Leave
  PROVE  \A x \in CalleeSaved : mach'[x] = Kept(x)
<1>1. mach' = [x \in Places |-> IF x \in used THEN mach[SaveWord(x)] ELSE mach[x]]
  BY DEF Leave, Restored, Framed
<1>2. CalleeSaved \subseteq Places  BY CalleeSavedAreRegisters DEF Places
<1>3. QED  BY <1>1, <1>2 DEF Framed, CallerKept

-----------------------------------------------------------------------------
(***************************************************************************)
(* What the homes stand for.  Between its definition and its copy a        *)
(* temporary has the home of its target, which stands for nothing then.    *)
(***************************************************************************)
InWindow(u, i) == \E d, k \in Commands : Window(u, d, k) /\ d < i /\ i <= k

Stands(v, i) ==
  IF v \in DOMAIN coalesce THEN InWindow(v, i)
  ELSE \A u \in DOMAIN coalesce : InWindow(u, i) => coalesce[u] # v

\* What the code to come may read of v: it is live, or kept in memory anyway.
Followed(v, i) ==
  /\ v \in Mentioned \ Unmade
  /\ v \in Forced \cup Statics \/ Target(v) \in livein[i]

LEMMA OutElems ==
  ASSUME program \in Programs, NEW i \in Commands
  PROVE  /\ program[i].out = <<>> => Elems(program[i].out) = {}
         /\ program[i].out # <<>> => Elems(program[i].out) = {program[i].out[1]}
         /\ Elems(program[i].in) \cup Elems(program[i].out) \subseteq Mentioned
         /\ Mentioned \subseteq Vars
<1>1. program \in Seq(Command) /\ Len(program[i].out) <= 1
  BY ProgramAssumption DEF Commands, n
<1>2. program[i] \in Command  BY <1>1 DEF Commands, n
<1>3. program[i].out \in Seq(Vars)  BY <1>2 DEF Command
<1>4. program[i].out # <<>> => Len(program[i].out) = 1
  <2>1. Len(program[i].out) \in Nat  BY <1>3
  <2>2. Len(program[i].out) = 0 => program[i].out = <<>>  BY <1>3
  <2>3. \A m \in Nat : m <= 1 => m = 0 \/ m = 1  OBVIOUS
  <2>4. QED  BY <1>1, <2>1, <2>2, <2>3
<1>5. Mentioned \subseteq Vars  BY ElemsAreVars DEF Mentioned
<1>6. QED  BY <1>4, <1>5 DEF Elems, Mentioned

\* Control enters a window at the definition and passes straight through it.
LEMMA WindowIsStraight ==
  ASSUME program \in Programs, NEW u, NEW d \in Commands, NEW k \in Commands, Window(u, d, k),
         NEW c \in Commands, NEW j \in Succ(c)
  PROVE  /\ d < j /\ j <= k => j = c + 1 /\ d <= c
         /\ d <= c /\ c < k => j = c + 1
<1>1. d \in Nat /\ k \in Nat /\ c \in Nat /\ j \in Nat /\ j \in Commands /\ j # 0
  BY DEF Commands, Succ
<1>2. \A q \in d..(k - 1) : program[q].op \notin {"label", "jump", "branch", "return"}
  BY DEF Window, CoalesceSafe, Splits
<1>3. /\ program[c].to # 0 => program[c].op \in {"jump", "branch"}
      /\ program[c].to # 0 => program[program[c].to].op = "label"
  BY ProgramAssumption DEF Commands, n
<1>4. program[k].op = "set"  BY DEF Window
<1>5. ASSUME d < j, j <= k PROVE j = c + 1 /\ d <= c
  <2>1. program[j].op # "label"
    <3>1. CASE j = k  BY <3>1, <1>4
    <3>2. CASE j # k
      <4>1. j \in d..(k - 1)  BY <1>1, <1>5, <3>2
      <4>2. QED  BY <4>1, <1>2
    <3>3. QED  BY <3>1, <3>2
  <2>2. j # program[c].to  BY <1>1, <1>3, <2>1
  <2>3. j = c + 1  BY <2>2 DEF Succ
  <2>4. QED  BY <1>1, <1>5, <2>3
<1>6. ASSUME d <= c, c < k PROVE j = c + 1
  <2>1. c \in d..(k - 1)  BY <1>1, <1>6
  <2>2. program[c].to = 0  BY <1>2, <1>3, <2>1
  <2>3. QED  BY <1>1, <2>2 DEF Succ
<1>7. QED  BY <1>5, <1>6

\* Windows on the same target do not overlap.
LEMMA WindowsApart ==
  ASSUME NEW u, NEW d \in Commands, NEW k \in Commands, Window(u, d, k),
         NEW w, NEW e \in Commands, NEW q \in Commands, Window(w, e, q),
         coalesce[u] = coalesce[w], u # w, d < e, e < k, e < q
  PROVE  FALSE
<1> DEFINE t == coalesce[u]
<1>1. d \in Nat /\ k \in Nat /\ e \in Nat /\ q \in Nat  BY DEF Commands
<1>2. /\ \A i \in d..(k - 1) : t \notin Elems(program[i].out)
      /\ \A i \in e..(q - 1) : t \notin Elems(program[i].out)
  BY DEF Window, CoalesceSafe
<1>3. t \in Elems(program[k].out) /\ t \in Elems(program[q].out)
  BY DEF Window, Elems
<1>4. k # q
  <2>1. program[k].in = <<u>> /\ program[q].in = <<w>>  BY DEF Window
  <2>2. <<u>> # <<w>>  OBVIOUS
  <2>3. QED  BY <2>1, <2>2
<1>5. q \notin d..(k - 1) /\ k \notin e..(q - 1)  BY <1>2, <1>3
<1>6. QED  BY <1>1, <1>4, <1>5

\* What a command does not define stood for the same before it, and the code
\* after it keeps it apart from what the command defines.
LEMMA Backward ==
  ASSUME Laid, NoChains, phase = "run", NEW c \in Commands, NEW j \in Succ(c),
         NEW v, Stands(v, j), Followed(v, j), v \notin Elems(program[c].out)
  PROVE  /\ Stands(v, c) /\ Followed(v, c)
         /\ Target(v) \in livein[j] =>
              Target(v) \in livein[c] /\ Target(v) \in liveout[c] /\ Target(v) \notin defs[c]
<1>1. program \in Programs  BY DEF Laid, IInv
<1>2. c \in Nat /\ j \in Nat /\ j \in Commands  BY DEF Commands, Succ
<1>3. Stands(v, c)
  <2>1. CASE v \in DOMAIN coalesce
    <3>1. PICK d \in Commands, k \in Commands : Window(v, d, k) /\ d < j /\ j <= k
      BY <2>1 DEF Stands, InWindow
    <3>2. j = c + 1 /\ d <= c  BY <1>1, <3>1, WindowIsStraight
    <3>3. d # c  BY <3>1 DEF Window
    <3>4. d \in Nat /\ k \in Nat  BY DEF Commands
    <3>5. d < c /\ c <= k  BY <1>2, <3>1, <3>2, <3>3, <3>4
    <3>6. QED  BY <2>1, <3>1, <3>5 DEF Stands, InWindow
  <2>2. CASE v \notin DOMAIN coalesce
    <3> SUFFICES ASSUME NEW u \in DOMAIN coalesce, InWindow(u, c), coalesce[u] = v PROVE FALSE
      BY <2>2 DEF Stands
    <3>1. PICK d \in Commands, k \in Commands : Window(u, d, k) /\ d < c /\ c <= k
      BY DEF InWindow
    <3>2. d \in Nat /\ k \in Nat  BY DEF Commands
    <3>3. c # k  BY <3>1 DEF Window, Elems
    <3>4. d <= c /\ c < k  BY <1>2, <3>1, <3>2, <3>3
    <3>5. j = c + 1  BY <1>1, <3>1, <3>4, WindowIsStraight
    <3>6. d < j /\ j <= k  BY <1>2, <3>2, <3>4, <3>5
    <3>7. InWindow(u, j)  BY <3>1, <3>6 DEF InWindow
    <3>8. QED  BY <2>2, <3>7 DEF Stands
  <2>3. QED  BY <2>1, <2>2
<1>4. Referenced /\ livein[c] = InOf(c) /\ liveout[c] = OutOf(c)
  BY <1>2 DEF Laid, Analysed, Fixpoint, Given, Commands
<1>5. ASSUME Target(v) \in livein[j]
      PROVE  Target(v) \in livein[c] /\ Target(v) \in liveout[c] /\ Target(v) \notin defs[c]
  <2>1. Target(v) \in OutOf(c)  BY <1>5 DEF OutOf
  <2>2. ASSUME Target(v) \in defs[c] PROVE FALSE
    <3>1. PICK o \in InRegisters(Elems(program[c].out)) : Target(o) = Target(v)
      BY <1>4, <2>2 DEF Referenced
    <3>2. o \in Elems(program[c].out) /\ o # v  BY DEF InRegisters
    <3>3. CASE v \in DOMAIN coalesce
      <4>1. PICK d \in Commands, k \in Commands : Window(v, d, k) /\ d < j /\ j <= k
        BY <3>3 DEF Stands, InWindow
      <4>2. j = c + 1 /\ d <= c  BY <1>1, <4>1, WindowIsStraight
      <4>3. d # c  BY <4>1 DEF Window
      <4>4. d \in Nat /\ k \in Nat  BY DEF Commands
      <4>5. d < c /\ c < k /\ c \in d..(k - 1)  BY <1>2, <4>1, <4>2, <4>3, <4>4
      <4>6. CASE o \in DOMAIN coalesce
        <5>1. PICK e \in Commands, q \in Commands : Window(o, e, q) /\ e < q
          BY <4>6, CopyTarget
        <5>2. e = c  BY <3>2, <5>1 DEF Window
        <5>3. coalesce[v] = coalesce[o]  BY <3>1, <3>3, <4>6 DEF Target
        <5>4. QED  BY <3>2, <4>1, <4>5, <5>1, <5>2, <5>3, WindowsApart
      <4>7. CASE o \notin DOMAIN coalesce
        <5>1. o = coalesce[v]  BY <3>1, <3>3, <4>7 DEF Target
        <5>2. QED  BY <3>2, <4>1, <4>5, <5>1 DEF Window, CoalesceSafe
      <4>8. QED  BY <4>6, <4>7
    <3>4. CASE v \notin DOMAIN coalesce
      <4>1. o \in DOMAIN coalesce /\ coalesce[o] = v  BY <3>1, <3>2, <3>4 DEF Target
      <4>2. PICK e \in Commands, q \in Commands : Window(o, e, q) /\ e < q
        BY <4>1, CopyTarget
      <4>3. e = c  BY <3>2, <4>2 DEF Window
      <4>4. j = c + 1
        <5>1. e <= c /\ c < q  BY <1>2, <4>2, <4>3
        <5>2. QED  BY <1>1, <4>2, <5>1, WindowIsStraight
      <4>5. e < j /\ j <= q
        <5>1. q \in Nat  BY DEF Commands
        <5>2. QED  BY <1>2, <4>2, <4>3, <4>4, <5>1
      <4>6. InWindow(o, j)  BY <4>2, <4>5 DEF InWindow
      <4>7. QED  BY <3>4, <4>1, <4>6 DEF Stands
    <3>5. QED  BY <3>3, <3>4
  <2>3. QED  BY <1>4, <2>1, <2>2 DEF InOf
<1>6. Followed(v, c)  BY <1>5 DEF Followed
<1>7. QED  BY <1>3, <1>5, <1>6

\* A value a command reads is what its home stands for.
LEMMA ReadsStand ==
  ASSUME Laid, NoChains, phase = "run", NEW c \in Commands, \A i \in fuse : c # i + 1,
         NEW v \in Elems(program[c].in)
  PROVE  Stands(v, c) /\ Followed(v, c)
<1>1. program \in Programs /\ c \in Nat  BY DEF Laid, IInv, Commands
<1>2. v \in Mentioned  BY <1>1, OutElems
<1>3. v \notin Unmade
  <2> SUFFICES ASSUME v \in Unmade PROVE FALSE  OBVIOUS
  <2>1. PICK i \in fuse : \A j \in Commands : v \in Elems(program[j].in) => j = i + 1
    BY FusedResult
  <2>2. QED  BY <2>1
<1>4. Stands(v, c)
  <2>1. CASE v \in DOMAIN coalesce
    <3>1. PICK d \in Commands, k \in Commands : Window(v, d, k) /\ d < k  BY <2>1, CopyTarget
    <3>2. c = k  BY <3>1 DEF Window
    <3>3. QED  BY <1>1, <2>1, <3>1, <3>2 DEF Stands, InWindow
  <2>2. CASE v \notin DOMAIN coalesce
    <3> SUFFICES ASSUME NEW u \in DOMAIN coalesce, InWindow(u, c), coalesce[u] = v PROVE FALSE
      BY <2>2 DEF Stands
    <3>1. PICK d \in Commands, k \in Commands : Window(u, d, k) /\ d < c /\ c <= k
      BY DEF InWindow
    <3>2. d \in Nat /\ k \in Nat  BY DEF Commands
    <3>3. c # k
      <4>1. coalesce[u] # u  BY CopyTarget
      <4>2. QED  BY <3>1, <4>1 DEF Window, Elems
    <3>4. c \in d..(k - 1)  BY <1>1, <3>1, <3>2, <3>3
    <3>5. QED  BY <3>1, <3>4 DEF Window, CoalesceSafe
  <2>3. QED  BY <2>1, <2>2
<1>5. ASSUME v \notin Forced \cup Statics PROVE Target(v) \in livein[c]
  <2>1. v \in InRegisters(Elems(program[c].in))  BY <1>3, <1>5 DEF InRegisters
  <2>2. Referenced /\ livein[c] = InOf(c)
    BY <1>1 DEF Laid, Analysed, Fixpoint, Given, Commands
  <2>3. Target(v) \in uses[c]  BY <2>1, <2>2 DEF Referenced
  <2>4. QED  BY <2>2, <2>3 DEF InOf
<1>6. QED  BY <1>2, <1>3, <1>4, <1>5 DEF Followed

-----------------------------------------------------------------------------
(***************************************************************************)
(* The machine beside the program: what a home stands for is what it holds.*)
(***************************************************************************)
Agrees(v) == env[v] # Junk => Load(mach, v) = env[v]

Simulated == \A v \in Vars : Stands(v, pc) /\ Followed(v, pc) => Agrees(v)

LEMMA HomesReadable ==
  ASSUME Laid, NoChains, phase = "run", NEW v \in Mentioned \ Unmade
  PROVE  /\ v \in Vars /\ Readable(v) /\ Place(v) \in Places
         /\ v \notin Statics =>
              /\ home[v] = home[Target(v)] /\ Target(v) \in Own
              /\ home[v] \in Registers \/ \E k \in Nat : home[v] = Slot(k)
         /\ v \in Forced <=> Target(v) \in Forced
         /\ v \in Forced => Target(v) = v
<1>1. program \in Programs /\ used \subseteq CalleeSaved /\ off \in Nat
  BY DEF Laid, IInv, TypeOK
<1>2. v \in Vars  BY <1>1, ElemsAreVars DEF Mentioned
<1>3. v \in DOMAIN coalesce =>
        /\ Target(v) \in Own \cap Mentioned /\ Target(v) \notin Statics \cup Unmade
        /\ v \notin Forced /\ Target(v) \notin Forced /\ home[v] = home[Target(v)]
  BY CopyTarget DEF Target, Laid, FrameLaid
<1>4. v \notin DOMAIN coalesce => Target(v) = v /\ v \in Own
  BY <1>2 DEF Target, Own
<1>5. ASSUME v \notin Statics
      PROVE  /\ home[v] = home[Target(v)] /\ Target(v) \in Own
             /\ home[v] \in Unpassed
             /\ home[v] \in Registers \/ \E k \in Nat : home[v] = Slot(k)
  <2>1. home[v] = home[Target(v)] /\ Target(v) \in Own  BY <1>3, <1>4
  <2>2. home[v] # NoHome
    <3>1. Target(v) \in Own \cap Mentioned /\ Target(v) \notin Statics \cup Unmade
      BY <1>3, <1>4, <1>5
    <3>2. QED  BY <2>1, <3>1 DEF Laid, FrameLaid
  <2>3. CASE home[v] \in Registers
    <3>1. home[v] \in Scratch \cup used  BY <1>2, <2>3 DEF Laid, Placed
    <3>2. QED  BY <1>1, <2>1, <2>3, <3>1 DEF Unpassed
  <2>4. CASE home[v] \notin Registers
    <3>1. OnFrame(home[v])  BY <1>2, <2>2, <2>4 DEF Laid, FrameLaid
    <3>2. PICK k \in Nat : home[v] = Slot(k) /\ k < off  BY <3>1 DEF OnFrame
    <3>3. k \in 0..(off - 1)  BY <1>1, <3>2
    <3>4. home[v] \in Places \ Registers  BY <2>4, <3>2, <3>3 DEF Places, Frame
    <3>5. QED  BY <2>1, <3>2, <3>4 DEF Unpassed
  <2>5. QED  BY <2>3, <2>4
<1>6. v \in Statics => Static(v) \in Places \ Registers
  BY PlacesApart DEF Places
<1>7. v \in DOMAIN gaddr => Gpr(gaddr[v]) \in CalleeSaved
  BY <1>1 DEF Laid, Placed, Cached
<1>8. Unpassed \subseteq Places  BY <1>1, UnpassedApart
<1>9. Readable(v) /\ Place(v) \in Places
  BY <1>5, <1>6, <1>7, <1>8 DEF Readable, Place, Unpassed
<1>10. QED  BY <1>2, <1>3, <1>4, <1>5, <1>9

\* The result of a command made is not one that a fused comparison keeps.
LEMMA ResultMade ==
  ASSUME Laid, NEW c \in Commands, c \notin fuse, program[c].out # <<>>
  PROVE  program[c].out[1] \in Mentioned \ Unmade
<1>1. program \in Programs  BY DEF Laid, IInv
<1>2. program[c].out[1] \in Elems(program[c].out) /\ program[c].out[1] \in Mentioned
  BY <1>1, OutElems
<1>3. program[c].out[1] \notin Unmade
  <2> SUFFICES ASSUME program[c].out[1] \in Unmade PROVE FALSE  OBVIOUS
  <2>1. PICK i \in fuse : \A j \in Commands : program[c].out[1] \in Elems(program[j].out) <=> j = i
    BY FusedResult
  <2>2. QED  BY <1>2, <2>1
<1>4. QED  BY <1>2, <1>3

\* The result of a command is stored apart from what the code after it follows.
LEMMA StoreApart ==
  ASSUME Laid, NoChains, phase = "run", NEW c \in Commands, c \notin fuse,
         program[c].out # <<>>, NEW j \in Succ(c),
         NEW v, Stands(v, j), Followed(v, j), v # program[c].out[1]
  PROVE  Place(program[c].out[1]) # Place(v)
<1> DEFINE o == program[c].out[1]
           T == Target(v)
           U == Target(o)
<1>1. program \in Programs /\ Given /\ c \in Nat  BY DEF Laid, IInv, Given, Commands
<1>2. o \in Mentioned \ Unmade /\ v \in Mentioned \ Unmade /\ o # v
  BY ResultMade DEF Followed
<1>3. Elems(program[c].out) = {o}  BY <1>1, OutElems
<1>4. /\ v \in Vars /\ o \in Vars
      /\ v \notin Statics => /\ home[v] = home[T] /\ T \in Own
                             /\ home[v] \in Registers \/ \E k \in Nat : home[v] = Slot(k)
      /\ o \notin Statics => /\ home[o] = home[U] /\ U \in Own
                             /\ home[o] \in Registers \/ \E k \in Nat : home[o] = Slot(k)
      /\ v \in Forced <=> T \in Forced
      /\ o \in Forced <=> U \in Forced
      /\ v \in Forced => T = v
      /\ o \in Forced => U = o
  BY <1>2, HomesReadable
<1>5. CASE v \in Statics \/ o \in Statics
  BY <1>2, <1>4, <1>5, PlacesApart DEF Place
<1>6. CASE v \notin Statics /\ o \notin Statics
  <2> SUFFICES ASSUME home[T] = home[U] PROVE FALSE
    BY <1>4, <1>6 DEF Place
  <2>1. home[T] # NoHome
    BY <1>4, <1>6, PlacesApart, SpillsAreNotRegisters
  <2>2. v \notin Forced =>
          T \in liveout[c] /\ T \notin defs[c]
    BY <1>2, <1>3, <1>6, Backward DEF Followed
  <2>3. o \notin Forced => U \in defs[c]
    <3>1. Referenced
      BY <1>1 DEF Laid, Analysed, Given
    <3>2. o \notin Forced => o \in InRegisters(Elems(program[c].out))
      BY <1>2, <1>3, <1>6 DEF InRegisters
    <3>3. QED  BY <3>1, <3>2 DEF Referenced
  <2>4. T # U
    BY <1>2, <1>4, <2>2, <2>3
  <2>5. home[T] \in Registers
    BY <1>4, <1>6, <2>1, <2>4 DEF Laid, FrameLaid
  <2>6. T \notin Forced /\ U \notin Forced
    BY <1>4, <1>6, <2>5 DEF Laid, Placed
  <2>7. Together(T, U)
    BY <1>4, <2>2, <2>3, <2>6 DEF Together
  <2>8. HomesApart  BY InvariantsFollow DEF Laid
  <2>9. QED  BY <1>1, <1>4, <1>6, <2>4, <2>5, <2>7, <2>8 DEF HomesApart
<1>7. QED  BY <1>5, <1>6

\* A call changes nothing that the code after it follows.
LEMMA BaseLeaves ==
  ASSUME Laid, NoChains, phase = "run", NEW c \in Commands, NEW j \in Succ(c),
         NEW v, Stands(v, j), Followed(v, j), v \notin Elems(program[c].out),
         DOMAIN mach = Places
  PROVE  Load(Base(c), v) = Load(mach, v)
<1>1. program \in Programs /\ Given /\ used \subseteq CalleeSaved
  BY DEF Laid, IInv, Given, TypeOK
<1>2. CASE program[c].op # "call"  BY <1>2 DEF Base
<1>3. CASE program[c].op = "call"
  <2>1. \A x \in (Places \ Registers) \cup CalleeSaved : Base(c)[x] = mach[x]
    BY <1>1, BaseKeeps
  <2>2. v \in Mentioned \ Unmade  BY DEF Followed
  <2>3. CASE v \in Statics
    <3>1. Static(v) \in Places \ Registers  BY <2>3, PlacesApart DEF Places
    <3>2. v \in DOMAIN gaddr => Gpr(gaddr[v]) \in CalleeSaved
      BY <1>1 DEF Laid, Placed, Cached
    <3>3. QED  BY <2>1, <2>3, <3>1, <3>2 DEF Load, Astray
  <2>4. CASE v \notin Statics
    <3>1. /\ home[v] = home[Target(v)] /\ Target(v) \in Own
          /\ Place(v) \in Places
          /\ v \in Forced <=> Target(v) \in Forced
      BY <2>2, <2>4, HomesReadable
    <3>2. home[v] \in Registers => home[v] \in CalleeSaved
      <4> SUFFICES ASSUME home[v] \in Registers PROVE home[v] \in CalleeSaved  OBVIOUS
      <4>1. v \notin Forced  BY <3>1 DEF Laid, Placed
      <4>2. Target(v) \in livein[c] /\ Target(v) \in liveout[c]
        BY <2>4, <4>1, Backward DEF Followed
      <4>3. CallsKeepHomes  BY InvariantsFollow DEF Laid
      <4>4. QED  BY <1>1, <1>3, <3>1, <4>2, <4>3 DEF CallsKeepHomes
    <3>3. home[v] \in (Places \ Registers) \cup CalleeSaved
      BY <2>4, <3>1, <3>2 DEF Place
    <3>4. QED  BY <2>1, <2>4, <3>3 DEF Load, Astray
  <2>5. QED  BY <2>3, <2>4
<1>4. QED  BY <1>2, <1>3

-----------------------------------------------------------------------------
(***************************************************************************)
(* One command.                                                            *)
(***************************************************************************)

\* The command run next is not the branch of a fused comparison.
LEMMA NotAfterFused ==
  ASSUME Laid, NEW c \in Commands, program[c].op # "compare" \/ c \notin fuse,
         NEW j \in Succ(c)
  PROVE  j \in Commands /\ j # 0 /\ \A i \in fuse : j # i + 1
<1>1. program \in Programs /\ fuse \subseteq Commands  BY DEF Laid, IInv, TypeOK
<1>2. j \in Commands /\ j \in Nat /\ j # 0 /\ c \in Nat  BY DEF Succ, Commands
<1>3. c \notin fuse  BY DEF Laid, Analysed, FusedKnown
<1>4. CASE j = c + 1
  <2>1. \A i \in fuse : i \in Nat /\ i # c  BY <1>1, <1>3 DEF Commands
  <2>2. QED  BY <1>2, <1>4, <2>1
<1>5. CASE j = program[c].to
  <2>1. program[j].op = "label"  BY <1>2, <1>5, <1>1, ProgramAssumption DEF Commands, n
  <2>2. ASSUME NEW i \in fuse, j = i + 1 PROVE FALSE
    <3>2. program[j].op = "branch"  BY <2>2 DEF Laid, Analysed, FusedKnown
    <3>3. QED  BY <2>1, <3>2
  <2>3. QED  BY <1>2, <2>2
<1>6. QED  BY <1>4, <1>5 DEF Succ

LEMMA StandsStill ==
  ASSUME UNCHANGED allocVars
  PROVE  /\ \A v, i : Stands(v, i)' <=> Stands(v, i)
         /\ \A v, i : Followed(v, i)' <=> Followed(v, i)
         /\ \A m, v : Load(m, v)' = Load(m', v)
         /\ Laid => Laid'
         /\ NoChains' <=> NoChains
<1> USE DEF allocVars, copies, refs, lives, ranges, pools, homes
<1>1. \A u, d, k : Window(u, d, k)' <=> Window(u, d, k)
  BY DEF Window, CoalesceSafe, Commands, n, Elems
<1>2. Commands' = Commands  BY DEF Commands, n
<1>3. \A u, i : InWindow(u, i)' <=> InWindow(u, i)  BY <1>1, <1>2 DEF InWindow
<1>4. \A v, i : Stands(v, i)' <=> Stands(v, i)  BY <1>3 DEF Stands
<1>5. Mentioned' = Mentioned /\ Forced' = Forced /\ Unmade' = Unmade
  BY DEF Mentioned, Forced, Unmade, Commands, n
<1>6. \A v : Target(v)' = Target(v)  BY DEF Target
<1>7. \A v, i : Followed(v, i)' <=> Followed(v, i)  BY <1>5, <1>6 DEF Followed
<1>8. \A m, v : Load(m, v)' = Load(m', v)  BY DEF Load, Astray
<1>9. Laid => Laid'
  <2> SUFFICES ASSUME Laid PROVE Laid'  OBVIOUS
  <2>1. [AllocNext]_allocVars  OBVIOUS
  <2>2. IInv'  BY <2>1, StepIInv DEF Laid
  <2>3. Analysed'  BY <2>1, AnalysedStep DEF Laid
  <2>4. Placed' /\ FrameLaid'  BY <2>1, PlacedStep DEF Laid
  <2>5. QED  BY <2>2, <2>3, <2>4 DEF Laid
<1>10. NoChains' <=> NoChains  BY DEF NoChains
<1>11. QED  BY <1>4, <1>7, <1>8, <1>9, <1>10

\* What a command does not define keeps its value, and its place keeps it too.
LEMMA OthersAgree ==
  ASSUME Laid, NoChains, phase = "run", pc \in Commands, pc \notin fuse, DOMAIN mach = Places,
         Simulated, NEW j \in Succ(pc), Compute(pc, j),
         NEW v, Stands(v, j), Followed(v, j), v \notin Elems(program[pc].out)
  PROVE  Agrees(v)'
<1>1. program \in Programs  BY DEF Laid, IInv
<1>2. v \in Mentioned \ Unmade  BY DEF Followed
<1>3. v \in Vars /\ Readable(v) /\ Place(v) \in Places /\ Unpassed \subseteq Places
  BY <1>1, <1>2, HomesReadable, UnpassedApart
<1>4. Agrees(v)
  BY <1>3, Backward DEF Simulated
<1>5. env'[v] = env[v]  BY <1>3 DEF Compute
<1>6. /\ UNCHANGED allocVars
      /\ \A x \in Places :
           (program[pc].out = <<>> \/ x # Place(program[pc].out[1])) => mach'[x] = Base(pc)[x]
      /\ program[pc].out # <<>> => program[pc].out[1] \in Vars
  BY ComputeStores
<1>7. mach'[Place(v)] = Base(pc)[Place(v)]
  <2>1. program[pc].out # <<>> => v # program[pc].out[1]  BY <1>1, OutElems
  <2>2. program[pc].out # <<>> => Place(program[pc].out[1]) # Place(v)
    BY <2>1, StoreApart
  <2>3. QED  BY <1>3, <1>6, <2>2
<1>8. v \in DOMAIN gaddr => mach'[Gpr(gaddr[v])] = Base(pc)[Gpr(gaddr[v])]
  <2> SUFFICES ASSUME v \in DOMAIN gaddr PROVE mach'[Gpr(gaddr[v])] = Base(pc)[Gpr(gaddr[v])]
    OBVIOUS
  <2>1. Gpr(gaddr[v]) \in Cached /\ Gpr(gaddr[v]) \in Places
    BY <1>3 DEF Cached, Readable
  <2>2. program[pc].out # <<>> => Gpr(gaddr[v]) # Place(program[pc].out[1])
    BY <1>6, <2>1, PlaceSpares
  <2>3. QED  BY <1>6, <2>1, <2>2
<1>9. Load(mach', v) = Load(Base(pc), v)
  BY <1>7, <1>8 DEF Load, Astray, Place
<1>10. Load(Base(pc), v) = Load(mach, v)  BY BaseLeaves
<1>11. Load(mach, v)' = Load(mach', v)  BY <1>6, StandsStill
<1>12. QED  BY <1>4, <1>5, <1>9, <1>10, <1>11 DEF Agrees

\* What a command reads is what the program means.
LEMMA ReadsAgree ==
  ASSUME Laid, NoChains, phase = "run", pc \in Commands, \A i \in fuse : pc # i + 1, Simulated,
         NEW v \in Elems(program[pc].in)
  PROVE  Agrees(v) /\ v \in Mentioned \ Unmade /\ v \in Vars
<1>1. Stands(v, pc) /\ Followed(v, pc)  BY ReadsStand
<1>2. v \in Mentioned \ Unmade  BY <1>1 DEF Followed
<1>3. v \in Vars  BY <1>2, HomesReadable
<1>4. QED  BY <1>1, <1>2, <1>3 DEF Simulated

\* A command leaves its result in the home of its output.
LEMMA ResultAgrees ==
  ASSUME Laid, NoChains, phase = "run", pc \in Commands, \A i \in fuse : pc # i + 1, pc \notin fuse,
         Framed, Simulated, NEW j, Compute(pc, j), AddressesCached',
         program[pc].out # <<>>, NEW o, o = program[pc].out[1]
  PROVE  Agrees(o)'
<1> DEFINE copied == /\ program[pc].op = "set" /\ program[pc].in # <<>>
                     /\ SameKind(program[pc].in[1], o)
           y == IF program[pc].op = "arg" THEN mach[Incoming(pc)]
                ELSE IF copied THEN Load(mach, program[pc].in[1]) ELSE Tag(o)
           z == IF program[pc].op = "arg" THEN Parameter(o)
                ELSE IF copied THEN env[program[pc].in[1]] ELSE Tag(o)
<1>1. program \in Programs /\ pc \in Nat  BY DEF Laid, IInv, Commands
<1>2. o \in Mentioned \ Unmade  BY ResultMade
<1>3. o \in Vars /\ Place(o) \in Places  BY <1>2, HomesReadable
<1>4. o \in Elems(program[pc].out)  BY <1>1, OutElems
<1>5. env'[o] = z  BY <1>3, <1>4 DEF Compute
<1>6. mach' = [Base(pc) EXCEPT ![Place(o)] = y]
  <2>1. mach' = Store(Base(pc), o, y)  BY DEF Compute, Base
  <2>2. ASSUME o \in DOMAIN gaddr PROVE Base(pc)[Gpr(gaddr[o])] = AddressOf(o)
    <3>1. Gpr(gaddr[o]) \in CalleeSaved  BY <2>2 DEF Laid, Placed, Cached, IInv, TypeOK
    <3>2. Base(pc)[Gpr(gaddr[o])] = mach[Gpr(gaddr[o])]  BY <1>1, <3>1, BaseKeeps DEF Framed
    <3>3. QED  BY <2>2, <3>2 DEF Framed, AddressesCached
  <2>3. ~Astray(Base(pc), o)  BY <2>2 DEF Astray
  <2> HIDE DEF y
  <2>4. QED  BY <2>1, <2>3 DEF Store, Place
<1>7. DOMAIN Base(pc) = Places  BY <1>1, BaseKeeps DEF Framed
<1>8. mach'[Place(o)] = y
  <2> HIDE DEF y
  <2> QED BY <1>3, <1>6, <1>7
<1>9. UNCHANGED allocVars  BY DEF Compute
<1>10. Load(mach', o) = y
  <2>1. gaddr' = gaddr  BY <1>9, AllocationStill
  <2>2. o \in DOMAIN gaddr => mach'[Gpr(gaddr[o])] = AddressOf(o)
    BY <2>1 DEF AddressesCached
  <2> HIDE DEF y
  <2>3. QED  BY <1>8, <2>2 DEF Load, Astray, Place
<1>11. z # Junk => y = z
  <2>1. CASE program[pc].op = "arg"
    <3>1. pc \in Loads /\ pc >= pc  BY <1>1, <2>1 DEF Loads
    <3>2. mach[Incoming(pc)] = Parameter(o)  BY <3>1 DEF Framed, ParametersWait
    <3>3. QED  BY <2>1, <3>2
  <2>2. CASE program[pc].op # "arg" /\ copied
    <3>1. program[pc].in[1] \in Elems(program[pc].in)
      <4>1. program \in Seq(Command)  BY <1>1, ProgramAssumption
      <4>2. program[pc] \in Command  BY <4>1 DEF Commands, n
      <4>3. program[pc].in \in Seq(Vars)  BY <4>2 DEF Command
      <4>4. Len(program[pc].in) >= 1  BY <2>2, <4>3
      <4>5. QED  BY <4>3, <4>4 DEF Elems
    <3>2. Agrees(program[pc].in[1])  BY <3>1, ReadsAgree
    <3>3. QED  BY <2>2, <3>2 DEF Agrees
  <2>3. CASE program[pc].op # "arg" /\ ~copied  BY <2>3
  <2>4. QED  BY <2>1, <2>2, <2>3
<1>12. Load(mach, o)' = Load(mach', o)  BY <1>9, StandsStill
<1> HIDE DEF y, z
<1>13. QED  BY <1>5, <1>10, <1>11, <1>12 DEF Agrees

-----------------------------------------------------------------------------
(***************************************************************************)
(* The function as it runs.                                                *)
(***************************************************************************)
RunInv ==
  /\ clock \in Nat /\ DOMAIN env = Vars
  /\ phase # "run" => pc = 0 /\ clock = 0 /\ meant = <<>>
  /\ clock = 0 => /\ pc = 0
                  /\ env = [v \in Vars |-> IF v \in Statics THEN <<"initial", 0, v>> ELSE Junk]
  /\ pc # 0 => /\ phase = "run" /\ pc \in Commands /\ (\A i \in fuse : pc # i + 1)
               /\ Framed
               /\ NoChains => Simulated
  /\ CallerFindsRegisters
  /\ ReadsRightOffChains

LEMMA EnterStep ==
  ASSUME Laid, RunInv, Enter
  PROVE  RunInv'
<1>1. /\ phase = "run" /\ clock = 0 /\ UNCHANGED <<allocVars, env, meant, seen>>
      /\ pc' = 1 /\ clock' = 1
  BY DEF Enter
<1>2. Framed' /\ \A v \in Statics : mach'[Static(v)] = env[v]  BY EnterFrames
<1>3. phase' = phase /\ Commands' = Commands /\ fuse' = fuse /\ gaddr' = gaddr
  BY <1>1, AllocationStill
<1>4. 1 \in Commands /\ \A i \in fuse : 1 # i + 1
  <2>1. program # <<>> /\ program \in Seq(Command)
    BY CodeAssumption DEF Laid, IInv, TypeOK
  <2>2. 1 \in Commands  BY <2>1 DEF Commands, n
  <2>3. fuse \subseteq Commands  BY DEF Laid, IInv, TypeOK
  <2>4. QED  BY <2>2, <2>3 DEF Commands
<1>5. Simulated'
  <2>1. ASSUME NEW v \in Vars PROVE Agrees(v)'
    <3>1. CASE v \notin Statics
      <4>1. env'[v] = Junk  BY <1>1, <3>1 DEF RunInv
      <4>2. QED  BY <4>1 DEF Agrees, Junk
    <3>2. CASE v \in Statics
      <4>1. v \in DOMAIN gaddr => mach'[Gpr(gaddr[v])] = AddressOf(v)
        BY <1>2, <1>3 DEF Framed, AddressesCached
      <4>2. Load(mach', v) = env[v]  BY <1>2, <3>2, <4>1 DEF Load, Astray
      <4>3. Load(mach, v)' = Load(mach', v)  BY <1>1, StandsStill
      <4>4. QED  BY <1>1, <4>2, <4>3 DEF Agrees
    <3>3. QED  BY <3>1, <3>2
  <2>2. QED  BY <2>1 DEF Simulated
<1>6. CallerFindsRegisters'  BY <1>1 DEF CallerFindsRegisters
<1>7. ReadsRightOffChains'
  BY <1>1, StandsStill DEF RunInv, ReadsRightOffChains, ReadsRight
<1>8. QED  BY <1>1, <1>2, <1>3, <1>4, <1>5, <1>6, <1>7 DEF RunInv

\* What a step of the running function shows, and the rest of the invariant.
LEMMA StepRuns ==
  ASSUME Laid, RunInv, phase = "run", UNCHANGED allocVars, clock' = clock + 1,
         DOMAIN env' = Vars, pc' \in Commands, pc' # 0, \A i \in fuse : pc' # i + 1, Framed',
         NoChains => Simulated', NoChains => ReadsRight'
  PROVE  RunInv'
<1>1. phase' = "run" /\ Commands' = Commands /\ fuse' = fuse  BY AllocationStill
<1>2. NoChains' <=> NoChains  BY StandsStill
<1>3. clock' \in Nat /\ clock' # 0  BY DEF RunInv
<1>4. CallerFindsRegisters'  BY DEF CallerFindsRegisters
<1>5. ReadsRightOffChains'  BY <1>2 DEF ReadsRightOffChains
<1>6. QED  BY <1>1, <1>2, <1>3, <1>4, <1>5 DEF RunInv

LEMMA ComputeReadsRight ==
  ASSUME Laid, NoChains, phase = "run", pc \in Commands, \A i \in fuse : pc # i + 1, Framed, Simulated,
         NEW j, Compute(pc, j)
  PROVE  ReadsRight'
<1>1. program \in Programs  BY DEF Laid, IInv
<1>2. \A v \in Elems(program[pc].in) : Agrees(v) /\ Readable(v)
  BY ReadsAgree, HomesReadable
<1>3. meant' = [v \in Reads(pc) |-> Meaning(pc, v)] /\ Reads(pc) \subseteq Elems(program[pc].in)
  BY DEF Compute, Reads
<1>4. CASE program[pc].op = "call"
  <2>1. seen' = [v \in Reads(pc) |->
                   Moved(pc)[Outgoing(pc, CHOOSE k \in 1..Len(program[pc].in) :
                                            program[pc].in[k] = v)]]
    BY <1>4 DEF Compute
  <2>2. ASSUME NEW v \in Reads(pc), env[v] # Junk PROVE seen'[v] = env[v]
    <3> DEFINE k == CHOOSE k \in 1..Len(program[pc].in) : program[pc].in[k] = v
    <3>1. k \in 1..Len(program[pc].in) /\ program[pc].in[k] = v  BY <1>3, <2>2 DEF Elems
    <3>2. seen'[v] = Moved(pc)[Outgoing(pc, k)]  BY <2>1
    <3>3. Moved(pc)[Outgoing(pc, k)] = Load(mach, v)
      <4> HIDE DEF k
      <4> QED BY <1>1, <1>2, <1>3, <1>4, <3>1, MovedLeaves DEF Framed
    <3>4. QED  BY <1>2, <1>3, <2>2, <3>2, <3>3 DEF Agrees
  <2>3. QED  BY <1>3, <1>4, <2>2 DEF ReadsRight, Meaning
<1>5. CASE program[pc].op = "address"
  <2>1. seen' = [v \in Reads(pc) |-> mach[Gpr(gaddr[v])]]
    BY <1>5 DEF Compute, Found
  <2>2. \A v \in Reads(pc) : mach[Gpr(gaddr[v])] = AddressOf(v)
    BY <1>5 DEF Reads, Framed, AddressesCached
  <2>3. QED  BY <1>3, <1>5, <2>1, <2>2 DEF ReadsRight, Meaning
<1>6. CASE program[pc].op \notin {"call", "address"}
  <2>1. seen' = [v \in Reads(pc) |-> Load(mach, v)]
    BY <1>6 DEF Compute, Found
  <2>2. \A v \in Reads(pc) : env[v] # Junk => Load(mach, v) = env[v]
    BY <1>2, <1>3 DEF Agrees
  <2>3. QED  BY <1>3, <1>6, <2>1, <2>2 DEF ReadsRight, Meaning
<1>7. QED  BY <1>4, <1>5, <1>6

LEMMA ExecuteStep ==
  ASSUME Laid, RunInv, Execute
  PROVE  RunInv'
<1>1. phase = "run" /\ pc # 0 /\ pc \notin fuse  BY DEF Execute, Running
<1>2. PICK j \in Succ(pc) : Compute(pc, j)  BY DEF Execute
<1>3. program \in Programs /\ pc \in Commands /\ (\A i \in fuse : pc # i + 1) /\ Framed /\ (NoChains => Simulated)
  BY <1>1 DEF Laid, IInv, RunInv
<1>4. UNCHANGED allocVars /\ clock' = clock + 1 /\ pc' = j /\ DOMAIN env' = Vars
  BY <1>2 DEF Compute
<1>5. j \in Commands /\ j # 0 /\ \A i \in fuse : j # i + 1  BY <1>1, <1>3, NotAfterFused
<1>6. Framed'
  <2>1. \A i \in Loads : i >= j => program[pc].op = "arg" /\ j = pc + 1
    BY <1>3, LoadsComeFirst
  <2>2. QED  BY <1>1, <1>2, <1>3, <2>1, ComputeKeepsFrame
<1>7. ASSUME NoChains PROVE Simulated'
  <2>1. ASSUME NEW v, Stands(v, j), Followed(v, j) PROVE Agrees(v)'
    <3>1. CASE v \notin Elems(program[pc].out)
      BY <1>1, <1>2, <1>3, <1>7, <2>1, <3>1, OthersAgree DEF Framed
    <3>2. CASE v \in Elems(program[pc].out)
      <4>1. program[pc].out # <<>> /\ v = program[pc].out[1]
        BY <1>3, <3>2, OutElems
      <4>2. QED
        BY <1>1, <1>2, <1>3, <1>6, <1>7, <4>1, ResultAgrees DEF Framed
    <3>3. QED  BY <3>1, <3>2
  <2>2. QED  BY <1>4, <2>1, StandsStill DEF Simulated
<1>8. NoChains => ReadsRight'  BY <1>1, <1>2, <1>3, ComputeReadsRight
<1>9. pc' \in Commands /\ pc' # 0 /\ \A i \in fuse : pc' # i + 1  BY <1>4, <1>5
<1>10. QED  BY <1>1, <1>4, <1>6, <1>7, <1>8, <1>9, StepRuns

LEMMA ExecuteFusedStep ==
  ASSUME Laid, RunInv, ExecuteFused
  PROVE  RunInv'
<1>1. phase = "run" /\ pc # 0 /\ pc \in fuse  BY DEF ExecuteFused, Running
<1>2. PICK j \in Succ(pc + 1) : Compute(pc, j)  BY DEF ExecuteFused
<1>3. program \in Programs /\ pc \in Commands /\ (\A i \in fuse : pc # i + 1) /\ Framed /\ (NoChains => Simulated)
  BY <1>1 DEF Laid, IInv, RunInv
<1>4. UNCHANGED allocVars /\ clock' = clock + 1 /\ pc' = j /\ DOMAIN env' = Vars
  BY <1>2 DEF Compute
<1>5. program[pc].op = "compare" /\ pc + 1 \in Commands /\ program[pc + 1].op = "branch"
  BY <1>1 DEF Laid, Analysed, FusedKnown
<1>6. j \in Commands /\ j # 0 /\ \A i \in fuse : j # i + 1  BY <1>5, NotAfterFused
<1>7. Framed'
  <2>1. \A i \in Loads : i >= j => program[pc].op = "arg" /\ j = pc + 1
    BY <1>3, <1>5, LoadsComeFirst
  <2>2. QED  BY <1>1, <1>2, <1>3, <2>1, ComputeKeepsFrame
<1>8. ASSUME NoChains PROVE Simulated'
  <2>1. ASSUME NEW v, Stands(v, j), Followed(v, j) PROVE Agrees(v)'
    <3>1. v \notin Elems(program[pc + 1].out)
      <4>1. program[pc + 1].out = <<>>
        BY <1>3, <1>5, CodeAssumption DEF Commands, n
      <4>2. QED  BY <1>3, <1>5, <4>1, OutElems
    <3>2. Stands(v, pc + 1) /\ Followed(v, pc + 1)
      BY <1>1, <1>2, <1>5, <1>8, <2>1, <3>1, Backward
    <3>3. v \in Mentioned \ Unmade /\ v \in Vars
      BY <1>1, <1>8, <2>1, HomesReadable DEF Followed
    <3>4. v \notin Elems(program[pc].out)
      <4>1. Len(program[pc].out) = 1
        BY <1>3, <1>5, ProgramAssumption DEF Commands, n
      <4>2. Elems(program[pc].out) = {program[pc].out[1]}  BY <4>1 DEF Elems
      <4>3. QED  BY <1>1, <3>3, <4>2 DEF Unmade
    <3>5. pc + 1 \in Succ(pc)  BY <1>5 DEF Succ
    <3>6. Stands(v, pc) /\ Followed(v, pc)
      BY <1>1, <1>3, <1>8, <3>2, <3>4, <3>5, Backward
    <3>7. Agrees(v)  BY <1>3, <1>8, <3>3, <3>6 DEF Simulated
    <3>8. env'[v] = env[v]  BY <1>2, <3>3, <3>4 DEF Compute
    <3>9. mach' = mach  BY <1>1, <1>2, <1>5 DEF Compute
    <3>10. Load(mach, v)' = Load(mach, v)  BY <1>4, <3>9, StandsStill
    <3>11. QED  BY <3>7, <3>8, <3>10 DEF Agrees
  <2>2. QED  BY <1>4, <2>1, StandsStill DEF Simulated
<1>9. NoChains => ReadsRight'  BY <1>1, <1>2, <1>3, ComputeReadsRight
<1>10. pc' \in Commands /\ pc' # 0 /\ \A i \in fuse : pc' # i + 1  BY <1>4, <1>6
<1>11. QED  BY <1>1, <1>4, <1>7, <1>8, <1>9, <1>10, StepRuns

LEMMA ElideStep ==
  ASSUME Laid, RunInv, Elide
  PROVE  RunInv'
<1>1. /\ phase = "run" /\ pc # 0 /\ program[pc].op = "set" /\ Skipped(pc)
      /\ env' = [env EXCEPT ![program[pc].out[1]] = env[program[pc].in[1]]]
      /\ clock' = clock + 1 /\ meant' = <<>> /\ UNCHANGED allocVars /\ mach' = mach
  BY DEF Elide, Running
<1>2. PICK j \in Succ(pc) : pc' = j  BY DEF Elide
<1>3. program \in Programs /\ pc \in Commands /\ (\A i \in fuse : pc # i + 1) /\ Framed /\ (NoChains => Simulated)
  BY <1>1 DEF Laid, IInv, RunInv
<1>4. j \in Commands /\ j # 0 /\ \A i \in fuse : j # i + 1  BY <1>1, <1>3, NotAfterFused
<1>5. Framed'
  <2>1. \A i \in Loads : ~(i >= j)  BY <1>1, <1>3, LoadsComeFirst
  <2>2. QED
    BY <1>1, <1>2, <1>3, <2>1, AllocationStill
    DEF Framed, CallerKept, AddressesCached, ParametersWait
<1>6. ASSUME NoChains PROVE Simulated'
  <2> DEFINE u == program[pc].in[1]
             t == program[pc].out[1]
  <2>1. u \in DOMAIN coalesce /\ program[pc].in # <<>>
    <3>1. pc \in Nat /\ (pc - 1) + 1 = pc  BY <1>3 DEF Commands
    <3>2. (pc - 1) \notin fuse  BY <1>3, <3>1
    <3>3. QED  BY <1>1, <3>2 DEF Skipped
  <2>2. u \in Elems(program[pc].in)
    <3>1. program \in Seq(Command)  BY <1>3, ProgramAssumption
    <3>2. program[pc] \in Command  BY <1>3, <3>1 DEF Commands, n
    <3>3. program[pc].in \in Seq(Vars)  BY <3>2 DEF Command
    <3>4. Len(program[pc].in) >= 1  BY <2>1, <3>3
    <3>5. QED  BY <3>3, <3>4 DEF Elems
  <2>3. PICK d \in Commands, k \in Commands : Window(u, d, k)  BY <1>6, <2>1, CopyTarget
  <2>4. k = pc /\ program[pc].out = <<coalesce[u]>>  BY <1>3, <2>2, <2>3 DEF Window
  <2>5. t = coalesce[u] /\ Elems(program[pc].out) = {t}  BY <2>4 DEF Elems
  <2>6. t \in Vars /\ t \notin Statics /\ u \notin Statics /\ home[u] = home[t]
    BY <1>1, <1>6, <2>1, <2>5, CopyTarget DEF Own, Laid, FrameLaid
  <2>7. \A v \in Vars : env'[v] = IF v = t THEN env[u] ELSE env[v]
    <3>1. DOMAIN env = Vars  BY <1>1 DEF RunInv
    <3>2. QED  BY <1>1, <3>1
  <2>8. ASSUME NEW v \in Vars, Stands(v, j), Followed(v, j) PROVE Agrees(v)'
    <3>1. CASE v = t
      <4>1. Agrees(u)  BY <1>1, <1>3, <1>6, <2>2, ReadsAgree
      <4>2. Load(mach, t) = Load(mach, u)  BY <2>6 DEF Load, Astray
      <4>3. Load(mach, v)' = Load(mach, v)  BY <1>1, StandsStill
      <4> HIDE DEF t, u
      <4>4. QED  BY <2>6, <2>7, <3>1, <4>1, <4>2, <4>3 DEF Agrees
    <3>2. CASE v # t
      <4>1. v \notin Elems(program[pc].out)  BY <2>5, <3>2
      <4>2. Stands(v, pc) /\ Followed(v, pc)
        BY <1>1, <1>3, <1>6, <2>8, <4>1, Backward
      <4>3. Agrees(v)  BY <1>3, <1>6, <2>8, <4>2 DEF Simulated
      <4>4. Load(mach, v)' = Load(mach, v)  BY <1>1, StandsStill
      <4> HIDE DEF t, u
      <4>5. QED  BY <2>7, <2>8, <3>2, <4>3, <4>4 DEF Agrees
    <3>3. QED  BY <3>1, <3>2
  <2>9. QED  BY <1>1, <1>2, <2>8, StandsStill DEF Simulated
<1>7. ReadsRight' /\ DOMAIN env' = Vars  BY <1>1 DEF ReadsRight, RunInv
<1>8. pc' \in Commands /\ pc' # 0 /\ \A i \in fuse : pc' # i + 1  BY <1>2, <1>4
<1>9. QED  BY <1>1, <1>5, <1>6, <1>7, <1>8, StepRuns

LEMMA LeaveStep ==
  ASSUME Laid, RunInv, Leave
  PROVE  RunInv'
<1>1. /\ phase = "run" /\ pc # 0 /\ UNCHANGED <<allocVars, env>>
      /\ meant' = [v \in Reads(pc) |-> env[v]]
      /\ seen' = [v \in Reads(pc) |-> Load(mach, v)]
      /\ pc' = 0 /\ clock' = clock + 1 /\ program[pc].op = "return"
  BY DEF Leave, Running
<1>2. pc \in Commands /\ (\A i \in fuse : pc # i + 1) /\ Framed /\ (NoChains => Simulated)
  BY <1>1 DEF RunInv
<1>3. \A x \in CalleeSaved : mach'[x] = Kept(x)  BY <1>2, LeaveRestores
<1>4. phase' = phase /\ CalleeSaved' = CalleeSaved  BY <1>1, AllocationStill
<1>5. clock' \in Nat /\ clock' # 0  BY <1>1 DEF RunInv
<1>6. CallerFindsRegisters'  BY <1>3, <1>4 DEF CallerFindsRegisters
<1>7. NoChains => ReadsRight'
  <2>1. NoChains => \A v \in Reads(pc) : Agrees(v)
    <3>1. Reads(pc) \subseteq Elems(program[pc].in)  BY DEF Reads
    <3>2. QED  BY <1>1, <1>2, <3>1, ReadsAgree
  <2>2. QED  BY <1>1, <2>1 DEF ReadsRight, Agrees
<1>8. ReadsRightOffChains'  BY <1>1, <1>7, StandsStill DEF ReadsRightOffChains
<1>9. QED  BY <1>1, <1>4, <1>5, <1>6, <1>8 DEF RunInv

LEMMA StepRunInv ==
  ASSUME Laid, RunInv, [Next]_vars
  PROVE  Laid' /\ RunInv'
<1>1. [AllocNext]_allocVars
  BY DEF Next, vars, Enter, Execute, ExecuteFused, Compute, Elide, Leave, Finished
<1>2. Laid'
  <2>1. IInv'  BY <1>1, StepIInv DEF Laid
  <2>2. Analysed'  BY <1>1, AnalysedStep DEF Laid
  <2>3. Placed' /\ FrameLaid'  BY <1>1, PlacedStep DEF Laid
  <2>4. QED  BY <2>1, <2>2, <2>3 DEF Laid
<1>3. CASE AllocNext /\ UNCHANGED runVars
  <2>1. phase # "run"
    BY <1>3 DEF AllocNext, Prepare, Collect, Visit, Again, Settled, Extend, CacheAddresses,
      Allocate, SaveRegisters, GiveSlot, Share
  <2>2. /\ pc' = 0 /\ clock' = 0 /\ meant' = <<>> /\ env' = env /\ DOMAIN env = Vars
        /\ env = [v \in Vars |-> IF v \in Statics THEN <<"initial", 0, v>> ELSE Junk]
    BY <1>3, <2>1 DEF RunInv, runVars
  <2>3. ReadsRightOffChains'  BY <2>2 DEF ReadsRightOffChains, ReadsRight
  <2>4. CallerFindsRegisters'  BY <2>2 DEF CallerFindsRegisters
  <2>5. QED  BY <1>2, <2>1, <2>2, <2>3, <2>4 DEF RunInv
<1>4. CASE UNCHANGED vars
  <2>1. UNCHANGED allocVars /\ UNCHANGED runVars  BY <1>4 DEF vars
  <2>2. /\ pc' = pc /\ env' = env /\ mach' = mach /\ clock' = clock
        /\ meant' = meant /\ seen' = seen
    BY <2>1 DEF runVars
  <2>3. Framed => Framed'
    BY <2>1, <2>2, AllocationStill DEF Framed, CallerKept, AddressesCached, ParametersWait
  <2>4. \A v : Load(mach, v)' = Load(mach, v)  BY <2>1, <2>2, StandsStill
  <2>5. Simulated => Simulated'
    BY <2>1, <2>2, <2>4, StandsStill DEF Simulated, Agrees
  <2>6. CallerFindsRegisters'
    BY <2>1, <2>2, AllocationStill DEF RunInv, CallerFindsRegisters
  <2>7. ReadsRightOffChains'
    BY <2>1, <2>2, StandsStill DEF RunInv, ReadsRightOffChains, ReadsRight
  <2>8. /\ NoChains' <=> NoChains
        /\ phase' = phase /\ Commands' = Commands /\ fuse' = fuse
    BY <2>1, StandsStill, AllocationStill
  <2>9. pc # 0 => /\ phase = "run" /\ pc \in Commands /\ (\A i \in fuse : pc # i + 1)
                  /\ Framed
                  /\ NoChains => Simulated
    BY DEF RunInv
  <2>10. pc' # 0 => /\ phase' = "run" /\ pc' \in Commands' /\ (\A i \in fuse' : pc' # i + 1)
                    /\ Framed'
                    /\ NoChains' => Simulated'
    <3>1. pc' # 0 => pc # 0 /\ phase' = "run" /\ pc' \in Commands'
      BY <2>2, <2>8, <2>9
    <3>2. pc' # 0 => \A i \in fuse' : pc' # i + 1
      BY <2>2, <2>8, <2>9
    <3>3. QED  BY <2>3, <2>5, <2>8, <2>9, <3>1, <3>2
  <2>11. /\ clock' \in Nat /\ DOMAIN env' = Vars
         /\ phase' # "run" => pc' = 0 /\ clock' = 0 /\ meant' = <<>>
         /\ clock' = 0 => /\ pc' = 0
                           /\ env' = [v \in Vars |->
                                        IF v \in Statics THEN <<"initial", 0, v>> ELSE Junk]
    BY <2>2, <2>8 DEF RunInv
  <2>12. QED  BY <1>2, <2>6, <2>7, <2>10, <2>11 DEF RunInv
<1>5. CASE Enter \/ Execute \/ ExecuteFused \/ Elide \/ Leave
  <2>1. Enter => RunInv'  BY EnterStep
  <2>2. Execute => RunInv'  BY ExecuteStep
  <2>3. ExecuteFused => RunInv'  BY ExecuteFusedStep
  <2>4. Elide => RunInv'  BY ElideStep
  <2>5. Leave => RunInv'  BY LeaveStep
  <2>6. QED  BY <1>2, <1>5, <2>1, <2>2, <2>3, <2>4, <2>5
<1>6. RunInv'
  BY <1>3, <1>4, <1>5 DEF Next, Finished
<1>7. QED  BY <1>2, <1>6

LEMMA InitLaid == Init => Laid
<1> SUFFICES ASSUME Init PROVE Laid  OBVIOUS
<1>1. IInv  BY InitIInv
<1>2. \A v \in Vars : home[v] = NoHome /\ home[v] \notin Registers
  BY SpillsAreNotRegisters DEF Init
<1>3. Analysed
  BY DEF Init, Analysed, CopiesKnown, FusedKnown, Given
<1>4. Own \subseteq Vars /\ gaddr = << >> /\ DOMAIN gaddr = {}  BY DEF Own, Init
<1>5. Placed  BY <1>2, <1>4 DEF Placed, Cached
<1>6. FrameLaid  BY <1>2, <1>4 DEF FrameLaid, Init
<1>7. QED  BY <1>1, <1>3, <1>5, <1>6 DEF Laid

LEMMA InitRunInv == RunInit => Laid /\ RunInv
<1> SUFFICES ASSUME RunInit PROVE Laid /\ RunInv  OBVIOUS
<1>1. Laid  BY InitLaid DEF RunInit
<1>2. ReadsRightOffChains /\ CallerFindsRegisters
  BY DEF RunInit, ReadsRightOffChains, ReadsRight, CallerFindsRegisters
<1>3. DOMAIN env = Vars  BY DEF RunInit
<1>4. QED  BY <1>1, <1>2, <1>3 DEF RunInit, RunInv

(***************************************************************************)
(* A function that returns gives its caller every callee-saved register    *)
(* back, whatever the function, the registers used, the saved words, the   *)
(* slots and the path through it: the save area is never written between   *)
(* the prologue and the epilogue.                                          *)
(***************************************************************************)
THEOREM CallerGetsRegistersBack == RunSpec => []CallerFindsRegisters
<1>1. RunInit => Laid /\ RunInv  BY InitRunInv
<1>2. Laid /\ RunInv /\ [Next]_vars => Laid' /\ RunInv'  BY StepRunInv
<1>3. RunInv => CallerFindsRegisters  BY DEF RunInv
<1>4. QED  BY <1>1, <1>2, <1>3, PTL DEF RunSpec

(***************************************************************************)
(* Where no copy is chained to another, the emitted code reads at every    *)
(* command what the program means by it: the homes simulate the variables, *)
(* across copies elided, comparisons fused, calls and cached addresses.    *)
(***************************************************************************)
THEOREM CodeReadsWhatIsMeant == RunSpec => []ReadsRightOffChains
<1>1. RunInit => Laid /\ RunInv  BY InitRunInv
<1>2. Laid /\ RunInv /\ [Next]_vars => Laid' /\ RunInv'  BY StepRunInv
<1>3. RunInv => ReadsRightOffChains  BY DEF RunInv
<1>4. QED  BY <1>1, <1>2, <1>3, PTL DEF RunSpec
=============================================================================
