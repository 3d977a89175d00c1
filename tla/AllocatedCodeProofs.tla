------------------------ MODULE AllocatedCodeProofs ------------------------
(***************************************************************************)
(* From the analysis to the code.  What _get_live_vars ends with, for any  *)
(* well-formed program, solves the data-flow equations; and every          *)
(* assignment of places that respects the conflict graph of a solution     *)
(* makes the emitted code read what the program means, as long as no       *)
(* command that may jump asks for a scratch register.                      *)
(* Before both, the peephole passes: what they leave has the shapes and    *)
(* the labels the analysis relies on and no command that writes what it    *)
(* reads, and identities, hoisting and fusion change nothing the function  *)
(* does unless a value moves above a command of its loop that reads it.    *)
(***************************************************************************)
EXTENDS AllocatedCode, LiveVars, Peephole, FiniteSetTheorems,
        SequenceTheorems, WellFoundedInduction, TLAPS

(***************************************************************************)
(* A step is a run of the command `at` from some scratch set to a command  *)
(* control can reach, or the end.                                          *)
(***************************************************************************)
Step(S, j, taken) ==
  /\ at # 0
  /\ S \in Scratch(at)
  /\ clock < MaxSteps
  /\ \/ j = 0
     \/ ~taken /\ j = at + 1 /\ at < Len(program)
     \/ taken /\ program[at].to # 0 /\ j = program[at].to
  /\ Run(at, S, j, taken)

LEMMA StepCases ==
  ASSUME TypeOK, Next
  PROVE  \/ \E S \in Scratch(at), j \in 0..Len(program), taken \in BOOLEAN : Step(S, j, taken)
         \/ Refuse
<1> USE DEF Step
<1>0. program \in Seq(Command) /\ (at # 0 => at \in Commands)
  BY DEF TypeOK, WellFormed, Commands
<1>1. CASE FallThrough
  <2>1. at + 1 \in 0..Len(program) /\ at < Len(program)
    BY <1>0, <1>1 DEF FallThrough, Commands
  <2> QED BY <1>1, <2>1 DEF FallThrough
<1>2. CASE Branch
  <2>1. program[at].to \in 0..Len(program)
    BY <1>0, <1>2 DEF TypeOK, WellFormed, Commands, Branch
  <2> QED BY <1>2, <2>1 DEF Branch
<1>3. CASE Leave
  <2>1. 0 \in 0..Len(program)
    BY <1>0
  <2> QED BY <1>3, <2>1 DEF Leave
<1> QED BY <1>1, <1>2, <1>3 DEF Next

-----------------------------------------------------------------------------
LEMMA OutAreVars ==
  ASSUME TypeOK, NEW i \in Commands
  PROVE  /\ Elems(program[i].out) \subseteq Vars
         /\ Elems(program[i].in) \subseteq Vars
         /\ program[i].clobber \subseteq Registers
<1>1. program \in Seq(Command) /\ program[i] \in Command
  BY DEF TypeOK, WellFormed, Commands
<1>2. /\ program[i].out \in Seq(Vars) /\ program[i].in \in Seq(Vars)
      /\ program[i].clobber \in SUBSET Registers
  BY <1>1 DEF Command
<1>3. ASSUME NEW l \in Seq(Vars) PROVE Elems(l) \subseteq Vars
  <2>1. \A k \in 1..Len(l) : l[k] \in Vars
    BY <1>3
  <2> QED BY <2>1 DEF Elems
<1> QED BY <1>2, <1>3

LEMMA TypeInit == Init => TypeOK
<1> SUFFICES ASSUME Init PROVE TypeOK
  OBVIOUS
<1>1. WellFormed(program) /\ program \in Seq(Command)
  BY ProgramAssumption DEF Init, WellFormed
<1>2. at \in 0..Len(program)
  <2>1. Len(program) \in Nat
    BY <1>1
  <2>2. CASE Commands = {}
    BY <2>1, <2>2 DEF Init
  <2>3. CASE Commands # {}
    BY <2>1, <2>3 DEF Init, Commands
  <2> QED BY <2>2, <2>3
<1>3. livein \in [Commands -> SUBSET Vars] /\ spotmap \in [Vars -> Spots]
  BY ProgramAssumption DEF Init, Commands
<1>4. env \in [Vars -> Values] /\ mach \in [Spots -> Values]
  BY DEF Init, Values
<1>5. clock \in 0..MaxSteps
  BY StepAssumption DEF Init
<1> QED BY <1>1, <1>2, <1>3, <1>4, <1>5 DEF TypeOK

LEMMA TypeStep == TypeOK /\ [Next]_vars => TypeOK'
<1> SUFFICES ASSUME TypeOK, [Next]_vars PROVE TypeOK'
  OBVIOUS
<1>1. CASE UNCHANGED vars
  BY <1>1 DEF TypeOK, vars, Commands
<1>2. CASE Refuse
  <2>1. 0 \in 0..Len(program)
    BY DEF TypeOK, WellFormed
  <2> QED BY <1>2, <2>1 DEF Refuse, TypeOK, Commands
<1>3. ASSUME NEW S \in Scratch(at), NEW j \in 0..Len(program), NEW taken \in BOOLEAN,
             Step(S, j, taken)
      PROVE  TypeOK'
  <2>1. at \in Commands
    BY <1>3 DEF Step, TypeOK, WellFormed, Commands
  <2>2. Elems(program[at].out) \subseteq Vars
    BY <2>1, OutAreVars
  <2>3. \A v \in Vars : Tag(v) \in Values
    BY DEF Tag, Values, TypeOK
  <2>4. env' \in [Vars -> Values]
    BY <1>3, <2>3 DEF Step, Run, TypeOK
  <2>5. mach' \in [Spots -> Values]
    <3>1. \A s \in Places(Elems(program[at].out)) :
            (CHOOSE v \in Elems(program[at].out) : spotmap[v] = s) \in Vars
      BY <2>2 DEF Places
    <3>2. Junk \in Values /\ mach \in [Spots -> Values]
      BY DEF Values, TypeOK
    <3> HIDE DEF Tag, Values, Junk
    <3>3. After(at, S, Restored(at, S, j, taken)) \in [Spots -> Values]
      BY <3>1, <3>2, <2>3 DEF After
    <3> QED BY <1>3, <3>3 DEF Step, Run
  <2>6. clock' \in 0..MaxSteps
    BY <1>3, StepAssumption DEF Step, Run, TypeOK
  <2> QED BY <1>3, <2>4, <2>5, <2>6 DEF Step, Run, TypeOK, Commands
<1> QED BY <1>1, <1>2, <1>3, StepCases

\* The type invariant holds of every run, for every program.
THEOREM TypeCorrect == Spec => []TypeOK
BY TypeInit, TypeStep, PTL DEF Spec


-----------------------------------------------------------------------------
(***************************************************************************)
(* The analysis and the assignment never change, so what Init says of them *)
(* stays true.                                                             *)
(***************************************************************************)
Allocated ==
  /\ \A i \in Commands : livein[i] = LiveIn(program, livein, i)
  /\ RespectsGraph(program, livein, spotmap)

IInv == TypeOK /\ Allocated /\ LiveValuesInPlace

\* What control may go on to needs is live after the command.
LEMMA LiveAhead ==
  ASSUME TypeOK, Allocated, at \in Commands, NEW S, NEW j \in Commands, NEW taken \in BOOLEAN,
         Step(S, j, taken)
  PROVE  livein[j] \subseteq LiveOut(program, livein, at)
<1>1. program \in Seq(Command) /\ Len(program) \in Nat /\ j # 0
  BY DEF TypeOK, WellFormed, Commands
<1> QED BY <1>1 DEF Step, LiveOut, Below, Ahead, Commands, TypeOK

\* What is live after a command it does not write is live before it.
LEMMA LiveAcross ==
  ASSUME TypeOK, Allocated, NEW i \in Commands,
         NEW v \in LiveOut(program, livein, i), v \notin Elems(program[i].out)
  PROVE  v \in livein[i]
BY DEF Allocated, LiveOut, LiveIn

(***************************************************************************)
(* A value live across a command has its place to itself: no output, no    *)
(* clobbered register and no scratch register that is not loaded back.     *)
(***************************************************************************)
LEMMA PlaceKept ==
  ASSUME TypeOK, Allocated, NEW i \in Commands, NEW S \in Scratch(i), NEW j,
         NEW v \in LiveOut(program, livein, i), v \notin Elems(program[i].out)
  PROVE  After(i, S, Restored(i, S, j, FALSE))[spotmap[v]] = mach[spotmap[v]]
<1>1. v \in livein[i] /\ v \in Vars /\ spotmap[v] \in Spots
  <2>1. v \in livein[i]
    BY LiveAcross
  <2> QED BY <2>1 DEF TypeOK
<1>2. spotmap[v] \notin program[i].clobber
  BY <1>1 DEF Allocated, RespectsGraph, Commands
<1>3. \A w \in Elems(program[i].out) : w \in LiveOut(program, livein, i) /\ w # v
  BY DEF LiveOut
<1>4. spotmap[v] \notin Places(Elems(program[i].out))
  BY <1>3 DEF Allocated, RespectsGraph, Commands, Apart, Places
<1>5. spotmap[v] \in Busy(i)
  BY <1>1, <1>4 DEF Busy, Places
<1>6. spotmap[v] \notin Free(i)
  BY <1>5 DEF Free
<1>7. spotmap[v] \in S => spotmap[v] \in Restored(i, S, j, FALSE)
  BY <1>6 DEF Restored, Parked
<1> HIDE DEF Tag
<1> QED BY <1>1, <1>2, <1>4, <1>7 DEF After

\* What is parked was held by something live across the command.
LEMMA ScratchParked ==
  ASSUME TypeOK, NEW i \in Commands, NEW S \in Scratch(i)
  PROVE  Parked(i, S) \subseteq Busy(i)
BY DEF Scratch, Parked, Free, Parkable

\* Where no scratch register is asked for, none is given.
LEMMA NothingAsked ==
  ASSUME TypeOK, JumpsAskNothing, NEW i \in Commands, program[i].to # 0,
         NEW S \in Scratch(i)
  PROVE  S = {}
<1>1. Cardinality(S) = 0
  BY DEF Scratch, JumpsAskNothing
<1>2. IsFiniteSet(S)
  <2>1. S \subseteq Pool
    BY DEF Scratch, Free, Parkable
  <2> QED BY <2>1, SpotAssumption, FS_Subset
<1> QED BY <1>1, <1>2, FS_EmptySet

-----------------------------------------------------------------------------
LEMMA InvInit == Init => IInv
<1> SUFFICES ASSUME Init PROVE IInv
  OBVIOUS
<1>1. TypeOK
  BY TypeInit
<1>2. Allocated
  BY ProgramAssumption DEF Init, Allocated, Commands
<1>3. LiveValuesInPlace
  <2>1. ASSUME at # 0, NEW v \in livein[at]
        PROVE  env[v] = Junk
    <3>1. at \in Commands
      BY <1>1, <2>1 DEF TypeOK, WellFormed, Commands
    <3>2. v \in Vars
      BY <1>1, <2>1, <3>1 DEF TypeOK
    <3> QED BY <3>2 DEF Init
  <2> QED BY <2>1 DEF LiveValuesInPlace
<1> QED BY <1>1, <1>2, <1>3 DEF IInv

\* One command keeps every live value in its place.
LEMMA InvStep ==
  ASSUME IInv, NEW S \in Scratch(at), NEW j \in 0..Len(program), NEW taken \in BOOLEAN,
         Step(S, j, taken)
  PROVE  LiveValuesInPlace'
<1> SUFFICES ASSUME JumpsAskNothing, j # 0, NEW v \in livein[j], env'[v] # Junk
             PROVE  mach'[spotmap[v]] = env'[v]
  BY DEF LiveValuesInPlace, JumpsAskNothing, Commands, Step, Run
<1>1. TypeOK /\ Allocated /\ program \in Seq(Command) /\ at \in Commands /\ j \in Commands
  <2>1. TypeOK /\ Allocated /\ program \in Seq(Command)
    BY DEF IInv, TypeOK, WellFormed
  <2>2. at \in 0..Len(program) /\ at # 0
    BY <2>1 DEF TypeOK, Step
  <2> QED BY <2>1, <2>2 DEF Commands
<1>2. v \in LiveOut(program, livein, at) /\ v \in Vars
  <2>1. v \in LiveOut(program, livein, at)
    BY <1>1, LiveAhead
  <2> QED BY <1>1, <2>1 DEF TypeOK
<1>3. mach' = After(at, S, Restored(at, S, j, taken))
  BY DEF Step, Run
<1>4. env' = [w \in Vars |-> IF w \in Elems(program[at].out) THEN Tag(w) ELSE env[w]]
  BY DEF Step, Run
<1>5. CASE v \in Elems(program[at].out)
  <2>1. spotmap[v] \in Spots /\ spotmap[v] \in Places(Elems(program[at].out))
    BY <1>1, <1>2, <1>5 DEF TypeOK, Places
  <2>2. \A w \in Elems(program[at].out) : spotmap[w] = spotmap[v] => w = v
    <3>1. Elems(program[at].out) \subseteq LiveOut(program, livein, at)
      BY DEF LiveOut
    <3> QED BY <1>1, <1>2, <3>1 DEF Allocated, RespectsGraph, Commands, Apart
  <2>3. spotmap[v] \notin Restored(at, S, j, taken)
    <3>1. spotmap[v] \notin Busy(at)
      BY <2>1 DEF Busy
    <3>2. spotmap[v] \notin Parked(at, S)
      BY <1>1, <1>5, <3>1, ScratchParked
    <3> QED BY <3>2 DEF Restored
  <2>4. (CHOOSE w \in Elems(program[at].out) : spotmap[w] = spotmap[v]) = v
    BY <1>5, <2>2
  <2> HIDE DEF Tag
  <2>5. mach'[spotmap[v]] = Tag(v)
    BY <1>3, <2>1, <2>3, <2>4 DEF After
  <2> QED BY <1>2, <1>4, <1>5, <2>5
<1>6. CASE v \notin Elems(program[at].out)
  <2>1. env'[v] = env[v] /\ v \in livein[at]
    BY <1>1, <1>2, <1>4, <1>6, LiveAcross
  <2>2. mach[spotmap[v]] = env[v]
    BY <1>1, <2>1 DEF IInv, LiveValuesInPlace, Step
  <2>3. Restored(at, S, j, taken) = Restored(at, S, j, FALSE)
    <3>1. CASE taken
      <4>1. S = {}
        BY <1>1, <3>1, NothingAsked DEF Step
      <4> QED BY <4>1 DEF Restored, Parked
    <3> QED BY <3>1
  <2>4. After(at, S, Restored(at, S, j, FALSE))[spotmap[v]] = mach[spotmap[v]]
    BY <1>1, <1>2, <1>6, PlaceKept
  <2> QED BY <1>3, <2>1, <2>2, <2>3, <2>4
<1> QED BY <1>5, <1>6

THEOREM InvHolds == Spec => []IInv
<1>1. IInv /\ [Next]_vars => IInv'
  <2> SUFFICES ASSUME IInv, [Next]_vars PROVE IInv'
    OBVIOUS
  <2>1. TypeOK'
    BY TypeStep DEF IInv
  <2>2. UNCHANGED <<program, livein, spotmap>>
    BY DEF Next, FallThrough, Branch, Leave, Refuse, Run, vars
  <2>3. Allocated'
    BY <2>2 DEF IInv, Allocated, Commands
  <2>4. LiveValuesInPlace'
    <3>1. CASE UNCHANGED vars
      BY <3>1 DEF IInv, LiveValuesInPlace, JumpsAskNothing, Commands, vars
    <3>2. CASE Refuse
      BY <3>2 DEF Refuse, LiveValuesInPlace
    <3>3. CASE \E S \in Scratch(at), j \in 0..Len(program), taken \in BOOLEAN : Step(S, j, taken)
      BY <3>3, InvStep
    <3> QED BY <3>1, <3>2, <3>3, StepCases DEF IInv
  <2> QED BY <2>1, <2>3, <2>4 DEF IInv
<1> QED BY <1>1, InvInit, PTL DEF Spec

\* In every reachable state every live value is in the place it was given.
THEOREM ValuesInPlace == Spec => []LiveValuesInPlace
<1>1. IInv => LiveValuesInPlace
  BY DEF IInv
<1> QED BY <1>1, InvHolds, PTL

-----------------------------------------------------------------------------
\* An input is live before its command and read while it is still in place.
LEMMA ReadsInPlace ==
  ASSUME TypeOK, Allocated, NEW i \in Commands, NEW S \in Scratch(i),
         NEW v \in Elems(program[i].in)
  PROVE  /\ v \in livein[i]
         /\ ReadFrom(i, S, v) = mach[spotmap[v]]
<1>1. v \in livein[i]
  <2>1. v \notin Elems(program[i].out)
    BY DEF TypeOK, WellFormed, Commands
  <2> QED BY <2>1 DEF Allocated, LiveIn
<1>2. v \in program[i].kept => spotmap[v] \notin S
  BY DEF Scratch, Free, Parkable, Places
<1>3. v \in program[i].late => spotmap[v] \notin program[i].clobber
  BY DEF Allocated, RespectsGraph, Commands
<1> QED BY <1>1, <1>2, <1>3 DEF ReadFrom

\* The emitted code reads what the program means, at every command, whatever
\* the program, the places and the number of steps.
THEOREM CodeReadsRight == Spec => []ReadsRightOffBranches
<1>1. Init => ReadsRightOffBranches
  BY DEF Init, ReadsRightOffBranches, ReadsRight
<1>2. IInv /\ ReadsRightOffBranches /\ [Next]_vars => ReadsRightOffBranches'
  <2> SUFFICES ASSUME IInv, ReadsRightOffBranches, [Next]_vars, JumpsAskNothing'
               PROVE  ReadsRight'
    BY DEF ReadsRightOffBranches
  <2>1. JumpsAskNothing
    BY DEF JumpsAskNothing, Commands, Next, FallThrough, Branch, Leave, Refuse, Run, vars
  <2>2. CASE UNCHANGED vars
    BY <2>1, <2>2 DEF ReadsRightOffBranches, ReadsRight, vars
  <2>3. CASE Refuse
    BY <2>3 DEF Refuse, ReadsRight
  <2>4. ASSUME NEW S \in Scratch(at), NEW j \in 0..Len(program), NEW taken \in BOOLEAN,
               Step(S, j, taken), NEW v \in Elems(program[at].in), env[v] # Junk
        PROVE  ReadFrom(at, S, v) = env[v]
    <3>1. at \in Commands /\ at # 0
      BY <2>4 DEF IInv, Step, TypeOK, WellFormed, Commands
    <3>2. v \in livein[at] /\ ReadFrom(at, S, v) = mach[spotmap[v]]
      BY <2>4, <3>1, ReadsInPlace DEF IInv
    <3> QED BY <2>1, <2>4, <3>1, <3>2 DEF IInv, LiveValuesInPlace
  <2>5. CASE \E S \in Scratch(at), j \in 0..Len(program), taken \in BOOLEAN : Step(S, j, taken)
    <3> PICK S \in Scratch(at), j \in 0..Len(program), taken \in BOOLEAN : Step(S, j, taken)
      BY <2>5
    <3>1. /\ meant' = [v \in Elems(program[at].in) |-> env[v]]
          /\ seen' = [v \in Elems(program[at].in) |-> ReadFrom(at, S, v)]
      BY DEF Step, Run
    <3> QED BY <3>1, <2>4 DEF ReadsRight
  <2> QED BY <2>2, <2>3, <2>5, StepCases DEF IInv
<1> QED BY <1>1, <1>2, InvHolds, PTL DEF Spec
-----------------------------------------------------------------------------
(***************************************************************************)
(* The analysis.                                                           *)
(***************************************************************************)
\* The list names nothing twice.
Distinct(s) == \A j, k \in 1..Len(s) : s[j] = s[k] => j = k

\* A set of numbers has a smallest one.
LEMMA Smallest ==
  ASSUME NEW S \in SUBSET Nat, S # {}
  PROVE  \E m \in S : \A x \in S : m <= x
<1> DEFINE R == {ss \in Nat \X Nat : ss[1] < ss[2]}
<1>1. IsWellFoundedOn(R, Nat)
  BY NatLessThanWellFounded DEF OpToRel
<1>2. PICK m \in S : \A x \in S : <<x, m>> \notin R
  <2> HIDE DEF R
  <2> QED BY <1>1, WFMin
<1>3. ASSUME NEW x \in S, NEW y \in S, <<x, y>> \notin R PROVE ~(x < y)
  <2>1. <<x, y>> \in Nat \X Nat /\ <<x, y>>[1] = x /\ <<x, y>>[2] = y
    OBVIOUS
  <2> QED BY <1>3, <2>1
<1>4. \A x \in S : ~(x < m)
  BY <1>2, <1>3
<1>5. \A x, y \in Nat : ~(x < y) => y <= x
  OBVIOUS
<1> QED BY <1>4, <1>5

\* Induction up to a bound, over a set instead of a predicate.
LEMMA UpTo ==
  ASSUME NEW N \in Nat, NEW S, 0 \in S, \A n \in 1..N : n - 1 \in S => n \in S
  PROVE  0..N \subseteq S
<1> SUFFICES ASSUME ~(0..N \subseteq S) PROVE FALSE
  OBVIOUS
<1> DEFINE Rest == (0..N) \ S
<1>1. Rest \in SUBSET Nat /\ Rest # {}
  OBVIOUS
<1>2. PICK m \in Rest : \A x \in Rest : m <= x
  <2> HIDE DEF Rest
  <2> QED BY <1>1, Smallest
<1>3. m \in 1..N /\ m - 1 \in 0..N /\ ~(m <= m - 1)
  BY <1>2
<1>4. m - 1 \in S
  BY <1>2, <1>3
<1> QED BY <1>2, <1>3, <1>4

\* A function defined by what it is at 0 and by a step is there.
Recursive(f, N, A, base, step) ==
  /\ f \in [0..N -> A]
  /\ f[0] = base
  /\ \A n \in 1..N : f[n] = step[n][f[n - 1]]

LEMMA Recursion ==
  ASSUME NEW N \in Nat, NEW A, NEW base \in A, NEW step \in [1..N -> [A -> A]]
  PROVE  \E f : Recursive(f, N, A, base, step)
<1> DEFINE Good(m, f) == /\ f \in [0..m -> A]
                         /\ f[0] = base
                         /\ \A n \in 1..m : f[n] = step[n][f[n - 1]]
           S == { m \in 0..N : \E f : Good(m, f) }
<1>1. 0 \in S
  <2>1. Good(0, [n \in 0..0 |-> base])
    OBVIOUS
  <2>2. \E f : Good(0, f)
    <3> HIDE DEF Good
    <3> QED BY <2>1
  <2> HIDE DEF Good
  <2> QED BY <2>2
<1>2. ASSUME NEW n \in 1..N, n - 1 \in S PROVE n \in S
  <2>1. PICK f : Good(n - 1, f)
    <3> HIDE DEF Good
    <3> QED BY <1>2
  <2> DEFINE g == [k \in 0..n |-> IF k = n THEN step[n][f[n - 1]] ELSE f[k]]
  <2>2. n - 1 \in 0..(n - 1) /\ f[n - 1] \in A /\ step[n][f[n - 1]] \in A
    BY <2>1
  <2>3. g \in [0..n -> A] /\ g[0] = base
    <3>1. \A k \in 0..n : k # n => k \in 0..(n - 1)
      OBVIOUS
    <3>2. 0 \in 0..n /\ 0 # n
      OBVIOUS
    <3> QED BY <2>1, <2>2, <3>1, <3>2
  <2>4. ASSUME NEW k \in 1..n PROVE g[k] = step[k][g[k - 1]]
    <3>1. k \in 0..n /\ k - 1 \in 0..n /\ k - 1 # n
      OBVIOUS
    <3>2. CASE k = n
      BY <3>1, <3>2
    <3>3. CASE k # n
      <4>1. k \in 1..(n - 1)
        BY <3>3
      <4>2. f[k] = step[k][f[k - 1]]
        BY <2>1, <4>1
      <4> QED BY <3>1, <3>3, <4>2
    <3> QED BY <3>2, <3>3
  <2>5. Good(n, g)
    <3> HIDE DEF g
    <3> QED BY <2>3, <2>4
  <2>6. n \in 0..N
    OBVIOUS
  <2> HIDE DEF Good
  <2> QED BY <2>5, <2>6
<1>3. N \in S
  <2> HIDE DEF S
  <2>1. 0..N \subseteq S
    BY <1>1, <1>2, UpTo
  <2> QED BY <2>1
<1> QED BY <1>3 DEF Recursive

-----------------------------------------------------------------------------
Add(l, v) == IF v \in Elems(l) THEN l ELSE Append(l, v)

\* What the recursion of Joined computes, step by step.
LEMMA JoinedSteps ==
  ASSUME NEW V, NEW list \in Seq(V), NEW more \in Seq(V)
  PROVE  \E f : /\ f[0] = list
                /\ \A n \in 1..Len(more) : f[n] = Add(f[n - 1], more[n])
                /\ Joined(list, more) = f[Len(more)]
<1> DEFINE N == Len(more)
           Def(f) == f = [n \in 0..N |->
                            IF n = 0 THEN list
                            ELSE IF more[n] \in Elems(f[n - 1]) THEN f[n - 1]
                            ELSE Append(f[n - 1], more[n])]
           step == [n \in 1..N |-> [l \in Seq(V) |-> Add(l, more[n])]]
<1>0. N \in Nat /\ \A n \in 1..N : more[n] \in V
  OBVIOUS
<1>1. step \in [1..N -> [Seq(V) -> Seq(V)]]
  <2>1. \A n \in 1..N, l \in Seq(V) : Add(l, more[n]) \in Seq(V)
    BY <1>0 DEF Add
  <2> QED BY <2>1
<1>2. PICK f : Recursive(f, N, Seq(V), list, step)
  <2> DEFINE A == Seq(V)
  <2>1. list \in A /\ step \in [1..N -> [A -> A]]
    BY <1>0, <1>1
  <2>2. \E f : Recursive(f, N, A, list, step)
    <3>1. N \in Nat
      BY <1>0
    <3> HIDE DEF step, N, A
    <3> QED BY <2>1, <3>1, Recursion
  <2> QED BY <2>2
<1>3. ASSUME NEW n \in 1..N PROVE f[n - 1] \in Seq(V) /\ f[n] = Add(f[n - 1], more[n])
  <2>1. n - 1 \in 0..N
    BY <1>0
  <2>2. f[n - 1] \in Seq(V)
    BY <1>2, <2>1 DEF Recursive
  <2>3. f[n] = step[n][f[n - 1]]
    BY <1>2 DEF Recursive
  <2> QED BY <2>2, <2>3
<1>4. Def(f)
  <2>1. \A n \in 0..N : n # 0 => n \in 1..N
    BY <1>0
  <2> HIDE DEF step, N
  <2> QED BY <1>2, <1>3, <2>1 DEF Recursive, Add
<1> DEFINE c == CHOOSE g : Def(g)
<1>5. Def(c)
  <2> HIDE DEF Def
  <2> QED BY <1>4
<1>6. Joined(list, more) = c[N]
  BY DEF Joined
<1>7. c[0] = list /\ \A n \in 1..N : c[n] = Add(c[n - 1], more[n])
  <2>1. 0 \in 0..N /\ \A n \in 1..N : n \in 0..N /\ n # 0
    BY <1>0
  <2> HIDE DEF c, N
  <2> QED BY <1>5, <2>1 DEF Add
<1> HIDE DEF c
<1> QED BY <1>6, <1>7

\* What each list operation does to the values named and to repetitions.
LEMMA ElemsAppend ==
  ASSUME NEW V, NEW l \in Seq(V), NEW v \in V
  PROVE  /\ Append(l, v) \in Seq(V)
         /\ Elems(Append(l, v)) = Elems(l) \cup {v}
         /\ Distinct(l) /\ v \notin Elems(l) => Distinct(Append(l, v))
<1>1. /\ Append(l, v) \in Seq(V)
      /\ Len(Append(l, v)) = Len(l) + 1
      /\ \A k \in 1..Len(l) : Append(l, v)[k] = l[k]
      /\ Append(l, v)[Len(l) + 1] = v
  OBVIOUS
<1>2. \A k : k \in 1..(Len(l) + 1) <=> k \in 1..Len(l) \/ k = Len(l) + 1
  OBVIOUS
<1> DEFINE m == Append(l, v)
<1> HIDE DEF m
<1>3. Elems(m) = Elems(l) \cup {v}
  BY <1>1, <1>2 DEF Elems, m
<1>4. ASSUME Distinct(l), v \notin Elems(l), NEW j \in 1..Len(m), NEW k \in 1..Len(m), m[j] = m[k]
      PROVE  j = k
  BY <1>1, <1>2, <1>4 DEF Elems, Distinct, m
<1> QED BY <1>1, <1>3, <1>4 DEF Distinct, m

LEMMA ElemsJoined ==
  ASSUME NEW V, NEW list \in Seq(V), NEW more \in Seq(V)
  PROVE  /\ Joined(list, more) \in Seq(V)
         /\ Elems(Joined(list, more)) = Elems(list) \cup Elems(more)
         /\ Distinct(list) => Distinct(Joined(list, more))
<1> DEFINE N == Len(more)
<1>0. N \in Nat /\ N \in 0..N /\ \A n \in 1..N : more[n] \in V
  OBVIOUS
<1>1. PICK f : /\ f[0] = list
               /\ \A n \in 1..N : f[n] = Add(f[n - 1], more[n])
               /\ Joined(list, more) = f[N]
  BY JoinedSteps
<1> DEFINE First(n) == { more[k] : k \in 1..n }
           S == { n \in 0..N : /\ f[n] \in Seq(V)
                               /\ Elems(f[n]) = Elems(list) \cup First(n)
                               /\ Distinct(list) => Distinct(f[n]) }
<1>2. 0 \in S
  <2>1. First(0) = {}
    OBVIOUS
  <2> QED BY <1>0, <1>1, <2>1
<1>3. ASSUME NEW n \in 1..N, n - 1 \in S PROVE n \in S
  <2>1. First(n) = First(n - 1) \cup {more[n]}
    <3>1. \A k : k \in 1..n <=> k \in 1..(n - 1) \/ k = n
      OBVIOUS
    <3> QED BY <3>1
  <2> DEFINE l == f[n - 1]
  <2>2. l \in Seq(V) /\ Elems(l) = Elems(list) \cup First(n - 1) /\ (Distinct(list) => Distinct(l))
    BY <1>3
  <2> HIDE DEF First
  <2>3. n \in 0..N /\ more[n] \in V /\ f[n] = Add(l, more[n])
    BY <1>0, <1>1
  <2> HIDE DEF l, N
  <2>4. f[n] \in Seq(V) /\ Elems(f[n]) = Elems(l) \cup {more[n]} /\ (Distinct(l) => Distinct(f[n]))
    <3>1. CASE more[n] \in Elems(l)
      BY <2>2, <2>3, <3>1 DEF Add
    <3>2. CASE more[n] \notin Elems(l)
      BY <2>2, <2>3, <3>2, ElemsAppend DEF Add
    <3> QED BY <3>1, <3>2
  <2> QED BY <2>1, <2>2, <2>3, <2>4
<1>4. N \in S
  <2> HIDE DEF S, N
  <2>1. 0..N \subseteq S
    BY <1>0, <1>2, <1>3, UpTo
  <2> QED BY <1>0, <2>1
<1>5. First(N) = Elems(more)
  BY DEF Elems
<1> HIDE DEF First, N
<1> QED BY <1>1, <1>4, <1>5

-----------------------------------------------------------------------------
Keep(l, v, S) == IF v \in S THEN l ELSE Append(l, v)

\* What the recursion of Minus computes, step by step.
LEMMA MinusSteps ==
  ASSUME NEW V, NEW list \in Seq(V), NEW S
  PROVE  \E f : /\ f[0] = <<>>
                /\ \A n \in 1..Len(list) : f[n] = Keep(f[n - 1], list[n], S)
                /\ Minus(list, S) = f[Len(list)]
<1> DEFINE N == Len(list)
           Def(f) == f = [n \in 0..N |->
                            IF n = 0 THEN <<>>
                            ELSE IF list[n] \in S THEN f[n - 1]
                            ELSE Append(f[n - 1], list[n])]
           step == [n \in 1..N |-> [l \in Seq(V) |-> Keep(l, list[n], S)]]
<1>0. N \in Nat /\ (\A n \in 1..N : list[n] \in V) /\ <<>> \in Seq(V)
  OBVIOUS
<1>1. step \in [1..N -> [Seq(V) -> Seq(V)]]
  <2>1. \A n \in 1..N, l \in Seq(V) : Keep(l, list[n], S) \in Seq(V)
    BY <1>0 DEF Keep
  <2> QED BY <2>1
<1>2. PICK f : Recursive(f, N, Seq(V), <<>>, step)
  <2> DEFINE A == Seq(V)
  <2>1. <<>> \in A /\ step \in [1..N -> [A -> A]]
    BY <1>0, <1>1
  <2>2. \E f : Recursive(f, N, A, <<>>, step)
    <3>1. N \in Nat
      BY <1>0
    <3> HIDE DEF step, N, A
    <3> QED BY <2>1, <3>1, Recursion
  <2> QED BY <2>2
<1>3. ASSUME NEW n \in 1..N PROVE f[n - 1] \in Seq(V) /\ f[n] = Keep(f[n - 1], list[n], S)
  <2>1. n - 1 \in 0..N
    BY <1>0
  <2>2. f[n - 1] \in Seq(V)
    BY <1>2, <2>1 DEF Recursive
  <2>3. f[n] = step[n][f[n - 1]]
    BY <1>2 DEF Recursive
  <2> QED BY <2>2, <2>3
<1>4. Def(f)
  <2>1. \A n \in 0..N : n # 0 => n \in 1..N
    BY <1>0
  <2> HIDE DEF step, N
  <2> QED BY <1>2, <1>3, <2>1 DEF Recursive, Keep
<1> DEFINE c == CHOOSE g : Def(g)
<1>5. Def(c)
  <2> HIDE DEF Def
  <2> QED BY <1>4
<1>6. Minus(list, S) = c[N]
  BY DEF Minus
<1>7. c[0] = <<>> /\ \A n \in 1..N : c[n] = Keep(c[n - 1], list[n], S)
  <2>1. 0 \in 0..N /\ \A n \in 1..N : n \in 0..N /\ n # 0
    BY <1>0
  <2> HIDE DEF c, N
  <2> QED BY <1>5, <2>1 DEF Keep
<1> HIDE DEF c
<1> QED BY <1>6, <1>7

LEMMA ElemsMinus ==
  ASSUME NEW V, NEW list \in Seq(V), NEW S
  PROVE  /\ Minus(list, S) \in Seq(V)
         /\ Elems(Minus(list, S)) = Elems(list) \ S
         /\ Distinct(list) => Distinct(Minus(list, S))
<1> DEFINE N == Len(list)
<1>0. N \in Nat /\ N \in 0..N /\ \A n \in 1..N : list[n] \in V
  OBVIOUS
<1>1. PICK f : /\ f[0] = <<>>
               /\ \A n \in 1..N : f[n] = Keep(f[n - 1], list[n], S)
               /\ Minus(list, S) = f[N]
  BY MinusSteps
<1> DEFINE First(n) == { list[k] : k \in 1..n }
           Good == { n \in 0..N : /\ f[n] \in Seq(V)
                                  /\ Elems(f[n]) = First(n) \ S
                                  /\ Distinct(list) => Distinct(f[n]) }
<1>2. 0 \in Good
  <2>1. First(0) = {}
    OBVIOUS
  <2>2. Elems(<<>>) = {} /\ Distinct(<<>>)
    BY DEF Elems, Distinct
  <2>3. <<>> \in Seq(V)
    OBVIOUS
  <2> HIDE DEF First, N
  <2>4. f[0] \in Seq(V) /\ Elems(f[0]) = {} /\ Distinct(f[0])
    BY <1>1, <2>2, <2>3
  <2>5. 0 \in 0..N
    BY <1>0
  <2> QED BY <2>1, <2>4, <2>5
<1>3. ASSUME NEW n \in 1..N, n - 1 \in Good PROVE n \in Good
  <2>1. First(n) = First(n - 1) \cup {list[n]}
    <3>1. \A k : k \in 1..n <=> k \in 1..(n - 1) \/ k = n
      OBVIOUS
    <3> QED BY <3>1
  <2>2. Distinct(list) => list[n] \notin First(n - 1)
    <3>1. \A k \in 1..(n - 1) : k \in 1..N /\ k # n
      BY <1>0
    <3> QED BY <1>0, <3>1 DEF Distinct
  <2> DEFINE l == f[n - 1]
  <2>3. l \in Seq(V) /\ Elems(l) = First(n - 1) \ S /\ (Distinct(list) => Distinct(l))
    BY <1>3
  <2> HIDE DEF First
  <2>4. n \in 0..N /\ list[n] \in V /\ f[n] = Keep(l, list[n], S)
    BY <1>0, <1>1
  <2> HIDE DEF l, N
  <2>5. CASE list[n] \in S
    BY <2>1, <2>3, <2>4, <2>5 DEF Keep
  <2>6. CASE list[n] \notin S
    <3>1. /\ f[n] \in Seq(V)
          /\ Elems(f[n]) = Elems(l) \cup {list[n]}
          /\ Distinct(l) /\ list[n] \notin Elems(l) => Distinct(f[n])
      BY <2>3, <2>4, <2>6, ElemsAppend DEF Keep
    <3> QED BY <2>1, <2>2, <2>3, <2>4, <2>6, <3>1
  <2> QED BY <2>5, <2>6
<1>4. N \in Good
  <2> HIDE DEF Good, N
  <2>1. 0..N \subseteq Good
    BY <1>0, <1>2, <1>3, UpTo
  <2> QED BY <1>0, <2>1
<1>5. First(N) = Elems(list)
  BY DEF Elems
<1> HIDE DEF First, N
<1> QED BY <1>1, <1>4, <1>5

LEMMA ElemsConcat ==
  ASSUME NEW V, NEW l \in Seq(V), NEW m \in Seq(V)
  PROVE  /\ l \o m \in Seq(V)
         /\ Elems(l \o m) = Elems(l) \cup Elems(m)
         /\ Distinct(l) /\ Distinct(m) /\ Elems(l) \cap Elems(m) = {} => Distinct(l \o m)
<1> DEFINE s == l \o m
<1>1. /\ s \in Seq(V)
      /\ Len(s) = Len(l) + Len(m)
      /\ \A k \in 1..Len(l) : s[k] = l[k]
      /\ \A k \in 1..Len(m) : s[Len(l) + k] = m[k]
  OBVIOUS
<1>2. \A k \in 1..Len(s) : k \in 1..Len(l) \/ k - Len(l) \in 1..Len(m)
  BY <1>1
<1>2a. \A k \in 1..Len(l) : k \in 1..Len(s)
  BY <1>1
<1>2b. \A k \in 1..Len(m) : Len(l) + k \in 1..Len(s)
  BY <1>1
<1>2c. \A k \in 1..Len(s) : k - Len(l) \in 1..Len(m) => s[k] = m[k - Len(l)]
  BY <1>1
<1> HIDE DEF s
<1>3. Elems(s) = Elems(l) \cup Elems(m)
  <2>1. ASSUME NEW x \in Elems(s) PROVE x \in Elems(l) \cup Elems(m)
    <3>1. PICK k \in 1..Len(s) : x = s[k]
      BY <2>1 DEF Elems
    <3>2. CASE k \in 1..Len(l)
      BY <1>1, <3>1, <3>2 DEF Elems
    <3>3. CASE k - Len(l) \in 1..Len(m)
      BY <1>2c, <3>1, <3>3 DEF Elems
    <3> QED BY <1>2, <3>2, <3>3
  <2>2. ASSUME NEW x \in Elems(l) PROVE x \in Elems(s)
    BY <1>1, <1>2a DEF Elems
  <2>3. ASSUME NEW x \in Elems(m) PROVE x \in Elems(s)
    <3> PICK k \in 1..Len(m) : x = m[k]
      BY DEF Elems
    <3>1. s[Len(l) + k] = x /\ Len(l) + k \in 1..Len(s)
      BY <1>1, <1>2b
    <3> QED BY <3>1 DEF Elems
  <2> QED BY <2>1, <2>2, <2>3
<1>4. ASSUME Distinct(l), Distinct(m), Elems(l) \cap Elems(m) = {},
             NEW j \in 1..Len(s), NEW k \in 1..Len(s), s[j] = s[k]
      PROVE  j = k
  <2>1. CASE j \in 1..Len(l) /\ k \in 1..Len(l)
    BY <1>1, <1>4, <2>1 DEF Distinct
  <2>2. CASE j \in 1..Len(l) /\ k - Len(l) \in 1..Len(m)
    <3>1. s[j] \in Elems(l) /\ s[k] \in Elems(m)
      BY <1>1, <1>2c, <2>2 DEF Elems
    <3> QED BY <1>4, <3>1
  <2>3. CASE j - Len(l) \in 1..Len(m) /\ k \in 1..Len(l)
    <3>1. s[k] \in Elems(l) /\ s[j] \in Elems(m)
      BY <1>1, <1>2c, <2>3 DEF Elems
    <3> QED BY <1>4, <3>1
  <2>4. CASE j - Len(l) \in 1..Len(m) /\ k - Len(l) \in 1..Len(m)
    <3>1. j - Len(l) = k - Len(l)
      BY <1>2c, <1>4, <2>4 DEF Distinct
    <3> QED BY <3>1
  <2> QED BY <1>2, <2>1, <2>2, <2>3, <2>4
<1> QED BY <1>1, <1>3, <1>4 DEF Distinct, s

-----------------------------------------------------------------------------
Lists == [Entries -> [in : Seq(Vars), out : Seq(Vars)]]

\* No list of an array names a value twice.
Clean(lists) == \A i \in Entries : Distinct(lists[i].in) /\ Distinct(lists[i].out)

\* What the lists say is live after command i: before the next one in this
\* pass, before the jump target in the previous one.
AfterSet(i) ==
  (IF i = Len(listing) THEN {} ELSE Elems(live[i + 1].in))
    \cup (IF listing[i].to = 0 THEN {} ELSE Elems(prev[listing[i].to].in))

Solved(i) ==
  /\ Elems(live[i].in) = (AfterSet(i) \cup Elems(listing[i].in)) \ Elems(listing[i].out)
  /\ Elems(live[i].out) = AfterSet(i) \cup Elems(listing[i].out)

(***************************************************************************)
(* In the middle of a pass: the commands still to be visited are as the    *)
(* previous pass left them, those visited solve their equations, and cur   *)
(* is what is live before the last one visited.                            *)
(***************************************************************************)
PassInv ==
  /\ \A i \in Entries : i <= here => live[i] = prev[i]
  /\ \A i \in Entries : i > here => Solved(i)
  /\ cur = IF here = Len(listing) THEN <<>> ELSE live[here + 1].in
  /\ pc = "done" => live = prev /\ here = 0

AnalysisInv ==
  /\ listing \in Programs
  /\ live \in Lists /\ Clean(live)
  /\ prev \in Lists /\ Clean(prev)
  /\ cur \in Seq(Vars) /\ Distinct(cur)
  /\ here \in 0..Len(listing)
  /\ pc \in {"pass", "done"}
  /\ PassInv

LEMMA ProgramFacts ==
  ASSUME listing \in Programs
  PROVE  /\ Len(listing) \in Nat
         /\ \A i \in Entries :
              /\ listing[i].in \in Seq(Vars) /\ listing[i].out \in Seq(Vars)
              /\ listing[i].to # 0 => listing[i].to \in Entries
              /\ Elems(listing[i].in) \cap Elems(listing[i].out) = {}
              /\ Distinct(listing[i].out)
<1>1. WellFormed(listing) /\ listing \in Seq(Command)
  BY ListingAssumption DEF WellFormed
<1>2. \A i \in Entries : listing[i] \in Command
  BY <1>1 DEF Entries
<1>3. \A i \in Entries : listing[i].in \in Seq(Vars) /\ listing[i].out \in Seq(Vars)
  BY <1>2 DEF Command
<1>4. \A i \in Entries : listing[i].to # 0 => listing[i].to \in Entries
  BY <1>1 DEF WellFormed, Entries
<1>5. \A i \in Entries : Elems(listing[i].in) \cap Elems(listing[i].out) = {}
  BY <1>1 DEF WellFormed, Entries
<1>6. \A i \in Entries : Distinct(listing[i].out)
  BY <1>1 DEF WellFormed, Entries, Distinct
<1>7. Len(listing) \in Nat
  BY <1>1
<1> QED BY <1>3, <1>4, <1>5, <1>6, <1>7

LEMMA AnalysisInvInit == AnalysisInit => AnalysisInv
<1> SUFFICES ASSUME AnalysisInit PROVE AnalysisInv
  OBVIOUS
<1>1. listing \in Programs /\ Len(listing) \in Nat
  BY ProgramFacts DEF AnalysisInit
<1>2. <<>> \in Seq(Vars) /\ Distinct(<<>>)
  BY DEF Distinct
<1>3. Nothing \in [in : Seq(Vars), out : Seq(Vars)] /\ Nothing.in = <<>> /\ Nothing.out = <<>>
  BY <1>2 DEF Nothing
<1>4. live \in Lists /\ Clean(live)
  <2> HIDE DEF Nothing
  <2> QED BY <1>2, <1>3 DEF AnalysisInit, Lists, Clean
<1>5. prev = live /\ cur = <<>> /\ here = Len(listing) /\ pc = "pass"
  BY DEF AnalysisInit
<1>6. \A i \in Entries : ~(i > here)
  BY <1>1, <1>5 DEF Entries
<1>7. PassInv
  BY <1>5, <1>6 DEF PassInv
<1>8. here \in 0..Len(listing)
  BY <1>1, <1>5
<1> QED BY <1>1, <1>2, <1>4, <1>5, <1>7, <1>8 DEF AnalysisInv

\* One visit solves the equations of the command it is at.
LEMMA VisitLists ==
  ASSUME AnalysisInv, here > 0
  PROVE  /\ here \in Entries
         /\ InOf(here) \in Seq(Vars) /\ Distinct(InOf(here))
         /\ OutOf(here) \in Seq(Vars) /\ Distinct(OutOf(here))
         /\ Elems(InOf(here)) = (AfterSet(here) \cup Elems(listing[here].in)) \ Elems(listing[here].out)
         /\ Elems(OutOf(here)) = AfterSet(here) \cup Elems(listing[here].out)
<1>0. listing \in Programs /\ Len(listing) \in Nat /\ here \in 1..Len(listing) /\ here \in Entries
  BY ProgramFacts DEF AnalysisInv, Entries
<1> DEFINE la == LiveAfter(here)
           in == listing[here].in
           out == listing[here].out
<1>1. /\ in \in Seq(Vars) /\ out \in Seq(Vars)
      /\ listing[here].to # 0 => listing[here].to \in Entries
      /\ Elems(in) \cap Elems(out) = {}
      /\ Distinct(out)
  BY <1>0, ProgramFacts
<1>2. /\ cur \in Seq(Vars) /\ Distinct(cur)
      /\ Elems(cur) = IF here = Len(listing) THEN {} ELSE Elems(live[here + 1].in)
  <2>1. cur = IF here = Len(listing) THEN <<>> ELSE live[here + 1].in
    BY DEF AnalysisInv, PassInv
  <2>2. Elems(<<>>) = {}
    BY DEF Elems
  <2> QED BY <2>1, <2>2 DEF AnalysisInv
<1>3. listing[here].to # 0 => prev[listing[here].to].in \in Seq(Vars)
  BY <1>1 DEF AnalysisInv, Lists
<1>4. la \in Seq(Vars) /\ Distinct(la) /\ Elems(la) = AfterSet(here)
  <2>1. CASE listing[here].to = 0
    BY <1>2, <2>1 DEF LiveAfter, AfterSet
  <2>2. CASE listing[here].to # 0
    <3> DEFINE more == prev[listing[here].to].in
    <3>1. la = Joined(cur, more)
      BY <2>2 DEF LiveAfter
    <3>2. more \in Seq(Vars)
      BY <1>3, <2>2
    <3> HIDE DEF la
    <3>3. la \in Seq(Vars) /\ Distinct(la) /\ Elems(la) = Elems(cur) \cup Elems(more)
      <4> HIDE DEF more
      <4> QED BY <1>2, <3>1, <3>2, ElemsJoined
    <3> QED BY <1>2, <2>2, <3>3 DEF AfterSet
  <2> QED BY <2>1, <2>2
<1> DEFINE all == Joined(la, in)
           new == Minus(out, Elems(la) \cup Elems(in))
<1>5. InOf(here) = Minus(all, Elems(out)) /\ OutOf(here) = la \o new
  BY DEF InOf, OutOf
<1> HIDE DEF la, in, out
<1>6. all \in Seq(Vars) /\ Distinct(all) /\ Elems(all) = Elems(la) \cup Elems(in)
  BY <1>1, <1>4, ElemsJoined
<1>7. /\ new \in Seq(Vars) /\ Distinct(new)
      /\ Elems(new) = Elems(out) \ (Elems(la) \cup Elems(in))
  BY <1>1, ElemsMinus
<1> HIDE DEF all, new
<1>8. /\ Minus(all, Elems(out)) \in Seq(Vars) /\ Distinct(Minus(all, Elems(out)))
      /\ Elems(Minus(all, Elems(out))) = (Elems(la) \cup Elems(in)) \ Elems(out)
  BY <1>6, ElemsMinus
<1>9. /\ la \o new \in Seq(Vars) /\ Distinct(la \o new)
      /\ Elems(la \o new) = Elems(la) \cup Elems(new)
  BY <1>4, <1>7, ElemsConcat
<1>10. Elems(la) \cup Elems(new) = Elems(la) \cup Elems(out)
  BY <1>1, <1>7
<1> QED BY <1>0, <1>4, <1>5, <1>8, <1>9, <1>10 DEF in, out

LEMMA AnalysisInvStep == AnalysisInv /\ [AnalysisNext]_analysisVars => AnalysisInv'
<1> SUFFICES ASSUME AnalysisInv, [AnalysisNext]_analysisVars PROVE AnalysisInv'
  OBVIOUS
<1>0. listing \in Programs /\ Len(listing) \in Nat
  BY ProgramFacts DEF AnalysisInv
<1>1. CASE UNCHANGED analysisVars
  BY <1>1 DEF AnalysisInv, PassInv, Lists, Clean, Solved, AfterSet, Entries, analysisVars
<1>2. CASE Visit
  <2>1. /\ here \in Entries /\ here > 0
        /\ live' = [live EXCEPT ![here] = [in |-> InOf(here), out |-> OutOf(here)]]
        /\ cur' = InOf(here) /\ here' = here - 1
        /\ listing' = listing /\ prev' = prev /\ pc' = pc /\ pc = "pass"
    BY <1>2, VisitLists DEF Visit
  <2> DEFINE new == [in |-> InOf(here), out |-> OutOf(here)]
  <2>2. /\ new.in \in Seq(Vars) /\ Distinct(new.in)
        /\ new.out \in Seq(Vars) /\ Distinct(new.out)
        /\ new \in [in : Seq(Vars), out : Seq(Vars)]
        /\ Elems(new.in) = (AfterSet(here) \cup Elems(listing[here].in)) \ Elems(listing[here].out)
        /\ Elems(new.out) = AfterSet(here) \cup Elems(listing[here].out)
        /\ new.in = InOf(here)
    BY <2>1, VisitLists
  <2>3. live' = [live EXCEPT ![here] = new]
    BY <2>1
  <2> HIDE DEF new
  <2>4. live \in Lists
    BY DEF AnalysisInv
  <2>5. live' \in Lists /\ live'[here] = new /\ \A i \in Entries : i # here => live'[i] = live[i]
    BY <2>1, <2>2, <2>3, <2>4 DEF Lists
  <2>6. Clean(live)
    BY DEF AnalysisInv
  <2>7. \A i \in Entries : Distinct(live'[i].in) /\ Distinct(live'[i].out)
    BY <2>2, <2>5, <2>6 DEF Clean
  <2>8. cur' = live'[here' + 1].in /\ here' # Len(listing) /\ here' \in 0..Len(listing)
    <3>1. here' + 1 = here /\ here' # Len(listing) /\ here' \in 0..Len(listing)
      BY <1>0, <2>1 DEF Entries
    <3> QED BY <2>1, <2>2, <2>5, <3>1
  <2>9. ASSUME NEW i \in Entries, i <= here' PROVE live'[i] = prev'[i]
    <3>1. i # here /\ i <= here
      BY <1>0, <2>1, <2>9 DEF Entries
    <3> QED BY <2>1, <2>5, <3>1 DEF AnalysisInv, PassInv
  <2>10. ASSUME NEW i \in Entries, i > here' PROVE Solved(i)'
    <3>1. i >= here /\ (i # Len(listing) => i + 1 \in Entries /\ i + 1 # here)
      BY <1>0, <2>1, <2>10 DEF Entries
    <3>2. AfterSet(i)' = AfterSet(i)
      BY <2>1, <2>5, <3>1 DEF AfterSet
    <3>3. CASE i = here
      BY <2>1, <2>2, <2>5, <3>2, <3>3 DEF Solved
    <3>4. CASE i # here
      <4>1. i > here
        BY <1>0, <2>1, <3>1, <3>4 DEF Entries
      <4>2. Solved(i)
        BY <4>1 DEF AnalysisInv, PassInv
      <4> QED BY <2>1, <2>5, <3>2, <3>4, <4>2 DEF Solved
    <3> QED BY <3>3, <3>4
  <2>11. PassInv'
    BY <2>1, <2>8, <2>9, <2>10 DEF PassInv, Entries
  <2> QED BY <1>0, <2>1, <2>2, <2>5, <2>7, <2>8, <2>11 DEF AnalysisInv, Lists, Clean, Entries
<1>3. CASE Repeat
  <2>1. /\ pc' = pc /\ pc = "pass" /\ prev' = live /\ live' = live
        /\ listing' = listing /\ cur' = <<>> /\ here' = Len(listing)
    BY <1>3 DEF Repeat
  <2>2. <<>> \in Seq(Vars) /\ Distinct(<<>>)
    BY DEF Distinct
  <2>3. \A i \in Entries : ~(i > here')
    BY <1>0, <2>1 DEF Entries
  <2>4. PassInv'
    BY <2>1, <2>3 DEF PassInv, Entries
  <2>5. here' \in 0..Len(listing)
    BY <1>0, <2>1
  <2> QED BY <1>0, <2>1, <2>2, <2>4, <2>5 DEF AnalysisInv, Lists, Clean, Entries
<1>4. CASE Stop
  BY <1>4 DEF Stop, AnalysisInv, PassInv, Lists, Clean, Solved, AfterSet, Entries
<1>5. CASE Finished
  BY <1>1, <1>5 DEF Finished
<1> QED BY <1>1, <1>2, <1>3, <1>4, <1>5 DEF AnalysisNext, Analyse

-----------------------------------------------------------------------------
LEMMA TypeFromInv == AnalysisInv => AnalysisTypeOK
BY DEF AnalysisInv, AnalysisTypeOK, Lists, Clean, Distinct

LEMMA FixpointFromInv == AnalysisInv /\ pc = "done" => IsFixpoint
<1> SUFFICES ASSUME AnalysisInv, pc = "done", NEW i \in Entries
             PROVE  LET found == [j \in Entries |-> Elems(live[j].in)]
                    IN  /\ found[i] = LiveIn(listing, found, i)
                        /\ Elems(live[i].out) = LiveOut(listing, found, i)
  BY DEF IsFixpoint
<1> DEFINE found == [j \in Entries |-> Elems(live[j].in)]
<1>0. listing \in Programs /\ Len(listing) \in Nat
  BY ProgramFacts DEF AnalysisInv
<1>1. live = prev /\ here = 0
  BY DEF AnalysisInv, PassInv
<1>2. Solved(i)
  <2>1. i > here
    BY <1>0, <1>1 DEF Entries
  <2> QED BY <2>1 DEF AnalysisInv, PassInv
<1>3. AfterSet(i) = Below(listing, found, i) \cup Ahead(listing, found, i)
  <2>1. i # Len(listing) => i + 1 \in Entries
    BY <1>0 DEF Entries
  <2>2. listing[i].to # 0 => listing[i].to \in Entries
    BY <1>0, ProgramFacts
  <2> QED BY <1>1, <2>1, <2>2 DEF AfterSet, Below, Ahead
<1>4. found[i] = Elems(live[i].in)
  OBVIOUS
<1> HIDE DEF found
<1>5. found[i] = LiveIn(listing, found, i) /\ Elems(live[i].out) = LiveOut(listing, found, i)
  BY <1>2, <1>3, <1>4 DEF Solved, LiveIn, LiveOut
<1> QED BY <1>5 DEF found

\* What the recursion of TrulyLiveWithin computes, step by step.
LEMMA TrulyLiveSteps ==
  ASSUME listing \in Programs
  PROVE  /\ TrulyLiveWithin[0] = [i \in Entries |-> {}]
         /\ \A n \in 1..Len(listing) :
              TrulyLiveWithin[n] =
                [i \in Entries |->
                   Elems(listing[i].in) \cup
                     ((UNION { TrulyLiveWithin[n - 1][j] : j \in Successors(listing, i) })
                        \ Elems(listing[i].out))]
<1> DEFINE N == Len(listing)
           A == [Entries -> SUBSET Vars]
           Back(g) == [i \in Entries |->
                         Elems(listing[i].in) \cup
                           ((UNION { g[j] : j \in Successors(listing, i) })
                              \ Elems(listing[i].out))]
           base == [i \in Entries |-> {}]
           Def(f) == f = [n \in 0..N |-> IF n = 0 THEN base ELSE Back(f[n - 1])]
           step == [n \in 1..N |-> [g \in A |-> Back(g)]]
<1>0. N \in Nat /\ \A i \in Entries : Elems(listing[i].in) \subseteq Vars
  BY ProgramFacts DEF Elems
<1>1. ASSUME NEW g \in A PROVE Back(g) \in A
  <2>1. \A i \in Entries : \A j \in Successors(listing, i) : j \in Entries
    BY DEF Successors, Entries
  <2>2. \A j \in Entries : g[j] \subseteq Vars
    OBVIOUS
  <2> QED BY <1>0, <2>1, <2>2
<1>2. base \in A /\ step \in [1..N -> [A -> A]]
  <2>1. base \in A
    OBVIOUS
  <2> HIDE DEF Back, A
  <2> QED BY <1>1, <2>1
<1>3. PICK f : Recursive(f, N, A, base, step)
  <2> HIDE DEF N, A, base, step
  <2> QED BY <1>0, <1>2, Recursion
<1>4. ASSUME NEW n \in 1..N PROVE f[n] = Back(f[n - 1])
  <2>1. n - 1 \in 0..N
    BY <1>0
  <2> HIDE DEF Back, A
  <2>2. f[n - 1] \in A
    BY <1>3, <2>1 DEF Recursive
  <2>3. f[n] = step[n][f[n - 1]]
    BY <1>3 DEF Recursive
  <2> QED BY <2>2, <2>3
<1>5. Def(f)
  <2>1. \A n \in 0..N : n # 0 => n \in 1..N
    BY <1>0
  <2> HIDE DEF Back, A, base, step, N
  <2> QED BY <1>3, <1>4, <2>1 DEF Recursive
<1> DEFINE c == CHOOSE g : Def(g)
<1>6. Def(c)
  <2> HIDE DEF Def
  <2> QED BY <1>5
<1>7. TrulyLiveWithin = c
  BY DEF TrulyLiveWithin
<1>8. c[0] = base /\ \A n \in 1..N : c[n] = Back(c[n - 1])
  <2>1. 0 \in 0..N /\ \A n \in 1..N : n \in 0..N /\ n # 0
    BY <1>0
  <2> HIDE DEF c, N, base, Back
  <2> QED BY <1>6, <2>1
<1> HIDE DEF c
<1>9. TrulyLiveWithin[0] = base /\ \A n \in 1..N : TrulyLiveWithin[n] = Back(TrulyLiveWithin[n - 1])
  <2> HIDE DEF Back, base
  <2> QED BY <1>7, <1>8
<1> QED BY <1>9, Zenon

\* Any solution of the equations holds everything some run needs, however long
\* the path to the command that reads it.
LEMMA NeededIsListed ==
  ASSUME listing \in Programs,
         NEW found \in [Entries -> SUBSET Vars],
         \A i \in Entries : found[i] = LiveIn(listing, found, i)
  PROVE  \A i \in Entries : TrulyLive[i] \subseteq found[i]
<1> DEFINE N == Len(listing)
           S == { n \in 0..N : \A i \in Entries : TrulyLiveWithin[n][i] \subseteq found[i] }
<1>0. N \in Nat
  BY ProgramFacts
<1>1. 0 \in S
  BY <1>0, TrulyLiveSteps
<1>2. ASSUME NEW n \in 1..N, n - 1 \in S PROVE n \in S
  <2>1. \A i \in Entries : TrulyLiveWithin[n - 1][i] \subseteq found[i]
    BY <1>2
  <2>2. TrulyLiveWithin[n] =
          [i \in Entries |->
             Elems(listing[i].in) \cup
               ((UNION { TrulyLiveWithin[n - 1][j] : j \in Successors(listing, i) })
                  \ Elems(listing[i].out))]
    BY TrulyLiveSteps
  <2>3. ASSUME NEW i \in Entries PROVE TrulyLiveWithin[n][i] \subseteq found[i]
    <3>1. TrulyLiveWithin[n][i] =
            Elems(listing[i].in) \cup
              ((UNION { TrulyLiveWithin[n - 1][j] : j \in Successors(listing, i) })
                 \ Elems(listing[i].out))
      BY <2>2
    <3>2. ASSUME NEW j \in Successors(listing, i)
          PROVE  found[j] \subseteq Below(listing, found, i) \cup Ahead(listing, found, i)
      <4>1. j \in 1..N /\ (j = i + 1 \/ j = listing[i].to)
        BY DEF Successors
      <4>2. CASE j = i + 1
        <5>1. i # N
          BY <1>0, <4>1, <4>2 DEF Entries
        <5> QED BY <4>2, <5>1 DEF Below
      <4>3. CASE j = listing[i].to
        <5>1. j # 0
          BY <1>0, <4>1
        <5> QED BY <4>3, <5>1 DEF Ahead
      <4> QED BY <4>1, <4>2, <4>3
    <3>3. \A j \in Successors(listing, i) : TrulyLiveWithin[n - 1][j] \subseteq found[j]
      BY <2>1 DEF Successors, Entries
    <3>4. Elems(listing[i].in) \cap Elems(listing[i].out) = {}
      BY ProgramFacts
    <3>5. found[i] = (Below(listing, found, i) \cup Ahead(listing, found, i)
                         \cup Elems(listing[i].in)) \ Elems(listing[i].out)
      BY DEF LiveIn
    <3> QED BY <3>1, <3>2, <3>3, <3>4, <3>5
  <2>4. n \in 0..N
    BY <1>0
  <2> QED BY <2>3, <2>4
<1>3. N \in S
  <2> HIDE DEF S, N
  <2>1. 0..N \subseteq S
    BY <1>0, <1>1, <1>2, UpTo
  <2>2. N \in 0..N
    BY <1>0
  <2> QED BY <2>1, <2>2
<1> QED BY <1>3 DEF TrulyLive

LEMMA NothingLostFromInv == AnalysisInv /\ IsFixpoint => NothingLost
<1> SUFFICES ASSUME AnalysisInv, IsFixpoint PROVE NothingLost
  OBVIOUS
<1> DEFINE found == [j \in Entries |-> Elems(live[j].in)]
<1>0. listing \in Programs /\ Len(listing) \in Nat
  BY ProgramFacts DEF AnalysisInv
<1>1. found \in [Entries -> SUBSET Vars]
  <2>1. \A j \in Entries : Elems(live[j].in) \subseteq Vars
    <3>1. \A j \in Entries : live[j].in \in Seq(Vars)
      BY DEF AnalysisInv, Lists
    <3> QED BY <3>1 DEF Elems
  <2> QED BY <2>1
<1>2. \A i \in Entries : /\ found[i] = LiveIn(listing, found, i)
                          /\ Elems(live[i].out) = LiveOut(listing, found, i)
  BY DEF IsFixpoint
<1>3. \A i \in Entries : found[i] = Elems(live[i].in)
  OBVIOUS
<1> HIDE DEF found
<1>4. \A i \in Entries : TrulyLive[i] \subseteq found[i]
  BY <1>0, <1>1, <1>2, NeededIsListed
<1>5. ASSUME NEW i \in Entries, NEW j \in Successors(listing, i)
      PROVE  TrulyLive[j] \subseteq Elems(live[i].out)
  <2>1. j \in Entries /\ (j = i + 1 \/ j = listing[i].to)
    BY DEF Successors, Entries
  <2>2. found[j] \subseteq Below(listing, found, i) \cup Ahead(listing, found, i)
    <3>1. CASE j = i + 1
      <4>1. i # Len(listing)
        BY <1>0, <2>1, <3>1 DEF Entries
      <4> QED BY <3>1, <4>1 DEF Below
    <3>2. CASE j = listing[i].to
      <4>1. j # 0
        BY <1>0, <2>1 DEF Entries
      <4> QED BY <3>2, <4>1 DEF Ahead
    <3> QED BY <2>1, <3>1, <3>2
  <2> QED BY <1>2, <1>4, <2>1, <2>2 DEF LiveOut
<1>6. \A i \in Entries : Elems(listing[i].out) \subseteq Elems(live[i].out)
  BY <1>2 DEF LiveOut
<1>7. \A i \in Entries : TrulyLive[i] \subseteq Elems(live[i].in)
  BY <1>3, <1>4
<1> QED BY <1>5, <1>6, <1>7 DEF NothingLost

(***************************************************************************)
(* Whatever the program, when the analysis of _get_live_vars stops its     *)
(* lists name nothing twice, lose no value some run still reads and solve  *)
(* the data-flow equations, although a pass fills the array in place and   *)
(* reads jump targets from the pass before.                                *)
(***************************************************************************)
THEOREM AnalysisIsSound == AnalysisSpec => []LivenessIsSound
<1>1. AnalysisInv => LivenessIsSound
  BY TypeFromInv, FixpointFromInv, NothingLostFromInv DEF LivenessIsSound
<1> QED BY <1>1, AnalysisInvInit, AnalysisInvStep, PTL DEF AnalysisSpec

(***************************************************************************)
(* What the analysis of _get_live_vars ends with is what AllocatedCode     *)
(* assumes of the sets its code was made from (ProgramAssumption there).   *)
(***************************************************************************)
THEOREM AnalysisServesCode ==
  AnalysisSpec =>
    [](pc = "done" =>
         LET found == [i \in 1..Len(listing) |-> Elems(live[i].in)]
         IN  /\ WellFormed(listing)
             /\ found \in [1..Len(listing) -> SUBSET Vars]
             /\ \A i \in 1..Len(listing) : found[i] = LiveIn(listing, found, i))
<1> DEFINE found == [i \in 1..Len(listing) |-> Elems(live[i].in)]
<1>1. ASSUME AnalysisInv, pc = "done"
      PROVE  /\ WellFormed(listing)
             /\ found \in [1..Len(listing) -> SUBSET Vars]
             /\ \A i \in 1..Len(listing) : found[i] = LiveIn(listing, found, i)
  <2>1. WellFormed(listing)
    BY <1>1, ListingAssumption DEF AnalysisInv
  <2>2. ASSUME NEW i \in 1..Len(listing) PROVE Elems(live[i].in) \in SUBSET Vars
    <3>1. live[i].in \in Seq(Vars)
      BY <1>1 DEF AnalysisInv, Lists, Entries
    <3> QED BY <3>1 DEF Elems
  <2>3. IsFixpoint
    BY <1>1, FixpointFromInv
  <2>4. found = [i \in Entries |-> Elems(live[i].in)]
    BY DEF Entries
  <2>5. \A i \in Entries : found[i] = LiveIn(listing, found, i)
    <3> HIDE DEF found
    <3> QED BY <2>3, <2>4 DEF IsFixpoint
  <2>6. \A i \in 1..Len(listing) : found[i] = LiveIn(listing, found, i)
    <3> HIDE DEF found
    <3> QED BY <2>5 DEF Entries
  <2> QED BY <2>1, <2>2, <2>6
<1> HIDE DEF found
<1>2. AnalysisInv => (pc = "done" =>
                 /\ WellFormed(listing)
                 /\ found \in [1..Len(listing) -> SUBSET Vars]
                 /\ \A i \in 1..Len(listing) : found[i] = LiveIn(listing, found, i))
  BY <1>1
<1> QED BY <1>2, AnalysisInvInit, AnalysisInvStep, PTL DEF AnalysisSpec, found
-----------------------------------------------------------------------------
(***************************************************************************)
(* The peephole passes.  Hoisting and strength reduction move commands:    *)
(* the new list holds the commands of the old one, each once, and what the *)
(* pass adds.  q takes the commands of p at the positions D, each once.    *)
(***************************************************************************)
Takes(q, p, D, h) ==
  /\ h \in [1..Len(q) -> D]
  /\ \A i \in 1..Len(q) : q[i] = p[h[i]]
  /\ \A i, j \in 1..Len(q) : h[i] = h[j] => i = j
  /\ \A d \in D : \E i \in 1..Len(q) : h[i] = d

Part(q, p, D) == \E h : Takes(q, p, D, h)

\* Parts without a common position, one after the other, are a part.
LEMMA PartsJoin ==
  ASSUME NEW C, NEW q \in Seq(C), NEW r \in Seq(C), NEW p \in Seq(C),
         NEW D \in SUBSET (1..Len(p)), NEW E \in SUBSET (1..Len(p)), D \cap E = {},
         Part(q, p, D), Part(r, p, E)
  PROVE  q \o r \in Seq(C) /\ Part(q \o r, p, D \cup E)
<1>1. PICK f : Takes(q, p, D, f)
  BY DEF Part
<1>2. PICK g : Takes(r, p, E, g)
  BY DEF Part
<1>3. /\ q \o r \in Seq(C) /\ Len(q \o r) = Len(q) + Len(r)
      /\ Len(q) \in Nat /\ Len(r) \in Nat
      /\ \A i \in 1..(Len(q) + Len(r)) :
            (q \o r)[i] = IF i <= Len(q) THEN q[i] ELSE r[i - Len(q)]
  OBVIOUS
<1> DEFINE m == Len(q)
           n == Len(r)
           h == [i \in 1..Len(q \o r) |-> IF i <= m THEN f[i] ELSE g[i - m]]
<1>4. \A i \in 1..(m + n) : IF i <= m THEN i \in 1..m ELSE i - m \in 1..n
  BY <1>3
<1>5. ASSUME NEW i \in 1..(m + n) PROVE h[i] \in D \cup E /\ (q \o r)[i] = p[h[i]]
  <2>1. CASE i <= m
    BY <1>1, <1>3, <1>4, <2>1 DEF Takes
  <2>2. CASE ~(i <= m)
    BY <1>2, <1>3, <1>4, <2>2 DEF Takes
  <2> QED BY <2>1, <2>2
<1>6. ASSUME NEW i \in 1..(m + n), NEW j \in 1..(m + n), h[i] = h[j] PROVE i = j
  <2>1. CASE i <= m /\ j <= m
    BY <1>1, <1>3, <1>4, <1>6, <2>1 DEF Takes
  <2>2. CASE ~(i <= m) /\ ~(j <= m)
    <3>1. i - m \in 1..n /\ j - m \in 1..n /\ g[i - m] = g[j - m]
      BY <1>3, <1>4, <1>6, <2>2
    <3>2. i - m = j - m
      BY <1>2, <3>1 DEF Takes
    <3> QED BY <1>3, <3>2
  <2>3. CASE i <= m /\ ~(j <= m)
    <3>1. h[i] \in D /\ h[j] \in E
      BY <1>1, <1>2, <1>3, <1>4, <2>3 DEF Takes
    <3> QED BY <1>6, <3>1
  <2>4. CASE ~(i <= m) /\ j <= m
    <3>1. h[i] \in E /\ h[j] \in D
      BY <1>1, <1>2, <1>3, <1>4, <2>4 DEF Takes
    <3> QED BY <1>6, <3>1
  <2> QED BY <2>1, <2>2, <2>3, <2>4
<1>7. ASSUME NEW d \in D \cup E PROVE \E i \in 1..(m + n) : h[i] = d
  <2>1. CASE d \in D
    <3>1. PICK i \in 1..m : f[i] = d
      BY <1>1, <2>1 DEF Takes
    <3>2. i \in 1..(m + n) /\ i <= m
      BY <1>3
    <3> QED BY <1>3, <3>1, <3>2
  <2>2. CASE d \in E
    <3>1. PICK j \in 1..n : g[j] = d
      BY <1>2, <2>2 DEF Takes
    <3>2. m + j \in 1..(m + n) /\ ~(m + j <= m) /\ (m + j) - m = j
      BY <1>3
    <3> QED BY <1>3, <3>1, <3>2
  <2> QED BY <2>1, <2>2
<1>8. Takes(q \o r, p, D \cup E, h)
  <2>1. h \in [1..Len(q \o r) -> D \cup E]
    BY <1>3, <1>5
  <2> HIDE DEF h
  <2> QED BY <1>3, <1>5, <1>6, <1>7, <2>1 DEF Takes
<1> QED BY <1>3, <1>8 DEF Part

\* A stretch of p is a part of it, and so is nothing.
LEMMA PartStretch ==
  ASSUME NEW C, NEW p \in Seq(C), NEW a \in Nat, NEW b \in Nat, 1 <= a, a <= b + 1, b <= Len(p)
  PROVE  SubSeq(p, a, b) \in Seq(C) /\ Part(SubSeq(p, a, b), p, a..b)
<1> DEFINE q == SubSeq(p, a, b)
           h == [i \in 1..Len(q) |-> a + i - 1]
<1>1. q \in Seq(C) /\ Len(q) = b - a + 1 /\ \A i \in 1..Len(q) : q[i] = p[a + i - 1]
  BY SubSeqProperties
<1>2. \A i \in 1..Len(q) : a + i - 1 \in a..b
  BY <1>1
<1>3. \A d \in a..b : d - a + 1 \in 1..Len(q) /\ a + (d - a + 1) - 1 = d
  BY <1>1
<1>4. \A i, j \in 1..Len(q) : a + i - 1 = a + j - 1 => i = j
  BY <1>1
<1>5. Takes(q, p, a..b, h)
  <2> HIDE DEF q
  <2>1. \A d \in a..b : h[d - a + 1] = d
    BY <1>3
  <2>2. h \in [1..Len(q) -> a..b] /\ \A i \in 1..Len(q) : h[i] = a + i - 1
    BY <1>2
  <2> HIDE DEF h
  <2>3. \A i \in 1..Len(q) : q[i] = p[h[i]]
    BY <1>1, <2>2
  <2>4. \A i, j \in 1..Len(q) : h[i] = h[j] => i = j
    BY <1>4, <2>2
  <2>5. \A d \in a..b : \E i \in 1..Len(q) : h[i] = d
    BY <1>3, <2>1
  <2> QED BY ONLY <2>2, <2>3, <2>4, <2>5 DEF Takes
<1> QED BY <1>1, <1>5 DEF Part

LEMMA PartNone ==
  ASSUME NEW p
  PROVE  Part(<< >>, p, {})
<1>1. Takes(<< >>, p, {}, [i \in 1..0 |-> 0])
  BY DEF Takes
<1> QED BY <1>1 DEF Part

LEMMA PartOne ==
  ASSUME NEW C, NEW p \in Seq(C), NEW k \in 1..Len(p)
  PROVE  <<p[k]>> \in Seq(C) /\ Part(<<p[k]>>, p, {k})
<1>1. Takes(<<p[k]>>, p, {k}, [i \in 1..1 |-> k])
  BY DEF Takes
<1> QED BY <1>1 DEF Part

\* What is a part of p is one of every list that starts with p.
LEMMA PartLonger ==
  ASSUME NEW C, NEW q \in Seq(C), NEW p \in Seq(C), NEW t \in Seq(C),
         NEW D \in SUBSET (1..Len(p)), Part(q, p, D)
  PROVE  Part(q, p \o t, D)
<1>1. PICK h : Takes(q, p, D, h)
  BY DEF Part
<1>2. \A k \in 1..Len(p) : (p \o t)[k] = p[k]
  OBVIOUS
<1>3. Takes(q, p \o t, D, h)
  BY <1>1, <1>2 DEF Takes
<1> QED BY <1>3 DEF Part

\* Pick takes the commands at S, each once.
LEMMA PickSteps ==
  ASSUME NEW C, NEW p \in Seq(C), NEW S
  PROVE  \E q : /\ Recursive(q, Len(p), Seq(C), << >>,
                             [k \in 1..Len(p) |-> [r \in Seq(C) |-> IF k \in S THEN Append(r, p[k]) ELSE r]])
                /\ Pick(p, S) = q[Len(p)]
<1> DEFINE N == Len(p)
           step == [k \in 1..N |-> [r \in Seq(C) |-> IF k \in S THEN Append(r, p[k]) ELSE r]]
           Body(q) == [k \in 0..N |-> IF k = 0 THEN << >>
                                      ELSE IF k \in S THEN Append(q[k - 1], p[k]) ELSE q[k - 1]]
<1>0. N \in Nat /\ \A k \in 1..N : p[k] \in C
  OBVIOUS
<1>1. step \in [1..N -> [Seq(C) -> Seq(C)]]
  <2>1. ASSUME NEW k \in 1..N, NEW r \in Seq(C)
        PROVE  (IF k \in S THEN Append(r, p[k]) ELSE r) \in Seq(C)
    BY <1>0
  <2> QED BY <2>1
<1>2. PICK q : Recursive(q, N, Seq(C), << >>, step)
  <2>1. << >> \in Seq(C)
    OBVIOUS
  <2> HIDE DEF step, N
  <2> QED BY <1>0, <1>1, <2>1, Recursion
<1>3. q = Body(q)
  <2>1. q \in [0..N -> Seq(C)]
    BY <1>2 DEF Recursive
  <2>2. ASSUME NEW k \in 0..N PROVE q[k] = Body(q)[k]
    <3>1. CASE k = 0
      BY <1>2, <3>1 DEF Recursive
    <3>2. CASE k # 0
      <4>1. k \in 1..N /\ k - 1 \in 0..N
        BY <1>0, <3>2
      <4>2. q[k] = step[k][q[k - 1]]
        BY <1>2, <4>1 DEF Recursive
      <4> QED BY <2>1, <3>2, <4>1, <4>2
    <3> QED BY <3>1, <3>2
  <2> QED BY <2>1, <2>2
<1>4. Pick(p, S) = q[N]
  <2> DEFINE c == CHOOSE f : f = Body(f)
  <2>1. Pick(p, S) = c[N]
    BY DEF Pick
  <2>2. c = Body(c)
    <3> HIDE DEF Body
    <3> QED BY <1>3
  <2>3. \A k \in 0..N : c[k] = q[k]
    <3> DEFINE Same == { k \in 0..N : c[k] = q[k] }
    <3>1. 0 \in Same
      <4>1. \A f : Body(f)[0] = << >>
        BY <1>0
      <4>2. c[0] = q[0]
        <5> HIDE DEF Body, c
        <5> QED BY <1>3, <2>2, <4>1
      <4> QED BY <1>0, <4>2
    <3>2. ASSUME NEW k \in 1..N, k - 1 \in Same PROVE k \in Same
      <4>1. k \in 0..N /\ k # 0
        BY <1>0
      <4>2. Body(c)[k] = Body(q)[k]
        BY <3>2, <4>1
      <4> HIDE DEF Body, c
      <4> QED BY <1>3, <2>2, <4>1, <4>2
    <3>3. 0..N \subseteq Same
      <4> HIDE DEF Same, N
      <4> QED BY <1>0, <3>1, <3>2, UpTo
    <3> QED BY <3>3
  <2> HIDE DEF c
  <2> QED BY <1>0, <2>1, <2>3
<1> QED BY <1>2, <1>4

LEMMA PartPicked ==
  ASSUME NEW C, NEW p \in Seq(C), NEW S \in SUBSET (1..Len(p))
  PROVE  Pick(p, S) \in Seq(C) /\ Part(Pick(p, S), p, S)
<1> DEFINE N == Len(p)
           step == [k \in 1..N |-> [r \in Seq(C) |-> IF k \in S THEN Append(r, p[k]) ELSE r]]
<1>0. N \in Nat
  OBVIOUS
<1>1. PICK q : Recursive(q, N, Seq(C), << >>, step) /\ Pick(p, S) = q[N]
  BY PickSteps
<1>2. q \in [0..N -> Seq(C)] /\ q[0] = << >>
  BY <1>1 DEF Recursive
<1>3. \A k \in 1..N : q[k] = IF k \in S THEN Append(q[k - 1], p[k]) ELSE q[k - 1]
  <2>1. ASSUME NEW k \in 1..N PROVE q[k] = IF k \in S THEN Append(q[k - 1], p[k]) ELSE q[k - 1]
    <3>1. q[k] = step[k][q[k - 1]]
      <4> HIDE DEF step, N
      <4> QED BY <1>1 DEF Recursive
    <3>2. k - 1 \in 0..N
      BY <1>0
    <3>3. q[k - 1] \in Seq(C)
      <4> HIDE DEF N
      <4> QED BY <1>2, <3>2
    <3> QED BY <3>1, <3>3
  <2> QED BY <2>1
<1> HIDE DEF step
<1> DEFINE Good == { k \in 0..N : Part(q[k], p, S \cap (1..k)) }
<1>4. 0 \in Good
  <2>1. S \cap (1..0) = {}
    OBVIOUS
  <2> QED BY <1>0, <1>2, <2>1, PartNone
<1>5. ASSUME NEW k \in 1..N, k - 1 \in Good PROVE k \in Good
  <2>1. Part(q[k - 1], p, S \cap (1..(k - 1))) /\ q[k - 1] \in Seq(C) /\ k \in 0..N
    BY <1>0, <1>2, <1>5
  <2>2. CASE k \in S
    <3>1. q[k] = q[k - 1] \o <<p[k]>>
      <4>1. q[k] = Append(q[k - 1], p[k])
        BY <1>3, <2>2
      <4>2. p[k] \in C
        OBVIOUS
      <4> HIDE DEF Good, N
      <4> QED BY <2>1, <4>1, <4>2, AppendIsConcat
    <3>2. <<p[k]>> \in Seq(C) /\ Part(<<p[k]>>, p, {k})
      BY PartOne
    <3>3. /\ S \cap (1..(k - 1)) \in SUBSET (1..Len(p)) /\ {k} \in SUBSET (1..Len(p))
          /\ (S \cap (1..(k - 1))) \cap {k} = {}
      OBVIOUS
    <3>4. Part(q[k - 1] \o <<p[k]>>, p, (S \cap (1..(k - 1))) \cup {k})
      <4> HIDE DEF N, Good
      <4> QED BY <2>1, <3>2, <3>3, PartsJoin
    <3>5. (S \cap (1..(k - 1))) \cup {k} = S \cap (1..k)
      BY <2>2
    <3> QED BY <2>1, <3>1, <3>4, <3>5
  <2>3. CASE k \notin S
    <3>1. q[k] = q[k - 1]
      BY <1>3, <2>3
    <3>2. S \cap (1..(k - 1)) = S \cap (1..k)
      BY <2>3
    <3> QED BY <2>1, <3>1, <3>2
  <2> QED BY <2>2, <2>3
<1>6. 0..N \subseteq Good
  <2> HIDE DEF Good, N
  <2> QED BY <1>0, <1>4, <1>5, UpTo
<1>7. N \in Good /\ S \cap (1..N) = S
  <2>1. N \in 0..N
    BY <1>0
  <2>2. S \cap (1..N) = S
    OBVIOUS
  <2> HIDE DEF Good
  <2> QED BY <1>6, <2>1, <2>2
<1> QED BY <1>0, <1>1, <1>2, <1>7

\* Hoisting and strength reduction keep every command and add the tail.
LEMMA PreheaderTakes ==
  ASSUME NEW C, NEW p \in Seq(C), NEW t \in Seq(C),
         NEW a \in 1..Len(p), NEW b \in 1..Len(p), a < b, NEW S \in SUBSET (a + 1 .. b - 1)
  PROVE  /\ Preheader(p, <<a, b>>, S, t) \in Seq(C)
         /\ Part(Preheader(p, <<a, b>>, S, t), p \o t, 1..Len(p \o t))
<1> DEFINE P == p \o t
           N == Len(p)
           M == Len(p \o t)
           R == (a + 1 .. b - 1) \ S
           q1 == SubSeq(p, 1, a - 1)
           q2 == Pick(p, S)
           q3 == <<p[a]>>
           q4 == Pick(p, R)
           q6 == SubSeq(p, b, N)
<1>1. P \in Seq(C) /\ N \in Nat /\ M = N + Len(t) /\ Len(t) \in Nat
  OBVIOUS
<1>2. q1 \in Seq(C) /\ Part(q1, P, 1 .. a - 1)
  <2>1. q1 \in Seq(C) /\ Part(q1, p, 1 .. a - 1)
    <3>1. a - 1 \in Nat /\ 1 <= (a - 1) + 1 /\ a - 1 <= Len(p)
      OBVIOUS
    <3> QED BY <3>1, PartStretch
  <2>2. (1 .. a - 1) \in SUBSET (1..Len(p))
    OBVIOUS
  <2> QED BY <1>1, <2>1, <2>2, PartLonger
<1>3. q2 \in Seq(C) /\ Part(q2, P, S)
  <2>1. S \in SUBSET (1..Len(p))
    OBVIOUS
  <2> QED BY <2>1, PartPicked, PartLonger
<1>4. q3 \in Seq(C) /\ Part(q3, P, {a})
  <2>1. q3 \in Seq(C) /\ Part(q3, p, {a})
    BY PartOne
  <2> QED BY <2>1, PartLonger
<1>5. q4 \in Seq(C) /\ Part(q4, P, R)
  <2>1. R \in SUBSET (1..Len(p))
    OBVIOUS
  <2> HIDE DEF R
  <2> QED BY <2>1, PartPicked, PartLonger
<1>6. t \in Seq(C) /\ Part(t, P, N + 1 .. M)
  <2>1. SubSeq(P, N + 1, M) = t
    <3>1. N + 1 \in Nat /\ M \in Nat /\ \A i \in 1..Len(t) : P[N + i] = t[i]
      BY <1>1
    <3>2. /\ SubSeq(P, N + 1, M) \in Seq(C) /\ Len(SubSeq(P, N + 1, M)) = Len(t)
          /\ \A i \in 1..Len(t) : SubSeq(P, N + 1, M)[i] = P[N + 1 + i - 1]
      BY <1>1, SubSeqProperties
    <3>3. \A i \in 1..Len(t) : SubSeq(P, N + 1, M)[i] = t[i]
      <4>1. \A i \in 1..Len(t) : N + 1 + i - 1 = N + i
        BY <1>1
      <4> QED BY <3>1, <3>2, <4>1
    <3> QED BY <3>2, <3>3, SeqEqual
  <2>2. Part(SubSeq(P, N + 1, M), P, N + 1 .. M)
    <3>1. N + 1 \in Nat /\ M \in Nat /\ 1 <= N + 1 /\ N + 1 <= M + 1 /\ M <= Len(P)
      BY <1>1
    <3> HIDE DEF P, N, M
    <3> QED BY <1>1, <3>1, PartStretch
  <2> QED BY <2>1, <2>2
<1>7. q6 \in Seq(C) /\ Part(q6, P, b .. N)
  <2>1. q6 \in Seq(C) /\ Part(q6, p, b .. N)
    <3>1. N \in Nat /\ b <= N + 1 /\ N <= Len(p) /\ b \in Nat /\ 1 <= b
      BY <1>1
    <3> HIDE DEF N
    <3> QED BY <3>1, PartStretch
  <2>2. b .. N \in SUBSET (1..Len(p))
    OBVIOUS
  <2> QED BY <1>1, <2>1, <2>2, PartLonger
<1>8. Preheader(p, <<a, b>>, S, t) = q1 \o q2 \o q3 \o q4 \o t \o q6
  BY DEF Preheader
<1> DEFINE D2 == (1 .. a - 1) \cup S
           D3 == D2 \cup {a}
           D4 == D3 \cup R
           D5 == D4 \cup (N + 1 .. M)
<1>9. D2 \in SUBSET (1..M) /\ (1 .. a - 1) \in SUBSET (1..M) /\ S \in SUBSET (1..M) /\ (1 .. a - 1) \cap S = {}
  BY <1>1
<1>10. D3 \in SUBSET (1..M) /\ {a} \in SUBSET (1..M) /\ D2 \cap {a} = {}
  BY <1>1
<1>11. D4 \in SUBSET (1..M) /\ R \in SUBSET (1..M) /\ D3 \cap R = {}
  <2>1. R \in SUBSET (1..M) /\ R \cap S = {}
    BY <1>1
  <2>2. R \cap (1 .. a - 1) = {} /\ a \notin R
    OBVIOUS
  <2> HIDE DEF R, M
  <2> QED BY <1>10, <2>1, <2>2
<1>12. D5 \in SUBSET (1..M) /\ (N + 1 .. M) \in SUBSET (1..M) /\ D4 \cap (N + 1 .. M) = {}
  <2>1. (N + 1 .. M) \in SUBSET (1..M) /\ (1..N) \cap (N + 1 .. M) = {}
    BY <1>1
  <2>2. (1 .. a - 1) \in SUBSET (1..N) /\ S \in SUBSET (1..N) /\ a \in 1..N
    OBVIOUS
  <2>3. R \in SUBSET (1..N)
    OBVIOUS
  <2> HIDE DEF R, M, N
  <2> QED BY <1>11, <2>1, <2>2, <2>3
<1>13. (b .. N) \in SUBSET (1..M) /\ D5 \cap (b .. N) = {} /\ D5 \cup (b .. N) = 1..M
  <2>1. \A x \in 1..M : x \in 1 .. a - 1 \/ x = a \/ x \in a + 1 .. b - 1 \/ x \in b .. N \/ x \in N + 1 .. M
    BY <1>1
  <2>2. 1..M \subseteq D5 \cup (b .. N)
    BY <2>1
  <2>3. (b .. N) \in SUBSET (1..M) /\ D5 \cap (b .. N) = {}
    BY <1>1
  <2> QED BY <1>12, <2>2, <2>3
<1> HIDE DEF q1, q2, q3, q4, q6, P, M, R, N
<1>14. q1 \o q2 \in Seq(C) /\ Part(q1 \o q2, P, D2)
  BY <1>1, <1>2, <1>3, <1>9, PartsJoin DEF M, P
<1>15. q1 \o q2 \o q3 \in Seq(C) /\ Part(q1 \o q2 \o q3, P, D3)
  <2> HIDE DEF D2
  <2> QED BY <1>1, <1>4, <1>10, <1>9, <1>14, PartsJoin DEF M, P
<1>16. q1 \o q2 \o q3 \o q4 \in Seq(C) /\ Part(q1 \o q2 \o q3 \o q4, P, D4)
  <2> HIDE DEF D3
  <2> QED BY <1>1, <1>5, <1>11, <1>10, <1>15, PartsJoin DEF M, P
<1>17. q1 \o q2 \o q3 \o q4 \o t \in Seq(C) /\ Part(q1 \o q2 \o q3 \o q4 \o t, P, D5)
  <2> HIDE DEF D4
  <2> QED BY <1>1, <1>6, <1>12, <1>11, <1>16, PartsJoin DEF M, P
<1>18. q1 \o q2 \o q3 \o q4 \o t \o q6 \in Seq(C) /\ Part(q1 \o q2 \o q3 \o q4 \o t \o q6, P, D5 \cup (b .. N))
  <2> HIDE DEF D5
  <2> QED BY <1>1, <1>7, <1>13, <1>12, <1>17, PartsJoin DEF M, P
<1> QED BY <1>8, <1>13, <1>18 DEF M, P

-----------------------------------------------------------------------------
(***************************************************************************)
(* Commands as the passes find them: of the shapes the back end knows,     *)
(* with jumps to labels that stand at one place.                           *)
(***************************************************************************)
WellMade(p) ==
  /\ p \in Seq(Shapes)
  /\ \A k \in 1..Len(p) : IsCommand(p[k])
  /\ \A k \in 1..Len(p) : \A l \in Targets(p[k]) : \E j \in 1..Len(p) : At(p, l) = {j}

Labels(p) == { k \in 1..Len(p) : p[k].op = "label" }

Stands(p, l) == \E j \in 1..Len(p) : At(p, l) = {j}

\* A part with all the labels of p has each of them at one place if p has.
LEMMA PartLabels ==
  ASSUME NEW q, NEW p, NEW D \in SUBSET (1..Len(p)), Part(q, p, D),
         Labels(p) \subseteq D, NEW l, Stands(p, l)
  PROVE  Stands(q, l)
<1>0. PICK j \in 1..Len(p) : At(p, l) = {j}
  BY DEF Stands
<1>1. PICK h : Takes(q, p, D, h)
  BY DEF Part
<1>2. j \in D /\ p[j].op = "label" /\ p[j].label = l
  BY <1>0 DEF At, Labels
<1>3. PICK i \in 1..Len(q) : h[i] = j
  BY <1>1, <1>2 DEF Takes
<1>4. i \in At(q, l)
  BY <1>1, <1>2, <1>3 DEF At, Takes
<1>5. ASSUME NEW k \in At(q, l) PROVE k = i
  <2>1. k \in 1..Len(q) /\ q[k].op = "label" /\ q[k].label = l
    BY <1>5 DEF At
  <2>2. h[k] \in At(p, l)
    BY <1>1, <2>1 DEF At, Takes
  <2> QED BY <1>0, <1>1, <1>3, <2>1, <2>2 DEF Takes
<1> QED BY <1>4, <1>5 DEF Stands

\* What is said of every command of p holds of every command of a part.
LEMMA PartEach ==
  ASSUME NEW q, NEW p, NEW D \in SUBSET (1..Len(p)), Part(q, p, D), NEW i \in 1..Len(q)
  PROVE  \E k \in 1..Len(p) : q[i] = p[k]
<1>1. PICK h : Takes(q, p, D, h)
  BY DEF Part
<1> QED BY <1>1 DEF Takes

LEMMA PartWellMade ==
  ASSUME NEW p, NEW t \in Seq(Shapes), NEW q \in Seq(Shapes), WellMade(p),
         \A k \in 1..Len(t) : IsCommand(t[k]) /\ Targets(t[k]) = {} /\ t[k].op # "label",
         Part(q, p \o t, 1..Len(p \o t))
  PROVE  WellMade(q)
<1> DEFINE P == p \o t
<1>1. /\ P \in Seq(Shapes) /\ Len(P) = Len(p) + Len(t) /\ Len(p) \in Nat /\ Len(t) \in Nat
      /\ \A k \in 1..Len(P) : P[k] = IF k <= Len(p) THEN p[k] ELSE t[k - Len(p)]
  BY DEF WellMade
<1>2. \A k \in 1..Len(P) : IF k <= Len(p) THEN k \in 1..Len(p) ELSE k - Len(p) \in 1..Len(t)
  BY <1>1
<1>3. \A k \in 1..Len(p) : k \in 1..Len(P) /\ k <= Len(p)
  BY <1>1
<1> HIDE DEF P
<1>4. ASSUME NEW k \in 1..Len(P) PROVE IsCommand(P[k])
  BY <1>1, <1>2 DEF WellMade
<1>5. ASSUME NEW l PROVE At(P, l) = At(p, l)
  <2>1. ASSUME NEW k \in At(P, l) PROVE k \in At(p, l)
    <3>1. k \in 1..Len(P) /\ P[k].op = "label"
      BY <2>1 DEF At
    <3>2. k <= Len(p)
      BY <1>1, <1>2, <3>1
    <3> QED BY <1>1, <1>2, <3>1, <3>2 DEF At
  <2>2. ASSUME NEW k \in At(p, l) PROVE k \in At(P, l)
    <3>1. k \in 1..Len(p)
      BY <2>2 DEF At
    <3> QED BY <1>1, <1>3, <3>1 DEF At
  <2> QED BY <2>1, <2>2
<1>6. ASSUME NEW k \in 1..Len(P), NEW l \in Targets(P[k])
      PROVE  \E j \in 1..Len(P) : At(P, l) = {j}
  <2>1. k <= Len(p) /\ k \in 1..Len(p) /\ P[k] = p[k]
    BY <1>1, <1>2, <1>6
  <2>2. \E j \in 1..Len(p) : At(p, l) = {j}
    BY <1>6, <2>1 DEF WellMade
  <2> QED BY <1>3, <1>5, <2>2
<1>7. Part(q, P, 1..Len(P)) /\ Labels(P) \subseteq 1..Len(P)
  BY DEF P, Labels
<1>8. ASSUME NEW i \in 1..Len(q)
      PROVE  /\ IsCommand(q[i])
             /\ \A l \in Targets(q[i]) : \E j \in 1..Len(q) : At(q, l) = {j}
  <2>1. PICK k \in 1..Len(P) : q[i] = P[k]
    BY <1>7, PartEach
  <2>2. ASSUME NEW l \in Targets(q[i]) PROVE \E j \in 1..Len(q) : At(q, l) = {j}
    <3>1. Stands(P, l)
      BY <1>6, <2>1, <2>2 DEF Stands
    <3> DEFINE D == 1..Len(P)
    <3>2. D \in SUBSET (1..Len(P)) /\ Part(q, P, D) /\ Labels(P) \subseteq D
      BY <1>7
    <3> HIDE DEF D
    <3>3. Stands(q, l)
      BY <3>1, <3>2, PartLabels
    <3> QED BY <3>3 DEF Stands
  <2> QED BY <1>4, <2>1, <2>2
<1> QED BY <1>8 DEF WellMade

-----------------------------------------------------------------------------
LEMMA Largest ==
  ASSUME NEW N \in Nat, NEW S \in SUBSET (0..N), S # {}
  PROVE  \E m \in S : \A x \in S : x <= m
<1> DEFINE T == { N - x : x \in S }
<1>1. T \in SUBSET Nat /\ T # {}
  <2>1. \A x \in S : x \in 0..N /\ N - x \in Nat
    OBVIOUS
  <2>2. PICK x \in S : TRUE
    OBVIOUS
  <2>3. N - x \in T
    BY <2>2
  <2> QED BY <2>1, <2>3
<1>2. PICK m \in T : \A x \in T : m <= x
  <2> HIDE DEF T
  <2> QED BY <1>1, Smallest
<1>3. PICK k \in S : m = N - k
  OBVIOUS
<1>4. ASSUME NEW x \in S PROVE x <= k
  <2>1. m <= N - x
    BY <1>2
  <2> QED BY <1>3, <2>1
<1> QED BY <1>4

NumberLiterals == DOMAIN literals \subseteq Names /\ \A v \in DOMAIN literals : literals[v] \in Int

\* The definition that the passes look up is in the body.
LEMMA DefInBody ==
  ASSUME NEW p, WellMade(p), NEW e \in (1..Len(p)) \X (1..Len(p)), NEW v, InBody(p, e, v) # {}
  PROVE  /\ DefOf(p, e, v) \in e[1] + 1 .. e[2] - 1
         /\ DefOf(p, e, v) \in 1..Len(p)
         /\ Writes(p[DefOf(p, e, v)], v)
<1> DEFINE B == InBody(p, e, v)
<1>1. B \in SUBSET (0..Len(p)) /\ Len(p) \in Nat
  BY DEF InBody, Defs, WellMade
<1>2. \E m \in B : \A j \in B : j <= m
  <2> HIDE DEF B
  <2>1. B # {}
    BY DEF B
  <2> QED BY <1>1, <2>1, Largest
<1>3. DefOf(p, e, v) \in B
  BY <1>2 DEF DefOf
<1> QED BY <1>1, <1>3 DEF InBody, Defs

LEMMA IncrementsAreInt ==
  ASSUME NEW p, NEW e, NEW v, NumberLiterals
  PROVE  Increments(p, e, v) = {} \/ \E n \in Int : Increments(p, e, v) = {n}
BY DEF Increments, NumberLiterals, IsLit

\* The commands that an address may be computed by.
Chainable(p, e) == { j \in e[1] + 1 .. e[2] - 1 : p[j].op \in {"set", "add", "sub", "mul"} }

Trails(p, e) ==
  { t \in [iv : Names, scale : Int, chain : SUBSET Chainable(p, e)] :
      t.scale # 0 => Increments(p, e, t.iv) # {} }

LEMMA TracedSound ==
  ASSUME NEW p, WellMade(p), NumberLiterals, NEW e \in (1..Len(p)) \X (1..Len(p)),
         NEW v \in Names, NEW found \in [Names -> SUBSET Trails(p, e)]
  PROVE  Traced(p, e, v, found) \in SUBSET Trails(p, e)
<1> DEFINE k == DefOf(p, e, v)
           c == p[k]
<1>1. CASE Increments(p, e, v) # {}
  <2>1. Traced(p, e, v, found) = {[iv |-> v, scale |-> 1, chain |-> {}]}
    BY <1>1 DEF Traced
  <2> QED BY <1>1, <2>1 DEF Trails
<1>2. CASE Increments(p, e, v) = {} /\ InBody(p, e, v) = {}
  <2>1. Traced(p, e, v, found) = {[iv |-> v, scale |-> 0, chain |-> {}]}
    BY <1>2 DEF Traced
  <2> QED BY <1>2, <2>1 DEF Trails
<1>3. CASE Increments(p, e, v) = {} /\ InBody(p, e, v) # {}
  <2>1. /\ k \in e[1] + 1 .. e[2] - 1 /\ k \in 1..Len(p)
        /\ c.op \in DOMAIN Arity /\ Len(c.args) = Arity[c.op]
        /\ \A i \in 1..Len(c.args) : c.args[i] \in Names
    BY <1>3, DefInBody DEF WellMade, IsCommand
  <2>2. ASSUME NEW u \in Trails(p, e), c.op \in {"set", "add", "sub", "mul"}
        PROVE  [u EXCEPT !.chain = @ \cup {k}] \in Trails(p, e)
    <3>1. k \in Chainable(p, e)
      BY <2>1, <2>2 DEF Chainable
    <3> HIDE DEF k, c
    <3> QED BY <3>1 DEF Trails
  <2>3. CASE c.op = "set"
    <3>1. Traced(p, e, v, found) = { [t EXCEPT !.chain = @ \cup {k}] : t \in found[c.args[1]] }
      BY <1>3, <2>3 DEF Traced
    <3>2. c.args[1] \in Names
      BY <2>1, <2>3 DEF Arity, Jumps, Arith
    <3> HIDE DEF k, c
    <3> QED BY <2>2, <2>3, <3>1, <3>2
  <2>4. CASE c.op \in {"add", "sub"}
    <3> DEFINE sign == IF c.op = "sub" THEN -1 ELSE 1
               sum(x, y) == [iv |-> IF x.scale = 0 /\ y.scale # 0 THEN y.iv ELSE x.iv,
                             scale |-> x.scale + sign * y.scale,
                             chain |-> x.chain \cup y.chain \cup {k}]
    <3>1. Traced(p, e, v, found) =
            { sum(xy[1], xy[2]) : xy \in { z \in found[c.args[1]] \X found[c.args[2]] :
                                             z[1].scale = 0 \/ z[2].scale = 0 } }
      BY <1>3, <2>4 DEF Traced
    <3>2. c.args[1] \in Names /\ c.args[2] \in Names
      <4>1. Arity[c.op] = 2
        BY <2>4 DEF Arity, Jumps, Arith
      <4> HIDE DEF c
      <4> QED BY <2>1, <4>1
    <3>3. k \in Chainable(p, e) /\ sign \in {-1, 1}
      BY <2>1, <2>4 DEF Chainable
    <3>4. ASSUME NEW x \in Trails(p, e), NEW y \in Trails(p, e), x.scale = 0 \/ y.scale = 0
          PROVE  sum(x, y) \in Trails(p, e)
      <4> HIDE DEF k, c, sign
      <4>1. /\ x.iv \in Names /\ x.scale \in Int /\ x.chain \in SUBSET Chainable(p, e)
            /\ y.iv \in Names /\ y.scale \in Int /\ y.chain \in SUBSET Chainable(p, e)
            /\ x.scale # 0 => Increments(p, e, x.iv) # {}
            /\ y.scale # 0 => Increments(p, e, y.iv) # {}
        BY DEF Trails
      <4>2. x.scale + sign * y.scale \in Int
        BY <3>3, <4>1
      <4>3. x.scale + sign * y.scale # 0 => x.scale # 0 \/ y.scale # 0
        BY <3>3, <4>1
      <4>4. sum(x, y) \in [iv : Names, scale : Int, chain : SUBSET Chainable(p, e)]
        BY <3>3, <4>1, <4>2
      <4>5. sum(x, y).scale # 0 => Increments(p, e, sum(x, y).iv) # {}
        BY <3>4, <4>1, <4>3
      <4> HIDE DEF sum
      <4> QED BY <4>4, <4>5 DEF Trails
    <3> HIDE DEF k, c, sum
    <3> QED BY <3>1, <3>2, <3>4
  <2>5. CASE c.op = "mul"
    <3> DEFINE n == IF IsLit(c.args[2]) THEN 2 ELSE 1
    <3>1. Traced(p, e, v, found) =
            IF IsLit(c.args[n])
            THEN { [t EXCEPT !.scale = @ * literals[c.args[n]], !.chain = @ \cup {k}] :
                     t \in { u \in found[c.args[3 - n]] : u.scale # 0 } }
            ELSE {}
      BY <1>3, <2>5 DEF Traced
    <3>2. n \in {1, 2} /\ 3 - n \in {1, 2} /\ c.args[3 - n] \in Names
      <4>1. Arity[c.op] = 2
        BY <2>5 DEF Arity, Jumps, Arith
      <4>2. n \in {1, 2} /\ 3 - n \in {1, 2}
        OBVIOUS
      <4> HIDE DEF c, n
      <4> QED BY <2>1, <4>1, <4>2
    <3>3. k \in Chainable(p, e)
      BY <2>1, <2>5 DEF Chainable
    <3>4. ASSUME NEW u \in Trails(p, e), u.scale # 0, NEW i \in Int
          PROVE  [u EXCEPT !.scale = @ * i, !.chain = @ \cup {k}] \in Trails(p, e)
      <4> HIDE DEF k, c, n
      <4>1. /\ u \in [iv : Names, scale : Int, chain : SUBSET Chainable(p, e)]
            /\ Increments(p, e, u.iv) # {}
        BY <3>4 DEF Trails
      <4>2. u.scale * i \in Int
        BY <4>1
      <4> QED BY <3>3, <4>1, <4>2 DEF Trails
    <3>5. IsLit(c.args[n]) => literals[c.args[n]] \in Int
      BY DEF IsLit, NumberLiterals
    <3> HIDE DEF k, c, n
    <3>6. found[c.args[3 - n]] \in SUBSET Trails(p, e)
      BY <3>2
    <3>7. CASE IsLit(c.args[n])
      <4> DEFINE upd(u) == [u EXCEPT !.scale = @ * literals[c.args[n]], !.chain = @ \cup {k}]
      <4>1. ASSUME NEW u \in found[c.args[3 - n]], u.scale # 0 PROVE upd(u) \in Trails(p, e)
        BY <3>4, <3>5, <3>6, <3>7, <4>1
      <4>2. Traced(p, e, v, found) = { upd(t) : t \in { u \in found[c.args[3 - n]] : u.scale # 0 } }
        BY <3>1, <3>7
      <4> HIDE DEF upd
      <4> QED BY <4>1, <4>2
    <3>8. CASE ~IsLit(c.args[n])
      BY <3>1, <3>8
    <3> QED BY <3>7, <3>8
  <2>6. CASE c.op \notin {"set", "add", "sub", "mul"}
    <3>1. Traced(p, e, v, found) = {}
      BY <1>3, <2>6 DEF Traced
    <3> QED BY <3>1
  <2> HIDE DEF k, c
  <2> QED BY <2>3, <2>4, <2>5, <2>6
<1> QED BY <1>1, <1>2, <1>3

\* The chain of an address: pure commands of the body; and what it follows is
\* a counter unless it never changes.
LEMMA FollowsSound ==
  ASSUME NEW p, WellMade(p), NumberLiterals, NEW e \in (1..Len(p)) \X (1..Len(p)),
         NEW v \in Names
  PROVE  Follows(p, e, v) \in SUBSET Trails(p, e)
<1> DEFINE A == [Names -> SUBSET Trails(p, e)]
           base == [n \in Names |-> {}]
           step == [r \in 1..13 |-> [f \in A |-> [n \in Names |-> Traced(p, e, n, f)]]]
           Body(q) == [r \in 0..13 |-> IF r = 0 THEN [n \in Names |-> {}]
                                       ELSE [n \in Names |-> Traced(p, e, n, q[r - 1])]]
           c == CHOOSE f : f = Body(f)
<1>1. base \in A
  OBVIOUS
<1>2. step \in [1..13 -> [A -> A]]
  <2>1. ASSUME NEW f \in A PROVE [n \in Names |-> Traced(p, e, n, f)] \in A
    BY TracedSound
  <2> HIDE DEF A
  <2> QED BY <2>1
<1>3. PICK q : Recursive(q, 13, A, base, step)
  <2> HIDE DEF A, base, step
  <2> QED BY <1>1, <1>2, Recursion
<1>4. q = Body(q)
  <2>1. q \in [0..13 -> A]
    BY <1>3 DEF Recursive
  <2> HIDE DEF A
  <2>2. ASSUME NEW r \in 0..13 PROVE q[r] = Body(q)[r]
    <3>1. CASE r = 0
      <4>1. q[0] = base
        BY <1>3 DEF Recursive
      <4> QED BY <3>1, <4>1
    <3>2. CASE r # 0
      <4>1. r \in 1..13 /\ r - 1 \in 0..13
        BY <3>2
      <4>2. q[r] = step[r][q[r - 1]]
        BY <1>3, <4>1 DEF Recursive
      <4>3. q[r - 1] \in A
        BY <2>1, <4>1
      <4>4. step[r][q[r - 1]] = [n \in Names |-> Traced(p, e, n, q[r - 1])]
        BY <4>1, <4>3
      <4> QED BY <3>2, <4>2, <4>4
    <3> QED BY <3>1, <3>2
  <2> QED BY <2>1, <2>2
<1>5. c = Body(c)
  <2> HIDE DEF Body
  <2> QED BY <1>4
<1>6. Follows(p, e, v) = c[13][v]
  BY DEF Follows
<1>7. \A f : Body(f) \in [0..13 -> {Body(f)[r] : r \in 0..13}] /\ Body(f)[0] = base
  OBVIOUS
<1>8. \A f : \A r \in 1..13 : Body(f)[r] = [n \in Names |-> Traced(p, e, n, f[r - 1])]
  OBVIOUS
<1> HIDE DEF c, Body
<1> DEFINE Good == { r \in 0..13 : c[r] \in A }
<1>9. 0 \in Good
  BY <1>1, <1>5, <1>7
<1>10. ASSUME NEW r \in 1..13, r - 1 \in Good PROVE r \in Good
  <2>1. c[r] = [n \in Names |-> Traced(p, e, n, c[r - 1])]
    <3>1. \A i \in 1..13 : Body(c)[i] = [n \in Names |-> Traced(p, e, n, c[i - 1])]
      BY <1>8
    <3> HIDE DEF Good
    <3> QED BY <1>5, <3>1
  <2>2. c[r - 1] \in A
    BY <1>10
  <2>3. c[r] \in A
    BY <2>1, <2>2, TracedSound
  <2> QED BY <2>3
<1>11. 13 \in Good
  <2> HIDE DEF Good
  <2>1. 0..13 \subseteq Good
    BY <1>9, <1>10, UpTo
  <2> QED BY <2>1
<1> QED BY <1>6, <1>11

-----------------------------------------------------------------------------
(***************************************************************************)
(* The invariant of the passes.  The names for what a round of strength    *)
(* reduction makes are not in use before it.                               *)
(***************************************************************************)
FreshFrom(n, p) == \A k \in 1..Len(Fresh) : n < k => Unused(p, Fresh[k])

PassesInv ==
  /\ case \in Cases
  /\ WellMade(commands)
  /\ KeepsApart
  /\ NumberLiterals
  /\ spotted \subseteq DOMAIN literals /\ newLiterals = {}
  /\ rounds \in 0..MaxRounds /\ steps \in 0..MaxRun
  /\ phase \in {"simplify", "hoist", "reduce", "fuse", "spot", "source", "target", "done"}
  /\ phase \in {"simplify", "hoist"} => FreshFrom(0, commands)
  /\ phase = "reduce" => FreshFrom(2 * rounds, commands)

LEMMA ArityFacts ==
  /\ \A op \in {"add", "sub", "mul", "less", "jless", "jnotless"} : Arity[op] = 2
  /\ Arity["set"] = 1 /\ Arity["read"] = 1 /\ Arity["store"] = 2
  /\ Arith \cup Jumps \cup {"label", "read", "store", "call", "return"} = DOMAIN Arity
BY DEF Arity, Arith, Jumps

LEMMA PassesInvInit == PassesInit => PassesInv
<1> SUFFICES ASSUME PassesInit PROVE PassesInv
  OBVIOUS
<1>1. case \in Cases /\ commands = case.commands /\ literals = case.literals
  BY DEF PassesInit
<1>2. WellMade(commands) /\ NumberLiterals /\ FreshFrom(0, commands)
  BY <1>1, CaseAssumption DEF WellMade, NumberLiterals, FreshFrom
<1>3. KeepsApart
  BY <1>1 DEF KeepsApart
<1>4. rounds \in 0..MaxRounds /\ steps \in 0..MaxRun
  BY BoundAssumption DEF PassesInit
<1> QED BY <1>1, <1>2, <1>3, <1>4 DEF PassesInit, PassesInv

Made(c, op, out, args) ==
  c \in Shapes /\ IsCommand(c) /\ c.op = op /\ c.out = out /\ c.args = args

\* A command with as many values as its class asks for is one the back end knows.
LEMMA MadeCommand ==
  ASSUME NEW op \in DOMAIN Arity, NEW out \in Seq(Names), NEW args \in Seq(Names), NEW label,
         Len(args) = Arity[op],
         Len(out) = IF op \in Arith \cup {"read"} THEN 1 ELSE 0,
         IF op \in Jumps \cup {"label"} THEN label \in LabelNames ELSE label = ""
  PROVE  Made(Cmd(op, out, args, label), op, out, args)
<1> DEFINE c == Cmd(op, out, args, label)
<1>1. c = [op |-> op, out |-> out, args |-> args, label |-> label]
  BY DEF Cmd
<1> HIDE DEF c
<1>2. c.op = op /\ c.out = out /\ c.args = args /\ c.label = label
  BY <1>1
<1>3. label \in LabelNames \cup {""}
  OBVIOUS
<1>4. c \in Shapes
  BY <1>1, <1>3 DEF Shapes
<1>5. IsCommand(c)
  <2>1. /\ \A k \in 1..Len(args) : args[k] \in Names
        /\ \A k \in 1..Len(out) : out[k] \in Names
    BY ElementOfSeq
  <2>2. Len(c.out) = IF c.op \in Arith \cup {"read"} THEN 1 ELSE 0
    BY <1>2
  <2>3. IF c.op \in Jumps \cup {"label"} THEN c.label \in LabelNames ELSE c.label = ""
    BY <1>2
  <2> QED BY <1>2, <2>1, <2>2, <2>3 DEF IsCommand
<1> QED BY <1>2, <1>4, <1>5 DEF c, Made

\* An identity becomes a copy of one of its operands.
LEMMA SimplifiedCommand ==
  ASSUME NEW c \in Shapes, IsCommand(c)
  PROVE  /\ Simplified(c) \in Shapes /\ IsCommand(Simplified(c))
         /\ Simplified(c).out = c.out /\ ToSet(Simplified(c).args) \subseteq ToSet(c.args)
         /\ \/ Simplified(c) = c
            \/ c.op \in {"add", "sub", "mul"} /\ Simplified(c).op = "set"
<1> DEFINE copy(k) == Cmd("set", c.out, <<c.args[k]>>, "")
<1>1. ASSUME NEW k \in 1..2, c.op \in {"add", "sub", "mul"}
      PROVE  /\ copy(k) \in Shapes /\ IsCommand(copy(k)) /\ copy(k).op = "set"
             /\ copy(k).out = c.out /\ ToSet(copy(k).args) \subseteq ToSet(c.args)
  <2>1. Arity[c.op] = 2 /\ Arity["set"] = 1 /\ "set" \in DOMAIN Arity
    BY <1>1, ArityFacts DEF Arity, Arith, Jumps
  <2>2. /\ c.out \in Seq(Names) /\ Len(c.out) = 1 /\ c.args \in Seq(Names)
        /\ k \in DOMAIN c.args /\ c.args[k] \in Names
    <3>1. c.out \in Seq(Names) /\ c.args \in Seq(Names) /\ Len(c.args) = 2
      BY <2>1 DEF Shapes, IsCommand
    <3>2. Len(c.out) = 1
      BY <1>1 DEF IsCommand, Arith
    <3> QED BY <3>1, <3>2
  <2> DEFINE as == <<c.args[k]>>
  <2>3. as \in Seq(Names) /\ Len(as) = 1 /\ DOMAIN as = {1} /\ as[1] = c.args[k]
    BY <2>2
  <2> HIDE DEF as
  <2>4. Made(Cmd("set", c.out, as, ""), "set", c.out, as)
    <3>1. "set" \in Arith \cup {"read"} /\ "set" \notin Jumps \cup {"label"}
      BY DEF Arith, Jumps
    <3>2. Len(c.out) = IF "set" \in Arith \cup {"read"} THEN 1 ELSE 0
      BY <2>2, <3>1
    <3>3. IF "set" \in Jumps \cup {"label"} THEN "" \in LabelNames ELSE "" = ""
      BY <3>1
    <3> HIDE DEF copy
    <3> QED BY <2>1, <2>2, <2>3, <3>2, <3>3, MadeCommand
  <2>5. ToSet(as) \subseteq ToSet(c.args)
    BY <2>2, <2>3 DEF ToSet
  <2> QED BY <2>4, <2>5 DEF as, Made
<1>2. \/ Simplified(c) = c
      \/ c.op \in {"add", "sub", "mul"} /\ \E k \in 1..2 : Simplified(c) = copy(k)
  <2>1. \/ Simplified(c) = c
        \/ c.op \in {"add", "sub", "mul"} /\ (Simplified(c) = copy(1) \/ Simplified(c) = copy(2))
    BY DEF Simplified
  <2> HIDE DEF copy
  <2>2. 1 \in 1..2 /\ 2 \in 1..2
    OBVIOUS
  <2> QED BY <2>1, <2>2
<1> HIDE DEF copy
<1> QED BY <1>1, <1>2

\* Lists of one length with the same labels have them at the same places.
LEMMA SameLabels ==
  ASSUME NEW p, NEW q, Len(q) = Len(p), NEW l,
         \A k \in 1..Len(p) : p[k].op = "label" \/ q[k].op = "label" => q[k] = p[k]
  PROVE  At(q, l) = At(p, l)
BY DEF At

LEMMA SimplifyStep ==
  ASSUME PassesInv, Simplify
  PROVE  PassesInv'
<1> DEFINE q == [k \in 1..Len(commands) |-> Simplified(commands[k])]
<1>1. /\ WellMade(commands) /\ commands \in Seq(Shapes) /\ Len(commands) \in Nat
      /\ \A k \in 1..Len(commands) : commands[k] \in Shapes /\ IsCommand(commands[k])
  BY DEF PassesInv, WellMade
<1>2. /\ q \in Seq(Shapes) /\ Len(q) = Len(commands)
      /\ \A k \in 1..Len(commands) : q[k] = Simplified(commands[k])
  BY <1>1, SimplifiedCommand
<1> HIDE DEF q
<1>3. ASSUME NEW k \in 1..Len(commands)
      PROVE  /\ IsCommand(q[k]) /\ q[k].out = commands[k].out
             /\ ToSet(q[k].args) \subseteq ToSet(commands[k].args)
             /\ \/ q[k] = commands[k]
                \/ commands[k].op \in {"add", "sub", "mul"} /\ q[k].op = "set"
  BY <1>1, <1>2, SimplifiedCommand
<1>4. \A l : At(q, l) = At(commands, l)
  <2>1. \A k \in 1..Len(commands) : commands[k].op = "label" \/ q[k].op = "label" => q[k] = commands[k]
    BY <1>3
  <2> QED BY <1>2, <2>1, SameLabels
<1>5. ASSUME NEW k \in 1..Len(commands), NEW l \in Targets(q[k])
      PROVE  l \in Targets(commands[k])
  BY <1>3, <1>5 DEF Targets, Jumps
<1>6. WellMade(q)
  <2>1. ASSUME NEW k \in 1..Len(q), NEW l \in Targets(q[k]) PROVE \E j \in 1..Len(q) : At(q, l) = {j}
    BY <1>1, <1>2, <1>4, <1>5, <2>1 DEF WellMade
  <2> QED BY <1>2, <1>3, <2>1 DEF WellMade
<1>7. ReadsOthers(commands) => ReadsOthers(q)
  BY <1>2, <1>3 DEF ReadsOthers
<1>8. FreshFrom(0, commands) => FreshFrom(0, q)
  BY <1>2, <1>3 DEF FreshFrom, Unused
<1>9. /\ commands' = q /\ phase' = "hoist" /\ phase = "simplify"
      /\ UNCHANGED <<case, literals, newLiterals, spotted, rounds, source, target, steps>>
  BY DEF Simplify, q
<1> QED BY <1>6, <1>7, <1>8, <1>9 DEF PassesInv, KeepsApart, NumberLiterals

LEMMA ForemostIsOne ==
  ASSUME NEW n \in Nat, NEW E \in SUBSET ((1..n) \X (1..n)), E # {}
  PROVE  Foremost(E) \in E
<1> DEFINE S == { e[2] : e \in E }
<1>1. S \in SUBSET Nat /\ S # {}
  OBVIOUS
<1>2. PICK m \in S : \A x \in S : m <= x
  <2> HIDE DEF S
  <2> QED BY <1>1, Smallest
<1>3. \E e \in E : \A f \in E : e[2] <= f[2]
  BY <1>2
<1> QED BY <1>3 DEF Foremost

\* One round: what is asked of the commands added is what is asked of all.
LEMMA RoundKeeps ==
  ASSUME NEW p, WellMade(p), NEW e \in BackEdges(p), NEW S \in SUBSET (e[1] + 1 .. e[2] - 1),
         NEW t \in Seq(Shapes),
         \A k \in 1..Len(t) : IsCommand(t[k]) /\ Targets(t[k]) = {} /\ t[k].op # "label"
  PROVE  /\ WellMade(Preheader(p, e, S, t))
         /\ ReadsOthers(p) /\ ReadsOthers(t) => ReadsOthers(Preheader(p, e, S, t))
         /\ \A v : Unused(p, v) /\ Unused(t, v) => Unused(Preheader(p, e, S, t), v)
<1> DEFINE q == Preheader(p, e, S, t)
           P == p \o t
<1>1. p \in Seq(Shapes) /\ Len(p) \in Nat /\ Len(t) \in Nat
  BY DEF WellMade
<1>2. PICK a \in 1..Len(p), b \in 1..Len(p) : e = <<a, b>> /\ a < b /\ e[1] = a /\ e[2] = b
  BY DEF BackEdges
<1>3. S \in SUBSET (a + 1 .. b - 1)
  BY <1>2
<1>4. q \in Seq(Shapes) /\ Part(q, P, 1..Len(P))
  BY <1>1, <1>2, <1>3, PreheaderTakes
<1> HIDE DEF q
<1>5. WellMade(q)
  BY <1>4, PartWellMade
<1>6. /\ Len(P) = Len(p) + Len(t)
      /\ \A k \in 1..Len(P) : P[k] = IF k <= Len(p) THEN p[k] ELSE t[k - Len(p)]
  BY <1>1
<1>7. \A k \in 1..Len(P) : IF k <= Len(p) THEN k \in 1..Len(p) ELSE k - Len(p) \in 1..Len(t)
  BY <1>1, <1>6
<1> HIDE DEF P
<1>8. ASSUME NEW i \in 1..Len(q)
      PROVE  (\E k \in 1..Len(p) : q[i] = p[k]) \/ (\E k \in 1..Len(t) : q[i] = t[k])
  <2>1. PICK k \in 1..Len(P) : q[i] = P[k]
    <3>1. 1..Len(P) \in SUBSET (1..Len(P)) /\ Part(q, P, 1..Len(P))
      BY <1>4
    <3> QED BY <3>1, PartEach
  <2> QED BY <1>6, <1>7, <2>1
<1>9. ReadsOthers(p) /\ ReadsOthers(t) => ReadsOthers(q)
  BY <1>8 DEF ReadsOthers
<1>10. \A v : Unused(p, v) /\ Unused(t, v) => Unused(q, v)
  BY <1>8 DEF Unused
<1> QED BY <1>5, <1>9, <1>10 DEF q

LEMMA HoistStep ==
  ASSUME PassesInv, Hoist
  PROVE  PassesInv'
<1> DEFINE e == Foremost(Hoists(commands))
           q == Preheader(commands, e, Invariant(commands, e), << >>)
<1>1. WellMade(commands) /\ Len(commands) \in Nat
  BY DEF PassesInv, WellMade
<1>2. e \in Hoists(commands)
  <2>1. Hoists(commands) \in SUBSET ((1..Len(commands)) \X (1..Len(commands)))
    BY DEF Hoists, BackEdges
  <2>2. Hoists(commands) # {}
    BY DEF Hoist
  <2> QED BY <1>1, <2>1, <2>2, ForemostIsOne
<1>3. e \in BackEdges(commands) /\ Invariant(commands, e) \in SUBSET (e[1] + 1 .. e[2] - 1)
  BY <1>2 DEF Hoists, Invariant
<1>4. /\ << >> \in Seq(Shapes) /\ ReadsOthers(<< >>) /\ \A v : Unused(<< >>, v)
      /\ \A k \in 1..Len(<< >>) : FALSE
  BY DEF ReadsOthers, Unused
<1> HIDE DEF e
<1>5. /\ WellMade(q)
      /\ ReadsOthers(commands) => ReadsOthers(q)
      /\ \A v : Unused(commands, v) => Unused(q, v)
  BY <1>1, <1>3, <1>4, RoundKeeps
<1>6. /\ commands' = q /\ phase' = phase /\ phase = "hoist" /\ rounds' = rounds + 1
      /\ rounds < MaxRounds /\ UNCHANGED <<case, literals, newLiterals, spotted, steps>>
  BY DEF Hoist, e
<1>7. rounds' \in 0..MaxRounds
  BY <1>6, BoundAssumption DEF PassesInv
<1> HIDE DEF q
<1>8. FreshFrom(0, commands) => FreshFrom(0, q)
  BY <1>5 DEF FreshFrom
<1>9. WellMade(commands') /\ KeepsApart' /\ NumberLiterals' /\ FreshFrom(0, commands')
  BY <1>5, <1>6, <1>8 DEF PassesInv, KeepsApart, NumberLiterals
<1> QED BY <1>6, <1>7, <1>9 DEF PassesInv

\* What a round of strength reduction works on: the loop, the command, what
\* its address follows.
LEMMA ReduceFinds ==
  ASSUME PassesInv, Reduces(commands) # {}, NEW e, e = Foremost(Reduces(commands)),
         NEW k, k = CHOOSE j \in Reducible(commands, e) : \A i \in Reducible(commands, e) : j <= i,
         NEW t, t = CHOOSE u \in Reductions(commands, e, k) : TRUE
  PROVE  /\ e \in BackEdges(commands) /\ e \in (1..Len(commands)) \X (1..Len(commands))
         /\ k \in 1..Len(commands) /\ commands[k].op \in {"read", "store"}
         /\ commands[k].args[1] \in Names /\ 1 \in DOMAIN commands[k].args
         /\ t \in Trails(commands, e) /\ t.scale # 0
<1>1. WellMade(commands) /\ Len(commands) \in Nat /\ NumberLiterals
  BY DEF PassesInv, WellMade
<1>2. e \in Reduces(commands)
  <2>1. Reduces(commands) \in SUBSET ((1..Len(commands)) \X (1..Len(commands)))
    BY DEF Reduces, BackEdges
  <2> QED BY <1>1, <2>1, ForemostIsOne
<1>3. /\ e \in BackEdges(commands) /\ e \in (1..Len(commands)) \X (1..Len(commands))
      /\ Reducible(commands, e) # {}
  BY <1>2 DEF Reduces, BackEdges
<1>4. Reducible(commands, e) \in SUBSET Nat /\ Reducible(commands, e) \in SUBSET (1..Len(commands))
  BY <1>1, <1>3 DEF Reducible
<1>5. k \in Reducible(commands, e)
  <2>1. \E j \in Reducible(commands, e) : \A i \in Reducible(commands, e) : j <= i
    BY <1>3, <1>4, Smallest
  <2> QED BY <2>1
<1>6. /\ k \in 1..Len(commands) /\ commands[k].op \in {"read", "store"}
      /\ Reductions(commands, e, k) # {}
  BY <1>4, <1>5 DEF Reducible
<1>7. commands[k].args[1] \in Names /\ 1 \in DOMAIN commands[k].args
  <2>1. IsCommand(commands[k]) /\ commands[k] \in Shapes
    BY <1>1, <1>6 DEF WellMade
  <2>2. Len(commands[k].args) \in {1, 2} /\ commands[k].args \in Seq(Names)
    BY <1>6, <2>1, ArityFacts DEF IsCommand, Shapes
  <2> QED BY <2>2
<1>8. t \in Reductions(commands, e, k)
  BY <1>6
<1>9. t \in Follows(commands, e, commands[k].args[1]) /\ t.scale # 0
  BY <1>8 DEF Reductions
<1>10. t \in Trails(commands, e)
  BY <1>1, <1>3, <1>7, <1>9, FollowsSound
<1> QED BY <1>3, <1>6, <1>7, <1>9, <1>10

\* The two commands that advance an address are well made and read nothing
\* they write; apart from the address they name what is new.
LEMMA AdvanceSound ==
  ASSUME NEW addr \in Names, NEW stride \in Names, NEW new \in Names, new # addr, new # stride
  PROVE  /\ Advance(addr, stride, new) \in Seq(Shapes)
         /\ \A k \in 1..Len(Advance(addr, stride, new)) :
              /\ IsCommand(Advance(addr, stride, new)[k])
              /\ Targets(Advance(addr, stride, new)[k]) = {}
              /\ Advance(addr, stride, new)[k].op # "label"
         /\ ReadsOthers(Advance(addr, stride, new))
         /\ \A v : v \notin {addr, stride, new} => Unused(Advance(addr, stride, new), v)
<1> DEFINE c == Cmd("add", <<new>>, <<addr, stride>>, "")
           d == Cmd("set", <<addr>>, <<new>>, "")
           o == <<new>>
           x == <<addr, stride>>
           r == <<addr>>
<1>1. /\ "add" \in DOMAIN Arity /\ Arity["add"] = 2 /\ "set" \in DOMAIN Arity /\ Arity["set"] = 1
      /\ {"add", "set"} \subseteq Arith /\ {"add", "set"} \cap (Jumps \cup {"label"}) = {}
  BY ArityFacts DEF Arith, Jumps
<1>2. /\ o \in Seq(Names) /\ Len(o) = 1 /\ ToSet(o) = {new}
      /\ x \in Seq(Names) /\ Len(x) = 2 /\ ToSet(x) = {addr, stride}
      /\ r \in Seq(Names) /\ Len(r) = 1 /\ ToSet(r) = {addr}
  BY DEF ToSet
<1>3. Made(c, "add", o, x)
  <2> HIDE DEF o, x
  <2>1. Len(o) = IF "add" \in Arith \cup {"read"} THEN 1 ELSE 0
    BY <1>1, <1>2
  <2>2. IF "add" \in Jumps \cup {"label"} THEN "" \in LabelNames ELSE "" = ""
    BY <1>1
  <2>3. Made(Cmd("add", o, x, ""), "add", o, x)
    BY <1>1, <1>2, <2>1, <2>2, MadeCommand
  <2> QED BY <2>3 DEF o, x
<1>4. Made(d, "set", r, o)
  <2> HIDE DEF o, r
  <2>1. Len(r) = IF "set" \in Arith \cup {"read"} THEN 1 ELSE 0
    BY <1>1, <1>2
  <2>2. IF "set" \in Jumps \cup {"label"} THEN "" \in LabelNames ELSE "" = ""
    BY <1>1
  <2>3. Made(Cmd("set", r, o, ""), "set", r, o)
    BY <1>1, <1>2, <2>1, <2>2, MadeCommand
  <2> QED BY <2>3 DEF o, r
<1>5. Advance(addr, stride, new) = <<c, d>>
  BY DEF Advance
<1> DEFINE a == Advance(addr, stride, new)
<1>6. a \in Seq(Shapes) /\ Len(a) = 2 /\ a[1] = c /\ a[2] = d
  <2> HIDE DEF c, d
  <2> QED BY <1>3, <1>4, <1>5 DEF Made
<1> HIDE DEF a, c, d, o, x, r
<1>7. \A k \in 1..Len(a) : a[k] = c \/ a[k] = d
  BY <1>6
<1>8. c.op \notin Jumps /\ c.op # "label" /\ d.op \notin Jumps /\ d.op # "label"
  BY <1>1, <1>3, <1>4 DEF Made
<1>9. \A k \in 1..Len(a) : IsCommand(a[k]) /\ Targets(a[k]) = {} /\ a[k].op # "label"
  BY <1>3, <1>4, <1>7, <1>8 DEF Made, Targets
<1>10. ReadsOthers(a)
  <2>1. ToSet(c.out) = {new} /\ ToSet(c.args) = {addr, stride}
    BY <1>2, <1>3 DEF Made
  <2>2. ToSet(d.out) = {addr} /\ ToSet(d.args) = {new}
    BY <1>2, <1>4 DEF Made
  <2> QED BY <1>7, <2>1, <2>2 DEF ReadsOthers
<1>11. \A v : v \notin {addr, stride, new} => Unused(a, v)
  <2>1. ToSet(c.out) = {new} /\ ToSet(c.args) = {addr, stride}
    BY <1>2, <1>3 DEF Made
  <2>2. ToSet(d.out) = {addr} /\ ToSet(d.args) = {new}
    BY <1>2, <1>4 DEF Made
  <2> QED BY <1>7, <2>1, <2>2 DEF Unused
<1> QED BY <1>6, <1>9, <1>10, <1>11 DEF a

LEMMA ReduceStep ==
  ASSUME PassesInv, Reduce
  PROVE  PassesInv'
<1> DEFINE e == Foremost(Reduces(commands))
           k == CHOOSE j \in Reducible(commands, e) : \A i \in Reducible(commands, e) : j <= i
           t == CHOOSE u \in Reductions(commands, e, k) : TRUE
           inc == CHOOSE n \in Increments(commands, e, t.iv) : TRUE
           addr == commands[k].args[1]
           stride == Fresh[2 * rounds + 1]
           new == Fresh[2 * rounds + 2]
           a == Advance(addr, stride, new)
           q == Preheader(commands, e, t.chain, a)
<1>1. WellMade(commands) /\ NumberLiterals /\ Len(commands) \in Nat /\ commands \in Seq(Shapes)
  BY DEF PassesInv, WellMade
<1>2. /\ phase = "reduce" /\ rounds < MaxRounds /\ Reduces(commands) # {}
      /\ commands' = q /\ literals' = [v \in DOMAIN literals \cup {stride} |-> IF v = stride THEN t.scale * inc ELSE literals[v]]
      /\ rounds' = rounds + 1
      /\ UNCHANGED <<case, newLiterals, spotted, phase, steps>>
  BY DEF Reduce
<1>3. /\ e \in BackEdges(commands) /\ k \in 1..Len(commands) /\ addr \in Names
      /\ 1 \in DOMAIN commands[k].args
      /\ t \in Trails(commands, e) /\ t.scale # 0
  <2> HIDE DEF e, k, t
  <2> USE <1>2
  <2>1. /\ e = Foremost(Reduces(commands))
        /\ k = CHOOSE j \in Reducible(commands, e) : \A i \in Reducible(commands, e) : j <= i
        /\ t = CHOOSE u \in Reductions(commands, e, k) : TRUE
    BY DEF e, k, t
  <2> QED BY <2>1, ReduceFinds
<1> HIDE DEF e, k, t
<1>4. t.scale \in Int /\ t.chain \in SUBSET (e[1] + 1 .. e[2] - 1) /\ inc \in Int
  <2>1. t.scale \in Int /\ t.chain \in SUBSET Chainable(commands, e) /\ Increments(commands, e, t.iv) # {}
    BY <1>3 DEF Trails
  <2>2. inc \in Int
    BY <1>1, <2>1, IncrementsAreInt
  <2> QED BY <2>1, <2>2 DEF Chainable
<1>5. /\ 2 * rounds + 1 \in 1..Len(Fresh) /\ 2 * rounds + 2 \in 1..Len(Fresh)
      /\ 2 * rounds \in Nat /\ 2 * (rounds + 1) = 2 * rounds + 2 /\ rounds' \in 0..MaxRounds
  BY <1>2, BoundAssumption, FreshAssumption DEF PassesInv
<1>6. stride \in Names /\ new \in Names /\ new # stride
  BY <1>5, FreshAssumption
<1>7. FreshFrom(2 * rounds, commands)
  BY <1>2 DEF PassesInv
<1>8. new # addr
  <2>1. Unused(commands, new)
    BY <1>5, <1>7 DEF FreshFrom
  <2>2. addr \in ToSet(commands[k].args)
    BY <1>3 DEF ToSet
  <2> QED BY <1>3, <2>1, <2>2 DEF Unused
<1> HIDE DEF addr, stride, new, inc
<1>9. /\ a \in Seq(Shapes) /\ ReadsOthers(a)
      /\ \A i \in 1..Len(a) : IsCommand(a[i]) /\ Targets(a[i]) = {} /\ a[i].op # "label"
      /\ \A v : v \notin {addr, stride, new} => Unused(a, v)
  BY <1>3, <1>6, <1>8, AdvanceSound
<1> HIDE DEF a
<1>10. /\ WellMade(q)
       /\ ReadsOthers(commands) => ReadsOthers(q)
       /\ \A v : Unused(commands, v) /\ Unused(a, v) => Unused(q, v)
  BY <1>1, <1>3, <1>4, <1>9, RoundKeeps
<1> HIDE DEF q
<1>11. FreshFrom(2 * (rounds + 1), q)
  <2>1. ASSUME NEW j \in 1..Len(Fresh), 2 * (rounds + 1) < j PROVE Unused(q, Fresh[j])
    <3>1. 2 * rounds < j /\ j # 2 * rounds + 1 /\ j # 2 * rounds + 2
      BY <1>5, <2>1
    <3>2. Unused(commands, Fresh[j])
      BY <1>7, <3>1 DEF FreshFrom
    <3>3. Fresh[j] # stride /\ Fresh[j] # new
      BY <1>5, <3>1, FreshAssumption DEF stride, new
    <3>4. Fresh[j] # addr
      <4>1. addr \in ToSet(commands[k].args)
        BY <1>3 DEF ToSet, addr
      <4> QED BY <1>3, <3>2, <4>1 DEF Unused
    <3> QED BY <1>9, <1>10, <3>2, <3>3, <3>4
  <2> QED BY <2>1 DEF FreshFrom
<1>12. NumberLiterals' /\ DOMAIN literals \subseteq DOMAIN literals'
  <2>1. t.scale * inc \in Int
    BY <1>4
  <2>2. /\ DOMAIN literals' = DOMAIN literals \cup {stride}
        /\ \A v \in DOMAIN literals' : literals'[v] = IF v = stride THEN t.scale * inc ELSE literals[v]
    BY <1>2
  <2> QED BY <1>1, <1>6, <2>1, <2>2 DEF NumberLiterals
<1>13. WellMade(commands') /\ KeepsApart'
  BY <1>2, <1>10 DEF PassesInv, KeepsApart
<1>14. spotted' \subseteq DOMAIN literals' /\ newLiterals' = {} /\ case' \in Cases /\ steps' \in 0..MaxRun
  BY <1>2, <1>12 DEF PassesInv
<1>15. phase' = "reduce" /\ FreshFrom(2 * rounds', commands')
  BY <1>2, <1>11
<1> QED BY <1>5, <1>12, <1>13, <1>14, <1>15 DEF PassesInv

\* A comparison fused with the jump after it, and what is left of the rest.
Rewritten(p) ==
  [k \in 1..Len(p) |-> IF k \in { j \in 1..Len(p) : Fusable(p, j) } THEN FusedWith(p[k], p[k + 1]) ELSE p[k]]

KeptPlaces(p) == { k \in 1..Len(p) : k - 1 \notin { j \in 1..Len(p) : Fusable(p, j) } }

LEMMA FusedCommand ==
  ASSUME NEW p, WellMade(p), NEW k \in 1..Len(p), Fusable(p, k)
  PROVE  /\ k + 1 \in 1..Len(p) /\ p[k + 1].op # "label" /\ p[k].op # "label"
         /\ Made(FusedWith(p[k], p[k + 1]), IF p[k + 1].op = "jz" THEN "jnotless" ELSE "jless",
                 << >>, p[k].args)
         /\ FusedWith(p[k], p[k + 1]).label = p[k + 1].label
         /\ p[k + 1].op \in Jumps
<1>1. /\ k + 1 \in 1..Len(p) /\ p[k].op = "less" /\ p[k + 1].op \in {"jz", "jnz"}
      /\ p[k] \in Shapes /\ p[k + 1] \in Shapes /\ IsCommand(p[k]) /\ IsCommand(p[k + 1])
  BY DEF Fusable, WellMade
<1>2. Len(p[k].args) = 2 /\ p[k].args \in Seq(Names)
  BY <1>1, ArityFacts DEF IsCommand, Shapes
<1>3. p[k + 1].label \in LabelNames /\ p[k + 1].op \in Jumps
  BY <1>1 DEF IsCommand, Jumps
<1> DEFINE op == IF p[k + 1].op = "jz" THEN "jnotless" ELSE "jless"
<1>4. op \in DOMAIN Arity /\ Arity[op] = 2 /\ op \in Jumps \cup {"label"} /\ op \notin Arith \cup {"read"}
  BY ArityFacts DEF Arith, Jumps
<1>5. << >> \in Seq(Names) /\ Len(<< >>) = 0
  OBVIOUS
<1> HIDE DEF op
<1>6. Len(<< >>) = IF op \in Arith \cup {"read"} THEN 1 ELSE 0
  BY <1>4, <1>5
<1>7. IF op \in Jumps \cup {"label"} THEN p[k + 1].label \in LabelNames ELSE p[k + 1].label = ""
  BY <1>3, <1>4
<1>8. Made(Cmd(op, << >>, p[k].args, p[k + 1].label), op, << >>, p[k].args)
  BY <1>2, <1>4, <1>5, <1>6, <1>7, MadeCommand
<1>9. FusedWith(p[k], p[k + 1]) = Cmd(op, << >>, p[k].args, p[k + 1].label)
  BY DEF FusedWith, op
<1>10. Cmd(op, << >>, p[k].args, p[k + 1].label).label = p[k + 1].label
  BY DEF Cmd
<1>11. p[k + 1].op # "label" /\ p[k].op # "label"
  BY <1>1
<1> QED BY <1>1, <1>3, <1>8, <1>9, <1>10, <1>11 DEF op

LEMMA FuseKeeps ==
  ASSUME NEW p, WellMade(p)
  PROVE  WellMade(Fused(p)) /\ (ReadsOthers(p) => ReadsOthers(Fused(p)))
<1> DEFINE r == Rewritten(p)
           D == KeptPlaces(p)
           q == Fused(p)
<1>1. q = Pick(r, D)
  BY DEF Fused, Rewritten, KeptPlaces
<1>2. /\ p \in Seq(Shapes) /\ Len(p) \in Nat
      /\ \A k \in 1..Len(p) : p[k] \in Shapes /\ IsCommand(p[k])
  BY DEF WellMade
<1>3. ASSUME NEW k \in 1..Len(p)
      PROVE  r[k] = IF Fusable(p, k) THEN FusedWith(p[k], p[k + 1]) ELSE p[k]
  BY DEF Rewritten
<1>4. ASSUME NEW k \in 1..Len(p)
      PROVE  /\ r[k] \in Shapes /\ IsCommand(r[k])
             /\ r[k].op = "label" \/ p[k].op = "label" => r[k] = p[k]
  <2>1. CASE Fusable(p, k)
    <3>1. r[k].op \in {"jnotless", "jless"} /\ r[k] \in Shapes /\ IsCommand(r[k])
      BY <1>3, <2>1, FusedCommand DEF Made
    <3>2. p[k].op # "label"
      BY <2>1, FusedCommand
    <3> HIDE DEF r
    <3> QED BY <3>1, <3>2
  <2>2. CASE ~Fusable(p, k)
    BY <1>2, <1>3, <2>2
  <2> QED BY <2>1, <2>2
<1>5. r \in Seq(Shapes) /\ Len(r) = Len(p)
  <2>1. r = [k \in 1..Len(p) |-> r[k]]
    BY DEF Rewritten
  <2> HIDE DEF r
  <2> QED BY <1>2, <1>4, <2>1
<1>6. D \in SUBSET (1..Len(p))
  BY DEF KeptPlaces
<1> HIDE DEF r, D, q
<1>7. q \in Seq(Shapes) /\ Part(q, r, D) /\ D \in SUBSET (1..Len(r))
  BY <1>1, <1>5, <1>6, PartPicked
<1>8. \A l : At(r, l) = At(p, l)
  BY <1>4, <1>5, SameLabels
<1>9. Labels(r) \subseteq D
  <2>1. ASSUME NEW k \in Labels(r) PROVE k \in D
    <3>1. k \in 1..Len(p) /\ p[k].op = "label"
      BY <1>4, <1>5, <2>1 DEF Labels
    <3>2. ASSUME NEW j \in 1..Len(p), Fusable(p, j), k - 1 = j PROVE FALSE
      <4>1. j + 1 = k /\ p[j + 1].op # "label"
        BY <3>1, <3>2, FusedCommand
      <4> QED BY <3>1, <4>1
    <3> QED BY <3>1, <3>2 DEF D, KeptPlaces
  <2> QED BY <2>1
<1>10. ASSUME NEW k \in 1..Len(p), NEW l \in Targets(r[k])
       PROVE  \E j \in 1..Len(r) : At(r, l) = {j}
  <2>1. \E i \in 1..Len(p) : l \in Targets(p[i])
    <3>1. CASE Fusable(p, k)
      <4>1. l = r[k].label
        BY <1>10 DEF Targets
      <4>2. l = p[k + 1].label /\ p[k + 1].op \in Jumps /\ k + 1 \in 1..Len(p)
        BY <1>3, <3>1, <4>1, FusedCommand
      <4> QED BY <4>2 DEF Targets
    <3>2. CASE ~Fusable(p, k)
      BY <1>3, <1>10, <3>2
    <3> QED BY <3>1, <3>2
  <2> QED BY <1>5, <1>8, <2>1 DEF WellMade
<1>11. ASSUME NEW i \in 1..Len(q)
       PROVE  /\ IsCommand(q[i])
              /\ \A l \in Targets(q[i]) : \E j \in 1..Len(q) : At(q, l) = {j}
  <2>1. PICK k \in 1..Len(r) : q[i] = r[k]
    <3>1. D \in SUBSET (1..Len(r)) /\ Part(q, r, D)
      BY <1>7
    <3> QED BY <3>1, PartEach
  <2>2. ASSUME NEW l \in Targets(q[i]) PROVE \E j \in 1..Len(q) : At(q, l) = {j}
    <3>1. Stands(r, l)
      BY <1>5, <1>10, <2>1, <2>2 DEF Stands
    <3>2. D \in SUBSET (1..Len(r)) /\ Part(q, r, D)
      BY <1>7
    <3>3. Stands(q, l)
      BY <1>9, <3>1, <3>2, PartLabels
    <3> QED BY <3>3 DEF Stands
  <2> QED BY <1>4, <1>5, <2>1, <2>2
<1>12. WellMade(q)
  BY <1>7, <1>11 DEF WellMade
<1>13. ASSUME ReadsOthers(p), NEW i \in 1..Len(q)
       PROVE  ToSet(q[i].out) \cap ToSet(q[i].args) = {}
  <2>1. PICK k \in 1..Len(r) : q[i] = r[k]
    <3>1. D \in SUBSET (1..Len(r)) /\ Part(q, r, D)
      BY <1>7
    <3> QED BY <3>1, PartEach
  <2>2. CASE Fusable(p, k)
    <3>1. r[k].out = << >>
      BY <1>3, <1>5, <2>2, FusedCommand DEF Made
    <3> QED BY <2>1, <3>1 DEF ToSet
  <2>3. CASE ~Fusable(p, k)
    BY <1>3, <1>5, <1>13, <2>1, <2>3 DEF ReadsOthers
  <2> QED BY <2>2, <2>3
<1>14. ReadsOthers(p) => ReadsOthers(q)
  BY <1>13 DEF ReadsOthers
<1> QED BY <1>12, <1>14 DEF q

LEMMA FuseStep ==
  ASSUME PassesInv, Fuse
  PROVE  PassesInv'
<1>1. WellMade(Fused(commands)) /\ (ReadsOthers(commands) => ReadsOthers(Fused(commands)))
  BY FuseKeeps DEF PassesInv
<1>2. /\ commands' = Fused(commands) /\ phase' = "spot"
      /\ UNCHANGED <<case, literals, newLiterals, spotted, rounds, steps>>
  BY DEF Fuse
<1>3. WellMade(commands') /\ KeepsApart' /\ NumberLiterals'
  BY <1>1, <1>2 DEF PassesInv, KeepsApart, NumberLiterals
<1> QED BY <1>2, <1>3 DEF PassesInv

LEMMA OtherSteps ==
  ASSUME PassesInv,
         \/ HoistEnds \/ ReduceEnds \/ Spot \/ RunSource \/ SourceEnds \/ RunTarget \/ TargetEnds
         \/ UNCHANGED passesVars
  PROVE  PassesInv'
<1>1. UNCHANGED <<case, commands, literals, newLiterals>>
  BY DEF HoistEnds, ReduceEnds, Spot, RunSource, SourceEnds, RunTarget, TargetEnds, passesVars
<1>2. WellMade(commands') /\ KeepsApart' /\ NumberLiterals' /\ case' \in Cases /\ newLiterals' = {}
  BY <1>1 DEF PassesInv, KeepsApart, NumberLiterals
<1>3. spotted' \subseteq DOMAIN literals'
  BY <1>1 DEF PassesInv, HoistEnds, ReduceEnds, Spot, RunSource, SourceEnds, RunTarget, TargetEnds,
              passesVars
<1>4. rounds' \in 0..MaxRounds /\ steps' \in 0..MaxRun
  BY BoundAssumption DEF PassesInv, HoistEnds, ReduceEnds, Spot, RunSource, SourceEnds, RunTarget,
                         TargetEnds, passesVars
<1>5. /\ phase' \in {"simplify", "hoist", "reduce", "fuse", "spot", "source", "target", "done"}
      /\ phase' \in {"simplify", "hoist"} => phase' = phase
      /\ phase' = "reduce" => \/ phase = "reduce" /\ rounds' = rounds
                              \/ phase = "hoist" /\ rounds' = 0
  BY DEF PassesInv, HoistEnds, ReduceEnds, Spot, RunSource, SourceEnds, RunTarget, TargetEnds,
         passesVars
<1>6. phase' \in {"simplify", "hoist"} => FreshFrom(0, commands')
  BY <1>1, <1>5 DEF PassesInv
<1>7. phase' = "reduce" => FreshFrom(2 * rounds', commands')
  BY <1>1, <1>5 DEF PassesInv
<1> QED BY <1>2, <1>3, <1>4, <1>5, <1>6, <1>7 DEF PassesInv

LEMMA PassesInvStep == PassesInv /\ [PassesNext]_passesVars => PassesInv'
BY SimplifyStep, HoistStep, ReduceStep, FuseStep, OtherSteps DEF PassesNext

LEMMA PassesTypeFromInv == PassesInv => PassesTypeOK
<1> SUFFICES ASSUME PassesInv PROVE PassesTypeOK
  OBVIOUS
<1>1. ASSUME NEW k \in 1..Len(commands), NEW l \in Targets(commands[k])
      PROVE  Cardinality(At(commands, l)) = 1
  <2>1. PICK j \in 1..Len(commands) : At(commands, l) = {j}
    BY DEF PassesInv, WellMade
  <2> QED BY <2>1, FS_Singleton
<1> QED BY <1>1 DEF PassesInv, PassesTypeOK, WellMade, NumberLiterals

\* Whatever function the tree makes, after every pass the commands have the
\* shapes the back end knows and jump to labels that stand at one place.
THEOREM PassesTypeCorrect == PassesSpec => []PassesTypeOK
<1>1. PassesSpec => []PassesInv
  BY PassesInvInit, PassesInvStep, PTL DEF PassesSpec
<1> QED BY <1>1, PassesTypeFromInv, PTL

\* No pass makes a command that writes what it reads (peephole.py:470), for
\* every function and any number of rewritten loops.
THEOREM PassesKeepApart == PassesSpec => []KeepsApart
<1>1. PassesSpec => []PassesInv
  BY PassesInvInit, PassesInvStep, PTL DEF PassesSpec
<1>2. PassesInv => KeepsApart
  BY DEF PassesInv
<1> QED BY <1>1, <1>2, PTL

-----------------------------------------------------------------------------
(***************************************************************************)
(* What the passes may not change.  A run of p from env is a sequence of   *)
(* machines; q covers p if whatever a run of p has done by any step, its   *)
(* loads, stores and calls and the value returned, a run of q has done by  *)
(* one of its own.                                                         *)
(***************************************************************************)
RunOf(p, lits, in, f, n) ==
  /\ f[0] = Boot(in)
  /\ \A i \in 1..n : ~Halted(f[i - 1]) /\ f[i] = Executed(f[i - 1], p, lits)

Reaches(p, lits, in, n, m) == \E f : RunOf(p, lits, in, f, n) /\ f[n] = m

Covers(q, p, lits, in) ==
  \A n \in Nat : \A s : Reaches(p, lits, in, n, s) =>
    \E k \in Nat : \E t : Reaches(q, lits, in, k, t) /\ t.trace = s.trace /\ t.result = s.result

LEMMA CoversSelf ==
  ASSUME NEW p, NEW lits, NEW in
  PROVE  Covers(p, p, lits, in)
BY DEF Covers

LEMMA CoversChain ==
  ASSUME NEW p, NEW q, NEW r, NEW lits, NEW in, Covers(q, p, lits, in), Covers(r, q, lits, in)
  PROVE  Covers(r, p, lits, in)
<1>1. ASSUME NEW n \in Nat, NEW s, Reaches(p, lits, in, n, s)
      PROVE  \E k \in Nat : \E t : Reaches(r, lits, in, k, t) /\ t.trace = s.trace /\ t.result = s.result
  <2>1. PICK k \in Nat : \E t : Reaches(q, lits, in, k, t) /\ t.trace = s.trace /\ t.result = s.result
    BY <1>1 DEF Covers
  <2>2. PICK t : Reaches(q, lits, in, k, t) /\ t.trace = s.trace /\ t.result = s.result
    BY <2>1
  <2>3. PICK j \in Nat : \E u : Reaches(r, lits, in, j, u) /\ u.trace = t.trace /\ u.result = t.result
    BY <2>2 DEF Covers
  <2> QED BY <2>2, <2>3
<1> QED BY <1>1 DEF Covers

LEMMA ReachStart ==
  ASSUME NEW p, NEW lits, NEW in
  PROVE  Reaches(p, lits, in, 0, Boot(in))
<1> DEFINE f == [i \in 0..0 |-> Boot(in)]
<1>1. RunOf(p, lits, in, f, 0) /\ f[0] = Boot(in)
  BY DEF RunOf
<1> HIDE DEF f
<1> QED BY <1>1 DEF Reaches

LEMMA ReachStep ==
  ASSUME NEW p, NEW lits, NEW in, NEW n \in Nat, NEW m, Reaches(p, lits, in, n, m), ~Halted(m)
  PROVE  Reaches(p, lits, in, n + 1, Executed(m, p, lits))
<1>1. PICK f : RunOf(p, lits, in, f, n) /\ f[n] = m
  BY DEF Reaches
<1> DEFINE g == [i \in 0..(n + 1) |-> IF i = n + 1 THEN Executed(m, p, lits) ELSE f[i]]
<1>2. g[0] = Boot(in) /\ g[n + 1] = Executed(m, p, lits)
  BY <1>1 DEF RunOf
<1>3. ASSUME NEW i \in 1..(n + 1)
      PROVE  ~Halted(g[i - 1]) /\ g[i] = Executed(g[i - 1], p, lits)
  <2>1. i - 1 \in 0..(n + 1) /\ i \in 0..(n + 1) /\ i - 1 # n + 1
    OBVIOUS
  <2>2. g[i - 1] = f[i - 1]
    BY <2>1
  <2>3. CASE i = n + 1
    <3>1. i - 1 = n
      BY <2>3
    <3> HIDE DEF g
    <3> QED BY <1>1, <1>2, <2>2, <2>3, <3>1
  <2>4. CASE i # n + 1
    <3>1. i \in 1..n /\ g[i] = f[i]
      BY <2>1, <2>4
    <3> HIDE DEF g
    <3> QED BY <1>1, <2>2, <3>1 DEF RunOf
  <2> QED BY <2>3, <2>4
<1> HIDE DEF g
<1>4. RunOf(p, lits, in, g, n + 1)
  BY <1>2, <1>3 DEF RunOf
<1> QED BY <1>2, <1>4 DEF Reaches

\* A machine does one thing only.
LEMMA RunsAgree ==
  ASSUME NEW p, NEW lits, NEW in, NEW n \in Nat, NEW f, NEW k \in Nat, NEW g,
         RunOf(p, lits, in, f, n), RunOf(p, lits, in, g, k), n <= k
  PROVE  \A i \in 0..n : f[i] = g[i]
<1> DEFINE Same == { i \in 0..n : f[i] = g[i] }
<1>1. 0 \in Same
  BY DEF RunOf
<1>2. ASSUME NEW i \in 1..n, i - 1 \in Same PROVE i \in Same
  <2>1. i \in 1..k /\ f[i - 1] = g[i - 1] /\ i \in 0..n
    BY <1>2
  <2> QED BY <2>1 DEF RunOf
<1>3. 0..n \subseteq Same
  <2> HIDE DEF Same
  <2> QED BY <1>1, <1>2, UpTo
<1> QED BY <1>3

-----------------------------------------------------------------------------
(***************************************************************************)
(* Machines whose values are numbers and whose counter is in the function. *)
(***************************************************************************)
IntegerCells == \A a \in Int : Content(a) \in Int

Accesses == ({"read", "store"} \X Int \X Int) \cup ({"call"} \X Int)

Numbers(f) == \A v \in DOMAIN f : f[v] \in Int

SoundMachine(m, p) ==
  /\ m.pc \in 1..Len(p) /\ Numbers(m.env) /\ Numbers(m.mem)
  /\ m.trace \in Seq(Accesses)

Runnable(p) == WellMade(p) /\ Len(p) > 0 /\ p[Len(p)].op \in {"jump", "return"}

LEMMA PutNumbers ==
  ASSUME NEW f, Numbers(f), NEW a, NEW x \in Int
  PROVE  Numbers(Put(f, a, x))
BY DEF Numbers, Put

LEMMA OperandsAreInt ==
  ASSUME NEW m, Numbers(m.env), NEW lits, Numbers(lits), NEW c, Len(c.args) \in Nat
  PROVE  /\ Len(Operands(m, c, lits)) = Len(c.args)
         /\ \A k \in 1..Len(c.args) :
              /\ Operands(m, c, lits)[k] = Val(m, lits, c.args[k])
              /\ Operands(m, c, lits)[k] \in Int
<1>1. \A v : Val(m, lits, v) \in Int
  BY DEF Val, Numbers
<1> QED BY <1>1 DEF Operands

\* A jump goes to the place of its label.
LEMMA JumpTo ==
  ASSUME NEW p, NEW k \in 1..Len(p), WellMade(p), p[k].op \in Jumps
  PROVE  \E j \in 1..Len(p) : /\ At(p, p[k].label) = {j}
                              /\ (CHOOSE h \in At(p, p[k].label) : TRUE) = j
BY DEF WellMade, Targets

LEMMA OpClasses ==
  /\ \A op \in DOMAIN Arity :
       op \in Arith \/ op \in Jumps \/ op \in {"label", "read", "store", "call", "return"}
  /\ Arith \cap Jumps = {}
  /\ (Arith \cup Jumps) \cap {"label", "read", "store", "call", "return"} = {}
BY DEF Arity, Arith, Jumps

\* How many values a command reads.
LEMMA ArgCount ==
  ASSUME NEW c, IsCommand(c)
  PROVE  /\ c.op \in {"add", "sub", "mul", "less", "store", "jless", "jnotless"} => Len(c.args) = 2
         /\ c.op \in {"set", "read", "jz", "jnz", "call", "return"} => Len(c.args) = 1
         /\ c.op \in Arith \cup {"read"} => Len(c.out) = 1
         /\ Len(c.args) \in {0, 1, 2}
<1>1. /\ \A op \in {"add", "sub", "mul", "less", "store", "jless", "jnotless"} : Arity[op] = 2
      /\ \A op \in {"set", "read", "jz", "jnz", "call", "return"} : Arity[op] = 1
      /\ \A op \in DOMAIN Arity : Arity[op] \in {0, 1, 2}
  BY DEF Arity, Arith, Jumps
<1> QED BY <1>1 DEF IsCommand

LEMMA FirstArgs ==
  ASSUME NEW c, IsCommand(c)
  PROVE  /\ c.op \in {"add", "sub", "mul", "less", "store", "jless", "jnotless"} =>
              1 \in 1..Len(c.args) /\ 2 \in 1..Len(c.args)
         /\ c.op \in {"set", "read", "jz", "jnz", "call", "return"} => 1 \in 1..Len(c.args)
BY ArgCount

LEMMA ComputedIsInt ==
  ASSUME NEW c, c.op \in Arith, IsCommand(c), NEW x, Len(x) = Len(c.args),
         \A k \in 1..Len(c.args) : x[k] \in Int
  PROVE  Computed(c.op, x) \in Int
<1>1. CASE c.op = "set"
  <2>1. x[1] \in Int
    BY <1>1, FirstArgs
  <2> QED BY <1>1, <2>1 DEF Computed
<1>2. CASE c.op \in {"add", "sub", "mul", "less"}
  <2>1. x[1] \in Int /\ x[2] \in Int
    BY <1>2, FirstArgs
  <2> QED BY <1>2, <2>1 DEF Computed
<1> QED BY <1>1, <1>2 DEF Arith

LEMMA AccessTyped ==
  ASSUME NEW m, Numbers(m.mem), IntegerCells, NEW c, IsCommand(c), NEW x,
         \A k \in 1..Len(c.args) : x[k] \in Int
  PROVE  Access(m, c, x) \in Seq(Accesses)
<1>1. \A a \in Int : Cell(m, a) \in Int
  BY DEF Cell, Numbers, IntegerCells
<1>2. CASE c.op = "read"
  <2>1. x[1] \in Int
    BY <1>2, FirstArgs
  <2>2. <<"read", x[1], Cell(m, x[1])>> \in Accesses
    BY <1>1, <2>1 DEF Accesses
  <2> QED BY <1>2, <2>2 DEF Access
<1>3. CASE c.op = "store"
  <2>1. x[1] \in Int /\ x[2] \in Int
    BY <1>3, FirstArgs
  <2>2. <<"store", x[1], x[2]>> \in Accesses
    BY <2>1 DEF Accesses
  <2> QED BY <1>3, <2>2 DEF Access
<1>4. CASE c.op = "call"
  <2>2. x[1] \in Int
    BY <1>4, FirstArgs
  <2>3. <<"call", x[1]>> \in Accesses
    BY <2>2 DEF Accesses
  <2> QED BY <1>4, <2>3 DEF Access
<1>5. CASE c.op \notin {"read", "store", "call"}
  <2>1. Access(m, c, x) = << >>
    BY <1>5 DEF Access
  <2> QED BY <2>1
<1> QED BY <1>2, <1>3, <1>4, <1>5

LEMMA SoundStep ==
  ASSUME NEW p, Runnable(p), NEW lits, Numbers(lits), IntegerCells, NEW m, SoundMachine(m, p)
  PROVE  SoundMachine(Executed(m, p, lits), p)
<1> DEFINE c == p[m.pc]
           x == Operands(m, c, lits)
           n == Executed(m, p, lits)
<1>1. /\ c \in Shapes /\ IsCommand(c) /\ Len(p) \in Nat /\ m.pc \in 1..Len(p)
      /\ Len(c.args) \in Nat /\ WellMade(p)
  <2>1. c \in Shapes /\ IsCommand(c) /\ Len(p) \in Nat /\ m.pc \in 1..Len(p) /\ WellMade(p)
    BY DEF SoundMachine, Runnable, WellMade
  <2> QED BY <2>1, ArgCount
<1>2. Len(x) = Len(c.args) /\ \A k \in 1..Len(c.args) : x[k] \in Int
  BY <1>1, OperandsAreInt DEF SoundMachine
<1>3. /\ n.pc = PcAfter(m, p, x) /\ n.env = EnvAfter(m, c, x)
      /\ n.mem = IF c.op = "store" THEN Put(m.mem, x[1], x[2]) ELSE m.mem
      /\ n.trace = m.trace \o Access(m, c, x)
  BY DEF Executed
<1> HIDE DEF n, x
<1>4. PcAfter(m, p, x) \in 1..Len(p)
  <2>1. CASE c.op \in Jumps /\ Taken(c.op, x)
    <3>1. PICK j \in 1..Len(p) : (CHOOSE k \in At(p, c.label) : TRUE) = j
      BY <1>1, <2>1, JumpTo
    <3>2. PcAfter(m, p, x) = j
      BY <2>1, <3>1 DEF PcAfter, Jumps
    <3> QED BY <3>2
  <2>2. CASE c.op = "return"
    <3>1. PcAfter(m, p, x) = m.pc
      BY <2>2 DEF PcAfter, Jumps
    <3> QED BY <1>1, <3>1
  <2>3. CASE ~(c.op \in Jumps /\ Taken(c.op, x)) /\ c.op # "return"
    <3>1. PcAfter(m, p, x) = m.pc + 1
      BY <2>3 DEF PcAfter
    <3>2. m.pc # Len(p)
      BY <2>3 DEF Runnable, Jumps, Taken
    <3> QED BY <1>1, <3>1, <3>2
  <2> QED BY <2>1, <2>2, <2>3
<1>5. Numbers(EnvAfter(m, c, x))
  <2>1. Numbers(m.env)
    BY DEF SoundMachine
  <2>2. CASE c.op \in Arith
    <3>1. Computed(c.op, x) \in Int
      BY <1>1, <1>2, <2>2, ComputedIsInt
    <3>2. EnvAfter(m, c, x) = Put(m.env, c.out[1], Computed(c.op, x))
      BY <2>2 DEF EnvAfter, Arith
    <3> QED BY <2>1, <3>1, <3>2, PutNumbers
  <2>3. CASE c.op = "read"
    <3>1. x[1] \in Int
      BY <1>1, <1>2, <2>3, FirstArgs
    <3>2. Cell(m, x[1]) \in Int
      BY <3>1 DEF Cell, Numbers, IntegerCells, SoundMachine
    <3>3. EnvAfter(m, c, x) = Put(m.env, c.out[1], Cell(m, x[1]))
      BY <2>3 DEF EnvAfter, Arith
    <3> QED BY <2>1, <3>2, <3>3, PutNumbers
  <2>4. CASE c.op = "call"
    <3>1. EnvAfter(m, c, x) = [v \in DOMAIN m.env |-> IF v \in Globals THEN m.env[v] + 1 ELSE m.env[v]]
      BY <2>4 DEF EnvAfter, Arith
    <3>2. \A v \in DOMAIN m.env : m.env[v] \in Int /\ m.env[v] + 1 \in Int
      BY <2>1 DEF Numbers
    <3> QED BY <3>1, <3>2 DEF Numbers
  <2>5. CASE c.op \notin Arith \cup {"read", "call"}
    <3>1. EnvAfter(m, c, x) = m.env
      BY <2>5 DEF EnvAfter
    <3> QED BY <2>1, <3>1
  <2> QED BY <2>2, <2>3, <2>4, <2>5
<1>6. Numbers(n.mem)
  <2>1. Numbers(m.mem)
    BY DEF SoundMachine
  <2>2. CASE c.op = "store"
    <3>1. x[2] \in Int
      BY <1>1, <1>2, <2>2, FirstArgs
    <3> QED BY <1>3, <2>1, <2>2, <3>1, PutNumbers
  <2> QED BY <1>3, <2>1, <2>2
<1>7. m.trace \o Access(m, c, x) \in Seq(Accesses)
  <2>1. Access(m, c, x) \in Seq(Accesses) /\ m.trace \in Seq(Accesses)
    BY <1>1, <1>2, AccessTyped DEF SoundMachine
  <2> QED BY <2>1
<1> QED BY <1>3, <1>4, <1>5, <1>6, <1>7 DEF SoundMachine, n

LEMMA SoundReach ==
  ASSUME NEW p, Runnable(p), NEW lits, Numbers(lits), IntegerCells, NEW in, Numbers(in),
         NEW n \in Nat, NEW f, RunOf(p, lits, in, f, n)
  PROVE  \A i \in 0..n : SoundMachine(f[i], p)
<1> DEFINE Good == { i \in 0..n : SoundMachine(f[i], p) }
<1>1. 0 \in Good
  <2>1. SoundMachine(Boot(in), p)
    <3>1. /\ Boot(in).pc = 1 /\ Boot(in).env = in /\ Boot(in).mem = << >> /\ Boot(in).trace = << >>
      BY DEF Boot
    <3>2. Numbers(<< >>) /\ << >> \in Seq(Accesses)
      BY DEF Numbers
    <3>3. 1 \in 1..Len(p)
      BY DEF Runnable, WellMade
    <3> QED BY <3>1, <3>2, <3>3 DEF SoundMachine
  <2> QED BY <2>1 DEF RunOf
<1>2. ASSUME NEW i \in 1..n, i - 1 \in Good PROVE i \in Good
  <2>1. i \in 0..n /\ SoundMachine(f[i - 1], p) /\ f[i] = Executed(f[i - 1], p, lits)
    BY <1>2 DEF RunOf
  <2> QED BY <2>1, SoundStep
<1>3. 0..n \subseteq Good
  <2> HIDE DEF Good
  <2> QED BY <1>1, <1>2, UpTo
<1> QED BY <1>3

\* What a run does it does not take back.
LEMMA TraceGrows ==
  ASSUME NEW p, Runnable(p), NEW lits, Numbers(lits), IntegerCells, NEW in, Numbers(in),
         NEW n \in Nat, NEW f, RunOf(p, lits, in, f, n), NEW j \in 0..n
  PROVE  \A i \in j..n : IsPrefix(f[j].trace, f[i].trace)
<1>0. \A i \in 0..n : f[i].trace \in Seq(Accesses)
  BY SoundReach DEF SoundMachine
<1> DEFINE d == n - j
           Good == { i \in 0..d : IsPrefix(f[j].trace, f[j + i].trace) }
<1>1. 0 \in Good
  <2>1. f[j].trace \in Seq(Accesses) /\ j + 0 = j
    BY <1>0
  <2>2. IsPrefix(f[j].trace, f[j].trace)
    BY <2>1 DEF IsPrefix
  <2> QED BY <2>1, <2>2
<1>2. ASSUME NEW i \in 1..d, i - 1 \in Good PROVE i \in Good
  <2> DEFINE m == f[j + i - 1]
             c == p[m.pc]
             y == Access(m, c, Operands(m, c, lits))
  <2>1. j + i \in 1..n /\ j + i - 1 \in 0..n /\ j + (i - 1) = j + i - 1
    OBVIOUS
  <2>2. f[j + i].trace = m.trace \o y
    <3>1. f[j + i] = Executed(m, p, lits)
      BY <2>1 DEF RunOf
    <3>2. Executed(m, p, lits).trace = m.trace \o y
      BY DEF Executed
    <3> QED BY <3>1, <3>2
  <2>3. y \in Seq(Accesses)
    <3>1. SoundMachine(m, p)
      BY <2>1, SoundReach
    <3>2. c \in Shapes /\ IsCommand(c)
      BY <3>1 DEF SoundMachine, Runnable, WellMade
    <3>3. Len(c.args) \in Nat
      BY <3>2, ArgCount
    <3>4. \A k \in 1..Len(c.args) : Operands(m, c, lits)[k] \in Int
      BY <3>1, <3>3, OperandsAreInt DEF SoundMachine
    <3> HIDE DEF m, c
    <3> QED BY <3>1, <3>2, <3>4, AccessTyped DEF SoundMachine
  <2>4. IsPrefix(f[j].trace, m.trace) /\ m.trace \in Seq(Accesses) /\ f[j].trace \in Seq(Accesses)
    BY <1>0, <1>2, <2>1
  <2> HIDE DEF m, y
  <2>5. IsPrefix(f[j].trace, m.trace \o y)
    <3> DEFINE a == f[j].trace
               b == m.trace
               z == b \o y
    <3>1. /\ a \in Seq(Accesses) /\ b \in Seq(Accesses) /\ z \in Seq(Accesses)
          /\ Len(a) \in Nat /\ Len(b) \in Nat /\ Len(y) \in Nat /\ Len(z) = Len(b) + Len(y)
          /\ \A i1 \in 1..Len(b) : z[i1] = b[i1]
      BY <2>3, <2>4
    <3>2. Len(a) <= Len(b) /\ SubSeq(a, 1, Len(a)) = SubSeq(b, 1, Len(a))
      BY <2>4 DEF IsPrefix
    <3> HIDE DEF a, b, z
    <3>3. Len(a) <= Len(z)
      BY <3>1, <3>2
    <3>4. SubSeq(z, 1, Len(a)) = SubSeq(b, 1, Len(a))
      BY <3>1, <3>2, <3>3
    <3> QED BY <3>2, <3>3, <3>4 DEF IsPrefix, a, z, b
  <2>6. i \in 0..d /\ IsPrefix(f[j].trace, f[j + i].trace)
    BY <2>1, <2>2, <2>5
  <2> QED BY <2>6
<1>3. 0..d \subseteq Good
  <2>1. d \in Nat
    OBVIOUS
  <2> HIDE DEF Good, d
  <2> QED BY <1>1, <1>2, <2>1, UpTo
<1>4. ASSUME NEW i \in j..n PROVE IsPrefix(f[j].trace, f[i].trace)
  <2>1. i - j \in 0..d /\ j + (i - j) = i
    OBVIOUS
  <2>2. i - j \in Good
    BY <1>3, <2>1
  <2> QED BY <2>1, <2>2
<1> QED BY <1>4

-----------------------------------------------------------------------------
(* Arithmetic identities. *)

SimplifiedAll(p) == [k \in 1..Len(p) |-> Simplified(p[k])]

\* The copy an identity becomes has the value of the identity.
LEMMA IdentityValue ==
  ASSUME NEW c, IsCommand(c), c.op \in {"add", "sub", "mul"}, NEW m, Numbers(m.env), Numbers(literals)
  PROVE  \/ Simplified(c) = c
         \/ \E k \in {1, 2} :
              /\ Simplified(c) = Cmd("set", c.out, <<c.args[k]>>, "")
              /\ Computed(c.op, Operands(m, c, literals)) = Val(m, literals, c.args[k])
<1> DEFINE x == Operands(m, c, literals)
<1>1. Len(c.args) = 2
  BY ArgCount
<1>2. /\ x[1] = Val(m, literals, c.args[1]) /\ x[1] \in Int
      /\ x[2] = Val(m, literals, c.args[2]) /\ x[2] \in Int
  <2>1. 1 \in 1..Len(c.args) /\ 2 \in 1..Len(c.args) /\ Len(c.args) \in Nat
    BY <1>1
  <2> QED BY <2>1, OperandsAreInt
<1>3. \A k \in {1, 2} : \A n \in Int : LitIs(c.args[k], n) => x[k] = n
  BY <1>2 DEF LitIs, IsLit, Val
<1> HIDE DEF x
<1>4. CASE c.op = "mul"
  <2>1. CASE LitIs(c.args[2], 1)
    <3>1. Simplified(c) = Cmd("set", c.out, <<c.args[1]>>, "")
      BY <1>4, <2>1 DEF Simplified
    <3>2. Computed(c.op, x) = x[1]
      BY <1>2, <1>3, <1>4, <2>1 DEF Computed
    <3> QED BY <1>2, <3>1, <3>2 DEF x
  <2>2. CASE ~LitIs(c.args[2], 1) /\ LitIs(c.args[1], 1)
    <3>1. Simplified(c) = Cmd("set", c.out, <<c.args[2]>>, "")
      BY <1>4, <2>2 DEF Simplified
    <3>2. Computed(c.op, x) = x[2]
      BY <1>2, <1>3, <1>4, <2>2 DEF Computed
    <3> QED BY <1>2, <3>1, <3>2 DEF x
  <2>3. CASE ~LitIs(c.args[2], 1) /\ ~LitIs(c.args[1], 1)
    <3>1. Simplified(c) = c
      BY <1>4, <2>3 DEF Simplified
    <3> QED BY <3>1
  <2> QED BY <2>1, <2>2, <2>3
<1>5. CASE c.op = "add"
  <2>1. CASE LitIs(c.args[2], 0)
    <3>1. Simplified(c) = Cmd("set", c.out, <<c.args[1]>>, "")
      BY <1>5, <2>1 DEF Simplified
    <3>2. Computed(c.op, x) = x[1]
      BY <1>2, <1>3, <1>5, <2>1 DEF Computed
    <3> QED BY <1>2, <3>1, <3>2 DEF x
  <2>2. CASE ~LitIs(c.args[2], 0) /\ LitIs(c.args[1], 0)
    <3>1. Simplified(c) = Cmd("set", c.out, <<c.args[2]>>, "")
      BY <1>5, <2>2 DEF Simplified
    <3>2. Computed(c.op, x) = x[2]
      BY <1>2, <1>3, <1>5, <2>2 DEF Computed
    <3> QED BY <1>2, <3>1, <3>2 DEF x
  <2>3. CASE ~LitIs(c.args[2], 0) /\ ~LitIs(c.args[1], 0)
    <3>1. Simplified(c) = c
      BY <1>5, <2>3 DEF Simplified
    <3> QED BY <3>1
  <2> QED BY <2>1, <2>2, <2>3
<1>6. CASE c.op = "sub"
  <2>1. CASE LitIs(c.args[2], 0)
    <3>1. Simplified(c) = Cmd("set", c.out, <<c.args[1]>>, "")
      BY <1>6, <2>1 DEF Simplified
    <3>2. Computed(c.op, x) = x[1]
      BY <1>2, <1>3, <1>6, <2>1 DEF Computed
    <3> QED BY <1>2, <3>1, <3>2 DEF x
  <2>2. CASE ~LitIs(c.args[2], 0)
    <3>1. Simplified(c) = c
      BY <1>6, <2>2 DEF Simplified
    <3> QED BY <3>1
  <2> QED BY <2>1, <2>2
<1> QED BY <1>4, <1>5, <1>6

\* A step of the simplified commands is the step of the commands.
LEMMA SimplifiedStep ==
  ASSUME NEW p, WellMade(p), NEW m, m.pc \in 1..Len(p), Numbers(m.env), Numbers(literals)
  PROVE  Executed(m, SimplifiedAll(p), literals) = Executed(m, p, literals)
<1> DEFINE q == SimplifiedAll(p)
           c == p[m.pc]
           d == q[m.pc]
           x == Operands(m, c, literals)
           y == Operands(m, d, literals)
<1>1. /\ c \in Shapes /\ IsCommand(c) /\ d = Simplified(c) /\ p \in Seq(Shapes)
      /\ Len(p) \in Nat /\ Len(q) = Len(p)
  BY DEF WellMade, SimplifiedAll
<1>2. \A l : At(q, l) = At(p, l)
  <2>1. ASSUME NEW k \in 1..Len(p) PROVE p[k].op = "label" \/ q[k].op = "label" => q[k] = p[k]
    <3>1. p[k] \in Shapes /\ IsCommand(p[k]) /\ q[k] = Simplified(p[k])
      BY DEF WellMade, SimplifiedAll
    <3> HIDE DEF q
    <3> QED BY <3>1, SimplifiedCommand
  <2> HIDE DEF q
  <2> QED BY <1>1, <2>1, SameLabels
<1> SUFFICES Executed(m, q, literals) = Executed(m, p, literals)
  OBVIOUS
<1> HIDE DEF q
<1>3. CASE d = c
  <2>1. PcAfter(m, q, x) = PcAfter(m, p, x)
    BY <1>2, <1>3 DEF PcAfter
  <2>2. /\ Executed(m, q, literals) =
             [pc |-> PcAfter(m, q, y), env |-> EnvAfter(m, d, y),
              mem |-> IF d.op = "store" THEN Put(m.mem, y[1], y[2]) ELSE m.mem,
              trace |-> m.trace \o Access(m, d, y),
              result |-> IF d.op = "return" THEN <<y[1]>> ELSE m.result]
        /\ Executed(m, p, literals) =
             [pc |-> PcAfter(m, p, x), env |-> EnvAfter(m, c, x),
              mem |-> IF c.op = "store" THEN Put(m.mem, x[1], x[2]) ELSE m.mem,
              trace |-> m.trace \o Access(m, c, x),
              result |-> IF c.op = "return" THEN <<x[1]>> ELSE m.result]
    BY DEF Executed
  <2>3. y = x
    BY <1>3
  <2> HIDE DEF x, y, c, d
  <2> QED BY <1>3, <2>1, <2>2, <2>3
<1>4. CASE d # c
  <2>1. c.op \in {"add", "sub", "mul"}
    BY <1>1, <1>4, SimplifiedCommand
  <2>2. PICK k \in {1, 2} : /\ d = Cmd("set", c.out, <<c.args[k]>>, "")
                            /\ Computed(c.op, x) = Val(m, literals, c.args[k])
    BY <1>1, <1>4, <2>1, IdentityValue
  <2>3. d.op = "set" /\ d.out = c.out /\ Len(d.args) = 1 /\ d.args[1] = c.args[k]
    <3> HIDE DEF c, d
    <3>1. d = [op |-> "set", out |-> c.out, args |-> <<c.args[k]>>, label |-> ""]
      BY <2>2 DEF Cmd
    <3> QED BY <3>1
  <2>4. y[1] = Val(m, literals, c.args[k])
    BY <2>3 DEF Operands
  <2> HIDE DEF x, y, c, d
  <2>5. Computed(d.op, y) = Computed(c.op, x)
    BY <2>2, <2>3, <2>4 DEF Computed
  <2>6. PcAfter(m, q, y) = m.pc + 1 /\ PcAfter(m, p, x) = m.pc + 1
    BY <2>1, <2>3 DEF PcAfter, Jumps, c, d
  <2>7. EnvAfter(m, d, y) = EnvAfter(m, c, x)
    <3>1. EnvAfter(m, d, y) = Put(m.env, d.out[1], Computed(d.op, y))
      BY <2>3 DEF EnvAfter, Arith
    <3>2. EnvAfter(m, c, x) = Put(m.env, c.out[1], Computed(c.op, x))
      BY <2>1 DEF EnvAfter, Arith
    <3> QED BY <2>3, <2>5, <3>1, <3>2
  <2>8. Access(m, d, y) = << >> /\ Access(m, c, x) = << >>
    BY <2>1, <2>3 DEF Access
  <2>9. c.op # "store" /\ c.op # "return" /\ d.op # "store" /\ d.op # "return"
    BY <2>1, <2>3
  <2>10. /\ Executed(m, q, literals) =
              [pc |-> PcAfter(m, q, y), env |-> EnvAfter(m, d, y),
               mem |-> IF d.op = "store" THEN Put(m.mem, y[1], y[2]) ELSE m.mem,
               trace |-> m.trace \o Access(m, d, y),
               result |-> IF d.op = "return" THEN <<y[1]>> ELSE m.result]
         /\ Executed(m, p, literals) =
              [pc |-> PcAfter(m, p, x), env |-> EnvAfter(m, c, x),
               mem |-> IF c.op = "store" THEN Put(m.mem, x[1], x[2]) ELSE m.mem,
               trace |-> m.trace \o Access(m, c, x),
               result |-> IF c.op = "return" THEN <<x[1]>> ELSE m.result]
    BY DEF Executed, c, d, x, y
  <2>11. /\ (IF d.op = "store" THEN Put(m.mem, y[1], y[2]) ELSE m.mem) = m.mem
         /\ (IF c.op = "store" THEN Put(m.mem, x[1], x[2]) ELSE m.mem) = m.mem
         /\ (IF d.op = "return" THEN <<y[1]>> ELSE m.result) = m.result
         /\ (IF c.op = "return" THEN <<x[1]>> ELSE m.result) = m.result
    BY <2>9
  <2> QED BY <2>6, <2>7, <2>8, <2>10, <2>11
<1> QED BY <1>3, <1>4

\* The simplified commands run as the commands do.
LEMMA SimplifyCovers ==
  ASSUME NEW p, Runnable(p), Numbers(literals), IntegerCells, NEW in, Numbers(in)
  PROVE  Covers(SimplifiedAll(p), p, literals, in)
<1>1. ASSUME NEW n \in Nat, NEW s, Reaches(p, literals, in, n, s)
      PROVE  Reaches(SimplifiedAll(p), literals, in, n, s)
  <2>1. PICK f : RunOf(p, literals, in, f, n) /\ f[n] = s
    BY <1>1 DEF Reaches
  <2>2. ASSUME NEW i \in 1..n
        PROVE  ~Halted(f[i - 1]) /\ f[i] = Executed(f[i - 1], SimplifiedAll(p), literals)
    <3>1. i - 1 \in 0..n
      OBVIOUS
    <3>2. SoundMachine(f[i - 1], p)
      BY <2>1, <3>1, SoundReach
    <3>3. f[i - 1].pc \in 1..Len(p) /\ Numbers(f[i - 1].env) /\ WellMade(p)
      BY <3>2 DEF SoundMachine, Runnable
    <3>4. ~Halted(f[i - 1]) /\ f[i] = Executed(f[i - 1], p, literals)
      BY <2>1 DEF RunOf
    <3> QED BY <3>3, <3>4, SimplifiedStep
  <2>3. RunOf(SimplifiedAll(p), literals, in, f, n)
    BY <2>1, <2>2 DEF RunOf
  <2> QED BY <2>1, <2>3 DEF Reaches
<1> QED BY <1>1 DEF Covers

-----------------------------------------------------------------------------
(***************************************************************************)
(* Two machines that differ in the values V at most, and a command that    *)
(* reads none of them.                                                     *)
(***************************************************************************)
Agree(f, g, v) == (v \in DOMAIN f <=> v \in DOMAIN g) /\ (v \in DOMAIN f => f[v] = g[v])

Alike(m, n, V) ==
  /\ m.mem = n.mem /\ m.trace = n.trace /\ m.result = n.result
  /\ \A v : v \notin V => Agree(m.env, n.env, v)

LEMMA AgreePut ==
  ASSUME NEW f, NEW g, NEW a, NEW x, NEW v, v = a \/ Agree(f, g, v)
  PROVE  Agree(Put(f, a, x), Put(g, a, x), v)
BY DEF Agree, Put

LEMMA AlikeOperands ==
  ASSUME NEW m, NEW n, NEW V, Alike(m, n, V), NEW lits, NEW c,
         \A k \in 1..Len(c.args) : c.args[k] \notin V
  PROVE  Operands(m, c, lits) = Operands(n, c, lits)
<1>1. \A k \in 1..Len(c.args) : Val(m, lits, c.args[k]) = Val(n, lits, c.args[k])
  BY DEF Val, Alike, Agree
<1> QED BY <1>1 DEF Operands

LEMMA AlikeStep ==
  ASSUME NEW m, NEW n, NEW V, Alike(m, n, V), NEW lits, NEW p, NEW q, NEW c,
         p[m.pc] = c, q[n.pc] = c, IsCommand(c), \A k \in 1..Len(c.args) : c.args[k] \notin V
  PROVE  /\ Alike(Executed(m, p, lits), Executed(n, q, lits), V)
         /\ Executed(m, p, lits).pc = PcAfter(m, p, Operands(m, c, lits))
         /\ Executed(n, q, lits).pc = PcAfter(n, q, Operands(m, c, lits))
<1> DEFINE x == Operands(m, c, lits)
<1>1. Operands(n, c, lits) = x
  BY AlikeOperands
<1> HIDE DEF x
<1>2. \A a : Cell(m, a) = Cell(n, a)
  BY DEF Cell, Alike
<1>3. Access(m, c, x) = Access(n, c, x)
  BY <1>2 DEF Access
<1>4. ASSUME NEW v, v \notin V PROVE Agree(EnvAfter(m, c, x), EnvAfter(n, c, x), v)
  <2>1. Agree(m.env, n.env, v)
    BY <1>4 DEF Alike
  <2>2. CASE c.op \in Arith
    <3>1. /\ EnvAfter(m, c, x) = Put(m.env, c.out[1], Computed(c.op, x))
          /\ EnvAfter(n, c, x) = Put(n.env, c.out[1], Computed(c.op, x))
      BY <2>2 DEF EnvAfter, Arith
    <3> QED BY <2>1, <3>1, AgreePut
  <2>3. CASE c.op = "read"
    <3>1. /\ EnvAfter(m, c, x) = Put(m.env, c.out[1], Cell(m, x[1]))
          /\ EnvAfter(n, c, x) = Put(n.env, c.out[1], Cell(m, x[1]))
      BY <1>2, <2>3 DEF EnvAfter, Arith
    <3> QED BY <2>1, <3>1, AgreePut
  <2>4. CASE c.op = "call"
    <3>1. /\ EnvAfter(m, c, x) = [w \in DOMAIN m.env |-> IF w \in Globals THEN m.env[w] + 1 ELSE m.env[w]]
          /\ EnvAfter(n, c, x) = [w \in DOMAIN n.env |-> IF w \in Globals THEN n.env[w] + 1 ELSE n.env[w]]
      BY <2>4 DEF EnvAfter, Arith
    <3> QED BY <2>1, <3>1 DEF Agree
  <2>5. CASE c.op \notin Arith \cup {"read", "call"}
    <3>1. EnvAfter(m, c, x) = m.env /\ EnvAfter(n, c, x) = n.env
      BY <2>5 DEF EnvAfter
    <3> QED BY <2>1, <3>1
  <2> QED BY <2>2, <2>3, <2>4, <2>5
<1>5. /\ Executed(m, p, lits) =
           [pc |-> PcAfter(m, p, x), env |-> EnvAfter(m, c, x),
            mem |-> IF c.op = "store" THEN Put(m.mem, x[1], x[2]) ELSE m.mem,
            trace |-> m.trace \o Access(m, c, x),
            result |-> IF c.op = "return" THEN <<x[1]>> ELSE m.result]
      /\ Executed(n, q, lits) =
           [pc |-> PcAfter(n, q, x), env |-> EnvAfter(n, c, x),
            mem |-> IF c.op = "store" THEN Put(n.mem, x[1], x[2]) ELSE n.mem,
            trace |-> n.trace \o Access(n, c, x),
            result |-> IF c.op = "return" THEN <<x[1]>> ELSE n.result]
  BY <1>1 DEF Executed, x
<1>6. m.mem = n.mem /\ m.trace = n.trace /\ m.result = n.result
  BY DEF Alike
<1>7. Alike(Executed(m, p, lits), Executed(n, q, lits), V)
  BY <1>3, <1>4, <1>5, <1>6 DEF Alike
<1> QED BY <1>5, <1>7 DEF x

-----------------------------------------------------------------------------
(* Where a command that is kept goes, and who reads a value used once. *)

\* r[k]: how many of the first k commands are kept.
Placed(q, p, S, r) ==
  /\ r[0] = 0 /\ Len(q) = r[Len(p)]
  /\ \A k \in 0..Len(p) : r[k] \in Nat
  /\ \A k \in 1..Len(p) : r[k] = IF k \in S THEN r[k - 1] + 1 ELSE r[k - 1]
  /\ \A k \in 1..Len(p) : k \in S => r[k] \in 1..Len(q) /\ q[r[k]] = p[k]

LEMMA PickPlaces ==
  ASSUME NEW C, NEW p \in Seq(C), NEW S
  PROVE  \E r : Placed(Pick(p, S), p, S, r)
<1> DEFINE N == Len(p)
           step == [k \in 1..N |-> [r \in Seq(C) |-> IF k \in S THEN Append(r, p[k]) ELSE r]]
<1>1. PICK f : Recursive(f, N, Seq(C), << >>, step) /\ Pick(p, S) = f[N]
  BY PickSteps
<1> DEFINE r == [k \in 0..N |-> Len(f[k])]
<1>2. N \in Nat /\ \A k \in 1..N : p[k] \in C
  OBVIOUS
<1>3. f \in [0..N -> Seq(C)] /\ f[0] = << >>
  BY <1>1 DEF Recursive
<1>4. ASSUME NEW k \in 1..N
      PROVE  /\ k - 1 \in 0..N /\ k \in 0..N /\ f[k] \in Seq(C) /\ f[k - 1] \in Seq(C)
             /\ f[k] = IF k \in S THEN Append(f[k - 1], p[k]) ELSE f[k - 1]
  <2>1. k - 1 \in 0..N /\ k \in 0..N /\ f[k] \in Seq(C) /\ f[k - 1] \in Seq(C)
    <3>1. k - 1 \in 0..N /\ k \in 0..N
      BY <1>2
    <3> HIDE DEF N
    <3> QED BY <1>3, <3>1
  <2>2. f[k] = step[k][f[k - 1]]
    BY <1>1 DEF Recursive
  <2>3. step[k][f[k - 1]] = IF k \in S THEN Append(f[k - 1], p[k]) ELSE f[k - 1]
    BY <2>1
  <2> QED BY <2>1, <2>2, <2>3
<1> HIDE DEF step
<1>5. /\ r[0] = 0
      /\ \A k \in 0..N : r[k] \in Nat /\ r[k] = Len(f[k])
      /\ \A k \in 1..N : r[k] = IF k \in S THEN r[k - 1] + 1 ELSE r[k - 1]
  <2>1. \A k \in 0..N : f[k] \in Seq(C) /\ r[k] = Len(f[k])
    BY <1>3
  <2>2. 0 \in 0..N
    BY <1>2
  <2> HIDE DEF r
  <2>3. ASSUME NEW k \in 1..N PROVE r[k] = IF k \in S THEN r[k - 1] + 1 ELSE r[k - 1]
    <3>1. Len(f[k]) = IF k \in S THEN Len(f[k - 1]) + 1 ELSE Len(f[k - 1])
      <4>1. /\ p[k] \in C /\ f[k - 1] \in Seq(C)
            /\ f[k] = IF k \in S THEN Append(f[k - 1], p[k]) ELSE f[k - 1]
        BY <1>2, <1>4
      <4> QED BY <4>1
    <3> QED BY <1>4, <2>1, <3>1
  <2> QED BY <1>3, <2>1, <2>2, <2>3
<1> HIDE DEF r
<1> DEFINE Good == { n \in 0..N : \A k \in 1..n : k \in S =>
                       r[k] \in 1..Len(f[n]) /\ f[n][r[k]] = p[k] }
<1>6. 0 \in Good
  BY <1>2
<1>7. ASSUME NEW n \in 1..N, n - 1 \in Good PROVE n \in Good
  <2>1. ASSUME NEW k \in 1..n, k \in S
        PROVE  r[k] \in 1..Len(f[n]) /\ f[n][r[k]] = p[k]
    <3>1. CASE k = n
      <4>1. f[n] = Append(f[n - 1], p[n]) /\ f[n - 1] \in Seq(C) /\ n \in 0..N /\ p[n] \in C
        BY <1>2, <1>4, <2>1, <3>1
      <4>2. r[k] = Len(f[n])
        BY <1>5, <3>1, <4>1
      <4> QED BY <3>1, <4>1, <4>2
    <3>2. CASE k # n
      <4>1. k \in 1..(n - 1)
        BY <3>2
      <4>2. r[k] \in 1..Len(f[n - 1]) /\ f[n - 1][r[k]] = p[k]
        BY <1>7, <2>1, <4>1
      <4>3. /\ f[n - 1] \in Seq(C) /\ p[n] \in C
            /\ f[n] = IF n \in S THEN Append(f[n - 1], p[n]) ELSE f[n - 1]
        BY <1>2, <1>4
      <4> QED BY <4>2, <4>3
    <3> QED BY <3>1, <3>2
  <2>2. n \in 0..N
    BY <1>2
  <2> HIDE DEF N
  <2> QED BY <2>1, <2>2
<1>8. 0..N \subseteq Good
  <2> HIDE DEF Good, N
  <2> QED BY <1>2, <1>6, <1>7, UpTo
<1>9. \A k \in 1..N : k \in S => r[k] \in 1..Len(f[N]) /\ f[N][r[k]] = p[k]
  <2>1. N \in Good
    <3> HIDE DEF Good, N
    <3> QED BY <1>2, <1>8
  <2> HIDE DEF N
  <2> QED BY <2>1
<1>10. Placed(Pick(p, S), p, S, r)
  <2>1. Len(Pick(p, S)) = r[N]
    BY <1>1, <1>2, <1>5
  <2> QED BY <1>1, <1>5, <1>9, <2>1 DEF Placed
<1> QED BY <1>10

LEMMA ReadsCount ==
  ASSUME NEW c, Len(c.args) \in Nat, NEW v
  PROVE  /\ Reads(c, v) \in Nat
         /\ Reads(c, v) = 0 <=> \A k \in 1..Len(c.args) : c.args[k] # v
<1> DEFINE S == { k \in 1..Len(c.args) : c.args[k] = v }
<1>1. IsFiniteSet(S) /\ Cardinality(S) \in Nat /\ (Cardinality(S) = 0 <=> S = {})
  <2>1. IsFiniteSet(1..Len(c.args))
    BY FS_Interval
  <2>2. S \subseteq 1..Len(c.args)
    OBVIOUS
  <2> HIDE DEF S
  <2> QED BY <2>1, <2>2, FS_Subset, FS_CardinalityType, FS_EmptySet
<1> QED BY <1>1 DEF Reads

\* Two commands that read v make two uses.
LEMMA UsedTwice ==
  ASSUME NEW p \in Seq(Shapes), \A k \in 1..Len(p) : Len(p[k].args) \in Nat, NEW v,
         NEW i \in 1..Len(p), NEW j \in 1..Len(p), i < j
  PROVE  Uses(p, v) \in Nat /\ Uses(p, v) >= Reads(p[i], v) + Reads(p[j], v)
<1> DEFINE N == Len(p)
           R(k) == Reads(p[k], v)
           step == [k \in 1..N |-> [x \in Nat |-> x + R(k)]]
           Body(u) == [k \in 0..N |-> IF k = 0 THEN 0 ELSE u[k - 1] + R(k)]
           c == CHOOSE f : f = Body(f)
<1>1. N \in Nat /\ \A k \in 1..N : R(k) \in Nat
  BY ReadsCount
<1> HIDE DEF R
<1>2. PICK f : Recursive(f, N, Nat, 0, step)
  <2>1. step \in [1..N -> [Nat -> Nat]]
    BY <1>1
  <2> HIDE DEF step, N
  <2> QED BY <1>1, <2>1, Recursion
<1>3. /\ f \in [0..N -> Nat] /\ f[0] = 0
      /\ \A k \in 1..N : f[k] = f[k - 1] + R(k)
  <2>1. f \in [0..N -> Nat] /\ f[0] = 0 /\ \A k \in 1..N : f[k] = step[k][f[k - 1]]
    BY <1>2 DEF Recursive
  <2>2. \A k \in 1..N : k - 1 \in 0..N
    BY <1>1
  <2>3. ASSUME NEW k \in 1..N PROVE f[k] = f[k - 1] + R(k)
    BY <2>1, <2>2
  <2> QED BY <2>1, <2>3
<1>4. f = Body(f)
  <2>1. \A k \in 0..N : k = 0 \/ k \in 1..N
    BY <1>1
  <2> QED BY <1>3, <2>1
<1>5. c = Body(c)
  <2> HIDE DEF Body
  <2> QED BY <1>4
<1>6. Uses(p, v) = c[N]
  BY DEF Uses, R
<1>7. c[0] = 0 /\ \A k \in 1..N : c[k] = c[k - 1] + R(k)
  <2>1. \A u : Body(u)[0] = 0 /\ \A k \in 1..N : Body(u)[k] = u[k - 1] + R(k)
    BY <1>1
  <2> HIDE DEF Body, c
  <2> QED BY <1>5, <2>1
<1> HIDE DEF c, Body
<1> DEFINE Same == { n \in 0..N : c[n] = f[n] }
<1>8. 0..N \subseteq Same
  <2>1. 0 \in Same
    BY <1>1, <1>3, <1>7
  <2>2. ASSUME NEW n \in 1..N, n - 1 \in Same PROVE n \in Same
    BY <1>1, <1>3, <1>7, <2>2
  <2> HIDE DEF Same, N
  <2> QED BY <1>1, <2>1, <2>2, UpTo
<1>9. Uses(p, v) = f[N] /\ f[N] \in Nat
  <2>1. N \in 0..N
    BY <1>1
  <2>2. N \in Same
    <3> HIDE DEF Same, N
    <3> QED BY <1>8, <2>1
  <2>3. c[N] = f[N]
    BY <2>2
  <2> HIDE DEF N
  <2> QED BY <1>3, <1>6, <2>1, <2>3
<1> DEFINE Good == { n \in 0..N : /\ \A k \in 1..n : f[n] >= R(k)
                                  /\ i <= n /\ j <= n => f[n] >= R(i) + R(j) }
<1>10. 0..N \subseteq Good
  <2>1. 0 \in Good
    BY <1>1
  <2>2. ASSUME NEW n \in 1..N, n - 1 \in Good PROVE n \in Good
    <3>1. f[n] = f[n - 1] + R(n) /\ f[n - 1] \in Nat /\ R(n) \in Nat
      <4>1. n - 1 \in 0..N
        BY <1>1
      <4> HIDE DEF N
      <4> QED BY <1>1, <1>3, <4>1
    <3>2. \A k \in 1..(n - 1) : f[n - 1] >= R(k)
      BY <2>2
    <3>3. ASSUME NEW k \in 1..n PROVE f[n] >= R(k)
      <4>1. R(k) \in Nat
        BY <1>1
      <4>2. k = n \/ k \in 1..(n - 1)
        OBVIOUS
      <4> QED BY <3>1, <3>2, <4>1, <4>2
    <3>4. ASSUME i <= n, j <= n PROVE f[n] >= R(i) + R(j)
      <4>1. R(i) \in Nat /\ R(j) \in Nat
        BY <1>1
      <4>2. CASE j = n
        <5>1. i \in 1..(n - 1)
          BY <4>2
        <5> QED BY <3>1, <3>2, <4>1, <4>2, <5>1
      <4>3. CASE j # n
        <5>1. i <= n - 1 /\ j <= n - 1
          BY <3>4, <4>3
        <5>2. f[n - 1] >= R(i) + R(j)
          BY <2>2, <5>1
        <5> QED BY <3>1, <4>1, <5>2
      <4> QED BY <4>2, <4>3
    <3> QED BY <3>3, <3>4
  <2> HIDE DEF Good, N
  <2> QED BY <1>1, <2>1, <2>2, UpTo
<1>11. f[N] >= R(i) + R(j)
  BY <1>1, <1>10
<1> QED BY <1>9, <1>11 DEF R

\* A value used once, and read by command h, is read by no other.
LEMMA UsedOnce ==
  ASSUME NEW p, WellMade(p), NEW v, Uses(p, v) = 1, NEW h \in 1..Len(p),
         \E k \in 1..Len(p[h].args) : p[h].args[k] = v,
         NEW i \in 1..Len(p), i # h
  PROVE  \A k \in 1..Len(p[i].args) : p[i].args[k] # v
<1>1. p \in Seq(Shapes) /\ Len(p) \in Nat /\ \A k \in 1..Len(p) : Len(p[k].args) \in Nat
  <2>1. p \in Seq(Shapes) /\ \A k \in 1..Len(p) : IsCommand(p[k])
    BY DEF WellMade
  <2> QED BY <2>1, ArgCount
<1>2. Reads(p[h], v) \in Nat /\ Reads(p[h], v) # 0 /\ Reads(p[i], v) \in Nat
  BY <1>1, ReadsCount
<1>3. CASE i < h
  <2>1. 1 >= Reads(p[i], v) + Reads(p[h], v)
    BY <1>1, <1>3, UsedTwice
  <2>2. Reads(p[i], v) = 0
    BY <1>2, <2>1
  <2> QED BY <1>1, <2>2, ReadsCount
<1>4. CASE h < i
  <2>1. 1 >= Reads(p[h], v) + Reads(p[i], v)
    BY <1>1, <1>4, UsedTwice
  <2>2. Reads(p[i], v) = 0
    BY <1>2, <2>1
  <2> QED BY <1>1, <2>2, ReadsCount
<1>5. i < h \/ h < i
  BY <1>1
<1> QED BY <1>3, <1>4, <1>5

-----------------------------------------------------------------------------
(***************************************************************************)
(* Fusion.  The fused commands wait while the commands compare, and make   *)
(* in one step what the comparison and the jump make in two; the value of  *)
(* the comparison, which nothing else reads, is all they do not have.      *)
(***************************************************************************)
Heads(p) == { k \in 1..Len(p) : Fusable(p, k) }

FusedOuts(p) == { p[k].out[1] : k \in Heads(p) }

NoLiteralWritten(p) == \A k \in 1..Len(p) : ToSet(p[k].out) \cap DOMAIN literals = {}

LEMMA HeadPlaces ==
  ASSUME NEW p, WellMade(p), NEW h \in Heads(p)
  PROVE  /\ h \in 1..Len(p) /\ h + 1 \in 1..Len(p)
         /\ h \in KeptPlaces(p) /\ h + 1 \notin KeptPlaces(p) /\ h + 1 \notin Heads(p)
         /\ p[h].op = "less" /\ p[h + 1].op \in {"jz", "jnz"} /\ p[h + 1].args[1] = p[h].out[1]
<1>1. /\ h \in 1..Len(p) /\ Len(p) \in Nat /\ h + 1 \in 1..Len(p)
      /\ p[h].op = "less" /\ p[h + 1].op \in {"jz", "jnz"} /\ p[h + 1].args[1] = p[h].out[1]
  BY DEF Heads, Fusable, WellMade
<1>2. h + 1 \notin Heads(p) /\ h + 1 \notin KeptPlaces(p)
  <2>1. (h + 1) - 1 = h
    BY <1>1
  <2> QED BY <1>1, <2>1 DEF Heads, KeptPlaces, Fusable
<1>3. h \in KeptPlaces(p)
  <2>1. h - 1 \notin Heads(p)
    <3>1. ASSUME h - 1 \in 1..Len(p), Fusable(p, h - 1) PROVE FALSE
      <4>1. (h - 1) + 1 = h
        BY <1>1
      <4> QED BY <1>1, <3>1, <4>1 DEF Fusable
    <3> QED BY <3>1 DEF Heads
  <2> QED BY <1>1, <2>1 DEF KeptPlaces, Heads
<1> QED BY <1>1, <1>2, <1>3

\* A kept command reads no value of a fused comparison.
LEMMA KeptReads ==
  ASSUME NEW p, WellMade(p), NEW i \in KeptPlaces(p)
  PROVE  \A k \in 1..Len(p[i].args) : p[i].args[k] \notin FusedOuts(p)
<1>1. ASSUME NEW h \in Heads(p)
      PROVE  \A k \in 1..Len(p[i].args) : p[i].args[k] # p[h].out[1]
  <2>1. /\ h + 1 \in 1..Len(p) /\ h + 1 \notin KeptPlaces(p)
        /\ p[h + 1].op \in {"jz", "jnz"} /\ p[h + 1].args[1] = p[h].out[1]
    BY HeadPlaces
  <2>2. i \in 1..Len(p) /\ i # h + 1
    BY <2>1 DEF KeptPlaces
  <2>3. Uses(p, p[h].out[1]) = 1
    BY DEF Heads, Fusable
  <2>4. 1 \in 1..Len(p[h + 1].args)
    <3>1. IsCommand(p[h + 1])
      BY <2>1 DEF WellMade
    <3> QED BY <2>1, <3>1, FirstArgs
  <2> QED BY <2>1, <2>2, <2>3, <2>4, UsedOnce
<1> QED BY <1>1 DEF FusedOuts

\* Where the commands are among the fused ones.
FusePlaces(p, r) == Placed(Fused(p), Rewritten(p), KeptPlaces(p), r)

LEMMA FusePlaced ==
  ASSUME NEW p, WellMade(p)
  PROVE  \E r : FusePlaces(p, r)
<1> DEFINE C == { Rewritten(p)[k] : k \in 1..Len(p) }
<1>1. Rewritten(p) \in Seq(C)
  <2>1. Rewritten(p) = [k \in 1..Len(p) |-> Rewritten(p)[k]] /\ Len(p) \in Nat
    BY DEF Rewritten, WellMade
  <2> QED BY <2>1
<1> HIDE DEF C
<1>2. Fused(p) = Pick(Rewritten(p), KeptPlaces(p))
  BY DEF Fused, Rewritten, KeptPlaces
<1> QED BY <1>1, <1>2, PickPlaces DEF FusePlaces

LEMMA KeptCommand ==
  ASSUME NEW p, WellMade(p), NEW r, FusePlaces(p, r), NEW k \in KeptPlaces(p)
  PROVE  /\ k \in 1..Len(p) /\ r[k] \in 1..Len(Fused(p))
         /\ Fused(p)[r[k]] = IF k \in Heads(p) THEN FusedWith(p[k], p[k + 1]) ELSE p[k]
         /\ k \notin Heads(p) /\ k + 1 \in 1..Len(p) =>
              k + 1 \in KeptPlaces(p) /\ r[k + 1] = r[k] + 1
         /\ k \in Heads(p) /\ k + 2 \in 1..Len(p) =>
              k + 2 \in KeptPlaces(p) /\ r[k + 2] = r[k] + 1
<1>1. /\ Len(p) \in Nat /\ k \in 1..Len(p) /\ Len(Rewritten(p)) = Len(p)
      /\ Rewritten(p)[k] = IF k \in Heads(p) THEN FusedWith(p[k], p[k + 1]) ELSE p[k]
  BY DEF WellMade, KeptPlaces, Rewritten, Heads
<1>2. /\ r[k] \in 1..Len(Fused(p)) /\ Fused(p)[r[k]] = Rewritten(p)[k]
      /\ \A j \in 1..Len(p) : r[j] = IF j \in KeptPlaces(p) THEN r[j - 1] + 1 ELSE r[j - 1]
  BY <1>1 DEF FusePlaces, Placed
<1>3. ASSUME k \notin Heads(p), k + 1 \in 1..Len(p)
      PROVE  k + 1 \in KeptPlaces(p) /\ r[k + 1] = r[k] + 1
  <2>1. (k + 1) - 1 = k
    BY <1>1
  <2>2. k + 1 \in KeptPlaces(p)
    BY <1>3, <2>1 DEF KeptPlaces, Heads
  <2> QED BY <1>2, <1>3, <2>1, <2>2
<1>4. ASSUME k \in Heads(p), k + 2 \in 1..Len(p)
      PROVE  k + 2 \in KeptPlaces(p) /\ r[k + 2] = r[k] + 1
  <2>1. (k + 1) - 1 = k /\ (k + 2) - 1 = k + 1 /\ k + 1 \in 1..Len(p)
    BY <1>1, <1>4
  <2>2. k + 1 \notin KeptPlaces(p) /\ k + 1 \notin Heads(p)
    BY <1>4, HeadPlaces
  <2>3. k + 2 \in KeptPlaces(p)
    BY <1>4, <2>1, <2>2 DEF KeptPlaces, Heads
  <2>4. r[k + 1] = r[k]
    BY <1>2, <2>1, <2>2
  <2> QED BY <1>2, <1>4, <2>1, <2>3, <2>4
<1> QED BY <1>1, <1>2, <1>3, <1>4

\* The label l stands at j, and at its place among the fused commands.
Lands(p, r, l, j) == At(p, l) = {j} /\ At(Fused(p), l) = {r[j]}

\* A jump of the fused commands goes where the jump of the commands goes.
LEMMA FusedJump ==
  ASSUME NEW p, WellMade(p), NEW r, FusePlaces(p, r), NEW i \in 1..Len(Fused(p)),
         Fused(p)[i].op \in Jumps, NEW k \in 1..Len(p), p[k].op \in Jumps,
         p[k].label = Fused(p)[i].label
  PROVE  \E j \in KeptPlaces(p) : Lands(p, r, p[k].label, j)
<1> DEFINE l == p[k].label
<1>1. PICK j \in 1..Len(p) : At(p, l) = {j}
  BY JumpTo
<1>2. p[j].op = "label" /\ p[j].label = l
  BY <1>1 DEF At
<1>3. j \in KeptPlaces(p)
  <2>1. ASSUME NEW h \in Heads(p), j - 1 = h PROVE FALSE
    <3>1. h + 1 = j /\ p[h + 1].op \in {"jz", "jnz"}
      BY <2>1, HeadPlaces
    <3> QED BY <1>2, <3>1
  <2> QED BY <2>1 DEF KeptPlaces, Heads
<1>4. j \notin Heads(p)
  BY <1>2, HeadPlaces
<1>5. r[j] \in 1..Len(Fused(p)) /\ Fused(p)[r[j]] = p[j]
  BY <1>3, <1>4, KeptCommand
<1>6. r[j] \in At(Fused(p), l)
  BY <1>2, <1>5 DEF At
<1>7. WellMade(Fused(p))
  BY FuseKeeps
<1>8. At(Fused(p), l) = {r[j]}
  <2>1. PICK g \in 1..Len(Fused(p)) : At(Fused(p), l) = {g}
    <3>1. i \in 1..Len(Fused(p)) /\ Fused(p)[i].op \in Jumps /\ Fused(p)[i].label = l
      OBVIOUS
    <3> HIDE DEF l
    <3> QED BY <1>7, <3>1, JumpTo
  <2> QED BY <1>6, <2>1
<1> QED BY <1>1, <1>3, <1>8 DEF Lands

LEMMA JumpsThere ==
  ASSUME NEW m, NEW p, NEW x, p[m.pc].op \in Jumps, Taken(p[m.pc].op, x),
         NEW j, At(p, p[m.pc].label) = {j}
  PROVE  PcAfter(m, p, x) = j
<1>0. p[m.pc].op # "return"
  BY DEF Jumps
<1>1. PcAfter(m, p, x) = CHOOSE k \in At(p, p[m.pc].label) : TRUE
  BY <1>0 DEF PcAfter
<1>2. PcAfter(m, p, x) \in {j}
  <2> HIDE DEF PcAfter
  <2> QED BY <1>1
<1> QED BY <1>2

\* t, a machine of the fused commands, is where s, one of the commands, is; or
\* s has compared and t has not.
Waits(p, r, s, t) ==
  \E h \in Heads(p) :
    /\ s.pc = h + 1 /\ t.pc = r[h] /\ p[h].out[1] \in DOMAIN s.env
    /\ s.env[p[h].out[1]] = Computed("less", Operands(t, p[h], literals))

Keeps(p, r, s, t) ==
  /\ Alike(s, t, FusedOuts(p))
  /\ (s.pc \in KeptPlaces(p) /\ t.pc = r[s.pc]) \/ Waits(p, r, s, t)

\* At a comparison that was fused the fused commands wait.
LEMMA FuseCompares ==
  ASSUME NEW p, WellMade(p), NEW r, NEW s, NEW t, Alike(s, t, FusedOuts(p)),
         s.pc \in Heads(p), t.pc = r[s.pc], s.trace \in Seq(Accesses)
  PROVE  Keeps(p, r, Executed(s, p, literals), t)
<1> DEFINE h == s.pc
           c == p[h]
           x == Operands(s, c, literals)
           n == Executed(s, p, literals)
<1>1. h \in KeptPlaces(p) /\ h \in 1..Len(p) /\ c.op = "less" /\ Len(c.out) = 1
  <2>1. h \in KeptPlaces(p) /\ h \in 1..Len(p) /\ c.op = "less"
    BY HeadPlaces
  <2>2. IsCommand(c)
    BY <2>1 DEF WellMade
  <2> QED BY <2>1, <2>2, ArgCount DEF Arith
<1>2. x = Operands(t, c, literals)
  <2>1. \A k \in 1..Len(c.args) : c.args[k] \notin FusedOuts(p)
    BY <1>1, KeptReads
  <2> HIDE DEF c, h
  <2> QED BY <2>1, AlikeOperands
<1>3. c.out[1] \in FusedOuts(p)
  BY DEF FusedOuts
<1>4. PcAfter(s, p, x) = h + 1
  BY <1>1 DEF PcAfter, Jumps
<1>5. EnvAfter(s, c, x) = Put(s.env, c.out[1], Computed("less", x))
  BY <1>1 DEF EnvAfter, Arith
<1>6. Access(s, c, x) = << >>
  BY <1>1 DEF Access
<1>7. /\ n.pc = PcAfter(s, p, x) /\ n.env = EnvAfter(s, c, x)
      /\ n.mem = IF c.op = "store" THEN Put(s.mem, x[1], x[2]) ELSE s.mem
      /\ n.trace = s.trace \o Access(s, c, x)
      /\ n.result = IF c.op = "return" THEN <<x[1]>> ELSE s.result
  BY DEF Executed
<1> HIDE DEF n, x
<1>8. n.mem = s.mem /\ n.result = s.result
  BY <1>1, <1>7
<1>9. n.trace = s.trace
  BY <1>6, <1>7
<1>10. n.env = Put(s.env, c.out[1], Computed("less", x))
  BY <1>5, <1>7
<1>11. Waits(p, r, n, t)
  <2>1. c.out[1] \in DOMAIN n.env /\ n.env[c.out[1]] = Computed("less", x)
    BY <1>10 DEF Put
  <2>2. n.pc = h + 1 /\ t.pc = r[h]
    BY <1>4, <1>7
  <2> QED BY <1>2, <2>1, <2>2 DEF Waits
<1>12. Alike(n, t, FusedOuts(p))
  <2>1. ASSUME NEW v, v \notin FusedOuts(p) PROVE Agree(n.env, t.env, v)
    <3>1. Agree(s.env, t.env, v) /\ v # c.out[1]
      BY <1>3, <2>1 DEF Alike
    <3> QED BY <1>10, <3>1 DEF Agree, Put
  <2> QED BY <1>8, <1>9, <2>1 DEF Alike
<1> QED BY <1>11, <1>12 DEF Keeps, n

\* A command that is kept as it is is run by both.
LEMMA FuseKept ==
  ASSUME NEW p, WellMade(p), NEW r, FusePlaces(p, r), NEW s, NEW t,
         Alike(s, t, FusedOuts(p)), s.pc \in KeptPlaces(p) \ Heads(p), t.pc = r[s.pc],
         Executed(s, p, literals).pc \in 1..Len(p)
  PROVE  Keeps(p, r, Executed(s, p, literals), Executed(t, Fused(p), literals))
<1> DEFINE k == s.pc
           c == p[k]
           q == Fused(p)
           x == Operands(s, c, literals)
           n == Executed(s, p, literals)
           m == Executed(t, q, literals)
<1>1. /\ k \in 1..Len(p) /\ r[k] \in 1..Len(q) /\ q[r[k]] = c /\ c \in Shapes /\ IsCommand(c)
      /\ k + 1 \in 1..Len(p) => k + 1 \in KeptPlaces(p) /\ r[k + 1] = r[k] + 1
  <2>1. /\ k \in 1..Len(p) /\ r[k] \in 1..Len(q) /\ q[r[k]] = c
        /\ k + 1 \in 1..Len(p) => k + 1 \in KeptPlaces(p) /\ r[k + 1] = r[k] + 1
    BY KeptCommand
  <2>2. c \in Shapes /\ IsCommand(c)
    BY <2>1 DEF WellMade
  <2> QED BY <2>1, <2>2
<1>2. \A i \in 1..Len(c.args) : c.args[i] \notin FusedOuts(p)
  BY KeptReads
<1>3. /\ Alike(n, m, FusedOuts(p)) /\ n.pc = PcAfter(s, p, x) /\ m.pc = PcAfter(t, q, x)
  <2>1. p[s.pc] = c /\ q[t.pc] = c
    BY <1>1
  <2>2. IsCommand(c)
    BY <1>1
  <2> HIDE DEF c, q, k
  <2> QED BY <1>2, <2>1, <2>2, AlikeStep
<1> SUFFICES n.pc \in KeptPlaces(p) /\ m.pc = r[n.pc]
  BY <1>3 DEF Keeps
<1>4. n.pc \in 1..Len(p) /\ t.pc = r[k]
  OBVIOUS
<1> HIDE DEF n, m, x, q
<1>5. CASE c.op \in Jumps /\ Taken(c.op, x)
  <2>1. PICK j \in KeptPlaces(p) : At(p, c.label) = {j} /\ At(q, c.label) = {r[j]}
    <3>1. /\ r[k] \in 1..Len(Fused(p)) /\ Fused(p)[r[k]].op \in Jumps
          /\ k \in 1..Len(p) /\ p[k].op \in Jumps /\ p[k].label = Fused(p)[r[k]].label
      BY <1>1, <1>5 DEF q
    <3>2. \E j \in KeptPlaces(p) : Lands(p, r, p[k].label, j)
      <4> DEFINE i == r[k]
      <4> HIDE DEF k, i
      <4>1. /\ i \in 1..Len(Fused(p)) /\ Fused(p)[i].op \in Jumps
            /\ k \in 1..Len(p) /\ p[k].op \in Jumps /\ p[k].label = Fused(p)[i].label
        BY <3>1 DEF i
      <4> QED BY <4>1, FusedJump
    <3> QED BY <3>2 DEF q, Lands
  <2>2. PcAfter(s, p, x) = j /\ PcAfter(t, q, x) = r[j]
    <3>1. /\ p[s.pc].op \in Jumps /\ Taken(p[s.pc].op, x) /\ At(p, p[s.pc].label) = {j}
          /\ q[t.pc].op \in Jumps /\ Taken(q[t.pc].op, x) /\ At(q, q[t.pc].label) = {r[j]}
      BY <1>1, <1>4, <1>5, <2>1
    <3>2. PcAfter(s, p, x) = j
      BY ONLY <3>1, JumpsThere
    <3>3. PcAfter(t, q, x) = r[j]
      BY ONLY <3>1, JumpsThere
    <3> QED BY <3>2, <3>3
  <2> QED BY <1>3, <2>1, <2>2
<1>6. CASE c.op = "return"
  <2>1. PcAfter(s, p, x) = k /\ PcAfter(t, q, x) = r[k]
    BY <1>1, <1>4, <1>6 DEF PcAfter, Jumps
  <2> QED BY <1>3, <2>1
<1>7. CASE ~(c.op \in Jumps /\ Taken(c.op, x)) /\ c.op # "return"
  <2>1. PcAfter(s, p, x) = k + 1 /\ PcAfter(t, q, x) = r[k] + 1
    BY <1>1, <1>4, <1>7 DEF PcAfter
  <2> QED BY <1>1, <1>3, <1>4, <2>1
<1> QED BY <1>5, <1>6, <1>7

\* After the comparison the jump of the one and the fused jump of the other.
LEMMA FuseJumps ==
  ASSUME NEW p, WellMade(p), NoLiteralWritten(p), NEW r, FusePlaces(p, r), NEW s, NEW t,
         Alike(s, t, FusedOuts(p)), Waits(p, r, s, t),
         s.trace \in Seq(Accesses), Executed(s, p, literals).pc \in 1..Len(p)
  PROVE  Keeps(p, r, Executed(s, p, literals), Executed(t, Fused(p), literals))
<1>1. PICK h \in Heads(p) :
        /\ s.pc = h + 1 /\ t.pc = r[h] /\ p[h].out[1] \in DOMAIN s.env
        /\ s.env[p[h].out[1]] = Computed("less", Operands(t, p[h], literals))
  BY DEF Waits
<1> DEFINE b == p[h + 1]
           d == FusedWith(p[h], b)
           q == Fused(p)
           x == Operands(s, b, literals)
           y == Operands(t, d, literals)
           n == Executed(s, p, literals)
           m == Executed(t, q, literals)
<1>2. /\ h \in KeptPlaces(p) /\ h \in 1..Len(p) /\ h + 1 \in 1..Len(p) /\ Len(p) \in Nat
      /\ b.op \in {"jz", "jnz"} /\ b.args[1] = p[h].out[1] /\ p[h].op = "less"
  <2>1. Len(p) \in Nat
    BY DEF WellMade
  <2> QED BY <2>1, HeadPlaces
<1>3. /\ r[h] \in 1..Len(q) /\ q[r[h]] = d
      /\ h + 2 \in 1..Len(p) => h + 2 \in KeptPlaces(p) /\ r[h + 2] = r[h] + 1
  BY <1>2, KeptCommand
<1>4. /\ d.op = IF b.op = "jz" THEN "jnotless" ELSE "jless"
      /\ d.args = p[h].args /\ d.label = b.label
  BY DEF FusedWith, Cmd
<1>5. IsCommand(b) /\ IsCommand(p[h])
  BY <1>2 DEF WellMade
<1>6. Len(p[h].args) = 2 /\ Len(p[h].out) = 1 /\ Len(b.args) = 1
  BY <1>2, <1>5, ArgCount DEF Arith
<1>7. x[1] = IF y[1] < y[2] THEN 1 ELSE 0
  <2>1. y = Operands(t, p[h], literals)
    BY <1>4 DEF Operands
  <2>2. p[h].out[1] \notin DOMAIN literals
    <3>1. p[h].out[1] \in ToSet(p[h].out)
      BY <1>6 DEF ToSet
    <3> QED BY <1>2, <3>1 DEF NoLiteralWritten
  <2>3. x[1] = s.env[p[h].out[1]]
    <3>1. x[1] = Val(s, literals, b.args[1])
      BY <1>6 DEF Operands
    <3> QED BY <1>1, <1>2, <2>2, <3>1 DEF Val
  <2> HIDE DEF x, y
  <2> QED BY <1>1, <2>1, <2>3 DEF Computed
<1>8. Taken(b.op, x) <=> Taken(d.op, y)
  <2> HIDE DEF x, y, d, b
  <2> QED BY <1>2, <1>4, <1>7 DEF Taken
<1>9. /\ n.pc = PcAfter(s, p, x) /\ n.env = EnvAfter(s, b, x)
      /\ n.mem = IF b.op = "store" THEN Put(s.mem, x[1], x[2]) ELSE s.mem
      /\ n.trace = s.trace \o Access(s, b, x)
      /\ n.result = IF b.op = "return" THEN <<x[1]>> ELSE s.result
  BY <1>1 DEF Executed
<1>10. /\ m.pc = PcAfter(t, q, y) /\ m.env = EnvAfter(t, d, y)
       /\ m.mem = IF d.op = "store" THEN Put(t.mem, y[1], y[2]) ELSE t.mem
       /\ m.trace = t.trace \o Access(t, d, y)
       /\ m.result = IF d.op = "return" THEN <<y[1]>> ELSE t.result
  BY <1>1, <1>3 DEF Executed
<1> HIDE DEF n, m, x, y, d
<1>11. /\ n.env = s.env /\ n.mem = s.mem /\ n.trace = s.trace /\ n.result = s.result
  <2>1. EnvAfter(s, b, x) = s.env /\ Access(s, b, x) = << >>
    BY <1>2 DEF EnvAfter, Access, Arith
  <2> QED BY <1>2, <1>9, <2>1
<1>12. /\ m.env = t.env /\ m.mem = t.mem /\ m.trace = t.trace /\ m.result = t.result
  <2>1. EnvAfter(t, d, y) = t.env /\ Access(t, d, y) = << >>
    BY <1>4 DEF EnvAfter, Access, Arith
  <2>2. t.trace = s.trace
    BY DEF Alike
  <2> QED BY <1>4, <1>10, <2>1, <2>2
<1>13. Alike(n, m, FusedOuts(p))
  BY <1>11, <1>12 DEF Alike
<1> SUFFICES n.pc \in KeptPlaces(p) /\ m.pc = r[n.pc]
  BY <1>13 DEF Keeps, n, m, q
<1>14. n.pc \in 1..Len(p) /\ p[s.pc] = b /\ q[t.pc] = d /\ b.op \in Jumps /\ d.op \in Jumps
  BY <1>1, <1>2, <1>3, <1>4 DEF n, Jumps
<1> HIDE DEF q, b
<1>15. CASE Taken(b.op, x)
  <2>1. PICK j \in KeptPlaces(p) : At(p, b.label) = {j} /\ At(q, b.label) = {r[j]}
    <3>1. /\ r[h] \in 1..Len(Fused(p)) /\ Fused(p)[r[h]].op \in Jumps
          /\ h + 1 \in 1..Len(p) /\ p[h + 1].op \in Jumps
          /\ p[h + 1].label = Fused(p)[r[h]].label
      BY <1>2, <1>3, <1>4, <1>14 DEF q, b
    <3>2. \E j \in KeptPlaces(p) : Lands(p, r, p[h + 1].label, j)
      <4> DEFINE i == r[h]
                 k == h + 1
      <4> HIDE DEF k, i
      <4>1. /\ i \in 1..Len(Fused(p)) /\ Fused(p)[i].op \in Jumps
            /\ k \in 1..Len(p) /\ p[k].op \in Jumps /\ p[k].label = Fused(p)[i].label
        BY <3>1 DEF i, k
      <4>2. \E j \in KeptPlaces(p) : Lands(p, r, p[k].label, j)
        BY <4>1, FusedJump
      <4> QED BY <4>2 DEF k
    <3> QED BY <3>2 DEF q, b, Lands
  <2>2. PcAfter(s, p, x) = j /\ PcAfter(t, q, y) = r[j]
    <3>1. /\ p[s.pc].op \in Jumps /\ Taken(p[s.pc].op, x) /\ At(p, p[s.pc].label) = {j}
          /\ q[t.pc].op \in Jumps /\ Taken(q[t.pc].op, y) /\ At(q, q[t.pc].label) = {r[j]}
      BY <1>4, <1>8, <1>14, <1>15, <2>1
    <3>2. PcAfter(s, p, x) = j
      BY ONLY <3>1, JumpsThere
    <3>3. PcAfter(t, q, y) = r[j]
      BY ONLY <3>1, JumpsThere
    <3> QED BY <3>2, <3>3
  <2> QED BY <1>9, <1>10, <2>1, <2>2
<1>16. CASE ~Taken(b.op, x)
  <2>1. PcAfter(s, p, x) = s.pc + 1 /\ PcAfter(t, q, y) = t.pc + 1
    BY <1>2, <1>4, <1>8, <1>14, <1>16 DEF PcAfter
  <2>2. n.pc = h + 2 /\ m.pc = r[h] + 1
    BY <1>1, <1>2, <1>9, <1>10, <2>1
  <2> QED BY <1>3, <1>14, <2>2
<1> QED BY <1>15, <1>16

\* The fused commands do what the commands do.
LEMMA FuseCovers ==
  ASSUME NEW p, Runnable(p), NoLiteralWritten(p), Numbers(literals), IntegerCells,
         NEW in, Numbers(in)
  PROVE  Covers(Fused(p), p, literals, in)
<1>1. WellMade(p)
  BY DEF Runnable
<1>2. PICK r : FusePlaces(p, r)
  BY <1>1, FusePlaced
<1>3. ASSUME NEW n \in Nat, NEW s, Reaches(p, literals, in, n, s)
      PROVE  \E k \in Nat : \E t : /\ Reaches(Fused(p), literals, in, k, t)
                                   /\ t.trace = s.trace /\ t.result = s.result
  <2>1. PICK f : RunOf(p, literals, in, f, n) /\ f[n] = s
    BY <1>3 DEF Reaches
  <2>2. \A i \in 0..n : SoundMachine(f[i], p)
    BY <2>1, SoundReach
  <2> DEFINE Good == { i \in 0..n : \E k \in Nat : \E t : /\ Reaches(Fused(p), literals, in, k, t)
                                                          /\ Keeps(p, r, f[i], t) }
  <2>3. 0 \in Good
    <3>1. f[0] = Boot(in)
      BY <2>1 DEF RunOf
    <3>2. Reaches(Fused(p), literals, in, 0, Boot(in))
      BY ReachStart
    <3>3. Keeps(p, r, Boot(in), Boot(in))
      <4>1. Alike(Boot(in), Boot(in), FusedOuts(p))
        BY DEF Alike, Agree
      <4>2. Boot(in).pc = 1
        BY DEF Boot
      <4>3. 1 \in 1..Len(p) /\ Len(Rewritten(p)) = Len(p)
        BY DEF Runnable, WellMade, Rewritten
      <4>4. 1 \in KeptPlaces(p)
        <5>1. 1 - 1 \notin 1..Len(p)
          OBVIOUS
        <5> QED BY <4>3, <5>1 DEF KeptPlaces
      <4>5. r[1] = r[1 - 1] + 1 /\ r[0] = 0
        BY <1>2, <4>3, <4>4 DEF FusePlaces, Placed
      <4>6. r[1] = 1
        BY <4>5
      <4> QED BY <4>1, <4>2, <4>4, <4>6 DEF Keeps
    <3> QED BY <3>1, <3>2, <3>3
  <2>4. ASSUME NEW i \in 1..n, i - 1 \in Good PROVE i \in Good
    <3> DEFINE a == f[i - 1]
    <3>1. PICK k \in Nat : \E t : Reaches(Fused(p), literals, in, k, t) /\ Keeps(p, r, a, t)
      BY <2>4
    <3>2. PICK t : Reaches(Fused(p), literals, in, k, t) /\ Keeps(p, r, a, t)
      BY <3>1
    <3>3. i \in 0..n /\ i - 1 \in 0..n /\ ~Halted(a) /\ f[i] = Executed(a, p, literals)
      BY <2>1 DEF RunOf
    <3>4. a.trace \in Seq(Accesses) /\ f[i].pc \in 1..Len(p)
      BY <2>2, <3>3 DEF SoundMachine
    <3> HIDE DEF a
    <3>5. \/ Keeps(p, r, f[i], t)
          \/ Keeps(p, r, f[i], Executed(t, Fused(p), literals))
      <4>1. Alike(a, t, FusedOuts(p))
        BY <3>2 DEF Keeps
      <4>2. CASE a.pc \in Heads(p) /\ t.pc = r[a.pc]
        BY <1>1, <3>3, <3>4, <4>1, <4>2, FuseCompares
      <4>3. CASE a.pc \in KeptPlaces(p) \ Heads(p) /\ t.pc = r[a.pc]
        <5>1. Executed(a, p, literals).pc \in 1..Len(p)
          BY <3>3, <3>4
        <5> QED BY <1>1, <1>2, <3>3, <4>1, <4>3, <5>1, FuseKept
      <4>4. CASE Waits(p, r, a, t)
        <5>1. Executed(a, p, literals).pc \in 1..Len(p)
          BY <3>3, <3>4
        <5> QED BY <1>1, <1>2, <3>3, <3>4, <4>1, <4>4, <5>1, FuseJumps
      <4> QED BY <3>2, <4>2, <4>3, <4>4 DEF Keeps
    <3>6. ~Halted(t)
      BY <3>2, <3>3 DEF Keeps, Alike, Halted
    <3>7. Reaches(Fused(p), literals, in, k + 1, Executed(t, Fused(p), literals))
      BY <3>2, <3>6, ReachStep
    <3> QED BY <3>2, <3>3, <3>5, <3>7
  <2>5. n \in Good
    <3>1. 0..n \subseteq Good
      <4> HIDE DEF Good
      <4> QED BY <2>3, <2>4, UpTo
    <3> QED BY <3>1
  <2>6. PICK k \in Nat : \E t : Reaches(Fused(p), literals, in, k, t) /\ Keeps(p, r, f[n], t)
    BY <2>5
  <2> QED BY <2>1, <2>6 DEF Keeps, Alike
<1> QED BY <1>3 DEF Covers

-----------------------------------------------------------------------------
(* Where a hoisting round puts the commands. *)

\* Every place of a picked list is that of a command that was picked.
LEMMA PlacedFrom ==
  ASSUME NEW q, NEW p, Len(p) \in Nat, NEW S, NEW r, Placed(q, p, S, r), NEW m \in 1..Len(q)
  PROVE  \E j \in 1..Len(p) : j \in S /\ r[j] = m
<1> DEFINE N == Len(p)
           Good == { n \in 0..N : \A i \in 1..r[n] : \E j \in 1..N : j \in S /\ r[j] = i }
<1>1. /\ r[0] = 0 /\ Len(q) = r[N] /\ \A k \in 0..N : r[k] \in Nat
      /\ \A k \in 1..N : r[k] = IF k \in S THEN r[k - 1] + 1 ELSE r[k - 1]
  BY DEF Placed
<1>2. 0 \in Good
  BY <1>1
<1>3. ASSUME NEW n \in 1..N, n - 1 \in Good PROVE n \in Good
  <2>1. n \in 0..N /\ n - 1 \in 0..N /\ r[n - 1] \in Nat
    BY <1>1
  <2>2. ASSUME NEW i \in 1..r[n] PROVE \E j \in 1..N : j \in S /\ r[j] = i
    <3>1. CASE i \in 1..r[n - 1]
      BY <1>3, <3>1
    <3>2. CASE i \notin 1..r[n - 1]
      <4>1. n \in S /\ r[n] = i
        BY <1>1, <2>1, <3>2
      <4> QED BY <4>1
    <3> QED BY <3>1, <3>2
  <2> QED BY <2>1, <2>2
<1>4. N \in Good
  <2>1. N \in 0..N
    OBVIOUS
  <2>2. 0..N \subseteq Good
    <3> HIDE DEF Good, N
    <3>1. N \in Nat
      BY DEF N
    <3> QED BY <1>2, <1>3, <3>1, UpTo
  <2> QED BY <2>1, <2>2
<1> QED BY <1>1, <1>4

Counts(r, S, N) ==
  /\ r[0] = 0 /\ \A k \in 0..N : r[k] \in Nat
  /\ \A k \in 1..N : r[k] = IF k \in S THEN r[k - 1] + 1 ELSE r[k - 1]

\* The two parts of a body, and how many commands of each come before one.
LEMMA BodyCounts ==
  ASSUME NEW N \in Nat, NEW a \in 1..N, NEW b \in 1..N, a < b, NEW S \in SUBSET (a + 1 .. b - 1),
         NEW D, D = (a + 1 .. b - 1) \ S, NEW rs, Counts(rs, S, N), NEW rr, Counts(rr, D, N)
  PROVE  rr[a] = 0 /\ rr[b - 1] = rr[N] /\ rs[N] + rr[N] = b - 1 - a
<1> USE DEF Counts
<1> DEFINE Sums == { k \in 0..N : rs[k] + rr[k] = IF k <= a THEN 0 ELSE IF k <= b - 1 THEN k - a ELSE b - 1 - a }
<1>1. 0..N \subseteq Sums
  <2>1. 0 \in Sums
    OBVIOUS
  <2>2. ASSUME NEW k \in 1..N, k - 1 \in Sums PROVE k \in Sums
    <3>1. k \in 0..N /\ k - 1 \in 0..N /\ rs[k - 1] \in Nat /\ rr[k - 1] \in Nat
      OBVIOUS
    <3>2. rs[k - 1] + rr[k - 1] = IF k - 1 <= a THEN 0 ELSE IF k - 1 <= b - 1 THEN k - 1 - a ELSE b - 1 - a
      BY <2>2
    <3>3. rs[k] + rr[k] = IF k \in a + 1 .. b - 1 THEN rs[k - 1] + rr[k - 1] + 1 ELSE rs[k - 1] + rr[k - 1]
      BY <3>1
    <3>4. rs[k] + rr[k] = IF k <= a THEN 0 ELSE IF k <= b - 1 THEN k - a ELSE b - 1 - a
      <4>1. rs[k - 1] + rr[k - 1] \in Nat
        BY <3>1
      <4> HIDE DEF Sums
      <4>2. CASE k <= a
        BY <3>2, <3>3, <4>2
      <4>3. CASE k = a + 1
        BY <3>2, <3>3, <4>3
      <4>4. CASE k > a + 1 /\ k <= b - 1
        BY <3>2, <3>3, <4>4
      <4>5. CASE k > b - 1
        BY <3>2, <3>3, <4>5
      <4> QED BY <4>2, <4>3, <4>4, <4>5
    <3> QED BY <3>1, <3>4
  <2> HIDE DEF Sums
  <2> QED BY <2>1, <2>2, UpTo
<1> DEFINE Late == { k \in 0..N : k >= b - 1 => rr[k] = rr[b - 1] }
<1>2. 0..N \subseteq Late
  <2>1. 0 \in Late
    OBVIOUS
  <2>2. ASSUME NEW k \in 1..N, k - 1 \in Late PROVE k \in Late
    <3>1. CASE k <= b - 1
      BY <3>1
    <3>2. CASE k > b - 1
      <4>1. rr[k] = rr[k - 1] /\ k - 1 >= b - 1
        BY <3>2
      <4> QED BY <2>2, <4>1
    <3> QED BY <3>1, <3>2
  <2> HIDE DEF Late
  <2> QED BY <2>1, <2>2, UpTo
<1>3. a \in 0..N /\ N \in 0..N
  OBVIOUS
<1>4. rr[a] = 0
  BY <1>1, <1>3
<1>5. rr[N] = rr[b - 1]
  BY <1>2, <1>3
<1>6. rs[N] + rr[N] = b - 1 - a
  <2>1. rs[N] + rr[N] = IF N <= a THEN 0 ELSE IF N <= b - 1 THEN N - a ELSE b - 1 - a
    BY <1>1, <1>3
  <2> QED BY <2>1
<1> QED BY <1>4, <1>5, <1>6

Rest(p, e) == (e[1] + 1 .. e[2] - 1) \ Invariant(p, e)

\* The list after a round: the hoisted commands, the label, the others.
HoistedFrom(p, e) == Preheader(p, e, Invariant(p, e), << >>)

\* M commands are hoisted; command i of the rest of the body is the rr[i]-th.
HoistPlaces(p, e, M, rs, rr) ==
  LET a == e[1]
      b == e[2]
      q == HoistedFrom(p, e)
  IN /\ M \in Nat /\ Len(q) = Len(p) /\ rr[a] = 0 /\ a + M + 1 + rr[b - 1] = b
     /\ \A k \in 0..Len(p) : rr[k] \in Nat
     /\ \A k \in 1..Len(p) : rr[k] = IF k \in Rest(p, e) THEN rr[k - 1] + 1 ELSE rr[k - 1]
     /\ \A i \in 1..Len(p) : i < a \/ b <= i => q[i] = p[i]
     /\ q[a + M] = p[a]
     /\ \A j \in Rest(p, e) : q[a + M + rr[j]] = p[j]
     /\ \A j \in Invariant(p, e) : rs[j] \in 1..M /\ q[a - 1 + rs[j]] = p[j]
     /\ \A m \in 1..M : \E j \in Invariant(p, e) : rs[j] = m

\* What stands where in two lists put together.
LEMMA TwoLists ==
  ASSUME NEW T, NEW x \in Seq(T), NEW y \in Seq(T), NEW m, NEW n, Len(x) = m, Len(y) = n
  PROVE  /\ x \o y \in Seq(T) /\ m \in Nat /\ n \in Nat /\ Len(x \o y) = m + n
         /\ \A i \in 1..(m + n) : (x \o y)[i] = IF i <= m THEN x[i] ELSE y[i - m]
<1>1. m \in Nat /\ n \in Nat
  OBVIOUS
<1>2. x \o y \in Seq(T)
  OBVIOUS
<1>3. Len(x \o y) = Len(x) + Len(y)
  OBVIOUS
<1>4. \A i \in 1..(Len(x) + Len(y)) : (x \o y)[i] = IF i <= Len(x) THEN x[i] ELSE y[i - Len(x)]
  OBVIOUS
<1> QED BY <1>1, <1>2, <1>3, <1>4

LEMMA HoistPlaced ==
  ASSUME NEW p, WellMade(p), NEW e \in BackEdges(p)
  PROVE  \E M, rs, rr : HoistPlaces(p, e, M, rs, rr)
<1> DEFINE a == e[1]
           b == e[2]
           N == Len(p)
           S == Invariant(p, e)
           R == Rest(p, e)
           u == SubSeq(p, 1, a - 1)
           x == Pick(p, S)
           y == Pick(p, R)
           z == SubSeq(p, b, N)
           q == HoistedFrom(p, e)
<1>1. p \in Seq(Shapes) /\ N \in Nat /\ a \in 1..N /\ b \in 1..N /\ a < b
  BY DEF WellMade, BackEdges
<1>2. S \in SUBSET (a + 1 .. b - 1) /\ R = (a + 1 .. b - 1) \ S
  BY DEF Invariant, Rest
<1>3. PICK rs : Placed(x, p, S, rs)
  BY <1>1, PickPlaces
<1>4. PICK rr : Placed(y, p, R, rr)
  BY <1>1, PickPlaces
<1>5. /\ u \in Seq(Shapes) /\ Len(u) = a - 1 /\ \A i \in 1..(a - 1) : u[i] = p[i]
      /\ z \in Seq(Shapes) /\ Len(z) = N - b + 1 /\ \A i \in 1..(N - b + 1) : z[i] = p[b + i - 1]
  BY <1>1, SubSeqProperties
<1>6. x \in Seq(Shapes) /\ y \in Seq(Shapes)
  <2>1. S \in SUBSET (1..N) /\ R \in SUBSET (1..N)
    BY <1>1, <1>2
  <2> HIDE DEF x, y, S, R, N
  <2>2. S \in SUBSET (1..Len(p)) /\ R \in SUBSET (1..Len(p))
    BY <2>1 DEF N
  <2> QED BY <1>1, <2>2, PartPicked DEF x, y
<1>7. q = ((((u \o x) \o <<p[a]>>) \o y) \o << >>) \o z
  BY DEF HoistedFrom, Preheader, Rest
<1> HIDE DEF q, u, x, y, z
<1> DEFINE M == Len(x)
           K == Len(y)
<1>8. /\ rs[0] = 0 /\ rs[N] = M /\ \A k \in 0..N : rs[k] \in Nat
      /\ \A k \in 1..N : rs[k] = IF k \in S THEN rs[k - 1] + 1 ELSE rs[k - 1]
      /\ \A k \in 1..N : k \in S => rs[k] \in 1..M /\ x[rs[k]] = p[k]
  BY <1>3 DEF Placed
<1>9. /\ rr[0] = 0 /\ rr[N] = K /\ \A k \in 0..N : rr[k] \in Nat
      /\ \A k \in 1..N : rr[k] = IF k \in R THEN rr[k - 1] + 1 ELSE rr[k - 1]
      /\ \A k \in 1..N : k \in R => rr[k] \in 1..K /\ y[rr[k]] = p[k]
  BY <1>4 DEF Placed
<1>10. M \in Nat /\ K \in Nat
  BY <1>6
<1> HIDE DEF S, R, N, a, b
<1>11. rr[a] = 0 /\ rr[b - 1] = rr[N] /\ rs[N] + rr[N] = b - 1 - a
  <2>1. Counts(rs, S, N) /\ Counts(rr, R, N)
    BY <1>8, <1>9 DEF Counts
  <2>2. /\ N \in Nat /\ a \in 1..N /\ b \in 1..N /\ a < b /\ S \in SUBSET (a + 1 .. b - 1)
        /\ R = (a + 1 .. b - 1) \ S
    BY <1>1, <1>2 DEF N
  <2> QED BY ONLY <2>1, <2>2, BodyCounts
<1>12. M + K = b - 1 - a
  <2>1. rs[N] = M /\ rr[N] = K
    BY <1>8, <1>9
  <2> HIDE DEF M, K
  <2> QED BY <1>11, <2>1
<1> DEFINE A == u \o x
           B == A \o <<p[a]>>
           C == B \o y
<1> HIDE DEF M, K
<1>13. /\ A \in Seq(Shapes) /\ Len(A) = a - 1 + M
       /\ \A i \in 1..(a - 1 + M) : A[i] = IF i <= a - 1 THEN u[i] ELSE x[i - (a - 1)]
  <2>1. Len(x) = M
    BY DEF M
  <2> QED BY <1>5, <1>6, <2>1, TwoLists
<1> HIDE DEF A
<1>14. /\ B \in Seq(Shapes) /\ Len(B) = a + M
       /\ \A i \in 1..(a + M) : B[i] = IF i <= a - 1 + M THEN A[i] ELSE p[a]
  <2> DEFINE one == <<p[a]>>
  <2>1. one \in Seq(Shapes) /\ Len(one) = 1 /\ one[1] = p[a]
    BY <1>1 DEF N
  <2> HIDE DEF one
  <2> DEFINE m == a - 1 + M
             n == 1
  <2>6. A \in Seq(Shapes) /\ Len(A) = m /\ one \in Seq(Shapes) /\ Len(one) = n
    BY <1>13, <2>1
  <2> HIDE DEF m, n
  <2>7. /\ A \o one \in Seq(Shapes) /\ Len(A \o one) = m + n
        /\ \A i \in 1..(m + n) : (A \o one)[i] = IF i <= m THEN A[i] ELSE one[i - m]
    BY <2>6, TwoLists
  <2>2. /\ A \o one \in Seq(Shapes) /\ Len(A \o one) = a - 1 + M + 1
        /\ \A i \in 1..(a - 1 + M + 1) :
             (A \o one)[i] = IF i <= a - 1 + M THEN A[i] ELSE one[i - (a - 1 + M)]
    BY <2>7 DEF m, n
  <2>3. a \in Nat /\ M \in Nat /\ a - 1 + M + 1 = a + M
    BY <1>1, <1>10
  <2>4. ASSUME NEW i \in 1..(a + M), ~(i <= a - 1 + M) PROVE i - (a - 1 + M) = 1
    BY <2>3, <2>4
  <2>5. B = A \o one
    BY DEF B, one
  <2> QED BY <2>1, <2>2, <2>3, <2>4, <2>5
<1> HIDE DEF B
<1>15. /\ C \in Seq(Shapes) /\ Len(C) = b - 1
       /\ \A i \in 1..(b - 1) : C[i] = IF i <= a + M THEN B[i] ELSE y[i - (a + M)]
  <2>1. a + M + K = b - 1
    BY <1>1, <1>10, <1>12
  <2>2. Len(y) = K
    BY DEF K
  <2>3. /\ C \in Seq(Shapes) /\ Len(C) = a + M + K
        /\ \A i \in 1..(a + M + K) : C[i] = IF i <= a + M THEN B[i] ELSE y[i - (a + M)]
    BY <1>6, <1>14, <2>2, TwoLists
  <2> QED BY <2>1, <2>3
<1> HIDE DEF C
<1>16. /\ Len(q) = N
       /\ \A i \in 1..N : q[i] = IF i <= b - 1 THEN C[i] ELSE z[i - (b - 1)]
  <2>1. C \o << >> = C
    BY <1>15
  <2>2. q = C \o z
    BY <1>7, <2>1 DEF A, B, C
  <2>3. /\ Len(C \o z) = (b - 1) + (N - b + 1)
        /\ \A i \in 1..((b - 1) + (N - b + 1)) :
             (C \o z)[i] = IF i <= b - 1 THEN C[i] ELSE z[i - (b - 1)]
    <3> DEFINE m == b - 1
               n == N - b + 1
    <3>1. C \in Seq(Shapes) /\ Len(C) = m /\ z \in Seq(Shapes) /\ Len(z) = n
      BY <1>5, <1>15
    <3> HIDE DEF m, n
    <3>2. Len(C \o z) = m + n /\ \A i \in 1..(m + n) : (C \o z)[i] = IF i <= m THEN C[i] ELSE z[i - m]
      BY <3>1, TwoLists
    <3> QED BY <3>2 DEF m, n
  <2>5. (b - 1) + (N - b + 1) = N
    BY <1>1
  <2> QED BY <2>2, <2>3, <2>5
<1>17. ASSUME NEW i \in 1..N, i < a \/ b <= i PROVE q[i] = p[i]
  <2>1. CASE i < a
    <3>1. i \in 1..(a - 1) /\ i \in 1..(a - 1 + M) /\ i \in 1..(a + M) /\ i \in 1..(b - 1)
      BY <1>1, <1>10, <2>1
    <3> QED BY <1>5, <1>10, <1>13, <1>14, <1>15, <1>16, <3>1
  <2>2. CASE b <= i
    <3>1. i - (b - 1) \in 1..(N - b + 1) /\ b + (i - (b - 1)) - 1 = i /\ ~(i <= b - 1)
      BY <1>1, <2>2
    <3> QED BY <1>5, <1>16, <3>1
  <2> QED BY <1>17, <2>1, <2>2
<1>18. q[a + M] = p[a]
  <2>1. a + M \in 1..N /\ a + M \in 1..(b - 1) /\ ~(a + M <= a - 1 + M)
    BY <1>1, <1>10, <1>12
  <2> QED BY <1>14, <1>15, <1>16, <2>1
<1>19. ASSUME NEW j \in R PROVE q[a + M + rr[j]] = p[j]
  <2>1. j \in 1..N
    BY <1>1, <1>2
  <2>2. rr[j] \in 1..K /\ y[rr[j]] = p[j]
    BY <1>9, <2>1
  <2> DEFINE r == rr[j]
  <2>6. /\ a \in Nat /\ 1 <= a /\ b \in Nat /\ b <= N /\ N \in Nat /\ M \in Nat /\ K \in Nat
        /\ M + K = b - 1 - a /\ r \in 1..K
    BY <1>1, <1>10, <1>12, <2>2
  <2> HIDE DEF r
  <2>7. /\ a + M + r \in 1..N /\ a + M + r \in 1..(b - 1)
        /\ ~(a + M + r <= a + M) /\ (a + M + r) - (a + M) = r
    BY ONLY <2>6
  <2>3. /\ a + M + rr[j] \in 1..N /\ a + M + rr[j] \in 1..(b - 1)
        /\ ~(a + M + rr[j] <= a + M) /\ (a + M + rr[j]) - (a + M) = rr[j]
    BY <2>7 DEF r
  <2>4. q[a + M + rr[j]] = C[a + M + rr[j]]
    BY <1>16, <2>3
  <2>5. C[a + M + rr[j]] = y[rr[j]]
    BY <1>15, <2>3
  <2> QED BY <2>2, <2>4, <2>5
<1>20. ASSUME NEW j \in S PROVE rs[j] \in 1..M /\ q[a - 1 + rs[j]] = p[j]
  <2>1. j \in 1..N
    BY <1>1, <1>2
  <2>2. rs[j] \in 1..M /\ x[rs[j]] = p[j]
    BY <1>8, <2>1
  <2> DEFINE r == rs[j]
             i == a - 1 + r
  <2>6. /\ a \in Nat /\ 1 <= a /\ b \in Nat /\ b <= N /\ N \in Nat /\ M \in Nat /\ K \in Nat
        /\ M + K = b - 1 - a /\ r \in 1..M
    BY <1>1, <1>10, <1>12, <2>2
  <2> HIDE DEF r
  <2>3. /\ i \in 1..N /\ i \in 1..(b - 1) /\ i \in 1..(a + M) /\ i \in 1..(a - 1 + M)
        /\ i <= a + M /\ i <= b - 1 /\ i <= a - 1 + M
        /\ ~(i <= a - 1) /\ i - (a - 1) = r
    BY ONLY <2>6
  <2> HIDE DEF i
  <2>4. q[i] = C[i] /\ C[i] = B[i]
    BY <1>15, <1>16, <2>3
  <2>5. B[i] = A[i] /\ A[i] = x[r]
    BY <1>13, <1>14, <2>3
  <2> QED BY <2>2, <2>4, <2>5 DEF i, r
<1>21. ASSUME NEW m \in 1..M PROVE \E j \in S : rs[j] = m
  <2>1. m \in 1..Len(x)
    BY DEF M
  <2>2. Len(p) \in Nat
    BY <1>1 DEF N
  <2>3. PICK j \in 1..Len(p) : j \in S /\ rs[j] = m
    BY <1>3, <2>1, <2>2, PlacedFrom
  <2> QED BY <2>3
<1>22. a + M + 1 + rr[b - 1] = b
  <2>1. rr[b - 1] = K
    BY <1>9, <1>11
  <2>2. a \in Nat /\ b \in Nat
    BY <1>1
  <2> QED BY <1>10, <1>12, <2>1, <2>2
<1>23. HoistPlaces(p, e, M, rs, rr)
  BY <1>9, <1>10, <1>11, <1>16, <1>17, <1>18, <1>19, <1>20, <1>21, <1>22
     DEF HoistPlaces, a, b, N, S, R, q
<1> QED BY <1>23

-----------------------------------------------------------------------------
(***************************************************************************)
(* The commands that a round hoists.  A value is computed in front of the  *)
(* loop (Held), and the two machines differ in those of them that the loop *)
(* has yet to compute (Later).                                             *)
(***************************************************************************)
Outs(p, e) == { p[j].out[1] : j \in Invariant(p, e) }

Later(p, e, i) == { p[j].out[1] : j \in { k \in Invariant(p, e) : i <= k } }

Held(m, c) ==
  c.out[1] \in DOMAIN m.env /\ m.env[c.out[1]] = Computed(c.op, Operands(m, c, literals))

\* What Invariant says, command by command.
LEMMA HoistedCommand ==
  ASSUME NEW p, WellMade(p), NEW e \in BackEdges(p), NEW j \in Invariant(p, e)
  PROVE  /\ j \in e[1] + 1 .. e[2] - 1 /\ j \in 1..Len(p) /\ j \in e[1]..e[2]
         /\ p[j].op \in {"set", "add", "sub", "mul"} /\ p[j].op \in Arith
         /\ IsCommand(p[j]) /\ Len(p[j].out) = 1 /\ Len(p[j].args) \in Nat
         /\ \A k \in e[1]..e[2] : Len(p[k].out) = 1 /\ p[k].out[1] = p[j].out[1] => k = j
         /\ \A n \in 1..Len(p[j].args) : \A k \in e[1]..e[2] :
              Len(p[k].out) = 1 => p[k].out[1] # p[j].args[n]
         /\ \A n \in 1..Len(p[j].args) : p[j].args[n] \notin Outs(p, e)
<1>1. e[1] \in 1..Len(p) /\ e[2] \in 1..Len(p) /\ e[1] < e[2] /\ Len(p) \in Nat
  BY DEF BackEdges, WellMade
<1>2. /\ j \in e[1] + 1 .. e[2] - 1 /\ p[j].op \in {"set", "add", "sub", "mul"}
      /\ Defs(p, e[1], e[2], p[j].out[1]) = {j}
      /\ \A v \in ToSet(p[j].args) : Defs(p, e[1], e[2], v) = {}
  BY DEF Invariant
<1>3. j \in 1..Len(p) /\ j \in e[1]..e[2]
  BY <1>1, <1>2
<1>4. p[j].op \in Arith
  BY <1>2 DEF Arith
<1>5. IsCommand(p[j]) /\ p[j] \in Shapes
  BY <1>3 DEF WellMade
<1>6. Len(p[j].out) = 1 /\ Len(p[j].args) \in Nat
  BY <1>4, <1>5, ArgCount
<1>7. ASSUME NEW k \in e[1]..e[2], Len(p[k].out) = 1 PROVE Writes(p[k], p[k].out[1])
  <2>1. 1 \in 1..Len(p[k].out)
    BY <1>7
  <2> QED BY <2>1 DEF Writes
<1>8. ASSUME NEW k \in e[1]..e[2], Len(p[k].out) = 1, p[k].out[1] = p[j].out[1] PROVE k = j
  <2>1. k \in Defs(p, e[1], e[2], p[j].out[1])
    BY <1>7, <1>8 DEF Defs
  <2> QED BY <1>2, <2>1
<1>9. ASSUME NEW n \in 1..Len(p[j].args), NEW k \in e[1]..e[2], Len(p[k].out) = 1
      PROVE  p[k].out[1] # p[j].args[n]
  <2>1. p[j].args[n] \in ToSet(p[j].args)
    <3>1. p[j].args \in Seq(Names)
      BY <1>5 DEF Shapes
    <3>2. n \in DOMAIN p[j].args
      BY <3>1
    <3> QED BY <3>2 DEF ToSet
  <2>2. Defs(p, e[1], e[2], p[j].args[n]) = {}
    BY <1>2, <2>1
  <2>3. ~Writes(p[k], p[j].args[n])
    BY <2>2 DEF Defs
  <2> QED BY <1>7, <1>9, <2>3
<1>10. ASSUME NEW n \in 1..Len(p[j].args) PROVE p[j].args[n] \notin Outs(p, e)
  <2>1. ASSUME NEW k \in Invariant(p, e) PROVE p[k].out[1] # p[j].args[n]
    <3>1. k \in e[1]..e[2] /\ k \in 1..Len(p) /\ p[k].op \in Arith
      BY <1>1 DEF Invariant, Arith
    <3>2. IsCommand(p[k])
      BY <3>1 DEF WellMade
    <3>3. Len(p[k].out) = 1
      BY <3>1, <3>2, ArgCount
    <3> QED BY <1>9, <3>1, <3>3
  <2> QED BY <2>1 DEF Outs
<1> QED BY <1>2, <1>3, <1>4, <1>5, <1>6, <1>8, <1>9, <1>10

\* A value stays computed while it and what it was computed from do.
LEMMA HeldKept ==
  ASSUME NEW m, NEW n, NEW c, Held(m, c), Agree(m.env, n.env, c.out[1]),
         \A k \in 1..Len(c.args) : Agree(m.env, n.env, c.args[k])
  PROVE  Held(n, c)
<1>1. \A k \in 1..Len(c.args) : Val(m, literals, c.args[k]) = Val(n, literals, c.args[k])
  BY DEF Val, Agree
<1>2. Operands(m, c, literals) = Operands(n, c, literals)
  BY <1>1 DEF Operands
<1> QED BY <1>2 DEF Held, Agree

\* What a pure command does.
LEMMA ArithStep ==
  ASSUME NEW m, NEW q, NEW lits, NEW c, q[m.pc] = c, c.op \in Arith
  PROVE  LET n == Executed(m, q, lits)
         IN /\ n.pc = m.pc + 1 /\ n.mem = m.mem /\ n.result = m.result
            /\ n.trace = m.trace \o << >>
            /\ n.env = Put(m.env, c.out[1], Computed(c.op, Operands(m, c, lits)))
<1> DEFINE n == Executed(m, q, lits)
           x == Operands(m, c, lits)
<1>1. /\ n.pc = PcAfter(m, q, x) /\ n.env = EnvAfter(m, c, x)
      /\ n.mem = IF c.op = "store" THEN Put(m.mem, x[1], x[2]) ELSE m.mem
      /\ n.trace = m.trace \o Access(m, c, x)
      /\ n.result = IF c.op = "return" THEN <<x[1]>> ELSE m.result
  BY DEF Executed
<1> HIDE DEF n, x
<1>2. c.op \notin Jumps /\ c.op \notin {"store", "return", "read", "call"}
  BY DEF Arith, Jumps
<1>3. PcAfter(m, q, x) = m.pc + 1
  BY <1>2 DEF PcAfter
<1>4. Access(m, c, x) = << >>
  BY <1>2 DEF Access
<1>5. EnvAfter(m, c, x) = Put(m.env, c.out[1], Computed(c.op, x))
  BY DEF EnvAfter, Arith
<1> QED BY <1>1, <1>2, <1>3, <1>4, <1>5 DEF n, x

\* The place of a hoisted value after the commands in front of the loop.
LEMMA HoistedRun ==
  ASSUME NEW p, WellMade(p), NEW e \in BackEdges(p),
         NEW M, NEW rs, NEW rr, HoistPlaces(p, e, M, rs, rr), NEW in,
         NEW s, NEW t, Alike(s, t, {}), t.pc = e[1], ~Halted(t), t.trace \in Seq(Accesses),
         NEW k0 \in Nat, Reaches(HoistedFrom(p, e), literals, in, k0, t)
  PROVE  \E k \in Nat : \E u :
           /\ Reaches(HoistedFrom(p, e), literals, in, k, u) /\ u.pc = e[1] + M
           /\ Alike(s, u, Outs(p, e)) /\ ~Halted(u)
           /\ \A j \in Invariant(p, e) : Held(u, p[j])
<1> DEFINE q == HoistedFrom(p, e)
           S == Invariant(p, e)
           V == Outs(p, e)
           Good == { m \in 0..M : \E k \in Nat : \E u :
                       /\ Reaches(q, literals, in, k, u) /\ u.pc = e[1] + m
                       /\ Alike(s, u, V) /\ ~Halted(u) /\ u.trace \in Seq(Accesses)
                       /\ \A j \in S : rs[j] <= m => Held(u, p[j]) }
<1>1. /\ M \in Nat /\ \A j \in S : rs[j] \in 1..M /\ q[e[1] - 1 + rs[j]] = p[j]
      /\ \A m \in 1..M : \E j \in S : rs[j] = m
  BY DEF HoistPlaces
<1>2. e[1] \in Nat
  BY DEF BackEdges
<1>3. 0 \in Good
  <2>1. Alike(s, t, V)
    BY DEF Alike
  <2>2. \A j \in S : ~(rs[j] <= 0)
    BY <1>1
  <2>3. t.pc = e[1] + 0 /\ 0 \in 0..M
    BY <1>1, <1>2
  <2> HIDE DEF q, S, V
  <2>4. Reaches(q, literals, in, k0, t)
    BY DEF q
  <2> QED BY <2>1, <2>2, <2>3, <2>4
<1>4. ASSUME NEW m \in 1..M, m - 1 \in Good PROVE m \in Good
  <2>1. PICK k \in Nat : \E u :
               /\ Reaches(q, literals, in, k, u) /\ u.pc = e[1] + (m - 1)
               /\ Alike(s, u, V) /\ ~Halted(u) /\ u.trace \in Seq(Accesses)
               /\ \A j \in S : rs[j] <= m - 1 => Held(u, p[j])
    BY <1>4
  <2>2. PICK u : /\ Reaches(q, literals, in, k, u) /\ u.pc = e[1] + (m - 1)
                 /\ Alike(s, u, V) /\ ~Halted(u) /\ u.trace \in Seq(Accesses)
                 /\ \A j \in S : rs[j] <= m - 1 => Held(u, p[j])
    BY <2>1
  <2>3. PICK i \in S : rs[i] = m
    BY <1>1
  <2> DEFINE c == p[i]
             w == Executed(u, q, literals)
             x == Computed(c.op, Operands(u, c, literals))
  <2>4. q[u.pc] = c
    <3>1. u.pc = e[1] - 1 + rs[i]
      BY <1>2, <2>2, <2>3
    <3> QED BY <1>1, <3>1
  <2>5. /\ c.op \in Arith /\ c.out[1] \in V
        /\ \A n \in 1..Len(c.args) : c.args[n] \notin V
    BY HoistedCommand DEF Outs
  <2>6. /\ w.pc = u.pc + 1 /\ w.mem = u.mem /\ w.result = u.result
        /\ w.trace = u.trace \o << >> /\ w.env = Put(u.env, c.out[1], x)
    <3> HIDE DEF q, c
    <3> QED BY <2>4, <2>5, ArithStep
  <2> HIDE DEF w, q, V, x
  <2>7. w.trace = u.trace
    BY <2>2, <2>6
  <2>8. \A v : v # c.out[1] => Agree(u.env, w.env, v)
    BY <2>6 DEF Agree, Put
  <2>9. Alike(s, w, V)
    <3>1. ASSUME NEW v, v \notin V PROVE Agree(s.env, w.env, v)
      <4>1. Agree(s.env, u.env, v) /\ Agree(u.env, w.env, v)
        BY <2>2, <2>5, <2>8, <3>1 DEF Alike
      <4> QED BY <4>1 DEF Agree
    <3> QED BY <2>2, <2>6, <2>7, <3>1 DEF Alike
  <2>10. Held(w, c)
    <3>1. \A n \in 1..Len(c.args) : Val(u, literals, c.args[n]) = Val(w, literals, c.args[n])
      BY <2>5, <2>8 DEF Val, Agree
    <3>2. Operands(u, c, literals) = Operands(w, c, literals)
      BY <3>1 DEF Operands
    <3>3. c.out[1] \in DOMAIN w.env /\ w.env[c.out[1]] = x
      BY <2>6 DEF Put
    <3> QED BY <3>2, <3>3 DEF Held, x
  <2>11. ASSUME NEW j \in S, rs[j] <= m PROVE Held(w, p[j])
    <3>1. CASE p[j].out[1] = c.out[1]
      <4>1. j = i
        <5>1. j \in e[1]..e[2] /\ Len(p[j].out) = 1
          BY HoistedCommand
        <5>2. \A k1 \in e[1]..e[2] : Len(p[k1].out) = 1 /\ p[k1].out[1] = p[i].out[1] => k1 = i
          BY HoistedCommand
        <5> QED BY <3>1, <5>1, <5>2
      <4> QED BY <2>10, <4>1
    <3>2. CASE p[j].out[1] # c.out[1]
      <4>1. rs[j] <= m - 1
        <5>1. rs[j] # m
          <6>1. rs[j] \in Nat /\ q[e[1] - 1 + rs[j]] = p[j] /\ q[e[1] - 1 + rs[i]] = p[i]
            BY <1>1, <2>3
          <6> QED BY <2>3, <3>2, <6>1
        <5> QED BY <1>1, <2>11, <5>1
      <4>2. Held(u, p[j])
        BY <2>2, <4>1
      <4>3. \A n \in 1..Len(p[j].args) : p[j].args[n] # c.out[1]
        BY <2>5, HoistedCommand DEF V
      <4> QED BY <2>8, <3>2, <4>2, <4>3, HeldKept
    <3> QED BY <3>1, <3>2
  <2>12. Reaches(q, literals, in, k + 1, w) /\ k + 1 \in Nat
    BY <2>2, ReachStep DEF w
  <2>13. w.pc = e[1] + m /\ ~Halted(w) /\ m \in 0..M
    <3>1. w.pc = e[1] + m
      BY <1>2, <2>2, <2>6
    <3> QED BY <2>2, <2>6, <3>1 DEF Halted
  <2> HIDE DEF S
  <2> QED BY <2>2, <2>7, <2>9, <2>11, <2>12, <2>13
<1>5. M \in Good
  <2>1. 0..M \subseteq Good
    <3> HIDE DEF Good
    <3> QED BY <1>1, <1>3, <1>4, UpTo
  <2> QED BY <1>1, <2>1
<1>6. PICK k \in Nat : \E u :
         /\ Reaches(q, literals, in, k, u) /\ u.pc = e[1] + M
         /\ Alike(s, u, V) /\ ~Halted(u) /\ u.trace \in Seq(Accesses)
         /\ \A j \in S : rs[j] <= M => Held(u, p[j])
  BY <1>5
<1>7. \A j \in S : rs[j] <= M
  BY <1>1
<1> QED BY <1>6, <1>7

-----------------------------------------------------------------------------
(***************************************************************************)
(* The list after a round does what the list before it does.  The machines *)
(* are at the same place outside of the loop; in it the one is where the   *)
(* command of the other has gone.                                          *)
(***************************************************************************)
\* Nothing in the body reads a value that is hoisted before it is computed.
SafeHoist(p, e) ==
  \A j \in Invariant(p, e) : \A i \in e[1] + 1 .. j : p[j].out[1] \notin ToSet(p[i].args)

Outside(p, e, s, t) == s.pc \notin e[1] + 1 .. e[2] /\ t.pc = s.pc /\ Alike(s, t, {})

Inside(p, e, M, rr, s, t) ==
  /\ s.pc \in e[1]..e[2]
  /\ t.pc = IF s.pc = e[1] THEN e[1] + M ELSE e[1] + M + 1 + rr[s.pc - 1]
  /\ Alike(s, t, Later(p, e, s.pc))
  /\ \A j \in Invariant(p, e) : Held(t, p[j])

Loops(p, e) ==
  e \in BackEdges(p) /\ HoistableLoop(p, e) /\ SafeHoist(p, e)

\* A label outside of the body and where it stands.
Lasts(p, e, l, j) ==
  /\ At(p, l) = {j} /\ j \notin e[1]..e[2] /\ At(HoistedFrom(p, e), l) = {j}

\* A jump outside of the loop goes to a place outside of it.
LEMMA OuterJump ==
  ASSUME NEW p, WellMade(p), NEW e, Loops(p, e), WellMade(HoistedFrom(p, e)),
         NEW M, NEW rs, NEW rr, HoistPlaces(p, e, M, rs, rr),
         NEW k \in 1..Len(p), k \notin e[1]..e[2], p[k].op \in Jumps
  PROVE  \E j \in 1..Len(p) : Lasts(p, e, p[k].label, j)
<1> DEFINE l == p[k].label
           q == HoistedFrom(p, e)
<1>1. PICK j \in 1..Len(p) : At(p, l) = {j}
  BY JumpTo
<1>2. p[j].op = "label" /\ p[j].label = l
  BY <1>1 DEF At
<1>3. /\ e[1] \in 1..Len(p) /\ e[2] \in 1..Len(p) /\ e[1] < e[2] /\ Len(p) \in Nat
      /\ \E l1 \in Targets(p[e[2]]) : e[1] \in At(p, l1)
  BY DEF Loops, BackEdges, WellMade
<1>4. p[e[2]].op \in Jumps /\ e[1] \in At(p, p[e[2]].label)
  BY <1>3 DEF Targets
<1>5. j # e[2]
  BY <1>2, <1>4 DEF Jumps
<1>6. j \notin e[1] + 1 .. e[2] - 1
  BY <1>2 DEF Loops, HoistableLoop, SingleBlock
<1>7. j # e[1]
  <2> SUFFICES ASSUME j = e[1] PROVE FALSE
    OBVIOUS
  <2> DEFINE T == { i \in 1..Len(p) : l \in Targets(p[i]) }
  <2>1. p[e[1]].label = l /\ p[e[2]].label = l
    <3>1. p[e[1]].label = p[e[2]].label
      BY <1>4 DEF At
    <3> QED BY <1>2, <3>1
  <2>2. Cardinality(T) = 1
    BY <2>1 DEF Loops, HoistableLoop, Incoming
  <2>3. k \in T /\ e[2] \in T /\ k # e[2]
    BY <1>3, <1>4, <2>1 DEF Targets
  <2>4. IsFiniteSet(T)
    <3>1. IsFiniteSet(1..Len(p)) /\ T \subseteq 1..Len(p)
      BY <1>3, FS_Interval
    <3> HIDE DEF T
    <3> QED BY <3>1, FS_Subset
  <2> HIDE DEF T
  <2>5. \E x : T = {x}
    BY <2>2, <2>4, FS_Singleton
  <2> QED BY <2>3, <2>5
<1>8. q[j] = p[j] /\ j \in 1..Len(q) /\ Len(q) = Len(p)
  <2>1. j < e[1] \/ e[2] <= j
    BY <1>3, <1>5, <1>6, <1>7
  <2> QED BY <2>1 DEF HoistPlaces
<1>9. q[k] = p[k] /\ k \in 1..Len(q)
  <2>1. k < e[1] \/ e[2] <= k
    BY <1>3
  <2> QED BY <1>8, <2>1 DEF HoistPlaces
<1>10. At(q, l) = {j}
  <2> HIDE DEF q
  <2>1. PICK g \in 1..Len(q) : At(q, l) = {g}
    <3>1. k \in 1..Len(q) /\ q[k].op \in Jumps /\ q[k].label = l /\ WellMade(q)
      BY <1>9 DEF q
    <3> HIDE DEF l
    <3> QED BY <3>1, JumpTo
  <2>2. j \in At(q, l)
    BY <1>2, <1>8 DEF At
  <2> QED BY <2>1, <2>2
<1>11. j \notin e[1]..e[2]
  BY <1>3, <1>5, <1>6, <1>7
<1> QED BY <1>1, <1>10, <1>11 DEF Lasts

LEMMA SameStep ==
  ASSUME NEW m, NEW n, Alike(m, n, {}), NEW lits, NEW p, NEW q, NEW c,
         p[m.pc] = c, q[n.pc] = c, IsCommand(c)
  PROVE  /\ Alike(Executed(m, p, lits), Executed(n, q, lits), {})
         /\ Executed(m, p, lits).pc = PcAfter(m, p, Operands(m, c, lits))
         /\ Executed(n, q, lits).pc = PcAfter(n, q, Operands(m, c, lits))
<1> DEFINE V == {}
<1>1. Alike(m, n, V)
  OBVIOUS
<1>3. \A k \in 1..Len(c.args) : c.args[k] \notin V
  OBVIOUS
<1> HIDE DEF V
<1>2. Alike(Executed(m, p, lits), Executed(n, q, lits), V)
  BY <1>1, <1>3, AlikeStep
<1>4. /\ Executed(m, p, lits).pc = PcAfter(m, p, Operands(m, c, lits))
      /\ Executed(n, q, lits).pc = PcAfter(n, q, Operands(m, c, lits))
  BY <1>1, <1>3, AlikeStep
<1> QED BY <1>2, <1>4 DEF V

\* Outside of the loop the machines do the same.
LEMMA OuterStep ==
  ASSUME NEW p, WellMade(p), NEW e, Loops(p, e), WellMade(HoistedFrom(p, e)),
         NEW M, NEW rs, NEW rr, HoistPlaces(p, e, M, rs, rr),
         NEW s, NEW t, Outside(p, e, s, t), s.pc # e[1], s.pc \in 1..Len(p)
  PROVE  Outside(p, e, Executed(s, p, literals), Executed(t, HoistedFrom(p, e), literals))
<1> DEFINE k == s.pc
           c == p[k]
           q == HoistedFrom(p, e)
           x == Operands(s, c, literals)
           n == Executed(s, p, literals)
           m == Executed(t, q, literals)
<1>1. /\ e[1] \in 1..Len(p) /\ e[2] \in 1..Len(p) /\ e[1] < e[2] /\ Len(p) \in Nat
  BY DEF Loops, BackEdges, WellMade
<1>2. k < e[1] \/ e[2] < k
  BY <1>1 DEF Outside
<1>3. t.pc = k /\ q[k] = c /\ Alike(s, t, {})
  BY <1>1, <1>2 DEF Outside, HoistPlaces
<1>4. IsCommand(c)
  BY DEF WellMade
<1>5. /\ Alike(n, m, {}) /\ n.pc = PcAfter(s, p, x) /\ m.pc = PcAfter(t, q, x)
  <2>1. p[s.pc] = c /\ q[t.pc] = c
    BY <1>3
  <2> HIDE DEF c, q, k
  <2>3. /\ Alike(Executed(s, p, literals), Executed(t, q, literals), {})
        /\ Executed(s, p, literals).pc = PcAfter(s, p, Operands(s, c, literals))
        /\ Executed(t, q, literals).pc = PcAfter(t, q, Operands(s, c, literals))
    BY <1>3, <1>4, <2>1, SameStep
  <2> QED BY <2>3
<1> HIDE DEF n, m, x
<1>6. CASE c.op \in Jumps /\ Taken(c.op, x)
  <2>1. PICK j \in 1..Len(p) : Lasts(p, e, c.label, j)
    <3>1. k \in 1..Len(p) /\ k \notin e[1]..e[2] /\ p[k].op \in Jumps
      BY <1>1, <1>2, <1>6
    <3> QED BY <3>1, OuterJump
  <2>2. PcAfter(s, p, x) = j /\ PcAfter(t, q, x) = j
    <3>1. /\ p[s.pc].op \in Jumps /\ Taken(p[s.pc].op, x) /\ At(p, p[s.pc].label) = {j}
          /\ q[t.pc].op \in Jumps /\ Taken(q[t.pc].op, x) /\ At(q, q[t.pc].label) = {j}
      BY <1>3, <1>6, <2>1 DEF Lasts
    <3> QED BY <3>1, JumpsThere
  <2>3. j \notin e[1] + 1 .. e[2]
    BY <1>1, <2>1 DEF Lasts
  <2> QED BY <1>5, <2>2, <2>3 DEF Outside, n, m
<1>7. CASE c.op = "return"
  <2>1. PcAfter(s, p, x) = k /\ PcAfter(t, q, x) = k
    BY <1>3, <1>7 DEF PcAfter, Jumps
  <2>2. k \notin e[1] + 1 .. e[2]
    BY DEF Outside
  <2> QED BY <1>5, <2>1, <2>2 DEF Outside, n, m
<1>8. CASE ~(c.op \in Jumps /\ Taken(c.op, x)) /\ c.op # "return"
  <2>1. PcAfter(s, p, x) = k + 1 /\ PcAfter(t, q, x) = k + 1
    BY <1>3, <1>8 DEF PcAfter
  <2>2. k + 1 \notin e[1] + 1 .. e[2]
    BY <1>1, <1>2
  <2> QED BY <1>5, <2>1, <2>2 DEF Outside, n, m
<1> QED BY <1>6, <1>7, <1>8

LEMMA LaterNext ==
  ASSUME NEW p, NEW e \in BackEdges(p), NEW i \in e[1]..e[2]
  PROVE  /\ i \notin Invariant(p, e) => Later(p, e, i + 1) = Later(p, e, i)
         /\ \A v \in Later(p, e, i) : v \in Later(p, e, i + 1) \/ (i \in Invariant(p, e) /\ v = p[i].out[1])
         /\ Later(p, e, i) \subseteq Outs(p, e) /\ Later(p, e, e[2]) = {}
         /\ Outs(p, e) = Later(p, e, e[1])
<1>1. e[1] \in Nat /\ e[2] \in Nat /\ i \in Nat
  BY DEF BackEdges
<1>2. \A k \in Invariant(p, e) : k \in Nat /\ e[1] <= k /\ ~(e[2] <= k)
  BY <1>1 DEF Invariant
<1>3. \A k \in Invariant(p, e) : i <= k <=> k = i \/ i + 1 <= k
  BY <1>1, <1>2
<1> QED BY <1>2, <1>3 DEF Later, Outs

\* A command that was hoisted is run by the one machine; the other has done so.
LEMMA InnerWaits ==
  ASSUME NEW p, WellMade(p), NEW e, Loops(p, e),
         NEW M, NEW rs, NEW rr, HoistPlaces(p, e, M, rs, rr),
         NEW s, NEW t, Inside(p, e, M, rr, s, t), s.pc \in Invariant(p, e),
         s.trace \in Seq(Accesses)
  PROVE  Inside(p, e, M, rr, Executed(s, p, literals), t)
<1> DEFINE i == s.pc
           c == p[i]
           x == Computed(c.op, Operands(s, c, literals))
           n == Executed(s, p, literals)
<1>1. e \in BackEdges(p) /\ e[1] \in Nat /\ e[2] \in Nat /\ Len(p) \in Nat
  BY DEF Loops, BackEdges, WellMade
<1>2. /\ i \in e[1] + 1 .. e[2] - 1 /\ i \in 1..Len(p) /\ i \in e[1]..e[2] /\ c.op \in Arith
      /\ \A k \in 1..Len(c.args) : c.args[k] \notin Outs(p, e)
  BY <1>1, HoistedCommand
<1>3. /\ n.pc = s.pc + 1 /\ n.mem = s.mem /\ n.result = s.result
      /\ n.trace = s.trace \o << >> /\ n.env = Put(s.env, c.out[1], x)
  <2>1. p[s.pc] = c
    OBVIOUS
  <2> HIDE DEF c
  <2> QED BY <1>2, <2>1, ArithStep
<1>4. Operands(s, c, literals) = Operands(t, c, literals)
  <2>1. Alike(s, t, Outs(p, e))
    <3>1. Later(p, e, i) \subseteq Outs(p, e)
      BY <1>1, <1>2, LaterNext
    <3> QED BY <3>1 DEF Inside, Alike
  <2> HIDE DEF c
  <2> QED BY <1>2, <2>1, AlikeOperands
<1>5. c.out[1] \in DOMAIN t.env /\ t.env[c.out[1]] = x
  BY <1>4 DEF Inside, Held
<1> HIDE DEF n, x
<1>6. n.trace = s.trace
  BY <1>3
<1>7. Alike(n, t, Later(p, e, i + 1))
  <2>1. ASSUME NEW v, v \notin Later(p, e, i + 1) PROVE Agree(n.env, t.env, v)
    <3>1. CASE v = c.out[1]
      BY <1>3, <1>5, <3>1 DEF Agree, Put
    <3>2. CASE v # c.out[1]
      <4>1. v \notin Later(p, e, i)
        BY <1>1, <1>2, <2>1, <3>2, LaterNext
      <4>2. Agree(s.env, t.env, v)
        BY <4>1 DEF Inside, Alike
      <4> QED BY <1>3, <3>2, <4>2 DEF Agree, Put
    <3> QED BY <3>1, <3>2
  <2> QED BY <1>3, <1>6, <2>1 DEF Inside, Alike
<1>8. n.pc \in e[1]..e[2] /\ n.pc # e[1] /\ n.pc - 1 = i /\ s.pc # e[1]
  BY <1>1, <1>2, <1>3
<1>9. rr[i] = rr[i - 1]
  <2>1. i \notin Rest(p, e)
    BY DEF Rest
  <2> QED BY <1>2, <2>1 DEF HoistPlaces
<1>10. t.pc = e[1] + M + 1 + rr[n.pc - 1]
  BY <1>8, <1>9 DEF Inside
<1> QED BY <1>3, <1>7, <1>8, <1>10 DEF Inside, n

\* What was hoisted stays computed in the loop.
LEMMA HeldInside ==
  ASSUME NEW p, WellMade(p), NEW e, Loops(p, e),
         NEW i \in e[1]..e[2], i \notin Invariant(p, e), i \in 1..Len(p),
         NEW q, NEW t, q[t.pc] = p[i],
         NEW j \in Invariant(p, e), Held(t, p[j])
  PROVE  Held(Executed(t, q, literals), p[j])
<1> DEFINE c == p[i]
           x == Operands(t, c, literals)
           n == Executed(t, q, literals)
<1>1. e \in BackEdges(p)
  BY DEF Loops
<1>2. n.env = EnvAfter(t, c, x)
  BY DEF Executed
<1>3. IsCommand(c) /\ c.op # "call"
  BY DEF WellMade, Loops, HoistableLoop
<1>4. j # i
  OBVIOUS
<1>5. /\ \A k \in e[1]..e[2] : Len(p[k].out) = 1 /\ p[k].out[1] = p[j].out[1] => k = j
      /\ \A n1 \in 1..Len(p[j].args) : \A k \in e[1]..e[2] :
           Len(p[k].out) = 1 => p[k].out[1] # p[j].args[n1]
  BY <1>1, HoistedCommand
<1>6. c.op \in Arith \cup {"read"} =>
        /\ c.out[1] # p[j].out[1]
        /\ \A n1 \in 1..Len(p[j].args) : c.out[1] # p[j].args[n1]
  <2>1. c.op \in Arith \cup {"read"} => Len(c.out) = 1
    BY <1>3, ArgCount
  <2> QED BY <1>4, <1>5, <2>1
<1> HIDE DEF n, x
<1>7. \/ n.env = t.env
      \/ c.op \in Arith \cup {"read"} /\ \E y : n.env = Put(t.env, c.out[1], y)
  <2>1. CASE c.op \in Arith
    <3>1. n.env = Put(t.env, c.out[1], Computed(c.op, x))
      BY <1>2, <2>1 DEF EnvAfter, Arith
    <3> QED BY <2>1, <3>1
  <2>2. CASE c.op = "read"
    <3>1. n.env = Put(t.env, c.out[1], Cell(t, x[1]))
      BY <1>2, <2>2 DEF EnvAfter, Arith
    <3> QED BY <2>2, <3>1
  <2>3. CASE c.op \notin Arith \cup {"read", "call"}
    BY <1>2, <2>3 DEF EnvAfter
  <2> QED BY <1>3, <2>1, <2>2, <2>3
<1>8. /\ Agree(t.env, n.env, p[j].out[1])
      /\ \A k \in 1..Len(p[j].args) : Agree(t.env, n.env, p[j].args[k])
  <2>1. CASE n.env = t.env
    BY <2>1 DEF Agree
  <2>2. CASE c.op \in Arith \cup {"read"} /\ \E y : n.env = Put(t.env, c.out[1], y)
    BY <1>6, <2>2 DEF Agree, Put
  <2> QED BY <1>7, <2>1, <2>2
<1>9. Held(n, p[j])
  BY <1>8, HeldKept
<1> QED BY <1>9 DEF n

\* The label, and a command that stays in the loop, are run by both.
LEMMA InnerStep ==
  ASSUME NEW p, WellMade(p), NEW e, Loops(p, e),
         NEW M, NEW rs, NEW rr, HoistPlaces(p, e, M, rs, rr),
         NEW s, NEW t, Inside(p, e, M, rr, s, t),
         s.pc \notin Invariant(p, e), s.pc # e[2]
  PROVE  Inside(p, e, M, rr, Executed(s, p, literals), Executed(t, HoistedFrom(p, e), literals))
<1> DEFINE i == s.pc
           c == p[i]
           q == HoistedFrom(p, e)
           x == Operands(s, c, literals)
           n == Executed(s, p, literals)
           m == Executed(t, q, literals)
           V == Later(p, e, i)
<1>1. /\ e \in BackEdges(p) /\ e[1] \in 1..Len(p) /\ e[2] \in 1..Len(p) /\ e[1] < e[2]
      /\ Len(p) \in Nat /\ e[1] \in Nat /\ e[2] \in Nat
  BY DEF Loops, BackEdges, WellMade
<1>2. i \in e[1]..e[2] /\ i # e[2] /\ i \in 1..Len(p) /\ i \in Nat
  BY <1>1 DEF Inside
<1>3. IsCommand(c) /\ c \in Shapes
  BY <1>2 DEF WellMade
<1>4. /\ rr[e[1]] = 0 /\ M \in Nat /\ q[e[1] + M] = p[e[1]]
      /\ \A k \in 0..Len(p) : rr[k] \in Nat
      /\ \A k \in 1..Len(p) : rr[k] = IF k \in Rest(p, e) THEN rr[k - 1] + 1 ELSE rr[k - 1]
      /\ \A j \in Rest(p, e) : q[e[1] + M + rr[j]] = p[j]
  BY DEF HoistPlaces
<1>5. i # e[1] => i \in Rest(p, e) /\ rr[i] = rr[i - 1] + 1 /\ rr[i - 1] \in Nat
  <2>1. i # e[1] => i \in Rest(p, e)
    BY <1>1, <1>2 DEF Rest
  <2>2. i - 1 \in 0..Len(p)
    BY <1>1, <1>2
  <2> QED BY <1>2, <1>4, <2>1, <2>2
<1>6. q[t.pc] = c
  <2>1. CASE i = e[1]
    BY <1>4, <2>1 DEF Inside
  <2>2. CASE i # e[1]
    <3>1. t.pc = e[1] + M + 1 + rr[i - 1]
      BY <2>2 DEF Inside
    <3>2. t.pc = e[1] + M + rr[i]
      BY <1>1, <1>4, <1>5, <2>2, <3>1
    <3> QED BY <1>4, <1>5, <2>2, <3>2
  <2> QED BY <2>1, <2>2
<1>7. c.op \notin Jumps /\ (i = e[1] => c.op = "label")
  <2>1. CASE i = e[1]
    <3>1. c.op = "label"
      BY <1>1, <2>1 DEF BackEdges, At
    <3> QED BY <3>1 DEF Jumps
  <2>2. CASE i # e[1]
    <3>1. i \in e[1] + 1 .. e[2] - 1
      BY <1>1, <1>2, <2>2
    <3>2. Targets(c) = {}
      BY <3>1 DEF Loops, HoistableLoop, SingleBlock
    <3> QED BY <2>2, <3>2 DEF Targets
  <2> QED BY <2>1, <2>2
<1>8. \A k \in 1..Len(c.args) : c.args[k] \notin V
  <2>1. CASE i = e[1]
    <3>1. Len(c.args) = 0
      BY <1>3, <1>7, <2>1 DEF IsCommand, Arity
    <3> QED BY <3>1
  <2>2. CASE i # e[1]
    <3> SUFFICES ASSUME NEW k \in 1..Len(c.args), c.args[k] \in V PROVE FALSE
      OBVIOUS
    <3>1. PICK j \in Invariant(p, e) : i <= j /\ c.args[k] = p[j].out[1]
      BY DEF Later
    <3>2. i \in e[1] + 1 .. j
      <4>1. j \in Nat
        BY <1>1 DEF Invariant
      <4> QED BY <1>1, <1>2, <2>2, <3>1, <4>1
    <3>3. c.args[k] \in ToSet(c.args)
      <4>1. c.args \in Seq(Names)
        BY <1>3 DEF Shapes
      <4>2. k \in DOMAIN c.args
        BY <4>1
      <4> QED BY <4>2 DEF ToSet
    <3> QED BY <3>1, <3>2, <3>3 DEF Loops, SafeHoist
  <2> QED BY <2>1, <2>2
<1>9. /\ Alike(n, m, V) /\ n.pc = PcAfter(s, p, x) /\ m.pc = PcAfter(t, q, x)
  <2>1. p[s.pc] = c /\ q[t.pc] = c
    BY <1>6
  <2>3. Alike(s, t, V)
    BY DEF Inside
  <2>4. IsCommand(c)
    BY <1>3
  <2> HIDE DEF c, q, i, V
  <2>2. Alike(Executed(s, p, literals), Executed(t, q, literals), V)
    BY <1>8, <2>1, <2>3, <2>4, AlikeStep
  <2>5. /\ Executed(s, p, literals).pc = PcAfter(s, p, Operands(s, c, literals))
        /\ Executed(t, q, literals).pc = PcAfter(t, q, Operands(s, c, literals))
    BY <1>8, <2>1, <2>3, <2>4, AlikeStep
  <2> QED BY <2>2, <2>5
<1>10. \A j \in Invariant(p, e) : Held(m, p[j])
  <2>1. i \notin Invariant(p, e) /\ \A j \in Invariant(p, e) : Held(t, p[j])
    BY DEF Inside
  <2> HIDE DEF i, q, m
  <2>2. q[t.pc] = p[i]
    BY <1>6
  <2>3. \A j \in Invariant(p, e) : Held(Executed(t, q, literals), p[j])
    BY <1>2, <2>1, <2>2, HeldInside
  <2> QED BY <2>3 DEF m
<1> HIDE DEF n, m, x
<1>11. CASE c.op = "return"
  <2>1. PcAfter(s, p, x) = s.pc /\ PcAfter(t, q, x) = t.pc
    BY <1>6, <1>11 DEF PcAfter, Jumps
  <2> QED BY <1>9, <1>10, <2>1 DEF Inside, n, m
<1>12. CASE c.op # "return"
  <2>1. PcAfter(s, p, x) = i + 1 /\ PcAfter(t, q, x) = t.pc + 1
    BY <1>6, <1>7, <1>12 DEF PcAfter
  <2>2. Later(p, e, i + 1) = Later(p, e, i)
    BY <1>1, <1>2, LaterNext
  <2>3. n.pc \in e[1]..e[2] /\ n.pc # e[1] /\ n.pc - 1 = i
    BY <1>1, <1>2, <1>9, <2>1
  <2>4. m.pc = e[1] + M + 1 + rr[i]
    <3>1. CASE i = e[1]
      BY <1>1, <1>4, <1>9, <2>1, <3>1 DEF Inside
    <3>2. CASE i # e[1]
      <4>1. t.pc = e[1] + M + 1 + rr[i - 1]
        BY <3>2 DEF Inside
      <4>2. m.pc = t.pc + 1 /\ rr[i] = rr[i - 1] + 1 /\ rr[i - 1] \in Nat
        BY <1>5, <1>9, <2>1, <3>2
      <4>3. M \in Nat /\ e[1] \in Nat
        BY <1>1, <1>4
      <4> QED BY <4>1, <4>2, <4>3
    <3> QED BY <3>1, <3>2
  <2>5. Alike(n, m, Later(p, e, n.pc))
    BY <1>9, <2>1, <2>2
  <2> QED BY <1>10, <2>3, <2>4, <2>5 DEF Inside, n, m
<1> QED BY <1>11, <1>12

\* The jump at the end of the body goes to the label, wherever that is.
Turns(p, e, M) ==
  /\ At(p, p[e[2]].label) = {e[1]}
  /\ At(HoistedFrom(p, e), p[e[2]].label) = {e[1] + M}

LEMMA TurnsBack ==
  ASSUME NEW p, WellMade(p), NEW e \in BackEdges(p), WellMade(HoistedFrom(p, e)),
         NEW M, NEW rs, NEW rr, HoistPlaces(p, e, M, rs, rr)
  PROVE  p[e[2]].op \in Jumps /\ Turns(p, e, M)
<1> DEFINE q == HoistedFrom(p, e)
           l == p[e[2]].label
           g == e[1] + M
<1>1. /\ e[1] \in 1..Len(p) /\ e[2] \in 1..Len(p) /\ e[1] < e[2] /\ Len(p) \in Nat
      /\ \E l1 \in Targets(p[e[2]]) : e[1] \in At(p, l1)
  BY DEF BackEdges, WellMade
<1>2. p[e[2]].op \in Jumps /\ e[1] \in At(p, l)
  BY <1>1 DEF Targets
<1>3. p[e[1]].op = "label" /\ p[e[1]].label = l
  BY <1>2 DEF At
<1>4. At(p, l) = {e[1]}
  <2> DEFINE b == e[2]
  <2>1. b \in 1..Len(p) /\ p[b].op \in Jumps
    BY <1>1, <1>2
  <2> HIDE DEF b
  <2>2. PICK j \in 1..Len(p) : At(p, p[b].label) = {j}
    BY <2>1, JumpTo
  <2>3. At(p, l) = {j}
    BY <2>2 DEF b
  <2> QED BY <1>2, <2>3
<1>5. /\ M \in Nat /\ Len(q) = Len(p) /\ rr[e[2] - 1] \in Nat /\ g + 1 + rr[e[2] - 1] = e[2]
      /\ q[e[2]] = p[e[2]] /\ q[g] = p[e[1]]
  <2>1. e[2] - 1 \in 0..Len(p) /\ e[2] <= e[2]
    BY <1>1
  <2>2. /\ M \in Nat /\ Len(q) = Len(p) /\ e[1] + M + 1 + rr[e[2] - 1] = e[2] /\ q[g] = p[e[1]]
        /\ \A k \in 0..Len(p) : rr[k] \in Nat
        /\ \A i \in 1..Len(p) : i < e[1] \/ e[2] <= i => q[i] = p[i]
    BY DEF HoistPlaces
  <2> HIDE DEF q
  <2> QED BY <1>1, <2>1, <2>2
<1>6. g \in 1..Len(q)
  <2>1. e[1] \in Nat /\ 1 <= e[1] /\ e[2] \in Nat /\ e[2] <= Len(p) /\ Len(p) \in Nat
    BY <1>1
  <2>2. M \in Nat /\ Len(q) = Len(p) /\ rr[e[2] - 1] \in Nat /\ e[1] + M + 1 + rr[e[2] - 1] = e[2]
    BY <1>5
  <2> DEFINE a == e[1]
             b == e[2]
             r == rr[e[2] - 1]
             z == Len(p)
  <2>3. /\ a \in Nat /\ 1 <= a /\ b \in Nat /\ b <= z /\ z \in Nat /\ M \in Nat /\ r \in Nat
        /\ a + M + 1 + r = b
    BY <2>1, <2>2
  <2> HIDE DEF a, b, r, z, q
  <2>4. a + M \in 1..z
    BY <2>3
  <2> QED BY <2>2, <2>4 DEF a, z
<1>7. At(q, l) = {g}
  <2>1. g \in At(q, l)
    BY <1>3, <1>5, <1>6 DEF At
  <2> DEFINE b == e[2]
  <2>2. b \in 1..Len(q) /\ q[b].op \in Jumps /\ q[b].label = l /\ WellMade(q)
    BY <1>1, <1>2, <1>5
  <2> HIDE DEF b, q, g, l
  <2>3. PICK j \in 1..Len(q) : At(q, q[b].label) = {j}
    BY <2>2, JumpTo
  <2>4. At(q, l) = {j}
    BY <2>2, <2>3
  <2> QED BY <2>1, <2>4
<1> QED BY <1>2, <1>4, <1>7 DEF Turns

LEMMA InnerEnd ==
  ASSUME NEW p, WellMade(p), NEW e, Loops(p, e), WellMade(HoistedFrom(p, e)),
         NEW M, NEW rs, NEW rr, HoistPlaces(p, e, M, rs, rr),
         NEW s, NEW t, Inside(p, e, M, rr, s, t), s.pc = e[2]
  PROVE  \/ Inside(p, e, M, rr, Executed(s, p, literals), Executed(t, HoistedFrom(p, e), literals))
         \/ Outside(p, e, Executed(s, p, literals), Executed(t, HoistedFrom(p, e), literals))
<1> DEFINE b == e[2]
           c == p[b]
           q == HoistedFrom(p, e)
           x == Operands(s, c, literals)
           n == Executed(s, p, literals)
           m == Executed(t, q, literals)
<1>1. /\ e \in BackEdges(p) /\ e[1] \in 1..Len(p) /\ b \in 1..Len(p) /\ e[1] < b
      /\ Len(p) \in Nat /\ e[1] \in Nat /\ b \in Nat
  BY DEF Loops, BackEdges, WellMade
<1>2. c.op \in Jumps /\ Turns(p, e, M)
  BY <1>1, TurnsBack
<1>3. IsCommand(c)
  BY <1>1 DEF WellMade
<1>4. t.pc = b /\ q[t.pc] = c /\ p[s.pc] = c
  <2>1. t.pc = e[1] + M + 1 + rr[b - 1]
    BY <1>1 DEF Inside
  <2>2. /\ e[1] + M + 1 + rr[e[2] - 1] = e[2]
        /\ \A i \in 1..Len(p) : i < e[1] \/ e[2] <= i => q[i] = p[i]
    BY DEF HoistPlaces
  <2>3. q[b] = p[b]
    <3>1. b <= b
      BY <1>1
    <3> QED BY <1>1, <2>2, <3>1
  <2> QED BY <2>1, <2>2, <2>3
<1>5. Alike(s, t, {})
  <2>1. Later(p, e, b) = {}
    <3>1. b \in e[1]..e[2]
      BY <1>1
    <3> QED BY <1>1, <3>1, LaterNext
  <2> QED BY <2>1 DEF Inside
<1>6. Alike(n, m, {}) /\ n.pc = PcAfter(s, p, x) /\ m.pc = PcAfter(t, q, x)
  <2> HIDE DEF c, q
  <2>3. /\ Alike(Executed(s, p, literals), Executed(t, q, literals), {})
        /\ Executed(s, p, literals).pc = PcAfter(s, p, Operands(s, c, literals))
        /\ Executed(t, q, literals).pc = PcAfter(t, q, Operands(s, c, literals))
    BY <1>3, <1>4, <1>5, SameStep
  <2> QED BY <2>3
<1>7. \A j \in Invariant(p, e) : Held(m, p[j])
  <2>1. b \in e[1]..e[2] /\ b \notin Invariant(p, e)
    BY <1>1 DEF Invariant
  <2>2. \A j \in Invariant(p, e) : Held(t, p[j])
    BY DEF Inside
  <2> HIDE DEF b, q, m
  <2>3. q[t.pc] = p[b]
    BY <1>4
  <2>4. \A j \in Invariant(p, e) : Held(Executed(t, q, literals), p[j])
    BY <1>1, <2>1, <2>2, <2>3, HeldInside
  <2> QED BY <2>4 DEF m
<1> HIDE DEF n, m, x
<1>8. CASE Taken(c.op, x)
  <2>1. PcAfter(s, p, x) = e[1] /\ PcAfter(t, q, x) = e[1] + M
    <3> DEFINE g == e[1] + M
               a == e[1]
    <3>1. /\ p[s.pc].op \in Jumps /\ Taken(p[s.pc].op, x) /\ At(p, p[s.pc].label) = {a}
          /\ q[t.pc].op \in Jumps /\ Taken(q[t.pc].op, x) /\ At(q, q[t.pc].label) = {g}
      BY <1>2, <1>4, <1>8 DEF Turns
    <3> HIDE DEF g, a
    <3>2. PcAfter(s, p, x) = a
      BY ONLY <3>1, JumpsThere
    <3>3. PcAfter(t, q, x) = g
      BY ONLY <3>1, JumpsThere
    <3> QED BY <3>2, <3>3 DEF g, a
  <2>2. n.pc = e[1] /\ n.pc \in e[1]..e[2] /\ m.pc = e[1] + M
    BY <1>1, <1>6, <2>1
  <2>3. Alike(n, m, Later(p, e, n.pc))
    BY <1>6 DEF Alike
  <2>4. Inside(p, e, M, rr, n, m)
    BY <1>7, <2>2, <2>3 DEF Inside
  <2> QED BY <2>4 DEF n, m
<1>9. CASE ~Taken(c.op, x)
  <2>1. PcAfter(s, p, x) = b + 1 /\ PcAfter(t, q, x) = b + 1
    BY <1>2, <1>4, <1>9 DEF PcAfter, Jumps
  <2>2. n.pc = b + 1 /\ m.pc = b + 1 /\ b + 1 \notin e[1] + 1 .. e[2]
    BY <1>1, <1>6, <2>1
  <2>3. Outside(p, e, n, m)
    BY <1>6, <2>2 DEF Outside
  <2> QED BY <2>3 DEF n, m
<1> QED BY <1>8, <1>9

\* The list after the round does what the list before it does.
LEMMA HoistCovers ==
  ASSUME NEW p, Runnable(p), NEW e, Loops(p, e), Runnable(HoistedFrom(p, e)),
         Numbers(literals), IntegerCells, NEW in, Numbers(in)
  PROVE  Covers(HoistedFrom(p, e), p, literals, in)
<1> DEFINE q == HoistedFrom(p, e)
<1>1. WellMade(p) /\ WellMade(q) /\ e \in BackEdges(p)
  BY DEF Runnable, Loops
<1>2. PICK M, rs, rr : HoistPlaces(p, e, M, rs, rr)
  BY <1>1, HoistPlaced
<1> DEFINE Near(s, t) == Outside(p, e, s, t) \/ Inside(p, e, M, rr, s, t)
<1>3. ASSUME NEW n \in Nat, NEW s, Reaches(p, literals, in, n, s)
      PROVE  \E k \in Nat : \E t : /\ Reaches(q, literals, in, k, t)
                                   /\ t.trace = s.trace /\ t.result = s.result
  <2>1. PICK f : RunOf(p, literals, in, f, n) /\ f[n] = s
    BY <1>3 DEF Reaches
  <2>2. \A i \in 0..n : SoundMachine(f[i], p)
    BY <2>1, SoundReach
  <2> DEFINE Good == { i \in 0..n : \E k \in Nat : \E t : Reaches(q, literals, in, k, t) /\ Near(f[i], t) }
  <2>3. 0 \in Good
    <3>1. f[0] = Boot(in)
      BY <2>1 DEF RunOf
    <3>2. Reaches(q, literals, in, 0, Boot(in))
      BY ReachStart
    <3>3. Outside(p, e, Boot(in), Boot(in))
      <4>1. Alike(Boot(in), Boot(in), {})
        BY DEF Alike, Agree
      <4>2. Boot(in).pc = 1
        BY DEF Boot
      <4>3. e[1] \in 1..Len(p)
        BY <1>1 DEF BackEdges
      <4>4. 1 \notin e[1] + 1 .. e[2]
        BY <4>3
      <4> QED BY <4>1, <4>2, <4>4 DEF Outside
    <3> HIDE DEF q
    <3> QED BY <3>1, <3>2, <3>3
  <2>4. ASSUME NEW i \in 1..n, i - 1 \in Good PROVE i \in Good
    <3> DEFINE a == f[i - 1]
    <3>1. PICK k \in Nat : \E t : Reaches(q, literals, in, k, t) /\ Near(a, t)
      BY <2>4
    <3>2. PICK t : Reaches(q, literals, in, k, t) /\ Near(a, t)
      BY <3>1
    <3>3. i \in 0..n /\ i - 1 \in 0..n /\ ~Halted(a) /\ f[i] = Executed(a, p, literals)
      BY <2>1 DEF RunOf
    <3>4. a.trace \in Seq(Accesses) /\ a.pc \in 1..Len(p)
      BY <2>2, <3>3 DEF SoundMachine
    <3>5. ~Halted(t) /\ t.trace = a.trace
      BY <3>2, <3>3 DEF Near, Outside, Inside, Alike, Halted
    <3> HIDE DEF a, q
    <3> SUFFICES \E k1 \in Nat : \E t1 : Reaches(q, literals, in, k1, t1) /\ Near(f[i], t1)
      BY <3>3
    <3>6. ASSUME NEW k1 \in Nat, NEW u, Reaches(q, literals, in, k1, u), ~Halted(u),
                 Near(Executed(a, p, literals), u) \/ Near(Executed(a, p, literals), Executed(u, q, literals))
          PROVE  \E k2 \in Nat : \E t1 : Reaches(q, literals, in, k2, t1) /\ Near(f[i], t1)
      <4>1. Reaches(q, literals, in, k1 + 1, Executed(u, q, literals)) /\ k1 + 1 \in Nat
        BY <3>6, ReachStep
      <4> HIDE DEF Near
      <4> QED BY <3>3, <3>6, <4>1
    <3>7. CASE Outside(p, e, a, t) /\ a.pc # e[1]
      <4>1. Outside(p, e, Executed(a, p, literals), Executed(t, q, literals))
        BY <1>1, <1>2, <3>4, <3>7, OuterStep DEF q
      <4> QED BY <3>2, <3>5, <3>6, <4>1 DEF Near
    <3>8. ASSUME NEW k1 \in Nat, NEW u, Reaches(q, literals, in, k1, u), ~Halted(u),
                 Inside(p, e, M, rr, a, u)
          PROVE  \E k2 \in Nat : \E t1 : Reaches(q, literals, in, k2, t1) /\ Near(f[i], t1)
      <4>1. CASE a.pc \in Invariant(p, e)
        <5>1. Inside(p, e, M, rr, Executed(a, p, literals), u)
          BY <1>1, <1>2, <3>4, <3>8, <4>1, InnerWaits
        <5> QED BY <3>6, <3>8, <5>1 DEF Near
      <4>2. CASE a.pc \notin Invariant(p, e) /\ a.pc # e[2]
        <5>1. Inside(p, e, M, rr, Executed(a, p, literals), Executed(u, q, literals))
          BY <1>1, <1>2, <3>8, <4>2, InnerStep DEF q
        <5> QED BY <3>6, <3>8, <5>1 DEF Near
      <4>3. CASE a.pc = e[2]
        <5>1. \/ Inside(p, e, M, rr, Executed(a, p, literals), Executed(u, q, literals))
              \/ Outside(p, e, Executed(a, p, literals), Executed(u, q, literals))
          BY <1>1, <1>2, <3>8, <4>3, InnerEnd DEF q
        <5> QED BY <3>6, <3>8, <5>1 DEF Near
      <4> QED BY <4>1, <4>2, <4>3
    <3>9. CASE Outside(p, e, a, t) /\ a.pc = e[1]
      <4>1. Alike(a, t, {}) /\ t.pc = e[1] /\ t.trace \in Seq(Accesses)
        BY <3>4, <3>5, <3>9 DEF Outside
      <4>2. PICK k1 \in Nat : \E u :
              /\ Reaches(q, literals, in, k1, u) /\ u.pc = e[1] + M
              /\ Alike(a, u, Outs(p, e)) /\ ~Halted(u)
              /\ \A j \in Invariant(p, e) : Held(u, p[j])
        BY <1>1, <1>2, <3>2, <3>5, <4>1, HoistedRun DEF q
      <4>3. PICK u :
              /\ Reaches(q, literals, in, k1, u) /\ u.pc = e[1] + M
              /\ Alike(a, u, Outs(p, e)) /\ ~Halted(u)
              /\ \A j \in Invariant(p, e) : Held(u, p[j])
        BY <4>2
      <4>4. Inside(p, e, M, rr, a, u)
        <5>1. e[1] \in e[1]..e[2]
          BY <1>1 DEF BackEdges
        <5>2. Outs(p, e) = Later(p, e, a.pc)
          BY <1>1, <3>9, <5>1, LaterNext
        <5> QED BY <3>9, <4>3, <5>1, <5>2 DEF Inside
      <4> QED BY <3>8, <4>3, <4>4
    <3>10. CASE Inside(p, e, M, rr, a, t)
      BY <3>2, <3>5, <3>8, <3>10
    <3> QED BY <3>2, <3>7, <3>9, <3>10 DEF Near
  <2>5. n \in Good
    <3>1. 0..n \subseteq Good
      <4> HIDE DEF Good
      <4> QED BY <2>3, <2>4, UpTo
    <3> QED BY <3>1
  <2>6. PICK k \in Nat : \E t : Reaches(q, literals, in, k, t) /\ Near(f[n], t)
    BY <2>5
  <2> QED BY <2>1, <2>6 DEF Near, Outside, Inside, Alike
<1> QED BY <1>3 DEF Covers

-----------------------------------------------------------------------------
(***************************************************************************)
(* The passes together: identities, hoisting and fusion.                   *)
(***************************************************************************)
LEMMA SimplifyRunnable ==
  ASSUME NEW p, Runnable(p), WellMade(SimplifiedAll(p)), NoLiteralWritten(p)
  PROVE  Runnable(SimplifiedAll(p)) /\ NoLiteralWritten(SimplifiedAll(p))
<1> DEFINE q == SimplifiedAll(p)
<1>1. /\ p \in Seq(Shapes) /\ Len(p) \in Nat /\ Len(p) > 0 /\ Len(q) = Len(p)
      /\ p[Len(p)].op \in {"jump", "return"}
      /\ \A k \in 1..Len(p) : q[k] = Simplified(p[k]) /\ p[k] \in Shapes /\ IsCommand(p[k])
  BY DEF Runnable, WellMade, SimplifiedAll
<1> HIDE DEF q
<1>2. \A k \in 1..Len(p) : /\ q[k].out = p[k].out
                           /\ q[k] = p[k] \/ p[k].op \in {"add", "sub", "mul"}
  BY <1>1, SimplifiedCommand
<1>3. q[Len(q)].op \in {"jump", "return"}
  BY <1>1, <1>2
<1>4. NoLiteralWritten(q)
  BY <1>1, <1>2 DEF NoLiteralWritten
<1> QED BY <1>1, <1>3, <1>4 DEF Runnable, q

LEMMA FuseRunnable ==
  ASSUME NEW p, Runnable(p)
  PROVE  Runnable(Fused(p))
<1> DEFINE q == Fused(p)
           N == Len(p)
<1>1. WellMade(p) /\ N \in Nat /\ N > 0 /\ p[N].op \in {"jump", "return"} /\ N \in 1..N
  BY DEF Runnable, WellMade
<1>2. PICK r : FusePlaces(p, r)
  BY <1>1, FusePlaced
<1>3. N \in KeptPlaces(p)
  <2>1. ASSUME NEW h \in Heads(p), N - 1 = h PROVE FALSE
    <3>1. h + 1 = N /\ p[h + 1].op \in {"jz", "jnz"}
      BY <1>1, <2>1, HeadPlaces
    <3> QED BY <1>1, <3>1
  <2> QED BY <1>1, <2>1 DEF KeptPlaces, Heads
<1>4. N \notin Heads(p)
  BY <1>1, HeadPlaces
<1>5. q[r[N]] = p[N] /\ r[N] \in 1..Len(q)
  BY <1>1, <1>2, <1>3, <1>4, KeptCommand
<1>6. Len(q) = r[N]
  <2>1. Len(Rewritten(p)) = N
    BY <1>1 DEF Rewritten
  <2> QED BY <1>2, <2>1 DEF FusePlaces, Placed
<1>7. WellMade(q)
  BY <1>1, FuseKeeps
<1> QED BY <1>1, <1>5, <1>6, <1>7 DEF Runnable

\* A round of hoisting leaves commands that were there, and the last one last.
LEMMA HoistRunnable ==
  ASSUME NEW p, Runnable(p), NoLiteralWritten(p), NEW e \in BackEdges(p), WellMade(HoistedFrom(p, e))
  PROVE  Runnable(HoistedFrom(p, e)) /\ NoLiteralWritten(HoistedFrom(p, e))
<1> DEFINE q == HoistedFrom(p, e)
           S == Invariant(p, e)
           none == << >>
           P == p \o none
<1>1. /\ WellMade(p) /\ p \in Seq(Shapes) /\ Len(p) \in Nat /\ Len(p) > 0
      /\ p[Len(p)].op \in {"jump", "return"}
  BY DEF Runnable, WellMade
<1>2. PICK M, rs, rr : HoistPlaces(p, e, M, rs, rr)
  BY <1>1, HoistPlaced
<1>3. Len(q) = Len(p) /\ q[Len(q)] = p[Len(p)]
  <2>1. e[2] <= Len(p) /\ Len(p) \in 1..Len(p)
    BY <1>1 DEF BackEdges
  <2> QED BY <1>2, <2>1 DEF HoistPlaces
<1>4. PICK a \in 1..Len(p), b \in 1..Len(p) : e = <<a, b>> /\ a < b /\ e[1] = a /\ e[2] = b
  BY DEF BackEdges
<1>5. Part(q, P, 1..Len(P))
  <2>1. S \in SUBSET (a + 1 .. b - 1) /\ none \in Seq(Shapes) /\ Len(none) \in Nat
    BY <1>4 DEF Invariant
  <2>2. q = Preheader(p, e, S, none)
    BY DEF HoistedFrom
  <2> HIDE DEF q, S, none
  <2> QED BY <1>1, <1>4, <2>1, <2>2, PreheaderTakes
<1>6. P = p
  BY <1>1
<1>7. ASSUME NEW i \in 1..Len(q) PROVE \E k \in 1..Len(p) : q[i] = p[k]
  <2>1. 1..Len(p) \in SUBSET (1..Len(p)) /\ Part(q, p, 1..Len(p))
    BY <1>5, <1>6
  <2> HIDE DEF q, P
  <2> QED BY <2>1, PartEach
<1> HIDE DEF q
<1>8. NoLiteralWritten(q)
  BY <1>7 DEF NoLiteralWritten
<1>9. Runnable(q)
  BY <1>1, <1>3 DEF Runnable, q
<1> QED BY <1>8, <1>9 DEF q

\* If q covers p, what a run of q has done is what a run of p does.
LEMMA CoversSame ==
  ASSUME NEW p, NEW q, NEW in, Runnable(p), Runnable(q), Numbers(literals), Numbers(in),
         IntegerCells, Covers(q, p, literals, in),
         NEW n \in Nat, NEW s, Reaches(p, literals, in, n, s),
         NEW m \in Nat, NEW t, Reaches(q, literals, in, m, t)
  PROVE  /\ IsPrefix(t.trace, s.trace) \/ (~Halted(s) /\ IsPrefix(s.trace, t.trace))
         /\ Halted(s) /\ Halted(t) => t.result = s.result
<1>1. PICK k \in Nat : \E u : Reaches(q, literals, in, k, u) /\ u.trace = s.trace /\ u.result = s.result
  BY DEF Covers
<1>2. PICK u : Reaches(q, literals, in, k, u) /\ u.trace = s.trace /\ u.result = s.result
  BY <1>1
<1>3. PICK f : RunOf(q, literals, in, f, k) /\ f[k] = u
  BY <1>2 DEF Reaches
<1>4. PICK g : RunOf(q, literals, in, g, m) /\ g[m] = t
  BY DEF Reaches
<1>5. CASE m <= k
  <2>1. g[m] = f[m] /\ m \in 0..k /\ k \in m..k
    <3>1. \A i \in 0..m : g[i] = f[i]
      BY <1>3, <1>4, <1>5, RunsAgree
    <3> QED BY <1>5, <3>1
  <2>2. IsPrefix(t.trace, s.trace)
    <3>1. IsPrefix(f[m].trace, f[k].trace)
      BY <1>3, <2>1, TraceGrows
    <3> QED BY <1>2, <1>3, <1>4, <2>1, <3>1
  <2>3. ASSUME Halted(t) PROVE t = u
    <3>1. CASE m = k
      BY <1>3, <1>4, <2>1, <3>1
    <3>2. CASE m # k
      <4>1. m + 1 \in 1..k /\ (m + 1) - 1 = m
        BY <1>5, <3>2
      <4>2. ~Halted(f[m])
        BY <1>3, <4>1 DEF RunOf
      <4> QED BY <1>4, <2>1, <2>3, <4>2
    <3> QED BY <3>1, <3>2
  <2>4. Halted(t) => t.result = s.result
    BY <1>2, <2>3
  <2> QED BY <2>2, <2>4
<1>6. CASE ~(m <= k)
  <2>1. f[k] = g[k] /\ k \in 0..m /\ m \in k..m
    <3>1. k <= m
      BY <1>6
    <3>2. \A i \in 0..k : f[i] = g[i]
      BY <1>3, <1>4, <3>1, RunsAgree
    <3> QED BY <3>1, <3>2
  <2>2. IsPrefix(s.trace, t.trace)
    <3>1. IsPrefix(g[k].trace, g[m].trace)
      BY <1>4, <2>1, TraceGrows
    <3> QED BY <1>2, <1>3, <1>4, <2>1, <3>1
  <2>3. ~Halted(u)
    <3>1. k + 1 \in 1..m /\ (k + 1) - 1 = k
      BY <1>6
    <3>2. ~Halted(g[k])
      BY <1>4, <3>1 DEF RunOf
    <3> QED BY <1>3, <2>1, <3>2
  <2>4. ~Halted(s)
    BY <1>2, <2>3 DEF Halted
  <2> QED BY <2>2, <2>4
<1> QED BY <1>5, <1>6

\* The steps that reduce no address, and hoist no value above a command of the
\* loop that reads it.
SafeLoops == ~Reduce /\ (Hoist => SafeHoist(commands, Foremost(Hoists(commands))))

\* What the two machines have done is the beginning of one run each.
Running(q) ==
  /\ \E n \in Nat : Reaches(case.commands, literals, case.env, n, source)
  /\ \E n \in Nat : Reaches(q, literals, case.env, n, target)
  /\ phase \notin {"target", "done"} => target = Boot(case.env)
  /\ phase \notin {"source", "target", "done"} => source = Boot(case.env)

CoverInv ==
  /\ PassesInv
  /\ literals = case.literals /\ Numbers(case.env)
  /\ Runnable(case.commands) /\ Runnable(commands)
  /\ phase \in {"simplify", "hoist", "reduce", "fuse"} => NoLiteralWritten(commands)
  /\ IntegerCells => Covers(commands, case.commands, literals, case.env)
  /\ Running(commands)

LEMMA CoverInit == PassesInit => CoverInv
<1> SUFFICES ASSUME PassesInit PROVE CoverInv
  OBVIOUS
<1>1. PassesInv
  BY PassesInvInit
<1>2. /\ case \in Cases /\ commands = case.commands /\ literals = case.literals
      /\ phase = "simplify" /\ source = Boot(case.env) /\ target = Boot(case.env)
  BY DEF PassesInit
<1>3. Numbers(case.env)
  BY <1>2, CaseAssumption DEF Numbers
<1>4. Runnable(commands) /\ NoLiteralWritten(commands)
  <2>1. /\ Len(case.commands) > 0 /\ case.commands[Len(case.commands)].op \in {"jump", "return"}
        /\ \A k \in 1..Len(case.commands) : ToSet(case.commands[k].out) \cap DOMAIN case.literals = {}
    BY <1>2, CaseAssumption
  <2> QED BY <1>1, <1>2, <2>1 DEF PassesInv, Runnable, NoLiteralWritten
<1>5. Covers(commands, case.commands, literals, case.env)
  BY <1>2, CoversSelf
<1>6. Running(commands)
  BY <1>2, ReachStart DEF Running
<1> QED BY <1>1, <1>2, <1>3, <1>4, <1>5, <1>6 DEF CoverInv

\* A pass gives commands that cover the ones it gets.
LEMMA CoverPass ==
  ASSUME CoverInv, PassesInv', phase \in {"simplify", "hoist", "reduce", "fuse"},
         phase' \in {"hoist", "spot"}, UNCHANGED <<case, literals, source, target>>,
         NEW q, commands' = q, Runnable(q), phase' = "hoist" => NoLiteralWritten(q),
         IntegerCells => Covers(q, commands, literals, case.env)
  PROVE  CoverInv'
<1>1. IntegerCells => Covers(q, case.commands, literals, case.env)
  BY CoversChain DEF CoverInv
<1>2. Running(q)'
  <2>1. /\ source = Boot(case.env) /\ target = Boot(case.env)
        /\ \E n \in Nat : Reaches(case.commands, literals, case.env, n, source)
    BY DEF CoverInv, Running
  <2>2. \E n \in Nat : Reaches(q, literals, case.env, n, target)
    BY <2>1, ReachStart
  <2> QED BY <2>1, <2>2 DEF Running
<1> QED BY <1>1, <1>2 DEF CoverInv, NoLiteralWritten

LEMMA CoverNext == CoverInv /\ [PassesNext /\ SafeLoops]_passesVars => CoverInv'
<1> SUFFICES ASSUME CoverInv, [PassesNext /\ SafeLoops]_passesVars PROVE CoverInv'
  OBVIOUS
<1>0. PassesInv'
  BY PassesInvStep DEF CoverInv
<1>1. /\ WellMade(commands) /\ Numbers(literals) /\ Numbers(case.env) /\ Runnable(commands)
  BY DEF CoverInv, PassesInv, NumberLiterals, Numbers
<1>2. CASE Simplify
  <2> DEFINE q == SimplifiedAll(commands)
  <2>1. /\ phase = "simplify" /\ commands' = q /\ phase' = "hoist"
        /\ UNCHANGED <<case, literals, source, target>>
    BY <1>2 DEF Simplify, SimplifiedAll
  <2>2. WellMade(q)
    BY <1>0, <2>1 DEF PassesInv
  <2>3. Runnable(q) /\ NoLiteralWritten(q)
    BY <1>1, <2>1, <2>2, SimplifyRunnable DEF CoverInv
  <2>4. IntegerCells => Covers(q, commands, literals, case.env)
    BY <1>1, SimplifyCovers
  <2> HIDE DEF q
  <2> QED BY <1>0, <2>1, <2>3, <2>4, CoverPass
<1>3. CASE Fuse
  <2> DEFINE q == Fused(commands)
  <2>1. /\ phase = "fuse" /\ commands' = q /\ phase' = "spot"
        /\ UNCHANGED <<case, literals, source, target>>
    BY <1>3 DEF Fuse
  <2>2. Runnable(q)
    BY <1>1, FuseRunnable
  <2>3. IntegerCells => Covers(q, commands, literals, case.env)
    BY <1>1, <2>1, FuseCovers DEF CoverInv
  <2> HIDE DEF q
  <2> QED BY <1>0, <2>1, <2>2, <2>3, CoverPass
<1>4. CASE HoistEnds \/ ReduceEnds \/ Spot \/ SourceEnds \/ TargetEnds \/ UNCHANGED passesVars
  <2>1. /\ UNCHANGED <<case, commands, literals, source, target>>
        /\ phase' \in {"simplify", "hoist", "reduce", "fuse"} =>
             phase \in {"simplify", "hoist", "reduce", "fuse"}
        /\ phase \in {"target", "done"} \/ phase' \notin {"target", "done"} \/ target = Boot(case.env)
        /\ phase' \notin {"target", "done"} => phase \notin {"target", "done"}
        /\ phase' \notin {"source", "target", "done"} => phase \notin {"source", "target", "done"}
    BY <1>4 DEF HoistEnds, ReduceEnds, Spot, SourceEnds, TargetEnds, passesVars, CoverInv, Running
  <2> QED BY <1>0, <2>1 DEF CoverInv, Running, NoLiteralWritten
<1>5. CASE RunSource
  <2>1. /\ phase = "source" /\ ~Halted(source) /\ source' = Executed(source, case.commands, literals)
        /\ UNCHANGED <<case, commands, literals, phase, target>>
    BY <1>5 DEF RunSource
  <2>2. \E n \in Nat : Reaches(case.commands, literals, case.env, n, source')
    <3>1. PICK n \in Nat : Reaches(case.commands, literals, case.env, n, source)
      BY DEF CoverInv, Running
    <3>2. Reaches(case.commands, literals, case.env, n + 1, Executed(source, case.commands, literals))
      BY <2>1, <3>1, ReachStep
    <3> QED BY <2>1, <3>2
  <2>3. Running(commands)'
    BY <2>1, <2>2 DEF CoverInv, Running
  <2> QED BY <1>0, <2>1, <2>3 DEF CoverInv, NoLiteralWritten
<1>6. CASE RunTarget
  <2>1. /\ phase = "target" /\ ~Halted(target) /\ target' = Executed(target, commands, literals)
        /\ UNCHANGED <<case, commands, literals, phase, source>>
    BY <1>6 DEF RunTarget
  <2>2. \E n \in Nat : Reaches(commands, literals, case.env, n, target')
    <3>1. PICK n \in Nat : Reaches(commands, literals, case.env, n, target)
      BY DEF CoverInv, Running
    <3>2. Reaches(commands, literals, case.env, n + 1, Executed(target, commands, literals))
      BY <2>1, <3>1, ReachStep
    <3> QED BY <2>1, <3>2
  <2>3. Running(commands)'
    BY <2>1, <2>2 DEF CoverInv, Running
  <2> QED BY <1>0, <2>1, <2>3 DEF CoverInv, NoLiteralWritten
<1>7. CASE Hoist /\ SafeHoist(commands, Foremost(Hoists(commands)))
  <2> DEFINE e == Foremost(Hoists(commands))
             q == HoistedFrom(commands, e)
  <2>1. /\ phase = "hoist" /\ commands' = q /\ phase' = "hoist"
        /\ UNCHANGED <<case, literals, source, target>>
    BY <1>7 DEF Hoist, HoistedFrom
  <2>2. e \in Hoists(commands)
    <3>1. Hoists(commands) \in SUBSET ((1..Len(commands)) \X (1..Len(commands)))
      BY DEF Hoists, BackEdges
    <3>2. Hoists(commands) # {} /\ Len(commands) \in Nat
      BY <1>1, <1>7 DEF Hoist, WellMade
    <3> QED BY <3>1, <3>2, ForemostIsOne
  <2>3. e \in BackEdges(commands) /\ Loops(commands, e)
    BY <1>7, <2>2 DEF Hoists, Loops
  <2>4. WellMade(q)
    BY <1>0, <2>1 DEF PassesInv
  <2> HIDE DEF e
  <2>5. Runnable(q) /\ NoLiteralWritten(q)
    BY <1>1, <2>1, <2>3, <2>4, HoistRunnable DEF CoverInv
  <2>6. IntegerCells => Covers(q, commands, literals, case.env)
    BY <1>1, <2>3, <2>5, HoistCovers
  <2> HIDE DEF q
  <2> QED BY <1>0, <2>1, <2>5, <2>6, CoverPass
<1> QED BY <1>2, <1>3, <1>4, <1>5, <1>6, <1>7 DEF PassesNext, SafeLoops

\* The value the optimised function returns is the value the original returns.
SameValue == Halted(source) /\ Halted(target) => target.result = source.result

LEMMA CoverMeans == CoverInv => (IntegerCells => SameTrace /\ SameValue)
<1> SUFFICES ASSUME CoverInv, IntegerCells PROVE SameTrace /\ SameValue
  OBVIOUS
<1>1. PICK n \in Nat : Reaches(case.commands, literals, case.env, n, source)
  BY DEF CoverInv, Running
<1>2. PICK m \in Nat : Reaches(commands, literals, case.env, m, target)
  BY DEF CoverInv, Running
<1>3. /\ Runnable(case.commands) /\ Runnable(commands) /\ Numbers(literals) /\ Numbers(case.env)
      /\ Covers(commands, case.commands, literals, case.env)
  BY DEF CoverInv, PassesInv, NumberLiterals, Numbers
<1> QED BY <1>1, <1>2, <1>3, CoversSame DEF SameTrace, SameValue

\* The identities, hoisting and the fusion of comparisons with jumps change
\* nothing a function does: whatever function the tree makes, if no address of
\* it is reduced and no value hoisted above a command of the loop that reads
\* it, the optimised one makes the same loads, stores and calls in the same
\* order and returns the same value, for any number of steps.
THEOREM PassesPreserve ==
  PassesSpec /\ [][SafeLoops]_passesVars => [](IntegerCells => SameTrace /\ SameValue)
<1>1. PassesInit /\ [][PassesNext /\ SafeLoops]_passesVars => []CoverInv
  BY CoverInit, CoverNext, PTL
<1>2. [PassesNext]_passesVars /\ [SafeLoops]_passesVars => [PassesNext /\ SafeLoops]_passesVars
  OBVIOUS
<1> QED BY <1>1, <1>2, CoverMeans, PTL DEF PassesSpec

=============================================================================
