----------------------------- MODULE ThreadPlan -----------------------------
(***************************************************************************)
(* --emit-thread-switcher: the driver of thread_contracts.  It compiles    *)
(* the program once to see which registers each function uses, gives the   *)
(* left and the right threads register budgets of their own, compiles      *)
(* again under those budgets, and emits switchers for what it then sees.   *)
(*                                                                         *)
(* Only general-purpose registers are modelled: the xmm footprints go      *)
(* through the same steps but are never fed back.                          *)
(***************************************************************************)
EXTENDS Integers, Sequences, FiniteSets, FiniteSetsExt, ThreadSides

CONSTANTS
  Functions,
  Pool,      \* GP_POOL, the allocator's registers in order of preference
  Sources,   \* the programs the driver may be given
  Unplanned  \* the plan before there is one

Registers == { Pool[i] : i \in 1..Len(Pool) }

\* A program: its files with the functions each defines, in order; which of
\* those are exported; which run as threads of a side; what each calls; how
\* many registers its values want; which registers its instructions name
\* whatever the allocator does (a quotient, an argument, a result) and which
\* they write without naming (cdq); and the files that do not compile with the
\* few flags the driver passes on to its own runs of the compiler.
SourceType ==
  [ files : Seq(Seq(Functions)), exported : SUBSET Functions,
    threads : [Sides -> SUBSET Functions],
    calls : [Functions -> SUBSET Functions], wants : [Functions -> Nat],
    fixed : [Functions -> SUBSET Registers],
    implied : [Functions -> SUBSET Registers], broken : SUBSET Nat ]

ASSUME PoolAssumption ==
  /\ Pool \in Seq(Registers)
  /\ \A i, j \in 1..Len(Pool) : Pool[i] = Pool[j] => i = j
  /\ Len(Pool) > 0
ASSUME SourceAssumption ==
  /\ IsFiniteSet(Functions)
  /\ Sources \subseteq SourceType

VARIABLES
  source,   \* never changes
  pass,     \* "first" and "second" compilation, then "emit" and the outcome
  file,     \* the file being compiled
  done,     \* how many of its functions are
  avail,    \* alloc_registers of the compiler at work
  label,    \* the function the scan attributes what it reads to, if any
  scanned,  \* func_regs: the registers found in each function's assembly
  written,  \* the registers the code just compiled really writes
  plan,     \* the ThreadPlan
  budget    \* _thread_alloc: a budget for each function listed in it

vars == <<source, pass, file, done, avail, label, scanned, written, plan, budget>>

Nothing == [f \in Functions |-> {}]

-----------------------------------------------------------------------------
(***************************************************************************)
(* analyze.                                                                *)
(***************************************************************************)
\* Mutant of Closure: only what the thread calls itself.
ClosureDirect(calls, root) == {root} \cup calls[root]

\* transitive_closure: what every set closed under calls holds if it holds root.
Closure(calls, root) ==
  { f \in Functions :
      \A S \in SUBSET Functions :
        root \in S /\ (\A g \in S : calls[g] \subseteq S) => f \in S }

Members(x, side) == UNION { Closure(x.calls, f) : f \in x.threads[side] }
Shared(x) == Members(x, "left") \cap Members(x, "right")

Footprint(x, regs, side) == UNION { regs[f] : f \in Members(x, side) }

\* Python's round: halves go to the even neighbour.
Round(num, den) ==
  LET q == num \div den  r == num % den
  IN  IF 2 * r > den \/ (2 * r = den /\ q % 2 = 1) THEN q + 1 ELSE q

Larger(i, j) == IF i > j THEN i ELSE j

\* Where the pool is cut when the needs exceed it: in proportion to them.
Cut(left, right) ==
  LET point == Round(Len(Pool) * left, left + right)
  IN  IF point < 0 THEN 0 ELSE IF point > Len(Pool) THEN Len(Pool) ELSE point

Front(k) == { Pool[i] : i \in 1..k }
Back(k) == { Pool[i] : i \in (Len(Pool) - k + 1)..Len(Pool) }

\* Mutant of SplitBudget: both sides take from the front.
SplitBudgetFront(left, right) == [left |-> Front(left), right |-> Front(right)]

\* Mutant of SplitBudget: a pool too small is cut in two, whatever the needs.
SplitBudgetCut(left, right) ==
  IF left + right <= Len(Pool)
    THEN [left |-> Front(left), right |-> Back(right)]
    ELSE [left |-> Front(Cut(left, right)),
          right |-> Back(Len(Pool) - Cut(left, right))]

\* _split_budget: left takes from the front of the pool, right from the back.
SplitBudget(left, right) ==
  IF left + right <= Len(Pool)
    THEN [left |-> Front(left), right |-> Back(right)]
    ELSE [left |-> Front(Larger(Cut(left, right), left)),
          right |-> Back(Larger(Len(Pool) - Cut(left, right), right))]

Analyze(x, regs) ==
  LET gp == [side \in Sides |-> Footprint(x, regs, side)]
  IN  [gp |-> gp,
       share |-> SplitBudget(Cardinality(gp["left"]), Cardinality(gp["right"]))]

\* allocation_budgets, as _thread_alloc reads it: a function that is not listed
\* and one with an empty list are the same to _apply_thread_budget.
Budgets(x, p) ==
  LET common == p.share["left"] \cap p.share["right"]
  IN  [f \in Functions |->
         IF f \in Shared(x)
           THEN IF common # {} THEN common ELSE p.share["left"]
         ELSE IF f \in Members(x, "left") THEN p.share["left"]
         ELSE IF f \in Members(x, "right") THEN p.share["right"]
         ELSE {}]

-----------------------------------------------------------------------------
(***************************************************************************)
(* _compile_and_scan.                                                      *)
(***************************************************************************)
Threaded == \E side \in Sides : source.threads[side] # {}
Compiling == pass \in {"first", "second"} /\ Threaded
Texts == source.files

Init ==
  /\ source \in Sources
  /\ pass = "first"
  /\ file = 1
  /\ done = 0
  /\ avail = Registers
  /\ label = {}
  /\ scanned = Nothing
  /\ written = Nothing
  /\ plan = Unplanned
  /\ budget = Nothing

\* _apply_thread_budget.
Applied(f) ==
  IF budget[f] = {} THEN Registers
  ELSE IF Cardinality(budget[f]) < 2 THEN avail
  ELSE budget[f]

\* The first k of the registers at hand in the order of the pool.
Preferred(pool, k) ==
  { Pool[i] : i \in { j \in 1..Len(Pool) :
      /\ Pool[j] \in pool
      /\ Cardinality({ h \in 1..j : Pool[h] \in pool }) <= k } }

\* As many registers as the function wants, if there are so many; one of those
\* it prefers may not do, where something clobbers it.
Allocations(f, pool) ==
  { S \in SUBSET Preferred(pool, source.wants[f] + 1) :
      Cardinality(S) = IF source.wants[f] < Cardinality(pool)
                         THEN source.wants[f] ELSE Cardinality(pool) }

\* scan_asm_registers: a label that is not global does not end a function.
Label(f) == IF f \in source.exported THEN {f} ELSE label

\* One function of the current file.  A file that the driver's own compiler
\* runs fail on is passed over by the scan; its code exists all the same, built
\* with the flags it needs.
CompileFunction ==
  /\ Compiling
  /\ file <= Len(Texts)
  /\ done < Len(Texts[file])
  /\ LET f == Texts[file][done + 1]
         pool == Applied(f)
         home == IF file \in source.broken THEN {} ELSE Label(f)
     IN  \E S \in Allocations(f, pool) :
           LET seen == S \cup source.fixed[f]
           IN  /\ avail' = pool
               /\ label' = Label(f)
               /\ scanned' = [g \in Functions |->
                    IF g \in home THEN scanned[g] \cup seen ELSE scanned[g]]
               /\ written' = [written EXCEPT ![f] = seen \cup source.implied[f]]
  /\ done' = done + 1
  /\ UNCHANGED <<source, pass, file, plan, budget>>

\* The next file has a compiler of its own.
FinishFile ==
  /\ Compiling
  /\ file <= Len(Texts)
  /\ done = Len(Texts[file])
  /\ file' = file + 1
  /\ done' = 0
  /\ avail' = Registers
  /\ label' = {}
  /\ UNCHANGED <<source, pass, scanned, written, plan, budget>>

-----------------------------------------------------------------------------
(***************************************************************************)
(* run.                                                                    *)
(***************************************************************************)
NoThreads ==
  /\ pass = "first"
  /\ ~Threaded
  /\ pass' = "none"
  /\ UNCHANGED <<source, file, done, avail, label, scanned, written, plan, budget>>

\* Mutant of FeedBack: the second compilation is scanned on top of the first.
FeedBackOntoFirst ==
  /\ pass = "first"
  /\ file > Len(Texts)
  /\ LET p == Analyze(source, scanned)
     IN  plan' = p /\ budget' = Budgets(source, p)
  /\ pass' = "second"
  /\ file' = 1
  /\ done' = 0
  /\ avail' = Registers
  /\ label' = {}
  /\ written' = Nothing
  /\ UNCHANGED <<source, scanned>>

\* The first plan, and a second compilation under its budgets.
FeedBack ==
  /\ pass = "first"
  /\ file > Len(Texts)
  /\ LET p == Analyze(source, scanned)
     IN  plan' = p /\ budget' = Budgets(source, p)
  /\ pass' = "second"
  /\ file' = 1
  /\ done' = 0
  /\ avail' = Registers
  /\ label' = {}
  /\ scanned' = Nothing
  /\ written' = Nothing
  /\ UNCHANGED source

\* Mutant of Replan: the switchers are made for the first plan.
ReplanFirst ==
  /\ pass = "second"
  /\ file > Len(Texts)
  /\ pass' = "emit"
  /\ UNCHANGED <<source, plan, file, done, avail, label, scanned, written, budget>>

Replan ==
  /\ pass = "second"
  /\ file > Len(Texts)
  /\ plan' = Analyze(source, scanned)
  /\ pass' = "emit"
  /\ UNCHANGED <<source, file, done, avail, label, scanned, written, budget>>

\* generate_preempt_switcher takes a base and three frame registers of each
\* side, and two scratch registers of the other.
Roomy == \A side \in Sides : Cardinality(plan.gp[side]) >= 4

EmitBoth ==
  /\ pass = "emit"
  /\ Roomy
  /\ pass' = "both"
  /\ UNCHANGED <<source, file, done, avail, label, scanned, written, plan, budget>>

\* The cooperative switcher is written; an exception ends the second.
EmitOne ==
  /\ pass = "emit"
  /\ ~Roomy
  /\ pass' = "one"
  /\ UNCHANGED <<source, file, done, avail, label, scanned, written, plan, budget>>

Next ==
  \/ CompileFunction
  \/ FinishFile
  \/ NoThreads
  \/ FeedBack
  \/ Replan
  \/ EmitBoth
  \/ EmitOne

Spec == Init /\ [][Next]_vars

Planned == pass \in {"emit", "both", "one"}

-----------------------------------------------------------------------------
Plans == [gp : [Sides -> SUBSET Registers], share : [Sides -> SUBSET Registers]]

ASSUME PlanAssumption == Unplanned \notin Plans

TypeOK ==
  /\ source \in Sources
  /\ pass \in {"first", "second", "emit", "both", "one", "none"}
  /\ file \in 1..(Len(Texts) + 1)
  /\ done \in Nat
  /\ avail \subseteq Registers
  /\ label \subseteq Functions
  /\ scanned \in [Functions -> SUBSET Registers]
  /\ written \in [Functions -> SUBSET Registers]
  /\ plan \in Plans \cup {Unplanned}
  /\ budget \in [Functions -> SUBSET Registers]
  /\ plan = Unplanned => pass \in {"first", "none"}

\* The switchers are made for every register the code of a side's threads
\* writes, in whatever function and however named: what they do not save, the
\* other side may overwrite.  All a side can run is in a set of functions that
\* holds its threads and what each of the set calls.
Covered(side) == { f \in Functions : written[f] \subseteq plan.gp[side] }

FootprintsCover ==
  Planned =>
    \A side \in Sides :
      \E S \in SUBSET Covered(side) :
        /\ source.threads[side] \subseteq S
        /\ \A f \in S : source.calls[f] \subseteq S

\* While the needs of both sides fit in the pool the budgets share no register,
\* and each side's is large enough for what its threads were seen to use.
BudgetsApart ==
  pass = "second" =>
    /\ \A side \in Sides :
         Cardinality(plan.share[side]) >= Cardinality(plan.gp[side])
    /\ Cardinality(plan.gp["left"]) + Cardinality(plan.gp["right"]) <= Len(Pool)
         => plan.share["left"] \cap plan.share["right"] = {}

Alone(x, f) == x.fixed[f] = {} /\ x.implied[f] = {}

\* Who scan_asm_registers reads the code of a side for: the functions whose
\* instructions follow, in a file that compiles, the label of one it knows.
LabelAt(x, i, n) ==
  { h \in x.exported : \E j \in 1..n :
      /\ x.files[i][j] = h
      /\ \A m \in (j + 1)..n : x.files[i][m] \notin x.exported }

CreditedTo(x, h) ==
  { f \in Functions : \E i \in 1..Len(x.files) : \E n \in 1..Len(x.files[i]) :
      /\ i \notin x.broken
      /\ f = x.files[i][n]
      /\ h \in LabelAt(x, i, n) }

Credited(x, side) == UNION { CreditedTo(x, h) : h \in Members(x, side) }

\* The second compilation pulls the footprints apart, as long as the needs
\* fitted in the pool, no function runs on both sides, no instruction insists on
\* a register, no budget is a single register, and no side is credited with the
\* code of a function it does not run.
FootprintsApart ==
  Planned =>
    \/ plan.gp["left"] \cap plan.gp["right"] = {}
    \/ \E f \in Members(source, "left"), g \in Members(source, "right") :
         \/ budget[f] \cap budget[g] # {}
         \/ \E h \in {f, g} : Cardinality(budget[h]) = 1 \/ ~Alone(source, h)
    \/ \E side \in Sides : ~(Credited(source, side) \subseteq Members(source, side))

=============================================================================
