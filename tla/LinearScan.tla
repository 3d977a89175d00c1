----------------------------- MODULE LinearScan -----------------------------
(***************************************************************************)
(* Register allocation in the arm64 back end: ASMGen._arm64_function, from *)
(* the values of a function to their homes, with the target-neutral parts  *)
(* it shares with riscv64 and m68k: _il_coalesce_safe, _il_canon,          *)
(* _il_liveness, _il_intervals, _il_linear_scan and _il_pick.              *)
(*                                                                         *)
(* Commands are numbered from 1, and so are the ends of an interval; 0     *)
(* stands for the code's absent entry.  Literals live nowhere and are left *)
(* out of the commands; so is the value that holds the address of a called *)
(* function, which no instruction reads.                                   *)
(***************************************************************************)
EXTENDS Integers, Sequences, FiniteSets

CONSTANTS
  Vars,       \* the values of a function
  Floats,     \* those of a floating type
  Statics,    \* those of static storage
  Bytes,      \* Bytes[v]: the size of v; more than 8 for arrays and structures
  ArgRegs,    \* x0 to x7
  IntCallee,  \* x19 to x28
  FpArgs,     \* v0 to v7
  FpCaller,   \* v18 to v31
  FpCallee,   \* v8 to v15
  CacheCap,   \* GCACHE_CAP
  Programs    \* the functions compiled

ASSUME RegisterAssumption ==
  /\ ArgRegs \subseteq Nat /\ IntCallee \subseteq Nat /\ ArgRegs \cap IntCallee = {}
  /\ FpCaller \subseteq Nat /\ FpCallee \subseteq Nat /\ FpArgs \subseteq Nat
  /\ FpCaller \cap FpCallee = {} /\ FpArgs \cap (FpCaller \cup FpCallee) = {}
  /\ CacheCap \in Nat
ASSUME ValueAssumption ==
  /\ Floats \subseteq Vars /\ Statics \subseteq Vars
  /\ Bytes \in [Vars -> Nat \ {0}]

Ops == { "arg", "set", "plain", "compare", "address", "call",
         "label", "jump", "branch", "return" }

Elems(s) == { s[k] : k \in 1..Len(s) }

(***************************************************************************)
(* op   the class of the command: LoadArg, Set, a _GeneralCmp, AddrOf,     *)
(*      Call, Label, Jump, JumpZero or JumpNotZero, Return, or any other   *)
(* in, out  inputs() and outputs()                                         *)
(* to   the label command a jump goes to                                   *)
(***************************************************************************)
Command == [op : Ops, in : Seq(Vars), out : Seq(Vars), to : Nat]

ASSUME ProgramAssumption ==
  \A p \in Programs :
    /\ p \in Seq(Command)
    /\ \A i \in 1..Len(p) :
         /\ p[i].op \in {"jump", "branch"} <=> p[i].to # 0
         /\ p[i].to # 0 => p[i].to \in 1..Len(p) /\ p[p[i].to].op = "label"
         /\ Len(p[i].out) <= 1
         /\ p[i].op \in {"arg", "set", "compare", "address"} => Len(p[i].out) = 1
         /\ p[i].op \in {"branch", "address"} => Len(p[i].in) = 1
         /\ p[i].op = "set" => Len(p[i].in) <= 1
         /\ p[i].op = "compare" =>  \* its result is a value of its own
              \A j \in 1..Len(p) : j # i => p[i].out[1] \notin Elems(p[j].out)

VARIABLES
  program,    \* cmds; never changes
  phase,      \* what is worked out next
  coalesce,   \* the copied temporary -> the value whose home it shares
  fuse,       \* the comparisons that jump themselves
  uses, defs, \* what each command reads and writes in registers
  livein, liveout,
  changed,
  at,         \* the command looked at
  start, end, \* the live interval of each value
  crosses,    \* the values live across a call
  gaddr,      \* the register that caches the address of a static value
  busy,       \* the end of the interval a register was last given to
  used,       \* used_int_callee and used_fp_callee
  spill,      \* the values that found no register
  home,       \* reg_of, freg_of and slot_of
  off         \* the next free word of the frame

copies == <<coalesce, fuse>>
refs == <<uses, defs>>
lives == <<livein, liveout, changed>>
ranges == <<start, end, crosses>>
pools == <<gaddr, busy, used>>
homes == <<spill, home>>

allocVars == <<program, phase, copies, refs, lives, at, ranges, pools, homes, off>>

n == Len(program)
Commands == 1..n

NoHome == <<"none", 0>>
Gpr(r) == <<"int", r>>
Fpr(r) == <<"fp", r>>
Slot(k) == <<"mem", k>>
Registers == { Gpr(r) : r \in ArgRegs \cup IntCallee }
               \cup { Fpr(r) : r \in FpArgs \cup FpCaller \cup FpCallee }
CalleeSaved == { Gpr(r) : r \in IntCallee } \cup { Fpr(r) : r \in FpCallee }

ASSUME CalleeAssumption == IsFiniteSet(CalleeSaved)

Init ==
  /\ program \in Programs
  /\ phase = "copies"
  /\ coalesce = << >>
  /\ fuse = {}
  /\ uses = [i \in Commands |-> {}] /\ defs = uses
  /\ livein = uses /\ liveout = uses
  /\ changed = TRUE
  /\ at = n
  /\ start = [v \in Vars |-> 0] /\ end = start
  /\ crosses = {}
  /\ gaddr = << >>
  /\ busy = [r \in Registers |-> 0]
  /\ used = {}
  /\ spill = {}
  /\ home = [v \in Vars |-> NoHome]
  /\ off = 2

-----------------------------------------------------------------------------
(***************************************************************************)
(* Values kept in memory, copies elided, comparisons fused.                *)
(***************************************************************************)
Mentioned == UNION { Elems(program[i].in) \cup Elems(program[i].out) : i \in Commands }

\* forced: the address is taken, or no register is wide enough.
Forced ==
  { v \in Mentioned :
      \/ Bytes[v] > 8
      \/ \E i \in Commands : program[i].op = "address" /\ program[i].in[1] = v }

Uses(v) == UNION { {i} \X { k \in 1..Len(program[i].in) : program[i].in[k] = v } :
                     i \in Commands }
Definitions(v) == { i \in Commands : v \in Elems(program[i].out) }

Splits == {"label", "jump", "branch", "return"}

\* Mutant of CoalesceSafe: a read of the target before the copy is overlooked.
CoalesceSafeReads(d, k, target) ==
  /\ d <= k
  /\ \A j \in d..(k - 1) :
       /\ program[j].op \notin Splits
       /\ target \notin Elems(program[j].out)

\* _il_coalesce_safe: from the temporary's definition d to its copy k the code
\* is straight and leaves the target alone.
CoalesceSafe(d, k, target) ==
  /\ d <= k
  /\ \A j \in d..(k - 1) :
       /\ program[j].op \notin Splits
       /\ target \notin Elems(program[j].in) \cup Elems(program[j].out)

SameKind(v, w) == Bytes[v] = Bytes[w] /\ (v \in Floats <=> w \in Floats)

\* A copy of a temporary used and defined once.
Elidable(k) ==
  /\ program[k].op = "set"
  /\ program[k].in # <<>>
  /\ LET tmp == program[k].in[1]
         target == program[k].out[1]
     IN  /\ Cardinality(Uses(tmp)) = 1
         /\ {tmp, target} \cap (Forced \cup Statics) = {}
         /\ SameKind(tmp, target)
         /\ Cardinality(Definitions(tmp)) = 1
         /\ \A d \in Definitions(tmp) : CoalesceSafe(d, k, target)

Copies == { k \in Commands : Elidable(k) }

TargetOf(tmp) == LET k == CHOOSE k \in Copies : program[k].in[1] = tmp
                 IN  program[k].out[1]

Coalesced == [tmp \in { program[k].in[1] : k \in Copies } |-> TargetOf(tmp)]

\* A comparison of integers that only the branch after it uses.
Fused ==
  { i \in Commands :
      /\ program[i].op = "compare" /\ i < n
      /\ program[i + 1].op = "branch"
      /\ program[i + 1].in[1] = program[i].out[1]
      /\ Cardinality(Uses(program[i].out[1])) = 1
      /\ program[i].in[1] \notin Floats }

Unmade == { program[i].out[1] : i \in fuse }

Copied == DOMAIN coalesce \cup { coalesce[v] : v \in DOMAIN coalesce }

\* v and the values it is copied to in turn.
Reach(v) ==
  { w \in Copied : \A S \in SUBSET Copied :
      (v \in S /\ \A x \in S \cap DOMAIN coalesce : coalesce[x] \in S) => w \in S }

\* _il_canon: the end of the chain of copies.
Canon(v) ==
  IF v \notin DOMAIN coalesce THEN v
  ELSE LET ends == Reach(v) \ DOMAIN coalesce
       IN  IF ends = {} THEN v ELSE CHOOSE w \in ends : TRUE

InRegisters(S) == S \ (Forced \cup Statics \cup Unmade)

Prepare ==
  /\ phase = "copies"
  /\ coalesce' = Coalesced
  /\ fuse' = Fused
  /\ phase' = "uses"
  /\ UNCHANGED <<program, refs, lives, at, ranges, pools, homes, off>>

Collect ==
  /\ phase = "uses"
  /\ uses' = [i \in Commands |-> { Canon(v) : v \in InRegisters(Elems(program[i].in)) }]
  /\ defs' = [i \in Commands |-> { Canon(v) : v \in InRegisters(Elems(program[i].out)) }]
  /\ phase' = "live"
  /\ UNCHANGED <<program, copies, lives, at, ranges, pools, homes, off>>

-----------------------------------------------------------------------------
(***************************************************************************)
(* _il_liveness.                                                           *)
(***************************************************************************)
Succ(i) ==
  { j \in Commands :
      \/ j = i + 1 /\ program[i].op \notin {"return", "jump"}
      \/ j = program[i].to }

OutOf(i) == UNION { livein[j] : j \in Succ(i) }

InOf(i) == (OutOf(i) \ defs[i]) \cup uses[i]

Visit ==
  /\ phase = "live" /\ at > 0
  /\ livein' = [livein EXCEPT ![at] = InOf(at)]
  /\ liveout' = [liveout EXCEPT ![at] = OutOf(at)]
  /\ changed' = (changed \/ livein' # livein \/ liveout' # liveout)
  /\ at' = at - 1
  /\ UNCHANGED <<program, phase, copies, refs, ranges, pools, homes, off>>

Again ==
  /\ phase = "live" /\ at = 0 /\ changed
  /\ changed' = FALSE
  /\ at' = n
  /\ UNCHANGED <<program, phase, copies, refs, livein, liveout, ranges, pools, homes, off>>

Settled ==
  /\ phase = "live" /\ at = 0 /\ ~changed
  /\ phase' = "intervals"
  /\ at' = 1
  /\ UNCHANGED <<program, copies, refs, lives, ranges, pools, homes, off>>

-----------------------------------------------------------------------------
(***************************************************************************)
(* _il_intervals.                                                          *)
(***************************************************************************)
\* Mutant of Here: a value that is written and never read occupies nothing.
HereLive(i) == livein[i] \cup liveout[i] \cup uses[i]

Here(i) == livein[i] \cup liveout[i] \cup defs[i] \cup uses[i]

Across(i) == IF program[i].op = "call" THEN livein[i] \cap liveout[i] ELSE {}

Extend ==
  /\ phase = "intervals" /\ at <= n
  /\ start' = [v \in Vars |-> IF v \in Here(at) /\ start[v] = 0 THEN at ELSE start[v]]
  /\ end' = [v \in Vars |-> IF v \in Here(at) THEN at ELSE end[v]]
  /\ crosses' = crosses \cup Across(at)
  /\ at' = at + 1
  /\ UNCHANGED <<program, phase, copies, refs, lives, pools, homes, off>>

-----------------------------------------------------------------------------
(***************************************************************************)
(* The pools, and the addresses of static values.                          *)
(***************************************************************************)
IsLoad(i, floating) ==
  program[i].op = "arg" /\ (program[i].out[1] \in Floats) = floating

\* agp: how many integer parameters there are.
IntParams == Cardinality({ i \in Commands : IsLoad(i, FALSE) })

IntArgs(i) ==
  Cardinality({ k \in 1..Len(program[i].in) : program[i].in[k] \notin Floats })

\* int_caller: the argument registers that no argument uses, but not the first.
IntCaller ==
  { r \in ArgRegs :
      /\ r >= 1 /\ r >= IntParams
      /\ \A i \in Commands : program[i].op = "call" => r >= IntArgs(i) }

References(v) ==
  Cardinality(Uses(v)) + Cardinality(Definitions(v))

\* Which static values get a register for their address, in which order: the
\* code goes by the first mention, the model takes any.
Cacheable == { v \in Mentioned \cap Statics : References(v) >= 2 }

\* The k lowest of the callee-saved registers.
Lowest(R) == \A r \in R, q \in IntCallee \ R : r < q

CacheAddresses ==
  /\ phase = "intervals" /\ at > n
  /\ \E S \in SUBSET Cacheable : \E R \in SUBSET IntCallee :
       /\ Cardinality(S) <= CacheCap
       /\ Cardinality(S) = Cardinality(R) /\ Lowest(R)
       /\ S # {} => Cardinality(IntCallee \ R) >= 2
       /\ \/ S = Cacheable
          \/ Cardinality(S) = CacheCap
          \/ Cardinality(IntCallee \ R) <= 2
       /\ \E f \in [S -> R] :
            /\ \A v, w \in S : v # w => f[v] # f[w]
            /\ gaddr' = f
       /\ busy' = [x \in Registers |-> IF x \in { Gpr(r) : r \in R } THEN n + 1 ELSE busy[x]]
       /\ used' = used \cup { Gpr(r) : r \in R }
  /\ phase' = "scan"
  /\ UNCHANGED <<program, copies, refs, lives, at, ranges, homes, off>>

-----------------------------------------------------------------------------
(***************************************************************************)
(* _il_linear_scan.                                                        *)
(***************************************************************************)
Representatives == { Canon(v) : v \in Mentioned }

Scanned ==
  { v \in Representatives : v \notin Forced \cup Statics \cup Unmade }

Idle(x, s) == busy[x] < s

Cached == { Gpr(gaddr[v]) : v \in DOMAIN gaddr }

\* Mutant of PoolsOf: a value live across a call may be caller-saved.
PoolsOfAny(v) ==
  IF v \in Floats
  THEN [caller |-> { Fpr(r) : r \in FpCaller }, callee |-> { Fpr(r) : r \in FpCallee }]
  ELSE [caller |-> { Gpr(r) : r \in IntCaller },
        callee |-> { Gpr(r) : r \in IntCallee } \ Cached]

\* The registers v may have: those tried first and those tried after them.
PoolsOf(v) ==
  LET caller == IF v \in Floats THEN { Fpr(r) : r \in FpCaller }
                                ELSE { Gpr(r) : r \in IntCaller }
      callee == IF v \in Floats THEN { Fpr(r) : r \in FpCallee }
                                ELSE { Gpr(r) : r \in IntCallee } \ Cached
  IN  [caller |-> IF v \in crosses THEN {} ELSE caller, callee |-> callee]

\* _il_pick: the first idle register of the pool.
Picked(pool, s) ==
  { x \in pool : /\ Idle(x, s)
                 /\ \A y \in pool : y[2] < x[2] => ~Idle(y, s) }

Choices(v) ==
  LET first == Picked(PoolsOf(v).caller, start[v])
  IN  IF first # {} THEN first ELSE Picked(PoolsOf(v).callee, start[v])

\* Values are taken by their start; among equals the code takes the one
\* mentioned first, the model any.
Waiting == { v \in Scanned \ spill : home[v] = NoHome }

Turn(v) == v \in Waiting /\ \A w \in Waiting : start[v] <= start[w]

\* Mutant of Give: the registers used are not noted.
GiveUnnoted(v, x) ==
  /\ home' = [home EXCEPT ![v] = x]
  /\ busy' = [busy EXCEPT ![x] = end[v]]
  /\ UNCHANGED used

Give(v, x) ==
  /\ home' = [home EXCEPT ![v] = x]
  /\ busy' = [busy EXCEPT ![x] = end[v]]
  /\ used' = used \cup ({x} \cap CalleeSaved)

Allocate ==
  /\ phase = "scan"
  /\ \E v \in Scanned :
       /\ Turn(v)
       /\ \/ \E x \in Choices(v) : Give(v, x) /\ UNCHANGED spill
          \/ /\ Choices(v) = {}
             /\ spill' = spill \cup {v}
             /\ UNCHANGED <<home, busy, used>>
  /\ UNCHANGED <<program, phase, copies, refs, lives, at, ranges, gaddr, off>>

-----------------------------------------------------------------------------
(***************************************************************************)
(* The frame, in words: x29 and x30, the registers to restore, the slots.  *)
(***************************************************************************)
Slotless == { v \in Representatives \ (Statics \cup Unmade) : home[v] = NoHome }

Words(v) == (Bytes[v] + 7) \div 8

SaveRegisters ==
  /\ phase = "scan" /\ Waiting = {}
  /\ off' = off + Cardinality(used)
  /\ phase' = "slots"
  /\ UNCHANGED <<program, copies, refs, lives, at, ranges, pools, homes>>

\* The code goes by the first mention; the model takes any order.
GiveSlot ==
  /\ phase = "slots"
  /\ \E v \in Slotless :
       /\ home' = [home EXCEPT ![v] = Slot(off)]
       /\ off' = off + Words(v)
  /\ UNCHANGED <<program, phase, copies, refs, lives, at, ranges, pools, spill>>

\* Coalesced temporaries share the home of their target.
Share ==
  /\ phase = "slots" /\ Slotless = {}
  /\ home' = [v \in Vars |-> IF v \in DOMAIN coalesce THEN home[Canon(v)] ELSE home[v]]
  /\ phase' = "run"
  /\ UNCHANGED <<program, copies, refs, lives, at, ranges, pools, spill, off>>

AllocNext ==
  \/ Prepare \/ Collect \/ Visit \/ Again \/ Settled \/ Extend
  \/ CacheAddresses \/ Allocate \/ SaveRegisters \/ GiveSlot \/ Share

Spec == Init /\ [][AllocNext]_allocVars

-----------------------------------------------------------------------------
Homes == Registers \cup ({"mem"} \X Nat) \cup {NoHome}

TypeOK ==
  /\ program \in Seq(Command)
  /\ phase \in {"copies", "uses", "live", "intervals", "scan", "slots", "run"}
  /\ DOMAIN coalesce \subseteq Vars /\ \A v \in DOMAIN coalesce : coalesce[v] \in Vars
  /\ fuse \subseteq Commands
  /\ uses \in [Commands -> SUBSET Vars] /\ defs \in [Commands -> SUBSET Vars]
  /\ livein \in [Commands -> SUBSET Vars] /\ liveout \in [Commands -> SUBSET Vars]
  /\ changed \in BOOLEAN
  /\ at \in 0..(n + 1)
  /\ start \in [Vars -> Nat] /\ end \in [Vars -> Nat]
  /\ crosses \subseteq Vars
  /\ DOMAIN gaddr \subseteq Statics /\ \A v \in DOMAIN gaddr : gaddr[v] \in IntCallee
  /\ busy \in [Registers -> Nat]
  /\ used \subseteq CalleeSaved
  /\ spill \subseteq Vars
  /\ home \in [Vars -> Homes]
  /\ off \in Nat

\* The values that hold something at the same time, before a command or after it.
Together(v, w) ==
  \E i \in Commands : {v, w} \subseteq livein[i] \/ {v, w} \subseteq liveout[i] \cup defs[i]

Given == phase \in {"scan", "slots", "run"}

\* The values with homes of their own; the others share on purpose.
Own == Vars \ DOMAIN coalesce

(***************************************************************************)
(* Two values that hold something at the same time never share a register, *)
(* although registers are handed out by the ends of intervals alone.       *)
(***************************************************************************)
HomesApart ==
  Given => \A v, w \in Own : v # w /\ Together(v, w) /\ home[v] \in Registers => home[v] # home[w]

(***************************************************************************)
(* What is live across a call is never in a register the call may change,  *)
(* the ones that take its arguments included.                              *)
(***************************************************************************)
CallsKeepHomes ==
  Given =>
    \A i \in Commands : program[i].op = "call" =>
      \A v \in (livein[i] \cap liveout[i]) \cap Own :
        home[v] \in Registers => home[v] \in CalleeSaved

=============================================================================
