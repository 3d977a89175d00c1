------------------------------ MODULE Peephole ------------------------------
(***************************************************************************)
(* The peephole passes over one function (shivyc/peephole.py): arithmetic  *)
(* identities, loop-invariant hoisting, strength reduction of the          *)
(* addresses that follow a loop counter, fusion of a comparison with the   *)
(* jump after it; then the literals they introduced are given places       *)
(* (asm_gen.py).  The commands before and after are run side by side.      *)
(***************************************************************************)
EXTENDS ILMachine, SequencesExt

CONSTANTS
  Cases,        \* the functions: commands, literals, the values on entry
  Fresh,        \* names for the values the passes create, in order
  MaxRounds,    \* how many loops one pass rewrites at most (20 in the code)
  MaxRun        \* bound of the model: how long a machine is run

\* The commands as they are made: class, outputs(), inputs(), label.
Shapes == [op : DOMAIN Arity, out : Seq(Names), args : Seq(Names), label : LabelNames \cup {""}]

Unused(p, v) == \A k \in 1..Len(p) : v \notin ToSet(p[k].out) \cup ToSet(p[k].args)

ASSUME BoundAssumption == MaxRounds \in Nat /\ MaxRun \in Nat

\* A round makes two ILValues, and every ILValue is an object of its own.
ASSUME FreshAssumption ==
  /\ Fresh \in Seq(Names) /\ Len(Fresh) >= 2 * MaxRounds
  /\ \A j, k \in 1..Len(Fresh) : Fresh[j] = Fresh[k] => j = k

\* The functions as il_gen leaves them: a label stands at one place, a literal
\* has its number and is never written, the last command returns or jumps.
ASSUME CaseAssumption ==
  \A c \in Cases :
    /\ c.commands \in Seq(Shapes)
    /\ \A k \in 1..Len(c.commands) :
         /\ IsCommand(c.commands[k])
         /\ \A l \in Targets(c.commands[k]) : \E j \in 1..Len(c.commands) : At(c.commands, l) = {j}
    /\ Len(c.commands) > 0 /\ c.commands[Len(c.commands)].op \in {"jump", "return"}
    /\ DOMAIN c.literals \subseteq Names
    /\ \A v \in DOMAIN c.literals : c.literals[v] \in Int
    /\ \A k \in 1..Len(c.commands) : ToSet(c.commands[k].out) \cap DOMAIN c.literals = {}
    /\ \A v \in DOMAIN c.env : c.env[v] \in Int
    /\ \A k \in 1..Len(Fresh) : Unused(c.commands, Fresh[k]) /\ Fresh[k] \notin DOMAIN c.literals

VARIABLES
  case,         \* the function as the tree made it
  commands,     \* the command list as rewritten so far
  literals,     \* il_code.literals
  newLiterals,  \* il_code.new_literals
  spotted,      \* the literals that have a place in the spot map
  phase,
  rounds,       \* the rounds of the current pass
  source,       \* the machine that runs case.commands
  target,       \* the machine that runs commands
  steps

passesVars == <<case, commands, literals, newLiterals, spotted, phase, rounds, source, target, steps>>

IsLit(v) == v \in DOMAIN literals

LitIs(v, n) == IsLit(v) /\ literals[v] = n

----------------------------------------------------------------------------
(* simplify_arith *)

Simplified(c) ==
  LET copy(k) == Cmd("set", c.out, <<c.args[k]>>, "")
  IN CASE c.op = "mul" /\ LitIs(c.args[2], 1) -> copy(1)
       [] c.op = "mul" /\ ~LitIs(c.args[2], 1) /\ LitIs(c.args[1], 1) -> copy(2)
       [] c.op = "add" /\ LitIs(c.args[2], 0) -> copy(1)
       [] c.op = "add" /\ ~LitIs(c.args[2], 0) /\ LitIs(c.args[1], 0) -> copy(2)
       [] c.op = "sub" /\ LitIs(c.args[2], 0) -> copy(1)
       [] OTHER -> c

----------------------------------------------------------------------------
(* Loops: what both loop passes ask of the command list. *)

Reads(c, v) == Cardinality({ k \in 1..Len(c.args) : c.args[k] = v })

Writes(c, v) == \E k \in 1..Len(c.out) : c.out[k] = v

\* How often the commands read v.
Uses(p, v) == LET n[k \in 0..Len(p)] == IF k = 0 THEN 0 ELSE n[k - 1] + Reads(p[k], v)
              IN n[Len(p)]

\* The commands of lo..hi that write v; the last of them is def_of[v].
Defs(p, lo, hi, v) == { k \in lo..hi : Writes(p[k], v) }

Incoming(p, l) == Cardinality({ k \in 1..Len(p) : l \in Targets(p[k]) })

\* The loops, as pairs of the label and the jump back to it.
BackEdges(p) ==
  { e \in (1..Len(p)) \X (1..Len(p)) :
      e[1] < e[2] /\ \E l \in Targets(p[e[2]]) : e[1] \in At(p, l) }

\* The commands at the positions S, in program order.
Pick(p, S) ==
  LET q[k \in 0..Len(p)] == IF k = 0 THEN << >>
                            ELSE IF k \in S THEN Append(q[k - 1], p[k]) ELSE q[k - 1]
  IN q[Len(p)]

\* The commands at S move in front of the loop e; tail goes before its jump.
Preheader(p, e, S, tail) ==
  SubSeq(p, 1, e[1] - 1) \o Pick(p, S) \o <<p[e[1]]>>
    \o Pick(p, (e[1] + 1 .. e[2] - 1) \ S) \o tail \o SubSeq(p, e[2], Len(p))

----------------------------------------------------------------------------
(* hoist_loop_invariants *)

\* The body is one basic block.  (It then holds no nested back-edge either.)
SingleBlock(p, e) ==
  \A j \in e[1] + 1 .. e[2] - 1 : p[j].op # "label" /\ Targets(p[j]) = {}

HoistableLoop(p, e) ==
  /\ e[1] > 1
  /\ p[e[1] - 1].op \notin {"jump", "return"}
  /\ \A j \in e[1]..e[2] : p[j].op \notin {"call", "store"}
  /\ Incoming(p, p[e[1]].label) = 1
  /\ SingleBlock(p, e)

\* The pure commands whose operands nothing in the loop writes.
Invariant(p, e) ==
  { j \in e[1] + 1 .. e[2] - 1 :
      /\ p[j].op \in {"set", "add", "sub", "mul"}
      /\ Defs(p, e[1], e[2], p[j].out[1]) = {j}
      /\ \A v \in ToSet(p[j].args) : Defs(p, e[1], e[2], v) = {} }

Hoists(p) == { e \in BackEdges(p) : HoistableLoop(p, e) /\ Invariant(p, e) # {} }

\* The loops are tried in the order of their jumps.
Foremost(E) == CHOOSE e \in E : \A f \in E : e[2] <= f[2]

----------------------------------------------------------------------------
(* strength_reduce_ivs *)

\* _single_block_loop_range: jumps out of the loop are allowed.
StraightLine(p, e) ==
  \A j \in e[1] + 1 .. e[2] :
    /\ p[j].op # "label"
    /\ j < e[2] => \A l \in Targets(p[j]) : At(p, l) \cap (e[1]..e[2]) = {}

InBody(p, e, v) == Defs(p, e[1] + 1, e[2] - 1, v)

DefOf(p, e, v) == CHOOSE k \in InBody(p, e, v) : \A j \in InBody(p, e, v) : j <= k

\* What the counter v goes up by in a round: {} if v is no basic counter.
Increments(p, e, v) ==
  LET defs == InBody(p, e, v)
      k == DefOf(p, e, v)
      t == p[k].args[1]
      add == p[DefOf(p, e, t)]
  IN IF /\ Cardinality(defs) = 1 /\ p[k].op = "set"
        /\ InBody(p, e, t) # {} /\ add.op = "add"
     THEN IF add.args[1] = v /\ IsLit(add.args[2]) THEN {literals[add.args[2]]}
          ELSE IF add.args[2] = v /\ IsLit(add.args[1]) THEN {literals[add.args[1]]} ELSE {}
     ELSE {}

(***************************************************************************)
(* One call of _trace_stride: {} if v does not follow one counter, else    *)
(* its counter, how much it changes when the counter goes up by one (0:    *)
(* invariant), and the commands of the body that compute it.  found has    *)
(* what the calls for the operands return.                                 *)
(***************************************************************************)
Traced(p, e, v, found) ==
  LET
    k == DefOf(p, e, v)
    c == p[k]
    arg(n) == found[c.args[n]]
    with(t) == [t EXCEPT !.chain = @ \cup {k}]
    scaled(t, n) == [t EXCEPT !.scale = @ * n, !.chain = @ \cup {k}]
    sum(x, y, sign) ==
      [iv |-> IF x.scale = 0 /\ y.scale # 0 THEN y.iv ELSE x.iv,
       scale |-> x.scale + sign * y.scale, chain |-> x.chain \cup y.chain \cup {k}]
  IN CASE Increments(p, e, v) # {} -> {[iv |-> v, scale |-> 1, chain |-> {}]}
       [] Increments(p, e, v) = {} /\ InBody(p, e, v) = {} ->
            {[iv |-> v, scale |-> 0, chain |-> {}]}
       [] OTHER ->
            CASE c.op = "set" -> { with(t) : t \in arg(1) }
              [] c.op \in {"add", "sub"} ->
                   { sum(xy[1], xy[2], IF c.op = "sub" THEN -1 ELSE 1) :
                       xy \in { z \in arg(1) \X arg(2) : z[1].scale = 0 \/ z[2].scale = 0 } }
              [] c.op = "mul" ->
                   LET n == IF IsLit(c.args[2]) THEN 2 ELSE 1
                   IN IF IsLit(c.args[n])
                      THEN { scaled(t, literals[c.args[n]]) : t \in { u \in arg(3 - n) : u.scale # 0 } }
                      ELSE {}
              [] OTHER -> {}

\* What _trace_stride finds for addr: its calls nest at most 13 deep.
Follows(p, e, addr) ==
  LET trace[r \in 0..13] == IF r = 0 THEN [v \in Names |-> {}]
                            ELSE [v \in Names |-> Traced(p, e, v, trace[r - 1])]
  IN trace[13][addr]

\* Mutant of Reductions: the counter may be updated before the address is computed.
ReductionsLate(p, e, k) ==
  LET addr == p[k].args[1]
  IN { t \in Follows(p, e, addr) :
         t.scale # 0 /\ Uses(p, addr) = 1 /\ \A j \in t.chain : Uses(p, p[j].out[1]) = 1 }

\* The ways to reduce the address that command k of the loop e uses.
Reductions(p, e, k) ==
  LET addr == p[k].args[1]
  IN { t \in Follows(p, e, addr) :
         /\ t.scale # 0
         /\ \A j \in t.chain : j < DefOf(p, e, t.iv)
         /\ \A j \in t.chain : Uses(p, p[j].out[1]) = 1
         /\ Uses(p, addr) = 1 }

ReducibleLoop(p, e) ==
  Incoming(p, p[e[1]].label) = 1 /\ StraightLine(p, e)

Reducible(p, e) ==
  { k \in e[1] + 1 .. e[2] - 1 :
      /\ p[k].op \in {"read", "store"}
      /\ Cardinality(InBody(p, e, p[k].args[1])) = 1
      /\ Reductions(p, e, k) # {} }

Reduces(p) == { e \in BackEdges(p) : ReducibleLoop(p, e) /\ Reducible(p, e) # {} }

\* Mutant of Advance: the pointer is advanced in place.
AdvanceInPlace(addr, stride, t) == << Cmd("add", <<addr>>, <<addr, stride>>, "") >>

\* t = addr + stride; addr = t, so that no command writes what it reads.
Advance(addr, stride, t) ==
  << Cmd("add", <<t>>, <<addr, stride>>, ""), Cmd("set", <<addr>>, <<t>>, "") >>

----------------------------------------------------------------------------
(* fuse_compare_jumps *)

Fusable(p, k) ==
  /\ k < Len(p) /\ p[k].op = "less"
  /\ p[k + 1].op \in {"jz", "jnz"}
  /\ p[k + 1].args[1] = p[k].out[1]
  /\ Uses(p, p[k].out[1]) = 1
  /\ ~IsLit(p[k].args[1])

FusedWith(c, jump) ==
  Cmd(IF jump.op = "jz" THEN "jnotless" ELSE "jless", << >>, c.args, jump.label)

Fused(p) ==
  LET heads == { k \in 1..Len(p) : Fusable(p, k) }
  IN Pick([k \in 1..Len(p) |-> IF k \in heads THEN FusedWith(p[k], p[k + 1]) ELSE p[k]],
          { k \in 1..Len(p) : k - 1 \notin heads })

----------------------------------------------------------------------------
(* optimize, and the code generator around it *)

PassesInit ==
  /\ case \in Cases
  /\ commands = case.commands
  /\ literals = case.literals
  /\ spotted = DOMAIN case.literals
  /\ newLiterals = {}
  /\ phase = "simplify"
  /\ rounds = 0
  /\ source = Boot(case.env)
  /\ target = Boot(case.env)
  /\ steps = 0

Simplify ==
  /\ phase = "simplify"
  /\ commands' = [k \in 1..Len(commands) |-> Simplified(commands[k])]
  /\ phase' = "hoist"
  /\ UNCHANGED <<case, literals, newLiterals, spotted, rounds, source, target, steps>>

\* One round of the pass: the first loop that has something to hoist.
Hoist ==
  /\ phase = "hoist" /\ rounds < MaxRounds /\ Hoists(commands) # {}
  /\ LET e == Foremost(Hoists(commands))
     IN commands' = Preheader(commands, e, Invariant(commands, e), << >>)
  /\ rounds' = rounds + 1
  /\ UNCHANGED <<case, literals, newLiterals, spotted, phase, source, target, steps>>

HoistEnds ==
  /\ phase = "hoist" /\ (rounds = MaxRounds \/ Hoists(commands) = {})
  /\ phase' = "reduce"
  /\ rounds' = 0
  /\ UNCHANGED <<case, commands, literals, newLiterals, spotted, source, target, steps>>

\* One round: the first address of the first loop that can be advanced.  The
\* stride is registered as a literal, which does not log it as a new one.
Reduce ==
  /\ phase = "reduce" /\ rounds < MaxRounds /\ Reduces(commands) # {}
  /\ LET e == Foremost(Reduces(commands))
         k == CHOOSE j \in Reducible(commands, e) :
                \A i \in Reducible(commands, e) : j <= i
         t == CHOOSE u \in Reductions(commands, e, k) : TRUE
         inc == CHOOSE n \in Increments(commands, e, t.iv) : TRUE
         stride == Fresh[2 * rounds + 1]
     IN /\ commands' = Preheader(commands, e, t.chain,
                                 Advance(commands[k].args[1], stride, Fresh[2 * rounds + 2]))
        /\ literals' = [v \in DOMAIN literals \cup {stride} |->
                          IF v = stride THEN t.scale * inc ELSE literals[v]]
  /\ rounds' = rounds + 1
  /\ UNCHANGED <<case, newLiterals, spotted, phase, source, target, steps>>

ReduceEnds ==
  /\ phase = "reduce" /\ (rounds = MaxRounds \/ Reduces(commands) = {})
  /\ phase' = "fuse"
  /\ UNCHANGED <<case, commands, literals, newLiterals, spotted, rounds, source, target, steps>>

Fuse ==
  /\ phase = "fuse"
  /\ commands' = Fused(commands)
  /\ phase' = "spot"
  /\ UNCHANGED <<case, literals, newLiterals, spotted, rounds, source, target, steps>>

Spot ==
  /\ phase = "spot"
  /\ spotted' = spotted \cup newLiterals
  /\ phase' = "source"
  /\ UNCHANGED <<case, commands, literals, newLiterals, rounds, source, target, steps>>

\* The commands of the tree are run first, then the optimised ones.
RunSource ==
  /\ phase = "source" /\ ~Halted(source) /\ steps < MaxRun
  /\ source' = Executed(source, case.commands, literals)
  /\ steps' = steps + 1
  /\ UNCHANGED <<case, commands, literals, newLiterals, spotted, phase, rounds, target>>

SourceEnds ==
  /\ phase = "source" /\ (Halted(source) \/ steps = MaxRun)
  /\ phase' = "target"
  /\ steps' = 0
  /\ UNCHANGED <<case, commands, literals, newLiterals, spotted, rounds, source, target>>

RunTarget ==
  /\ phase = "target" /\ ~Halted(target) /\ steps < MaxRun
  /\ target' = Executed(target, commands, literals)
  /\ steps' = steps + 1
  /\ UNCHANGED <<case, commands, literals, newLiterals, spotted, phase, rounds, source>>

TargetEnds ==
  /\ phase = "target" /\ (Halted(target) \/ steps = MaxRun)
  /\ phase' = "done"
  /\ UNCHANGED <<case, commands, literals, newLiterals, spotted, rounds, source, target, steps>>

PassesNext ==
  \/ Simplify \/ Hoist \/ HoistEnds \/ Reduce \/ ReduceEnds \/ Fuse \/ Spot
  \/ RunSource \/ SourceEnds \/ RunTarget \/ TargetEnds

PassesSpec == PassesInit /\ [][PassesNext]_passesVars

----------------------------------------------------------------------------
(* Properties *)

\* The passes leave commands of the shapes the back end knows, with jumps to
\* labels that stand at one place.
PassesTypeOK ==
  /\ \A k \in 1..Len(commands) :
       /\ IsCommand(commands[k])
       /\ \A l \in Targets(commands[k]) : Cardinality(At(commands, l)) = 1
  /\ DOMAIN literals \subseteq Names /\ spotted \subseteq DOMAIN literals
  /\ newLiterals \subseteq DOMAIN literals
  /\ rounds \in 0..MaxRounds /\ steps \in 0..MaxRun
  /\ phase \in {"simplify", "hoist", "reduce", "fuse", "spot", "source", "target", "done"}

\* No command of p writes a value it reads.
ReadsOthers(p) == \A k \in 1..Len(p) : ToSet(p[k].out) \cap ToSet(p[k].args) = {}

\* No pass makes a command that writes a value it reads: the liveness
\* analysis that comes next would lose that value (peephole.py:470).
KeepsApart == ReadsOthers(case.commands) => ReadsOthers(commands)

\* The optimised function makes the loads, stores and calls of the original,
\* in the same order, with the same addresses and values (OPTIMIZATIONS.md).
SameTrace ==
  \/ IsPrefix(target.trace, source.trace)
  \/ ~Halted(source) /\ IsPrefix(source.trace, target.trace)

\* It returns when and only when the original does, and the same value.
SameEnd ==
  phase = "done" => target.result = source.result

\* It reads no value before it has written it: what the passes move or fuse
\* away is not needed in a place they have not reached.
NothingUnwritten ==
  phase = "target" /\ ~Halted(target) =>
    ToSet(commands[target.pc].args) \subseteq DOMAIN target.env \cup DOMAIN literals

\* The passes keep what the function does: its accesses and calls, its value,
\* and that it reads only what it has written (OPTIMIZATIONS.md).
SameBehaviour == PassesTypeOK /\ SameTrace /\ SameEnd /\ NothingUnwritten

\* Every literal the function uses has a place, as the comment at asm_gen.py:534
\* says.  Not so: registering a stride logs nothing, `spotted` lacks it, and its
\* value is read from a register that nobody writes.
LiteralsSpotted ==
  phase \notin {"simplify", "hoist", "reduce", "fuse", "spot"} =>
    \A k \in 1..Len(commands) : ToSet(commands[k].args) \cap DOMAIN literals \subseteq spotted

=============================================================================
