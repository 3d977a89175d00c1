----------------------------- MODULE ILMachine -----------------------------
(***************************************************************************)
(* The commands of a function as the peephole passes see them, and what    *)
(* running them means: the instructions make_asm emits, over unbounded     *)
(* integers, with the values in places of their own.                       *)
(***************************************************************************)
EXTENDS Integers, Sequences, FiniteSets

CONSTANTS
  Names,        \* the values of a function
  LabelNames,
  Globals,      \* the values that a called function can change
  Content(_)    \* what a memory cell holds at the start

Arith == {"set", "add", "sub", "mul", "less"}
Jumps == {"jump", "jz", "jnz", "jless", "jnotless"}

\* How many values each command reads.
Arity == [op \in Arith \cup Jumps \cup {"label", "read", "store", "call", "return"} |->
           CASE op \in {"label", "jump"} -> 0
             [] op \in {"set", "jz", "jnz", "read", "call", "return"} -> 1
             [] OTHER -> 2]

(***************************************************************************)
(* op, out, args, label: the class of the command, outputs(), inputs(),    *)
(* and the label it marks or jumps to ("" for none).  A comparison fused   *)
(* with the jump after it is "jless" or "jnotless".                        *)
(***************************************************************************)
Cmd(op, out, args, label) == [op |-> op, out |-> out, args |-> args, label |-> label]

IsCommand(c) ==
  /\ c.op \in DOMAIN Arity
  /\ Len(c.args) = Arity[c.op]
  /\ \A k \in 1..Len(c.args) : c.args[k] \in Names
  /\ \A k \in 1..Len(c.out) : c.out[k] \in Names
  /\ Len(c.out) = IF c.op \in Arith \cup {"read"} THEN 1 ELSE 0
  /\ IF c.op \in Jumps \cup {"label"} THEN c.label \in LabelNames ELSE c.label = ""

Targets(c) == IF c.op \in Jumps THEN {c.label} ELSE {}

\* Where the label l stands in p: nowhere or at one place.
At(p, l) == { k \in 1..Len(p) : p[k].op = "label" /\ p[k].label = l }

(***************************************************************************)
(* A machine: the next command, the values written so far, the memory      *)
(* cells written so far, the loads, stores and calls made, and the value   *)
(* returned.                                                               *)
(***************************************************************************)
Boot(env) == [pc |-> 1, env |-> env, mem |-> << >>, trace |-> << >>, result |-> << >>]

Halted(m) == m.result # << >>

\* The place of a value that nothing wrote holds anything; here 0.
Val(m, lits, v) ==
  IF v \in DOMAIN lits THEN lits[v] ELSE IF v \in DOMAIN m.env THEN m.env[v] ELSE 0

Cell(m, a) == IF a \in DOMAIN m.mem THEN m.mem[a] ELSE Content(a)

Computed(op, x) ==
  CASE op = "set" -> x[1]
    [] op = "add" -> x[1] + x[2]
    [] op = "sub" -> x[1] - x[2]
    [] op = "mul" -> x[1] * x[2]
    [] op = "less" -> IF x[1] < x[2] THEN 1 ELSE 0

Taken(op, x) ==
  \/ op = "jump"
  \/ op = "jz" /\ x[1] = 0
  \/ op = "jnz" /\ x[1] # 0
  \/ op = "jless" /\ x[1] < x[2]
  \/ op = "jnotless" /\ ~(x[1] < x[2])

Operands(m, c, lits) == [k \in 1..Len(c.args) |-> Val(m, lits, c.args[k])]

\* The place a gets the value x.
Put(places, a, x) == [b \in DOMAIN places \cup {a} |-> IF b = a THEN x ELSE places[b]]

PcAfter(m, p, x) ==
  LET c == p[m.pc]
  IN CASE c.op \in Jumps /\ Taken(c.op, x) -> CHOOSE k \in At(p, c.label) : TRUE
       [] c.op = "return" -> m.pc
       [] OTHER -> m.pc + 1

\* A call changes the globals.
EnvAfter(m, c, x) ==
  CASE c.op \in Arith -> Put(m.env, c.out[1], Computed(c.op, x))
    [] c.op = "read" -> Put(m.env, c.out[1], Cell(m, x[1]))
    [] c.op = "call" -> [v \in DOMAIN m.env |-> IF v \in Globals THEN m.env[v] + 1 ELSE m.env[v]]
    [] OTHER -> m.env

\* The load, store or call that c makes.
Access(m, c, x) ==
  CASE c.op = "read" -> << <<"read", x[1], Cell(m, x[1])>> >>
    [] c.op = "store" -> << <<"store", x[1], x[2]>> >>
    [] c.op = "call" -> << <<"call", x[1]>> >>
    [] OTHER -> << >>

\* The machine m after one command of p; lits are the literals.
Executed(m, p, lits) ==
  LET c == p[m.pc]
      x == Operands(m, c, lits)
  IN [pc |-> PcAfter(m, p, x), env |-> EnvAfter(m, c, x),
      mem |-> IF c.op = "store" THEN Put(m.mem, x[1], x[2]) ELSE m.mem,
      trace |-> m.trace \o Access(m, c, x),
      result |-> IF c.op = "return" THEN <<x[1]>> ELSE m.result]

=============================================================================
