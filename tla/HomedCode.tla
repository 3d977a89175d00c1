----------------------------- MODULE HomedCode -----------------------------
(***************************************************************************)
(* The code _lower_arm64 emits over the homes LinearScan gives, run beside *)
(* the program it came from.                                               *)
(*                                                                         *)
(* Every value computed carries a fresh tag.  env is what the intermediate *)
(* language says a value holds; mach is what its home holds.               *)
(***************************************************************************)
EXTENDS LinearScan

CONSTANT MaxSteps  \* bound on the commands run

ASSUME StepAssumption == MaxSteps \in Nat

\* The registers numbered from 0 that as many arguments as S has take.
Numbered(S) == 0..(Cardinality(S) - 1)

(***************************************************************************)
(* A function ends in a return, loads its parameters first, and has an     *)
(* argument register for each of them and for each argument of a call: the *)
(* back end refuses a call of more, so a function of more is left out.     *)
(***************************************************************************)
ASSUME CodeAssumption ==
  \A p \in Programs :
    LET params(floats) ==
          { j \in 1..Len(p) : p[j].op = "arg" /\ (p[j].out[1] \in Floats) = floats }
        args(i, floats) ==
          { k \in 1..Len(p[i].in) : (p[i].in[k] \in Floats) = floats }
    IN  /\ p # <<>> /\ p[Len(p)].op = "return"
        /\ Numbered(params(FALSE)) \subseteq ArgRegs
        /\ Numbered(params(TRUE)) \subseteq FpArgs
        /\ \A i \in 1..Len(p) :
             /\ p[i].op = "arg" => \A j \in 1..i : p[j].op = "arg"
             /\ p[i].op = "branch" => p[i].out = <<>>
             /\ p[i].op = "call" => /\ Numbered(args(i, FALSE)) \subseteq ArgRegs
                                    /\ Numbered(args(i, TRUE)) \subseteq FpArgs

VARIABLES
  pc,     \* the command to run, 0 outside the function
  env,    \* the value each variable holds
  mach,   \* what each register, slot and static value holds
  clock,  \* commands run so far
  meant,  \* what the last command reads, as the program defines it
  seen    \* and as the emitted instructions read it

runVars == <<pc, env, mach, clock, meant, seen>>
vars == <<allocVars, runVars>>

Junk == <<>>
Tag(v) == <<"computed", clock + 1, v>>
AddressOf(v) == <<"address", 0, v>>

Static(v) == <<"static", v>>
Frame == { Slot(k) : k \in 0..(off - 1) }
Places == Registers \cup Frame \cup { Static(v) : v \in Statics }

\* What the i-th command's parameter is, and where it arrives.
Parameter(v) == <<"parameter", 0, v>>

Before(i, floating) == Cardinality({ j \in 1..(i - 1) : IsLoad(j, floating) })

Incoming(i) ==
  IF program[i].out[1] \in Floats THEN Fpr(Before(i, TRUE)) ELSE Gpr(Before(i, FALSE))

Loads == { i \in Commands : program[i].op = "arg" }

\* The caller's own data in a callee-saved register.
Kept(x) == <<"kept", 0, x>>

RunInit ==
  /\ Init
  /\ pc = 0
  /\ env = [v \in Vars |-> IF v \in Statics THEN <<"initial", 0, v>> ELSE Junk]
  /\ mach = [x \in Registers |-> IF x \in CalleeSaved THEN Kept(x) ELSE Junk]
  /\ clock = 0
  /\ meant = <<>> /\ seen = <<>>

\* The k-th word of the save area belongs to the k-th register used: those
\* that hold integers first, each kind by its number.
Comes(x, y) == \/ x[1] = "int" /\ y[1] = "fp"
               \/ x[1] = y[1] /\ x[2] < y[2]
SaveWord(x) == Slot(2 + Cardinality({ y \in used : Comes(y, x) }))

\* Mutant of Saved: nothing is stored at the entry.
SavedNothing(m) == m

Saved(m) ==
  [x \in DOMAIN m |-> IF \E y \in used : SaveWord(y) = x
                      THEN m[CHOOSE y \in used : SaveWord(y) = x] ELSE m[x]]

Restored(m) == [x \in DOMAIN m |-> IF x \in used THEN m[SaveWord(x)] ELSE m[x]]

\* What the function finds when it is called.
Arrival ==
  [x \in Places |->
     IF x \in CalleeSaved THEN Kept(x)
     ELSE IF x[1] = "static" THEN env[x[2]]
     ELSE IF \E i \in Loads : Incoming(i) = x
     THEN Parameter(program[CHOOSE i \in Loads : Incoming(i) = x].out[1])
     ELSE Junk]

\* The prologue: the registers used are saved, cached addresses are loaded.
Enter ==
  /\ phase = "run" /\ pc = 0 /\ clock = 0
  /\ mach' = [x \in Places |->
                IF \E v \in DOMAIN gaddr : Gpr(gaddr[v]) = x
                THEN AddressOf(CHOOSE v \in DOMAIN gaddr : Gpr(gaddr[v]) = x)
                ELSE Saved(Arrival)[x]]
  /\ pc' = 1
  /\ clock' = 1
  /\ UNCHANGED <<allocVars, env, meant, seen>>

-----------------------------------------------------------------------------
\* The commands no code is emitted for: copies to the home they come from, and
\* branches that the comparison before them makes.
Skipped(i) ==
  \/ program[i].op = "set" /\ program[i].in # <<>> /\ program[i].in[1] \in DOMAIN coalesce
  \/ (i - 1) \in fuse

\* The register that should hold the address of v holds something else.
Astray(m, v) == v \in DOMAIN gaddr /\ m[Gpr(gaddr[v])] # AddressOf(v)

\* Reading v from the machine m.
Load(m, v) ==
  IF v \notin Statics THEN m[home[v]]
  ELSE IF Astray(m, v) THEN Junk
  ELSE m[Static(v)]

\* Writing it: through a wrong address, v stays as it was.
Store(m, v, x) ==
  IF v \notin Statics THEN [m EXCEPT ![home[v]] = x]
  ELSE IF Astray(m, v) THEN m
  ELSE [m EXCEPT ![Static(v)] = x]

\* Where the k-th argument of call i goes.
Outgoing(i, k) ==
  LET same == { j \in 1..(k - 1) : program[i].in[j] \in Floats <=> program[i].in[k] \in Floats }
  IN  IF program[i].in[k] \in Floats THEN Fpr(Cardinality(same)) ELSE Gpr(Cardinality(same))

Pass(m, i, k) == [m EXCEPT ![Outgoing(i, k)] = Load(m, program[i].in[k])]

\* The arguments of call i are moved in order, each move reading what the
\* ones before it left.
Moved(i) ==
  LET moved[k \in 0..Len(program[i].in)] ==
        IF k = 0 THEN mach ELSE Pass(moved[k - 1], i, k)
  IN  moved[Len(program[i].in)]

\* What is left of the registers after a call.
Called(m) == [x \in DOMAIN m |-> IF x \in Registers \ CalleeSaved THEN Junk ELSE m[x]]

\* The address of a value in memory is a constant, unless a register caches it.
Reads(i) ==
  IF program[i].op = "address" THEN Elems(program[i].in) \cap DOMAIN gaddr
                               ELSE Elems(program[i].in)

Meaning(i, v) == IF program[i].op = "address" THEN AddressOf(v) ELSE env[v]

Found(i, v) ==
  IF program[i].op = "address" THEN mach[Gpr(gaddr[v])] ELSE Load(mach, v)

\* Command i computes its result, if it has one, and control goes on to j.
Compute(i, j) ==
  LET cmd == program[i]
      copied == /\ cmd.op = "set" /\ cmd.in # <<>>
                /\ SameKind(cmd.in[1], cmd.out[1])
      result(from, v) == IF cmd.op = "arg" THEN Parameter(v)
                         ELSE IF copied THEN from[cmd.in[1]] ELSE Tag(v)
      found(v) == IF cmd.op = "arg" THEN mach[Incoming(i)]
                  ELSE IF copied THEN Load(mach, cmd.in[1]) ELSE Tag(v)
      base == IF cmd.op = "call" THEN Called(Moved(i)) ELSE mach
  IN  /\ meant' = [v \in Reads(i) |-> Meaning(i, v)]
      /\ seen' = IF cmd.op = "call"
                 THEN [v \in Reads(i) |->
                         Moved(i)[Outgoing(i, CHOOSE k \in 1..Len(cmd.in) : cmd.in[k] = v)]]
                 ELSE [v \in Reads(i) |-> Found(i, v)]
      /\ env' = [v \in Vars |-> IF v \in Elems(cmd.out) THEN result(env, v) ELSE env[v]]
      /\ mach' = IF cmd.out = <<>> \/ i \in fuse THEN base
                 ELSE Store(base, cmd.out[1], found(cmd.out[1]))
      /\ clock' = clock + 1
      /\ pc' = j
      /\ UNCHANGED allocVars

Running == phase = "run" /\ pc # 0 /\ clock < MaxSteps

\* A command for which instructions are emitted, and the ways on from it.
Execute ==
  /\ Running
  /\ ~Skipped(pc) /\ pc \notin fuse
  /\ program[pc].op # "return"
  /\ \E j \in Succ(pc) : Compute(pc, j)

\* A fused comparison jumps where the branch after it would.
ExecuteFused ==
  /\ Running
  /\ pc \in fuse
  /\ \E j \in Succ(pc + 1) : Compute(pc, j)

\* A copy that is elided: nothing happens in the machine.
Elide ==
  /\ Running
  /\ program[pc].op = "set" /\ Skipped(pc)
  /\ env' = [env EXCEPT ![program[pc].out[1]] = env[program[pc].in[1]]]
  /\ clock' = clock + 1
  /\ pc' \in Succ(pc)
  /\ meant' = <<>> /\ seen' = <<>>
  /\ UNCHANGED <<allocVars, mach>>

\* The epilogue: what was saved is restored.
Leave ==
  /\ Running
  /\ program[pc].op = "return"
  /\ meant' = [v \in Reads(pc) |-> env[v]]
  /\ seen' = [v \in Reads(pc) |-> Load(mach, v)]
  /\ mach' = Restored(mach)
  /\ pc' = 0
  /\ clock' = clock + 1
  /\ UNCHANGED <<allocVars, env>>

\* The function has returned, or the bound is reached.
Finished ==
  /\ phase = "run" /\ clock > 0
  /\ pc = 0 \/ clock = MaxSteps
  /\ UNCHANGED vars

Next ==
  \/ AllocNext /\ UNCHANGED runVars
  \/ Enter \/ Execute \/ ExecuteFused \/ Elide \/ Leave \/ Finished

RunSpec == RunInit /\ [][Next]_vars

-----------------------------------------------------------------------------
ReadsRight == \A v \in DOMAIN meant : meant[v] # Junk => seen[v] = meant[v]

\* No temporary is copied to a value that is itself a temporary so copied.
NoChains == \A v \in DOMAIN coalesce : coalesce[v] \notin DOMAIN coalesce

(***************************************************************************)
(* The emitted code reads what the program means at every command, copies  *)
(* elided and comparisons fused, where no copy is chained to another.      *)
(***************************************************************************)
ReadsRightOffChains == NoChains => ReadsRight

\* A function that has returned leaves its caller's registers as they were.
CallerFindsRegisters ==
  (pc = 0 /\ clock > 0) => \A x \in CalleeSaved : mach[x] = Kept(x)

=============================================================================
