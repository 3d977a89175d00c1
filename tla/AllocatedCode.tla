--------------------------- MODULE AllocatedCode ---------------------------
(***************************************************************************)
(* The code the x86 back end emits, run beside the program it came from:   *)
(* ASMGen._generate_asm and its get_reg, over any assignment of places     *)
(* that respects the conflicts of _generate_graph.                         *)
(*                                                                         *)
(* Every value written carries a fresh tag.  env is what the intermediate  *)
(* language says a value holds; mach is what its place holds.              *)
(***************************************************************************)
EXTENDS ILProgram

CONSTANTS
  Spots,     \* registers and stack slots
  Pool,      \* all_registers: what get_reg may hand out
  Analysed,  \* programs, each with a result of the live-variable analysis
  MaxSteps   \* bound on the commands run

ASSUME SpotAssumption ==
  /\ Pool \subseteq Registers
  /\ Registers \subseteq Spots
  /\ IsFiniteSet(Pool)
ASSUME ProgramAssumption ==
  \A x \in Analysed :
    /\ WellFormed(x.code)
    /\ x.live \in [1..Len(x.code) -> SUBSET Vars]
    /\ \A i \in 1..Len(x.code) : x.live[i] = LiveIn(x.code, x.live, i)
ASSUME StepAssumption == MaxSteps \in Nat

VARIABLES
  program,  \* never changes
  livein,   \* what is live before each command; never changes
  spotmap,  \* the place of each value; never changes
  at,       \* the command to run, 0 when the code has stopped
  env,      \* the value each variable holds
  mach,     \* what each place holds
  clock,    \* commands run so far
  meant,    \* the inputs of the last command as the program defines them
  seen      \* and as the emitted code read them

vars == <<program, livein, spotmap, at, env, mach, clock, meant, seen>>

Commands == 1..Len(program)
Junk == <<>>
Tag(v) == <<clock + 1, v>>

-----------------------------------------------------------------------------
(***************************************************************************)
(* _generate_graph.                                                        *)
(***************************************************************************)
Apart(S, place) == \A v, w \in S : v # w => place[v] # place[w]

\* Mutant of RespectsGraph: values live across a command conflict with no
\* register it clobbers.
RespectsGraphUnclobbered(p, li, place) ==
  \A i \in 1..Len(p) :
    /\ Apart(li[i], place)
    /\ Apart(LiveOut(p, li, i), place)
    /\ \A v \in p[i].late : place[v] \notin p[i].clobber

RespectsGraph(p, li, place) ==
  \A i \in 1..Len(p) :
    /\ Apart(li[i], place)
    /\ Apart(LiveOut(p, li, i), place)
    /\ \A v \in li[i] \cap LiveOut(p, li, i) : place[v] \notin p[i].clobber
    /\ \A v \in p[i].late : place[v] \notin p[i].clobber

Init ==
  /\ \E x \in Analysed : program = x.code /\ livein = x.live
  /\ spotmap \in { place \in [Vars -> Spots] : RespectsGraph(program, livein, place) }
  /\ at = IF Commands = {} THEN 0 ELSE 1
  /\ env = [v \in Vars |-> Junk]
  /\ mach = [s \in Spots |-> Junk]
  /\ clock = 0
  /\ meant = <<>>
  /\ seen = <<>>

-----------------------------------------------------------------------------
(***************************************************************************)
(* get_reg.                                                                *)
(***************************************************************************)
Places(S) == { spotmap[v] : v \in S }

\* bad_spots before conf: places of what is live across, the outputs' excepted.
Busy(i) ==
  Places(livein[i] \cap LiveOut(program, livein, i)) \ Places(Elems(program[i].out))

Free(i) == Pool \ (Busy(i) \cup Places(program[i].kept))

Parkable(i) == Pool \ (Places(program[i].kept) \cup Places(Elems(program[i].in)))

\* The scratch registers command i may get: free ones while there are any.
\* They are chosen anew at every visit, which covers the compiler's choice.
Scratch(i) ==
  { S \in SUBSET (Free(i) \cup Parkable(i)) :
      /\ Cardinality(S) = program[i].asks
      /\ S \subseteq Free(i) \/ Free(i) \subseteq S }

\* The others held something live across and are parked in slots of their own.
Parked(i, S) == S \ Free(i)

\* Mutant of Restored: parked registers are not loaded back.
RestoredNever(i, S, j, taken) == {}

\* The loads that bring them back follow the command, so a jump skips them.
Restored(i, S, j, taken) == IF taken THEN {} ELSE Parked(i, S)

-----------------------------------------------------------------------------
\* Where each input of command i is read: before its scratch registers S are
\* written, after that, or after the registers it clobbers are written too.
ReadFrom(i, S, v) ==
  LET s == spotmap[v]
  IN  IF \/ v \in program[i].kept /\ s \in S
         \/ v \in program[i].late /\ s \in program[i].clobber
      THEN Junk ELSE mach[s]

\* The places after command i, the restoring loads included.
After(i, S, restored) ==
  [s \in Spots |->
     IF s \in restored THEN mach[s]
     ELSE IF s \in Places(Elems(program[i].out))
          THEN Tag(CHOOSE v \in Elems(program[i].out) : spotmap[v] = s)
     ELSE IF s \in S \cup program[i].clobber THEN Junk
     ELSE mach[s]]

Run(i, S, j, taken) ==
  LET cmd == program[i]
  IN  /\ meant' = [v \in Elems(cmd.in) |-> env[v]]
      /\ seen' = [v \in Elems(cmd.in) |-> ReadFrom(i, S, v)]
      /\ env' = [v \in Vars |-> IF v \in Elems(cmd.out) THEN Tag(v) ELSE env[v]]
      /\ mach' = After(i, S, Restored(i, S, j, taken))
      /\ clock' = clock + 1
      /\ at' = j
      /\ UNCHANGED <<program, livein, spotmap>>

\* Command `at` runs and control goes on to the next one.
FallThrough ==
  /\ at # 0 /\ clock < MaxSteps
  /\ program[at].falls
  /\ at < Len(program)
  /\ \E S \in Scratch(at) : Run(at, S, at + 1, FALSE)

\* Command `at` runs and jumps to its label.
Branch ==
  /\ at # 0 /\ clock < MaxSteps
  /\ program[at].to # 0
  /\ \E S \in Scratch(at) : Run(at, S, program[at].to, TRUE)

\* Command `at` returns, or was the last.
Leave ==
  /\ at # 0 /\ clock < MaxSteps
  /\ \/ ~program[at].falls /\ program[at].to = 0
     \/ program[at].falls /\ at = Len(program)
  /\ \E S \in Scratch(at) : Run(at, S, 0, FALSE)

\* No register can be had for command `at`: the program is not compiled.
Refuse ==
  /\ at # 0
  /\ Scratch(at) = {}
  /\ at' = 0
  /\ meant' = <<>>
  /\ seen' = <<>>
  /\ UNCHANGED <<program, livein, spotmap, env, mach, clock>>

Next == FallThrough \/ Branch \/ Leave \/ Refuse

Spec == Init /\ [][Next]_vars

-----------------------------------------------------------------------------
Values == { Junk } \cup ((Nat \ {0}) \X Vars)

TypeOK ==
  /\ WellFormed(program)
  /\ livein \in [Commands -> SUBSET Vars]
  /\ spotmap \in [Vars -> Spots]
  /\ at \in 0..Len(program)
  /\ env \in [Vars -> Values]
  /\ mach \in [Spots -> Values]
  /\ clock \in 0..MaxSteps

\* The emitted code reads what the program means, wherever the program wrote
\* the value before.
ReadsRight ==
  \A v \in DOMAIN meant : meant[v] # Junk => seen[v] = meant[v]

\* No command that may jump asks for a scratch register.
JumpsAskNothing ==
  \A i \in Commands : program[i].to # 0 => program[i].asks = 0

\* The same, for code in which no restoring load can be jumped over.
ReadsRightOffBranches == JumpsAskNothing => ReadsRight

\* Every live value is in its place: the strengthening that is inductive.
LiveValuesInPlace ==
  JumpsAskNothing =>
    (at # 0 => \A v \in livein[at] : env[v] # Junk => mach[spotmap[v]] = env[v])

=============================================================================
