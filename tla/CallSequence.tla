---------------------------- MODULE CallSequence ----------------------------
(***************************************************************************)
(* One call, from the places the caller's arguments occupy to the homes of *)
(* the callee's parameters: Call.make_asm, the prologue the callee starts  *)
(* with, and the packed convention of -f-pack-args on both sides.          *)
(*                                                                         *)
(* An eightbyte is a sequence of parts.  Part p of value v is <<v, p>>;    *)
(* value 0 is the function pointer of an indirect call.  The code emitted  *)
(* and the code run are the same steps: there is no jump in either.        *)
(***************************************************************************)
EXTENDS Integers, Sequences, FiniteSets, SequencesExt

CONSTANTS
  Pool,      \* spots.registers: what get_reg and the allocator choose from, in order
  PackPool,  \* the registers packing and unpacking work in, in order
  ArgRegs,   \* rdi, rsi, ...
  XmmRegs,   \* xmm0, ...
  Temps,     \* where a cycle of moves may be parked
  RAX,
  Frame,     \* the place of a value that has no register
  Units,     \* parts of an eightbyte; a part is moved in chunks of 1, 2, 4, ...
  MaxArgs, MaxWords,  \* bounds on Calls: arguments, and eightbytes of one
  Calls      \* [args, direct, variadic, packing]: calls of one function each

Regs == ToSet(Pool)
Slots == (0..MaxArgs) \X (0..(MaxWords - 1))
Spots == Regs \cup ToSet(XmmRegs) \cup Slots

ASSUME RegisterAssumption ==
  /\ Units \in Nat \ {0} /\ MaxArgs \in Nat /\ MaxWords \in Nat \ {0}
  /\ Pool \in Seq(Regs) /\ ArgRegs \in Seq(Regs) /\ Temps \in Seq(Regs)
  /\ \A i, j \in DOMAIN ArgRegs : ArgRegs[i] = ArgRegs[j] => i = j
  /\ \A i \in DOMAIN Temps : Temps[i] \notin ToSet(ArgRegs)
  /\ Temps # <<>>
  /\ Regs \ (ToSet(ArgRegs) \cup {RAX}) # {}
  /\ ToSet(PackPool) \subseteq Regs
  /\ ToSet(ArgRegs) \cup {RAX} \subseteq ToSet(PackPool)
  /\ RAX \notin ToSet(ArgRegs)
  /\ ToSet(XmmRegs) \cap Regs = {}
  /\ (Regs \cup ToSet(XmmRegs)) \cap Slots = {}
  /\ XmmRegs \in Seq(ToSet(XmmRegs)) /\ XmmRegs # <<>>
  /\ Frame \notin Spots
ASSUME CallAssumption ==
  \A c \in Calls :
    /\ c.args \in Seq([value : 1..MaxArgs, class : {"int", "float", "struct"},
                       size : 1..(Units * MaxWords)])
    /\ Len(c.args) <= MaxArgs
    /\ \A i, j \in DOMAIN c.args : c.args[i].value = c.args[j].value => c.args[i] = c.args[j]
    /\ \A i \in DOMAIN c.args : (c.args[i].class = "struct") <=> (c.args[i].size > Units)

VARIABLES
  call,     \* never changes
  place,    \* value -> register or Frame, in the caller; <<>> once the callee is entered
  homes,    \* parameter -> register or Frame, in the callee; <<>> before it is entered
  mach,     \* spot -> the eightbyte it holds
  stack,    \* pushed eightbytes, the top of the stack first
  pending,  \* argument moves not yet made
  target,   \* the place the call reads its target from, Frame if it has none
  botched,  \* history: the values whose register relocating the pointer wrote over
  pc, n     \* the part of the sequence, and the steps of it already made

vars == <<call, place, homes, mach, stack, pending, target, botched, pc, n>>

Junk == <<>>
Zero == <<0>>
Blank == [u \in 1..Units |-> Junk]
Cleared == [u \in 1..Units |-> Zero]
Args == call.args
WordsOf(a) == (a.size + Units - 1) \div Units
Part(v, size, k) ==
  [u \in 1..Units |-> IF Units * k + u <= size THEN <<v, Units * k + u>> ELSE Junk]

Cut(w, size) == [u \in 1..Units |-> IF u <= size THEN w[u] ELSE Junk]
ZeroExtended(w, size) == [u \in 1..Units |-> IF u <= size THEN w[u] ELSE Zero]
Shl(w, k) == [u \in 1..Units |-> IF u > k THEN w[u - k] ELSE Zero]
Shr(w, k) == [u \in 1..Units |-> IF u + k <= Units THEN w[u + k] ELSE Zero]
Or(w, v) == [u \in 1..Units |-> IF w[u] = Zero THEN v[u] ELSE IF v[u] = Zero THEN w[u] ELSE Junk]

-----------------------------------------------------------------------------
(***************************************************************************)
(* Who goes where.                                                         *)
(***************************************************************************)
\* Counters k = [ii, fi, si] of integer registers, vector registers and stack slots.
After(way, a, k) ==
  CASE way = "gpr" -> [k EXCEPT !.ii = @ + 1]
    [] way \in {"regs", "skip"} -> [k EXCEPT !.ii = @ + WordsOf(a)]
    [] way = "xmm" -> [k EXCEPT !.fi = @ + 1]
    [] way = "stack" -> [k EXCEPT !.si = @ + WordsOf(a)]

\* The counters before each argument.
Counted(Way(_, _), args) ==
  LET k[i \in 1..(Len(args) + 1)] ==
        IF i = 1 THEN [ii |-> 0, fi |-> 0, si |-> 0]
        ELSE After(Way(args[i - 1], k[i - 1]), args[i - 1], k[i - 1])
  IN  k

CallerWay(a, k) ==
  CASE a.class = "struct" ->
         IF a.size <= 2 * Units /\ k.ii + WordsOf(a) <= Len(ArgRegs) THEN "regs" ELSE "stack"
    [] a.class = "float" -> IF k.fi < Len(XmmRegs) THEN "xmm" ELSE "stack"
    [] OTHER -> IF k.ii < Len(ArgRegs) THEN "gpr" ELSE "stack"

\* A variadic call pushes everything, and loads what has a register as well.
VariadicWay(a, k) == IF a.class = "struct" THEN "skip" ELSE CallerWay(a, k)

\* The parameters as the callee expects them.
CalleeWay(a, k) ==
  CASE a.class = "struct" /\ a.size <= 2 * Units /\ k.ii + WordsOf(a) <= Len(ArgRegs) -> "regs"
    [] a.class = "float" /\ k.fi < Len(XmmRegs) -> "xmm"
    [] a.class = "int" /\ k.ii < Len(ArgRegs) -> "gpr"
    [] OTHER -> "stack"
AllStackWay(a, k) == "stack"

\* pack_plan: the register and the offset of each parameter, in order.
Fields(args) ==
  LET f[i \in 1..Len(args)] ==
        IF i = 1 THEN [reg |-> 1, off |-> 0]
        ELSE LET end == f[i - 1].off + args[i - 1].size
             IN  IF end + args[i].size > Units THEN [reg |-> f[i - 1].reg + 1, off |-> 0]
                 ELSE [reg |-> f[i - 1].reg, off |-> end]
  IN  f
PackRegs(args) == Fields(args)[Len(args)].reg

\* pack_plan returns None where packing saves no register.
Packable(args) ==
  /\ args # <<>>
  /\ \A i \in DOMAIN args : args[i].class = "int"
  /\ PackRegs(args) < Len(args)
  /\ PackRegs(args) < Len(ArgRegs)

\* optimize: only calls of a function by its name are packed.
Packed == call.packing /\ call.direct /\ ~call.variadic /\ Packable(Args)
Packers == SubSeq(ArgRegs, 1, PackRegs(Args))

Spot(v) == IF place[v] = Frame THEN <<v, 0>> ELSE place[v]
Counters == IF call.variadic THEN Counted(VariadicWay, Args) ELSE Counted(CallerWay, Args)
WayOf(i) == IF call.variadic THEN VariadicWay(Args[i], Counters[i]) ELSE CallerWay(Args[i], Counters[i])
Going(way) == IF Packed THEN {} ELSE { i \in DOMAIN Args : WayOf(i) = way }

\* int_moves, struct_reg_moves and flt_moves.
IntMoves ==
  { [to |-> ArgRegs[Counters[i].ii + 1], from |-> Spot(Args[i].value), size |-> Args[i].size] :
      i \in Going("gpr") }
StructRegs == UNION { { Counters[i].ii + k : k \in 1..WordsOf(Args[i]) } : i \in Going("regs") }
IntRegsUsed ==
  IF Packed THEN ToSet(Packers) ELSE { m.to : m \in IntMoves } \cup { ArgRegs[r] : r \in StructRegs }

\* stack_slots: low eightbyte first.
SlotsOf(a) ==
  IF a.class = "struct" THEN [k \in 1..WordsOf(a) |-> <<a.value, k - 1>>] ELSE <<Spot(a.value)>>
StackSlots ==
  IF Packed THEN <<>>
  ELSE FlattenSeq([i \in DOMAIN Args |->
         IF call.variadic \/ i \in Going("stack") THEN SlotsOf(Args[i]) ELSE <<>>])

-----------------------------------------------------------------------------
(***************************************************************************)
(* The caller.                                                             *)
(***************************************************************************)
SizeOf(c, v) ==
  IF v = 0 THEN Units ELSE c.args[CHOOSE i \in DOMAIN c.args : c.args[i].value = v].size
Values(c) == { c.args[i].value : i \in DOMAIN c.args } \cup (IF c.direct THEN {} ELSE {0})
InMemory(c) == { c.args[i].value : i \in { j \in DOMAIN c.args : c.args[j].class # "int" } }

\* The conflicts the allocator is given: values needed at once, and abs_spot_conf
\* of the pointer.
CallerPlaces(c) ==
  { p \in [Values(c) -> Regs \cup {Frame}] :
      /\ \A v \in InMemory(c) : p[v] = Frame
      /\ \A v, w \in Values(c) : p[v] = p[w] => v = w \/ p[v] = Frame
      /\ ~c.direct => p[0] \notin { ArgRegs[i] : i \in DOMAIN c.args \cap DOMAIN ArgRegs } }

Init ==
  /\ call \in Calls
  /\ place \in CallerPlaces(call)
  /\ homes = <<>>
  /\ mach = [s \in Spots |->
       IF s \in Slots
       THEN IF s[1] \in Values(call) /\ place[s[1]] = Frame
            THEN Part(s[1], SizeOf(call, s[1]), s[2]) ELSE Blank
       ELSE IF \E v \in Values(call) : place[v] = s
            THEN LET v == CHOOSE w \in Values(call) : place[w] = s
                 IN  Part(v, SizeOf(call, v), 0)
            ELSE Blank]
  /\ stack = <<>>
  /\ pending = {}
  /\ target = IF call.direct THEN Frame ELSE Spot(0)
  /\ botched = {}
  /\ pc = "pad"
  /\ n = 0

\* What a list of registers has outside S, and the first of it.
Outside(list, S) == SelectSeq(list, LAMBDA r : r \notin S)
FirstOutside(list, S) ==
  list[CHOOSE k \in DOMAIN list : list[k] \notin S /\ \A j \in 1..(k - 1) : list[j] \in S]

At(p, m) == pc = p /\ n = m
Step == n' = n + 1 /\ UNCHANGED pc
Goto(p) == pc' = p /\ n' = 0
KeepCall == UNCHANGED <<call, place, botched>>

\* The frame keeps rsp aligned: an odd number of pushes is preceded by 8 bytes.
Pad ==
  /\ pc = "pad"
  /\ stack' = IF Len(StackSlots) % 2 = 1 THEN <<Blank>> ELSE <<>>
  /\ Goto("push")
  /\ KeepCall /\ UNCHANGED <<homes, mach, pending, target>>

\* Right to left, so that the first ends up at the top.
PushSlot ==
  /\ pc = "push" /\ n < Len(StackSlots)
  /\ stack' = <<mach[StackSlots[Len(StackSlots) - n]]>> \o stack
  /\ Step
  /\ KeepCall /\ UNCHANGED <<homes, mach, pending, target>>

\* Mutant of Avoid: the vector count of a variadic call is forgotten.
AvoidArguments == IntRegsUsed
Avoid == IntRegsUsed \cup (IF call.variadic THEN {RAX} ELSE {})
Relocates == ~call.direct /\ Spot(0) \in Avoid
\* get_reg([], avoid): nothing that lives through a call is in a register listed before
\* the first one free.
Relocation == FirstOutside(Pool, Avoid)

Aim ==
  /\ At("push", Len(StackSlots))
  /\ IF Relocates
     THEN /\ target' = Relocation
          /\ mach' = [mach EXCEPT ![Relocation] = mach[Spot(0)]]
          /\ botched' = { v \in Values(call) \ {0} : place[v] = Relocation }
     ELSE UNCHANGED <<target, mach, botched>>
  /\ pending' = { m \in IntMoves : m.from # m.to }
  /\ Goto(IF Packed THEN "pack" ELSE "moves")
  /\ UNCHANGED <<call, place, homes, stack>>

Wanted == [r \in { m.to : m \in IntMoves } |->
  LET i == CHOOSE j \in Going("gpr") : ArgRegs[Counters[j].ii + 1] = r
  IN  [word |-> Part(Args[i].value, Args[i].size, 0), size |-> Args[i].size]]
Scheduler == INSTANCE ParallelMoves WITH
  Targets <- ToSet(ArgRegs), wanted <- Wanted,
  Atoms <- {Junk, Zero} \cup ((0..MaxArgs) \X (1..(MaxWords * Units)))

MoveInt == pc = "moves" /\ KeepCall /\ Scheduler!MoveReady /\ UNCHANGED <<homes, stack, target, pc, n>>
BreakCycle == pc = "moves" /\ KeepCall /\ Scheduler!BreakCycle /\ UNCHANGED <<homes, stack, target, pc, n>>

\* The widest mov of what remains of a structure, at most an eightbyte.
Chunk(remaining) == Max({ c \in {1, 2, 4, 8} : c <= remaining /\ c <= Units })
StructLoads ==
  FlattenSeq([i \in DOMAIN Args |->
    IF i \in Going("regs")
    THEN [k \in 1..WordsOf(Args[i]) |->
           [to |-> ArgRegs[Counters[i].ii + k], from |-> <<Args[i].value, k - 1>>,
            size |-> Chunk(Args[i].size - Units * (k - 1))]]
    ELSE <<>>])
FloatLoads ==
  FlattenSeq([i \in DOMAIN Args |->
    IF i \in Going("xmm")
    THEN <<[to |-> XmmRegs[Counters[i].fi + 1], from |-> Spot(Args[i].value), size |-> Args[i].size]>>
    ELSE <<>>])
Loads == StructLoads \o FloatLoads

\* Structures and floating arguments come from memory, after every integer move.
LoadRest ==
  /\ pc = "moves" /\ pending = {} /\ n < Len(Loads)
  /\ LET l == Loads[n + 1] IN mach' = [mach EXCEPT ![l.to] = Cut(mach[l.from], l.size)]
  /\ Step
  /\ KeepCall /\ UNCHANGED <<homes, stack, pending, target>>

\* AL says how many vector registers a variadic call used.
Count ==
  /\ At("moves", Len(Loads)) /\ pending = {}
  /\ mach' = IF call.variadic THEN [mach EXCEPT ![RAX] = Blank] ELSE mach
  /\ Goto("jump")
  /\ KeepCall /\ UNCHANGED <<homes, stack, pending, target>>

-----------------------------------------------------------------------------
(***************************************************************************)
(* _emit_pack: each packed register is put together out of the way and     *)
(* delivered when every argument has been read.                            *)
(***************************************************************************)
Sources == { Spot(Args[i].value) : i \in DOMAIN Args } \cap Regs
\* Mutant of Free: a register that still holds an argument is worked in.
FreeOfTargets == Outside(PackPool, ToSet(Packers))
Free == Outside(PackPool, Sources \cup ToSet(Packers))
\* One register to work in and one for each packed register; otherwise the stack.
InRegisters == Len(Free) >= Len(Packers) + 1
Accumulator(r) == Free[1 + r]
SavesRAX == RAX \in Sources
Reserved == Len(Packers) + (IF SavesRAX THEN 1 ELSE 0)

Reserve ==
  /\ pc = "pack"
  /\ stack' = IF InRegisters THEN stack
              ELSE [i \in 1..Reserved |-> IF i <= Len(Packers) THEN Cleared ELSE mach[RAX]] \o stack
  /\ Goto("fields")
  /\ KeepCall /\ UNCHANGED <<homes, mach, pending, target>>

Shifted(i, word) == Shl(ZeroExtended(word, Args[i].size), Fields(Args)[i].off)
Started(i, word) == IF Fields(Args)[i].off = 0 THEN Cleared ELSE word

PackInRegister ==
  /\ pc = "fields" /\ n < Len(Args) /\ InRegisters
  /\ LET i == n + 1
         acc == Accumulator(Fields(Args)[i].reg)
         work == Shifted(i, mach[Spot(Args[i].value)])
     IN  mach' = [mach EXCEPT ![Free[1]] = work, ![acc] = Or(Started(i, mach[acc]), work)]
  /\ Step
  /\ KeepCall /\ UNCHANGED <<homes, stack, pending, target>>

PackOnStack ==
  /\ pc = "fields" /\ n < Len(Args) /\ ~InRegisters
  /\ LET i == n + 1
         acc == Fields(Args)[i].reg
         from == Spot(Args[i].value)
         work == Shifted(i, IF from = RAX THEN stack[Len(Packers) + 1] ELSE mach[from])
     IN  /\ mach' = [mach EXCEPT ![RAX] = work]
         /\ stack' = [stack EXCEPT ![acc] = Or(@, work)]
  /\ Step
  /\ KeepCall /\ UNCHANGED <<homes, pending, target>>

Deliver ==
  /\ pc = "fields" /\ n \in Len(Args)..(Len(Args) + Len(Packers) - 1)
  /\ LET r == n - Len(Args) + 1
     IN  mach' = [mach EXCEPT ![Packers[r]] = IF InRegisters THEN mach[Accumulator(r)] ELSE stack[r]]
  /\ Step
  /\ KeepCall /\ UNCHANGED <<homes, stack, pending, target>>

Release ==
  /\ At("fields", Len(Args) + Len(Packers))
  /\ stack' = IF InRegisters THEN stack ELSE SubSeq(stack, Reserved + 1, Len(stack))
  /\ Goto("jump")
  /\ KeepCall /\ UNCHANGED <<homes, mach, pending, target>>

-----------------------------------------------------------------------------
(***************************************************************************)
(* The callee.  Its homes come from its own allocation, of which the       *)
(* caller knows nothing; it finds nothing in a register that carries no    *)
(* argument.                                                               *)
(***************************************************************************)
ParamCounters == IF call.variadic THEN Counted(AllStackWay, Args) ELSE Counted(CalleeWay, Args)
ParamWay(i) == IF call.variadic THEN "stack" ELSE CalleeWay(Args[i], ParamCounters[i])
ParamRegs(i) ==
  CASE ParamWay(i) = "gpr" -> { ArgRegs[ParamCounters[i].ii + 1] }
    [] ParamWay(i) = "regs" -> { ArgRegs[ParamCounters[i].ii + k] : k \in 1..WordsOf(Args[i]) }
    [] OTHER -> {}

\* The conflicts of the prologue: parameters are needed at once, and one already
\* loaded stays out of the registers the later loads clobber.
CalleeHomes ==
  { h \in [DOMAIN Args -> Regs \cup {Frame}] :
      /\ \A i \in DOMAIN Args : Args[i].class # "int" => h[i] = Frame
      /\ \A i, j \in DOMAIN Args : h[i] = h[j] => i = j \/ h[i] = Frame
      /\ ~Packed => \A i, j \in DOMAIN Args : i < j => h[i] \notin ParamRegs(j) }

Enter ==
  /\ pc = "jump"
  /\ mach' = [s \in Spots |-> IF s \in ToSet(ArgRegs) \cup ToSet(XmmRegs) THEN mach[s] ELSE Blank]
  /\ place' = <<>> /\ target' = Frame
  /\ Goto("entry")
  /\ UNCHANGED <<call, homes, stack, pending, botched>>

Settle ==
  /\ pc = "entry"
  /\ homes' \in CalleeHomes
  /\ Goto(IF Packed THEN "stage" ELSE "load")
  /\ KeepCall /\ UNCHANGED <<mach, stack, pending, target>>

Home(i, k) == IF homes[i] = Frame THEN <<i, k>> ELSE homes[i]
HomeRegs == { homes[i] : i \in DOMAIN homes } \cap Regs
LastPart(a, k) == IF a.size - Units * k < Units THEN a.size - Units * k ELSE Units

\* LoadArg from an integer or a vector register.
LoadRegister ==
  /\ pc = "load" /\ n < Len(Args) /\ ParamWay(n + 1) \in {"gpr", "xmm"}
  /\ LET i == n + 1
         from == IF ParamWay(i) = "gpr" THEN ArgRegs[ParamCounters[i].ii + 1]
                 ELSE XmmRegs[ParamCounters[i].fi + 1]
     IN  mach' = [mach EXCEPT ![Home(i, 0)] = Cut(mach[from], Args[i].size)]
  /\ Step
  /\ KeepCall /\ UNCHANGED <<homes, stack, pending, target>>

\* LoadStructArg from its registers.
LoadStruct ==
  /\ pc = "load" /\ n < Len(Args) /\ ParamWay(n + 1) = "regs"
  /\ LET i == n + 1
     IN  mach' = [s \in Spots |->
           IF \E k \in 1..WordsOf(Args[i]) : s = <<i, k - 1>>
           THEN Cut(mach[ArgRegs[ParamCounters[i].ii + s[2] + 1]], Chunk(Args[i].size - Units * s[2]))
           ELSE mach[s]]
  /\ Step
  /\ KeepCall /\ UNCHANGED <<homes, stack, pending, target>>

\* The register that a load from the stack to memory leaves changed, of a floating
\* argument too: the first in which get_reg() finds nothing loaded already.  Without
\* one, a register is parked for the load and restored.
Scratch(i) ==
  LET free == Outside(Pool, { homes[j] : j \in 1..(i - 1) })
  IN  IF free = <<>> THEN {} ELSE {free[1]}

\* LoadArg and LoadStructArg from the stack; memory is reached through a register.
LoadStack ==
  /\ pc = "load" /\ n < Len(Args) /\ ParamWay(n + 1) = "stack"
  /\ LET i == n + 1
         word(k) == Cut(stack[ParamCounters[i].si + k + 1], LastPart(Args[i], k))
         last == WordsOf(Args[i]) - 1
     IN  IF homes[i] # Frame
         THEN mach' = [mach EXCEPT ![homes[i]] = word(0)]
         ELSE mach' = [s \in Spots |->
                IF \E k \in 0..last : s = <<i, k>> THEN word(s[2])
                ELSE IF s \in Scratch(i) THEN word(last) ELSE mach[s]]
  /\ Step
  /\ KeepCall /\ UNCHANGED <<homes, stack, pending, target>>

\* UnpackArgs: the packed registers are copied off the homes, or pushed.
Vacant == Outside(PackPool, HomeRegs)
ByWork == IF Frame \in ToSet(homes) THEN 1 ELSE 0
CopiesFit == Len(Vacant) >= Len(Packers) + ByWork

StageCopy ==
  /\ pc = "stage" /\ n < Len(Packers) /\ CopiesFit
  /\ mach' = [mach EXCEPT ![Vacant[n + 1]] = mach[Packers[n + 1]]]
  /\ Step
  /\ KeepCall /\ UNCHANGED <<homes, stack, pending, target>>

StagePush ==
  /\ pc = "stage" /\ n < Len(Packers) /\ ~CopiesFit
  /\ stack' = <<mach[Packers[n + 1]]>> \o stack
  /\ Step
  /\ KeepCall /\ UNCHANGED <<homes, mach, pending, target>>

Staged ==
  /\ At("stage", Len(Packers))
  /\ Goto("extract")
  /\ KeepCall /\ UNCHANGED <<homes, mach, stack, pending, target>>

Copy(r) == IF CopiesFit THEN mach[Vacant[r]] ELSE stack[Len(Packers) - r + 1]
Work == Vacant[IF CopiesFit THEN Len(Packers) + 1 ELSE 1]

\* A home in memory takes the field through one more register.
Extract ==
  /\ pc = "extract" /\ n < Len(Args)
  /\ LET i == n + 1
         field == Shr(Copy(Fields(Args)[i].reg), Fields(Args)[i].off)
     IN  mach' = IF homes[i] # Frame THEN [mach EXCEPT ![homes[i]] = field]
                 ELSE [mach EXCEPT ![Work] = field, ![<<i, 0>>] = Cut(field, Args[i].size)]
  /\ Step
  /\ KeepCall /\ UNCHANGED <<homes, stack, pending, target>>

Begin ==
  /\ At(IF Packed THEN "extract" ELSE "load", Len(Args))
  /\ stack' = IF Packed /\ ~CopiesFit THEN SubSeq(stack, Len(Packers) + 1, Len(stack)) ELSE stack
  /\ Goto("body")
  /\ KeepCall /\ UNCHANGED <<homes, mach, pending, target>>

\* The parameters are in place; the rest of the function is not modelled here.
Body == pc = "body" /\ UNCHANGED vars

Next ==
  \/ Pad \/ PushSlot \/ Aim \/ MoveInt \/ BreakCycle \/ LoadRest \/ Count
  \/ Reserve \/ PackInRegister \/ PackOnStack \/ Deliver \/ Release
  \/ Enter \/ Settle \/ LoadRegister \/ LoadStruct \/ LoadStack
  \/ StageCopy \/ StagePush \/ Staged \/ Extract \/ Begin \/ Body

Spec == Init /\ [][Next]_vars
\* Straight code: a thread that is scheduled runs it to its end.
RunSpec == Spec /\ WF_vars(Next)

-----------------------------------------------------------------------------
\* The bytes of eightbyte k of parameter i that a load brings home: the last mov of a
\* structure in registers may be too narrow.
Carried(i, k) ==
  IF ParamWay(i) = "regs" THEN Chunk(Args[i].size - Units * k) ELSE LastPart(Args[i], k)

Arrived(i, k) ==
  Scheduler!Agree(mach[Home(i, k)], Part(Args[i].value, Args[i].size, k), Carried(i, k))

\* What the code gets wrong, each for the one value it hits; README, "Met while modelling".
CopyOverSource(i) ==
  /\ Packed /\ CopiesFit
  /\ LET q == Fields(Args)[i].reg IN \E r \in 1..(q - 1) : Vacant[r] = Packers[q]
PointerOverArgument(i) == ParamWay(i) = "gpr" /\ Args[i].value \in botched
ScratchOverArgument(i, k) ==
  /\ ParamWay(i) \in {"gpr", "regs"}
  /\ \E j \in 1..(i - 1) : /\ ParamWay(j) = "stack" /\ homes[j] = Frame
                           /\ ArgRegs[ParamCounters[i].ii + k + 1] \in Scratch(j)
CyclicMoves ==
  LET ms == { m \in IntMoves : m.from # m.to }
  IN  \E C \in (SUBSET ms) \ {{}} : Scheduler!Reached(C) = Scheduler!Read(C)

(* Every eightbyte of every parameter is in its home when the body begins, whatever *)
(* the places the two allocations chose and whatever convention the call uses: the  *)
(* callee knows only the signature, the caller only its own places.  An eightbyte   *)
(* is excepted when one of three named steps wrote over that one on its way.        *)
ArgumentsArrive ==
  pc = "body" =>
    \A i \in DOMAIN Args : \A k \in 0..(WordsOf(Args[i]) - 1) :
      \/ PointerOverArgument(i) \/ CopyOverSource(i) \/ ScratchOverArgument(i, k)
      \/ Arrived(i, k)

(* The call jumps through the pointer it was given and with rsp aligned, after as  *)
(* many moves and pushes as there are: the relocation of the pointer protects it   *)
(* from them, unless it sits in the register that breaks cycles of moves.          *)
CallLandsAligned ==
  pc = "jump" =>
    /\ Len(stack) % 2 = 0
    /\ ~call.direct => \/ mach[target] = Part(0, Units, 0)
                       \/ CyclicMoves /\ target = Temps[1]

(* During the moves no move still to be made has lost its source and no target     *)
(* already reached its value, unless the relocated pointer took a source's place.  *)
MovesOnCourse == pc = "moves" /\ n = 0 => botched # {} \/ Scheduler!OnCourse

(* The sequence reaches the body: a move is always ready or a cycle can be broken, *)
(* and a register is found for each step that needs one.                           *)
CallCompletes == <>(pc = "body")

(* value.py:271: the copies of the packed registers are no homes, so that writing  *)
(* a home cannot corrupt a field still needed; each field reaches its parameter.   *)
FieldsArrive == pc = "body" /\ Packed => \A i \in DOMAIN Args : Arrived(i, 0)
=============================================================================
