# A TLA+ verification project for ShivyCX

ShivyCX is an extended C compiler written in Python (`src/shivyc`), with a
Python-to-C translator, a small interpreter and a bare-metal kernel around it.
This directory holds TLA+ models of the parts of the compiler whose correctness
depends on the order of steps: graph algorithms that change what they iterate
over, fixpoint analyses, rewriting passes whose soundness rests on what another
pass did before, code that is emitted beside code that runs, moves of arguments
between two allocations that do not know of each other, routines that switch
between two threads' registers, and, from the programs around the compiler, the
network driver of the embedded mini system with its virtqueues. The modules are model-checked with TLC
on small instances; the core results are proved for every instance with TLAPS.

## 1. The system

One run of `main.main` compiles each input file (`process_c_file`) and links:

    extensions -> lexer -> preproc -> weak_alias -> parser -> tree (make_il) -> il_gen.ILCode
      -> memory_safety (auto free) -> inline, dce -> direct calls -> stackless,
         metamorphic -> simd_contracts -> pack_args -> simd_pack_promote
      -> near-scratch selection -> asm_gen (peephole, then per function: live
         variables, conflict graph, allocation, code) -> as -> ld

With several files and `-O4`, `-fmetamorphic` or `-fsimd-pack-globals`, a
whole-program call graph is built first from a front-end pass of its own and
consulted while each file is compiled. With `--emit-thread-switcher` the driver
of `thread_contracts` runs the whole pipeline twice.

| component | state it keeps | operations | what makes it hard | what makes it right |
|---|---|---|---|---|
| register allocator (`asm_gen._make_asm`) | conflict/preference graph and a working copy, stack, merge map, spot map, frame offset | simplify, coalesce, freeze, push, colour, spill | the copy is mutated while colours are chosen from the original; conservative tests; pool smaller than the clobber set | conflicting values apart, nothing in a clobbered register, no needless spill, it ends |
| live variables (`asm_gen._get_live_vars`) | lists of live-in/live-out values per command | backward passes until nothing changes | goto loops, lists compared in order | sound, a fixpoint, it ends |
| code generation over places (`asm_gen._generate_asm`, `il_cmds`) | parked registers, places | one command after another, scratch registers | a register parked for a command that jumps | every command reads what the program means |
| peephole (`peephole.py`) | rewritten commands, new values and literals | identities, hoisting, strength reduction, fusion | order of reads and writes in loops; literals that need places | same trace and same end as before |
| memory safety (`memory_safety.py`) | points-to, freed and escaped sets per block; summaries | data flow, reports, inserted frees | joins, loops, holders that are overwritten | converges, no false alarm, a free only of what is dead |
| call graph, inlining, dead functions, stackless, metamorphic, near-scratch (`callgraph`, `inline`, `dce`, `stackless`, `main`) | whole-program graph, captured bodies, annotations on calls | per-file passes over calls; safety checks that reason about all files | re-entry through pointers, other files, unknown code; one slot or buffer per function | returns go where the source's calls left off; a buffer serves one activation |
| thread partition driver (`thread_contracts.py`, `_apply_thread_budget`) | footprints, closure, budgets | scan, split, compile again | what the assembly does not name; pools that are too small | footprints cover the code, budgets stay apart |
| context switchers (generated by `thread_contracts`) | TCBs, cur/next pointers, timer vector, interrupt frames | four routines | the timer strikes anywhere; one thread's registers save another's | a thread resumes as it was left, sides take turns |
| arm64 back end (`_arm64_function` with `_il_liveness`, `_il_intervals`, `_il_coalesce_safe`, `_il_linear_scan`; riscv64 and m68k share the scan) | live sets, intervals, busy registers, homes, shared homes, cached addresses, frame | liveness, intervals, coalescing, scan, prologue, one command after another, epilogue | loops against positions, chains of copies, calls, argument registers as homes | live values apart, what lives across a call survives it, the caller finds its registers |
| calling sequence and argument packing (`Call.make_asm`, `_emit_parallel_int_moves`, `_emit_pack`, `pack_args`, `LoadArg`, `LoadStructArg`, `UnpackArgs`) | places of the arguments, pending moves, stack, call target; plans per function | pad, push, move the pointer away, move, break cycles, load, pack, jump, load or unpack in the callee | chains and cycles over registers in use; caller and callee count on their own | each parameter's home holds its argument; aligned stack, right target |
| network echo path (`minikraft.py`: the loop of the echo application, virtio network driver, virtqueues) | descriptor tables, available and used rings, buffers, the loop's locals | fill, publish, notify, receive, handle, send, reclaim | the device acts between any two accesses; indices that wrap; who owns a packet; memory that runs out | no descriptor or buffer in two hands, answers in order, a starved device is served |
| SIMD packing of flags (`simd_pack`, `simd_pack_promote`) | a flag's byte, its copy in xmm15 and in the store | read, write through, refresh, promote in loops | outside code clobbers xmm15 or the byte | the copies agree |
| AST cache (`cache.py`) | files keyed by token stream | load, store, publish | concurrent compilers, torn entries | a miss, never a wrong tree or an abort |
| front end (`lexer`, `preproc`, `parser`, `tree`, `il_gen`) | tokens, macros and hide sets, scopes, linkage | one pass each | macro recursion, redeclarations | expansion ends; C's linkage rules |
| member elimination, weak aliases, contracts, microslice, reports | tables | one pass each | | |
| `tools/py2c.py`, `minipy`, bare metal, the rest of `minikraft.py` | separate programs | | | |

`PROJECT.json` lists every component, the ones without a model too, and every
hazard at its line.

## 2. Modules

| module | models | state | actions |
|---|---|---|---|
| `RegAlloc` | `ASMGen._make_asm` from the finished graph to the spot map: `NodeGraph`, `_simplify_all`, `_coalesce_all`, `_freeze`, `_generate_spotmap` | the graph as generated, the working copy, stack, merges, spots, offset, the loop the code is in | one per step of the loops; where the code takes the first of a list whose order depends on the program, any |
| `SpotAssignment` | nothing of the code: what the spot map promises, one group of values placed at a time | spots | place a group |
| `ILProgram` | commands as `ILCommand` reports them (inputs, outputs, clobber, targets), shared by the next two | | |
| `LiveVars` | `_get_live_vars` with its ordered lists | the array, the old array, the pass | one command of a pass; compare |
| `AllocatedCode` | `_generate_graph`'s conflicts, `_generate_asm` and `get_reg`, run next to the program | values by tag, places, parked registers | one command with any scratch registers |
| `ILMachine` | what the commands of a function do, for `Peephole` | | |
| `Peephole` | the four passes of `peephole.py` and the literals they introduce | commands before and after, both machines | one pass each; run |
| `OwnershipAnalysis` | CFG, data flow, summaries and check of `memory_safety.py` | worklist, states per block, collected facts, summaries | visit a block, begin and end a summary or a check |
| `MemorySafety` | the same and `insert_auto_frees`; then the result on a heap | functions with their frees, heap | insert, run, and every step of the analysis |
| `CallLowering` | `add_tu`, the passes over calls in `process_c_file`, the metamorphic and near-scratch checks; then the linked program | graph, units, place, return addresses, slots, calls in progress | add a file, compile a file, skip, call, call in from outside, return |
| `ThreadPlan` | the driver behind `--emit-thread-switcher` and `_apply_thread_budget` | compilations, scan, closure, budgets, footprints | compile a function, scan, split, feed back, emit |
| `ThreadSwitch` | `switch_to_left/right` and `timer_isr_left/right`, instruction by instruction | registers, memory, TCBs, frames, vectors | one instruction; the timer; work of a thread |
| `LinearScan` | `_arm64_function` from the commands to the homes: uses, coalescing, fusion, liveness, intervals, cached addresses, the scan, saved registers and slots | phase, live sets, intervals, pools, homes, frame | one per loop body; among equal starts, any order |
| `HomedCode` | that function's code running on its homes, next to the program: arguments in, loads and stores of a command, a call's argument moves, prologue and epilogue | registers and frame by tag, values by tag | enter, one command, elided and fused commands, leave |
| `ParallelMoves` | `_emit_parallel_int_moves`: any set of moves into distinct registers | pending moves, machine | make a ready move, break a cycle |
| `CallSequence` | one call from the caller's places to the callee's body: the conventions of both sides, `_emit_pack`, `pack_plan`, the loads of the prologue, `UnpackArgs`. `ParallelMoves` is an instance in it | places, homes, registers and slots by eightbyte, stack, target | one per instruction or group of them |
| `DescriptorTable` | the descriptor table of a virtqueue: the free list and chains, as operators | | |
| `DescriptorPool` | nothing of the code: what a virtqueue promises, buffers offered in order, returned in any order, taken back once | table, ready, offered, held, done | prepare, publish, fetch, complete, reclaim |
| `Virtqueue` | `virtqueue_buffer_enqueue`, `_dequeue`, `_hasdata`, `ring_update_avail`, `host_notify` and the rings; the device is external | table, rings with wrapping indices, driver, device | each access of a ring that the other side may come between |
| `NetEcho` | the echo loop, `virtio_netdev_rx_fillup`, `_recv`, `_xmit`, `virtio_net_start`, the handlers, the allocator; two instances of `Virtqueue` | two queues, the thread's position and locals, memory, frames in buffers | one per access of shared state |
| `ThreadSides` | the two sides, for the two modules above it | | |
| `*Proofs` | the theorems about the module of that name; those about `ThreadSwitch` are in `ThreadPlanProofs`, about `HomedCode` in `LinearScanProofs`, about `LiveVars` and `Peephole` in `AllocatedCodeProofs`, about `OwnershipAnalysis` in `CallSequenceProofs` | | |
| `MC*` | the instances TLC checks | | |

`RegAlloc` implements `SpotAssignment` (refinement mapping in `RegAlloc`, checked
as the property `ImplementsAssignment` and proved). `AllocatedCode` starts from
any assignment of places that respects its conflict graph, which is what
`RegAlloc` is proved to deliver, and from the liveness `LiveVars` computes; the
three together cover the x86 back end from command list to code. `ThreadPlan`
and `ThreadSwitch` meet at the footprints: `ThreadSwitch` runs the switchers for
any footprints, `ThreadPlan` says which ones the driver arrives at.

`HomedCode` EXTENDS `LinearScan`, so a behaviour allocates a function and then
runs it. `CallSequence` starts from every assignment of places that `RegAlloc`'s
conflicts allow on the caller's side and settles for every one they allow on the
callee's. `NetEcho` holds two `Virtqueue`s; that their rings implement
`DescriptorPool` is the property `QueuesArePools` (refinement mapping: the
windows of the rings between two indices; checked and proved), so that what is proved
of `DescriptorPool` holds of the code as `DescriptorsAccounted`.

Mutants: an operator named in a comment "Mutant of X" is X with a bug put in. No
definition uses it; putting it in X's place makes the property that the comment
or `PROJECT.json` names fail, which shows that the property depends on X.

## 3. Runs

`tlc -workers 2 -config <cfg> <module>`; each takes seconds to a few minutes.

| run | configuration | shows |
|---|---|---|
| `regalloc` | `MCRegAlloc`, `RegAlloc_small.cfg` | every graph of at most `MaxNodes` = 4 values and registers with at most `MaxPrefs` = 3 preferences, two pool registers and clobbers outside the pool: colouring proper, slots disjoint, no needless spill, everything placed in the end, refinement |
| `livevars` | `MCLiveVars`, `LiveVars_small.cfg` | every program of three commands over two values, and two loops that goto into each other: sound, a fixpoint, ends unless only the order of lists alternates |
| `code` | `MCAllocatedCode`, `AllocatedCode_code.cfg` | six-command programs over three values, two registers, one slot, every legal assignment and scratch choice, `MaxSteps` = 9 commands run: each command reads what is meant |
| `homes` | `MCHomedCode`, `HomedCode_homes.cfg` | seven thousand functions over nine values (swaps, calls, loops, floats, a static, an array, more values than registers), three argument registers, three callee-saved, `CacheCap` = 1 cached address, `MaxSteps` = 12 commands run: homes apart, calls and the caller keep theirs, each command reads what is meant |
| `callseq` | `MCCallSequence`, `CallSequence_callseq.cfg` | calls of up to `MaxArgs` = 5 arguments of `MaxWords` = 3 eightbytes with `Units` = 4 parts each, three argument registers and one vector register, direct, by pointer, variadic and packed, every pair of place assignments: every eightbyte arrives but for those section 5 names, alignment, target, no move lost, the sequence ends |
| `callseq_fields` | `CallSequence_fields.cfg` | finding: fields packed into two registers are overwritten while they are taken out |
| `net` | `MCNetEcho`, `NetEcho_net.cfg` | receive queue of `RxNum` = 4 descriptors with indices modulo `RxW` = 8, transmit queue of `TxNum` = 2 modulo `TxW` = 4, fills of `Batch` = 2 buffers, memory for `Pool` = 16, nine frames of all kinds or a device that takes two buffers and returns them in any order |
| `peephole` | `MCPeephole`, `Peephole_small.cfg` | loops of one to three statements in four shapes, zero and two rounds, `MaxRounds` = 20 rewritten loops, `MaxRun` = 48 commands run: same accesses, calls, value and end |
| `memory` | `MCMemorySafety`, `MemorySafety_small.cfg` | functions of up to four of 21 statements, straight, in an if, in a loop, with six helpers, `MaxObjects` = 3 allocations, `MaxSteps` = 24: converges, ends, reports, no false alarm, inserted frees sound in plain programs |
| `calls` | `MCCallLowering`, `CallLowering_calls.cfg` | three functions and an unknown one over one or two files, every way of calling, `MaxDepth` = 6 calls in progress: returns, scratch buffers, dead functions |
| `plan` | `MCThreadPlan`, `ThreadPlan_plan.cfg` | two threads and a helper, one or two files, a static helper, eight registers, needs below, at and above the pool |
| `switch` | `MCThreadSwitch`, `ThreadSwitch_switch.cfg` | every even split of eight registers under the timer, cooperative footprints with overlaps, `MaxWork` = 2 steps of a thread between switches |

The types (`TypeOK` of a module) are proved for `RegAlloc`, `AllocatedCode`,
`LinearScan`, `LiveVars` and `ThreadPlan`, and are conjuncts of a checked property in
`Peephole` (`SameBehaviour`), `MemorySafety`
(`BugsReported`), `CallLowering` (`NothingMissing`), `ThreadSwitch`
(`Dispatched`) and `NetEcho` (`DescriptorsAccounted`); of the first two of these they
are proved as well, of `MemorySafety` the analysis's part (`FlowTypeOK`).

Why the bounds are enough: two registers already make three values compete and
a spill happen, and a merge of two values with a third in conflict needs three
values; a data-flow cycle needs two blocks; a stale scratch register needs one
command before and one after; a hoisting error shows in the second round of a
loop or in a loop that runs no round; a double free needs two statements on top
of the allocation; a function re-entered through unknown code takes five calls
(out, in, and its caller twice), and `MaxDepth` leaves one more; a switch that
goes wrong shows when each side has been entered twice, and the threads' work is
the only counter. A cycle of argument moves takes two registers, a chain that ends
in one three; a structure that fits in no register, and one that fits in two but
not in what is left, take three argument registers; packing gains something from
two arguments on, and copies one packed register over another when there are two.
Three callee-saved registers are one more than the values that live across a call
in most functions of `homes`, and one fewer than in the crowded ones. The indices
of both rings wrap within the nine frames, memory runs out before they have all
been answered, and a receive queue of four is filled by a quarter, a half and what
receptions put back. Runs with `CHECK_DEADLOCK FALSE` model programs that end.

Fairness: `LiveVars` (`Analyse`), `RegAlloc` (`Reduce \/ Colour`) and
`MemorySafety` (`Next`) assume weak fairness of one loop of one sequential
program: the compiler keeps running; `CallSequence` (`Next`) of the emitted code,
which has no loop. `NetEcho` assumes it of the one thread only, which runs with
interrupts unregistered and nothing to wait for; the device and the network need
never act, so `FramesTaken` and `Restocked` are promises of the driver alone. No property assumes anything of the
scheduling of threads, which `TakesTurns` therefore states as an action
property.

## 4. Proofs

`tlapm <module>`; every theorem is proved from the named assumptions of its
module alone (finite sets, naturals, well-formed programs) and from what its
statement names (`QueueSetUp`, `Fits`).

* `RegAllocProofs` (1875 obligations): `TypeCorrect`, `Colouring`, `ClobberSafety`,
  `QuotientGraph`, `Refinement`, `ConservativeCoalescing`, `SlotsAreEnough`. The argument is one inductive invariant,
  `AllocInv`, the conjunction of `GraphInv` (the working graph is symmetric and
  inside the generated one), `PrefInv`, `StackInv` (each node is in exactly one
  of graph, stack and merged), `GroupInv` (merging is a forest of depth one
  whose groups hold no conflict), `PlacementInv` and `SpotInv` (what is placed so
  far respects every conflict). `ProperColouring` alone is not inductive: a
  colour is chosen from the neighbours in the original graph of a whole merged
  group, so it needs that groups are free of conflicts and that the stack and
  the merges between them hold every node once.
  The last two rest on a second invariant, `ShelterInv`, about the values that must not
  spill (`Sheltered`): groups of several values, whose one slot would be too small for
  some, and all values of a graph that simplification alone colours. The Briggs test
  bounds the conflicts of a group and nothing adds any (`DegreeInv`); neither test
  makes an easy graph hard (`GreedyInv`, where George's case is: what gains the
  register as a neighbour had few); a potential spill is pushed only when nothing can
  be simplified (`RoundInv`), so never from an easy graph. `RoomInv` then counts, for
  a sheltered value on the stack, the registers its conflicts hold and the
  conflicting nodes above it: fewer than there are registers when it is pushed, and
  each placement turns at most one of these into one of those.
* `AllocatedCodeProofs` (5306), of three modules whose names are apart so that it can
  extend them all: the passes, the analysis of what they leave, the code. Of the code: `CodeReadsRight`, `ValuesInPlace`, `TypeCorrect`.
  `IInv` adds to the type that the places respect the conflict graph
  (`Allocated`) and that every live value is where it belongs.
  Of the analysis: `AnalysisIsSound` (`LivenessIsSound`), for every well-formed
  program: `AnalysisInv` says
  that in the middle of a pass the commands visited solve their equations with the
  jump targets of the pass before, that the others are as that pass left them, and
  that no list repeats a value; when a pass changes nothing the two arrays are one
  solution. That a solution loses nothing is an induction over the length of the path
  to the command that reads the value (`NeededIsListed`). What the list operations
  compute is proved from a principle of recursion for functions on an interval
  (`Recursion`), since the library's needs an operator as a parameter.
  `AnalysisServesCode`: the analysis ends with what `ProgramAssumption` of
  `AllocatedCode` asks for.
  Of the passes: `PassesTypeCorrect`, `PassesKeepApart` (`KeepsApart`), for any function
  whose jumps have their labels (`CaseAssumption`) and any number of rounds.
  `PassesInv` says that jumps find their label at one place, that no command writes
  what it reads if none did, and that the names of the rounds to come are in no command
  yet (`FreshFrom`). What a loop pass leaves is the old list and the two new commands,
  each exactly once (`Part`, `PreheaderTakes`), so labels neither vanish nor double; that
  takes positions: the chain of an address holds only commands of the body
  (`TracedSound`), the hoisted ones lie between the label and the jump.
  `PassesPreserve` says what the passes do: identities, any number of hoisting rounds
  and fusion leave the accesses, the calls and the value as they were, as long as
  (`SafeLoops`) no address is reduced and no command of the loop reads a hoisted value
  before the loop computes it (`SafeHoist`). The pass does not look for such a read
  (section 5), so the theorem has to name it; what the pass does ask for, one
  definition in a single block entered from above, is shown to be enough for the rest.
  One list `Covers` another if what a run of the one has done by any step a run of the
  other has done by one of its own; `SimplifiedStep` is step for step. In `FuseCovers`
  the fused list waits where the other compares (`Waits`), and the value of the
  comparison, which nothing else reads (`UsedOnce`), is all it lacks (`Alike`). In
  `HoistCovers` the machines are at the same place outside of the loop (`Outside`), which
  is entered and left only at its ends; in front of it the one runs the hoisted commands
  (`HoistedRun`), in it (`Inside`) it waits where the other runs them, they differ in what
  the round has yet to compute (`Later`), and every hoisted value is still what its
  command would compute (`Held`). A machine does one thing
  only (`RunsAgree`), so any two runs agree as far as both go, whatever `MaxRun` cuts
  off. That memory holds numbers (`IntegerCells`) is a hypothesis, because TLC cannot
  evaluate it as an assumption.
* `CallSequenceProofs` (3855): `ArgumentMovesOnCourse` (`MovesOnCourse`), `CallIsAligned`
  (`CallLandsAligned`) and `CycleAlwaysBreakable`, for any calls, registers and places.
  `CallerInv` follows one call from its first push to its jump. That the moves begin
  with one per target is not in the model's definitions: two loops count registers, and
  the counts are shown to grow (`CountersGrow`, `CountersApart`). In the middle of the
  moves (`Moving`) the pending ones are moves of this call or what breaking a cycle
  made of them, every source still agrees with what its target is to receive in the
  bytes that count, and the pointer is outside the registers in use, unless a cycle was
  broken; nothing that is loaded afterwards hits it (`LoadsTyped`). When no move is
  ready every target is some other move's source, so r11 is free, and the code's
  NotImplementedError is not reached. The parity of the stack is carried through the
  padding, the pushes, and what packing reserves and releases (`Extra`).

  The second half is about `OwnershipAnalysis`, from `ProgramsAssumption` (functions have
  a name, a body and the labels they jump to; loops as they like, and calls too but
  for one thing: a recursive function's summary is never begun here, section 6):
  `AnalysisConverges` (`FlowTypeOK`, `Converged`), `AnalysisComplete` (`Complete`) and
  `FreesOnlyWhatIsHeld` (`OnlyHeldFreed`), the parts of `BugsReported` that speak of the
  analysis alone. They are theorems of `FlowSpec`, which is what `Spec` of `MemorySafety`
  does to the variables of the analysis: its steps are those of `FlowNext` or leave them
  unchanged. `Converged` says nothing while blocks wait; `FlowInv` says of every
  block that does not that what it leaves is in its successors already (`Settled`) and
  that it has nothing to add to what is collected (`Exhausted`), and of every state that
  its frees and escapes have been collected (`Recorded`). A visit changes the state of
  a successor only together with putting it on the worklist, a state joined into
  another adds nothing a second time (`MergeAgain`), and what has been collected grows
  only (`Goes`) and changes nothing that flows (`Same`), so a block settled stays so.
* `ThreadPlanProofs` (3811): `BudgetsStayApart`, `TransparentCovered`,
  `FootprintsEndApart`, `PlanTypeCorrect`, from the type and `Agreement` (what each phase of the driver
  has computed is what the phases before it imply). `TransparentCovered` assumes
  that all functions are exported and no register is written without being
  named, which is exactly what the scan of the assembly needs.
  `FootprintsEndApart` (`FootprintsApart`) links the two compilations: `CreditInv` says that
  the first finds registers wherever the code credited to a function wants some, so
  that unless a side is `Quiet` both have budgets, and that the second finds, for each
  function, only what the budgets of those credited to it allow (`Used`). The proof
  showed that the property has to except the code of a function a side does not run
  (`Credited`), a static function read as part of its neighbour; the run has such
  a program.
  `ThreadsIntact` (`Intact`), `TicksDispatched` (`Dispatched`) and `TurnsTaken`
  (`TakesTurns`) are about the switchers themselves, for footprints of any
  length. `Fits` is what they ask of the footprints: each register
  once; for the timer's routines at least four on each side, as the generator insists
  (:361), and none shared, for which `FootprintsEndApart` gives the conditions; for a
  called switcher no rsi (section 5 says what happens otherwise). `SwitchInv` says, for
  every position of the instruction pointer in either routine, which slots of the
  outgoing TCB are written, which registers of the incoming thread are back, and which
  scratch register holds what; `CalledCode` and `TimerCode` say which instruction
  stands at which position, the lemmas `Does...` what each does. Between switches only
  `Resting` is left of it: the registers are those of the thread that runs, the other
  thread is whole in its TCB (`Aside`). `Intact` is the first half of that and not
  inductive without the second.
* `CallLoweringProofs` (2656): `BuffersServeOne` (`NearOnce`), `NothingCalledIsRemoved`
  and `EveryReturnAnswersACall`, for any files, names, programs and depth of calls.
  The first is proved from `CallInv`. `NearOnce` speaks of two activations
  of one function; a step changes only the last one, so the invariant must
  relate every activation to those above it. `Compiled`: a finished file kept its
  functions, the passes added no callee, and what it found eligible still is, by
  the graph that was complete before the first file was compiled. `Threaded`:
  what is not called through a pointer is what its caller's code names.
  `Confined`: above an activation with a buffer, as long as nothing excused
  intervenes, runs only what the call graph reaches from it; so it is not itself
  among them. `Onward` is the step of that induction, and the place where
  "defined in the unit or in the graph" is needed.
  `HeldInv` adds that the code of every activation is there (`AllPresent`): what
  survives inlining and folding is found by `Alive` from the final code, its tables and
  its exports, and a call made later names no other. `ReturnInv` adds `Matched`: the
  return addresses are those of calls in progress, in their order, and a call without
  one is spent (a tail call, whose caller's caller answers) or returns through a slot;
  the slot of an active metamorphic function holds the place of its call, which needs
  that what runs above such a function is reached from it and is not the function
  itself (`Once`).
* `LinearScanProofs` (3452): `AllocationSafe` (types, `HomesApart`, `CallsKeepHomes`),
  `CallsKeepRegisters`, and of the code that runs over the homes
  `CallerGetsRegistersBack` and `CodeReadsWhatIsMeant`, for every function, register
  set and order of ties. `HomesApart` is not inductive: the scan looks at intervals,
  so `IInv` says that an interval covers every position its value is live at or
  defined at, that it is split off from the callers' pool when a call falls inside,
  and that every home given so far belongs to an interval that ended before the next
  one in the same register starts. `RunningKeepsAllocation`: every behaviour of
  `HomedCode` is one of `LinearScan`, so all this holds while the code runs.
  The running code needs three more facts of the allocator (`Laid`): `Analysed`, what
  the analysis found said of the program (the window of an elided copy, who reads a
  fused comparison, the equations of liveness at the fixpoint), `Placed` (no home is
  a cached address or a register arguments pass in) and `FrameLaid` (slots lie above
  the save area, and no two own homes are the same slot). On these stands a
  simulation, `Simulated`: a home that stands for a value the code to come may read
  (`Stands`, `Followed`) holds it. A temporary's home stands for it inside its window
  and for its target outside, which is why the windows must be straight
  (`WindowIsStraight`), apart (`WindowsApart`), and why a chain of copies breaks it
  (`NoChains`). `StoreApart` is the step that needs `HomesApart`; `MovedLeaves`, that
  argument moves read what was there before the first of them, and `Numbering`, that
  arguments and save words are numbered without a clash, are inductions, done by
  least counterexample (`UpTo`). `CodeAssumption` is what the front end guarantees of
  a function (parameters first, a return last) and the limit of eight arguments the
  back end refuses to pass.
* `VirtqueueProofs` (1996): one virtqueue, for every size and index width
  (`QueueSetUp`: the width is a multiple of the size and greater). `PoolSafe`: the
  free list and the chains are links in one array, so the proof carries the list as
  a sequence whose elements the links follow (`IsFreeList`): taking removes its first
  one or two, giving back puts one or two in front. `RingsImplementQueues`: the
  refinement mapping reads the queues off the rings as windows between two indices
  modulo `W`; a step of the rings appends to a window, takes its first element or
  leaves it (`WindowAppended`, `WindowTail`, `WindowKept`), and an append never makes
  a full window look empty, because a ring of distinct descriptors has at most
  `Num` < `W` entries (`Room`). `RingInv` adds to the invariant of the queues that a
  used slot whose index is not yet written holds the chain the device is returning.
  `RingsKeepPool` puts the two together. What the queue carries is read off it as two
  lists of buffers, those on their way to the device (`ToDevice`) and those on their
  way back (`FromDevice`): each step takes the first of one, appends to one or leaves
  both (the lemmas named `...Carries`).
* `NetEchoProofs` (2735): the program, two such queues and the device, for every size,
  memory and network (`QueueAssumption`, `SizeAssumption`). `EchoQueuesArePools` and
  `EchoAccountsDescriptors`: every step is a step of each queue or leaves it, which
  needs the types of the thread's locals (`QueuesInv`: there is a buffer in hand where
  one is offered). `EchoKeepsBuffersApart`: `BuffersApart` is not inductive; `OwnInv`
  adds that all buffers in use were allocated (so a fresh one is new), that no buffer
  is queued under two heads, that the buffers of a batch are different and not
  the packet in hand, and that with room for a header the packet sent is not the one
  received: an answer built in place has used up its room with `uk_netbuf_header`
  (`Room`), so it takes the error path and is never queued while the loop holds it.
  `EchoAnswersInOrder`: `EchoedInOrder` sees only what has left. `OrderInv` lines up all
  frames on their way: on the wire, in the buffers before the transmit device, in
  the packet whose turn it is, in the buffers the receive device has filled.
  In that line they are increasing (`Ordered`); a fresh buffer holds none, what is
  to be sent asks for an answer (`AsksInv`), and before the loop the line is empty but
  for the test packet (`Early`), which is why that comes out first.

Only model-checked: liveness (`Terminates`, `EveryValuePlaced`, `Ends`,
`CallCompletes`, `FramesTaken`, `Restocked`), which is out of the prover's reach;
`ArgumentsArrive`, which follows a call of `CallSequence` into the callee's prologue;
of `Peephole`, what reducing an address does to the accesses of its loop
(`SameBehaviour`; it is false of loops that section 5 names), and
that each machine returns within `MaxRun` steps; of `MemorySafety`, what relates the
analysis to a run on the heap (`SoundWhenPlain`, `NoFalseAlarms`, the end of
`BugsReported`).

## 5. Findings

Checked, with a run of its own:

* `il_cmds/value.py:280` (`callseq_fields`): `UnpackArgs` copies the packed registers
  one by one into registers that are no parameter's home but may be the next
  packed register. With `-f-pack-args`,
  `static int g(long a, long b, int c, int d) { int r = c - d; ext(a, b); return r; }`
  returns 1 for c - d = 5.

Reproducible with TLC, by giving a run's configuration another property or
another set of programs:

* `asm_gen.py:3442`: the fixpoint compares ordered lists; with two exits that read
  the same values in different orders the order alternates and the compiler
  hangs. `Terminates` excepts this by name (`OrderAlternates`: no list gains or loses
  a value, two labels of one loop list two values in opposite orders for ever). The
  run holds two such programs (`CrossedLoops`); `<>(pc = "done")` fails on them alone.
* `asm_gen.py:3957`: parked registers come back after the command; a
  compare-and-branch that jumps skips that. `Analysed <- BranchingPrograms` and
  `Spots = {r1, r2, m1, m2}` in `AllocatedCode_code.cfg` violate `ReadsRight`.
* `asm_gen.py:951`: `_il_coalesce_safe` looks at the copy's own target, `_il_canon`
  follows chains of copies; `int f(int c) { int b = c++; c = b; return c; }` returns
  c + 1 on arm64. `Programs <- Chained` in `HomedCode_homes.cfg` violates `ReadsRight`.
* `asm_gen.py:543`: a literal made by strength reduction is not logged in
  `new_literals`, so its value has a register that nobody writes (the sum of three
  elements is 9 instead of 6). `LiteralsSpotted` in `Peephole_small.cfg`.
* `memory_safety.py:739`: inserted frees of junk, of another object, or of what is
  reachable, against `examples/memory/README.md:86`. `AutoFreesSound` in
  `MemorySafety_small.cfg`.
* `minikraft.py:4485`: the answers of `handle_arp_packet` (:780) and `echo_tcp_packet`
  (:2056) have used up the room in front of the data when `virtio_netdev_xmit` asks
  for it, so that every ARP and TCP answer is refused with -ENOSPC, against the
  comments at :787 and :2063. `RepliesLeave` in `NetEcho_net.cfg`.

Met while modelling, reproduced on the compiler, and left out of a property by
the precondition named with it:

* Calls (`NearOnce`, `ReturnsRight`). A near-scratch function is entered twice
  through a static table or a pointer loaded from a global (`NEAR_SCRATCH.md:11`
  and :44-46 say never), or, when static, through an unknown function that calls
  an exported one. A static function answers for another file's function of its
  name: it is inlined there (`inline.py:14`), its edges and its being defined count. A
  metamorphic function that ends in a call loses its slot's jump, one called
  through a pointer or from a file that does not see the specifier returns
  through a slot nobody filled (`METAMORPHIC.md`, "the two features otherwise
  compose"). A tail call tears down the frame whose locals its callee was given
  (`stackless.py:9`).
* Switchers (`Intact`). With rsi in the incoming footprint a cooperative switch
  overwrites the pointer it restores from (`thread_contracts.py:246` against :209).
* Thread plan (`FootprintsCover`, `FootprintsApart`). Registers of a static
  function are credited to its neighbour (:78 against :63); cdq and idiv write
  rdx without naming it (:92); two dividing threads share rax after feedback
  (:531 against :27-28); the objects of the constrained compilation are thrown
  away (:528 against `shivyc/README.md:52-53`); a budget below two registers leaves the
  previous function's (`asm_gen.py:3107` against :3091); fewer than four registers
  on a side raise after one file was written (:361); a file that fails is skipped
  (:475); a register node that must be spilled raises (`asm_gen.py:3789`, modelled as
  a crash).
* Near-scratch narrows the pool for every later function of the file
  (`asm_gen.py` after 495), which costs spills and nothing else.
* Memory safety (`SoundWhenPlain`, `BugsReported`). A conditional allocation, two
  holders, an address taken, pointer arithmetic and a store to a struct field
  each mislead the inserted frees; a helper that frees on one path, or twice, is
  not reported; an allocation in a loop forgets that its previous object was
  freed.
* Calling sequence. `ArgumentsArrive` asks for every eightbyte of every parameter and
  excepts one only where a named step wrote over that very one; the others of the same
  call must arrive. The first copy of a packed register overwrites the second
  (`CopyOverSource`, above). The pointer of an indirect call is moved to a register
  `get_reg` sees as free that holds an argument (`PointerOverArgument`;
  `control.py:575`). A parameter on the stack whose home is memory is loaded through
  a register `get_reg` sees as free, which may be an argument register still to be read
  (`ScratchOverArgument`). That is a structure (`value.py:224`), and a floating
  parameter past the vector registers too: the loads of these are made with `is_float`
  unset (`general_nodes.py:847` and :874), so they take the general register of
  `value.py:178`; seen with nine doubles between four integers in a function short of
  registers. A structure in registers whose last eightbyte has 3, 5, 6 or 7 bytes loses
  the last of them (`Carried` counts what is left; 11 bytes by value,
  `control.py:481`, `value.py:218`). `CallLandsAligned` excepts one case: when the moves
  form a cycle, r11 is taken although the relocated pointer may be there
  (`CyclicMoves`; `control.py:50`). Outside the bounds,
  `UnpackArgs` without a free register works with a scratch of None (`value.py:311`).
* Network echo path. A full transmit ring is reported as 0, which the callers take
  for success (:4551 against :208 and :1595), so the packet is dropped, and the queue
  of pending packets (:1605) is never used. The frame a UDP answer copies is never
  freed (:1600 and :3311). Nothing after :3367 is reached. `kfree` does nothing
  (:8498), so memory runs out and reception ends for good: `Restocked` says "while
  there is memory". `rx_fillup` asks for a whole batch again when part of it is
  filled (:4279), and frees the rest.
* Peephole (`SameBehaviour`). Hoisting past an unconditional return, above an earlier
  read, through an aliasing store, a call that changes the base, or out of a loop
  that runs no round.
* Not modelled yet: a flag packed in xmm15 is composed from a stale register
  after an external call (`SIMD_PACK.md:89-90`), a polled flag is hoisted out of its
  loop, and a damaged cache entry that raises anything but six exceptions ends
  the compilation (`cache.py:77` against :10-12).

## 6. Not modelled, and the plan

Left out for good: the scanning and parsing of characters, the trees, types and
instruction selection (details of data that running programs tests better),
vendored musl (most of the repository's lines), the translator, the interpreter
and the kernels around the compiler but for the network path (programs of their
own), reports. Partly modelled components name what they leave out in
`PROJECT.json`. Where a modelled function does more than its model:

* Recursion in the ownership analysis. `memory_safety.py` breaks a cycle of calls
  (:330) and treats the call that closes it as one of an unknown function (:461-496);
  `BeginSummary` waits for all callees, so a recursive program is never analysed, and
  what is proved of the analysis says nothing of it.
* The allocator under the inserted frees. `free` is a boundary (`FreedBy`): the program
  may be linked with any C library, the vendored one included.
* Frames in several buffers. The driver accepts mergeable buffers (`minikraft.py:5322`)
  and takes the further ones of a frame in a loop (:4819-4834). `ReceiveFrame` takes
  one: receive buffers have 2048 bytes, and no frame of an MTU of 1500 needs more.
* Two details of the arm64 code. A copy to `_Bool` counts as a copy and not as the
  conversion it is (`asm_gen.py:727-732`, :1719-1838), and of a value that a call is
  given twice the first argument alone is compared (`Compute`).

To be modelled next, in this order:

1. `FlagPacking`: the copies of a flag, hot functions, outside code, promotion.
2. `SymbolTable`: scopes, `add_variable` and linkage against an abstract
   statement of C's rules.
3. `MacroExpansion`: hide sets; no macro inside its own expansion; expansion ends
   only because each token remembers the macros it came from (`preproc.py:551`).
4. `ASTCache`: two compilers, crashes, damaged entries.
5. Proofs: strength reduction in `Peephole` for loops that are safe; `SoundWhenPlain`
   on top of `FreesOnlyWhatIsHeld`; the callee's half of `CallSequence`, for
   `ArgumentsArrive`.
