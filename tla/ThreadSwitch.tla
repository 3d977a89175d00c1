---------------------------- MODULE ThreadSwitch ----------------------------
(***************************************************************************)
(* The context switchers thread_contracts emits, run instruction by        *)
(* instruction between a left and a right thread: switch_to_right and      *)
(* switch_to_left, which a thread calls, and timer_isr_left and            *)
(* timer_isr_right, which interrupt it.                                    *)
(*                                                                         *)
(* xmm registers, saved and restored through the same bases, are left out. *)
(***************************************************************************)
EXTENDS Integers, Sequences, ThreadSides

CONSTANTS
  General,                 \* the general-purpose registers
  Rax, Rdx, Rsi, Rdi,      \* the ones the switchers name
  Rsp, Rip, Flags,
  Layouts,  \* the kind of switcher and the footprints it is emitted for
  MaxWork   \* bound on the steps of the threads themselves

Regs == General \cup {Rsp, Rip, Flags}

ASSUME RegisterAssumption ==
  /\ {Rax, Rdx, Rsi, Rdi} \subseteq General
  /\ {Rsp, Rip, Flags} \cap General = {}
ASSUME LayoutAssumption ==
  /\ MaxWork \in Nat
  /\ \A x \in Layouts :
       /\ x.kind \in {"called", "timer"}
       /\ \A side \in Sides : x.gp[side] \in Seq(General)
       /\ x.kind = "timer" => \A side \in Sides : Len(x.gp[side]) >= 4

VARIABLES
  layout,   \* never changes
  regs,     \* what the processor's registers hold
  tcb,      \* what the slots of each side's TCB hold
  stack,    \* the frame on top of each side's stack
  cur,      \* cur_tcb and next_tcb
  next,
  vector,   \* the side whose ISR timer_vector points to
  code,     \* the switcher being run
  pc,       \* its next instruction, 0 while a thread runs
  running,  \* whose code runs, or ran when the switcher was entered
  own,      \* what each thread last had in each register
  clock     \* steps of the threads so far

switchVars == <<layout, regs, tcb, stack, cur, next, vector, code, pc, running, own, clock>>

Value(side, r, t) == [what |-> "value", side |-> side, reg |-> r, time |-> t]
Tcb(side) == [what |-> "tcb", side |-> side, reg |-> Rsp, time |-> 0]
Junk == [what |-> "junk", side |-> "none", reg |-> Rsp, time |-> 0]

Slots == 0..(Len(layout.gp["left"]) + Len(layout.gp["right"]) + 2)

-----------------------------------------------------------------------------
(***************************************************************************)
(* generate_switcher and generate_preempt_switcher.                        *)
(***************************************************************************)
Ins(op, r, base, slot) == [op |-> op, reg |-> r, base |-> base, slot |-> slot]

Store(base, slot, r) == Ins("store", r, base, slot)
Load(r, base, slot) == Ins("load", r, base, slot)
Pop(r, field) == Ins("pop", r, field, 0)       \* r := a field of the frame at rsp
Push(field, r, base) == Ins("push", r, base, field)
Get(r, global) == Ins("get", r, global, 0)
Put(global, r) == Ins("put", r, global, 0)
Do(op, r) == Ins(op, r, Rsp, 0)

SaveAll(base, gp, first) ==
  [i \in 1..Len(gp) |-> Store(base, first + i - 1, gp[i])]
RestoreAll(base, gp, first) ==
  [i \in 1..Len(gp) |-> Load(gp[i], base, first + i - 1)]

\* Mutant of Called: the stack of the incoming thread is taken up too late.
CalledStackLate(out, in) ==
  SaveAll(Rdi, out, 2)
  \o << Store(Rdi, 0, Rsp), Pop(Rax, Rip), Store(Rdi, 1, Rax) >>
  \o RestoreAll(Rsi, in, 2)
  \o << Do("ret", Rsp), Load(Rsp, Rsi, 0) >>

\* switch_to_right and switch_to_left.
Called(out, in) ==
  SaveAll(Rdi, out, 2)
  \o << Store(Rdi, 0, Rsp), Pop(Rax, Rip), Store(Rdi, 1, Rax) >>
  \o RestoreAll(Rsi, in, 2)
  \o << Load(Rsp, Rsi, 0), Do("ret", Rsp) >>

\* Mutant of Timer: the outgoing thread's frame is read through the base the
\* acknowledgement may have overwritten.
TimerStaleBase(side, out, in) ==
  << Get(in[1], "cur") >>
  \o SaveAll(in[1], out, 3)
  \o << Pop(in[2], Rip), Store(in[1], 1, in[2]),
        Pop(in[2], Flags), Store(in[1], 2, in[2]),
        Pop(in[2], Rsp), Store(in[1], 0, in[2]),
        Do("eoi", Rax), Do("flip", in[2]),
        Get(out[1], "next"), Put("next", in[1]), Put("cur", out[1]) >>
  \o RestoreAll(out[1], in, 3)
  \o << Load(out[2], out[1], 0), Load(out[3], out[1], 1), Load(out[4], out[1], 2),
        Push(Rip, out[3], out[2]), Push(Flags, out[4], out[2]),
        Load(out[3], out[1], 0), Push(Rsp, out[3], out[2]),
        Do("stack", out[2]), Do("iret", Rsp) >>

\* timer_isr_left and timer_isr_right: the incoming side's first two registers
\* serve while saving, the outgoing side's first four while restoring.
Timer(side, out, in) ==
  << Get(in[1], "cur") >>
  \o SaveAll(in[1], out, 3)
  \o << Pop(in[2], Rip), Store(in[1], 1, in[2]),
        Pop(in[2], Flags), Store(in[1], 2, in[2]),
        Pop(in[2], Rsp), Store(in[1], 0, in[2]),
        Do("eoi", Rax), Do("flip", in[2]),
        Get(in[2], "cur"), Get(out[1], "next"),
        Put("next", in[2]), Put("cur", out[1]) >>
  \o RestoreAll(out[1], in, 3)
  \o << Load(out[2], out[1], 0), Load(out[3], out[1], 1), Load(out[4], out[1], 2),
        Push(Rip, out[3], out[2]), Push(Flags, out[4], out[2]),
        Load(out[3], out[1], 0), Push(Rsp, out[3], out[2]),
        Do("stack", out[2]), Do("iret", Rsp) >>

Routine(side) ==
  LET out == layout.gp[side]  in == layout.gp[Other(side)]
  IN  IF layout.kind = "timer" THEN Timer(side, out, in) ELSE Called(out, in)

-----------------------------------------------------------------------------
Start(side) == [r \in Regs |-> Value(side, r, 0)]

\* The slot a register is saved to: its place in the footprint, after the slots
\* for the stack, the resume address and, in an interrupt, the flags.
First == IF layout.kind = "timer" THEN 3 ELSE 2

\* The TCB of a thread that has not run, as the program that links the switcher
\* in has to fill it.
Seeded(side) ==
  [s \in Slots |->
     IF s = 0 THEN Value(side, Rsp, 0)
     ELSE IF s = 1 THEN Value(side, Rip, 0)
     ELSE IF s = 2 /\ First = 3 THEN Value(side, Flags, 0)
     ELSE IF s - First + 1 \in 1..Len(layout.gp[side])
       THEN Value(side, layout.gp[side][s - First + 1], 0)
     ELSE Junk]

SwitchInit ==
  /\ layout \in Layouts
  /\ regs = Start("left")
  /\ tcb = [side \in Sides |-> Seeded(side)]
  /\ stack = [side \in Sides |-> [r \in {Rip, Flags, Rsp} |-> Value(side, r, 0)]]
  /\ cur = Tcb("left")
  /\ next = Tcb("right")
  /\ vector = "left"
  /\ code = <<>>
  /\ pc = 0
  /\ running = "left"
  /\ own = [side \in Sides |-> Start(side)]
  /\ clock = 0

Uses(side) == { layout.gp[side][i] : i \in 1..Len(layout.gp[side]) }

\* The thread computes something into a register of its footprint.
Work ==
  /\ pc = 0 /\ running \in Sides /\ clock < MaxWork
  /\ clock' = clock + 1
  /\ \E r \in Uses(running) \cup {Flags} :
       regs' = [regs EXCEPT ![r] = Value(running, r, clock'),
                            ![Rip] = Value(running, Rip, clock')]
  /\ own' = [own EXCEPT ![running] = regs']
  /\ UNCHANGED <<layout, tcb, stack, cur, next, vector, code, pc, running>>

\* The thread calls the switcher with its TCB and the other's.
CallSwitch ==
  /\ pc = 0 /\ running \in Sides /\ layout.kind = "called"
  /\ regs' = [regs EXCEPT ![Rdi] = Tcb(running), ![Rsi] = Tcb(Other(running))]
  /\ own' = [own EXCEPT ![running] = regs']
  /\ stack' = [stack EXCEPT ![running][Rip] = regs[Rip]]
  /\ code' = Routine(running)
  /\ pc' = 1
  /\ UNCHANGED <<layout, tcb, cur, next, vector, running, clock>>

\* The timer interrupts the thread; timer_dispatch jumps through timer_vector.
TimerTick ==
  /\ pc = 0 /\ running \in Sides /\ layout.kind = "timer"
  /\ stack' = [stack EXCEPT ![running] =
                 [r \in {Rip, Flags, Rsp} |-> regs[r]]]
  /\ code' = Routine(vector)
  /\ pc' = 1
  /\ UNCHANGED <<layout, regs, tcb, cur, next, vector, running, own, clock>>

-----------------------------------------------------------------------------
(***************************************************************************)
(* The instructions.                                                       *)
(***************************************************************************)
At(op) == pc # 0 /\ code[pc].op = op
Now == code[pc]
IsTcb(v) == v.what = "tcb"
IsStack(v) == v.what = "value" /\ v.reg = Rsp

\* Stores to anything but a TCB are lost: no property looks at what they hit.
StoreStep ==
  /\ At("store")
  /\ tcb' = IF IsTcb(regs[Now.base])
              THEN [tcb EXCEPT ![regs[Now.base].side][Now.slot] = regs[Now.reg]]
              ELSE tcb
  /\ pc' = pc + 1
  /\ UNCHANGED <<layout, regs, stack, cur, next, vector, code, running, own, clock>>

\* What an instruction that fills a register puts there.
Fetched ==
  CASE Now.op = "load" ->
         IF IsTcb(regs[Now.base]) THEN tcb[regs[Now.base].side][Now.slot] ELSE Junk
    [] Now.op = "pop" ->
         IF IsStack(regs[Rsp]) THEN stack[regs[Rsp].side][Now.base] ELSE Junk
    [] Now.op = "get" -> IF Now.base = "cur" THEN cur ELSE next

FillStep ==
  /\ \E op \in {"load", "pop", "get"} : At(op)
  /\ regs' = [regs EXCEPT ![Now.reg] = Fetched]
  /\ pc' = pc + 1
  /\ UNCHANGED <<layout, tcb, stack, cur, next, vector, code, running, own, clock>>

PutStep ==
  /\ At("put")
  /\ IF Now.base = "cur" THEN cur' = regs[Now.reg] /\ next' = next
                         ELSE next' = regs[Now.reg] /\ cur' = cur
  /\ pc' = pc + 1
  /\ UNCHANGED <<layout, regs, tcb, stack, vector, code, running, own, clock>>

\* The end-of-interrupt command goes out through al and dx.
EoiStep ==
  /\ At("eoi")
  /\ regs' = [regs EXCEPT ![Rax] = Junk, ![Rdx] = Junk]
  /\ pc' = pc + 1
  /\ UNCHANGED <<layout, tcb, stack, cur, next, vector, code, running, own, clock>>

\* Mutant of FlipStep: the next tick finds the same routine.
FlipStepNever ==
  /\ At("flip")
  /\ regs' = [regs EXCEPT ![Now.reg] = Junk]
  /\ pc' = pc + 1
  /\ UNCHANGED <<layout, tcb, stack, cur, next, vector, code, running, own, clock>>

FlipStep ==
  /\ At("flip")
  /\ regs' = [regs EXCEPT ![Now.reg] = Junk]
  /\ vector' = Other(vector)
  /\ pc' = pc + 1
  /\ UNCHANGED <<layout, tcb, stack, cur, next, code, running, own, clock>>

\* A field of the frame iretq will read, below the incoming thread's stack.
PushStep ==
  /\ At("push")
  /\ stack' = IF IsStack(regs[Now.base])
                THEN [stack EXCEPT ![regs[Now.base].side][Now.slot] = regs[Now.reg]]
                ELSE stack
  /\ pc' = pc + 1
  /\ UNCHANGED <<layout, regs, tcb, cur, next, vector, code, running, own, clock>>

StackStep ==
  /\ At("stack")
  /\ regs' = [regs EXCEPT ![Rsp] = regs[Now.reg]]
  /\ pc' = pc + 1
  /\ UNCHANGED <<layout, tcb, stack, cur, next, vector, code, running, own, clock>>

Frame == IF IsStack(regs[Rsp]) THEN stack[regs[Rsp].side]
         ELSE [r \in {Rip, Flags, Rsp} |-> Junk]

Return ==
  /\ At("ret")
  /\ regs' = [regs EXCEPT ![Rip] = Frame[Rip]]
  /\ running' = Frame[Rip].side
  /\ pc' = 0
  /\ code' = <<>>
  /\ UNCHANGED <<layout, tcb, stack, cur, next, vector, own, clock>>

InterruptReturn ==
  /\ At("iret")
  /\ regs' = [r \in Regs |-> IF r \in {Rip, Flags, Rsp} THEN Frame[r] ELSE regs[r]]
  /\ running' = Frame[Rip].side
  /\ pc' = 0
  /\ code' = <<>>
  /\ UNCHANGED <<layout, tcb, stack, cur, next, vector, own, clock>>

SwitchNext ==
  \/ Work
  \/ CallSwitch
  \/ TimerTick
  \/ StoreStep
  \/ FillStep
  \/ PutStep
  \/ EoiStep
  \/ FlipStep
  \/ PushStep
  \/ StackStep
  \/ Return
  \/ InterruptReturn

SwitchSpec == SwitchInit /\ [][SwitchNext]_switchVars

-----------------------------------------------------------------------------
Values ==
  { Value(side, r, t) : side \in Sides, r \in Regs, t \in 0..MaxWork }
  \cup { Tcb(side) : side \in Sides } \cup {Junk}

SwitchTypeOK ==
  /\ layout \in Layouts
  /\ regs \in [Regs -> Values]
  /\ tcb \in [Sides -> [Slots -> Values]]
  /\ stack \in [Sides -> [{Rip, Flags, Rsp} -> Values]]
  /\ {cur, next} \subseteq Values
  /\ vector \in Sides
  /\ pc \in 0..Len(code)
  /\ running \in Sides \cup {"none"}
  /\ own \in [Sides -> [Regs -> Values]]
  /\ clock \in 0..MaxWork

\* A thread that runs finds every register of its footprint, its stack and its
\* place in the code as it left them; after an interrupt, its flags too.
Intact ==
  pc = 0 =>
    /\ running \in Sides
    /\ \A r \in Uses(running) \cup {Rsp, Rip} : regs[r] = own[running][r]
    /\ layout.kind = "timer" => regs[Flags] = own[running][Flags]

\* While a thread runs the next tick will enter the routine of its own side,
\* and the two TCB pointers name it and the other one; between ticks and in the
\* middle of a routine nothing but values of the two threads is anywhere.
Dispatched ==
  /\ SwitchTypeOK
  /\ pc = 0 /\ layout.kind = "timer" =>
       /\ vector = running
       /\ cur = Tcb(running)
       /\ next = Tcb(Other(running))

\* A switch entered by one side ends in the code of the other.
TakesTurns == [][pc # 0 /\ pc' = 0 => running' = Other(running)]_switchVars
=============================================================================
