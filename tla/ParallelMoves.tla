--------------------------- MODULE ParallelMoves ---------------------------
(***************************************************************************)
(* _emit_parallel_int_moves: the integer arguments of a call go to their   *)
(* registers one move at a time, although a register may be the target of  *)
(* one move and the source of another.  A move is [to, from, size].        *)
(***************************************************************************)
EXTENDS Integers, Sequences, FiniteSets

CONSTANTS
  Spots,     \* registers and memory
  Targets,   \* the argument registers
  Temps,     \* r11, r10, rax: where a cycle may be parked, in order of choice
  Units,     \* parts of an eightbyte
  Atoms,     \* what a part may hold
  Junk       \* a part that says nothing

VARIABLES
  mach,      \* spot -> the eightbyte it holds
  pending,   \* moves not yet made
  wanted     \* target -> [word, size]: what is to arrive; never changes

Words == [1..Units -> Atoms]
Moves == [to : Targets, from : Spots, size : 1..Units]

\* The first size parts of two eightbytes.
Agree(w, v, size) == \A u \in 1..size : w[u] = v[u]

\* mov of size bytes into a register says nothing of the rest of it.
Moved(w, size) == [u \in 1..Units |-> IF u <= size THEN w[u] ELSE Junk]

Reached(P) == { m.to : m \in P }
Read(P) == { m.from : m \in P }

\* Mutant of Ready: the first move is made whatever still reads its target.
ReadyAtOnce(m) == TRUE

\* No other move still reads what this one overwrites.
Ready(m) == \A o \in pending \ {m} : o.from # m.to

MoveReady ==
  \E m \in pending :
    /\ Ready(m)
    /\ mach' = [mach EXCEPT ![m.to] = Moved(mach[m.from], m.size)]
    /\ pending' = pending \ {m}
    /\ UNCHANGED wanted

\* The candidates that neither a pending target nor a pending source occupies.
FreeTemps == { k \in DOMAIN Temps : Temps[k] \notin Reached(pending) \cup Read(pending) }

\* Mutant of Redirected: the reader goes on waiting for the register copied away.
RedirectedNot(m, from, to) == m
Redirected(m, from, to) == IF m.from = from THEN [m EXCEPT !.from = to] ELSE m

\* Only cycles are left: one source is copied and its readers are sent to the copy.
BreakCycle ==
  /\ pending # {}
  /\ \A m \in pending : ~Ready(m)
  /\ \E k \in FreeTemps, m \in pending :
       /\ \A j \in FreeTemps : k <= j
       /\ mach' = [mach EXCEPT ![Temps[k]] = mach[m.from]]
       /\ pending' = { Redirected(o, m.from, Temps[k]) : o \in pending }
  /\ UNCHANGED wanted

Init ==
  /\ mach \in [Spots -> Words]
  /\ pending \in SUBSET Moves
  /\ \A m, o \in pending : m.to = o.to => m = o
  /\ wanted = [r \in Reached(pending) |->
                 LET m == CHOOSE o \in pending : o.to = r
                 IN  [word |-> mach[m.from], size |-> m.size]]

Next == MoveReady \/ BreakCycle
Spec == Init /\ [][Next]_<<mach, pending, wanted>>

(* What must hold of every prefix of the moves (control.py:30): a move not yet    *)
(* made would still deliver what its target is to receive, and a target already   *)
(* reached has kept it, although registers are overwritten and sources redirected. *)
OnCourse ==
  /\ \A m, o \in pending : m.to = o.to => m = o
  /\ \A m \in pending :
       m.to \in DOMAIN wanted /\ wanted[m.to].size = m.size
         /\ Agree(mach[m.from], wanted[m.to].word, m.size)
  /\ \A r \in DOMAIN wanted \ Reached(pending) : Agree(mach[r], wanted[r].word, wanted[r].size)

(* NotImplementedError is never raised (control.py:55): when only cycles are left, *)
(* their registers are all targets, and the first candidate is free.               *)
CycleBreakable ==
  pending = {} \/ (\E m \in pending : Ready(m)) \/ 1 \in FreeTemps
=============================================================================
