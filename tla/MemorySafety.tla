---------------------------- MODULE MemorySafety ----------------------------
(***************************************************************************)
(* The memory-safety analysis and automatic free() insertion               *)
(* (shivyc/memory_safety.py): after OwnershipAnalysis the frees it found   *)
(* are inserted; then the function Root is run on a heap to see what the   *)
(* frees do.                                                               *)
(***************************************************************************)
EXTENDS OwnershipAnalysis

CONSTANTS
  Root,         \* the function that is run
  MaxObjects,   \* bound of the model: how many objects a run allocates
  MaxSteps      \* bound of the model: how long a run is

VARIABLES
  stage,        \* "analyse", "run", "done"
  code,         \* the functions with the frees inserted
  mach,         \* the run
  steps

vars == <<analysis, stage, code, mach, steps>>

----------------------------------------------------------------------------
(* The frees to insert *)

\* One free for every allocation, of the value that holds it.
Frees(f) ==
  LET allocs == DOMAIN autofree[f]
      order == CHOOSE s \in [1..Cardinality(allocs) -> allocs] :
                 \A j, k \in 1..Cardinality(allocs) : j # k => s[j] # s[k]
  IN [k \in 1..Cardinality(allocs) |-> Cmd("autofree", "", <<autofree[f][order[k]]>>, "")]

\* The frees go in front of every return, and at the end if control falls off it.
WithFrees(f) ==
  LET p == program[f]
      new[k \in 0..Len(p)] ==
        IF k = 0 THEN << >>
        ELSE new[k - 1] \o (IF p[k].op = "return" THEN Frees(f) ELSE << >>) \o <<p[k]>>
  IN IF p[Len(p)].op = "return" THEN new[Len(p)] ELSE new[Len(p)] \o Frees(f)

----------------------------------------------------------------------------
(* Running the code.  Values are pointers to the objects of the heap, to   *)
(* their start or inside them, addresses of locals, null, and junk.        *)

Pointer(n, inner) == [kind |-> "heap", obj |-> n, inner |-> inner]
Other(kind) == [kind |-> kind, obj |-> 0, inner |-> FALSE]

NoFault == [by |-> "none", at |-> 0, freed |-> FALSE]

Boot == [frames |-> << [fn |-> Root, pc |-> 1, env |-> << >>] >>, heap |-> << >>,
         globals |-> [g \in Globals |-> Other("null")], fault |-> NoFault]

Frame(m) == m.frames[Len(m.frames)]

Value(m, v) == IF v \in Globals THEN m.globals[v]
               ELSE IF v \in DOMAIN Frame(m).env THEN Frame(m).env[v] ELSE Other("junk")

Assigned(m, v, x) ==
  IF v = "" THEN m
  ELSE IF v \in Globals THEN [m EXCEPT !.globals[v] = x]
  ELSE [m EXCEPT !.frames[Len(m.frames)].env = Over(Only(v, x), @)]

Goto(m, k) == [m EXCEPT !.frames[Len(m.frames)].pc = k]

Onward(m) == Goto(m, Frame(m).pc + 1)

\* A wrong command is blamed on the compiler if it is one of its frees, or
\* meets an object that one of them freed.  "at" is the place in Root.
Faulty(m, x, inserted) ==
  [m EXCEPT !.fault =
     [by |-> IF inserted \/ (x.kind = "heap" /\ m.heap[x.obj].freed = "compiler")
             THEN "compiler" ELSE "program",
      at |-> m.frames[1].pc,
      freed |-> x.kind = "heap" /\ m.heap[x.obj].freed # "no"]]

Alive(m, x) == x.kind = "heap" /\ m.heap[x.obj].freed = "no"

FreedBy(m, x, who) ==
  IF x.kind = "null" THEN Onward(m)
  ELSE IF Alive(m, x) /\ ~x.inner THEN Onward([m EXCEPT !.heap[x.obj].freed = who])
  ELSE Faulty(m, x, who = "compiler")

\* The objects that can still be reached from the values X.
Reachable(m, X) ==
  LET objects(S) == { x.obj : x \in { y \in S : y.kind = "heap" } }
      reach[n \in 0..MaxObjects] ==
        IF n = 0 THEN objects(X)
        ELSE reach[n - 1] \cup objects({ m.heap[o].cell : o \in reach[n - 1] })
  IN reach[MaxObjects]

\* The caller of Root may use whatever it can reach.
Left(m, x) ==
  LET roots == { m.globals[g] : g \in Globals } \cup {x}
  IN IF \E o \in Reachable(m, roots) : m.heap[o].freed = "compiler"
     THEN [m EXCEPT !.frames = << >>, !.fault = [by |-> "compiler", at |-> 0, freed |-> TRUE]]
     ELSE [m EXCEPT !.frames = << >>]

Returned(m, x) ==
  IF Len(m.frames) = 1 THEN Left(m, x)
  ELSE LET caller == [m EXCEPT !.frames = SubSeq(@, 1, Len(@) - 1)]
           c == code[Frame(caller).fn][Frame(caller).pc]
       IN Onward(Assigned(caller, c.out, x))

\* The machines that the next command can lead to: two for a branch.
Executed(m) ==
  LET p == code[Frame(m).fn]
      c == p[Frame(m).pc]
      x == IF c.args = << >> THEN Other("junk") ELSE Value(m, c.args[1])
  IN CASE c.op = "alloc" ->
            IF Len(m.heap) = MaxObjects THEN {}
            ELSE { Onward(Assigned([m EXCEPT !.heap = Append(@, [freed |-> "no",
                                                                 cell |-> Other("junk")])],
                                   c.out, Pointer(Len(m.heap) + 1, FALSE))) }
       [] c.op = "free" -> { FreedBy(m, x, "program") }
       [] c.op = "autofree" -> { FreedBy(m, x, "compiler") }
       [] c.op = "call" ->
            { [m EXCEPT !.frames = Append(@, [fn |-> c.name, pc |-> 1,
                                              env |-> Only("argument", x)])] }
       [] c.op = "param" -> { Onward(Assigned(m, c.out, Value(m, "argument"))) }
       [] c.op = "set" -> { Onward(Assigned(m, c.out, x)) }
       [] c.op = "putrel" -> { Onward(Assigned(m, c.name, x)) }
       [] c.op = "derive" -> { Onward(Assigned(m, c.out, [x EXCEPT !.inner = TRUE])) }
       [] c.op = "addrof" -> { Onward(Assigned(m, c.out, Other("stack"))) }
       [] c.op = "extern" -> { IF Alive(m, x) THEN Onward(Assigned(m, "hidden", x))
                                             ELSE Faulty(m, x, FALSE) }
       [] c.op = "read" -> { IF Alive(m, x) THEN Onward(Assigned(m, c.out, m.heap[x.obj].cell))
                             ELSE Faulty(m, x, FALSE) }
       [] c.op = "store" ->
            { IF Alive(m, x) THEN Onward([m EXCEPT !.heap[x.obj].cell = Value(m, c.args[2])])
              ELSE Faulty(m, x, FALSE) }
       [] c.op = "label" -> { Onward(m) }
       [] c.op = "jump" -> { Goto(m, LabelAt(p, c.name)) }
       [] c.op = "branch" -> { Goto(m, LabelAt(p, c.name)), Onward(m) }
       [] c.op = "return" -> { Returned(m, x) }

Init ==
  /\ FlowInit
  /\ stage = "analyse" /\ code = program /\ mach = << >> /\ steps = 0

InsertAutoFrees ==
  /\ phase = "done" /\ stage = "analyse"
  /\ code' = [f \in DOMAIN program |-> WithFrees(f)]
  /\ stage' = "run"
  /\ mach' = Boot
  /\ UNCHANGED <<analysis, steps>>

Running == stage = "run" /\ mach.frames # << >> /\ mach.fault = NoFault /\ steps < MaxSteps

Run ==
  /\ Running
  /\ mach' \in Executed(mach)
  /\ steps' = steps + 1
  /\ UNCHANGED <<analysis, stage, code>>

Stop ==
  /\ stage = "run"
  /\ Running => Executed(mach) = {}
  /\ stage' = "done"
  /\ UNCHANGED <<analysis, code, mach, steps>>

Next == \/ FlowNext /\ UNCHANGED <<stage, code, mach, steps>>
        \/ InsertAutoFrees \/ Run \/ Stop

\* The compiler is one sequential loop: it always goes on.
Spec == Init /\ [][Next]_vars /\ WF_vars(Next)

----------------------------------------------------------------------------
(* Properties *)

TypeOK == FlowTypeOK /\ stage \in {"analyse", "run", "done"} /\ steps \in 0..MaxSteps

\* The analysis of every program ends, and so does the bounded run.
Ends == <>(stage = "done")

\* A free that the compiler inserts never frees what the program frees or can
\* still reach, or what is not an allocation (examples/memory/README.md:86).
\* Not so for every program; the next definitions say for which it is.
AutoFreesSound == stage = "done" => mach.fault.by # "compiler"

(***************************************************************************)
(* What the analysis needs for that and does not check: a value holds one  *)
(* thing, assigned before control forks; pointers are not moved inside     *)
(* objects, nor put in the fields of a struct; a helper does not return    *)
(* its parameter, and frees it on every path or none.                      *)
(***************************************************************************)
PlainFunction(p) ==
  /\ \A j, k \in 1..Len(p) :
       /\ p[j].out = p[k].out /\ p[j].out \notin Globals \cup {""} => j = k
       /\ j < k /\ p[j].op \in {"label", "branch", "jump"} => p[k].out = ""
       /\ p[j].op = "param" /\ p[k].op = "return" => \A i \in 1..Len(p[k].args) :
                                                       p[k].args[i] # p[j].out
  /\ \A k \in 1..Len(p) : p[k].op \notin {"derive", "putrel", "addrof"}

FreesAtOnce(p) ==
  \A j, k \in 1..Len(p) : j < k /\ p[k].op \in {"free", "call"} => p[j].op # "branch"

Plain == \A f \in DOMAIN program :
           PlainFunction(program[f]) /\ (f # Root => FreesAtOnce(program[f]))

\* In plain programs the inserted frees are right.
SoundWhenPlain == stage = "done" /\ Plain => AutoFreesSound

\* What a report can be relied on for: no loops, and pointers move only from
\* value to value and into helpers that always do the same with them.
Direct ==
  LET p == program[Root]
  IN /\ \A k \in 1..Len(p) :
          /\ p[k].op \in {"jump", "branch"} => LabelAt(p, p[k].name) > k
          /\ p[k].op \notin {"derive", "putrel"}
     /\ \A f \in CalledBy(p) :
          FreesAtOnce(program[f]) /\ PlainFunction(program[f])
            /\ \A k \in 1..Len(program[f]) : program[f][k].out \notin Globals

\* The analysis stays in its lattice and leaves a solution; in direct programs
\* every use of a freed object and every second free that can happen is then
\* reported at its command of Root.
BugsReported ==
  /\ TypeOK /\ Converged /\ Complete /\ OnlyHeldFreed
  /\ stage = "done" /\ Direct /\ mach.fault.by = "program" /\ mach.fault.freed =>
       \E d \in diags : d.fn = Root /\ d.at = mach.fault.at

\* Without forks nothing else is reported: a Root that runs to its end has
\* no use of a freed object and no second free.
NoFalseAlarms ==
  stage = "done" /\ mach.frames = << >>
    /\ (\A f \in DOMAIN program : \A k \in 1..Len(program[f]) : program[f][k].op # "branch")
    => diags = {}

=============================================================================
