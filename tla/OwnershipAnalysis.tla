------------------------- MODULE OwnershipAnalysis -------------------------
(***************************************************************************)
(* The data flow of the memory-safety analysis (shivyc/memory_safety.py):  *)
(* a summary of every function, callees first, then a check of every       *)
(* function, which reports and finds what it should free at its returns.   *)
(***************************************************************************)
EXTENDS Integers, Sequences, FiniteSets

CONSTANTS
  Programs,     \* functions, each a sequence of commands
  Globals       \* the values with static storage

VARIABLES
  program,      \* prog.functions
  phase,        \* "summarize", "check", "done"
  fn,           \* the function under analysis, "" between two
  inState,      \* block -> abstract state on entry, for the blocks reached
  worklist,     \* the blocks to visit, taken from the end
  ctx,          \* what one analysis of fn collects
  summaries,
  diags,
  autofree      \* function -> the values to free at its returns

flow == <<inState, worklist, ctx>>
analysis == <<program, phase, fn, flow, summaries, diags, autofree>>

----------------------------------------------------------------------------
(* Commands.  A helper has at most one parameter and never calls itself.   *)

Cmd(op, out, args, name) == [op |-> op, out |-> out, args |-> args, name |-> name]

Command == [op : STRING, out : STRING, args : Seq(STRING), name : STRING]

\* A function has a name and a body, and its jumps have their labels.
ASSUME ProgramsAssumption ==
  \A prog \in Programs : \A f \in DOMAIN prog :
    /\ f \in STRING \ {""} /\ prog[f] \in Seq(Command) /\ prog[f] # << >>
    /\ \A k \in 1..Len(prog[f]) : prog[f][k].op \in {"jump", "branch"} =>
         \E l \in 1..Len(prog[f]) : prog[f][l].op = "label" /\ prog[f][l].name = prog[f][k].name

LabelAt(p, l) == CHOOSE k \in 1..Len(p) : p[k].op = "label" /\ p[k].name = l

CalledBy(p) == { p[k].name : k \in { j \in 1..Len(p) : p[j].op = "call" } }

\* The blocks of a function, known by their first commands.
Leaders(p) ==
  {1} \cup { k \in 1..Len(p) : p[k].op = "label" }
      \cup { k \in 2..Len(p) : p[k - 1].op \in {"jump", "branch", "return"} }

\* The last command of the block that starts at b.
LastOf(p, b) == CHOOSE e \in b..Len(p) :
                  /\ e = Len(p) \/ e + 1 \in Leaders(p)
                  /\ \A k \in b + 1 .. e : k \notin Leaders(p)

Succ(p, b) ==
  LET e == LastOf(p, b)
      jump == IF p[e].op \in {"jump", "branch"} THEN {LabelAt(p, p[e].name)} ELSE {}
      fall == IF p[e].op \notin {"jump", "return"} /\ e < Len(p) THEN {e + 1} ELSE {}
  IN jump \cup fall

----------------------------------------------------------------------------
(* The abstract state: where values may point to, what became of the       *)
(* allocations ("a" allocated, "mf" maybe freed, "f" freed), and which     *)
(* have escaped.  An allocation is known by the command that makes it.     *)

\* What g maps, except for what f maps.
Over(f, g) == [x \in DOMAIN f \cup DOMAIN g |-> IF x \in DOMAIN f THEN f[x] ELSE g[x]]

Only(x, y) == [z \in {x} |-> y]

Alloc(kind, f, at) == [kind |-> kind, fn |-> f, at |-> at]

Empty == [pt |-> << >>, freed |-> << >>, escaped |-> {}]

Flow(a) == [pt |-> a.pt, freed |-> a.freed, escaped |-> a.escaped]

NoCtx == [owned |-> << >>, escapedEver |-> {}, freedEver |-> {}, derefed |-> {},
          returned |-> FALSE, diags |-> {}]

Pts(a, v) == IF v \in DOMAIN a.pt THEN a.pt[v] ELSE {}

\* Mutant of Merge: what was known of an allocation before stays.
MergeFirst(x, y) ==
  [pt |-> [v \in DOMAIN x.pt \cup DOMAIN y.pt |-> Pts(x, v) \cup Pts(y, v)],
   freed |-> Over(x.freed, y.freed), escaped |-> x.escaped \cup y.escaped]

Merge(x, y) ==
  [pt |-> [v \in DOMAIN x.pt \cup DOMAIN y.pt |-> Pts(x, v) \cup Pts(y, v)],
   freed |-> [al \in DOMAIN x.freed \cup DOMAIN y.freed |->
                IF al \notin DOMAIN y.freed THEN x.freed[al]
                ELSE IF al \notin DOMAIN x.freed \/ x.freed[al] = y.freed[al] THEN y.freed[al]
                ELSE "mf"],
   escaped |-> x.escaped \cup y.escaped]

(***************************************************************************)
(* The parts of _transfer.  site is the command: [fn, at, record], record  *)
(* being FALSE while the summary is made.                                  *)
(***************************************************************************)
Alarms(a, site, kind, v) ==
  IF site.record
  THEN { [fn |-> site.fn, at |-> site.at, kind |-> kind, alloc |-> al] :
           al \in { x \in Pts(a, v) : x \in DOMAIN a.freed /\ a.freed[x] \in {"f", "mf"} } }
  ELSE {}

UseCheck(a, site, v) ==
  [a EXCEPT !.derefed = @ \cup Pts(a, v), !.diags = @ \cup Alarms(a, site, "use", v)]

MarkFree(a, site, v) ==
  [a EXCEPT !.diags = @ \cup Alarms(a, site, "double", v),
            !.freed = Over([al \in Pts(a, v) |-> "f"], @),
            !.freedEver = @ \cup Pts(a, v)]

MarkEscape(a, S) == [a EXCEPT !.escaped = @ \cup S, !.escapedEver = @ \cup S]

Bind(a, out, S) == [a EXCEPT !.pt = Over([v \in {out} \ {""} |-> S], @)]

Owned(a, out, al) ==
  IF out = "" THEN a
  ELSE [Bind(a, out, {al}) EXCEPT !.freed = Over(Only(al, "a"), @),
                                  !.owned = Over(Only(al, out), @)]

\* Mutant of Copied: what the target pointed to before stays.
CopiedWeakly(a, out, v) ==
  [Bind(a, out, Pts(a, v) \cup Pts(a, out)) EXCEPT
     !.owned = [al \in DOMAIN @ |-> IF al \in Pts(a, v) THEN out ELSE @[al]]]

\* Set: the target holds what the source holds; into a global it escapes.
Copied(a, out, v) ==
  LET b == Bind(a, out, Pts(a, v))
  IN IF out \in Globals THEN MarkEscape(b, Pts(a, v))
     ELSE [b EXCEPT !.owned = [al \in DOMAIN @ |-> IF al \in Pts(a, v) THEN out ELSE @[al]]]

\* Mutant of Called: what a callee lets escape is forgotten.
CalledForgetful(a, site, c, s) ==
  LET v == IF c.args = << >> THEN "" ELSE c.args[1]
      used == IF s.derefs THEN UseCheck(a, site, v) ELSE a
      freed == IF s.frees THEN MarkFree(used, site, v) ELSE used
  IN IF s.returns THEN Owned(freed, c.out, Alloc("ret", site.fn, site.at))
                  ELSE Bind(freed, c.out, {})

\* A call of a function of the program, by its summary s.
Called(a, site, c, s) ==
  LET v == IF c.args = << >> THEN "" ELSE c.args[1]
      used == IF s.derefs THEN UseCheck(a, site, v) ELSE a
      freed == IF s.frees THEN MarkFree(used, site, v) ELSE used
      esc == IF s.escapes THEN MarkEscape(freed, Pts(freed, v)) ELSE freed
  IN IF s.returns THEN Owned(esc, c.out, Alloc("ret", site.fn, site.at))
                  ELSE Bind(esc, c.out, {})

Transfer(a, site, c) ==
  CASE c.op = "alloc" -> Owned(a, c.out, Alloc("new", site.fn, site.at))
    [] c.op = "free" -> MarkFree(a, site, c.args[1])
    [] c.op = "call" -> Called(a, site, c, summaries[c.name])
    [] c.op = "extern" -> MarkEscape(UseCheck(a, site, c.args[1]), Pts(a, c.args[1]))
    [] c.op = "set" -> Copied(a, c.out, c.args[1])
    [] c.op = "read" -> Bind(UseCheck(a, site, c.args[1]), c.out, {})
    [] c.op = "store" -> MarkEscape(UseCheck(a, site, c.args[1]), Pts(a, c.args[2]))
    [] c.op = "return" ->
         IF c.args = << >> THEN a
         ELSE [MarkEscape(a, Pts(a, c.args[1])) EXCEPT
                 !.returned = @ \/ Pts(a, c.args[1]) # {}]
    [] c.op = "param" ->
         IF site.record THEN Bind(a, c.out, {})
         ELSE LET al == Alloc("param", site.fn, 1)
              IN [Bind(a, c.out, {al}) EXCEPT !.freed = Over(@, Only(al, "a"))]
    [] OTHER -> Bind(a, c.out, {})

Carry(x, cx) ==
  [pt |-> x.pt, freed |-> x.freed, escaped |-> x.escaped, owned |-> cx.owned,
   escapedEver |-> cx.escapedEver, freedEver |-> cx.freedEver, derefed |-> cx.derefed,
   returned |-> cx.returned, diags |-> cx.diags]

Collected(a) == [owned |-> a.owned, escapedEver |-> a.escapedEver, freedEver |-> a.freedEver,
                 derefed |-> a.derefed, returned |-> a.returned, diags |-> a.diags]

\* The state and the collected facts after the block that starts at b, from
\* those after each of its commands.
Leaving(f, b, x, cx) ==
  LET size == LastOf(program[f], b) - b + 1
      site(n) == [fn |-> f, at |-> b + n - 1, record |-> phase = "check"]
      after[n \in 0..size] ==
        IF n = 0 THEN Carry(x, cx)
        ELSE CHOOSE a \in { Transfer(y, site(n), program[f][b + n - 1]) : y \in {after[n - 1]} } : TRUE
  IN after[size]

----------------------------------------------------------------------------
(* The data flow of one function *)

StartOn(f) ==
  /\ fn' = f
  /\ inState' = Only(1, Empty)
  /\ worklist' = <<1>>
  /\ ctx' = NoCtx

\* The states on entry of the successors of b, when b leaves out.
Arrivals(b, out) ==
  [t \in Succ(program[fn], b) |->
     IF t \in DOMAIN inState THEN Merge(inState[t], out) ELSE out]

\* The elements of S in ascending order.
Ascending(S) == CHOOSE s \in [1..Cardinality(S) -> S] :
                  \A j, k \in 1..Cardinality(S) : j < k => s[j] < s[k]

\* The blocks of S that do not wait already.
Enqueued(waiting, S) ==
  waiting \o Ascending({ t \in S : \A k \in 1..Len(waiting) : waiting[k] # t })

\* Mutant of Visit: what did not change is visited again.
VisitAlways ==
  /\ fn # "" /\ worklist # << >>
  /\ LET b == worklist[Len(worklist)]
         a == Leaving(fn, b, inState[b], ctx)
         arrived == Arrivals(b, Flow(a))
     IN /\ ctx' = Collected(a)
        /\ inState' = Over(arrived, inState)
        /\ worklist' = Enqueued(SubSeq(worklist, 1, Len(worklist) - 1), DOMAIN arrived)
  /\ UNCHANGED <<program, phase, fn, summaries, diags, autofree>>

Visit ==
  /\ fn # "" /\ worklist # << >>
  /\ \E a \in { Leaving(fn, b, inState[b], ctx) : b \in {worklist[Len(worklist)]} } :
     LET arrived == Arrivals(worklist[Len(worklist)], Flow(a))
         news == { t \in DOMAIN arrived : t \notin DOMAIN inState \/ arrived[t] # inState[t] }
     IN /\ ctx' = Collected(a)
        /\ inState' = Over(arrived, inState)
        /\ worklist' = Enqueued(SubSeq(worklist, 1, Len(worklist) - 1), news)
  /\ UNCHANGED <<program, phase, fn, summaries, diags, autofree>>

\* The states in which the function can end, or leaves its first block for
\* ever if it cannot.
Exits ==
  LET ends == { x \in DOMAIN inState : Succ(program[fn], x) = {} }
  IN { Flow(Leaving(fn, b, inState[b], ctx)) : b \in IF ends = {} THEN {1} ELSE ends }

----------------------------------------------------------------------------
(* Summaries, callees first *)

FlowInit ==
  /\ program \in Programs
  /\ phase = "summarize" /\ fn = "" /\ inState = << >> /\ worklist = << >> /\ ctx = NoCtx
  /\ summaries = << >> /\ diags = {} /\ autofree = << >>

BeginSummary ==
  /\ phase = "summarize" /\ fn = ""
  /\ LET ready == { f \in DOMAIN program \ DOMAIN summaries :
                      CalledBy(program[f]) \subseteq DOMAIN summaries }
     IN ready # {} /\ StartOn(CHOOSE f \in ready : TRUE)
  /\ UNCHANGED <<program, phase, summaries, diags, autofree>>

EndSummary ==
  /\ phase = "summarize" /\ fn # "" /\ worklist = << >>
  /\ LET al == Alloc("param", fn, 1)
         s == [frees |-> \E x \in Exits : al \in DOMAIN x.freed /\ x.freed[al] = "f",
               escapes |-> \E x \in Exits : al \in x.escaped,
               derefs |-> al \in ctx.derefed,
               returns |-> ctx.returned]
     IN summaries' = Over(Only(fn, s), summaries)
  /\ fn' = ""
  /\ phase' = IF DOMAIN summaries' = DOMAIN program THEN "check" ELSE "summarize"
  /\ UNCHANGED <<program, flow, diags, autofree>>

----------------------------------------------------------------------------
(* The check *)

BeginCheck ==
  /\ phase = "check" /\ fn = ""
  /\ DOMAIN autofree # DOMAIN program
  /\ StartOn(CHOOSE f \in DOMAIN program \ DOMAIN autofree : TRUE)
  /\ UNCHANGED <<program, phase, summaries, diags, autofree>>

\* What the function owns to the end: the allocations, with their holders.
Leaked == [al \in DOMAIN ctx.owned \ (ctx.escapedEver \cup ctx.freedEver) |-> ctx.owned[al]]

EndCheck ==
  /\ phase = "check" /\ fn # "" /\ worklist = << >>
  /\ diags' = diags \cup ctx.diags
  /\ autofree' = Over(Only(fn, Leaked), autofree)
  /\ fn' = ""
  /\ phase' = IF DOMAIN autofree' = DOMAIN program THEN "done" ELSE "check"
  /\ UNCHANGED <<program, flow, summaries>>

FlowNext == BeginSummary \/ EndSummary \/ BeginCheck \/ EndCheck \/ Visit

FlowSpec == FlowInit /\ [][FlowNext]_analysis

----------------------------------------------------------------------------
(* Properties *)

\* The analysis keeps to its lattice, and names only blocks of the function.
FlowTypeOK ==
  /\ phase \in {"summarize", "check", "done"}
  /\ fn \in DOMAIN program \cup {""}
  /\ DOMAIN summaries \subseteq DOMAIN program /\ DOMAIN autofree \subseteq DOMAIN program
  /\ \A b \in DOMAIN inState :
       /\ fn # "" => b \in Leaders(program[fn])
       /\ \A al \in DOMAIN inState[b].freed : inState[b].freed[al] \in {"a", "mf", "f"}
  /\ \A j, k \in 1..Len(worklist) : worklist[j] = worklist[k] => j = k
  /\ \A k \in 1..Len(worklist) : worklist[k] \in DOMAIN inState

\* When the worklist of a function is empty, its states are a solution of the
\* flow equations from its first block: no edge carries anything that is not
\* in the state it enters.
Converged ==
  fn # "" /\ worklist = << >> =>
    /\ 1 \in DOMAIN inState
    /\ \A b \in DOMAIN inState : \A t \in Succ(program[fn], b) :
         /\ t \in DOMAIN inState
         /\ Merge(inState[t], Flow(Leaving(fn, b, inState[b], ctx))) = inState[t]

\* Then no block has anything to add to what was collected on the way, although
\* its state may have grown after a first visit.
Complete ==
  fn # "" /\ worklist = << >> =>
    \A b \in DOMAIN inState :
      LET a == Leaving(fn, b, inState[b], ctx)
      IN  /\ a.escapedEver = ctx.escapedEver /\ a.freedEver = ctx.freedEver
          /\ a.derefed = ctx.derefed /\ a.returned = ctx.returned /\ a.diags = ctx.diags

\* What is to be freed at the returns is allocated still and has not escaped, in
\* every state of the solution and wherever the function ends.
OnlyHeldFreed ==
  fn # "" /\ worklist = << >> =>
    \A al \in DOMAIN Leaked : \A x \in { inState[b] : b \in DOMAIN inState } \cup Exits :
      al \notin x.escaped /\ (al \in DOMAIN x.freed => x.freed[al] = "a")

=============================================================================
