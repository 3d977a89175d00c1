----------------------------- MODULE CallLowering -----------------------------
(***************************************************************************)
(* What happens to calls and returns between the call graph of the whole   *)
(* program and the code: direct calls (stackless), inlining across files,  *)
(* removal of dead functions, tail calls, metamorphic returns through a    *)
(* slot, and -O4 scratch buffers that serve every activation of a          *)
(* function.  Then the linked program runs, next to the calls and returns  *)
(* its source asks for.                                                    *)
(***************************************************************************)
EXTENDS Integers, Sequences, FiniteSets

CONSTANTS
  Names,     \* of functions
  Files,     \* compiled in increasing order
  Outside,   \* code the compiler never sees: the C library, the start-up code
  Programs,
  MaxDepth   \* bound on the calls in progress and on the return addresses

\* A call: of the function with that name; by its name, or through a variable
\* that was given the function's address, or through a table that a static
\* initializer fills; and whether its value is returned at once.
Site == [to : Names, how : {"name", "variable", "table"}, last : BOOLEAN]

\* A program: each file's functions with their calls in order; which functions
\* are static, which carry __metamorphic__, which are small leaves that touch
\* no memory; whether its files are given to one run of the compiler; flags.
IsProgram(p) ==
  /\ p.code = [u \in Files |-> p.code[u]]
  /\ \A u \in Files :
       /\ DOMAIN p.code[u] \subseteq Names
       /\ p.code[u] \in [DOMAIN p.code[u] -> Seq(Site)]
  /\ p.static \subseteq Files \X Names
  /\ \A u, v \in Files : \A n \in DOMAIN p.code[u] \cap DOMAIN p.code[v] :
       u = v \/ <<u, n>> \in p.static \/ <<v, n>> \in p.static
  /\ p.metamorphic \subseteq Files \X Names /\ p.pure \subseteq Files \X Names
  /\ {p.joint, p.o4, p.stackless, p.meta} \subseteq BOOLEAN

ASSUME FilesAssumption == Files \subseteq Nat /\ IsFiniteSet(Files)
ASSUME NamesAssumption == IsFiniteSet(Names) /\ Outside \notin Files \X Names
ASSUME ProgramsAssumption == \A p \in Programs : IsProgram(p)
ASSUME DepthAssumption == MaxDepth \in Nat

VARIABLES
  prog,      \* never changes
  graph,     \* WholeProgramGraph
  merged,    \* the files added to it
  unit,      \* what each compiled file was turned into
  refused,   \* a compilation ended in an error
  here,      \* the running code's place: the next call of a function
  back,      \* the return addresses on the stack
  slot,      \* the return slots of the metamorphic functions
  calls      \* the calls in progress, as the source has them

vars == <<prog, graph, merged, unit, refused, here, back, slot, calls>>

Functions == Files \X Names
Local(u) == DOMAIN prog.code[u]
Defined == { f \in Functions : f[2] \in Local(f[1]) }
Exported == Defined \ prog.static

\* The linker's view: a file's own function first, else the exported one.
Meaning(u, n) ==
  IF n \in Local(u) THEN <<u, n>>
  ELSE IF \E v \in Files : <<v, n>> \in Exported
         THEN CHOOSE f \in Exported : f[2] = n ELSE Outside

-----------------------------------------------------------------------------
(***************************************************************************)
(* The passes over one function's calls.                                   *)
(***************************************************************************)
\* _apply_direct_calls: the address of a function that is only called is
\* folded into the call.
Folded(sites) ==
  [i \in DOMAIN sites |->
     [to |-> sites[i].to, last |-> sites[i].last,
      form |-> IF sites[i].how = "name" THEN "direct" ELSE "pointer",
      kept |-> sites[i].how = "variable"]]

Callees(sites) == { sites[i].to : i \in { j \in DOMAIN sites :
                                            sites[j].form \in {"direct", "tail"} } }

\* The functions whose address is still taken by a command.
Taken(sites) == { sites[i].to : i \in { j \in DOMAIN sites : sites[j].kept } }

\* inline_calls: a direct call of a function whose body was captured.
Spliced(sites, bodies) ==
  [i \in DOMAIN sites |->
     IF sites[i].form = "direct" /\ sites[i].to \in DOMAIN bodies
       THEN [sites[i] EXCEPT !.form = "spliced"] ELSE sites[i]]

\* Mutant of TailCalls: whatever follows the call.
TailCallsAnywhere(sites, noTail) ==
  [i \in DOMAIN sites |->
     IF sites[i].form = "direct" /\ sites[i].to \notin noTail
       THEN [sites[i] EXCEPT !.form = "tail"] ELSE sites[i]]

\* _apply_tail_calls.
TailCalls(sites, noTail) ==
  [i \in DOMAIN sites |->
     IF sites[i].form = "direct" /\ sites[i].last /\ sites[i].to \notin noTail
       THEN [sites[i] EXCEPT !.form = "tail"] ELSE sites[i]]

\* What can be reached from n in one step or more: all that every set closed
\* under the edges and holding n's successors holds.
Reach(edges, n) ==
  { m \in Names : \A S \in SUBSET Names :
      edges[n] \subseteq S /\ (\A k \in S : edges[k] \subseteq S) => m \in S }

-----------------------------------------------------------------------------
(***************************************************************************)
(* The passes over a file.                                                 *)
(***************************************************************************)
\* The functions named in the file's static initializers.
Tables(u) ==
  { n \in Names : \E m \in Local(u) : \E i \in DOMAIN prog.code[u][m] :
      prog.code[u][m][i].to = n /\ prog.code[u][m][i].how = "table" }

EdgesOf(code) == [n \in Names |-> IF n \in DOMAIN code THEN Callees(code[n]) ELSE {}]
TakenIn(code) == UNION { Taken(code[n]) : n \in DOMAIN code }
Statics(u) == { n \in Local(u) : <<u, n>> \in prog.static }

\* Mutant of Alive: the static initializers are no roots.
AliveOffTables(u, code) ==
  LET roots == (Local(u) \ Statics(u)) \cup (TakenIn(code) \cap Local(u))
  IN  roots \cup ((UNION { Reach(EdgesOf(code), r) : r \in roots }) \cap Local(u))

\* eliminate_dead_functions keeps what can be entered from outside the static
\* call graph, and what that reaches.
Alive(u, code) ==
  LET roots == (Local(u) \ Statics(u)) \cup ((TakenIn(code) \cup Tables(u)) \cap Local(u))
  IN  roots \cup ((UNION { Reach(EdgesOf(code), r) : r \in roots }) \cap Local(u))

\* Which names of file u return through a slot, as its compilation sees it.
Metamorphic(u) ==
  IF prog.meta THEN { n \in Local(u) : <<u, n>> \in prog.metamorphic } ELSE {}

\* The bodies that inlining may use: only at -O4, and only if there is a graph.
Bodies == IF prog.o4 THEN graph.bodies ELSE <<>>

Restricted(code, S) == [n \in S |-> code[n]]

Inlined(u) ==
  LET folded == [n \in Local(u) |-> Folded(prog.code[u][n])]
      spliced == [n \in Local(u) |-> Spliced(folded[n], Bodies)]
  IN  IF DOMAIN Bodies = {} THEN folded ELSE Restricted(spliced, Alive(u, spliced))

\* stackless.optimize: all functions, or those that were marked.
Lowered(u) ==
  [n \in DOMAIN Inlined(u) |->
     IF prog.o4 \/ prog.stackless \/ n \in Metamorphic(u)
       THEN TailCalls(Inlined(u)[n], Metamorphic(u)) ELSE Inlined(u)[n]]

\* The call graph the safety checks of a file reason about: its own functions
\* as they are now, the others as the whole-program graph has them.
View(code) ==
  [n \in Names |-> IF n \in DOMAIN code THEN Callees(code[n]) ELSE graph.edges[n]]

\* Mutant of Eligible: functions the unit only declares are trusted.
EligibleTrusting(u, code, n) ==
  /\ n \notin TakenIn(code) \cup graph.taken
  /\ n \notin Reach(View(code), n)

\* near_scratch_funcs.
Eligible(u, code, n) ==
  /\ n \notin TakenIn(code) \cup graph.taken
  /\ n \notin Reach(View(code), n)
  /\ \/ Reach(View(code), n) \subseteq DOMAIN code \cup graph.defined
     \/ n \in Statics(u)

-----------------------------------------------------------------------------
(***************************************************************************)
(* The compilation.                                                        *)
(***************************************************************************)
NoCode == [done |-> FALSE, code |-> <<>>, near |-> {}]
Away == [fn |-> Outside, pc |-> 0]

Init ==
  /\ prog \in Programs
  /\ graph = [defined |-> {}, edges |-> [n \in Names |-> {}], taken |-> {}, bodies |-> <<>>]
  /\ merged = {}
  /\ unit = [u \in Files |-> NoCode]
  /\ refused = FALSE
  /\ here = Away
  /\ back = <<>>
  /\ slot = [f \in Functions |-> Away]
  /\ calls = <<>>

\* A graph is built when one run compiles several files and needs it.
WholeProgram == prog.joint /\ Cardinality(Files) > 1 /\ (prog.o4 \/ prog.meta)
ToMerge == IF WholeProgram THEN Files \ merged ELSE {}
ToCompile == { u \in Files : ~unit[u].done }
Least(S) == { u \in S : \A v \in S : u <= v }

\* add_tu: the call graph of one more file; the first body of a name is kept.
AddUnit ==
  /\ ToMerge # {} /\ ~refused
  /\ \E u \in Least(ToMerge) :
     LET code == [n \in Local(u) |-> Folded(prog.code[u][n])]
         new == { n \in Local(u) : <<u, n>> \in prog.pure } \ DOMAIN graph.bodies
     IN  /\ merged' = merged \cup {u}
         /\ graph' =
              [defined |-> graph.defined \cup Local(u),
               edges |-> [n \in Names |-> graph.edges[n] \cup EdgesOf(code)[n]],
               taken |-> graph.taken \cup TakenIn(code),
               bodies |-> [n \in new \cup DOMAIN graph.bodies |->
                             IF n \in new THEN <<u, n>> ELSE graph.bodies[n]]]
  /\ UNCHANGED <<prog, unit, refused, here, back, slot, calls>>

\* Mutant of CompileFile: a metamorphic function may reach itself.
CompileFileAnyway ==
  /\ ToMerge = {} /\ ToCompile # {} /\ ~refused
  /\ \E u \in Least(ToCompile) : \E code \in {Lowered(u)} :
       unit' = [unit EXCEPT ![u] =
                  [done |-> TRUE, code |-> code,
                   near |-> IF prog.o4 THEN { n \in DOMAIN code : Eligible(u, code, n) }
                            ELSE {}]]
  /\ UNCHANGED <<prog, graph, merged, refused, here, back, slot, calls>>

\* process_c_file.
CompileFile ==
  /\ ToMerge = {} /\ ToCompile # {} /\ ~refused
  /\ \E u \in Least(ToCompile) : \E code \in {Lowered(u)} :
       IF \E m \in Metamorphic(u) : m \in Reach(View(code), m)
         THEN refused' = TRUE /\ UNCHANGED unit
         ELSE /\ unit' = [unit EXCEPT ![u] =
                   [done |-> TRUE, code |-> code,
                    near |-> IF prog.o4 THEN { n \in DOMAIN code : Eligible(u, code, n) }
                             ELSE {}]]
              /\ UNCHANGED refused
  /\ UNCHANGED <<prog, graph, merged, here, back, slot, calls>>

-----------------------------------------------------------------------------
(***************************************************************************)
(* The program runs.  Code outside starts it, and may call every exported  *)
(* function, and every function whose address it may have been given.      *)
(***************************************************************************)
Linked == ToCompile = {} /\ ~refused
Emitted(f) == f[2] \in DOMAIN unit[f[1]].code
CodeOf(f) == unit[f[1]].code[f[2]]
Entry(f) == [fn |-> f, pc |-> IF f = Outside THEN 0 ELSE 1]

Inside == here.fn # Outside /\ Emitted(here.fn)
Calling == Inside /\ here.pc <= Len(CodeOf(here.fn))
TheSite == CodeOf(here.fn)[here.pc]

\* Where the source goes on after the call: a value returned at once leaves
\* nothing to do.
Next_(sites, place) ==
  [place EXCEPT !.pc = IF sites[place.pc].last THEN Len(sites) + 1 ELSE @ + 1]

\* A condition in the source passes over the call.
Skip ==
  /\ Linked /\ Calling
  /\ here' = [here EXCEPT !.pc = @ + 1]
  /\ UNCHANGED <<prog, graph, merged, unit, refused, back, slot, calls>>

\* A spliced body: a leaf, nothing of which is left to see.
RunSpliced ==
  /\ Linked /\ Calling /\ TheSite.form = "spliced"
  /\ here' = Next_(CodeOf(here.fn), here)
  /\ UNCHANGED <<prog, graph, merged, unit, refused, back, slot, calls>>

\* Call.make_asm: through the slot, by a jump, or by a call.
CallOut ==
  /\ Linked /\ Calling /\ TheSite.form # "spliced"
  /\ Len(calls) < MaxDepth /\ Len(back) < MaxDepth
  /\ LET site == TheSite
         callee == Meaning(here.fn[1], site.to)
         then == Next_(CodeOf(here.fn), here)
         bySlot == site.form # "pointer" /\ site.to \in Metamorphic(here.fn[1])
     IN  /\ here' = Entry(callee)
         /\ calls' = Append(calls, [at |-> then, form |-> site.form])
         /\ slot' = IF bySlot THEN [slot EXCEPT ![callee] = then] ELSE slot
         /\ back' = IF bySlot \/ site.form = "tail" THEN back ELSE Append(back, then)
  /\ UNCHANGED <<prog, graph, merged, unit, refused>>

\* Functions whose address the program computes or stores.
Given ==
  { Meaning(p[1], p[2]) : p \in { q \in Files \X Names :
      q[2] \in TakenIn(unit[q[1]].code) \cup Tables(q[1]) } } \cap Functions

CallIn ==
  /\ Linked /\ here.fn = Outside
  /\ Len(calls) < MaxDepth /\ Len(back) < MaxDepth
  /\ \E f \in Exported \cup Given :
       /\ here' = Entry(f)
       /\ calls' = Append(calls, [at |-> Away, form |-> IF f \in Exported THEN "direct" ELSE "pointer"])
       /\ back' = Append(back, Away)
  /\ UNCHANGED <<prog, graph, merged, unit, refused, slot>>

\* A call in progress that has nothing left to do but return in its turn.
Spent(c) == c.at.fn # Outside /\ c.at.pc > Len(CodeOf(c.at.fn))

\* The call that a return to the place answers: the last one waiting there,
\* if those above it have nothing left to do.
Answers(place) ==
  { k \in DOMAIN calls : /\ calls[k].at = place
                         /\ \A j \in (k + 1)..Len(calls) : Spent(calls[j]) }

Returning == here.fn = Outside \/ (Inside /\ ~Calling)
BySlot == here.fn # Outside /\ here.fn[2] \in Metamorphic(here.fn[1])

\* Where Return.make_asm, or the code outside, jumps to.
Target == IF BySlot THEN slot[here.fn]
          ELSE IF back # <<>> THEN back[Len(back)] ELSE Away

Return ==
  /\ Linked /\ Returning /\ calls # <<>>
  /\ \E k \in Answers(Target) :
       /\ \A l \in Answers(Target) : l <= k
       /\ calls' = SubSeq(calls, 1, k - 1)
  /\ here' = Target
  /\ back' = IF BySlot \/ back = <<>> THEN back ELSE SubSeq(back, 1, Len(back) - 1)
  /\ UNCHANGED <<prog, graph, merged, unit, refused, slot>>

Next == AddUnit \/ CompileFile \/ Skip \/ RunSpliced \/ CallOut \/ CallIn \/ Return

Spec == Init /\ [][Next]_vars

-----------------------------------------------------------------------------
(***************************************************************************)
(* What must hold.                                                         *)
(***************************************************************************)
Place == [fn : Functions \cup {Outside}, pc : Nat]

TypeOK ==
  /\ IsProgram(prog) /\ merged \subseteq Files /\ refused \in BOOLEAN
  /\ graph.defined \subseteq Names /\ graph.taken \subseteq Names
  /\ graph.edges \in [Names -> SUBSET Names]
  /\ \A n \in DOMAIN graph.bodies : graph.bodies[n] \in prog.pure
  /\ \A u \in Files : /\ DOMAIN unit[u].code \subseteq Local(u)
                      /\ unit[u].near \subseteq DOMAIN unit[u].code
  /\ here \in Place /\ back \in Seq(Place) /\ slot \in [Functions -> Place]
  /\ \A k \in DOMAIN calls : calls[k].at \in Place
  /\ Len(calls) <= MaxDepth /\ Len(back) <= MaxDepth

\* No file has a static function of a name that another file uses.
Uses(u) ==
  { m \in Names : m \in Local(u) \/ \E n \in Local(u) : \E i \in DOMAIN prog.code[u][n] :
                                      prog.code[u][n][i].to = m }
Distinct == \A u, v \in Files : u # v => Uses(u) \cap Statics(v) = {}

\* The activations of a function whose frame is still there: of the calls in
\* progress those it made, and what runs now.
Active(f) ==
  { k \in DOMAIN calls : calls[k].at.fn = f /\ calls[k].form # "tail" } \cup
  { k \in {Len(calls) + 1} : here.fn = f }

\* The compilation of file u could not see who made the call.
Unseen(u, k) ==
  \/ calls[k].at.fn = Outside
  \/ ~WholeProgram /\ calls[k].at.fn[1] # u

\* A function that keeps its spills in a static buffer is active once at a
\* time: unless it was reached again through a pointer, or is static and was
\* reached again from code the compiler did not see (main.py:767).
NearOnce ==
  Distinct =>
    \A u \in Files : \A n \in unit[u].near : \A i, j \in Active(<<u, n>>) :
      i < j => \E k \in i..(j - 1) : \/ calls[k].form = "pointer"
                                     \/ n \in Statics(u) /\ Unseen(u, k)

\* Static metamorphic functions that are called by name only, call nothing
\* last, and under which only functions of their file run, called by name.
Tame ==
  /\ Distinct
  /\ \A u \in Files : \A n \in Metamorphic(u) :
       /\ n \in Statics(u) \ (Tables(u) \cup TakenIn(unit[u].code))
       /\ \A i \in DOMAIN prog.code[u][n] : ~prog.code[u][n][i].last
       /\ Reach(View(unit[u].code), n) \subseteq Local(u)
       /\ \A m \in {n} \cup Reach(View(unit[u].code), n) :
            \A i \in DOMAIN prog.code[u][m] : prog.code[u][m][i].how = "name"

NoSlots == \A u \in Files : Metamorphic(u) = {}

\* A return goes where the source's call left off, or where nothing is left to
\* do between there and where it goes (stackless.py:13, METAMORPHIC.md:87).
ReturnsRight ==
  Linked /\ Returning /\ calls # <<>> /\ (NoSlots \/ Tame) => Answers(Target) # {}

\* No function that is called was removed as dead (dce.py:8), and what the graph
\* and the units hold stays within the program.
NothingMissing == TypeOK /\ (Linked /\ here.fn # Outside => Emitted(here.fn))

=============================================================================
