---------------------------- MODULE MCThreadPlan ----------------------------
(***************************************************************************)
(* Programs for ThreadPlan: two threads, a helper that may be called by    *)
(* either or both, over one or two files.                                  *)
(***************************************************************************)
EXTENDS ThreadPlan

CONSTANTS foo, bar, help, R1, R2, R3, R4, R5, R6, R7, R8

Eight == << R1, R2, R3, R4, R5, R6, R7, R8 >>

All == {foo, bar, help}
OneFile == << << help, foo, bar >> >>
TwoFiles == << << foo >>, << bar, help >> >>
Calls(left, right) == [h \in All |-> IF h = foo THEN left
                                     ELSE IF h = bar THEN right ELSE {}]
Wants(l, r, h) == [g \in All |-> IF g = foo THEN l ELSE IF g = bar THEN r ELSE h]
None == [h \in All |-> {}]
Only(g, S) == [h \in All |-> IF h = g THEN S ELSE {}]
BothSides == [left |-> {foo}, right |-> {bar}]

Program(files, exported, threads, calls, wants, fixed, implied, broken) ==
  [files |-> files, exported |-> exported, threads |-> threads, calls |-> calls,
   wants |-> wants, fixed |-> fixed, implied |-> implied, broken |-> broken]

\* Everything exported, nothing implied, and no thread in a file that is
\* passed over.
Small ==
  { Program(files, All, BothSides, calls, Wants(l, r, 1), fixed, None, {}) :
      files \in {OneFile, TwoFiles},
      calls \in {Calls({}, {}), Calls({help}, {}), Calls({help}, {help}),
                 Calls({bar}, {help})},
      l \in {0, 1, 3}, r \in {2, 4},
      fixed \in {None, Only(bar, {R1}), Only(help, {R3})} }

\* Needs that exceed the pool, and needs that just fill it.
Large ==
  { Program(OneFile, All, BothSides, Calls({}, {}), Wants(l, r, 0), None, None, {}) :
      l \in {2, 4, 5}, r \in {4, 7} }

\* One file is passed over; or all threads are on one side, or there are none.
Odd ==
  { Program(<< << help >>, << foo, bar >> >>, All, threads, Calls({}, {}),
            Wants(1, 2, 2), None, None, {1}) :
      threads \in { BothSides, [left |-> {}, right |-> {}],
                    [left |-> {foo, bar}, right |-> {}] } }

\* A static helper after a thread: the scan reads its code as the thread's.
Static ==
  { Program(<< << foo, help, bar >> >>, {foo, bar}, BothSides, calls, Wants(2, 3, 5),
            None, None, {}) :
      calls \in {Calls({}, {}), Calls({help}, {})} }

Plain == Small \cup Large \cup Odd \cup Static

=============================================================================
