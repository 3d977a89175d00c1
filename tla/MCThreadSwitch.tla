--------------------------- MODULE MCThreadSwitch ---------------------------
(***************************************************************************)
(* Footprints for ThreadSwitch.                                            *)
(***************************************************************************)
EXTENDS ThreadSwitch, FiniteSets

CONSTANTS Rcx, R8, R9, R10

Pool == << Rax, Rcx, Rdx, Rsi, Rdi, R8, R9, R10 >>

\* The registers of S in the order of the pool.
InOrder(S) == SelectSeq(Pool, LAMBDA r : r \in S)
Layout(kind, left, right) ==
  [kind |-> kind, gp |-> [left |-> InOrder(left), right |-> InOrder(right)]]

Halves(S) == { T \in SUBSET S : 2 * Cardinality(T) = Cardinality(S) }

\* Every way to share the registers out evenly between the sides.
Apart == { Layout("timer", S, General \ S) : S \in Halves(General) }

\* Footprints, apart or not, without the register that holds the other's TCB.
Callable ==
  { Layout("called", S, T) :
      S \in SUBSET {Rax, Rcx, Rdi, R8}, T \in {{}, {Rax, Rdi}, {Rcx, R8}, {R8, R9}} }

Safe == Apart \cup Callable

=============================================================================
