----------------------------- MODULE MCRegAlloc -----------------------------
(***************************************************************************)
(* The finite instance of RegAlloc.                                        *)
(***************************************************************************)
EXTENDS RegAlloc

CONSTANTS rax, rcx, rdx, rbx

\* Two registers, so that three values already compete.  The commands clobber
\* one of them and two that are not in the pool, as under a thread budget.
TwoRegisters == <<rax, rbx>>
=============================================================================
