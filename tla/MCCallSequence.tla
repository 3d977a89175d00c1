--------------------------- MODULE MCCallSequence ---------------------------
(***************************************************************************)
(* Calls for CallSequence: three argument registers, one vector register,  *)
(* and four parts to an eightbyte.                                         *)
(***************************************************************************)
EXTENDS CallSequence

CONSTANTS rax, rdx, rsi, rdi, r10, r11, xmm0

MCPool == <<rax, rdx, rsi, rdi, r10, r11>>
MCPackPool == <<rax, rdi, rsi, rdx, r10, r11>>
MCArgRegs == <<rdi, rsi, rdx>>
MCXmmRegs == <<xmm0>>
MCTemps == <<r11, r10, rax>>

Arg(v, class, size) == [value |-> v, class |-> class, size |-> size]
Half(v) == Arg(v, "int", 2)
Wide(v) == Arg(v, "int", 4)
Float(v) == Arg(v, "float", 4)
Struct(v, size) == Arg(v, "struct", size)

\* Shifted and swapped arguments, an argument given twice, structures that fit in
\* two registers, that do not fit and that never fit, floating arguments past the
\* vector register (before an argument register that their load may use), an even and
\* an odd number of stack slots.
Short ==
  { <<>>, <<Half(1), Half(1)>>, <<Half(1), Wide(2)>>, <<Struct(1, 8), Half(2)>>, <<Half(1), Struct(2, 6)>>,
    <<Struct(1, 7)>>, <<Float(1), Half(2), Float(3)>> }
Long ==
  { <<Half(1), Wide(2), Half(3)>>, <<Wide(1), Half(2), Wide(1)>>,
    <<Half(1), Half(2), Struct(3, 8), Half(4)>>, <<Struct(1, 9), Half(2), Half(3)>>,
    <<Half(1), Struct(2, 9), Wide(3), Half(4)>>, <<Half(1), Wide(2), Half(3), Half(4)>>,
    <<Float(1), Float(1), Half(2), Struct(3, 6)>>,
    <<Half(1), Wide(2), Float(3), Float(3), Half(1)>> }

Calling(ls, d, v, p) == { [args |-> l, direct |-> d, variadic |-> v, packing |-> p] : l \in ls }

Plain == Calling(Short \cup Long, TRUE, FALSE, FALSE) \cup Calling(Short, FALSE, FALSE, FALSE)
Variadic ==
  Calling({ <<Half(1), Wide(2)>>, <<Half(1), Float(2)>>, <<Wide(1), Struct(2, 6), Half(3)>> },
          FALSE, TRUE, FALSE)

Narrow(v) == Arg(v, "int", 1)
\* Into one and two registers of the three; the first gains nothing and stays as it is.
Packs ==
  Calling({ <<Wide(1), Wide(2)>>, <<Narrow(1), Half(2)>>, <<Wide(1), Half(2), Narrow(3)>>,
            <<Narrow(1), Wide(2), Narrow(1), Narrow(1)>>, <<Wide(1), Narrow(2), Narrow(3), Narrow(2), Narrow(2)>> },
          TRUE, FALSE, TRUE)

MCCalls == Plain \cup Variadic \cup Packs
=============================================================================
