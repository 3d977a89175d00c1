------------------------- MODULE CallSequenceProofs -------------------------
(***************************************************************************)
(* First the caller's half of a call, for any conventions, any call and    *)
(* any assignment of places its conflicts allow: no move of the arguments  *)
(* loses a value, a cycle of them can always be broken, and the call is    *)
(* made with rsp aligned and through the pointer the program meant.        *)
(*                                                                         *)
(* Then the analysis of OwnershipAnalysis, for any programs.  The two have *)
(* nothing in common but the lemmas about least numbers and recursion.     *)
(***************************************************************************)
EXTENDS CallSequence, OwnershipAnalysis, FiniteSetTheorems, SequenceTheorems,
        WellFoundedInduction, TLAPS

\* A set of numbers has a smallest one.
LEMMA Smallest ==
  ASSUME NEW S \in SUBSET Nat, S # {}
  PROVE  \E m \in S : \A x \in S : m <= x
<1> DEFINE R == {ss \in Nat \X Nat : ss[1] < ss[2]}
<1>1. IsWellFoundedOn(R, Nat)
  BY NatLessThanWellFounded DEF OpToRel
<1>2. PICK m \in S : \A x \in S : <<x, m>> \notin R
  <2> HIDE DEF R
  <2> QED BY <1>1, WFMin
<1>3. ASSUME NEW x \in S, NEW y \in S, <<x, y>> \notin R PROVE ~(x < y)
  <2>1. <<x, y>> \in Nat \X Nat /\ <<x, y>>[1] = x /\ <<x, y>>[2] = y
    OBVIOUS
  <2> QED BY <1>3, <2>1
<1>4. \A x \in S : ~(x < m)
  BY <1>2, <1>3
<1>5. \A x, y \in Nat : ~(x < y) => y <= x
  OBVIOUS
<1> QED BY <1>4, <1>5

\* Induction up to a bound, over a set instead of a predicate.
LEMMA UpTo ==
  ASSUME NEW N \in Nat, NEW S, 0 \in S, \A t \in 1..N : t - 1 \in S => t \in S
  PROVE  0..N \subseteq S
<1> SUFFICES ASSUME ~(0..N \subseteq S) PROVE FALSE
  OBVIOUS
<1> DEFINE Rest == (0..N) \ S
<1>1. Rest \in SUBSET Nat /\ Rest # {}
  OBVIOUS
<1>2. PICK m \in Rest : \A x \in Rest : m <= x
  <2> HIDE DEF Rest
  <2> QED BY <1>1, Smallest
<1>3. m \in 1..N /\ m - 1 \in 0..N /\ ~(m <= m - 1)
  BY <1>2
<1>4. m - 1 \in S
  BY <1>2, <1>3
<1> QED BY <1>2, <1>3, <1>4

\* A function defined by what it is at 0 and by a step is there.
Recursive(f, N, A, base, step) ==
  /\ f \in [0..N -> A]
  /\ f[0] = base
  /\ \A t \in 1..N : f[t] = step[t][f[t - 1]]

\* A function defined by what it is at 0 and by a step is there.
LEMMA Recursion ==
  ASSUME NEW N \in Nat, NEW A, NEW base \in A, NEW step \in [1..N -> [A -> A]]
  PROVE  \E f : Recursive(f, N, A, base, step)
<1> DEFINE Good(m, f) == /\ f \in [0..m -> A]
                         /\ f[0] = base
                         /\ \A t \in 1..m : f[t] = step[t][f[t - 1]]
           S == { m \in 0..N : \E f : Good(m, f) }
<1>1. 0 \in S
  <2>1. Good(0, [t \in 0..0 |-> base])
    OBVIOUS
  <2>2. \E f : Good(0, f)
    <3> HIDE DEF Good
    <3> QED BY <2>1
  <2> HIDE DEF Good
  <2> QED BY <2>2
<1>2. ASSUME NEW t \in 1..N, t - 1 \in S PROVE t \in S
  <2>1. PICK f : Good(t - 1, f)
    <3> HIDE DEF Good
    <3> QED BY <1>2
  <2> DEFINE g == [k \in 0..t |-> IF k = t THEN step[t][f[t - 1]] ELSE f[k]]
  <2>2. t - 1 \in 0..(t - 1) /\ f[t - 1] \in A /\ step[t][f[t - 1]] \in A
    BY <2>1
  <2>3. g \in [0..t -> A] /\ g[0] = base
    <3>1. \A k \in 0..t : k # t => k \in 0..(t - 1)
      OBVIOUS
    <3>2. 0 \in 0..t /\ 0 # t
      OBVIOUS
    <3> QED BY <2>1, <2>2, <3>1, <3>2
  <2>4. ASSUME NEW k \in 1..t PROVE g[k] = step[k][g[k - 1]]
    <3>1. k \in 0..t /\ k - 1 \in 0..t /\ k - 1 # t
      OBVIOUS
    <3>2. CASE k = t
      BY <3>1, <3>2
    <3>3. CASE k # t
      <4>1. k \in 1..(t - 1)
        BY <3>3
      <4>2. f[k] = step[k][f[k - 1]]
        BY <2>1, <4>1
      <4> QED BY <3>1, <3>3, <4>2
    <3> QED BY <3>2, <3>3
  <2>5. Good(t, g)
    <3> HIDE DEF g
    <3> QED BY <2>3, <2>4
  <2>6. t \in 0..N
    OBVIOUS
  <2> HIDE DEF Good
  <2> QED BY <2>5, <2>6
<1>3. N \in S
  <2> HIDE DEF S
  <2>1. 0..N \subseteq S
    BY <1>1, <1>2, UpTo
  <2> QED BY <2>1
<1> QED BY <1>3 DEF Recursive

\* The same from 1.
FromOne(k, N, A, base, step) ==
  /\ k \in [1..(N + 1) -> A]
  /\ k[1] = base
  /\ \A i \in 2..(N + 1) : k[i] = step[i - 1][k[i - 1]]

\* The same, from 1.
LEMMA RecursionFromOne ==
  ASSUME NEW N \in Nat, NEW A, NEW base \in A, NEW step \in [1..N -> [A -> A]]
  PROVE  \E k : FromOne(k, N, A, base, step)
<1>1. PICK f : Recursive(f, N, A, base, step)
  BY Recursion
<1> DEFINE k == [i \in 1..(N + 1) |-> f[i - 1]]
<1>2. \A i \in 1..(N + 1) : i - 1 \in 0..N
  OBVIOUS
<1>3. k \in [1..(N + 1) -> A]
  BY <1>1, <1>2 DEF Recursive
<1>4. k[1] = base
  <2>1. 1 \in 1..(N + 1) /\ 1 - 1 = 0
    OBVIOUS
  <2>2. k[1] = f[1 - 1]
    BY <2>1
  <2> QED BY <1>1, <2>1, <2>2 DEF Recursive
<1>5. ASSUME NEW i \in 2..(N + 1) PROVE k[i] = step[i - 1][k[i - 1]]
  <2>1. i - 1 \in 1..N /\ i - 1 \in 1..(N + 1) /\ i \in 1..(N + 1)
    OBVIOUS
  <2>2. k[i] = f[i - 1] /\ k[i - 1] = f[(i - 1) - 1]
    BY <2>1
  <2>3. f[i - 1] = step[i - 1][f[(i - 1) - 1]]
    BY <1>1, <2>1 DEF Recursive
  <2> QED BY <2>2, <2>3
<1> HIDE DEF k
<1> QED BY <1>3, <1>4, <1>5 DEF FromOne

-----------------------------------------------------------------------------
Argument == [value : 1..MaxArgs, class : {"int", "float", "struct"}, size : 1..(Units * MaxWords)]
Tally == [ii : Nat, fi : Nat, si : Nat]
Untold == [ii |-> 0, fi |-> 0, si |-> 0]

\* The way of an argument, in either kind of call.
Chosen(a, k) == IF call.variadic THEN VariadicWay(a, k) ELSE CallerWay(a, k)

\* What the assumptions say of the call being made.
LEMMA CallFacts ==
  ASSUME call \in Calls
  PROVE  /\ Args \in Seq(Argument)
         /\ \A i \in DOMAIN Args : i \in 1..Len(Args) /\ Args[i] \in Argument
         /\ \A i \in DOMAIN Args : WordsOf(Args[i]) \in Nat
         /\ Len(Args) \in Nat /\ DOMAIN Args = 1..Len(Args)
<1>1. Args \in Seq(Argument)
  BY CallAssumption DEF Args, Argument
<1>2. \A i \in DOMAIN Args : i \in 1..Len(Args) /\ Args[i] \in Argument
  BY <1>1
<1>3. ASSUME NEW i \in DOMAIN Args PROVE WordsOf(Args[i]) \in Nat
  <2>1. Args[i].size \in 1..(Units * MaxWords)
    BY <1>2 DEF Argument
  <2>2. Args[i].size \in Nat /\ Units \in Nat \ {0}
    BY <2>1, RegisterAssumption
  <2>3. \A x \in Nat, u \in Nat \ {0} : x \div u \in Nat
    OBVIOUS
  <2>4. Args[i].size + Units - 1 \in Nat
    BY <2>2
  <2> QED BY <2>2, <2>3, <2>4 DEF WordsOf
<1> QED BY <1>1, <1>2, <1>3

\* The recursion of Counters, unfolded.
LEMMA CountersAre ==
  Counters = CHOOSE k : k = [i \in 1..(Len(Args) + 1) |->
     IF i = 1 THEN Untold ELSE After(Chosen(Args[i - 1], k[i - 1]), Args[i - 1], k[i - 1])]
<1>1. CASE call.variadic
  BY <1>1 DEF Counters, Counted, Chosen, Untold
<1>2. CASE ~call.variadic
  BY <1>2 DEF Counters, Counted, Chosen, Untold
<1> QED BY <1>1, <1>2

\* Counting one argument only counts up.
LEMMA AfterTally ==
  ASSUME call \in Calls, NEW i \in DOMAIN Args, NEW k \in Tally
  PROVE  /\ After(Chosen(Args[i], k), Args[i], k) \in Tally
         /\ After(Chosen(Args[i], k), Args[i], k).ii >= k.ii
         /\ Chosen(Args[i], k) = "gpr" => After(Chosen(Args[i], k), Args[i], k).ii = k.ii + 1
<1> DEFINE way == Chosen(Args[i], k)
<1>1. way \in {"gpr", "regs", "skip", "xmm", "stack"}
  <2>1. Args[i].class \in {"int", "float", "struct"}
    BY CallFacts DEF Argument
  <2> QED BY <2>1 DEF Chosen, VariadicWay, CallerWay
<1>2. WordsOf(Args[i]) \in Nat
  BY CallFacts
<1>3. k.ii \in Nat /\ k.fi \in Nat /\ k.si \in Nat
  BY DEF Tally
<1> HIDE DEF way
<1>4. After(way, Args[i], k) \in Tally
  BY <1>1, <1>2, <1>3 DEF After, Tally
<1>5. After(way, Args[i], k).ii >= k.ii
  BY <1>1, <1>2, <1>3 DEF After, Tally
<1>6. way = "gpr" => After(way, Args[i], k).ii = k.ii + 1
  BY <1>1, <1>3 DEF After, Tally
<1> QED BY <1>4, <1>5, <1>6 DEF way

\* The counters before each argument are numbers, and grow by one where an
\* argument takes an integer register.
LEMMA CountersGrow ==
  ASSUME call \in Calls
  PROVE  /\ \A i \in 1..(Len(Args) + 1) : Counters[i] \in Tally
         /\ \A i \in DOMAIN Args :
              /\ Counters[i + 1].ii >= Counters[i].ii
              /\ WayOf(i) = "gpr" => Counters[i + 1].ii = Counters[i].ii + 1
<1> DEFINE N == Len(Args)
           Def(k) == k = [i \in 1..(N + 1) |->
              IF i = 1 THEN Untold ELSE After(Chosen(Args[i - 1], k[i - 1]), Args[i - 1], k[i - 1])]
           step == [i \in 1..N |-> [k \in Tally |-> After(Chosen(Args[i], k), Args[i], k)]]
<1>1. N \in Nat /\ DOMAIN Args = 1..N
  BY CallFacts
<1>2. step \in [1..N -> [Tally -> Tally]]
  BY <1>1, AfterTally
<1>3. Untold \in Tally
  BY DEF Untold, Tally
<1>4. PICK k : /\ k \in [1..(N + 1) -> Tally]
               /\ k[1] = Untold
               /\ \A i \in 2..(N + 1) : k[i] = step[i - 1][k[i - 1]]
  <2>1. N \in Nat
    BY <1>1
  <2> HIDE DEF N, step
  <2>2. \E g : FromOne(g, N, Tally, Untold, step)
    BY <2>1, <1>2, <1>3, RecursionFromOne
  <2> QED BY <2>2 DEF FromOne
<1>5. ASSUME NEW i \in 2..(N + 1)
      PROVE  /\ k[i - 1] \in Tally
             /\ k[i] = After(Chosen(Args[i - 1], k[i - 1]), Args[i - 1], k[i - 1])
  <2>1. i - 1 \in 1..N /\ i - 1 \in 1..(N + 1)
    BY <1>1
  <2> QED BY <1>4, <2>1
<1>6. Def(k)
  <2>1. \A i \in 1..(N + 1) : i # 1 => i \in 2..(N + 1)
    BY <1>1
  <2> HIDE DEF N, step
  <2> QED BY <1>4, <1>5, <2>1
<1>7. Def(Counters)
  <2>1. Counters = CHOOSE g : Def(g)
    BY CountersAre
  <2> HIDE DEF Def
  <2> QED BY <1>6, <2>1
<1>8. Counters = k
  <2> DEFINE S == { m \in 0..N : Counters[m + 1] = k[m + 1] }
  <2>1. 0 \in S
    <3>1. 1 \in 1..(N + 1) /\ 0 \in 0..N /\ 0 + 1 = 1
      BY <1>1
    <3>2. Counters[1] = Untold
      BY <1>7, <3>1
    <3> QED BY <1>4, <3>1, <3>2
  <2>2. ASSUME NEW m \in 1..N, m - 1 \in S PROVE m \in S
    <3>1. m + 1 \in 1..(N + 1) /\ m + 1 \in 2..(N + 1) /\ m + 1 # 1 /\ (m - 1) + 1 = m /\ (m + 1) - 1 = m
          /\ m \in 0..N
      BY <1>1
    <3>2. Counters[m] = k[m]
      BY <2>2, <3>1
    <3>3. Counters[m + 1] = After(Chosen(Args[m], Counters[m]), Args[m], Counters[m])
      BY <1>7, <3>1
    <3>4. k[m + 1] = After(Chosen(Args[m], k[m]), Args[m], k[m])
      BY <1>5, <3>1
    <3> QED BY <3>1, <3>2, <3>3, <3>4
  <2>3. 0..N \subseteq S
    <3> HIDE DEF S, N
    <3> QED BY <1>1, <2>1, <2>2, UpTo
  <2>4. \A i \in 1..(N + 1) : Counters[i] = k[i]
    <3>1. \A i \in 1..(N + 1) : i - 1 \in 0..N /\ (i - 1) + 1 = i
      BY <1>1
    <3>2. \A i \in 1..(N + 1) : i - 1 \in S
      BY <2>3, <3>1
    <3> QED BY <3>1, <3>2
  <2>5. Counters = [i \in 1..(N + 1) |-> Counters[i]]
    <3> DEFINE body(i) == IF i = 1 THEN Untold ELSE After(Chosen(Args[i - 1], Counters[i - 1]), Args[i - 1], Counters[i - 1])
    <3>1. Counters = [i \in 1..(N + 1) |-> body(i)]
      BY <1>7
    <3> HIDE DEF body, N
    <3> QED BY <3>1
  <2> HIDE DEF N
  <2> QED BY <1>4, <2>4, <2>5
<1>9. ASSUME NEW i \in DOMAIN Args
      PROVE  /\ Counters[i] \in Tally
             /\ Counters[i + 1] = After(Chosen(Args[i], Counters[i]), Args[i], Counters[i])
  <2>1. i + 1 \in 2..(N + 1) /\ (i + 1) - 1 = i /\ i \in 1..(N + 1)
    BY <1>1
  <2> QED BY <1>4, <1>5, <1>8, <2>1
<1>10. \A i \in DOMAIN Args : WayOf(i) = Chosen(Args[i], Counters[i])
  BY DEF WayOf, Chosen
<1>11. \A i \in 1..(N + 1) : Counters[i] \in Tally
  BY <1>4, <1>8
<1> QED BY <1>9, <1>10, <1>11, AfterTally

-----------------------------------------------------------------------------
\* Before some later argument every earlier one in a register has been counted.
LEMMA CountersApart ==
  ASSUME call \in Calls, NEW i \in DOMAIN Args, NEW j \in DOMAIN Args, i < j, WayOf(i) = "gpr"
  PROVE  Counters[i].ii < Counters[j].ii
<1> DEFINE N == Len(Args)
           S == { m \in 0..N : m >= i => Counters[m + 1].ii >= Counters[i].ii + 1 }
<1>1. N \in Nat /\ DOMAIN Args = 1..N /\ i \in 1..N /\ j \in 1..N
  BY CallFacts
<1>2. \A m \in 1..(N + 1) : Counters[m].ii \in Nat
  BY CountersGrow DEF Tally
<1>3. 0 \in S
  BY <1>1
<1>4. ASSUME NEW m \in 1..N, m - 1 \in S PROVE m \in S
  <2>1. m \in 1..(N + 1) /\ m + 1 \in 1..(N + 1) /\ i \in 1..(N + 1) /\ (m - 1) + 1 = m /\ m \in 0..N
    BY <1>1
  <2>2. Counters[m + 1].ii >= Counters[m].ii
    BY <1>1, CountersGrow
  <2>3. m = i => Counters[m + 1].ii = Counters[i].ii + 1
    BY CountersGrow
  <2>4. m - 1 >= i => Counters[m].ii >= Counters[i].ii + 1
    BY <1>4, <2>1
  <2>5. Counters[m + 1].ii \in Nat /\ Counters[m].ii \in Nat /\ Counters[i].ii \in Nat
    BY <1>2, <2>1
  <2>6. m >= i => Counters[m + 1].ii >= Counters[i].ii + 1
    BY <1>1, <2>2, <2>3, <2>4, <2>5
  <2> QED BY <2>1, <2>6
<1>5. 0..N \subseteq S
  <2> HIDE DEF S, N
  <2> QED BY <1>1, <1>3, <1>4, UpTo
<1>6. j - 1 \in 0..N /\ j - 1 >= i /\ (j - 1) + 1 = j /\ i \in 1..(N + 1) /\ j \in 1..(N + 1)
  BY <1>1
<1>7. Counters[j].ii >= Counters[i].ii + 1
  BY <1>5, <1>6
<1> QED BY <1>2, <1>6, <1>7

\* An argument that travels in an integer register is a whole number of at most an
\* eightbyte, and there is a register for it.
LEMMA InRegister ==
  ASSUME call \in Calls, NEW i \in Going("gpr")
  PROVE  /\ i \in DOMAIN Args /\ ~Packed
         /\ WayOf(i) = "gpr"
         /\ Args[i].value \in 1..MaxArgs
         /\ Args[i].size \in 1..Units
         /\ Counters[i].ii + 1 \in 1..Len(ArgRegs)
<1>1. i \in DOMAIN Args /\ WayOf(i) = "gpr" /\ ~Packed
  BY DEF Going
<1>2. Args[i] \in Argument /\ i \in 1..Len(Args) /\ Len(Args) \in Nat
  BY <1>1, CallFacts
<1>3. Counters[i].ii \in Nat
  <2>1. i \in 1..(Len(Args) + 1)
    BY <1>2
  <2> QED BY <2>1, CountersGrow DEF Tally
<1>4. Args[i].class # "struct" /\ Counters[i].ii < Len(ArgRegs)
  <2>1. CASE call.variadic
    BY <1>1, <2>1 DEF WayOf, VariadicWay, CallerWay
  <2>2. CASE ~call.variadic
    BY <1>1, <2>2 DEF WayOf, CallerWay
  <2> QED BY <2>1, <2>2
<1>5. Args[i].size <= Units
  <2>1. call.args[i].class = "struct" <=> call.args[i].size > Units
    BY <1>1, CallAssumption DEF Args
  <2>2. ~(Args[i].size > Units)
    BY <1>4, <2>1 DEF Args
  <2>3. Args[i].size \in Int /\ Units \in Int
    BY <1>2, RegisterAssumption DEF Argument
  <2> QED BY <2>2, <2>3
<1>6. Args[i].size \in Nat /\ Args[i].size >= 1 /\ Args[i].value \in 1..MaxArgs
  BY <1>2, RegisterAssumption DEF Argument
<1>7. Counters[i].ii + 1 \in 1..Len(ArgRegs)
  <2>1. Len(ArgRegs) \in Nat
    BY RegisterAssumption
  <2> QED BY <1>3, <1>4, <2>1
<1>8. Args[i].size \in 1..Units
  BY <1>5, <1>6, RegisterAssumption
<1> QED BY <1>1, <1>6, <1>7, <1>8

MoveOf(i) ==
  [to |-> ArgRegs[Counters[i].ii + 1], from |-> Spot(Args[i].value), size |-> Args[i].size]

\* The integer moves, one per argument that travels in an integer register.
LEMMA MovesAre ==
  /\ \A i \in Going("gpr") : MoveOf(i) \in IntMoves
  /\ \A m \in IntMoves : \E i \in Going("gpr") : m = MoveOf(i)
BY DEF IntMoves, MoveOf

\* No two integer arguments are moved to the same register.
LEMMA OneRegisterEach ==
  ASSUME call \in Calls, NEW i \in Going("gpr"), NEW j \in Going("gpr"),
         ArgRegs[Counters[i].ii + 1] = ArgRegs[Counters[j].ii + 1]
  PROVE  i = j
<1>1. /\ i \in DOMAIN Args /\ j \in DOMAIN Args /\ WayOf(i) = "gpr" /\ WayOf(j) = "gpr"
      /\ Counters[i].ii + 1 \in 1..Len(ArgRegs)
      /\ Counters[j].ii + 1 \in 1..Len(ArgRegs)
  BY InRegister
<1>2. i \in Int /\ j \in Int
  BY <1>1, CallFacts
<1>3. Counters[i].ii + 1 = Counters[j].ii + 1
  <2>1. DOMAIN ArgRegs = 1..Len(ArgRegs)
    BY RegisterAssumption
  <2> QED BY <1>1, <2>1, RegisterAssumption
<1>4. Counters[i].ii \in Nat /\ Counters[j].ii \in Nat
  <2>1. i \in 1..(Len(Args) + 1) /\ j \in 1..(Len(Args) + 1)
    BY <1>1, CallFacts
  <2> QED BY <2>1, CountersGrow DEF Tally
<1>5. Counters[i].ii = Counters[j].ii
  BY <1>3, <1>4
<1>6. ~(i < j) /\ ~(j < i)
  <2>1. i < j => Counters[i].ii < Counters[j].ii
    BY <1>1, CountersApart
  <2>2. j < i => Counters[j].ii < Counters[i].ii
    BY <1>1, CountersApart
  <2> QED BY <1>4, <1>5, <2>1, <2>2
<1> QED BY <1>2, <1>6

\* What an argument register is to receive is known from its one move.
LEMMA WantedFacts ==
  ASSUME call \in Calls
  PROVE  /\ DOMAIN Wanted = Scheduler!Reached(IntMoves)
         /\ \A i \in Going("gpr") :
              Wanted[MoveOf(i).to] = [word |-> Part(Args[i].value, Args[i].size, 0),
                                      size |-> Args[i].size]
<1> DEFINE first(r) == CHOOSE j \in Going("gpr") : ArgRegs[Counters[j].ii + 1] = r
<1>1. Wanted = [r \in Scheduler!Reached(IntMoves) |->
                  [word |-> Part(Args[first(r)].value, Args[first(r)].size, 0),
                   size |-> Args[first(r)].size]]
  BY DEF Wanted, Scheduler!Reached
<1>2. ASSUME NEW i \in Going("gpr") PROVE first(MoveOf(i).to) = i
  <2>1. MoveOf(i).to = ArgRegs[Counters[i].ii + 1]
    BY DEF MoveOf
  <2>2. \A j \in Going("gpr") : ArgRegs[Counters[j].ii + 1] = MoveOf(i).to => j = i
    BY <2>1, OneRegisterEach
  <2> QED BY <2>1, <2>2
<1>3. ASSUME NEW i \in Going("gpr") PROVE MoveOf(i).to \in Scheduler!Reached(IntMoves)
  BY MovesAre DEF Scheduler!Reached
<1> HIDE DEF first
<1> QED BY <1>1, <1>2, <1>3

\* Where the values are when the call begins.
LEMMA SpotFacts ==
  ASSUME call \in Calls, place \in CallerPlaces(call)
  PROVE  /\ \A v \in Values(call) : Spot(v) \in Regs \cup Slots /\ v \in 0..MaxArgs
         /\ \A i \in DOMAIN Args : Args[i].value \in Values(call)
         /\ ~call.direct => 0 \in Values(call)
<1>1. \A i \in DOMAIN Args : Args[i].value \in 1..MaxArgs /\ Args[i].value \in Values(call)
  BY CallFacts DEF Argument, Values, Args
<1>2. ASSUME NEW v \in Values(call) PROVE v \in 0..MaxArgs
  <2>1. (\E i \in DOMAIN Args : v = Args[i].value) \/ v = 0
    BY DEF Values, Args
  <2> QED BY <1>1, <2>1, RegisterAssumption
<1>3. ASSUME NEW v \in Values(call) PROVE Spot(v) \in Regs \cup Slots
  <2>1. place[v] \in Regs \cup {Frame}
    BY DEF CallerPlaces
  <2>2. <<v, 0>> \in Slots
    <3>1. 0 \in 0..(MaxWords - 1)
      BY RegisterAssumption
    <3> QED BY <1>2, <3>1 DEF Slots
  <2> QED BY <2>1, <2>2 DEF Spot
<1>4. ~call.direct => 0 \in Values(call)
  BY DEF Values
<1> QED BY <1>1, <1>2, <1>3, <1>4

\* The integer moves go from places of the caller to argument registers.
LEMMA MovesTyped ==
  ASSUME call \in Calls, place \in CallerPlaces(call)
  PROVE  /\ IntMoves \subseteq Scheduler!Moves
         /\ \A m, o \in IntMoves : m.to = o.to => m = o
<1>1. ASSUME NEW i \in Going("gpr") PROVE MoveOf(i) \in Scheduler!Moves
  <2>1. /\ i \in DOMAIN Args /\ Args[i].size \in 1..Units
        /\ Counters[i].ii + 1 \in 1..Len(ArgRegs)
    BY InRegister
  <2>2. ArgRegs[Counters[i].ii + 1] \in ToSet(ArgRegs)
    BY <2>1, RegisterAssumption DEF ToSet
  <2>3. Spot(Args[i].value) \in Spots
    BY <2>1, SpotFacts DEF Spots
  <2> QED BY <2>1, <2>2, <2>3 DEF MoveOf, Scheduler!Moves
<1>2. ASSUME NEW m \in IntMoves, NEW o \in IntMoves, m.to = o.to PROVE m = o
  <2>1. PICK i \in Going("gpr") : m = MoveOf(i)
    BY MovesAre
  <2>2. PICK j \in Going("gpr") : o = MoveOf(j)
    BY MovesAre
  <2>3. ArgRegs[Counters[i].ii + 1] = ArgRegs[Counters[j].ii + 1]
    BY <1>2, <2>1, <2>2 DEF MoveOf
  <2>4. i = j
    BY <2>3, OneRegisterEach
  <2> QED BY <2>1, <2>2, <2>4
<1> QED BY <1>1, <1>2, MovesAre

-----------------------------------------------------------------------------
\* get_reg finds a register when there is one.
LEMMA FoundOutside ==
  ASSUME NEW T, NEW list \in Seq(T), NEW S, \E k \in DOMAIN list : list[k] \notin S
  PROVE  /\ FirstOutside(list, S) \notin S
         /\ \E k \in DOMAIN list : FirstOutside(list, S) = list[k]
<1> DEFINE K == { k \in DOMAIN list : list[k] \notin S }
           P(k) == list[k] \notin S /\ \A j \in 1..(k - 1) : list[j] \in S
<1>1. DOMAIN list = 1..Len(list) /\ Len(list) \in Nat
  OBVIOUS
<1>2. K \in SUBSET Nat /\ K # {}
  BY <1>1
<1>3. PICK m \in K : \A x \in K : m <= x
  <2> HIDE DEF K
  <2> QED BY <1>2, Smallest
<1>4. P(m)
  <2>1. ASSUME NEW j \in 1..(m - 1) PROVE list[j] \in S
    <3>1. j \in DOMAIN list /\ ~(m <= j)
      BY <1>1, <1>3
    <3> QED BY <1>3, <3>1
  <2> QED BY <1>3, <2>1
<1>5. \E k \in DOMAIN list : P(k)
  BY <1>3, <1>4
<1> DEFINE c == CHOOSE k \in DOMAIN list : P(k)
<1>6. c \in DOMAIN list /\ P(c)
  <2> HIDE DEF P
  <2> QED BY <1>5
<1>7. FirstOutside(list, S) = list[c]
  BY DEF FirstOutside
<1> HIDE DEF c
<1> QED BY <1>6, <1>7

\* The structures that travel in registers.
LEMMA StructsInRegisters ==
  ASSUME call \in Calls, NEW i \in Going("regs"), NEW k \in 1..WordsOf(Args[i])
  PROVE  /\ Counters[i].ii + k \in 1..Len(ArgRegs)
         /\ Counters[i].ii + k \in StructRegs
         /\ ~Packed
<1>1. i \in DOMAIN Args /\ WayOf(i) = "regs" /\ ~Packed
  BY DEF Going
<1>2. WordsOf(Args[i]) \in Nat /\ Args[i].class \in {"int", "float", "struct"}
  BY <1>1, CallFacts DEF Argument
<1>3. Counters[i].ii \in Nat
  <2>1. i \in 1..(Len(Args) + 1)
    BY <1>1, CallFacts
  <2> QED BY <2>1, CountersGrow DEF Tally
<1>4. Counters[i].ii + WordsOf(Args[i]) <= Len(ArgRegs)
  <2>1. CASE call.variadic
    BY <1>1, <1>2, <2>1 DEF WayOf, VariadicWay, CallerWay
  <2>2. CASE ~call.variadic
    BY <1>1, <1>2, <2>2 DEF WayOf, CallerWay
  <2> QED BY <2>1, <2>2
<1>5. Counters[i].ii + k \in 1..Len(ArgRegs)
  BY <1>2, <1>3, <1>4, RegisterAssumption
<1>6. Counters[i].ii + k \in StructRegs
  BY DEF StructRegs
<1> QED BY <1>1, <1>5, <1>6

\* The registers in use by the call are argument registers.
LEMMA UsedAreArguments ==
  ASSUME call \in Calls, place \in CallerPlaces(call), ~Packed
  PROVE  /\ IntRegsUsed \subseteq ToSet(ArgRegs)
         /\ Scheduler!Reached(IntMoves) \subseteq IntRegsUsed
         /\ \A r \in StructRegs : ArgRegs[r] \in IntRegsUsed
<1>1. \A m \in IntMoves : m.to \in ToSet(ArgRegs)
  BY MovesTyped DEF Scheduler!Moves
<1>2. ASSUME NEW r \in StructRegs PROVE ArgRegs[r] \in ToSet(ArgRegs)
  <2>1. PICK i \in Going("regs") : \E k \in 1..WordsOf(Args[i]) : r = Counters[i].ii + k
    BY DEF StructRegs
  <2>2. r \in 1..Len(ArgRegs)
    BY <2>1, StructsInRegisters
  <2> QED BY <2>2, RegisterAssumption DEF ToSet
<1> QED BY <1>1, <1>2 DEF IntRegsUsed, Scheduler!Reached

\* The pointer is moved to a register outside the ones in use.
LEMMA RelocatedOutside ==
  ASSUME call \in Calls, place \in CallerPlaces(call), ~Packed
  PROVE  Relocation \in Regs /\ Relocation \notin Avoid
<1>1. \E k \in DOMAIN Pool : Pool[k] \notin Avoid
  <2>1. PICK r \in Regs : r \notin ToSet(ArgRegs) \cup {RAX}
    BY RegisterAssumption
  <2>2. PICK k \in DOMAIN Pool : r = Pool[k]
    BY DEF Regs, ToSet
  <2>3. r \notin Avoid
    BY <2>1, UsedAreArguments DEF Avoid
  <2> QED BY <2>2, <2>3
<1>2. Relocation \notin Avoid /\ \E k \in DOMAIN Pool : Relocation = Pool[k]
  BY <1>1, FoundOutside, RegisterAssumption DEF Relocation
<1> QED BY <1>2 DEF Regs, ToSet

\* Putting sequences end to end.
LEMMA FlattenType ==
  ASSUME NEW S, NEW ss \in Seq(Seq(S))
  PROVE  FlattenSeq(ss) \in Seq(S)
<1>1. CASE Len(ss) = 0
  <2>1. ss = <<>>
    BY <1>1
  <2>2. FlattenSeq(ss) = ss
    BY <1>1 DEF FlattenSeq
  <2>3. <<>> \in Seq(S)
    OBVIOUS
  <2>4. FlattenSeq(ss) = <<>>
    BY <2>1, <2>2
  <2> QED BY <2>3, <2>4
<1>2. CASE Len(ss) # 0
  <2> DEFINE N == Len(ss) - 1
             Def(f) == f = [i \in 1..Len(ss) |-> IF i = 1 THEN ss[i] ELSE f[i - 1] \o ss[i]]
             step == [i \in 1..N |-> [x \in Seq(S) |-> x \o ss[i + 1]]]
  <2>1. N \in Nat /\ Len(ss) = N + 1 /\ 1 \in 1..Len(ss) /\ Len(ss) \in 1..Len(ss)
    BY <1>2
  <2>2. \A i \in 1..Len(ss) : ss[i] \in Seq(S)
    OBVIOUS
  <2>3. step \in [1..N -> [Seq(S) -> Seq(S)]]
    <3>1. ASSUME NEW i \in 1..N, NEW x \in Seq(S) PROVE x \o ss[i + 1] \in Seq(S)
      <4>1. ss[i + 1] \in Seq(S)
        BY <2>1, <2>2
      <4> QED BY <4>1
    <3> HIDE DEF N
    <3> QED BY <3>1
  <2>4. PICK k : FromOne(k, N, Seq(S), ss[1], step)
    <3>1. N \in Nat /\ ss[1] \in Seq(S)
      BY <2>1, <2>2
    <3> HIDE DEF N, step
    <3>2. \E g : FromOne(g, N, Seq(S), ss[1], step)
      BY <3>1, <2>3, RecursionFromOne
    <3> QED BY <3>2
  <2>5. ASSUME NEW i \in 2..(N + 1) PROVE k[i] = k[i - 1] \o ss[i]
    <3>1. i - 1 \in 1..N /\ i - 1 \in 1..(N + 1) /\ (i - 1) + 1 = i
      BY <2>1
    <3>2. k[i - 1] \in Seq(S)
      BY <2>4, <3>1 DEF FromOne
    <3>3. k[i] = step[i - 1][k[i - 1]]
      BY <2>4 DEF FromOne
    <3> QED BY <3>1, <3>2, <3>3
  <2>6. Def(k)
    <3>1. \A i \in 1..(N + 1) : i # 1 => i \in 2..(N + 1)
      BY <2>1
    <3>2. k = [i \in 1..(N + 1) |-> k[i]] /\ k[1] = ss[1]
      BY <2>4 DEF FromOne
    <3> HIDE DEF N, step
    <3> QED BY <2>1, <2>5, <3>1, <3>2
  <2> DEFINE c == CHOOSE f : Def(f)
  <2>7. Def(c)
    <3> HIDE DEF Def
    <3> QED BY <2>6
  <2>8. FlattenSeq(ss) = c[Len(ss)]
    BY <1>2 DEF FlattenSeq
  <2> DEFINE T == { m \in 0..N : c[m + 1] \in Seq(S) }
  <2> HIDE DEF c
  <2>9. 0 \in T
    <3>1. c[1] = ss[1]
      BY <2>1, <2>7
    <3> QED BY <2>1, <2>2, <3>1
  <2>10. ASSUME NEW m \in 1..N, m - 1 \in T PROVE m \in T
    <3>1. m + 1 \in 1..Len(ss) /\ m + 1 # 1 /\ (m + 1) - 1 = m /\ (m - 1) + 1 = m /\ m \in 0..N
      BY <2>1
    <3>2. c[m + 1] = c[m] \o ss[m + 1]
      BY <2>7, <3>1
    <3>3. c[m] \in Seq(S) /\ ss[m + 1] \in Seq(S)
      BY <2>2, <2>10, <3>1
    <3>4. c[m + 1] \in Seq(S)
      BY <3>2, <3>3
    <3> QED BY <3>1, <3>4
  <2>11. 0..N \subseteq T
    <3> HIDE DEF T, N
    <3> QED BY <2>1, <2>9, <2>10, UpTo
  <2>12. N \in T
    <3>1. N \in 0..N
      BY <2>1
    <3> HIDE DEF T, N
    <3> QED BY <3>1, <2>11
  <2> QED BY <2>1, <2>8, <2>12
<1> QED BY <1>1, <1>2

\* There is a list of the eightbytes to push.
LEMMA SlotsListed ==
  ASSUME call \in Calls
  PROVE  Len(StackSlots) \in Nat
<1> DEFINE S == (Nat \X Int) \cup { Spot(v) : v \in Nat }
           each(i) == IF call.variadic \/ i \in Going("stack") THEN SlotsOf(Args[i]) ELSE <<>>
           ss == [i \in DOMAIN Args |-> each(i)]
<1>1. DOMAIN Args = 1..Len(Args) /\ Len(Args) \in Nat
  BY CallFacts
<1>2. ASSUME NEW i \in DOMAIN Args PROVE each(i) \in Seq(S)
  <2>1. Args[i].value \in Nat /\ WordsOf(Args[i]) \in Nat
    BY CallFacts, RegisterAssumption DEF Argument
  <2>2. ASSUME NEW k \in 1..WordsOf(Args[i]) PROVE <<Args[i].value, k - 1>> \in S
    BY <2>1
  <2>3. Spot(Args[i].value) \in S
    BY <2>1
  <2> HIDE DEF S
  <2>4. SlotsOf(Args[i]) \in Seq(S)
    BY <2>1, <2>2, <2>3 DEF SlotsOf
  <2> QED BY <2>4
<1>3. ss \in Seq(Seq(S))
  <2> HIDE DEF each, S
  <2> QED BY <1>1, <1>2
<1>4. StackSlots = IF Packed THEN <<>> ELSE FlattenSeq(ss)
  BY DEF StackSlots
<1>5. FlattenSeq(ss) \in Seq(S)
  <2> HIDE DEF ss, S
  <2> QED BY <1>3, FlattenType
<1> HIDE DEF ss, S
<1> QED BY <1>4, <1>5

\* What is loaded after the integer moves goes to registers in use or to vector registers.
LEMMA LoadsTyped ==
  ASSUME call \in Calls, place \in CallerPlaces(call)
  PROVE  /\ Len(Loads) \in Nat
         /\ \A k \in 1..Len(Loads) : Loads[k].to \in Avoid \cup ToSet(XmmRegs)
<1> DEFINE T == Avoid \cup ToSet(XmmRegs)
           F == (Nat \X Int) \cup { Spot(v) : v \in Nat }
           Z == Nat \cup { Chunk(x) : x \in Int }
           S == [to : T, from : F, size : Z]
           struct(i) == IF i \in Going("regs")
             THEN [k \in 1..WordsOf(Args[i]) |->
                    [to |-> ArgRegs[Counters[i].ii + k], from |-> <<Args[i].value, k - 1>>,
                     size |-> Chunk(Args[i].size - Units * (k - 1))]]
             ELSE <<>>
           float(i) == IF i \in Going("xmm")
             THEN <<[to |-> XmmRegs[Counters[i].fi + 1], from |-> Spot(Args[i].value), size |-> Args[i].size]>>
             ELSE <<>>
           structs == [i \in DOMAIN Args |-> struct(i)]
           floats == [i \in DOMAIN Args |-> float(i)]
<1>1. DOMAIN Args = 1..Len(Args) /\ Len(Args) \in Nat
  BY CallFacts
<1>2. ASSUME NEW i \in DOMAIN Args
      PROVE  Args[i].value \in Nat /\ Args[i].size \in Nat /\ WordsOf(Args[i]) \in Nat
  <2>1. Args[i] \in Argument /\ WordsOf(Args[i]) \in Nat
    BY CallFacts
  <2>2. Args[i].value \in 1..MaxArgs /\ Args[i].size \in 1..(Units * MaxWords)
    BY <2>1 DEF Argument
  <2> QED BY <2>1, <2>2
<1>3. ASSUME NEW i \in DOMAIN Args PROVE struct(i) \in Seq(S)
  <2>1. CASE i \in Going("regs")
    <3>1. ASSUME NEW k \in 1..WordsOf(Args[i])
          PROVE  [to |-> ArgRegs[Counters[i].ii + k], from |-> <<Args[i].value, k - 1>>,
                  size |-> Chunk(Args[i].size - Units * (k - 1))] \in S
      <4>1. ArgRegs[Counters[i].ii + k] \in T
        BY <2>1, StructsInRegisters, UsedAreArguments DEF Avoid
      <4>2. <<Args[i].value, k - 1>> \in F
        BY <1>2
      <4>3. Chunk(Args[i].size - Units * (k - 1)) \in Z
        <5>1. Args[i].size - Units * (k - 1) \in Int
          BY <1>2, RegisterAssumption
        <5> QED BY <5>1
      <4> HIDE DEF T, F, Z
      <4> QED BY <4>1, <4>2, <4>3
    <3> HIDE DEF S
    <3> QED BY <1>2, <2>1, <3>1
  <2>2. CASE i \notin Going("regs")
    BY <2>2
  <2> QED BY <2>1, <2>2
<1>4. ASSUME NEW i \in DOMAIN Args PROVE float(i) \in Seq(S)
  <2>1. CASE i \in Going("xmm")
    <3>1. WayOf(i) = "xmm" /\ Args[i].class \in {"int", "float", "struct"}
      BY <2>1, CallFacts DEF Going, Argument
    <3>2. Counters[i].fi < Len(XmmRegs)
      <4>1. CASE call.variadic
        BY <3>1, <4>1 DEF WayOf, VariadicWay, CallerWay
      <4>2. CASE ~call.variadic
        BY <3>1, <4>2 DEF WayOf, CallerWay
      <4> QED BY <4>1, <4>2
    <3>3. Counters[i].fi \in Nat
      <4>1. i \in 1..(Len(Args) + 1)
        BY <1>1
      <4> QED BY <4>1, CountersGrow DEF Tally
    <3>4. Counters[i].fi + 1 \in 1..Len(XmmRegs) /\ DOMAIN XmmRegs = 1..Len(XmmRegs)
      BY <3>2, <3>3, RegisterAssumption
    <3>5. XmmRegs[Counters[i].fi + 1] \in T
      BY <3>4 DEF ToSet
    <3>6. Spot(Args[i].value) \in F /\ Args[i].size \in Z
      BY <1>2
    <3>7. [to |-> XmmRegs[Counters[i].fi + 1], from |-> Spot(Args[i].value), size |-> Args[i].size] \in S
      <4> HIDE DEF T, F, Z
      <4> QED BY <3>5, <3>6
    <3> HIDE DEF S
    <3> QED BY <2>1, <3>7
  <2>2. CASE i \notin Going("xmm")
    BY <2>2
  <2> QED BY <2>1, <2>2
<1>5. structs \in Seq(Seq(S)) /\ floats \in Seq(Seq(S))
  <2> HIDE DEF struct, float, S
  <2> QED BY <1>1, <1>3, <1>4
<1>6. StructLoads = FlattenSeq(structs) /\ FloatLoads = FlattenSeq(floats)
  BY DEF StructLoads, FloatLoads
<1>7. StructLoads \in Seq(S) /\ FloatLoads \in Seq(S)
  <2> HIDE DEF structs, floats, S
  <2> QED BY <1>5, <1>6, FlattenType
<1>8. Loads \in Seq(S)
  <2> HIDE DEF S
  <2> QED BY <1>7 DEF Loads
<1>9. \A k \in 1..Len(Loads) : Loads[k] \in S
  <2> HIDE DEF S
  <2> QED BY <1>8
<1>10. Len(Loads) \in Nat
  <2> HIDE DEF S
  <2> QED BY <1>8
<1> HIDE DEF T, F, Z
<1> QED BY <1>9, <1>10 DEF T

-----------------------------------------------------------------------------
\* A packed call has at least one register to work for.
LEMMA FieldsTyped ==
  ASSUME call \in Calls, Args # <<>>
  PROVE  \A i \in DOMAIN Args : Fields(Args)[i].reg \in Nat
<1> DEFINE N == Len(Args) - 1
           A == [reg : Nat, off : Nat]
           base == [reg |-> 1, off |-> 0]
           next(i, f) == LET end == f.off + Args[i - 1].size
                         IN  IF end + Args[i].size > Units THEN [reg |-> f.reg + 1, off |-> 0]
                             ELSE [reg |-> f.reg, off |-> end]
           Def(f) == f = [i \in 1..Len(Args) |-> IF i = 1 THEN base ELSE next(i, f[i - 1])]
           step == [i \in 1..N |-> [f \in A |-> next(i + 1, f)]]
<1>1. /\ N \in Nat /\ Len(Args) = N + 1 /\ DOMAIN Args = 1..(N + 1)
      /\ 1 \in 1..Len(Args)
  BY CallFacts
<1>2. \A i \in 1..(N + 1) : Args[i].size \in Nat
  <2>1. ASSUME NEW i \in 1..(N + 1) PROVE Args[i].size \in Nat
    <3>1. Args[i] \in Argument
      BY <1>1, CallFacts
    <3>2. Args[i].size \in 1..(Units * MaxWords)
      BY <3>1 DEF Argument
    <3> QED BY <3>2
  <2> QED BY <2>1
<1>3. ASSUME NEW i \in 2..(N + 1), NEW f \in A PROVE next(i, f) \in A
  <2>1. Args[i].size \in Nat /\ Args[i - 1].size \in Nat
    <3>1. i \in 1..(N + 1) /\ i - 1 \in 1..(N + 1)
      BY <1>1
    <3> QED BY <1>2, <3>1
  <2>2. f.reg \in Nat /\ f.off \in Nat
    OBVIOUS
  <2> QED BY <2>1, <2>2
<1>4. step \in [1..N -> [A -> A]]
  <2>1. \A i \in 1..N : i + 1 \in 2..(N + 1)
    BY <1>1
  <2> HIDE DEF A, N, next
  <2> QED BY <1>3, <2>1
<1>5. base \in A
  OBVIOUS
<1>6. PICK k : FromOne(k, N, A, base, step)
  <2>1. N \in Nat
    BY <1>1
  <2> HIDE DEF N, step, A, base
  <2>2. \E g : FromOne(g, N, A, base, step)
    BY <2>1, <1>4, <1>5, RecursionFromOne
  <2> QED BY <2>2
<1>7. ASSUME NEW i \in 2..(N + 1) PROVE k[i] = next(i, k[i - 1])
  <2>1. i - 1 \in 1..N /\ i - 1 \in 1..(N + 1) /\ (i - 1) + 1 = i
    BY <1>1
  <2>2. k[i - 1] \in A /\ k[i] = step[i - 1][k[i - 1]]
    BY <1>6, <2>1 DEF FromOne
  <2> HIDE DEF A, N, next
  <2> QED BY <2>1, <2>2
<1>8. Def(k)
  <2>1. \A i \in 1..(N + 1) : i # 1 => i \in 2..(N + 1)
    BY <1>1
  <2>2. k = [i \in 1..(N + 1) |-> k[i]] /\ k[1] = base
    BY <1>6 DEF FromOne
  <2> HIDE DEF N, step, next, base
  <2> QED BY <1>1, <1>7, <2>1, <2>2
<1> DEFINE c == CHOOSE f : Def(f)
<1>9. Def(c)
  <2> HIDE DEF Def
  <2> QED BY <1>8
<1>10. Fields(Args) = c
  BY DEF Fields
<1> DEFINE T == { m \in 0..N : c[m + 1] \in A }
<1> HIDE DEF c
<1>11. 0 \in T
  <2>1. c[1] = base
    <3> HIDE DEF next, base
    <3> QED BY <1>1, <1>9
  <2> HIDE DEF base, A
  <2> QED BY <1>1, <1>5, <2>1
<1>12. ASSUME NEW m \in 1..N, m - 1 \in T PROVE m \in T
  <2>1. /\ m + 1 \in 1..Len(Args) /\ m + 1 # 1 /\ (m + 1) - 1 = m /\ (m - 1) + 1 = m
        /\ m \in 0..N /\ m + 1 \in 2..(N + 1)
    BY <1>1
  <2>2. c[m + 1] = next(m + 1, c[m])
    <3> HIDE DEF next, base
    <3> QED BY <1>9, <2>1
  <2>3. c[m] \in A
    <3> HIDE DEF A
    <3> QED BY <1>12, <2>1
  <2>4. c[m + 1] \in A
    <3> HIDE DEF A, next, N
    <3> QED BY <1>3, <2>1, <2>2, <2>3
  <2> HIDE DEF A
  <2> QED BY <2>1, <2>4
<1>13. 0..N \subseteq T
  <2>1. N \in Nat
    BY <1>1
  <2> HIDE DEF T, N
  <2> QED BY <2>1, <1>11, <1>12, UpTo
<1>14. ASSUME NEW i \in DOMAIN Args PROVE c[i] \in A
  <2>1. i - 1 \in 0..N /\ (i - 1) + 1 = i
    BY <1>1
  <2>2. i - 1 \in T
    <3> HIDE DEF T
    <3> QED BY <1>13, <2>1
  <2> HIDE DEF A
  <2> QED BY <2>1, <2>2
<1> QED BY <1>10, <1>14

\* The registers of a packed call are listed.
LEMMA PackersListed ==
  ASSUME call \in Calls, Packed
  PROVE  Len(Packers) \in Nat /\ Reserved \in Nat
<1>1. Args # <<>> /\ PackRegs(Args) < Len(ArgRegs)
  BY DEF Packed, Packable
<1>2. Len(Args) \in DOMAIN Args
  BY <1>1, CallFacts
<1>3. PackRegs(Args) \in Nat
  BY <1>1, <1>2, FieldsTyped DEF PackRegs
<1>4. Len(Packers) \in Nat
  BY <1>1, <1>3, RegisterAssumption DEF Packers
<1> QED BY <1>4 DEF Reserved

\* What depends on the call and the caller's places alone does not change with the rest.
LEMMA SameCall ==
  ASSUME call' = call, place' = place
  PROVE  /\ IntMoves' = IntMoves
         /\ StackSlots' = StackSlots
         /\ Loads' = Loads
         /\ Avoid' = Avoid
         /\ Packed' = Packed
         /\ InRegisters' = InRegisters
         /\ Reserved' = Reserved
         /\ Len(Packers)' = Len(Packers)
         /\ Wanted' = Wanted
         /\ CyclicMoves' = CyclicMoves
<1>1. Counters' = Counters
  BY DEF Counters, Args
<1>2. Packed' = Packed
  BY DEF Packed, Packable, PackRegs, Fields, Args
<1>3. ASSUME NEW i PROVE WayOf(i)' = WayOf(i)
  BY <1>1 DEF WayOf, Args, VariadicWay, CallerWay, WordsOf
<1>4. ASSUME NEW w PROVE Going(w)' = Going(w)
  BY <1>1, <1>2, <1>3 DEF Going, Args
<1>5. IntMoves' = IntMoves
  BY <1>1, <1>4 DEF IntMoves, Spot, Args
<1>6. StackSlots' = StackSlots
  BY <1>1, <1>2, <1>4 DEF StackSlots, SlotsOf, Spot, Args
<1>7. Loads' = Loads
  BY <1>1, <1>2, <1>4 DEF Loads, StructLoads, FloatLoads, Spot, Args
<1>8. Avoid' = Avoid
  <2>1. StructRegs' = StructRegs
    BY <1>1, <1>4 DEF StructRegs, Args, WordsOf
  <2>2. Packers' = Packers
    BY DEF Packers, PackRegs, Fields, Args
  <2>3. IntRegsUsed' = IntRegsUsed
    BY <1>2, <1>5, <2>1, <2>2 DEF IntRegsUsed
  <2> QED BY <2>3 DEF Avoid
<1>9. Packers' = Packers
  BY DEF Packers, PackRegs, Fields, Args
<1>10. Sources' = Sources
  BY DEF Sources, Spot, Args
<1>11. Free' = Free
  BY <1>9, <1>10 DEF Free
<1>12. InRegisters' = InRegisters
  BY <1>9, <1>11 DEF InRegisters
<1>13. Reserved' = Reserved
  BY <1>9, <1>10 DEF Reserved, SavesRAX
<1>14. Wanted' = Wanted
  BY <1>1, <1>4, <1>5 DEF Wanted, Args
<1>15. CyclicMoves' = CyclicMoves
  BY <1>5 DEF CyclicMoves, Scheduler!Reached, Scheduler!Read
<1> QED BY <1>2, <1>5, <1>6, <1>7, <1>8, <1>9, <1>12, <1>13, <1>14, <1>15

-----------------------------------------------------------------------------
(***************************************************************************)
(* The integer moves, one at a time.                                       *)
(***************************************************************************)
MovesShape ==
  /\ mach = [s \in Spots |-> mach[s]]
  /\ pending \subseteq Scheduler!Moves
  /\ \A m, o \in pending : m.to = o.to => m = o
  /\ DOMAIN Wanted \subseteq ToSet(ArgRegs)

\* The argument registers are finitely many places, and no candidate is one of them.
LEMMA RegisterFacts ==
  /\ ToSet(ArgRegs) \subseteq Spots
  /\ \A k \in DOMAIN Temps : Temps[k] \in Spots /\ Temps[k] \notin ToSet(ArgRegs)
  /\ IsFiniteSet(ToSet(ArgRegs))
<1>1. ToSet(ArgRegs) \subseteq Spots
  BY RegisterAssumption DEF ToSet, Spots
<1>2. \A k \in DOMAIN Temps : Temps[k] \in Spots /\ Temps[k] \notin ToSet(ArgRegs)
  BY RegisterAssumption DEF Spots
<1>3. IsFiniteSet(ToSet(ArgRegs))
  <2> DEFINE D == 1..Len(ArgRegs)
  <2>1. Len(ArgRegs) \in Nat /\ DOMAIN ArgRegs = D
    BY RegisterAssumption
  <2>2. IsFiniteSet(D)
    BY <2>1, FS_Interval
  <2>3. [i \in D |-> ArgRegs[i]] \in Surjection(D, ToSet(ArgRegs))
    BY <2>1 DEF Surjection, ToSet
  <2> HIDE DEF D
  <2> QED BY <2>2, <2>3, FS_Surjection
<1> QED BY <1>1, <1>2, <1>3

\* Both ends of a pending move are places.
LEMMA MoveFacts ==
  ASSUME MovesShape, NEW m \in pending
  PROVE  m.to \in ToSet(ArgRegs) /\ m.to \in Spots /\ m.from \in Spots /\ m.size \in 1..Units
<1>1. m \in Scheduler!Moves
  BY DEF MovesShape
<1> QED BY <1>1, RegisterFacts DEF Scheduler!Moves

\* Making a move leaves moves.
LEMMA ReadyShape ==
  ASSUME MovesShape, Scheduler!MoveReady
  PROVE  MovesShape'
<1>1. PICK m \in pending :
        /\ mach' = [mach EXCEPT ![m.to] = Scheduler!Moved(mach[m.from], m.size)]
        /\ pending' = pending \ {m}
        /\ Wanted' = Wanted
  BY DEF Scheduler!MoveReady
<1>2. mach' = [s \in Spots |-> mach'[s]]
  BY <1>1 DEF MovesShape
<1> QED BY <1>1, <1>2 DEF MovesShape, Scheduler!Moves

\* A move that nothing waits for delivers its value and takes none away.
LEMMA ReadyKeepsCourse ==
  ASSUME MovesShape, Scheduler!OnCourse, Scheduler!MoveReady
  PROVE  Scheduler!OnCourse'
<1>1. PICK m \in pending :
        /\ \A o \in pending \ {m} : o.from # m.to
        /\ mach' = [mach EXCEPT ![m.to] = Scheduler!Moved(mach[m.from], m.size)]
        /\ pending' = pending \ {m}
        /\ Wanted' = Wanted
  BY DEF Scheduler!MoveReady, Scheduler!Ready
<1>2. m.to \in Spots /\ m.from \in Spots /\ m.size \in 1..Units
  BY MoveFacts
<1>3. mach'[m.to] = Scheduler!Moved(mach[m.from], m.size)
  BY <1>1, <1>2 DEF MovesShape
<1>4. \A s \in Spots : s # m.to => mach'[s] = mach[s]
  BY <1>1 DEF MovesShape
<1>5. ASSUME NEW o \in pending'
      PROVE  o.to \in DOMAIN Wanted /\ Wanted[o.to].size = o.size
               /\ Scheduler!Agree(mach'[o.from], Wanted[o.to].word, o.size)
  <2>1. o \in pending /\ o.from # m.to
    BY <1>1
  <2>2. o.from \in Spots
    BY <2>1, MoveFacts
  <2>3. mach'[o.from] = mach[o.from]
    BY <2>1, <2>2, <1>4
  <2> QED BY <2>1, <2>3 DEF Scheduler!OnCourse
<1>6. ASSUME NEW r \in DOMAIN Wanted, r \notin Scheduler!Reached(pending')
      PROVE  Scheduler!Agree(mach'[r], Wanted[r].word, Wanted[r].size)
  <2>1. CASE r = m.to
    <3>1. Scheduler!Agree(mach[m.from], Wanted[r].word, m.size) /\ Wanted[r].size = m.size
      BY <2>1 DEF Scheduler!OnCourse
    <3>2. \A u \in 1..m.size : u \in 1..Units /\ u <= m.size
      BY <1>2, RegisterAssumption
    <3>3. \A u \in 1..m.size : mach'[m.to][u] = mach[m.from][u]
      BY <1>3, <3>2 DEF Scheduler!Moved
    <3> QED BY <2>1, <3>1, <3>3 DEF Scheduler!Agree
  <2>2. CASE r # m.to
    <3>1. r \notin Scheduler!Reached(pending)
      BY <1>1, <1>6, <2>2 DEF Scheduler!Reached
    <3>2. Scheduler!Agree(mach[r], Wanted[r].word, Wanted[r].size)
      BY <3>1 DEF Scheduler!OnCourse
    <3>3. r \in Spots
      BY RegisterFacts DEF MovesShape
    <3> QED BY <2>2, <3>2, <3>3, <1>4
  <2> QED BY <2>1, <2>2
<1>7. \A o, p \in pending' : o.to = p.to => o = p
  BY <1>1 DEF MovesShape
<1> QED BY <1>1, <1>5, <1>6, <1>7 DEF Scheduler!OnCourse, Scheduler!Reached, Scheduler!Agree

\* What breaking a cycle does: only the spare register and the sources change.
LEMMA BreakFacts ==
  ASSUME MovesShape, NEW k \in Scheduler!FreeTemps, NEW m \in pending
  PROVE  /\ Temps[k] \in Spots /\ Temps[k] \notin ToSet(ArgRegs)
         /\ Temps[k] \notin Scheduler!Read(pending)
         /\ \A o \in pending :
              LET q == Scheduler!Redirected(o, m.from, Temps[k])
              IN  /\ q \in Scheduler!Moves /\ q.to = o.to /\ q.size = o.size
                  /\ q.from = IF o.from = m.from THEN Temps[k] ELSE o.from
<1>1. Temps[k] \in Spots /\ Temps[k] \notin ToSet(ArgRegs) /\ Temps[k] \notin Scheduler!Read(pending)
  BY RegisterFacts DEF Scheduler!FreeTemps
<1>2. \A o \in pending : o \in Scheduler!Moves
  BY DEF MovesShape
<1> QED BY <1>1, <1>2 DEF Scheduler!Redirected, Scheduler!Moves

\* Breaking a cycle leaves moves.
LEMMA BreakShape ==
  ASSUME MovesShape, Scheduler!BreakCycle
  PROVE  MovesShape' /\ Scheduler!Reached(pending') = Scheduler!Reached(pending)
<1>1. PICK k \in Scheduler!FreeTemps, m \in pending :
        /\ mach' = [mach EXCEPT ![Temps[k]] = mach[m.from]]
        /\ pending' = { Scheduler!Redirected(o, m.from, Temps[k]) : o \in pending }
  BY DEF Scheduler!BreakCycle
<1>2. Wanted' = Wanted
  BY DEF Scheduler!BreakCycle
<1> DEFINE sent(o) == Scheduler!Redirected(o, m.from, Temps[k])
<1>3. \A o \in pending : sent(o) \in Scheduler!Moves /\ sent(o).to = o.to
  BY BreakFacts
<1> HIDE DEF sent
<1>4. pending' = { sent(o) : o \in pending }
  BY <1>1 DEF sent
<1>5. mach' = [s \in Spots |-> mach'[s]]
  BY <1>1 DEF MovesShape
<1>6. ASSUME NEW q \in pending', NEW p \in pending', q.to = p.to PROVE q = p
  <2>1. PICK o1 \in pending : q = sent(o1)
    BY <1>4
  <2>2. PICK o2 \in pending : p = sent(o2)
    BY <1>4
  <2>3. o1 = o2
    BY <2>1, <2>2, <1>3, <1>6 DEF MovesShape
  <2> QED BY <2>1, <2>2, <2>3
<1>7. Scheduler!Reached(pending') = Scheduler!Reached(pending)
  BY <1>3, <1>4 DEF Scheduler!Reached
<1>8. pending' \subseteq Scheduler!Moves
  BY <1>3, <1>4
<1> QED BY <1>2, <1>5, <1>6, <1>7, <1>8 DEF MovesShape, Scheduler!Moves

\* Breaking a cycle loses no value.
LEMMA BreakKeepsCourse ==
  ASSUME MovesShape, Scheduler!OnCourse, Scheduler!BreakCycle
  PROVE  Scheduler!OnCourse'
<1>1. PICK k \in Scheduler!FreeTemps, m \in pending :
        /\ mach' = [mach EXCEPT ![Temps[k]] = mach[m.from]]
        /\ pending' = { Scheduler!Redirected(o, m.from, Temps[k]) : o \in pending }
  BY DEF Scheduler!BreakCycle
<1>2. Wanted' = Wanted
  BY DEF Scheduler!BreakCycle
<1> DEFINE t == Temps[k]
           sent(o) == Scheduler!Redirected(o, m.from, Temps[k])
<1>3. /\ t \in Spots /\ t \notin ToSet(ArgRegs) /\ t \notin Scheduler!Read(pending)
      /\ \A o \in pending : /\ sent(o).to = o.to /\ sent(o).size = o.size
                            /\ sent(o).from = IF o.from = m.from THEN t ELSE o.from
  BY BreakFacts
<1>4. mach'[t] = mach[m.from] /\ \A s \in Spots : s # t => mach'[s] = mach[s]
  BY <1>1, <1>3 DEF MovesShape
<1>5. pending' = { sent(o) : o \in pending }
  BY <1>1
<1> HIDE DEF t, sent
<1>6. ASSUME NEW q \in pending'
      PROVE  q.to \in DOMAIN Wanted /\ Wanted[q.to].size = q.size
               /\ Scheduler!Agree(mach'[q.from], Wanted[q.to].word, q.size)
  <2>1. PICK o \in pending : q = sent(o)
    BY <1>5
  <2>2. o.to \in DOMAIN Wanted /\ Wanted[o.to].size = o.size
          /\ Scheduler!Agree(mach[o.from], Wanted[o.to].word, o.size)
    BY DEF Scheduler!OnCourse
  <2>3. mach'[q.from] = mach[o.from]
    <3>1. CASE o.from = m.from
      BY <3>1, <2>1, <1>3, <1>4
    <3>2. CASE o.from # m.from
      <4>1. q.from = o.from
        BY <3>2, <2>1, <1>3
      <4>2. o.from \in Spots
        BY MoveFacts
      <4>3. o.from # t
        BY <1>3 DEF Scheduler!Read
      <4> QED BY <4>1, <4>2, <4>3, <1>4
    <3> QED BY <3>1, <3>2
  <2> QED BY <2>1, <2>2, <2>3, <1>3
<1>7. ASSUME NEW r \in DOMAIN Wanted \ Scheduler!Reached(pending)
      PROVE  Scheduler!Agree(mach'[r], Wanted[r].word, Wanted[r].size)
  <2>1. r \in ToSet(ArgRegs) /\ r \in Spots /\ r # t
    BY <1>3, RegisterFacts DEF MovesShape
  <2>2. mach'[r] = mach[r]
    BY <2>1, <1>4
  <2> QED BY <2>2 DEF Scheduler!OnCourse
<1>8. (\A q, p \in pending' : q.to = p.to => q = p) /\ Scheduler!Reached(pending') = Scheduler!Reached(pending)
  BY BreakShape DEF MovesShape
<1> QED BY <1>2, <1>6, <1>7, <1>8 DEF Scheduler!OnCourse, Scheduler!Agree

\* Where every target is still read by another move, nothing but targets is read.
LEMMA OnlyTargetsRead ==
  ASSUME MovesShape, \A m \in pending : ~Scheduler!Ready(m)
  PROVE  Scheduler!Read(pending) = Scheduler!Reached(pending)
<1> DEFINE D == Scheduler!Reached(pending)
           F == Scheduler!Read(pending)
           moveTo(r) == CHOOSE o \in pending : o.to = r
           source == [r \in D |-> moveTo(r).from]
<1>1. \A m \in pending : m.to \in D /\ m.from \in F /\ moveTo(m.to) = m
  BY DEF Scheduler!Reached, Scheduler!Read, MovesShape
<1>2. \A r \in D : \E m \in pending : r = m.to
  BY DEF Scheduler!Reached
<1>3. \A s \in F : \E m \in pending : s = m.from
  BY DEF Scheduler!Read
<1>4. D \subseteq F
  <2>1. \A m \in pending : \E o \in pending : o.from = m.to
    BY DEF Scheduler!Ready
  <2> QED BY <2>1, <1>1, <1>2
<1>5. source \in [D -> F]
  BY <1>1, <1>2
<1>6. \A s \in F : \E r \in D : source[r] = s
  <2>1. ASSUME NEW m \in pending PROVE m.to \in D /\ source[m.to] = m.from
    BY <1>1
  <2>2. SUFFICES ASSUME NEW s \in F PROVE \E r \in D : source[r] = s
    OBVIOUS
  <2>3. PICK m \in pending : s = m.from
    BY <1>3
  <2> HIDE DEF D, F, source
  <2> QED BY <2>1, <2>3
<1>7. source \in Surjection(D, F)
  BY <1>5, <1>6 DEF Surjection
<1>8. IsFiniteSet(D)
  <2>1. D \in SUBSET ToSet(ArgRegs)
    BY <1>2, MoveFacts
  <2> QED BY <2>1, FS_Subset, RegisterFacts
<1> HIDE DEF D, F, source, moveTo
<1>9. IsFiniteSet(F) /\ Cardinality(F) <= Cardinality(D)
  BY <1>7, <1>8, FS_Surjection
<1>10. Cardinality(D) <= Cardinality(F) /\ (Cardinality(F) = Cardinality(D) => F = D)
  <2>1. D \in SUBSET F
    BY <1>4
  <2> QED BY <2>1, <1>9, FS_Subset
<1>11. Cardinality(D) \in Nat /\ Cardinality(F) \in Nat
  BY <1>8, <1>9, FS_CardinalityType
<1>12. F = D
  BY <1>9, <1>10, <1>11
<1> QED BY <1>12 DEF D, F

\* Where no move can be made, the first candidate is neither read nor a target.
LEMMA FirstTempFree ==
  ASSUME MovesShape, \A m \in pending : ~Scheduler!Ready(m)
  PROVE  1 \in Scheduler!FreeTemps
<1>1. Scheduler!Read(pending) = Scheduler!Reached(pending)
  BY OnlyTargetsRead
<1>2. Scheduler!Reached(pending) \subseteq ToSet(ArgRegs)
  BY MoveFacts DEF Scheduler!Reached
<1>3. 1 \in DOMAIN Temps
  BY RegisterAssumption
<1> QED BY <1>1, <1>2, <1>3, RegisterFacts DEF Scheduler!FreeTemps

-----------------------------------------------------------------------------
(***************************************************************************)
(* The caller, from the first push to the jump.                            *)
(***************************************************************************)
CallerPhases == {"pad", "push", "moves", "pack", "fields", "jump"}
Listed(s) == s \in Seq(ToSet(s))

\* The pointer of an indirect call is where the call will read it, or it was in the
\* register that broke a cycle of moves.
PointerKept ==
  \/ mach[target] = Part(0, Units, 0)
  \/ CyclicMoves /\ target = Temps[1]

Placed ==
  /\ place \in CallerPlaces(call)
  /\ mach = [s \in Spots |-> mach[s]]
  /\ Listed(stack)

\* Before the moves every value is where the allocation put it.
Arranged ==
  /\ \A v \in Values(call) : mach[Spot(v)] = Part(v, SizeOf(call, v), 0)
  /\ target = (IF call.direct THEN Frame ELSE Spot(0))

\* Words pushed beyond those that keep the stack aligned.
Extra == IF InRegisters THEN 0 ELSE Reserved

\* During the moves: they are moves of this call, or what breaking a cycle made of them.
Moving ==
  /\ ~Packed
  /\ n \in Nat /\ (n > 0 => pending = {})
  /\ MovesShape
  /\ Scheduler!Reached(pending) \subseteq Scheduler!Reached(IntMoves)
  /\ pending \subseteq { m \in IntMoves : m.from # m.to } \/ CyclicMoves
  /\ n = 0 => botched # {} \/ Scheduler!OnCourse
  /\ ~call.direct => target \in (Regs \cup Slots) \ Avoid /\ PointerKept

CallerInv ==
  /\ call \in Calls
  /\ pc \in CallerPhases => Placed
  /\ pc \in {"pad", "push"} => Arranged
  /\ pc = "push" => n \in 0..Len(StackSlots) /\ Len(stack) = (Len(StackSlots) % 2) + n
  /\ pc \in {"moves", "pack", "jump"} => Len(stack) % 2 = 0
  /\ pc \in {"pack", "fields"} => Packed
  /\ pc = "fields" => Len(stack) - Extra \in Nat /\ (Len(stack) - Extra) % 2 = 0
  /\ pc = "moves" => Moving
  /\ pc = "jump" /\ ~call.direct => PointerKept

\* Every sequence is one over its own elements.
LEMMA ListedFrom ==
  ASSUME NEW S, NEW s \in Seq(S)
  PROVE  Listed(s)
<1>1. DOMAIN s = 1..Len(s) /\ Len(s) \in Nat
  OBVIOUS
<1>2. \A k \in DOMAIN s : s[k] \in ToSet(s)
  BY DEF ToSet
<1>3. s = [k \in 1..Len(s) |-> s[k]]
  BY <1>1
<1>4. s \in [1..Len(s) -> ToSet(s)]
  BY <1>1, <1>2, <1>3
<1> HIDE DEF ToSet
<1>5. s \in Seq(ToSet(s))
  BY <1>1, <1>4
<1> QED BY <1>5 DEF Listed

\* A word pushed makes the stack one longer.
LEMMA ListOps ==
  ASSUME NEW s, Listed(s)
  PROVE  /\ Len(s) \in Nat
         /\ \A x : Listed(<<x>> \o s) /\ Len(<<x>> \o s) = Len(s) + 1
<1>1. Len(s) \in Nat
  BY DEF Listed
<1>2. ASSUME NEW x PROVE Listed(<<x>> \o s) /\ Len(<<x>> \o s) = Len(s) + 1
  <2> DEFINE S == ToSet(s) \cup {x}
  <2>1. s \in Seq(S) /\ <<x>> \in Seq(S)
    <3>1. s \in Seq(ToSet(s)) /\ ToSet(s) \subseteq S /\ x \in S
      BY DEF Listed
    <3> HIDE DEF S
    <3> QED BY <3>1
  <2> HIDE DEF S
  <2>2. <<x>> \o s \in Seq(S) /\ Len(<<x>> \o s) = Len(s) + 1
    BY <2>1
  <2> QED BY <2>2, ListedFrom
<1> QED BY <1>1, <1>2

\* So many words reserved make it so much longer.
LEMMA ListPrefixed ==
  ASSUME NEW s, Listed(s), NEW R \in Nat, NEW f, f = [i \in 1..R |-> f[i]]
  PROVE  Listed(f \o s) /\ Len(f \o s) = Len(s) + R
<1> DEFINE S == ToSet(s) \cup { f[i] : i \in 1..R }
<1>1. s \in Seq(S) /\ f \in Seq(S) /\ Len(f) = R
  <2>1. s \in Seq(ToSet(s)) /\ ToSet(s) \subseteq S /\ \A i \in 1..R : f[i] \in S
    BY DEF Listed
  <2> HIDE DEF S
  <2>2. f \in [1..R -> S]
    BY <2>1
  <2> QED BY <2>1, <2>2
<1> HIDE DEF S
<1>2. f \o s \in Seq(S) /\ Len(f \o s) = R + Len(s)
  BY <1>1
<1>3. Len(s) \in Nat
  BY <1>1
<1>4. Listed(f \o s)
  BY <1>2, ListedFrom
<1>5. Len(f \o s) = Len(s) + R
  BY <1>2, <1>3
<1> QED BY <1>4, <1>5

\* A word overwritten leaves its length.
LEMMA ListExcept ==
  ASSUME NEW s, Listed(s), NEW k, NEW x
  PROVE  Listed([s EXCEPT ![k] = x]) /\ Len([s EXCEPT ![k] = x]) = Len(s)
<1> DEFINE S == ToSet(s) \cup {x}
           t == [s EXCEPT ![k] = x]
<1>1. s \in Seq(S) /\ x \in S /\ Len(s) \in Nat
  <2>1. s \in Seq(ToSet(s)) /\ ToSet(s) \subseteq S
    BY DEF Listed
  <2> HIDE DEF S
  <2> QED BY <2>1 DEF S
<1>2. t \in [1..Len(s) -> S]
  <2> HIDE DEF S
  <2>1. DOMAIN s = 1..Len(s) /\ \A i \in DOMAIN s : s[i] \in S
    BY <1>1
  <2>2. t = [i \in DOMAIN s |-> IF i = k THEN x ELSE s[i]]
    OBVIOUS
  <2> QED BY <1>1, <2>1, <2>2
<1> HIDE DEF S, t
<1>3. t \in Seq(S) /\ Len(t) = Len(s)
  BY <1>1, <1>2
<1> QED BY <1>3, ListedFrom DEF t

\* So many words released make it so much shorter.
LEMMA ListDropped ==
  ASSUME NEW s, Listed(s), NEW R \in 0..Len(s)
  PROVE  Listed(SubSeq(s, R + 1, Len(s))) /\ Len(SubSeq(s, R + 1, Len(s))) = Len(s) - R
<1>1. s \in Seq(ToSet(s)) /\ Len(s) \in Nat
  BY DEF Listed
<1>2. SubSeq(s, R + 1, Len(s)) \in Seq(ToSet(s))
  BY <1>1
<1>3. Len(SubSeq(s, R + 1, Len(s))) = Len(s) - R
  BY <1>1
<1> QED BY <1>2, <1>3, ListedFrom

-----------------------------------------------------------------------------
\* The caller begins with every value in its place.
LEMMA CallerInit == Init => CallerInv
<1> SUFFICES ASSUME Init PROVE CallerInv
  OBVIOUS
<1>1. call \in Calls /\ place \in CallerPlaces(call) /\ pc = "pad" /\ stack = <<>>
  BY DEF Init
<1> DEFINE here(s) == CHOOSE w \in Values(call) : place[w] = s
           word(s) == IF s \in Slots
                      THEN IF s[1] \in Values(call) /\ place[s[1]] = Frame
                           THEN Part(s[1], SizeOf(call, s[1]), s[2]) ELSE Blank
                      ELSE IF \E v \in Values(call) : place[v] = s
                           THEN Part(here(s), SizeOf(call, here(s)), 0)
                           ELSE Blank
<1>2. mach = [s \in Spots |-> word(s)]
  BY DEF Init
<1>3. ASSUME NEW v \in Values(call) PROVE mach[Spot(v)] = Part(v, SizeOf(call, v), 0)
  <2>1. Spot(v) \in Spots /\ v \in 0..MaxArgs
    BY <1>1, SpotFacts DEF Spots
  <2>2. mach[Spot(v)] = word(Spot(v))
    <3> HIDE DEF word
    <3> QED BY <1>2, <2>1
  <2>3. CASE place[v] = Frame
    <3>1. Spot(v) = <<v, 0>> /\ <<v, 0>>[1] = v /\ <<v, 0>>[2] = 0
      BY <2>3 DEF Spot
    <3>2. <<v, 0>> \in Slots
      <4>1. 0 \in 0..(MaxWords - 1)
        BY RegisterAssumption
      <4> QED BY <2>1, <4>1 DEF Slots
    <3>3. word(Spot(v)) = Part(v, SizeOf(call, v), 0)
      BY <2>3, <3>1, <3>2
    <3> QED BY <2>2, <3>3
  <2>4. CASE place[v] # Frame
    <3>1. place[v] \in Regs /\ \A w \in Values(call) : place[w] = place[v] => w = v
      BY <1>1, <2>4 DEF CallerPlaces
    <3>2. Spot(v) = place[v] /\ place[v] \notin Slots
      BY <2>4, <3>1, RegisterAssumption DEF Spot
    <3>3. here(place[v]) = v
      BY <3>1
    <3>4. word(Spot(v)) = Part(v, SizeOf(call, v), 0)
      <4> HIDE DEF here
      <4> QED BY <3>2, <3>3
    <3> QED BY <2>2, <3>4
  <2> QED BY <2>3, <2>4
<1>4. mach = [s \in Spots |-> mach[s]]
  <2> HIDE DEF word
  <2> QED BY <1>2
<1>5. Listed(stack)
  <2>1. <<>> \in Seq({})
    OBVIOUS
  <2> QED BY <1>1, <2>1, ListedFrom
<1>6. target = (IF call.direct THEN Frame ELSE Spot(0))
  BY DEF Init
<1> QED BY <1>1, <1>3, <1>4, <1>5, <1>6 DEF CallerInv, Placed, Arranged

\* The padding makes the pushes to come even.
LEMMA PadKeeps ==
  ASSUME CallerInv, Pad
  PROVE  CallerInv'
<1>1. /\ pc = "pad" /\ pc' = "push" /\ n' = 0
      /\ call' = call /\ place' = place /\ mach' = mach /\ target' = target
      /\ stack' = IF Len(StackSlots) % 2 = 1 THEN <<Blank>> ELSE <<>>
  BY DEF Pad, Goto, KeepCall
<1>2. call \in Calls /\ Placed /\ Arranged
  BY <1>1 DEF CallerInv, CallerPhases
<1>3. Len(StackSlots) \in Nat
  BY <1>2, SlotsListed
<1>4. StackSlots' = StackSlots
  BY <1>1, SameCall
<1>5. Listed(stack')
  <2>1. <<>> \in Seq({Blank}) /\ <<Blank>> \in Seq({Blank})
    OBVIOUS
  <2> QED BY <1>1, <2>1, ListedFrom
<1>6. Len(stack') = (Len(StackSlots) % 2) + 0
  <2>1. Len(<<>>) = 0 /\ Len(<<Blank>>) = 1
    OBVIOUS
  <2>2. Len(StackSlots) % 2 \in {0, 1}
    BY <1>3
  <2> QED BY <1>1, <2>1, <2>2
<1>7. Placed'
  BY <1>1, <1>2, <1>5 DEF Placed
<1>8. Arranged'
  BY <1>1, <1>2 DEF Arranged, Spot
<1>9. n' \in 0..Len(StackSlots)
  BY <1>1, <1>3
<1> QED BY <1>1, <1>2, <1>4, <1>6, <1>7, <1>8, <1>9 DEF CallerInv

\* One eightbyte pushed.
LEMMA PushKeeps ==
  ASSUME CallerInv, PushSlot
  PROVE  CallerInv'
<1>1. /\ pc = "push" /\ pc' = "push" /\ n' = n + 1 /\ n < Len(StackSlots)
      /\ call' = call /\ place' = place /\ mach' = mach /\ target' = target
      /\ stack' = <<mach[StackSlots[Len(StackSlots) - n]]>> \o stack
  BY DEF PushSlot, Step, KeepCall
<1>2. /\ call \in Calls /\ Placed /\ Arranged
      /\ n \in 0..Len(StackSlots) /\ Len(stack) = (Len(StackSlots) % 2) + n
  BY <1>1 DEF CallerInv, CallerPhases
<1>3. Len(StackSlots) \in Nat
  BY <1>2, SlotsListed
<1>4. StackSlots' = StackSlots
  BY <1>1, SameCall
<1>5. Listed(stack') /\ Len(stack') = Len(stack) + 1
  BY <1>1, <1>2, ListOps DEF Placed
<1>6. Len(stack') = (Len(StackSlots) % 2) + (n + 1)
  <2>1. Len(StackSlots) % 2 \in Nat
    BY <1>3
  <2> QED BY <1>2, <1>5, <2>1
<1>7. Placed'
  BY <1>1, <1>2, <1>5 DEF Placed
<1>8. Arranged'
  BY <1>1, <1>2 DEF Arranged, Spot
<1>9. n + 1 \in 0..Len(StackSlots)
  BY <1>1, <1>2, <1>3
<1> QED BY <1>1, <1>2, <1>4, <1>6, <1>7, <1>8, <1>9 DEF CallerInv

\* Where each integer argument is when the moves begin.
LEMMA ArgumentsPlaced ==
  ASSUME call \in Calls, Placed, Arranged, NEW i \in DOMAIN Args
  PROVE  /\ mach[Spot(Args[i].value)] = Part(Args[i].value, Args[i].size, 0)
         /\ Args[i].value \in Values(call) \ {0}
<1>1. Args[i].value \in Values(call) /\ Args[i].value \in 1..MaxArgs
  BY CallFacts, SpotFacts DEF Placed, Argument
<1>2. Args[i].value # 0
  BY <1>1, RegisterAssumption
<1>3. SizeOf(call, Args[i].value) = Args[i].size
  <2> DEFINE j == CHOOSE k \in DOMAIN call.args : call.args[k].value = Args[i].value
  <2>1. j \in DOMAIN call.args /\ call.args[j].value = call.args[i].value
    BY DEF Args
  <2>2. call.args[j] = call.args[i]
    <3> HIDE DEF j
    <3> QED BY <2>1, CallAssumption DEF Args
  <2> HIDE DEF j
  <2>3. SizeOf(call, Args[i].value) = call.args[j].size
    BY <1>2 DEF SizeOf, j
  <2> QED BY <2>2, <2>3 DEF Args
<1> QED BY <1>1, <1>2, <1>3 DEF Arranged

\* The moves begin on course, unless the pointer was put where an argument was.
LEMMA AimOnCourse ==
  ASSUME call \in Calls, Placed, Arranged, ~Packed, Aim, botched' = {}
  PROVE  Scheduler!OnCourse'
<1>1. /\ pending' = { m \in IntMoves : m.from # m.to }
      /\ call' = call /\ place' = place
  BY DEF Aim
<1>2. Wanted' = Wanted
  BY <1>1, SameCall
<1>3. ASSUME NEW i \in Going("gpr")
      PROVE  mach'[MoveOf(i).from] = Part(Args[i].value, Args[i].size, 0)
  <2> DEFINE v == Args[i].value
  <2>1. i \in DOMAIN Args
    BY InRegister
  <2>2. mach[Spot(v)] = Part(v, Args[i].size, 0) /\ v \in Values(call) \ {0}
    BY <2>1, ArgumentsPlaced
  <2>3. Spot(v) \in Spots
    BY <2>2, SpotFacts DEF Placed, Spots
  <2>4. mach'[Spot(v)] = mach[Spot(v)]
    <3>1. CASE Relocates
      <4>1. mach' = [mach EXCEPT ![Relocation] = mach[Spot(0)]]
            /\ ~(\E w \in Values(call) \ {0} : place[w] = Relocation)
        BY <3>1 DEF Aim
      <4>2. Relocation \in Regs /\ Relocation \notin Slots
        BY RelocatedOutside, RegisterAssumption DEF Placed
      <4>3. Spot(v) # Relocation
        <5>1. CASE place[v] = Frame
          <6>1. Spot(v) = <<v, 0>> /\ v \in 0..MaxArgs /\ 0 \in 0..(MaxWords - 1)
            BY <5>1, <2>2, SpotFacts, RegisterAssumption DEF Spot, Placed
          <6>2. Spot(v) \in Slots
            BY <6>1 DEF Slots
          <6> QED BY <6>2, <4>2
        <5>2. CASE place[v] # Frame
          BY <5>2, <2>2, <4>1 DEF Spot
        <5> QED BY <5>1, <5>2
      <4> HIDE DEF v
      <4> QED BY <4>1, <4>3, <2>3 DEF Placed
    <3>2. CASE ~Relocates
      BY <3>2 DEF Aim
    <3> QED BY <3>1, <3>2
  <2> QED BY <2>2, <2>4 DEF MoveOf
<1>4. \A m, o \in pending' : m.to = o.to => m = o
  BY <1>1, MovesTyped DEF Placed
<1>5. ASSUME NEW m \in pending'
      PROVE  m.to \in DOMAIN Wanted /\ Wanted[m.to].size = m.size
               /\ Scheduler!Agree(mach'[m.from], Wanted[m.to].word, m.size)
  <2>1. PICK i \in Going("gpr") : m = MoveOf(i)
    BY <1>1, MovesAre
  <2>2. Wanted[m.to].word = mach'[m.from] /\ Wanted[m.to].size = Args[i].size
    <3>1. Wanted[m.to] = [word |-> Part(Args[i].value, Args[i].size, 0), size |-> Args[i].size]
      BY <2>1, WantedFacts
    <3>2. mach'[m.from] = Part(Args[i].value, Args[i].size, 0)
      BY <2>1, <1>3
    <3> QED BY <3>1, <3>2
  <2>3. m.size = Args[i].size /\ m.to \in DOMAIN Wanted
    BY <2>1, MovesAre, WantedFacts DEF MoveOf, Scheduler!Reached
  <2> QED BY <2>2, <2>3 DEF Scheduler!Agree
<1>6. ASSUME NEW r \in DOMAIN Wanted, r \notin Scheduler!Reached(pending')
      PROVE  Scheduler!Agree(mach'[r], Wanted[r].word, Wanted[r].size)
  <2>1. PICK m \in IntMoves : r = m.to
    BY WantedFacts DEF Scheduler!Reached
  <2>2. PICK i \in Going("gpr") : m = MoveOf(i)
    BY MovesAre
  <2>3. m.from = r
    BY <1>1, <1>6, <2>1 DEF Scheduler!Reached
  <2>4. Wanted[r].word = mach'[r]
    <3>1. Wanted[r] = [word |-> Part(Args[i].value, Args[i].size, 0), size |-> Args[i].size]
      BY <2>1, <2>2, WantedFacts
    <3>2. mach'[r] = Part(Args[i].value, Args[i].size, 0)
      BY <2>2, <2>3, <1>3
    <3> QED BY <3>1, <3>2
  <2> QED BY <2>4 DEF Scheduler!Agree
<1> QED BY <1>2, <1>4, <1>5, <1>6 DEF Scheduler!OnCourse, Scheduler!Reached, Scheduler!Agree

\* The pointer of an indirect call moves out of the way of the arguments.
LEMMA AimKeeps ==
  ASSUME CallerInv, Aim
  PROVE  CallerInv'
<1>1. /\ pc = "push" /\ n = Len(StackSlots) /\ n' = 0
      /\ call' = call /\ place' = place /\ stack' = stack
      /\ pc' = (IF Packed THEN "pack" ELSE "moves")
      /\ pending' = { m \in IntMoves : m.from # m.to }
  BY DEF Aim, At, Goto
<1>2. /\ call \in Calls /\ Placed /\ Arranged
      /\ Len(stack) = (Len(StackSlots) % 2) + n
  BY <1>1 DEF CallerInv, CallerPhases
<1>3. Len(StackSlots) \in Nat
  BY <1>2, SlotsListed
<1>4. Len(stack) % 2 = 0
  BY <1>1, <1>2, <1>3
<1>5. /\ Packed' = Packed /\ Wanted' = Wanted /\ IntMoves' = IntMoves
      /\ Avoid' = Avoid /\ CyclicMoves' = CyclicMoves
  BY <1>1, SameCall
<1>6. mach' = [s \in Spots |-> mach'[s]]
  <2>1. CASE Relocates
    <3>1. mach' = [mach EXCEPT ![Relocation] = mach[Spot(0)]]
      BY <2>1 DEF Aim
    <3> QED BY <1>2, <3>1 DEF Placed
  <2>2. CASE ~Relocates
    BY <1>2, <2>2 DEF Aim, Placed
  <2> QED BY <2>1, <2>2
<1>7. Placed'
  BY <1>1, <1>2, <1>6 DEF Placed
<1>8. CASE Packed
  BY <1>1, <1>2, <1>4, <1>5, <1>7, <1>8 DEF CallerInv
<1>9. CASE ~Packed
  <2>1. MovesShape'
    <3>1. IntMoves \subseteq Scheduler!Moves /\ \A m, o \in IntMoves : m.to = o.to => m = o
      BY <1>2, MovesTyped DEF Placed
    <3>2. DOMAIN Wanted \subseteq ToSet(ArgRegs)
      BY <1>2, <3>1, WantedFacts DEF Scheduler!Reached, Scheduler!Moves
    <3> QED BY <1>1, <1>5, <1>6, <3>1, <3>2 DEF MovesShape, Scheduler!Moves
  <2>2. Scheduler!Reached(pending') \subseteq Scheduler!Reached(IntMoves)
    BY <1>1 DEF Scheduler!Reached
  <2>3. botched' # {} \/ Scheduler!OnCourse'
    BY <1>2, <1>9, AimOnCourse
  <2>4. ASSUME ~call.direct
        PROVE  target' \in (Regs \cup Slots) \ Avoid /\ mach'[target'] = Part(0, Units, 0)
    <3>1. mach[Spot(0)] = Part(0, Units, 0) /\ Spot(0) \in Regs \cup Slots
      BY <1>2, <2>4, SpotFacts DEF Arranged, Placed, SizeOf
    <3>2. CASE Relocates
      <4>1. mach' = [mach EXCEPT ![Relocation] = mach[Spot(0)]] /\ target' = Relocation
        BY <3>2 DEF Aim
      <4>2. Relocation \in Regs /\ Relocation \notin Avoid
        BY <1>2, <1>9, RelocatedOutside DEF Placed
      <4>3. mach'[Relocation] = mach[Spot(0)]
        BY <1>2, <4>1, <4>2 DEF Placed, Spots
      <4> QED BY <3>1, <4>1, <4>2, <4>3
    <3>3. CASE ~Relocates
      <4>1. mach' = mach /\ target' = target /\ Spot(0) \notin Avoid
        BY <2>4, <3>3 DEF Aim, Relocates
      <4>2. target = Spot(0)
        BY <1>2, <2>4 DEF Arranged
      <4> QED BY <3>1, <4>1, <4>2
    <3> QED BY <3>2, <3>3
  <2>5. ~call.direct => target' \in (Regs \cup Slots) \ Avoid /\ PointerKept'
    BY <2>4 DEF PointerKept, Part
  <2>6. Moving'
    BY <1>1, <1>5, <1>9, <2>1, <2>2, <2>3, <2>5 DEF Moving, Scheduler!Reached
  <2> QED BY <1>1, <1>2, <1>4, <1>7, <1>9, <2>6 DEF CallerInv
<1> QED BY <1>8, <1>9

\* One integer move.
LEMMA MoveIntKeeps ==
  ASSUME CallerInv, MoveInt
  PROVE  CallerInv'
<1>1. /\ pc = "moves" /\ pc' = "moves" /\ n' = n /\ call' = call /\ place' = place
      /\ stack' = stack /\ target' = target /\ botched' = botched
      /\ Scheduler!MoveReady
  BY DEF MoveInt, KeepCall
<1>2. call \in Calls /\ Placed /\ Moving /\ Len(stack) % 2 = 0
  BY <1>1 DEF CallerInv, CallerPhases
<1>3. PICK m \in pending :
        /\ mach' = [mach EXCEPT ![m.to] = Scheduler!Moved(mach[m.from], m.size)]
        /\ pending' = pending \ {m}
  BY <1>1 DEF Scheduler!MoveReady
<1>4. n = 0
  BY <1>2, <1>3 DEF Moving
<1>5. /\ Packed' = Packed /\ IntMoves' = IntMoves
      /\ Avoid' = Avoid /\ CyclicMoves' = CyclicMoves
  BY <1>1, SameCall
<1>6. MovesShape'
  BY <1>1, <1>2, ReadyShape DEF Moving
<1>7. Placed'
  BY <1>1, <1>2, <1>6 DEF Placed, MovesShape
<1>8. botched # {} \/ Scheduler!OnCourse'
  BY <1>1, <1>2, <1>4, ReadyKeepsCourse DEF Moving
<1>9. ~call.direct => target' \in (Regs \cup Slots) \ Avoid /\ PointerKept'
  <2>1. m.to \in Avoid
    <3>1. m.to \in Scheduler!Reached(IntMoves)
      BY <1>2 DEF Moving, Scheduler!Reached
    <3>2. Scheduler!Reached(IntMoves) \subseteq IntRegsUsed
      BY <1>2, UsedAreArguments DEF Moving, Placed
    <3> QED BY <3>1, <3>2 DEF Avoid
  <2>2. ASSUME ~call.direct PROVE target \in Spots /\ target # m.to
    BY <1>2, <2>1, <2>2 DEF Moving, Spots
  <2>3. ~call.direct => mach'[target] = mach[target]
    BY <1>2, <1>3, <2>2 DEF Placed
  <2> QED BY <1>1, <1>2, <1>5, <2>3 DEF Moving, PointerKept, Part
<1>10. Scheduler!Reached(pending') \subseteq Scheduler!Reached(pending)
  BY <1>3 DEF Scheduler!Reached
<1>11. Moving'
  BY <1>1, <1>2, <1>3, <1>4, <1>5, <1>6, <1>8, <1>9, <1>10 DEF Moving, Scheduler!Reached
<1> QED BY <1>1, <1>2, <1>7, <1>11 DEF CallerInv

\* One cycle broken.
LEMMA BreakCycleKeeps ==
  ASSUME CallerInv, BreakCycle
  PROVE  CallerInv'
<1>1. /\ pc = "moves" /\ pc' = "moves" /\ n' = n /\ call' = call /\ place' = place
      /\ stack' = stack /\ target' = target /\ botched' = botched
      /\ Scheduler!BreakCycle
  BY DEF BreakCycle, KeepCall
<1>2. call \in Calls /\ Placed /\ Moving /\ Len(stack) % 2 = 0
  BY <1>1 DEF CallerInv, CallerPhases
<1>3. PICK k \in Scheduler!FreeTemps, m \in pending :
        /\ \A j \in Scheduler!FreeTemps : k <= j
        /\ mach' = [mach EXCEPT ![Temps[k]] = mach[m.from]]
  BY <1>1 DEF Scheduler!BreakCycle
<1>4. n = 0
  BY <1>2, <1>3 DEF Moving
<1>5. /\ Packed' = Packed /\ IntMoves' = IntMoves
      /\ Avoid' = Avoid /\ CyclicMoves' = CyclicMoves
  BY <1>1, SameCall
<1>6. MovesShape' /\ Scheduler!Reached(pending') = Scheduler!Reached(pending)
  BY <1>1, <1>2, BreakShape DEF Moving
<1>7. Placed'
  BY <1>1, <1>2, <1>6 DEF Placed, MovesShape
<1>8. botched # {} \/ Scheduler!OnCourse'
  BY <1>1, <1>2, <1>4, BreakKeepsCourse DEF Moving
<1>9. \A o \in pending : ~Scheduler!Ready(o)
  BY <1>1 DEF Scheduler!BreakCycle
<1>10. k = 1
  <2>1. 1 \in Scheduler!FreeTemps
    BY <1>2, <1>9, FirstTempFree DEF Moving
  <2>2. k <= 1 /\ k \in 1..Len(Temps)
    BY <1>3, <2>1, RegisterAssumption DEF Scheduler!FreeTemps
  <2> QED BY <2>2, RegisterAssumption
<1>11. CyclicMoves
  <2>1. CASE pending \subseteq { o \in IntMoves : o.from # o.to }
    <3>1. Scheduler!Reached(pending) = Scheduler!Read(pending)
      BY <1>2, <1>9, OnlyTargetsRead DEF Moving
    <3> QED BY <1>3, <2>1, <3>1 DEF CyclicMoves
  <2> QED BY <1>2, <2>1 DEF Moving
<1>12. ~call.direct => target' \in (Regs \cup Slots) \ Avoid /\ PointerKept'
  <2>1. CASE target = Temps[1]
    BY <1>1, <1>2, <1>5, <1>11, <2>1 DEF Moving, PointerKept
  <2>2. CASE target # Temps[1]
    <3>1. ~call.direct => target \in Spots
      BY <1>2 DEF Moving, Spots
    <3>2. ~call.direct => mach'[target] = mach[target]
      BY <1>2, <1>3, <1>10, <2>2, <3>1 DEF Placed
    <3> QED BY <1>1, <1>2, <1>5, <2>2, <3>2 DEF Moving, PointerKept, Part
  <2> QED BY <2>1, <2>2
<1>13. Moving'
  BY <1>1, <1>2, <1>4, <1>5, <1>6, <1>8, <1>11, <1>12 DEF Moving, Scheduler!Reached
<1> QED BY <1>1, <1>2, <1>7, <1>13 DEF CallerInv

\* One load after the integer moves, which hits none of the registers they filled.
LEMMA LoadRestKeeps ==
  ASSUME CallerInv, LoadRest
  PROVE  CallerInv'
<1>1. /\ pc = "moves" /\ pc' = "moves" /\ n' = n + 1 /\ n < Len(Loads) /\ pending = {}
      /\ call' = call /\ place' = place /\ stack' = stack /\ target' = target
      /\ pending' = pending
      /\ mach' = [mach EXCEPT ![Loads[n + 1].to] =
                    Cut(mach[Loads[n + 1].from], Loads[n + 1].size)]
  BY DEF LoadRest, Step, KeepCall
<1>2. call \in Calls /\ Placed /\ Moving /\ Len(stack) % 2 = 0
  BY <1>1 DEF CallerInv, CallerPhases
<1>3. /\ Packed' = Packed /\ IntMoves' = IntMoves /\ Wanted' = Wanted
      /\ Avoid' = Avoid /\ CyclicMoves' = CyclicMoves
  BY <1>1, SameCall
<1>4. n + 1 \in Nat /\ n + 1 > 0 /\ n + 1 # 0 /\ n + 1 \in 1..Len(Loads)
  <2>1. n \in Nat /\ Len(Loads) \in Nat
    BY <1>2, LoadsTyped DEF Moving, Placed
  <2> QED BY <1>1, <2>1
<1>5. mach' = [s \in Spots |-> mach'[s]]
  BY <1>1, <1>2 DEF Placed
<1>6. MovesShape'
  BY <1>1, <1>2, <1>3, <1>5 DEF Moving, MovesShape, Scheduler!Moves
<1>7. Placed'
  BY <1>1, <1>2, <1>5 DEF Placed
<1>8. ~call.direct => target' \in (Regs \cup Slots) \ Avoid /\ PointerKept'
  <2>1. Loads[n + 1].to \in Avoid \cup ToSet(XmmRegs)
    BY <1>2, <1>4, LoadsTyped DEF Placed
  <2>2. ASSUME ~call.direct PROVE target \in Spots /\ target # Loads[n + 1].to
    BY <1>2, <2>1, <2>2, RegisterAssumption DEF Moving, Spots
  <2>3. ~call.direct => mach'[target] = mach[target]
    BY <1>1, <1>2, <2>2 DEF Placed
  <2> QED BY <1>1, <1>2, <1>3, <2>3 DEF Moving, PointerKept, Part
<1>9. Scheduler!Reached(pending') = Scheduler!Reached(pending)
  BY <1>1
<1>10. pending' \subseteq { m \in IntMoves : m.from # m.to } \/ CyclicMoves
  BY <1>1
<1>11. Moving'
  BY <1>1, <1>2, <1>3, <1>4, <1>6, <1>8, <1>10 DEF Moving, Scheduler!Reached
<1> QED BY <1>1, <1>2, <1>7, <1>11 DEF CallerInv

\* The count of vector registers goes to rax.
LEMMA CountKeeps ==
  ASSUME CallerInv, Count
  PROVE  CallerInv'
<1>1. /\ pc = "moves" /\ pc' = "jump" /\ call' = call /\ place' = place /\ stack' = stack
      /\ target' = target
      /\ mach' = IF call.variadic THEN [mach EXCEPT ![RAX] = Blank] ELSE mach
  BY DEF Count, At, Goto, KeepCall
<1>2. call \in Calls /\ Placed /\ Moving /\ Len(stack) % 2 = 0
  BY <1>1 DEF CallerInv, CallerPhases
<1>3. CyclicMoves' = CyclicMoves
  BY <1>1, SameCall
<1>4. mach' = [s \in Spots |-> mach'[s]]
  BY <1>1, <1>2 DEF Placed
<1>5. Placed'
  BY <1>1, <1>2, <1>4 DEF Placed
<1>6. ~call.direct => PointerKept'
  <2>1. ASSUME ~call.direct PROVE target \in Spots /\ (call.variadic => target # RAX)
    BY <1>2, <2>1 DEF Moving, Spots, Avoid
  <2>2. ~call.direct => mach'[target] = mach[target]
    BY <1>1, <1>2, <2>1 DEF Placed
  <2> QED BY <1>1, <1>2, <1>3, <2>2 DEF Moving, PointerKept, Part
<1> QED BY <1>1, <1>2, <1>5, <1>6 DEF CallerInv

-----------------------------------------------------------------------------
\* Packing on the stack reserves its words.
LEMMA ReserveKeeps ==
  ASSUME CallerInv, Reserve
  PROVE  CallerInv'
<1>1. /\ pc = "pack" /\ pc' = "fields" /\ call' = call /\ place' = place /\ mach' = mach
      /\ stack' = IF InRegisters THEN stack
                  ELSE [i \in 1..Reserved |-> IF i <= Len(Packers) THEN Cleared ELSE mach[RAX]] \o stack
  BY DEF Reserve, Goto, KeepCall
<1>2. call \in Calls /\ Placed /\ Packed /\ Len(stack) % 2 = 0
  BY <1>1 DEF CallerInv, CallerPhases
<1>3. Packed' = Packed /\ InRegisters' = InRegisters /\ Reserved' = Reserved
  BY <1>1, SameCall
<1>4. Reserved \in Nat /\ Len(stack) \in Nat
  BY <1>2, PackersListed, ListOps DEF Placed
<1>5. Listed(stack') /\ Len(stack') = Len(stack) + Extra
  <2>1. CASE InRegisters
    <3>1. stack' = stack /\ Extra = 0
      BY <1>1, <2>1 DEF Extra
    <3> QED BY <1>2, <1>4, <3>1 DEF Placed
  <2>2. CASE ~InRegisters
    <3> DEFINE f == [i \in 1..Reserved |-> IF i <= Len(Packers) THEN Cleared ELSE mach[RAX]]
    <3>1. stack' = f \o stack /\ Extra = Reserved
      BY <1>1, <2>2 DEF Extra
    <3>2. f = [i \in 1..Reserved |-> f[i]]
      OBVIOUS
    <3>3. Listed(stack)
      BY <1>2 DEF Placed
    <3> HIDE DEF f
    <3>4. Listed(f \o stack) /\ Len(f \o stack) = Len(stack) + Reserved
      BY <1>4, <3>2, <3>3, ListPrefixed
    <3> QED BY <3>1, <3>4
  <2> QED BY <2>1, <2>2
<1>6. Len(stack') - Extra = Len(stack)
  <2>1. Extra \in Nat
    BY <1>4 DEF Extra
  <2> QED BY <1>4, <1>5, <2>1
<1>7. Extra' = Extra
  BY <1>3 DEF Extra
<1>8. Placed'
  BY <1>1, <1>2, <1>5 DEF Placed
<1> QED BY <1>1, <1>2, <1>3, <1>4, <1>6, <1>7, <1>8 DEF CallerInv

\* A step of the packing, which leaves the number of words on the stack alone.
LEMMA PackingKeeps ==
  ASSUME CallerInv, pc = "fields", pc' = "fields", call' = call, place' = place,
         mach' = [s \in Spots |-> mach'[s]],
         Listed(stack'), Len(stack') = Len(stack)
  PROVE  CallerInv'
<1>1. /\ call \in Calls /\ Placed /\ Packed
      /\ Len(stack) - Extra \in Nat /\ (Len(stack) - Extra) % 2 = 0
  BY DEF CallerInv, CallerPhases
<1>2. Packed' = Packed /\ InRegisters' = InRegisters /\ Reserved' = Reserved
  BY SameCall
<1>3. Extra' = Extra
  BY <1>2 DEF Extra
<1>4. Placed'
  BY <1>1 DEF Placed
<1> QED BY <1>1, <1>2, <1>3, <1>4 DEF CallerInv

\* Packing one field.
LEMMA PackKeeps ==
  ASSUME CallerInv, PackInRegister \/ PackOnStack \/ Deliver
  PROVE  CallerInv'
<1>1. /\ pc = "fields" /\ pc' = "fields" /\ call' = call /\ place' = place
  BY DEF PackInRegister, PackOnStack, Deliver, Step, KeepCall
<1>2. Placed
  BY <1>1 DEF CallerInv, CallerPhases
<1>3. mach' = [s \in Spots |-> mach'[s]] /\ Listed(stack') /\ Len(stack') = Len(stack)
  <2>1. CASE PackInRegister
    <3>1. PICK a, b, x, y : mach' = [mach EXCEPT ![a] = x, ![b] = y]
      BY <2>1 DEF PackInRegister
    <3>2. stack' = stack
      BY <2>1 DEF PackInRegister
    <3> QED BY <1>2, <3>1, <3>2 DEF Placed
  <2>2. CASE PackOnStack
    <3>1. PICK x : mach' = [mach EXCEPT ![RAX] = x]
      BY <2>2 DEF PackOnStack
    <3>2. PICK k, w : stack' = [stack EXCEPT ![k] = w]
      BY <2>2 DEF PackOnStack
    <3>3. Listed(stack') /\ Len(stack') = Len(stack)
      BY <1>2, <3>2, ListExcept DEF Placed
    <3> QED BY <1>2, <3>1, <3>3 DEF Placed
  <2>3. CASE Deliver
    <3>1. PICK a, x : mach' = [mach EXCEPT ![a] = x]
      BY <2>3 DEF Deliver
    <3>2. stack' = stack
      BY <2>3 DEF Deliver
    <3> QED BY <1>2, <3>1, <3>2 DEF Placed
  <2> QED BY <2>1, <2>2, <2>3
<1> QED BY <1>1, <1>3, PackingKeeps

\* What packing reserved is released before the call.
LEMMA ReleaseKeeps ==
  ASSUME CallerInv, Release
  PROVE  CallerInv'
<1>1. /\ pc = "fields" /\ pc' = "jump" /\ call' = call /\ place' = place /\ mach' = mach
      /\ stack' = IF InRegisters THEN stack ELSE SubSeq(stack, Reserved + 1, Len(stack))
  BY DEF Release, At, Goto, KeepCall
<1>2. /\ call \in Calls /\ Placed /\ Packed
      /\ Len(stack) - Extra \in Nat /\ (Len(stack) - Extra) % 2 = 0
  BY <1>1 DEF CallerInv, CallerPhases
<1>3. Reserved \in Nat /\ Len(stack) \in Nat
  BY <1>2, PackersListed, ListOps DEF Placed
<1>4. Listed(stack') /\ Len(stack') = Len(stack) - Extra
  <2>1. CASE InRegisters
    <3>1. stack' = stack /\ Extra = 0
      BY <1>1, <2>1 DEF Extra
    <3> QED BY <1>2, <1>3, <3>1 DEF Placed
  <2>2. CASE ~InRegisters
    <3>1. stack' = SubSeq(stack, Reserved + 1, Len(stack)) /\ Extra = Reserved
      BY <1>1, <2>2 DEF Extra
    <3>2. Reserved \in 0..Len(stack)
      BY <1>2, <1>3, <3>1
    <3>3. Listed(stack)
      BY <1>2 DEF Placed
    <3> QED BY <3>1, <3>2, <3>3, ListDropped
  <2> QED BY <2>1, <2>2
<1>5. Placed'
  BY <1>1, <1>2, <1>4 DEF Placed
<1>6. call.direct
  BY <1>2 DEF Packed
<1> QED BY <1>1, <1>2, <1>4, <1>5, <1>6 DEF CallerInv

\* Once the callee runs the caller has nothing more to do.
LEMMA CalleeKeeps ==
  ASSUME CallerInv,
         \/ Enter \/ Settle \/ LoadRegister \/ LoadStruct \/ LoadStack
         \/ StageCopy \/ StagePush \/ Staged \/ Extract \/ Begin \/ Body
  PROVE  CallerInv'
<1>1. call' = call
  BY DEF Enter, Settle, LoadRegister, LoadStruct, LoadStack, StageCopy, StagePush, Staged,
         Extract, Begin, Body, KeepCall, vars
<1>2. pc' \notin CallerPhases
  <2>1. CASE Enter \/ Settle \/ Staged \/ Begin
    BY <2>1 DEF Enter, Settle, Staged, Begin, Goto, CallerPhases
  <2>2. CASE LoadRegister \/ LoadStruct \/ LoadStack \/ StageCopy \/ StagePush \/ Extract \/ Body
    BY <2>2 DEF LoadRegister, LoadStruct, LoadStack, StageCopy, StagePush, Extract, Body, Step,
                CallerPhases, vars
  <2> QED BY <2>1, <2>2
<1> QED BY <1>1, <1>2 DEF CallerInv, CallerPhases

\* Every step of the caller, and of the callee after it.
LEMMA CallerKeeps == CallerInv /\ [Next]_vars => CallerInv'
<1>1. CASE Next
  BY <1>1, PadKeeps, PushKeeps, AimKeeps, MoveIntKeeps, BreakCycleKeeps, LoadRestKeeps, CountKeeps,
     ReserveKeeps, PackKeeps, ReleaseKeeps, CalleeKeeps DEF Next
<1>2. ASSUME CallerInv, UNCHANGED vars PROVE CallerInv'
  <2>1. /\ call' = call /\ place' = place /\ mach' = mach /\ stack' = stack /\ pending' = pending
        /\ target' = target /\ botched' = botched /\ pc' = pc /\ n' = n
    BY <1>2 DEF vars
  <2>2. /\ IntMoves' = IntMoves /\ StackSlots' = StackSlots /\ Avoid' = Avoid
        /\ Packed' = Packed /\ InRegisters' = InRegisters /\ Reserved' = Reserved
        /\ Wanted' = Wanted /\ CyclicMoves' = CyclicMoves
    BY <2>1, SameCall
  <2>3. Placed' = Placed
    BY <2>1 DEF Placed
  <2>4. Arranged' = Arranged
    BY <2>1 DEF Arranged, Spot
  <2>5. Extra' = Extra
    BY <2>2 DEF Extra
  <2>6. PointerKept' = PointerKept
    BY <2>1, <2>2 DEF PointerKept, Part
  <2>7. MovesShape' = MovesShape
    BY <2>1, <2>2 DEF MovesShape, Scheduler!Moves
  <2>8. Scheduler!OnCourse' = Scheduler!OnCourse
    BY <2>1, <2>2 DEF Scheduler!OnCourse, Scheduler!Agree, Scheduler!Reached
  <2>9. Moving' = Moving
    BY <2>1, <2>2, <2>6, <2>7, <2>8 DEF Moving, Scheduler!Reached
  <2> QED BY <1>2, <2>1, <2>2, <2>3, <2>4, <2>5, <2>6, <2>9 DEF CallerInv
<1> QED BY <1>1, <1>2

\* The caller's invariant.
LEMMA CallerAlways == Spec => []CallerInv
BY CallerInit, CallerKeeps, PTL DEF Spec

(***************************************************************************)
(* Whatever places the arguments sit in, and however their moves chain and *)
(* cycle, every prefix of _emit_parallel_int_moves has lost nothing: what  *)
(* is pending still finds its source, what is done has stayed, unless the  *)
(* pointer of the call was moved onto a source beforehand.                 *)
(***************************************************************************)
THEOREM ArgumentMovesOnCourse == Spec => []MovesOnCourse
<1>1. CallerInv => MovesOnCourse
  BY DEF CallerInv, Moving, MovesOnCourse
<1> QED BY <1>1, CallerAlways, PTL

(***************************************************************************)
(* The call is made with rsp aligned and, when it is indirect, through the *)
(* pointer the program meant, after any number of moves, pushes and loads, *)
(* unless the pointer sat in the register that broke a cycle.              *)
(***************************************************************************)
THEOREM CallIsAligned == Spec => []CallLandsAligned
<1>1. CallerInv => CallLandsAligned
  BY DEF CallerInv, PointerKept, CallLandsAligned
<1> QED BY <1>1, CallerAlways, PTL

(***************************************************************************)
(* However the moves of a call cycle, one candidate is enough: the         *)
(* exception for the want of a scratch register is never raised, and it is *)
(* always r11 that is taken.                                               *)
(***************************************************************************)
THEOREM CycleAlwaysBreakable == Spec => [](pc = "moves" => Scheduler!CycleBreakable)
<1>1. CallerInv => (pc = "moves" => Scheduler!CycleBreakable)
  <2> SUFFICES ASSUME CallerInv, pc = "moves", \A m \in pending : ~Scheduler!Ready(m)
               PROVE  1 \in Scheduler!FreeTemps
    BY DEF Scheduler!CycleBreakable
  <2> QED BY FirstTempFree DEF CallerInv, Moving
<1> QED BY <1>1, CallerAlways, PTL

----------------------------------------------------------------------------
(* The data flow of the memory-safety analysis.  What its states are made  *)
(* of, for any names of functions and values.                              *)

Maps(D, R) == UNION { [S -> R] : S \in SUBSET D }

Kinds == {"new", "ret", "param"}
Allocations == [kind : Kinds, fn : STRING, at : Nat]
Fates == {"a", "mf", "f"}
Wrongs == {"use", "double"}
Reports == [fn : STRING, at : Nat, kind : Wrongs, alloc : Allocations]

FlowStates == [pt : Maps(STRING, SUBSET Allocations), freed : Maps(Allocations, Fates),
               escaped : SUBSET Allocations]

Facts == [owned : Maps(Allocations, STRING), escapedEver : SUBSET Allocations,
          freedEver : SUBSET Allocations, derefed : SUBSET Allocations,
          returned : BOOLEAN, diags : SUBSET Reports]

States == [pt : Maps(STRING, SUBSET Allocations), freed : Maps(Allocations, Fates),
           escaped : SUBSET Allocations, owned : Maps(Allocations, STRING),
           escapedEver : SUBSET Allocations, freedEver : SUBSET Allocations,
           derefed : SUBSET Allocations, returned : BOOLEAN, diags : SUBSET Reports]

Sites == [fn : STRING, at : Nat, record : BOOLEAN]

LEMMA MapIs ==
  ASSUME NEW D, NEW R, NEW f
  PROVE  f \in Maps(D, R) <=> DOMAIN f \subseteq D /\ f \in [DOMAIN f -> R]
BY DEF Maps

\* An update of a map with one of the same kind is one.
LEMMA OverMaps ==
  ASSUME NEW D, NEW R, NEW f \in Maps(D, R), NEW g \in Maps(D, R)
  PROVE  Over(f, g) \in Maps(D, R)
<1>1. DOMAIN f \subseteq D /\ f \in [DOMAIN f -> R] /\ DOMAIN g \subseteq D /\ g \in [DOMAIN g -> R]
  BY MapIs
<1>2. Over(f, g) \in [DOMAIN f \cup DOMAIN g -> R]
  BY <1>1 DEF Over
<1> QED BY <1>1, <1>2 DEF Maps

LEMMA OnlyMaps ==
  ASSUME NEW D, NEW R, NEW x \in D, NEW y \in R
  PROVE  Only(x, y) \in Maps(D, R)
<1>1. Only(x, y) \in [{x} -> R] /\ {x} \in SUBSET D
  BY DEF Only
<1> QED BY <1>1 DEF Maps

\* Two states that agree on what flows from block to block; and what the second
\* one has collected is in the first one or in w.
Same(a, b, w) ==
  /\ a \in States /\ b \in States /\ w \in Facts
  /\ a.pt = b.pt /\ a.freed = b.freed /\ a.escaped = b.escaped
  /\ b.escapedEver \subseteq w.escapedEver \cup a.escapedEver
  /\ b.freedEver \subseteq w.freedEver \cup a.freedEver
  /\ b.derefed \subseteq w.derefed \cup a.derefed
  /\ b.diags \subseteq w.diags \cup a.diags
  /\ b.returned => w.returned \/ a.returned

LEMMA PtsType ==
  ASSUME NEW a, a.pt \in Maps(STRING, SUBSET Allocations), NEW v
  PROVE  Pts(a, v) \in SUBSET Allocations
BY MapIs DEF Pts

LEMMA EmptyFlow ==
  Empty \in FlowStates /\ NoCtx \in Facts
<1>1. << >> \in Maps(STRING, SUBSET Allocations) /\ << >> \in Maps(Allocations, Fates)
      /\ << >> \in Maps(Allocations, STRING)
  <2>1. DOMAIN << >> = {}
    OBVIOUS
  <2>2. \A R : << >> \in [{} -> R]
    OBVIOUS
  <2> QED BY <2>1, <2>2, MapIs
<1> QED BY <1>1 DEF Empty, FlowStates, NoCtx, Facts

LEMMA SamePts ==
  ASSUME NEW a, NEW b, NEW w, Same(a, b, w), NEW v
  PROVE  Pts(a, v) = Pts(b, v) /\ Pts(a, v) \in SUBSET Allocations
<1>1. a.pt = b.pt /\ a.pt \in Maps(STRING, SUBSET Allocations)
  BY DEF Same, States
<1>2. Pts(a, v) \in SUBSET Allocations
  BY <1>1, PtsType
<1> QED BY <1>1, <1>2 DEF Pts

LEMMA AlarmsType ==
  ASSUME NEW a \in States, NEW site \in Sites, NEW kind \in Wrongs, NEW v
  PROVE  Alarms(a, site, kind, v) \in SUBSET Reports
<1>1. Pts(a, v) \in SUBSET Allocations
  BY PtsType DEF States
<1> QED BY <1>1 DEF Alarms, Reports, Sites

LEMMA AlarmsSame ==
  ASSUME NEW a, NEW b, NEW w, Same(a, b, w), NEW site \in Sites, NEW kind \in Wrongs, NEW v
  PROVE  Alarms(a, site, kind, v) = Alarms(b, site, kind, v)
<1>1. a.freed = b.freed /\ Pts(a, v) = Pts(b, v)
  BY SamePts DEF Same
<1> QED BY <1>1 DEF Alarms

LEMMA UseCheckSame ==
  ASSUME NEW a, NEW b, NEW w, Same(a, b, w), NEW site \in Sites, NEW v
  PROVE  Same(UseCheck(a, site, v), UseCheck(b, site, v), w)
<1>1. Pts(a, v) = Pts(b, v) /\ Pts(a, v) \in SUBSET Allocations
  BY SamePts
<1>2. a \in States /\ b \in States
  BY DEF Same
<1>3. Alarms(a, site, "use", v) \in SUBSET Reports /\ Alarms(b, site, "use", v) = Alarms(a, site, "use", v)
  <2>1. "use" \in Wrongs
    BY DEF Wrongs
  <2>2. Alarms(a, site, "use", v) \in SUBSET Reports
    BY <1>2, <2>1, AlarmsType
  <2>3. Alarms(a, site, "use", v) = Alarms(b, site, "use", v)
    BY <2>1, AlarmsSame
  <2> QED BY <2>2, <2>3
<1> DEFINE A == Alarms(a, site, "use", v)
           B == Alarms(b, site, "use", v)
           P == Pts(a, v)
<1>4. /\ UseCheck(a, site, v) = [a EXCEPT !.derefed = @ \cup P, !.diags = @ \cup A]
      /\ UseCheck(b, site, v) = [b EXCEPT !.derefed = @ \cup P, !.diags = @ \cup B]
  BY <1>1 DEF UseCheck
<1>5. A \in SUBSET Reports /\ B = A /\ P \in SUBSET Allocations
  BY <1>1, <1>3
<1> HIDE DEF A, B, P
<1> DEFINE x == UseCheck(a, site, v)
           y == UseCheck(b, site, v)
<1>6. x = [a EXCEPT !.derefed = @ \cup P, !.diags = @ \cup A]
      /\ y = [b EXCEPT !.derefed = @ \cup P, !.diags = @ \cup A]
  BY <1>4, <1>5
<1> HIDE DEF x, y
<1>7. x \in States /\ y \in States
  BY <1>2, <1>5, <1>6 DEF States
<1>8. /\ x.pt = a.pt /\ x.freed = a.freed /\ x.escaped = a.escaped /\ x.escapedEver = a.escapedEver
      /\ x.freedEver = a.freedEver /\ x.derefed = a.derefed \cup P /\ x.diags = a.diags \cup A
      /\ x.returned = a.returned
  BY <1>2, <1>6 DEF States
<1>9. /\ y.pt = b.pt /\ y.freed = b.freed /\ y.escaped = b.escaped /\ y.escapedEver = b.escapedEver
      /\ y.freedEver = b.freedEver /\ y.derefed = b.derefed \cup P /\ y.diags = b.diags \cup A
      /\ y.returned = b.returned
  BY <1>2, <1>6 DEF States
<1> QED BY <1>7, <1>8, <1>9 DEF Same, x, y

LEMMA MarkFreeSame ==
  ASSUME NEW a, NEW b, NEW w, Same(a, b, w), NEW site \in Sites, NEW v
  PROVE  Same(MarkFree(a, site, v), MarkFree(b, site, v), w)
<1>1. Pts(a, v) = Pts(b, v) /\ Pts(a, v) \in SUBSET Allocations
  BY SamePts
<1>2. a \in States /\ b \in States /\ a.freed = b.freed /\ a.freed \in Maps(Allocations, Fates)
  BY DEF Same, States
<1>3. Alarms(a, site, "double", v) \in SUBSET Reports /\ Alarms(b, site, "double", v) = Alarms(a, site, "double", v)
  <2>1. "double" \in Wrongs
    BY DEF Wrongs
  <2>2. Alarms(a, site, "double", v) \in SUBSET Reports
    BY <1>2, <2>1, AlarmsType
  <2>3. Alarms(a, site, "double", v) = Alarms(b, site, "double", v)
    BY <2>1, AlarmsSame
  <2> QED BY <2>2, <2>3
<1> DEFINE A == Alarms(a, site, "double", v)
           B == Alarms(b, site, "double", v)
           P == Pts(a, v)
           N == [al \in P |-> "f"]
           F == Over(N, a.freed)
<1>4. /\ MarkFree(a, site, v) = [a EXCEPT !.diags = @ \cup A, !.freed = F, !.freedEver = @ \cup P]
      /\ MarkFree(b, site, v) = [b EXCEPT !.diags = @ \cup B, !.freed = F, !.freedEver = @ \cup P]
  BY <1>1, <1>2 DEF MarkFree
<1>5. A \in SUBSET Reports /\ B = A /\ P \in SUBSET Allocations
  BY <1>1, <1>3
<1>6. F \in Maps(Allocations, Fates)
  <2>1. N \in Maps(Allocations, Fates)
    BY <1>5 DEF Maps, Fates
  <2> HIDE DEF N
  <2> QED BY <1>2, <2>1, OverMaps
<1> HIDE DEF A, B, P, F
<1> DEFINE x == MarkFree(a, site, v)
           y == MarkFree(b, site, v)
<1>7. /\ x = [a EXCEPT !.diags = @ \cup A, !.freed = F, !.freedEver = @ \cup P]
      /\ y = [b EXCEPT !.diags = @ \cup A, !.freed = F, !.freedEver = @ \cup P]
  BY <1>4, <1>5
<1> HIDE DEF x, y
<1>8. x \in States /\ y \in States
  BY <1>2, <1>5, <1>6, <1>7 DEF States
<1>9. /\ x.pt = a.pt /\ x.freed = F /\ x.escaped = a.escaped /\ x.escapedEver = a.escapedEver
      /\ x.freedEver = a.freedEver \cup P /\ x.derefed = a.derefed /\ x.diags = a.diags \cup A
      /\ x.returned = a.returned
  BY <1>2, <1>7 DEF States
<1>10. /\ y.pt = b.pt /\ y.freed = F /\ y.escaped = b.escaped /\ y.escapedEver = b.escapedEver
       /\ y.freedEver = b.freedEver \cup P /\ y.derefed = b.derefed /\ y.diags = b.diags \cup A
       /\ y.returned = b.returned
  BY <1>2, <1>7 DEF States
<1> QED BY <1>8, <1>9, <1>10 DEF Same, x, y

LEMMA MarkEscapeSame ==
  ASSUME NEW a, NEW b, NEW w, Same(a, b, w), NEW S \in SUBSET Allocations
  PROVE  Same(MarkEscape(a, S), MarkEscape(b, S), w)
BY DEF Same, States, MarkEscape

LEMMA BindSame ==
  ASSUME NEW a, NEW b, NEW w, Same(a, b, w), NEW out \in STRING, NEW S \in SUBSET Allocations
  PROVE  Same(Bind(a, out, S), Bind(b, out, S), w)
<1> DEFINE N == [v \in {out} \ {""} |-> S]
           P == Over(N, a.pt)
<1>1. a \in States /\ b \in States /\ a.pt = b.pt /\ a.pt \in Maps(STRING, SUBSET Allocations)
  BY DEF Same, States
<1>2. P \in Maps(STRING, SUBSET Allocations)
  <2>1. N \in [{out} \ {""} -> SUBSET Allocations] /\ {out} \ {""} \in SUBSET STRING
    OBVIOUS
  <2>2. N \in Maps(STRING, SUBSET Allocations)
    BY <2>1 DEF Maps
  <2> HIDE DEF N
  <2> QED BY <1>1, <2>2, OverMaps
<1>3. Bind(a, out, S) = [a EXCEPT !.pt = P] /\ Bind(b, out, S) = [b EXCEPT !.pt = P]
  BY <1>1 DEF Bind
<1> HIDE DEF P
<1> QED BY <1>1, <1>2, <1>3 DEF Same, States

LEMMA OwnedSame ==
  ASSUME NEW a, NEW b, NEW w, Same(a, b, w), NEW out \in STRING, NEW al \in Allocations
  PROVE  Same(Owned(a, out, al), Owned(b, out, al), w)
<1>1. CASE out = ""
  BY <1>1 DEF Owned
<1>2. CASE out # ""
  <2> DEFINE x == Bind(a, out, {al})
             y == Bind(b, out, {al})
  <2>1. Same(x, y, w)
    BY BindSame
  <2> HIDE DEF x, y
  <2>2. x \in States /\ y \in States /\ x.freed = y.freed /\ x.freed \in Maps(Allocations, Fates)
        /\ x.owned \in Maps(Allocations, STRING) /\ y.owned \in Maps(Allocations, STRING)
    BY <2>1 DEF Same, States
  <2> DEFINE F == Over(Only(al, "a"), x.freed)
             A == Over(Only(al, out), x.owned)
             B == Over(Only(al, out), y.owned)
  <2>3. Only(al, "a") \in Maps(Allocations, Fates) /\ Only(al, out) \in Maps(Allocations, STRING)
    BY OnlyMaps DEF Fates
  <2>4. F \in Maps(Allocations, Fates)
    BY <2>2, <2>3, OverMaps
  <2>5. A \in Maps(Allocations, STRING) /\ B \in Maps(Allocations, STRING)
    BY <2>2, <2>3, OverMaps
  <2>6. /\ Owned(a, out, al) = [x EXCEPT !.freed = F, !.owned = A]
        /\ Owned(b, out, al) = [y EXCEPT !.freed = F, !.owned = B]
    BY <1>2, <2>2 DEF Owned, x, y
  <2> HIDE DEF F, A, B
  <2>7. [x EXCEPT !.freed = F, !.owned = A] \in States /\ [y EXCEPT !.freed = F, !.owned = B] \in States
    BY ONLY <2>2, <2>4, <2>5 DEF States
  <2> QED BY <2>1, <2>2, <2>6, <2>7 DEF Same, States
<1> QED BY <1>1, <1>2

LEMMA CopiedSame ==
  ASSUME NEW a, NEW b, NEW w, Same(a, b, w), NEW out \in STRING, NEW v
  PROVE  Same(Copied(a, out, v), Copied(b, out, v), w)
<1>1. Pts(a, v) = Pts(b, v) /\ Pts(a, v) \in SUBSET Allocations
  BY SamePts
<1> DEFINE P == Pts(a, v)
           x == Bind(a, out, P)
           y == Bind(b, out, P)
<1>2. Same(x, y, w)
  <2> HIDE DEF P
  <2>1. P \in SUBSET Allocations
    BY <1>1 DEF P
  <2> QED BY <2>1, BindSame
<1>3. CASE out \in Globals
  <2>1. Copied(a, out, v) = MarkEscape(x, P) /\ Copied(b, out, v) = MarkEscape(y, P)
    BY <1>1, <1>3 DEF Copied
  <2>2. P \in SUBSET Allocations
    BY <1>1
  <2> HIDE DEF P, x, y
  <2> QED BY <1>2, <2>1, <2>2, MarkEscapeSame
<1>4. CASE out \notin Globals
  <2> DEFINE A == [al \in DOMAIN x.owned |-> IF al \in P THEN out ELSE x.owned[al]]
             B == [al \in DOMAIN y.owned |-> IF al \in P THEN out ELSE y.owned[al]]
  <2>1. Copied(a, out, v) = [x EXCEPT !.owned = A] /\ Copied(b, out, v) = [y EXCEPT !.owned = B]
    BY <1>1, <1>4, <1>2 DEF Copied, Same, States
  <2> HIDE DEF x, y, P
  <2>2. x.owned \in Maps(Allocations, STRING) /\ y.owned \in Maps(Allocations, STRING)
    BY <1>2 DEF Same, States
  <2>3. A \in Maps(Allocations, STRING) /\ B \in Maps(Allocations, STRING)
    BY <2>2 DEF Maps
  <2> HIDE DEF A, B
  <2> QED BY <1>2, <2>1, <2>3 DEF Same, States
<1> QED BY <1>3, <1>4

LEMMA CalledSame ==
  ASSUME NEW a, NEW b, NEW w, Same(a, b, w), NEW site \in Sites, NEW c \in Command, NEW s
  PROVE  Same(Called(a, site, c, s), Called(b, site, c, s), w)
<1> DEFINE v == IF c.args = << >> THEN "" ELSE c.args[1]
           used(x) == IF s.derefs THEN UseCheck(x, site, v) ELSE x
           freed(x) == IF s.frees THEN MarkFree(used(x), site, v) ELSE used(x)
           esc(x) == IF s.escapes THEN MarkEscape(freed(x), Pts(freed(x), v)) ELSE freed(x)
           al == Alloc("ret", site.fn, site.at)
           result(x) == IF s.returns THEN Owned(esc(x), c.out, al) ELSE Bind(esc(x), c.out, {})
<1>1. Called(a, site, c, s) = result(a) /\ Called(b, site, c, s) = result(b)
  BY DEF Called
<1>0. al \in Allocations /\ c.out \in STRING
  <2>1. site.fn \in STRING /\ site.at \in Nat /\ c.out \in STRING /\ "ret" \in Kinds
    BY DEF Sites, Command, Kinds
  <2> QED BY <2>1 DEF Alloc, Allocations
<1> HIDE DEF v, al
<1>2. Same(used(a), used(b), w)
  BY UseCheckSame
<1> HIDE DEF used
<1>3. Same(freed(a), freed(b), w)
  BY <1>2, MarkFreeSame
<1> HIDE DEF freed
<1>4. Same(esc(a), esc(b), w)
  <2>1. CASE ~s.escapes
    BY <2>1, <1>3
  <2>2. CASE s.escapes
    <3> DEFINE P == Pts(freed(a), v)
    <3>1. Pts(freed(b), v) = P /\ P \in SUBSET Allocations
      BY <1>3, SamePts
    <3>2. esc(a) = MarkEscape(freed(a), P) /\ esc(b) = MarkEscape(freed(b), P)
      BY <2>2, <3>1
    <3> HIDE DEF P, esc
    <3>3. Same(MarkEscape(freed(a), P), MarkEscape(freed(b), P), w)
      BY <1>3, <3>1, MarkEscapeSame
    <3> QED BY <3>2, <3>3
  <2> QED BY <2>1, <2>2
<1> HIDE DEF esc
<1>5. CASE s.returns
  <2>1. result(a) = Owned(esc(a), c.out, al) /\ result(b) = Owned(esc(b), c.out, al)
    BY <1>5
  <2> HIDE DEF result
  <2> QED BY <1>0, <1>1, <1>4, <2>1, OwnedSame
<1>6. CASE ~s.returns
  <2>1. result(a) = Bind(esc(a), c.out, {}) /\ result(b) = Bind(esc(b), c.out, {})
    BY <1>6
  <2> HIDE DEF result
  <2> DEFINE none == {}
  <2>2. none \in SUBSET Allocations
    OBVIOUS
  <2>3. result(a) = Bind(esc(a), c.out, none) /\ result(b) = Bind(esc(b), c.out, none)
    BY <2>1
  <2> HIDE DEF none
  <2> QED BY <1>0, <1>1, <1>4, <2>2, <2>3, BindSame
<1> QED BY <1>5, <1>6

\* A command makes the same of two states that agree, and collects no more.
LEMMA TransferSame ==
  ASSUME NEW a, NEW b, NEW w, Same(a, b, w), NEW site \in Sites, NEW c \in Command
  PROVE  Same(Transfer(a, site, c), Transfer(b, site, c), w)
<1>0. /\ c.out \in STRING /\ site.fn \in STRING /\ site.at \in Nat
      /\ "new" \in Kinds /\ "param" \in Kinds
  BY DEF Command, Sites, Kinds
<1> DEFINE none == {}
<1>i. none \in SUBSET Allocations
  OBVIOUS
<1>a. Alloc("new", site.fn, site.at) \in Allocations /\ Alloc("param", site.fn, 1) \in Allocations
  BY <1>0 DEF Alloc, Allocations
<1> HIDE DEF none
<1>1. CASE c.op = "alloc"
  <2> DEFINE al == Alloc("new", site.fn, site.at)
  <2>1. Transfer(a, site, c) = Owned(a, c.out, al) /\ Transfer(b, site, c) = Owned(b, c.out, al)
    BY <1>1 DEF Transfer
  <2>2. al \in Allocations
    BY <1>a
  <2> HIDE DEF al
  <2> QED BY <1>0, <2>1, <2>2, OwnedSame
<1>2. CASE c.op = "free"
  <2>1. /\ Transfer(a, site, c) = MarkFree(a, site, c.args[1])
        /\ Transfer(b, site, c) = MarkFree(b, site, c.args[1])
    BY <1>2 DEF Transfer
  <2> QED BY <2>1, MarkFreeSame
<1>3. CASE c.op = "call"
  <2>1. /\ Transfer(a, site, c) = Called(a, site, c, summaries[c.name])
        /\ Transfer(b, site, c) = Called(b, site, c, summaries[c.name])
    BY <1>3 DEF Transfer
  <2> QED BY <2>1, CalledSame
<1>4. CASE c.op = "extern" \/ c.op = "store"
  <2> DEFINE v == IF c.op = "extern" THEN c.args[1] ELSE c.args[2]
             P == Pts(a, v)
             x == UseCheck(a, site, c.args[1])
             y == UseCheck(b, site, c.args[1])
  <2>1. Pts(b, v) = P /\ P \in SUBSET Allocations
    BY SamePts
  <2>2. Transfer(a, site, c) = MarkEscape(x, P) /\ Transfer(b, site, c) = MarkEscape(y, Pts(b, v))
    BY <1>4 DEF Transfer
  <2>3. Same(x, y, w)
    BY UseCheckSame
  <2>4. Transfer(b, site, c) = MarkEscape(y, P)
    BY <2>1, <2>2
  <2> HIDE DEF v, P, x, y
  <2> QED BY <2>1, <2>2, <2>3, <2>4, MarkEscapeSame
<1>5. CASE c.op = "set"
  <2>1. /\ Transfer(a, site, c) = Copied(a, c.out, c.args[1])
        /\ Transfer(b, site, c) = Copied(b, c.out, c.args[1])
    BY <1>5 DEF Transfer
  <2> QED BY <1>0, <2>1, CopiedSame
<1>6. CASE c.op = "read"
  <2> DEFINE x == UseCheck(a, site, c.args[1])
             y == UseCheck(b, site, c.args[1])
  <2>1. Transfer(a, site, c) = Bind(x, c.out, none) /\ Transfer(b, site, c) = Bind(y, c.out, none)
    BY <1>6 DEF Transfer, none
  <2>2. Same(x, y, w)
    BY UseCheckSame
  <2> HIDE DEF x, y
  <2> QED BY <1>0, <1>i, <2>1, <2>2, BindSame
<1>7. CASE c.op = "return" /\ c.args = << >>
  BY <1>7 DEF Transfer
<1>8. CASE c.op = "return" /\ c.args # << >>
  <2> DEFINE P == Pts(a, c.args[1])
             x == MarkEscape(a, P)
             y == MarkEscape(b, P)
  <2>1. Pts(b, c.args[1]) = P /\ P \in SUBSET Allocations
    BY SamePts
  <2>2. /\ Transfer(a, site, c) = [x EXCEPT !.returned = @ \/ P # {}]
        /\ Transfer(b, site, c) = [y EXCEPT !.returned = @ \/ P # {}]
    BY <1>8, <2>1 DEF Transfer
  <2> HIDE DEF P
  <2>3. Same(x, y, w)
    BY <2>1, MarkEscapeSame
  <2> HIDE DEF x, y
  <2> QED BY <2>2, <2>3 DEF Same, States
<1>9. CASE c.op = "param" /\ ~site.record
  <2> DEFINE al == Alloc("param", site.fn, 1)
             x == Bind(a, c.out, {al})
             y == Bind(b, c.out, {al})
             F == Over(x.freed, Only(al, "a"))
  <2>1. al \in Allocations
    BY <1>a
  <2>2. Same(x, y, w)
    <3> HIDE DEF al
    <3> DEFINE S == {al}
    <3>1. S \in SUBSET Allocations /\ x = Bind(a, c.out, S) /\ y = Bind(b, c.out, S)
      BY <2>1
    <3> HIDE DEF S, x, y
    <3>2. Same(Bind(a, c.out, S), Bind(b, c.out, S), w)
      BY <1>0, <3>1, BindSame
    <3> QED BY <3>1, <3>2
  <2>3. /\ Transfer(a, site, c) = [x EXCEPT !.freed = F]
        /\ Transfer(b, site, c) = [y EXCEPT !.freed = Over(y.freed, Only(al, "a"))]
    <3>1. x.freed \in Maps(Allocations, Fates) /\ x \in States /\ y \in States
      BY <2>2 DEF Same, States
    <3> QED BY <1>9, <3>1 DEF Transfer, States
  <2> HIDE DEF x, y, al
  <2>4. x.freed = y.freed /\ x.freed \in Maps(Allocations, Fates)
    BY <2>2 DEF Same, States
  <2>5. F \in Maps(Allocations, Fates)
    <3>1. Only(al, "a") \in Maps(Allocations, Fates)
      BY <2>1, OnlyMaps DEF Fates
    <3> QED BY <2>4, <3>1, OverMaps
  <2>6. Transfer(b, site, c) = [y EXCEPT !.freed = F]
    BY <2>3, <2>4
  <2> HIDE DEF F
  <2> QED BY <2>2, <2>3, <2>5, <2>6 DEF Same, States
<1>10. CASE \/ c.op = "param" /\ site.record
            \/ c.op \notin {"alloc", "free", "call", "extern", "set", "read", "store", "return", "param"}
  <2>1. Transfer(a, site, c) = Bind(a, c.out, none) /\ Transfer(b, site, c) = Bind(b, c.out, none)
    BY <1>10 DEF Transfer, none
  <2> QED BY <1>0, <1>i, <2>1, BindSame
<1> QED BY <1>1, <1>2, <1>3, <1>4, <1>5, <1>6, <1>7, <1>8, <1>9, <1>10

----------------------------------------------------------------------------
(* What is collected grows, and tells of every free and every escape *)

Within(a, c) ==
  /\ a.escapedEver \subseteq c.escapedEver /\ a.freedEver \subseteq c.freedEver
  /\ a.derefed \subseteq c.derefed /\ a.diags \subseteq c.diags
  /\ a.returned => c.returned

Recorded(a) ==
  /\ a.escaped \subseteq a.escapedEver
  /\ \A al \in DOMAIN a.freed : a.freed[al] # "a" => al \in a.freedEver

Goes(a, c) == Within(a, c) /\ (Recorded(a) => Recorded(c))

LEMMA GoesOn ==
  ASSUME NEW a, NEW c, NEW e, Goes(a, c), Goes(c, e)
  PROVE  Goes(a, e)
BY DEF Goes, Within

LEMMA UseCheckGoes ==
  ASSUME NEW a \in States, NEW site, NEW v
  PROVE  Goes(a, UseCheck(a, site, v))
<1> DEFINE A == Alarms(a, site, "use", v)
           P == Pts(a, v)
<1>1. UseCheck(a, site, v) = [a EXCEPT !.derefed = @ \cup P, !.diags = @ \cup A]
  BY DEF UseCheck
<1> HIDE DEF A, P
<1> QED BY <1>1 DEF Goes, Within, Recorded, States

LEMMA MarkFreeGoes ==
  ASSUME NEW a \in States, NEW site, NEW v
  PROVE  Goes(a, MarkFree(a, site, v))
<1> DEFINE A == Alarms(a, site, "double", v)
           P == Pts(a, v)
           F == Over([al \in P |-> "f"], a.freed)
           c == MarkFree(a, site, v)
<1>1. c = [a EXCEPT !.diags = @ \cup A, !.freed = F, !.freedEver = @ \cup P]
  BY DEF MarkFree, States
<1>2. \A al \in DOMAIN F : al \in P \/ (al \in DOMAIN a.freed /\ F[al] = a.freed[al])
  BY DEF Over
<1> HIDE DEF A, P, F, c
<1>3. /\ c.freed = F /\ c.freedEver = a.freedEver \cup P /\ c.escaped = a.escaped
      /\ c.escapedEver = a.escapedEver /\ c.derefed = a.derefed /\ c.diags = a.diags \cup A
      /\ c.returned = a.returned
  BY <1>1 DEF States
<1>4. Within(a, c)
  BY <1>3 DEF Within
<1>5. Recorded(a) => Recorded(c)
  BY <1>2, <1>3 DEF Recorded
<1> QED BY <1>4, <1>5 DEF Goes, c

LEMMA MarkEscapeGoes ==
  ASSUME NEW a \in States, NEW S
  PROVE  Goes(a, MarkEscape(a, S))
BY DEF Goes, Within, Recorded, States, MarkEscape

LEMMA BindGoes ==
  ASSUME NEW a \in States, NEW out, NEW S
  PROVE  Goes(a, Bind(a, out, S))
<1> DEFINE P == Over([v \in {out} \ {""} |-> S], a.pt)
<1>1. Bind(a, out, S) = [a EXCEPT !.pt = P]
  BY DEF Bind, States
<1> HIDE DEF P
<1> QED BY <1>1 DEF Goes, Within, Recorded, States

\* The same of a state whose fates change to "a" only.
LEMMA AllocatedGoes ==
  ASSUME NEW a \in States, NEW c,
         /\ c.escaped = a.escaped /\ c.escapedEver = a.escapedEver /\ c.freedEver = a.freedEver
         /\ c.derefed = a.derefed /\ c.diags = a.diags /\ c.returned = a.returned,
         \A al \in DOMAIN c.freed : c.freed[al] = "a" \/ (al \in DOMAIN a.freed /\ c.freed[al] = a.freed[al])
  PROVE  Goes(a, c)
BY DEF Goes, Within, Recorded

LEMMA OwnedGoes ==
  ASSUME NEW a \in States, NEW out \in STRING, NEW al \in Allocations
  PROVE  Goes(a, Owned(a, out, al))
<1>1. CASE out = ""
  BY <1>1 DEF Owned, Goes, Within
<1>2. CASE out # ""
  <2> DEFINE x == Bind(a, out, {al})
             F == Over(Only(al, "a"), x.freed)
             A == Over(Only(al, out), x.owned)
             c == Owned(a, out, al)
  <2>1. Goes(a, x)
    BY BindGoes
  <2>2. x \in States
    <3>1. Same(a, a, NoCtx)
      BY EmptyFlow DEF Same
    <3> DEFINE S == {al}
    <3>2. S \in SUBSET Allocations /\ x = Bind(a, out, S)
      OBVIOUS
    <3> HIDE DEF S, x
    <3>3. Same(Bind(a, out, S), Bind(a, out, S), NoCtx)
      BY <3>1, <3>2, BindSame
    <3> QED BY <3>2, <3>3 DEF Same
  <2> HIDE DEF x
  <2>3. c = [x EXCEPT !.freed = F, !.owned = A]
    BY <1>2, <2>2 DEF Owned, x, States
  <2>4. \A l \in DOMAIN F : F[l] = "a" \/ (l \in DOMAIN x.freed /\ F[l] = x.freed[l])
    BY DEF Over, Only
  <2> HIDE DEF F, A, c
  <2>5. /\ c.escaped = x.escaped /\ c.escapedEver = x.escapedEver /\ c.freedEver = x.freedEver
        /\ c.derefed = x.derefed /\ c.diags = x.diags /\ c.returned = x.returned /\ c.freed = F
    BY <2>2, <2>3 DEF States
  <2>6. Goes(x, c)
    BY <2>2, <2>4, <2>5, AllocatedGoes
  <2> QED BY <2>1, <2>6, GoesOn DEF c
<1> QED BY <1>1, <1>2

LEMMA CopiedGoes ==
  ASSUME NEW a \in States, NEW out \in STRING, NEW v
  PROVE  Goes(a, Copied(a, out, v))
<1> DEFINE P == Pts(a, v)
           x == Bind(a, out, P)
<1>0. P \in SUBSET Allocations
  BY PtsType DEF States
<1>1. Goes(a, x) /\ x \in States
  <2>1. Same(a, a, NoCtx)
    BY EmptyFlow DEF Same
  <2> HIDE DEF P
  <2>2. Same(x, x, NoCtx)
    BY <1>0, <2>1, BindSame
  <2> QED BY <2>2, BindGoes DEF Same
<1>2. CASE out \in Globals
  <2>1. Copied(a, out, v) = MarkEscape(x, P)
    BY <1>2 DEF Copied
  <2> HIDE DEF x, P
  <2>2. Goes(x, MarkEscape(x, P))
    BY <1>1, MarkEscapeGoes
  <2> QED BY <1>1, <2>1, <2>2, GoesOn
<1>3. CASE out \notin Globals
  <2> DEFINE A == [al \in DOMAIN x.owned |-> IF al \in P THEN out ELSE x.owned[al]]
             c == Copied(a, out, v)
  <2>1. c = [x EXCEPT !.owned = A]
    BY <1>3, <1>1 DEF Copied, States
  <2> HIDE DEF A, c, x, P
  <2>2. Goes(x, c)
    BY <1>1, <2>1 DEF Goes, Within, Recorded, States
  <2> QED BY <1>1, <2>2, GoesOn DEF c
<1> QED BY <1>2, <1>3

LEMMA CalledGoes ==
  ASSUME NEW a \in States, NEW site \in Sites, NEW c \in Command, NEW s
  PROVE  Goes(a, Called(a, site, c, s))
<1> DEFINE v == IF c.args = << >> THEN "" ELSE c.args[1]
           used == IF s.derefs THEN UseCheck(a, site, v) ELSE a
           freed == IF s.frees THEN MarkFree(used, site, v) ELSE used
           esc == IF s.escapes THEN MarkEscape(freed, Pts(freed, v)) ELSE freed
           al == Alloc("ret", site.fn, site.at)
           result == IF s.returns THEN Owned(esc, c.out, al) ELSE Bind(esc, c.out, {})
<1>1. Called(a, site, c, s) = result
  BY DEF Called
<1>0. al \in Allocations /\ c.out \in STRING
  <2>1. site.fn \in STRING /\ site.at \in Nat /\ c.out \in STRING /\ "ret" \in Kinds
    BY DEF Sites, Command, Kinds
  <2> QED BY <2>1 DEF Alloc, Allocations
<1>2. Same(a, a, NoCtx) /\ Goes(a, a)
  BY EmptyFlow DEF Same, Goes, Within
<1> HIDE DEF v, al
<1>3. used \in States /\ Goes(a, used)
  <2>1. Same(UseCheck(a, site, v), UseCheck(a, site, v), NoCtx)
    BY <1>2, UseCheckSame
  <2> QED BY <1>2, <2>1, UseCheckGoes DEF Same
<1> HIDE DEF used
<1>4. freed \in States /\ Goes(a, freed)
  <2>1. Same(used, used, NoCtx)
    BY <1>3, EmptyFlow DEF Same
  <2>2. Same(MarkFree(used, site, v), MarkFree(used, site, v), NoCtx)
    BY <2>1, MarkFreeSame
  <2>3. Goes(used, MarkFree(used, site, v))
    BY <1>3, MarkFreeGoes
  <2>4. Goes(a, MarkFree(used, site, v))
    BY <1>3, <2>3, GoesOn
  <2> QED BY <1>3, <2>2, <2>4 DEF Same
<1> HIDE DEF freed
<1>5. esc \in States /\ Goes(a, esc)
  <2> DEFINE P == Pts(freed, v)
  <2>1. P \in SUBSET Allocations
    BY <1>4, PtsType DEF States
  <2> HIDE DEF P
  <2>2. Same(freed, freed, NoCtx)
    BY <1>4, EmptyFlow DEF Same
  <2>3. Same(MarkEscape(freed, P), MarkEscape(freed, P), NoCtx)
    BY <2>1, <2>2, MarkEscapeSame
  <2>4. Goes(freed, MarkEscape(freed, P))
    BY <1>4, MarkEscapeGoes
  <2>5. Goes(a, MarkEscape(freed, P))
    BY <1>4, <2>4, GoesOn
  <2> QED BY <1>4, <2>3, <2>5 DEF Same, P
<1> HIDE DEF esc
<1>6. Goes(esc, result)
  <2> DEFINE none == {}
  <2>1. Goes(esc, Owned(esc, c.out, al))
    BY <1>0, <1>5, OwnedGoes
  <2>2. Goes(esc, Bind(esc, c.out, none))
    <3> HIDE DEF none
    <3> QED BY <1>5, BindGoes
  <2> QED BY <2>1, <2>2
<1> HIDE DEF result
<1> QED BY <1>1, <1>5, <1>6, GoesOn

\* A command records what it frees and lets escape, and forgets nothing.
LEMMA TransferGoes ==
  ASSUME NEW a \in States, NEW site \in Sites, NEW c \in Command
  PROVE  Goes(a, Transfer(a, site, c))
<1>0. /\ c.out \in STRING /\ site.fn \in STRING /\ site.at \in Nat
      /\ "new" \in Kinds /\ "param" \in Kinds
  BY DEF Command, Sites, Kinds
<1> DEFINE none == {}
<1>a. Alloc("new", site.fn, site.at) \in Allocations /\ Alloc("param", site.fn, 1) \in Allocations
  BY <1>0 DEF Alloc, Allocations
<1>b. Same(a, a, NoCtx)
  BY EmptyFlow DEF Same
<1>c. ASSUME NEW v PROVE UseCheck(a, site, v) \in States /\ Goes(a, UseCheck(a, site, v))
  <2>1. Same(UseCheck(a, site, v), UseCheck(a, site, v), NoCtx)
    BY <1>b, UseCheckSame
  <2> QED BY <2>1, UseCheckGoes DEF Same
<1> HIDE DEF none
<1>1. CASE c.op = "alloc"
  <2> DEFINE al == Alloc("new", site.fn, site.at)
  <2>1. Transfer(a, site, c) = Owned(a, c.out, al)
    BY <1>1 DEF Transfer
  <2>2. al \in Allocations
    BY <1>a
  <2> HIDE DEF al
  <2> QED BY <1>0, <2>1, <2>2, OwnedGoes
<1>2. CASE c.op = "free"
  <2>1. Transfer(a, site, c) = MarkFree(a, site, c.args[1])
    BY <1>2 DEF Transfer
  <2> QED BY <2>1, MarkFreeGoes
<1>3. CASE c.op = "call"
  <2>1. Transfer(a, site, c) = Called(a, site, c, summaries[c.name])
    BY <1>3 DEF Transfer
  <2> QED BY <2>1, CalledGoes
<1>4. CASE c.op = "extern" \/ c.op = "store"
  <2> DEFINE P == Pts(a, IF c.op = "extern" THEN c.args[1] ELSE c.args[2])
             x == UseCheck(a, site, c.args[1])
  <2>1. Transfer(a, site, c) = MarkEscape(x, P)
    BY <1>4 DEF Transfer
  <2>2. x \in States /\ Goes(a, x)
    BY <1>c
  <2> HIDE DEF P, x
  <2>3. Goes(x, MarkEscape(x, P))
    BY <2>2, MarkEscapeGoes
  <2> QED BY <2>1, <2>2, <2>3, GoesOn
<1>5. CASE c.op = "set"
  <2>1. Transfer(a, site, c) = Copied(a, c.out, c.args[1])
    BY <1>5 DEF Transfer
  <2> QED BY <1>0, <2>1, CopiedGoes
<1>6. CASE c.op = "read"
  <2> DEFINE x == UseCheck(a, site, c.args[1])
  <2>1. Transfer(a, site, c) = Bind(x, c.out, none)
    BY <1>6 DEF Transfer, none
  <2>2. x \in States /\ Goes(a, x)
    BY <1>c
  <2> HIDE DEF x
  <2>3. Goes(x, Bind(x, c.out, none))
    BY <2>2, BindGoes
  <2> QED BY <2>1, <2>2, <2>3, GoesOn
<1>7. CASE c.op = "return" /\ c.args = << >>
  BY <1>7 DEF Transfer, Goes, Within
<1>8. CASE c.op = "return" /\ c.args # << >>
  <2> DEFINE P == Pts(a, c.args[1])
             x == MarkEscape(a, P)
             e == Transfer(a, site, c)
  <2>1. e = [x EXCEPT !.returned = @ \/ P # {}]
    BY <1>8 DEF Transfer
  <2>2. P \in SUBSET Allocations
    BY PtsType DEF States
  <2> HIDE DEF P
  <2>3. Same(x, x, NoCtx) /\ Goes(a, x)
    BY <1>b, <2>2, MarkEscapeSame, MarkEscapeGoes
  <2>4. x \in States
    BY <2>3 DEF Same
  <2> HIDE DEF x, e
  <2>5. Goes(x, e)
    BY <2>1, <2>4 DEF Goes, Within, Recorded, States
  <2> QED BY <2>3, <2>5, GoesOn DEF e
<1>9. CASE c.op = "param" /\ ~site.record
  <2> DEFINE al == Alloc("param", site.fn, 1)
             x == Bind(a, c.out, {al})
             F == Over(x.freed, Only(al, "a"))
             e == Transfer(a, site, c)
  <2>1. al \in Allocations
    BY <1>a
  <2>2. x \in States /\ Goes(a, x)
    <3> HIDE DEF al
    <3> DEFINE S == {al}
    <3>1. S \in SUBSET Allocations /\ x = Bind(a, c.out, S)
      BY <2>1
    <3> HIDE DEF S, x
    <3>2. Same(Bind(a, c.out, S), Bind(a, c.out, S), NoCtx)
      BY <1>0, <1>b, <3>1, BindSame
    <3>3. Goes(a, Bind(a, c.out, S))
      BY BindGoes
    <3> QED BY <3>1, <3>2, <3>3 DEF Same
  <2>3. e = [x EXCEPT !.freed = F]
    BY <1>9, <2>2 DEF Transfer, States
  <2> HIDE DEF x, al, e
  <2>4. \A l \in DOMAIN F : F[l] = "a" \/ (l \in DOMAIN x.freed /\ F[l] = x.freed[l])
    BY DEF Over, Only
  <2> HIDE DEF F
  <2>5. /\ e.escaped = x.escaped /\ e.escapedEver = x.escapedEver /\ e.freedEver = x.freedEver
        /\ e.derefed = x.derefed /\ e.diags = x.diags /\ e.returned = x.returned /\ e.freed = F
    BY <2>2, <2>3 DEF States
  <2>6. Goes(x, e)
    BY <2>2, <2>4, <2>5, AllocatedGoes
  <2> QED BY <2>2, <2>6, GoesOn DEF e
<1>10. CASE \/ c.op = "param" /\ site.record
            \/ c.op \notin {"alloc", "free", "call", "extern", "set", "read", "store", "return", "param"}
  <2>1. Transfer(a, site, c) = Bind(a, c.out, none)
    BY <1>10 DEF Transfer, none
  <2> QED BY <2>1, BindGoes
<1> QED BY <1>1, <1>2, <1>3, <1>4, <1>5, <1>6, <1>7, <1>8, <1>9, <1>10

----------------------------------------------------------------------------
(* Joins *)

LEMMA MergeType ==
  ASSUME NEW x \in FlowStates, NEW y \in FlowStates
  PROVE  Merge(x, y) \in FlowStates
<1>1. /\ DOMAIN x.freed \subseteq Allocations /\ DOMAIN y.freed \subseteq Allocations
      /\ x.freed \in [DOMAIN x.freed -> Fates] /\ y.freed \in [DOMAIN y.freed -> Fates]
      /\ x.escaped \in SUBSET Allocations /\ y.escaped \in SUBSET Allocations
      /\ DOMAIN x.pt \subseteq STRING /\ DOMAIN y.pt \subseteq STRING
  BY MapIs DEF FlowStates
<1>2. \A v : Pts(x, v) \in SUBSET Allocations /\ Pts(y, v) \in SUBSET Allocations
  BY PtsType DEF FlowStates
<1>3. Merge(x, y).pt \in Maps(STRING, SUBSET Allocations)
  <2>1. Merge(x, y).pt \in [DOMAIN x.pt \cup DOMAIN y.pt -> SUBSET Allocations]
    BY <1>2 DEF Merge
  <2>2. DOMAIN x.pt \cup DOMAIN y.pt \in SUBSET STRING
    BY <1>1
  <2> QED BY <2>1, <2>2 DEF Maps
<1>4. Merge(x, y).freed \in Maps(Allocations, Fates)
  <2>1. Merge(x, y).freed \in [DOMAIN x.freed \cup DOMAIN y.freed -> Fates]
    BY <1>1 DEF Merge, Fates
  <2>2. DOMAIN x.freed \cup DOMAIN y.freed \in SUBSET Allocations
    BY <1>1
  <2> QED BY <2>1, <2>2 DEF Maps
<1>5. Merge(x, y).escaped \in SUBSET Allocations
  BY <1>1 DEF Merge
<1>6. Merge(x, y) = [pt |-> Merge(x, y).pt, freed |-> Merge(x, y).freed, escaped |-> Merge(x, y).escaped]
  BY DEF Merge
<1> QED BY <1>3, <1>4, <1>5, <1>6 DEF FlowStates

\* When two states of the flow are the same.
LEMMA FlowEqual ==
  ASSUME NEW x \in FlowStates, NEW y \in FlowStates,
         DOMAIN x.pt = DOMAIN y.pt, \A v \in DOMAIN x.pt : x.pt[v] = y.pt[v],
         DOMAIN x.freed = DOMAIN y.freed, \A al \in DOMAIN x.freed : x.freed[al] = y.freed[al],
         x.escaped = y.escaped
  PROVE  x = y
<1>1. x.pt \in [DOMAIN x.pt -> SUBSET Allocations] /\ y.pt \in [DOMAIN y.pt -> SUBSET Allocations]
  BY MapIs DEF FlowStates
<1>2. x.freed \in [DOMAIN x.freed -> Fates] /\ y.freed \in [DOMAIN y.freed -> Fates]
  BY MapIs DEF FlowStates
<1>3. x.pt = y.pt
  BY <1>1
<1>4. x.freed = y.freed
  BY <1>2
<1> QED BY <1>3, <1>4 DEF FlowStates

\* What a join says of each value and allocation.
LEMMA MergeAt ==
  ASSUME NEW x, NEW y
  PROVE  /\ DOMAIN Merge(x, y).pt = DOMAIN x.pt \cup DOMAIN y.pt
         /\ \A v \in DOMAIN Merge(x, y).pt : Merge(x, y).pt[v] = Pts(x, v) \cup Pts(y, v)
         /\ DOMAIN Merge(x, y).freed = DOMAIN x.freed \cup DOMAIN y.freed
         /\ \A al \in DOMAIN Merge(x, y).freed :
              Merge(x, y).freed[al] =
                IF al \notin DOMAIN y.freed THEN x.freed[al]
                ELSE IF al \notin DOMAIN x.freed \/ x.freed[al] = y.freed[al] THEN y.freed[al]
                ELSE "mf"
         /\ Merge(x, y).escaped = x.escaped \cup y.escaped
BY DEF Merge

\* What comes out of a join is what the two states say of each value.
LEMMA MergePts ==
  ASSUME NEW x, NEW y, NEW v
  PROVE  Pts(Merge(x, y), v) = Pts(x, v) \cup Pts(y, v)
BY MergeAt DEF Pts

\* A state joined into another once adds nothing a second time.
LEMMA MergeAgain ==
  ASSUME NEW x \in FlowStates, NEW y \in FlowStates
  PROVE  Merge(Merge(x, y), y) = Merge(x, y)
<1> DEFINE m == Merge(x, y)
           i == Merge(m, y)
<1>1. m \in FlowStates
  BY MergeType
<1>2. i \in FlowStates
  <2> HIDE DEF m
  <2> QED BY <1>1, MergeType
<1>3. DOMAIN i.pt = DOMAIN m.pt /\ DOMAIN i.freed = DOMAIN m.freed /\ i.escaped = m.escaped
  <2>1. /\ DOMAIN i.pt = DOMAIN m.pt \cup DOMAIN y.pt
        /\ DOMAIN i.freed = DOMAIN m.freed \cup DOMAIN y.freed
        /\ i.escaped = m.escaped \cup y.escaped
    BY MergeAt
  <2>2. /\ DOMAIN m.pt = DOMAIN x.pt \cup DOMAIN y.pt
        /\ DOMAIN m.freed = DOMAIN x.freed \cup DOMAIN y.freed
        /\ m.escaped = x.escaped \cup y.escaped
    BY MergeAt
  <2> HIDE DEF m, i
  <2> QED BY <2>1, <2>2
<1>4. \A v \in DOMAIN i.pt : i.pt[v] = m.pt[v]
  <2>1. \A v \in DOMAIN i.pt : i.pt[v] = Pts(m, v) \cup Pts(y, v)
    BY MergeAt
  <2>2. \A v \in DOMAIN m.pt : m.pt[v] = Pts(x, v) \cup Pts(y, v)
    BY MergeAt
  <2>3. \A v : Pts(m, v) = Pts(x, v) \cup Pts(y, v)
    BY MergePts
  <2> HIDE DEF m, i
  <2> QED BY <1>3, <2>1, <2>2, <2>3
<1>5. \A al \in DOMAIN i.freed : i.freed[al] = m.freed[al]
  <2>1. \A al \in DOMAIN i.freed : i.freed[al] =
                IF al \notin DOMAIN y.freed THEN m.freed[al]
                ELSE IF al \notin DOMAIN m.freed \/ m.freed[al] = y.freed[al] THEN y.freed[al]
                ELSE "mf"
    BY MergeAt
  <2>2. \A al \in DOMAIN m.freed : m.freed[al] =
                IF al \notin DOMAIN y.freed THEN x.freed[al]
                ELSE IF al \notin DOMAIN x.freed \/ x.freed[al] = y.freed[al] THEN y.freed[al]
                ELSE "mf"
    BY MergeAt
  <2> HIDE DEF m, i
  <2> QED BY <1>3, <2>1, <2>2
<1> HIDE DEF m, i
<1>6. i = m
  BY <1>1, <1>2, <1>3, <1>4, <1>5, FlowEqual
<1> QED BY <1>6 DEF m, i

\* Nor does a state joined into itself.
LEMMA MergeSelf ==
  ASSUME NEW y \in FlowStates
  PROVE  Merge(y, y) = y
<1> DEFINE i == Merge(y, y)
<1>1. i \in FlowStates
  BY MergeType
<1>2. DOMAIN i.pt = DOMAIN y.pt /\ DOMAIN i.freed = DOMAIN y.freed /\ i.escaped = y.escaped
  <2>1. /\ DOMAIN i.pt = DOMAIN y.pt \cup DOMAIN y.pt
        /\ DOMAIN i.freed = DOMAIN y.freed \cup DOMAIN y.freed
        /\ i.escaped = y.escaped \cup y.escaped
    BY MergeAt
  <2> HIDE DEF i
  <2> QED BY <2>1
<1>3. \A v \in DOMAIN i.pt : i.pt[v] = y.pt[v]
  <2>1. \A v \in DOMAIN i.pt : i.pt[v] = Pts(y, v) \cup Pts(y, v)
    BY MergeAt
  <2> HIDE DEF i
  <2> QED BY <1>2, <2>1 DEF Pts
<1>4. \A al \in DOMAIN i.freed : i.freed[al] = y.freed[al]
  <2>1. \A al \in DOMAIN i.freed : i.freed[al] =
                IF al \notin DOMAIN y.freed THEN y.freed[al]
                ELSE IF al \notin DOMAIN y.freed \/ y.freed[al] = y.freed[al] THEN y.freed[al]
                ELSE "mf"
    BY MergeAt
  <2> HIDE DEF i
  <2> QED BY <1>2, <2>1
<1> HIDE DEF i
<1>5. i = y
  BY <1>1, <1>2, <1>3, <1>4, FlowEqual
<1> QED BY <1>5 DEF i

\* What adds nothing to a state adds nothing to a larger one.
LEMMA MergeAbsorbs ==
  ASSUME NEW x \in FlowStates, NEW y \in FlowStates, NEW z \in FlowStates, Merge(x, z) = x
  PROVE  Merge(Merge(x, y), z) = Merge(x, y)
<1> DEFINE m == Merge(x, y)
           i == Merge(m, z)
<1>1. m \in FlowStates
  BY MergeType
<1>2. i \in FlowStates
  <2> HIDE DEF m
  <2> QED BY <1>1, MergeType
<1>0. /\ DOMAIN z.pt \subseteq DOMAIN x.pt /\ DOMAIN z.freed \subseteq DOMAIN x.freed
      /\ z.escaped \subseteq x.escaped
  <2>1. /\ DOMAIN Merge(x, z).pt = DOMAIN x.pt \cup DOMAIN z.pt
        /\ DOMAIN Merge(x, z).freed = DOMAIN x.freed \cup DOMAIN z.freed
        /\ Merge(x, z).escaped = x.escaped \cup z.escaped
    BY MergeAt
  <2> QED BY <2>1
<1>3. DOMAIN i.pt = DOMAIN m.pt /\ DOMAIN i.freed = DOMAIN m.freed /\ i.escaped = m.escaped
  <2>1. /\ DOMAIN i.pt = DOMAIN m.pt \cup DOMAIN z.pt
        /\ DOMAIN i.freed = DOMAIN m.freed \cup DOMAIN z.freed
        /\ i.escaped = m.escaped \cup z.escaped
    BY MergeAt
  <2>2. /\ DOMAIN m.pt = DOMAIN x.pt \cup DOMAIN y.pt
        /\ DOMAIN m.freed = DOMAIN x.freed \cup DOMAIN y.freed
        /\ m.escaped = x.escaped \cup y.escaped
    BY MergeAt
  <2> HIDE DEF m, i
  <2> QED BY <1>0, <2>1, <2>2
<1>4. \A v \in DOMAIN i.pt : i.pt[v] = m.pt[v]
  <2>1. \A v \in DOMAIN i.pt : i.pt[v] = Pts(m, v) \cup Pts(z, v)
    BY MergeAt
  <2>2. \A v \in DOMAIN m.pt : m.pt[v] = Pts(x, v) \cup Pts(y, v)
    BY MergeAt
  <2>3. \A v : Pts(m, v) = Pts(x, v) \cup Pts(y, v)
    BY MergePts
  <2>4. \A v : Pts(z, v) \subseteq Pts(x, v)
    <3>1. \A v : Pts(Merge(x, z), v) = Pts(x, v) \cup Pts(z, v)
      BY MergePts
    <3> QED BY <3>1
  <2> HIDE DEF m, i
  <2> QED BY <1>3, <2>1, <2>2, <2>3, <2>4
<1>5. \A al \in DOMAIN i.freed : i.freed[al] = m.freed[al]
  <2>1. \A al \in DOMAIN i.freed : i.freed[al] =
                IF al \notin DOMAIN z.freed THEN m.freed[al]
                ELSE IF al \notin DOMAIN m.freed \/ m.freed[al] = z.freed[al] THEN z.freed[al]
                ELSE "mf"
    BY MergeAt
  <2>2. \A al \in DOMAIN m.freed : m.freed[al] =
                IF al \notin DOMAIN y.freed THEN x.freed[al]
                ELSE IF al \notin DOMAIN x.freed \/ x.freed[al] = y.freed[al] THEN y.freed[al]
                ELSE "mf"
    BY MergeAt
  <2>3. \A al \in DOMAIN z.freed : x.freed[al] = z.freed[al] \/ x.freed[al] = "mf"
    <3>1. \A al \in DOMAIN Merge(x, z).freed : Merge(x, z).freed[al] =
                IF al \notin DOMAIN z.freed THEN x.freed[al]
                ELSE IF al \notin DOMAIN x.freed \/ x.freed[al] = z.freed[al] THEN z.freed[al]
                ELSE "mf"
      BY MergeAt
    <3> QED BY <1>0, <3>1
  <2> HIDE DEF m, i
  <2> QED BY <1>0, <1>3, <2>1, <2>2, <2>3
<1> HIDE DEF m, i
<1>6. i = m
  BY <1>1, <1>2, <1>3, <1>4, <1>5, FlowEqual
<1> QED BY <1>6 DEF m, i

----------------------------------------------------------------------------
(* Blocks *)

\* A body as ProgramsAssumption has it.
FunctionBody(p) ==
  /\ p \in Seq(Command) /\ p # << >>
  /\ \A k \in 1..Len(p) : p[k].op \in {"jump", "branch"} =>
       \E l \in 1..Len(p) : p[l].op = "label" /\ p[l].name = p[k].name

LEMMA FunctionBodies ==
  ASSUME program \in Programs, NEW f \in DOMAIN program
  PROVE  FunctionBody(program[f]) /\ f \in STRING \ {""}
BY ProgramsAssumption DEF FunctionBody

LEMMA LeadersAre ==
  ASSUME NEW p, FunctionBody(p)
  PROVE  Len(p) \in Nat \ {0} /\ Leaders(p) \subseteq 1..Len(p) /\ 1 \in Leaders(p)
BY DEF FunctionBody, Leaders

\* Every block has a last command, and a block or nothing comes next.
LEMMA LastOfIs ==
  ASSUME NEW p, FunctionBody(p), NEW b \in Leaders(p)
  PROVE  /\ LastOf(p, b) \in b..Len(p)
         /\ LastOf(p, b) = Len(p) \/ LastOf(p, b) + 1 \in Leaders(p)
<1>0. Len(p) \in Nat \ {0} /\ b \in 1..Len(p)
  BY LeadersAre
<1> DEFINE S == { e \in b..Len(p) : e = Len(p) \/ e + 1 \in Leaders(p) }
           Ends(e) == /\ e = Len(p) \/ e + 1 \in Leaders(p)
                      /\ \A k \in b + 1 .. e : k \notin Leaders(p)
<1>1. S \in SUBSET Nat /\ Len(p) \in S
  BY <1>0
<1>2. PICK m \in S : \A x \in S : m <= x
  <2> HIDE DEF S
  <2> QED BY <1>1, Smallest
<1>3. ASSUME NEW k \in b + 1 .. m PROVE k \notin Leaders(p)
  <2>1. k - 1 \in b..Len(p) /\ (k - 1) + 1 = k /\ ~(m <= k - 1)
    BY <1>0, <1>2
  <2>2. k - 1 \notin S
    BY <1>2, <2>1
  <2> QED BY <2>1, <2>2
<1>4. m \in b..Len(p) /\ Ends(m)
  BY <1>2, <1>3
<1>5. LastOf(p, b) = CHOOSE e \in b..Len(p) : Ends(e)
  BY DEF LastOf
<1>6. LastOf(p, b) \in b..Len(p) /\ Ends(LastOf(p, b))
  <2> HIDE DEF Ends
  <2> QED BY <1>4, <1>5
<1> QED BY <1>6

LEMMA LabelAtIs ==
  ASSUME NEW p, FunctionBody(p), NEW k \in 1..Len(p), p[k].op \in {"jump", "branch"}
  PROVE  LabelAt(p, p[k].name) \in Leaders(p)
<1> DEFINE Labels(l) == p[l].op = "label" /\ p[l].name = p[k].name
<1>1. \E l \in 1..Len(p) : Labels(l)
  BY DEF FunctionBody
<1>2. LabelAt(p, p[k].name) = CHOOSE l \in 1..Len(p) : Labels(l)
  BY DEF LabelAt
<1>3. LabelAt(p, p[k].name) \in 1..Len(p) /\ Labels(LabelAt(p, p[k].name))
  <2> HIDE DEF Labels
  <2> QED BY <1>1, <1>2
<1> QED BY <1>3 DEF Leaders

\* A block leads to blocks, to two at most.
LEMMA SuccLeads ==
  ASSUME NEW p, FunctionBody(p), NEW b \in Leaders(p)
  PROVE  /\ Succ(p, b) \subseteq Leaders(p)
         /\ \E x, y \in Nat : Succ(p, b) \subseteq {x, y}
<1> DEFINE e == LastOf(p, b)
           jump == IF p[e].op \in {"jump", "branch"} THEN {LabelAt(p, p[e].name)} ELSE {}
           fall == IF p[e].op \notin {"jump", "return"} /\ e < Len(p) THEN {e + 1} ELSE {}
<1>1. Succ(p, b) = jump \cup fall
  BY DEF Succ
<1>2. Len(p) \in Nat \ {0} /\ Leaders(p) \subseteq 1..Len(p) /\ b \in 1..Len(p)
  BY LeadersAre
<1>3. e \in b..Len(p) /\ (e = Len(p) \/ e + 1 \in Leaders(p))
  BY LastOfIs
<1>4. e \in 1..Len(p)
  BY <1>2, <1>3
<1>5. jump \subseteq Leaders(p) /\ \E x \in Nat : jump \subseteq {x}
  <2> HIDE DEF e
  <2>1. CASE p[e].op \in {"jump", "branch"}
    <3>1. LabelAt(p, p[e].name) \in Leaders(p)
      BY <1>4, <2>1, LabelAtIs
    <3>2. LabelAt(p, p[e].name) \in Nat
      BY <1>2, <3>1
    <3> QED BY <2>1, <3>1, <3>2
  <2>2. CASE p[e].op \notin {"jump", "branch"}
    <3>1. jump = {} /\ 0 \in Nat
      BY <2>2
    <3> QED BY <3>1
  <2> QED BY <2>1, <2>2
<1>6. fall \subseteq Leaders(p) /\ \E x \in Nat : fall \subseteq {x}
  <2> HIDE DEF e
  <2>1. e + 1 \in Nat
    BY <1>2, <1>4
  <2>2. e < Len(p) => e + 1 \in Leaders(p)
    BY <1>2, <1>3
  <2> QED BY <2>1, <2>2
<1> HIDE DEF jump, fall
<1> QED BY <1>1, <1>5, <1>6

\* What Leaving runs through.
LEMMA LeavingRuns ==
  ASSUME program \in Programs, NEW f \in DOMAIN program, NEW b \in Leaders(program[f]),
         NEW x \in FlowStates, NEW cx \in Facts
  PROVE  \E after :
           LET size == LastOf(program[f], b) - b + 1
               site(i) == [fn |-> f, at |-> b + i - 1, record |-> phase = "check"]
           IN  /\ after \in [0..size -> States] /\ after[0] = Carry(x, cx)
               /\ \A i \in 1..size : after[i] = Transfer(after[i - 1], site(i), program[f][b + i - 1])
               /\ Leaving(f, b, x, cx) = after[size]
<1> DEFINE p == program[f]
           N == LastOf(p, b) - b + 1
           site(i) == [fn |-> f, at |-> b + i - 1, record |-> phase = "check"]
           One(a, i) == Transfer(a, site(i), p[b + i - 1])
           base == Carry(x, cx)
           step == [i \in 1..N |-> [a \in States |-> One(a, i)]]
           Def(g) == g = [i \in 0..N |-> IF i = 0 THEN base
                                         ELSE CHOOSE a \in { One(y, i) : y \in {g[i - 1]} } : TRUE]
<1>0. /\ FunctionBody(p) /\ f \in STRING /\ Len(p) \in Nat \ {0} /\ b \in 1..Len(p)
      /\ LastOf(p, b) \in b..Len(p)
  <2>1. FunctionBody(p) /\ f \in STRING
    BY FunctionBodies
  <2>2. Leaders(p) \subseteq 1..Len(p) /\ Len(p) \in Nat \ {0}
    BY <2>1, LeadersAre
  <2> QED BY <2>1, <2>2, LastOfIs
<1>1. N \in Nat /\ \A i \in 1..N : b + i - 1 \in 1..Len(p)
  BY <1>0
<1>2. ASSUME NEW i \in 1..N, NEW a \in States PROVE One(a, i) \in States
  <2> DEFINE k == b + i - 1
  <2>1. k \in 1..Len(p)
    BY <1>1
  <2>2. p[k] \in Command
    BY <1>0, <2>1 DEF FunctionBody
  <2>3. k \in Nat
    BY <1>0, <2>1
  <2> HIDE DEF k, p
  <2>4. [fn |-> f, at |-> k, record |-> phase = "check"] \in Sites
    BY <1>0, <2>3 DEF Sites
  <2>5. Same(a, a, NoCtx)
    BY EmptyFlow DEF Same
  <2>6. Same(Transfer(a, [fn |-> f, at |-> k, record |-> phase = "check"], p[k]),
             Transfer(a, [fn |-> f, at |-> k, record |-> phase = "check"], p[k]), NoCtx)
    BY <2>2, <2>4, <2>5, TransferSame
  <2> QED BY <2>6 DEF Same, k
<1>3. base \in States
  BY DEF Carry, States, FlowStates, Facts
<1>4. step \in [1..N -> [States -> States]]
  <2> HIDE DEF One, N
  <2> QED BY <1>2
<1>5. PICK g : Recursive(g, N, States, base, step)
  <2> HIDE DEF N, base, step
  <2> QED BY <1>1, <1>3, <1>4, Recursion
<1>6. ASSUME NEW i \in 1..N PROVE g[i] = One(g[i - 1], i)
  <2>1. i - 1 \in 0..N
    BY <1>1
  <2> HIDE DEF One
  <2>2. g[i - 1] \in States
    BY <1>5, <2>1 DEF Recursive
  <2>3. g[i] = step[i][g[i - 1]]
    BY <1>5 DEF Recursive
  <2> QED BY <2>2, <2>3
<1>7. Def(g)
  <2>1. \A i \in 0..N : i # 0 => i \in 1..N
    BY <1>1
  <2>2. ASSUME NEW i \in 1..N PROVE (CHOOSE a \in { One(y, i) : y \in {g[i - 1]} } : TRUE) = g[i]
    <3> HIDE DEF One, N
    <3>1. { One(y, i) : y \in {g[i - 1]} } = { g[i] }
      BY <1>6
    <3> QED BY <3>1
  <2>3. g \in [0..N -> States] /\ g[0] = base
    BY <1>5 DEF Recursive
  <2> HIDE DEF One, base, N
  <2> QED BY <2>1, <2>2, <2>3
<1> DEFINE c == CHOOSE h : Def(h)
<1>8. Def(c)
  <2> HIDE DEF Def
  <2> QED BY <1>7
<1>9. Leaving(f, b, x, cx) = c[N]
  BY DEF Leaving
<1> HIDE DEF c
<1>10. ASSUME NEW i \in 1..N PROVE c[i] = One(c[i - 1], i)
  <2>1. i \in 0..N /\ i # 0
    BY <1>1
  <2> HIDE DEF One, base, N
  <2>2. c[i] = CHOOSE a \in { One(y, i) : y \in {c[i - 1]} } : TRUE
    BY <1>8, <2>1
  <2>3. { One(y, i) : y \in {c[i - 1]} } = { One(c[i - 1], i) }
    OBVIOUS
  <2> QED BY <2>2, <2>3
<1>11. c[0] = base /\ DOMAIN c = 0..N
  <2>1. 0 \in 0..N
    BY <1>1
  <2> HIDE DEF One, base, N
  <2> QED BY <1>8, <2>1
<1>12. \A i \in 0..N : c[i] \in States
  <2> DEFINE S == { i \in 0..N : c[i] \in States }
  <2>1. 0 \in S
    BY <1>1, <1>3, <1>11
  <2>2. ASSUME NEW i \in 1..N, i - 1 \in S PROVE i \in S
    <3> HIDE DEF One
    <3> QED BY <1>2, <1>10, <2>2
  <2>3. 0..N \subseteq S
    <3> HIDE DEF S, N
    <3> QED BY <1>1, <2>1, <2>2, UpTo
  <2> QED BY <2>3
<1>13. c = [i \in 0..N |-> c[i]]
  <2> HIDE DEF One, base, N
  <2> QED BY <1>8, <1>11
<1>14. c \in [0..N -> States]
  <2> HIDE DEF N
  <2> QED BY <1>12, <1>13
<1>15. /\ c \in [0..N -> States] /\ c[0] = base
       /\ \A i \in 1..N : c[i] = One(c[i - 1], i)
       /\ Leaving(f, b, x, cx) = c[N]
  <2> HIDE DEF One, base, N
  <2> QED BY <1>9, <1>10, <1>11, <1>14
<1> QED BY <1>15

\* What flows out of a block, and what it adds to the collected, does not depend
\* on what was collected before.
LEMMA LeavingSame ==
  ASSUME program \in Programs, NEW f \in DOMAIN program, NEW b \in Leaders(program[f]),
         NEW x \in FlowStates, NEW cx \in Facts, NEW dx \in Facts
  PROVE  Same(Leaving(f, b, x, cx), Leaving(f, b, x, dx), dx)
<1> DEFINE p == program[f]
           N == LastOf(p, b) - b + 1
           site(i) == [fn |-> f, at |-> b + i - 1, record |-> phase = "check"]
           Run(g, e) == /\ g \in [0..N -> States] /\ g[0] = Carry(x, e)
                        /\ \A i \in 1..N : g[i] = Transfer(g[i - 1], site(i), p[b + i - 1])
                        /\ Leaving(f, b, x, e) = g[N]
<1>1. PICK g : Run(g, cx)
  BY LeavingRuns
<1>2. PICK h : Run(h, dx)
  BY LeavingRuns
<1>0. /\ FunctionBody(p) /\ f \in STRING /\ Len(p) \in Nat \ {0} /\ b \in 1..Len(p)
      /\ LastOf(p, b) \in b..Len(p)
  <2>1. FunctionBody(p) /\ f \in STRING
    BY FunctionBodies
  <2>2. Leaders(p) \subseteq 1..Len(p) /\ Len(p) \in Nat \ {0}
    BY <2>1, LeadersAre
  <2> QED BY <2>1, <2>2, LastOfIs
<1>3. N \in Nat /\ \A i \in 1..N : b + i - 1 \in 1..Len(p)
  BY <1>0
<1> DEFINE S == { i \in 0..N : Same(g[i], h[i], dx) }
<1>4. 0 \in S
  <2>1. g[0] = Carry(x, cx) /\ h[0] = Carry(x, dx)
    BY <1>1, <1>2
  <2>2. 0 \in 0..N /\ g[0] \in States /\ h[0] \in States
    BY <1>1, <1>2, <1>3
  <2> QED BY <2>1, <2>2 DEF Same, Carry, Facts
<1>5. ASSUME NEW i \in 1..N, i - 1 \in S PROVE i \in S
  <2> DEFINE k == b + i - 1
             at == [fn |-> f, at |-> k, record |-> phase = "check"]
  <2>1. k \in 1..Len(p) /\ k \in Nat
    BY <1>0, <1>3
  <2>2. p[k] \in Command
    BY <1>0, <2>1 DEF FunctionBody
  <2>3. g[i] = Transfer(g[i - 1], at, p[k]) /\ h[i] = Transfer(h[i - 1], at, p[k])
    BY <1>1, <1>2
  <2> HIDE DEF k, p
  <2>4. at \in Sites
    BY <1>0, <2>1 DEF Sites
  <2>5. Same(g[i - 1], h[i - 1], dx)
    BY <1>5
  <2> HIDE DEF at
  <2>6. Same(Transfer(g[i - 1], at, p[k]), Transfer(h[i - 1], at, p[k]), dx)
    BY <2>2, <2>4, <2>5, TransferSame
  <2>7. i \in 0..N
    BY <1>3
  <2> QED BY <2>3, <2>6, <2>7
<1>6. 0..N \subseteq S
  <2> HIDE DEF S, N
  <2> QED BY <1>3, <1>4, <1>5, UpTo
<1>7. N \in 0..N
  BY <1>3
<1>8. Same(g[N], h[N], dx)
  <2> HIDE DEF N
  <2> QED BY <1>6, <1>7
<1> QED BY <1>1, <1>2, <1>8

\* So does a whole block, from the state it is entered with.
LEMMA LeavingGoes ==
  ASSUME program \in Programs, NEW f \in DOMAIN program, NEW b \in Leaders(program[f]),
         NEW x \in FlowStates, NEW cx \in Facts
  PROVE  Leaving(f, b, x, cx) \in States /\ Goes(Carry(x, cx), Leaving(f, b, x, cx))
<1> DEFINE p == program[f]
           N == LastOf(p, b) - b + 1
           site(i) == [fn |-> f, at |-> b + i - 1, record |-> phase = "check"]
           Run(g, e) == /\ g \in [0..N -> States] /\ g[0] = Carry(x, e)
                        /\ \A i \in 1..N : g[i] = Transfer(g[i - 1], site(i), p[b + i - 1])
                        /\ Leaving(f, b, x, e) = g[N]
<1>1. PICK g : Run(g, cx)
  BY LeavingRuns
<1>0. /\ FunctionBody(p) /\ f \in STRING /\ Len(p) \in Nat \ {0} /\ b \in 1..Len(p)
      /\ LastOf(p, b) \in b..Len(p)
  <2>1. FunctionBody(p) /\ f \in STRING
    BY FunctionBodies
  <2>2. Leaders(p) \subseteq 1..Len(p) /\ Len(p) \in Nat \ {0}
    BY <2>1, LeadersAre
  <2> QED BY <2>1, <2>2, LastOfIs
<1>2. N \in Nat /\ \A i \in 1..N : b + i - 1 \in 1..Len(p)
  BY <1>0
<1> DEFINE S == { i \in 0..N : Goes(g[0], g[i]) }
<1>3. 0 \in S
  BY <1>2 DEF Goes, Within
<1>4. ASSUME NEW i \in 1..N, i - 1 \in S PROVE i \in S
  <2> DEFINE k == b + i - 1
             at == [fn |-> f, at |-> k, record |-> phase = "check"]
  <2>1. k \in 1..Len(p) /\ k \in Nat
    BY <1>0, <1>2
  <2>2. p[k] \in Command
    BY <1>0, <2>1 DEF FunctionBody
  <2>3. g[i] = Transfer(g[i - 1], at, p[k])
    BY <1>1
  <2>4. i - 1 \in 0..N /\ Goes(g[0], g[i - 1])
    BY <1>4
  <2>5. g[i - 1] \in States
    BY <1>1, <2>4
  <2> HIDE DEF k, p
  <2>6. at \in Sites
    BY <1>0, <2>1 DEF Sites
  <2> HIDE DEF at
  <2>7. Goes(g[i - 1], Transfer(g[i - 1], at, p[k]))
    BY <2>2, <2>5, <2>6, TransferGoes
  <2>8. Goes(g[0], g[i])
    BY <2>3, <2>4, <2>7, GoesOn
  <2>9. i \in 0..N
    BY <1>2
  <2> QED BY <2>8, <2>9
<1>5. 0..N \subseteq S
  <2> HIDE DEF S, N
  <2> QED BY <1>2, <1>3, <1>4, UpTo
<1>6. N \in 0..N
  BY <1>2
<1>7. g[N] \in States /\ Goes(g[0], g[N])
  <2> HIDE DEF N
  <2> QED BY <1>1, <1>5, <1>6
<1> QED BY <1>1, <1>7

----------------------------------------------------------------------------
(* The worklist *)

Members(s) == { s[k] : k \in 1..Len(s) }

Distinct(s) == \A j, k \in 1..Len(s) : s[j] = s[k] => j = k

LEMMA NoMembers == Members(<< >>) = {}
<1>1. Len(<< >>) = 0
  OBVIOUS
<1>2. \A i : i = 0 => 1..i = {}
  OBVIOUS
<1> QED BY <1>1, <1>2 DEF Members

LEMMA SequenceFrom ==
  ASSUME NEW i \in Nat, NEW S, NEW q \in [1..i -> S]
  PROVE  q \in Seq(S) /\ Len(q) = i
OBVIOUS

LEMMA AscendingIs ==
  ASSUME NEW x \in Nat, NEW y \in Nat, NEW S \in SUBSET {x, y}
  PROVE  Ascending(S) \in Seq(S) /\ Members(Ascending(S)) = S /\ Distinct(Ascending(S))
<1> DEFINE Up(s) == \A j, k \in 1..Cardinality(S) : j < k => s[j] < s[k]
<1>1. Ascending(S) = CHOOSE s \in [1..Cardinality(S) -> S] : Up(s)
  BY DEF Ascending
<1>2. CASE S = {}
  <2>1. Cardinality(S) = 0
    BY <1>2, FS_EmptySet
  <2>2. << >> \in [1..Cardinality(S) -> S] /\ Up(<< >>)
    BY <2>1
  <2>3. \E s \in [1..Cardinality(S) -> S] : Up(s)
    <3> HIDE DEF Up
    <3> QED BY <2>2
  <2>4. Ascending(S) \in [1..Cardinality(S) -> S]
    <3> HIDE DEF Up
    <3> QED BY <1>1, <2>3
  <2>5. Ascending(S) \in [1..0 -> S]
    BY <2>1, <2>4
  <2>6. Ascending(S) \in Seq(S) /\ Len(Ascending(S)) = 0
    BY <2>5
  <2> QED BY <1>2, <2>6 DEF Members, Distinct
<1>3. ASSUME NEW z \in Nat, S = {z} PROVE Ascending(S) \in Seq(S) /\ Members(Ascending(S)) = S /\ Distinct(Ascending(S))
  <2>1. Cardinality(S) = 1
    BY <1>3, FS_Singleton
  <2>2. [j \in 1..1 |-> z] \in [1..Cardinality(S) -> S] /\ Up([j \in 1..1 |-> z])
    BY <1>3, <2>1
  <2>3. \E s \in [1..Cardinality(S) -> S] : Up(s)
    <3> HIDE DEF Up
    <3> QED BY <2>2
  <2>4. Ascending(S) \in [1..Cardinality(S) -> S]
    <3> HIDE DEF Up
    <3> QED BY <1>1, <2>3
  <2>5. Ascending(S) \in [1..1 -> S]
    BY <2>1, <2>4
  <2>6. Ascending(S) \in Seq(S) /\ Len(Ascending(S)) = 1 /\ Ascending(S)[1] = z
    <3> DEFINE q == Ascending(S)
    <3>1. q \in [1..1 -> {z}]
      BY <1>3, <2>5
    <3> HIDE DEF q
    <3>2. 1 \in 1..1 /\ q[1] = z
      BY <3>1
    <3>3. 1 \in Nat
      OBVIOUS
    <3>4. q \in Seq({z})
      BY <3>1, <3>3, SequenceFrom
    <3>5. Len(q) = 1
      BY <3>1, <3>3, SequenceFrom
    <3> QED BY <1>3, <3>2, <3>4, <3>5 DEF q
  <2>7. \A k \in 1..1 : k = 1
    OBVIOUS
  <2>8. Members(Ascending(S)) = S
    BY <1>3, <2>6, <2>7 DEF Members
  <2>9. Distinct(Ascending(S))
    BY <2>6, <2>7 DEF Distinct
  <2> QED BY <2>6, <2>8, <2>9
<1>4. ASSUME NEW u \in Nat, NEW v \in Nat, u < v, S = {u, v}
      PROVE  Ascending(S) \in Seq(S) /\ Members(Ascending(S)) = S /\ Distinct(Ascending(S))
  <2>1. Cardinality(S) = 2
    <3>1. IsFiniteSet({u}) /\ Cardinality({u}) = 1 /\ v \notin {u}
      <4>1. Cardinality({u}) = 1 /\ IsFiniteSet({u})
        BY FS_Singleton
      <4>2. v \notin {u}
        BY <1>4
      <4> QED BY <4>1, <4>2
    <3>2. Cardinality({u} \cup {v}) = 1 + 1
      BY <3>1, FS_AddElement
    <3>3. S = {u} \cup {v}
      BY <1>4
    <3> QED BY <3>2, <3>3
  <2> DEFINE pair == [j \in 1..2 |-> IF j = 1 THEN u ELSE v]
  <2>2. pair \in [1..Cardinality(S) -> S] /\ Up(pair)
    BY <1>4, <2>1
  <2>3. \E s \in [1..Cardinality(S) -> S] : Up(s)
    <3> HIDE DEF Up, pair
    <3> QED BY <2>2
  <2>4. Ascending(S) \in [1..Cardinality(S) -> S] /\ Up(Ascending(S))
    <3> HIDE DEF Up
    <3> QED BY <1>1, <2>3
  <2>5. Ascending(S) \in [1..2 -> S] /\ Ascending(S)[1] < Ascending(S)[2]
    BY <2>1, <2>4
  <2>6. Ascending(S) \in Seq(S) /\ Len(Ascending(S)) = 2 /\ Ascending(S)[1] = u /\ Ascending(S)[2] = v
    <3> DEFINE q == Ascending(S)
    <3>1. q \in [1..2 -> {u, v}] /\ q[1] < q[2]
      BY <1>4, <2>5
    <3> HIDE DEF q
    <3>2. q \in Seq({u, v}) /\ Len(q) = 2
      <4>0. 2 \in Nat
        OBVIOUS
      <4> QED BY <3>1, <4>0, SequenceFrom
    <3>3. q[1] \in {u, v} /\ q[2] \in {u, v}
      <4>1. 1 \in 1..2 /\ 2 \in 1..2
        OBVIOUS
      <4> QED BY <3>1, <4>1
    <3>4. q[1] = u /\ q[2] = v
      BY <1>4, <3>1, <3>3
    <3> QED BY <1>4, <3>2, <3>4 DEF q
  <2>7. \A k \in 1..2 : k = 1 \/ k = 2
    OBVIOUS
  <2>8. Members(Ascending(S)) = S
    <3>1. 1 \in 1..2 /\ 2 \in 1..2
      OBVIOUS
    <3> QED BY <1>4, <2>6, <2>7, <3>1 DEF Members
  <2>9. u # v
    BY <1>4
  <2>10. Distinct(Ascending(S))
    BY <2>6, <2>7, <2>9 DEF Distinct
  <2> QED BY <2>6, <2>8, <2>10
<1>5. \/ S = {} \/ S = {x} \/ S = {y} \/ (x < y /\ S = {x, y}) \/ (y < x /\ S = {y, x})
  <2>1. S = {} \/ S = {x} \/ S = {y} \/ S = {x, y}
    OBVIOUS
  <2>2. x < y \/ y < x \/ x = y
    OBVIOUS
  <2>3. {x, y} = {y, x} /\ (x = y => {x, y} = {x})
    OBVIOUS
  <2> QED BY <2>1, <2>2, <2>3
<1> QED BY <1>2, <1>3, <1>4, <1>5

Lengthened(q, waiting, S, A) ==
  q \in Seq(A) /\ Distinct(q) /\ Members(q) = Members(waiting) \cup S

\* The worklist after a visit: what waited, what changed, each block once.
LEMMA EnqueuedIs ==
  ASSUME NEW A, NEW x \in Nat, NEW y \in Nat, NEW S \in SUBSET {x, y}, S \subseteq A,
         NEW waiting \in Seq(A), Distinct(waiting)
  PROVE  Lengthened(Enqueued(waiting, S), waiting, S, A)
<1> DEFINE T == { t \in S : \A k \in 1..Len(waiting) : waiting[k] # t }
           u == Ascending(T)
           q == waiting \o u
<1>1. T \in SUBSET {x, y} /\ T \subseteq S
  OBVIOUS
<1>2. u \in Seq(T) /\ Members(u) = T /\ Distinct(u)
  <2> HIDE DEF T
  <2> QED BY <1>1, AscendingIs
<1>3. Enqueued(waiting, S) = q
  BY DEF Enqueued
<1>4. \A k \in 1..Len(waiting) : \A t \in T : waiting[k] # t
  OBVIOUS
<1>5. \A t \in S : t \in T \/ t \in Members(waiting)
  BY DEF Members
<1> HIDE DEF T, u
<1>6. u \in Seq(A)
  <2>1. T \subseteq A
    BY <1>1
  <2> QED BY <1>2, <2>1, SeqMonotonic
<1>7. /\ q \in Seq(A) /\ Len(q) = Len(waiting) + Len(u)
      /\ \A k \in 1..Len(waiting) : q[k] = waiting[k]
      /\ \A k \in 1..Len(u) : q[Len(waiting) + k] = u[k]
  BY <1>6
<1>8. Len(waiting) \in Nat /\ Len(u) \in Nat
  BY <1>6
<1> HIDE DEF q
<1>9. \A k \in 1..Len(q) : k \in 1..Len(waiting) \/ \E j \in 1..Len(u) : k = Len(waiting) + j
  <2> SUFFICES ASSUME NEW k \in 1..Len(q), k \notin 1..Len(waiting)
               PROVE  \E j \in 1..Len(u) : k = Len(waiting) + j
    OBVIOUS
  <2>1. k - Len(waiting) \in 1..Len(u) /\ k = Len(waiting) + (k - Len(waiting))
    BY <1>7, <1>8
  <2> QED BY <2>1
<1>10. Members(q) = Members(waiting) \cup T
  <2>1. \A k \in 1..Len(waiting) : k \in 1..Len(q)
    BY <1>7, <1>8
  <2>2. \A k \in 1..Len(u) : Len(waiting) + k \in 1..Len(q)
    BY <1>7, <1>8
  <2>3. Members(waiting) \subseteq Members(q)
    BY <1>7, <2>1 DEF Members
  <2>4. Members(u) \subseteq Members(q)
    BY <1>7, <2>2 DEF Members
  <2>5. Members(q) \subseteq Members(waiting) \cup Members(u)
    <3> SUFFICES ASSUME NEW k \in 1..Len(q) PROVE q[k] \in Members(waiting) \cup Members(u)
      BY DEF Members
    <3>1. CASE k \in 1..Len(waiting)
      BY <1>7, <3>1 DEF Members
    <3>2. CASE \E j \in 1..Len(u) : k = Len(waiting) + j
      BY <1>7, <3>2 DEF Members
    <3> QED BY <1>9, <3>1, <3>2
  <2> QED BY <1>2, <2>3, <2>4, <2>5
<1>11. Distinct(q)
  <2>1. \A k \in 1..Len(u) : u[k] \in T
    BY <1>2 DEF Members
  <2> SUFFICES ASSUME NEW j \in 1..Len(q), NEW k \in 1..Len(q), q[j] = q[k] PROVE j = k
    BY DEF Distinct
  <2>2. CASE j \in 1..Len(waiting) /\ k \in 1..Len(waiting)
    BY <1>7, <2>2 DEF Distinct
  <2>3. ASSUME NEW l \in 1..Len(u), NEW i \in 1..Len(waiting) PROVE q[Len(waiting) + l] # q[i]
    BY <1>4, <1>7, <2>1
  <2>4. ASSUME NEW l \in 1..Len(u), NEW i \in 1..Len(u), q[Len(waiting) + l] = q[Len(waiting) + i]
        PROVE  l = i
    <3>1. u[l] = u[i]
      BY <1>7, <2>4
    <3> QED BY <1>2, <3>1 DEF Distinct
  <2> QED BY <1>9, <2>2, <2>3, <2>4
<1> QED BY <1>1, <1>3, <1>5, <1>7, <1>10, <1>11 DEF Lengthened

\* What is left of a worklist whose last block is taken.
LEMMA LastTaken ==
  ASSUME NEW A, NEW s \in Seq(A), s # << >>, Distinct(s)
  PROVE  /\ Len(s) \in Nat \ {0} /\ s[Len(s)] \in A
         /\ SubSeq(s, 1, Len(s) - 1) \in Seq(A) /\ Distinct(SubSeq(s, 1, Len(s) - 1))
         /\ Members(s) \subseteq Members(SubSeq(s, 1, Len(s) - 1)) \cup {s[Len(s)]}
<1>1. Len(s) \in Nat \ {0} /\ s[Len(s)] \in A
  OBVIOUS
<1> DEFINE i == Len(s) - 1
           r == SubSeq(s, 1, i)
<1>2. i \in Nat /\ i + 1 = Len(s)
  BY <1>1
<1>3. r \in Seq(A) /\ Len(r) = i /\ \A k \in 1..i : r[k] = s[k]
  <2>1. i \in Int /\ 1 \in Int /\ \A k \in 1..i : s[k] \in A
    BY <1>2
  <2> HIDE DEF i
  <2>2. /\ SubSeq(s, 1, i) \in Seq(A)
        /\ Len(SubSeq(s, 1, i)) = IF 1 <= i THEN i - 1 + 1 ELSE 0
        /\ \A k \in 1..(i - 1 + 1) : SubSeq(s, 1, i)[k] = s[1 + k - 1]
    BY <2>1, SubSeqProperties
  <2>3. i - 1 + 1 = i /\ (~(1 <= i) => i = 0) /\ \A k \in 1..i : 1 + k - 1 = k
    BY <1>2
  <2> QED BY <2>2, <2>3
<1> HIDE DEF r
<1>4. Distinct(r)
  <2>1. \A k \in 1..i : k \in 1..Len(s)
    BY <1>2
  <2> HIDE DEF i
  <2> QED BY <1>3, <2>1 DEF Distinct
<1>5. Members(s) \subseteq Members(r) \cup {s[Len(s)]}
  <2>1. \A k \in 1..Len(s) : k = Len(s) \/ k \in 1..i
    <3> SUFFICES ASSUME NEW k \in 1..Len(s), k # Len(s) PROVE k \in 1..i
      OBVIOUS
    <3> QED BY <1>1
  <2> HIDE DEF i
  <2> QED BY <1>3, <2>1 DEF Members
<1> QED BY <1>1, <1>3, <1>4, <1>5 DEF r

----------------------------------------------------------------------------
(* The data flow ends in a solution *)

\* What leaves the block b adds nothing to the blocks it enters.
Settled(b) ==
  \A t \in Succ(program[fn], b) :
    /\ t \in DOMAIN inState
    /\ Merge(inState[t], Flow(Leaving(fn, b, inState[b], ctx))) = inState[t]

\* It adds nothing to what was collected either.
Exhausted(b) == Within(Leaving(fn, b, inState[b], ctx), ctx)

FlowTyped ==
  /\ program \in Programs
  /\ phase \in {"summarize", "check", "done"}
  /\ fn \in DOMAIN program \cup {""}
  /\ DOMAIN summaries \subseteq DOMAIN program /\ DOMAIN autofree \subseteq DOMAIN program
  /\ ctx \in Facts
  /\ \A b \in DOMAIN inState : inState[b] \in FlowStates
  /\ fn # "" => 1 \in DOMAIN inState /\ DOMAIN inState \subseteq Leaders(program[fn])
  /\ worklist \in Seq(DOMAIN inState) /\ Distinct(worklist)

\* A block that does not wait is settled and exhausted, and whatever a state
\* says was freed or escaped has been collected.
FlowInv ==
  /\ FlowTyped
  /\ fn # "" => \A b \in DOMAIN inState :
       /\ b \in Members(worklist) \/ (Settled(b) /\ Exhausted(b))
       /\ Recorded(Carry(inState[b], ctx))

LEMMA StartTyped ==
  ASSUME NEW f \in DOMAIN program, StartOn(f), program \in Programs,
         UNCHANGED <<program, phase, summaries, diags, autofree>>, FlowTyped
  PROVE  FlowInv'
<1>1. FunctionBody(program[f]) /\ f # ""
  BY FunctionBodies
<1>2. fn' = f /\ inState' = Only(1, Empty) /\ worklist' = <<1>> /\ ctx' = NoCtx
  BY DEF StartOn
<1>3. DOMAIN inState' = {1} /\ inState'[1] = Empty
  BY <1>2 DEF Only
<1>4. 1 \in Leaders(program[f])
  BY <1>1, LeadersAre
<1>5. worklist' \in Seq({1}) /\ Distinct(worklist') /\ Members(worklist') = {1}
  <2>1. Len(<<1>>) = 1 /\ <<1>>[1] = 1 /\ <<1>> \in Seq({1})
    OBVIOUS
  <2>2. 1..1 = {1}
    OBVIOUS
  <2> QED BY <1>2, <2>1, <2>2 DEF Distinct, Members
<1>6. FlowTyped'
  BY <1>2, <1>3, <1>4, <1>5, EmptyFlow DEF FlowTyped
<1>7. Recorded(Carry(Empty, NoCtx))
  <2>1. DOMAIN << >> = {}
    OBVIOUS
  <2> QED BY <2>1 DEF Recorded, Carry, Empty, NoCtx
<1> QED BY <1>2, <1>3, <1>5, <1>6, <1>7 DEF FlowInv

\* A join tells of nothing that its parts do not tell of.
LEMMA MergeRecorded ==
  ASSUME NEW x \in FlowStates, NEW y \in FlowStates, NEW e \in Facts,
         Recorded(Carry(x, e)), Recorded(Carry(y, e))
  PROVE  Recorded(Carry(Merge(x, y), e))
<1> DEFINE m == Merge(x, y)
<1>1. /\ DOMAIN m.freed = DOMAIN x.freed \cup DOMAIN y.freed
      /\ \A al \in DOMAIN m.freed : m.freed[al] =
                IF al \notin DOMAIN y.freed THEN x.freed[al]
                ELSE IF al \notin DOMAIN x.freed \/ x.freed[al] = y.freed[al] THEN y.freed[al]
                ELSE "mf"
      /\ m.escaped = x.escaped \cup y.escaped
  BY MergeAt
<1> HIDE DEF m
<1>2. /\ x.escaped \subseteq e.escapedEver /\ y.escaped \subseteq e.escapedEver
      /\ \A al \in DOMAIN x.freed : x.freed[al] # "a" => al \in e.freedEver
      /\ \A al \in DOMAIN y.freed : y.freed[al] # "a" => al \in e.freedEver
  BY DEF Recorded, Carry
<1>3. m.escaped \subseteq e.escapedEver
  BY <1>1, <1>2
<1>4. \A al \in DOMAIN m.freed : m.freed[al] # "a" => al \in e.freedEver
  BY <1>1, <1>2
<1>5. Recorded(Carry(m, e))
  BY <1>3, <1>4 DEF Recorded, Carry
<1> QED BY <1>5 DEF m

LEMMA LaterRecorded ==
  ASSUME NEW x, NEW e, NEW d, Recorded(Carry(x, e)), Within(e, d)
  PROVE  Recorded(Carry(x, d))
BY DEF Recorded, Carry, Within

\* What holds of the states after the arrivals from a block that leaves out.
Entered(after, b, out) ==
  /\ DOMAIN after = Succ(program[fn], b) \cup DOMAIN inState
  /\ \A t \in DOMAIN after : after[t] \in FlowStates
  /\ \A t \in Succ(program[fn], b) : Merge(after[t], out) = after[t]
  /\ \A t \in DOMAIN inState : \A z \in FlowStates :
       Merge(inState[t], z) = inState[t] => Merge(after[t], z) = after[t]
  /\ \A t \in DOMAIN after : \/ t \in DOMAIN inState /\ after[t] = inState[t]
                             \/ t \in Succ(program[fn], b) /\ after[t] = Arrivals(b, out)[t]

LEMMA ArrivedIs ==
  ASSUME \A b \in DOMAIN inState : inState[b] \in FlowStates, NEW b, NEW out \in FlowStates,
         NEW after, after = Over(Arrivals(b, out), inState)
  PROVE  Entered(after, b, out)
<1> DEFINE S == Succ(program[fn], b)
           new == Arrivals(b, out)
<1>1. DOMAIN new = S /\ \A t \in S : new[t] = IF t \in DOMAIN inState THEN Merge(inState[t], out) ELSE out
  BY DEF Arrivals
<1> HIDE DEF new, S
<1>2. /\ DOMAIN after = S \cup DOMAIN inState
      /\ \A t \in S : after[t] = new[t]
      /\ \A t \in DOMAIN inState : t \notin S => after[t] = inState[t]
  BY <1>1 DEF Over, new
<1>3. ASSUME NEW t \in S PROVE after[t] \in FlowStates /\ Merge(after[t], out) = after[t]
  <2>1. CASE t \in DOMAIN inState
    <3>1. after[t] = Merge(inState[t], out) /\ inState[t] \in FlowStates
      BY <1>1, <1>2, <2>1
    <3> QED BY <3>1, MergeType, MergeAgain
  <2>2. CASE t \notin DOMAIN inState
    BY <1>1, <1>2, <2>2, MergeSelf
  <2> QED BY <2>1, <2>2
<1>4. ASSUME NEW t \in DOMAIN inState, NEW z \in FlowStates, Merge(inState[t], z) = inState[t]
      PROVE  Merge(after[t], z) = after[t]
  <2>1. CASE t \in S
    <3>1. after[t] = Merge(inState[t], out) /\ inState[t] \in FlowStates
      BY <1>1, <1>2, <2>1
    <3>2. Merge(Merge(inState[t], out), z) = Merge(inState[t], out)
      BY <1>4, <3>1, MergeAbsorbs
    <3> QED BY <3>1, <3>2
  <2>2. CASE t \notin S
    BY <1>2, <1>4, <2>2
  <2> QED BY <2>1, <2>2
<1>5. \A t \in DOMAIN after : after[t] \in FlowStates
  BY <1>2, <1>3
<1>6. \A t \in DOMAIN after : \/ t \in DOMAIN inState /\ after[t] = inState[t]
                              \/ t \in S /\ after[t] = new[t]
  BY <1>2
<1> QED BY <1>2, <1>3, <1>4, <1>5, <1>6 DEF S, new, Entered

\* The step that matters: the visited block leaves the worklist, and each block
\* whose state it changes is on it.
LEMMA VisitKeeps ==
  ASSUME FlowInv, Visit
  PROVE  FlowInv'
<1> DEFINE b == worklist[Len(worklist)]
           rest == SubSeq(worklist, 1, Len(worklist) - 1)
           a == Leaving(fn, b, inState[b], ctx)
           out == Flow(a)
           arrived == Arrivals(b, out)
           news == { t \in DOMAIN arrived : t \notin DOMAIN inState \/ arrived[t] # inState[t] }
           p == program[fn]
<1>1. /\ fn # "" /\ worklist # << >> /\ ctx' = Collected(a)
      /\ inState' = Over(arrived, inState) /\ worklist' = Enqueued(rest, news)
      /\ UNCHANGED <<program, phase, fn, summaries, diags, autofree>>
  BY DEF Visit
<1>2. /\ program \in Programs /\ fn \in DOMAIN program /\ ctx \in Facts
      /\ \A x \in DOMAIN inState : inState[x] \in FlowStates
      /\ 1 \in DOMAIN inState /\ DOMAIN inState \subseteq Leaders(p)
      /\ worklist \in Seq(DOMAIN inState) /\ Distinct(worklist)
      /\ \A x \in DOMAIN inState : x \in Members(worklist) \/ (Settled(x) /\ Exhausted(x))
      /\ \A x \in DOMAIN inState : Recorded(Carry(inState[x], ctx))
  BY <1>1 DEF FlowInv, FlowTyped
<1>3. /\ b \in DOMAIN inState /\ rest \in Seq(DOMAIN inState) /\ Distinct(rest)
      /\ Members(worklist) \subseteq Members(rest) \cup {b}
  BY <1>1, <1>2, LastTaken
<1>4. FunctionBody(p)
  BY <1>2, FunctionBodies
<1> HIDE DEF b, rest
<1>5. b \in Leaders(p) /\ inState[b] \in FlowStates
  BY <1>2, <1>3
<1>6. Same(a, a, ctx) /\ Goes(Carry(inState[b], ctx), a)
  <2>1. Same(a, a, ctx)
    BY <1>2, <1>5, LeavingSame
  <2>2. Goes(Carry(inState[b], ctx), a)
    BY <1>2, <1>5, LeavingGoes
  <2> QED BY <2>1, <2>2
<1>7. out \in FlowStates /\ Collected(a) \in Facts
  <2>1. a \in States
    BY <1>6 DEF Same
  <2> HIDE DEF a
  <2> QED BY <2>1 DEF States, FlowStates, Facts, Flow, Collected
<1>8. Succ(p, b) \subseteq Leaders(p) /\ \E x, y \in Nat : Succ(p, b) \subseteq {x, y}
  BY <1>4, <1>5, SuccLeads
<1>9. /\ DOMAIN inState' = Succ(p, b) \cup DOMAIN inState
      /\ \A t \in DOMAIN inState' : inState'[t] \in FlowStates
      /\ \A t \in Succ(p, b) : Merge(inState'[t], out) = inState'[t]
      /\ \A t \in DOMAIN inState : \A z \in FlowStates :
           Merge(inState[t], z) = inState[t] => Merge(inState'[t], z) = inState'[t]
      /\ \A t \in DOMAIN inState' : \/ t \in DOMAIN inState /\ inState'[t] = inState[t]
                                    \/ t \in Succ(p, b) /\ inState'[t] = arrived[t]
  <2> HIDE DEF out
  <2>1. inState' = Over(Arrivals(b, out), inState)
    BY <1>1
  <2>2. \A x \in DOMAIN inState : inState[x] \in FlowStates
    BY <1>2
  <2> DEFINE J == inState'
  <2>3. J = Over(Arrivals(b, out), inState)
    BY <2>1
  <2> HIDE DEF J
  <2>4. Entered(J, b, out)
    BY <1>7, <2>2, <2>3, ArrivedIs
  <2> QED BY <2>4 DEF Entered, J, p
<1>10. DOMAIN arrived = Succ(p, b)
  BY DEF Arrivals
<1> HIDE DEF arrived, out
<1>11. \A t \in DOMAIN inState' : t \in news \/ (t \in DOMAIN inState /\ inState'[t] = inState[t])
  BY <1>9, <1>10
<1>12. /\ worklist' \in Seq(DOMAIN inState') /\ Distinct(worklist')
       /\ Members(worklist') = Members(rest) \cup news
  <2>1. PICK x \in Nat, y \in Nat : Succ(p, b) \subseteq {x, y}
    BY <1>8
  <2>2. news \in SUBSET {x, y} /\ news \subseteq DOMAIN inState'
    BY <1>9, <1>10, <2>1
  <2>3. rest \in Seq(DOMAIN inState')
    <3>1. DOMAIN inState \subseteq DOMAIN inState'
      BY <1>9
    <3> QED BY <1>3, <3>1, SeqMonotonic
  <2> HIDE DEF news
  <2> DEFINE A == DOMAIN inState'
  <2>4. rest \in Seq(A) /\ news \subseteq A
    BY <2>2, <2>3
  <2> HIDE DEF A
  <2>6. news \in SUBSET {x, y} /\ Distinct(rest)
    BY <1>3, <2>2
  <2> HIDE <1>1, <1>2, <1>3, <1>9
  <2>7. x \in Nat /\ y \in Nat
    OBVIOUS
  <2>5. Lengthened(Enqueued(rest, news), rest, news, A)
    BY <2>4, <2>6, <2>7, EnqueuedIs
  <2> QED BY <1>1, <2>5 DEF A, Lengthened
<1> HIDE DEF news, a, p
<1>15. Within(ctx, ctx') /\ Recorded(Carry(out, ctx'))
  <2>1. Recorded(Carry(inState[b], ctx))
    BY <1>2, <1>3
  <2>2. Recorded(a) /\ Within(Carry(inState[b], ctx), a)
    BY <1>6, <2>1 DEF Goes
  <2>3. Within(ctx, Collected(a))
    BY <2>2 DEF Within, Carry, Collected
  <2>4. Recorded(Carry(Flow(a), Collected(a)))
    BY <2>2 DEF Recorded, Carry, Collected, Flow
  <2> QED BY <1>1, <2>3, <2>4 DEF out
<1>16. ASSUME NEW t \in DOMAIN inState' PROVE Recorded(Carry(inState'[t], ctx'))
  <2> DEFINE e == ctx'
  <2>1. Within(ctx, e) /\ Recorded(Carry(out, e)) /\ e \in Facts
    BY <1>1, <1>7, <1>15
  <2> HIDE DEF e
  <2>2. CASE t \in DOMAIN inState
    <3>1. Recorded(Carry(inState[t], e)) /\ inState[t] \in FlowStates
      BY <1>2, <2>1, <2>2, LaterRecorded
    <3>2. Recorded(Carry(Merge(inState[t], out), e))
      BY <1>7, <2>1, <3>1, MergeRecorded
    <3>3. inState'[t] = inState[t] \/ inState'[t] = Merge(inState[t], out)
      BY <1>9, <2>2 DEF arrived, Arrivals, p
    <3>4. Recorded(Carry(inState'[t], e))
      BY <3>1, <3>2, <3>3
    <3> QED BY <3>4 DEF e
  <2>3. CASE t \notin DOMAIN inState
    <3>1. inState'[t] = out
      BY <1>9, <2>3 DEF arrived, Arrivals, p
    <3> QED BY <1>15, <3>1
  <2> QED BY <2>2, <2>3
<1>13. FlowTyped'
  <2>1. fn' # "" => 1 \in DOMAIN inState' /\ DOMAIN inState' \subseteq Leaders(program'[fn'])
    BY <1>1, <1>2, <1>8, <1>9 DEF p
  <2>2. ctx' \in Facts
    BY <1>1, <1>7
  <2>3. /\ program' \in Programs /\ phase' \in {"summarize", "check", "done"}
        /\ fn' \in DOMAIN program' \cup {""} /\ DOMAIN summaries' \subseteq DOMAIN program'
        /\ DOMAIN autofree' \subseteq DOMAIN program'
    BY <1>1 DEF FlowInv, FlowTyped
  <2> QED BY <1>9, <1>12, <2>1, <2>2, <2>3 DEF FlowTyped
<1>14. ASSUME NEW x \in DOMAIN inState', x \notin Members(worklist') PROVE Settled(x)' /\ Exhausted(x)'
  <2>1. x \in DOMAIN inState /\ inState'[x] = inState[x] /\ x \notin Members(rest)
    BY <1>11, <1>12, <1>14
  <2>2. x \in Leaders(p) /\ inState[x] \in FlowStates
    BY <1>2, <2>1
  <2> DEFINE old == Leaving(fn, x, inState[x], ctx)
             new == Leaving(fn, x, inState[x], Collected(a))
  <2>3. Same(old, new, Collected(a))
    BY <1>2, <1>7, <2>2, LeavingSame DEF p
  <2>8. UNCHANGED <<program, phase, fn, summaries>>
    BY <1>1
  <2>9. \A y, e : Leaving(fn, x, y, e)' = Leaving(fn, x, y, e)
    BY <2>8 DEF Leaving, Transfer
  <2>4. Leaving(fn, x, inState[x], ctx)' = new
    BY <1>1, <2>1, <2>9
  <2> HIDE DEF old, new
  <2>5. Flow(new) = Flow(old) /\ Flow(old) \in FlowStates
    BY <2>3 DEF Same, Flow, States, FlowStates
  <2>6. ASSUME NEW t \in Succ(p, x)
        PROVE  t \in DOMAIN inState' /\ Merge(inState'[t], Flow(old)) = inState'[t]
    <3>1. CASE x = b
      <4>1. Flow(old) = out
        BY <3>1 DEF old, out, a
      <4> QED BY <1>9, <2>6, <3>1, <4>1
    <3>2. CASE x # b
      <4>1. Settled(x) /\ Exhausted(x)
        BY <1>2, <1>3, <2>1, <3>2
      <4>2. t \in DOMAIN inState /\ Merge(inState[t], Flow(old)) = inState[t]
        BY <2>6, <4>1 DEF Settled, p, old
      <4> QED BY <1>9, <2>5, <4>2
    <3> QED BY <3>1, <3>2
  <2>7. Succ(program[fn], x)' = Succ(p, x)
    BY <2>8 DEF p
  <2>10. Within(old, Collected(a))
    <3>1. CASE x = b
      <4>1. old = a
        BY <3>1 DEF old, a
      <4> QED BY <4>1 DEF Within, Collected
    <3>2. CASE x # b
      <4>1. Exhausted(x)
        BY <1>2, <1>3, <2>1, <3>2
      <4>2. Within(old, ctx)
        BY <4>1 DEF Exhausted, old
      <4>3. Within(ctx, Collected(a))
        BY <1>1, <1>15
      <4> QED BY <4>2, <4>3 DEF Within
    <3> QED BY <3>1, <3>2
  <2>11. Within(new, Collected(a))
    BY <2>3, <2>10 DEF Same, Within
  <2>12. Settled(x)'
    BY <2>4, <2>5, <2>6, <2>7 DEF Settled
  <2>13. Exhausted(x)'
    BY <1>1, <2>4, <2>11 DEF Exhausted
  <2> QED BY <2>12, <2>13
<1> QED BY <1>13, <1>14, <1>16 DEF FlowInv

LEMMA FlowInvStep == FlowInv /\ [FlowNext]_analysis => FlowInv'
<1> SUFFICES ASSUME FlowInv, [FlowNext]_analysis PROVE FlowInv'
  OBVIOUS
<1>1. CASE BeginSummary
  <2> DEFINE ready == { f \in DOMAIN program \ DOMAIN summaries :
                          CalledBy(program[f]) \subseteq DOMAIN summaries }
             f == CHOOSE g \in ready : TRUE
  <2>1. ready # {} /\ StartOn(f) /\ UNCHANGED <<program, phase, summaries, diags, autofree>>
    BY <1>1 DEF BeginSummary
  <2>2. f \in DOMAIN program
    BY <2>1
  <2>3. program \in Programs /\ FlowTyped
    BY DEF FlowInv, FlowTyped
  <2> HIDE DEF f
  <2> QED BY <2>1, <2>2, <2>3, StartTyped
<1>2. CASE BeginCheck
  <2> DEFINE f == CHOOSE g \in DOMAIN program \ DOMAIN autofree : TRUE
  <2>1. DOMAIN autofree # DOMAIN program /\ StartOn(f)
        /\ UNCHANGED <<program, phase, summaries, diags, autofree>>
    BY <1>2 DEF BeginCheck
  <2>3. program \in Programs /\ FlowTyped /\ DOMAIN autofree \subseteq DOMAIN program
    BY DEF FlowInv, FlowTyped
  <2>2. f \in DOMAIN program
    BY <2>1, <2>3
  <2> HIDE DEF f
  <2> QED BY <2>1, <2>2, <2>3, StartTyped
<1>3. CASE EndSummary
  <2>1. /\ fn # "" /\ fn' = "" /\ UNCHANGED <<program, flow, diags, autofree>>
        /\ \E s : summaries' = Over(Only(fn, s), summaries)
        /\ phase' \in {"summarize", "check", "done"}
    BY <1>3 DEF EndSummary
  <2>2. DOMAIN summaries' = {fn} \cup DOMAIN summaries
    BY <2>1 DEF Over, Only
  <2>3. FlowTyped'
    BY <2>1, <2>2 DEF FlowInv, FlowTyped, flow
  <2> QED BY <2>1, <2>3 DEF FlowInv
<1>4. CASE EndCheck
  <2>1. /\ fn # "" /\ fn' = "" /\ UNCHANGED <<program, flow, summaries>>
        /\ \E s : autofree' = Over(Only(fn, s), autofree)
        /\ phase' \in {"summarize", "check", "done"}
    BY <1>4 DEF EndCheck
  <2>2. DOMAIN autofree' = {fn} \cup DOMAIN autofree
    BY <2>1 DEF Over, Only
  <2>3. FlowTyped'
    BY <2>1, <2>2 DEF FlowInv, FlowTyped, flow
  <2> QED BY <2>1, <2>3 DEF FlowInv
<1>5. CASE Visit
  BY <1>5, VisitKeeps
<1>6. CASE UNCHANGED analysis
  <2>1. UNCHANGED <<program, phase, fn, inState, worklist, ctx, summaries, diags, autofree>>
    BY <1>6 DEF analysis, flow
  <2>2. FlowTyped'
    BY <2>1 DEF FlowInv, FlowTyped
  <2>3. \A b : Settled(b)' = Settled(b)
    BY <2>1 DEF Settled, Leaving, Transfer, Succ
  <2>4. \A b : Exhausted(b)' = Exhausted(b)
    BY <2>1 DEF Exhausted, Leaving, Transfer
  <2> QED BY <2>1, <2>2, <2>3, <2>4 DEF FlowInv
<1> QED BY <1>1, <1>2, <1>3, <1>4, <1>5, <1>6 DEF FlowNext

LEMMA FlowInvInit == FlowInit => FlowInv
<1> SUFFICES ASSUME FlowInit PROVE FlowInv
  OBVIOUS
<1>1. DOMAIN inState = {} /\ worklist = << >> /\ fn = "" /\ ctx = NoCtx
      /\ DOMAIN summaries = {} /\ DOMAIN autofree = {}
  <2>1. DOMAIN << >> = {}
    OBVIOUS
  <2> QED BY <2>1 DEF FlowInit
<1>2. worklist \in Seq(DOMAIN inState) /\ Distinct(worklist)
  <2>1. Len(<< >>) = 0 /\ << >> \in Seq({}) /\ 1..0 = {}
    OBVIOUS
  <2> QED BY <1>1, <2>1 DEF Distinct
<1> QED BY <1>1, <1>2, EmptyFlow DEF FlowInit, FlowInv, FlowTyped

\* The data flow of a function (_dataflow) ends in a solution of its equations, in
\* the lattice of the analysis, for every program.
THEOREM AnalysisConverges == FlowSpec => [](FlowTypeOK /\ Converged)
<1>1. FlowInv => FlowTypeOK /\ Converged
  <2> SUFFICES ASSUME FlowInv PROVE FlowTypeOK /\ Converged
    OBVIOUS
  <2>1. FlowTyped
    BY DEF FlowInv
  <2>2. FlowTypeOK
    <3>1. \A b \in DOMAIN inState : \A al \in DOMAIN inState[b].freed : inState[b].freed[al] \in {"a", "mf", "f"}
      <4> SUFFICES ASSUME NEW b \in DOMAIN inState, NEW al \in DOMAIN inState[b].freed
                   PROVE  inState[b].freed[al] \in Fates
        BY DEF Fates
      <4>1. inState[b].freed \in Maps(Allocations, Fates)
        BY <2>1 DEF FlowTyped, FlowStates
      <4> QED BY <4>1, MapIs
    <3>2. \A k \in 1..Len(worklist) : worklist[k] \in DOMAIN inState
      BY <2>1, ElementOfSeq DEF FlowTyped
    <3> QED BY <2>1, <3>1, <3>2 DEF FlowTyped, FlowTypeOK, Distinct
  <2>3. Converged
    <3> SUFFICES ASSUME fn # "", worklist = << >>
                 PROVE  /\ 1 \in DOMAIN inState
                        /\ \A b \in DOMAIN inState : Settled(b)
      BY DEF Converged, Settled
    <3>1. Members(worklist) = {}
      BY NoMembers
    <3> QED BY <2>1, <3>1 DEF FlowInv, FlowTyped
  <2> QED BY <2>2, <2>3
<1> QED BY <1>1, FlowInvInit, FlowInvStep, PTL DEF FlowSpec

\* Every free and every escape in a state of the solution was collected, and
\* revisiting a block would collect nothing.
LEMMA EndCollected ==
  ASSUME FlowInv, fn # "", worklist = << >>, NEW b \in DOMAIN inState
  PROVE  LET a == Leaving(fn, b, inState[b], ctx)
         IN  /\ a.escapedEver = ctx.escapedEver /\ a.freedEver = ctx.freedEver
             /\ a.derefed = ctx.derefed /\ a.returned = ctx.returned /\ a.diags = ctx.diags
             /\ Recorded(a) /\ Recorded(Carry(inState[b], ctx))
<1> DEFINE a == Leaving(fn, b, inState[b], ctx)
<1>1. FlowTyped /\ Exhausted(b) /\ Recorded(Carry(inState[b], ctx))
  BY NoMembers DEF FlowInv
<1>2. /\ program \in Programs /\ fn \in DOMAIN program /\ b \in Leaders(program[fn])
      /\ inState[b] \in FlowStates /\ ctx \in Facts
  BY <1>1 DEF FlowTyped
<1>3. a \in States /\ Goes(Carry(inState[b], ctx), a)
  BY <1>2, LeavingGoes
<1>4. Within(a, ctx)
  BY <1>1 DEF Exhausted
<1> HIDE DEF a
<1>5. Within(ctx, a) /\ Recorded(a)
  BY <1>1, <1>3 DEF Goes, Within, Carry
<1>6. a.returned \in BOOLEAN /\ ctx.returned \in BOOLEAN
  BY <1>2, <1>3 DEF States, Facts
<1> QED BY <1>1, <1>4, <1>5, <1>6 DEF Within, a

\* When the data flow of a function ends (_dataflow), what it collected accounts
\* for every block at its final state, for every program.
THEOREM AnalysisComplete == FlowSpec => []Complete
<1>1. FlowInv => Complete
  BY EndCollected DEF Complete
<1> QED BY <1>1, FlowInvInit, FlowInvStep, PTL DEF FlowSpec

\* The allocations that a function is to free at its returns (_check, autofree)
\* are neither freed nor escaped on any way through it that the analysis saw.
THEOREM FreesOnlyWhatIsHeld == FlowSpec => []OnlyHeldFreed
<1>1. FlowInv => OnlyHeldFreed
  <2> SUFFICES ASSUME FlowInv, fn # "", worklist = << >>, NEW al \in DOMAIN Leaked,
                      NEW x \in { inState[b] : b \in DOMAIN inState } \cup Exits
               PROVE  al \notin x.escaped /\ (al \in DOMAIN x.freed => x.freed[al] = "a")
    BY DEF OnlyHeldFreed
  <2>1. al \notin ctx.escapedEver /\ al \notin ctx.freedEver
    BY DEF Leaked
  <2>2. CASE x \in { inState[b] : b \in DOMAIN inState }
    <3>1. PICK b \in DOMAIN inState : x = inState[b]
      BY <2>2
    <3>2. Recorded(Carry(inState[b], ctx))
      BY EndCollected
    <3> QED BY <2>1, <3>1, <3>2 DEF Recorded, Carry
  <2>3. CASE x \in Exits
    <3>1. PICK b \in DOMAIN inState : x = Flow(Leaving(fn, b, inState[b], ctx))
      <4>1. 1 \in DOMAIN inState
        BY DEF FlowInv, FlowTyped
      <4> QED BY <2>3, <4>1 DEF Exits
    <3> DEFINE a == Leaving(fn, b, inState[b], ctx)
    <3>2. a.escapedEver = ctx.escapedEver /\ a.freedEver = ctx.freedEver /\ Recorded(a)
      BY EndCollected
    <3>3. x.escaped = a.escaped /\ x.freed = a.freed
      BY <3>1 DEF Flow
    <3> HIDE DEF a
    <3> QED BY <2>1, <3>2, <3>3 DEF Recorded
  <2> QED BY <2>2, <2>3
<1> QED BY <1>1, FlowInvInit, FlowInvStep, PTL DEF FlowSpec
=============================================================================
