---------------------------- MODULE VirtqueueProofs ----------------------------
(* Proofs about one virtqueue, whatever its size and however often its indices wrap: *)
(* taking and giving back chains loses no descriptor and uses none twice; the two    *)
(* rings, which the driver and the device write in two steps, carry the buffers as   *)
(* the queues of DescriptorPool do; so every buffer is in one hand at any time.      *)
EXTENDS Virtqueue, FiniteSetTheorems, SequenceTheorems, TLAPS

-------------------------------------------------------------------------------
(* The descriptor table.                                                           *)

\* fl is the witness of Accounted(t).
Lists(t, fl) ==
    /\ fl \in [1 .. t.avail -> Desc]
    /\ IsFreeList(t, fl)
    /\ \A d \in Desc : (\E i \in 1 .. t.avail : fl[i] = d)
                           <=> ~(\E h \in Busy(t) : d \in ChainOf(t, h))

\* Accounted by its parts, for a given free list.
LEMMA AccountedByList ==
    ASSUME NEW t, NEW fl, ChainsKept(t), ChainsApart(t), Lists(t, fl)
    PROVE  Accounted(t)
BY DEF Accounted, Lists

LEMMA ListOfAccounted ==
    ASSUME NEW t, Accounted(t)
    PROVE  ChainsKept(t) /\ ChainsApart(t) /\ \E fl : Lists(t, fl)
BY DEF Accounted, Lists

\* A list without repetition is no longer than the table.
LEMMA ListFits ==
    ASSUME TableSetUp, NEW n \in Nat, NEW fl \in [1 .. n -> Desc],
           \A i, j \in 1 .. n : fl[i] = fl[j] => i = j
    PROVE  n <= Num
<1>1. IsFiniteSet(Desc) /\ Cardinality(Desc) = Num
  BY FS_Interval DEF Desc, TableSetUp
<1>2. IsFiniteSet(1 .. n) /\ Cardinality(1 .. n) = n
  BY FS_Interval
<1>3. ~ (Num < n)
  <2>1. SUFFICES ASSUME Num < n PROVE FALSE
    OBVIOUS
  <2>2. \E x, y \in 1 .. n : x # y /\ fl[x] = fl[y]
    BY <1>1, <1>2, <2>1, FS_PigeonHole
  <2> QED  BY <2>2
<1> QED  BY <1>3 DEF TableSetUp

\* The empty table: all descriptors on the list, in order.
LEMMA InitAccounted ==
    ASSUME TableSetUp
    PROVE  TableInit \in Table /\ Accounted(TableInit) /\ Busy(TableInit) = {}
<1>1. TableInit \in Table
  BY DEF TableInit, Table, TableSetUp, Desc
<1>2. Busy(TableInit) = {}
  BY DEF TableInit, Busy
<1> DEFINE fl == [i \in 1 .. Num |-> i - 1]
<1>3. Lists(TableInit, fl)
  <2>1. fl \in [1 .. TableInit.avail -> Desc]
    BY DEF TableInit, TableSetUp, Desc
  <2>2. IsFreeList(TableInit, fl)
    <3>1. TableInit.avail = Num /\ TableInit.free = 0 /\ Num \in Nat \ {0}
      BY DEF TableInit, TableSetUp
    <3>2. ASSUME NEW i \in 1 .. Num
          PROVE  TableInit.next[fl[i]] = IF i = Num THEN End ELSE fl[i + 1]
      <4>1. fl[i] = i - 1 /\ i - 1 \in Desc
        BY <3>1 DEF Desc
      <4>2. TableInit.next[i - 1] = i
        BY <3>1, <4>1 DEF TableInit
      <4> QED  BY <3>1, <4>1, <4>2 DEF End
    <3>3. \A i, j \in 1 .. Num : fl[i] = fl[j] => i = j
      BY <3>1
    <3> HIDE DEF fl
    <3>4. fl[1] = 0
      BY <3>1 DEF fl
    <3> QED  BY <3>1, <3>2, <3>3, <3>4 DEF IsFreeList
  <2>3. ASSUME NEW d \in Desc PROVE \E i \in 1 .. TableInit.avail : fl[i] = d
    <3>1. d + 1 \in 1 .. Num /\ fl[d + 1] = d
      BY DEF Desc, TableSetUp
    <3> QED  BY <3>1 DEF TableInit
  <2> QED  BY <1>2, <2>1, <2>2, <2>3 DEF Lists
<1>4. ChainsKept(TableInit) /\ ChainsApart(TableInit)
  BY <1>2 DEF ChainsKept, ChainsApart
<1> HIDE DEF fl
<1> QED  BY <1>1, <1>2, <1>3, <1>4, AccountedByList

\* A map stays one of its kind when something of that kind is put into it.
LEMMA PutKeeps ==
    ASSUME NEW A, NEW B, NEW f \in [A -> B], NEW a, NEW b \in B
    PROVE  [f EXCEPT ![a] = b] \in [A -> B]
OBVIOUS

\* Taking n descriptors: the head of the list becomes the head of a chain.
LEMMA TakeAccounted ==
    ASSUME TableSetUp, NEW t \in Table, Accounted(t), NEW c \in Cookies,
           NEW n \in 1 .. 2, ~Refuses(t, n)
    PROVE  /\ t.free \in Desc \ Busy(t)
           /\ Take(t, c, n) \in Table
           /\ Accounted(Take(t, c, n))
           /\ Busy(Take(t, c, n)) = Busy(t) \cup {t.free}
<1> DEFINE u == Take(t, c, n)
           h == t.free
           l == LastTaken(t, n)
<1>1. ChainsKept(t) /\ ChainsApart(t)
  BY ListOfAccounted
<1>2. PICK fl : Lists(t, fl)
  BY ListOfAccounted
<1>3. t.avail \in Nat /\ n <= t.avail /\ t.next \in [Desc -> 0 .. Num]
         /\ t.more \in [Desc -> BOOLEAN] /\ t.cookie \in [Desc -> Cookies \cup {Null}]
         /\ t.count \in [Desc -> 0 .. 2] /\ t.avail <= Num
  BY DEF Table, Refuses, TableSetUp
<1>4. fl \in [1 .. t.avail -> Desc] /\ IsFreeList(t, fl)
  BY <1>2 DEF Lists
<1>5. h = fl[1] /\ h \in Desc /\ 1 \in 1 .. t.avail
  BY <1>3, <1>4 DEF IsFreeList
<1>6. l = fl[n] /\ l \in Desc /\ n \in 1 .. t.avail
  <2>1. CASE n = 1
    BY <2>1, <1>5 DEF LastTaken
  <2>2. CASE n = 2
    <3>1. t.next[fl[1]] = fl[2]
      <4>1. 1 # t.avail /\ 1 + 1 = 2
        BY <1>3, <2>2
      <4> QED  BY <4>1, <1>4, <1>5 DEF IsFreeList
    <3> QED  BY <3>1, <2>2, <1>3, <1>4, <1>5 DEF LastTaken
  <2> QED  BY <2>1, <2>2
<1>7. (h = l) <=> (n = 1)
  BY <1>4, <1>5, <1>6 DEF IsFreeList
<1>8. \A g \in Busy(t) : h \notin ChainOf(t, g) /\ l \notin ChainOf(t, g)
  BY <1>2, <1>5, <1>6 DEF Lists
<1>9. h \notin Busy(t)
  BY <1>8 DEF ChainOf
<1>10. /\ u.next = [t.next EXCEPT ![l] = 0]
       /\ u.more = [d \in Desc |-> IF d = l THEN FALSE ELSE IF d = h THEN TRUE ELSE t.more[d]]
       /\ u.free = t.next[l] /\ u.avail = t.avail - n
       /\ u.cookie = [t.cookie EXCEPT ![h] = c] /\ u.count = [t.count EXCEPT ![h] = n]
  BY DEF Take
<1> HIDE DEF u, h, l
<1>11. u \in Table
  <2>1. u.next \in [Desc -> 0 .. Num] /\ u.free \in 0 .. Num /\ u.avail \in 0 .. Num
    BY <1>3, <1>6, <1>10 DEF TableSetUp
  <2>2. u.more \in [Desc -> BOOLEAN]
    <3>1. \A d \in Desc : (IF d = l THEN FALSE ELSE IF d = h THEN TRUE ELSE t.more[d]) \in BOOLEAN
      BY <1>3
    <3>2. u.more = [d \in Desc |-> IF d = l THEN FALSE ELSE IF d = h THEN TRUE ELSE t.more[d]]
      BY <1>10
    <3> QED  BY ONLY <3>1, <3>2, Zenon
  <2>3. u.cookie \in [Desc -> Cookies \cup {Null}] /\ u.count \in [Desc -> 0 .. 2]
    <3>1. c \in Cookies \cup {Null} /\ n \in 0 .. 2
      OBVIOUS
    <3>2. [t.cookie EXCEPT ![h] = c] \in [Desc -> Cookies \cup {Null}]
      BY ONLY <3>1, <1>3, PutKeeps
    <3>3. [t.count EXCEPT ![h] = n] \in [Desc -> 0 .. 2]
      BY ONLY <3>1, <1>3, PutKeeps
    <3> QED  BY <3>2, <3>3, <1>10
  <2>4. u = [next |-> u.next, more |-> u.more, free |-> u.free, avail |-> u.avail,
             cookie |-> u.cookie, count |-> u.count]
    BY DEF Take, u
  <2> QED  BY <2>1, <2>2, <2>3, <2>4 DEF Table
<1>12. Busy(u) = Busy(t) \cup {h}
  <2>1. c # Null
    BY DEF TableSetUp
  <2> QED  BY <1>3, <1>5, <1>10, <2>1 DEF Busy
<1> DEFINE gl == [i \in 1 .. t.avail - n |-> fl[i + n]]
<1>13. ASSUME NEW g \in Busy(t)
       PROVE  ChainOf(u, g) = ChainOf(t, g) /\ u.more[g] = t.more[g]
                /\ u.next[g] = t.next[g] /\ u.count[g] = t.count[g] /\ g # h /\ g \in Desc
  <2>1. g # h /\ g # l /\ g \in Desc
    BY <1>8 DEF ChainOf, Busy
  <2>2. u.more[g] = t.more[g]
    BY <2>1, <1>10, Zenon
  <2>3. u.next[g] = t.next[g] /\ u.count[g] = t.count[g]
    BY <2>1, <1>10, <1>3
  <2> QED  BY <2>1, <2>2, <2>3 DEF ChainOf
<1>14. ChainOf(u, h) = {h, l} /\ (u.more[h] <=> n = 2) /\ (n = 2 => u.next[h] = l)
  <2>1. u.more[h] <=> n = 2
    <3>1. (n = 2) <=> (h # l)
      BY <1>7
    <3> QED  BY <3>1, <1>5, <1>10, Zenon
  <2>2. n = 2 => u.next[h] = l
    <3>1. SUFFICES ASSUME n = 2 PROVE u.next[h] = l
      OBVIOUS
    <3>2. t.next[h] = l
      BY <3>1 DEF LastTaken, h, l
    <3> QED  BY <3>1, <3>2, <1>3, <1>5, <1>7, <1>10
  <2>3. CASE n = 1
    BY <2>1, <2>2, <2>3, <1>7 DEF ChainOf
  <2>4. CASE n = 2
    BY <2>1, <2>2, <2>4, <1>7 DEF ChainOf
  <2> QED  BY <2>1, <2>2, <2>3, <2>4
<1>15. ChainsKept(u)
  <2>1. SUFFICES ASSUME NEW g \in Busy(u)
                 PROVE  /\ u.count[g] = IF u.more[g] THEN 2 ELSE 1
                        /\ u.more[g] => u.next[g] \in Desc \ {g}
    BY DEF ChainsKept, Busy
  <2>2. CASE g = h
    <3>1. u.count[g] = n
      BY <2>2, <1>3, <1>5, <1>10
    <3> QED  BY <2>2, <3>1, <1>6, <1>7, <1>14
  <2>3. CASE g # h
    <3>1. g \in Busy(t)
      BY <2>1, <2>3, <1>12
    <3> QED  BY <3>1, <1>1, <1>13 DEF ChainsKept
  <2> QED  BY <2>2, <2>3
<1>16. ChainsApart(u)
  BY <1>1, <1>8, <1>12, <1>13, <1>14 DEF ChainsApart
<1>17. Lists(u, gl)
  <2>1. u.avail \in Nat /\ u.avail = t.avail - n
    BY <1>3, <1>10
  <2>2. gl \in [1 .. u.avail -> Desc]
    BY <2>1, <1>3, <1>4
  <2>3. \A i \in 1 .. u.avail : gl[i] = fl[i + n] /\ i + n \in 1 .. t.avail /\ gl[i] # l
    BY <2>1, <1>3, <1>4, <1>6 DEF IsFreeList
  <2>4. IsFreeList(u, gl)
    <3>1. u.free = IF u.avail = 0 THEN End ELSE gl[1]
      BY <2>1, <2>3, <1>3, <1>4, <1>6, <1>10 DEF IsFreeList
    <3>2. ASSUME NEW i \in 1 .. u.avail
          PROVE  u.next[gl[i]] = IF i = u.avail THEN End ELSE gl[i + 1]
      <4>1. u.next[gl[i]] = t.next[fl[i + n]]
        BY <2>2, <2>3, <1>3, <1>10
      <4>2. t.next[fl[i + n]] = IF i + n = t.avail THEN End ELSE fl[i + n + 1]
        BY <2>3, <1>4 DEF IsFreeList
      <4>3. i # u.avail => gl[i + 1] = fl[i + n + 1]
        BY <2>1, <1>3
      <4> QED  BY <4>1, <4>2, <4>3, <2>1, <1>3
    <3>3. \A i, j \in 1 .. u.avail : gl[i] = gl[j] => i = j
      <4> SUFFICES ASSUME NEW i \in 1 .. u.avail, NEW j \in 1 .. u.avail, gl[i] = gl[j]
                   PROVE  i = j
        OBVIOUS
      <4>1. i + n = j + n
        BY <2>3, <1>4 DEF IsFreeList
      <4> QED  BY <4>1, <2>1
    <3> QED  BY <3>1, <3>2, <3>3 DEF IsFreeList
  <2>5. ASSUME NEW d \in Desc
        PROVE  (\E i \in 1 .. u.avail : gl[i] = d)
                   <=> ~(\E g \in Busy(u) : d \in ChainOf(u, g))
    <3>1. (\E i \in 1 .. u.avail : gl[i] = d)
             <=> (\E i \in 1 .. t.avail : fl[i] = d) /\ d # h /\ d # l
      <4>1. ASSUME NEW i \in 1 .. u.avail, gl[i] = d
            PROVE  (\E j \in 1 .. t.avail : fl[j] = d) /\ d # h /\ d # l
        BY <4>1, <2>3, <2>1, <1>3, <1>4, <1>5, <1>6 DEF IsFreeList
      <4>2. ASSUME NEW j \in 1 .. t.avail, fl[j] = d, d # h, d # l
            PROVE  \E i \in 1 .. u.avail : gl[i] = d
        <5>1. j > n
          BY <4>2, <1>3, <1>5, <1>6
        <5>2. j - n \in 1 .. u.avail /\ gl[j - n] = fl[j]
          BY <5>1, <2>1, <1>3
        <5> QED  BY <5>2, <4>2
      <4> QED  BY <4>1, <4>2
    <3>2. (\E g \in Busy(u) : d \in ChainOf(u, g))
             <=> (\E g \in Busy(t) : d \in ChainOf(t, g)) \/ d = h \/ d = l
      BY <1>12, <1>13, <1>14
    <3>3. (\E i \in 1 .. t.avail : fl[i] = d)
             <=> ~(\E g \in Busy(t) : d \in ChainOf(t, g))
      BY <1>2 DEF Lists
    <3> QED  BY <3>1, <3>2, <3>3
  <2> QED  BY <2>2, <2>4, <2>5 DEF Lists
<1> HIDE DEF gl
<1>18. Accounted(u)
  BY <1>15, <1>16, <1>17, AccountedByList
<1> QED  BY <1>5, <1>9, <1>11, <1>12, <1>18 DEF u, h

\* Giving a chain back: it becomes the front of the free list.
LEMMA DetachAccounted ==
    ASSUME TableSetUp, NEW t \in Table, Accounted(t), NEW h \in Busy(t)
    PROVE  /\ Detach(t, h) \in Table
           /\ Accounted(Detach(t, h))
           /\ Busy(Detach(t, h)) = Busy(t) \ {h}
<1> DEFINE u == Detach(t, h)
           l == LastOf(t, h)
           n == IF Second(t, h) THEN 2 ELSE 1
<1>1. ChainsKept(t) /\ ChainsApart(t)
  BY ListOfAccounted
<1>2. PICK fl : Lists(t, fl)
  BY ListOfAccounted
<1>3. t.avail \in Nat /\ t.next \in [Desc -> 0 .. Num] /\ t.free \in 0 .. Num
         /\ t.more \in [Desc -> BOOLEAN] /\ t.cookie \in [Desc -> Cookies \cup {Null}]
         /\ t.count \in [Desc -> 0 .. 2]
  BY DEF Table, TableSetUp
<1>4. fl \in [1 .. t.avail -> Desc] /\ IsFreeList(t, fl) /\ h \in Desc
  BY <1>2 DEF Lists, Busy
<1>5. /\ Second(t, h) <=> t.more[h]
      /\ ChainOf(t, h) = {h, l} /\ l \in Desc
      /\ (h # l) <=> t.more[h]
      /\ l = IF t.more[h] THEN t.next[h] ELSE h
  <2>1. Second(t, h) <=> t.more[h]
    BY <1>1 DEF ChainsKept, Second
  <2>2. CASE t.more[h]
    BY <2>1, <2>2, <1>1 DEF ChainsKept, ChainOf, LastOf
  <2>3. CASE ~t.more[h]
    BY <2>1, <2>3, <1>4 DEF ChainOf, LastOf
  <2> QED  BY <2>1, <2>2, <2>3
<1>6. n \in 1 .. 2 /\ ((n = 2) <=> (h # l))
  BY <1>5
<1>7. \A i \in 1 .. t.avail : fl[i] # h /\ fl[i] # l
  <2>1. SUFFICES ASSUME NEW i \in 1 .. t.avail PROVE fl[i] # h /\ fl[i] # l
    OBVIOUS
  <2>2. fl[i] \in Desc
    BY <1>4
  <2>3. fl[i] \notin ChainOf(t, h)
    BY <2>2, <1>2 DEF Lists
  <2> QED  BY <2>3, <1>5
<1>8. /\ u.next = [t.next EXCEPT ![l] = t.free]
      /\ u.more = [t.more EXCEPT ![h] = FALSE, ![l] = FALSE]
      /\ u.free = h /\ u.avail = t.avail + n
      /\ u.cookie = [t.cookie EXCEPT ![h] = Null] /\ u.count = [t.count EXCEPT ![h] = 0]
      /\ u = [next |-> u.next, more |-> u.more, free |-> u.free, avail |-> u.avail,
              cookie |-> u.cookie, count |-> u.count]
  BY DEF Detach
<1> DEFINE gl == [i \in 1 .. t.avail + n |->
                    IF i = 1 THEN h ELSE IF i = n THEN l ELSE fl[i - n]]
<1> HIDE DEF u, l, n
<1>9. u.avail \in Nat /\ u.avail = t.avail + n /\ n <= u.avail
  BY <1>3, <1>6, <1>8
<1>10. gl[1] = h /\ gl[n] = l /\ \A i \in 1 .. t.avail : gl[i + n] = fl[i]
  <2>1. gl[1] = h
    BY <1>6, <1>9
  <2>2. gl[n] = l
    BY <1>6, <1>9
  <2>3. ASSUME NEW i \in 1 .. t.avail PROVE gl[i + n] = fl[i]
    BY <1>6, <1>9, <1>3
  <2> QED  BY <2>1, <2>2, <2>3
<1>11. \A i \in 1 .. u.avail : i = 1 \/ i = n \/ (i - n \in 1 .. t.avail /\ gl[i] = fl[i - n])
  <2>1. SUFFICES ASSUME NEW i \in 1 .. u.avail, i # 1, i # n
                 PROVE  i - n \in 1 .. t.avail /\ gl[i] = fl[i - n]
    BY <1>9
  <2>2. i - n \in 1 .. t.avail
    BY <2>1, <1>9, <1>6, <1>3
  <2> QED  BY <2>1, <2>2, <1>9
<1>12. gl \in [1 .. u.avail -> Desc]
  <2>1. ASSUME NEW i \in 1 .. u.avail PROVE gl[i] \in Desc
    BY <1>4, <1>5, <1>10, <1>11
  <2> QED  BY <2>1, <1>9
<1> HIDE DEF gl
<1>13. ASSUME NEW i \in 1 .. u.avail, NEW j \in 1 .. u.avail, gl[i] = gl[j]
       PROVE  i = j
  <2>1. CASE i = 1 \/ i = n
    BY <2>1, <1>13, <1>10, <1>11, <1>7, <1>6
  <2>2. CASE j = 1 \/ j = n
    BY <2>2, <1>13, <1>10, <1>11, <1>7, <1>6
  <2>3. CASE ~(i = 1 \/ i = n) /\ ~(j = 1 \/ j = n)
    <3>1. i - n = j - n
      BY <2>3, <1>13, <1>11, <1>4 DEF IsFreeList
    <3> QED  BY <3>1, <1>6
  <2> QED  BY <2>1, <2>2, <2>3
<1>14. u.avail <= Num
  BY <1>9, <1>12, <1>13, ListFits
<1>15. u \in Table
  <2>1. u.next \in [Desc -> 0 .. Num] /\ u.free \in 0 .. Num
    <3>1. h \in 0 .. Num
      BY <1>4 DEF Desc, TableSetUp
    <3> QED  BY <3>1, <1>3, <1>8
  <2>2. u.more \in [Desc -> BOOLEAN]
    <3>1. [t.more EXCEPT ![h] = FALSE] \in [Desc -> BOOLEAN]
      BY ONLY <1>3, PutKeeps
    <3>2. [t.more EXCEPT ![h] = FALSE, ![l] = FALSE] \in [Desc -> BOOLEAN]
      BY ONLY <3>1, PutKeeps
    <3> QED  BY <3>2, <1>8
  <2>3. u.cookie \in [Desc -> Cookies \cup {Null}]
    <3>1. [t.cookie EXCEPT ![h] = Null] \in [Desc -> Cookies \cup {Null}]
      BY ONLY <1>3, PutKeeps
    <3> QED  BY <3>1, <1>8
  <2>4. u.count \in [Desc -> 0 .. 2]
    <3>1. 0 \in 0 .. 2
      OBVIOUS
    <3>2. [t.count EXCEPT ![h] = 0] \in [Desc -> 0 .. 2]
      BY ONLY <3>1, <1>3, PutKeeps
    <3> QED  BY <3>2, <1>8
  <2>5. u.avail \in 0 .. Num
    BY <1>9, <1>14 DEF TableSetUp
  <2> QED  BY <2>1, <2>2, <2>3, <2>4, <2>5, <1>8 DEF Table
<1>16. Busy(u) = Busy(t) \ {h}
  BY <1>3, <1>4, <1>8 DEF Busy
<1>17. ASSUME NEW g \in Busy(u)
       PROVE  /\ ChainOf(u, g) = ChainOf(t, g) /\ u.more[g] = t.more[g]
              /\ u.next[g] = t.next[g] /\ u.count[g] = t.count[g]
              /\ g \in Busy(t) /\ h \notin ChainOf(t, g) /\ l \notin ChainOf(t, g)
  <2>1. g \in Busy(t) /\ g # h /\ g \in Desc
    BY <1>16 DEF Busy
  <2>2. h \notin ChainOf(t, g) /\ l \notin ChainOf(t, g)
    BY <2>1, <1>1, <1>5 DEF ChainsApart
  <2>3. g # l
    BY <2>2 DEF ChainOf
  <2>4. u.more[g] = t.more[g] /\ u.next[g] = t.next[g] /\ u.count[g] = t.count[g]
    BY <2>1, <2>3, <1>3, <1>8
  <2> QED  BY <2>1, <2>2, <2>4 DEF ChainOf
<1>18. ChainsKept(u) /\ ChainsApart(u)
  BY <1>1, <1>17 DEF ChainsKept, ChainsApart
<1>19. Lists(u, gl)
  <2>1. IsFreeList(u, gl)
    <3>1. u.free = IF u.avail = 0 THEN End ELSE gl[1]
      BY <1>6, <1>8, <1>9, <1>10
    <3>2. ASSUME NEW i \in 1 .. u.avail
          PROVE  u.next[gl[i]] = IF i = u.avail THEN End ELSE gl[i + 1]
      <4>1. CASE i = n
        <5>1. u.next[gl[i]] = t.free
          BY <4>1, <1>3, <1>5, <1>8, <1>10
        <5>2. CASE t.avail = 0
          BY <4>1, <5>1, <5>2, <1>4, <1>9 DEF IsFreeList
        <5>3. CASE t.avail # 0
          <6>1. t.free = fl[1] /\ 1 \in 1 .. t.avail
            BY <5>3, <1>3, <1>4 DEF IsFreeList
          <6>2. gl[1 + n] = fl[1]
            BY <6>1, <1>10
          <6>3. i + 1 = 1 + n /\ i # u.avail
            BY <4>1, <5>3, <1>3, <1>6, <1>9
          <6> QED  BY <5>1, <6>1, <6>2, <6>3
        <5> QED  BY <5>2, <5>3
      <4>2. CASE i = 1 /\ i # n
        <5>1. n = 2 /\ h # l /\ t.more[h] /\ l = t.next[h]
          BY <4>2, <1>5, <1>6
        <5>2. u.next[h] = l
          BY <5>1, <1>3, <1>4, <1>8
        <5>3. gl[i + 1] = l /\ i # u.avail
          BY <4>2, <5>1, <1>9, <1>10
        <5> QED  BY <4>2, <5>2, <5>3, <1>10
      <4>3. CASE i # 1 /\ i # n
        <5> DEFINE k == i - n
        <5>1. k \in 1 .. t.avail /\ gl[i] = fl[k] /\ fl[k] # l /\ fl[k] \in Desc
          BY <4>3, <1>4, <1>7, <1>11
        <5>2. u.next[gl[i]] = t.next[fl[k]]
          BY <5>1, <1>3, <1>8
        <5>3. t.next[fl[k]] = IF k = t.avail THEN End ELSE fl[k + 1]
          BY <5>1, <1>4 DEF IsFreeList
        <5>4. (k = t.avail) <=> (i = u.avail)
          BY <1>3, <1>6, <1>9
        <5>5. k # t.avail => gl[i + 1] = fl[k + 1]
          <6>1. SUFFICES ASSUME k # t.avail PROVE gl[i + 1] = fl[k + 1]
            OBVIOUS
          <6>2. k + 1 \in 1 .. t.avail /\ (k + 1) + n = i + 1
            BY <6>1, <5>1, <1>3, <1>6
          <6> QED  BY <6>2, <1>10
        <5> HIDE DEF k
        <5> QED  BY <5>2, <5>3, <5>4, <5>5
      <4> QED  BY <4>1, <4>2, <4>3
    <3> QED  BY <3>1, <3>2, <1>13 DEF IsFreeList
  <2>2. ASSUME NEW d \in Desc
        PROVE  (\E i \in 1 .. u.avail : gl[i] = d)
                   <=> ~(\E g \in Busy(u) : d \in ChainOf(u, g))
    <3>1. (\E i \in 1 .. u.avail : gl[i] = d)
             <=> (\E i \in 1 .. t.avail : fl[i] = d) \/ d = h \/ d = l
      <4>1. ASSUME NEW i \in 1 .. u.avail, gl[i] = d
            PROVE  (\E j \in 1 .. t.avail : fl[j] = d) \/ d = h \/ d = l
        BY <4>1, <1>10, <1>11
      <4>2. ASSUME NEW j \in 1 .. t.avail, fl[j] = d
            PROVE  \E i \in 1 .. u.avail : gl[i] = d
        <5>1. j + n \in 1 .. u.avail /\ gl[j + n] = d
          BY <4>2, <1>3, <1>6, <1>9, <1>10
        <5> QED  BY <5>1
      <4>3. 1 \in 1 .. u.avail /\ n \in 1 .. u.avail
        BY <1>6, <1>9
      <4> QED  BY <4>1, <4>2, <4>3, <1>10
    <3>2. (\E g \in Busy(t) : d \in ChainOf(t, g))
             <=> (\E g \in Busy(u) : d \in ChainOf(u, g)) \/ d = h \/ d = l
      <4>1. \A g \in Busy(u) : g \in Busy(t) /\ ChainOf(u, g) = ChainOf(t, g)
        BY <1>17
      <4>2. \A g \in Busy(t) : g = h \/ g \in Busy(u)
        BY <1>16
      <4> QED  BY <4>1, <4>2, <1>5
    <3>3. (\E g \in Busy(u) : d \in ChainOf(u, g)) => d # h /\ d # l
      BY <1>17
    <3>4. (\E i \in 1 .. t.avail : fl[i] = d)
             <=> ~(\E g \in Busy(t) : d \in ChainOf(t, g))
      BY <1>2 DEF Lists
    <3> QED  BY <3>1, <3>2, <3>3, <3>4
  <2> QED  BY <2>1, <2>2, <1>12 DEF Lists
<1>20. Accounted(u)
  BY <1>18, <1>19, AccountedByList
<1> QED  BY <1>15, <1>16, <1>20 DEF u

-------------------------------------------------------------------------------
(* The queues.                                                                     *)

\* The definitions of the descriptor table are the same in the queues' module.
LEMMA SameTable ==
    /\ Desc = Queue!Desc /\ End = Queue!End /\ TableInit = Queue!TableInit
    /\ \A t : Busy(t) = Queue!Busy(t)
    /\ \A t, n : Refuses(t, n) <=> Queue!Refuses(t, n)
    /\ \A t, c, n : Take(t, c, n) = Queue!Take(t, c, n)
    /\ \A t, h : Detach(t, h) = Queue!Detach(t, h)
BY DEF Desc, Queue!Desc, End, Queue!End, TableInit, Queue!TableInit, Busy, Queue!Busy,
       Refuses, Queue!Refuses, Take, Queue!Take, LastTaken, Queue!LastTaken,
       Detach, Queue!Detach, LastOf, Queue!LastOf, Second, Queue!Second

LEMMA SameAccount == Accounted(tab) /\ Queue!InOneHand => Queue!PoolAccounted
<1>1. Queue!Desc = Desc /\ Queue!End = End /\ Queue!Busy(tab) = Busy(tab)
  BY SameTable
<1>2. \A h : Queue!ChainOf(tab, h) = ChainOf(tab, h)
  BY DEF Queue!ChainOf, ChainOf
<1> SUFFICES ASSUME Accounted(tab) PROVE Queue!Accounted(tab)
  BY DEF Queue!PoolAccounted
<1>3. Queue!ChainsKept(tab) /\ Queue!ChainsApart(tab)
  BY <1>1, <1>2 DEF Accounted, Queue!ChainsKept, ChainsKept, Queue!ChainsApart, ChainsApart
<1>4. \A fl : IsFreeList(tab, fl) => Queue!IsFreeList(tab, fl)
  BY <1>1 DEF Queue!IsFreeList, IsFreeList
<1>5. PICK fl \in [1 .. tab.avail -> Desc] :
         /\ IsFreeList(tab, fl)
         /\ \A d \in Desc : (\E i \in 1 .. tab.avail : fl[i] = d)
                                <=> ~(\E h \in Busy(tab) : d \in ChainOf(tab, h))
  BY DEF Accounted
<1>6. fl \in [1 .. tab.avail -> Queue!Desc] /\ Queue!IsFreeList(tab, fl)
  BY <1>1, <1>4, <1>5
<1>7. ASSUME NEW d \in Queue!Desc
      PROVE  (\E i \in 1 .. tab.avail : fl[i] = d)
                 <=> ~(\E h \in Queue!Busy(tab) : d \in Queue!ChainOf(tab, h))
  <2>1. (\E i \in 1 .. tab.avail : fl[i] = d)
            <=> ~(\E h \in Busy(tab) : d \in ChainOf(tab, h))
    BY <1>1, <1>5
  <2> QED  BY <1>1, <1>2, <2>1
<1> QED  BY <1>3, <1>6, <1>7, Zenon DEF Queue!Accounted

\* What a queue holds after an append ...
LEMMA AppendElems ==
    ASSUME NEW S, NEW s \in Seq(S), NEW x \in S
    PROVE  /\ Append(s, x) \in Seq(S)
           /\ Queue!Elems(Append(s, x)) = Queue!Elems(s) \cup {x}
           /\ x \notin Queue!Elems(s) /\ Queue!Distinct(s) => Queue!Distinct(Append(s, x))
<1>1. Append(s, x) \in Seq(S) /\ Len(Append(s, x)) = Len(s) + 1 /\ Len(s) \in Nat
  OBVIOUS
<1>2. Append(s, x)[Len(s) + 1] = x /\ \A i \in 1 .. Len(s) : Append(s, x)[i] = s[i]
  OBVIOUS
<1>3. \A i \in 1 .. Len(s) + 1 : i \in 1 .. Len(s) \/ i = Len(s) + 1
  BY <1>1
<1>4. \A i \in 1 .. Len(s) : i \in 1 .. Len(s) + 1
  BY <1>1
<1>5. Len(s) + 1 \in 1 .. Len(s) + 1
  BY <1>1
<1> QED  BY <1>1, <1>2, <1>3, <1>4, <1>5 DEF Queue!Elems, Queue!Distinct

\* ... and after its head was taken.
LEMMA TailElems ==
    ASSUME NEW S, NEW s \in Seq(S), s # <<>>, Queue!Distinct(s)
    PROVE  /\ Tail(s) \in Seq(S) /\ Head(s) \in Queue!Elems(s) /\ Head(s) \in S
           /\ Queue!Elems(Tail(s)) = Queue!Elems(s) \ {Head(s)}
           /\ Queue!Distinct(Tail(s))
<1>1. Tail(s) \in Seq(S) /\ Len(Tail(s)) = Len(s) - 1 /\ Len(s) \in Nat \ {0}
        /\ Head(s) = s[1] /\ Head(s) \in S
  OBVIOUS
<1>2. \A i \in 1 .. Len(s) - 1 : Tail(s)[i] = s[i + 1] /\ i + 1 \in 1 .. Len(s) /\ i + 1 # 1
  BY <1>1
<1>3. \A i \in 1 .. Len(s) : i = 1 \/ (i - 1 \in 1 .. Len(s) - 1 /\ s[i] = Tail(s)[i - 1])
  <2>1. SUFFICES ASSUME NEW i \in 1 .. Len(s), i # 1
                 PROVE  i - 1 \in 1 .. Len(s) - 1 /\ s[i] = Tail(s)[i - 1]
    OBVIOUS
  <2>2. i - 1 \in 1 .. Len(s) - 1 /\ (i - 1) + 1 = i
    BY <1>1, <2>1
  <2> QED  BY <2>2, <1>2
<1>4. 1 \in 1 .. Len(s)
  BY <1>1
<1>5. Head(s) \in Queue!Elems(s)
  BY <1>1, <1>4 DEF Queue!Elems
<1>6. Queue!Elems(Tail(s)) = Queue!Elems(s) \ {Head(s)}
  <2>1. ASSUME NEW x \in Queue!Elems(Tail(s)) PROVE x \in Queue!Elems(s) \ {Head(s)}
    <3>1. PICK i \in 1 .. Len(s) - 1 : x = Tail(s)[i]
      BY <1>1, <2>1 DEF Queue!Elems
    <3>2. x = s[i + 1] /\ i + 1 \in 1 .. Len(s) /\ i + 1 # 1
      BY <3>1, <1>2
    <3> QED  BY <3>2, <1>1, <1>4 DEF Queue!Elems, Queue!Distinct
  <2>2. ASSUME NEW x \in Queue!Elems(s) \ {Head(s)} PROVE x \in Queue!Elems(Tail(s))
    <3>1. PICK i \in 1 .. Len(s) : x = s[i]
      BY DEF Queue!Elems
    <3>2. i # 1
      BY <3>1, <1>1
    <3> QED  BY <3>1, <3>2, <1>1, <1>3 DEF Queue!Elems
  <2> QED  BY <2>1, <2>2
<1>7. Queue!Distinct(Tail(s))
  <2>1. SUFFICES ASSUME NEW i \in 1 .. Len(s) - 1, NEW j \in 1 .. Len(s) - 1,
                        Tail(s)[i] = Tail(s)[j]
                 PROVE  i = j
    BY <1>1 DEF Queue!Distinct
  <2>2. i + 1 = j + 1
    BY <2>1, <1>2 DEF Queue!Distinct
  <2> QED  BY <2>2
<1> QED  BY <1>1, <1>5, <1>6, <1>7

\* The inductive invariant: types, and what the theorem says.
PoolInv ==
    /\ tab \in Table
    /\ Ready \in 0 .. Num
    /\ Offered \in Seq(Desc) /\ Returned \in Seq(Desc)
    /\ dev.held \in SUBSET Desc
    /\ Accounted(tab)
    /\ Queue!InOneHand

LEMMA EndIsNone == ASSUME TableSetUp PROVE End \notin Desc /\ End \in 0 .. Num
BY DEF TableSetUp, End, Desc

LEMMA PoolInit == ASSUME TableSetUp, Queue!Init PROVE PoolInv
<1>1. tab = TableInit /\ Ready = End /\ Offered = <<>> /\ dev.held = {} /\ Returned = <<>>
  BY SameTable DEF Queue!Init
<1>2. Queue!Elems(<<>>) = {} /\ Queue!Distinct(<<>>)
  BY DEF Queue!Elems, Queue!Distinct
<1>3. Queue!InOneHand
  BY <1>1, <1>2, InitAccounted, SameTable DEF Queue!InOneHand
<1> QED  BY <1>1, <1>3, InitAccounted, EndIsNone DEF PoolInv

LEMMA PoolStep == ASSUME TableSetUp, PoolInv, [Queue!Next]_(Queue!vars) PROVE PoolInv'
<1>1. /\ tab \in Table /\ Ready \in 0 .. Num /\ Offered \in Seq(Desc)
      /\ Returned \in Seq(Desc) /\ dev.held \in SUBSET Desc /\ Accounted(tab)
  BY DEF PoolInv
<1>2. /\ Busy(tab) = ({Ready} \ {End}) \cup Queue!Elems(Offered) \cup dev.held \cup Queue!Elems(Returned)
      /\ Queue!Distinct(Offered) /\ Queue!Distinct(Returned)
      /\ Queue!Elems(Offered) \cap Queue!Elems(Returned) = {}
      /\ dev.held \cap (Queue!Elems(Offered) \cup Queue!Elems(Returned)) = {}
      /\ Ready \notin Queue!Elems(Offered) \cup dev.held \cup Queue!Elems(Returned)
  BY SameTable DEF PoolInv, Queue!InOneHand
<1>3. Queue!Elems(Offered) \subseteq Desc /\ Queue!Elems(Returned) \subseteq Desc
  BY <1>1 DEF Queue!Elems
<1>4. ASSUME NEW c \in Cookies, NEW n \in 1 .. 2, Queue!Prepare(c, n) PROVE PoolInv'
  <2>1. /\ Ready = End /\ ~Refuses(tab, n) /\ tab' = Take(tab, c, n) /\ Ready' = tab.free
        /\ Offered' = Offered /\ dev'.held = dev.held /\ Returned' = Returned
    BY <1>4, SameTable DEF Queue!Prepare
  <2>2. /\ tab.free \in Desc \ Busy(tab) /\ tab' \in Table /\ Accounted(tab')
        /\ Busy(tab') = Busy(tab) \cup {tab.free}
    BY <1>1, <2>1, TakeAccounted
  <2>3. Ready' \in 0 .. Num /\ Ready' # End
    BY <2>1, <2>2, EndIsNone DEF Desc, TableSetUp
  <2>4. Queue!InOneHand'
    BY <1>2, <2>1, <2>2, <2>3, SameTable DEF Queue!InOneHand
  <2> QED  BY <1>1, <2>1, <2>2, <2>3, <2>4 DEF PoolInv
<1>5. CASE Queue!Publish
  <2>1. /\ Ready # End /\ Offered' = Append(Offered, Ready) /\ Ready' = End
        /\ tab' = tab /\ dev'.held = dev.held /\ Returned' = Returned
    BY <1>5, SameTable DEF Queue!Publish
  <2>2. Ready \in Desc
    BY <1>1, <2>1 DEF Desc, End, TableSetUp
  <2>3. /\ Offered' \in Seq(Desc) /\ Queue!Elems(Offered') = Queue!Elems(Offered) \cup {Ready}
        /\ Queue!Distinct(Offered')
    BY <1>1, <1>2, <2>1, <2>2, AppendElems
  <2>4. Ready' \notin Desc /\ Ready' \in 0 .. Num
    BY <2>1, EndIsNone
  <2>5. Queue!InOneHand'
    <3>1. Ready' \notin Queue!Elems(Offered') \cup dev.held \cup Queue!Elems(Returned)
      BY <1>1, <1>3, <2>2, <2>3, <2>4
    <3> QED  BY <1>2, <2>1, <2>3, <3>1, SameTable DEF Queue!InOneHand
  <2> QED  BY <1>1, <2>1, <2>3, <2>4, <2>5 DEF PoolInv
<1>6. CASE Queue!Fetch
  <2>1. /\ Offered # <<>> /\ dev'.held = dev.held \cup {Head(Offered)} /\ Offered' = Tail(Offered)
        /\ tab' = tab /\ Ready' = Ready /\ Returned' = Returned
    BY <1>6, SameTable DEF Queue!Fetch
  <2>2. /\ Offered' \in Seq(Desc) /\ Head(Offered) \in Queue!Elems(Offered) /\ Head(Offered) \in Desc
        /\ Queue!Elems(Offered') = Queue!Elems(Offered) \ {Head(Offered)} /\ Queue!Distinct(Offered')
    BY <1>1, <1>2, <2>1, TailElems
  <2>3. Queue!InOneHand'
    BY <1>2, <2>1, <2>2, SameTable DEF Queue!InOneHand
  <2> QED  BY <1>1, <2>1, <2>2, <2>3 DEF PoolInv
<1>7. ASSUME NEW h \in dev.held, Queue!Complete(h) PROVE PoolInv'
  <2>1. /\ dev'.held = dev.held \ {h} /\ Returned' = Append(Returned, h)
        /\ tab' = tab /\ Ready' = Ready /\ Offered' = Offered
    BY <1>7, SameTable DEF Queue!Complete
  <2>2. /\ h \in Desc /\ h \notin Queue!Elems(Returned) /\ h # Ready /\ h \notin Queue!Elems(Offered)
    BY <1>1, <1>2
  <2>3. Returned' \in Seq(Desc) /\ Queue!Elems(Returned') = Queue!Elems(Returned) \cup {h} /\ Queue!Distinct(Returned')
    BY <1>1, <1>2, <2>1, <2>2, AppendElems
  <2>4. Queue!InOneHand'
    BY <1>2, <2>1, <2>2, <2>3, SameTable DEF Queue!InOneHand
  <2> QED  BY <1>1, <2>1, <2>3, <2>4 DEF PoolInv
<1>8. CASE Queue!Reclaim
  <2>1. /\ Returned # <<>> /\ tab' = Detach(tab, Head(Returned)) /\ Returned' = Tail(Returned)
        /\ Ready' = Ready /\ Offered' = Offered /\ dev'.held = dev.held
    BY <1>8, SameTable DEF Queue!Reclaim
  <2>2. /\ Returned' \in Seq(Desc) /\ Head(Returned) \in Queue!Elems(Returned)
        /\ Queue!Elems(Returned') = Queue!Elems(Returned) \ {Head(Returned)} /\ Queue!Distinct(Returned')
    BY <1>1, <1>2, <2>1, TailElems
  <2>3. Head(Returned) \in Busy(tab)
    BY <1>2, <2>2
  <2>4. tab' \in Table /\ Accounted(tab') /\ Busy(tab') = Busy(tab) \ {Head(Returned)}
    BY <1>1, <2>1, <2>3, DetachAccounted
  <2>5. Queue!InOneHand'
    BY <1>2, <2>1, <2>2, <2>4, SameTable DEF Queue!InOneHand
  <2> QED  BY <1>1, <2>1, <2>2, <2>4, <2>5 DEF PoolInv
<1>9. CASE UNCHANGED Queue!vars
  <2>1. tab' = tab /\ Ready' = Ready /\ Offered' = Offered /\ dev'.held = dev.held /\ Returned' = Returned
    BY <1>9 DEF Queue!vars
  <2>2. Queue!InOneHand'
    BY <1>2, <2>1, SameTable DEF Queue!InOneHand
  <2> QED  BY <1>1, <2>1, <2>2 DEF PoolInv
<1> QED  BY <1>4, <1>5, <1>6, <1>7, <1>8, <1>9 DEF Queue!Next

\* For every size of the queue and every order of operations and completions: no
\* descriptor is lost or used twice, the free list is as long as desc_avail says, and
\* a buffer is in one hand (virtqueue_buffer_enqueue, virtqueue_detach_desc).
THEOREM PoolSafe == ASSUME TableSetUp PROVE Queue!Spec => []Queue!PoolAccounted
<1>1. Queue!Init => PoolInv
  BY PoolInit
<1>2. PoolInv /\ [Queue!Next]_(Queue!vars) => PoolInv'
  BY PoolStep
<1>3. PoolInv => Queue!PoolAccounted
  BY SameAccount DEF PoolInv
<1> QED  BY <1>1, <1>2, <1>3, PTL DEF Queue!Spec

-------------------------------------------------------------------------------
(* Remainders.                                                                     *)

LEMMA Division ==
    ASSUME NEW b \in Nat \ {0}, NEW a \in Int
    PROVE  a = b * (a \div b) + (a % b) /\ a \div b \in Int /\ a % b \in 0 .. b - 1
OBVIOUS

LEMMA RemainderOf ==
    ASSUME NEW b \in Nat \ {0}, NEW q \in Int, NEW r \in 0 .. b - 1
    PROVE  (b * q + r) % b = r
OBVIOUS

\* Numbers less than b apart leave different remainders.
LEMMA NearDiffer ==
    ASSUME NEW b \in Nat \ {0}, NEW x \in Int, NEW y \in Int, 0 < y - x, y - x < b
    PROVE  x % b # y % b
<1> SUFFICES ASSUME x % b = y % b PROVE FALSE
  OBVIOUS
<1> DEFINE p == x \div b
           q == y \div b
<1>1. x = b * p + (x % b) /\ y = b * q + (y % b) /\ p \in Int /\ q \in Int /\ x % b \in 0 .. b - 1
  BY Division
<1> HIDE DEF p, q
<1>2. y - x = b * (q - p)
  BY <1>1
<1>3. q - p > 0
  BY <1>1, <1>2
<1>4. b * (q - p) >= b
  BY <1>1, <1>3
<1> QED  BY <1>2, <1>4

\* Adding a multiple of b changes nothing.
LEMMA MultipleAdds ==
    ASSUME NEW b \in Nat \ {0}, NEW w \in Nat, w % b = 0, NEW a \in Int
    PROVE  (a + w) % b = a % b
<1>1. a = b * (a \div b) + (a % b) /\ a \div b \in Int /\ a % b \in 0 .. b - 1
  BY Division
<1>2. w = b * (w \div b) /\ w \div b \in Int
  BY Division
<1> DEFINE p == a \div b
           q == w \div b
           r == a % b
<1> HIDE DEF p, q, r
<1>3. a + w = b * (p + q) + r
  BY <1>1, <1>2 DEF p, q, r
<1>4. (b * (p + q) + r) % b = r
  <2>1. p + q \in Int /\ r \in 0 .. b - 1
    BY <1>1, <1>2 DEF p, q, r
  <2> QED  BY <2>1, RemainderOf
<1> QED  BY <1>3, <1>4 DEF r

\* The distance from one ring index up to another, round the ring.
LEMMA Distance ==
    ASSUME NEW w \in Nat \ {0}, NEW a \in 0 .. w - 1, NEW b \in 0 .. w - 1
    PROVE  (b - a) % w = IF a <= b THEN b - a ELSE b - a + w
<1>1. CASE a <= b
  <2>1. b - a \in 0 .. w - 1 /\ w * 0 + (b - a) = b - a
    BY <1>1
  <2>2. (w * 0 + (b - a)) % w = b - a
    BY <2>1, RemainderOf
  <2> QED  BY <1>1, <2>1, <2>2
<1>2. CASE ~(a <= b)
  <2>1. b - a + w \in 0 .. w - 1 /\ w * (-1) + (b - a + w) = b - a
    BY <1>2
  <2>2. (w * (-1) + (b - a + w)) % w = b - a + w
    BY <2>1, RemainderOf
  <2> QED  BY <1>2, <2>1, <2>2
<1> QED  BY <1>1, <1>2

\* The index after another.
LEMMA NextIndex ==
    ASSUME NEW w \in Nat \ {0}, NEW a \in 0 .. w - 1
    PROVE  (a + 1) % w = IF a = w - 1 THEN 0 ELSE a + 1
<1>1. CASE a = w - 1
  <2>1. w * 1 + 0 = a + 1 /\ 0 \in 0 .. w - 1
    BY <1>1
  <2>2. (w * 1 + 0) % w = 0
    BY <2>1, RemainderOf
  <2> QED  BY <1>1, <2>1, <2>2
<1>2. CASE a # w - 1
  <2>1. a + 1 \in 0 .. w - 1 /\ w * 0 + (a + 1) = a + 1
    BY <1>2
  <2>2. (w * 0 + (a + 1)) % w = a + 1
    BY <2>1, RemainderOf
  <2> QED  BY <1>2, <2>1, <2>2
<1> QED  BY <1>1, <1>2

-------------------------------------------------------------------------------
(* Windows of a ring.                                                              *)

Index == 0 .. W - 1

LEMMA Bounds ==
    ASSUME QueueSetUp
    PROVE  /\ Num \in Nat \ {0} /\ W \in Nat \ {0} /\ W > Num
           /\ \A a \in Index : a \in Int /\ 0 <= a /\ a < W
           /\ \A a \in Int : 0 <= a /\ a < W => a \in Index
BY DEF QueueSetUp, TableSetUp, Index

LEMMA Sizes ==
    ASSUME QueueSetUp
    PROVE  /\ Num \in Nat \ {0} /\ W \in Nat \ {0} /\ W > Num /\ W % Num = 0
           /\ \A x \in Int : x % Num \in Desc /\ (x + W) % Num = x % Num
<1>1. Num \in Nat \ {0} /\ W \in Nat \ {0} /\ W > Num /\ W % Num = 0
  BY DEF QueueSetUp, TableSetUp
<1>2. \A x \in Int : x % Num \in Desc /\ (x + W) % Num = x % Num
  BY <1>1, Division, MultipleAdds DEF Desc
<1> QED  BY <1>1, <1>2

LEMMA NextInRing ==
    ASSUME QueueSetUp, NEW a \in Index
    PROVE  (a + 1) % W \in Index
<1>1. a + 1 \in Int /\ W \in Nat \ {0}
  BY Bounds
<1> QED  BY <1>1, Division DEF Index

LEMMA WindowIsSeq ==
    ASSUME QueueSetUp, NEW r \in [Desc -> Desc], NEW from \in Index, NEW to \in Index
    PROVE  /\ Window(r, from, to) \in Seq(Desc)
           /\ Len(Window(r, from, to)) = (to - from) % W
           /\ (to - from) % W \in Index
           /\ \A i \in 1 .. (to - from) % W :
                 Window(r, from, to)[i] = r[(from + i - 1) % Num]
<1>1. (to - from) % W \in Index
  <2>1. to - from \in Int
    BY Bounds
  <2> QED  BY <2>1, Bounds, Division DEF Index
<1> DEFINE n == (to - from) % W
<1>2. n \in Nat
  BY <1>1, Sizes DEF Index
<1> HIDE DEF n
<1>3. \A i \in 1 .. n : r[(from + i - 1) % Num] \in Desc
  BY <1>2, Sizes DEF Index
<1>4. Window(r, from, to) = [i \in 1 .. n |-> r[(from + i - 1) % Num]]
  BY DEF Window, n
<1>5. [i \in 1 .. n |-> r[(from + i - 1) % Num]] \in [1 .. n -> Desc]
  BY <1>3
<1>6. Window(r, from, to) \in Seq(Desc) /\ Len(Window(r, from, to)) = n
  BY <1>2, <1>4, <1>5
<1> QED  BY <1>1, <1>4, <1>6 DEF n

\* The end of a window is its length away from its beginning, up to a round.
LEMMA WindowEnd ==
    ASSUME QueueSetUp, NEW from \in Index, NEW to \in Index
    PROVE  (from + ((to - from) % W)) % Num = to % Num
<1>1. (to - from) % W = IF from <= to THEN to - from ELSE to - from + W
  BY Sizes, Distance DEF Index
<1>2. from + ((to - from) % W) = to \/ from + ((to - from) % W) = to + W
  BY <1>1, Bounds
<1>3. to \in Int /\ to % Num = (to + W) % Num
  BY Bounds, Sizes
<1> QED  BY <1>2, <1>3

\* The slot at its end is not in a window that is shorter than the ring.
LEMMA WindowKept ==
    ASSUME QueueSetUp, NEW r \in [Desc -> Desc], NEW from \in Index, NEW to \in Index,
           (to - from) % W < Num, NEW x \in Desc
    PROVE  Window([r EXCEPT ![to % Num] = x], from, to) = Window(r, from, to)
<1> DEFINE n == (to - from) % W
           s == [r EXCEPT ![to % Num] = x]
<1>1. n \in Nat /\ n < Num /\ from \in Int /\ Num \in Nat \ {0}
  <2>1. to - from \in Int /\ W \in Nat \ {0} /\ from \in Int /\ Num \in Nat \ {0}
    BY Bounds
  <2> QED  BY <2>1, Division
<1>2. (from + n) % Num = to % Num
  BY WindowEnd
<1> HIDE DEF n
<1>3. ASSUME NEW i \in 1 .. n PROVE (from + i - 1) % Num # (from + n) % Num
  <2>1. from + i - 1 \in Int /\ from + n \in Int
        /\ 0 < (from + n) - (from + i - 1) /\ (from + n) - (from + i - 1) < Num
    BY <1>1
  <2> QED  BY <1>1, <2>1, NearDiffer
<1>4. ASSUME NEW i \in 1 .. n PROVE s[(from + i - 1) % Num] = r[(from + i - 1) % Num]
  <2>1. from + i - 1 \in Int
    BY <1>1
  <2>2. (from + i - 1) % Num \in Desc
    BY <2>1, Sizes
  <2> QED  BY <1>2, <1>3, <2>2
<1> QED  BY <1>4 DEF Window, n

\* Writing the slot and then moving the end appends.
LEMMA WindowAppended ==
    ASSUME QueueSetUp, NEW r \in [Desc -> Desc], NEW from \in Index, NEW to \in Index,
           (to - from) % W < Num
    PROVE  Window(r, from, (to + 1) % W) = Append(Window(r, from, to), r[to % Num])
<1> DEFINE n == (to - from) % W
           u == (to + 1) % W
           s == Window(r, from, to)
           t == Window(r, from, u)
<1>1. n = IF from <= to THEN to - from ELSE to - from + W
  BY Sizes, Distance DEF Index
<1>2. u = IF to = W - 1 THEN 0 ELSE to + 1
  BY Sizes, NextIndex DEF Index
<1>3. u \in Index
  <2> HIDE DEF u
  <2>1. u \in Int /\ 0 <= u /\ u < W
    BY <1>2, Bounds
  <2> QED  BY <2>1, Bounds
<1>4. (u - from) % W = IF from <= u THEN u - from ELSE u - from + W
  BY <1>3, Sizes, Distance DEF Index
<1>5. (u - from) % W = n + 1
  <2> HIDE DEF n, u
  <2>1. n < Num /\ Num < W /\ from \in 0 .. W - 1 /\ to \in 0 .. W - 1 /\ W \in Nat /\ Num \in Nat
    BY Sizes DEF n, Index
  <2>2. (IF from <= u THEN u - from ELSE u - from + W) = n + 1
    BY <1>1, <1>2, <2>1
  <2> QED  BY <1>4, <2>2
<1>6. /\ s \in Seq(Desc) /\ Len(s) = n /\ n \in Nat
      /\ \A i \in 1 .. n : s[i] = r[(from + i - 1) % Num]
  <2>1. /\ s \in Seq(Desc) /\ Len(s) = n /\ n \in Index
        /\ \A i \in 1 .. n : s[i] = r[(from + i - 1) % Num]
    BY WindowIsSeq
  <2> HIDE DEF n, s
  <2>2. n \in Nat
    BY <2>1, Bounds
  <2> QED  BY <2>1, <2>2
<1>7. /\ t \in Seq(Desc) /\ Len(t) = n + 1
      /\ \A i \in 1 .. n + 1 : t[i] = r[(from + i - 1) % Num]
  BY <1>3, <1>5, WindowIsSeq
<1>8. r[to % Num] \in Desc /\ r[to % Num] = r[(from + n) % Num]
  <2>1. to % Num \in Desc
    BY Bounds, Sizes
  <2>2. (from + n) % Num = to % Num
    BY WindowEnd
  <2> QED  BY <2>1, <2>2
<1>9. from \in Int
  BY Bounds
<1> HIDE DEF n, u, s, t
<1>10. /\ Append(s, r[to % Num]) \in Seq(Desc) /\ Len(Append(s, r[to % Num])) = n + 1
       /\ Append(s, r[to % Num])[n + 1] = r[to % Num]
       /\ \A i \in 1 .. n : Append(s, r[to % Num])[i] = s[i]
  BY <1>6, <1>8, AppendProperties
<1>11. ASSUME NEW i \in 1 .. n + 1 PROVE t[i] = Append(s, r[to % Num])[i]
  <2>1. CASE i \in 1 .. n
    BY <1>6, <1>7, <1>10, <2>1
  <2>2. CASE i = n + 1
    <3>1. from + i - 1 = from + n
      BY <1>6, <1>9, <2>2
    <3> QED  BY <1>7, <1>8, <1>10, <2>2, <3>1
  <2> QED  BY <1>6, <2>1, <2>2
<1>12. t = Append(s, r[to % Num])
  BY <1>7, <1>10, <1>11, SeqEqual
<1> QED  BY <1>12 DEF s, t, u

\* Moving the beginning takes the head off.
LEMMA WindowTail ==
    ASSUME QueueSetUp, NEW r \in [Desc -> Desc], NEW from \in Index, NEW to \in Index,
           from # to
    PROVE  /\ Window(r, from, to) # <<>>
           /\ Head(Window(r, from, to)) = r[from % Num]
           /\ Window(r, (from + 1) % W, to) = Tail(Window(r, from, to))
<1> DEFINE n == (to - from) % W
           u == (from + 1) % W
           s == Window(r, from, to)
           t == Window(r, u, to)
<1>1. n = IF from <= to THEN to - from ELSE to - from + W
  BY Sizes, Distance DEF Index
<1>2. u = IF from = W - 1 THEN 0 ELSE from + 1
  BY Sizes, NextIndex DEF Index
<1>3. u \in Index
  <2> HIDE DEF u
  <2>1. u \in Int /\ 0 <= u /\ u < W
    BY <1>2, Bounds
  <2> QED  BY <2>1, Bounds
<1>4. (to - u) % W = IF u <= to THEN to - u ELSE to - u + W
  BY <1>3, Sizes, Distance DEF Index
<1>5. n \in Nat \ {0} /\ (to - u) % W = n - 1
  <2> HIDE DEF n, u
  <2>1. from \in 0 .. W - 1 /\ to \in 0 .. W - 1 /\ W \in Nat
    BY Sizes DEF Index
  <2>2. n \in Nat \ {0} /\ (IF u <= to THEN to - u ELSE to - u + W) = n - 1
    BY <1>1, <1>2, <2>1
  <2> QED  BY <1>4, <2>2
<1>6. /\ s \in Seq(Desc) /\ Len(s) = n
      /\ \A i \in 1 .. n : s[i] = r[(from + i - 1) % Num]
  BY WindowIsSeq
<1>7. /\ t \in Seq(Desc) /\ Len(t) = n - 1
      /\ \A i \in 1 .. n - 1 : t[i] = r[(u + i - 1) % Num]
  BY <1>3, <1>5, WindowIsSeq
<1>8. \A i \in Nat : (u + i) % Num = (from + 1 + i) % Num
  <2> HIDE DEF u
  <2>1. SUFFICES ASSUME NEW i \in Nat PROVE (u + i) % Num = (from + 1 + i) % Num
    OBVIOUS
  <2>2. u + i \in Int /\ (from + 1 + i = u + i \/ from + 1 + i = (u + i) + W)
    <3>1. W \in Nat \ {0} /\ from \in Int
      BY Bounds
    <3> QED  BY <1>2, <3>1
  <2> QED  BY <2>2, Sizes
<1>9. from \in Int /\ u \in Int
  BY <1>3, Bounds
<1> HIDE DEF n, u, s, t
<1>10. s # <<>> /\ Head(s) = s[1]
  BY <1>5, <1>6
<1>11. Head(s) = r[from % Num]
  <2>1. 1 \in 1 .. n /\ from + 1 - 1 = from
    BY <1>5, <1>9
  <2>2. s[1] = r[(from + 1 - 1) % Num]
    BY <1>6, <2>1
  <2> QED  BY <1>10, <2>1, <2>2
<1>12. /\ Tail(s) \in Seq(Desc) /\ Len(Tail(s)) = n - 1
       /\ \A i \in 1 .. n - 1 : Tail(s)[i] = s[i + 1]
  BY <1>6, <1>10, HeadTailProperties
<1>13. ASSUME NEW i \in 1 .. n - 1 PROVE t[i] = Tail(s)[i]
  <2>1. i - 1 \in Nat /\ i + 1 \in 1 .. n /\ u + i - 1 = u + (i - 1)
        /\ from + (i + 1) - 1 = from + 1 + (i - 1)
    BY <1>5, <1>9
  <2>2. t[i] = r[(u + (i - 1)) % Num]
    BY <1>7, <2>1
  <2>3. s[i + 1] = r[(from + 1 + (i - 1)) % Num]
    BY <1>6, <2>1
  <2> QED  BY <1>8, <1>12, <2>1, <2>2, <2>3
<1>14. t = Tail(s)
  BY <1>7, <1>12, <1>13, SeqEqual
<1> QED  BY <1>10, <1>11, <1>14 DEF s, t, u

-------------------------------------------------------------------------------
(* The rings and the queues.                                                       *)

\* The types of the rings and the indices; a used slot that awaits its index holds
\* the chain the device writes; and the invariant of the queues.
RingTypes ==
    /\ drv \in [last : Index, written : BOOLEAN]
    /\ ring \in [avail : [Desc -> Desc], aidx : Index, used : [Desc -> Desc], uidx : Index]
    /\ dev \in [seen : Index, held : SUBSET Desc, writing : 0 .. Num, awake : BOOLEAN]
SlotWritten ==
    dev.writing # End => /\ dev.writing \in dev.held
                         /\ ring.used[ring.uidx % Num] = dev.writing
RingInv == RingTypes /\ SlotWritten /\ PoolInv

\* A list of descriptors that lacks one has room for it.
LEMMA Room ==
    ASSUME QueueSetUp, NEW s \in Seq(Desc), Queue!Distinct(s), NEW x \in Desc, x \notin Queue!Elems(s)
    PROVE  Len(s) < Num
<1> DEFINE t == Append(s, x)
<1>1. t \in Seq(Desc) /\ Queue!Distinct(t)
  BY AppendElems
<1>2. Len(t) = Len(s) + 1 /\ Len(s) \in Nat /\ Len(t) \in Nat
  OBVIOUS
<1> HIDE DEF t
<1>3. t \in [1 .. Len(t) -> Desc] /\ \A i, j \in 1 .. Len(t) : t[i] = t[j] => i = j
  BY <1>1 DEF Queue!Distinct
<1>4. Len(t) <= Num
  <2>1. TableSetUp /\ t \in [1 .. Len(t) -> Desc]
    BY <1>3, SameTable DEF QueueSetUp
  <2> QED  BY <1>2, <1>3, <2>1, ListFits
<1> QED  BY <1>2, <1>4, Sizes

\* What RingInv says, by the names of the rings.
LEMMA RingFacts ==
    ASSUME QueueSetUp, RingInv
    PROVE  /\ drv.last \in Index /\ drv.written \in BOOLEAN
           /\ ring.avail \in [Desc -> Desc] /\ ring.aidx \in Index
           /\ ring.used \in [Desc -> Desc] /\ ring.uidx \in Index
           /\ dev.seen \in Index /\ dev.held \in SUBSET Desc
           /\ dev.writing \in 0 .. Num /\ dev.awake \in BOOLEAN
           /\ ring.aidx % Num \in Desc /\ ring.uidx % Num \in Desc
           /\ Offered \in Seq(Desc) /\ Len(Offered) = (ring.aidx - dev.seen) % W
           /\ Returned \in Seq(Desc) /\ Len(Returned) = (ring.uidx - drv.last) % W
           /\ Queue!Distinct(Offered) /\ Queue!Distinct(Returned)
           /\ (Ready = End) <=> ~drv.written
           /\ Ready # End => Ready \in Desc \ Queue!Elems(Offered)
           /\ \A h \in dev.held : h \in Desc \ Queue!Elems(Returned)
<1>1. /\ drv.last \in Index /\ drv.written \in BOOLEAN
      /\ ring.avail \in [Desc -> Desc] /\ ring.aidx \in Index
      /\ ring.used \in [Desc -> Desc] /\ ring.uidx \in Index
      /\ dev.seen \in Index /\ dev.held \in SUBSET Desc
      /\ dev.writing \in 0 .. Num /\ dev.awake \in BOOLEAN
  BY DEF RingInv, RingTypes
<1>2. ring.aidx % Num \in Desc /\ ring.uidx % Num \in Desc
  BY <1>1, Bounds, Sizes
<1>3. /\ Offered \in Seq(Desc) /\ Len(Offered) = (ring.aidx - dev.seen) % W
      /\ Returned \in Seq(Desc) /\ Len(Returned) = (ring.uidx - drv.last) % W
  <2>1. /\ Window(ring.avail, dev.seen, ring.aidx) \in Seq(Desc)
        /\ Len(Window(ring.avail, dev.seen, ring.aidx)) = (ring.aidx - dev.seen) % W
    BY <1>1, WindowIsSeq
  <2>2. /\ Window(ring.used, drv.last, ring.uidx) \in Seq(Desc)
        /\ Len(Window(ring.used, drv.last, ring.uidx)) = (ring.uidx - drv.last) % W
    BY <1>1, WindowIsSeq
  <2> QED  BY <2>1, <2>2 DEF Offered, Returned
<1>4. End \notin Desc
  BY Sizes DEF End, Desc
<1>5. /\ drv.written => Ready = ring.avail[ring.aidx % Num] /\ Ready \in Desc
      /\ ~drv.written => Ready = End
  BY <1>1, <1>2 DEF Ready
<1>6. /\ Queue!Distinct(Offered) /\ Queue!Distinct(Returned)
      /\ Ready \notin Queue!Elems(Offered)
      /\ dev.held \cap Queue!Elems(Returned) = {}
  BY DEF RingInv, PoolInv, Queue!InOneHand
<1> QED  BY <1>1, <1>2, <1>3, <1>4, <1>5, <1>6

\* What the device has returned is in use for a buffer.
LEMMA UsedIsBusy ==
    ASSUME QueueSetUp, RingInv, HasUsed
    PROVE  UsedHead \in Busy(tab) /\ UsedCookie \in Cookies
<1>1. ring.used \in [Desc -> Desc] /\ drv.last \in Index /\ ring.uidx \in Index
  BY RingFacts
<1>2. /\ Window(ring.used, drv.last, ring.uidx) # <<>>
      /\ Head(Window(ring.used, drv.last, ring.uidx)) = ring.used[drv.last % Num]
  BY <1>1, WindowTail DEF HasUsed
<1>3. Returned # <<>> /\ Head(Returned) = UsedHead
  BY <1>2 DEF Returned, UsedHead
<1>4. Head(Returned) \in Queue!Elems(Returned)
  BY <1>3, RingFacts, TailElems
<1>5. UsedHead \in Busy(tab)
  BY <1>3, <1>4, SameTable DEF RingInv, PoolInv, Queue!InOneHand
<1>6. tab.cookie \in [Desc -> Cookies \cup {Null}]
  BY DEF RingInv, PoolInv, Table
<1> QED  BY <1>5, <1>6 DEF Busy, UsedCookie

\* Virtqueue's Prepare is the queue's: the slot is outside the offered ones.
LEMMA PrepareStep ==
    ASSUME QueueSetUp, RingInv, NEW c \in Cookies, NEW n \in 1 .. 2, Prepare(c, n)
    PROVE  Queue!Prepare(c, n) /\ RingTypes' /\ SlotWritten'
<1> DEFINE x == ring.aidx % Num
<1>1. /\ ~drv.written /\ ~Refuses(tab, n) /\ tab' = Take(tab, c, n) /\ dev' = dev
      /\ ring' = [ring EXCEPT !.avail[x] = tab.free]
      /\ drv' = [drv EXCEPT !.written = TRUE]
  BY DEF Prepare
<1>2. tab.free \in Desc \ Busy(tab)
  <2>1. TableSetUp /\ tab \in Table /\ Accounted(tab) /\ ~Refuses(tab, n)
    BY <1>1, SameTable DEF QueueSetUp, RingInv, PoolInv
  <2> QED  BY <2>1, TakeAccounted, SameTable
<1>3. tab.free \notin Queue!Elems(Offered)
  BY <1>2, SameTable DEF RingInv, PoolInv, Queue!InOneHand
<1>4. (ring.aidx - dev.seen) % W < Num
  BY <1>2, <1>3, RingFacts, Room
<1> HIDE DEF x
<1>5. x \in Desc /\ drv \in [last : Index, written : BOOLEAN]
      /\ ring \in [avail : [Desc -> Desc], aidx : Index, used : [Desc -> Desc], uidx : Index]
  BY RingFacts DEF x, RingInv, RingTypes
<1>6. /\ ring'.avail = [ring.avail EXCEPT ![x] = tab.free] /\ ring'.aidx = ring.aidx
      /\ ring'.used = ring.used /\ ring'.uidx = ring.uidx
      /\ drv'.last = drv.last /\ drv'.written
  BY <1>1, <1>5
<1>7. RingTypes'
  <2>1. tab.free \in Desc
    BY <1>2
  <2>2. ring' \in [avail : [Desc -> Desc], aidx : Index, used : [Desc -> Desc], uidx : Index]
    BY <1>1, <1>5, <2>1
  <2>3. drv' \in [last : Index, written : BOOLEAN]
    BY <1>1, <1>5
  <2> QED  BY <1>1, <2>2, <2>3 DEF RingInv, RingTypes
<1>8. SlotWritten'
  BY <1>1, <1>6 DEF RingInv, SlotWritten
<1>9. Offered' = Offered
  <2>1. Window([ring.avail EXCEPT ![ring.aidx % Num] = tab.free], dev.seen, ring.aidx)
            = Window(ring.avail, dev.seen, ring.aidx)
    <3>1. /\ ring.avail \in [Desc -> Desc] /\ dev.seen \in Index /\ ring.aidx \in Index
          /\ tab.free \in Desc
      BY <1>2, RingFacts
    <3> QED  BY <1>4, <3>1, WindowKept
  <2> QED  BY <1>1, <1>6, <2>1 DEF Offered, x
<1>10. Returned' = Returned
  BY <1>1, <1>6 DEF Returned
<1>11. Ready = Queue!End /\ Ready' = tab.free
  <2>1. Ready' = ring'.avail[x]
    BY <1>6 DEF Ready, x
  <2>2. ring'.avail[x] = tab.free
    BY <1>5, <1>6
  <2> QED  BY <1>1, <2>1, <2>2, SameTable DEF Ready
<1>12. ~Queue!Refuses(tab, n) /\ tab' = Queue!Take(tab, c, n)
  BY <1>1, SameTable
<1> QED  BY <1>1, <1>7, <1>8, <1>9, <1>10, <1>11, <1>12 DEF Queue!Prepare

\* Moving the index offers what the slot holds.
LEMMA PublishStep ==
    ASSUME QueueSetUp, RingInv, Publish
    PROVE  Queue!Publish /\ RingTypes' /\ SlotWritten'
<1>1. /\ drv.written /\ tab' = tab /\ dev' = dev
      /\ ring' = [ring EXCEPT !.aidx = (@ + 1) % W]
      /\ drv' = [drv EXCEPT !.written = FALSE]
  BY DEF Publish
<1>2. /\ drv \in [last : Index, written : BOOLEAN]
      /\ ring \in [avail : [Desc -> Desc], aidx : Index, used : [Desc -> Desc], uidx : Index]
  BY DEF RingInv, RingTypes
<1>3. (ring.aidx + 1) % W \in Index
  BY RingFacts, NextInRing
<1>4. /\ ring'.avail = ring.avail /\ ring'.aidx = (ring.aidx + 1) % W
      /\ ring'.used = ring.used /\ ring'.uidx = ring.uidx
      /\ drv'.last = drv.last /\ ~drv'.written
  BY <1>1, <1>2
<1>5. RingTypes'
  <2>1. ring' \in [avail : [Desc -> Desc], aidx : Index, used : [Desc -> Desc], uidx : Index]
    BY <1>1, <1>2, <1>3
  <2>2. drv' \in [last : Index, written : BOOLEAN]
    BY <1>1, <1>2
  <2> QED  BY <1>1, <2>1, <2>2 DEF RingInv, RingTypes
<1>6. SlotWritten'
  BY <1>1, <1>4 DEF RingInv, SlotWritten
<1>7. Ready = ring.avail[ring.aidx % Num] /\ Ready # End /\ Ready' = End
  BY <1>1, <1>4, RingFacts DEF Ready, End
<1>8. Offered' = Append(Offered, Ready)
  <2>1. Len(Offered) < Num
    BY <1>7, RingFacts, Room
  <2>2. (ring.aidx - dev.seen) % W < Num
    BY <2>1, RingFacts
  <2>3. Window(ring.avail, dev.seen, (ring.aidx + 1) % W)
            = Append(Window(ring.avail, dev.seen, ring.aidx), ring.avail[ring.aidx % Num])
    BY <2>2, RingFacts, WindowAppended
  <2> QED  BY <1>1, <1>4, <1>7, <2>3 DEF Offered
<1>9. Returned' = Returned
  BY <1>1, <1>4 DEF Returned
<1> QED  BY <1>1, <1>5, <1>6, <1>7, <1>8, <1>9, SameTable DEF Queue!Publish

\* Two different indices have a chain between them.
LEMMA ReclaimStep ==
    ASSUME QueueSetUp, RingInv, Reclaim
    PROVE  Queue!Reclaim /\ RingTypes' /\ SlotWritten'
<1>1. /\ drv.last # ring.uidx /\ tab' = Detach(tab, ring.used[drv.last % Num])
      /\ ring' = ring /\ dev' = dev
      /\ drv' = [drv EXCEPT !.last = (@ + 1) % W]
  BY DEF Reclaim, HasUsed, UsedHead
<1>2. drv \in [last : Index, written : BOOLEAN] /\ (drv.last + 1) % W \in Index
  BY RingFacts, NextInRing DEF RingInv, RingTypes
<1>3. drv'.last = (drv.last + 1) % W /\ drv'.written = drv.written
      /\ drv' \in [last : Index, written : BOOLEAN]
  BY <1>1, <1>2
<1>4. RingTypes' /\ SlotWritten'
  BY <1>1, <1>3 DEF RingInv, RingTypes, SlotWritten
<1>5. Ready' = Ready /\ Offered' = Offered
  BY <1>1, <1>3 DEF Ready, Offered
<1>6. Returned # <<>> /\ Head(Returned) = ring.used[drv.last % Num]
      /\ Returned' = Tail(Returned)
  <2>1. ring.used \in [Desc -> Desc] /\ drv.last \in Index /\ ring.uidx \in Index
    BY RingFacts
  <2>2. /\ Window(ring.used, drv.last, ring.uidx) # <<>>
        /\ Head(Window(ring.used, drv.last, ring.uidx)) = ring.used[drv.last % Num]
        /\ Window(ring.used, (drv.last + 1) % W, ring.uidx)
              = Tail(Window(ring.used, drv.last, ring.uidx))
    BY <1>1, <2>1, WindowTail
  <2> QED  BY <1>1, <1>3, <2>2 DEF Returned
<1>7. tab' = Queue!Detach(tab, Head(Returned))
  BY <1>1, <1>6, SameTable
<1> QED  BY <1>1, <1>4, <1>5, <1>6, <1>7 DEF Queue!Reclaim

LEMMA FetchStep ==
    ASSUME QueueSetUp, RingInv, DevFetch
    PROVE  Queue!Fetch /\ RingTypes' /\ SlotWritten'
<1>1. /\ dev.seen # ring.aidx /\ tab' = tab /\ ring' = ring /\ drv' = drv
      /\ dev' = [dev EXCEPT !.held = @ \cup {ring.avail[dev.seen % Num]},
                            !.seen = (@ + 1) % W]
  BY DEF DevFetch
<1>2. /\ dev \in [seen : Index, held : SUBSET Desc, writing : 0 .. Num, awake : BOOLEAN]
      /\ (dev.seen + 1) % W \in Index
  BY RingFacts, NextInRing DEF RingInv, RingTypes
<1>3. dev.seen % Num \in Desc /\ ring.avail[dev.seen % Num] \in Desc
  <2>1. dev.seen % Num \in Desc
    BY RingFacts, Bounds, Sizes
  <2> QED  BY <2>1, RingFacts
<1>4. /\ dev'.seen = (dev.seen + 1) % W /\ dev'.writing = dev.writing
      /\ dev'.held = dev.held \cup {ring.avail[dev.seen % Num]}
      /\ dev' \in [seen : Index, held : SUBSET Desc, writing : 0 .. Num, awake : BOOLEAN]
  BY <1>1, <1>2, <1>3
<1>5. RingTypes' /\ SlotWritten'
  BY <1>1, <1>4 DEF RingInv, RingTypes, SlotWritten
<1>6. Ready' = Ready /\ Returned' = Returned
  BY <1>1 DEF Ready, Returned
<1>7. Offered # <<>> /\ Head(Offered) = ring.avail[dev.seen % Num]
      /\ Offered' = Tail(Offered)
  <2>1. ring.avail \in [Desc -> Desc] /\ dev.seen \in Index /\ ring.aidx \in Index
    BY RingFacts
  <2>2. /\ Window(ring.avail, dev.seen, ring.aidx) # <<>>
        /\ Head(Window(ring.avail, dev.seen, ring.aidx)) = ring.avail[dev.seen % Num]
        /\ Window(ring.avail, (dev.seen + 1) % W, ring.aidx)
              = Tail(Window(ring.avail, dev.seen, ring.aidx))
    BY <1>1, <2>1, WindowTail
  <2> QED  BY <1>1, <1>4, <2>2 DEF Offered
<1> QED  BY <1>1, <1>4, <1>5, <1>6, <1>7 DEF Queue!Fetch

\* The device writes a slot outside the returned ones: nothing has happened yet.
LEMMA WriteStep ==
    ASSUME QueueSetUp, RingInv, NEW h \in dev.held, DevWrite(h)
    PROVE  UNCHANGED Queue!vars /\ RingTypes' /\ SlotWritten'
<1> DEFINE x == ring.uidx % Num
<1>1. /\ tab' = tab /\ drv' = drv
      /\ ring' = [ring EXCEPT !.used[x] = h]
      /\ dev' = [dev EXCEPT !.writing = h]
  BY DEF DevWrite
<1> HIDE DEF x
<1>2. /\ x \in Desc /\ h \in Desc /\ h \notin Queue!Elems(Returned)
      /\ dev \in [seen : Index, held : SUBSET Desc, writing : 0 .. Num, awake : BOOLEAN]
      /\ ring \in [avail : [Desc -> Desc], aidx : Index, used : [Desc -> Desc], uidx : Index]
  BY RingFacts DEF x, RingInv, RingTypes
<1>3. /\ ring'.avail = ring.avail /\ ring'.aidx = ring.aidx
      /\ ring'.used = [ring.used EXCEPT ![x] = h] /\ ring'.uidx = ring.uidx
      /\ dev'.seen = dev.seen /\ dev'.held = dev.held /\ dev'.writing = h
  BY <1>1, <1>2
<1>4. RingTypes'
  <2>1. h \in 0 .. Num
    BY <1>2, Sizes DEF Desc
  <2>2. ring' \in [avail : [Desc -> Desc], aidx : Index, used : [Desc -> Desc], uidx : Index]
    BY <1>1, <1>2
  <2>3. dev' \in [seen : Index, held : SUBSET Desc, writing : 0 .. Num, awake : BOOLEAN]
    BY <1>1, <1>2, <2>1
  <2> QED  BY <1>1, <2>2, <2>3 DEF RingInv, RingTypes
<1>5. SlotWritten'
  <2>1. ring'.used[ring'.uidx % Num] = h
    BY <1>2, <1>3 DEF x
  <2> QED  BY <1>3, <2>1 DEF SlotWritten
<1>6. Returned' = Returned
  <2>1. /\ ring.used \in [Desc -> Desc] /\ drv.last \in Index /\ ring.uidx \in Index
    BY RingFacts
  <2>2. (ring.uidx - drv.last) % W < Num
    BY <1>2, RingFacts, Room
  <2>3. Window([ring.used EXCEPT ![ring.uidx % Num] = h], drv.last, ring.uidx)
            = Window(ring.used, drv.last, ring.uidx)
    <3>1. h \in Desc
      BY <1>2
    <3> QED  BY <2>1, <2>2, <3>1, WindowKept
  <2> QED  BY <1>1, <1>3, <2>3 DEF Returned, x
<1>7. Ready' = Ready /\ Offered' = Offered
  BY <1>1, <1>3 DEF Ready, Offered
<1> QED  BY <1>1, <1>3, <1>4, <1>5, <1>6, <1>7 DEF Queue!vars

\* Moving the used index returns the chain.
LEMMA CompleteStep ==
    ASSUME QueueSetUp, RingInv, DevPublish
    PROVE  /\ dev.writing \in dev.held /\ Queue!Complete(dev.writing)
           /\ RingTypes' /\ SlotWritten'
<1>1. /\ dev.writing # End /\ tab' = tab /\ drv' = drv
      /\ ring' = [ring EXCEPT !.uidx = (@ + 1) % W]
      /\ dev' = [dev EXCEPT !.held = @ \ {dev.writing}, !.writing = End]
  BY DEF DevPublish
<1>2. /\ dev.writing \in dev.held /\ ring.used[ring.uidx % Num] = dev.writing
      /\ dev.writing \in Desc /\ dev.writing \notin Queue!Elems(Returned)
  BY <1>1, RingFacts DEF RingInv, SlotWritten
<1>3. /\ dev \in [seen : Index, held : SUBSET Desc, writing : 0 .. Num, awake : BOOLEAN]
      /\ ring \in [avail : [Desc -> Desc], aidx : Index, used : [Desc -> Desc], uidx : Index]
      /\ (ring.uidx + 1) % W \in Index
  BY RingFacts, NextInRing DEF RingInv, RingTypes
<1>4. /\ ring'.avail = ring.avail /\ ring'.aidx = ring.aidx
      /\ ring'.used = ring.used /\ ring'.uidx = (ring.uidx + 1) % W
      /\ dev'.seen = dev.seen /\ dev'.held = dev.held \ {dev.writing} /\ dev'.writing = End
  BY <1>1, <1>3
<1>5. RingTypes' /\ SlotWritten'
  <2>1. End \in 0 .. Num
    BY Sizes DEF End
  <2>2. ring' \in [avail : [Desc -> Desc], aidx : Index, used : [Desc -> Desc], uidx : Index]
    BY <1>1, <1>3
  <2>3. dev' \in [seen : Index, held : SUBSET Desc, writing : 0 .. Num, awake : BOOLEAN]
    BY <1>1, <1>3, <2>1
  <2> QED  BY <1>1, <1>4, <2>2, <2>3 DEF RingInv, RingTypes, SlotWritten
<1>6. Returned' = Append(Returned, dev.writing)
  <2>1. /\ ring.used \in [Desc -> Desc] /\ drv.last \in Index /\ ring.uidx \in Index
    BY RingFacts
  <2>2. (ring.uidx - drv.last) % W < Num
    BY <1>2, RingFacts, Room
  <2>3. Window(ring.used, drv.last, (ring.uidx + 1) % W)
            = Append(Window(ring.used, drv.last, ring.uidx), ring.used[ring.uidx % Num])
    BY <2>1, <2>2, WindowAppended
  <2> QED  BY <1>1, <1>2, <1>4, <2>3 DEF Returned
<1>7. Ready' = Ready /\ Offered' = Offered
  BY <1>1, <1>4 DEF Ready, Offered
<1> QED  BY <1>1, <1>2, <1>4, <1>5, <1>6, <1>7 DEF Queue!Complete

\* Notifying and going to sleep touch no ring.
LEMMA SignalStep ==
    ASSUME QueueSetUp, RingInv, Notify \/ DevSleep
    PROVE  UNCHANGED Queue!vars /\ RingTypes' /\ SlotWritten'
<1>1. /\ tab' = tab /\ drv' = drv /\ ring' = ring
      /\ \E b \in BOOLEAN : dev' = [dev EXCEPT !.awake = b]
  BY DEF Notify, DevSleep
<1>2. dev \in [seen : Index, held : SUBSET Desc, writing : 0 .. Num, awake : BOOLEAN]
  BY DEF RingInv, RingTypes
<1>3. /\ dev'.seen = dev.seen /\ dev'.held = dev.held /\ dev'.writing = dev.writing
      /\ dev' \in [seen : Index, held : SUBSET Desc, writing : 0 .. Num, awake : BOOLEAN]
  BY <1>1, <1>2
<1>4. RingTypes' /\ SlotWritten'
  BY <1>1, <1>3 DEF RingInv, RingTypes, SlotWritten
<1>5. Ready' = Ready /\ Offered' = Offered /\ Returned' = Returned
  BY <1>1, <1>3 DEF Ready, Offered, Returned
<1> QED  BY <1>1, <1>3, <1>4, <1>5 DEF Queue!vars

-------------------------------------------------------------------------------
(* The queue by the buffers it carries.                                            *)

\* The buffers of the chains in s, and a list of chains with a last one, if there is.
BuffersOf(t, s) == [i \in 1 .. Len(s) |-> t.cookie[s[i]]]
AndThen(s, h) == IF h = End THEN s ELSE Append(s, h)

\* The buffers on their way to the device, and those on their way back.
ToDevice == BuffersOf(tab, AndThen(Offered, Ready))
FromDevice == BuffersOf(tab, AndThen(Returned, dev.writing))

LEMMA BuffersKept ==
    ASSUME NEW s, NEW t, NEW u, \A i \in 1 .. Len(s) : u.cookie[s[i]] = t.cookie[s[i]]
    PROVE  BuffersOf(u, s) = BuffersOf(t, s)
BY DEF BuffersOf

LEMMA BuffersAre ==
    ASSUME NEW s \in Seq(Desc), NEW t \in Table
    PROVE  /\ BuffersOf(t, s) \in Seq(Cookies \cup {Null}) /\ Len(BuffersOf(t, s)) = Len(s)
           /\ \A i \in 1 .. Len(s) : BuffersOf(t, s)[i] = t.cookie[s[i]]
<1>1. \A i \in 1 .. Len(s) : t.cookie[s[i]] \in Cookies \cup {Null}
  BY DEF Table
<1>2. Len(s) \in Nat
  OBVIOUS
<1> QED  BY <1>1, <1>2 DEF BuffersOf

LEMMA BuffersMore ==
    ASSUME NEW s \in Seq(Desc), NEW t \in Table, NEW h \in Desc
    PROVE  BuffersOf(t, Append(s, h)) = Append(BuffersOf(t, s), t.cookie[h])
<1>1. Append(s, h) \in Seq(Desc) /\ Len(Append(s, h)) = Len(s) + 1 /\ Len(s) \in Nat
  OBVIOUS
<1>2. Append(s, h)[Len(s) + 1] = h /\ \A i \in 1 .. Len(s) : Append(s, h)[i] = s[i]
  OBVIOUS
<1> DEFINE a == BuffersOf(t, Append(s, h))
           b == BuffersOf(t, s)
           c == t.cookie[h]
<1>3. c \in Cookies \cup {Null}
  BY DEF Table
<1>4. /\ a \in Seq(Cookies \cup {Null}) /\ Len(a) = Len(s) + 1
      /\ \A i \in 1 .. Len(s) + 1 : a[i] = t.cookie[Append(s, h)[i]]
  BY <1>1, BuffersAre
<1>5. /\ b \in Seq(Cookies \cup {Null}) /\ Len(b) = Len(s)
      /\ \A i \in 1 .. Len(s) : b[i] = t.cookie[s[i]]
  BY BuffersAre
<1>6. c = t.cookie[h]
  OBVIOUS
<1> HIDE DEF a, b, c
<1>7. /\ Append(b, c) \in Seq(Cookies \cup {Null}) /\ Len(Append(b, c)) = Len(s) + 1
      /\ Append(b, c)[Len(s) + 1] = c /\ \A i \in 1 .. Len(s) : Append(b, c)[i] = b[i]
  BY <1>3, <1>5
<1>8. \A i \in 1 .. Len(s) + 1 : i \in 1 .. Len(s) \/ i = Len(s) + 1
  BY <1>1
<1>9. \A i \in 1 .. Len(s) : i \in 1 .. Len(s) + 1
  BY <1>1
<1>10. ASSUME NEW i \in 1 .. Len(s) + 1 PROVE a[i] = Append(b, c)[i]
  BY <1>2, <1>4, <1>5, <1>6, <1>7, <1>8, <1>9
<1>11. a = Append(b, c)
  BY <1>4, <1>7, <1>10, SeqEqual
<1> QED  BY <1>11 DEF a, b, c

LEMMA BuffersLess ==
    ASSUME NEW s \in Seq(Desc), s # <<>>, NEW t \in Table
    PROVE  /\ BuffersOf(t, s) # <<>> /\ Head(BuffersOf(t, s)) = t.cookie[Head(s)]
           /\ BuffersOf(t, Tail(s)) = Tail(BuffersOf(t, s))
<1>1. /\ Len(s) \in Nat \ {0} /\ Tail(s) \in Seq(Desc) /\ Len(Tail(s)) = Len(s) - 1
      /\ Head(s) = s[1] /\ \A i \in 1 .. Len(s) - 1 : Tail(s)[i] = s[i + 1]
  OBVIOUS
<1> DEFINE a == BuffersOf(t, Tail(s))
           b == BuffersOf(t, s)
<1>2. /\ a \in Seq(Cookies \cup {Null}) /\ Len(a) = Len(s) - 1
      /\ \A i \in 1 .. Len(s) - 1 : a[i] = t.cookie[Tail(s)[i]]
  BY <1>1, BuffersAre
<1>3. /\ b \in Seq(Cookies \cup {Null}) /\ Len(b) = Len(s)
      /\ \A i \in 1 .. Len(s) : b[i] = t.cookie[s[i]]
  BY BuffersAre
<1> HIDE DEF a, b
<1>4. b # <<>> /\ Head(b) = t.cookie[Head(s)]
  BY <1>1, <1>3
<1>5. /\ Tail(b) \in Seq(Cookies \cup {Null}) /\ Len(Tail(b)) = Len(s) - 1
      /\ \A i \in 1 .. Len(s) - 1 : Tail(b)[i] = b[i + 1]
  BY <1>3, <1>4, HeadTailProperties
<1>6. ASSUME NEW i \in 1 .. Len(s) - 1 PROVE a[i] = Tail(b)[i]
  <2>1. i + 1 \in 1 .. Len(s)
    BY <1>1
  <2> QED  BY <1>1, <1>2, <1>3, <1>5, <2>1
<1>7. a = Tail(b)
  BY <1>2, <1>5, <1>6, SeqEqual
<1> QED  BY <1>4, <1>7 DEF a, b

\* The end of a list leaves its head where it is.
LEMMA AndThenTail ==
    ASSUME NEW s \in Seq(Desc), s # <<>>, NEW h \in Desc \cup {End}, End \notin Desc
    PROVE  /\ AndThen(s, h) # <<>> /\ Head(AndThen(s, h)) = Head(s)
           /\ Tail(AndThen(s, h)) = AndThen(Tail(s), h)
<1>1. CASE h = End
  BY <1>1 DEF AndThen
<1>2. CASE h # End
  <2>1. h \in Desc
    BY <1>2
  <2>2. Append(s, h) # <<>> /\ Head(Append(s, h)) = Head(s)
    BY <2>1
  <2>3. Tail(Append(s, h)) = Append(Tail(s), h)
    BY <2>1
  <2> QED  BY <1>2, <2>2, <2>3 DEF AndThen
<1> QED  BY <1>1, <1>2

\* The chains on their way are in use, and those on their way back are not yet to be
\* returned by the device.
LEMMA Lines ==
    ASSUME QueueSetUp, RingInv
    PROVE  /\ tab \in Table /\ End \notin Desc
           /\ Offered \in Seq(Desc) /\ AndThen(Offered, Ready) \in Seq(Desc)
           /\ Returned \in Seq(Desc) /\ AndThen(Returned, dev.writing) \in Seq(Desc)
           /\ \A i \in 1 .. Len(AndThen(Offered, Ready)) :
                 /\ AndThen(Offered, Ready)[i] \in Busy(tab)
                 /\ AndThen(Offered, Ready)[i] \notin Queue!Elems(Returned)
           /\ \A i \in 1 .. Len(AndThen(Returned, dev.writing)) :
                 AndThen(Returned, dev.writing)[i] \in Busy(tab)
           /\ Queue!Distinct(AndThen(Returned, dev.writing))
<1>1. /\ tab \in Table /\ End \notin Desc
      /\ Offered \in Seq(Desc) /\ Returned \in Seq(Desc) /\ dev.held \in SUBSET Desc
  BY RingFacts, EndIsNone DEF RingInv, PoolInv, QueueSetUp
<1>2. /\ Busy(tab) = ({Ready} \ {End}) \cup Queue!Elems(Offered) \cup dev.held
                         \cup Queue!Elems(Returned)
      /\ Queue!Distinct(Offered) /\ Queue!Distinct(Returned)
      /\ Queue!Elems(Offered) \cap Queue!Elems(Returned) = {}
      /\ dev.held \cap (Queue!Elems(Offered) \cup Queue!Elems(Returned)) = {}
      /\ Ready \notin Queue!Elems(Offered) \cup dev.held \cup Queue!Elems(Returned)
  BY SameTable DEF RingInv, PoolInv, Queue!InOneHand
<1>3. Ready # End => Ready \in Desc
  BY RingFacts
<1>4. dev.writing # End => dev.writing \in dev.held
  BY DEF RingInv, SlotWritten
<1>5. \A s : \A i \in 1 .. Len(s) : s[i] \in Queue!Elems(s)
  BY DEF Queue!Elems
<1>6. /\ AndThen(Offered, Ready) \in Seq(Desc)
      /\ Queue!Elems(AndThen(Offered, Ready)) = Queue!Elems(Offered) \cup ({Ready} \ {End})
  <2>1. CASE Ready = End
    BY <1>1, <2>1 DEF AndThen
  <2>2. CASE Ready # End
    BY <1>1, <1>3, <2>2, AppendElems DEF AndThen
  <2> QED  BY <2>1, <2>2
<1>7. /\ AndThen(Returned, dev.writing) \in Seq(Desc)
      /\ Queue!Elems(AndThen(Returned, dev.writing))
             = Queue!Elems(Returned) \cup ({dev.writing} \ {End})
      /\ Queue!Distinct(AndThen(Returned, dev.writing))
  <2>1. CASE dev.writing = End
    BY <1>1, <1>2, <2>1 DEF AndThen
  <2>2. CASE dev.writing # End
    <3>1. dev.writing \in Desc /\ dev.writing \notin Queue!Elems(Returned)
      BY <1>1, <1>2, <1>4, <2>2
    <3> QED  BY <1>1, <1>2, <2>2, <3>1, AppendElems DEF AndThen
  <2> QED  BY <2>1, <2>2
<1>8. /\ Queue!Elems(AndThen(Offered, Ready)) \subseteq Busy(tab)
      /\ Queue!Elems(AndThen(Offered, Ready)) \cap Queue!Elems(Returned) = {}
      /\ Queue!Elems(AndThen(Returned, dev.writing)) \subseteq Busy(tab)
  BY <1>2, <1>4, <1>6, <1>7
<1> QED  BY <1>1, <1>5, <1>6, <1>7, <1>8

\* Both lists consist of buffers that are queued.
LEMMA CarriedBuffers ==
    ASSUME QueueSetUp, RingInv
    PROVE  /\ ToDevice \in Seq(Cookies) /\ FromDevice \in Seq(Cookies)
           /\ \A i \in 1 .. Len(ToDevice) : \E h \in Busy(tab) : ToDevice[i] = tab.cookie[h]
           /\ \A i \in 1 .. Len(FromDevice) :
                 \E h \in Busy(tab) : FromDevice[i] = tab.cookie[h]
<1>1. \A h \in Busy(tab) : tab.cookie[h] \in Cookies
  BY Lines DEF Busy, Table
<1>2. ASSUME NEW s \in Seq(Desc), \A i \in 1 .. Len(s) : s[i] \in Busy(tab)
      PROVE  /\ BuffersOf(tab, s) \in Seq(Cookies)
             /\ \A i \in 1 .. Len(BuffersOf(tab, s)) :
                   \E h \in Busy(tab) : BuffersOf(tab, s)[i] = tab.cookie[h]
  <2>1. \A i \in 1 .. Len(s) : tab.cookie[s[i]] \in Cookies
    BY <1>1, <1>2
  <2>2. Len(s) \in Nat
    OBVIOUS
  <2>3. BuffersOf(tab, s) \in Seq(Cookies) /\ Len(BuffersOf(tab, s)) = Len(s)
    BY <2>1, <2>2 DEF BuffersOf
  <2> QED  BY <1>2, <2>3 DEF BuffersOf
<1> DEFINE a == AndThen(Offered, Ready)
           b == AndThen(Returned, dev.writing)
<1>3. /\ a \in Seq(Desc) /\ \A i \in 1 .. Len(a) : a[i] \in Busy(tab)
      /\ b \in Seq(Desc) /\ \A i \in 1 .. Len(b) : b[i] \in Busy(tab)
  BY Lines
<1>4. ToDevice = BuffersOf(tab, a) /\ FromDevice = BuffersOf(tab, b)
  BY DEF ToDevice, FromDevice
<1> HIDE DEF a, b
<1> QED  BY <1>2, <1>3, <1>4

\* A buffer that is queued goes to the end of those on their way, ...
LEMMA PrepareCarries ==
    ASSUME QueueSetUp, RingInv, NEW c \in Cookies, NEW n \in 1 .. 2, Prepare(c, n)
    PROVE  ToDevice' = Append(ToDevice, c) /\ FromDevice' = FromDevice
<1> DEFINE f == tab.free
           b == AndThen(Returned, dev.writing)
<1>1. /\ Ready = End /\ Ready' = f /\ Offered' = Offered /\ Returned' = Returned
      /\ tab' = Take(tab, c, n) /\ dev' = dev /\ ~Refuses(tab, n)
  BY PrepareStep, SameTable DEF Queue!Prepare, Prepare
<1>2. f \in Desc \ Busy(tab) /\ tab' \in Table
  BY <1>1, TakeAccounted DEF QueueSetUp, RingInv, PoolInv
<1>3. tab'.cookie = [tab.cookie EXCEPT ![f] = c]
  BY <1>1 DEF Take
<1>4. tab.cookie \in [Desc -> Cookies \cup {Null}]
  BY Lines DEF Table
<1>5. /\ Offered \in Seq(Desc) /\ \A i \in 1 .. Len(Offered) : Offered[i] \in Busy(tab)
      /\ b \in Seq(Desc) /\ \A i \in 1 .. Len(b) : b[i] \in Busy(tab)
      /\ End \notin Desc
  BY <1>1, Lines DEF AndThen
<1>6. \A h \in Busy(tab) : tab'.cookie[h] = tab.cookie[h]
  BY <1>2, <1>3, <1>4 DEF Busy
<1> HIDE DEF f, b
<1>7. ToDevice' = BuffersOf(tab', Append(Offered, f)) /\ ToDevice = BuffersOf(tab, Offered)
  <2>1. AndThen(Offered', Ready') = Append(Offered, f) /\ AndThen(Offered, Ready) = Offered
    <3>1. Offered' = Offered /\ Ready' = f /\ Ready = End
      BY <1>1, Zenon
    <3>2. f \in Desc /\ End \notin Desc
      BY <1>2, <1>5
    <3> QED  BY <3>1, <3>2, Zenon DEF AndThen
  <2>2. ToDevice' = BuffersOf(tab', AndThen(Offered', Ready'))
    BY DEF ToDevice, BuffersOf, AndThen
  <2> QED  BY <2>1, <2>2 DEF ToDevice
<1>8. FromDevice' = BuffersOf(tab', b) /\ FromDevice = BuffersOf(tab, b)
  BY <1>1 DEF FromDevice, AndThen, b
<1>9. PICK u \in Table : u = tab'
  BY <1>2
<1>10. BuffersOf(u, Append(Offered, f)) = Append(BuffersOf(u, Offered), u.cookie[f])
  BY <1>2, <1>5, BuffersMore
<1>11. BuffersOf(u, Offered) = BuffersOf(tab, Offered) /\ BuffersOf(u, b) = BuffersOf(tab, b)
  BY <1>5, <1>6, <1>9, BuffersKept
<1>12. u.cookie[f] = c
  BY <1>2, <1>3, <1>4, <1>9
<1> QED  BY <1>7, <1>8, <1>9, <1>10, <1>11, <1>12

\* ... where it stays when the index moves, ...
LEMMA PublishCarries ==
    ASSUME QueueSetUp, RingInv, Publish
    PROVE  ToDevice' = ToDevice /\ FromDevice' = FromDevice
<1>1. /\ Ready # End /\ Offered' = Append(Offered, Ready) /\ Ready' = End
      /\ Returned' = Returned /\ tab' = tab /\ dev' = dev
  BY PublishStep, SameTable DEF Queue!Publish, Publish
<1> QED  BY <1>1 DEF ToDevice, FromDevice, AndThen

\* ... until the device takes it; the first to be queued is the first to be taken.
LEMMA FetchCarries ==
    ASSUME QueueSetUp, RingInv, DevFetch
    PROVE  /\ ToDevice # <<>> /\ Head(ToDevice) = tab.cookie[ring.avail[dev.seen % Num]]
           /\ ToDevice' = Tail(ToDevice) /\ FromDevice' = FromDevice
<1>1. /\ Offered # <<>> /\ Offered' = Tail(Offered) /\ Ready' = Ready
      /\ Returned' = Returned /\ tab' = tab
      /\ dev'.writing = dev.writing
  BY FetchStep DEF Queue!Fetch, DevFetch, RingInv, RingTypes
<1>2. Head(Offered) = ring.avail[dev.seen % Num]
  <2>1. ring.avail \in [Desc -> Desc] /\ dev.seen \in Index /\ ring.aidx \in Index
    BY RingFacts
  <2> QED  BY <2>1, WindowTail DEF Offered, DevFetch
<1> DEFINE a == AndThen(Offered, Ready)
<1>3. a \in Seq(Desc) /\ a # <<>> /\ Head(a) = Head(Offered) /\ tab \in Table
         /\ Tail(a) = AndThen(Tail(Offered), Ready)
  <2>1. /\ Offered \in Seq(Desc) /\ tab \in Table /\ a \in Seq(Desc) /\ End \notin Desc
        /\ Ready \in Desc \cup {End}
    BY Lines, RingFacts
  <2> QED  BY <1>1, <2>1, AndThenTail
<1>4. ToDevice = BuffersOf(tab, a) /\ ToDevice' = BuffersOf(tab, Tail(a))
  BY <1>1, <1>3 DEF ToDevice, AndThen
<1>5. FromDevice' = FromDevice
  BY <1>1 DEF FromDevice, AndThen
<1> HIDE DEF a
<1> QED  BY <1>2, <1>3, <1>4, <1>5, BuffersLess

\* A buffer the device writes goes to the end of those on their way back; ...
LEMMA WriteCarries ==
    ASSUME QueueSetUp, RingInv, NEW h \in dev.held, DevWrite(h)
    PROVE  /\ FromDevice' = Append(FromDevice, tab.cookie[h]) /\ ToDevice' = ToDevice
           /\ h \in Busy(tab)
           /\ \A i \in 1 .. Len(FromDevice) :
                 \E g \in Busy(tab) \ {h} : FromDevice[i] = tab.cookie[g]
<1>1. /\ tab' = tab /\ Ready' = Ready /\ Offered' = Offered /\ Returned' = Returned
      /\ dev.writing = End /\ dev'.writing = h
  BY WriteStep DEF Queue!vars, DevWrite, RingInv, RingTypes
<1>2. h \in Desc /\ End \notin Desc /\ Returned \in Seq(Desc) /\ tab \in Table
         /\ h \notin Queue!Elems(Returned)
  BY RingFacts, Lines
<1>3. h \in Busy(tab) /\ \A i \in 1 .. Len(Returned) : Returned[i] \in Busy(tab)
  BY SameTable DEF RingInv, PoolInv, Queue!InOneHand, Queue!Elems
<1>4. FromDevice = BuffersOf(tab, Returned) /\ FromDevice' = BuffersOf(tab, Append(Returned, h))
  BY <1>1, <1>2 DEF FromDevice, AndThen
<1>5. ToDevice' = ToDevice
  BY <1>1 DEF ToDevice, AndThen
<1>6. ASSUME NEW i \in 1 .. Len(FromDevice)
      PROVE  \E g \in Busy(tab) \ {h} : FromDevice[i] = tab.cookie[g]
  <2>1. i \in 1 .. Len(Returned) /\ FromDevice[i] = tab.cookie[Returned[i]]
    BY <1>2, <1>4 DEF BuffersOf
  <2> QED  BY <1>2, <1>3, <2>1 DEF Queue!Elems
<1> QED  BY <1>2, <1>3, <1>4, <1>5, <1>6, BuffersMore

\* ... it stays there when the index moves, ...
LEMMA CompleteCarries ==
    ASSUME QueueSetUp, RingInv, DevPublish
    PROVE  ToDevice' = ToDevice /\ FromDevice' = FromDevice
<1>1. /\ Returned' = Append(Returned, dev.writing) /\ Ready' = Ready /\ Offered' = Offered
      /\ tab' = tab /\ dev.writing # End /\ dev'.writing = End
  BY CompleteStep DEF Queue!Complete, DevPublish, RingInv, RingTypes
<1> QED  BY <1>1 DEF ToDevice, FromDevice, AndThen

\* ... until the driver takes it back, the first to be written the first.
LEMMA ReclaimCarries ==
    ASSUME QueueSetUp, RingInv, Reclaim
    PROVE  /\ FromDevice # <<>> /\ Head(FromDevice) = UsedCookie
           /\ FromDevice' = Tail(FromDevice) /\ ToDevice' = ToDevice
<1> DEFINE h == Head(Returned)
           a == AndThen(Offered, Ready)
           b == AndThen(Returned, dev.writing)
<1>1. /\ Returned # <<>> /\ tab' = Detach(tab, h) /\ Returned' = Tail(Returned)
      /\ Ready' = Ready /\ Offered' = Offered /\ dev' = dev
  BY ReclaimStep, SameTable DEF Queue!Reclaim, Reclaim
<1>2. h = UsedHead
  <2>1. ring.used \in [Desc -> Desc] /\ drv.last \in Index /\ ring.uidx \in Index
    BY RingFacts
  <2> QED  BY <2>1, WindowTail DEF Returned, Reclaim, HasUsed, UsedHead
<1>3. h \in Queue!Elems(Returned) /\ h \in Desc
  BY <1>1, RingFacts, TailElems
<1>4. /\ b \in Seq(Desc) /\ b # <<>> /\ Head(b) = h /\ tab \in Table /\ a \in Seq(Desc)
      /\ Tail(b) = AndThen(Tail(Returned), dev.writing)
  <2>1. /\ Returned \in Seq(Desc) /\ tab \in Table /\ a \in Seq(Desc) /\ b \in Seq(Desc)
        /\ End \notin Desc
    BY Lines
  <2>2. dev.writing \in Desc \cup {End}
    BY RingFacts DEF RingInv, SlotWritten
  <2> QED  BY <1>1, <2>1, <2>2, AndThenTail
<1>5. tab'.cookie = [tab.cookie EXCEPT ![h] = Null]
  BY <1>1 DEF Detach
<1> HIDE DEF h
<1>6. \A g \in Desc : g # h => tab'.cookie[g] = tab.cookie[g]
  BY <1>4, <1>5 DEF Table
<1>7. \A i \in 1 .. Len(a) : a[i] \in Desc /\ a[i] # h
  <2>1. \A i \in 1 .. Len(a) : a[i] \notin Queue!Elems(Returned)
    BY Lines
  <2> HIDE DEF a
  <2> QED  BY <1>3, <1>4, <2>1
<1>8. \A i \in 1 .. Len(Tail(b)) : Tail(b)[i] \in Desc /\ Tail(b)[i] # h
  <2>1. Queue!Distinct(b)
    BY Lines
  <2> HIDE DEF b
  <2>2. Tail(b) \in Seq(Desc) /\ Queue!Elems(Tail(b)) = Queue!Elems(b) \ {h}
    BY <1>4, <2>1, TailElems
  <2>3. \A i \in 1 .. Len(Tail(b)) : Tail(b)[i] \in Queue!Elems(Tail(b))
    BY DEF Queue!Elems
  <2>4. \A i \in 1 .. Len(Tail(b)) : Tail(b)[i] \in Desc
    BY <2>2
  <2> QED  BY <2>2, <2>3, <2>4
<1>9. /\ ToDevice = BuffersOf(tab, a) /\ ToDevice' = BuffersOf(tab', a)
      /\ FromDevice = BuffersOf(tab, b) /\ FromDevice' = BuffersOf(tab', Tail(b))
  BY <1>1, <1>4 DEF ToDevice, FromDevice, AndThen
<1> HIDE DEF a, b
<1>10. PICK u : u = tab'
  OBVIOUS
<1>11. BuffersOf(u, a) = BuffersOf(tab, a)
  BY <1>6, <1>7, <1>10, BuffersKept
<1>12. BuffersOf(u, Tail(b)) = BuffersOf(tab, Tail(b))
  BY <1>6, <1>8, <1>10, BuffersKept
<1>13. /\ BuffersOf(tab, b) # <<>> /\ Head(BuffersOf(tab, b)) = tab.cookie[h]
       /\ BuffersOf(tab, Tail(b)) = Tail(BuffersOf(tab, b))
  BY <1>4, BuffersLess
<1> QED  BY <1>2, <1>9, <1>10, <1>11, <1>12, <1>13 DEF UsedCookie

\* Notifying and going to sleep carry nothing.
LEMMA SignalCarries ==
    ASSUME QueueSetUp, RingInv, Notify \/ DevSleep
    PROVE  ToDevice' = ToDevice /\ FromDevice' = FromDevice
<1>1. UNCHANGED Queue!vars /\ dev'.writing = dev.writing
  BY SignalStep DEF Notify, DevSleep, RingInv, RingTypes
<1> QED  BY <1>1 DEF Queue!vars, ToDevice, FromDevice, AndThen

-------------------------------------------------------------------------------

LEMMA RingInit ==
    ASSUME QueueSetUp, Init
    PROVE  Queue!Init /\ RingInv
<1>1. /\ tab = TableInit /\ drv = [last |-> 0, written |-> FALSE]
      /\ ring = [avail |-> [i \in Desc |-> 0], aidx |-> 0,
                 used |-> [i \in Desc |-> 0], uidx |-> 0]
      /\ dev = [seen |-> 0, held |-> {}, writing |-> End, awake |-> FALSE]
  BY DEF Init
<1>2. 0 \in Index /\ 0 \in Desc /\ End \in 0 .. Num /\ (0 - 0) % W = 0
  <2>1. 0 \in Index /\ 0 \in Desc /\ End \in 0 .. Num /\ 0 - 0 = 0 /\ W \in Nat \ {0}
    BY Bounds DEF Index, Desc, End
  <2> QED  BY <2>1, Distance DEF Index
<1>3. RingTypes
  <2>1. [i \in Desc |-> 0] \in [Desc -> Desc]
    BY <1>2
  <2> QED  BY <1>1, <1>2, <2>1 DEF RingTypes
<1>4. SlotWritten
  BY <1>1 DEF SlotWritten
<1>5. Ready = End
  BY <1>1 DEF Ready
<1>6. Offered = <<>> /\ Returned = <<>>
  <2>1. /\ Window(ring.avail, 0, 0) \in Seq(Desc) /\ Len(Window(ring.avail, 0, 0)) = 0
        /\ Window(ring.used, 0, 0) \in Seq(Desc) /\ Len(Window(ring.used, 0, 0)) = 0
    <3>1. ring.avail \in [Desc -> Desc] /\ ring.used \in [Desc -> Desc]
      BY <1>3 DEF RingTypes
    <3> QED  BY <1>2, <3>1, WindowIsSeq
  <2>2. Window(ring.avail, 0, 0) = <<>> /\ Window(ring.used, 0, 0) = <<>>
    BY <2>1, EmptySeq
  <2> QED  BY <1>1, <2>2 DEF Offered, Returned
<1>7. Queue!Init
  BY <1>1, <1>5, <1>6, SameTable DEF Queue!Init
<1>8. PoolInv
  BY <1>7, SameTable, PoolInit DEF QueueSetUp
<1> QED  BY <1>3, <1>4, <1>7, <1>8 DEF RingInv

\* At first nothing is on its way.
LEMMA NothingCarried ==
    ASSUME QueueSetUp, Init
    PROVE  ToDevice = <<>> /\ FromDevice = <<>>
<1>1. Ready = End /\ Offered = <<>> /\ Returned = <<>> /\ dev.writing = End
  BY RingInit, SameTable DEF Queue!Init, Init
<1> QED  BY <1>1 DEF ToDevice, FromDevice, AndThen, BuffersOf

LEMMA RingStep ==
    ASSUME QueueSetUp, RingInv, [Next]_vars
    PROVE  [Queue!Next]_(Queue!vars) /\ RingInv'
<1> SUFFICES [Queue!Next]_(Queue!vars) /\ RingTypes' /\ SlotWritten'
  BY SameTable, PoolStep DEF QueueSetUp, RingInv
<1>1. ASSUME NEW c \in Cookies, NEW n \in 1 .. 2, Prepare(c, n)
      PROVE  [Queue!Next]_(Queue!vars) /\ RingTypes' /\ SlotWritten'
  BY <1>1, PrepareStep DEF Queue!Next
<1>2. CASE Publish
  BY <1>2, PublishStep DEF Queue!Next
<1>3. CASE Notify \/ DevSleep
  BY <1>3, SignalStep
<1>4. CASE Reclaim
  BY <1>4, ReclaimStep DEF Queue!Next
<1>5. CASE DevFetch
  BY <1>5, FetchStep DEF Queue!Next
<1>6. ASSUME NEW h \in dev.held, DevWrite(h)
      PROVE  [Queue!Next]_(Queue!vars) /\ RingTypes' /\ SlotWritten'
  BY <1>6, WriteStep
<1>7. CASE DevPublish
  BY <1>7, CompleteStep DEF Queue!Next
<1>8. CASE UNCHANGED vars
  <2>1. tab' = tab /\ drv' = drv /\ ring' = ring /\ dev' = dev
    BY <1>8 DEF vars
  <2> QED  BY <2>1 DEF Queue!vars, RingInv, RingTypes, SlotWritten, Ready, Offered, Returned
<1> QED  BY <1>1, <1>2, <1>3, <1>4, <1>5, <1>6, <1>7, <1>8 DEF Next

\* For every size of the queue and of its indices, however often they wrap: the rings
\* the driver and the device share, written in two steps, implement the queues of
\* DescriptorPool (virtqueue_ring_update_avail, virtqueue_buffer_dequeue).
THEOREM RingsImplementQueues == ASSUME QueueSetUp PROVE Spec => Queue!Spec
<1>1. Init => Queue!Init /\ RingInv
  BY RingInit
<1>2. RingInv /\ [Next]_vars => [Queue!Next]_(Queue!vars) /\ RingInv'
  BY RingStep
<1> QED  BY <1>1, <1>2, PTL DEF Spec, Queue!Spec

\* So no descriptor of the table is lost, used twice, or in two hands, at any point
\* of the driver's and the device's accesses to the rings.
THEOREM RingsKeepPool == ASSUME QueueSetUp PROVE Spec => []Queue!PoolAccounted
<1>1. Init => RingInv
  BY RingInit
<1>2. RingInv /\ [Next]_vars => RingInv'
  BY RingStep
<1>3. RingInv => Queue!PoolAccounted
  BY SameAccount DEF RingInv, PoolInv
<1> QED  BY <1>1, <1>2, <1>3, PTL DEF Spec

===============================================================================
