--------------------------- MODULE DescriptorTable ---------------------------
(* The descriptor table of a virtqueue of the embedded mini system                *)
(* (src/minikraft.py, src/lib/virtqueue.c): descriptors linked in a free list,     *)
(* and what taking a chain for a buffer and giving it back do to the table.  A     *)
(* buffer takes one descriptor, or two (a header and the data), the only chains    *)
(* the network driver builds.  Addresses and lengths are left out: the branches    *)
(* that repair a corrupted index or a stale INDIRECT flag are not reached from the *)
(* tables that satisfy Accounted.                                                  *)
EXTENDS Naturals

CONSTANTS
    Num,        \* descriptors of the queue (vring.num)
    Cookies,    \* buffers the driver hands over
    Null        \* the null cookie

\* What the queues are set up with; the modules that instantiate a queue assume it.
TableSetUp == Num \in Nat \ {0} /\ Null \notin Cookies

Desc == 0 .. Num - 1

\* The end marker of the free list, VIRTQUEUE_MAX_SIZE: an index no descriptor has.
End == Num

\* Types of a table: links, NEXT flags, head and length of the free list, and for
\* the head of each chain in use the buffer and the number of descriptors.
Table == [next : [Desc -> 0 .. Num], more : [Desc -> BOOLEAN], free : 0 .. Num,
          avail : 0 .. Num, cookie : [Desc -> Cookies \cup {Null}],
          count : [Desc -> 0 .. 2]]

\* virtqueue_vring_init and the cleared vq_info: all descriptors are free, in order.
TableInit == [next |-> [d \in Desc |-> d + 1], more |-> [d \in Desc |-> FALSE],
              free |-> 0, avail |-> Num, cookie |-> [d \in Desc |-> Null],
              count |-> [d \in Desc |-> 0]]

\* virtqueue_buffer_enqueue refuses a buffer of n segments: too few descriptors, or
\* a free list that ends before its length says so.
Refuses(t, n) == t.avail < n \/ t.free = End

\* The last of the n descriptors taken from the head of the free list.
LastTaken(t, n) == IF n = 1 THEN t.free ELSE t.next[t.free]

\* virtqueue_buffer_enqueue, up to the available ring: the descriptors at the head
\* of the free list are chained by NEXT flags, the link of the last one is cleared
\* after the free list has moved past it, and the head remembers the buffer.
Take(t, c, n) ==
    LET h == t.free
        l == LastTaken(t, n)
    IN [next   |-> [t.next EXCEPT ![l] = 0],
        more   |-> [d \in Desc |-> IF d = l THEN FALSE
                                   ELSE IF d = h THEN TRUE ELSE t.more[d]],
        free   |-> t.next[l],
        avail  |-> t.avail - n,
        cookie |-> [t.cookie EXCEPT ![h] = c],
        count  |-> [t.count EXCEPT ![h] = n]]

\* virtqueue_detach_desc follows the NEXT flag of the head only as far as the count
\* of its chain, and counts the chain itself when no count was kept.
Second(t, h) == t.more[h] /\ t.count[h] # 1
LastOf(t, h) == IF Second(t, h) THEN t.next[h] ELSE h

\* Mutant: the length of the free list counts chains, not descriptors.
DetachCountingChains(t, h) ==
    LET l == LastOf(t, h)
    IN [next   |-> [t.next EXCEPT ![l] = t.free],
        more   |-> [t.more EXCEPT ![h] = FALSE, ![l] = FALSE],
        free   |-> h,
        avail  |-> t.avail + 1,
        cookie |-> [t.cookie EXCEPT ![h] = Null],
        count  |-> [t.count EXCEPT ![h] = 0]]

\* virtqueue_detach_desc and the end of virtqueue_buffer_dequeue: the chain of h goes
\* back to the front of the free list, its flags and its buffer are cleared.
Detach(t, h) ==
    LET l == LastOf(t, h)
    IN [next   |-> [t.next EXCEPT ![l] = t.free],
        more   |-> [t.more EXCEPT ![h] = FALSE, ![l] = FALSE],
        free   |-> h,
        avail  |-> t.avail + (IF Second(t, h) THEN 2 ELSE 1),
        cookie |-> [t.cookie EXCEPT ![h] = Null],
        count  |-> [t.count EXCEPT ![h] = 0]]

-----------------------------------------------------------------------------

\* Heads of the chains in use.
Busy(t) == {h \in Desc : t.cookie[h] # Null}

ChainOf(t, h) == IF t.more[h] THEN {h, t.next[h]} ELSE {h}

\* fl lists the free descriptors as the links of t do: it starts at the head, follows
\* the links, ends at the marker after avail entries, and repeats nothing.
IsFreeList(t, fl) ==
    /\ t.free = IF t.avail = 0 THEN End ELSE fl[1]
    /\ \A i \in 1 .. t.avail : t.next[fl[i]] = IF i = t.avail THEN End ELSE fl[i + 1]
    /\ \A i, j \in 1 .. t.avail : fl[i] = fl[j] => i = j

\* The chain a head stands for is what its count and its links say.
ChainsKept(t) ==
    \A h \in Busy(t) :
        /\ t.count[h] = IF t.more[h] THEN 2 ELSE 1
        /\ t.more[h] => t.next[h] \in Desc \ {h}

\* No descriptor is used for two buffers.
ChainsApart(t) ==
    \A g, h \in Busy(t) : g # h => ChainOf(t, g) \cap ChainOf(t, h) = {}

\* Every descriptor is either on the free list or in the chain of a buffer in use,
\* never in both and never in neither, and desc_avail is the length of the list.
Accounted(t) ==
    /\ ChainsKept(t)
    /\ ChainsApart(t)
    /\ \E fl \in [1 .. t.avail -> Desc] :
          /\ IsFreeList(t, fl)
          /\ \A d \in Desc : (\E i \in 1 .. t.avail : fl[i] = d)
                                 <=> ~(\E h \in Busy(t) : d \in ChainOf(t, h))

=============================================================================
