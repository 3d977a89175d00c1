--------------------------- MODULE DescriptorPool ---------------------------
(* What a virtqueue promises the driver and the device, without its rings: a       *)
(* buffer the driver has made ready is offered, the device takes the offers in     *)
(* order, gives them back in any order, and the driver gets the returned ones      *)
(* back in the order of their return, each of them once.                           *)
EXTENDS DescriptorTable, Sequences

VARIABLES
    tab,        \* the descriptor table
    ready,      \* head of the chain that is made ready but not offered, or End
    offered,    \* heads offered and not yet taken by the device
    held,       \* heads in the hands of the device
    done        \* heads returned and not yet reclaimed

vars == <<tab, ready, offered, held, done>>

Elems(s) == {s[i] : i \in 1 .. Len(s)}
Distinct(s) == \A i, j \in 1 .. Len(s) : s[i] = s[j] => i = j

Init ==
    /\ tab = TableInit
    /\ ready = End
    /\ offered = <<>>
    /\ held = {}
    /\ done = <<>>

\* The driver fills in descriptors for buffer c.
Prepare(c, n) ==
    /\ ready = End
    /\ ~Refuses(tab, n)
    /\ tab' = Take(tab, c, n)
    /\ ready' = tab.free
    /\ UNCHANGED <<offered, held, done>>

\* The driver offers it to the device.
Publish ==
    /\ ready # End
    /\ offered' = Append(offered, ready)
    /\ ready' = End
    /\ UNCHANGED <<tab, held, done>>

\* The device takes the oldest offer.
Fetch ==
    /\ offered # <<>>
    /\ held' = held \cup {Head(offered)}
    /\ offered' = Tail(offered)
    /\ UNCHANGED <<tab, ready, done>>

\* The device is done with a buffer.
Complete(h) ==
    /\ h \in held
    /\ held' = held \ {h}
    /\ done' = Append(done, h)
    /\ UNCHANGED <<tab, ready, offered>>

\* The driver takes the oldest returned buffer back.
Reclaim ==
    /\ done # <<>>
    /\ tab' = Detach(tab, Head(done))
    /\ done' = Tail(done)
    /\ UNCHANGED <<ready, offered, held>>

Next ==
    \/ \E c \in Cookies, n \in 1 .. 2 : Prepare(c, n)
    \/ Publish
    \/ Fetch
    \/ \E h \in held : Complete(h)
    \/ Reclaim

Spec == Init /\ [][Next]_vars

\* Every buffer in use is in exactly one hand: made ready, offered, held by the device
\* or returned.
InOneHand ==
    /\ Busy(tab) = ({ready} \ {End}) \cup Elems(offered) \cup held \cup Elems(done)
    /\ Distinct(offered) /\ Distinct(done)
    /\ Elems(offered) \cap Elems(done) = {}
    /\ held \cap (Elems(offered) \cup Elems(done)) = {}
    /\ ready \notin Elems(offered) \cup held \cup Elems(done)

\* The descriptor table of every reachable state accounts for each descriptor, and
\* each buffer is in one hand (virtqueue_buffer_enqueue, virtqueue_detach_desc).
PoolAccounted == Accounted(tab) /\ InOneHand

=============================================================================
