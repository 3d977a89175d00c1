------------------------------ MODULE Virtqueue ------------------------------
(* One virtqueue of src/minikraft.py (src/lib/virtqueue.c): the descriptor table    *)
(* and the two rings the driver and the device share.  The driver writes a slot    *)
(* of the available ring and then its index; the device writes a slot of the used  *)
(* ring and then its index; either may act between the two.  Indices are counted   *)
(* modulo W (2^16 in the code), the slots they stand for modulo Num.  The device    *)
(* is external: it sleeps until it is notified, takes what is available, and       *)
(* returns chains in any order.                                                    *)
EXTENDS DescriptorTable, Integers

CONSTANT W      \* number of values of a ring index (2^16)

\* An index never counts a whole ring as nothing, and its slot goes round with it.
QueueSetUp == TableSetUp /\ W \in Nat /\ W > Num /\ W % Num = 0

VARIABLES
    tab,        \* descriptors and vq_info
    drv,        \* the driver's last_used_desc_idx, and whether a slot awaits its index
    ring,       \* available ring and its idx, used ring and its idx
    dev         \* external: next available index to read, chains held, the chain
                \* whose used slot is written, and whether it was notified

vars == <<tab, drv, ring, dev>>

\* virtqueue_create: an empty table, cleared rings, all indices zero.
Init ==
    /\ tab = TableInit
    /\ drv = [last |-> 0, written |-> FALSE]
    /\ ring = [avail |-> [i \in Desc |-> 0], aidx |-> 0,
               used |-> [i \in Desc |-> 0], uidx |-> 0]
    /\ dev = [seen |-> 0, held |-> {}, writing |-> End, awake |-> FALSE]

\* virtqueue_buffer_enqueue with the first half of virtqueue_ring_update_avail: the
\* chain is built, its head is written in the slot of the current index.
Prepare(c, n) ==
    /\ ~drv.written
    /\ ~Refuses(tab, n)
    /\ tab' = Take(tab, c, n)
    /\ ring' = [ring EXCEPT !.avail[ring.aidx % Num] = tab.free]
    /\ drv' = [drv EXCEPT !.written = TRUE]
    /\ UNCHANGED dev

\* Mutant: the index is wrapped like a slot.
PublishSlot ==
    /\ drv.written
    /\ ring' = [ring EXCEPT !.aidx = (@ + 1) % Num]
    /\ drv' = [drv EXCEPT !.written = FALSE]
    /\ UNCHANGED <<tab, dev>>

\* The second half of virtqueue_ring_update_avail: the index, after the barrier.
Publish ==
    /\ drv.written
    /\ ring' = [ring EXCEPT !.aidx = (@ + 1) % W]
    /\ drv' = [drv EXCEPT !.written = FALSE]
    /\ UNCHANGED <<tab, dev>>

\* virtqueue_host_notify.
Notify ==
    /\ dev' = [dev EXCEPT !.awake = TRUE]
    /\ UNCHANGED <<tab, drv, ring>>

\* Mutant: the indices are compared as if they did not wrap.
HasUsedAbove == drv.last < ring.uidx

\* virtqueue_hasdata, and the test at the head of virtqueue_buffer_dequeue.
HasUsed == drv.last # ring.uidx

\* The chain and the buffer the next dequeue returns.
UsedHead == ring.used[drv.last % Num]
UsedCookie == tab.cookie[UsedHead]

\* virtqueue_buffer_dequeue.
Reclaim ==
    /\ HasUsed
    /\ tab' = Detach(tab, UsedHead)
    /\ drv' = [drv EXCEPT !.last = (@ + 1) % W]
    /\ UNCHANGED <<ring, dev>>

\* External: the device takes the next available chain.
DevFetch ==
    /\ dev.awake
    /\ dev.seen # ring.aidx
    /\ dev' = [dev EXCEPT !.held = @ \cup {ring.avail[dev.seen % Num]},
                          !.seen = (@ + 1) % W]
    /\ UNCHANGED <<tab, drv, ring>>

\* External: nothing is available, the device waits for a notification.
DevSleep ==
    /\ dev.awake
    /\ dev.seen = ring.aidx
    /\ dev' = [dev EXCEPT !.awake = FALSE]
    /\ UNCHANGED <<tab, drv, ring>>

\* External: the device writes a used slot for a chain it holds ...
DevWrite(h) ==
    /\ dev.writing = End
    /\ h \in dev.held
    /\ ring' = [ring EXCEPT !.used[ring.uidx % Num] = h]
    /\ dev' = [dev EXCEPT !.writing = h]
    /\ UNCHANGED <<tab, drv>>

\* ... and then the index.
DevPublish ==
    /\ dev.writing # End
    /\ ring' = [ring EXCEPT !.uidx = (@ + 1) % W]
    /\ dev' = [dev EXCEPT !.held = @ \ {dev.writing}, !.writing = End]
    /\ UNCHANGED <<tab, drv>>

Next ==
    \/ \E c \in Cookies, n \in 1 .. 2 : Prepare(c, n)
    \/ Publish
    \/ Notify
    \/ Reclaim
    \/ DevFetch
    \/ DevSleep
    \/ \E h \in dev.held : DevWrite(h)
    \/ DevPublish

Spec == Init /\ [][Next]_vars

-----------------------------------------------------------------------------

\* The heads in the slots of r that belong to the indices from `from` up to `to`.
Window(r, from, to) == [i \in 1 .. (to - from) % W |-> r[(from + i - 1) % Num]]

\* The chain whose slot is written, those the device has not taken, and those it has
\* returned and the driver has not taken back.
Ready == IF drv.written THEN ring.avail[ring.aidx % Num] ELSE End
Offered == Window(ring.avail, dev.seen, ring.aidx)
Returned == Window(ring.used, drv.last, ring.uidx)

\* The rings implement the queues of DescriptorPool.
Queue == INSTANCE DescriptorPool WITH
    ready <- Ready, offered <- Offered, held <- dev.held, done <- Returned

=============================================================================
