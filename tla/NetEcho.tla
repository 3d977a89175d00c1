------------------------------- MODULE NetEcho -------------------------------
(* The packet path of the embedded mini system (src/minikraft.py): the echo         *)
(* application's loop, the virtio network driver under it with one receive and     *)
(* one transmit queue, the allocator, and, external, the device.                   *)
(*                                                                                 *)
(* The program is one thread: the network interrupt is never registered (app.c)    *)
(* and the queues' callbacks are never called, so the loop only polls.  The device  *)
(* acts at any time between two accesses of the shared rings.  kmalloc hands out    *)
(* fresh memory and kfree does nothing, so buffers are numbered in the order of     *)
(* their allocation and `brk` is the last one.  The queue of pending packets is     *)
(* left out, with the event that asks for its packets to be sent: it is only filled *)
(* after -EAGAIN, which virtio_netdev_xmit never returns.  So is the count of 20      *)
(* receptions after which the outer loop starts again: nothing happens between two  *)
(* rounds of it.                                                                    *)
EXTENDS Integers, Sequences, FiniteSets

CONSTANTS
    RxNum, TxNum,   \* descriptors of the two queues
    RxW, TxW,       \* values of their ring indices
    Bdc,            \* descriptors of a receive buffer (buf_descr_count)
    Batch,          \* buffers allocated at once (RX_FILLUP_BATCHLEN)
    Pool,           \* buffers the memory is good for
    Networks,       \* frames that may arrive and buffers the device takes ahead
    Null            \* no buffer

Buffers == 1 .. Pool

\* Kinds of frames: those the handlers answer, those they ignore, and those shorter
\* than the headers.
Kinds == {"arp", "tcp", "udp", "other", "runt"}

VARIABLES
    rxTab, rxDrv, rxRing, rxDev,    \* the receive queue
    txTab, txDrv, txRing, txDev,    \* the transmit queue
    app,        \* the thread: position, and the locals of the calls it is in
    brk,        \* buffers allocated so far (memory_offset)
    frame,      \* number of the frame in each buffer, 0 if none
    freed,      \* buffers given to uk_netbuf_free
    arrived,    \* external: frames that have arrived
    wire,       \* external: frames that have left
    net         \* external: the network of this run

rxVars == <<rxTab, rxDrv, rxRing, rxDev>>
txVars == <<txTab, txDrv, txRing, txDev>>
vars == <<rxVars, txVars, app, brk, frame, freed, arrived, wire, net>>

RX == INSTANCE Virtqueue WITH
    Num <- RxNum, W <- RxW, Cookies <- Buffers,
    tab <- rxTab, drv <- rxDrv, ring <- rxRing, dev <- rxDev

TX == INSTANCE Virtqueue WITH
    Num <- TxNum, W <- TxW, Cookies <- Buffers,
    tab <- txTab, drv <- txDrv, ring <- txRing, dev <- txDev

ASSUME QueueAssumption == RX!QueueSetUp /\ TX!QueueSetUp
ASSUME SizeAssumption ==
    Bdc \in {1, 2} /\ Bdc <= RxNum /\ Batch \in Nat \ {0} /\ Pool \in Nat
ASSUME NetworkAssumption ==
    \A n \in Networks : n.frames \in Seq(Kinds) /\ n.ahead \in 1 .. RxNum

Smaller(a, b) == IF a < b THEN a ELSE b
Larger(a, b) == IF a > b THEN a ELSE b
AlignDown(n) == n - (n % Bdc)

\* Headers of 16 bytes that fit in front of the data: alloc_rx_packets leaves one and
\* the test packet too, handle_arp_packet and echo_tcp_packet use it up before they
\* send, echo_udp_packet leaves four.
Room(kind) == CASE kind = "arp" -> 0
                [] kind = "tcp" -> 0
                [] kind = "udp" -> 4
                [] kind = "test" -> 1

\* The locals at rest; `out` is the packet handed to uk_netdev_tx_one and the room in
\* front of it, `pkt` the packet received.
Idle == [pc |-> "receive", want |-> 0, filled |-> 0, batch |-> <<>>, short |-> FALSE,
         back |-> "receive", pkt |-> Null, out |-> Null, room |-> 0]

-----------------------------------------------------------------------------

\* virtio_netdev_rx_fillup(nb_desc) from a, to continue at pc.  Every caller asks for
\* a multiple of Bdc, and at least one buffer.
FillUp(a, nb_desc, pc) ==
    [a EXCEPT !.pc = "fill", !.want = nb_desc, !.filled = 0, !.back = pc]

\* A quarter of the queue, one buffer at least, and what the second call makes up to
\* the half.
FirstFill == Larger(AlignDown(Larger(RxNum \div 4, 1)), Bdc)
SecondFill == AlignDown(RxNum \div 2) - FirstFill

Init ==
    /\ RX!Init
    /\ TX!Init
    /\ app = FillUp(Idle, FirstFill, "started")
    /\ brk = 0
    /\ frame = [b \in Buffers |-> 0]
    /\ freed = {}
    /\ arrived = 0
    /\ wire = <<>>
    /\ net \in Networks

external == <<arrived, wire, net>>

\* alloc_rx_packets: as many of the buffers asked for as the memory is good for.
FillBatch ==
    /\ app.pc = "fill" /\ app.batch = <<>>
    /\ LET req == Smaller(app.want \div Bdc, Batch)
           cnt == Smaller(req, Pool - brk)
       IN /\ brk' = brk + cnt
          /\ app' = [app EXCEPT !.batch = [i \in 1 .. cnt |-> brk + i],
                                !.short = cnt < req,
                                !.pc = IF cnt = 0 THEN "filled" ELSE "fill"]
    /\ UNCHANGED <<rxVars, txVars, frame, freed, external>>

\* virtio_netdev_rxq_enqueue, up to the index of the ring.
FillEnqueue ==
    /\ app.pc = "fill" /\ app.batch # <<>>
    /\ RX!Prepare(Head(app.batch), Bdc)
    /\ app' = [app EXCEPT !.pc = "publish"]
    /\ UNCHANGED <<txVars, brk, frame, freed, external>>

\* ... and the index.
FillPublish ==
    /\ app.pc = "publish"
    /\ RX!Publish
    /\ LET more == Len(app.batch) > 1
           enough == app.short \/ app.filled + Bdc >= app.want
       IN app' = [app EXCEPT !.batch = Tail(@), !.filled = @ + Bdc,
                             !.pc = IF ~more /\ enough THEN "filled" ELSE "fill"]
    /\ UNCHANGED <<txVars, brk, frame, freed, external>>

\* No room for the buffer: it and the rest of its batch are freed.
FillRefused ==
    /\ app.pc = "fill" /\ app.batch # <<>>
    /\ RX!Refuses(rxTab, Bdc)
    /\ freed' = freed \cup {app.batch[i] : i \in 1 .. Len(app.batch)}
    /\ app' = [app EXCEPT !.batch = <<>>, !.pc = "filled"]
    /\ UNCHANGED <<rxVars, txVars, brk, frame, external>>

\* The end of rx_fillup: the device is notified if anything was added.
FillEnd ==
    /\ app.pc = "filled"
    /\ IF app.filled > 0 THEN RX!Notify ELSE UNCHANGED rxVars
    /\ app' = [app EXCEPT !.pc = app.back, !.want = 0, !.filled = 0, !.short = FALSE]
    /\ UNCHANGED <<txVars, brk, frame, freed, external>>

\* virtio_net_start after the first fill: the second one where the half is more than
\* the quarter, ...
Started ==
    /\ app.pc = "started"
    /\ app' = IF SecondFill > 0 THEN FillUp(app, SecondFill, "opened")
                               ELSE [app EXCEPT !.pc = "opened"]
    /\ UNCHANGED <<rxVars, txVars, brk, frame, freed, external>>

\* ... and a notification of its own.
Opened ==
    /\ app.pc = "opened"
    /\ RX!Notify
    /\ app' = [app EXCEPT !.pc = "test"]
    /\ UNCHANGED <<txVars, brk, frame, freed, external>>

\* uk_netdev_tx_one of buffer b from a.
Send(a, b, room) == [a EXCEPT !.pc = "xmit", !.out = b, !.room = room]

\* The test packet the loop sends in its first round.
TestPacket ==
    /\ app.pc = "test"
    /\ IF brk < Pool
       THEN brk' = brk + 1 /\ app' = Send(app, brk + 1, Room("test"))
       ELSE brk' = brk /\ app' = Idle
    /\ UNCHANGED <<rxVars, txVars, frame, freed, external>>

-----------------------------------------------------------------------------

\* Mutant: what was received decides what is filled.
RefillReceived(a, avail) ==
    IF a.pkt # Null /\ avail >= Bdc THEN FillUp(a, AlignDown(avail), "handle")
    ELSE [a EXCEPT !.pc = "handle"]

\* The second half of virtio_netdev_recv: with avail descriptors free, each of them is
\* to get a buffer.
Refill(a, avail) ==
    IF avail >= Bdc THEN FillUp(a, AlignDown(avail), "handle")
    ELSE [a EXCEPT !.pc = "handle"]

\* virtio_netdev_recv, nothing was returned.
ReceiveNone ==
    /\ app.pc = "receive"
    /\ ~RX!HasUsed
    /\ app' = Refill(app, rxTab.avail)
    /\ UNCHANGED <<rxVars, txVars, brk, frame, freed, external>>

KindIn(b) == net.frames[frame[b]]

\* A frame.  One shorter than the headers is an error: the caller gets no buffer, and
\* the queue is not refilled this time.
ReceiveFrame ==
    /\ app.pc = "receive"
    /\ RX!Reclaim
    /\ app' = IF KindIn(RX!UsedCookie) = "runt" THEN Idle
              ELSE Refill([app EXCEPT !.pkt = RX!UsedCookie], rxTab'.avail)
    /\ UNCHANGED <<txVars, brk, frame, freed, external>>

HandleNone ==
    /\ app.pc = "handle" /\ app.pkt = Null
    /\ app' = Idle
    /\ UNCHANGED <<rxVars, txVars, brk, frame, freed, external>>

\* A frame no handler answers.
HandleOther ==
    /\ app.pc = "handle" /\ app.pkt # Null
    /\ KindIn(app.pkt) = "other"
    /\ freed' = freed \cup {app.pkt}
    /\ app' = Idle
    /\ UNCHANGED <<rxVars, txVars, brk, frame, external>>

\* handle_arp_packet and echo_tcp_packet answer in the buffer of the frame.
HandleInPlace(kind) ==
    /\ app.pc = "handle" /\ app.pkt # Null
    /\ KindIn(app.pkt) = kind
    /\ app' = Send(app, app.pkt, Room(kind))
    /\ UNCHANGED <<rxVars, txVars, brk, frame, freed, external>>

HandleArp == HandleInPlace("arp")
HandleTcp == HandleInPlace("tcp")

\* Mutant: the frame is not copied into the answer.
HandleUdpEmpty ==
    /\ app.pc = "handle" /\ app.pkt # Null
    /\ KindIn(app.pkt) = "udp"
    /\ IF brk < Pool
       THEN brk' = brk + 1 /\ app' = Send(app, brk + 1, Room("udp")) /\ UNCHANGED freed
       ELSE brk' = brk /\ app' = Idle /\ freed' = freed \cup {app.pkt}
    /\ UNCHANGED <<rxVars, txVars, frame, external>>

\* echo_udp_packet answers in a buffer of its own; without one the frame is dropped.
HandleUdp ==
    /\ app.pc = "handle" /\ app.pkt # Null
    /\ KindIn(app.pkt) = "udp"
    /\ IF brk < Pool
       THEN /\ brk' = brk + 1
            /\ frame' = [frame EXCEPT ![brk + 1] = frame[app.pkt]]
            /\ app' = Send(app, brk + 1, Room("udp"))
            /\ UNCHANGED freed
       ELSE /\ freed' = freed \cup {app.pkt}
            /\ app' = Idle
            /\ UNCHANGED <<brk, frame>>
    /\ UNCHANGED <<rxVars, txVars, external>>

-----------------------------------------------------------------------------

\* virtio_netdev_xmit_free: the packets the device has sent are freed.
XmitFree ==
    /\ app.pc = "xmit"
    /\ TX!Reclaim
    /\ freed' = freed \cup {TX!UsedCookie}
    /\ UNCHANGED <<rxVars, app, brk, frame, external>>

\* No room for the virtio header: an error.  The callers free the packet.
XmitNoRoom ==
    /\ app.pc = "xmit" /\ ~TX!HasUsed /\ app.room = 0
    /\ freed' = freed \cup ({app.out, app.pkt} \ {Null})
    /\ app' = Idle
    /\ UNCHANGED <<rxVars, txVars, brk, frame, external>>

\* Not enough descriptors for header and data: the status says neither error nor
\* success, which the callers take for success.
XmitFull ==
    /\ app.pc = "xmit" /\ ~TX!HasUsed /\ app.room > 0
    /\ TX!Refuses(txTab, 2)
    /\ app' = Idle
    /\ UNCHANGED <<rxVars, txVars, brk, frame, freed, external>>

XmitEnqueue ==
    /\ app.pc = "xmit" /\ ~TX!HasUsed /\ app.room > 0
    /\ TX!Prepare(app.out, 2)
    /\ app' = [app EXCEPT !.pc = "sent"]
    /\ UNCHANGED <<rxVars, brk, frame, freed, external>>

XmitPublish ==
    /\ app.pc = "sent"
    /\ TX!Publish
    /\ app' = [app EXCEPT !.pc = "notify"]
    /\ UNCHANGED <<rxVars, brk, frame, freed, external>>

\* Mutant: the packet is freed after it was handed over.
XmitNotifyFree ==
    /\ app.pc = "notify"
    /\ TX!Notify
    /\ app' = Idle
    /\ freed' = freed \cup {app.out}
    /\ UNCHANGED <<rxVars, brk, frame, external>>

\* The device owns the packet; the frame it answers is not freed.
XmitNotify ==
    /\ app.pc = "notify"
    /\ TX!Notify
    /\ app' = Idle
    /\ UNCHANGED <<rxVars, brk, frame, freed, external>>

Thread ==
    \/ FillBatch \/ FillEnqueue \/ FillPublish \/ FillRefused \/ FillEnd
    \/ Started \/ Opened \/ TestPacket
    \/ ReceiveNone \/ ReceiveFrame
    \/ HandleNone \/ HandleOther \/ HandleArp \/ HandleTcp \/ HandleUdp
    \/ XmitFree \/ XmitNoRoom \/ XmitFull \/ XmitEnqueue
    \/ XmitPublish \/ XmitNotify

-----------------------------------------------------------------------------

rest == <<app, brk, freed>>

\* External: the device takes an empty receive buffer, or waits for a notification.
RxTake ==
    /\ (Cardinality(rxDev.held) < net.ahead /\ RX!DevFetch) \/ RX!DevSleep
    /\ UNCHANGED <<txVars, rest, frame, external>>

\* External: the next frame arrives in one of the buffers the device holds.
RxArrive ==
    /\ arrived < Len(net.frames)
    /\ \E h \in rxDev.held :
          /\ RX!DevWrite(h)
          /\ frame' = [frame EXCEPT ![rxTab.cookie[h]] = arrived + 1]
    /\ arrived' = arrived + 1
    /\ UNCHANGED <<txVars, rest, wire, net>>

RxReturn ==
    /\ RX!DevPublish
    /\ UNCHANGED <<txVars, rest, frame, external>>

\* External: the device puts the next packet on the wire, or waits.
TxTake ==
    /\ IF txDev.seen # txRing.aidx
       THEN /\ TX!DevFetch
            /\ wire' = Append(wire, frame[txTab.cookie[txRing.avail[txDev.seen % TxNum]]])
       ELSE TX!DevSleep /\ UNCHANGED wire
    /\ UNCHANGED <<rxVars, rest, frame, arrived, net>>

TxReturn ==
    /\ (\E h \in txDev.held : TX!DevWrite(h)) \/ TX!DevPublish
    /\ UNCHANGED <<rxVars, rest, frame, external>>

Next == Thread \/ RxTake \/ RxArrive \/ RxReturn \/ TxTake \/ TxReturn

\* The loop runs on; the device need not do anything.
Spec == Init /\ [][Next]_vars /\ WF_vars(Thread)

-----------------------------------------------------------------------------

\* Both descriptor tables account for every descriptor, and every buffer in use is in
\* one hand (virtqueue_buffer_enqueue, virtqueue_detach_desc, virtqueue_buffer_dequeue).
DescriptorsAccounted ==
    /\ rxTab \in RX!Table /\ txTab \in TX!Table
    /\ brk \in 0 .. Pool
    /\ RX!Queue!PoolAccounted
    /\ TX!Queue!PoolAccounted

\* Through wrapping indices, slots written before their index is, and notifications,
\* the rings carry the buffers as the queues of DescriptorPool do: offers in order,
\* each returned once.
QueuesArePools == RX!Queue!Spec /\ TX!Queue!Spec

Queued(t) == {t.cookie[h] : h \in {g \in DOMAIN t.cookie : t.cookie[g] # Null}}
InHand == {app.batch[i] : i \in (IF app.pc = "publish" THEN 2 ELSE 1) .. Len(app.batch)}
              \cup ({app.pkt} \ {Null})

\* A buffer the driver or the device may still write is neither freed nor in use for
\* something else: the receive queue, the transmit queue, the buffers about to be
\* queued, the packet being handled and the freed buffers have nothing in common, and
\* no buffer is queued twice (uk_netbuf_free, "driver takes ownership").
BuffersApart ==
    /\ Cardinality(Queued(rxTab)) = Cardinality(RX!Busy(rxTab))
    /\ Cardinality(Queued(txTab)) = Cardinality(TX!Busy(txTab))
    /\ Queued(rxTab) \cap (Queued(txTab) \cup InHand \cup freed) = {}
    /\ Queued(txTab) \cap (InHand \cup freed) = {}
    /\ InHand \cap freed = {}

\* What leaves is the test packet and then answers to frames that arrived and ask for
\* one, in the order of their arrival, none of them twice.
EchoedInOrder ==
    /\ \A i, j \in 1 .. Len(wire) : i < j => wire[i] < wire[j]
    /\ \A i \in 1 .. Len(wire) : wire[i] # 0 => net.frames[wire[i]] \in {"arp", "tcp", "udp"}

\* Chains the device has returned with a frame and the driver has not taken back.
Waiting == {RX!Returned[i] : i \in 1 .. Len(RX!Returned)}

\* Every frame the device returns is taken, across the wrap of the ring's indices
\* (virtqueue_hasdata, virtqueue_buffer_dequeue).
FramesTaken == \A h \in 0 .. RxNum - 1 : (h \in Waiting) ~> (h \notin Waiting)

\* A device that is left without receive buffers gets some again, while there is
\* memory (the comments in virtio_netdev_rxq_dequeue and virtio_netdev_recv tell of
\* versions that filled none).
Starved == RX!Offered = <<>> /\ rxDev.held = {}
Restocked == (Starved /\ brk < Pool) ~> (~Starved \/ brk = Pool)

\* An attempt to send puts the packet on the ring, as the comments "Send ARP reply"
\* and "Send the echoed packet" say.  Not so: the room for the last header is used up
\* in the answers built in place.
RepliesLeave == [][app.pc = "xmit" /\ app'.pc # "xmit" => TX!Prepare(app.out, 2)]_vars

=============================================================================
