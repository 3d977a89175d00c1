------------------------------ MODULE NetEchoProofs ------------------------------
(* Proofs about the packet path, for any sizes of the queues, any memory and any      *)
(* network: both queues keep their promise under the driver and the device of        *)
(* NetEcho, and no buffer is ever in two places.                                     *)
EXTENDS NetEcho, FiniteSetTheorems, SequenceTheorems, TLAPS

\* What is proved of a virtqueue, for the receive and for the transmit queue.
R == INSTANCE VirtqueueProofs WITH
    Num <- RxNum, W <- RxW, Cookies <- Buffers,
    tab <- rxTab, drv <- rxDrv, ring <- rxRing, dev <- rxDev

T == INSTANCE VirtqueueProofs WITH
    Num <- TxNum, W <- TxW, Cookies <- Buffers,
    tab <- txTab, drv <- txDrv, ring <- txRing, dev <- txDev

-------------------------------------------------------------------------------
(* The definitions are the same under both names of a queue.                       *)

LEMMA RxTable ==
    /\ RX!QueueSetUp <=> R!QueueSetUp
    /\ RX!Desc = R!Desc /\ RX!End = R!End /\ RX!Table = R!Table
    /\ RX!TableInit = R!TableInit
    /\ \A t : RX!Busy(t) = R!Busy(t)
    /\ \A t, n : RX!Refuses(t, n) <=> R!Refuses(t, n)
    /\ \A t, c, n : RX!Take(t, c, n) = R!Take(t, c, n)
    /\ \A t, h : RX!Detach(t, h) = R!Detach(t, h)
    /\ RX!UsedHead = R!UsedHead /\ (RX!HasUsed <=> R!HasUsed)
BY DEF RX!QueueSetUp, R!QueueSetUp, RX!TableSetUp, R!TableSetUp,
       RX!Desc, R!Desc, RX!End, R!End, RX!Table, R!Table,
       RX!TableInit, R!TableInit, RX!Busy, R!Busy, RX!Refuses, R!Refuses,
       RX!LastTaken, R!LastTaken, RX!Take, R!Take, RX!Second, R!Second,
       RX!LastOf, R!LastOf, RX!Detach, R!Detach, RX!UsedHead, R!UsedHead, RX!HasUsed, R!HasUsed

LEMMA RxActions ==
    /\ \A c, n : RX!Prepare(c, n) <=> R!Prepare(c, n)
    /\ RX!Publish <=> R!Publish
    /\ RX!Notify <=> R!Notify
    /\ RX!Reclaim <=> R!Reclaim
    /\ RX!DevFetch <=> R!DevFetch
    /\ RX!DevSleep <=> R!DevSleep
    /\ \A h : RX!DevWrite(h) <=> R!DevWrite(h)
    /\ RX!DevPublish <=> R!DevPublish
<1>1. \A c, n : RX!Prepare(c, n) <=> R!Prepare(c, n)
  BY RxTable DEF RX!Prepare, R!Prepare
<1>2. RX!Publish <=> R!Publish
  BY DEF RX!Publish, R!Publish
<1>3. RX!Notify <=> R!Notify
  BY DEF RX!Notify, R!Notify
<1>4. RX!Reclaim <=> R!Reclaim
  BY RxTable DEF RX!Reclaim, R!Reclaim
<1>5. RX!DevFetch <=> R!DevFetch
  BY DEF RX!DevFetch, R!DevFetch
<1>6. RX!DevSleep <=> R!DevSleep
  BY DEF RX!DevSleep, R!DevSleep
<1>7. \A h : RX!DevWrite(h) <=> R!DevWrite(h)
  BY RxTable DEF RX!DevWrite, R!DevWrite
<1>8. RX!DevPublish <=> R!DevPublish
  BY RxTable DEF RX!DevPublish, R!DevPublish
<1> QED  BY <1>1, <1>2, <1>3, <1>4, <1>5, <1>6, <1>7, <1>8

LEMMA RxSteps ==
    /\ RX!Init <=> R!Init
    /\ RX!vars = R!vars /\ RX!vars' = R!vars'
    /\ RX!Next <=> R!Next
<1>1. RX!Init <=> R!Init
  BY RxTable DEF RX!Init, R!Init
<1>2. RX!vars = R!vars /\ RX!vars' = R!vars'
  BY DEF RX!vars, R!vars
<1>3. RX!Next <=> R!Next
  BY RxActions, Zenon DEF RX!Next, R!Next
<1> QED  BY <1>1, <1>2, <1>3

LEMMA RxPool ==
    /\ RX!Queue!Init <=> R!Queue!Init
    /\ RX!Queue!vars = R!Queue!vars /\ RX!Queue!vars' = R!Queue!vars'
    /\ RX!Queue!Next <=> R!Queue!Next
    /\ RX!Queue!PoolAccounted <=> R!Queue!PoolAccounted
<1>1. /\ RX!Ready = R!Ready /\ RX!Offered = R!Offered /\ RX!Returned = R!Returned
      /\ RX!Ready' = R!Ready' /\ RX!Offered' = R!Offered' /\ RX!Returned' = R!Returned'
  BY DEF RX!Ready, R!Ready, RX!Offered, R!Offered, RX!Returned, R!Returned, RX!Window, R!Window, RX!End, R!End
<1>2. /\ RX!Queue!Desc = R!Queue!Desc /\ RX!Queue!End = R!Queue!End
      /\ RX!Queue!TableInit = R!Queue!TableInit
      /\ \A t : RX!Queue!Busy(t) = R!Queue!Busy(t)
      /\ \A t, n : RX!Queue!Refuses(t, n) <=> R!Queue!Refuses(t, n)
      /\ \A t, c, n : RX!Queue!Take(t, c, n) = R!Queue!Take(t, c, n)
      /\ \A t, h : RX!Queue!Detach(t, h) = R!Queue!Detach(t, h)
  BY DEF RX!Queue!Desc, R!Queue!Desc, RX!Queue!End, R!Queue!End,
         RX!Queue!TableInit, R!Queue!TableInit, RX!Queue!Busy, R!Queue!Busy, RX!Queue!Refuses, R!Queue!Refuses,
         RX!Queue!LastTaken, R!Queue!LastTaken, RX!Queue!Take, R!Queue!Take, RX!Queue!Second, R!Queue!Second,
         RX!Queue!LastOf, R!Queue!LastOf, RX!Queue!Detach, R!Queue!Detach
<1>3. RX!Queue!Init <=> R!Queue!Init
  BY <1>1, <1>2 DEF RX!Queue!Init, R!Queue!Init
<1>4. RX!Queue!vars = R!Queue!vars /\ RX!Queue!vars' = R!Queue!vars'
  BY <1>1 DEF RX!Queue!vars, R!Queue!vars
<1>5. RX!Queue!Next <=> R!Queue!Next
  <2>1. \A c, n : RX!Queue!Prepare(c, n) <=> R!Queue!Prepare(c, n)
    BY <1>1, <1>2 DEF RX!Queue!Prepare, R!Queue!Prepare
  <2>2. RX!Queue!Publish <=> R!Queue!Publish
    BY <1>1, <1>2 DEF RX!Queue!Publish, R!Queue!Publish
  <2>3. RX!Queue!Fetch <=> R!Queue!Fetch
    BY <1>1 DEF RX!Queue!Fetch, R!Queue!Fetch
  <2>4. \A h : RX!Queue!Complete(h) <=> R!Queue!Complete(h)
    BY <1>1 DEF RX!Queue!Complete, R!Queue!Complete
  <2>5. RX!Queue!Reclaim <=> R!Queue!Reclaim
    BY <1>1, <1>2 DEF RX!Queue!Reclaim, R!Queue!Reclaim
  <2> QED  BY <2>1, <2>2, <2>3, <2>4, <2>5, Zenon DEF RX!Queue!Next, R!Queue!Next
<1>6. RX!Queue!PoolAccounted <=> R!Queue!PoolAccounted
  <2>1. \A t, h : RX!Queue!ChainOf(t, h) = R!Queue!ChainOf(t, h)
    BY DEF RX!Queue!ChainOf, R!Queue!ChainOf
  <2>2. \A t : RX!Queue!ChainsKept(t) <=> R!Queue!ChainsKept(t)
    BY <1>2 DEF RX!Queue!ChainsKept, R!Queue!ChainsKept
  <2>3. \A t : RX!Queue!ChainsApart(t) <=> R!Queue!ChainsApart(t)
    BY <1>2, <2>1 DEF RX!Queue!ChainsApart, R!Queue!ChainsApart
  <2>4. \A t, fl : RX!Queue!IsFreeList(t, fl) <=> R!Queue!IsFreeList(t, fl)
    BY <1>2 DEF RX!Queue!IsFreeList, R!Queue!IsFreeList
  <2>5. ASSUME NEW t PROVE RX!Queue!Accounted(t) <=> R!Queue!Accounted(t)
    <3>1. RX!Queue!Desc = R!Queue!Desc /\ RX!Queue!Busy(t) = R!Queue!Busy(t)
      BY <1>2
    <3>2. /\ RX!Queue!ChainsKept(t) <=> R!Queue!ChainsKept(t)
          /\ RX!Queue!ChainsApart(t) <=> R!Queue!ChainsApart(t)
      BY <2>2, <2>3
    <3>3. \A d : (\E h \in RX!Queue!Busy(t) : d \in RX!Queue!ChainOf(t, h))
                   <=> (\E h \in R!Queue!Busy(t) : d \in R!Queue!ChainOf(t, h))
      BY ONLY <3>1, <2>1
    <3> DEFINE L(fl) == /\ RX!Queue!IsFreeList(t, fl)
                        /\ \A d \in RX!Queue!Desc : (\E i \in 1 .. t.avail : fl[i] = d)
                             <=> ~(\E h \in RX!Queue!Busy(t) : d \in RX!Queue!ChainOf(t, h))
               M(fl) == /\ R!Queue!IsFreeList(t, fl)
                        /\ \A d \in R!Queue!Desc : (\E i \in 1 .. t.avail : fl[i] = d)
                             <=> ~(\E h \in R!Queue!Busy(t) : d \in R!Queue!ChainOf(t, h))
    <3>4. \A fl : L(fl) <=> M(fl)
      BY ONLY <3>1, <3>3, <2>4
    <3>5. RX!Queue!Accounted(t) <=> /\ RX!Queue!ChainsKept(t) /\ RX!Queue!ChainsApart(t)
                                   /\ \E fl \in [1 .. t.avail -> RX!Queue!Desc] : L(fl)
      BY ONLY DEF RX!Queue!Accounted
    <3>6. R!Queue!Accounted(t) <=> /\ R!Queue!ChainsKept(t) /\ R!Queue!ChainsApart(t)
                                   /\ \E fl \in [1 .. t.avail -> R!Queue!Desc] : M(fl)
      BY ONLY DEF R!Queue!Accounted
    <3> HIDE DEF L, M
    <3> QED  BY ONLY <3>1, <3>2, <3>4, <3>5, <3>6
  <2>6. \A s : /\ RX!Queue!Elems(s) = R!Queue!Elems(s)
               /\ RX!Queue!Distinct(s) <=> R!Queue!Distinct(s)
    BY DEF RX!Queue!Elems, R!Queue!Elems, RX!Queue!Distinct, R!Queue!Distinct
  <2>7. RX!Queue!InOneHand <=> R!Queue!InOneHand
    BY <1>1, <1>2, <2>6 DEF RX!Queue!InOneHand, R!Queue!InOneHand
  <2> QED  BY <2>5, <2>7, Zenon DEF RX!Queue!PoolAccounted, R!Queue!PoolAccounted
<1> QED  BY <1>3, <1>4, <1>5, <1>6

LEMMA TxTable ==
    /\ TX!QueueSetUp <=> T!QueueSetUp
    /\ TX!Desc = T!Desc /\ TX!End = T!End /\ TX!Table = T!Table
    /\ TX!TableInit = T!TableInit
    /\ \A t : TX!Busy(t) = T!Busy(t)
    /\ \A t, n : TX!Refuses(t, n) <=> T!Refuses(t, n)
    /\ \A t, c, n : TX!Take(t, c, n) = T!Take(t, c, n)
    /\ \A t, h : TX!Detach(t, h) = T!Detach(t, h)
    /\ TX!UsedHead = T!UsedHead /\ (TX!HasUsed <=> T!HasUsed)
BY DEF TX!QueueSetUp, T!QueueSetUp, TX!TableSetUp, T!TableSetUp,
       TX!Desc, T!Desc, TX!End, T!End, TX!Table, T!Table,
       TX!TableInit, T!TableInit, TX!Busy, T!Busy, TX!Refuses, T!Refuses,
       TX!LastTaken, T!LastTaken, TX!Take, T!Take, TX!Second, T!Second,
       TX!LastOf, T!LastOf, TX!Detach, T!Detach, TX!UsedHead, T!UsedHead, TX!HasUsed, T!HasUsed

LEMMA TxActions ==
    /\ \A c, n : TX!Prepare(c, n) <=> T!Prepare(c, n)
    /\ TX!Publish <=> T!Publish
    /\ TX!Notify <=> T!Notify
    /\ TX!Reclaim <=> T!Reclaim
    /\ TX!DevFetch <=> T!DevFetch
    /\ TX!DevSleep <=> T!DevSleep
    /\ \A h : TX!DevWrite(h) <=> T!DevWrite(h)
    /\ TX!DevPublish <=> T!DevPublish
<1>1. \A c, n : TX!Prepare(c, n) <=> T!Prepare(c, n)
  BY TxTable DEF TX!Prepare, T!Prepare
<1>2. TX!Publish <=> T!Publish
  BY DEF TX!Publish, T!Publish
<1>3. TX!Notify <=> T!Notify
  BY DEF TX!Notify, T!Notify
<1>4. TX!Reclaim <=> T!Reclaim
  BY TxTable DEF TX!Reclaim, T!Reclaim
<1>5. TX!DevFetch <=> T!DevFetch
  BY DEF TX!DevFetch, T!DevFetch
<1>6. TX!DevSleep <=> T!DevSleep
  BY DEF TX!DevSleep, T!DevSleep
<1>7. \A h : TX!DevWrite(h) <=> T!DevWrite(h)
  BY TxTable DEF TX!DevWrite, T!DevWrite
<1>8. TX!DevPublish <=> T!DevPublish
  BY TxTable DEF TX!DevPublish, T!DevPublish
<1> QED  BY <1>1, <1>2, <1>3, <1>4, <1>5, <1>6, <1>7, <1>8

LEMMA TxSteps ==
    /\ TX!Init <=> T!Init
    /\ TX!vars = T!vars /\ TX!vars' = T!vars'
    /\ TX!Next <=> T!Next
<1>1. TX!Init <=> T!Init
  BY TxTable DEF TX!Init, T!Init
<1>2. TX!vars = T!vars /\ TX!vars' = T!vars'
  BY DEF TX!vars, T!vars
<1>3. TX!Next <=> T!Next
  BY TxActions, Zenon DEF TX!Next, T!Next
<1> QED  BY <1>1, <1>2, <1>3

LEMMA TxPool ==
    /\ TX!Queue!Init <=> T!Queue!Init
    /\ TX!Queue!vars = T!Queue!vars /\ TX!Queue!vars' = T!Queue!vars'
    /\ TX!Queue!Next <=> T!Queue!Next
    /\ TX!Queue!PoolAccounted <=> T!Queue!PoolAccounted
<1>1. /\ TX!Ready = T!Ready /\ TX!Offered = T!Offered /\ TX!Returned = T!Returned
      /\ TX!Ready' = T!Ready' /\ TX!Offered' = T!Offered' /\ TX!Returned' = T!Returned'
  BY DEF TX!Ready, T!Ready, TX!Offered, T!Offered, TX!Returned, T!Returned, TX!Window, T!Window, TX!End, T!End
<1>2. /\ TX!Queue!Desc = T!Queue!Desc /\ TX!Queue!End = T!Queue!End
      /\ TX!Queue!TableInit = T!Queue!TableInit
      /\ \A t : TX!Queue!Busy(t) = T!Queue!Busy(t)
      /\ \A t, n : TX!Queue!Refuses(t, n) <=> T!Queue!Refuses(t, n)
      /\ \A t, c, n : TX!Queue!Take(t, c, n) = T!Queue!Take(t, c, n)
      /\ \A t, h : TX!Queue!Detach(t, h) = T!Queue!Detach(t, h)
  BY DEF TX!Queue!Desc, T!Queue!Desc, TX!Queue!End, T!Queue!End,
         TX!Queue!TableInit, T!Queue!TableInit, TX!Queue!Busy, T!Queue!Busy, TX!Queue!Refuses, T!Queue!Refuses,
         TX!Queue!LastTaken, T!Queue!LastTaken, TX!Queue!Take, T!Queue!Take, TX!Queue!Second, T!Queue!Second,
         TX!Queue!LastOf, T!Queue!LastOf, TX!Queue!Detach, T!Queue!Detach
<1>3. TX!Queue!Init <=> T!Queue!Init
  BY <1>1, <1>2 DEF TX!Queue!Init, T!Queue!Init
<1>4. TX!Queue!vars = T!Queue!vars /\ TX!Queue!vars' = T!Queue!vars'
  BY <1>1 DEF TX!Queue!vars, T!Queue!vars
<1>5. TX!Queue!Next <=> T!Queue!Next
  <2>1. \A c, n : TX!Queue!Prepare(c, n) <=> T!Queue!Prepare(c, n)
    BY <1>1, <1>2 DEF TX!Queue!Prepare, T!Queue!Prepare
  <2>2. TX!Queue!Publish <=> T!Queue!Publish
    BY <1>1, <1>2 DEF TX!Queue!Publish, T!Queue!Publish
  <2>3. TX!Queue!Fetch <=> T!Queue!Fetch
    BY <1>1 DEF TX!Queue!Fetch, T!Queue!Fetch
  <2>4. \A h : TX!Queue!Complete(h) <=> T!Queue!Complete(h)
    BY <1>1 DEF TX!Queue!Complete, T!Queue!Complete
  <2>5. TX!Queue!Reclaim <=> T!Queue!Reclaim
    BY <1>1, <1>2 DEF TX!Queue!Reclaim, T!Queue!Reclaim
  <2> QED  BY <2>1, <2>2, <2>3, <2>4, <2>5, Zenon DEF TX!Queue!Next, T!Queue!Next
<1>6. TX!Queue!PoolAccounted <=> T!Queue!PoolAccounted
  <2>1. \A t, h : TX!Queue!ChainOf(t, h) = T!Queue!ChainOf(t, h)
    BY DEF TX!Queue!ChainOf, T!Queue!ChainOf
  <2>2. \A t : TX!Queue!ChainsKept(t) <=> T!Queue!ChainsKept(t)
    BY <1>2 DEF TX!Queue!ChainsKept, T!Queue!ChainsKept
  <2>3. \A t : TX!Queue!ChainsApart(t) <=> T!Queue!ChainsApart(t)
    BY <1>2, <2>1 DEF TX!Queue!ChainsApart, T!Queue!ChainsApart
  <2>4. \A t, fl : TX!Queue!IsFreeList(t, fl) <=> T!Queue!IsFreeList(t, fl)
    BY <1>2 DEF TX!Queue!IsFreeList, T!Queue!IsFreeList
  <2>5. ASSUME NEW t PROVE TX!Queue!Accounted(t) <=> T!Queue!Accounted(t)
    <3>1. TX!Queue!Desc = T!Queue!Desc /\ TX!Queue!Busy(t) = T!Queue!Busy(t)
      BY <1>2
    <3>2. /\ TX!Queue!ChainsKept(t) <=> T!Queue!ChainsKept(t)
          /\ TX!Queue!ChainsApart(t) <=> T!Queue!ChainsApart(t)
      BY <2>2, <2>3
    <3>3. \A d : (\E h \in TX!Queue!Busy(t) : d \in TX!Queue!ChainOf(t, h))
                   <=> (\E h \in T!Queue!Busy(t) : d \in T!Queue!ChainOf(t, h))
      BY ONLY <3>1, <2>1
    <3> DEFINE L(fl) == /\ TX!Queue!IsFreeList(t, fl)
                        /\ \A d \in TX!Queue!Desc : (\E i \in 1 .. t.avail : fl[i] = d)
                             <=> ~(\E h \in TX!Queue!Busy(t) : d \in TX!Queue!ChainOf(t, h))
               M(fl) == /\ T!Queue!IsFreeList(t, fl)
                        /\ \A d \in T!Queue!Desc : (\E i \in 1 .. t.avail : fl[i] = d)
                             <=> ~(\E h \in T!Queue!Busy(t) : d \in T!Queue!ChainOf(t, h))
    <3>4. \A fl : L(fl) <=> M(fl)
      BY ONLY <3>1, <3>3, <2>4
    <3>5. TX!Queue!Accounted(t) <=> /\ TX!Queue!ChainsKept(t) /\ TX!Queue!ChainsApart(t)
                                   /\ \E fl \in [1 .. t.avail -> TX!Queue!Desc] : L(fl)
      BY ONLY DEF TX!Queue!Accounted
    <3>6. T!Queue!Accounted(t) <=> /\ T!Queue!ChainsKept(t) /\ T!Queue!ChainsApart(t)
                                   /\ \E fl \in [1 .. t.avail -> T!Queue!Desc] : M(fl)
      BY ONLY DEF T!Queue!Accounted
    <3> HIDE DEF L, M
    <3> QED  BY ONLY <3>1, <3>2, <3>4, <3>5, <3>6
  <2>6. \A s : /\ TX!Queue!Elems(s) = T!Queue!Elems(s)
               /\ TX!Queue!Distinct(s) <=> T!Queue!Distinct(s)
    BY DEF TX!Queue!Elems, T!Queue!Elems, TX!Queue!Distinct, T!Queue!Distinct
  <2>7. TX!Queue!InOneHand <=> T!Queue!InOneHand
    BY <1>1, <1>2, <2>6 DEF TX!Queue!InOneHand, T!Queue!InOneHand
  <2> QED  BY <2>5, <2>7, Zenon DEF TX!Queue!PoolAccounted, T!Queue!PoolAccounted
<1> QED  BY <1>3, <1>4, <1>5, <1>6

-------------------------------------------------------------------------------
(* Types of the thread.                                                            *)

Positions == {"fill", "publish", "filled", "started", "opened", "test", "receive",
              "handle", "xmit", "sent", "notify"}

AppType == [pc : Positions, want : Nat, filled : Nat, batch : Seq(Buffers),
            short : BOOLEAN, back : Positions \ {"xmit", "publish"}, pkt : Buffers \cup {Null},
            out : Buffers \cup {Null}, room : 0 .. 4]

\* At a position where nothing is expected of the packet and the buffers.
Settled(a) == a.pc \notin {"xmit", "publish"}

\* The thread is typed, and has a packet when it is about to send one and
\* a buffer when it is about to offer one.
ThreadInv ==
    /\ app \in AppType
    /\ brk \in 0 .. Pool
    /\ app.pc = "xmit" => app.out \in Buffers
    /\ app.pc = "publish" => app.batch # <<>>

\* The two queues as Virtqueue leaves them, and the thread.
QueuesInv == R!RingInv /\ T!RingInv /\ ThreadInv

LEMMA Setting ==
    /\ R!QueueSetUp /\ T!QueueSetUp
    /\ RxNum \in Nat \ {0} /\ TxNum \in Nat \ {0} /\ Null \notin Buffers
    /\ Bdc \in 1 .. 2 /\ Bdc <= RxNum /\ Batch \in Nat \ {0} /\ Pool \in Nat
<1>1. R!QueueSetUp /\ T!QueueSetUp
  BY QueueAssumption, RxTable, TxTable
<1>2. RxNum \in Nat \ {0} /\ TxNum \in Nat \ {0} /\ Null \notin Buffers
  BY QueueAssumption DEF RX!QueueSetUp, RX!TableSetUp, TX!QueueSetUp, TX!TableSetUp
<1> QED  BY <1>1, <1>2, SizeAssumption

\* What is asked of rx_fillup is a number of descriptors.
LEMMA Aligned == \A n \in Nat : AlignDown(n) \in Nat
<1>1. \A n \in Nat : n % Bdc \in 0 .. n
  <2>1. SUFFICES ASSUME NEW n \in Nat PROVE n % Bdc \in 0 .. n
    OBVIOUS
  <2>2. CASE Bdc = 1
    BY <2>2
  <2>3. CASE Bdc = 2
    BY <2>3
  <2> QED  BY <2>2, <2>3, Setting
<1> QED  BY <1>1 DEF AlignDown

LEMMA Fills == FirstFill \in Nat /\ (SecondFill > 0 => SecondFill \in Nat)
<1>1. RxNum \div 4 \in Nat /\ RxNum \div 2 \in Nat
  BY Setting
<1>2. AlignDown(Larger(RxNum \div 4, 1)) \in Nat /\ AlignDown(RxNum \div 2) \in Nat
  BY <1>1, Aligned DEF Larger
<1>3. FirstFill \in Nat
  BY <1>2, Setting DEF FirstFill, Larger
<1> QED  BY <1>2, <1>3 DEF SecondFill

LEMMA FillUpType ==
    ASSUME NEW a \in AppType, NEW n \in Nat, NEW pc \in Positions \ {"xmit", "publish"}
    PROVE  FillUp(a, n, pc) \in AppType /\ Settled(FillUp(a, n, pc))
<1>1. "fill" \in Positions \ {"xmit", "publish"}
  BY DEF Positions
<1>2. FillUp(a, n, pc) \in AppType
  BY <1>1 DEF FillUp, AppType
<1>3. FillUp(a, n, pc).pc = "fill"
  BY DEF FillUp, AppType
<1> QED  BY <1>2, <1>3 DEF Settled

LEMMA SendType ==
    ASSUME NEW a \in AppType, NEW b \in Buffers, NEW room \in 0 .. 4
    PROVE  /\ Send(a, b, room) \in AppType /\ Send(a, b, room).out = b
           /\ Send(a, b, room).pc = "xmit"
<1>1. "xmit" \in Positions
  BY DEF Positions
<1> QED  BY <1>1 DEF Send, AppType

LEMMA RefillType ==
    ASSUME NEW a \in AppType, NEW n \in Nat
    PROVE  Refill(a, n) \in AppType /\ Settled(Refill(a, n))
<1>1. CASE n >= Bdc
  <2>1. AlignDown(n) \in Nat /\ "handle" \in Positions \ {"xmit", "publish"}
    BY Aligned DEF Positions
  <2> QED  BY <1>1, <2>1, FillUpType DEF Refill
<1>2. CASE ~(n >= Bdc)
  BY <1>2 DEF Refill, AppType, Positions, Settled
<1> QED  BY <1>1, <1>2

LEMMA IdleType == Idle \in AppType /\ Idle.pc = "receive"
<1>1. <<>> \in Seq(Buffers)
  OBVIOUS
<1> QED  BY <1>1 DEF Idle, AppType, Positions

LEMMA RoomType == \A k \in {"arp", "tcp", "udp", "test"} : Room(k) \in 0 .. 4
BY DEF Room

\* Every step of the program and the device is a step of each queue, or none.
QueueSteps == [RX!Next]_(RX!vars) /\ [TX!Next]_(TX!vars)

LEMMA Unmoved ==
    /\ rxVars' = rxVars => UNCHANGED RX!vars
    /\ txVars' = txVars => UNCHANGED TX!vars
BY DEF rxVars, txVars, RX!vars, TX!vars

LEMMA TableTypes ==
    ASSUME QueuesInv
    PROVE  /\ rxTab \in RX!Table /\ txTab \in TX!Table
           /\ rxTab.avail \in Nat /\ txTab.avail \in Nat
           /\ RX!HasUsed => RX!UsedHead \in RX!Busy(rxTab) /\ RX!UsedCookie \in Buffers
           /\ TX!HasUsed => TX!UsedHead \in TX!Busy(txTab) /\ TX!UsedCookie \in Buffers
<1>1. rxTab \in RX!Table /\ txTab \in TX!Table
  BY RxTable, TxTable DEF QueuesInv, R!RingInv, R!PoolInv, T!RingInv, T!PoolInv
<1>2. rxTab.avail \in Nat /\ txTab.avail \in Nat
  BY <1>1, Setting DEF RX!Table, TX!Table
<1>3. RX!HasUsed => RX!UsedHead \in RX!Busy(rxTab) /\ RX!UsedCookie \in Buffers
  BY Setting, RxTable, R!UsedIsBusy DEF QueuesInv, RX!UsedCookie, R!UsedCookie
<1>4. TX!HasUsed => TX!UsedHead \in TX!Busy(txTab) /\ TX!UsedCookie \in Buffers
  BY Setting, TxTable, T!UsedIsBusy DEF QueuesInv, TX!UsedCookie, T!UsedCookie
<1> QED  BY <1>1, <1>2, <1>3, <1>4

\* Filling the receive queue.
LEMMA FillSteps ==
    ASSUME QueuesInv,
           FillBatch \/ FillEnqueue \/ FillPublish \/ FillRefused \/ FillEnd
    PROVE  QueueSteps /\ ThreadInv'
<1>1. app \in AppType /\ brk \in 0 .. Pool /\ app.batch \in Seq(Buffers)
      /\ app.want \in Nat /\ app.filled \in Nat
  BY DEF QueuesInv, ThreadInv, AppType
<1>2. CASE FillBatch
  <2> DEFINE req == Smaller(app.want \div Bdc, Batch)
             cnt == Smaller(req, Pool - brk)
             b == [i \in 1 .. cnt |-> brk + i]
  <2>1. req \in Nat
    <3>1. app.want \div Bdc \in Nat
      BY <1>1, Setting
    <3> QED  BY <3>1, Setting DEF Smaller
  <2>2. cnt \in Nat /\ cnt <= Pool - brk
    <3> HIDE DEF req
    <3> QED  BY <1>1, <2>1, Setting DEF Smaller
  <2>3. /\ rxVars' = rxVars /\ txVars' = txVars /\ brk' = brk + cnt
        /\ app' = [app EXCEPT !.batch = b, !.short = cnt < req,
                              !.pc = IF cnt = 0 THEN "filled" ELSE "fill"]
    BY <1>2 DEF FillBatch
  <2> HIDE DEF req, cnt
  <2>4. b \in Seq(Buffers)
    <3>1. \A i \in 1 .. cnt : brk + i \in Buffers
      BY <1>1, <2>2, Setting DEF Buffers
    <3> QED  BY <2>2, <3>1
  <2> HIDE DEF b
  <2>5. app' \in AppType /\ Settled(app')
    <3>1. PICK s \in BOOLEAN, pc \in {"filled", "fill"} :
             app' = [app EXCEPT !.batch = b, !.short = s, !.pc = pc]
      <4>1. (cnt < req) \in BOOLEAN
        OBVIOUS
      <4>2. (IF cnt = 0 THEN "filled" ELSE "fill") \in {"filled", "fill"}
        OBVIOUS
      <4> QED  BY <2>3, <4>1, <4>2, Zenon
    <3> QED  BY <1>1, <2>4, <3>1 DEF AppType, Positions, Settled
  <2>6. brk' \in 0 .. Pool
    BY <1>1, <2>2, <2>3, Setting
  <2> QED  BY <2>3, <2>5, <2>6, Unmoved DEF QueueSteps, ThreadInv, Settled
<1>3. CASE FillEnqueue
  <2>1. /\ app.batch # <<>> /\ RX!Prepare(Head(app.batch), Bdc) /\ txVars' = txVars
        /\ app' = [app EXCEPT !.pc = "publish"] /\ brk' = brk
    BY <1>3 DEF FillEnqueue
  <2>2. Head(app.batch) \in Buffers
    BY <1>1, <2>1
  <2>3. RX!Next
    BY <2>1, <2>2, Setting DEF RX!Next
  <2>4. app' \in AppType /\ app'.pc = "publish" /\ app'.batch # <<>>
    BY <1>1, <2>1 DEF AppType, Positions
  <2> QED  BY <1>1, <2>1, <2>3, <2>4, Unmoved DEF QueueSteps, ThreadInv
<1>4. CASE FillPublish
  <2>1. /\ RX!Publish /\ txVars' = txVars /\ brk' = brk
        /\ \E pc \in {"filled", "fill"} :
              app' = [app EXCEPT !.batch = Tail(@), !.filled = @ + Bdc, !.pc = pc]
    BY <1>4 DEF FillPublish
  <2>2. RX!Next
    BY <2>1 DEF RX!Next
  <2>3. Tail(app.batch) \in Seq(Buffers) /\ app.filled + Bdc \in Nat
    <3>1. app.batch # <<>>
      BY <1>4 DEF FillPublish, QueuesInv, ThreadInv
    <3> QED  BY <1>1, <3>1, Setting
  <2>4. app' \in AppType /\ Settled(app')
    BY <1>1, <2>1, <2>3 DEF AppType, Positions, Settled
  <2> QED  BY <1>1, <2>1, <2>2, <2>4, Unmoved DEF QueueSteps, ThreadInv, Settled
<1>5. CASE FillRefused
  <2>1. /\ rxVars' = rxVars /\ txVars' = txVars /\ brk' = brk
        /\ app' = [app EXCEPT !.batch = <<>>, !.pc = "filled"]
    BY <1>5 DEF FillRefused
  <2>2. <<>> \in Seq(Buffers)
    OBVIOUS
  <2>3. app' \in AppType /\ Settled(app')
    BY <1>1, <2>1, <2>2 DEF AppType, Positions, Settled
  <2> QED  BY <1>1, <2>1, <2>3, Unmoved DEF QueueSteps, ThreadInv, Settled
<1>6. CASE FillEnd
  <2>1. /\ RX!Notify \/ rxVars' = rxVars
        /\ txVars' = txVars /\ brk' = brk
        /\ app' = [app EXCEPT !.pc = app.back, !.want = 0, !.filled = 0, !.short = FALSE]
    BY <1>6 DEF FillEnd
  <2>2. app' \in AppType /\ Settled(app')
    BY <1>1, <2>1 DEF AppType, Positions, Settled
  <2>3. RX!Notify => RX!Next
    BY DEF RX!Next
  <2> QED  BY <1>1, <2>1, <2>2, <2>3, Unmoved DEF QueueSteps, ThreadInv, Settled
<1> QED  BY <1>2, <1>3, <1>4, <1>5, <1>6

\* Starting, receiving and answering.
LEMMA AnswerSteps ==
    ASSUME QueuesInv,
           \/ Started \/ Opened \/ TestPacket
           \/ ReceiveNone \/ ReceiveFrame
           \/ HandleNone \/ HandleOther \/ HandleArp \/ HandleTcp \/ HandleUdp
    PROVE  QueueSteps /\ ThreadInv'
<1>1. app \in AppType /\ brk \in 0 .. Pool /\ app.pkt \in Buffers \cup {Null}
  BY DEF QueuesInv, ThreadInv, AppType
<1>2. brk < Pool => brk + 1 \in Buffers /\ brk + 1 \in 0 .. Pool
  BY <1>1, Setting DEF Buffers
<1>3. CASE Started
  <2>1. /\ rxVars' = rxVars /\ txVars' = txVars /\ brk' = brk
        /\ app' = IF SecondFill > 0 THEN FillUp(app, SecondFill, "opened")
                                   ELSE [app EXCEPT !.pc = "opened"]
    BY <1>3 DEF Started
  <2>2. app' \in AppType /\ Settled(app')
    <3>1. CASE SecondFill > 0
      <4>1. "opened" \in Positions \ {"xmit", "publish"} /\ SecondFill \in Nat
        BY <3>1, Fills DEF Positions
      <4> QED  BY <1>1, <2>1, <3>1, <4>1, FillUpType
    <3>2. CASE ~(SecondFill > 0)
      BY <1>1, <2>1, <3>2 DEF AppType, Positions, Settled
    <3> QED  BY <3>1, <3>2
  <2> QED  BY <1>1, <2>1, <2>2, Unmoved DEF QueueSteps, ThreadInv, Settled
<1>4. CASE Opened
  <2>1. RX!Notify /\ txVars' = txVars /\ brk' = brk /\ app' = [app EXCEPT !.pc = "test"]
    BY <1>4 DEF Opened
  <2>2. app' \in AppType /\ Settled(app')
    BY <1>1, <2>1 DEF AppType, Positions, Settled
  <2>3. RX!Next
    BY <2>1 DEF RX!Next
  <2> QED  BY <1>1, <2>1, <2>2, <2>3, Unmoved DEF QueueSteps, ThreadInv, Settled
<1>5. CASE TestPacket
  <2>1. /\ rxVars' = rxVars /\ txVars' = txVars
        /\ \/ brk < Pool /\ brk' = brk + 1 /\ app' = Send(app, brk + 1, Room("test"))
           \/ brk' = brk /\ app' = Idle
    BY <1>5 DEF TestPacket
  <2>2. ThreadInv'
    <3>1. CASE app' = Idle /\ brk' = brk
      BY <1>1, <3>1, IdleType DEF ThreadInv
    <3>2. CASE /\ brk < Pool /\ brk' = brk + 1
               /\ \E k \in {"test", "udp"} : app' = Send(app, brk + 1, Room(k))
      <4>1. PICK k \in {"test", "udp"} : app' = Send(app, brk + 1, Room(k))
        BY <3>2
      <4>2. Room(k) \in 0 .. 4
        BY RoomType
      <4> QED  BY <1>1, <1>2, <3>2, <4>1, <4>2, SendType DEF ThreadInv
    <3> QED  BY <2>1, <3>1, <3>2
  <2> QED  BY <2>1, <2>2, Unmoved DEF QueueSteps
<1>6. CASE ReceiveNone
  <2>1. /\ rxVars' = rxVars /\ txVars' = txVars /\ brk' = brk
        /\ app' = Refill(app, rxTab.avail)
    BY <1>6 DEF ReceiveNone
  <2>2. ThreadInv'
    BY <1>1, <2>1, TableTypes, RefillType DEF ThreadInv, Settled
  <2> QED  BY <2>1, <2>2, Unmoved DEF QueueSteps
<1>7. CASE ReceiveFrame
  <2>1. /\ RX!Reclaim /\ txVars' = txVars /\ brk' = brk
        /\ \/ app' = Idle
           \/ app' = Refill([app EXCEPT !.pkt = RX!UsedCookie], rxTab'.avail)
    BY <1>7 DEF ReceiveFrame
  <2>2. RX!Next /\ RX!HasUsed
    BY <2>1 DEF RX!Next, RX!Reclaim
  <2>3. rxTab'.avail \in Nat
    <3>1. rxTab'.avail \in {rxTab.avail + 2, rxTab.avail + 1}
      BY <2>1 DEF RX!Reclaim, RX!Detach
    <3> QED  BY <3>1, TableTypes
  <2>4. [app EXCEPT !.pkt = RX!UsedCookie] \in AppType
    BY <1>1, <2>2, TableTypes DEF AppType
  <2>5. app' \in AppType /\ Settled(app')
    BY <2>1, <2>3, <2>4, RefillType, IdleType DEF Settled
  <2> QED  BY <1>1, <2>1, <2>2, <2>5, Unmoved DEF QueueSteps, ThreadInv, Settled
<1>8. CASE HandleNone
  BY <1>1, <1>8, IdleType, Unmoved DEF HandleNone, QueueSteps, ThreadInv, Settled
<1>9. CASE HandleOther
  BY <1>1, <1>9, IdleType, Unmoved DEF HandleOther, QueueSteps, ThreadInv, Settled
<1>10. CASE HandleArp \/ HandleTcp
  <2>1. /\ rxVars' = rxVars /\ txVars' = txVars /\ brk' = brk
        /\ app.pkt # Null /\ KindIn(app.pkt) \in {"arp", "tcp"}
        /\ app' = Send(app, app.pkt, Room(KindIn(app.pkt)))
    BY <1>10 DEF HandleArp, HandleTcp, HandleInPlace
  <2>2. app.pkt \in Buffers /\ Room(KindIn(app.pkt)) \in 0 .. 4
    BY <1>1, <2>1, RoomType
  <2> QED  BY <1>1, <2>1, <2>2, SendType, Unmoved DEF QueueSteps, ThreadInv, Settled
<1>11. CASE HandleUdp
  <2>1. /\ rxVars' = rxVars /\ txVars' = txVars
        /\ \/ brk < Pool /\ brk' = brk + 1 /\ app' = Send(app, brk + 1, Room("udp"))
           \/ brk' = brk /\ app' = Idle
    BY <1>11 DEF HandleUdp
  <2>2. ThreadInv'
    <3>1. CASE app' = Idle /\ brk' = brk
      BY <1>1, <3>1, IdleType DEF ThreadInv
    <3>2. CASE /\ brk < Pool /\ brk' = brk + 1
               /\ \E k \in {"test", "udp"} : app' = Send(app, brk + 1, Room(k))
      <4>1. PICK k \in {"test", "udp"} : app' = Send(app, brk + 1, Room(k))
        BY <3>2
      <4>2. Room(k) \in 0 .. 4
        BY RoomType
      <4> QED  BY <1>1, <1>2, <3>2, <4>1, <4>2, SendType DEF ThreadInv
    <3> QED  BY <2>1, <3>1, <3>2
  <2> QED  BY <2>1, <2>2, Unmoved DEF QueueSteps
<1> QED  BY <1>3, <1>4, <1>5, <1>6, <1>7, <1>8, <1>9, <1>10, <1>11

\* Sending.
LEMMA XmitSteps ==
    ASSUME QueuesInv,
           XmitFree \/ XmitNoRoom \/ XmitFull \/ XmitEnqueue \/ XmitPublish \/ XmitNotify
    PROVE  QueueSteps /\ ThreadInv'
<1>1. app \in AppType /\ brk \in 0 .. Pool /\ (app.pc = "xmit" => app.out \in Buffers)
  BY DEF QueuesInv, ThreadInv, Settled
<1>2. CASE XmitFree
  <2>1. TX!Reclaim /\ rxVars' = rxVars /\ app' = app /\ brk' = brk
    BY <1>2 DEF XmitFree
  <2>2. TX!Next
    BY <2>1 DEF TX!Next
  <2> QED  BY <2>1, <2>2, Unmoved DEF QueueSteps, QueuesInv, ThreadInv
<1>3. CASE XmitNoRoom
  BY <1>1, <1>3, IdleType, Unmoved DEF XmitNoRoom, QueueSteps, ThreadInv, Settled
<1>4. CASE XmitFull
  BY <1>1, <1>4, IdleType, Unmoved DEF XmitFull, QueueSteps, ThreadInv, Settled
<1>5. CASE XmitEnqueue
  <2>1. /\ app.out \in Buffers /\ TX!Prepare(app.out, 2) /\ rxVars' = rxVars
        /\ brk' = brk /\ app' = [app EXCEPT !.pc = "sent"]
    BY <1>1, <1>5 DEF XmitEnqueue
  <2>2. TX!Next
    <3>1. 2 \in 1 .. 2
      OBVIOUS
    <3> QED  BY <2>1, <3>1 DEF TX!Next
  <2>3. app' \in AppType /\ Settled(app')
    BY <1>1, <2>1 DEF AppType, Positions, Settled
  <2> QED  BY <1>1, <2>1, <2>2, <2>3, Unmoved DEF QueueSteps, ThreadInv, Settled
<1>6. CASE XmitPublish
  <2>1. TX!Publish /\ rxVars' = rxVars /\ brk' = brk /\ app' = [app EXCEPT !.pc = "notify"]
    BY <1>6 DEF XmitPublish
  <2>2. TX!Next
    BY <2>1 DEF TX!Next
  <2>3. app' \in AppType /\ Settled(app')
    BY <1>1, <2>1 DEF AppType, Positions, Settled
  <2> QED  BY <1>1, <2>1, <2>2, <2>3, Unmoved DEF QueueSteps, ThreadInv, Settled
<1>7. CASE XmitNotify
  <2>1. TX!Notify /\ rxVars' = rxVars /\ brk' = brk /\ app' = Idle
    BY <1>7 DEF XmitNotify
  <2>2. TX!Next
    BY <2>1 DEF TX!Next
  <2> QED  BY <1>1, <2>1, <2>2, IdleType, Unmoved DEF QueueSteps, ThreadInv, Settled
<1> QED  BY <1>2, <1>3, <1>4, <1>5, <1>6, <1>7

\* The device leaves the thread alone.
LEMMA DeviceSteps ==
    ASSUME QueuesInv, RxTake \/ RxArrive \/ RxReturn \/ TxTake \/ TxReturn
    PROVE  QueueSteps /\ ThreadInv'
<1>1. app' = app /\ brk' = brk
  BY DEF RxTake, RxArrive, RxReturn, TxTake, TxReturn, rest
<1>2. ThreadInv'
  BY <1>1 DEF QueuesInv, ThreadInv, Settled
<1>3. CASE RxTake
  BY <1>2, <1>3, Unmoved DEF RxTake, QueueSteps, RX!Next
<1>4. CASE RxArrive
  BY <1>2, <1>4, Unmoved DEF RxArrive, QueueSteps, RX!Next
<1>5. CASE RxReturn
  BY <1>2, <1>5, Unmoved DEF RxReturn, QueueSteps, RX!Next
<1>6. CASE TxTake
  BY <1>2, <1>6, Unmoved DEF TxTake, QueueSteps, TX!Next
<1>7. CASE TxReturn
  BY <1>2, <1>7, Unmoved DEF TxReturn, QueueSteps, TX!Next
<1> QED  BY <1>2, <1>3, <1>4, <1>5, <1>6, <1>7

LEMMA QueuesInit == Init => RX!Init /\ TX!Init /\ QueuesInv
<1> SUFFICES ASSUME Init PROVE RX!Init /\ TX!Init /\ QueuesInv
  OBVIOUS
<1>1. RX!Init /\ TX!Init /\ brk = 0 /\ app = FillUp(Idle, FirstFill, "started")
  BY DEF Init
<1>2. R!RingInv /\ T!RingInv
  BY <1>1, Setting, RxSteps, TxSteps, R!RingInit, T!RingInit
<1>3. app \in AppType /\ Settled(app)
  <2>1. "started" \in Positions \ {"xmit", "publish"}
    BY DEF Positions
  <2> QED  BY <1>1, <2>1, Fills, IdleType, FillUpType
<1>4. ThreadInv
  BY <1>1, <1>3, Setting DEF ThreadInv, Settled
<1> QED  BY <1>1, <1>2, <1>4 DEF QueuesInv

LEMMA QueuesStep == QueuesInv /\ [Next]_vars => QueueSteps /\ QueuesInv'
<1> SUFFICES ASSUME QueuesInv, [Next]_vars PROVE QueueSteps /\ QueuesInv'
  OBVIOUS
<1>1. QueueSteps /\ ThreadInv'
  <2>1. CASE Thread
    BY <2>1, FillSteps, AnswerSteps, XmitSteps DEF Thread
  <2>2. CASE RxTake \/ RxArrive \/ RxReturn \/ TxTake \/ TxReturn
    BY <2>2, DeviceSteps
  <2>3. CASE UNCHANGED vars
    <3>1. rxVars' = rxVars /\ txVars' = txVars /\ app' = app /\ brk' = brk
      BY <2>3 DEF vars
    <3> QED  BY <3>1, Unmoved DEF QueueSteps, QueuesInv, ThreadInv, Settled
  <2> QED  BY <2>1, <2>2, <2>3 DEF Next
<1>2. R!RingInv'
  <2>1. [R!Next]_(R!vars)
    BY <1>1, RxSteps DEF QueueSteps
  <2> QED  BY <2>1, Setting, R!RingStep DEF QueuesInv
<1>3. T!RingInv'
  <2>1. [T!Next]_(T!vars)
    BY <1>1, TxSteps DEF QueueSteps
  <2> QED  BY <2>1, Setting, T!RingStep DEF QueuesInv
<1> QED  BY <1>1, <1>2, <1>3 DEF QueuesInv

\* In the running system, with any network and any device that keeps to the rings,
\* both queues implement DescriptorPool: what one side hands over the other gets, in
\* order and once (virtio_netdev_rxq_enqueue, virtio_netdev_xmit).
THEOREM EchoQueuesArePools == Spec => QueuesArePools
<1>1. Init => RX!Queue!Init /\ TX!Queue!Init
  <2>1. Init => R!Init /\ T!Init
    BY QueuesInit, RxSteps, TxSteps
  <2>2. R!Init => R!Queue!Init
    BY Setting, R!RingInit
  <2>3. T!Init => T!Queue!Init
    BY Setting, T!RingInit
  <2> QED  BY <2>1, <2>2, <2>3, RxPool, TxPool
<1>2. QueuesInv /\ [Next]_vars =>
         [RX!Queue!Next]_(RX!Queue!vars) /\ [TX!Queue!Next]_(TX!Queue!vars) /\ QueuesInv'
  <2> SUFFICES ASSUME QueuesInv, [Next]_vars
               PROVE  /\ [RX!Queue!Next]_(RX!Queue!vars) /\ [TX!Queue!Next]_(TX!Queue!vars)
                      /\ QueuesInv'
    OBVIOUS
  <2>1. QueueSteps /\ QueuesInv'
    BY QueuesStep
  <2>2. [R!Next]_(R!vars) /\ [T!Next]_(T!vars)
    BY <2>1, RxSteps, TxSteps DEF QueueSteps
  <2>3. [R!Queue!Next]_(R!Queue!vars) /\ [T!Queue!Next]_(T!Queue!vars)
    BY <2>2, Setting, R!RingStep, T!RingStep DEF QueuesInv
  <2> QED  BY <2>1, <2>3, RxPool, TxPool
<1>3. Init => QueuesInv
  BY QueuesInit
<1> QED  BY <1>1, <1>2, <1>3, PTL DEF Spec, QueuesArePools, RX!Queue!Spec, TX!Queue!Spec

LEMMA QueuesAccounted == QueuesInv => DescriptorsAccounted
<1> SUFFICES ASSUME QueuesInv PROVE DescriptorsAccounted
  OBVIOUS
<1>1. R!Queue!PoolAccounted /\ T!Queue!PoolAccounted
  BY R!SameAccount, T!SameAccount DEF QueuesInv, R!RingInv, R!PoolInv, T!RingInv, T!PoolInv
<1>2. rxTab \in RX!Table /\ txTab \in TX!Table /\ brk \in 0 .. Pool
  BY TableTypes DEF QueuesInv, ThreadInv
<1> QED  BY <1>1, <1>2, RxPool, TxPool DEF DescriptorsAccounted

\* In the running system no descriptor of either table is lost, used twice, or in two
\* hands (virtqueue_buffer_enqueue, virtqueue_detach_desc, virtqueue_buffer_dequeue).
THEOREM EchoAccountsDescriptors == Spec => []DescriptorsAccounted
<1>1. Init => QueuesInv
  BY QueuesInit
<1>2. QueuesInv /\ [Next]_vars => QueuesInv'
  BY QueuesStep
<1> QED  BY <1>1, <1>2, QueuesAccounted, PTL DEF Spec

-------------------------------------------------------------------------------
(* Buffers.                                                                        *)

\* No buffer is in use under two heads.
Once(t) == \A g, h \in DOMAIN t.cookie : t.cookie[g] = t.cookie[h] /\ t.cookie[g] # Null => g = h

\* A table whose cookies are buffers, at the descriptors of D.
Cookied(t, D) == t.cookie \in [D -> Buffers \cup {Null}]

\* A buffer more is queued ...
LEMMA QueuedMore ==
    ASSUME NEW D, NEW t, Cookied(t, D), Once(t), NEW f \in D, t.cookie[f] = Null,
           NEW c \in Buffers, c \notin Queued(t),
           NEW u, u.cookie = [t.cookie EXCEPT ![f] = c]
    PROVE  Queued(u) = Queued(t) \cup {c} /\ Once(u)
<1>1. Null \notin Buffers
  BY Setting
<1>2. /\ DOMAIN t.cookie = D /\ DOMAIN u.cookie = D
      /\ u.cookie[f] = c /\ \A g \in D \ {f} : u.cookie[g] = t.cookie[g]
  BY DEF Cookied
<1>3. \A g \in D : t.cookie[g] # Null => t.cookie[g] \in Queued(t)
  BY <1>2 DEF Queued
<1>4. Queued(u) = Queued(t) \cup {c}
  <2>1. ASSUME NEW x \in Queued(u) PROVE x \in Queued(t) \cup {c}
    BY <1>2, <1>3, <2>1 DEF Queued
  <2>2. c \in Queued(u)
    BY <1>1, <1>2 DEF Queued
  <2>3. ASSUME NEW x \in Queued(t) PROVE x \in Queued(u)
    <3>1. PICK g \in D : t.cookie[g] # Null /\ x = t.cookie[g]
      BY <1>2, <2>3 DEF Queued
    <3>2. u.cookie[g] = t.cookie[g]
      BY <1>2, <3>1
    <3> QED  BY <1>2, <3>1, <3>2 DEF Queued
  <2> QED  BY <2>1, <2>2, <2>3
<1>5. Once(u)
  BY <1>2, <1>3 DEF Once
<1> QED  BY <1>4, <1>5

\* ... and a buffer less.
LEMMA QueuedLess ==
    ASSUME NEW D, NEW t, Cookied(t, D), Once(t), NEW h \in D, t.cookie[h] # Null,
           NEW u, u.cookie = [t.cookie EXCEPT ![h] = Null]
    PROVE  /\ Queued(u) = Queued(t) \ {t.cookie[h]} /\ Once(u)
           /\ t.cookie[h] \in Queued(t)
<1>1. /\ DOMAIN t.cookie = D /\ DOMAIN u.cookie = D
      /\ u.cookie[h] = Null /\ \A g \in D \ {h} : u.cookie[g] = t.cookie[g]
  BY DEF Cookied
<1>2. t.cookie[h] \in Queued(t)
  BY <1>1 DEF Queued
<1>3. Queued(u) = Queued(t) \ {t.cookie[h]}
  <2>1. ASSUME NEW x \in Queued(u) PROVE x \in Queued(t) \ {t.cookie[h]}
    <3>1. PICK g \in D : u.cookie[g] # Null /\ x = u.cookie[g]
      BY <1>1, <2>1 DEF Queued
    <3>2. g # h /\ x = t.cookie[g]
      BY <1>1, <3>1
    <3> QED  BY <1>1, <3>1, <3>2 DEF Queued, Once
  <2>2. ASSUME NEW x \in Queued(t) \ {t.cookie[h]} PROVE x \in Queued(u)
    <3>1. PICK g \in D : t.cookie[g] # Null /\ x = t.cookie[g]
      BY <1>1, <2>2 DEF Queued
    <3>2. u.cookie[g] = x
      BY <1>1, <2>2, <3>1
    <3> QED  BY <1>1, <3>1, <3>2 DEF Queued
  <2> QED  BY <2>1, <2>2
<1>4. Once(u)
  BY <1>1 DEF Once
<1> QED  BY <1>2, <1>3, <1>4

\* As many buffers as chains.
LEMMA QueuedSize ==
    ASSUME NEW n \in Nat, NEW t, Cookied(t, 0 .. n - 1), Once(t)
    PROVE  Cardinality(Queued(t)) = Cardinality({h \in 0 .. n - 1 : t.cookie[h] # Null})
<1> DEFINE S == {h \in 0 .. n - 1 : t.cookie[h] # Null}
           f == [h \in S |-> t.cookie[h]]
<1>1. IsFiniteSet(S)
  <2>1. IsFiniteSet(0 .. n - 1)
    BY FS_Interval
  <2> QED  BY <2>1, FS_Subset
<1>2. Queued(t) = {t.cookie[h] : h \in S}
  BY DEF Cookied, Queued
<1>3. f \in Bijection(S, Queued(t))
  <2>1. \A g, h \in S : f[g] = f[h] => g = h
    BY DEF Cookied, Once
  <2>2. \A x \in Queued(t) : \E h \in S : f[h] = x
    BY <1>2
  <2>3. f \in [S -> Queued(t)]
    BY <1>2
  <2> HIDE DEF f, S
  <2> QED  BY <2>1, <2>2, <2>3 DEF Bijection, Injection, Surjection, IsInjective
<1> HIDE DEF f, S
<1>4. Cardinality(Queued(t)) = Cardinality(S)
  BY <1>1, <1>3, FS_Bijection DEF ExistsBijection
<1> QED  BY <1>4 DEF S

\* The buffer the transmit path is about to queue, and what the thread holds with it.
Going == IF app.pc = "xmit" THEN {app.out} ELSE {}
Hands == InHand \cup Going

\* The buffers the thread holds are each held for one purpose.
BatchInv ==
    /\ \A i, j \in 1 .. Len(app.batch) : app.batch[i] = app.batch[j] => i = j
    /\ \A i \in 1 .. Len(app.batch) : app.batch[i] # app.pkt
    /\ app.pc \notin {"fill", "publish"} => app.batch = <<>>
    /\ app.pc = "xmit" /\ app.room > 0 => app.out # app.pkt

Owners(rxq, txq, hands, out, n) ==
    /\ rxq \cap (txq \cup hands \cup out) = {}
    /\ txq \cap (hands \cup out) = {}
    /\ hands \cap out = {}
    /\ rxq \cup txq \cup hands \cup out \subseteq 1 .. n

\* Queued, held and freed buffers are different, and all of them are allocated.
OwnInv ==
    /\ Once(rxTab) /\ Once(txTab) /\ BatchInv
    /\ Owners(Queued(rxTab), Queued(txTab), Hands, freed, brk)

\* What the thread holds while it has no batch, ...
LEMMA HandsPlain ==
    /\ app.batch = <<>> => InHand = {app.pkt} \ {Null}
    /\ app'.batch = <<>> => InHand' = {app'.pkt} \ {Null}
BY DEF InHand

\* ... and with one.
LEMMA HandsBatch ==
    ASSUME app \in AppType
    PROVE  /\ app.pc # "publish" =>
                 InHand = {app.batch[i] : i \in 1 .. Len(app.batch)} \cup ({app.pkt} \ {Null})
           /\ app.pc = "publish" =>
                 InHand = {app.batch[i] : i \in 2 .. Len(app.batch)} \cup ({app.pkt} \ {Null})
BY DEF InHand

\* Handing buffers X over to the freed ones, and taking fresh ones.
LEMMA Handover ==
    ASSUME OwnInv, brk \in Nat, rxTab' = rxTab \/ rxTab'.cookie = rxTab.cookie,
           txTab' = txTab \/ txTab'.cookie = txTab.cookie,
           NEW X \in SUBSET Hands, freed' = freed \cup X,
           brk' \in Nat, brk' >= brk,
           Hands' \subseteq (Hands \ X) \cup ((brk + 1) .. brk'), BatchInv'
    PROVE  OwnInv'
<1>1. /\ Queued(rxTab') = Queued(rxTab) /\ Queued(txTab') = Queued(txTab)
      /\ Once(rxTab') /\ Once(txTab')
  BY DEF OwnInv, Queued, Once
<1>2. Owners(Queued(rxTab'), Queued(txTab'), Hands', freed', brk')
  <2>1. Owners(Queued(rxTab), Queued(txTab), Hands, freed, brk)
    BY DEF OwnInv
  <2>2. \A x \in (brk + 1) .. brk' : x \notin 1 .. brk /\ x \in 1 .. brk'
    OBVIOUS
  <2>3. \A x \in 1 .. brk : x \in 1 .. brk'
    OBVIOUS
  <2> QED  BY <1>1, <2>1, <2>2, <2>3 DEF Owners
<1> QED  BY <1>1, <1>2 DEF OwnInv

\* What holds of the thread's locals.
LEMMA Locals ==
    ASSUME QueuesInv, OwnInv
    PROVE  /\ app \in AppType /\ brk \in Nat /\ brk <= Pool /\ Pool \in Nat
           /\ app.batch \in Seq(Buffers) /\ app.pkt \in Buffers \cup {Null}
           /\ app.out \in Buffers \cup {Null}
           /\ app.pkt # Null => app.pkt \in InHand
           /\ InHand \subseteq Hands /\ Hands \subseteq 1 .. brk
           /\ app.pc = "xmit" => app.out \in Hands
           /\ Null \notin Buffers
           /\ BatchInv
<1>1. app \in AppType /\ brk \in Nat /\ brk <= Pool /\ Pool \in Nat /\ Null \notin Buffers
  BY Setting DEF QueuesInv, ThreadInv
<1>2. Hands \subseteq 1 .. brk /\ BatchInv
  BY DEF OwnInv, Owners
<1> QED  BY <1>1, <1>2 DEF AppType, InHand, Hands, Going

LEMMA OwnFillBatch ==
    ASSUME QueuesInv, OwnInv, FillBatch PROVE OwnInv'
<1> DEFINE req == Smaller(app.want \div Bdc, Batch)
           cnt == Smaller(req, Pool - brk)
           b == [i \in 1 .. cnt |-> brk + i]
<1>1. /\ app.pc = "fill" /\ app.batch = <<>>
      /\ rxTab' = rxTab /\ txTab' = txTab /\ freed' = freed /\ brk' = brk + cnt
      /\ app' = [app EXCEPT !.batch = b, !.short = cnt < req,
                            !.pc = IF cnt = 0 THEN "filled" ELSE "fill"]
  BY DEF FillBatch, rxVars, txVars
<1>2. cnt \in Nat
  <2>1. app.want \div Bdc \in Nat
    BY Locals, Setting DEF AppType
  <2>2. req \in Nat
    BY <2>1, Setting DEF Smaller
  <2> HIDE DEF req
  <2> QED  BY <2>2, Locals DEF Smaller
<1> HIDE DEF req, cnt
<1>3. /\ app'.batch = b /\ app'.pkt = app.pkt /\ app'.room = app.room
      /\ app'.pc = IF cnt = 0 THEN "filled" ELSE "fill"
  BY <1>1, Locals DEF AppType
<1>4. /\ Len(b) = cnt /\ \A i \in 1 .. cnt : b[i] = brk + i /\ b[i] \in (brk + 1) .. brk'
      /\ cnt = 0 => b = <<>>
  <2>1. Len(b) = cnt /\ \A i \in 1 .. cnt : b[i] = brk + i
    BY <1>2
  <2>2. cnt = 0 => b = <<>>
    <3>1. b \in Seq(Nat)
      BY <1>2, Locals
    <3> QED  BY <2>1, <3>1, EmptySeq
  <2>3. \A i \in 1 .. cnt : brk + i \in (brk + 1) .. (brk + cnt)
    BY <1>2, Locals
  <2> QED  BY <1>1, <2>1, <2>2, <2>3
<1> HIDE DEF b
<1>5. InHand' = {b[i] : i \in 1 .. cnt} \cup ({app.pkt} \ {Null})
  BY <1>3, <1>4 DEF InHand
<1>6. Hands' \subseteq Hands \cup ((brk + 1) .. brk')
  <2>1. Going' = {}
    BY <1>3 DEF Going
  <2> QED  BY <1>4, <1>5, <2>1, Locals DEF Hands
<1>7. BatchInv'
  <2>1. \A i, j \in 1 .. Len(b) : b[i] = b[j] => i = j
    BY <1>2, <1>4, Locals
  <2>2. \A i \in 1 .. Len(b) : b[i] # app.pkt
    <3>1. CASE app.pkt = Null
      <4>1. brk' <= Pool
        BY QueuesStep DEF QueuesInv, ThreadInv, Next, Thread
      <4>2. \A i \in 1 .. Len(b) : b[i] \in Buffers
        BY <1>1, <1>2, <1>4, <4>1, Locals DEF Buffers
      <4> QED  BY <3>1, <4>2, Locals
    <3>2. CASE app.pkt # Null
      <4>1. app.pkt \in 1 .. brk
        BY <3>2, Locals
      <4> QED  BY <1>4, <4>1, Locals
    <3> QED  BY <3>1, <3>2
  <2> QED  BY <1>3, <1>4, <2>1, <2>2 DEF BatchInv
<1> QED
  <2>1. brk' \in Nat /\ brk' >= brk /\ brk \in Nat
    BY <1>1, <1>2, Locals
  <2>2. freed' = freed \cup {} /\ {} \in SUBSET Hands
    BY <1>1
  <2>3. Hands' \subseteq (Hands \ {}) \cup ((brk + 1) .. brk')
    BY <1>6
  <2> QED  BY <1>1, <1>7, <2>1, <2>2, <2>3, Handover

LEMMA OwnFillEnqueue ==
    ASSUME QueuesInv, OwnInv, FillEnqueue PROVE OwnInv'
<1> DEFINE c == Head(app.batch)
           f == rxTab.free
<1>1. /\ app.pc = "fill" /\ app.batch # <<>> /\ RX!Prepare(c, Bdc) /\ txVars' = txVars
      /\ app' = [app EXCEPT !.pc = "publish"] /\ brk' = brk /\ freed' = freed
  BY DEF FillEnqueue
<1>2. /\ c \in Buffers /\ c = app.batch[1] /\ 1 \in 1 .. Len(app.batch)
      /\ Len(app.batch) \in Nat
  <2>1. app.batch \in Seq(Buffers)
    BY Locals
  <2> QED  BY <1>1, <2>1
<1>3. /\ app'.pc = "publish" /\ app'.batch = app.batch /\ app'.pkt = app.pkt
      /\ app'.room = app.room
  BY <1>1, Locals DEF AppType
<1>4. /\ InHand = {app.batch[i] : i \in 1 .. Len(app.batch)} \cup ({app.pkt} \ {Null})
      /\ InHand' = {app.batch[i] : i \in 2 .. Len(app.batch)} \cup ({app.pkt} \ {Null})
      /\ Going' = {}
  BY <1>1, <1>3 DEF InHand, Going
<1>5. c \in Hands /\ Hands' \subseteq Hands \ {c}
  <2>1. \A i \in 2 .. Len(app.batch) : i \in 1 .. Len(app.batch) /\ i # 1
    BY <1>2
  <2>2. \A i \in 2 .. Len(app.batch) : app.batch[i] # c
    BY <1>2, <2>1, Locals DEF BatchInv
  <2>3. app.pkt # c
    BY <1>2, Locals DEF BatchInv
  <2> QED  BY <1>2, <1>4, <2>1, <2>2, <2>3 DEF Hands
<1>6. /\ f \in RX!Desc /\ f \notin RX!Busy(rxTab) /\ Cookied(rxTab, RX!Desc)
      /\ rxTab'.cookie = [rxTab.cookie EXCEPT ![f] = c]
  <2>1. ~RX!Refuses(rxTab, Bdc) /\ rxTab' = RX!Take(rxTab, c, Bdc)
    BY <1>1 DEF RX!Prepare
  <2>2. f \in R!Desc \ R!Busy(rxTab)
    <3>1. R!TableSetUp /\ rxTab \in R!Table /\ R!Accounted(rxTab) /\ ~R!Refuses(rxTab, Bdc)
      BY <2>1, Setting, RxTable DEF R!QueueSetUp, QueuesInv, R!RingInv, R!PoolInv
    <3> QED  BY <1>2, <3>1, Setting, R!TakeAccounted
  <2>3. rxTab'.cookie = [rxTab.cookie EXCEPT ![f] = c]
    BY <2>1 DEF RX!Take
  <2>4. Cookied(rxTab, RX!Desc)
    BY TableTypes DEF RX!Table, Cookied
  <2> QED  BY <2>2, <2>3, <2>4, RxTable
<1>7. c \notin Queued(rxTab)
  BY <1>5 DEF OwnInv, Owners
<1>8. Queued(rxTab') = Queued(rxTab) \cup {c} /\ Once(rxTab')
  <2>1. rxTab.cookie[f] = Null
    BY <1>6 DEF RX!Busy
  <2> HIDE DEF c, f
  <2> QED  BY <1>2, <1>6, <1>7, <2>1, QueuedMore DEF OwnInv
<1>9. txTab' = txTab
  BY <1>1 DEF txVars
<1>10. BatchInv'
  BY <1>3, Locals DEF BatchInv
<1> HIDE DEF c, f
<1>11. Owners(Queued(rxTab'), Queued(txTab'), Hands', freed', brk')
  <2>1. c \in 1 .. brk
    BY <1>5, Locals
  <2> QED  BY <1>1, <1>5, <1>8, <1>9, <2>1 DEF OwnInv, Owners
<1> QED  BY <1>8, <1>9, <1>10, <1>11 DEF OwnInv

\* What the thread's steps do to the locals that hold buffers.
LEMMA Parts ==
    /\ \A a \in AppType : \A n, pc :
          /\ FillUp(a, n, pc).batch = a.batch /\ FillUp(a, n, pc).pkt = a.pkt
          /\ FillUp(a, n, pc).pc = "fill"
    /\ \A a \in AppType : \A n :
          /\ Refill(a, n).batch = a.batch /\ Refill(a, n).pkt = a.pkt
          /\ Refill(a, n).pc \in {"fill", "handle"}
    /\ \A a \in AppType : \A b, room :
          /\ Send(a, b, room).batch = a.batch /\ Send(a, b, room).pkt = a.pkt
          /\ Send(a, b, room).out = b /\ Send(a, b, room).room = room
          /\ Send(a, b, room).pc = "xmit"
    /\ Idle.batch = <<>> /\ Idle.pkt = Null /\ Idle.pc = "receive"
<1>1. ASSUME NEW a \in AppType, NEW n, NEW pc
      PROVE  /\ FillUp(a, n, pc).batch = a.batch /\ FillUp(a, n, pc).pkt = a.pkt
             /\ FillUp(a, n, pc).pc = "fill"
  BY DEF FillUp, AppType
<1>2. ASSUME NEW a \in AppType, NEW n
      PROVE  /\ Refill(a, n).batch = a.batch /\ Refill(a, n).pkt = a.pkt
             /\ Refill(a, n).pc \in {"fill", "handle"}
  <2>1. CASE n >= Bdc
    BY <1>1, <2>1 DEF Refill
  <2>2. CASE ~(n >= Bdc)
    BY <2>2 DEF Refill, AppType
  <2> QED  BY <2>1, <2>2
<1>3. ASSUME NEW a \in AppType, NEW b, NEW room
      PROVE  /\ Send(a, b, room).batch = a.batch /\ Send(a, b, room).pkt = a.pkt
             /\ Send(a, b, room).out = b /\ Send(a, b, room).room = room
             /\ Send(a, b, room).pc = "xmit"
  BY DEF Send, AppType
<1>4. Idle.batch = <<>> /\ Idle.pkt = Null /\ Idle.pc = "receive"
  BY DEF Idle
<1> QED  BY <1>1, <1>2, <1>3, <1>4

\* A step without a batch that queues nothing: buffers X are freed, and what is about
\* to be sent was held or is fresh.
LEMMA OwnPlain ==
    ASSUME QueuesInv, OwnInv, rxTab' = rxTab, txTab' = txTab,
           app.batch = <<>>, app'.batch = <<>>,
           NEW X \in SUBSET Hands, freed' = freed \cup X,
           brk' \in Nat, brk' >= brk,
           app'.pkt = Null \/ (app'.pkt = app.pkt /\ app.pkt \notin X),
           app'.pc = "xmit" => /\ app'.out \in (Hands \ X) \cup ((brk + 1) .. brk')
                               /\ app'.room > 0 => app'.out # app'.pkt
    PROVE  OwnInv'
<1>1. InHand' = {app'.pkt} \ {Null}
  BY HandsPlain
<1>2. InHand' \subseteq Hands \ X
  BY <1>1, Locals
<1>3. Hands' \subseteq (Hands \ X) \cup ((brk + 1) .. brk')
  BY <1>2 DEF Hands, Going
<1>4. BatchInv'
  BY DEF BatchInv
<1> QED  BY <1>3, <1>4, Locals, Handover

LEMMA OwnFillPublish ==
    ASSUME QueuesInv, OwnInv, FillPublish PROVE OwnInv'
<1>1. /\ app.pc = "publish" /\ RX!Publish /\ txVars' = txVars /\ brk' = brk /\ freed' = freed
  BY DEF FillPublish
<1>2. /\ app'.batch = Tail(app.batch) /\ app'.pkt = app.pkt /\ app'.pc \in {"fill", "filled"}
      /\ app'.pc = "filled" => ~(Len(app.batch) > 1)
  <2>1. PICK pc \in {"filled", "fill"} :
           /\ app' = [app EXCEPT !.batch = Tail(@), !.filled = @ + Bdc, !.pc = pc]
           /\ pc = "filled" => ~(Len(app.batch) > 1)
    BY DEF FillPublish
  <2> QED  BY <2>1, Locals DEF AppType
<1>3. app.batch \in Seq(Buffers) /\ app.batch # <<>>
  BY <1>1, Locals DEF QueuesInv, ThreadInv
<1>4. /\ Len(Tail(app.batch)) = Len(app.batch) - 1 /\ Len(app.batch) \in Nat
      /\ Tail(app.batch) \in Seq(Buffers)
      /\ \A i \in 1 .. Len(app.batch) - 1 : Tail(app.batch)[i] = app.batch[i + 1]
  BY <1>3, HeadTailProperties
<1>5. BatchInv'
  <2>1. /\ \A i, j \in 1 .. Len(app.batch) : app.batch[i] = app.batch[j] => i = j
        /\ \A i \in 1 .. Len(app.batch) : app.batch[i] # app.pkt
    BY Locals DEF BatchInv
  <2>2. \A i \in 1 .. Len(app.batch) - 1 : i + 1 \in 1 .. Len(app.batch)
    BY <1>4
  <2>3. \A i, j \in 1 .. Len(app.batch) - 1 : Tail(app.batch)[i] = Tail(app.batch)[j] => i = j
    <3>1. SUFFICES ASSUME NEW i \in 1 .. Len(app.batch) - 1, NEW j \in 1 .. Len(app.batch) - 1,
                          Tail(app.batch)[i] = Tail(app.batch)[j]
                   PROVE  i = j
      OBVIOUS
    <3>2. i + 1 = j + 1
      BY <1>4, <2>1, <2>2, <3>1
    <3> QED  BY <3>2, <1>4
  <2>4. \A i \in 1 .. Len(app.batch) - 1 : Tail(app.batch)[i] # app.pkt
    BY <1>4, <2>1, <2>2
  <2>5. app'.pc = "filled" => app'.batch = <<>>
    <3>1. SUFFICES ASSUME app'.pc = "filled" PROVE Tail(app.batch) = <<>>
      BY <1>2
    <3>2. Len(Tail(app.batch)) = 0
      <4>1. ~(Len(app.batch) > 1) /\ Len(Tail(app.batch)) \in Nat
        BY <1>2, <1>4, <3>1
      <4>2. Len(Tail(app.batch)) = Len(app.batch) - 1 /\ Len(app.batch) \in Nat
        BY <1>4
      <4>3. \A n \in Nat : ~(n > 1) /\ n - 1 \in Nat => n - 1 = 0
        OBVIOUS
      <4> QED  BY <4>1, <4>2, <4>3
    <3> QED  BY <1>4, <3>2, EmptySeq
  <2> QED  BY <1>2, <1>4, <2>3, <2>4, <2>5 DEF BatchInv
<1>6. Hands' \subseteq Hands
  <2>1. InHand = {app.batch[i] : i \in 2 .. Len(app.batch)} \cup ({app.pkt} \ {Null})
    BY <1>1 DEF InHand
  <2>2. InHand' = {Tail(app.batch)[i] : i \in 1 .. Len(app.batch) - 1} \cup ({app.pkt} \ {Null})
    BY <1>2, <1>4 DEF InHand
  <2>3. \A i \in 1 .. Len(app.batch) - 1 : i + 1 \in 2 .. Len(app.batch)
    BY <1>4
  <2>4. Going' = {}
    BY <1>2 DEF Going
  <2> QED  BY <1>4, <2>1, <2>2, <2>3, <2>4 DEF Hands
<1>7. rxTab' = rxTab /\ txTab' = txTab
  BY <1>1 DEF RX!Publish, txVars
<1> QED
  <2>1. freed' = freed \cup {} /\ {} \in SUBSET Hands
        /\ Hands' \subseteq (Hands \ {}) \cup ((brk + 1) .. brk')
    BY <1>1, <1>6
  <2>2. brk \in Nat /\ brk' \in Nat /\ brk' >= brk
    BY <1>1, Locals
  <2> QED  BY <1>5, <1>7, <2>1, <2>2, Handover

LEMMA OwnFillRefused ==
    ASSUME QueuesInv, OwnInv, FillRefused PROVE OwnInv'
<1> DEFINE X == {app.batch[i] : i \in 1 .. Len(app.batch)}
<1>1. /\ app.pc = "fill" /\ rxVars' = rxVars /\ txVars' = txVars /\ brk' = brk
      /\ freed' = freed \cup X
      /\ app' = [app EXCEPT !.batch = <<>>, !.pc = "filled"]
  BY DEF FillRefused
<1>2. app'.batch = <<>> /\ app'.pc = "filled" /\ app'.pkt = app.pkt
  BY <1>1, Locals DEF AppType
<1>3. X \subseteq Hands /\ app.pkt \notin X
  BY <1>1, Locals DEF InHand, BatchInv
<1> HIDE DEF X
<1>4. Hands' \subseteq (Hands \ X) \cup ((brk + 1) .. brk')
  <2>1. InHand' = {app.pkt} \ {Null} /\ Going' = {}
    BY <1>2, HandsPlain DEF Going
  <2> QED  BY <1>3, <2>1, Locals DEF Hands
<1>5. BatchInv'
  BY <1>2 DEF BatchInv
<1>6. rxTab' = rxTab /\ txTab' = txTab /\ brk \in Nat /\ brk' \in Nat /\ brk' >= brk
  BY <1>1, Locals DEF rxVars, txVars
<1> QED  BY <1>1, <1>3, <1>4, <1>5, <1>6, Handover

\* The steps that only move on.
LEMMA OwnQuiet ==
    ASSUME QueuesInv, OwnInv,
           \/ FillEnd \/ Started \/ Opened \/ ReceiveNone
           \/ HandleNone \/ XmitFull \/ XmitPublish \/ XmitNotify
    PROVE  OwnInv'
<1> DEFINE Quiet == /\ rxTab' = rxTab /\ txTab' = txTab /\ brk' = brk /\ freed' = freed
                    /\ app.batch = <<>> => app'.batch = <<>>
                    /\ app'.pkt = Null \/ app'.pkt = app.pkt
                    /\ app.pc \notin {"fill", "publish"} /\ app'.pc # "xmit"
<1>1. ASSUME Quiet PROVE OwnInv'
  <2>1. app.batch = <<>>
    BY <1>1, Locals DEF BatchInv
  <2>2. freed' = freed \cup {} /\ {} \in SUBSET Hands /\ brk' \in Nat /\ brk' >= brk
    BY <1>1, Locals
  <2> QED  BY <1>1, <2>1, <2>2, OwnPlain
<1>2. app \in AppType /\ app.back \in Positions \ {"xmit", "publish"}
  BY Locals DEF AppType
<1>3. ASSUME FillEnd PROVE Quiet
  <2>1. /\ RX!Notify \/ rxVars' = rxVars
        /\ txVars' = txVars /\ brk' = brk /\ freed' = freed /\ app.pc = "filled"
        /\ app' = [app EXCEPT !.pc = app.back, !.want = 0, !.filled = 0, !.short = FALSE]
    BY <1>3 DEF FillEnd
  <2>2. app'.batch = app.batch /\ app'.pkt = app.pkt /\ app'.pc # "xmit"
    BY <1>2, <2>1 DEF AppType
  <2> QED  BY <2>1, <2>2 DEF rxVars, txVars, RX!Notify
<1>4. ASSUME Started PROVE Quiet
  <2>1. /\ rxVars' = rxVars /\ txVars' = txVars /\ brk' = brk /\ freed' = freed
        /\ app.pc = "started"
        /\ \/ app' = FillUp(app, SecondFill, "opened")
           \/ app' = [app EXCEPT !.pc = "opened"]
    BY <1>4 DEF Started
  <2>2. app'.batch = app.batch /\ app'.pkt = app.pkt /\ app'.pc \in {"fill", "opened"}
    BY <1>2, <2>1, Parts DEF AppType
  <2> QED  BY <2>1, <2>2 DEF rxVars, txVars
<1>5. ASSUME Opened PROVE Quiet
  <2>1. /\ RX!Notify /\ txVars' = txVars /\ brk' = brk /\ freed' = freed
        /\ app.pc = "opened" /\ app' = [app EXCEPT !.pc = "test"]
    BY <1>5 DEF Opened
  <2>2. app'.batch = app.batch /\ app'.pkt = app.pkt /\ app'.pc = "test"
    BY <1>2, <2>1 DEF AppType
  <2> QED  BY <2>1, <2>2 DEF txVars, RX!Notify
<1>6. ASSUME ReceiveNone PROVE Quiet
  <2>1. /\ rxVars' = rxVars /\ txVars' = txVars /\ brk' = brk /\ freed' = freed
        /\ app.pc = "receive" /\ app' = Refill(app, rxTab.avail)
    BY <1>6 DEF ReceiveNone
  <2>2. app'.batch = app.batch /\ app'.pkt = app.pkt /\ app'.pc \in {"fill", "handle"}
    BY <1>2, <2>1, Parts
  <2> QED  BY <2>1, <2>2 DEF rxVars, txVars
<1>7. ASSUME HandleNone PROVE Quiet
  BY <1>7, Parts DEF HandleNone, rxVars, txVars
<1>8. ASSUME XmitFull PROVE Quiet
  BY <1>8, Parts DEF XmitFull, rxVars, txVars
<1>9. ASSUME XmitPublish PROVE Quiet
  <2>1. /\ TX!Publish /\ rxVars' = rxVars /\ brk' = brk /\ freed' = freed
        /\ app.pc = "sent" /\ app' = [app EXCEPT !.pc = "notify"]
    BY <1>9 DEF XmitPublish
  <2>2. app'.batch = app.batch /\ app'.pkt = app.pkt /\ app'.pc = "notify"
    BY <1>2, <2>1 DEF AppType
  <2> QED  BY <2>1, <2>2 DEF rxVars, TX!Publish
<1>10. ASSUME XmitNotify PROVE Quiet
  BY <1>10, Parts DEF XmitNotify, rxVars, TX!Notify
<1>11. Quiet
  BY <1>3, <1>4, <1>5, <1>6, <1>7, <1>8, <1>9, <1>10
<1> HIDE DEF Quiet
<1> QED  BY <1>1, <1>11

\* The steps that answer or drop a packet.
LEMMA OwnAnswer ==
    ASSUME QueuesInv, OwnInv,
           TestPacket \/ HandleOther \/ HandleArp \/ HandleTcp \/ HandleUdp \/ XmitNoRoom
    PROVE  OwnInv'
<1>1. /\ rxVars' = rxVars /\ txVars' = txVars /\ app.pc \in {"test", "handle", "xmit"}
  BY DEF TestPacket, HandleOther, HandleArp, HandleTcp, HandleInPlace, HandleUdp,
         XmitNoRoom
<1>2. /\ rxTab' = rxTab /\ txTab' = txTab /\ app.batch = <<>> /\ brk \in Nat
      /\ app \in AppType
  BY <1>1, Locals DEF rxVars, txVars, BatchInv
<1>3. CASE TestPacket \/ HandleUdp
  <2>1. CASE \E k \in {"test", "udp"} :
                /\ brk < Pool /\ brk' = brk + 1 /\ app' = Send(app, brk + 1, Room(k))
                /\ freed' = freed
    <3>1. PICK k \in {"test", "udp"} : app' = Send(app, brk + 1, Room(k))
      BY <2>1
    <3>2. /\ app'.batch = <<>> /\ app'.pkt = app.pkt /\ app'.out = brk + 1
      BY <1>2, <3>1, Parts
    <3>3. brk + 1 \in (brk + 1) .. brk' /\ brk' \in Nat /\ brk' >= brk
      BY <1>2, <2>1
    <3>4. app'.out # app'.pkt
      <4>1. brk + 1 \in Buffers
        BY <1>2, <2>1, Locals DEF Buffers
      <4>2. CASE app.pkt = Null
        BY <3>2, <4>1, <4>2, Locals
      <4>3. CASE app.pkt # Null
        <5>1. app.pkt \in 1 .. brk
          BY <4>3, Locals
        <5> QED  BY <1>2, <3>2, <5>1
      <4> QED  BY <4>2, <4>3
    <3>5. freed' = freed \cup {} /\ {} \in SUBSET Hands /\ app.pkt \notin {}
      BY <2>1
    <3>6. app'.out \in (Hands \ {}) \cup ((brk + 1) .. brk')
      BY <3>2, <3>3
    <3> QED  BY <1>2, <3>2, <3>3, <3>4, <3>5, <3>6, OwnPlain
  <2>2. CASE \E X \in SUBSET {app.pkt} :
                 brk' = brk /\ app' = Idle /\ freed' = freed \cup X /\ Null \notin X
    <3>1. PICK X \in SUBSET {app.pkt} : freed' = freed \cup X /\ Null \notin X
      BY <2>2
    <3>2. X \in SUBSET Hands /\ brk' \in Nat /\ brk' >= brk
      BY <1>2, <2>2, <3>1, Locals
    <3>3. app'.batch = <<>> /\ app'.pkt = Null /\ app'.pc # "xmit"
      BY <2>2, Parts
    <3> QED  BY <1>2, <3>1, <3>2, <3>3, OwnPlain
  <2>3. TestPacket => \/ /\ brk < Pool /\ brk' = brk + 1 /\ freed' = freed
                         /\ app' = Send(app, brk + 1, Room("test"))
                      \/ brk' = brk /\ app' = Idle /\ freed' = freed \cup {}
    BY DEF TestPacket
  <2>4. HandleUdp => \/ /\ brk < Pool /\ brk' = brk + 1 /\ freed' = freed
                        /\ app' = Send(app, brk + 1, Room("udp"))
                     \/ /\ brk' = brk /\ app' = Idle /\ freed' = freed \cup {app.pkt}
                        /\ app.pkt # Null
    BY DEF HandleUdp
  <2>5. {} \in SUBSET {app.pkt} /\ {app.pkt} \in SUBSET {app.pkt} /\ Null \notin {}
        /\ (app.pkt # Null => Null \notin {app.pkt})
    OBVIOUS
  <2>6. TestPacket => OwnInv'
    BY <2>1, <2>2, <2>3, <2>5, Zenon
  <2>7. HandleUdp => OwnInv'
    BY <2>1, <2>2, <2>4, <2>5, Zenon
  <2> QED  BY <1>3, <2>6, <2>7
<1>4. CASE HandleOther
  <2>1. /\ app.pkt # Null /\ app' = Idle /\ brk' = brk /\ freed' = freed \cup {app.pkt}
    BY <1>4 DEF HandleOther
  <2>2. {app.pkt} \in SUBSET Hands /\ brk' \in Nat /\ brk' >= brk
    BY <1>2, <2>1, Locals
  <2>3. app'.batch = <<>> /\ app'.pkt = Null /\ app'.pc # "xmit"
    BY <2>1, Parts
  <2> QED  BY <1>2, <2>1, <2>2, <2>3, OwnPlain
<1>5. CASE HandleArp \/ HandleTcp
  <2>1. /\ app.pkt # Null /\ brk' = brk /\ freed' = freed
        /\ KindIn(app.pkt) \in {"arp", "tcp"}
        /\ app' = Send(app, app.pkt, Room(KindIn(app.pkt)))
    BY <1>5 DEF HandleArp, HandleTcp, HandleInPlace
  <2>2. Room(KindIn(app.pkt)) = 0
    BY <2>1 DEF Room
  <2>3. app'.batch = <<>> /\ app'.pkt = app.pkt /\ app'.out = app.pkt /\ app'.room = 0
    BY <1>2, <2>1, <2>2, Parts
  <2>4. freed' = freed \cup {} /\ {} \in SUBSET Hands /\ app.pkt \notin {}
        /\ brk' \in Nat /\ brk' >= brk
    BY <1>2, <2>1
  <2>5. app'.out \in (Hands \ {}) \cup ((brk + 1) .. brk') /\ ~(app'.room > 0)
    BY <2>1, <2>3, Locals
  <2> QED  BY <1>2, <2>3, <2>4, <2>5, OwnPlain
<1>6. CASE XmitNoRoom
  <2> DEFINE X == {app.out, app.pkt} \ {Null}
  <2>1. app.pc = "xmit" /\ app' = Idle /\ brk' = brk /\ freed' = freed \cup X
    BY <1>6 DEF XmitNoRoom
  <2>2. X \in SUBSET Hands /\ brk' \in Nat /\ brk' >= brk
    BY <1>2, <2>1, Locals
  <2>3. app'.batch = <<>> /\ app'.pkt = Null /\ app'.pc # "xmit"
    BY <2>1, Parts
  <2> HIDE DEF X
  <2> QED  BY <1>2, <2>1, <2>2, <2>3, OwnPlain
<1> QED  BY <1>3, <1>4, <1>5, <1>6

\* A received buffer passes from the queue to the thread.
LEMMA OwnReceiveFrame ==
    ASSUME QueuesInv, OwnInv, ReceiveFrame PROVE OwnInv'
<1> DEFINE h == RX!UsedHead
           c == rxTab.cookie[h]
<1>1. /\ app.pc = "receive" /\ RX!Reclaim /\ txVars' = txVars /\ brk' = brk /\ freed' = freed
      /\ \/ app' = Idle
         \/ app' = Refill([app EXCEPT !.pkt = c], rxTab'.avail)
  BY DEF ReceiveFrame, RX!UsedCookie
<1>2. /\ Cookied(rxTab, RX!Desc) /\ h \in RX!Desc /\ c # Null /\ c \in Buffers
      /\ rxTab'.cookie = [rxTab.cookie EXCEPT ![h] = Null]
  <2>1. RX!HasUsed /\ rxTab' = RX!Detach(rxTab, h)
    BY <1>1 DEF RX!Reclaim
  <2>2. rxTab'.cookie = [rxTab.cookie EXCEPT ![h] = Null]
    BY <2>1 DEF RX!Detach
  <2>3. h \in RX!Busy(rxTab) /\ c \in Buffers
    BY <2>1, TableTypes DEF RX!UsedCookie
  <2>4. Cookied(rxTab, RX!Desc)
    BY TableTypes DEF RX!Table, Cookied
  <2> HIDE DEF h
  <2> QED  BY <2>2, <2>3, <2>4 DEF RX!Busy
<1> HIDE DEF h
<1>3. /\ Queued(rxTab') = Queued(rxTab) \ {c} /\ Once(rxTab') /\ c \in Queued(rxTab)
  BY <1>2, QueuedLess DEF OwnInv
<1>4. /\ app'.batch = <<>> /\ app'.pkt \in {Null, c} /\ app'.pc # "xmit"
  <2>1. app \in AppType /\ app.batch = <<>>
    BY <1>1, Locals DEF BatchInv
  <2>2. /\ [app EXCEPT !.pkt = c] \in AppType /\ [app EXCEPT !.pkt = c].batch = <<>>
        /\ [app EXCEPT !.pkt = c].pkt = c
    BY <1>2, <2>1 DEF AppType
  <2> HIDE DEF c
  <2>3. CASE app' = Idle
    BY <2>3, Parts
  <2>4. CASE app' = Refill([app EXCEPT !.pkt = c], rxTab'.avail)
    <3>1. PICK a \in AppType : a = [app EXCEPT !.pkt = c]
      BY <2>2
    <3>2. a.batch = <<>> /\ a.pkt = c /\ app' = Refill(a, rxTab'.avail)
      BY <2>2, <2>4, <3>1
    <3>3. /\ Refill(a, rxTab'.avail).batch = a.batch /\ Refill(a, rxTab'.avail).pkt = a.pkt
          /\ Refill(a, rxTab'.avail).pc \in {"fill", "handle"}
      BY Parts
    <3> HIDE DEF c
    <3> QED  BY <3>2, <3>3
  <2> QED  BY <1>1, <2>3, <2>4
<1> HIDE DEF c
<1>5. Hands' \subseteq {c} /\ BatchInv'
  <2>1. InHand' = {app'.pkt} \ {Null} /\ Going' = {}
    BY <1>4, HandsPlain DEF Going
  <2>2. BatchInv'
    BY <1>4 DEF BatchInv
  <2> QED  BY <1>4, <2>1, <2>2 DEF Hands
<1>6. Owners(Queued(rxTab'), Queued(txTab'), Hands', freed', brk')
  <2>1. txTab' = txTab
    BY <1>1 DEF txVars
  <2> QED  BY <1>1, <1>3, <1>5, <2>1 DEF OwnInv, Owners
<1>7. Once(txTab')
  BY <1>1 DEF txVars, OwnInv
<1> QED  BY <1>3, <1>5, <1>6, <1>7 DEF OwnInv

\* A sent buffer passes from the queue to the freed ones.
LEMMA OwnXmitFree ==
    ASSUME QueuesInv, OwnInv, XmitFree PROVE OwnInv'
<1> DEFINE h == TX!UsedHead
           c == txTab.cookie[h]
<1>1. /\ TX!Reclaim /\ rxVars' = rxVars /\ brk' = brk /\ app' = app
      /\ freed' = freed \cup {c}
  BY DEF XmitFree, TX!UsedCookie
<1>2. /\ Cookied(txTab, TX!Desc) /\ h \in TX!Desc /\ c # Null
      /\ txTab'.cookie = [txTab.cookie EXCEPT ![h] = Null]
  <2>1. TX!HasUsed /\ txTab' = TX!Detach(txTab, h)
    BY <1>1 DEF TX!Reclaim
  <2>2. txTab'.cookie = [txTab.cookie EXCEPT ![h] = Null]
    BY <2>1 DEF TX!Detach
  <2>3. h \in TX!Busy(txTab)
    BY <2>1, TableTypes
  <2>4. Cookied(txTab, TX!Desc)
    BY TableTypes DEF TX!Table, Cookied
  <2> HIDE DEF h
  <2> QED  BY <2>2, <2>3, <2>4 DEF TX!Busy
<1> HIDE DEF h
<1>3. /\ Queued(txTab') = Queued(txTab) \ {c} /\ Once(txTab') /\ c \in Queued(txTab)
  BY <1>2, QueuedLess DEF OwnInv
<1> HIDE DEF c
<1>4. Hands' = Hands /\ BatchInv'
  BY <1>1, Locals DEF Hands, InHand, Going, BatchInv
<1>5. rxTab' = rxTab
  BY <1>1 DEF rxVars
<1>6. Owners(Queued(rxTab'), Queued(txTab'), Hands', freed', brk')
  BY <1>1, <1>3, <1>4, <1>5 DEF OwnInv, Owners
<1> QED  BY <1>3, <1>4, <1>5, <1>6 DEF OwnInv

\* A buffer passes from the thread to the transmit queue.
LEMMA OwnXmitEnqueue ==
    ASSUME QueuesInv, OwnInv, XmitEnqueue PROVE OwnInv'
<1> DEFINE c == app.out
           f == txTab.free
<1>1. /\ app.pc = "xmit" /\ app.room > 0 /\ TX!Prepare(c, 2) /\ rxVars' = rxVars
      /\ app' = [app EXCEPT !.pc = "sent"] /\ brk' = brk /\ freed' = freed
  BY DEF XmitEnqueue
<1>2. c \in Buffers /\ c \in Hands /\ c \in 1 .. brk /\ c # app.pkt /\ app.batch = <<>>
  <2>1. c \in Buffers
    BY <1>1 DEF QueuesInv, ThreadInv
  <2>2. c \in Hands /\ c \in 1 .. brk
    BY <1>1, Locals
  <2> QED  BY <1>1, <2>1, <2>2, Locals DEF BatchInv
<1>3. app'.pc = "sent" /\ app'.batch = <<>> /\ app'.pkt = app.pkt
  BY <1>1, <1>2, Locals DEF AppType
<1>4. Hands' \subseteq Hands \ {c} /\ BatchInv'
  <2>1. InHand' = {app.pkt} \ {Null} /\ Going' = {}
    BY <1>3, HandsPlain DEF Going
  <2>2. BatchInv'
    BY <1>3 DEF BatchInv
  <2> QED  BY <1>2, <2>1, <2>2, Locals DEF Hands
<1> HIDE DEF c
<1>5. /\ f \in TX!Desc /\ f \notin TX!Busy(txTab) /\ Cookied(txTab, TX!Desc)
      /\ txTab'.cookie = [txTab.cookie EXCEPT ![f] = c]
  <2>1. ~TX!Refuses(txTab, 2) /\ txTab' = TX!Take(txTab, c, 2)
    BY <1>1 DEF TX!Prepare
  <2>2. f \in T!Desc \ T!Busy(txTab)
    <3>1. T!TableSetUp /\ txTab \in T!Table /\ T!Accounted(txTab) /\ ~T!Refuses(txTab, 2)
      BY <2>1, Setting, TxTable DEF T!QueueSetUp, QueuesInv, T!RingInv, T!PoolInv
    <3>2. 2 \in 1 .. 2
      OBVIOUS
    <3> QED  BY <1>2, <3>1, <3>2, T!TakeAccounted
  <2>3. txTab'.cookie = [txTab.cookie EXCEPT ![f] = c]
    BY <2>1 DEF TX!Take
  <2>4. Cookied(txTab, TX!Desc)
    BY TableTypes DEF TX!Table, Cookied
  <2> QED  BY <2>2, <2>3, <2>4, TxTable
<1>6. c \notin Queued(txTab)
  BY <1>2 DEF OwnInv, Owners
<1>7. Queued(txTab') = Queued(txTab) \cup {c} /\ Once(txTab')
  <2>1. txTab.cookie[f] = Null
    BY <1>5 DEF TX!Busy
  <2> HIDE DEF f
  <2> QED  BY <1>2, <1>5, <1>6, <2>1, QueuedMore DEF OwnInv
<1>8. rxTab' = rxTab
  BY <1>1 DEF rxVars
<1>9. Owners(Queued(rxTab'), Queued(txTab'), Hands', freed', brk')
  BY <1>1, <1>2, <1>4, <1>7, <1>8 DEF OwnInv, Owners
<1> QED  BY <1>4, <1>7, <1>8, <1>9 DEF OwnInv

\* What the device does moves no buffer.
LEMMA OwnDevice ==
    ASSUME QueuesInv, OwnInv,
           RxTake \/ RxArrive \/ RxReturn \/ TxTake \/ TxReturn \/ UNCHANGED vars
    PROVE  OwnInv'
<1>1. rxTab' = rxTab /\ txTab' = txTab /\ app' = app /\ brk' = brk /\ freed' = freed
  BY DEF RxTake, RxArrive, RxReturn, TxTake, TxReturn, rest, vars, rxVars, txVars,
         RX!DevFetch, RX!DevSleep, RX!DevWrite, RX!DevPublish,
         TX!DevFetch, TX!DevSleep, TX!DevWrite, TX!DevPublish
<1>2. Hands' = Hands /\ BatchInv'
  BY <1>1, Locals DEF Hands, InHand, Going, BatchInv
<1> QED  BY <1>1, <1>2 DEF OwnInv

LEMMA OwnInit == Init => OwnInv
<1> SUFFICES ASSUME Init PROVE OwnInv
  OBVIOUS
<1>1. /\ rxTab = RX!TableInit /\ txTab = TX!TableInit /\ freed = {} /\ brk = 0
      /\ app = FillUp(Idle, FirstFill, "started")
  BY DEF Init, RX!Init, TX!Init
<1>2. app.batch = <<>> /\ app.pkt = Null /\ app.pc = "fill"
  BY <1>1, IdleType, Parts
<1>3. Hands = {} /\ BatchInv
  BY <1>2, HandsPlain DEF Hands, Going, BatchInv
<1>4. Queued(rxTab) = {} /\ Once(rxTab) /\ Queued(txTab) = {} /\ Once(txTab)
  BY <1>1 DEF RX!TableInit, TX!TableInit, Queued, Once
<1> QED  BY <1>1, <1>3, <1>4 DEF OwnInv, Owners

LEMMA OwnStep == QueuesInv /\ OwnInv /\ [Next]_vars => OwnInv'
<1> SUFFICES ASSUME QueuesInv, OwnInv, [Next]_vars PROVE OwnInv'
  OBVIOUS
<1>1. CASE Thread
  BY <1>1, OwnFillBatch, OwnFillEnqueue, OwnFillPublish, OwnFillRefused, OwnQuiet,
     OwnAnswer, OwnReceiveFrame, OwnXmitFree, OwnXmitEnqueue DEF Thread
<1>2. CASE RxTake \/ RxArrive \/ RxReturn \/ TxTake \/ TxReturn \/ UNCHANGED vars
  BY <1>2, OwnDevice
<1> QED  BY <1>1, <1>2 DEF Next

LEMMA OwnedApart == QueuesInv /\ OwnInv => BuffersApart
<1> SUFFICES ASSUME QueuesInv, OwnInv PROVE BuffersApart
  OBVIOUS
<1>1. Cardinality(Queued(rxTab)) = Cardinality(RX!Busy(rxTab))
  <2>1. RxNum \in Nat /\ Cookied(rxTab, 0 .. RxNum - 1) /\ Once(rxTab)
    BY TableTypes, Setting DEF RX!Table, RX!Desc, Cookied, OwnInv
  <2> QED  BY <2>1, QueuedSize DEF RX!Busy, RX!Desc
<1>2. Cardinality(Queued(txTab)) = Cardinality(TX!Busy(txTab))
  <2>1. TxNum \in Nat /\ Cookied(txTab, 0 .. TxNum - 1) /\ Once(txTab)
    BY TableTypes, Setting DEF TX!Table, TX!Desc, Cookied, OwnInv
  <2> QED  BY <2>1, QueuedSize DEF TX!Busy, TX!Desc
<1>3. /\ Queued(rxTab) \cap (Queued(txTab) \cup InHand \cup freed) = {}
      /\ Queued(txTab) \cap (InHand \cup freed) = {}
      /\ InHand \cap freed = {}
  BY DEF OwnInv, Owners, Hands
<1> QED  BY <1>1, <1>2, <1>3 DEF BuffersApart

\* No buffer the device may still write or read is freed, handled or queued again, at
\* every size of the queues and with any traffic (uk_netbuf_free after
\* virtio_netdev_xmit_free, "driver takes ownership").
THEOREM EchoKeepsBuffersApart == Spec => []BuffersApart
<1>1. Init => QueuesInv /\ OwnInv
  BY QueuesInit, OwnInit
<1>2. QueuesInv /\ OwnInv /\ [Next]_vars => (QueuesInv /\ OwnInv)'
  BY QueuesStep, OwnStep
<1> QED  BY <1>1, <1>2, OwnedApart, PTL DEF Spec

-------------------------------------------------------------------------------
(* The order of the frames.                                                        *)

LEMMA RxCarries ==
    ASSUME QueuesInv
    PROVE  /\ \A c \in Buffers, n \in 1 .. 2 : RX!Prepare(c, n) => R!FromDevice' = R!FromDevice
           /\ RX!Publish \/ RX!Notify \/ RX!DevFetch \/ RX!DevSleep \/ RX!DevPublish
                 => R!FromDevice' = R!FromDevice
           /\ RX!Reclaim => /\ R!FromDevice # <<>> /\ Head(R!FromDevice) = RX!UsedCookie
                            /\ R!FromDevice' = Tail(R!FromDevice)
           /\ rxVars' = rxVars => R!FromDevice' = R!FromDevice
           /\ R!FromDevice \in Seq(Buffers)
           /\ \A i \in 1 .. Len(R!FromDevice) : R!FromDevice[i] \in Queued(rxTab)
<1>1. R!QueueSetUp /\ R!RingInv
  BY Setting DEF QueuesInv
<1>2. ASSUME NEW c \in Buffers, NEW n \in 1 .. 2, RX!Prepare(c, n)
      PROVE  R!FromDevice' = R!FromDevice
  BY <1>1, <1>2, RxActions, R!PrepareCarries
<1>3. RX!Publish \/ RX!Notify \/ RX!DevFetch \/ RX!DevSleep \/ RX!DevPublish
         => R!FromDevice' = R!FromDevice
  BY <1>1, RxActions, R!PublishCarries, R!SignalCarries, R!FetchCarries, R!CompleteCarries
<1>4. RX!Reclaim => /\ R!FromDevice # <<>> /\ Head(R!FromDevice) = RX!UsedCookie
                    /\ R!FromDevice' = Tail(R!FromDevice)
  BY <1>1, RxActions, R!ReclaimCarries, RxTable DEF R!UsedCookie, RX!UsedCookie
<1>5. rxVars' = rxVars => R!FromDevice' = R!FromDevice
  BY DEF rxVars, R!FromDevice, R!BuffersOf, R!AndThen, R!Returned, R!Window
<1>6. /\ R!FromDevice \in Seq(Buffers)
      /\ \A i \in 1 .. Len(R!FromDevice) :
            \E h \in R!Busy(rxTab) : R!FromDevice[i] = rxTab.cookie[h]
  BY <1>1, R!CarriedBuffers
<1>7. \A h \in R!Busy(rxTab) : rxTab.cookie[h] \in Queued(rxTab)
  BY TableTypes DEF R!Busy, R!Desc, Queued, RX!Table, RX!Desc
<1> QED  BY <1>2, <1>3, <1>4, <1>5, <1>6, <1>7

\* The device writes into a buffer that is queued and is not on its way back.
LEMMA RxWrites ==
    ASSUME QueuesInv, OwnInv, NEW h \in rxDev.held, RX!DevWrite(h)
    PROVE  /\ R!FromDevice' = Append(R!FromDevice, rxTab.cookie[h])
           /\ rxTab.cookie[h] \in Queued(rxTab) \cap Buffers
           /\ \A i \in 1 .. Len(R!FromDevice) : R!FromDevice[i] # rxTab.cookie[h]
<1>1. /\ R!FromDevice' = Append(R!FromDevice, rxTab.cookie[h])
      /\ h \in R!Busy(rxTab)
      /\ \A i \in 1 .. Len(R!FromDevice) :
            \E g \in R!Busy(rxTab) \ {h} : R!FromDevice[i] = rxTab.cookie[g]
  <2>1. R!QueueSetUp /\ R!RingInv /\ R!DevWrite(h)
    BY Setting, RxActions DEF QueuesInv
  <2> QED  BY <2>1, R!WriteCarries
<1>2. \A g \in R!Busy(rxTab) : /\ g \in DOMAIN rxTab.cookie /\ rxTab.cookie[g] # Null
                               /\ rxTab.cookie[g] \in Queued(rxTab) \cap Buffers
  BY TableTypes DEF R!Busy, R!Desc, Queued, RX!Table, RX!Desc
<1> QED  BY <1>1, <1>2 DEF OwnInv, Once

LEMMA TxCarries ==
    ASSUME QueuesInv
    PROVE  /\ \A c \in Buffers : TX!Prepare(c, 2) => T!ToDevice' = Append(T!ToDevice, c)
           /\ TX!Publish \/ TX!Notify \/ TX!Reclaim \/ TX!DevSleep \/ TX!DevPublish
                 => T!ToDevice' = T!ToDevice
           /\ \A h \in txDev.held : TX!DevWrite(h) => T!ToDevice' = T!ToDevice
           /\ TX!DevFetch =>
                 /\ T!ToDevice # <<>> /\ T!ToDevice' = Tail(T!ToDevice)
                 /\ Head(T!ToDevice) = txTab.cookie[txRing.avail[txDev.seen % TxNum]]
           /\ txVars' = txVars => T!ToDevice' = T!ToDevice
           /\ T!ToDevice \in Seq(Buffers)
           /\ \A i \in 1 .. Len(T!ToDevice) : T!ToDevice[i] \in Queued(txTab)
<1>1. T!QueueSetUp /\ T!RingInv
  BY Setting DEF QueuesInv
<1>2. ASSUME NEW c \in Buffers, TX!Prepare(c, 2)
      PROVE  T!ToDevice' = Append(T!ToDevice, c)
  <2>1. 2 \in 1 .. 2 /\ T!Prepare(c, 2)
    BY <1>2, TxActions
  <2> QED  BY <1>1, <2>1, T!PrepareCarries
<1>3. TX!Publish \/ TX!Notify \/ TX!Reclaim \/ TX!DevSleep \/ TX!DevPublish
         => T!ToDevice' = T!ToDevice
  BY <1>1, TxActions, T!PublishCarries, T!SignalCarries, T!ReclaimCarries, T!CompleteCarries
<1>4. ASSUME NEW h \in txDev.held, TX!DevWrite(h) PROVE T!ToDevice' = T!ToDevice
  BY <1>1, <1>4, TxActions, T!WriteCarries
<1>5. TX!DevFetch =>
         /\ T!ToDevice # <<>> /\ T!ToDevice' = Tail(T!ToDevice)
         /\ Head(T!ToDevice) = txTab.cookie[txRing.avail[txDev.seen % TxNum]]
  BY <1>1, TxActions, T!FetchCarries
<1>6. txVars' = txVars => T!ToDevice' = T!ToDevice
  BY DEF txVars, T!ToDevice, T!BuffersOf, T!AndThen, T!Offered, T!Ready, T!Window
<1>7. /\ T!ToDevice \in Seq(Buffers)
      /\ \A i \in 1 .. Len(T!ToDevice) :
            \E h \in T!Busy(txTab) : T!ToDevice[i] = txTab.cookie[h]
  BY <1>1, T!CarriedBuffers
<1>8. \A h \in T!Busy(txTab) : txTab.cookie[h] \in Queued(txTab)
  BY TableTypes DEF T!Busy, T!Desc, Queued, TX!Table, TX!Desc
<1> QED  BY <1>2, <1>3, <1>4, <1>5, <1>6, <1>7, <1>8

\* The packet whose turn it is: the one received, or the one about to be queued.
Turn == IF app.pc = "xmit" THEN app.out
        ELSE IF app.pc \in {"sent", "notify"} THEN Null ELSE app.pkt

\* Frames on their way through the system, the oldest first: those on the wire (w), in
\* the buffers on their way to the transmitting device (a), in the buffer whose turn
\* it is (x), and in those on their way from the receiving device (b).
Ordered(w, f, a, x, b) ==
    /\ \A i, j \in 1 .. Len(w) : i < j => w[i] < w[j]
    /\ \A i, j \in 1 .. Len(a) : i < j => f[a[i]] < f[a[j]]
    /\ \A i, j \in 1 .. Len(b) : i < j => f[b[i]] < f[b[j]]
    /\ \A i \in 1 .. Len(w), j \in 1 .. Len(a) : w[i] < f[a[j]]
    /\ \A i \in 1 .. Len(w), j \in 1 .. Len(b) : w[i] < f[b[j]]
    /\ \A i \in 1 .. Len(a), j \in 1 .. Len(b) : f[a[i]] < f[b[j]]
    /\ x # Null => /\ \A i \in 1 .. Len(w) : w[i] < f[x]
                   /\ \A i \in 1 .. Len(a) : f[a[i]] < f[x]
                   /\ \A i \in 1 .. Len(b) : f[x] < f[b[i]]

\* The frame of a buffer, or what is on the wire, asks for an answer, or is the test
\* packet.
Asks(n) == n # 0 => net.frames[n] \in {"arp", "tcp", "udp"}

\* Before the loop nothing is on its way.
Filling == app.pc \in {"fill", "publish", "filled"}
Early == app.pc \in {"started", "opened", "test"} \/ (Filling /\ app.back # "handle")

LocalsInv ==
    /\ Filling => app.back \in {"started", "opened", "handle"}
    /\ app.pc = "receive" => app.pkt = Null

FramesInv ==
    /\ arrived \in Nat /\ frame \in [Buffers -> 0 .. arrived] /\ wire \in Seq(0 .. arrived)
    /\ \A b \in Buffers : b > brk => frame[b] = 0
    /\ \A i \in 1 .. Len(R!FromDevice) : frame[R!FromDevice[i]] > 0

AsksInv ==
    /\ \A i \in 1 .. Len(wire) : Asks(wire[i])
    /\ \A i \in 1 .. Len(T!ToDevice) : Asks(frame[T!ToDevice[i]])
    /\ app.pc = "xmit" => Asks(frame[app.out])

\* What is on its way is in order, was received, and, once it is to be sent, asks for
\* an answer.
OrderInv ==
    /\ LocalsInv /\ FramesInv /\ AsksInv
    /\ Ordered(wire, frame, T!ToDevice, Turn, R!FromDevice)
    /\ Early => wire = <<>> /\ T!ToDevice = <<>> /\ app.pkt = Null

\* What is on its way stays in order when the buffer whose turn it is goes to the
\* device, ...
LEMMA OrderedSend ==
    ASSUME NEW w, NEW f, NEW a \in Seq(Buffers), NEW x \in Buffers, NEW b,
           Ordered(w, f, a, x, b)
    PROVE  Ordered(w, f, Append(a, x), Null, b)
<1>1. x # Null /\ Len(Append(a, x)) = Len(a) + 1 /\ Len(a) \in Nat
  BY Setting
<1>2. \A i \in 1 .. Len(a) + 1 : \/ i \in 1 .. Len(a) /\ Append(a, x)[i] = a[i]
                                 \/ i = Len(a) + 1 /\ Append(a, x)[i] = x
  OBVIOUS
<1>3. \A i, j \in 1 .. Len(a) + 1 : i < j => i \in 1 .. Len(a)
  BY <1>1
<1> DEFINE u == Append(a, x)
<1>4. \A i, j \in 1 .. Len(u) : i < j => f[u[i]] < f[u[j]]
  <2>1. SUFFICES ASSUME NEW i \in 1 .. Len(a) + 1, NEW j \in 1 .. Len(a) + 1, i < j
                 PROVE  f[u[i]] < f[u[j]]
    BY <1>1
  <2>2. i \in 1 .. Len(a) /\ u[i] = a[i]
    BY <1>1, <1>2, <2>1
  <2>3. CASE j \in 1 .. Len(a) /\ u[j] = a[j]
    BY <2>1, <2>2, <2>3 DEF Ordered
  <2>4. CASE u[j] = x
    BY <1>1, <2>2, <2>4 DEF Ordered
  <2> QED  BY <1>2, <2>3, <2>4
<1>5. \A i \in 1 .. Len(w), j \in 1 .. Len(u) : w[i] < f[u[j]]
  BY <1>1, <1>2 DEF Ordered
<1>6. \A i \in 1 .. Len(u), j \in 1 .. Len(b) : f[u[i]] < f[b[j]]
  BY <1>1, <1>2 DEF Ordered
<1> HIDE DEF u
<1> QED  BY <1>4, <1>5, <1>6 DEF Ordered, u

\* ... when the device puts the first buffer on the wire, ...
LEMMA OrderedTake ==
    ASSUME NEW w \in Seq(Nat), NEW f \in [Buffers -> Nat], NEW a \in Seq(Buffers), a # <<>>,
           NEW x, NEW b, Ordered(w, f, a, x, b)
    PROVE  Ordered(Append(w, f[Head(a)]), f, Tail(a), x, b)
<1> DEFINE u == Append(w, f[Head(a)])
           v == Tail(a)
<1>1. /\ Len(a) \in Nat \ {0} /\ Len(v) = Len(a) - 1 /\ Head(a) = a[1] /\ a[1] \in Buffers
      /\ \A i \in 1 .. Len(a) - 1 : v[i] = a[i + 1]
  OBVIOUS
<1>2. f[Head(a)] = f[a[1]] /\ f[Head(a)] \in Nat
  BY <1>1
<1>3. Len(u) = Len(w) + 1 /\ Len(w) \in Nat
  BY <1>2
<1>4. \A i \in 1 .. Len(w) + 1 : \/ i \in 1 .. Len(w) /\ u[i] = w[i]
                                 \/ i = Len(w) + 1 /\ u[i] = f[a[1]]
  BY <1>2
<1>5. \A i \in 1 .. Len(v) : i + 1 \in 1 .. Len(a) /\ v[i] = a[i + 1] /\ 1 < i + 1
  BY <1>1
<1>6. 1 \in 1 .. Len(a)
  BY <1>1
<1> HIDE DEF u, v
<1>7. \A i, j \in 1 .. Len(u) : i < j => u[i] < u[j]
  <2>1. SUFFICES ASSUME NEW i \in 1 .. Len(w) + 1, NEW j \in 1 .. Len(w) + 1, i < j
                 PROVE  u[i] < u[j]
    BY <1>3
  <2>2. i \in 1 .. Len(w) /\ u[i] = w[i]
    BY <1>3, <1>4, <2>1
  <2>3. CASE j \in 1 .. Len(w) /\ u[j] = w[j]
    BY <2>1, <2>2, <2>3 DEF Ordered
  <2>4. CASE u[j] = f[a[1]]
    BY <1>6, <2>2, <2>4 DEF Ordered
  <2> QED  BY <1>4, <2>3, <2>4
<1>8. \A i, j \in 1 .. Len(v) : i < j => f[v[i]] < f[v[j]]
  <2>1. SUFFICES ASSUME NEW i \in 1 .. Len(v), NEW j \in 1 .. Len(v), i < j
                 PROVE  f[v[i]] < f[v[j]]
    OBVIOUS
  <2>2. f[a[i + 1]] < f[a[j + 1]]
    BY <1>5, <2>1 DEF Ordered
  <2> QED  BY <1>5, <2>2
<1>9. \A i \in 1 .. Len(u), j \in 1 .. Len(v) : u[i] < f[v[j]]
  <2>1. SUFFICES ASSUME NEW i \in 1 .. Len(w) + 1, NEW j \in 1 .. Len(v)
                 PROVE  u[i] < f[a[j + 1]]
    BY <1>3, <1>5
  <2>2. j + 1 \in 1 .. Len(a) /\ 1 < j + 1
    BY <1>5
  <2>3. CASE i \in 1 .. Len(w) /\ u[i] = w[i]
    BY <2>2, <2>3 DEF Ordered
  <2>4. CASE u[i] = f[a[1]]
    BY <1>6, <2>2, <2>4 DEF Ordered
  <2> QED  BY <1>4, <2>3, <2>4
<1>10. \A i \in 1 .. Len(u), j \in 1 .. Len(b) : u[i] < f[b[j]]
  BY <1>3, <1>4, <1>6 DEF Ordered
<1>11. \A i \in 1 .. Len(v), j \in 1 .. Len(b) : f[v[i]] < f[b[j]]
  BY <1>5 DEF Ordered
<1>12. x # Null => /\ \A i \in 1 .. Len(u) : u[i] < f[x]
                   /\ \A i \in 1 .. Len(v) : f[v[i]] < f[x]
                   /\ \A i \in 1 .. Len(b) : f[x] < f[b[i]]
  <2> SUFFICES ASSUME x # Null
               PROVE  /\ \A i \in 1 .. Len(u) : u[i] < f[x]
                      /\ \A i \in 1 .. Len(v) : f[v[i]] < f[x]
                      /\ \A i \in 1 .. Len(b) : f[x] < f[b[i]]
    OBVIOUS
  <2>1. \A i \in 1 .. Len(u) : u[i] < f[x]
    BY <1>3, <1>4, <1>6 DEF Ordered
  <2>2. \A i \in 1 .. Len(v) : f[v[i]] < f[x]
    BY <1>5 DEF Ordered
  <2>3. \A i \in 1 .. Len(b) : f[x] < f[b[i]]
    BY DEF Ordered
  <2> QED  BY <2>1, <2>2, <2>3
<1>13. \A i, j \in 1 .. Len(b) : i < j => f[b[i]] < f[b[j]]
  BY DEF Ordered
<1> QED  BY <1>7, <1>8, <1>9, <1>10, <1>11, <1>12, <1>13 DEF Ordered, u, v

\* ... when the driver takes the first returned buffer, ...
LEMMA OrderedReceive ==
    ASSUME NEW w, NEW f, NEW a, NEW b \in Seq(Buffers), b # <<>>, Ordered(w, f, a, Null, b)
    PROVE  Ordered(w, f, a, Head(b), Tail(b))
<1> DEFINE v == Tail(b)
<1>1. /\ Len(b) \in Nat \ {0} /\ Len(v) = Len(b) - 1 /\ Head(b) = b[1]
      /\ \A i \in 1 .. Len(b) - 1 : v[i] = b[i + 1]
  OBVIOUS
<1>2. \A i \in 1 .. Len(v) : i + 1 \in 1 .. Len(b) /\ v[i] = b[i + 1] /\ 1 < i + 1
  BY <1>1
<1>3. 1 \in 1 .. Len(b)
  BY <1>1
<1> HIDE DEF v
<1>4. \A i, j \in 1 .. Len(v) : i < j => f[v[i]] < f[v[j]]
  <2>1. SUFFICES ASSUME NEW i \in 1 .. Len(v), NEW j \in 1 .. Len(v), i < j
                 PROVE  f[v[i]] < f[v[j]]
    OBVIOUS
  <2>2. f[b[i + 1]] < f[b[j + 1]]
    BY <1>2, <2>1 DEF Ordered
  <2> QED  BY <1>2, <2>2
<1>5. /\ \A i \in 1 .. Len(w), j \in 1 .. Len(v) : w[i] < f[v[j]]
      /\ \A i \in 1 .. Len(a), j \in 1 .. Len(v) : f[a[i]] < f[v[j]]
  BY <1>2 DEF Ordered
<1>6. /\ \A i \in 1 .. Len(w) : w[i] < f[b[1]]
      /\ \A i \in 1 .. Len(a) : f[a[i]] < f[b[1]]
  BY <1>3 DEF Ordered
<1>7. \A i \in 1 .. Len(v) : f[b[1]] < f[v[i]]
  <2>1. \A i \in 1 .. Len(v) : f[b[1]] < f[b[i + 1]]
    BY <1>2, <1>3 DEF Ordered
  <2> QED  BY <1>2, <2>1
<1>8. /\ \A i, j \in 1 .. Len(w) : i < j => w[i] < w[j]
      /\ \A i, j \in 1 .. Len(a) : i < j => f[a[i]] < f[a[j]]
      /\ \A i \in 1 .. Len(w), j \in 1 .. Len(a) : w[i] < f[a[j]]
  BY DEF Ordered
<1> QED  BY <1>1, <1>4, <1>5, <1>6, <1>7, <1>8 DEF Ordered, v

\* ... when a frame arrives in a buffer, ...
LEMMA OrderedArrive ==
    ASSUME NEW n \in Nat, NEW w \in Seq(0 .. n), NEW f \in [Buffers -> 0 .. n],
           NEW a \in Seq(Buffers), NEW x \in Buffers \cup {Null}, NEW b \in Seq(Buffers),
           Ordered(w, f, a, x, b), NEW c \in Buffers, x # c,
           \A i \in 1 .. Len(a) : a[i] # c, \A i \in 1 .. Len(b) : b[i] # c
    PROVE  Ordered(w, [f EXCEPT ![c] = n + 1], a, x, Append(b, c))
<1> DEFINE g == [f EXCEPT ![c] = n + 1]
           v == Append(b, c)
<1>1. Len(v) = Len(b) + 1 /\ Len(b) \in Nat
  OBVIOUS
<1>2. \A i \in 1 .. Len(v) : \/ i \in 1 .. Len(b) /\ v[i] = b[i]
                             \/ i = Len(b) + 1 /\ v[i] = c
  OBVIOUS
<1>3. g[c] = n + 1 /\ \A y \in Buffers : y # c => g[y] = f[y] /\ f[y] < n + 1
  OBVIOUS
<1>4. /\ \A i \in 1 .. Len(a) : g[a[i]] = f[a[i]] /\ f[a[i]] < n + 1
      /\ \A i \in 1 .. Len(b) : g[b[i]] = f[b[i]] /\ f[b[i]] < n + 1
      /\ x # Null => g[x] = f[x] /\ f[x] < n + 1
      /\ \A i \in 1 .. Len(w) : w[i] < n + 1
  BY <1>3
<1> HIDE DEF g, v
<1>5. \A i, j \in 1 .. Len(v) : i < j => g[v[i]] < g[v[j]]
  <2>1. SUFFICES ASSUME NEW i \in 1 .. Len(v), NEW j \in 1 .. Len(v), i < j
                 PROVE  g[v[i]] < g[v[j]]
    OBVIOUS
  <2>2. i \in 1 .. Len(b) /\ v[i] = b[i]
    BY <1>1, <1>2, <2>1
  <2>3. CASE j \in 1 .. Len(b) /\ v[j] = b[j]
    BY <1>4, <2>1, <2>2, <2>3 DEF Ordered
  <2>4. CASE v[j] = c
    BY <1>3, <1>4, <2>2, <2>4
  <2> QED  BY <1>2, <2>3, <2>4
<1>6. \A i \in 1 .. Len(w), j \in 1 .. Len(v) : w[i] < g[v[j]]
  <2>1. SUFFICES ASSUME NEW i \in 1 .. Len(w), NEW j \in 1 .. Len(v) PROVE w[i] < g[v[j]]
    OBVIOUS
  <2>2. CASE j \in 1 .. Len(b) /\ v[j] = b[j]
    BY <1>4, <2>2 DEF Ordered
  <2>3. CASE v[j] = c
    BY <1>3, <1>4, <2>3
  <2> QED  BY <1>2, <2>2, <2>3
<1>7. \A i \in 1 .. Len(a), j \in 1 .. Len(v) : g[a[i]] < g[v[j]]
  <2>1. SUFFICES ASSUME NEW i \in 1 .. Len(a), NEW j \in 1 .. Len(v) PROVE g[a[i]] < g[v[j]]
    OBVIOUS
  <2>2. CASE j \in 1 .. Len(b) /\ v[j] = b[j]
    BY <1>4, <2>2 DEF Ordered
  <2>3. CASE v[j] = c
    BY <1>3, <1>4, <2>3
  <2> QED  BY <1>2, <2>2, <2>3
<1>8. x # Null => /\ \A i \in 1 .. Len(w) : w[i] < g[x]
                  /\ \A i \in 1 .. Len(a) : g[a[i]] < g[x]
                  /\ \A i \in 1 .. Len(v) : g[x] < g[v[i]]
  <2>1. SUFFICES ASSUME x # Null
                 PROVE  /\ \A i \in 1 .. Len(w) : w[i] < g[x]
                        /\ \A i \in 1 .. Len(a) : g[a[i]] < g[x]
                        /\ \A i \in 1 .. Len(v) : g[x] < g[v[i]]
    OBVIOUS
  <2>2. /\ \A i \in 1 .. Len(w) : w[i] < g[x]
        /\ \A i \in 1 .. Len(a) : g[a[i]] < g[x]
    BY <1>4, <2>1 DEF Ordered
  <2>3. ASSUME NEW j \in 1 .. Len(v) PROVE g[x] < g[v[j]]
    <3>1. CASE j \in 1 .. Len(b) /\ v[j] = b[j]
      BY <1>4, <2>1, <3>1 DEF Ordered
    <3>2. CASE v[j] = c
      BY <1>3, <1>4, <2>1, <3>2
    <3> QED  BY <1>2, <3>1, <3>2
  <2> QED  BY <2>2, <2>3
<1>9. /\ \A i, j \in 1 .. Len(w) : i < j => w[i] < w[j]
      /\ \A i, j \in 1 .. Len(a) : i < j => g[a[i]] < g[a[j]]
      /\ \A i \in 1 .. Len(w), j \in 1 .. Len(a) : w[i] < g[a[j]]
  BY <1>4 DEF Ordered
<1> QED  BY <1>5, <1>6, <1>7, <1>8, <1>9 DEF Ordered, g, v

\* ... when a packet is dropped, ...
LEMMA OrderedDrop ==
    ASSUME NEW w, NEW f, NEW a, NEW x, NEW b, Ordered(w, f, a, x, b)
    PROVE  Ordered(w, f, a, Null, b)
BY DEF Ordered

\* ... when it is copied into a buffer of its own, ...
LEMMA OrderedCopy ==
    ASSUME NEW w, NEW f, NEW a, NEW x, NEW b, Ordered(w, f, a, x, b), x # Null,
           NEW g, NEW y, g[y] = f[x],
           \A i \in 1 .. Len(a) : g[a[i]] = f[a[i]], \A i \in 1 .. Len(b) : g[b[i]] = f[b[i]]
    PROVE  Ordered(w, g, a, y, b)
BY DEF Ordered

\* ... and when the test packet is the first.
LEMMA OrderedFirst ==
    ASSUME NEW f, NEW y, NEW b, f[y] = 0, \A i \in 1 .. Len(b) : f[b[i]] > 0,
           Ordered(<<>>, f, <<>>, Null, b)
    PROVE  Ordered(<<>>, f, <<>>, y, b)
BY DEF Ordered

\* Whose turn it is belongs to the thread.
LEMMA TurnHeld ==
    ASSUME QueuesInv, OwnInv
    PROVE  Turn \in Buffers \cup {Null} /\ (Turn # Null => Turn \in Hands)
<1>1. /\ app.pkt \in Buffers \cup {Null} /\ app.out \in Buffers \cup {Null}
      /\ app.pkt # Null => app.pkt \in InHand
      /\ InHand \subseteq Hands
      /\ app.pc = "xmit" => app.out \in Hands
  BY Locals
<1> QED  BY <1>1 DEF Turn

\* The lists hold no buffer the thread holds, and no fresh one.
LEMMA ListsApart ==
    ASSUME QueuesInv, OwnInv
    PROVE  /\ \A i \in 1 .. Len(T!ToDevice) :
                 /\ T!ToDevice[i] \in Queued(txTab) /\ T!ToDevice[i] \in 1 .. brk
                 /\ T!ToDevice[i] \notin Queued(rxTab) /\ T!ToDevice[i] \notin Hands
           /\ \A i \in 1 .. Len(R!FromDevice) :
                 /\ R!FromDevice[i] \in Queued(rxTab) /\ R!FromDevice[i] \in 1 .. brk
                 /\ R!FromDevice[i] \notin Hands
BY RxCarries, TxCarries DEF OwnInv, Owners

\* A step that moves nothing, but may drop the packet whose turn it is.
LEMMA OrderPlain ==
    ASSUME OrderInv, brk \in Nat, brk' \in Nat, brk' >= brk,
           arrived' = arrived, wire' = wire, net' = net, frame' = frame,
           T!ToDevice' = T!ToDevice, R!FromDevice' = R!FromDevice,
           Turn' = Turn \/ Turn' = Null, LocalsInv',
           app'.pc = "xmit" => Asks(frame[app'.out]),
           Early' => Early /\ app'.pkt = Null
    PROVE  OrderInv'
<1>1. FramesInv'
  <2>1. \A b \in Buffers : b > brk' => b > brk
    BY DEF Buffers
  <2> QED  BY <2>1 DEF OrderInv, FramesInv
<1>2. AsksInv'
  BY DEF OrderInv, AsksInv, Asks
<1>3. Ordered(wire, frame, T!ToDevice, Turn', R!FromDevice)
  BY OrderedDrop DEF OrderInv
<1>4. Ordered(wire, frame, T!ToDevice, Turn, R!FromDevice)'
  BY <1>3 DEF Ordered
<1> QED  BY <1>1, <1>2, <1>4 DEF OrderInv

\* What the steps do to the other locals.
LEMMA PartsBack ==
    /\ \A a \in AppType : \A n, pc : FillUp(a, n, pc).back = pc
    /\ \A a \in AppType : \A n :
          Refill(a, n).pc = "handle" \/ (Refill(a, n).pc = "fill" /\ Refill(a, n).back = "handle")
    /\ Idle.pkt = Null /\ Idle.pc = "receive"
<1>1. ASSUME NEW a \in AppType, NEW n, NEW pc PROVE FillUp(a, n, pc).back = pc
  BY DEF FillUp, AppType
<1>2. ASSUME NEW a \in AppType, NEW n
      PROVE  Refill(a, n).pc = "handle"
                \/ (Refill(a, n).pc = "fill" /\ Refill(a, n).back = "handle")
  <2>1. CASE n >= Bdc
    BY <1>1, <2>1, Parts DEF Refill
  <2>2. CASE ~(n >= Bdc)
    BY <2>2 DEF Refill, AppType
  <2> QED  BY <2>1, <2>2
<1> QED  BY <1>1, <1>2, Parts

\* Filling the receive queue, and starting.
LEMMA OrderFill ==
    ASSUME QueuesInv, OwnInv, OrderInv,
           \/ FillBatch \/ FillEnqueue \/ FillPublish \/ FillRefused \/ FillEnd
           \/ Started \/ Opened
    PROVE  OrderInv'
<1> DEFINE Same == /\ frame' = frame /\ wire' = wire /\ arrived' = arrived /\ net' = net
                   /\ txVars' = txVars
           Still == R!FromDevice' = R!FromDevice
           Inside == /\ Filling /\ app'.pc \in {"fill", "publish", "filled"}
                     /\ app'.back = app.back /\ app'.pkt = app.pkt
           Moves == \/ Inside
                    \/ app.pc = "filled" /\ app'.pc = app.back /\ app'.pkt = app.pkt
                    \/ /\ app.pc = "started" /\ app'.pc = "fill" /\ app'.back = "opened"
                       /\ app'.pkt = app.pkt
                    \/ /\ app.pc = "started" /\ app'.pc = "opened" /\ app'.pkt = app.pkt
                    \/ /\ app.pc = "opened" /\ app'.pc = "test" /\ app'.pkt = app.pkt
<1>1. /\ app \in AppType /\ brk \in Nat /\ app.back \in Positions \ {"xmit", "publish"}
      /\ app.batch \in Seq(Buffers)
  BY Locals DEF AppType
<1>2. brk' \in Nat /\ brk' >= brk
  <2>1. CASE FillBatch
    <3>1. brk' \in 0 .. Pool /\ Pool \in Nat
      BY <2>1, FillSteps, Setting DEF ThreadInv
    <3>2. \E n \in Int : brk' = brk + n /\ (n < 0 => Pool < brk \/ app.want \div Bdc < 0)
      <4> DEFINE req == Smaller(app.want \div Bdc, Batch)
                 cnt == Smaller(req, Pool - brk)
      <4>1. brk' = brk + cnt
        BY <2>1 DEF FillBatch
      <4>2. app.want \div Bdc \in Int
        BY <1>1, Setting DEF AppType
      <4>3. req \in Int /\ (req < 0 => app.want \div Bdc < 0)
        BY <4>2, Setting DEF Smaller
      <4> HIDE DEF req
      <4>4. cnt \in Int /\ (cnt < 0 => req < 0 \/ Pool < brk)
        BY <1>1, <4>3, Setting DEF Smaller
      <4> HIDE DEF cnt
      <4> QED  BY <4>1, <4>3, <4>4
    <3>3. app.want \div Bdc \in Nat /\ brk <= Pool
      BY <1>1, Setting, Locals DEF AppType
    <3> QED  BY <1>1, <3>1, <3>2, <3>3
  <2>2. CASE ~FillBatch
    BY <1>1, <2>2 DEF FillEnqueue, FillPublish, FillRefused, FillEnd, Started, Opened
  <2> QED  BY <2>1, <2>2
<1>3. Same
  BY DEF FillBatch, FillEnqueue, FillPublish, FillRefused, FillEnd, Started, Opened, external
<1>4. Still
  <2>1. CASE FillBatch \/ FillRefused \/ Started
    BY <2>1, RxCarries DEF FillBatch, FillRefused, Started
  <2>2. CASE FillEnqueue
    <3>1. app.batch # <<>> /\ RX!Prepare(Head(app.batch), Bdc)
      BY <2>2 DEF FillEnqueue
    <3>2. Head(app.batch) \in Buffers
      BY <1>1, <3>1
    <3> QED  BY <3>1, <3>2, RxCarries, Setting
  <2>3. CASE FillPublish \/ FillEnd \/ Opened
    BY <2>3, RxCarries DEF FillPublish, FillEnd, Opened
  <2> QED  BY <2>1, <2>2, <2>3
<1>5. Moves
  <2>1. CASE FillBatch
    <3>1. /\ app.pc = "fill" /\ app'.pkt = app.pkt /\ app'.back = app.back
          /\ app'.pc \in {"fill", "filled"}
      BY <1>1, <2>1 DEF FillBatch, AppType
    <3> QED  BY <3>1 DEF Filling
  <2>2. CASE FillEnqueue
    BY <1>1, <2>2 DEF FillEnqueue, AppType, Filling
  <2>3. CASE FillPublish
    BY <1>1, <2>3 DEF FillPublish, AppType, Filling
  <2>4. CASE FillRefused
    BY <1>1, <2>4 DEF FillRefused, AppType, Filling
  <2>5. CASE FillEnd
    BY <1>1, <2>5 DEF FillEnd, AppType
  <2>6. CASE Started
    <3>1. app' = FillUp(app, SecondFill, "opened") \/ app' = [app EXCEPT !.pc = "opened"]
      BY <2>6 DEF Started
    <3>2. CASE app' = FillUp(app, SecondFill, "opened")
      BY <1>1, <2>6, <3>2, Parts, PartsBack DEF Started
    <3>3. CASE app' = [app EXCEPT !.pc = "opened"]
      BY <1>1, <2>6, <3>3 DEF Started, AppType
    <3> QED  BY <3>1, <3>2, <3>3
  <2>7. CASE Opened
    BY <1>1, <2>7 DEF Opened, AppType
  <2> QED  BY <2>1, <2>2, <2>3, <2>4, <2>5, <2>6, <2>7
<1>6. T!ToDevice' = T!ToDevice
  BY <1>3, TxCarries
<1>7. LocalsInv /\ (Early => app.pkt = Null)
  BY DEF OrderInv
<1>8. Turn' = Turn /\ LocalsInv' /\ app'.pc # "xmit"
  BY <1>5, <1>7 DEF Turn, LocalsInv, Filling
<1>9. Early' => Early
  BY <1>5, <1>7 DEF Early, LocalsInv, Filling
<1>10. app'.pkt = app.pkt
  BY <1>5
<1> HIDE DEF Moves, Same, Still
<1> QED  BY <1>1, <1>2, <1>3, <1>4, <1>6, <1>7, <1>8, <1>9, <1>10, OrderPlain DEF Same, Still

\* Steps that leave the received packet where it is, drop it, or hand over its turn to
\* itself; and the device's that move nothing.
LEMMA OrderQuiet ==
    ASSUME QueuesInv, OwnInv, OrderInv,
           \/ ReceiveNone \/ HandleNone \/ HandleOther \/ HandleArp \/ HandleTcp
           \/ XmitFree \/ XmitNoRoom \/ XmitFull \/ XmitPublish \/ XmitNotify
           \/ RxTake \/ RxReturn \/ TxReturn \/ UNCHANGED vars
    PROVE  OrderInv'
<1> DEFINE Same == /\ frame' = frame /\ wire' = wire /\ arrived' = arrived /\ net' = net
                   /\ brk' = brk
           Still == T!ToDevice' = T!ToDevice /\ R!FromDevice' = R!FromDevice
           Moves == \/ app' = app
                    \/ app'.pc = "receive" /\ app'.pkt = Null
                    \/ /\ app.pc = "receive" /\ app'.pkt = app.pkt
                       /\ app'.pc = "handle" \/ (app'.pc = "fill" /\ app'.back = "handle")
                    \/ /\ app.pc = "handle" /\ app.pkt # Null /\ app'.pc = "xmit"
                       /\ app'.out = app.pkt /\ Asks(frame[app.pkt])
                    \/ app.pc = "sent" /\ app'.pc = "notify"
<1>1. app \in AppType /\ brk \in Nat
  BY Locals
<1>2. Same
  BY DEF ReceiveNone, HandleNone, HandleOther, HandleArp, HandleTcp, HandleInPlace,
         XmitFree, XmitNoRoom, XmitFull, XmitPublish, XmitNotify, RxTake, RxReturn, TxReturn, vars, rest, external
<1>3. Still
  <2>1. CASE \/ ReceiveNone \/ HandleNone \/ HandleOther \/ HandleArp \/ HandleTcp
             \/ XmitNoRoom \/ XmitFull
    <3>1. rxVars' = rxVars /\ txVars' = txVars
      BY <2>1 DEF ReceiveNone, HandleNone, HandleOther, HandleArp, HandleTcp, HandleInPlace,
                    XmitNoRoom, XmitFull
    <3> QED  BY <3>1, RxCarries, TxCarries
  <2>2. CASE XmitFree \/ XmitPublish \/ XmitNotify
    <3>1. rxVars' = rxVars /\ (TX!Reclaim \/ TX!Publish \/ TX!Notify)
      BY <2>2 DEF XmitFree, XmitPublish, XmitNotify
    <3> QED  BY <3>1, RxCarries, TxCarries
  <2>3. CASE RxTake \/ RxReturn
    <3>1. txVars' = txVars /\ (RX!DevFetch \/ RX!DevSleep \/ RX!DevPublish)
      BY <2>3 DEF RxTake, RxReturn
    <3> QED  BY <3>1, RxCarries, TxCarries
  <2>4. CASE TxReturn
    <3>1. rxVars' = rxVars /\ ((\E h \in txDev.held : TX!DevWrite(h)) \/ TX!DevPublish)
      BY <2>4 DEF TxReturn
    <3> QED  BY <3>1, RxCarries, TxCarries
  <2>5. CASE UNCHANGED vars
    <3>1. rxVars' = rxVars /\ txVars' = txVars
      BY <2>5 DEF vars
    <3> QED  BY <3>1, RxCarries, TxCarries
  <2> QED  BY <2>1, <2>2, <2>3, <2>4, <2>5
<1>4. Moves
  <2>1. CASE ReceiveNone
    <3>1. app.pc = "receive" /\ app' = Refill(app, rxTab.avail)
      BY <2>1 DEF ReceiveNone
    <3> QED  BY <1>1, <3>1, Parts, PartsBack
  <2>2. CASE HandleNone \/ HandleOther \/ XmitNoRoom \/ XmitFull \/ XmitNotify
    <3>1. app' = Idle
      BY <2>2 DEF HandleNone, HandleOther, XmitNoRoom, XmitFull, XmitNotify
    <3> QED  BY <3>1, Parts
  <2>3. CASE HandleArp \/ HandleTcp
    <3>1. /\ app.pc = "handle" /\ app.pkt # Null /\ KindIn(app.pkt) \in {"arp", "tcp"}
          /\ app' = Send(app, app.pkt, Room(KindIn(app.pkt)))
      BY <2>3 DEF HandleArp, HandleTcp, HandleInPlace
    <3>2. app'.pc = "xmit" /\ app'.out = app.pkt
      BY <1>1, <3>1, Parts
    <3>3. Asks(frame[app.pkt])
      BY <3>1 DEF KindIn, Asks
    <3> QED  BY <3>1, <3>2, <3>3
  <2>4. CASE XmitPublish
    BY <1>1, <2>4 DEF XmitPublish, AppType
  <2>5. CASE XmitFree \/ RxTake \/ RxReturn \/ TxReturn \/ UNCHANGED vars
    BY <2>5 DEF XmitFree, RxTake, RxReturn, TxReturn, rest, vars
  <2> QED  BY <2>1, <2>2, <2>3, <2>4, <2>5
<1>5. LocalsInv /\ (Early => app.pkt = Null) /\ (app.pc = "xmit" => Asks(frame[app.out]))
  BY DEF OrderInv, AsksInv
<1>6. LocalsInv' /\ (Turn' = Turn \/ Turn' = Null)
  BY <1>4, <1>5 DEF Turn, LocalsInv, Filling
<1>7. app'.pc = "xmit" => Asks(frame[app'.out])
  BY <1>4, <1>5
<1>8. Early' => Early /\ app'.pkt = Null
  BY <1>4, <1>5 DEF Early, Filling
<1> HIDE DEF Moves, Same, Still
<1> QED  BY <1>1, <1>2, <1>3, <1>6, <1>7, <1>8, OrderPlain DEF Same, Still

LEMMA OrderReceiveFrame ==
    ASSUME QueuesInv, OwnInv, OrderInv, ReceiveFrame PROVE OrderInv'
<1> DEFINE a == T!ToDevice
           b == R!FromDevice
           c == RX!UsedCookie
<1>1. /\ app.pc = "receive" /\ RX!Reclaim /\ txVars' = txVars
      /\ brk' = brk /\ frame' = frame /\ wire' = wire /\ arrived' = arrived /\ net' = net
      /\ app' = Idle \/ app' = Refill([app EXCEPT !.pkt = c], rxTab'.avail)
  BY DEF ReceiveFrame, external
<1>2. app.pkt = Null /\ Turn = Null
  BY <1>1 DEF OrderInv, LocalsInv, Turn
<1>3. /\ T!ToDevice' = a /\ b # <<>> /\ Head(b) = c /\ R!FromDevice' = Tail(b)
      /\ b \in Seq(Buffers)
  BY <1>1, RxCarries, TxCarries
<1>4. /\ app'.pc = "receive" /\ app'.pkt = Null
      \/ /\ app'.pkt = c
         /\ app'.pc = "handle" \/ (app'.pc = "fill" /\ app'.back = "handle")
  <2>1. CASE app' = Idle
    BY <2>1, Parts
  <2>2. CASE app' = Refill([app EXCEPT !.pkt = c], rxTab'.avail)
    <3>1. c \in Buffers /\ app \in AppType
      BY <1>3, Locals
    <3> HIDE DEF c
    <3>2. [app EXCEPT !.pkt = c] \in AppType /\ [app EXCEPT !.pkt = c].pkt = c
      BY <3>1 DEF AppType
    <3>3. PICK r \in AppType : r = [app EXCEPT !.pkt = c]
      BY <3>2
    <3>4. r.pkt = c /\ app' = Refill(r, rxTab'.avail)
      BY <2>2, <3>2, <3>3
    <3> QED  BY <3>4, Parts, PartsBack
  <2> QED  BY <1>1, <2>1, <2>2
<1>5. Turn' \in {Null, c} /\ LocalsInv' /\ ~Early' /\ app'.pc # "xmit"
  BY <1>4 DEF Turn, LocalsInv, Early, Filling
<1>6. Ordered(wire, frame, a, Turn', Tail(b))
  <2>1. Ordered(wire, frame, a, Null, b)
    BY <1>2 DEF OrderInv
  <2> HIDE DEF a, b, c
  <2>2. Ordered(wire, frame, a, c, Tail(b))
    BY <1>3, <2>1, OrderedReceive
  <2>3. Ordered(wire, frame, a, Null, Tail(b))
    BY <2>2, OrderedDrop
  <2> QED  BY <1>5, <2>2, <2>3
<1>7. FramesInv'
  <2>1. \A i \in 1 .. Len(Tail(b)) : i + 1 \in 1 .. Len(b) /\ Tail(b)[i] = b[i + 1]
    <3> HIDE DEF b
    <3> QED  BY <1>3
  <2>2. \A i \in 1 .. Len(Tail(b)) : frame[Tail(b)[i]] > 0
    BY <2>1 DEF OrderInv, FramesInv
  <2> QED  BY <1>1, <1>3, <2>2 DEF OrderInv, FramesInv
<1>8. AsksInv'
  BY <1>1, <1>3, <1>5 DEF OrderInv, AsksInv, Asks
<1>9. Ordered(wire, frame, T!ToDevice, Turn, R!FromDevice)'
  BY <1>1, <1>3, <1>6 DEF Ordered
<1> QED  BY <1>5, <1>7, <1>8, <1>9 DEF OrderInv

\* The test packet, before any other.
LEMMA OrderTestPacket ==
    ASSUME QueuesInv, OwnInv, OrderInv, TestPacket PROVE OrderInv'
<1>1. /\ app.pc = "test" /\ rxVars' = rxVars /\ txVars' = txVars
      /\ frame' = frame /\ wire' = wire /\ arrived' = arrived /\ net' = net
      /\ \/ brk < Pool /\ brk' = brk + 1 /\ app' = Send(app, brk + 1, Room("test"))
         \/ brk' = brk /\ app' = Idle
  BY DEF TestPacket, external
<1>2. Early /\ wire = <<>> /\ T!ToDevice = <<>> /\ app.pkt = Null /\ Turn = Null
  BY <1>1 DEF Early, OrderInv, Turn
<1>3. T!ToDevice' = T!ToDevice /\ R!FromDevice' = R!FromDevice
  BY <1>1, RxCarries, TxCarries
<1>4. brk \in Nat /\ app \in AppType
  BY Locals
<1>5. CASE brk' = brk /\ app' = Idle
  <2>1. app'.pc = "receive" /\ app'.pkt = Null
    BY <1>5, Parts
  <2>2. Turn' = Null /\ LocalsInv' /\ ~Early' /\ app'.pc # "xmit"
    BY <2>1 DEF Turn, LocalsInv, Early, Filling
  <2> QED  BY <1>1, <1>3, <1>4, <1>5, <2>2, OrderPlain
<1>6. CASE brk < Pool /\ brk' = brk + 1 /\ app' = Send(app, brk + 1, Room("test"))
  <2>1. app'.pc = "xmit" /\ app'.out = brk + 1
    BY <1>4, <1>6, Parts
  <2>2. Turn' = brk + 1 /\ LocalsInv' /\ ~Early'
    BY <2>1 DEF Turn, LocalsInv, Early, Filling
  <2>3. brk + 1 \in Buffers /\ frame[brk + 1] = 0
    <3>1. brk + 1 \in Buffers /\ brk + 1 > brk
      BY <1>4, <1>6, Setting DEF Buffers
    <3> QED  BY <3>1 DEF OrderInv, FramesInv
  <2>4. FramesInv'
    <3>1. \A b \in Buffers : b > brk' => b > brk
      BY <1>4, <1>6 DEF Buffers
    <3> QED  BY <1>1, <1>3, <3>1 DEF OrderInv, FramesInv
  <2>5. AsksInv'
    <3>1. Asks(frame[app'.out])
      BY <2>1, <2>3 DEF Asks
    <3> QED  BY <1>1, <1>2, <1>3, <3>1 DEF AsksInv, Asks
  <2>6. Ordered(wire, frame, T!ToDevice, brk + 1, R!FromDevice)
    <3>1. Ordered(<<>>, frame, <<>>, Null, R!FromDevice)
      BY <1>2 DEF OrderInv
    <3>2. \A i \in 1 .. Len(R!FromDevice) : frame[R!FromDevice[i]] > 0
      BY DEF OrderInv, FramesInv
    <3> QED  BY <1>2, <2>3, <3>1, <3>2, OrderedFirst
  <2>7. Ordered(wire, frame, T!ToDevice, Turn, R!FromDevice)'
    BY <1>1, <1>3, <2>2, <2>6 DEF Ordered
  <2> QED  BY <2>2, <2>4, <2>5, <2>7 DEF OrderInv
<1> QED  BY <1>1, <1>5, <1>6

\* The answer to a datagram is in a fresh buffer.
LEMMA OrderHandleUdp ==
    ASSUME QueuesInv, OwnInv, OrderInv, HandleUdp PROVE OrderInv'
<1> DEFINE n == brk + 1
<1>1. /\ app.pc = "handle" /\ app.pkt # Null /\ KindIn(app.pkt) = "udp"
      /\ rxVars' = rxVars /\ txVars' = txVars
      /\ wire' = wire /\ arrived' = arrived /\ net' = net
      /\ \/ /\ brk < Pool /\ brk' = n /\ frame' = [frame EXCEPT ![n] = frame[app.pkt]]
            /\ app' = Send(app, n, Room("udp"))
         \/ brk' = brk /\ frame' = frame /\ app' = Idle
  BY DEF HandleUdp, external
<1>2. T!ToDevice' = T!ToDevice /\ R!FromDevice' = R!FromDevice
  BY <1>1, RxCarries, TxCarries
<1>3. brk \in Nat /\ app \in AppType /\ app.pkt \in Buffers /\ Turn = app.pkt
  BY <1>1, Locals DEF Turn
<1>4. CASE brk' = brk /\ frame' = frame /\ app' = Idle
  <2>1. app'.pc = "receive" /\ app'.pkt = Null
    BY <1>4, Parts
  <2>2. Turn' = Null /\ LocalsInv' /\ ~Early' /\ app'.pc # "xmit"
    BY <2>1 DEF Turn, LocalsInv, Early, Filling
  <2> QED  BY <1>1, <1>2, <1>3, <1>4, <2>2, OrderPlain
<1>5. CASE /\ brk < Pool /\ brk' = n /\ frame' = [frame EXCEPT ![n] = frame[app.pkt]]
           /\ app' = Send(app, n, Room("udp"))
  <2>1. app'.pc = "xmit" /\ app'.out = n
    BY <1>3, <1>5, Parts
  <2>2. Turn' = n /\ LocalsInv' /\ ~Early'
    BY <2>1 DEF Turn, LocalsInv, Early, Filling
  <2>3. n \in Buffers /\ n \notin 1 .. brk
    BY <1>3, <1>5, Setting DEF Buffers
  <2>4. arrived \in Nat /\ frame \in [Buffers -> 0 .. arrived]
    BY DEF OrderInv, FramesInv
  <2> HIDE DEF n
  <2>5. /\ frame'[n] = frame[app.pkt] /\ frame' \in [Buffers -> 0 .. arrived]
        /\ \A b \in Buffers : b # n => frame'[b] = frame[b]
    BY <1>3, <1>5, <2>3, <2>4
  <2>6. /\ \A i \in 1 .. Len(T!ToDevice) : frame'[T!ToDevice[i]] = frame[T!ToDevice[i]]
        /\ \A i \in 1 .. Len(R!FromDevice) : frame'[R!FromDevice[i]] = frame[R!FromDevice[i]]
    <3>1. /\ \A i \in 1 .. Len(T!ToDevice) : T!ToDevice[i] \in Buffers /\ T!ToDevice[i] # n
          /\ \A i \in 1 .. Len(R!FromDevice) : R!FromDevice[i] \in Buffers /\ R!FromDevice[i] # n
      BY <2>3, ListsApart, RxCarries, TxCarries
    <3> QED  BY <2>5, <3>1
  <2>7. FramesInv'
    <3>1. \A b \in Buffers : b > brk' => b > brk /\ b # n
      BY <1>3, <1>5 DEF Buffers, n
    <3> QED  BY <1>1, <1>2, <2>5, <2>6, <3>1 DEF OrderInv, FramesInv
  <2>8. AsksInv'
    <3>1. Asks(frame[app.pkt])
      BY <1>1 DEF KindIn, Asks
    <3>2. Asks(frame'[app'.out])
      BY <2>1, <2>5, <3>1
    <3>3. /\ \A i \in 1 .. Len(wire) : Asks(wire[i])
          /\ \A i \in 1 .. Len(T!ToDevice) : Asks(frame'[T!ToDevice[i]])
      BY <2>6 DEF OrderInv, AsksInv
    <3>4. \A m : Asks(m)' <=> Asks(m)
      BY <1>1 DEF Asks
    <3> QED  BY <1>1, <1>2, <3>2, <3>3, <3>4 DEF AsksInv, Asks
  <2>9. Ordered(wire, frame', T!ToDevice, n, R!FromDevice)
    <3>1. Ordered(wire, frame, T!ToDevice, app.pkt, R!FromDevice) /\ app.pkt # Null
      BY <1>1, <1>3 DEF OrderInv
    <3> QED  BY <2>5, <2>6, <3>1, OrderedCopy
  <2>10. Ordered(wire, frame, T!ToDevice, Turn, R!FromDevice)'
    BY <1>1, <1>2, <2>2, <2>9 DEF Ordered
  <2> QED  BY <2>2, <2>7, <2>8, <2>10 DEF OrderInv
<1> QED  BY <1>1, <1>4, <1>5

\* The packet joins those on their way to the device.
LEMMA OrderXmitEnqueue ==
    ASSUME QueuesInv, OwnInv, OrderInv, XmitEnqueue PROVE OrderInv'
<1> DEFINE a == T!ToDevice
           c == app.out
<1>1. /\ app.pc = "xmit" /\ TX!Prepare(c, 2) /\ rxVars' = rxVars
      /\ app' = [app EXCEPT !.pc = "sent"] /\ brk' = brk
      /\ frame' = frame /\ wire' = wire /\ arrived' = arrived /\ net' = net
  BY DEF XmitEnqueue, external
<1>2. c \in Buffers /\ app \in AppType /\ Turn = c
  BY <1>1, Locals DEF QueuesInv, ThreadInv, Turn
<1>3. T!ToDevice' = Append(a, c) /\ R!FromDevice' = R!FromDevice /\ a \in Seq(Buffers)
  BY <1>1, <1>2, RxCarries, TxCarries
<1>4. app'.pc = "sent"
  BY <1>1, <1>2 DEF AppType
<1>5. Turn' = Null /\ LocalsInv' /\ ~Early'
  BY <1>4 DEF Turn, LocalsInv, Early, Filling
<1>6. FramesInv'
  BY <1>1, <1>3 DEF OrderInv, FramesInv
<1>7. AsksInv'
  <2>1. \A i \in 1 .. Len(Append(a, c)) : \/ i \in 1 .. Len(a) /\ Append(a, c)[i] = a[i]
                                          \/ Append(a, c)[i] = c
    <3> HIDE DEF a, c
    <3> QED  BY <1>2, <1>3
  <2>2. /\ \A i \in 1 .. Len(a) : Asks(frame[a[i]])
        /\ Asks(frame[c])
    BY <1>1 DEF OrderInv, AsksInv
  <2>3. \A i \in 1 .. Len(Append(a, c)) : Asks(frame[Append(a, c)[i]])
    <3> HIDE DEF a, c
    <3> QED  BY <2>1, <2>2
  <2>4. \A i \in 1 .. Len(wire) : Asks(wire[i])
    BY DEF OrderInv, AsksInv
  <2>5. \A m : Asks(m)' <=> Asks(m)
    BY <1>1 DEF Asks
  <2> HIDE DEF a, c
  <2> QED  BY <1>1, <1>3, <1>4, <2>3, <2>4, <2>5 DEF AsksInv, Asks
<1>8. Ordered(wire, frame, Append(a, c), Null, R!FromDevice)
  <2>1. Ordered(wire, frame, a, c, R!FromDevice)
    BY <1>2 DEF OrderInv
  <2> HIDE DEF a, c
  <2> QED  BY <1>2, <1>3, <2>1, OrderedSend
<1>9. Ordered(wire, frame, T!ToDevice, Turn, R!FromDevice)'
  BY <1>1, <1>3, <1>5, <1>8 DEF Ordered
<1> QED  BY <1>5, <1>6, <1>7, <1>9 DEF OrderInv

\* A frame arrives, the last so far, in a buffer only the device holds.
LEMMA OrderRxArrive ==
    ASSUME QueuesInv, OwnInv, OrderInv, RxArrive PROVE OrderInv'
<1>1. PICK h \in rxDev.held :
         /\ RX!DevWrite(h) /\ frame' = [frame EXCEPT ![rxTab.cookie[h]] = arrived + 1]
         /\ arrived' = arrived + 1 /\ txVars' = txVars /\ app' = app /\ brk' = brk
         /\ wire' = wire /\ net' = net
  BY DEF RxArrive, rest
<1>2. PICK c \in Buffers : c = rxTab.cookie[h]
  BY <1>1, RxWrites
<1>3. /\ R!FromDevice' = Append(R!FromDevice, c) /\ c \in Queued(rxTab)
      /\ \A i \in 1 .. Len(R!FromDevice) : R!FromDevice[i] # c
  BY <1>1, <1>2, RxWrites
<1>4. T!ToDevice' = T!ToDevice /\ T!ToDevice \in Seq(Buffers) /\ R!FromDevice \in Seq(Buffers)
  BY <1>1, RxCarries, TxCarries
<1>5. \A i \in 1 .. Len(T!ToDevice) : T!ToDevice[i] # c
  BY <1>3, ListsApart
<1>6. c \in 1 .. brk /\ c \notin Hands /\ Turn # c /\ Turn \in Buffers \cup {Null}
  <2>1. c \in 1 .. brk /\ c \notin Hands
    BY <1>3 DEF OwnInv, Owners
  <2> QED  BY <1>2, <2>1, TurnHeld, Setting
<1>7. arrived \in Nat /\ frame \in [Buffers -> 0 .. arrived] /\ wire \in Seq(0 .. arrived)
  BY DEF OrderInv, FramesInv
<1>8. /\ frame' = [frame EXCEPT ![c] = arrived + 1] /\ frame'[c] = arrived + 1
      /\ frame' \in [Buffers -> 0 .. arrived + 1]
      /\ \A b \in Buffers : b # c => frame'[b] = frame[b]
  BY <1>1, <1>2, <1>7
<1>9. Turn' = Turn /\ LocalsInv' /\ (Early' <=> Early)
  BY <1>1 DEF Turn, LocalsInv, Early, Filling, OrderInv
<1>10. FramesInv'
  <2>1. wire \in Seq(0 .. arrived + 1)
    <3>1. 0 .. arrived \subseteq 0 .. arrived + 1
      BY <1>7
    <3> QED  BY <1>7, <3>1, SeqMonotonic
  <2>2. \A b \in Buffers : b > brk => frame'[b] = 0
    <3>1. \A b \in Buffers : b > brk => b # c
      BY <1>6, Locals DEF Buffers
    <3> QED  BY <1>8, <3>1 DEF OrderInv, FramesInv
  <2>3. \A i \in 1 .. Len(Append(R!FromDevice, c)) : frame'[Append(R!FromDevice, c)[i]] > 0
    <3>1. ASSUME NEW s \in Seq(Buffers), \A i \in 1 .. Len(s) : frame'[s[i]] > 0,
                 frame'[c] > 0
          PROVE  \A i \in 1 .. Len(Append(s, c)) : frame'[Append(s, c)[i]] > 0
      <4>1. \A i \in 1 .. Len(Append(s, c)) : \/ i \in 1 .. Len(s) /\ Append(s, c)[i] = s[i]
                                              \/ Append(s, c)[i] = c
        OBVIOUS
      <4> QED  BY <3>1, <4>1
    <3>2. \A i \in 1 .. Len(R!FromDevice) : frame'[R!FromDevice[i]] > 0
      <4>1. \A i \in 1 .. Len(R!FromDevice) : R!FromDevice[i] \in Buffers
        BY <1>4
      <4> QED  BY <1>3, <1>8, <4>1 DEF OrderInv, FramesInv
    <3>3. frame'[c] > 0
      BY <1>7, <1>8
    <3> QED  BY <1>4, <3>1, <3>2, <3>3
  <2> QED  BY <1>1, <1>3, <1>7, <1>8, <2>1, <2>2, <2>3 DEF FramesInv
<1>11. AsksInv'
  <2>1. \A i \in 1 .. Len(T!ToDevice) : frame'[T!ToDevice[i]] = frame[T!ToDevice[i]]
    <3>1. \A i \in 1 .. Len(T!ToDevice) : T!ToDevice[i] \in Buffers
      BY <1>4
    <3> QED  BY <1>5, <1>8, <3>1
  <2>2. app.pc = "xmit" => frame'[app.out] = frame[app.out]
    <3>1. app.pc = "xmit" => app.out \in Buffers /\ app.out # c
      BY <1>6, Locals DEF QueuesInv, ThreadInv
    <3> QED  BY <1>8, <3>1
  <2>3. \A m : Asks(m)' <=> Asks(m)
    BY <1>1 DEF Asks
  <2> QED  BY <1>1, <1>4, <2>1, <2>2, <2>3 DEF OrderInv, AsksInv, Asks
<1>12. Ordered(wire, frame', T!ToDevice, Turn, Append(R!FromDevice, c))
  <2>1. Ordered(wire, frame, T!ToDevice, Turn, R!FromDevice)
    BY DEF OrderInv
  <2> QED  BY <1>3, <1>4, <1>5, <1>6, <1>7, <1>8, <2>1, OrderedArrive
<1>13. Ordered(wire, frame, T!ToDevice, Turn, R!FromDevice)'
  BY <1>1, <1>3, <1>4, <1>9, <1>12 DEF Ordered
<1>14. Early' => wire' = <<>> /\ T!ToDevice' = <<>> /\ app'.pkt = Null
  BY <1>1, <1>4, <1>9 DEF OrderInv
<1> QED  BY <1>9, <1>10, <1>11, <1>13, <1>14 DEF OrderInv

\* The packet on its way for the longest time goes on the wire.
LEMMA OrderTxTake ==
    ASSUME QueuesInv, OwnInv, OrderInv, TxTake PROVE OrderInv'
<1> DEFINE a == T!ToDevice
<1>1. /\ rxVars' = rxVars /\ app' = app /\ brk' = brk
      /\ frame' = frame /\ arrived' = arrived /\ net' = net
      /\ \/ TX!DevSleep /\ wire' = wire
         \/ /\ TX!DevFetch
            /\ wire' = Append(wire, frame[txTab.cookie[txRing.avail[txDev.seen % TxNum]]])
  BY DEF TxTake, rest
<1>2. R!FromDevice' = R!FromDevice /\ a \in Seq(Buffers)
  BY <1>1, RxCarries, TxCarries
<1>3. Turn' = Turn /\ LocalsInv' /\ (Early' <=> Early) /\ brk \in Nat
  BY <1>1, Locals DEF Turn, LocalsInv, Early, Filling, OrderInv
<1>4. CASE TX!DevSleep /\ wire' = wire
  <2>1. T!ToDevice' = T!ToDevice
    BY <1>4, TxCarries
  <2>2. app'.pc = "xmit" => Asks(frame[app'.out])
    BY <1>1 DEF OrderInv, AsksInv
  <2>3. Early' => Early /\ app'.pkt = Null
    BY <1>1, <1>3 DEF OrderInv
  <2> QED  BY <1>1, <1>2, <1>3, <1>4, <2>1, <2>2, <2>3, OrderPlain
<1>5. CASE /\ TX!DevFetch
           /\ wire' = Append(wire, frame[txTab.cookie[txRing.avail[txDev.seen % TxNum]]])
  <2>1. /\ a # <<>> /\ T!ToDevice' = Tail(a) /\ wire' = Append(wire, frame[Head(a)])
    BY <1>5, TxCarries
  <2>2. ~Early
    BY <2>1 DEF OrderInv
  <2>3. arrived \in Nat /\ frame \in [Buffers -> 0 .. arrived] /\ wire \in Seq(0 .. arrived)
    BY DEF OrderInv, FramesInv
  <2>4. Ordered(wire, frame, a, Turn, R!FromDevice)
    BY DEF OrderInv
  <2>5. /\ \A i \in 1 .. Len(wire) : Asks(wire[i])
        /\ \A i \in 1 .. Len(a) : Asks(frame[a[i]])
    BY DEF OrderInv, AsksInv
  <2> HIDE DEF a
  <2>6. /\ Head(a) = a[1] /\ a[1] \in Buffers /\ 1 \in 1 .. Len(a) /\ Tail(a) \in Seq(Buffers)
        /\ \A i \in 1 .. Len(Tail(a)) : i + 1 \in 1 .. Len(a) /\ Tail(a)[i] = a[i + 1]
    BY <1>2, <2>1
  <2>7. PICK x \in 0 .. arrived : x = frame[Head(a)]
    BY <2>3, <2>6
  <2>8. Append(wire, x) \in Seq(0 .. arrived) /\ wire' = Append(wire, x)
    BY <2>1, <2>3, <2>7
  <2>9. FramesInv'
    BY <1>1, <1>2, <2>3, <2>8 DEF OrderInv, FramesInv
  <2>10. AsksInv'
    <3>1. \A i \in 1 .. Len(Append(wire, x)) :
             \/ i \in 1 .. Len(wire) /\ Append(wire, x)[i] = wire[i]
             \/ Append(wire, x)[i] = x
      BY <2>3
    <3>2. Asks(x)
      BY <2>5, <2>6, <2>7
    <3>3. \A i \in 1 .. Len(Append(wire, x)) : Asks(Append(wire, x)[i])
      BY <2>5, <3>1, <3>2
    <3>4. \A i \in 1 .. Len(Tail(a)) : Asks(frame[Tail(a)[i]])
      BY <2>5, <2>6
    <3>5. app.pc = "xmit" => Asks(frame[app.out])
      BY DEF OrderInv, AsksInv
    <3>6. \A m : Asks(m)' <=> Asks(m)
      BY <1>1 DEF Asks
    <3> QED  BY <1>1, <2>1, <2>8, <3>3, <3>4, <3>5, <3>6 DEF AsksInv, Asks
  <2>11. Ordered(Append(wire, x), frame, Tail(a), Turn, R!FromDevice)
    <3>1. wire \in Seq(Nat) /\ frame \in [Buffers -> Nat]
      <4>1. 0 .. arrived \subseteq Nat
        BY <2>3
      <4>2. wire \in Seq(Nat)
        BY <2>3, <4>1, SeqMonotonic
      <4> QED  BY <2>3, <4>1, <4>2
    <3>2. Ordered(Append(wire, frame[Head(a)]), frame, Tail(a), Turn, R!FromDevice)
      BY <1>2, <2>1, <2>4, <3>1, OrderedTake
    <3> QED  BY <2>7, <3>2
  <2>12. Ordered(wire, frame, T!ToDevice, Turn, R!FromDevice)'
    BY <1>1, <1>2, <1>3, <2>1, <2>8, <2>11 DEF Ordered
  <2> QED  BY <1>3, <2>2, <2>9, <2>10, <2>12 DEF OrderInv
<1> QED  BY <1>1, <1>4, <1>5

LEMMA OrderInit == Init => OrderInv
<1> SUFFICES ASSUME Init PROVE OrderInv
  OBVIOUS
<1>1. /\ app = FillUp(Idle, FirstFill, "started") /\ frame = [b \in Buffers |-> 0]
      /\ arrived = 0 /\ wire = <<>>
  BY DEF Init
<1>2. app.pc = "fill" /\ app.back = "started" /\ app.pkt = Null
  BY <1>1, IdleType, Parts, PartsBack
<1>3. Turn = Null /\ LocalsInv
  BY <1>2 DEF Turn, LocalsInv, Filling
<1>4. T!ToDevice = <<>> /\ R!FromDevice = <<>>
  <2>1. R!QueueSetUp /\ T!QueueSetUp /\ R!Init /\ T!Init
    BY <1>1, QueuesInit, RxSteps, TxSteps, Setting
  <2> QED  BY <2>1, R!NothingCarried, T!NothingCarried
<1>5. FramesInv
  <2>1. <<>> \in Seq(0 .. arrived)
    OBVIOUS
  <2> QED  BY <1>1, <1>4, <2>1 DEF FramesInv
<1>6. AsksInv
  BY <1>1, <1>2, <1>4 DEF AsksInv
<1>7. Ordered(wire, frame, T!ToDevice, Turn, R!FromDevice)
  BY <1>1, <1>3, <1>4 DEF Ordered
<1> QED  BY <1>1, <1>2, <1>3, <1>4, <1>5, <1>6, <1>7 DEF OrderInv

LEMMA OrderStep == QueuesInv /\ OwnInv /\ OrderInv /\ [Next]_vars => OrderInv'
<1> SUFFICES ASSUME QueuesInv, OwnInv, OrderInv, [Next]_vars PROVE OrderInv'
  OBVIOUS
<1>1. CASE Thread
  BY <1>1, OrderFill, OrderQuiet, OrderReceiveFrame, OrderTestPacket, OrderHandleUdp,
     OrderXmitEnqueue DEF Thread
<1>2. CASE RxTake \/ RxArrive \/ RxReturn \/ TxTake \/ TxReturn \/ UNCHANGED vars
  BY <1>2, OrderQuiet, OrderRxArrive, OrderTxTake
<1> QED  BY <1>1, <1>2 DEF Next

\* With any traffic, any sizes of the queues, and a device that returns its buffers in
\* any order: what leaves is the test packet and then answers to frames that arrived
\* and ask for one, in the order of their arrival, none twice (the application's loop,
\* virtio_netdev_recv, virtio_netdev_xmit).
THEOREM EchoAnswersInOrder == Spec => []EchoedInOrder
<1>1. Init => QueuesInv /\ OwnInv /\ OrderInv
  BY QueuesInit, OwnInit, OrderInit
<1>2. QueuesInv /\ OwnInv /\ OrderInv /\ [Next]_vars => (QueuesInv /\ OwnInv /\ OrderInv)'
  BY QueuesStep, OwnStep, OrderStep
<1>3. OrderInv => EchoedInOrder
  BY DEF OrderInv, AsksInv, Asks, Ordered, EchoedInOrder
<1> QED  BY <1>1, <1>2, <1>3, PTL DEF Spec

===============================================================================
