---------------------------- MODULE Netpoll_proofs ---------------------------
(***************************************************************************)
(* netpoll for any number of netpolls, netpoll_infos and messages: a       *)
(* sender's netpoll_info outlives it, a queued message always has its      *)
(* work, the worker keeps the order, a direct send overtakes one message   *)
(* at most, every message exists once, and the whole implements            *)
(* MessageChannel.                                                         *)
(***************************************************************************)
EXTENDS Netpoll, FiniteSetTheorems, TLAPS

\* Wide time limits: what is proved should not depend on the speed of the machine.
USE SMTT(30), ZenonT(60)

\* What the sender knows at each point.
SenderInv ==
    /\ send # "idle" => next > 1
    /\ send = "try" => tries > 0
    /\ send \notin {"idle", "begin"} => info \in Infos

\* The netpolls that are set up; no more of them share the netpoll_info.
SetUp == {n \in Netpolls : active[n]}
RefInv == npinfo # NoInfo => refcnt[npinfo] <= Cardinality(SetUp)

\* A netpoll_info that is not allocated yet has nothing queued and no work.
UnusedInv ==
    \A i \in Infos : life[i] = "unused" => txq[i] = <<>> /\ ~pending[i] /\ work[i] = "idle"

\* The worker has a message in hand just before it sends it; each queue is in order
\* behind that message, and the sender's message is newer than all of them.
OrderInv ==
    \A i \in Infos :
        /\ hand[i] # 0 <=> work[i] = "xmit"
        /\ \A j, k \in DOMAIN txq[i] : j < k => txq[i][j] < txq[i][k]
        /\ \A k \in DOMAIN txq[i] : hand[i] < txq[i][k] /\ txq[i][k] <= Msg
        /\ hand[i] <= Msg
        /\ send \in {"begin", "look", "try", "queue"} =>
             hand[i] < Msg /\ \A k \in DOMAIN txq[i] : txq[i][k] < Msg

IInv ==
    /\ TypeOK /\ SenderInv /\ RefInv /\ SenderInfoAlive
    /\ UnusedInv /\ QueuedHasWork /\ OrderInv

LEMMA InvInit == Init => IInv
<1> SUFFICES ASSUME Init PROVE IInv
  OBVIOUS
<1>1. TypeOK
  <2>1. Cardinality(Netpolls) \in Nat
    BY NetpollsAreFinite, FS_CardinalityType
  <2>2. txq \in [Infos -> Seq(1..MaxMsgs)] /\ sent \in Seq(1..MaxMsgs)
    BY DEF Init
  <2>3. refcnt \in [Infos -> 0..Cardinality(Netpolls)]
    BY <2>1 DEF Init
  <2>4. hand \in [Infos -> 0..MaxMsgs] /\ tries \in 0..Tries /\ next \in 1..(MaxMsgs + 1)
        /\ pool \in 0..PoolSize
    BY BoundsAreNat DEF Init
  <2> QED  BY <2>2, <2>3, <2>4, ZenonT(60) DEF Init, TypeOK
<1>2. SenderInv /\ RefInv /\ SenderInfoAlive
  BY DEF Init, SenderInv, RefInv, SenderInfoAlive
<1>3. UnusedInv /\ QueuedHasWork
  BY DEF Init, UnusedInv, QueuedHasWork
<1>4. OrderInv
  BY DEF Init, OrderInv, Msg
<1> QED  BY <1>1, <1>2, <1>3, <1>4 DEF IInv
-----------------------------------------------------------------------------
(***************************************************************************)
(* Queues.                                                                 *)
(***************************************************************************)
LEMMA EmptyOf ==
    ASSUME NEW S PROVE <<>> \in Seq(S) /\ \A k \in DOMAIN <<>> : FALSE
<1>1. <<>> \in Seq(S) /\ Len(<<>>) = 0
  OBVIOUS
<1>2. DOMAIN <<>> = 1..Len(<<>>)
  BY <1>1
<1> QED  BY <1>1, <1>2

LEMMA ElementOf ==
    ASSUME NEW S, NEW q \in Seq(S), NEW k \in DOMAIN q PROVE q[k] \in S
  OBVIOUS

LEMMA TailOf ==
    ASSUME NEW S, NEW q \in Seq(S), q # <<>>
    PROVE  /\ Head(q) \in S /\ Head(q) = q[1] /\ 1 \in DOMAIN q
           /\ Tail(q) \in Seq(S)
           /\ \A k \in DOMAIN Tail(q) : k \in Nat /\ k + 1 \in DOMAIN q /\ Tail(q)[k] = q[k + 1]
  OBVIOUS

LEMMA AppendOf ==
    ASSUME NEW S, NEW q \in Seq(S), NEW m \in S
    PROVE  /\ Append(q, m) \in Seq(S)
           /\ \A k \in DOMAIN Append(q, m) :
                \/ k \in DOMAIN q /\ Append(q, m)[k] = q[k]
                \/ k = Len(q) + 1 /\ Append(q, m)[k] = m
  OBVIOUS

LEMMA PutBackOf ==
    ASSUME NEW S, NEW q \in Seq(S), NEW m \in S
    PROVE  /\ <<m>> \o q \in Seq(S)
           /\ \A k \in DOMAIN (<<m>> \o q) :
                \/ k = 1 /\ (<<m>> \o q)[k] = m
                \/ k \in Nat /\ k - 1 \in DOMAIN q /\ (<<m>> \o q)[k] = q[k - 1]
  OBVIOUS

LEMMA MessagesOf ==
    ASSUME NEW S, NEW q \in Seq(S) PROVE Messages(q) \subseteq S
  BY DEF Messages
-----------------------------------------------------------------------------
(***************************************************************************)
(* The steps.                                                              *)
(***************************************************************************)
LEMMA OrderKept ==
    ASSUME OrderInv, UNCHANGED <<txq, hand, work, send, next>> PROVE OrderInv'
  BY DEF OrderInv, Msg

LEMMA RefillType == ASSUME TypeOK, NEW p \in Refill PROVE p \in 0..PoolSize
<1>1. pool \in 0..PoolSize /\ PoolSize \in Nat
  BY BoundsAreNat DEF TypeOK
<1> QED  BY <1>1 DEF Refill

\* netpoll_setup adds one user of the netpoll_info it publishes or shares.
LEMMA SetupStep == ASSUME IInv, NEW n \in Netpolls, Setup(n) PROVE IInv'
<1> USE DEF workVars, sendVars
<1>1. UNCHANGED <<txq, pending, work, hand, send, info, tries, next, sent, dropped, stopped>>
  BY DEF Setup
<1>2. SetUp' = SetUp \cup {n} /\ n \notin SetUp
  BY DEF Setup, SetUp, IInv, TypeOK
<1>3. IsFiniteSet(SetUp) /\ Cardinality(SetUp) \in Nat /\ Cardinality(Netpolls) \in Nat
  BY NetpollsAreFinite, FS_Subset, FS_CardinalityType DEF SetUp
<1>4. Cardinality(SetUp') = Cardinality(SetUp) + 1
  BY <1>2, <1>3, FS_AddElement
<1>5. Cardinality(SetUp') <= Cardinality(Netpolls)
  BY NetpollsAreFinite, FS_Subset DEF SetUp
<1>6. pool' \in 0..PoolSize
  BY RefillType DEF Setup, IInv
<1>7. CASE npinfo = NoInfo
  <2>1. PICK i \in Infos : /\ life[i] = "unused" /\ life' = [life EXCEPT ![i] = "live"]
                           /\ refcnt' = [refcnt EXCEPT ![i] = 1] /\ npinfo' = i
    BY <1>7 DEF Setup
  <2>2. refcnt' \in [Infos -> 0..Cardinality(Netpolls)] /\ refcnt'[i] = 1
    <3>1. 1 \in 0..Cardinality(Netpolls)
      BY <1>3, <1>4, <1>5
    <3> QED  BY <2>1, <3>1 DEF IInv, TypeOK
  <2>3. TypeOK'
    BY <1>1, <1>6, <2>1, <2>2 DEF Setup, IInv, TypeOK
  <2>4. SenderInv' /\ RefInv'
    BY <1>1, <1>3, <1>4, <2>1, <2>2 DEF IInv, SenderInv, RefInv
  <2>5. SenderInfoAlive'
    <3>1. send \notin {"idle", "begin"} => info \in Infos
      BY DEF IInv, SenderInv
    <3>2. \A j \in Infos : life'[j] = IF j = i THEN "live" ELSE life[j]
      BY <2>1 DEF IInv, TypeOK
    <3> QED  BY <1>1, <2>1, <2>2, <3>1, <3>2 DEF IInv, SenderInfoAlive
  <2>6. UnusedInv' /\ QueuedHasWork'
    BY <1>1, <2>1 DEF IInv, UnusedInv, QueuedHasWork, TypeOK
  <2> QED  BY <1>1, <2>3, <2>4, <2>5, <2>6, OrderKept DEF IInv
<1>8. CASE npinfo # NoInfo
  <2>1. /\ npinfo \in Infos /\ refcnt' = [refcnt EXCEPT ![npinfo] = @ + 1]
        /\ UNCHANGED <<life, npinfo>>
    BY <1>8 DEF Setup, IInv, TypeOK
  <2>2. refcnt[npinfo] \in Nat /\ refcnt[npinfo] <= Cardinality(SetUp)
    <3>1. refcnt[npinfo] \in 0..Cardinality(Netpolls)
      BY <2>1 DEF IInv, TypeOK
    <3> QED  BY <1>3, <1>8, <3>1 DEF IInv, RefInv
  <2>3. refcnt' \in [Infos -> 0..Cardinality(Netpolls)] /\ refcnt'[npinfo] = refcnt[npinfo] + 1
    <3>1. refcnt[npinfo] + 1 \in 0..Cardinality(Netpolls)
      BY <1>3, <1>4, <1>5, <2>2
    <3> QED  BY <2>1, <3>1 DEF IInv, TypeOK
  <2>4. TypeOK'
    BY <1>1, <1>6, <2>1, <2>3 DEF Setup, IInv, TypeOK
  <2>5. SenderInv' /\ RefInv'
    BY <1>1, <1>3, <1>4, <2>1, <2>2, <2>3 DEF IInv, SenderInv, RefInv
  <2>6. SenderInfoAlive'
    BY <1>1, <2>1, <2>2, <2>3 DEF IInv, SenderInfoAlive
  <2>7. UnusedInv' /\ QueuedHasWork'
    BY <1>1, <2>1 DEF IInv, UnusedInv, QueuedHasWork
  <2> QED  BY <1>1, <2>4, <2>5, <2>6, <2>7, OrderKept DEF IInv
<1> QED  BY <1>7, <1>8

\* netpoll_cleanup unpublishes the netpoll_info; its last user leaves it to RCU.
LEMMA CleanupStep == ASSUME IInv, NEW n \in Netpolls, Cleanup(n) PROVE IInv'
<1> USE DEF workVars, sendVars, infoVars
<1>1. /\ UNCHANGED <<txq, pending, work, hand, send, info, tries, next, sent, dropped, pool,
                     stopped, running>>
      /\ npinfo' = NoInfo /\ active' = [active EXCEPT ![n] = FALSE]
  BY DEF Cleanup
<1>2. Cardinality(Netpolls) \in Nat
  BY NetpollsAreFinite, FS_CardinalityType
<1>3. CASE npinfo = NoInfo
  <2>1. UNCHANGED <<refcnt, life>>
    BY <1>3 DEF Cleanup
  <2>2. TypeOK'
    BY <1>1, <2>1 DEF IInv, TypeOK
  <2>3. SenderInv' /\ RefInv' /\ SenderInfoAlive'
    BY <1>1, <2>1 DEF IInv, SenderInv, RefInv, SenderInfoAlive
  <2>4. UnusedInv' /\ QueuedHasWork'
    BY <1>1, <2>1 DEF IInv, UnusedInv, QueuedHasWork
  <2> QED  BY <1>1, <2>2, <2>3, <2>4, OrderKept DEF IInv
<1>4. CASE npinfo # NoInfo
  <2>1. /\ npinfo \in Infos /\ refcnt' = [refcnt EXCEPT ![npinfo] = @ - 1]
        /\ life[npinfo] = "live" /\ refcnt[npinfo] > 0
        /\ life' \in {life, [life EXCEPT ![npinfo] = "rcu"]}
    BY <1>4 DEF Cleanup, IInv, TypeOK, SenderInfoAlive
  <2>2. refcnt' \in [Infos -> 0..Cardinality(Netpolls)]
    <3>1. refcnt[npinfo] \in 0..Cardinality(Netpolls)
      BY <2>1 DEF IInv, TypeOK
    <3>2. refcnt[npinfo] - 1 \in 0..Cardinality(Netpolls)
      BY <1>2, <2>1, <3>1
    <3> QED  BY <2>1, <3>2 DEF IInv, TypeOK
  <2>3. TypeOK'
    BY <1>1, <2>1, <2>2 DEF IInv, TypeOK
  <2>4. SenderInv' /\ RefInv' /\ SenderInfoAlive'
    BY <1>1, <2>1 DEF IInv, SenderInv, RefInv, SenderInfoAlive, TypeOK
  <2>5. UnusedInv' /\ QueuedHasWork'
    BY <1>1, <2>1 DEF IInv, UnusedInv, QueuedHasWork, TypeOK
  <2> QED  BY <1>1, <2>3, <2>4, <2>5, OrderKept DEF IInv
<1> QED  BY <1>3, <1>4

\* A step that changes neither a queue, a worker, a sender nor a netpoll_info.
LEMMA QuietStep ==
    ASSUME IInv, TypeOK',
           UNCHANGED <<active, npinfo, refcnt, life, txq, pending, work, hand, send, info, tries,
                       next>>
    PROVE  IInv'
<1>1. SenderInv' /\ RefInv' /\ SenderInfoAlive'
  BY DEF IInv, SenderInv, RefInv, SenderInfoAlive, SetUp
<1>2. UnusedInv' /\ QueuedHasWork'
  BY DEF IInv, UnusedInv, QueuedHasWork
<1> QED  BY <1>1, <1>2, OrderKept DEF IInv

\* rcu_cleanup_netpoll_info: no sender is left that uses the netpoll_info.
LEMMA RcuStep == ASSUME IInv, NEW i \in Infos, Rcu(i) PROVE IInv'
<1> USE DEF sendVars
<1>1. UNCHANGED <<active, npinfo, refcnt, work, hand, send, info, tries, next, sent, pool,
                  stopped, running>>
  BY DEF Rcu, RcuPurge, RcuCancel, RcuPurgeAgain, RcuFree
<1>2. PICK to \in {"purged", "cancelled", "purged again", "freed"} :
        life' = [life EXCEPT ![i] = to]
  BY DEF Rcu, RcuPurge, RcuCancel, RcuPurgeAgain, RcuFree
<1>3. /\ life[i] \notin {"unused", "live"}
      /\ life[i] = "rcu" => send \in {"idle", "begin"} \/ info # i
  BY DEF Rcu, RcuPurge, RcuCancel, RcuPurgeAgain, RcuFree
<1>4. /\ txq' = txq \/ txq' = [txq EXCEPT ![i] = <<>>]
      /\ pending' = pending \/ pending' = [pending EXCEPT ![i] = FALSE]
      /\ dropped' = dropped \/ dropped' = dropped \cup Messages(txq[i])
  BY DEF Rcu, RcuPurge, RcuCancel, RcuPurgeAgain, RcuFree
<1>5. TypeOK'
  <2>1. txq' \in [Infos -> Seq(1..MaxMsgs)]
    <3>1. txq \in [Infos -> Seq(1..MaxMsgs)]
      BY DEF IInv, TypeOK
    <3>2. <<>> \in Seq(1..MaxMsgs)
      BY EmptyOf
    <3> QED  BY <1>4, <3>1, <3>2
  <2>2. dropped' \subseteq 1..MaxMsgs
    BY <1>4, MessagesOf DEF IInv, TypeOK
  <2>3. pending' \in [Infos -> BOOLEAN] /\ life' \in [Infos -> {"unused", "live", "rcu",
                       "purged", "cancelled", "purged again", "freed"}]
    BY <1>2, <1>4 DEF IInv, TypeOK
  <2> QED  BY <1>1, <2>1, <2>2, <2>3 DEF IInv, TypeOK
<1>6. SenderInv' /\ RefInv'
  BY <1>1 DEF IInv, SenderInv, RefInv, SetUp
<1>7. SenderInfoAlive'
  BY <1>1, <1>2, <1>3 DEF IInv, SenderInfoAlive, SenderInv, TypeOK
<1>8. UnusedInv' /\ QueuedHasWork'
  BY <1>1, <1>2, <1>3, <1>4 DEF IInv, UnusedInv, QueuedHasWork, TypeOK
<1>9. OrderInv'
  <2>1. \A j \in Infos : txq'[j] = txq[j] \/ txq'[j] = <<>>
    BY <1>4 DEF IInv, TypeOK
  <2>2. ASSUME NEW j \in Infos
        PROVE  \A k \in DOMAIN txq'[j] : k \in DOMAIN txq[j] /\ txq'[j][k] = txq[j][k]
    BY <2>1, EmptyOf, ZenonT(60)
  <2>3. Msg' = Msg
    BY <1>1 DEF Msg
  <2> QED  BY <1>1, <2>2, <2>3 DEF IInv, OrderInv
<1> QED  BY <1>5, <1>6, <1>7, <1>8, <1>9 DEF IInv

\* The message in the sender's hands has a number.
LEMMA MsgType ==
    ASSUME IInv
    PROVE  /\ Msg \in 0..MaxMsgs /\ next = Msg + 1 /\ (send # "idle" => Msg \in 1..MaxMsgs)
           /\ MaxMsgs \in Nat /\ Tries \in Nat \ {0}
<1>1. next \in 1..(MaxMsgs + 1) /\ (send # "idle" => next > 1)
  BY DEF IInv, TypeOK, SenderInv
<1> QED  BY <1>1, BoundsAreNat DEF Msg

\* netpoll_send_udp takes the next number; every queued message has an older one.
LEMMA SendUdpStep == ASSUME IInv, SendUdp PROVE IInv'
<1> USE DEF infoVars, sendUnchanged
<1>1. /\ UNCHANGED <<active, npinfo, refcnt, life, work, hand, running, txq, pending, info,
                     tries, sent>>
      /\ send = "idle" /\ next <= MaxMsgs /\ next' = next + 1
  BY DEF SendUdp
<1>2. \/ send' = "begin" /\ dropped' = dropped
      \/ send' = "idle" /\ dropped' = dropped \cup {next}
  BY <1>1, ZenonT(60) DEF SendUdp
<1>3. next \in 1..(MaxMsgs + 1) /\ MaxMsgs \in Nat
  BY BoundsAreNat DEF IInv, TypeOK
<1>4. pool' \in 0..PoolSize
  <2>1. pool' \in Refill \/ pool' = pool \/ \E p \in Refill \ {0} : pool' = p - 1
    BY DEF SendUdp, FindSkb
  <2>2. pool \in 0..PoolSize /\ PoolSize \in Nat
    BY BoundsAreNat DEF IInv, TypeOK
  <2> QED  BY <2>1, <2>2, RefillType DEF IInv
<1>5. stopped' \in BOOLEAN
  BY DEF SendUdp, FindSkb, PollDev, IInv, TypeOK
<1>6. TypeOK'
  <2>1. next' \in 1..(MaxMsgs + 1) /\ next \in 1..MaxMsgs
    BY <1>1, <1>3
  <2>2. dropped \subseteq 1..MaxMsgs
    BY DEF IInv, TypeOK
  <2>3. dropped' \subseteq 1..MaxMsgs
    BY <1>2, <2>1, <2>2, ZenonT(60)
  <2> QED  BY <1>1, <1>2, <1>4, <1>5, <2>1, <2>3 DEF IInv, TypeOK
<1>7. SenderInv' /\ RefInv' /\ SenderInfoAlive'
  BY <1>1, <1>2, <1>3 DEF IInv, SenderInv, RefInv, SenderInfoAlive, SetUp
<1>8. UnusedInv' /\ QueuedHasWork'
  BY <1>1 DEF IInv, UnusedInv, QueuedHasWork
<1>9. OrderInv'
  <2> SUFFICES ASSUME NEW i \in Infos
               PROVE  /\ hand[i] # 0 <=> work[i] = "xmit"
                      /\ \A j, k \in DOMAIN txq[i] : j < k => txq[i][j] < txq[i][k]
                      /\ \A k \in DOMAIN txq[i] : hand[i] < txq[i][k] /\ txq[i][k] <= Msg'
                      /\ hand[i] <= Msg'
                      /\ hand[i] < Msg' /\ \A k \in DOMAIN txq[i] : txq[i][k] < Msg'
    BY <1>1 DEF OrderInv
  <2>1. Msg' = Msg + 1 /\ Msg \in Nat
    BY <1>1, <1>3 DEF Msg
  <2>2. hand[i] \in Nat /\ \A k \in DOMAIN txq[i] : txq[i][k] \in Nat
    <3>1. hand[i] \in 0..MaxMsgs /\ txq[i] \in Seq(1..MaxMsgs)
      BY DEF IInv, TypeOK
    <3> QED  BY <3>1, <1>3
  <2> QED  BY <2>1, <2>2 DEF IInv, OrderInv
<1> QED  BY <1>6, <1>7, <1>8, <1>9 DEF IInv

\* The steps of __netpoll_send_skb that leave the queues alone: the netpoll_info the
\* sender reads is the published one, which is live.
LEMMA SendDirectStep ==
    ASSUME IInv, SendBegin \/ SendLook \/ SendTry \/ SendRetry PROVE IInv'
<1> USE DEF infoVars, sendUnchanged
<1>1. /\ UNCHANGED <<active, npinfo, refcnt, life, work, hand, running, txq, pending, next, pool>>
      /\ send \in {"begin", "look", "try"}
  BY DEF SendBegin, SendLook, SendTry, SendRetry
<1>2. Msg \in 1..MaxMsgs /\ Tries \in Nat \ {0} /\ tries \in 0..Tries
  BY <1>1, MsgType DEF IInv, TypeOK
<1>3. CASE SendBegin
  <2>1. /\ info' = npinfo /\ UNCHANGED <<tries, sent, stopped>>
        /\ \/ send' = "idle" /\ dropped' = dropped \cup {Msg}
           \/ npinfo # NoInfo /\ send' = "look" /\ UNCHANGED dropped
    BY <1>3 DEF SendBegin
  <2>2. TypeOK'
    BY <1>1, <1>2, <2>1 DEF IInv, TypeOK
  <2>3. SenderInv' /\ RefInv' /\ SenderInfoAlive'
    BY <1>1, <2>1 DEF IInv, TypeOK, SenderInv, RefInv, SenderInfoAlive, SetUp
  <2>4. UnusedInv' /\ QueuedHasWork'
    BY <1>1 DEF IInv, UnusedInv, QueuedHasWork
  <2>5. OrderInv'
    BY <1>1, <2>1 DEF IInv, OrderInv, Msg
  <2> QED  BY <2>2, <2>3, <2>4, <2>5 DEF IInv
<1>4. CASE SendLook \/ SendTry \/ SendRetry
  <2>1. /\ info' = info /\ UNCHANGED dropped /\ send \in {"look", "try"}
        /\ send' \in {"idle", "try", "queue"}
        /\ sent' = sent \/ sent' = Append(sent, Msg)
    BY <1>4 DEF SendLook, SendTry, SendRetry
  <2>2. stopped' \in BOOLEAN
    BY <1>4 DEF SendLook, SendTry, SendRetry, PollDev, IInv, TypeOK
  <2>3. tries' \in 0..Tries /\ (send' = "try" => tries' > 0)
    <3>1. CASE SendLook \/ SendTry
      BY <1>2, <3>1 DEF SendLook, SendTry
    <3>2. CASE SendRetry
      BY <1>2, <3>2 DEF SendRetry, IInv, SenderInv
    <3> QED  BY <1>4, <3>1, <3>2
  <2>4. sent' \in Seq(1..MaxMsgs)
    <3>1. sent \in Seq(1..MaxMsgs)
      BY DEF IInv, TypeOK
    <3>2. Append(sent, Msg) \in Seq(1..MaxMsgs)
      BY <3>1, <1>2, AppendOf
    <3> QED  BY <3>1, <3>2, <2>1, ZenonT(60)
  <2>5. TypeOK'
    BY <1>1, <2>1, <2>2, <2>3, <2>4 DEF IInv, TypeOK
  <2>6. SenderInv' /\ RefInv' /\ SenderInfoAlive'
    BY <1>1, <2>1, <2>3 DEF IInv, SenderInv, RefInv, SenderInfoAlive, SetUp
  <2>7. UnusedInv' /\ QueuedHasWork'
    BY <1>1, <2>1 DEF IInv, UnusedInv, QueuedHasWork
  <2>8. OrderInv'
    BY <1>1, <2>1 DEF IInv, OrderInv, Msg
  <2> QED  BY <2>5, <2>6, <2>7, <2>8 DEF IInv
<1> QED  BY <1>3, <1>4

\* skb_queue_tail of the newest message, and the schedule that follows.
LEMMA SendQueueStep == ASSUME IInv, SendQueue \/ SendSchedule PROVE IInv'
<1> USE DEF infoVars, sendUnchanged
<1>1. /\ UNCHANGED <<active, npinfo, refcnt, life, work, hand, running, info, tries, next, sent,
                     dropped, pool, stopped>>
      /\ send \in {"queue", "sched"} /\ info \in Infos /\ life[info] \in {"live", "rcu"}
  BY DEF SendQueue, SendSchedule, IInv, SenderInv, SenderInfoAlive
<1>2. Msg \in 1..MaxMsgs /\ Msg' = Msg
  BY <1>1, MsgType DEF Msg
<1>3. txq[info] \in Seq(1..MaxMsgs)
  BY <1>1 DEF IInv, TypeOK
<1>4. CASE SendQueue
  <2> DEFINE q == Append(txq[info], Msg)
  <2>1. txq' = [txq EXCEPT ![info] = q] /\ send = "queue" /\ send' = "sched" /\ UNCHANGED pending
    BY <1>4 DEF SendQueue
  <2>2. /\ q \in Seq(1..MaxMsgs)
        /\ \A k \in DOMAIN q : \/ k \in DOMAIN txq[info] /\ q[k] = txq[info][k]
                               \/ k = Len(txq[info]) + 1 /\ q[k] = Msg
    BY <1>2, <1>3, AppendOf
  <2> HIDE DEF q
  <2>3. \A j \in Infos : txq'[j] = IF j = info THEN q ELSE txq[j]
    BY <2>1 DEF IInv, TypeOK
  <2>4. TypeOK'
    BY <1>1, <2>1, <2>2 DEF IInv, TypeOK
  <2>5. SenderInv' /\ RefInv' /\ SenderInfoAlive'
    BY <1>1, <2>1, ZenonT(60) DEF IInv, SenderInv, RefInv, SenderInfoAlive, SetUp
  <2>6. UnusedInv' /\ QueuedHasWork'
    BY <1>1, <2>1, <2>3 DEF IInv, UnusedInv, QueuedHasWork
  <2>7. OrderInv'
    <3>1. ASSUME NEW i \in Infos, i # info
          PROVE  /\ hand'[i] # 0 <=> work'[i] = "xmit"
                 /\ \A j, k \in DOMAIN txq'[i] : j < k => txq'[i][j] < txq'[i][k]
                 /\ \A k \in DOMAIN txq'[i] : hand'[i] < txq'[i][k] /\ txq'[i][k] <= Msg
                 /\ hand'[i] <= Msg
      BY <3>1, <1>1, <2>3 DEF IInv, OrderInv
    <3>2. /\ hand'[info] # 0 <=> work'[info] = "xmit"
          /\ \A j, k \in DOMAIN q : j < k => q[j] < q[k]
          /\ \A k \in DOMAIN q : hand'[info] < q[k] /\ q[k] <= Msg
          /\ hand'[info] <= Msg
      <4>1. /\ hand[info] # 0 <=> work[info] = "xmit"
            /\ \A j, k \in DOMAIN txq[info] : j < k => txq[info][j] < txq[info][k]
            /\ \A k \in DOMAIN txq[info] : hand[info] < txq[info][k] /\ txq[info][k] <= Msg
            /\ hand[info] <= Msg
            /\ hand[info] < Msg /\ \A k \in DOMAIN txq[info] : txq[info][k] < Msg
        BY <1>1, <2>1 DEF IInv, OrderInv
      <4>2. DOMAIN txq[info] = 1..Len(txq[info]) /\ Len(txq[info]) \in Nat
        BY <1>3
      <4>3. \A k \in DOMAIN q : hand[info] < q[k] /\ q[k] <= Msg
        BY <4>1, <2>2, <1>2
      <4>4. ASSUME NEW j \in DOMAIN q, NEW k \in DOMAIN q, j < k PROVE q[j] < q[k]
        <5>1. j \in DOMAIN txq[info] /\ q[j] = txq[info][j]
          BY <2>2, <4>2, <4>4
        <5> QED  BY <2>2, <4>1, <4>4, <5>1
      <4> QED  BY <1>1, <4>1, <4>3, <4>4
    <3> QED  BY <3>1, <3>2, <2>1, <2>3, <1>1, <1>2 DEF OrderInv
  <2> QED  BY <2>4, <2>5, <2>6, <2>7 DEF IInv
<1>5. CASE SendSchedule
  <2>1. /\ pending' = [pending EXCEPT ![info] = TRUE] /\ send = "sched" /\ send' = "idle"
        /\ UNCHANGED txq
    BY <1>5 DEF SendSchedule
  <2>2. TypeOK'
    BY <1>1, <2>1 DEF IInv, TypeOK
  <2>3. SenderInv' /\ RefInv' /\ SenderInfoAlive'
    BY <1>1, <2>1 DEF IInv, SenderInv, RefInv, SenderInfoAlive, SetUp
  <2>4. UnusedInv' /\ QueuedHasWork'
    BY <1>1, <2>1 DEF IInv, UnusedInv, QueuedHasWork, TypeOK
  <2>5. OrderInv'
    BY <1>1, <1>2, <2>1 DEF IInv, OrderInv
  <2> QED  BY <2>2, <2>3, <2>4, <2>5 DEF IInv
<1> QED  BY <1>4, <1>5

\* queue_process takes the oldest message, and puts it back in front of the others.
LEMMA WorkStep == ASSUME IInv, NEW i \in Infos, Work(i) PROVE IInv'
<1> USE DEF infoVars, sendVars, workUnchanged
<1>1. UNCHANGED <<active, npinfo, refcnt, life, info, send, tries, next, pool, running>> /\ Msg' = Msg
  BY DEF Work, WorkStart, WorkDequeue, WorkXmit, WorkRequeue, WorkSchedule, Msg
<1>2. SenderInv' /\ RefInv' /\ SenderInfoAlive'
  BY <1>1 DEF IInv, SenderInv, RefInv, SenderInfoAlive, SetUp
<1>3. /\ txq[i] \in Seq(1..MaxMsgs) /\ hand[i] \in 0..MaxMsgs /\ Msg \in 0..MaxMsgs
      /\ sent \in Seq(1..MaxMsgs) /\ MaxMsgs \in Nat
  BY MsgType DEF IInv, TypeOK
<1>4. /\ hand[i] # 0 <=> work[i] = "xmit"
      /\ \A j, k \in DOMAIN txq[i] : j < k => txq[i][j] < txq[i][k]
      /\ \A k \in DOMAIN txq[i] : hand[i] < txq[i][k] /\ txq[i][k] <= Msg
      /\ hand[i] <= Msg
      /\ send \in {"begin", "look", "try", "queue"} =>
           hand[i] < Msg /\ \A k \in DOMAIN txq[i] : txq[i][k] < Msg
  BY DEF IInv, OrderInv
<1>5. work[i] = "idle" => pending[i]
  BY DEF Work, WorkStart, WorkDequeue, WorkXmit, WorkRequeue, WorkSchedule
<1>6. life[i] # "unused"
  BY <1>5 DEF Work, WorkStart, WorkDequeue, WorkXmit, WorkRequeue, WorkSchedule, IInv, UnusedInv
<1>7. CASE WorkStart(i) \/ WorkSchedule(i)
  <2>1. /\ UNCHANGED <<txq, hand, sent, dropped, stopped>>
        /\ \E b \in BOOLEAN : pending' = [pending EXCEPT ![i] = b]
        /\ \E w \in {"idle", "dequeue"} : work' = [work EXCEPT ![i] = w]
        /\ work[i] # "xmit"
    BY <1>7, ZenonT(60) DEF WorkStart, WorkSchedule
  <2>2. TypeOK'
    BY <1>1, <2>1 DEF IInv, TypeOK
  <2>3. UnusedInv' /\ QueuedHasWork'
    BY <1>1, <1>6, <1>7, <2>1 DEF WorkStart, WorkSchedule, IInv, UnusedInv, QueuedHasWork, TypeOK
  <2>4. OrderInv'
    BY <1>1, <2>1 DEF IInv, OrderInv, TypeOK
  <2> QED  BY <1>2, <2>2, <2>3, <2>4 DEF IInv
<1>8. CASE WorkDequeue(i)
  <2>1. CASE txq[i] = <<>>
    <3>1. /\ UNCHANGED <<txq, hand, sent, dropped, stopped, pending>>
          /\ work' = [work EXCEPT ![i] = "idle"] /\ work[i] = "dequeue"
      BY <1>8, <2>1 DEF WorkDequeue
    <3>2. TypeOK'
      BY <1>1, <3>1 DEF IInv, TypeOK
    <3>3. UnusedInv' /\ QueuedHasWork'
      BY <1>1, <1>6, <2>1, <3>1 DEF IInv, UnusedInv, QueuedHasWork, TypeOK
    <3>4. OrderInv'
      BY <1>1, <3>1 DEF IInv, OrderInv, TypeOK
    <3> QED  BY <1>2, <3>2, <3>3, <3>4 DEF IInv
  <2>2. CASE txq[i] # <<>>
    <3> DEFINE q == Tail(txq[i])
               m == Head(txq[i])
    <3>1. /\ txq' = [txq EXCEPT ![i] = q] /\ UNCHANGED <<sent, stopped, pending>>
          /\ work[i] = "dequeue"
          /\ \/ /\ hand' = [hand EXCEPT ![i] = m] /\ work' = [work EXCEPT ![i] = "xmit"]
                /\ UNCHANGED dropped
             \/ dropped' = dropped \cup {m} /\ UNCHANGED <<work, hand>>
      BY <1>8, <2>2 DEF WorkDequeue
    <3>2. /\ m \in 1..MaxMsgs /\ m = txq[i][1] /\ 1 \in DOMAIN txq[i]
          /\ q \in Seq(1..MaxMsgs)
          /\ \A k \in DOMAIN q : k \in Nat /\ k + 1 \in DOMAIN txq[i] /\ q[k] = txq[i][k + 1]
      BY <1>3, <2>2, TailOf, ZenonT(60)
    <3>3. \A k \in DOMAIN q : k >= 1
      BY <3>2
    <3> HIDE DEF q, m
    <3>4. hand[i] = 0
      BY <1>4, <3>1
    <3>5. /\ \A j, k \in DOMAIN q : j < k => q[j] < q[k]
          /\ \A k \in DOMAIN q : hand[i] < q[k] /\ q[k] <= Msg /\ m < q[k]
          /\ m <= Msg
          /\ send \in {"begin", "look", "try", "queue"} =>
               m < Msg /\ hand[i] < Msg /\ \A k \in DOMAIN q : q[k] < Msg
      <4>1. ASSUME NEW j \in DOMAIN q, NEW k \in DOMAIN q, j < k PROVE q[j] < q[k]
        BY <1>4, <3>2, <4>1
      <4>2. ASSUME NEW k \in DOMAIN q PROVE hand[i] < q[k] /\ q[k] <= Msg /\ m < q[k]
        <5>1. 1 < k + 1 /\ k + 1 \in DOMAIN txq[i] /\ q[k] = txq[i][k + 1]
          BY <3>2, <3>3
        <5> QED  BY <1>4, <3>2, <5>1
      <4> QED  BY <1>4, <3>2, <4>1, <4>2
    <3>6. TypeOK'
      <4>1. txq' \in [Infos -> Seq(1..MaxMsgs)]
        BY <3>1, <3>2 DEF IInv, TypeOK
      <4>2. hand' \in [Infos -> 0..MaxMsgs]
        <5>1. m \in 0..MaxMsgs
          BY <3>2, <1>3
        <5> QED  BY <3>1, <5>1 DEF IInv, TypeOK
      <4>3. dropped' \subseteq 1..MaxMsgs
        BY <3>1, <3>2 DEF IInv, TypeOK
      <4>4. work' \in [Infos -> {"idle", "dequeue", "xmit", "sched"}]
        BY <3>1 DEF IInv, TypeOK
      <4> QED  BY <1>1, <3>1, <4>1, <4>2, <4>3, <4>4 DEF IInv, TypeOK
    <3>7. /\ \A j \in Infos : j # i => txq'[j] = txq[j] /\ work'[j] = work[j] /\ hand'[j] = hand[j]
          /\ txq'[i] = q
          /\ \/ hand'[i] = m /\ work'[i] = "xmit"
             \/ hand'[i] = hand[i] /\ work'[i] = "dequeue"
      BY <3>1 DEF IInv, TypeOK
    <3>8. UnusedInv' /\ QueuedHasWork'
      BY <1>1, <1>6, <3>1, <3>7, SMTT(60) DEF IInv, UnusedInv, QueuedHasWork
    <3>9. OrderInv'
      <4>1. hand'[i] # 0 <=> work'[i] = "xmit"
        BY <3>2, <3>4, <3>7
      <4>2. /\ \A j, k \in DOMAIN txq'[i] : j < k => txq'[i][j] < txq'[i][k]
            /\ \A k \in DOMAIN txq'[i] : hand'[i] < txq'[i][k] /\ txq'[i][k] <= Msg
            /\ hand'[i] <= Msg
            /\ send \in {"begin", "look", "try", "queue"} =>
                 hand'[i] < Msg /\ \A k \in DOMAIN txq'[i] : txq'[i][k] < Msg
        BY <1>4, <3>5, <3>7
      <4> QED  BY <1>1, <3>7, <4>1, <4>2, ZenonT(60) DEF IInv, OrderInv
    <3> QED  BY <1>2, <3>6, <3>8, <3>9 DEF IInv
  <2> QED  BY <2>1, <2>2
<1>9. CASE WorkXmit(i)
  <2>1. /\ UNCHANGED <<txq, pending, dropped>> /\ sent' = Append(sent, hand[i])
        /\ hand' = [hand EXCEPT ![i] = 0] /\ stopped' \in BOOLEAN
        /\ work' = [work EXCEPT ![i] = "dequeue"] /\ work[i] = "xmit"
    BY <1>9 DEF WorkXmit
  <2>2. TypeOK'
    <3>1. hand[i] \in 1..MaxMsgs
      <4>1. hand[i] # 0
        BY <1>4, <2>1
      <4>2. hand[i] \in 0..MaxMsgs /\ MaxMsgs \in Nat
        BY <1>3
      <4> QED  BY <4>1, <4>2
    <3>2. sent' \in Seq(1..MaxMsgs)
      BY <1>3, <2>1, <3>1, AppendOf
    <3>3. hand' \in [Infos -> 0..MaxMsgs]
      <4>1. 0 \in 0..MaxMsgs
        BY <1>3
      <4> QED  BY <4>1, <2>1 DEF IInv, TypeOK
    <3> QED  BY <1>1, <2>1, <3>2, <3>3 DEF IInv, TypeOK
  <2>3. UnusedInv' /\ QueuedHasWork'
    BY <1>1, <1>6, <2>1 DEF IInv, UnusedInv, QueuedHasWork, TypeOK
  <2>4. OrderInv'
    <3>1. /\ \A j \in Infos : j # i => work'[j] = work[j] /\ hand'[j] = hand[j]
          /\ hand'[i] = 0 /\ work'[i] = "dequeue"
      BY <2>1 DEF IInv, TypeOK
    <3>2. \A k \in DOMAIN txq[i] : txq[i][k] \in 1..MaxMsgs
      BY <1>3
    <3>3. /\ \A k \in DOMAIN txq[i] : 0 < txq[i][k]
          /\ 0 <= Msg /\ (send \in {"begin", "look", "try", "queue"} => 0 < Msg)
      BY <1>3, <1>4, <3>2
    <3> QED  BY <1>1, <1>4, <2>1, <3>1, <3>3 DEF IInv, OrderInv
  <2> QED  BY <1>2, <2>2, <2>3, <2>4 DEF IInv
<1>10. CASE WorkRequeue(i)
  <2> DEFINE q == <<hand[i]>> \o txq[i]
  <2>1. /\ UNCHANGED <<pending, sent, dropped, stopped>> /\ txq' = [txq EXCEPT ![i] = q]
        /\ hand' = [hand EXCEPT ![i] = 0]
        /\ work' = [work EXCEPT ![i] = "sched"] /\ work[i] = "xmit"
    BY <1>10 DEF WorkRequeue
  <2>2. hand[i] \in 1..MaxMsgs
    BY <1>3, <1>4, <2>1
  <2>3. /\ q \in Seq(1..MaxMsgs)
        /\ \A k \in DOMAIN q : \/ k = 1 /\ q[k] = hand[i]
                               \/ k \in Nat /\ k - 1 \in DOMAIN txq[i] /\ q[k] = txq[i][k - 1]
    BY <1>3, <2>2, PutBackOf
  <2> HIDE DEF q
  <2>4. TypeOK'
    <3>1. hand' \in [Infos -> 0..MaxMsgs]
      <4>1. 0 \in 0..MaxMsgs
        BY <1>3
      <4> QED  BY <4>1, <2>1 DEF IInv, TypeOK
    <3> QED  BY <1>1, <2>1, <2>3, <3>1 DEF IInv, TypeOK
  <2>5. /\ \A j \in Infos : j # i => txq'[j] = txq[j] /\ work'[j] = work[j] /\ hand'[j] = hand[j]
        /\ hand'[i] = 0 /\ work'[i] = "sched" /\ txq'[i] = q
    BY <2>1 DEF IInv, TypeOK
  <2>6. UnusedInv' /\ QueuedHasWork'
    BY <1>1, <1>6, <2>1, <2>5, SMTT(60) DEF IInv, UnusedInv, QueuedHasWork
  <2>7. OrderInv'
    <3>1. \A k \in DOMAIN q : k \in Nat /\ k >= 1 /\ q[k] \in 1..MaxMsgs
      <4>1. DOMAIN q = 1..Len(q) /\ Len(q) \in Nat
        BY <2>3
      <4>2. \A k \in DOMAIN q : q[k] \in 1..MaxMsgs
        BY <2>3, ElementOf, ZenonT(60)
      <4> QED  BY <4>1, <4>2
    <3>2. ASSUME NEW k \in DOMAIN q
          PROVE  q[k] <= Msg /\ (send \in {"begin", "look", "try", "queue"} => q[k] < Msg)
      BY <1>4, <2>3
    <3>3. ASSUME NEW j \in DOMAIN q, NEW k \in DOMAIN q, j < k PROVE q[j] < q[k]
      <4>1. k # 1 /\ k - 1 \in DOMAIN txq[i] /\ q[k] = txq[i][k - 1]
        BY <2>3, <3>1, <3>3
      <4>2. CASE j = 1 /\ q[j] = hand[i]
        BY <1>4, <4>1, <4>2
      <4>3. CASE j - 1 \in DOMAIN txq[i] /\ q[j] = txq[i][j - 1]
        <5>1. j - 1 < k - 1
          BY <3>1, <3>3
        <5> QED  BY <1>4, <4>1, <4>3, <5>1
      <4> QED  BY <2>3, <4>2, <4>3
    <3>4. 0 <= Msg /\ (send \in {"begin", "look", "try", "queue"} => 0 < Msg)
      BY <1>3, <1>4, <2>2
    <3>5. \A k \in DOMAIN q : 0 < q[k]
      BY <3>1
    <3> QED  BY <1>1, <2>5, <3>2, <3>3, <3>4, <3>5 DEF IInv, OrderInv
  <2> QED  BY <1>2, <2>4, <2>6, <2>7 DEF IInv
<1> QED  BY <1>7, <1>8, <1>9, <1>10 DEF Work

LEMMA InvStep == IInv /\ [Next]_vars => IInv'
<1> SUFFICES ASSUME IInv, [Next]_vars PROVE IInv'
  OBVIOUS
<1> USE DEF infoVars, workVars, sendVars
<1>1. ASSUME NEW n \in Netpolls, SetupFails(n) PROVE IInv'
  <2>1. pool' \in 0..PoolSize
    BY <1>1, RefillType DEF SetupFails, IInv
  <2>2. running' \in BOOLEAN
    BY <1>1 DEF SetupFails, IInv, TypeOK
  <2>3. TypeOK'
    BY <1>1, <2>1, <2>2 DEF SetupFails, IInv, TypeOK
  <2> QED  BY <1>1, <2>3, QuietStep DEF SetupFails
<1>2. CASE TxDone \/ IfUpDown
  <2>1. TypeOK'
    <3>1. stopped' \in BOOLEAN /\ running' \in BOOLEAN
      BY <1>2, ZenonT(60) DEF TxDone, IfUpDown, IInv, TypeOK
    <3> QED  BY <1>2, <3>1 DEF TxDone, IfUpDown, IInv, TypeOK
  <2> QED  BY <1>2, <2>1, QuietStep DEF TxDone, IfUpDown
<1>3. CASE UNCHANGED vars
  <2>1. TypeOK'
    BY <1>3 DEF vars, IInv, TypeOK
  <2> QED  BY <1>3, <2>1, QuietStep DEF vars
<1>4. CASE Send
  BY <1>4, SendDirectStep, SendQueueStep DEF Send
<1> QED
  BY <1>1, <1>2, <1>3, <1>4, SetupStep, CleanupStep, SendUdpStep, RcuStep, WorkStep DEF Next

\* The inductive invariant of netpoll, for any netpolls, netpoll_infos and messages.
THEOREM NetpollInvariant == Spec => []IInv
  BY InvInit, InvStep, PTL DEF Spec

\* Type correctness; in particular refcnt counts no more users than there are netpolls.
THEOREM NetpollTypes == Spec => []TypeOK
<1>1. IInv => TypeOK
  BY DEF IInv
<1> QED  BY <1>1, NetpollInvariant, PTL

\* The netpoll_info a sender has read is not freed under it: netpoll_cleanup clears
\* dev->npinfo and leaves the freeing to call_rcu, which waits for the sender.
THEOREM SendersInfoIsAlive == Spec => []SenderInfoAlive
<1>1. IInv => SenderInfoAlive
  BY DEF IInv
<1> QED  BY <1>1, NetpollInvariant, PTL

\* A queued message has a work to take it, or a sender about to schedule one: neither
\* queue_process nor __netpoll_send_skb leaves a message behind.
THEOREM QueuesHaveWork == Spec => []QueuedHasWork
<1>1. IInv => QueuedHasWork
  BY DEF IInv
<1> QED  BY <1>1, NetpollInvariant, PTL

\* queue_process never sends past a message that waits: what skb_queue_head puts back
\* is again older than all that was queued behind it meanwhile.
THEOREM WorkersKeepOrder == Spec => WorkerInOrder
<1>1. ASSUME IInv, NEW i \in Infos, NEW m \in 1..MaxMsgs, hand[i] = m,
             NEW o \in 1..(m - 1)
      PROVE  ~Waits(i, o)
  <2>1. o # hand[i] /\ o < hand[i]
    BY <1>1, BoundsAreNat
  <2>2. \A k \in DOMAIN txq[i] : hand[i] < txq[i][k] /\ txq[i][k] \in 1..MaxMsgs
    BY <1>1, ElementOf DEF IInv, OrderInv, TypeOK
  <2> QED  BY <2>1, <2>2, <1>1, BoundsAreNat DEF Waits, Messages
<1>2. IInv => [\A i \in Infos, m \in 1..MaxMsgs :
                 hand[i] = m /\ sent' = Append(sent, m)
                   => \A o \in 1..(m - 1) : ~Waits(i, o)]_vars
  BY <1>1
<1> QED  BY <1>2, NetpollInvariant, PTL DEF WorkerInOrder
-----------------------------------------------------------------------------
(***************************************************************************)
(* Where a message is.  Every accepted message is with the sender, waits   *)
(* with one netpoll_info, or is settled: sent or dropped.                  *)
(***************************************************************************)
Sending == send \in {"begin", "look", "try", "queue"}
Settled == Messages(sent) \cup dropped
Held(m) == (Sending /\ m = Msg) \/ \E i \in Infos : Waits(i, m)

PlaceInv ==
    /\ \A m \in 1..Msg : Held(m) \/ m \in Settled
    /\ \A m \in Settled : m \in 1..Msg /\ ~Held(m)
    /\ \A m \in 1..Msg : \A i, j \in Infos : Waits(i, m) /\ Waits(j, m) => i = j
    /\ Messages(sent) \cap dropped = {}
    /\ \A j, k \in DOMAIN sent : sent[j] = sent[k] => j = k

\* In a queue that is in order, the message at position k is not among the first
\* k - 1, nor among the first k while the worker holds an older one.
RoomInv ==
    \A i \in Infos : \A k \in DOMAIN txq[i] :
        txq[i][k] >= IF hand[i] = 0 THEN k ELSE k + 1

(***************************************************************************)
(* What a step does to the places.  A message is accepted, goes from the   *)
(* sender to a queue, is delivered, or some messages are dropped (none, in *)
(* the steps that move no message).                                        *)
(***************************************************************************)
Leave(S) ==
    \A m \in 1..Msg :
        /\ (Sending' /\ m = Msg) <=> (Sending /\ m = Msg /\ m \notin S)
        /\ \A i \in Infos : Waits(i, m)' <=> (Waits(i, m) /\ m \notin S)

DropStep(S) ==
    /\ \A m \in S : m \in 1..Msg /\ Held(m)
    /\ dropped' = dropped \cup S /\ UNCHANGED <<sent, next>>
    /\ Leave(S)

DeliverStep(m) ==
    /\ m \in 1..Msg /\ Held(m)
    /\ sent' = Append(sent, m) /\ UNCHANGED <<dropped, next>>
    /\ Leave({m})

QueueStep ==
    /\ Sending /\ ~Sending' /\ UNCHANGED <<sent, dropped, next>>
    /\ info \in Infos
    /\ \A m \in 1..Msg : \A i \in Infos :
         Waits(i, m)' <=> (Waits(i, m) \/ (i = info /\ m = Msg))

AcceptStep ==
    /\ ~Sending /\ next' = next + 1 /\ UNCHANGED <<sent, txq, hand>>
    /\ \/ Sending' /\ UNCHANGED dropped
       \/ ~Sending' /\ dropped' = dropped \cup {next}

PlaceStep ==
    (\E S : DropStep(S)) \/ (\E m \in 1..Msg : DeliverStep(m)) \/ QueueStep \/ AcceptStep
-----------------------------------------------------------------------------
LEMMA MessagesOfEmpty == Messages(<<>>) = {}
  BY EmptyOf DEF Messages

LEMMA MessagesOfAppend ==
    ASSUME NEW q \in Seq(1..MaxMsgs), NEW m \in 1..MaxMsgs
    PROVE  Messages(Append(q, m)) = Messages(q) \cup {m}
<1>1. /\ \A k \in DOMAIN q : k \in DOMAIN Append(q, m) /\ Append(q, m)[k] = q[k]
      /\ Len(q) + 1 \in DOMAIN Append(q, m) /\ Append(q, m)[Len(q) + 1] = m
  OBVIOUS
<1> QED  BY <1>1, AppendOf DEF Messages

LEMMA MessagesOfTail ==
    ASSUME NEW q \in Seq(1..MaxMsgs), q # <<>>
    PROVE  Messages(q) = Messages(Tail(q)) \cup {Head(q)}
<1> DEFINE t == Tail(q)
           h == Head(q)
<1>1. \A k \in DOMAIN q : k = 1 \/ (k - 1 \in DOMAIN t /\ t[k - 1] = q[k])
  OBVIOUS
<1>2. /\ h = q[1] /\ 1 \in DOMAIN q
      /\ \A k \in DOMAIN t : k + 1 \in DOMAIN q /\ t[k] = q[k + 1]
  BY TailOf
<1> HIDE DEF t, h
<1>3. \A x \in Messages(q) : x \in Messages(t) \cup {h}
  BY <1>1, <1>2 DEF Messages
<1>4. \A x \in Messages(t) \cup {h} : x \in Messages(q)
  BY <1>2 DEF Messages
<1>5. Messages(q) = Messages(t) \cup {h}
  BY <1>3, <1>4
<1> QED  BY <1>5 DEF t, h

LEMMA MessagesOfPutBack ==
    ASSUME NEW q \in Seq(1..MaxMsgs), NEW m \in 1..MaxMsgs
    PROVE  Messages(<<m>> \o q) = {m} \cup Messages(q)
<1> DEFINE p == <<m>> \o q
<1>1. /\ \A k \in DOMAIN q : k + 1 \in DOMAIN p /\ p[k + 1] = q[k]
      /\ 1 \in DOMAIN p /\ p[1] = m
  OBVIOUS
<1>2. \A k \in DOMAIN p : p[k] = m \/ (k - 1 \in DOMAIN q /\ p[k] = q[k - 1])
  BY PutBackOf
<1> HIDE DEF p
<1>3. \A x \in Messages(p) : x \in {m} \cup Messages(q)
  BY <1>2 DEF Messages
<1>4. \A x \in {m} \cup Messages(q) : x \in Messages(p)
  BY <1>1 DEF Messages
<1>5. Messages(p) = {m} \cup Messages(q)
  BY <1>3, <1>4, ZenonT(60)
<1> QED  BY <1>5 DEF p

\* No queue and no worker has a message that is still to come, nor the sender's.
LEMMA NextIsNew == ASSUME IInv, NEW i \in Infos PROVE ~Waits(i, next)
<1>1. next = Msg + 1 /\ Msg \in Nat
  BY MsgType
<1>2. hand[i] <= Msg /\ \A k \in DOMAIN txq[i] : txq[i][k] <= Msg
  BY DEF IInv, OrderInv
<1> QED  BY <1>1, <1>2 DEF Waits, Messages

LEMMA NewestIsNew == ASSUME IInv, Sending, NEW i \in Infos PROVE ~Waits(i, Msg)
<1>1. Msg \in Nat
  BY MsgType
<1>2. hand[i] < Msg /\ \A k \in DOMAIN txq[i] : txq[i][k] < Msg
  BY DEF IInv, OrderInv, Sending
<1> QED  BY <1>1, <1>2 DEF Waits, Messages
-----------------------------------------------------------------------------
\* Whichever of the four a step is, every message stays in one place.
LEMMA PlaceKept == ASSUME IInv, PlaceInv, PlaceStep PROVE PlaceInv'
<1>1. next \in Nat /\ Msg \in Nat /\ next = Msg + 1 /\ sent \in Seq(1..MaxMsgs)
  <2>1. Msg \in Nat /\ next = Msg + 1
    BY MsgType
  <2>2. sent \in Seq(1..MaxMsgs)
    BY DEF IInv, TypeOK
  <2> QED  BY <2>1, <2>2
<1>2. /\ \A m \in 1..Msg : Held(m) \/ m \in Settled
      /\ \A m \in Settled : m \in 1..Msg /\ ~Held(m)
      /\ \A m \in 1..Msg : \A i, j \in Infos : Waits(i, m) /\ Waits(j, m) => i = j
      /\ Messages(sent) \cap dropped = {}
      /\ \A j, k \in DOMAIN sent : sent[j] = sent[k] => j = k
  BY DEF PlaceInv
<1>3. ASSUME NEW S, DropStep(S) PROVE PlaceInv'
  <2>1. /\ \A m \in S : m \in 1..Msg /\ Held(m)
        /\ dropped' = dropped \cup S /\ sent' = sent /\ Msg' = Msg
        /\ Leave(S)
    BY <1>3 DEF DropStep, Msg
  <2>2. \A m \in 1..Msg : Held(m)' <=> (Held(m) /\ m \notin S)
    BY <2>1 DEF Leave, Held
  <2>3. Settled' = Settled \cup S
    BY <2>1 DEF Settled
  <2>4. Messages(sent)' \cap dropped' = {}
    BY <1>2, <2>1 DEF Settled
  <2>5. \A m \in 1..Msg : \A i, j \in Infos : Waits(i, m)' /\ Waits(j, m)' => i = j
    BY <1>2, <2>1 DEF Leave
  <2> QED  BY <1>2, <2>1, <2>2, <2>3, <2>4, <2>5 DEF PlaceInv
<1>4. ASSUME NEW d \in 1..Msg, DeliverStep(d) PROVE PlaceInv'
  <2>1. /\ Held(d) /\ sent' = Append(sent, d) /\ dropped' = dropped /\ Msg' = Msg
        /\ Leave({d})
    BY <1>4 DEF DeliverStep, Msg
  <2>2. \A m \in 1..Msg : Held(m)' <=> (Held(m) /\ m # d)
    BY <2>1 DEF Leave, Held
  <2>3. d \in 1..MaxMsgs
    BY <1>1, MsgType
  <2>4. Messages(sent)' = Messages(sent) \cup {d}
    <3>1. Messages(Append(sent, d)) = Messages(sent) \cup {d}
      BY <1>1, <2>3, MessagesOfAppend
    <3> QED  BY <2>1, <3>1
  <2>5. Settled' = Settled \cup {d}
    BY <2>1, <2>4 DEF Settled
  <2>6. d \notin Settled
    BY <1>2, <2>1
  <2>7. Messages(sent)' \cap dropped' = {}
    BY <1>2, <2>1, <2>4, <2>6 DEF Settled
  <2>8. \A j, k \in DOMAIN sent' : sent'[j] = sent'[k] => j = k
    <3>1. \A k \in DOMAIN sent : sent[k] # d
      BY <2>6 DEF Settled, Messages
    <3>2. \A k \in DOMAIN sent' : \/ k \in DOMAIN sent /\ sent'[k] = sent[k]
                                  \/ k = Len(sent) + 1 /\ sent'[k] = d
      BY <1>1, <2>1, <2>3, AppendOf
    <3> QED  BY <1>2, <3>1, <3>2
  <2>9. \A m \in 1..Msg : \A i, j \in Infos : Waits(i, m)' /\ Waits(j, m)' => i = j
    BY <1>2, <2>1 DEF Leave
  <2> QED  BY <1>2, <2>1, <2>2, <2>5, <2>7, <2>8, <2>9 DEF PlaceInv
<1>5. CASE QueueStep
  <2>1. /\ Sending /\ ~Sending' /\ sent' = sent /\ dropped' = dropped /\ Msg' = Msg
        /\ info \in Infos
        /\ \A m \in 1..Msg : \A i \in Infos :
             Waits(i, m)' <=> (Waits(i, m) \/ (i = info /\ m = Msg))
    BY <1>5 DEF QueueStep, Msg
  <2>2. \A m \in 1..Msg : Held(m)' <=> Held(m)
    BY <2>1 DEF Held
  <2>3. Settled' = Settled /\ Messages(sent)' = Messages(sent)
    BY <2>1 DEF Settled
  <2>4. \A i \in Infos : ~Waits(i, Msg)
    BY <1>1, <2>1, NewestIsNew
  <2>5. \A m \in 1..Msg : \A i, j \in Infos : Waits(i, m)' /\ Waits(j, m)' => i = j
    BY <1>2, <2>1, <2>4
  <2> QED  BY <1>2, <2>1, <2>2, <2>3, <2>5 DEF PlaceInv
<1>6. CASE AcceptStep
  <2>0. PICK n \in Nat : n = next
    BY <1>1
  <2>1. /\ ~Sending /\ Msg' = Msg + 1 /\ Msg' = n /\ sent' = sent /\ txq' = txq /\ hand' = hand
        /\ \/ Sending' /\ dropped' = dropped
           \/ ~Sending' /\ dropped' = dropped \cup {n}
    BY <1>1, <1>6, <2>0 DEF AcceptStep, Msg
  <2>2. \A i \in Infos : \A m : Waits(i, m)' <=> Waits(i, m)
    BY <2>1 DEF Waits
  <2>3. \A i \in Infos : ~Waits(i, n)
    BY <2>0, NextIsNew
  <2>4. \A m \in 1..Msg : m # n
    BY <1>1, <2>0
  <2>5. \A m \in 1..Msg' : m \in 1..Msg \/ m = n
    BY <1>1, <2>0, <2>1
  <2>6. n \in 1..Msg' /\ \A m \in 1..Msg : m \in 1..Msg'
    BY <1>1, <2>0, <2>1
  <2>7. Messages(sent)' = Messages(sent)
    BY <2>1
  <2>8. n \notin Settled
    BY <1>2, <2>4
  <2>9. \A m \in 1..Msg : Held(m)' <=> Held(m)
    BY <2>1, <2>2, <2>4 DEF Held
  <2>10. Held(n)' <=> Sending'
    BY <2>1, <2>2, <2>3 DEF Held
  <2>11. \A m \in 1..Msg' : Held(m)' \/ m \in Settled'
    BY <1>2, <2>1, <2>5, <2>7, <2>9, <2>10 DEF Settled
  <2>12. \A m \in Settled' : m \in 1..Msg' /\ ~Held(m)'
    BY <1>2, <2>1, <2>4, <2>6, <2>7, <2>8, <2>9, <2>10 DEF Settled
  <2>13. \A m \in 1..Msg' : \A i, j \in Infos : Waits(i, m)' /\ Waits(j, m)' => i = j
    BY <1>2, <2>2, <2>3, <2>5
  <2>14. Messages(sent)' \cap dropped' = {}
    BY <1>2, <2>1, <2>7, <2>8 DEF Settled
  <2> QED  BY <1>2, <2>1, <2>11, <2>12, <2>13, <2>14 DEF PlaceInv
<1> QED  BY <1>3, <1>4, <1>5, <1>6 DEF PlaceStep
-----------------------------------------------------------------------------
(***************************************************************************)
(* Every step is one of the four.                                          *)
(***************************************************************************)
LEMMA SamePlaces ==
    ASSUME UNCHANGED <<sent, dropped, next>>, Sending' <=> Sending,
           \A m \in 1..Msg : \A i \in Infos : Waits(i, m)' <=> Waits(i, m)
    PROVE  PlaceStep
<1>1. DropStep({})
  BY DEF DropStep, Leave
<1> QED  BY <1>1 DEF PlaceStep

LEMMA QuietPlaces ==
    ASSUME UNCHANGED <<txq, hand, sent, dropped, next>>, Sending' <=> Sending
    PROVE  PlaceStep
  BY SamePlaces DEF Waits

\* The sender's steps: it drops its message, sends it, or queues it.
LEMMA SendPlaces == ASSUME IInv, SendUdp \/ Send PROVE PlaceStep
<1> USE DEF infoVars, sendUnchanged
<1>1. Msg \in Nat /\ next = Msg + 1 /\ (send # "idle" => Msg \in 1..Msg)
  BY MsgType
<1>2. CASE SendUdp
  BY <1>2, ZenonT(60) DEF SendUdp, PlaceStep, AcceptStep, Sending
<1>3. CASE SendBegin
  <2>1. CASE npinfo = NoInfo \/ ~running
    <3>1. /\ UNCHANGED <<txq, hand, sent, next>> /\ Sending /\ ~Sending'
          /\ dropped' = dropped \cup {Msg} /\ Msg \in 1..Msg
      BY <1>1, <1>3, <2>1 DEF SendBegin, Sending
    <3>2. Leave({Msg})
      BY <3>1, NewestIsNew DEF Leave, Waits
    <3>3. DropStep({Msg})
      BY <3>1, <3>2 DEF DropStep, Held
    <3> QED  BY <3>3 DEF PlaceStep
  <2>2. CASE ~(npinfo = NoInfo \/ ~running)
    BY <1>3, <2>2, QuietPlaces DEF SendBegin, Sending
  <2> QED  BY <2>1, <2>2
<1>4. CASE SendLook \/ SendRetry \/ SendSchedule
  BY <1>4, QuietPlaces DEF SendLook, SendRetry, SendSchedule, Sending
<1>5. CASE SendTry
  <2>1. /\ UNCHANGED <<txq, hand, dropped, next>> /\ Sending /\ ~Sending'
        /\ sent' = Append(sent, Msg) /\ Msg \in 1..Msg
    BY <1>1, <1>5 DEF SendTry, Sending
  <2>2. Leave({Msg})
    BY <2>1, NewestIsNew DEF Leave, Waits
  <2>3. DeliverStep(Msg)
    BY <2>1, <2>2 DEF DeliverStep, Held
  <2> QED  BY <2>1, <2>3 DEF PlaceStep
<1>6. CASE SendQueue
  <2>1. /\ UNCHANGED <<hand, sent, dropped, next>> /\ Sending /\ ~Sending' /\ info \in Infos
        /\ txq' = [txq EXCEPT ![info] = Append(@, Msg)]
    BY <1>6 DEF SendQueue, Sending, IInv, SenderInv
  <2>2. txq[info] \in Seq(1..MaxMsgs) /\ Msg \in 1..MaxMsgs
    BY <1>6, <2>1, MsgType DEF SendQueue, IInv, TypeOK
  <2>3. Messages(Append(txq[info], Msg)) = Messages(txq[info]) \cup {Msg}
    BY <2>2, MessagesOfAppend
  <2>4. \A i \in Infos : txq'[i] = IF i = info THEN Append(txq[info], Msg) ELSE txq[i]
    BY <2>1 DEF IInv, TypeOK
  <2>5. ASSUME NEW m \in 1..Msg, NEW i \in Infos
        PROVE  Waits(i, m)' <=> (Waits(i, m) \/ (i = info /\ m = Msg))
    BY <2>1, <2>3, <2>4 DEF Waits
  <2> QED  BY <2>1, <2>5 DEF QueueStep, PlaceStep
<1> QED  BY <1>2, <1>3, <1>4, <1>5, <1>6 DEF Send

\* A purge drops what is queued, and nobody else has those messages.
LEMMA RcuPlaces == ASSUME IInv, PlaceInv, NEW i \in Infos, Rcu(i) PROVE PlaceStep
<1> USE DEF sendVars
<1>1. CASE RcuCancel(i) \/ RcuFree(i)
  BY <1>1, QuietPlaces DEF RcuCancel, RcuFree, Sending
<1>2. CASE RcuPurge(i) \/ RcuPurgeAgain(i)
  <2> DEFINE S == Messages(txq[i])
  <2>1. /\ UNCHANGED <<hand, send, next, sent>> /\ dropped' = dropped \cup S
        /\ txq' = [txq EXCEPT ![i] = <<>>]
    BY <1>2 DEF RcuPurge, RcuPurgeAgain
  <2>2. \A j \in Infos : Messages(txq'[j]) = IF j = i THEN {} ELSE Messages(txq[j])
    BY <2>1, MessagesOfEmpty DEF IInv, TypeOK
  <2>3. \A k \in DOMAIN txq[i] : /\ txq[i][k] \in 1..Msg /\ hand[i] # txq[i][k]
                                 /\ Sending => txq[i][k] # Msg
    <3>1. txq[i] \in Seq(1..MaxMsgs) /\ Msg \in Nat /\ hand[i] \in Nat
      <4>1. Msg \in Nat
        BY MsgType
      <4>2. txq[i] \in Seq(1..MaxMsgs) /\ hand[i] \in 0..MaxMsgs
        BY DEF IInv, TypeOK
      <4> QED  BY <4>1, <4>2
    <3>2. \A k \in DOMAIN txq[i] : txq[i][k] \in 1..MaxMsgs
      BY <3>1, ElementOf, ZenonT(60)
    <3>3. \A k \in DOMAIN txq[i] :
            /\ hand[i] < txq[i][k] /\ txq[i][k] <= Msg /\ (Sending => txq[i][k] < Msg)
      BY DEF IInv, OrderInv, Sending
    <3> QED  BY <3>1, <3>2, <3>3
  <2>4. \A m \in S : m \in 1..Msg /\ Waits(i, m) /\ hand[i] # m /\ ~(Sending /\ m = Msg)
    BY <2>3 DEF Messages, Waits
  <2>5. \A j \in Infos : \A m \in S : Waits(j, m) => j = i
    BY <2>4 DEF PlaceInv
  <2> HIDE DEF S
  <2>6. Leave(S)
    <3>1. ASSUME NEW m \in 1..Msg, NEW j \in Infos
          PROVE  Waits(j, m)' <=> (Waits(j, m) /\ m \notin S)
      BY <2>1, <2>2, <2>4, <2>5 DEF Waits, S
    <3> QED  BY <2>1, <2>4, <3>1 DEF Leave, Sending
  <2>7. DropStep(S)
    BY <2>1, <2>4, <2>6 DEF DropStep, Held
  <2> QED  BY <2>7 DEF PlaceStep
<1> QED  BY <1>1, <1>2 DEF Rcu

\* The worker's steps: it takes the head of the queue, drops it, sends it or puts it
\* back.
LEMMA WorkPlaces == ASSUME IInv, PlaceInv, NEW i \in Infos, Work(i) PROVE PlaceStep
<1> USE DEF sendVars, workUnchanged
<1>1. /\ txq[i] \in Seq(1..MaxMsgs) /\ Msg \in Nat /\ hand[i] \in 0..MaxMsgs
      /\ hand[i] # 0 <=> work[i] = "xmit"
      /\ \A j, k \in DOMAIN txq[i] : j < k => txq[i][j] < txq[i][k]
      /\ \A k \in DOMAIN txq[i] : hand[i] < txq[i][k] /\ txq[i][k] <= Msg
      /\ hand[i] <= Msg
      /\ Sending => hand[i] < Msg /\ \A k \in DOMAIN txq[i] : txq[i][k] < Msg
  <2>1. Msg \in Nat
    BY MsgType
  <2>2. txq[i] \in Seq(1..MaxMsgs) /\ hand[i] \in 0..MaxMsgs
    BY DEF IInv, TypeOK
  <2> QED  BY <2>1, <2>2 DEF IInv, OrderInv, Sending
<1>2. /\ UNCHANGED <<send, next>> /\ Sending' = Sending
  BY DEF Work, WorkStart, WorkDequeue, WorkXmit, WorkRequeue, WorkSchedule, Sending
<1>3. CASE WorkStart(i) \/ WorkSchedule(i)
  BY <1>2, <1>3, QuietPlaces DEF WorkStart, WorkSchedule
<1>4. CASE WorkDequeue(i) /\ txq[i] = <<>>
  BY <1>2, <1>4, QuietPlaces DEF WorkDequeue
<1>5. CASE WorkDequeue(i) /\ txq[i] # <<>>
  <2> DEFINE h == Head(txq[i])
             t == Tail(txq[i])
  <2>1. /\ txq' = [txq EXCEPT ![i] = t] /\ UNCHANGED sent /\ work[i] = "dequeue"
        /\ \/ hand' = [hand EXCEPT ![i] = h] /\ UNCHANGED dropped
           \/ dropped' = dropped \cup {h} /\ UNCHANGED hand
    BY <1>5 DEF WorkDequeue
  <2>2. /\ h \in 1..MaxMsgs /\ h = txq[i][1] /\ 1 \in DOMAIN txq[i]
        /\ \A k \in DOMAIN t : k \in Nat /\ k + 1 \in DOMAIN txq[i] /\ t[k] = txq[i][k + 1]
        /\ t \in Seq(1..MaxMsgs)
    BY <1>1, <1>5, TailOf, ZenonT(60)
  <2>3. Messages(txq[i]) = Messages(t) \cup {h}
    BY <1>1, <1>5, MessagesOfTail
  <2> HIDE DEF h, t
  <2>4. h \in 1..Msg /\ hand[i] = 0 /\ ~(Sending /\ h = Msg)
    BY <1>1, <2>1, <2>2
  <2>5. h \notin Messages(t)
    <3>1. ASSUME NEW k \in DOMAIN t PROVE h < t[k]
      <4>1. 1 < k + 1 /\ k + 1 \in DOMAIN txq[i] /\ t[k] = txq[i][k + 1]
        BY <2>2
      <4> QED  BY <1>1, <2>2, <4>1
    <3> QED  BY <2>2, <3>1 DEF Messages
  <2>6. \A j \in Infos : /\ Messages(txq'[j]) = IF j = i THEN Messages(t) ELSE Messages(txq[j])
                         /\ j # i => hand'[j] = hand[j]
    BY <2>1 DEF IInv, TypeOK
  <2>7. CASE hand' = [hand EXCEPT ![i] = h] /\ UNCHANGED dropped
    <3>1. hand'[i] = h
      BY <2>7 DEF IInv, TypeOK
    <3>2. ASSUME NEW m \in 1..Msg, NEW j \in Infos PROVE Waits(j, m)' <=> Waits(j, m)
      <4>1. CASE j = i
        <5>1. Waits(i, m)' <=> h = m \/ m \in Messages(t)
          BY <2>6, <3>1 DEF Waits
        <5>2. Waits(i, m) <=> m \in Messages(t) \cup {h}
          <6>1. hand[i] # m
            BY <2>4
          <6> QED  BY <2>3, <6>1 DEF Waits
        <5> QED  BY <4>1, <5>1, <5>2
      <4>2. CASE j # i
        BY <2>6, <4>2 DEF Waits
      <4> QED  BY <4>1, <4>2
    <3> QED  BY <1>2, <2>1, <2>7, <3>2, SamePlaces
  <2>8. CASE dropped' = dropped \cup {h} /\ UNCHANGED hand
    <3>1. \A j \in Infos : Waits(j, h) => j = i
      BY <2>3, <2>4 DEF PlaceInv, Waits
    <3>2. ASSUME NEW m \in 1..Msg, NEW j \in Infos
          PROVE  Waits(j, m)' <=> (Waits(j, m) /\ m \notin {h})
      BY <2>3, <2>4, <2>5, <2>6, <2>8, <3>1 DEF Waits
    <3>3. Waits(i, h)
      BY <2>3 DEF Waits
    <3>4. DropStep({h})
      BY <1>2, <2>1, <2>4, <2>8, <3>2, <3>3 DEF DropStep, Leave, Held
    <3> QED  BY <3>4 DEF PlaceStep
  <2> QED  BY <2>1, <2>7, <2>8
<1>6. CASE WorkXmit(i)
  <2>1. PICK h \in 1..Msg : h = hand[i] /\ h \notin Messages(txq[i])
    BY <1>1, <1>6 DEF WorkXmit, Messages
  <2>2. /\ UNCHANGED <<txq, dropped>> /\ sent' = Append(sent, h)
        /\ hand' = [hand EXCEPT ![i] = 0]
    BY <1>6, <2>1 DEF WorkXmit
  <2>3. \A j \in Infos : hand'[j] = IF j = i THEN 0 ELSE hand[j]
    BY <2>2 DEF IInv, TypeOK
  <2>4. Waits(i, h) /\ ~(Sending /\ h = Msg) /\ \A j \in Infos : Waits(j, h) => j = i
    BY <1>1, <2>1 DEF PlaceInv, Waits
  <2>5. ASSUME NEW m \in 1..Msg, NEW j \in Infos
        PROVE  Waits(j, m)' <=> (Waits(j, m) /\ m \notin {h})
    BY <2>1, <2>2, <2>3, <2>4 DEF Waits
  <2>6. DeliverStep(h)
    BY <1>2, <2>2, <2>4, <2>5 DEF DeliverStep, Leave, Held
  <2> QED  BY <2>6 DEF PlaceStep
<1>7. CASE WorkRequeue(i)
  <2> DEFINE q == <<hand[i]>> \o txq[i]
  <2>1. /\ UNCHANGED <<sent, dropped>> /\ txq' = [txq EXCEPT ![i] = q]
        /\ hand' = [hand EXCEPT ![i] = 0] /\ work[i] = "xmit"
    BY <1>7 DEF WorkRequeue
  <2>2. Messages(q) = {hand[i]} \cup Messages(txq[i])
    <3>1. hand[i] \in 1..MaxMsgs
      BY <1>1, <2>1
    <3> QED  BY <1>1, <3>1, MessagesOfPutBack
  <2> HIDE DEF q
  <2>3. \A j \in Infos : /\ Messages(txq'[j]) = IF j = i THEN Messages(q) ELSE Messages(txq[j])
                         /\ hand'[j] = IF j = i THEN 0 ELSE hand[j]
    BY <2>1 DEF IInv, TypeOK
  <2>4. ASSUME NEW m \in 1..Msg, NEW j \in Infos PROVE Waits(j, m)' <=> Waits(j, m)
    BY <2>2, <2>3 DEF Waits
  <2> QED  BY <1>2, <2>1, <2>4, SamePlaces
<1> QED  BY <1>3, <1>4, <1>5, <1>6, <1>7 DEF Work

LEMMA NextPlaces == IInv /\ PlaceInv /\ [Next]_vars => PlaceStep
<1> SUFFICES ASSUME IInv, PlaceInv, [Next]_vars PROVE PlaceStep
  OBVIOUS
<1> USE DEF infoVars, workVars, sendVars
<1>1. ASSUME NEW n \in Netpolls, Setup(n) \/ SetupFails(n) \/ Cleanup(n) PROVE PlaceStep
  BY <1>1, QuietPlaces, ZenonT(60) DEF Setup, SetupFails, Cleanup, Sending
<1>2. CASE TxDone \/ IfUpDown \/ UNCHANGED vars
  BY <1>2, QuietPlaces DEF TxDone, IfUpDown, vars, Sending
<1> QED  BY <1>1, <1>2, SendPlaces, RcuPlaces, WorkPlaces DEF Next
-----------------------------------------------------------------------------
\* The order of a queue leaves room for the messages in front of a message.
LEMMA RoomStep == IInv /\ RoomInv /\ [Next]_vars => RoomInv'
<1> SUFFICES ASSUME IInv, RoomInv, [Next]_vars PROVE RoomInv'
  OBVIOUS
<1> USE DEF infoVars, workVars, sendVars
<1>1. /\ txq \in [Infos -> Seq(1..MaxMsgs)] /\ hand \in [Infos -> 0..MaxMsgs] /\ Msg \in Nat
      /\ MaxMsgs \in Nat
  <2>1. Msg \in Nat /\ MaxMsgs \in Nat
    BY MsgType
  <2> QED  BY <2>1 DEF IInv, TypeOK
<1>2. ASSUME NEW i \in Infos
      PROVE  /\ hand[i] \in Nat /\ (hand[i] # 0 <=> work[i] = "xmit") /\ hand[i] <= Msg
             /\ \A k \in DOMAIN txq[i] : /\ txq[i][k] \in Nat /\ k \in Nat /\ k >= 1
                                         /\ hand[i] < txq[i][k]
             /\ DOMAIN txq[i] = 1..Len(txq[i]) /\ Len(txq[i]) \in Nat
  <2>1. txq[i] \in Seq(1..MaxMsgs) /\ hand[i] \in 0..MaxMsgs
    BY <1>1
  <2>2. DOMAIN txq[i] = 1..Len(txq[i]) /\ Len(txq[i]) \in Nat
    BY <2>1
  <2>3. \A k \in DOMAIN txq[i] : txq[i][k] \in Nat
    BY <2>1, <1>1, ElementOf
  <2> QED  BY <1>1, <2>1, <2>2, <2>3 DEF IInv, OrderInv
<1>3. CASE UNCHANGED <<txq, hand>>
  BY <1>3 DEF RoomInv
<1>4. CASE SendQueue
  <2> DEFINE q == Append(txq[info], Msg)
  <2>1. /\ info \in Infos /\ txq' = [txq EXCEPT ![info] = q] /\ hand' = hand
        /\ Msg \in 1..MaxMsgs
        /\ hand[info] < Msg /\ \A k \in DOMAIN txq[info] : txq[info][k] < Msg
    BY <1>4, MsgType DEF SendQueue, sendUnchanged, IInv, SenderInv, OrderInv
  <2>2. \A k \in DOMAIN q : \/ k \in DOMAIN txq[info] /\ q[k] = txq[info][k]
                            \/ k = Len(txq[info]) + 1 /\ q[k] = Msg
    BY <1>1, <2>1, AppendOf, ZenonT(60)
  <2> HIDE DEF q
  <2>3. ASSUME NEW k \in DOMAIN q PROVE q[k] >= IF hand[info] = 0 THEN k ELSE k + 1
    <3>1. CASE k \in DOMAIN txq[info] /\ q[k] = txq[info][k]
      BY <2>1, <3>1 DEF RoomInv
    <3>2. CASE k = Len(txq[info]) + 1 /\ q[k] = Msg
      <4>1. CASE Len(txq[info]) = 0
        BY <1>2, <2>1, <3>2, <4>1
      <4>2. CASE Len(txq[info]) # 0
        <5> DEFINE l == Len(txq[info])
        <5>1. l \in DOMAIN txq[info] /\ l \in Nat
          BY <1>2, <2>1, <4>2
        <5>2. txq[info][l] >= (IF hand[info] = 0 THEN l ELSE l + 1) /\ txq[info][l] < Msg
          BY <5>1, <2>1 DEF RoomInv
        <5>3. txq[info][l] \in Nat
          BY <1>2, <2>1, <5>1
        <5> QED  BY <1>1, <3>2, <5>1, <5>2, <5>3
      <4> QED  BY <4>1, <4>2
    <3> QED  BY <2>2, <3>1, <3>2
  <2>4. \A i \in Infos : txq'[i] = IF i = info THEN q ELSE txq[i]
    BY <1>1, <2>1
  <2> QED  BY <2>1, <2>3, <2>4, SMTT(60) DEF RoomInv
<1>5. ASSUME NEW i \in Infos, RcuPurge(i) \/ RcuPurgeAgain(i) PROVE RoomInv'
  <2>1. txq' = [txq EXCEPT ![i] = <<>>] /\ hand' = hand
    BY <1>5 DEF RcuPurge, RcuPurgeAgain
  <2>2. \A j \in Infos : txq'[j] = IF j = i THEN <<>> ELSE txq[j]
    BY <1>1, <2>1
  <2>3. \A j \in Infos : \A k \in DOMAIN txq'[j] : k \in DOMAIN txq[j] /\ txq'[j][k] = txq[j][k]
    BY <2>2, EmptyOf, ZenonT(60)
  <2> QED  BY <2>1, <2>3 DEF RoomInv
<1>6. ASSUME NEW i \in Infos, WorkDequeue(i), txq[i] # <<>> PROVE RoomInv'
  <2> DEFINE t == Tail(txq[i])
  <2>1. /\ txq' = [txq EXCEPT ![i] = t] /\ work[i] = "dequeue"
        /\ hand' = [hand EXCEPT ![i] = Head(txq[i])] \/ hand' = hand
    BY <1>6 DEF WorkDequeue
  <2>2. \A k \in DOMAIN t : k \in Nat /\ k + 1 \in DOMAIN txq[i] /\ t[k] = txq[i][k + 1]
    BY <1>1, <1>6, TailOf
  <2> HIDE DEF t
  <2>3. \A j \in Infos : /\ txq'[j] = IF j = i THEN t ELSE txq[j]
                         /\ j # i => hand'[j] = hand[j]
    BY <1>1, <2>1
  <2>4. hand[i] = 0
    BY <1>2, <2>1
  <2>5. ASSUME NEW k \in DOMAIN t PROVE t[k] >= k /\ t[k] >= k + 1
    <3>1. txq[i][k + 1] >= k + 1 /\ txq[i][k + 1] \in Nat
      BY <1>2, <2>2, <2>4 DEF RoomInv
    <3> QED  BY <2>2, <3>1
  <2> QED  BY <2>3, <2>5 DEF RoomInv
<1>7. ASSUME NEW i \in Infos, WorkXmit(i) PROVE RoomInv'
  <2>1. txq' = txq /\ hand' = [hand EXCEPT ![i] = 0]
    BY <1>7 DEF WorkXmit
  <2>2. \A j \in Infos : hand'[j] = IF j = i THEN 0 ELSE hand[j]
    BY <1>1, <2>1
  <2>3. ASSUME NEW k \in DOMAIN txq[i] PROVE txq[i][k] >= k
    <3>1. txq[i][k] >= k \/ txq[i][k] >= k + 1
      BY DEF RoomInv
    <3> QED  BY <1>2, <3>1
  <2> QED  BY <2>1, <2>2, <2>3 DEF RoomInv
<1>8. ASSUME NEW i \in Infos, WorkRequeue(i) PROVE RoomInv'
  <2> DEFINE q == <<hand[i]>> \o txq[i]
  <2>1. txq' = [txq EXCEPT ![i] = q] /\ hand' = [hand EXCEPT ![i] = 0] /\ hand[i] # 0
    BY <1>2, <1>8 DEF WorkRequeue
  <2>2. \A k \in DOMAIN q : \/ k = 1 /\ q[k] = hand[i]
                            \/ k \in Nat /\ k - 1 \in DOMAIN txq[i] /\ q[k] = txq[i][k - 1]
    <3>1. hand[i] \in 1..MaxMsgs /\ txq[i] \in Seq(1..MaxMsgs)
      BY <1>1, <2>1
    <3> QED  BY <3>1, PutBackOf
  <2> HIDE DEF q
  <2>3. \A j \in Infos : /\ txq'[j] = IF j = i THEN q ELSE txq[j]
                         /\ hand'[j] = IF j = i THEN 0 ELSE hand[j]
    BY <1>1, <2>1
  <2>4. ASSUME NEW k \in DOMAIN q PROVE q[k] >= k
    <3>1. CASE k = 1 /\ q[k] = hand[i]
      BY <1>2, <2>1, <3>1
    <3>2. CASE k \in Nat /\ k - 1 \in DOMAIN txq[i] /\ q[k] = txq[i][k - 1]
      <4>1. txq[i][k - 1] >= (k - 1) + 1
        BY <2>1, <3>2 DEF RoomInv
      <4> QED  BY <3>2, <4>1
    <3> QED  BY <2>2, <3>1, <3>2
  <2> QED  BY <2>3, <2>4 DEF RoomInv
<1>9. ASSUME NEW n \in Netpolls, Setup(n) \/ SetupFails(n) \/ Cleanup(n) PROVE RoomInv'
  BY <1>3, <1>9, ZenonT(60) DEF Setup, SetupFails, Cleanup
<1>10. CASE SendUdp \/ TxDone \/ IfUpDown \/ UNCHANGED vars
  BY <1>3, <1>10, ZenonT(60) DEF SendUdp, sendUnchanged, TxDone, IfUpDown, vars
<1>11. CASE Send
  BY <1>3, <1>4, <1>11
     DEF Send, SendBegin, SendLook, SendTry, SendRetry, SendSchedule, sendUnchanged
<1>12. ASSUME NEW i \in Infos, Rcu(i) PROVE RoomInv'
  BY <1>3, <1>5, <1>12 DEF Rcu, RcuCancel, RcuFree
<1>13. ASSUME NEW i \in Infos, Work(i) PROVE RoomInv'
  <2>1. CASE WorkStart(i) \/ WorkSchedule(i)
    BY <1>3, <2>1, ZenonT(60) DEF WorkStart, WorkSchedule
  <2>2. CASE WorkDequeue(i) /\ txq[i] = <<>>
    BY <1>3, <2>2 DEF WorkDequeue
  <2> QED  BY <1>6, <1>7, <1>8, <1>13, <2>1, <2>2, SMTT(60) DEF Work
<1> QED  BY <1>9, <1>10, <1>11, <1>12, <1>13 DEF Next

\* Where every message is, for any netpolls, netpoll_infos and messages.
THEOREM PlacesInvariant == Spec => [](PlaceInv /\ RoomInv)
<1>1. Init => PlaceInv /\ RoomInv
  <2> SUFFICES ASSUME Init PROVE PlaceInv /\ RoomInv
    OBVIOUS
  <2>1. Msg = 0 /\ sent = <<>> /\ dropped = {}
    BY DEF Init, Msg
  <2>2. Settled = {} /\ \A k \in DOMAIN sent : FALSE
    BY <2>1, MessagesOfEmpty, EmptyOf, ZenonT(60) DEF Settled
  <2>3. PlaceInv
    BY <2>1, <2>2, MessagesOfEmpty DEF PlaceInv
  <2>4. \A i \in Infos : \A k \in DOMAIN txq[i] : FALSE
    BY EmptyOf DEF Init
  <2>5. RoomInv
    BY <2>4 DEF RoomInv
  <2> QED  BY <2>3, <2>5
<1>2. IInv /\ (PlaceInv /\ RoomInv) /\ [Next]_vars => (PlaceInv /\ RoomInv)'
  BY NextPlaces, PlaceKept, RoomStep
<1> QED  BY <1>1, <1>2, NetpollInvariant, PTL DEF Spec

\* A message is with one owner at every moment: the sender, one position of one txq,
\* one worker, one entry of what the device took, or the freed ones
\* (__netpoll_send_skb, queue_process, rcu_cleanup_netpoll_info).
THEOREM MessagesAreOnce == Spec => []MessageOnce
<1>1. IInv /\ PlaceInv /\ RoomInv => MessageOnce
  <2> SUFFICES ASSUME IInv, PlaceInv, RoomInv, NEW m \in 1..(next - 1) PROVE Copies(m) = 1
    BY DEF MessageOnce
  <2> DEFINE A == IF m = Msg /\ send \notin {"idle", "sched"} THEN 1 ELSE 0
             Q == {at \in Infos \X (1..MaxMsgs) :
                     at[2] \in DOMAIN txq[at[1]] /\ txq[at[1]][at[2]] = m}
             H == {i \in Infos : hand[i] = m}
             T == {k \in DOMAIN sent : sent[k] = m}
             F == IF m \in dropped THEN 1 ELSE 0
  <2>1. Copies(m) = A + Cardinality(Q) + Cardinality(H) + Cardinality(T) + F
    BY DEF Copies, Times
  <2>2. m \in 1..Msg /\ (A = IF Sending /\ m = Msg THEN 1 ELSE 0)
    BY DEF Msg, Sending, IInv, TypeOK
  <2>3. \A i \in Infos : \A k \in DOMAIN txq[i] : k \in 1..MaxMsgs
    <3> SUFFICES ASSUME NEW i \in Infos, NEW k \in DOMAIN txq[i] PROVE k \in 1..MaxMsgs
      OBVIOUS
    <3>1. txq[i] \in Seq(1..MaxMsgs) /\ MaxMsgs \in Nat
      BY BoundsAreNat DEF IInv, TypeOK
    <3>2. txq[i][k] \in 1..MaxMsgs /\ k \in Nat /\ k >= 1
      BY <3>1, ElementOf
    <3>3. txq[i][k] >= k \/ txq[i][k] >= k + 1
      BY DEF RoomInv
    <3> QED  BY <3>1, <3>2, <3>3
  <2>4. ASSUME NEW i \in Infos, NEW k \in DOMAIN txq[i], txq[i][k] = m
        PROVE  Q = {<<i, k>>} /\ H = {}
    <3>1. \A j \in Infos : Waits(j, m) => j = i
      <4>1. Waits(i, m)
        BY <2>4 DEF Waits, Messages
      <4> QED  BY <4>1, <2>2 DEF PlaceInv
    <3>2. <<i, k>> \in Q
      BY <2>3, <2>4
    <3>3. ASSUME NEW at \in Q PROVE at = <<i, k>>
      <4>1. PICK j \in Infos, l \in 1..MaxMsgs : at = <<j, l>> /\ l \in DOMAIN txq[j] /\ txq[j][l] = m
        BY <3>3
      <4>2. j = i
        BY <3>1, <4>1 DEF Waits, Messages
      <4>3. l = k
        <5>1. k \in 1..MaxMsgs /\ MaxMsgs \in Nat /\ m \in Nat
          BY <2>3, BoundsAreNat, MsgType DEF Msg
        <5>2. \A a, b \in DOMAIN txq[i] : a < b => txq[i][a] < txq[i][b]
          BY DEF IInv, OrderInv
        <5> QED  BY <2>4, <4>1, <4>2, <5>1, <5>2
      <4> QED  BY <4>1, <4>2, <4>3
    <3>4. hand[i] # m
      <4>1. hand[i] < txq[i][k] /\ hand[i] \in 0..MaxMsgs /\ MaxMsgs \in Nat
        BY BoundsAreNat DEF IInv, OrderInv, TypeOK
      <4> QED  BY <2>2, <2>4, <4>1
    <3>5. H = {}
      BY <3>1, <3>4 DEF Waits
    <3> QED  BY <3>2, <3>3, <3>5
  <2>5. ASSUME \A i \in Infos : m \notin Messages(txq[i]) PROVE Q = {}
    BY <2>5 DEF Messages
  <2>6. m \notin Messages(sent) => T = {}
    BY DEF Messages
  <2>7. Cardinality({}) = 0 /\ \A x : Cardinality({x}) = 1
    BY FS_EmptySet, FS_Singleton
  <2> HIDE DEF A, Q, H, T, F
  <2>8. CASE Held(m)
    <3>1. m \notin Messages(sent) /\ m \notin dropped
      BY <2>8 DEF PlaceInv, Settled
    <3>2. T = {} /\ F = 0
      BY <2>6, <3>1 DEF F
    <3>3. CASE Sending /\ m = Msg
      <4>1. \A i \in Infos : hand[i] # m /\ m \notin Messages(txq[i])
        BY <3>3, NewestIsNew DEF Waits
      <4>2. Q = {} /\ H = {} /\ A = 1
        BY <2>2, <2>5, <3>3, <4>1 DEF H
      <4> QED  BY <2>1, <2>7, <3>2, <4>2
    <3>4. CASE ~(Sending /\ m = Msg)
      <4>1. A = 0
        BY <2>2, <3>4
      <4>2. PICK i \in Infos : Waits(i, m)
        BY <2>8, <3>4 DEF Held
      <4>3. CASE m \in Messages(txq[i])
        <5>1. PICK k \in DOMAIN txq[i] : txq[i][k] = m
          BY <4>3 DEF Messages
        <5>2. Q = {<<i, k>>} /\ H = {}
          BY <2>4, <5>1
        <5>3. Cardinality(Q) = 1
          BY <2>7, <5>2, ZenonT(60)
        <5> QED  BY <2>1, <2>7, <3>2, <4>1, <5>2, <5>3
      <4>4. CASE m \notin Messages(txq[i])
        <5>1. hand[i] = m /\ \A j \in Infos : Waits(j, m) => j = i
          BY <2>2, <4>2, <4>4 DEF Waits, PlaceInv
        <5>2. H = {i}
          BY <5>1 DEF H, Waits
        <5>3. Q = {}
          BY <2>5, <4>4, <5>1 DEF Waits
        <5>4. Cardinality(H) = 1
          BY <2>7, <5>2, ZenonT(60)
        <5> QED  BY <2>1, <2>7, <3>2, <4>1, <5>3, <5>4
      <4> QED  BY <4>3, <4>4
    <3> QED  BY <3>3, <3>4
  <2>9. CASE ~Held(m)
    <3>1. /\ m \in Settled /\ A = 0
          /\ \A i \in Infos : hand[i] # m /\ m \notin Messages(txq[i])
      BY <2>2, <2>9 DEF PlaceInv, Held, Waits
    <3>2. Q = {} /\ H = {}
      BY <2>5, <3>1 DEF H
    <3>3. CASE m \in dropped
      <4>1. T = {} /\ F = 1
        BY <2>6, <3>3 DEF F, PlaceInv
      <4> QED  BY <2>1, <2>7, <3>1, <3>2, <4>1
    <3>4. CASE m \notin dropped
      <4>1. PICK k \in DOMAIN sent : sent[k] = m
        BY <3>1, <3>4 DEF Settled, Messages
      <4>2. T = {k} /\ F = 0
        BY <3>4, <4>1 DEF T, F, PlaceInv
      <4>3. Cardinality(T) = 1
        BY <2>7, <4>2, ZenonT(60)
      <4> QED  BY <2>1, <2>7, <3>1, <3>2, <4>2, <4>3
    <3> QED  BY <3>3, <3>4
  <2> QED  BY <2>8, <2>9
<1> QED  BY <1>1, NetpollInvariant, PlacesInvariant, PTL

\* The channel the console sees: each step of netpoll accepts, delivers or drops open
\* messages, or leaves the channel alone.
THEOREM ChannelIsImplemented == Spec => ChannelImplemented
<1>1. Init => Channel!Init
  BY DEF Init, Channel!Init, Msg
<1>2. IInv /\ PlaceInv /\ [Next]_vars => [Channel!Next]_(Channel!vars)
  <2> SUFFICES ASSUME IInv, PlaceInv, PlaceStep PROVE [Channel!Next]_(Channel!vars)
    BY NextPlaces
  <2>1. Msg \in Nat /\ next = Msg + 1
    BY MsgType
  <2>2. ASSUME NEW m \in 1..Msg, Held(m) PROVE m \in Channel!Open
    <3>1. m \notin Settled
      BY <2>2 DEF PlaceInv
    <3> QED  BY <3>1 DEF Channel!Open, Settled, Messages
  <2>3. ASSUME NEW S, DropStep(S) PROVE Channel!Drop
    BY <2>2, <2>3 DEF DropStep, Channel!Drop, Msg
  <2>4. ASSUME NEW m \in 1..Msg, DeliverStep(m) PROVE Channel!Deliver
    BY <2>2, <2>4 DEF DeliverStep, Channel!Deliver, Msg
  <2>5. CASE QueueStep
    BY <2>5 DEF QueueStep, Channel!vars, Msg
  <2>6. CASE AcceptStep
    <3>1. Msg' = Msg + 1
      BY <2>1, <2>6 DEF AcceptStep, Msg
    <3> QED  BY <2>1, <2>6, <3>1 DEF AcceptStep, Channel!Next, Channel!Accept
  <2> QED  BY <2>3, <2>4, <2>5, <2>6 DEF PlaceStep, Channel!Next
<1> QED
  BY <1>1, <1>2, NetpollInvariant, PlacesInvariant, PTL DEF Spec, ChannelImplemented, Channel!Spec
-----------------------------------------------------------------------------
\* The messages a direct send can overtake: at most the one that was in the hands of
\* queue_process when the sender found its txq empty.
TryInv ==
    send = "try" => \A o, p \in 1..Msg : Waits(info, o) /\ Waits(info, p) => o = p

LEMMA TryStep == IInv /\ PlaceInv /\ TryInv /\ [Next]_vars => TryInv'
<1> SUFFICES ASSUME IInv, PlaceInv, TryInv, [Next]_vars, (send = "try")'
             PROVE  (\A o, p \in 1..Msg : Waits(info, o) /\ Waits(info, p) => o = p)'
  BY DEF TryInv
<1>1. PlaceStep
  BY NextPlaces
<1>2. (send = "try" /\ info' = info) \/ SendLook
  BY DEF Next, vars, infoVars, workVars, sendVars, Setup, SetupFails, Cleanup, SendUdp,
         Send, SendBegin, SendLook, SendTry, SendRetry, SendQueue, SendSchedule, TxDone,
         IfUpDown, Rcu, RcuPurge, RcuCancel, RcuPurgeAgain, RcuFree, Work, WorkStart,
         WorkDequeue, WorkXmit, WorkRequeue, WorkSchedule, workUnchanged
<1>3. CASE send = "try" /\ info' = info
  <2>1. info \in Infos /\ Sending /\ Sending'
    BY <1>3 DEF IInv, SenderInv, Sending
  <2>2. Msg' = Msg /\ \A m \in 1..Msg : Waits(info, m)' => Waits(info, m)
    <3>1. ASSUME NEW S, Leave(S) PROVE \A m \in 1..Msg : Waits(info, m)' => Waits(info, m)
      BY <1>3, <2>1, <3>1 DEF Leave
    <3> QED
      BY <1>1, <2>1, <3>1 DEF PlaceStep, DropStep, DeliverStep, QueueStep, AcceptStep, Msg
  <2>3. \A o, p \in 1..Msg : Waits(info, o) /\ Waits(info, p) => o = p
    BY <1>3 DEF TryInv
  <2> QED  BY <2>2, <2>3
<1>4. CASE SendLook
  <2>1. txq[info] = <<>> /\ UNCHANGED <<txq, hand, info, next>>
    BY <1>4 DEF SendLook, sendUnchanged
  <2>2. \A m : Waits(info, m) => m = hand[info]
    BY <2>1, MessagesOfEmpty DEF Waits
  <2>3. \A m : Waits(info, m)' <=> Waits(info, m)
    BY <2>1 DEF Waits, Messages
  <2> QED  BY <2>2, <2>3
<1> QED  BY <1>2, <1>3, <1>4

\* A message __netpoll_send_skb sends directly overtakes at most one of its own
\* netpoll_info: the empty txq it asks for leaves only what queue_process has dequeued.
THEOREM DirectSendOvertakesOne ==
    Spec => [][\A o, p \in 1..Msg :
                 /\ send = "try" /\ sent' = Append(sent, Msg)
                 /\ Waits(info, o) /\ Waits(info, p)
                 => o = p]_vars
<1>1. Init => TryInv
  BY DEF Init, TryInv
<1>2. TryInv => [\A o, p \in 1..Msg :
                   /\ send = "try" /\ sent' = Append(sent, Msg)
                   /\ Waits(info, o) /\ Waits(info, p)
                   => o = p]_vars
  BY DEF TryInv
<1>3. Spec => []TryInv
  BY <1>1, TryStep, NetpollInvariant, PlacesInvariant, PTL DEF Spec
<1> QED  BY <1>2, <1>3, PTL
=============================================================================
