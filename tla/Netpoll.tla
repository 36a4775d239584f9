------------------------------- MODULE Netpoll -------------------------------
(***************************************************************************)
(* netpoll.c: sending log messages from any context over one net device.   *)
(* A message goes out at once if it can, and otherwise waits on the txq of *)
(* the device's netpoll_info for the delayed work queue_process.  Setup    *)
(* and cleanup share and retire the netpoll_info while messages are sent.  *)
(*                                                                         *)
(* One sender at a time: its only caller here, netconsole, sends under     *)
(* target_list_lock.  Messages are numbered in the order they are sent in. *)
(* The body of a packet, its headers and addresses are left out.           *)
(***************************************************************************)
EXTENDS Naturals, Sequences, FiniteSets

CONSTANTS
    Netpolls,     \* the struct netpolls set up on the device
    Infos,        \* netpoll_info allocations
    NoInfo,       \* NULL
    MaxMsgs,      \* bound on the messages sent
    Tries,        \* polls in one clock tick (jiffies_to_usecs(1)/USEC_PER_POLL)
    PoolSize      \* MAX_SKBS

ASSUME NoInfoIsNull == NoInfo \notin Infos
ASSUME NetpollsAreFinite == IsFiniteSet(Netpolls)
ASSUME BoundsAreNat == MaxMsgs \in Nat /\ Tries \in Nat \ {0} /\ PoolSize \in Nat

VARIABLES
    active,       \* the netpolls netpoll_setup has succeeded for
    npinfo,       \* dev->npinfo
    refcnt, life, \* of every netpoll_info: its count, and where it is in its life
    txq, pending, \* its queue, and whether tx_work is pending
    work, hand,   \* where queue_process is, and the message it has dequeued
    send, info,   \* where the sender is, and its local npinfo
    tries,        \* polls left
    next,         \* the number of the next message
    sent, dropped,\* messages handed to the device, and freed unsent
    pool,         \* length of skb_pool
    stopped,      \* the transmit queue is stopped
    running       \* netif_running(dev)

infoVars == <<refcnt, life>>
workVars == <<txq, pending, work, hand>>
sendVars == <<send, info, tries, next>>
vars == <<active, npinfo, infoVars, workVars, sendVars, sent, dropped, pool,
          stopped, running>>

Init ==
    /\ active = [n \in Netpolls |-> FALSE] /\ npinfo = NoInfo
    /\ refcnt = [i \in Infos |-> 0] /\ life = [i \in Infos |-> "unused"]
    /\ txq = [i \in Infos |-> <<>>] /\ pending = [i \in Infos |-> FALSE]
    /\ work = [i \in Infos |-> "idle"] /\ hand = [i \in Infos |-> 0]
    /\ send = "idle" /\ info = NoInfo /\ tries = 0 /\ next = 1
    /\ sent = <<>> /\ dropped = {}
    /\ pool = 0 /\ stopped = FALSE /\ running = TRUE
-----------------------------------------------------------------------------
(***************************************************************************)
(* Setup and cleanup, under the rtnl lock.                                 *)
(***************************************************************************)

\* The lengths refill_skbs may leave: it stops when an allocation fails.
Refill == pool .. PoolSize

\* netpoll_setup; the interface is up or is brought up.  The first one on the
\* device allocates the netpoll_info, a later one shares it.
Setup(n) ==
    /\ ~active[n]
    /\ pool' \in Refill
    /\ \/ /\ npinfo = NoInfo
          /\ \E i \in Infos :
               /\ life[i] = "unused"
               /\ life' = [life EXCEPT ![i] = "live"]
               /\ refcnt' = [refcnt EXCEPT ![i] = 1]
               /\ npinfo' = i
       \/ /\ npinfo # NoInfo
          /\ refcnt' = [refcnt EXCEPT ![npinfo] = @ + 1]
          /\ UNCHANGED <<life, npinfo>>
    /\ active' = [active EXCEPT ![n] = TRUE]
    /\ running' = TRUE
    /\ UNCHANGED <<workVars, sendVars, sent, dropped, stopped>>

\* It fails before the netpoll_info is published; the pool and the open stay.  So does
\* np->dev, which nothing here reads again: Netconsole's stale stands for it.
SetupFails(n) ==
    /\ ~active[n]
    /\ pool' \in Refill /\ running' \in {running, TRUE}
    /\ UNCHANGED <<active, npinfo, infoVars, workVars, sendVars, sent, dropped, stopped>>

\* netpoll_cleanup: dev->npinfo is cleared whoever else still uses it; the last
\* reference leaves the freeing to rcu_cleanup_netpoll_info.
Cleanup(n) ==
    /\ active[n]
    /\ active' = [active EXCEPT ![n] = FALSE]
    /\ IF npinfo = NoInfo
       THEN UNCHANGED infoVars
       ELSE /\ refcnt' = [refcnt EXCEPT ![npinfo] = @ - 1]
            /\ life' = IF refcnt[npinfo] = 1
                       THEN [life EXCEPT ![npinfo] = "rcu"] ELSE life
    /\ npinfo' = NoInfo
    /\ UNCHANGED <<workVars, sendVars, sent, dropped, pool, stopped, running>>

Messages(q) == {q[k] : k \in DOMAIN q}

\* Mutant: no grace period, kfree instead of call_rcu.
RcuPurgeAtOnce(i) ==
    /\ life[i] = "rcu"
    /\ life' = [life EXCEPT ![i] = "purged"]
    /\ dropped' = dropped \cup Messages(txq[i])
    /\ txq' = [txq EXCEPT ![i] = <<>>]
    /\ UNCHANGED <<active, npinfo, refcnt, pending, work, hand, sendVars, sent, pool,
                   stopped, running>>

\* rcu_cleanup_netpoll_info, in a softirq, after every sender that can have read
\* dev->npinfo has returned.
RcuPurge(i) ==
    /\ life[i] = "rcu" /\ (send \in {"idle", "begin"} \/ info # i)
    /\ life' = [life EXCEPT ![i] = "purged"]
    /\ dropped' = dropped \cup Messages(txq[i])
    /\ txq' = [txq EXCEPT ![i] = <<>>]
    /\ UNCHANGED <<active, npinfo, refcnt, pending, work, hand, sendVars, sent, pool,
                   stopped, running>>

RcuCancel(i) ==
    /\ life[i] = "purged"
    /\ life' = [life EXCEPT ![i] = "cancelled"]
    /\ pending' = [pending EXCEPT ![i] = FALSE]
    /\ UNCHANGED <<active, npinfo, refcnt, txq, work, hand, sendVars, sent, dropped,
                   pool, stopped, running>>

RcuPurgeAgain(i) ==
    /\ life[i] = "cancelled"
    /\ life' = [life EXCEPT ![i] = "purged again"]
    /\ dropped' = dropped \cup Messages(txq[i])
    /\ txq' = [txq EXCEPT ![i] = <<>>]
    /\ UNCHANGED <<active, npinfo, refcnt, pending, work, hand, sendVars, sent, pool,
                   stopped, running>>

RcuFree(i) ==
    /\ life[i] = "purged again"
    /\ life' = [life EXCEPT ![i] = "freed"]
    /\ pending' = [pending EXCEPT ![i] = FALSE]
    /\ UNCHANGED <<active, npinfo, refcnt, txq, work, hand, sendVars, sent, dropped,
                   pool, stopped, running>>

Rcu(i) == RcuPurge(i) \/ RcuCancel(i) \/ RcuPurgeAgain(i) \/ RcuFree(i)
-----------------------------------------------------------------------------
(***************************************************************************)
(* A message: netpoll_send_udp and __netpoll_send_skb.                     *)
(***************************************************************************)
sendUnchanged == UNCHANGED <<active, npinfo, infoVars, work, hand, running>>

\* netpoll_poll_dev may restart the transmit queue.
PollDev ==
    stopped' \in IF npinfo = NoInfo \/ ~running THEN {stopped} ELSE {FALSE, stopped}

\* find_skb: a fresh buffer, or one of the pool, or none after ten polls.
FindSkb(found) ==
    \/ found /\ pool' \in Refill /\ UNCHANGED stopped
    \/ found /\ (\E p \in Refill \ {0} : pool' = p - 1) /\ UNCHANGED stopped
    \/ pool = 0 /\ PollDev /\ UNCHANGED pool

\* Without a buffer the message is given up.
SendUdp ==
    /\ send = "idle" /\ next <= MaxMsgs /\ \E n \in Netpolls : active[n]
    /\ next' = next + 1
    /\ \/ FindSkb(TRUE) /\ send' = "begin" /\ UNCHANGED dropped
       \/ FindSkb(FALSE) /\ dropped' = dropped \cup {next} /\ UNCHANGED send
    /\ sendUnchanged /\ UNCHANGED <<txq, pending, info, tries, sent>>

\* The message the sender has in hand.
Msg == next - 1

\* Without a netpoll_info, or with the interface down, the message is dropped.
SendBegin ==
    /\ send = "begin"
    /\ info' = npinfo
    /\ IF npinfo = NoInfo \/ ~running
       THEN send' = "idle" /\ dropped' = dropped \cup {Msg}
       ELSE send' = "look" /\ UNCHANGED dropped
    /\ sendUnchanged /\ UNCHANGED <<txq, pending, tries, next, sent, pool, stopped>>

\* The message is sent directly if none is queued, unless this CPU is inside the
\* device's poll already.
SendLook ==
    /\ send = "look"
    /\ \/ txq[info] = <<>> /\ send' = "try" /\ tries' = Tries
       \/ send' = "queue" /\ UNCHANGED tries
    /\ sendUnchanged
    /\ UNCHANGED <<txq, pending, info, next, sent, dropped, pool, stopped>>

\* Mutant: the loop is not left after a success.
SendTryOn ==
    /\ send = "try" /\ ~stopped
    /\ sent' = Append(sent, Msg) /\ stopped' \in BOOLEAN
    /\ IF tries > 1 THEN tries' = tries - 1 /\ UNCHANGED send
                    ELSE send' = "idle" /\ UNCHANGED tries
    /\ sendUnchanged /\ UNCHANGED <<txq, pending, info, next, dropped, pool>>

\* HARD_TX_TRYLOCK succeeds and the queue is not stopped: the device takes it.
SendTry ==
    /\ send = "try" /\ ~stopped
    /\ sent' = Append(sent, Msg) /\ stopped' \in BOOLEAN
    /\ send' = "idle"
    /\ sendUnchanged /\ UNCHANGED <<txq, pending, info, tries, next, dropped, pool>>

\* The lock is taken, the queue is stopped or the device is busy: the device is
\* polled, which may restart its queue, until the tries are used up.
SendRetry ==
    /\ send = "try"
    /\ PollDev
    /\ tries' = tries - 1
    /\ send' = IF tries > 1 THEN "try" ELSE "queue"
    /\ sendUnchanged /\ UNCHANGED <<txq, pending, info, next, sent, dropped, pool>>

SendQueue ==
    /\ send = "queue"
    /\ txq' = [txq EXCEPT ![info] = Append(@, Msg)]
    /\ send' = "sched"
    /\ sendUnchanged
    /\ UNCHANGED <<pending, info, tries, next, sent, dropped, pool, stopped>>

\* schedule_delayed_work(&npinfo->tx_work, 0)
SendSchedule ==
    /\ send = "sched"
    /\ pending' = [pending EXCEPT ![info] = TRUE]
    /\ send' = "idle"
    /\ sendUnchanged /\ UNCHANGED <<txq, info, tries, next, sent, dropped, pool, stopped>>

Send ==
    \/ SendBegin \/ SendLook \/ SendTry \/ SendRetry \/ SendQueue \/ SendSchedule
-----------------------------------------------------------------------------
(***************************************************************************)
(* queue_process, the delayed work of a netpoll_info.  What it does after  *)
(* the netpoll_info is freed is undefined; the model stops it there.       *)
(***************************************************************************)
workUnchanged == UNCHANGED <<active, npinfo, infoVars, sendVars, pool, running>>

WorkStart(i) ==
    /\ work[i] = "idle" /\ pending[i] /\ life[i] # "freed"
    /\ pending' = [pending EXCEPT ![i] = FALSE]
    /\ work' = [work EXCEPT ![i] = "dequeue"]
    /\ workUnchanged /\ UNCHANGED <<txq, hand, sent, dropped, stopped>>

\* Mutant: the message of an interface that is down is freed and then sent.
WorkDequeueFallsThrough(i) ==
    /\ work[i] = "dequeue" /\ life[i] # "freed"
    /\ IF txq[i] = <<>>
       THEN work' = [work EXCEPT ![i] = "idle"] /\ UNCHANGED <<txq, hand, dropped>>
       ELSE /\ txq' = [txq EXCEPT ![i] = Tail(@)]
            /\ dropped' = IF running THEN dropped ELSE dropped \cup {Head(txq[i])}
            /\ hand' = [hand EXCEPT ![i] = Head(txq[i])]
            /\ work' = [work EXCEPT ![i] = "xmit"]
    /\ workUnchanged /\ UNCHANGED <<pending, sent, stopped>>

\* skb_dequeue; a message for an interface that is down is freed.
WorkDequeue(i) ==
    /\ work[i] = "dequeue" /\ life[i] # "freed"
    /\ IF txq[i] = <<>>
       THEN work' = [work EXCEPT ![i] = "idle"] /\ UNCHANGED <<txq, hand, dropped>>
       ELSE /\ txq' = [txq EXCEPT ![i] = Tail(@)]
            /\ IF running
               THEN /\ hand' = [hand EXCEPT ![i] = Head(txq[i])]
                    /\ work' = [work EXCEPT ![i] = "xmit"]
                    /\ UNCHANGED dropped
               ELSE dropped' = dropped \cup {Head(txq[i])} /\ UNCHANGED <<work, hand>>
    /\ workUnchanged /\ UNCHANGED <<pending, sent, stopped>>

\* Mutant: the test of the stopped queue is inverted.
WorkXmitInverted(i) ==
    /\ work[i] = "xmit" /\ life[i] # "freed" /\ stopped
    /\ sent' = Append(sent, hand[i]) /\ stopped' \in BOOLEAN
    /\ hand' = [hand EXCEPT ![i] = 0]
    /\ work' = [work EXCEPT ![i] = "dequeue"]
    /\ workUnchanged /\ UNCHANGED <<txq, pending, dropped>>

WorkXmit(i) ==
    /\ work[i] = "xmit" /\ life[i] # "freed" /\ ~stopped
    /\ sent' = Append(sent, hand[i]) /\ stopped' \in BOOLEAN
    /\ hand' = [hand EXCEPT ![i] = 0]
    /\ work' = [work EXCEPT ![i] = "dequeue"]
    /\ workUnchanged /\ UNCHANGED <<txq, pending, dropped>>

\* Mutant: the message is put back at the tail.
WorkRequeueAtTail(i) ==
    /\ work[i] = "xmit" /\ life[i] # "freed"
    /\ txq' = [txq EXCEPT ![i] = Append(@, hand[i])]
    /\ hand' = [hand EXCEPT ![i] = 0]
    /\ work' = [work EXCEPT ![i] = "sched"]
    /\ workUnchanged /\ UNCHANGED <<pending, sent, dropped, stopped>>

\* The queue is stopped or the device is busy: the message goes back to the head
\* of txq.
WorkRequeue(i) ==
    /\ work[i] = "xmit" /\ life[i] # "freed"
    /\ txq' = [txq EXCEPT ![i] = <<hand[i]>> \o @]
    /\ hand' = [hand EXCEPT ![i] = 0]
    /\ work' = [work EXCEPT ![i] = "sched"]
    /\ workUnchanged /\ UNCHANGED <<pending, sent, dropped, stopped>>

\* Mutant: the work is not scheduled again.
WorkScheduleNever(i) ==
    /\ work[i] = "sched" /\ life[i] # "freed"
    /\ work' = [work EXCEPT ![i] = "idle"]
    /\ workUnchanged /\ UNCHANGED <<txq, pending, hand, sent, dropped, stopped>>

\* schedule_delayed_work(&npinfo->tx_work, HZ/10)
WorkSchedule(i) ==
    /\ work[i] = "sched" /\ life[i] # "freed"
    /\ pending' = [pending EXCEPT ![i] = TRUE]
    /\ work' = [work EXCEPT ![i] = "idle"]
    /\ workUnchanged /\ UNCHANGED <<txq, hand, sent, dropped, stopped>>

Work(i) ==
    \/ WorkStart(i) \/ WorkDequeue(i) \/ WorkXmit(i) \/ WorkRequeue(i)
    \/ WorkSchedule(i)
-----------------------------------------------------------------------------
\* The device has sent what its ring held and restarts its queue.
TxDone ==
    /\ stopped /\ stopped' = FALSE
    /\ UNCHANGED <<active, npinfo, infoVars, workVars, sendVars, sent, dropped, pool,
                   running>>

IfUpDown ==
    /\ running' = ~running
    /\ UNCHANGED <<active, npinfo, infoVars, workVars, sendVars, sent, dropped, pool,
                   stopped>>

Next ==
    \/ \E n \in Netpolls : Setup(n) \/ SetupFails(n) \/ Cleanup(n)
    \/ SendUdp \/ Send \/ TxDone \/ IfUpDown
    \/ \E i \in Infos : Rcu(i) \/ Work(i)

Spec == Init /\ [][Next]_vars

(***************************************************************************)
(* A sender, a worker and an RCU callback that can run do run, the device  *)
(* restarts a stopped queue, and it takes a message that it is offered     *)
(* over and over.                                                          *)
(***************************************************************************)
Fairness ==
    /\ WF_vars(Send) /\ WF_vars(TxDone)
    /\ \A i \in Infos : WF_vars(Work(i)) /\ WF_vars(Rcu(i)) /\ SF_vars(WorkXmit(i))

FairSpec == Spec /\ Fairness
-----------------------------------------------------------------------------
TypeOK ==
    /\ active \in [Netpolls -> BOOLEAN] /\ npinfo \in Infos \cup {NoInfo}
    /\ refcnt \in [Infos -> 0..Cardinality(Netpolls)]
    /\ life \in [Infos -> {"unused", "live", "rcu", "purged", "cancelled",
                           "purged again", "freed"}]
    /\ txq \in [Infos -> Seq(1..MaxMsgs)] /\ pending \in [Infos -> BOOLEAN]
    /\ work \in [Infos -> {"idle", "dequeue", "xmit", "sched"}]
    /\ hand \in [Infos -> 0..MaxMsgs]
    /\ send \in {"idle", "begin", "look", "try", "queue", "sched"}
    /\ info \in Infos \cup {NoInfo}
    /\ tries \in 0..Tries /\ next \in 1..(MaxMsgs + 1)
    /\ sent \in Seq(1..MaxMsgs) /\ dropped \subseteq 1..MaxMsgs
    /\ pool \in 0..PoolSize /\ stopped \in BOOLEAN /\ running \in BOOLEAN

Times(q, m) == Cardinality({k \in DOMAIN q : q[k] = m})

\* The places message m is in.
Copies(m) ==
    LET InSender == IF m = Msg /\ send \notin {"idle", "sched"} THEN 1 ELSE 0
        InQueues == {at \in Infos \X (1..MaxMsgs) :
                        at[2] \in DOMAIN txq[at[1]] /\ txq[at[1]][at[2]] = m}
        InHands == {i \in Infos : hand[i] = m}
        Freed == IF m \in dropped THEN 1 ELSE 0
    IN  InSender + Cardinality(InQueues) + Cardinality(InHands) + Times(sent, m) + Freed

\* A message is never lost track of, never sent twice and never both sent and
\* freed: sender, queue, worker and cleanup hand over the one sk_buff
\* (__netpoll_send_skb, queue_process, rcu_cleanup_netpoll_info).
MessageOnce == \A m \in 1..(next - 1) : Copies(m) = 1

Channel == INSTANCE MessageChannel WITH accepted <- Msg

\* Seen from the console, the queue, its worker, the retries and the cleanup are a
\* channel: an accepted message is sent at most once or dropped, for good, and only
\* an accepted message is ever sent (netpoll_send_udp, __netpoll_send_skb,
\* queue_process, rcu_cleanup_netpoll_info).
ChannelImplemented == Channel!Spec

\* A message on the txq of a netpoll_info in use always has queue_process running,
\* pending or about to be scheduled: a requeue or an enqueue behind a worker that
\* is about to return is not left lying (queue_process, __netpoll_send_skb).
QueuedHasWork ==
    \A i \in Infos : life[i] \in {"live", "rcu"} /\ txq[i] # <<>> =>
        pending[i] \/ work[i] # "idle" \/ (send = "sched" /\ info = i)

\* The netpoll_info a sender has read is neither purged nor freed before it
\* returns, and the one published on the device is referenced
\* (__netpoll_send_skb, __netpoll_cleanup).
SenderInfoAlive ==
    /\ send \notin {"idle", "begin"} => life[info] \in {"live", "rcu"}
    /\ npinfo # NoInfo => life[npinfo] = "live" /\ refcnt[npinfo] > 0

\* Message m waits on the txq of i or is in the hands of its worker.
Waits(i, m) == hand[i] = m \/ m \in Messages(txq[i])

\* A queued message is sent or freed, unless its netpoll_info is freed under the
\* worker (queue_process reschedules itself until the device takes it).
QueuedIsSettled ==
    \A m \in 1..MaxMsgs :
        (\E i \in Infos : Waits(i, m))
            ~> \/ m \in dropped \cup Messages(sent)
               \/ \E i \in Infos : life[i] = "freed" /\ Waits(i, m)

\* queue_process sends no message while an older one waits on the same txq: the one
\* it could not send and puts back, behind which more may have been queued since,
\* is still the first it takes (queue_process, __netpoll_send_skb).
WorkerInOrder ==
    [][\A i \in Infos, m \in 1..MaxMsgs :
         hand[i] = m /\ sent' = Append(sent, m) => \A o \in 1..(m - 1) : ~Waits(i, o)]_vars

\* "don't get messages out of order": the device is handed the messages in the
\* order they are sent in (the comment on the empty txq a direct send asks for in
\* __netpoll_send_skb).  A message in the hands of queue_process is not on the txq.
MessagesInOrder == \A j, k \in DOMAIN sent : j < k => sent[j] < sent[k]
=============================================================================
