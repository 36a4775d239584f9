---------------------------- MODULE BlkMqQueue ----------------------------
(***************************************************************************)
(* What a blk-mq driver promises the block layer about requests: at most   *)
(* QueueDepth are outstanding, each one it is given is ended exactly once, *)
(* and it is ended eventually.                                             *)
(***************************************************************************)
EXTENDS Naturals, FiniteSets

CONSTANTS Submitters, QueueDepth

VARIABLE outstanding   \* whose request is with the driver

Init == outstanding = {}

Issue(s) ==
    /\ s \notin outstanding
    /\ Cardinality(outstanding) < QueueDepth
    /\ outstanding' = outstanding \cup {s}

End(s) ==
    /\ s \in outstanding
    /\ outstanding' = outstanding \ {s}

Next == \E s \in Submitters : Issue(s) \/ End(s)

Safety == Init /\ [][Next]_outstanding

Spec == Safety /\ \A s \in Submitters : WF_outstanding(End(s))
=============================================================================
