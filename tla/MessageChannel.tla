--------------------------- MODULE MessageChannel ---------------------------
(***************************************************************************)
(* What netpoll promises to the console that writes to it.  Messages are   *)
(* accepted one by one; an accepted message is later sent once or dropped  *)
(* once, never both and never taken back.  Any order, any delay.           *)
(***************************************************************************)
EXTENDS Naturals, Sequences

VARIABLES
    accepted,     \* messages 1..accepted have been handed over
    sent,         \* the messages the device has taken, in the order it took them
    dropped       \* the messages freed unsent

vars == <<accepted, sent, dropped>>

Open == {m \in 1..accepted : m \notin dropped /\ \A k \in DOMAIN sent : sent[k] # m}

Init == accepted = 0 /\ sent = <<>> /\ dropped = {}

\* The next message is accepted, or given up at once.
Accept ==
    /\ accepted' = accepted + 1
    /\ dropped' \in {dropped, dropped \cup {accepted + 1}}
    /\ UNCHANGED sent

Deliver ==
    /\ \E m \in Open : sent' = Append(sent, m)
    /\ UNCHANGED <<accepted, dropped>>

Drop ==
    /\ \E S \in SUBSET Open : dropped' = dropped \cup S
    /\ UNCHANGED <<accepted, sent>>

Next == Accept \/ Deliver \/ Drop

Spec == Init /\ [][Next]_vars
=============================================================================
