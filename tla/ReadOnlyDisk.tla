---------------------------- MODULE ReadOnlyDisk ----------------------------
(***************************************************************************)
(* What the translation layer promises the readers of its disk.  The       *)
(* contents are settled before the disk opens and stay what they are until *)
(* it is gone; a read is answered once, with the sector or with an error;  *)
(* the disk goes only when nobody is reading.  Once a read has failed, and *)
(* until the disk has been refreshed, an answer may be any sector.         *)
(***************************************************************************)
EXTENDS Integers

CONSTANTS Readers, Blocks, Sectors, Error

VARIABLES
    disk,       \* "gone", "open", or "closing" when it takes no more reads
    contents,   \* the sector in each block; Error in one that cannot be read
    asked,      \* the block each reader waits for, or Nothing
    answer,     \* the last answer of each
    spoiled     \* a failed read has left its traces

vars == <<disk, contents, asked, answer, spoiled>>

Nothing == -1
Blank == [b \in Blocks |-> Error]

Init ==
    /\ disk = "gone" /\ contents = Blank
    /\ asked = [x \in Readers |-> Nothing] /\ answer = [x \in Readers |-> Error]
    /\ spoiled = FALSE

Open ==
    /\ disk = "gone" /\ disk' = "open"
    /\ contents' \in [Blocks -> Sectors]
    /\ UNCHANGED <<asked, answer, spoiled>>

Close ==
    /\ disk = "open" /\ disk' = "closing"
    /\ UNCHANGED <<contents, asked, answer, spoiled>>

Remove ==
    /\ disk = "closing" /\ \A x \in Readers : asked[x] = Nothing
    /\ disk' = "gone" /\ contents' = Blank
    /\ UNCHANGED <<asked, answer, spoiled>>

Ask(x, b) ==
    /\ disk = "open" /\ asked[x] = Nothing
    /\ asked' = [asked EXCEPT ![x] = b] /\ answer' = [answer EXCEPT ![x] = Error]
    /\ UNCHANGED <<disk, contents, spoiled>>

Answer(x) ==
    /\ asked[x] # Nothing /\ asked' = [asked EXCEPT ![x] = Nothing]
    /\ \E s \in Sectors :
         /\ s = contents[asked[x]] \/ spoiled
         /\ answer' = [answer EXCEPT ![x] = s]
    /\ UNCHANGED <<disk, contents, spoiled>>

Fail(x) ==
    /\ asked[x] # Nothing /\ asked' = [asked EXCEPT ![x] = Nothing]
    /\ answer' = [answer EXCEPT ![x] = Error]
    /\ spoiled' \in {spoiled, TRUE}
    /\ UNCHANGED <<disk, contents>>

Refresh ==
    /\ spoiled' = FALSE
    /\ UNCHANGED <<disk, contents, asked, answer>>

Next ==
    \/ Open \/ Close \/ Remove \/ Refresh
    \/ \E x \in Readers : Answer(x) \/ Fail(x) \/ \E b \in Blocks : Ask(x, b)

Spec == Init /\ [][Next]_vars
=============================================================================
