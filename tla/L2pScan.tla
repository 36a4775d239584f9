------------------------------- MODULE L2pScan -------------------------------
(***************************************************************************)
(* tools/l2p-scan.py: the map from logical to physical pages, rebuilt by   *)
(* reading the out-of-band words of every physical page and keeping the    *)
(* newest copy of each logical page.  rk-ftl.c decodes the words and       *)
(* compares versions in the same way (rk_ftl_read_oob, rk_ftl_ver_newer).  *)
(*                                                                         *)
(* A page is known by the number of the write that made it, its age in the *)
(* model only; the version in its words is that number on a counter that   *)
(* wraps.                                                                  *)
(***************************************************************************)
EXTENDS Integers

CONSTANTS
    NPages,        \* physical pages of the device
    OffsetPages,   \* 2^32 / PAGE: pages a 32-bit offset reaches
    Half,          \* 2^31, half the range of a version
    Steps,         \* STEPS, words of a page
    Lpns,
    MagicSpan,     \* 2^16: the magic is the low half of the first word
    DataMagic,     \* 0xF095
    Flashes        \* contents the device may have

Mod == 2 * Half
Pages == 0..(NPages - 1)

\* A physical page: whether its words can be read, and what was written to it.
PageType == [ok: BOOLEAN, tag: Nat, magic: 0..(MagicSpan - 1), age: Nat, lpn: Lpns]

VARIABLES
    flash,         \* the device, never written by the scan
    pg,            \* loop counter
    lpn2phys       \* for every logical page, its entry

vars == <<flash, pg, lpn2phys>>

None == [page |-> -1, ver |-> -1]

Init ==
    /\ flash \in Flashes
    /\ pg = 0 /\ lpn2phys = [l \in Lpns |-> None]
-----------------------------------------------------------------------------
(***************************************************************************)
(* The words of a page.                                                    *)
(***************************************************************************)

\* The vendor's write counter wraps and skips the value of an erased word.
Version(age) == age % (Mod - 1)

\* rk_ftl_sysword_pos, sw: the controller driver shows the word of step 0 last.
SyswordPos(step) == IF step = 0 THEN Steps - 1 ELSE step - 1

\* The words as the vendor wrote them, step by step, and as they are read: the layout
\* that rk-ftl.h and l2p-scan.py decode, with the magic of the page in step 0.
\* phase-a-plane-interleave.md (line 70) says otherwise of the board's flash: that word
\* is a footer all pages share, and the magic is in sys-word 2.  On such a flash every
\* page is a data page to the scan.
Written(p) == [s \in 0..(Steps - 1) |->
                  IF s = 0 THEN p.tag * MagicSpan + p.magic
                  ELSE IF s = 1 THEN Version(p.age)
                  ELSE IF s = 2 THEN p.lpn ELSE 0]
Exposed(p) == [w \in 0..(Steps - 1) |->
                  Written(p)[IF w = Steps - 1 THEN 0 ELSE w + 1]]

\* rk_ftl_read_oob
ReadOob(p) ==
    [magic |-> Exposed(p)[SyswordPos(0)] % MagicSpan,
     version |-> Exposed(p)[SyswordPos(1)], lpn |-> Exposed(p)[SyswordPos(2)]]

\* rk_ftl_ver_newer, newer
VerNewer(a, b) == (a - b) % Mod < Half + 1

\* The page that MEMREADOOB reads for page n: the offset n * PAGE is put into the
\* 32-bit field start.
Seek(n) == n % OffsetPages
-----------------------------------------------------------------------------
\* One round of the loop: a page that cannot be read, or that is not a data page,
\* is skipped.
Scan ==
    /\ pg < NPages
    /\ LET p == flash[Seek(pg)]  o == ReadOob(p) IN
       lpn2phys' = IF /\ p.ok /\ o.magic = DataMagic
                      /\ \/ lpn2phys[o.lpn] = None
                         \/ VerNewer(o.version, lpn2phys[o.lpn].ver)
                   THEN [lpn2phys EXCEPT ![o.lpn] = [page |-> pg, ver |-> o.version]]
                   ELSE lpn2phys
    /\ pg' = pg + 1
    /\ UNCHANGED flash

Next == Scan

Spec == Init /\ [][Next]_vars
-----------------------------------------------------------------------------
\* The readable data pages below n that hold logical page l.
CopiesBelow(n, l) ==
    {q \in 0..(n - 1) : flash[q].ok /\ flash[q].magic = DataMagic /\ flash[q].lpn = l}

\* p is a copy of l and no copy below n is younger.
NewestBelow(n, l, p) ==
    /\ p \in CopiesBelow(n, l)
    /\ \A q \in CopiesBelow(n, l) : flash[q].age <= flash[p].age

\* When every page has been scanned, the map names for each logical page its newest
\* readable copy, and nothing for a logical page without one (the loop of
\* l2p-scan.py over all pages).
NewestPerLpn ==
    pg = NPages =>
        \A l \in Lpns :
            IF CopiesBelow(NPages, l) = {} THEN lpn2phys[l] = None
            ELSE NewestBelow(NPages, l, lpn2phys[l].page)
=============================================================================
