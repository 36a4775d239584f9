-------------------------------- MODULE RkFtl --------------------------------
(***************************************************************************)
(* rk-ftl.c: the read-only translation layer above the mainline NAND       *)
(* driver, for one MTD device.  It is bound (rk_ftl_add_mtd), builds the   *)
(* logical to physical map region by region, serves sectors through a      *)
(* one-page cache, and is unbound (rk_ftl_remove_dev).                     *)
(*                                                                         *)
(* rk_ftl_map_recovery sets every entry of region_to_ppa to INVALID; its   *)
(* walk over the map blocks is a TODO of the source.  RegionTables holds   *)
(* the tables it may leave: the one of today's code, and ones a walk could *)
(* produce, so that the expansion and the reads below are checked for      *)
(* them.  The contents of a page are named by its number.                  *)
(***************************************************************************)
EXTENDS Integers, FiniteSets

CONSTANTS
    Readers,       \* contexts that read sectors
    Spp,           \* RK_FTL_SPP, sectors of a page
    Epr,           \* RK_FTL_ENTRIES_PER_REGION
    PagesPerBlock, \* of the MTD device
    TotalPages,    \* of the MTD device
    PpaPages,      \* 2^10: pages a PPA tells apart in a block
    PpaSpan,       \* 2^26: the part of a PPA that names block and page
    Invalid,       \* RK_FTL_PPA_INVALID
    MapPages,      \* the payload of every physical page, read as a map page
    RegionTables   \* what rk_ftl_map_recovery may leave in region_to_ppa

ASSUME GeometryIsPositive ==
    {Spp, Epr, PagesPerBlock, TotalPages, PpaPages, PpaSpan} \subseteq Nat \ {0}

VARIABLES
    add,           \* where rk_ftl_add_mtd or rk_ftl_remove_dev is
    alloc,         \* allocations of this instance
    region_to_ppa,
    region,        \* loop counter of rk_ftl_expand_l2p
    l2p,
    page_buf,      \* contents of the page buffer
    page_buf_lpn,
    lock,          \* holder of mbd.lock, or Free
    rd,            \* where each reader is, the sector it wants and what it got
    holes,         \* history: regions whose map page could not be read
    torn           \* history: a failed read has overwritten the cached page

vars == <<add, alloc, region_to_ppa, region, l2p, page_buf, page_buf_lpn, lock, rd,
          holes, torn>>
mapVars == <<region_to_ppa, region, l2p, holes>>
cacheVars == <<page_buf, page_buf_lpn, torn>>
-----------------------------------------------------------------------------
(***************************************************************************)
(* Geometry.                                                               *)
(***************************************************************************)
Free == "free"
ASSUME FreeIsNoReader == Free \notin Readers

Device == {"ftl", "oob_buf", "page_buf", "region_to_ppa", "l2p"}
NoLpn == -1                        \* ~0u, no page number

\* RK_FTL_PPA_PAGE and RK_FTL_PPA_BLK drop the SLC flag and what else is above
\* bit 25.
PpaPage(ppa) == ppa % PpaPages
PpaBlk(ppa) == (ppa % PpaSpan) \div PpaPages

\* rk_ftl_ppa_to_linear
Linear(ppa) == PpaBlk(ppa) * PagesPerBlock + PpaPage(ppa)

Page(n) == <<"page", n>>
Zero == <<"zero", 0>>
Junk == <<"junk", 0>>              \* uninitialised, or what a failed read left

\* rk_ftl_load_sysinfo: the capacity is a placeholder, the whole device.
capacity == TotalPages

\* DIV_ROUND_UP
num_regions == (capacity + Epr - 1) \div Epr

Lpns == 0..(capacity - 1)
Regions == 0..(num_regions - 1)
Ppas == Nat \cup {Invalid}

ASSUME MapsHoldPpas ==
    /\ Invalid \notin Nat
    /\ MapPages \in [0..(TotalPages - 1) -> [0..(Epr - 1) -> Ppas]]
    /\ RegionTables \subseteq [Regions -> Ppas]

\* One page beyond the end is asked for too; the block layer's size is in sectors.
Blocks == 0..((capacity + 1) * Spp - 1)

\* A reader that is not in rk_ftl_readsect, and what its last call returned.
Returned(got) == [at |-> "idle", block |-> 0, got |-> got]
Error == <<Junk, 0>>

Init ==
    /\ add = "absent" /\ alloc = {}
    /\ region_to_ppa = [r \in Regions |-> Invalid] /\ region = 0
    /\ l2p = [l \in Lpns |-> Invalid]
    /\ page_buf = Junk /\ page_buf_lpn = NoLpn
    /\ lock = Free /\ rd = [x \in Readers |-> Returned(Error)]
    /\ holes = {} /\ torn = FALSE
-----------------------------------------------------------------------------
(***************************************************************************)
(* rk_ftl_add_mtd.  A device of another type or page size is not bound.    *)
(***************************************************************************)
bindUnchanged == UNCHANGED <<lock, rd>>

\* If kzalloc of the context fails nothing has happened.
AddMtd ==
    /\ add = "absent"
    /\ add' = "buffers" /\ alloc' = {"ftl"} /\ page_buf_lpn' = NoLpn
    /\ bindUnchanged /\ UNCHANGED <<mapVars, page_buf, torn>>

\* Both buffers are asked for before either is tested.
AddBuffers ==
    /\ add = "buffers"
    /\ \E got \in SUBSET {"oob_buf", "page_buf"} :
         /\ alloc' = alloc \cup got
         /\ add' = IF got = {"oob_buf", "page_buf"} THEN "recover" ELSE "err_free"
    /\ page_buf' = Junk /\ torn' = FALSE
    /\ bindUnchanged /\ UNCHANGED <<mapVars, page_buf_lpn>>

\* rk_ftl_scan_sysblk, rk_ftl_load_sysinfo and rk_ftl_map_recovery; the first two
\* cannot fail.
MapRecovery ==
    /\ add = "recover"
    /\ \/ /\ add' = "l2p" /\ alloc' = alloc \cup {"region_to_ppa"}
          /\ region_to_ppa' \in RegionTables
       \/ add' = "err_free" /\ UNCHANGED <<alloc, region_to_ppa>>
    /\ bindUnchanged /\ UNCHANGED <<region, l2p, holes, cacheVars>>

\* rk_ftl_expand_l2p up to its loop.
ExpandStart ==
    /\ add = "l2p"
    /\ \/ /\ add' = "expand" /\ alloc' = alloc \cup {"l2p"}
          /\ l2p' = [l \in Lpns |-> Invalid] /\ region' = 0 /\ holes' = {}
       \/ add' = "err_free" /\ UNCHANGED <<alloc, region, l2p, holes>>
    /\ bindUnchanged /\ UNCHANGED <<region_to_ppa, cacheVars>>

\* rk_ftl_read_page into the page buffer.  Corrected bit flips are a success; a
\* failure leaves the buffer as it was or with some of what was read, and a page
\* outside the device always fails.
ReadPage(p, ok) ==
    IF ok THEN p < TotalPages /\ page_buf' = Page(p) ELSE page_buf' \in {page_buf, Junk}

\* l2p with n entries of a map page stored from entry base on, those that are INVALID
\* skipped.  A store beyond the allocation would make the domain grow.
Stored(base, n, words) ==
    LET copied == {l \in base..(base + n - 1) : words[l - base] # Invalid}
    IN  [l \in Lpns \cup copied |-> IF l \in copied THEN words[l - base] ELSE l2p[l]]

\* Mutant: the entries are not capped at the capacity.
ExpandedUncapped(r, words) == Stored(r * Epr, Epr, words)

\* What rk_ftl_expand_l2p makes of l2p from the map page of region r: the last region
\* is capped at the capacity.
Expanded(r, words) ==
    LET base == r * Epr
        n == IF Epr < capacity - base THEN Epr ELSE capacity - base
    IN  Stored(base, n, words)

\* One round of the loop.  A page that cannot be read leaves its region as holes.
ExpandRegion ==
    /\ add = "expand" /\ region \in Regions
    /\ LET ppa == region_to_ppa[region] IN
       \/ ppa = Invalid /\ UNCHANGED <<l2p, page_buf, holes>>
       \/ /\ ppa # Invalid /\ ReadPage(Linear(ppa), TRUE)
          /\ l2p' = Expanded(region, MapPages[Linear(ppa)])
          /\ UNCHANGED holes
       \/ /\ ppa # Invalid
          /\ ReadPage(Linear(ppa), FALSE) /\ holes' = holes \cup {region}
          /\ UNCHANGED l2p
    /\ region' = region + 1
    /\ bindUnchanged /\ UNCHANGED <<add, alloc, region_to_ppa, page_buf_lpn, torn>>

\* The loop is done and the page buffer is declared empty; rk_ftl_overlay_open
\* does nothing yet.  add_mtd_blktrans_dev then makes the disk, or fails.
AddDisk ==
    /\ add = "expand" /\ region = num_regions
    /\ page_buf_lpn' = NoLpn
    /\ add' \in {"live", "err_free"}
    /\ bindUnchanged /\ UNCHANGED <<alloc, mapVars, page_buf, torn>>

ErrFree ==
    /\ add = "err_free"
    /\ add' = "absent" /\ alloc' = {}
    /\ bindUnchanged /\ UNCHANGED <<mapVars, cacheVars>>
-----------------------------------------------------------------------------
(***************************************************************************)
(* rk_ftl_remove_dev: del_mtd_blktrans_dev takes the disk away, waiting    *)
(* for the requests that are being served; then everything is freed.       *)
(***************************************************************************)
DelDisk ==
    /\ add = "live" /\ add' = "deleting"
    /\ bindUnchanged /\ UNCHANGED <<alloc, mapVars, cacheVars>>

\* Mutant: the memory is freed before the disk is gone.
RemoveDevAtOnce ==
    /\ add = "deleting"
    /\ add' = "absent" /\ alloc' = {}
    /\ bindUnchanged /\ UNCHANGED <<mapVars, cacheVars>>

RemoveDev ==
    /\ add = "deleting" /\ \A x \in Readers : rd[x].at = "idle"
    /\ add' = "absent" /\ alloc' = {}
    /\ bindUnchanged /\ UNCHANGED <<mapVars, cacheVars>>
-----------------------------------------------------------------------------
(***************************************************************************)
(* rk_ftl_readsect, called by the translation core with mbd.lock held.     *)
(***************************************************************************)
readUnchanged == UNCHANGED <<add, alloc, mapVars>>

Lpn(b) == b \div Spp

Slice(p, b) == <<p, b % Spp>>

BeyondEnd(b) == Lpn(b) >= capacity

ReadStart(x, b) ==
    /\ add = "live" /\ rd[x].at = "idle"
    /\ rd' = [rd EXCEPT ![x] = [at |-> "lock", block |-> b, got |-> Error]]
    /\ readUnchanged /\ UNCHANGED <<cacheVars, lock>>

\* The lock; a sector beyond the end reads as zeros, one of the cached page is
\* copied from the buffer, a hole fills the buffer with zeros.
ReadLookup(x) ==
    LET b == rd[x].block  lpn == Lpn(b) IN
    /\ rd[x].at = "lock" /\ lock = Free
    /\ IF BeyondEnd(b)
       THEN /\ rd' = [rd EXCEPT ![x] = Returned(Slice(Zero, b))]
            /\ UNCHANGED <<cacheVars, lock>>
       ELSE /\ lock' = x
            /\ IF page_buf_lpn = lpn
               THEN rd' = [rd EXCEPT ![x].at = "copy"] /\ UNCHANGED cacheVars
               ELSE IF l2p[lpn] = Invalid
               THEN /\ page_buf' = Zero /\ page_buf_lpn' = lpn /\ torn' = FALSE
                    /\ rd' = [rd EXCEPT ![x].at = "copy"]
               ELSE rd' = [rd EXCEPT ![x].at = "fill"] /\ UNCHANGED cacheVars
    /\ readUnchanged

\* Mutant: the page is named before it is read.
ReadFillNamesFirst(x) ==
    LET lpn == Lpn(rd[x].block)  p == Linear(l2p[lpn]) IN
    /\ rd[x].at = "fill" /\ page_buf_lpn' = lpn
    /\ \/ /\ ReadPage(p, TRUE) /\ torn' = FALSE
          /\ rd' = [rd EXCEPT ![x].at = "copy"] /\ UNCHANGED lock
       \/ /\ ReadPage(p, FALSE) /\ torn' = (torn \/ page_buf' # page_buf)
          /\ rd' = [rd EXCEPT ![x] = Returned(Error)] /\ lock' = Free
    /\ readUnchanged

\* Mutant: a failed read, that has left the buffer as it was, is tried again.
ReadFillRetries(x) ==
    LET lpn == Lpn(rd[x].block)  p == Linear(l2p[lpn]) IN
    /\ rd[x].at = "fill"
    /\ \/ /\ ReadPage(p, TRUE) /\ torn' = FALSE
          /\ page_buf_lpn' = lpn
          /\ rd' = [rd EXCEPT ![x].at = "copy"]
       \/ UNCHANGED <<rd, cacheVars>>
    /\ readUnchanged /\ UNCHANGED lock

\* The page is read into the page buffer.  A failure returns at once, and
\* page_buf_lpn still names the page before.
ReadFill(x) ==
    LET lpn == Lpn(rd[x].block)  p == Linear(l2p[lpn]) IN
    /\ rd[x].at = "fill"
    /\ \/ /\ ReadPage(p, TRUE) /\ torn' = FALSE
          /\ page_buf_lpn' = lpn
          /\ rd' = [rd EXCEPT ![x].at = "copy"] /\ UNCHANGED lock
       \/ /\ ReadPage(p, FALSE) /\ torn' = (torn \/ page_buf' # page_buf)
          /\ rd' = [rd EXCEPT ![x] = Returned(Error)] /\ lock' = Free
          /\ UNCHANGED page_buf_lpn
    /\ readUnchanged

\* Mutant: the first sector of the page is copied.
ReadCopyFirst(x) ==
    /\ rd[x].at = "copy"
    /\ rd' = [rd EXCEPT ![x] = Returned(Slice(page_buf, 0))]
    /\ lock' = Free
    /\ readUnchanged /\ UNCHANGED cacheVars

ReadCopy(x) ==
    /\ rd[x].at = "copy"
    /\ rd' = [rd EXCEPT ![x] = Returned(Slice(page_buf, rd[x].block))]
    /\ lock' = Free
    /\ readUnchanged /\ UNCHANGED cacheVars

Read(x) == ReadLookup(x) \/ ReadFill(x) \/ ReadCopy(x)
-----------------------------------------------------------------------------
Bind ==
    \/ AddBuffers \/ MapRecovery \/ ExpandStart \/ ExpandRegion \/ AddDisk \/ ErrFree
    \/ RemoveDev

Next ==
    \/ AddMtd \/ Bind \/ DelDisk
    \/ \E x \in Readers : Read(x) \/ \E b \in Blocks : ReadStart(x, b)

Spec == Init /\ [][Next]_vars

\* A callback of the core that has begun runs to its end, and so does a read.
Fairness == WF_vars(Bind) /\ \A x \in Readers : SF_vars(Read(x))

FairSpec == Spec /\ Fairness
-----------------------------------------------------------------------------
Contents == {Zero, Junk} \cup {Page(p) : p \in 0..(TotalPages - 1)}

TypeOK ==
    /\ add \in {"absent", "buffers", "recover", "l2p", "expand", "err_free", "live",
                "deleting"}
    /\ alloc \subseteq Device
    /\ region_to_ppa \in [Regions -> Ppas] /\ region \in 0..num_regions
    /\ l2p \in [Lpns -> Ppas]
    /\ page_buf \in Contents /\ page_buf_lpn \in Lpns \cup {NoLpn}
    /\ lock \in Readers \cup {Free}
    /\ rd \in [Readers -> [at: {"idle", "lock", "fill", "copy"}, block: Blocks,
                           got: Contents \X (0..(Spp - 1))]]
    /\ holes \subseteq Regions /\ torn \in BOOLEAN

\* What the map pages say of a logical page, looked up entry by entry instead of
\* region by region.
Mapped(lpn) ==
    LET r == lpn \div Epr  ppa == region_to_ppa[r] IN
    IF ppa = Invalid \/ r \in holes THEN Invalid
    ELSE MapPages[Linear(ppa)][lpn % Epr]

Want(lpn) ==
    IF lpn \notin Lpns \/ Mapped(lpn) = Invalid THEN Zero ELSE Page(Linear(Mapped(lpn)))

\* The expansion stores nothing outside l2p, and the disk is there only with the whole
\* map expanded: each entry of each readable map page, the last and partial region
\* included, and nothing else (rk_ftl_expand_l2p, rk_ftl_add_mtd).
MapComplete ==
    /\ DOMAIN l2p = Lpns
    /\ add \in {"live", "deleting"} =>
         region = num_regions /\ \A l \in Lpns : l2p[l] = Mapped(l)

\* The page buffer holds the page page_buf_lpn names, unless a failed read has
\* overwritten it since: the fast path of rk_ftl_readsect takes it on trust.  The
\* exception is real, rk_ftl_readsect returns without resetting page_buf_lpn.
CacheHonest == page_buf_lpn # NoLpn /\ ~torn => page_buf = Want(page_buf_lpn)

\* A sector returned without an error is the slice of the page that the map names,
\* or zeros for a hole or beyond the end, whoever read in between; the exception
\* is that of CacheHonest (rk_ftl_readsect).
SectorIsMapped ==
    [][\A x \in Readers :
          rd[x].at \in {"lock", "copy"} /\ rd'[x].at = "idle" =>
              torn \/ rd'[x].got = Slice(Want(Lpn(rd[x].block)), rd[x].block)]_vars

\* The sector of a block as the map has it; one whose page is outside the device
\* cannot be read.
Sector(b) ==
    IF Want(Lpn(b)) \in Contents THEN Slice(Want(Lpn(b)), b) ELSE Error

Attached == add \in {"live", "deleting"}

Disk == INSTANCE ReadOnlyDisk WITH
    Sectors <- Contents \X (0..(Spp - 1)),
    disk <- CASE add = "live" -> "open" [] add = "deleting" -> "closing"
              [] OTHER -> "gone",
    contents <- [b \in Blocks |-> IF Attached THEN Sector(b) ELSE Error],
    asked <- [x \in Readers |-> IF rd[x].at = "idle" THEN -1 ELSE rd[x].block],
    answer <- [x \in Readers |-> rd[x].got],
    spoiled <- torn

\* The device is a read-only disk: its contents are settled by the bind and outlive
\* the last reader, every read is answered once, with the sector the map names, with
\* zeros for a hole, or with an error, whoever read in between; the exception is that
\* of CacheHonest (rk_ftl_add_mtd, rk_ftl_readsect, rk_ftl_remove_dev).
DiskImplemented == Disk!Spec

\* Whoever is in rk_ftl_readsect has the map and the buffer, and everything is
\* freed when the device is not bound: an unbind waits for readers, and a bind that
\* fails in the middle frees what it had (rk_ftl_remove_dev, err_free).
MemoryOwned ==
    /\ (\E x \in Readers : rd[x].at # "idle") => alloc = Device
    /\ add = "absent" => alloc = {}

\* An unbind, like a bind, comes to its end: readers release mbd.lock and the disk
\* takes no new ones (rk_ftl_remove_dev).
UnbindEnds == add = "deleting" ~> add = "absent"
=============================================================================
