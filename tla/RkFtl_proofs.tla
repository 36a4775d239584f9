----------------------------- MODULE RkFtl_proofs ----------------------------
(***************************************************************************)
(* The read-only translation layer for every geometry, every contents of   *)
(* the map pages and any number of readers: the map is complete before the *)
(* disk is there, the page buffer is what it says, and every sector read   *)
(* is the one the map names.                                               *)
(***************************************************************************)
EXTENDS RkFtl, TLAPS

\* Wide time limits: what is proved should not depend on the speed of the machine.
USE SMTT(30), ZenonT(60)

\* The strengthening the theorems need: what is allocated and cached at each point of
\* rk_ftl_add_mtd, how far the map is expanded, and what a reader past the lock knows.
BindInv ==
    /\ add \in {"absent", "buffers", "recover", "l2p", "expand", "err_free"} =>
         \A x \in Readers : rd[x].at = "idle"
    /\ add \in {"buffers", "recover", "l2p", "expand", "err_free"} => page_buf_lpn = NoLpn
    /\ add = "absent" => alloc = {}
    /\ add = "buffers" => alloc = {"ftl"}
    /\ add = "recover" => alloc = Device \ {"region_to_ppa", "l2p"}
    /\ add = "l2p" => alloc = Device \ {"l2p"}
    /\ add \in {"expand", "live", "deleting"} => alloc = Device

MapInv ==
    /\ add \in {"live", "deleting"} => region = num_regions
    /\ add \in {"expand", "live", "deleting"} =>
         /\ \A r \in holes : r < region
         /\ \A l \in Lpns : l2p[l] = IF l \div Epr < region THEN Mapped(l) ELSE Invalid

ReaderInv ==
    \A x \in Readers :
        /\ rd[x].at \in {"fill", "copy"} => lock = x /\ Lpn(rd[x].block) \in Lpns
        /\ rd[x].at = "fill" => l2p[Lpn(rd[x].block)] # Invalid
        /\ rd[x].at = "copy" => page_buf_lpn = Lpn(rd[x].block)


IInv == TypeOK /\ BindInv /\ MapInv /\ ReaderInv /\ CacheHonest
-----------------------------------------------------------------------------
(***************************************************************************)
(* Arithmetic of regions and pages.                                        *)
(***************************************************************************)

\* Every logical page is in one region, at the place its remainder says
\* (rk_ftl_expand_l2p).
LEMMA RegionOf ==
    ASSUME NEW l \in Nat, NEW e \in Nat \ {0}, NEW r \in Nat
    PROVE  /\ l \div e \in Nat /\ l % e \in 0..(e - 1) /\ l = e * (l \div e) + (l % e)
           /\ l \div e = r <=> r * e <= l /\ l < r * e + e
           /\ l \div e = r => l - r * e = l % e
<1>1. /\ l \div e \in Nat /\ l % e \in 0..(e - 1) /\ l = e * (l \div e) + (l % e)
  OBVIOUS
<1> DEFINE q == l \div e  m == l % e
<1>2. q \in Nat /\ m \in 0..(e - 1) /\ l = e * q + m
  BY <1>1
<1> HIDE DEF q, m
<1>3. q = r => r * e <= l /\ l < r * e + e /\ l - r * e = m
  BY <1>2
<1>4. ASSUME r * e <= l, l < r * e + e PROVE q = r
  <2>1. q < r => e * q + e <= r * e
    <3>1. q < r => e * (r - q - 1) >= 0
      BY <1>2
    <3>2. e * (r - q - 1) = r * e - e * q - e
      BY <1>2
    <3> QED  BY <3>1, <3>2, <1>2
  <2>2. r < q => r * e + e <= e * q
    <3>1. r < q => e * (q - r - 1) >= 0
      BY <1>2
    <3>2. e * (q - r - 1) = e * q - r * e - e
      BY <1>2
    <3> QED  BY <3>1, <3>2, <1>2
  <2> QED  BY <1>4, <2>1, <2>2, <1>2
<1> QED  BY <1>1, <1>3, <1>4 DEF q, m

\* The last region holds the last logical page (DIV_ROUND_UP).
LEMMA RegionsCover ==
    /\ capacity \in Nat \ {0} /\ num_regions \in Nat
    /\ \A l \in Lpns : l \div Epr \in Regions
<1>1. capacity \in Nat \ {0} /\ Epr \in Nat \ {0}
  BY GeometryIsPositive DEF capacity
<1> DEFINE s == capacity + Epr - 1  n == s \div Epr
<1>2. s \in Nat
  BY <1>1
<1>3. n \in Nat /\ s % Epr \in 0..(Epr - 1) /\ s = Epr * n + (s % Epr)
  BY <1>1, <1>2, RegionOf, ZenonT(60)
<1>4. num_regions = n
  BY DEF num_regions
<1>5. ASSUME NEW l \in Lpns PROVE l \div Epr \in Regions
  <2>1. l \in Nat /\ l < capacity
    BY <1>1 DEF Lpns
  <2> DEFINE q == l \div Epr
  <2>2. q \in Nat /\ l % Epr \in 0..(Epr - 1) /\ l = Epr * q + (l % Epr)
    BY <1>1, <2>1, RegionOf, ZenonT(60)
  <2> HIDE DEF q, n
  <2>3. Epr * q <= l
    BY <2>1, <2>2, <1>1
  <2>4. l < Epr * n
    BY <2>1, <1>1, <1>3
  <2>5. ~(n <= q)
    <3>1. n <= q => Epr * (q - n) >= 0
      BY <2>2, <1>1, <1>3
    <3>2. Epr * (q - n) = Epr * q - Epr * n
      BY <2>2, <1>1, <1>3
    <3> QED  BY <3>1, <3>2, <2>3, <2>4, <2>2, <1>3, <1>1, <2>1
  <2> QED  BY <2>5, <2>2, <1>3, <1>4 DEF Regions, q
<1> QED  BY <1>1, <1>3, <1>4, <1>5

LEMMA RegionsNonempty == num_regions \in Nat \ {0}
<1>1. 0 \in Lpns
  BY RegionsCover DEF Lpns
<1> QED  BY <1>1, RegionsCover DEF Regions

\* A page number computed from a PPA is a natural number.
LEMMA LinearIsNat == ASSUME NEW ppa \in Nat PROVE Linear(ppa) \in Nat
<1> PpaPages \in Nat \ {0} /\ PpaSpan \in Nat \ {0}
  BY GeometryIsPositive
<1>1. PpaPage(ppa) \in Nat
  BY DEF PpaPage
<1>2. ppa % PpaSpan \in Nat
  OBVIOUS
<1>3. PpaBlk(ppa) \in Nat
  BY <1>2 DEF PpaBlk
<1> QED  BY <1>1, <1>3, GeometryIsPositive DEF Linear

LEMMA LpnIsNat == ASSUME NEW b \in Blocks PROVE Lpn(b) \in Nat
<1>1. b \in Nat
  BY GeometryIsPositive DEF Blocks
<1> QED  BY <1>1, GeometryIsPositive, RegionOf DEF Lpn

LEMMA SliceInPage ==
    ASSUME NEW b \in Blocks, NEW p \in Contents
    PROVE  Slice(p, b) \in Contents \X (0..(Spp - 1))
<1>1. b \in Nat
  BY GeometryIsPositive DEF Blocks
<1>2. b % Spp \in 0..(Spp - 1)
  BY <1>1, GeometryIsPositive, RegionOf, ZenonT(60)
<1> QED  BY <1>2 DEF Slice
-----------------------------------------------------------------------------
(***************************************************************************)
(* The invariant.                                                          *)
(***************************************************************************)
LEMMA InvInit == Init => IInv
<1> SUFFICES ASSUME Init PROVE IInv
  OBVIOUS
<1> USE DEF Init
<1>1. Error \in Contents \X (0..(Spp - 1)) /\ 0 \in Blocks
  <2>1. capacity \in Nat \ {0} /\ Spp \in Nat \ {0}
    BY GeometryIsPositive DEF capacity
  <2>2. (capacity + 1) * Spp \in Nat \ {0}
    BY <2>1
  <2> QED  BY <2>1, <2>2 DEF Error, Contents, Blocks
<1>2. TypeOK
  <2>1. rd \in [Readers -> [at: {"idle", "lock", "fill", "copy"}, block: Blocks,
                           got: Contents \X (0..(Spp - 1))]]
    BY <1>1 DEF Returned
  <2>2. region_to_ppa \in [Regions -> Ppas] /\ l2p \in [Lpns -> Ppas]
    BY DEF Ppas
  <2>3. region \in 0..num_regions
    BY RegionsNonempty
  <2>4. page_buf \in Contents /\ page_buf_lpn \in Lpns \cup {NoLpn}
    BY DEF Contents
  <2> QED  BY <2>1, <2>2, <2>3, <2>4, ZenonT(60) DEF TypeOK
<1>3. BindInv /\ ReaderInv
  BY DEF BindInv, ReaderInv, Returned
<1>4. MapInv /\ CacheHonest
  BY DEF MapInv, CacheHonest
<1> QED  BY <1>2, <1>3, <1>4 DEF IInv

\* What a page read leaves in the buffer.
LEMMA ReadPageType ==
    ASSUME NEW p \in Nat, NEW ok \in BOOLEAN, page_buf \in Contents, ReadPage(p, ok)
    PROVE  page_buf' \in Contents
  BY GeometryIsPositive DEF ReadPage, Contents

\* The expansion of one region (rk_ftl_expand_l2p) gives each of its pages the entry of
\* the map page, leaves the others, and stores nothing beyond the capacity.
LEMMA ExpandedIs ==
    ASSUME TypeOK, NEW r \in Regions, NEW words \in [0..(Epr - 1) -> Ppas]
    PROVE  /\ Expanded(r, words) \in [Lpns -> Ppas]
           /\ \A l \in Lpns :
                Expanded(r, words)[l] = IF l \div Epr = r /\ words[l % Epr] # Invalid
                                        THEN words[l % Epr] ELSE l2p[l]
<1> DEFINE base == r * Epr
           n == IF Epr < capacity - base THEN Epr ELSE capacity - base
<1>1. r \in Nat /\ Epr \in Nat \ {0} /\ capacity \in Nat \ {0} /\ base \in Nat
  BY GeometryIsPositive, RegionsCover DEF Regions
<1>2. ASSUME NEW l \in Lpns
      PROVE  /\ l \in base..(base + n - 1) <=> l \div Epr = r
             /\ l \div Epr = r => l - base = l % Epr /\ l % Epr \in 0..(Epr - 1)
  <2>1. l \in Nat /\ l < capacity
    BY <1>1 DEF Lpns
  <2>2. /\ l \div Epr = r <=> base <= l /\ l < base + Epr
        /\ l \div Epr = r => l - base = l % Epr
        /\ l % Epr \in 0..(Epr - 1)
    BY <2>1, <1>1, RegionOf, ZenonT(60)
  <2> HIDE DEF base
  <2> QED  BY <2>1, <2>2, <1>1
<1> DEFINE copied == {l \in base..(base + n - 1) : words[l - base] # Invalid}
<1>3. Expanded(r, words) =
        [l \in Lpns |-> IF l \in base..(base + n - 1) /\ words[l - base] # Invalid
                        THEN words[l - base] ELSE l2p[l]]
  <2>1. n \in Int /\ base + n - 1 <= capacity - 1
    BY <1>1
  <2>2. copied \subseteq Lpns
    <3> HIDE DEF base, n
    <3> QED  BY <2>1, <1>1 DEF Lpns
  <2>3. Expanded(r, words) =
          [l \in Lpns \cup copied |-> IF l \in copied THEN words[l - base] ELSE l2p[l]]
    BY DEF Expanded, Stored
  <2>4. Lpns \cup copied = Lpns
    BY <2>2
  <2> QED  BY <2>3, <2>4
<1> HIDE DEF base, n
<1>4. ASSUME NEW l \in Lpns
      PROVE  Expanded(r, words)[l] = IF l \div Epr = r /\ words[l % Epr] # Invalid
                                     THEN words[l % Epr] ELSE l2p[l]
  BY <1>2, <1>3
<1>5. \A l \in Lpns : (IF l \in base..(base + n - 1) /\ words[l - base] # Invalid
                        THEN words[l - base] ELSE l2p[l]) \in Ppas
  BY <1>2 DEF TypeOK
<1>6. Expanded(r, words) \in [Lpns -> Ppas]
  BY <1>3, <1>5
<1> QED  BY <1>4, <1>6

\* The steps of rk_ftl_add_mtd and rk_ftl_remove_dev other than the loop.
LEMMA BindStep ==
    ASSUME IInv,
           \/ AddMtd \/ AddBuffers \/ MapRecovery \/ ExpandStart \/ AddDisk \/ ErrFree
           \/ DelDisk \/ RemoveDev
    PROVE  IInv'
<1> USE DEF IInv, bindUnchanged, mapVars, cacheVars
<1>1. TypeOK'
  <2> USE DEF TypeOK
  <2>1. CASE AddMtd \/ AddBuffers
    BY <2>1, ZenonT(60) DEF AddMtd, AddBuffers, Device, Contents
  <2>2. CASE MapRecovery
    BY <2>2, MapsHoldPpas, ZenonT(60) DEF MapRecovery, Device
  <2>3. CASE ExpandStart
    <3>1. [l \in Lpns |-> Invalid] \in [Lpns -> Ppas]
      BY DEF Ppas
    <3>2. region' \in 0..num_regions /\ l2p' \in [Lpns -> Ppas] /\ holes' \subseteq Regions
      BY <2>3, <3>1, RegionsNonempty DEF ExpandStart
    <3> QED  BY <2>3, <3>2, ZenonT(60) DEF ExpandStart, Device
  <2>4. CASE AddDisk \/ ErrFree \/ DelDisk \/ RemoveDev
    BY <2>4, ZenonT(60) DEF AddDisk, ErrFree, DelDisk, RemoveDev, Device
  <2> QED  BY <2>1, <2>2, <2>3, <2>4
<1>2. BindInv'
  <2>1. CASE AddMtd
    BY <2>1 DEF BindInv, AddMtd
  <2>2. CASE AddBuffers
    <3>1. alloc = {"ftl"}
      BY <2>2 DEF BindInv, AddBuffers
    <3>2. PICK got \in SUBSET {"oob_buf", "page_buf"} :
            /\ alloc' = alloc \cup got
            /\ add' = IF got = {"oob_buf", "page_buf"} THEN "recover" ELSE "err_free"
      BY <2>2 DEF AddBuffers
    <3>3. add' = "recover" => alloc' = Device \ {"region_to_ppa", "l2p"}
      BY <3>1, <3>2 DEF Device
    <3>4. add' \in {"recover", "err_free"}
      BY <3>2
    <3> QED  BY <2>2, <3>3, <3>4 DEF BindInv, AddBuffers
  <2>3. CASE MapRecovery
    BY <2>3 DEF BindInv, MapRecovery, Device
  <2>4. CASE ExpandStart
    BY <2>4 DEF BindInv, ExpandStart, Device
  <2>5. CASE AddDisk \/ ErrFree
    BY <2>5 DEF BindInv, AddDisk, ErrFree
  <2>6. CASE DelDisk \/ RemoveDev
    BY <2>6 DEF BindInv, DelDisk, RemoveDev
  <2> QED  BY <2>1, <2>2, <2>3, <2>4, <2>5, <2>6
<1>3. MapInv'
  <2>1. CASE ExpandStart
    <3>1. ASSUME NEW l \in Lpns PROVE ~(l \div Epr < 0)
      BY RegionsCover DEF Regions
    <3> QED  BY <2>1, <3>1 DEF ExpandStart, MapInv
  <2>2. CASE AddMtd \/ AddBuffers \/ MapRecovery \/ ErrFree
    BY <2>2 DEF AddMtd, AddBuffers, MapRecovery, ErrFree, MapInv
  <2>3. CASE AddDisk \/ DelDisk \/ RemoveDev
    BY <2>3 DEF AddDisk, DelDisk, RemoveDev, MapInv, Mapped
  <2> QED  BY <2>1, <2>2, <2>3
<1>4. ReaderInv'
  <2>1. CASE DelDisk
    BY <2>1 DEF DelDisk, ReaderInv
  <2>2. CASE ~DelDisk
    <3>1. \A x \in Readers : rd[x].at = "idle"
      BY <2>2 DEF BindInv, AddMtd, AddBuffers, MapRecovery, ExpandStart, AddDisk, ErrFree,
                  RemoveDev
    <3>2. rd' = rd
      BY <2>2 DEF AddMtd, AddBuffers, MapRecovery, ExpandStart, AddDisk, ErrFree, RemoveDev
    <3> QED  BY <3>1, <3>2 DEF ReaderInv
  <2> QED  BY <2>1, <2>2
<1>5. CacheHonest'
  <2>1. CASE ErrFree \/ DelDisk \/ RemoveDev
    BY <2>1 DEF ErrFree, DelDisk, RemoveDev, CacheHonest, Want, Mapped
  <2>2. CASE AddMtd \/ AddBuffers \/ MapRecovery \/ ExpandStart \/ AddDisk
    BY <2>2 DEF AddMtd, AddBuffers, MapRecovery, ExpandStart, AddDisk, BindInv, CacheHonest
  <2> QED  BY <2>1, <2>2
<1> QED  BY <1>1, <1>2, <1>3, <1>4, <1>5

\* A round of the loop of rk_ftl_expand_l2p.
LEMMA ExpandStep == ASSUME IInv, ExpandRegion PROVE IInv'
<1> USE DEF IInv
<1> DEFINE ppa == region_to_ppa[region]
<1>1. /\ add = "expand" /\ region \in Regions /\ region' = region + 1
      /\ UNCHANGED <<lock, rd, add, alloc, region_to_ppa, page_buf_lpn, torn>>
  BY DEF ExpandRegion, bindUnchanged
<1>2. region \in Nat /\ region + 1 \in 0..num_regions /\ num_regions \in Nat
  BY <1>1, RegionsCover DEF Regions
<1>3. ppa \in Ppas
  BY <1>1 DEF TypeOK
<1>4. \/ ppa = Invalid /\ UNCHANGED <<l2p, page_buf, holes>>
      \/ /\ ppa \in Nat /\ ReadPage(Linear(ppa), TRUE) /\ UNCHANGED holes
         /\ l2p' = Expanded(region, MapPages[Linear(ppa)])
      \/ ppa \in Nat /\ ReadPage(Linear(ppa), FALSE) /\ holes' = holes \cup {region} /\ UNCHANGED l2p
  BY <1>3, ZenonT(60) DEF ExpandRegion, Ppas
<1>5. ASSUME ppa \in Nat, ReadPage(Linear(ppa), TRUE)
      PROVE  MapPages[Linear(ppa)] \in [0..(Epr - 1) -> Ppas]
  <2>1. Linear(ppa) \in 0..(TotalPages - 1)
    BY <1>5, LinearIsNat, GeometryIsPositive DEF ReadPage
  <2> QED  BY <2>1, MapsHoldPpas
<1>6. TypeOK'
  <2>1. page_buf' \in Contents
    BY <1>4, LinearIsNat, ReadPageType, ZenonT(60) DEF TypeOK
  <2>2. l2p' \in [Lpns -> Ppas]
    <3>1. CASE UNCHANGED l2p
      BY <3>1 DEF TypeOK
    <3>2. CASE ppa \in Nat /\ ReadPage(Linear(ppa), TRUE)
               /\ l2p' = Expanded(region, MapPages[Linear(ppa)])
      BY <1>1, <1>5, <3>2, ExpandedIs
    <3> QED  BY <1>4, <3>1, <3>2, ZenonT(60)
  <2>3. holes' \subseteq Regions
    BY <1>1, <1>4, ZenonT(60) DEF TypeOK
  <2> QED  BY <1>1, <1>2, <2>1, <2>2, <2>3 DEF TypeOK
<1>7. BindInv'
  BY <1>1 DEF BindInv
<1>8. MapInv'
  <2>1. ASSUME NEW r \in holes' PROVE r < region'
    <3>1. r \in holes \/ r = region
      BY <1>4, ZenonT(60)
    <3>2. r \in holes => r \in Int /\ r < region
      BY <1>1, RegionsCover DEF MapInv, TypeOK, Regions
    <3> QED  BY <3>1, <3>2, <1>1, <1>2
  <2>2. ASSUME NEW l \in Lpns
        PROVE  l2p'[l] = IF l \div Epr < region + 1 THEN Mapped(l)' ELSE Invalid
    <3>1. l \div Epr \in Nat /\ l2p[l] = IF l \div Epr < region THEN Mapped(l) ELSE Invalid
      BY <1>1, RegionsCover DEF MapInv, Regions
    <3>2. CASE l \div Epr # region
      <4>1. l2p'[l] = l2p[l]
        BY <1>1, <1>4, <1>5, <3>2, ExpandedIs, ZenonT(60)
      <4>2. l \div Epr \in holes' <=> l \div Epr \in holes
        BY <1>4, <3>2
      <4>3. Mapped(l)' = Mapped(l)
        BY <4>2, <1>1 DEF Mapped
      <4> QED  BY <3>1, <3>2, <4>1, <4>3, <1>2
    <3>3. CASE l \div Epr = region
      <4>1. l2p[l] = Invalid
        BY <3>1, <3>3, <1>2
      <4>2. region \notin holes
        BY <1>1, <1>2 DEF MapInv
      <4>3. CASE ppa = Invalid
        BY <1>1, <1>4, <4>1, <4>3, <3>3, MapsHoldPpas, <1>2, ZenonT(60) DEF Mapped
      <4>4. CASE ppa \in Nat /\ ReadPage(Linear(ppa), TRUE) /\ UNCHANGED holes
                 /\ l2p' = Expanded(region, MapPages[Linear(ppa)])
        <5>1. Mapped(l)' = MapPages[Linear(ppa)][l % Epr]
          BY <1>1, <3>3, <4>2, <4>4, MapsHoldPpas DEF Mapped
        <5>2. l2p'[l] = IF MapPages[Linear(ppa)][l % Epr] # Invalid
                        THEN MapPages[Linear(ppa)][l % Epr] ELSE l2p[l]
          BY <1>1, <1>5, <3>3, <4>4, ExpandedIs
        <5> QED  BY <5>1, <5>2, <4>1, <3>3, <1>2
      <4>5. CASE holes' = holes \cup {region} /\ UNCHANGED l2p
        BY <1>1, <1>2, <3>3, <4>1, <4>5 DEF Mapped
      <4> QED  BY <1>4, <4>3, <4>4, <4>5, ZenonT(60)
    <3> QED  BY <3>2, <3>3
  <2> QED  BY <1>1, <2>1, <2>2 DEF MapInv
<1>9. ReaderInv' /\ CacheHonest'
  <2>1. page_buf_lpn' = NoLpn
    BY <1>1 DEF BindInv
  <2> QED  BY <2>1, <1>1 DEF BindInv, ReaderInv, CacheHonest
<1> QED  BY <1>6, <1>7, <1>8, <1>9

\* The steps of rk_ftl_readsect.
LEMMA ReadStep ==
    ASSUME IInv, NEW x \in Readers, Read(x) \/ \E b \in Blocks : ReadStart(x, b)
    PROVE  IInv'
<1> USE DEF IInv, readUnchanged, mapVars, cacheVars
<1> DEFINE b == rd[x].block  lpn == Lpn(b)
<1>1. UNCHANGED <<add, alloc, region_to_ppa, region, l2p, holes>>
  BY ZenonT(60) DEF Read, ReadStart, ReadLookup, ReadFill, ReadCopy
<1>2. add \in {"live", "deleting"}
  BY ZenonT(60) DEF Read, ReadStart, ReadLookup, ReadFill, ReadCopy, BindInv, TypeOK
<1>3. b \in Blocks /\ lpn \in Nat /\ (~BeyondEnd(b) => lpn \in Lpns)
  BY LpnIsNat, RegionsCover DEF TypeOK, BeyondEnd, Lpns
<1>4. BindInv' /\ MapInv'
  BY <1>1, <1>2 DEF BindInv, MapInv, Mapped
<1>5. \A l \in Lpns : l2p[l] = Mapped(l)
  BY <1>2, RegionsCover DEF MapInv, Regions
<1>6. \A l : Want(l)' = Want(l)
  BY <1>1 DEF Want, Mapped
<1>7. Error \in Contents \X (0..(Spp - 1)) /\ 0 \in Blocks
  <2>1. capacity \in Nat \ {0} /\ Spp \in Nat \ {0}
    BY GeometryIsPositive DEF capacity
  <2>2. (capacity + 1) * Spp \in Nat \ {0}
    BY <2>1
  <2> QED  BY <2>1, <2>2 DEF Error, Contents, Blocks
<1>8. CASE \E c \in Blocks : ReadStart(x, c)
  <2>1. PICK c \in Blocks : ReadStart(x, c)
    BY <1>8
  <2>2. TypeOK'
    BY <2>1, <1>7, <1>1 DEF ReadStart, TypeOK
  <2>3. ReaderInv' /\ CacheHonest'
    BY <2>1, <1>1, <1>6 DEF ReadStart, ReaderInv, CacheHonest, TypeOK
  <2> QED  BY <1>4, <2>2, <2>3
<1>9. CASE ReadLookup(x)
  <2> USE <1>9 DEF ReadLookup
  <2>1. CASE BeyondEnd(b)
    <3>1. rd' = [rd EXCEPT ![x] = Returned(Slice(Zero, b))] /\ UNCHANGED <<cacheVars, lock>>
      BY <2>1
    <3>2. Slice(Zero, b) \in Contents \X (0..(Spp - 1))
      BY <1>3, SliceInPage DEF Contents
    <3>3. TypeOK'
      BY <3>1, <3>2, <1>1, <1>7 DEF TypeOK, Returned
    <3>4. ReaderInv' /\ CacheHonest'
      BY <3>1, <1>1, <1>6 DEF ReaderInv, CacheHonest, TypeOK, Returned
    <3> QED  BY <1>4, <3>3, <3>4
  <2>2. CASE ~BeyondEnd(b)
    <3>1. lpn \in Lpns /\ lock = Free /\ lock' = x
      BY <2>2, <1>3
    <3>2. \A y \in Readers : rd[y].at \notin {"fill", "copy"}
      BY <3>1, FreeIsNoReader DEF ReaderInv
    <3>3. CASE page_buf_lpn = lpn
      <4>1. rd' = [rd EXCEPT ![x].at = "copy"] /\ UNCHANGED cacheVars
        BY <2>2, <3>3
      <4>2. TypeOK'
        BY <4>1, <3>1, <1>1 DEF TypeOK
      <4>3. ReaderInv' /\ CacheHonest'
        BY <4>1, <3>1, <3>2, <3>3, <1>1, <1>6 DEF ReaderInv, CacheHonest, TypeOK
      <4> QED  BY <1>4, <4>2, <4>3
    <3>4. CASE page_buf_lpn # lpn /\ l2p[lpn] = Invalid
      <4>1. /\ page_buf' = Zero /\ page_buf_lpn' = lpn /\ torn' = FALSE
            /\ rd' = [rd EXCEPT ![x].at = "copy"]
        BY <2>2, <3>4
      <4>2. TypeOK'
        BY <4>1, <3>1, <1>1, ZenonT(60) DEF TypeOK, Contents
      <4>3. ReaderInv'
        BY <4>1, <3>1, <3>2, <1>1 DEF ReaderInv, TypeOK
      <4>4. Want(lpn) = Zero
        BY <1>5, <3>1, <3>4 DEF Want
      <4>5. CacheHonest'
        BY <4>1, <4>4, <1>6 DEF CacheHonest
      <4> QED  BY <1>4, <4>2, <4>3, <4>5
    <3>5. CASE page_buf_lpn # lpn /\ l2p[lpn] # Invalid
      <4>1. rd' = [rd EXCEPT ![x].at = "fill"] /\ UNCHANGED cacheVars
        BY <2>2, <3>5
      <4>2. TypeOK'
        BY <4>1, <3>1, <1>1 DEF TypeOK
      <4>3. ReaderInv' /\ CacheHonest'
        BY <4>1, <3>1, <3>2, <3>5, <1>1, <1>6 DEF ReaderInv, CacheHonest, TypeOK
      <4> QED  BY <1>4, <4>2, <4>3
    <3> QED  BY <3>3, <3>4, <3>5
  <2> QED  BY <2>1, <2>2
<1>10. CASE ReadFill(x)
  <2> DEFINE p == Linear(l2p[lpn])
  <2>1. /\ lock = x /\ lpn \in Lpns /\ l2p[lpn] # Invalid
        /\ \A y \in Readers : y # x => rd[y].at \notin {"fill", "copy"}
    BY <1>10 DEF ReadFill, ReaderInv
  <2>2. l2p[lpn] \in Nat /\ p \in Nat
    BY <2>1, LinearIsNat DEF TypeOK, Ppas
  <2>3. Want(lpn) = Page(p)
    BY <1>5, <2>1 DEF Want
  <2> HIDE DEF p
  <2>4. CASE /\ ReadPage(p, TRUE) /\ torn' = FALSE /\ page_buf_lpn' = lpn
             /\ rd' = [rd EXCEPT ![x].at = "copy"] /\ UNCHANGED lock
    <3>1. page_buf' \in Contents /\ page_buf' = Page(p)
      BY <2>2, <2>4, ReadPageType, ZenonT(60) DEF TypeOK, ReadPage
    <3>2. TypeOK'
      <4>1. rd' \in [Readers -> [at: {"idle", "lock", "fill", "copy"}, block: Blocks,
                                got: Contents \X (0..(Spp - 1))]]
        BY <2>4 DEF TypeOK
      <4>2. page_buf_lpn' \in Lpns \cup {NoLpn} /\ torn' \in BOOLEAN
        BY <2>4, <2>1, ZenonT(60)
      <4> HIDE DEF lpn, b
      <4> QED  BY <3>1, <4>1, <4>2, <2>4, <1>1 DEF TypeOK
    <3>3. ReaderInv' /\ CacheHonest'
      BY <3>1, <2>3, <2>4, <2>1, <1>1, <1>6 DEF ReaderInv, CacheHonest, TypeOK
    <3> QED  BY <1>4, <3>2, <3>3
  <2>5. CASE /\ ReadPage(p, FALSE) /\ torn' = (torn \/ page_buf' # page_buf)
             /\ rd' = [rd EXCEPT ![x] = Returned(Error)] /\ lock' = Free
             /\ UNCHANGED page_buf_lpn
    <3>1. page_buf' \in Contents
      BY <2>2, <2>5, ReadPageType, ZenonT(60) DEF TypeOK
    <3>2. TypeOK'
      <4>1. torn' \in BOOLEAN
        BY <2>5, ZenonT(60)
      <4>2. rd' \in [Readers -> [at: {"idle", "lock", "fill", "copy"}, block: Blocks,
                                got: Contents \X (0..(Spp - 1))]]
        BY <2>5, <1>7 DEF TypeOK, Returned
      <4> QED  BY <3>1, <4>1, <4>2, <2>5, <1>1 DEF TypeOK
    <3>3. ReaderInv'
      BY <2>5, <2>1, <1>1 DEF ReaderInv, TypeOK, Returned
    <3>4. CacheHonest'
      BY <2>5, <1>6, ZenonT(60) DEF CacheHonest, TypeOK
    <3> QED  BY <1>4, <3>2, <3>3, <3>4
  <2> QED  BY <1>10, <2>4, <2>5, ZenonT(60) DEF ReadFill, p
<1>11. CASE ReadCopy(x)
  <2>1. /\ rd' = [rd EXCEPT ![x] = Returned(Slice(page_buf, b))] /\ lock' = Free
        /\ UNCHANGED cacheVars /\ lock = x
        /\ \A y \in Readers : y # x => rd[y].at \notin {"fill", "copy"}
    BY <1>11 DEF ReadCopy, ReaderInv
  <2>2. Slice(page_buf, b) \in Contents \X (0..(Spp - 1))
    BY <1>3, SliceInPage DEF TypeOK
  <2>3. TypeOK'
    BY <2>1, <2>2, <1>1, <1>7 DEF TypeOK, Returned
  <2>4. ReaderInv' /\ CacheHonest'
    BY <2>1, <1>1, <1>6 DEF ReaderInv, CacheHonest, TypeOK, Returned
  <2> QED  BY <1>4, <2>3, <2>4
<1> QED  BY <1>8, <1>9, <1>10, <1>11 DEF Read

LEMMA InvStep == IInv /\ [Next]_vars => IInv'
<1> SUFFICES ASSUME IInv, [Next]_vars PROVE IInv'
  OBVIOUS
<1>1. CASE UNCHANGED vars
  BY <1>1 DEF vars, IInv, TypeOK, BindInv, MapInv, ReaderInv, CacheHonest, Want, Mapped
<1>2. CASE Next
  BY <1>2, BindStep, ExpandStep, ReadStep DEF Next, Bind
<1> QED  BY <1>1, <1>2

\* The invariant holds in every reachable state.
THEOREM FtlInvariant == Spec => []IInv
  BY InvInit, InvStep, PTL DEF Spec
-----------------------------------------------------------------------------
(***************************************************************************)
(* The theorems.                                                           *)
(***************************************************************************)

\* Every variable keeps its type; in particular no page outside the device is read into
\* the buffer and no region beyond the last is expanded.
THEOREM FtlTypes == Spec => []TypeOK
  BY FtlInvariant, PTL DEF IInv

\* The disk is there only with the whole map expanded, the partial last region included,
\* and nothing is stored beyond the end of l2p (rk_ftl_expand_l2p).
THEOREM MapIsComplete == Spec => []MapComplete
<1>1. IInv => MapComplete
  BY RegionsCover DEF IInv, MapInv, MapComplete, Regions, TypeOK
<1> QED  BY <1>1, FtlInvariant, PTL

\* The page buffer holds the page that page_buf_lpn names, unless a failed read has
\* overwritten it (rk_ftl_readsect).
THEOREM CacheIsHonest == Spec => []CacheHonest
  BY FtlInvariant, PTL DEF IInv

\* A reader has the map and the buffer under it, and an unbound device holds no memory
\* (rk_ftl_remove_dev, err_free).
THEOREM MemoryIsOwned == Spec => []MemoryOwned
<1>1. IInv => MemoryOwned
  BY DEF IInv, BindInv, TypeOK, MemoryOwned
<1> QED  BY <1>1, FtlInvariant, PTL

\* A sector returned without an error is the one the map names, for any number of
\* readers (rk_ftl_readsect).
THEOREM SectorsAreMapped == Spec => SectorIsMapped
<1> DEFINE Good == \A x \in Readers :
          rd[x].at \in {"lock", "copy"} /\ rd'[x].at = "idle" =>
              torn \/ rd'[x].got = Slice(Want(Lpn(rd[x].block)), rd[x].block)
<1>1. IInv /\ [Next]_vars => Good
  <2> SUFFICES ASSUME IInv, [Next]_vars, NEW x \in Readers, rd[x].at \in {"lock", "copy"},
                      rd'[x].at = "idle", ~torn
               PROVE  rd'[x].got = Slice(Want(Lpn(rd[x].block)), rd[x].block)
    OBVIOUS
  <2>1. rd \in [Readers -> [at: {"idle", "lock", "fill", "copy"}, block: Blocks,
                           got: Contents \X (0..(Spp - 1))]]
    BY DEF IInv, TypeOK
  <2>2. rd' # rd
    OBVIOUS
  <2>3. PICK y \in Readers : Read(y) \/ \E b \in Blocks : ReadStart(y, b)
    BY <2>2, ZenonT(60)
       DEF Next, vars, Bind, AddMtd, AddBuffers, MapRecovery, ExpandStart, ExpandRegion,
                AddDisk, ErrFree, DelDisk, RemoveDev, bindUnchanged
  <2>4. y = x
    BY <2>1, <2>3, ZenonT(60) DEF Read, ReadStart, ReadLookup, ReadFill, ReadCopy
  <2>5. CASE ReadLookup(x)
    <3>1. BeyondEnd(rd[x].block) /\ rd'[x].got = Slice(Zero, rd[x].block)
      BY <2>1, <2>5 DEF ReadLookup, Returned
    <3>2. Lpn(rd[x].block) \notin Lpns
      BY <3>1, <2>1, LpnIsNat, RegionsCover DEF BeyondEnd, Lpns
    <3> QED  BY <3>1, <3>2 DEF Want
  <2>6. CASE ReadCopy(x)
    <3>1. rd'[x].got = Slice(page_buf, rd[x].block)
      BY <2>1, <2>6 DEF ReadCopy, Returned
    <3>2. page_buf_lpn = Lpn(rd[x].block) /\ page_buf_lpn # NoLpn
      BY <2>1, <2>6, LpnIsNat DEF ReadCopy, IInv, ReaderInv, NoLpn
    <3> QED  BY <3>1, <3>2 DEF IInv, CacheHonest
  <2> QED  BY <2>1, <2>3, <2>4, <2>5, <2>6, ZenonT(60) DEF Read, ReadStart, ReadFill
<1>2. IInv /\ [Next]_vars => [Good]_vars
  BY <1>1
<1>3. Spec => [][Good]_vars
  BY <1>2, FtlInvariant, PTL DEF Spec
<1> QED  BY <1>3 DEF SectorIsMapped
-----------------------------------------------------------------------------
(***************************************************************************)
(* The translation layer implements the read-only disk.                    *)
(***************************************************************************)

\* What the map has for a block is a sector or the error.
LEMMA SectorType == ASSUME NEW b \in Blocks PROVE Sector(b) \in Contents \X (0..(Spp - 1))
<1>1. b % Spp \in 0..(Spp - 1) /\ 0 \in 0..(Spp - 1)
  BY GeometryIsPositive DEF Blocks, capacity
<1>2. Error \in Contents \X (0..(Spp - 1))
  BY <1>1 DEF Error, Contents
<1> QED  BY <1>1, <1>2 DEF Sector, Slice

\* Only rk_ftl_map_recovery and rk_ftl_expand_l2p change what the map has.
LEMMA SectorKept ==
    ASSUME UNCHANGED <<region_to_ppa, holes>>, NEW b \in Blocks PROVE Sector(b)' = Sector(b)
<1>1. ASSUME NEW l PROVE Mapped(l)' = Mapped(l)
  BY DEF Mapped
<1>2. Want(Lpn(b))' = Want(Lpn(b))
  BY <1>1 DEF Want
<1> QED  BY <1>2 DEF Sector

\* The readers as the disk sees them.
AskedOf(r) == [x \in Readers |-> IF r[x].at = "idle" THEN -1 ELSE r[x].block]
AnswerOf(r) == [x \in Readers |-> r[x].got]

\* A reader that has asked for a block, and one that has been answered, change nothing of
\* the others.
LEMMA AskedStep ==
    ASSUME NEW r, NEW s, NEW x \in Readers, NEW e,
           r \in [Readers -> [at: {"idle", "lock", "fill", "copy"}, block: Blocks,
                              got: Contents \X (0..(Spp - 1))]],
           s = [r EXCEPT ![x] = e]
    PROVE  /\ AskedOf(s) = [AskedOf(r) EXCEPT ![x] = IF e.at = "idle" THEN -1 ELSE e.block]
           /\ AnswerOf(s) = [AnswerOf(r) EXCEPT ![x] = e.got]
  BY ZenonT(60) DEF AskedOf, AnswerOf

\* A reader that moves on inside rk_ftl_readsect looks the same from outside.
LEMMA AskedSame ==
    ASSUME NEW r, NEW s, NEW x \in Readers, NEW a \in {"lock", "fill", "copy"},
           r \in [Readers -> [at: {"idle", "lock", "fill", "copy"}, block: Blocks,
                              got: Contents \X (0..(Spp - 1))]],
           r[x].at # "idle", s = [r EXCEPT ![x].at = a]
    PROVE  AskedOf(s) = AskedOf(r) /\ AnswerOf(s) = AnswerOf(r)
<1>1. \A y \in Readers : /\ s[y].got = r[y].got /\ s[y].block = r[y].block
                         /\ s[y].at = "idle" <=> r[y].at = "idle"
  OBVIOUS
<1> QED  BY <1>1 DEF AskedOf, AnswerOf

\* Every step of the translation layer is a step of the disk or none of it.
LEMMA DiskStep == IInv /\ [Next]_vars => [Disk!Next]_(Disk!vars)
<1> SUFFICES ASSUME IInv, [Next]_vars PROVE [Disk!Next]_(Disk!vars)
  OBVIOUS
<1> DEFINE Place == CASE add = "live" -> "open" [] add = "deleting" -> "closing"
                      [] OTHER -> "gone"
           Held == [b \in Blocks |-> IF Attached THEN Sector(b) ELSE Error]
           Asked == AskedOf(rd)
           Answers == AnswerOf(rd)
<1> USE DEF AskedOf, AnswerOf
<1>t. /\ rd \in [Readers -> [at: {"idle", "lock", "fill", "copy"}, block: Blocks,
                             got: Contents \X (0..(Spp - 1))]]
      /\ torn \in BOOLEAN /\ page_buf \in Contents
  BY DEF IInv, TypeOK
<1>n. \A b \in Blocks : b # -1
  BY GeometryIsPositive DEF Blocks, capacity
<1>q. ASSUME UNCHANGED <<Place, Held, Asked, Answers>>, torn' = torn \/ torn' = FALSE
      PROVE  [Disk!Next]_(Disk!vars)
  BY <1>q DEF Disk!Next, Disk!Refresh, Disk!vars
<1>k. ASSUME UNCHANGED <<add, mapVars>> PROVE UNCHANGED <<Place, Held>>
  BY <1>k, SectorKept DEF mapVars, Attached
<1>1. CASE UNCHANGED vars
  <2>1. UNCHANGED <<add, mapVars, rd, torn>>
    BY <1>1 DEF vars, mapVars
  <2> QED  BY <2>1, <1>k, <1>q
<1>2. CASE ~Attached /\ ~Attached' /\ rd' = rd /\ (torn' = torn \/ torn' = FALSE)
  <2>1. UNCHANGED <<Place, Held>>
    BY <1>2 DEF Attached
  <2> QED  BY <2>1, <1>2, <1>q, ZenonT(60)
<1>3. CASE AddMtd \/ AddBuffers \/ MapRecovery \/ ExpandStart \/ ExpandRegion \/ ErrFree
  BY <1>3, <1>2, ZenonT(60) DEF AddMtd, AddBuffers, MapRecovery, ExpandStart, ExpandRegion, ErrFree,
                    bindUnchanged, cacheVars, Attached
<1>4. CASE AddDisk
  <2>1. rd' = rd /\ torn' = torn /\ ~Attached
    BY <1>4 DEF AddDisk, bindUnchanged, Attached
  <2>2. CASE add' = "err_free"
    BY <2>1, <2>2, <1>2 DEF Attached
  <2>3. CASE add' = "live"
    <3>1. Place = "gone" /\ Place' = "open"
      BY <2>1, <2>3 DEF Attached
    <3>2. UNCHANGED <<region_to_ppa, holes>>
      BY <1>4 DEF AddDisk, mapVars
    <3>3. Held' = [b \in Blocks |-> Sector(b)]
      BY <3>2, <2>3, SectorKept DEF Attached
    <3>4. Held' \in [Blocks -> Contents \X (0..(Spp - 1))]
      BY <3>3, SectorType
    <3> QED  BY <3>1, <3>4, <2>1 DEF Disk!Next, Disk!Open
  <2> QED  BY <2>2, <2>3, <1>4 DEF AddDisk
<1>5. CASE DelDisk
  <2>1. UNCHANGED <<rd, torn, region_to_ppa, holes>> /\ add = "live" /\ add' = "deleting"
    BY <1>5 DEF DelDisk, bindUnchanged, mapVars, cacheVars
  <2>2. Held' = Held
    BY <2>1, SectorKept DEF Attached
  <2> QED  BY <2>1, <2>2 DEF Disk!Next, Disk!Close
<1>6. CASE RemoveDev
  <2>1. UNCHANGED <<rd, torn>> /\ add = "deleting" /\ add' = "absent"
        /\ \A x \in Readers : Asked[x] = -1
    BY <1>6 DEF RemoveDev, bindUnchanged, cacheVars
  <2>2. Held' = [b \in Blocks |-> Error]
    BY <2>1 DEF Attached
  <2> QED  BY <2>1, <2>2 DEF Disk!Next, Disk!Remove, Disk!Blank, Disk!Nothing
<1>7. ASSUME NEW x \in Readers, NEW b \in Blocks, ReadStart(x, b) PROVE Disk!Next
  <2>1. /\ add = "live" /\ rd[x].at = "idle" /\ UNCHANGED <<add, mapVars, torn>>
        /\ rd' = [rd EXCEPT ![x] = [at |-> "lock", block |-> b, got |-> Error]]
    BY <1>7 DEF ReadStart, readUnchanged, cacheVars
  <2>2. /\ Asked' = [Asked EXCEPT ![x] = b] /\ Answers' = [Answers EXCEPT ![x] = Error]
    BY <2>1, <1>t, AskedStep, ZenonT(60)
  <2>3. Asked[x] = -1 /\ Place = "open" /\ UNCHANGED <<Place, Held>>
    BY <2>1, <1>k
  <2> QED  BY <2>1, <2>2, <2>3, ZenonT(60) DEF Disk!Next, Disk!Ask, Disk!Nothing
<1>8. ASSUME NEW x \in Readers, rd[x].at # "idle", UNCHANGED <<add, mapVars>>,
             NEW a \in {"lock", "fill", "copy"}, rd' = [rd EXCEPT ![x].at = a],
             torn' = torn \/ torn' = FALSE
      PROVE  [Disk!Next]_(Disk!vars)
  <2>1. UNCHANGED <<Asked, Answers>>
    BY <1>8, <1>t, AskedSame
  <2> QED  BY <2>1, <1>8, <1>k, <1>q, ZenonT(60)
<1>9. ASSUME NEW x \in Readers, rd[x].at # "idle", UNCHANGED <<add, mapVars>>,
             NEW g, rd' = [rd EXCEPT ![x] = Returned(g)]
      PROVE  /\ Asked[x] # -1 /\ Asked[x] = rd[x].block /\ UNCHANGED <<Place, Held>>
             /\ Asked' = [Asked EXCEPT ![x] = -1] /\ Answers' = [Answers EXCEPT ![x] = g]
             /\ Held[rd[x].block] = Sector(rd[x].block) /\ rd[x].block \in Blocks
  <2>1. Asked' = [Asked EXCEPT ![x] = -1] /\ Answers' = [Answers EXCEPT ![x] = g]
    BY <1>9, <1>t, AskedStep, ZenonT(60) DEF Returned
  <2>2. rd[x].block \in Blocks /\ Asked[x] = rd[x].block
    BY <1>9, <1>t
  <2>3. Attached
    BY <1>9 DEF IInv, TypeOK, BindInv, Attached
  <2> QED  BY <2>1, <2>2, <2>3, <1>9, <1>k, <1>n
<1>10. ASSUME NEW x \in Readers, rd[x].at # "idle", UNCHANGED <<add, mapVars>>,
              NEW p \in Contents, torn' = torn,
              rd' = [rd EXCEPT ![x] = Returned(Slice(p, rd[x].block))],
              ~torn => p = Want(Lpn(rd[x].block))
       PROVE  Disk!Next
  <2> DEFINE g == Slice(p, rd[x].block)
  <2>1. /\ Asked[x] # -1 /\ Asked[x] = rd[x].block /\ UNCHANGED <<Place, Held>>
        /\ Asked' = [Asked EXCEPT ![x] = -1] /\ Answers' = [Answers EXCEPT ![x] = g]
        /\ Held[rd[x].block] = Sector(rd[x].block) /\ rd[x].block \in Blocks
    BY <1>9, <1>10, ZenonT(60)
  <2>2. g \in Contents \X (0..(Spp - 1))
    BY <2>1, SliceInPage
  <2>3. g = Held[Asked[x]] \/ torn
    BY <2>1, <1>10 DEF Sector
  <2> HIDE DEF g, Place, Held, Asked, Answers
  <2>4. Disk!Answer(x)
    BY <2>1, <2>2, <2>3, <1>10, ZenonT(60)
       DEF Disk!Answer, Disk!Nothing, Place, Held, Asked, Answers
  <2> QED  BY <2>4 DEF Disk!Next
<1>11. ASSUME NEW x \in Readers, ReadLookup(x) PROVE [Disk!Next]_(Disk!vars)
  <2>1. rd[x].at # "idle" /\ UNCHANGED <<add, mapVars>>
    BY <1>11 DEF ReadLookup, readUnchanged
  <2>2. CASE BeyondEnd(rd[x].block)
    <3>1. torn' = torn /\ rd' = [rd EXCEPT ![x] = Returned(Slice(Zero, rd[x].block))]
      BY <1>11, <2>2 DEF ReadLookup, cacheVars
    <3>2. Lpn(rd[x].block) \notin Lpns
      BY <2>2, <1>t, LpnIsNat, RegionsCover DEF BeyondEnd, Lpns
    <3>3. Zero \in Contents /\ Zero = Want(Lpn(rd[x].block))
      BY <3>2 DEF Want, Contents
    <3> QED  BY <3>1, <3>3, <2>1, <1>10, ZenonT(60)
  <2>3. CASE ~BeyondEnd(rd[x].block)
    <3>1. PICK a \in {"fill", "copy"} : rd' = [rd EXCEPT ![x].at = a]
      BY <1>11, <2>3 DEF ReadLookup
    <3>2. torn' = torn \/ torn' = FALSE
      BY <1>11, <2>3 DEF ReadLookup, cacheVars
    <3> QED  BY <3>1, <3>2, <2>1, <1>8, ZenonT(60)
  <2> QED  BY <2>2, <2>3
<1>12. ASSUME NEW x \in Readers, ReadFill(x) PROVE [Disk!Next]_(Disk!vars)
  <2>1. rd[x].at # "idle" /\ UNCHANGED <<add, mapVars>>
    BY <1>12 DEF ReadFill, readUnchanged
  <2>2. CASE torn' = FALSE /\ rd' = [rd EXCEPT ![x].at = "copy"]
    BY <2>1, <2>2, <1>8, ZenonT(60)
  <2>3. CASE torn' \in {torn, TRUE} /\ rd' = [rd EXCEPT ![x] = Returned(Error)]
    <3>1. /\ Asked[x] # -1 /\ UNCHANGED <<Place, Held>>
          /\ Asked' = [Asked EXCEPT ![x] = -1] /\ Answers' = [Answers EXCEPT ![x] = Error]
      BY <2>1, <2>3, <1>9, ZenonT(60)
    <3> HIDE DEF Place, Held, Asked, Answers
    <3>2. Disk!Fail(x)
      BY <3>1, <2>3, ZenonT(60) DEF Disk!Fail, Disk!Nothing, Place, Held, Asked, Answers
    <3> QED  BY <3>2 DEF Disk!Next
  <2> QED  BY <1>12, <2>2, <2>3, <1>t, ZenonT(60) DEF ReadFill
<1>13. ASSUME NEW x \in Readers, ReadCopy(x) PROVE Disk!Next
  <2>1. /\ rd[x].at = "copy" /\ UNCHANGED <<add, mapVars>> /\ torn' = torn
        /\ rd' = [rd EXCEPT ![x] = Returned(Slice(page_buf, rd[x].block))]
    BY <1>13 DEF ReadCopy, readUnchanged, cacheVars
  <2>2. page_buf_lpn = Lpn(rd[x].block) /\ page_buf_lpn # NoLpn
    BY <2>1, <1>t, LpnIsNat DEF IInv, ReaderInv, NoLpn
  <2>3. ~torn => page_buf = Want(Lpn(rd[x].block))
    BY <2>2 DEF IInv, CacheHonest
  <2> QED  BY <2>1, <2>3, <1>10, <1>t, ZenonT(60)
<1> QED
  BY <1>1, <1>3, <1>4, <1>5, <1>6, <1>7, <1>11, <1>12, <1>13 DEF Next, Bind, Read

\* For every geometry, map and number of readers the translation layer is a read-only
\* disk: settled contents, every read answered once with its sector or an error, no
\* removal under a reader (rk_ftl_add_mtd, rk_ftl_readsect, rk_ftl_remove_dev).
THEOREM DiskIsImplemented == Spec => DiskImplemented
<1>1. Init => Disk!Init
  BY DEF Init, Disk!Init, Disk!Blank, Disk!Nothing, Returned, Attached
<1> QED
  BY <1>1, DiskStep, FtlInvariant, PTL DEF Spec, DiskImplemented, Disk!Spec
=============================================================================
