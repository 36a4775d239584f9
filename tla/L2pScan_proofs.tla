--------------------------- MODULE L2pScan_proofs ----------------------------
(***************************************************************************)
(* On a device that 32-bit offsets reach, whose versions are less than     *)
(* half the counter apart, the scan of L2pScan finds the newest copy of    *)
(* every logical page.                                                     *)
(***************************************************************************)
EXTENDS L2pScan, TLAPS

\* Wide time limits: what is proved should not depend on the speed of the machine.
USE SMTT(30), ZenonT(60)

\* What the constants are.  The ages on a device differ by less than half the range
\* of a version, less one for the value the counter skips.
ScanConstants ==
    /\ NPages \in Nat /\ OffsetPages \in Nat
    /\ Half \in Nat /\ Half > 1
    /\ Steps \in Nat /\ Steps > 2
    /\ MagicSpan \in Nat /\ DataMagic \in Nat
    /\ Flashes \subseteq [Pages -> PageType]
    /\ \A f \in Flashes : \A p, q \in Pages : f[p].age - f[q].age < Half - 1

\* Every page's offset fits the 32 bits of the request.
DeviceFits == NPages <= OffsetPages
-----------------------------------------------------------------------------
(***************************************************************************)
(* Arithmetic.                                                             *)
(***************************************************************************)

\* A number in range is its own remainder.
LEMMA ModSmall ==
    ASSUME NEW m \in Nat, NEW x \in Int, 0 <= x, x < m
    PROVE  x % m = x
BY Z3T(30)

\* A negative number one range below.
LEMMA ModNegative ==
    ASSUME NEW m \in Nat, NEW x \in Int, x < 0, -m <= x
    PROVE  x % m = x + m
BY Z3T(30)

\* Quotient and remainder.
LEMMA DivMod ==
    ASSUME NEW m \in Nat, NEW x \in Nat, m > 0
    PROVE  /\ x % m \in 0..(m - 1)
           /\ x \div m \in Nat
           /\ x = m * (x \div m) + (x % m)
BY Z3T(30)

\* The low half of a word, as the decoding takes it.
LEMMA LowPart ==
    ASSUME NEW m \in Nat, NEW x \in Nat, NEW t \in Nat, x < m
    PROVE  (t * m + x) % m = x
BY Z3T(30)

\* Two numbers less than m apart differ by as much as their remainders, or by m more.
LEMMA RemainderDistance ==
    ASSUME NEW m \in Nat, m > 0, NEW a \in Nat, NEW b \in Nat, b <= a, a - b < m
    PROVE  (a % m) - (b % m) \in {a - b, a - b - m}
<1> DEFINE k == (a \div m) - (b \div m)
           r == (a % m) - (b % m)
<1>1. /\ k \in Int /\ r \in Int
      /\ -m < r /\ r < m
      /\ a - b = m * k + r
  BY DivMod, Z3T(30)
<1> HIDE DEF k, r
<1>2. k >= 0
  <2>1. ~ (k <= -1)
    BY <1>1, Z3T(30)
  <2> QED BY <2>1, <1>1
<1>3. k <= 1
  <2>1. ~ (k >= 2)
    BY <1>1, Z3T(30)
  <2> QED BY <2>1, <1>1
<1>4. k = 0 \/ k = 1
  BY <1>1, <1>2, <1>3
<1>5. r = a - b \/ r = a - b - m
  BY <1>1, <1>4
<1> QED BY <1>5 DEF r

\* rk_ftl_ver_newer compares two versions as the writes that made them are ordered,
\* as long as the writes are less than half the counter apart; a version is newer
\* than itself.
LEMMA NewerIsYounger ==
    ASSUME NEW a \in Nat, NEW b \in Nat, Half \in Nat, Half > 1,
           a - b < Half - 1, b - a < Half - 1
    PROVE  VerNewer(Version(a), Version(b)) <=> b <= a
<1> DEFINE m == Mod - 1
<1>1. /\ m \in Nat /\ m > 0 /\ m = 2 * Half - 1 /\ Mod = m + 1
      /\ Version(a) = a % m /\ Version(b) = b % m
  BY DEF Mod, Version
<1> HIDE DEF m
<1>2. a % m \in 0..(m - 1) /\ b % m \in 0..(m - 1)
  BY <1>1, DivMod
<1> DEFINE r == (a % m) - (b % m)
<1>3. r \in Int /\ -m < r /\ r < m
  BY <1>1, <1>2
<1>4. VerNewer(Version(a), Version(b)) <=> r % Mod < Half + 1
  BY <1>1 DEF VerNewer
<1>5. ASSUME b <= a PROVE r = a - b \/ r = a - b - m
  <2>1. a - b < m
    BY <1>1
  <2>2. (a % m) - (b % m) \in {a - b, a - b - m}
    BY <1>1, <1>5, <2>1, RemainderDistance, ZenonT(60)
  <2> QED BY <2>2
<1>6. ASSUME a < b PROVE r = a - b \/ r = a - b + m
  <2>1. b - a < m /\ a <= b
    BY <1>1, <1>6
  <2>2. (b % m) - (a % m) \in {b - a, b - a - m}
    BY <1>1, <2>1, RemainderDistance, ZenonT(60)
  <2> QED BY <2>2, <1>1, <1>2
<1>7. r >= 0 => r % Mod = r
  BY <1>1, <1>3, ModSmall
<1>8. r < 0 => r % Mod = r + Mod
  BY <1>1, <1>3, ModNegative
<1> HIDE DEF r
<1>9. b <= a => r % Mod < Half + 1
  BY <1>1, <1>3, <1>5, <1>7, <1>8
<1>10. a < b => ~ (r % Mod < Half + 1)
  BY <1>1, <1>3, <1>6, <1>7, <1>8
<1> QED BY <1>4, <1>9, <1>10
-----------------------------------------------------------------------------
(***************************************************************************)
(* The scan.                                                               *)
(***************************************************************************)

\* The decoding gives back what was written to the page.
LEMMA DecodeInvertsEncode ==
    ASSUME ScanConstants, NEW p \in PageType
    PROVE  /\ ReadOob(p).magic = p.magic
           /\ ReadOob(p).version = Version(p.age)
           /\ ReadOob(p).lpn = p.lpn
<1>1. /\ p.magic \in Nat /\ p.magic < MagicSpan /\ p.tag \in Nat
      /\ MagicSpan \in Nat /\ Steps \in Nat /\ Steps > 2
  BY DEF PageType, ScanConstants
<1>2. Exposed(p)[SyswordPos(0)] = p.tag * MagicSpan + p.magic
  BY <1>1 DEF Exposed, SyswordPos, Written
<1>3. Exposed(p)[SyswordPos(1)] = Version(p.age)
  BY <1>1 DEF Exposed, SyswordPos, Written
<1>4. Exposed(p)[SyswordPos(2)] = p.lpn
  BY <1>1 DEF Exposed, SyswordPos, Written
<1>5. (p.tag * MagicSpan + p.magic) % MagicSpan = p.magic
  BY <1>1, LowPart, ZenonT(60)
<1> QED BY <1>2, <1>3, <1>4, <1>5 DEF ReadOob

\* The map after the first pg pages: the newest of them for each logical page.
ScanInv ==
    /\ flash \in Flashes
    /\ pg \in 0..NPages
    /\ lpn2phys \in [Lpns -> [page: Int, ver: Int]]
    /\ \A l \in Lpns :
           \/ lpn2phys[l] = None /\ CopiesBelow(pg, l) = {}
           \/ /\ NewestBelow(pg, l, lpn2phys[l].page)
              /\ lpn2phys[l].ver = Version(flash[lpn2phys[l].page].age)

\* One page more.
LEMMA ScanStep ==
    ASSUME ScanConstants, DeviceFits, ScanInv, Scan
    PROVE  ScanInv'
<1> USE DEF ScanConstants
<1> DEFINE p == flash[pg]
           Age(q) == flash[q].age
<1>1. pg \in Nat /\ pg < NPages /\ pg \in Pages /\ pg' = pg + 1
  BY DEF ScanInv, Scan, Pages
<1>2. flash \in [Pages -> PageType] /\ p \in PageType
  BY <1>1 DEF ScanInv
<1>3. Seek(pg) = pg
  BY <1>1, ModSmall DEF Seek, DeviceFits
<1>4. /\ ReadOob(p).magic = p.magic
      /\ ReadOob(p).version = Version(p.age)
      /\ ReadOob(p).lpn = p.lpn
  BY <1>2, DecodeInvertsEncode
<1>5. p.lpn \in Lpns /\ p.age \in Nat /\ p.ok \in BOOLEAN
  BY <1>2 DEF PageType
<1>6. Version(p.age) \in Int
  BY <1>5, DivMod DEF Version, Mod
<1> DEFINE data == p.ok /\ p.magic = DataMagic
           take == /\ data
                   /\ \/ lpn2phys[p.lpn] = None
                      \/ VerNewer(Version(p.age), lpn2phys[p.lpn].ver)
<1>7. /\ flash' = flash
      /\ lpn2phys' = IF take THEN [lpn2phys EXCEPT ![p.lpn] = [page |-> pg, ver |-> Version(p.age)]]
                     ELSE lpn2phys
  BY <1>3, <1>4 DEF Scan
<1>8. flash' \in Flashes /\ pg' \in 0..NPages
  BY <1>1, <1>7 DEF ScanInv
<1>9. lpn2phys' \in [Lpns -> [page: Int, ver: Int]]
  BY <1>1, <1>5, <1>6, <1>7 DEF ScanInv
<1>10. ASSUME NEW l \in Lpns
       PROVE  CopiesBelow(pg, l)' = CopiesBelow(pg, l) \cup (IF data /\ p.lpn = l THEN {pg} ELSE {})
  BY <1>1, <1>7 DEF CopiesBelow
<1>11. ASSUME NEW l \in Lpns
       PROVE  (\/ lpn2phys[l] = None /\ CopiesBelow(pg, l) = {}
               \/ /\ NewestBelow(pg, l, lpn2phys[l].page)
                  /\ lpn2phys[l].ver = Version(flash[lpn2phys[l].page].age))'
  <2> DEFINE c == lpn2phys[l].page
  <2>1. CASE ~ (data /\ p.lpn = l)
    <3>1. lpn2phys'[l] = lpn2phys[l]
      BY <1>5, <1>7, <2>1 DEF ScanInv
    <3>2. CopiesBelow(pg, l)' = CopiesBelow(pg, l)
      BY <1>10, <2>1, ZenonT(60)
    <3> QED BY <3>1, <3>2, <1>7 DEF ScanInv, NewestBelow
  <2>2. CASE data /\ p.lpn = l
    <3>1. CopiesBelow(pg, l)' = CopiesBelow(pg, l) \cup {pg}
      BY <1>10, <2>2
    <3>2. CopiesBelow(pg, l) \subseteq Pages
      BY <1>1 DEF CopiesBelow, Pages
    <3>3. CASE lpn2phys[l] = None /\ CopiesBelow(pg, l) = {}
      <4>1. lpn2phys'[l] = [page |-> pg, ver |-> Version(p.age)]
        BY <1>7, <2>2, <3>3 DEF ScanInv
      <4> QED BY <4>1, <3>1, <3>3, <1>5, <1>7 DEF NewestBelow
    <3>4. CASE /\ NewestBelow(pg, l, c)
               /\ lpn2phys[l].ver = Version(Age(c))
      <4>1. c \in Pages /\ Age(c) \in Nat
        BY <3>2, <3>4, <1>2 DEF NewestBelow, PageType
      <4>2. p.age - Age(c) < Half - 1 /\ Age(c) - p.age < Half - 1
        BY <4>1, <1>1 DEF ScanInv
      <4>3. VerNewer(Version(p.age), Version(Age(c))) <=> Age(c) <= p.age
        BY <4>1, <4>2, <1>5, NewerIsYounger
      <4>4. lpn2phys[l] # None
        BY <4>1 DEF None, Pages
      <4>5. CASE Age(c) <= p.age
        <5>1. lpn2phys'[l] = [page |-> pg, ver |-> Version(p.age)]
          BY <1>7, <2>2, <3>4, <4>3, <4>5 DEF ScanInv
        <5>2. \A q \in CopiesBelow(pg, l) : Age(q) \in Nat /\ Age(q) <= p.age
          BY <3>2, <3>4, <4>1, <4>5, <1>2, <1>5 DEF NewestBelow, PageType
        <5> QED BY <5>1, <5>2, <3>1, <1>5, <1>7 DEF NewestBelow
      <4>6. CASE ~ (Age(c) <= p.age)
        <5>1. lpn2phys'[l] = lpn2phys[l]
          BY <1>7, <2>2, <3>4, <4>3, <4>4, <4>6
        <5>2. p.age <= Age(c)
          BY <4>1, <4>6, <1>5
        <5> QED BY <5>1, <5>2, <3>1, <3>4, <1>7 DEF NewestBelow
      <4> QED BY <4>5, <4>6
    <3> QED BY <3>3, <3>4 DEF ScanInv
  <2> QED BY <2>1, <2>2
<1> QED BY <1>8, <1>9, <1>11 DEF ScanInv

\* On a device that the offsets reach, the finished map of l2p-scan.py names the
\* newest readable copy of every logical page, for every size of device, every
\* content and every width of the version.
THEOREM ScanFindsNewest ==
    ASSUME ScanConstants, DeviceFits
    PROVE  Spec => []NewestPerLpn
<1>1. Init => ScanInv
  BY DEF Init, ScanInv, CopiesBelow, None, ScanConstants
<1>2. ScanInv /\ [Next]_vars => ScanInv'
  <2>1. ASSUME ScanInv, Scan PROVE ScanInv'
    BY <2>1, ScanStep
  <2>2. ASSUME ScanInv, UNCHANGED vars PROVE ScanInv'
    BY <2>2 DEF ScanInv, vars, CopiesBelow, NewestBelow
  <2> QED BY <2>1, <2>2 DEF Next
<1>3. ScanInv => NewestPerLpn
  <2> SUFFICES ASSUME ScanInv, pg = NPages, NEW l \in Lpns
               PROVE  IF CopiesBelow(NPages, l) = {} THEN lpn2phys[l] = None
                      ELSE NewestBelow(NPages, l, lpn2phys[l].page)
    BY DEF NewestPerLpn
  <2> QED BY DEF ScanInv, NewestBelow
<1> QED BY <1>1, <1>2, <1>3, PTL DEF Spec
=============================================================================
