----------------------- MODULE NetconsoleTarget_proofs -----------------------
(***************************************************************************)
(* A netconsole target for every message, build option and length of the   *)
(* kernel release: its parameters agree while it is enabled, and the       *)
(* packets of a message share out its text.                                *)
(***************************************************************************)
EXTENDS NetconsoleTarget, TLAPS

\* Wide time limits: what is proved should not depend on the speed of the machine.
USE SMTT(30), ZenonT(60)

\* What the theorems on the parameters need: the families agree before the target is
\* enabled too, and whoever sends to a target has it enabled.
ParamInv ==
    /\ enabled => made # "none" /\ local.low # "0"
    /\ msg # NoMsg => enabled
    /\ slips = {} =>
         IF ipv6 THEN local.low # "4" /\ remote.low # "4"
                 ELSE local.low \in {"0", "4"} /\ remote.low \in {"0", "4"}
    /\ ReleaseNeedsExtended

\* What the theorems on the packets need: a message that fits is sent in one packet.
MessageInv ==
    /\ PacketsTile
    /\ msg # NoMsg /\ extended /\ Whole => offset \in {0, msg.len}
    /\ \A k \in DOMAIN out :
         /\ out[k].bytes <= Chunk
         /\ msg # NoMsg /\ out[k].nul => msg.len + ReleaseLen = Chunk

IInv == TypeOK /\ ParamInv /\ MessageInv
-----------------------------------------------------------------------------
(***************************************************************************)
(* Addresses.                                                              *)
(***************************************************************************)
LEMMA AddrOps ==
    /\ Zero \in Addr
    /\ \A a \in Addr : /\ V4(a) \in Addr /\ V4(a).low = "4"
                       /\ [a EXCEPT !.low = "0"] \in Addr /\ [a EXCEPT !.low = "0"].low = "0"
    /\ \A k \in Kinds6 : V6(k) \in Addr /\ V6(k).low = k /\ V6(k).low # "4"
  BY DEF Zero, V4, V6, Addr, Kinds6, LinkLocal, Is6

\* netpoll_setup keeps a local address that is given and fills in one of the family.
LEMMA FilledIs ==
    ASSUME TypeOK, NEW six \in BOOLEAN, NEW l \in Addr, NEW r \in Addr,
           NEW a \in Filled(six, l, r)
    PROVE  /\ a \in Addr /\ a.low # "0"
           /\ l.low # "0" => a = l
           /\ l.low = "0" => IF six THEN a.low \in {"g", "l"} ELSE a.low = "4"
<1>1. CASE l.low # "0"
  BY <1>1 DEF Filled
<1>2. CASE l.low = "0" /\ ~six
  BY <1>2, AddrOps, ZenonT(60) DEF Filled
<1>3. CASE l.low = "0" /\ six
  <2>1. PICK k \in dev6 : a = V6(k)
    BY <1>3 DEF Filled
  <2>2. k \in {"g", "l"}
    BY DEF TypeOK
  <2> QED  BY <1>3, <2>1, <2>2, AddrOps DEF Kinds6
<1> QED  BY <1>1, <1>2, <1>3

LEMMA ParsedIs ==
    \A a \in Parsed : a \in Addr /\ (IF Is6(a) THEN a.low # "4" ELSE a.low = "4")
  BY DEF Parsed, Zero, V4, V6, Addr, Kinds6, LinkLocal, Is6
-----------------------------------------------------------------------------
(***************************************************************************)
(* The invariant: parameters.                                              *)
(***************************************************************************)
LEMMA InvInit == Init => IInv
<1> SUFFICES ASSUME Init PROVE IInv
  OBVIOUS
<1>1. TypeOK
  <2>1. local \in Addr /\ remote \in Addr
    BY AddrOps DEF Init
  <2>2. offset \in Nat /\ out \in Seq(Packet)
    BY DEF Init
  <2> QED  BY <2>1, <2>2, ZenonT(60) DEF Init, TypeOK
<1>2. ParamInv
  BY DEF Init, ParamInv, ReleaseNeedsExtended, Zero
<1>3. MessageInv
  BY DEF Init, MessageInv, PacketsTile
<1> QED  BY <1>1, <1>2, <1>3 DEF IInv

\* A step that leaves the message alone, and the parameters too while one is sent.
LEMMA MessageKept ==
    ASSUME MessageInv, UNCHANGED msgVars, msg # NoMsg => UNCHANGED <<extended, release>>
    PROVE  MessageInv'
<1>1. msg = NoMsg \/ (Whole' = Whole /\ TextLen' = TextLen)
  BY DEF Whole, TextLen, Prefix, msgVars
<1> QED  BY <1>1 DEF MessageInv, PacketsTile, msgVars

LEMMA AllocStep == ASSUME IInv, AllocParamTarget PROVE TypeOK' /\ ParamInv'
<1>1. PICK l \in Parsed \cup {Zero}, r \in Parsed :
        ParseOptions(l, r) /\ remote' = r /\ local' \in Filled(Is6(r), l, r)
  BY DEF AllocParamTarget
<1>2. l \in Addr /\ r \in Addr
  BY ParsedIs, AddrOps
<1>3. Is6(r) \in BOOLEAN
  BY DEF Is6
<1>4. /\ local' \in Addr /\ local'.low # "0"
      /\ l.low # "0" => local' = l
      /\ l.low = "0" => IF Is6(r) THEN local'.low \in {"g", "l"} ELSE local'.low = "4"
  BY <1>1, <1>2, <1>3, FilledIs DEF IInv
<1>5. extended' \in BOOLEAN /\ release' \in BOOLEAN /\ (release' => extended')
  BY BuildOptions DEF AllocParamTarget
<1>6. ipv6' = Is6(r)
  BY <1>1 DEF ParseOptions
<1>7. TypeOK'
  BY <1>1, <1>2, <1>3, <1>4, <1>5, <1>6
     DEF AllocParamTarget, IInv, TypeOK, devVars, msgVars
<1>8. IF ipv6' THEN local'.low # "4" /\ remote'.low # "4"
               ELSE local'.low \in {"0", "4"} /\ remote'.low \in {"0", "4"}
  <2>1. l = Zero \/ Is6(l) = Is6(r)
    BY <1>1 DEF ParseOptions
  <2>2. Zero.low = "0"
    BY DEF Zero
  <2>3. l # Zero => IF Is6(l) THEN l.low # "4" ELSE l.low = "4"
    BY ParsedIs
  <2>4. IF Is6(r) THEN r.low # "4" ELSE r.low = "4"
    BY ParsedIs
  <2> QED  BY <1>1, <1>4, <1>6, <2>1, <2>2, <2>3, <2>4
<1> QED  BY <1>4, <1>5, <1>7, <1>8 DEF AllocParamTarget, ParamInv, ReleaseNeedsExtended

LEMMA EnableStep == ASSUME IInv, Enable PROVE TypeOK' /\ ParamInv'
<1>1. local' = local \/ local' \in Filled(ipv6, local, remote)
  BY DEF Enable
<1>2. local' \in Filled(ipv6, local, remote) =>
        /\ local' \in Addr /\ local'.low # "0"
        /\ local.low # "0" => local' = local
        /\ local.low = "0" => IF ipv6 THEN local'.low \in {"g", "l"} ELSE local'.low = "4"
  BY FilledIs DEF IInv, TypeOK
<1>3. enabled' \in BOOLEAN /\ (enabled' => local' \in Filled(ipv6, local, remote))
  BY ZenonT(60) DEF Enable
<1>4. TypeOK'
  BY <1>1, <1>2, <1>3 DEF Enable, IInv, TypeOK, devVars, msgVars
<1> QED  BY <1>1, <1>2, <1>3, <1>4
         DEF Enable, IInv, TypeOK, ParamInv, ReleaseNeedsExtended, msgVars

LEMMA StoreStep ==
    ASSUME IInv, LocalIpStore \/ RemoteIpStore
    PROVE  TypeOK' /\ ParamInv'
<1> USE DEF Storing, devVars, msgVars
<1>1. CASE LocalIpStore
  <2>1. CASE (\E k \in Kinds6 : local' = V6(k)) /\ Family6(remote)
    <3>1. local' \in Addr /\ local'.low # "4"
      BY <2>1, AddrOps
    <3>2. ipv6' \in BOOLEAN /\ slips' \subseteq {"mixed", "refused"}
      BY <2>1, ZenonT(60) DEF Family6, IInv, TypeOK
    <3>3. slips' = {} => slips = {} /\ ipv6' = TRUE /\ remote.low # "4"
      BY <2>1 DEF Family6
    <3> QED  BY <1>1, <3>1, <3>2, <3>3
             DEF LocalIpStore, IInv, TypeOK, ParamInv, ReleaseNeedsExtended
  <2>2. CASE /\ ~ipv6 /\ local' \in {V4(local), [local EXCEPT !.low = "0"]}
             /\ UNCHANGED <<ipv6, slips>>
    <3>0. local \in Addr
      BY DEF IInv, TypeOK
    <3>1. local' \in Addr /\ local'.low \in {"0", "4"}
      BY <2>2, <3>0, AddrOps, ZenonT(60)
    <3> QED  BY <1>1, <2>2, <3>1
             DEF LocalIpStore, IInv, TypeOK, ParamInv, ReleaseNeedsExtended
  <2> QED  BY <1>1, <2>1, <2>2 DEF LocalIpStore
<1>2. CASE RemoteIpStore
  <2>1. CASE (\E k \in Kinds6 : remote' = V6(k)) /\ Family6(local)
    <3>1. remote' \in Addr /\ remote'.low # "4"
      BY <2>1, AddrOps
    <3>2. ipv6' \in BOOLEAN /\ slips' \subseteq {"mixed", "refused"}
      BY <2>1, ZenonT(60) DEF Family6, IInv, TypeOK
    <3>3. slips' = {} => slips = {} /\ ipv6' = TRUE /\ local.low # "4"
      BY <2>1 DEF Family6
    <3> QED  BY <1>2, <3>1, <3>2, <3>3
             DEF RemoteIpStore, IInv, TypeOK, ParamInv, ReleaseNeedsExtended
  <2>2. CASE /\ ~ipv6 /\ remote' \in {V4(remote), [remote EXCEPT !.low = "0"]}
             /\ UNCHANGED <<ipv6, slips>>
    <3>0. remote \in Addr
      BY DEF IInv, TypeOK
    <3>1. remote' \in Addr /\ remote'.low \in {"0", "4"}
      BY <2>2, <3>0, AddrOps
    <3> QED  BY <1>2, <2>2, <3>1
             DEF RemoteIpStore, IInv, TypeOK, ParamInv, ReleaseNeedsExtended
  <2> QED  BY <1>2, <2>1, <2>2 DEF RemoteIpStore
<1> QED  BY <1>1, <1>2

ParamNext ==
    \/ AllocParamTarget \/ MakeTarget \/ DropTarget \/ Enable \/ Disable
    \/ ReleaseStore \/ ExtendedStore \/ LocalIpStore \/ RemoteIpStore \/ PortStore
    \/ RemoteMacStore \/ DevAddr

LEMMA ParamStep == ASSUME IInv, ParamNext PROVE IInv'
<1> USE DEF devVars, msgVars, npVars
<1>1. TypeOK' /\ ParamInv'
  <2>1. CASE MakeTarget \/ DropTarget
    <3>1. Zero \in Addr /\ Zero.low = "0"
      BY AddrOps DEF Zero
    <3>2. TypeOK'
      BY <2>1, <3>1, BuildOptions, ZenonT(60) DEF MakeTarget, DropTarget, Fresh, IInv, TypeOK
    <3>3. ParamInv'
      BY <2>1, <3>1, BuildOptions
         DEF MakeTarget, DropTarget, Fresh, IInv, ParamInv, ReleaseNeedsExtended
    <3> QED  BY <3>2, <3>3
  <2>2. CASE Disable
    <3>1. TypeOK'
      BY <2>2, ZenonT(60) DEF Disable, IInv, TypeOK
    <3>2. ParamInv'
      BY <2>2 DEF Disable, IInv, ParamInv, ReleaseNeedsExtended
    <3> QED  BY <3>1, <3>2
  <2>3. CASE DevAddr
    <3>1. TypeOK'
      BY <2>3 DEF DevAddr, IInv, TypeOK
    <3>2. ParamInv'
      BY <2>3 DEF DevAddr, IInv, ParamInv, ReleaseNeedsExtended
    <3> QED  BY <3>1, <3>2
  <2>4. CASE ReleaseStore
    <3>1. TypeOK'
      BY <2>4 DEF ReleaseStore, Storing, IInv, TypeOK
    <3>2. ParamInv'
      BY <2>4 DEF ReleaseStore, Storing, IInv, ParamInv, ReleaseNeedsExtended
    <3> QED  BY <3>1, <3>2
  <2>5. CASE ExtendedStore
    <3>1. TypeOK'
      BY <2>5 DEF ExtendedStore, Storing, IInv, TypeOK
    <3>2. ParamInv'
      BY <2>5 DEF ExtendedStore, Storing, IInv, ParamInv, ReleaseNeedsExtended
    <3> QED  BY <3>1, <3>2
  <2>6. CASE PortStore
    <3>1. TypeOK'
      BY <2>6 DEF PortStore, Storing, IInv, TypeOK
    <3>2. ParamInv'
      BY <2>6 DEF PortStore, Storing, IInv, ParamInv, ReleaseNeedsExtended
    <3> QED  BY <3>1, <3>2
  <2>7. CASE RemoteMacStore
    <3>1. TypeOK'
      BY <2>7 DEF RemoteMacStore, Storing, IInv, TypeOK
    <3>2. ParamInv'
      BY <2>7 DEF RemoteMacStore, Storing, IInv, ParamInv, ReleaseNeedsExtended
    <3> QED  BY <3>1, <3>2
  <2> QED  BY <2>1, <2>2, <2>3, <2>4, <2>5, <2>6, <2>7, AllocStep, EnableStep, StoreStep
           DEF ParamNext
<1>2. UNCHANGED msgVars
  BY ZenonT(60)
     DEF ParamNext, AllocParamTarget, MakeTarget, DropTarget, Enable, Disable, ReleaseStore,
         ExtendedStore, LocalIpStore, RemoteIpStore, PortStore, RemoteMacStore, DevAddr
<1>3. msg # NoMsg => UNCHANGED <<extended, release>>
  BY ZenonT(60)
     DEF ParamNext, AllocParamTarget, MakeTarget, DropTarget, Enable, Disable, ReleaseStore,
         ExtendedStore, LocalIpStore, RemoteIpStore, PortStore, RemoteMacStore, DevAddr,
         Storing, IInv, ParamInv
<1> QED  BY <1>1, <1>2, <1>3, MessageKept DEF IInv
-----------------------------------------------------------------------------
(***************************************************************************)
(* The invariant: packets.                                                 *)
(***************************************************************************)

\* The header of a fragment leaves room for text (send_ext_msg_udp).
LEMMA FragHeaderFits ==
    ASSUME IInv, msg # NoMsg
    PROVE  /\ TextLen \in Nat /\ FragHeader \in Nat /\ FragHeader < Chunk
           /\ msg.len \in Nat /\ msg.hdr \in Nat /\ msg.hdr < msg.len
           /\ Prefix \in Nat
<1>1. /\ msg \in Msgs /\ msg.len \in Nat /\ msg.hdr \in Nat /\ msg.hdr < msg.len
      /\ msg.hdr + ReleaseLen + 22 < Chunk /\ ReleaseLen \in Nat /\ Chunk \in Nat
  BY RoomForText DEF IInv, TypeOK
<1>2. Prefix \in Nat /\ Prefix <= ReleaseLen
  BY <1>1 DEF Prefix
<1>3. TextLen \in Nat
  BY <1>1 DEF TextLen
<1>4. \A n \in Nat : Digits(n) \in 1..5
  BY DEF Digits
<1>5. offset \in Nat
  BY DEF IInv, TypeOK
<1> DEFINE n == 10 + Digits(offset) + Digits(TextLen)  h == msg.hdr + Prefix
<1>6. n \in 12..20
  BY <1>3, <1>4, <1>5
<1>7. h \in Nat /\ h + 22 < Chunk
  BY <1>1, <1>2
<1>8. FragHeader = h + Scnprintf(Chunk - h, n)
  BY DEF FragHeader
<1> HIDE DEF n, h
<1>9. Scnprintf(Chunk - h, n) = n
  BY <1>1, <1>6, <1>7 DEF Scnprintf
<1> QED  BY <1>1, <1>2, <1>3, <1>6, <1>7, <1>8, <1>9

\* A packet that begins where the last one ended keeps the message in order.
LEMMA SendStep ==
    ASSUME IInv, msg # NoMsg, sendUnchanged, NEW p \in Packet, SendUdp(p),
           p.from = offset, p.from < p.to, p.to <= TextLen, p.bytes <= Chunk,
           p.of # 0 => p.at = p.from /\ p.of = TextLen,
           p.nul => msg.len + ReleaseLen = Chunk,
           extended /\ Whole => p.to = msg.len
    PROVE  IInv'
<1> USE DEF sendUnchanged, npVars, devVars
<1>1. out \in Seq(Packet) /\ offset \in Nat /\ p.to \in Nat
  BY DEF IInv, TypeOK, Packet
<1>2. out' = Append(out, p) /\ offset' = p.to
  BY DEF SendUdp
<1>3. /\ out' \in Seq(Packet) /\ Len(out') = Len(out) + 1 /\ out'[Len(out')] = p
      /\ DOMAIN out' = 1..(Len(out) + 1) /\ DOMAIN out = 1..Len(out) /\ Len(out) \in Nat
      /\ \A k \in 1..Len(out) : out'[k] = out[k]
  BY <1>1, <1>2
<1>4. Whole' = Whole /\ TextLen' = TextLen
  BY DEF Whole, TextLen, Prefix
<1>5. TypeOK'
  BY <1>1, <1>2, <1>3 DEF IInv, TypeOK
<1>6. ParamInv'
  BY DEF IInv, ParamInv, ReleaseNeedsExtended
<1>7. PacketsTile'
  <2>1. offset' = out'[Len(out')].to /\ out' # <<>> /\ offset' <= TextLen
    BY <1>2, <1>3
  <2>2. ASSUME NEW k \in DOMAIN out'
        PROVE  /\ out'[k].from = IF k = 1 THEN 0 ELSE out'[k - 1].to
               /\ out'[k].from < out'[k].to
               /\ out'[k].of # 0 => out'[k].at = out'[k].from /\ out'[k].of = TextLen
    <3>1. CASE k \in 1..Len(out)
      <4>1. out'[k] = out[k] /\ (k # 1 => k - 1 \in 1..Len(out) /\ out'[k - 1] = out[k - 1])
        BY <3>1, <1>3
      <4> QED  BY <3>1, <4>1, <1>3 DEF IInv, MessageInv, PacketsTile
    <3>2. CASE k = Len(out) + 1
      <4>1. out'[k] = p
        BY <3>2, <1>3
      <4>2. offset = IF out = <<>> THEN 0 ELSE out[Len(out)].to
        BY DEF IInv, MessageInv, PacketsTile
      <4>3. k = 1 <=> out = <<>>
        BY <3>2, <1>1
      <4>4. k # 1 => out'[k - 1] = out[Len(out)]
        BY <3>2, <1>3
      <4> QED  BY <4>1, <4>2, <4>3, <4>4
    <3> QED  BY <3>1, <3>2, <1>3
  <2> QED  BY <2>1, <2>2, <1>4 DEF PacketsTile
<1>8. \A k \in DOMAIN out' : /\ out'[k].bytes <= Chunk
                             /\ out'[k].nul => msg.len + ReleaseLen = Chunk
  BY <1>3 DEF IInv, MessageInv
<1> QED  BY <1>2, <1>4, <1>5, <1>6, <1>7, <1>8 DEF IInv, MessageInv

\* A message of which nothing has been sent: none, or one that has just begun.
LEMMA EmptyStep ==
    ASSUME IInv, UNCHANGED <<made, enabled, extended, release, npVars, slips, devVars>>,
           msg' \in Msgs \cup {NoMsg}, msg' # NoMsg => enabled, offset' = 0, out' = <<>>
    PROVE  IInv'
<1>1. TypeOK'
  <2>1. offset' \in Nat /\ out' \in Seq(Packet)
    OBVIOUS
  <2> QED  BY <2>1 DEF IInv, TypeOK, npVars, devVars
<1>2. ParamInv'
  BY DEF IInv, ParamInv, ReleaseNeedsExtended, npVars
<1>3. msg' # NoMsg => TextLen' \in Nat
  <2> SUFFICES ASSUME msg' # NoMsg PROVE TextLen' \in Nat
    OBVIOUS
  <2>1. msg'.len \in Nat /\ msg'.hdr \in Nat /\ msg'.hdr < msg'.len
    BY RoomForText
  <2> QED  BY <2>1 DEF TextLen
<1>4. MessageInv'
  BY <1>3 DEF MessageInv, PacketsTile
<1> QED  BY <1>1, <1>2, <1>4 DEF IInv

\* The room for text is never used up, so no message is given up on the way.
LEMMA FragIs ==
    ASSUME IInv, SendExtFrag
    PROVE  \E chunk \in Nat \ {0} :
             /\ chunk <= TextLen - offset /\ FragHeader + chunk <= Chunk
             /\ SendUdp([bytes |-> FragHeader + chunk, from |-> offset, to |-> offset + chunk,
                         at |-> offset, of |-> TextLen, nul |-> FALSE])
             /\ UNCHANGED msg
<1> DEFINE chunk == Least(TextLen - offset, Chunk - FragHeader)
<1>1. /\ msg # NoMsg /\ offset < TextLen /\ offset \in Nat
  BY DEF SendExtFrag, IInv, TypeOK
<1>2. /\ TextLen \in Nat /\ FragHeader \in Nat /\ FragHeader < Chunk
      /\ msg.len \in Nat /\ msg.hdr \in Nat /\ msg.hdr < msg.len
  BY <1>1, FragHeaderFits
<1>3. Chunk \in Nat
  BY RoomForText
<1>4. /\ chunk \in Nat \ {0} /\ chunk <= TextLen - offset /\ FragHeader + chunk <= Chunk
  BY <1>1, <1>2, <1>3 DEF Least
<1>5. ~(msg.hdr >= msg.len \/ chunk <= 0)
  BY <1>2, <1>4
<1>6. IF msg.hdr >= msg.len \/ chunk <= 0
      THEN msg' = NoMsg /\ offset' = 0 /\ out' = <<>>
      ELSE /\ SendUdp([bytes |-> FragHeader + chunk, from |-> offset, to |-> offset + chunk,
                       at |-> offset, of |-> TextLen, nul |-> FALSE])
           /\ UNCHANGED msg
  BY DEF SendExtFrag
<1> HIDE DEF chunk
<1> QED  BY <1>4, <1>5, <1>6, ZenonT(60)

LEMMA WriteStep == ASSUME IInv, WriteStart \/ Write PROVE IInv'
<1>1. CASE WriteStart
  <2>1. /\ UNCHANGED <<made, enabled, extended, release, npVars, slips, devVars>>
        /\ enabled /\ msg' \in Msgs /\ offset' = 0 /\ out' = <<>>
    BY <1>1 DEF WriteStart
  <2> QED  BY <2>1, EmptyStep
<1>2. CASE WriteEnd
  <2>1. /\ UNCHANGED <<made, enabled, extended, release, npVars, slips, devVars>>
        /\ msg' = NoMsg /\ offset' = 0 /\ out' = <<>>
    BY <1>2 DEF WriteEnd
  <2> QED  BY <2>1, EmptyStep
<1>3. CASE WriteFrag
  <2> DEFINE frag == Least(msg.len - offset, Chunk)
             p == [bytes |-> frag, from |-> offset, to |-> offset + frag,
                   at |-> 0, of |-> 0, nul |-> FALSE]
  <2>1. msg # NoMsg /\ ~extended /\ offset < msg.len /\ sendUnchanged /\ SendUdp(p)
    BY <1>3 DEF WriteFrag
  <2>2. msg.len \in Nat /\ offset \in Nat /\ Chunk \in Nat \ {0} /\ TextLen = msg.len
    BY <2>1, FragHeaderFits, RoomForText DEF IInv, TypeOK, TextLen
  <2>3. frag \in Nat \ {0} /\ frag <= Chunk /\ frag <= msg.len - offset
    BY <2>1, <2>2 DEF Least
  <2> HIDE DEF frag
  <2>4. p \in Packet
    BY <2>2, <2>3 DEF Packet
  <2>5. /\ p.from = offset /\ p.from < p.to /\ p.to <= TextLen /\ p.bytes <= Chunk
        /\ p.of = 0 /\ ~p.nul
    BY <2>2, <2>3
  <2> HIDE DEF p
  <2> QED  BY <2>1, <2>4, <2>5, SendStep
<1>4. CASE SendExtWhole
  <2> DEFINE n == msg.len + Prefix
             p == [bytes |-> n, from |-> 0, to |-> msg.len, at |-> 0, of |-> 0,
                   nul |-> release /\ Scnprintf(Chunk, n) < n]
  <2>1. msg # NoMsg /\ extended /\ Whole /\ offset < msg.len /\ sendUnchanged /\ SendUdp(p)
    BY <1>4 DEF SendExtWhole
  <2>2. /\ msg.len \in Nat /\ Prefix \in Nat /\ Chunk \in Nat /\ ReleaseLen \in Nat
        /\ TextLen = msg.len /\ n <= Chunk /\ offset \in Nat
    BY <2>1, FragHeaderFits, RoomForText DEF IInv, TypeOK, TextLen, Whole
  <2>3. offset = 0
    BY <2>1, <2>2 DEF IInv, MessageInv
  <2>4. release /\ Scnprintf(Chunk, n) < n => msg.len + ReleaseLen = Chunk
    BY <2>2 DEF Scnprintf, Prefix
  <2>5. (release /\ Scnprintf(Chunk, n) < n) \in BOOLEAN
    BY ZenonT(60)
  <2>6. p \in Packet
    BY <2>2, <2>5 DEF Packet
  <2>7. /\ p.from = offset /\ p.from < p.to /\ p.to = msg.len /\ p.to <= TextLen
        /\ p.bytes <= Chunk /\ p.of = 0
    BY <2>1, <2>2, <2>3
  <2>8. p.nul = (release /\ Scnprintf(Chunk, n) < n)
    BY ZenonT(60)
  <2>9. p.nul => msg.len + ReleaseLen = Chunk
    BY <2>4, <2>8, ZenonT(60)
  <2> HIDE DEF p
  <2> QED  BY <2>1, <2>6, <2>7, <2>9, SendStep
<1>5. CASE SendExtFrag
  <2>1. PICK chunk \in Nat \ {0} :
          /\ chunk <= TextLen - offset /\ FragHeader + chunk <= Chunk
          /\ SendUdp([bytes |-> FragHeader + chunk, from |-> offset, to |-> offset + chunk,
                      at |-> offset, of |-> TextLen, nul |-> FALSE])
          /\ UNCHANGED msg
    BY <1>5, FragIs
  <2> DEFINE p == [bytes |-> FragHeader + chunk, from |-> offset, to |-> offset + chunk,
                   at |-> offset, of |-> TextLen, nul |-> FALSE]
  <2>2. msg # NoMsg /\ ~Whole /\ sendUnchanged
    BY <1>5, <2>1 DEF SendExtFrag, sendUnchanged
  <2>3. offset \in Nat /\ TextLen \in Nat /\ FragHeader \in Nat /\ Chunk \in Nat
    BY <2>2, FragHeaderFits, RoomForText DEF IInv, TypeOK
  <2>4. p \in Packet
    BY <2>1, <2>3 DEF Packet
  <2>5. /\ p.from = offset /\ p.from < p.to /\ p.to <= TextLen /\ p.bytes <= Chunk
        /\ p.at = p.from /\ p.of = TextLen /\ ~p.nul
    BY <2>1, <2>3
  <2>6. SendUdp(p)
    BY <2>1
  <2> HIDE DEF p
  <2> QED  BY <2>2, <2>4, <2>5, <2>6, SendStep
<1> QED  BY <1>1, <1>2, <1>3, <1>4, <1>5 DEF Write

LEMMA InvStep == IInv /\ [Next]_vars => IInv'
<1> SUFFICES ASSUME IInv, [Next]_vars PROVE IInv'
  OBVIOUS
<1>1. CASE UNCHANGED vars
  <2>1. TypeOK' /\ ParamInv'
    BY <1>1 DEF vars, npVars, devVars, msgVars, IInv, TypeOK, ParamInv, ReleaseNeedsExtended
  <2> QED  BY <1>1, <2>1, MessageKept DEF vars, msgVars, IInv
<1>2. CASE Next
  BY <1>2, ParamStep, WriteStep DEF Next, ParamNext
<1> QED  BY <1>1, <1>2

\* The invariant holds in every reachable state.
THEOREM TargetInvariant == Spec => []IInv
  BY InvInit, InvStep, PTL DEF Spec
-----------------------------------------------------------------------------
(***************************************************************************)
(* The theorems.                                                           *)
(***************************************************************************)

\* Every variable keeps its type; no packet has a negative length or place.
THEOREM TargetTypes == Spec => []TypeOK
  BY TargetInvariant, PTL DEF IInv

\* An enabled target has addresses of one family, but for the two slips of configfs
\* (netpoll_parse_options, netpoll_setup).
THEOREM FamiliesAgree == Spec => []OneFamily
<1>1. IInv => OneFamily
  <2> SUFFICES ASSUME IInv, enabled, slips = {}
               PROVE  IF ipv6 THEN local.low \in {"g", "l"} /\ remote.low # "4"
                              ELSE local.low = "4" /\ remote.low \in {"0", "4"}
    BY DEF OneFamily
  <2>1. local.low \in {"0", "4", "g", "l"}
    BY DEF IInv, TypeOK, Addr
  <2> QED  BY <2>1 DEF IInv, ParamInv
<1> QED  BY <1>1, TargetInvariant, PTL

\* A target enabled with the release sends extended messages (alloc_param_target,
\* enabled_store).
THEOREM ReleaseIsExtended == Spec => []ReleaseNeedsExtended
<1>1. IInv => ReleaseNeedsExtended
  BY DEF IInv, ParamInv
<1> QED  BY <1>1, TargetInvariant, PTL

\* The packets of a message share out its text in order (write_msg, send_ext_msg_udp).
THEOREM TextIsTiled == Spec => []PacketsTile
<1>1. IInv => PacketsTile
  BY DEF IInv, MessageInv
<1> QED  BY <1>1, TargetInvariant, PTL

\* A device that reserves no more than what is left of MAX_SKB_SIZE.
DeviceFits == Chunk + 48 + Reserved <= SkbSize

\* Every packet fits the buffer it is made in and a buffer of the emergency pool
\* (send_ext_msg_udp, find_skb).
THEOREM PacketsFit == ASSUME DeviceFits PROVE Spec => []PacketFits
<1>1. IInv => PacketFits
  <2> SUFFICES ASSUME IInv, NEW k \in DOMAIN out
               PROVE  /\ out[k].bytes <= Chunk
                      /\ out[k].bytes + 8 + (IF ipv6 THEN 40 ELSE 20) + Reserved <= SkbSize
    BY DEF PacketFits
  <2>1. out[k].bytes \in Nat /\ out[k].bytes <= Chunk
    <3>1. out \in Seq(Packet)
      BY DEF IInv, TypeOK
    <3>2. out[k] \in Packet
      BY <3>1
    <3> QED  BY <3>2 DEF IInv, MessageInv, Packet
  <2>2. Chunk \in Nat /\ Reserved \in Nat /\ SkbSize \in Nat
    BY RoomForText
  <2> QED  BY <2>1, <2>2, DeviceFits DEF DeviceFits
<1> QED  BY <1>1, TargetInvariant, PTL

\* No message is given up half-way, and only one of exactly MAX_PRINT_CHUNK bytes ends
\* in a NUL (send_ext_msg_udp, write_msg).
THEOREM MessagesAreWhole == Spec => MessageWhole
<1> DEFINE Done == msg # NoMsg /\ msg' = NoMsg =>
         /\ offset = TextLen
         /\ \A k \in DOMAIN out : out[k].nul => msg.len + ReleaseLen = Chunk
<1>1. IInv /\ [Next]_vars => Done
  <2> SUFFICES ASSUME IInv, [Next]_vars, msg # NoMsg, msg' = NoMsg PROVE Done
    OBVIOUS
  <2>1. ~SendExtFrag
    BY FragIs, ZenonT(60)
  <2>2. WriteEnd
    BY <2>1, ZenonT(60) DEF Next, Write, WriteStart, WriteFrag, SendExtWhole, sendUnchanged, vars,
         msgVars, AllocParamTarget, MakeTarget, DropTarget, Enable, Disable, ReleaseStore,
         ExtendedStore, LocalIpStore, RemoteIpStore, PortStore, RemoteMacStore, DevAddr
  <2>3. offset >= TextLen /\ offset <= TextLen /\ offset \in Nat /\ TextLen \in Nat
    BY <2>2, FragHeaderFits DEF WriteEnd, IInv, TypeOK, MessageInv, PacketsTile
  <2> QED  BY <2>3 DEF IInv, MessageInv
<1>2. IInv /\ [Next]_vars => [Done]_vars
  BY <1>1
<1>3. Spec => [][Done]_vars
  BY <1>2, TargetInvariant, PTL DEF Spec
<1> QED  BY <1>3 DEF MessageWhole

\* The parameters of an enabled target stay as they are (the stores, enabled_store).
THEOREM ParamsAreFrozen == Spec => ParamsFrozen
<1> DEFINE Same == enabled /\ enabled' => UNCHANGED <<extended, release, npVars>>
<1>1. IInv /\ [Next]_vars => Same
  BY DEF IInv, ParamInv, Next, Write, WriteStart, WriteFrag, SendExtWhole, SendExtFrag,
         WriteEnd, sendUnchanged, vars, AllocParamTarget, MakeTarget, DropTarget, Enable,
         Disable, ReleaseStore, ExtendedStore, LocalIpStore, RemoteIpStore, PortStore,
         RemoteMacStore, DevAddr, Storing
<1>2. IInv /\ [Next]_vars => [Same]_vars
  BY <1>1
<1>3. Spec => [][Same]_vars
  BY <1>2, TargetInvariant, PTL DEF Spec
<1> QED  BY <1>3 DEF ParamsFrozen
-----------------------------------------------------------------------------
(***************************************************************************)
(* How many packets a message takes.                                       *)
(***************************************************************************)

\* Every packet carries text, so that a message of n bytes ends within n packets; one
\* that is not extended is cut into as few packets as MAX_PRINT_CHUNK allows, and an
\* extended one that fits is sent in one (write_msg, send_ext_msg_udp).
PacketsFew ==
    msg # NoMsg =>
        /\ Len(out) <= offset
        /\ ~extended => /\ offset < msg.len => offset = Len(out) * Chunk
                        /\ out # <<>> => (Len(out) - 1) * Chunk < offset
        /\ extended /\ Whole => Len(out) <= 1

\* One more packet of the message, that reaches further.
LEMMA OneMore ==
    ASSUME TypeOK, NEW p, SendUdp(p)
    PROVE  Len(out) \in Nat /\ Len(out') = Len(out) + 1 /\ offset' = p.to
  BY DEF TypeOK, SendUdp

LEMMA FewStep == ASSUME IInv, PacketsFew, [Next]_vars PROVE PacketsFew'
<1>1. CASE UNCHANGED msgVars /\ (msg # NoMsg => UNCHANGED <<extended, release>>)
  <2>1. msg = NoMsg \/ Whole' = Whole
    BY <1>1 DEF Whole, Prefix, msgVars
  <2> QED  BY <1>1, <2>1 DEF PacketsFew, msgVars
<1>2. CASE UNCHANGED vars \/ ParamNext
  BY <1>1, <1>2, ZenonT(60)
     DEF vars, ParamNext, AllocParamTarget, MakeTarget, DropTarget, Enable, Disable, ReleaseStore,
         ExtendedStore, LocalIpStore, RemoteIpStore, PortStore, RemoteMacStore, DevAddr, Storing,
         IInv, ParamInv
<1>3. CASE WriteEnd
  BY <1>3 DEF WriteEnd, PacketsFew
<1>4. CASE WriteStart
  <2>1. offset' = 0 /\ out' = <<>> /\ Len(out') = 0 /\ 0 * Chunk = 0
    BY <1>4, RoomForText DEF WriteStart
  <2> QED  BY <2>1 DEF PacketsFew
<1>5. CASE msg # NoMsg /\ (WriteFrag \/ SendExtWhole \/ SendExtFrag)
  <2>1. /\ TypeOK /\ msg \in Msgs /\ msg.len \in Nat /\ offset \in Nat /\ Len(out) \in Nat
        /\ Chunk \in Nat \ {0}
    BY <1>5, RoomForText DEF IInv, TypeOK
  <2>2. CASE WriteFrag
    <3> DEFINE frag == Least(msg.len - offset, Chunk)
               p == [bytes |-> frag, from |-> offset, to |-> offset + frag,
                     at |-> 0, of |-> 0, nul |-> FALSE]
    <3>1. /\ SendUdp(p) /\ msg' = msg /\ ~extended' /\ ~extended /\ offset < msg.len
      BY <2>2 DEF WriteFrag, sendUnchanged
    <3>2. Len(out') = Len(out) + 1 /\ offset' = p.to
      BY <3>1, <2>1, OneMore
    <3>3. frag \in Nat \ {0} /\ (frag = Chunk \/ offset + frag = msg.len)
      BY <2>1, <3>1 DEF Least
    <3> HIDE DEF frag
    <3>4. offset' = offset + frag
      BY <3>2
    <3>5. Len(out) <= offset /\ offset = Len(out) * Chunk
      BY <1>5, <3>1 DEF PacketsFew
    <3>6. (Len(out) + 1) * Chunk = Len(out) * Chunk + Chunk
      BY <2>1
    <3>7. Len(out') <= offset'
      BY <3>2, <3>3, <3>4, <3>5, <2>1
    <3>8. offset' < msg'.len => offset' = Len(out') * Chunk
      BY <3>1, <3>2, <3>3, <3>4, <3>5, <3>6, <2>1
    <3>9. (Len(out') - 1) * Chunk < offset'
      <4>1. Len(out') - 1 = Len(out)
        BY <3>2, <2>1
      <4> QED  BY <4>1, <3>3, <3>4, <3>5, <2>1
    <3> QED  BY <3>1, <3>7, <3>8, <3>9 DEF PacketsFew
  <2>3. CASE SendExtWhole
    <3> DEFINE p == [bytes |-> msg.len + Prefix, from |-> 0, to |-> msg.len, at |-> 0,
                     of |-> 0, nul |-> release
                                       /\ Scnprintf(Chunk, msg.len + Prefix) < msg.len + Prefix]
    <3>1. SendUdp(p) /\ extended /\ extended' /\ Whole /\ offset < msg.len
      BY <2>3 DEF SendExtWhole, sendUnchanged
    <3>2. Len(out') = Len(out) + 1 /\ offset' = msg.len
      BY <3>1, <2>1, OneMore
    <3>3. offset = 0
      BY <1>5, <3>1, <2>1 DEF IInv, MessageInv
    <3>4. Len(out) = 0
      BY <1>5, <3>3, <2>1 DEF PacketsFew
    <3>5. Len(out') = 1 /\ 1 <= offset'
      BY <3>1, <3>2, <3>3, <3>4, <2>1
    <3> QED  BY <3>1, <3>5 DEF PacketsFew
  <2>4. CASE SendExtFrag
    <3>1. PICK chunk \in Nat \ {0} :
             /\ SendUdp([bytes |-> FragHeader + chunk, from |-> offset, to |-> offset + chunk,
                         at |-> offset, of |-> TextLen, nul |-> FALSE])
             /\ UNCHANGED msg
      BY <2>4, FragIs
    <3>2. Len(out') = Len(out) + 1 /\ offset' = offset + chunk
      BY <3>1, <2>1, OneMore
    <3>3. extended' /\ release' = release /\ ~Whole
      BY <2>4 DEF SendExtFrag
    <3>4. ~Whole'
      BY <3>1, <3>3 DEF Whole, Prefix
    <3>5. Len(out') <= offset'
      BY <1>5, <3>2, <2>1 DEF PacketsFew
    <3> QED  BY <3>3, <3>4, <3>5 DEF PacketsFew
  <2> QED  BY <1>5, <2>2, <2>3, <2>4
<1> QED
  BY <1>2, <1>3, <1>4, <1>5
     DEF Next, ParamNext, Write, WriteFrag, SendExtWhole, SendExtFrag

\* A message takes at most as many packets as its text has bytes, and one that is not
\* extended as few as there can be (write_msg, send_ext_msg_udp).  With the fairness of
\* the writer this is why MessageEnds holds.
THEOREM PacketsAreFew == Spec => []PacketsFew
<1>1. Init => PacketsFew
  BY DEF Init, PacketsFew
<1> QED  BY <1>1, FewStep, TargetInvariant, PTL DEF Spec
=============================================================================
