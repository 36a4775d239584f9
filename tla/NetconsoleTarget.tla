-------------------------- MODULE NetconsoleTarget ---------------------------
(***************************************************************************)
(* One target of netconsole.c: its parameters, as the module's option      *)
(* string, the configfs files and netpoll_setup write them, and the        *)
(* packets a message to it is cut into.  Netconsole has the locking and    *)
(* the life of the targets; here a store and a setup are single steps, and *)
(* a message holds target_list_lock from its first packet to its last.     *)
(*                                                                         *)
(* Of an address only the family of its bytes and whether its first 32     *)
(* bits are zero matter, of a message its length and where its header      *)
(* ends.  The ports and the hardware address are one parameter, other; the *)
(* device's name is in Netconsole.                                         *)
(***************************************************************************)
EXTENDS Integers, Sequences

CONSTANTS
    Chunk,            \* MAX_PRINT_CHUNK
    ReleaseLen,       \* length of the kernel release and a comma
    SkbSize,          \* MAX_SKB_SIZE
    Reserved,         \* LL_RESERVED_SPACE and needed_tailroom of the device
    Msgs,             \* messages: [len, hdr], hdr the length before the ';'
    NoMsg,
    ExtendedLog, PrependRelease  \* build options, the defaults of a target

\* printk's header, the release and the longest fragment header leave room for text.
ASSUME RoomForText ==
    /\ {Chunk, ReleaseLen, SkbSize, Reserved} \subseteq Nat
    /\ Msgs \subseteq [len: Nat, hdr: Nat]
    /\ \A m \in Msgs : m.hdr < m.len /\ m.hdr + ReleaseLen + 22 < Chunk
ASSUME NoMsgIsNone == NoMsg \notin Msgs
ASSUME BuildOptions == /\ ExtendedLog \in BOOLEAN /\ PrependRelease \in BOOLEAN
                       /\ PrependRelease => ExtendedLog

VARIABLES
    made,             \* "none", or where the target comes from: "param", "config"
    enabled, extended, release,
    ipv6, local, remote,  \* np.ipv6, np.local_ip, np.remote_ip
    other,            \* np.local_port, np.remote_port and np.remote_mac
    slips,            \* history: how configfs has mixed the families
    dev4, dev6,       \* the device has an IPv4 address; its IPv6 addresses
    msg, offset, out  \* the message being sent, the bytes sent, and the packets

npVars == <<ipv6, local, remote, other>>
devVars == <<dev4, dev6>>
msgVars == <<msg, offset, out>>
vars == <<made, enabled, extended, release, npVars, slips, devVars, msgVars>>

(***************************************************************************)
(* union inet_addr: the first 32 bits, and the rest.  "4": an IPv4         *)
(* address; "g", "l": a global and a link-local IPv6 address; an IPv6      *)
(* address may begin with 32 zero bits.                                    *)
(***************************************************************************)
Zero == [low |-> "0", high |-> "0"]
V4(a) == [a EXCEPT !.low = "4"]
V6(k) == [low |-> k, high |-> "6"]
Kinds6 == {"0", "g", "l"}
LinkLocal(a) == a.low = "l"

\* alloc_and_init
Fresh ==
    /\ extended' = ExtendedLog /\ release' = PrependRelease
    /\ ipv6' = FALSE /\ local' = Zero /\ remote' = Zero /\ other' = "default"

Init ==
    /\ made = "none" /\ enabled = FALSE /\ extended = FALSE /\ release = FALSE
    /\ ipv6 = FALSE /\ local = Zero /\ remote = Zero /\ other = "default" /\ slips = {}
    /\ dev4 \in BOOLEAN /\ dev6 \in SUBSET {"g", "l"}
    /\ msg = NoMsg /\ offset = 0 /\ out = <<>>
-----------------------------------------------------------------------------
(***************************************************************************)
(* Setting a target up.                                                    *)
(***************************************************************************)

\* netpoll_setup: a local address whose first 32 bits are zero is taken from the
\* device.  The addresses it may end with; none, and the setup fails.
Filled(six, l, r) ==
    IF l.low # "0" THEN {l}
    ELSE IF ~six THEN (IF dev4 THEN {V4(l)} ELSE {})
    ELSE {V6(k) : k \in {d \in dev6 : (d = "l") <=> LinkLocal(r)}}

\* What netpoll_parse_ip_addr can accept for an address.
Parsed == {V4(Zero)} \cup {V6(k) : k \in Kinds6}
Is6(a) == a.high = "6"

\* Mutant: the second address sets the family whatever the first was.
ParseOptionsMixed(l, r) == ipv6' = Is6(r)

\* netpoll_parse_options accepts local address l (Zero: not given) and remote
\* address r.
ParseOptions(l, r) ==
    /\ l # Zero => Is6(l) = Is6(r)
    /\ ipv6' = Is6(r)

\* alloc_param_target: '+' and 'r', the options, and the setup.  On any failure
\* the target is freed.
AllocParamTarget ==
    /\ made = "none" /\ made' = "param"
    /\ \E plus, r \in BOOLEAN :
         /\ r => ExtendedLog \/ plus
         /\ extended' = (ExtendedLog \/ plus) /\ release' = (PrependRelease \/ r)
    /\ \E l \in Parsed \cup {Zero}, r \in Parsed :
         /\ ParseOptions(l, r)
         /\ remote' = r /\ local' \in Filled(Is6(r), l, r)
    /\ other' \in {"default", "stored"}
    /\ enabled' = TRUE
    /\ UNCHANGED <<slips, devVars, msgVars>>

\* make_netconsole_target
MakeTarget ==
    /\ made = "none" /\ made' = "config"
    /\ Fresh
    /\ UNCHANGED <<enabled, slips, devVars, msgVars>>

\* drop_netconsole_target, netpoll_cleanup and the release of the target; of a
\* parameter's target, free_param_target.
DropTarget ==
    /\ made # "none" /\ msg = NoMsg /\ made' = "none"
    /\ enabled' = FALSE /\ extended' = FALSE /\ release' = FALSE
    /\ ipv6' = FALSE /\ local' = Zero /\ remote' = Zero /\ other' = "default"
    /\ slips' = {}
    /\ UNCHANGED <<devVars, msgVars>>

\* Mutant: the release is not looked at.
EnableUnchecked ==
    /\ made = "config" /\ ~enabled
    /\ local' \in Filled(ipv6, local, remote) \cup {local}
    /\ enabled' \in IF local' \in Filled(ipv6, local, remote) THEN BOOLEAN ELSE {FALSE}
    /\ UNCHANGED <<made, extended, release, ipv6, remote, other, slips, devVars,
                   msgVars>>

\* enabled_store of a 1: the setup may fail after it has filled the local address.
Enable ==
    /\ made = "config" /\ ~enabled
    /\ ~(release /\ ~extended)
    /\ local' \in Filled(ipv6, local, remote) \cup {local}
    /\ enabled' \in IF local' \in Filled(ipv6, local, remote) THEN BOOLEAN ELSE {FALSE}
    /\ UNCHANGED <<made, extended, release, ipv6, remote, other, slips, devVars,
                   msgVars>>

\* enabled_store of a 0, or an event of the device: both wait for target_list_lock.
Disable ==
    /\ enabled /\ msg = NoMsg
    /\ enabled' = FALSE
    /\ UNCHANGED <<made, extended, release, npVars, slips, devVars, msgVars>>
-----------------------------------------------------------------------------
(***************************************************************************)
(* The stores of the parameters, refused while the target is enabled.      *)
(***************************************************************************)
Storing == made = "config" /\ ~enabled

ReleaseStore ==
    /\ Storing /\ release' \in BOOLEAN
    /\ UNCHANGED <<made, enabled, extended, npVars, slips, devVars, msgVars>>

ExtendedStore ==
    /\ Storing /\ extended' \in BOOLEAN
    /\ UNCHANGED <<made, enabled, release, npVars, slips, devVars, msgVars>>

\* What storing an IPv6 address does to the family and the history, the other
\* address being beside.  Text after the address has the store refused, with the
\* address already written.
Family6(beside) ==
    \/ /\ ipv6' = TRUE
       /\ slips' = slips \cup (IF beside.low = "4" THEN {"mixed"} ELSE {})
    \/ ipv6' = ipv6 /\ slips' = slips \cup {"refused"}

LocalIpStore ==
    /\ Storing
    /\ \/ (\E k \in Kinds6 : local' = V6(k)) /\ Family6(remote)
       \/ ~ipv6 /\ local' \in {V4(local), [local EXCEPT !.low = "0"]}
          /\ UNCHANGED <<ipv6, slips>>
    /\ UNCHANGED <<made, enabled, extended, release, remote, other, devVars, msgVars>>

RemoteIpStore ==
    /\ Storing
    /\ \/ (\E k \in Kinds6 : remote' = V6(k)) /\ Family6(local)
       \/ ~ipv6 /\ remote' \in {V4(remote), [remote EXCEPT !.low = "0"]}
          /\ UNCHANGED <<ipv6, slips>>
    /\ UNCHANGED <<made, enabled, extended, release, local, other, devVars, msgVars>>

\* local_port_store and remote_port_store, which write only a number they accept.
PortStore ==
    /\ Storing /\ other' = "stored"
    /\ UNCHANGED <<made, enabled, extended, release, ipv6, local, remote, slips, devVars,
                   msgVars>>

\* remote_mac_store, which writes only an address it has accepted.
RemoteMacStore ==
    /\ Storing /\ other' = "stored"
    /\ UNCHANGED <<made, enabled, extended, release, ipv6, local, remote, slips, devVars,
                   msgVars>>

\* The device gets and loses addresses.
DevAddr ==
    /\ dev4' \in BOOLEAN /\ dev6' \in SUBSET {"g", "l"}
    /\ UNCHANGED <<made, enabled, extended, release, npVars, slips, msgVars>>
-----------------------------------------------------------------------------
(***************************************************************************)
(* A message.  A packet is its length in bytes, the part of the text in    *)
(* it, what its fragment header says (0, 0 without one), and whether its   *)
(* last byte has been overwritten by a NUL.                                *)
(***************************************************************************)
Least(a, b) == IF a < b THEN a ELSE b
Digits(n) == IF n < 10 THEN 1 ELSE IF n < 100 THEN 2 ELSE IF n < 1000 THEN 3
             ELSE IF n < 10000 THEN 4 ELSE 5

\* scnprintf of text of length n into a buffer of that size.
Scnprintf(size, n) == IF n < size THEN n ELSE size - 1

Prefix == IF release THEN ReleaseLen ELSE 0
Whole == msg.len + Prefix <= Chunk

\* The text that fragments share out: of an extended message the part after the ';'.
TextLen == IF extended /\ ~Whole THEN msg.len - msg.hdr - 1 ELSE msg.len

\* write_msg and write_ext_msg reach the target; nothing is sent for no text.
WriteStart ==
    /\ enabled /\ msg = NoMsg
    /\ msg' \in Msgs /\ offset' = 0 /\ out' = <<>>
    /\ UNCHANGED <<made, enabled, extended, release, npVars, slips, devVars>>

sendUnchanged == UNCHANGED <<made, enabled, extended, release, npVars, slips, devVars, msg>>

SendUdp(p) == out' = Append(out, p) /\ offset' = p.to

\* The loop of write_msg.
WriteFrag ==
    /\ msg # NoMsg /\ ~extended /\ offset < msg.len
    /\ LET frag == Least(msg.len - offset, Chunk) IN
       SendUdp([bytes |-> frag, from |-> offset, to |-> offset + frag,
                at |-> 0, of |-> 0, nul |-> FALSE])
    /\ sendUnchanged

\* send_ext_msg_udp without fragments.
SendExtWhole ==
    /\ msg # NoMsg /\ extended /\ Whole /\ offset < msg.len
    /\ SendUdp([bytes |-> msg.len + Prefix, from |-> 0, to |-> msg.len, at |-> 0, of |-> 0,
                nul |-> release /\ Scnprintf(Chunk, msg.len + Prefix) < msg.len + Prefix])
    /\ sendUnchanged

\* The fragment's header and the room that is left for its text.
FragHeader ==
    LET h == msg.hdr + Prefix
    IN  h + Scnprintf(Chunk - h, 10 + Digits(offset) + Digits(TextLen))

\* Mutant: the header of the fragment is not counted.
SendExtFragTooLong ==
    /\ msg # NoMsg /\ extended /\ ~Whole /\ offset < TextLen
    /\ LET chunk == Least(TextLen - offset, Chunk) IN
       SendUdp([bytes |-> FragHeader + chunk, from |-> offset, to |-> offset + chunk,
                at |-> offset, of |-> TextLen, nul |-> FALSE])
    /\ sendUnchanged

\* Mutant: a fragment is always as long as it may be.
SendExtFragFull ==
    /\ msg # NoMsg /\ extended /\ ~Whole /\ offset < TextLen
    /\ LET chunk == Chunk - FragHeader IN
       SendUdp([bytes |-> FragHeader + chunk, from |-> offset, to |-> offset + chunk,
                at |-> offset, of |-> TextLen, nul |-> FALSE])
    /\ sendUnchanged

\* Mutant: the offset does not advance.
SendExtFragAgain ==
    /\ msg # NoMsg /\ extended /\ ~Whole /\ offset < TextLen
    /\ UNCHANGED <<out, offset>>
    /\ sendUnchanged

\* Mutant: a byte too few fits.
SendExtFragShort ==
    /\ msg # NoMsg /\ extended /\ ~Whole /\ offset < TextLen
    /\ LET chunk == Least(TextLen - offset, Chunk - FragHeader) - 1 IN
       IF msg.hdr >= msg.len \/ chunk <= 0
       THEN msg' = NoMsg /\ offset' = 0 /\ out' = <<>>
       ELSE /\ SendUdp([bytes |-> FragHeader + chunk, from |-> offset, to |-> offset + chunk,
                        at |-> offset, of |-> TextLen, nul |-> FALSE])
            /\ UNCHANGED msg
    /\ UNCHANGED <<made, enabled, extended, release, npVars, slips, devVars>>

\* One round of the loop of send_ext_msg_udp.  A message without a ';', or whose
\* headers leave no room, is given up.
SendExtFrag ==
    /\ msg # NoMsg /\ extended /\ ~Whole /\ offset < TextLen
    /\ LET chunk == Least(TextLen - offset, Chunk - FragHeader) IN
       IF msg.hdr >= msg.len \/ chunk <= 0
       THEN msg' = NoMsg /\ offset' = 0 /\ out' = <<>>
       ELSE /\ SendUdp([bytes |-> FragHeader + chunk, from |-> offset, to |-> offset + chunk,
                        at |-> offset, of |-> TextLen, nul |-> FALSE])
            /\ UNCHANGED msg
    /\ UNCHANGED <<made, enabled, extended, release, npVars, slips, devVars>>

WriteEnd ==
    /\ msg # NoMsg /\ offset >= TextLen
    /\ msg' = NoMsg /\ offset' = 0 /\ out' = <<>>
    /\ UNCHANGED <<made, enabled, extended, release, npVars, slips, devVars>>

Write == WriteFrag \/ SendExtWhole \/ SendExtFrag \/ WriteEnd

Next ==
    \/ AllocParamTarget \/ MakeTarget \/ DropTarget \/ Enable \/ Disable
    \/ ReleaseStore \/ ExtendedStore \/ LocalIpStore \/ RemoteIpStore \/ PortStore
    \/ RemoteMacStore \/ DevAddr \/ WriteStart \/ Write

Spec == Init /\ [][Next]_vars

\* The writer of a message goes on.
FairSpec == Spec /\ WF_vars(Write)
-----------------------------------------------------------------------------
Packet == [bytes: Nat, from: Nat, to: Nat, at: Nat, of: Nat, nul: BOOLEAN]

Addr ==
    {a \in [low: {"0", "4", "g", "l"}, high: {"0", "6"}] : LinkLocal(a) \/ a.low = "g" => Is6(a)}

TypeOK ==
    /\ made \in {"none", "param", "config"}
    /\ enabled \in BOOLEAN /\ extended \in BOOLEAN /\ release \in BOOLEAN
    /\ ipv6 \in BOOLEAN
    /\ local \in Addr /\ remote \in Addr
    /\ other \in {"default", "stored"} /\ slips \subseteq {"mixed", "refused"}
    /\ dev4 \in BOOLEAN /\ dev6 \subseteq {"g", "l"}
    /\ msg \in Msgs \cup {NoMsg} /\ offset \in Nat /\ out \in Seq(Packet)

\* An enabled target sends from and to addresses of the family its packets have, and
\* from an address: netpoll_parse_options lets no other pair pass, and netpoll_setup
\* fills in one of the family.  In configfs there are two ways to another pair, and
\* no third: an IPv6 address stored beside an IPv4 one, be it one that an earlier
\* setup has filled in, and an IPv6 address whose store was refused.
OneFamily ==
    enabled /\ slips = {} =>
        IF ipv6 THEN local.low \in {"g", "l"} /\ remote.low # "4"
                ELSE local.low = "4" /\ remote.low \in {"0", "4"}

\* A target that is enabled with the release in front of its messages sends extended
\* ones: alloc_param_target and enabled_store check it, and neither flag can be
\* stored while the target is enabled.
ReleaseNeedsExtended == enabled /\ release => extended

\* The packets of a message share out its text without a gap and without overlap, in
\* order, and each says in its fragment header where it belongs (the loops of
\* write_msg and send_ext_msg_udp).
PacketsTile ==
    msg # NoMsg =>
        /\ offset = IF out = <<>> THEN 0 ELSE out[Len(out)].to
        /\ offset <= TextLen
        /\ \A k \in DOMAIN out :
             LET p == out[k] IN
             /\ p.from = IF k = 1 THEN 0 ELSE out[k - 1].to
             /\ p.from < p.to
             /\ p.of # 0 => p.at = p.from /\ p.of = TextLen

\* A packet fits MAX_PRINT_CHUNK, the size of the buffer it is put together in, and
\* with its headers a buffer of the emergency pool, which find_skb hands out whatever
\* length is asked for.
PacketFits ==
    \A k \in DOMAIN out :
        /\ out[k].bytes <= Chunk
        /\ out[k].bytes + 8 + (IF ipv6 THEN 40 ELSE 20) + Reserved <= SkbSize

\* No message is given up half-way, and its last byte arrives as it is, except that of
\* one which with the release is exactly MAX_PRINT_CHUNK long: scnprintf ends it with a
\* NUL (send_ext_msg_udp, write_msg).
MessageWhole ==
    [][msg # NoMsg /\ msg' = NoMsg =>
         /\ offset = TextLen
         /\ \A k \in DOMAIN out : out[k].nul => msg.len + ReleaseLen = Chunk]_vars

\* The parameters of a target stay as they are while it is enabled, so the packets of
\* a message all carry the same ones (the stores, enabled_store).
ParamsFrozen ==
    [][enabled /\ enabled' => UNCHANGED <<extended, release, npVars>>]_vars

\* A message is done with after finitely many packets (the loops of write_msg and
\* send_ext_msg_udp).
MessageEnds == msg # NoMsg ~> msg = NoMsg
=============================================================================
