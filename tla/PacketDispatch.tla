--------------------------- MODULE PacketDispatch ---------------------------
(***************************************************************************)
(* The packet path of VEthernetNetworkSwitcher                             *)
(* (src/ppp/app/client/VEthernetNetworkSwitcher.cpp): the raw OnPacketInput *)
(* that hands subnet traffic to exchanger->Nat, the IPFrame dispatch and    *)
(* OnUdpPacketInput with QUIC blocking, DatagramOutput that writes the      *)
(* exchanger's UDP replies back to the virtual NIC, OnInformation with the  *)
(* QoS bandwidth, and the bypass decision IsBypassIpAddress over fib_.      *)
(* Every handler runs on the switcher's io_context, so each is one step.    *)
(* Addresses are W-bit naturals; a mask is an address and & is bitwise.     *)
(***************************************************************************)
EXTENDS Integers, FiniteSets, Bitwise

CONSTANTS
    W,          \* address width in bits
    TapIP,      \* tap->IPAddress
    TapGw,      \* tap->GatewayServer
    TapMask,    \* tap->SubmaskAddress
    RawDests,   \* destinations of packets on the netstack's raw path
    FrameDests, \* destinations of IP frames read from the NIC
    Ports,      \* UDP destination ports
    LocalEP,    \* the UDP source endpoint of the local application
    FibTables,  \* the route sets [prefix, len, gw] fib_ may be compiled from
    KbpsIn,     \* bandwidth figures, in Kbps, of the configuration and of Information
    NoFib       \* fib_ == NULL

Addrs == 0..(2^W - 1)

ASSUME /\ W \in Nat \ {0}
       /\ {TapIP, TapGw, TapMask} \subseteq Addrs
       /\ RawDests \cup FrameDests \subseteq Addrs
       /\ \A t \in FibTables : t # {} /\ \A r \in t : r.prefix \in Addrs /\ r.len \in 0..W /\ r.gw \in Addrs
       /\ KbpsIn \subseteq Nat

VARIABLES
    tap,           \* GetTap() != NULL
    exchanger,     \* exchanger_ != NULL
    transmission,  \* exchanger->GetTransmission(): "open", "disposed" or "none"
    blockQuic,     \* block_quic_
    qos,           \* qos_ bandwidth in bytes per second, -1 when qos_ is NULL
    fib,           \* fib_: NoFib or the set of routes it was compiled from
    promisc,       \* unix_tap->IsPromisc()
    nat,           \* destinations handed to exchanger->Nat
    icmpIn,        \* destinations of frames handed to OnIcmpPacketInput
    sent,          \* datagrams [src, dst] handed to exchanger->SendTo
    tapOut,        \* UDP frames [src, dst] written to the NIC by Output
    lastReply,     \* ghost: the last DatagramOutput call and its result
    qosKbps        \* ghost: the Kbps figure qos_ was last set from

vars == <<tap, exchanger, transmission, blockQuic, qos, fib, promisc, nat,
          icmpIn, sent, tapOut, lastReply, qosKbps>>

Endpoint == [addr : Addrs, port : Ports]
Families == {"v4", "mapped", "v6"}   \* the address family of a udp::endpoint
NoReply == [ok |-> FALSE, d |-> [src |-> LocalEP, dst |-> LocalEP], fam |-> "v4"]

Kbps == 1024 \div 8   \* (1024 >> 3): bytes per second in one Kbps

-----------------------------------------------------------------------------
(* Longest-prefix match over fib_ (ForwardInformationTable::GetNextHop).   *)

\* The W-bit mask of a prefix length.
PrefixMask(len) == 2^W - 2^(W - len)

Matches(r, a) == (a & PrefixMask(r.len)) = r.prefix

NoHop == 0   \* GetNextHop finds no route: IPAddress::Any

\* The next hop of the longest prefix of f that holds a, trying lengths from
\* len down to 0.
RECURSIVE NextHopFrom(_, _, _)
NextHopFrom(f, a, len) ==
    IF len < 0 THEN NoHop
    ELSE LET m == {r \in f : r.len = len /\ Matches(r, a)}
         IN  IF m # {} THEN (CHOOSE r \in m : TRUE).gw
             ELSE NextHopFrom(f, a, len - 1)

-----------------------------------------------------------------------------
(* Mutated forms of the definitions below. *)

\* DatagramOutput that writes the frame with the endpoints not swapped.
ReplyFrameUnswapped(d) == [src |-> d.src, dst |-> d.dst]

\* DatagramOutput that skips Ipep::V6ToV4.
V6ToV4Missing(fam) == fam

\* NewQoS that converts the configured bandwidth as OnInformation does.
NewQoSInBytes(bandwidth) == Kbps * bandwidth

-----------------------------------------------------------------------------

\* ForwardInformationTable::GetNextHop.
GetNextHop(f, a) == NextHopFrom(f, a, W)

\* IsBypassIpAddress, Linux branch: not unspecified (0), not multicast (the
\* stand-in 2^W-2), not invalid (the broadcast 2^W-1); tap present; bypass
\* iff the tap is promiscuous and fib_'s next hop is not the tap gateway.
IsBypassIpAddress(a) ==
    /\ a \notin {0, 2^W - 2, 2^W - 1}
    /\ tap
    /\ promisc
    /\ fib # NoFib
    /\ GetNextHop(fib, a) # TapGw

\* IPAddressIsGatewayServer(destination, gw, mask).
IPAddressIsGatewayServer(dest, gw, mask) == dest = gw

\* The UDP frame DatagramOutput builds: Source is the remote, Destination the
\* local endpoint.
ReplyFrame(d) == [src |-> d.dst, dst |-> d.src]

\* Ipep::V6ToV4: a v4-mapped IPv6 address becomes IPv4.
V6ToV4(fam) == IF fam = "mapped" THEN "v4" ELSE fam

\* NewQoS: max(0, bandwidth); the Kbps conversion sits under bandwidth < 0.
NewQoS(bandwidth) ==
    LET b == IF bandwidth > 0 THEN bandwidth ELSE 0
    IN  IF b < 0 THEN b * Kbps ELSE b

-----------------------------------------------------------------------------

\* The constructor's mounted state: qos_ from NewQoS, no exchanger traffic yet;
\* the exchanger's Loopback may not have opened its transmission.
Init ==
    /\ tap \in BOOLEAN
    /\ exchanger \in IF tap THEN BOOLEAN ELSE {FALSE}
    /\ transmission \in IF exchanger THEN {"none", "open"} ELSE {"none"}
    /\ blockQuic = FALSE
    /\ qosKbps \in KbpsIn
    /\ qos = IF exchanger THEN NewQoS(qosKbps) ELSE -1
    /\ fib \in {NoFib} \cup FibTables
    /\ promisc \in BOOLEAN
    /\ nat = {}
    /\ icmpIn = {}
    /\ sent = {}
    /\ tapOut = {}
    /\ lastReply = NoReply

\* OnPacketInput(ip_hdr*, ..., proto, vnet): the netstack's raw path.
OnPacketInputRaw(vnet, proto, dest) ==
    /\ vnet
    /\ proto \in {"TCP", "UDP", "ICMP"}
    /\ exchanger
    /\ tap
    /\ dest # TapIP
    /\ ~IPAddressIsGatewayServer(dest, TapGw, TapMask)
    /\ (dest & TapMask) = (TapGw & TapMask)
    /\ nat' = nat \cup {dest}
    /\ UNCHANGED <<tap, exchanger, transmission, blockQuic, qos, fib, promisc,
                   icmpIn, sent, tapOut, lastReply, qosKbps>>

\* OnUdpPacketInput: a frame that parses, with a payload, while the exchanger
\* is mounted and the port is not blocked, goes to exchanger->SendTo.
OnUdpPacketInput(dst, parsed, payload) ==
    /\ parsed
    /\ payload
    /\ exchanger
    /\ ~(blockQuic /\ dst.port \in {443, 80})
    /\ sent' = sent \cup {[src |-> LocalEP, dst |-> dst]}
    /\ UNCHANGED <<tap, exchanger, transmission, blockQuic, qos, fib, promisc,
                   nat, icmpIn, tapOut, lastReply, qosKbps>>

\* OnPacketInput(IPFrame): UDP to OnUdpPacketInput, ICMP to OnIcmpPacketInput
\* (modelled in IcmpEcho), any other protocol refused.
OnPacketInput(proto, dst, parsed, payload) ==
    \/ /\ proto = "UDP"
       /\ OnUdpPacketInput(dst, parsed, payload)
    \/ /\ proto = "ICMP"
       /\ icmpIn' = icmpIn \cup {dst.addr}
       /\ UNCHANGED <<tap, exchanger, transmission, blockQuic, qos, fib,
                      promisc, nat, sent, tapOut, lastReply, qosKbps>>

\* DatagramOutput(sourceEP, destinationEP): the exchanger delivers a reply to
\* datagram d from a remote whose endpoint has family fam.  Only an IPv4
\* remote, after V6ToV4, is written to the NIC.
DatagramOutput(d, fam) ==
    /\ \/ /\ V6ToV4(fam) = "v4"
          /\ tapOut' = tapOut \cup {ReplyFrame(d)}
          /\ lastReply' = [ok |-> TRUE, d |-> d, fam |-> fam]
       \/ /\ V6ToV4(fam) # "v4"
          /\ lastReply' = [ok |-> FALSE, d |-> d, fam |-> fam]
          /\ UNCHANGED tapOut
    /\ UNCHANGED <<tap, exchanger, transmission, blockQuic, qos, fib, promisc,
                   nat, icmpIn, sent, qosKbps>>

\* OnInformation(info): with the exchanger mounted, set qos_'s bandwidth from
\* info->BandwidthQoS; an invalid session disposes the transmission.
OnInformation(bandwidth, valid) ==
    /\ exchanger
    /\ qos' = IF qos >= 0 THEN bandwidth * Kbps ELSE qos
    /\ qosKbps' = IF qos >= 0 THEN bandwidth ELSE qosKbps
    /\ transmission' = IF valid \/ transmission = "none" THEN transmission
                       ELSE "disposed"
    /\ UNCHANGED <<tap, exchanger, blockQuic, fib, promisc, nat, icmpIn, sent,
                   tapOut, lastReply>>

\* BlockQUIC(value).
BlockQUIC(value) ==
    /\ blockQuic' = value
    /\ UNCHANGED <<tap, exchanger, transmission, qos, fib, promisc, nat,
                   icmpIn, sent, tapOut, lastReply, qosKbps>>

Next ==
    \/ \E v \in BOOLEAN, p \in {"TCP", "UDP", "ICMP", "GRE"}, a \in RawDests :
           OnPacketInputRaw(v, p, a)
    \/ \E p \in {"UDP", "ICMP", "TCP"}, dst \in [addr : FrameDests, port : Ports],
          parsed, payload \in BOOLEAN :
           OnPacketInput(p, dst, parsed, payload)
    \/ \E d \in sent, fam \in Families : DatagramOutput(d, fam)
    \/ \E b \in KbpsIn, valid \in BOOLEAN : OnInformation(b, valid)
    \/ \E v \in BOOLEAN : BlockQUIC(v)

Spec == Init /\ [][Next]_vars

-----------------------------------------------------------------------------
(* Properties *)

TypeOK ==
    /\ tap \in BOOLEAN /\ exchanger \in BOOLEAN /\ (exchanger => tap)
    /\ transmission \in {"open", "disposed", "none"}
    /\ blockQuic \in BOOLEAN /\ promisc \in BOOLEAN
    /\ qos \in {-1} \cup {b * Kbps : b \in KbpsIn} \cup KbpsIn
    /\ fib \in {NoFib} \cup FibTables
    /\ nat \subseteq RawDests /\ icmpIn \subseteq FrameDests
    /\ sent \subseteq [src : {LocalEP}, dst : Endpoint]
    /\ tapOut \subseteq [src : Endpoint, dst : {LocalEP}]   \* written back to the local endpoint
    /\ lastReply \in {NoReply} \cup [ok : BOOLEAN, d : sent, fam : Families]

\* DatagramOutput writes to the NIC only replies to datagrams the switcher
\* sent through exchanger->SendTo, addressed back from the remote to the local
\* endpoint; and every reply whose remote is IPv4, natively or v4-mapped, is
\* written.
DatagramRepliesReturnToSender ==
    /\ \A f \in tapOut : \E d \in sent : f.src = d.dst /\ f.dst = d.src
    /\ lastReply # NoReply /\ lastReply.fam \in {"v4", "mapped"} =>
           /\ lastReply.ok
           /\ [src |-> lastReply.d.dst, dst |-> lastReply.d.src] \in tapOut

\* qos_ is always set in bytes per second from a bandwidth figure in Kbps, as
\* the "Kbps." conversions of NewQoS and OnInformation say.
QosBandwidthInBytes ==
    qos >= 0 => qos = qosKbps * Kbps

=============================================================================
