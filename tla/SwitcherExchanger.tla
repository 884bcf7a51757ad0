-------------------------- MODULE SwitcherExchanger --------------------------
(***************************************************************************)
(* The switcher's packet path (PacketDispatch) composed with its exchanger *)
(* (Exchanger).  Each datagram OnUdpPacketInput hands over is the           *)
(* exchanger's SendTo in the same step.  Each reply the server relays is    *)
(* the exchanger's OnSendTo, delivered to the switcher's DatagramOutput in  *)
(* that step.  The server's Information is the exchanger's OnInformation    *)
(* together with the switcher's.  The switcher's view of                    *)
(* exchanger->GetTransmission() is the exchanger's transmission_.  Every    *)
(* other step belongs to one component and leaves the other alone.  The     *)
(* exchanger exists only while the switcher holds one (exchanger_).  In    *)
(* each step the exchanger's part comes first, as the switcher's view of    *)
(* its transmission is read from it.                                        *)
(***************************************************************************)
EXTENDS Naturals

CONSTANTS
    W, TapIP, TapGw, TapMask, RawDests, FrameDests, Ports, LocalEP,
    FibTables, KbpsIn, NoFib,
    Rules,      \* the exchanger's static mapping rules
    MaxTx       \* transmissions the exchanger may open

VARIABLES
    tap, exchanger, blockQuic, qos, fib, promisc, nat, icmpIn, sent, tapOut,
    lastReply, qosKbps,
    network_state, disposed, current, alive, opened, pending, datagrams,
    mappings, wire

X == INSTANCE Exchanger WITH
        Sources <- {LocalEP}, Dests <- [addr : FrameDests, port : Ports]

\* exchanger->GetTransmission() as the switcher sees it: NULL, or an object
\* that is open or already disposed.
TransmissionView ==
    IF current = X!NoTx THEN "none"
    ELSE IF current \in alive THEN "open" ELSE "disposed"

S == INSTANCE PacketDispatch WITH transmission <- TransmissionView

svars == <<tap, exchanger, blockQuic, qos, fib, promisc, nat, icmpIn, sent,
           tapOut, lastReply, qosKbps>>
xvars == <<network_state, disposed, current, alive, opened, pending, datagrams,
           mappings, wire>>
vars == <<svars, xvars>>

Init == X!Init /\ S!Init   \* the exchanger first: the switcher reads its transmission_

\* A UDP frame from the NIC: OnUdpPacketInput calls exchanger->SendTo.
UdpToExchanger(dst, parsed, payload) ==
    /\ X!SendTo(LocalEP, dst)
    /\ S!OnPacketInput("UDP", dst, parsed, payload)

\* The server relays a reply to datagram m; with the source's port still
\* there, ReceiveFromDestination hands it to DatagramOutput.
ReplyToSwitcher(m, fam) ==
    /\ exchanger
    /\ X!OnSendTo(m)
    /\ IF X!Delivers(m)
       THEN S!DatagramOutput([src |-> m.src, dst |-> m.dst], fam)
       ELSE UNCHANGED svars

\* The server's Information: the exchanger passes it to the switcher's
\* OnInformation, which may dispose the transmission.
Information(b, valid) ==
    /\ X!OnInformation(valid)
    /\ S!OnInformation(b, valid)

\* A step of the exchanger alone.
ExchangerStep ==
    /\ exchanger
    /\ \/ X!BeginConnect
       \/ \E ok \in BOOLEAN : X!ConnectDone(ok)
       \/ X!TransmissionLost
       \/ X!ExchangeToReconnectingState
       \/ X!ReleaseDatagramPort(LocalEP)
       \/ X!Dispose
    /\ UNCHANGED svars

\* A step of the switcher that does not involve the exchanger.
SwitcherStep ==
    /\ UNCHANGED xvars
    /\ \/ \E v \in BOOLEAN, p \in {"TCP", "UDP", "ICMP", "GRE"}, a \in RawDests :
              S!OnPacketInputRaw(v, p, a)
       \/ \E p \in {"ICMP", "TCP"}, dst \in [addr : FrameDests, port : Ports],
             parsed, payload \in BOOLEAN :
              S!OnPacketInput(p, dst, parsed, payload)
       \/ \E v \in BOOLEAN : S!BlockQUIC(v)

Next ==
    \/ \E dst \in [addr : FrameDests, port : Ports], parsed, payload \in BOOLEAN :
           UdpToExchanger(dst, parsed, payload)
    \/ \E m \in wire, fam \in S!Families : ReplyToSwitcher(m, fam)
    \/ \E b \in KbpsIn, valid \in BOOLEAN : Information(b, valid)
    \/ ExchangerStep
    \/ SwitcherStep

Spec == Init /\ [][Next]_vars

-----------------------------------------------------------------------------
(* Properties: those of both components, checked on the composition. *)

TypeOK == S!TypeOK /\ X!TypeOK

\* DatagramOutput writes to the NIC only replies to datagrams OnUdpPacketInput
\* handed to exchanger->SendTo, from the remote back to the local endpoint,
\* and writes every reply from an IPv4 remote (stated in PacketDispatch); the
\* replies are now those the exchanger's datagram ports receive.
DatagramRepliesReturnToSender == S!DatagramRepliesReturnToSender

=============================================================================
