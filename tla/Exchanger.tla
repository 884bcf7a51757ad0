------------------------------ MODULE Exchanger ------------------------------
(***************************************************************************)
(* VEthernetExchanger (src/ppp/app/client/VEthernetExchanger.h): the      *)
(* client's one logical link to the server.  Only the header is in src/,  *)
(* so the behaviour is that of spec.md section 4.2 over the header's       *)
(* members: network_state_, disposed_, transmission_, datagrams_ and       *)
(* mappings_.  The state after Open() is the initial state: the mapping    *)
(* ports are registered and the Loopback that connects is about to run.    *)
(* ConnectTransmission suspends (section 5), so starting a connect and its *)
(* completion are two steps, and Dispose may come between them.          *)
(* Transmissions are numbered in the order they are opened.                *)
(***************************************************************************)
EXTENDS Naturals, FiniteSets

CONSTANTS
    Sources,    \* source endpoints of the switcher's datagrams
    Dests,      \* their destination endpoints
    Rules,      \* keys (direction, transport, remote_port) of the static mapping rules
    MaxTx       \* the transmissions one behaviour may open

NoTx == 0                   \* no transmission: transmission_ == NULL, or no port
Transmissions == 1..MaxTx

ASSUME MaxTx \in Nat

VARIABLES
    network_state,  \* network_state_: "connecting", "established" or "reconnecting"
    disposed,       \* disposed_
    current,        \* transmission_: NoTx or the transmission it holds
    alive,          \* the transmissions not yet disposed
    opened,         \* how many transmissions have been opened
    pending,        \* a ConnectTransmission is suspended
    datagrams,      \* datagrams_: source endpoint -> transmission its port is bound to, NoTx if none
    mappings,       \* mappings_: the registered mapping ports
    wire            \* ghost: datagrams [src, dst, tx] written to a transmission

xvars == <<network_state, disposed, current, alive, opened, pending, datagrams,
           mappings, wire>>

-----------------------------------------------------------------------------

\* GetOrCreate(sourceEP): the transmission the port used for sourceEP is
\* bound to.  An absent port is created on the current transmission, and a
\* port on another (stale) transmission is released and created again, so
\* the port is always on the current one.
PortFor(src) == current

\* The completion of ConnectTransmission installs the new transmission only
\* when it succeeded and the exchanger was not disposed while it was suspended.
Installs(ok) == ok /\ ~disposed

Init ==
    /\ network_state = "connecting"
    /\ disposed = FALSE
    /\ current = NoTx
    /\ alive = {}
    /\ opened = 0
    /\ pending = FALSE
    /\ datagrams = [s \in Sources |-> NoTx]
    /\ mappings = Rules      \* RegisterAllMappingPorts: each key once
    /\ wire = {}

\* Loopback: while not disposed and without a live transmission, start
\* ConnectTransmission, which suspends on the name lookup and the connect.
BeginConnect ==
    /\ ~disposed
    /\ ~pending
    /\ network_state \in {"connecting", "reconnecting"}
    /\ opened < MaxTx
    /\ pending' = TRUE
    /\ UNCHANGED <<network_state, disposed, current, alive, opened, datagrams,
                   mappings, wire>>

\* ConnectTransmission resumes.  On success with the information handshake
\* accepted, the new transmission replaces transmission_ before the old one is
\* discarded, and the state is Established.  After a Dispose the completion is
\* a no-op that disposes the transmission it made.  A failure leaves the state
\* for the next Loopback round.
ConnectDone(ok) ==
    /\ pending
    /\ pending' = FALSE
    /\ opened' = IF ok THEN opened + 1 ELSE opened
    /\ \/ /\ Installs(ok)
          /\ current' = opened + 1
          /\ alive' = (alive \ {current}) \cup {opened + 1}
          /\ network_state' = "established"
       \/ /\ ~Installs(ok)
          /\ UNCHANGED <<current, alive, network_state>>
    /\ UNCHANGED <<disposed, datagrams, mappings, wire>>

\* The transmission is lost: a read or write fails, or keep-alive round trips
\* keep failing (Update).
TransmissionLost ==
    /\ current \in alive
    /\ alive' = alive \ {current}
    /\ UNCHANGED <<network_state, disposed, current, opened, pending, datagrams,
                   mappings, wire>>

\* The Loopback of an Established exchanger sees its transmission gone and
\* goes to Reconnecting.
ExchangeToReconnectingState ==
    /\ ~disposed
    /\ network_state = "established"
    /\ current \notin alive
    /\ network_state' = "reconnecting"
    /\ UNCHANGED <<disposed, current, alive, opened, pending, datagrams,
                   mappings, wire>>

\* SendTo(sourceEP, destinationEP, ...): through the datagram port of the
\* source, on the transmission the port is bound to.  Without a live
\* transmission, or once disposed, it fails and changes nothing.
SendTo(src, dst) ==
    \/ /\ ~disposed /\ current \in alive
       /\ datagrams' = [datagrams EXCEPT ![src] = PortFor(src)]
       /\ wire' = wire \cup {[src |-> src, dst |-> dst, tx |-> PortFor(src)]}
       /\ UNCHANGED <<network_state, disposed, current, alive, opened, pending,
                      mappings>>
    \/ /\ disposed \/ current \notin alive
       /\ UNCHANGED xvars

\* OnSendTo: the server relays a reply to datagram m on the current
\* transmission.  It is delivered (ReceiveFromDestination, then the switcher's
\* DatagramOutput) when the source still has a port.
OnSendTo(m) ==
    /\ ~disposed
    /\ current \in alive
    /\ m.tx = current
    /\ UNCHANGED xvars

Delivers(m) == datagrams[m.src] # NoTx

\* The port of a source is released after it has been idle.
ReleaseDatagramPort(src) ==
    /\ datagrams[src] # NoTx
    /\ datagrams' = [datagrams EXCEPT ![src] = NoTx]
    /\ UNCHANGED <<network_state, disposed, current, alive, opened, pending,
                   mappings, wire>>

\* OnInformation: the server's information arrives on the live transmission
\* and goes to the switcher's OnInformation; a session it no longer accepts
\* has the transmission force-closed.
OnInformation(valid) ==
    /\ ~disposed
    /\ current \in alive
    /\ alive' = IF valid THEN alive ELSE alive \ {current}
    /\ UNCHANGED <<network_state, disposed, current, opened, pending, datagrams,
                   mappings, wire>>

\* Dispose, then Finalize: dispose the transmission, release every datagram
\* port and unregister every mapping port.
Dispose ==
    /\ ~disposed
    /\ disposed' = TRUE
    /\ alive' = alive \ {current}
    /\ datagrams' = [s \in Sources |-> NoTx]
    /\ mappings' = {}
    /\ UNCHANGED <<network_state, current, opened, pending, wire>>

Next ==
    \/ BeginConnect
    \/ \E ok \in BOOLEAN : ConnectDone(ok)
    \/ TransmissionLost
    \/ ExchangeToReconnectingState
    \/ \E s \in Sources, d \in Dests : SendTo(s, d)
    \/ \E s \in Sources : ReleaseDatagramPort(s)
    \/ \E valid \in BOOLEAN : OnInformation(valid)
    \/ Dispose

Spec == Init /\ [][Next]_xvars

-----------------------------------------------------------------------------
(* Properties *)

TypeOK ==
    /\ network_state \in {"connecting", "established", "reconnecting"}
    /\ disposed \in BOOLEAN /\ pending \in BOOLEAN
    /\ current \in {NoTx} \cup Transmissions
    /\ alive \subseteq {current}              \* only transmission_ is ever live
    /\ opened \in 0..MaxTx
    /\ datagrams \in [Sources -> {NoTx} \cup Transmissions]
    /\ mappings \subseteq Rules
    /\ wire \subseteq [src : Sources, dst : Dests, tx : Transmissions]

=============================================================================
