------------------------------ MODULE IcmpEcho ------------------------------
(***************************************************************************)
(* The ICMP echo path of the client switcher, VEthernetNetworkSwitcher.cpp *)
(* (OnIcmpPacketInput, EchoGatewayServer, EchoOtherServer, ERORTE, the     *)
(* sweep in OnTick, Finalize).                                             *)
(*                                                                         *)
(* Every handler runs to completion on the switcher's io_context, so each  *)
(* is one atomic step.  The one exception is the acknowledgement-id        *)
(* allocation loop of EchoGatewayServer: it is modelled one iteration per  *)
(* step (AllocStep) and, while it runs, no other handler of the switcher   *)
(* can run (the event loop is busy), which is what alloc # NoAlloc guards. *)
(*                                                                         *)
(* Time is kept relative: an entry of the pending table records how many   *)
(* ticks are left before its deadline (datetime - now), floored at -1.     *)
(* The remote side of the exchanger is a set of echo replies in flight,    *)
(* each carrying the ack id it answers; replies may be lost, delayed or    *)
(* delivered more than once.  A ghost field "ping" names the echo request  *)
(* a reply really answers.                                                 *)
(***************************************************************************)
EXTENDS Integers, FiniteSets, Functions, TLC

CONSTANTS
    Pings,      \* echo requests read from the virtual interface (model values)
    MaxAckId,   \* largest ack id: (1 << 24) - 1 in the code
    Timeout,    \* MAX_ICMP_TIMEOUT, in ticks
    TtlIn,      \* TTL values an inbound echo may carry
    NoAlloc     \* no EchoGatewayServer loop is running

ASSUME /\ MaxAckId \in Nat \ {0}
       /\ Timeout \in Nat \ {0}
       /\ TtlIn \subseteq 0..255

\* IPAddressIsGatewayServer(destination, gw, mask) holds for "gateway".
Dests == {"gateway", "other"}

Packet == [ping : Pings, dst : Dests, ttl : TtlIn]

\* A pending entry: the stored IP frame and the ticks left to its deadline.
\* Ghost: echoed, whether exchanger->Echo(ack_id) succeeded for it.
Entry == [pkt : Packet, left : -1..Timeout, echoed : BOOLEAN]

\* An echo reply from the remote peer, addressed by ack id.
Reply == [ack : Int, ping : Pings]

\* A frame ER or TE writes back to the virtual interface.
Answer == [kind : {"ER", "TE"}, ttl : 0..255, for : Pings, cause : Pings]

VARIABLES
    icmppackets,  \* icmppackets_: ack id -> pending entry
    aid,          \* icmppackets_aid_
    alloc,        \* packet whose EchoGatewayServer loop is running, or NoAlloc
    exchanger,    \* exchanger_ # NULL
    wire,         \* echo replies in flight from the remote peer
    inputs,       \* pings already read from the virtual interface
    forwarded,    \* echoes sent by EchoOtherServer: [ping, in, out] TTLs
    outs,         \* frames ER/TE wrote to the virtual interface
    answers       \* number of frames written per ping (capped at 2)

vars == <<icmppackets, aid, alloc, exchanger, wire, inputs, forwarded, outs, answers>>

-----------------------------------------------------------------------------
(* Mutated forms of the definitions below, used to show that each property *)
(* fails when the code it is about goes wrong.                              *)

\* The wrap check forgets the upper bound of the 24-bit id space.
AckBelowOne(ack) == ack < 1

\* TTL forwarded without the decrement.
TtlUnchanged(t) == t

\* The pending entry is looked up instead of removed.
KeepAck(f, k) == f

\* The entry is left in place when exchanger->Echo fails.
EraseSkipped(f, k) == f

\* Expiry matched exactly, so a late tick never reaps the entry.
AliveUnlessExactlyDue(e) == e.left # 0

-----------------------------------------------------------------------------

\* ++icmppackets_aid_ then "if (ack_id < 1)" / "if (ack_id > max)": reset to 0.
AckOutOfRange(ack) == ack < 1 \/ ack > MaxAckId

\* packet->Ttl = max(0, packet->Ttl - 1) in OnIcmpPacketInput.
DecrementedTtl(t) == IF t - 1 > 0 THEN t - 1 ELSE 0

\* Dictionary::RemoveValueByKey(icmppackets_, ack_id, ...).
RemoveAck(f, k) == Restrict(f, DOMAIN f \ {k})

\* icmppackets_.erase(kv.first) after exchanger->Echo(ack_id) failed.
EraseFailedEcho(f, k) == RemoveAck(f, k)

\* OnTick keeps an entry while icmppacket.datetime > now.
Alive(e) == e.left > 0

\* ER (echo reply, TTL max(1, ttl - 1)) when the stored frame was addressed to
\* the gateway, TE (time exceeded, TTL UINT8_MAX, from the gateway) otherwise.
AnswerFor(p, cause) ==
    IF p.dst = "gateway"
    THEN [kind |-> "ER", ttl |-> IF p.ttl - 1 > 1 THEN p.ttl - 1 ELSE 1,
          for |-> p.ping, cause |-> cause]
    ELSE [kind |-> "TE", ttl |-> 255, for |-> p.ping, cause |-> cause]

-----------------------------------------------------------------------------

Init ==
    /\ icmppackets = <<>>
    /\ aid \in -1..MaxAckId + 1   \* RandomNext(): negative or too large values included
    /\ alloc = NoAlloc
    /\ exchanger = TRUE
    /\ wire = {}
    /\ inputs = {}
    /\ forwarded = {}
    /\ outs = {}
    /\ answers = [p \in Pings |-> 0]

\* OnIcmpPacketInput: a new echo request p from the virtual interface.
OnIcmpPacketInput ==
    /\ alloc = NoAlloc
    /\ \E p \in Packet :
        /\ p.ping \notin inputs
        /\ inputs' = inputs \cup {p.ping}
        /\ \/ /\ ~exchanger \/ p.ttl = 0                   \* rejected
              /\ UNCHANGED <<alloc, forwarded>>
           \/ /\ exchanger /\ p.ttl # 0
              /\ p.dst = "gateway" \/ p.ttl = 1            \* EchoGatewayServer
              /\ alloc' = p
              /\ UNCHANGED forwarded
           \/ /\ exchanger /\ p.ttl > 1 /\ p.dst # "gateway"
              \* TTL decremented, then EchoOtherServer: exchanger->Echo(packet)
              /\ forwarded' = forwarded \cup
                    {[ping |-> p.ping, in |-> p.ttl, out |-> DecrementedTtl(p.ttl)]}
              /\ UNCHANGED alloc
    /\ UNCHANGED <<icmppackets, aid, exchanger, wire, outs, answers>>

\* One iteration of the for (;;) loop of EchoGatewayServer.
AllocStep ==
    /\ alloc # NoAlloc
    /\ LET ack == aid + 1 IN
       \/ /\ AckOutOfRange(ack)
          /\ aid' = 0
          /\ UNCHANGED <<icmppackets, alloc, wire>>
       \/ /\ ~AckOutOfRange(ack)
          /\ ack \in DOMAIN icmppackets                    \* id in use: continue
          /\ aid' = ack
          /\ UNCHANGED <<icmppackets, alloc, wire>>
       \/ /\ ~AckOutOfRange(ack)
          /\ ack \notin DOMAIN icmppackets
          /\ aid' = ack
          /\ alloc' = NoAlloc
          \* emplace, then exchanger->Echo(ack_id); erase the entry if it fails
          /\ \E ok \in BOOLEAN :
                LET emplaced == icmppackets @@
                                  (ack :> [pkt |-> alloc, left |-> Timeout, echoed |-> ok])
                IN \/ /\ ok
                      /\ icmppackets' = emplaced
                      /\ wire' = wire \cup {[ack |-> ack, ping |-> alloc.ping]}
                   \/ /\ ~ok
                      /\ icmppackets' = EraseFailedEcho(emplaced, ack)
                      /\ UNCHANGED wire
    /\ UNCHANGED <<exchanger, inputs, forwarded, outs, answers>>

\* ERORTE(ack_id): remove the pending entry and write ER or TE for it.
ERORTE(m) ==
    \/ /\ m.ack \notin DOMAIN icmppackets
       /\ UNCHANGED <<icmppackets, outs, answers>>
    \/ /\ m.ack \in DOMAIN icmppackets
       /\ LET p == icmppackets[m.ack].pkt IN
          /\ icmppackets' = RemoveAck(icmppackets, m.ack)
          /\ outs' = outs \cup {AnswerFor(p, m.ping)}
          /\ answers' = [answers EXCEPT ![p.ping] = IF @ < 2 THEN @ + 1 ELSE 2]

\* The exchanger receives an echo-by-id reply and hands it to ERORTE; a copy
\* may stay in flight (duplicate delivery).
OnEcho ==
    /\ alloc = NoAlloc
    /\ \E m \in wire :
        /\ \/ wire' = wire \ {m}
           \/ UNCHANGED wire
        /\ ERORTE(m)
    /\ UNCHANGED <<aid, alloc, exchanger, inputs, forwarded>>

\* OnTick: release every entry whose deadline has passed.
OnTick ==
    /\ alloc = NoAlloc
    /\ icmppackets' = RestrictDomain(icmppackets, LAMBDA id : Alive(icmppackets[id]))
    /\ UNCHANGED <<aid, alloc, exchanger, wire, inputs, forwarded, outs, answers>>

\* Finalize (run by Dispose on the context): icmppackets_.clear(), then
\* ReleaseAllObjects disposes the exchanger and with it its transmission.
Finalize ==
    /\ alloc = NoAlloc
    /\ exchanger
    /\ icmppackets' = <<>>
    /\ exchanger' = FALSE
    /\ wire' = {}
    /\ UNCHANGED <<aid, alloc, inputs, forwarded, outs, answers>>

\* Environment: the tick count advances by one.
Advance ==
    /\ icmppackets' = [id \in DOMAIN icmppackets |->
                        [icmppackets[id] EXCEPT !.left = IF @ > -1 THEN @ - 1 ELSE -1]]
    /\ UNCHANGED <<aid, alloc, exchanger, wire, inputs, forwarded, outs, answers>>

\* Environment: a reply is lost (or the remote never answers).
Lose ==
    /\ \E m \in wire : wire' = wire \ {m}
    /\ UNCHANGED <<icmppackets, aid, alloc, exchanger, inputs, forwarded, outs, answers>>

Next ==
    \/ OnIcmpPacketInput
    \/ AllocStep
    \/ OnEcho
    \/ OnTick
    \/ Finalize
    \/ Advance
    \/ Lose

\* The loop runs to completion on its thread, the switcher's timer keeps calling
\* OnTick, and the tick count keeps advancing.
Spec == Init /\ [][Next]_vars
            /\ WF_vars(AllocStep) /\ WF_vars(OnTick) /\ WF_vars(Advance)

-----------------------------------------------------------------------------
(* Properties *)

TypeOK ==
    /\ \A id \in DOMAIN icmppackets : id \in 1..MaxAckId /\ icmppackets[id] \in Entry
    /\ aid \in -1..MaxAckId + 1
    /\ alloc \in Packet \cup {NoAlloc}
    /\ exchanger \in BOOLEAN
    /\ wire \subseteq Reply
    /\ inputs \subseteq Pings
    /\ outs \subseteq Answer
    /\ answers \in [Pings -> 0..2]

\* Every entry of icmppackets_ has had its ack id handed to the remote peer by
\* exchanger->Echo: when Echo fails after the emplace, EchoGatewayServer erases
\* the entry again, so no entry waits for a reply nobody asked for and holds
\* its id until the sweep.
PendingEntriesEchoed ==
    \A k \in DOMAIN icmppackets : icmppackets[k].echoed

\* However often the remote peer's reply is delivered, ERORTE writes at most
\* one ER/TE frame per echo request: the entry is removed when it is used.
AtMostOneAnswerPerEcho ==
    \A p \in Pings : answers[p] <= 1

\* An echo forwarded by EchoOtherServer carries a TTL strictly below the inbound
\* one and never zero or wrapped (spec property 3).
ForwardedTtlDecreases ==
    \A f \in forwarded : 1 <= f.out /\ f.out < f.in

\* Every pending entry eventually leaves the table, answered or swept by
\* OnTick, even when ticks are late (spec property 2, expiry liveness).
EntryEventuallyReleased ==
    \A id \in 1..MaxAckId :
        id \in DOMAIN icmppackets ~> id \notin DOMAIN icmppackets

\* A frame ERORTE writes answers the echo request whose reply arrived (used by
\* the violation run: a late reply is matched by ack id alone).
ReplyMatchesRequest ==
    \A o \in outs : o.for = o.cause

\* Every call of EchoGatewayServer returns (used by the violation run: with
\* all ids pending the loop never ends).
AllocationTerminates ==
    alloc # NoAlloc ~> alloc = NoAlloc

-----------------------------------------------------------------------------
(* Refinement of PendingEcho.  A request is pending from the moment        *)
(* EchoGatewayServer takes it until its entry leaves icmppackets_ (or the   *)
(* send of its ack id fails); it is answered once ERORTE wrote a frame      *)
(* for it.                                                                  *)

PendingPings ==
    {icmppackets[k].pkt.ping : k \in DOMAIN icmppackets}
        \cup (IF alloc = NoAlloc THEN {} ELSE {alloc.ping})

AnsweredPings == {p \in Pings : answers[p] > 0}

Abstract == INSTANCE PendingEcho WITH pending <- PendingPings, answered <- AnsweredPings

\* The echo path implements PendingEcho: every step of OnIcmpPacketInput,
\* the allocation loop, ERORTE, the OnTick sweep and Finalize is a step of
\* the abstract table (a request answered only while pending, at most once,
\* never re-accepted), and under the code's fairness no request stays
\* pending forever.
ImplementsPendingEcho == Abstract!Spec

=============================================================================
