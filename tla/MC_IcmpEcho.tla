---------------------------- MODULE MC_IcmpEcho ----------------------------
(* Instantiates IcmpEcho for TLC: three echo requests, as many ack ids as     *)
(* requests (so the allocation loop always finds a free id) and a two-tick   *)
(* timeout, enough for a reply to arrive before, at or after expiry.          *)
EXTENDS IcmpEcho

MCPings == {"p1", "p2", "p3"}
MCTtlIn == {0, 1, 2}

\* Two requests and a single ack id: the second request finds the only id pending
\* or, once the first has expired, reuses it.
MCTwoPings == {"p1", "p2"}
MCGatewayTtl == {2}
=============================================================================
