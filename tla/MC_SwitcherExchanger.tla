----------------------- MODULE MC_SwitcherExchanger -----------------------
(* Instantiates SwitcherExchanger for TLC with the addresses, tables and    *)
(* ports of MC_PacketDispatch, one static mapping rule, and two             *)
(* transmissions: the first connect and one reconnect, enough for a port    *)
(* made on the first transmission to be stale on the second.                *)
EXTENDS SwitcherExchanger

CONSTANT r1

MCRawDests == {5, 6, 7, 9}
MCFrameDests == {9}
MCPorts == {443, 8443}
MCLocalEP == [addr |-> 6, port |-> 8443]

\* The table Constructor compiles from rib_: the tunnel's 0/0, 0/1 and 8/1
\* (128/1) via the tap gateway 5, the bypass list 8/2 and the server's /32
\* (12) via the physical gateway 1.
MCFibTables ==
    { {[prefix |-> 0, len |-> 0, gw |-> 5], [prefix |-> 0, len |-> 1, gw |-> 5],
       [prefix |-> 8, len |-> 1, gw |-> 5], [prefix |-> 8, len |-> 2, gw |-> 1],
       [prefix |-> 12, len |-> 4, gw |-> 1]} }

MCKbpsIn == {0, 3}
MCRules == {r1}
=============================================================================
