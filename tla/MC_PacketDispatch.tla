------------------------- MODULE MC_PacketDispatch -------------------------
(* Instantiates PacketDispatch for TLC with 4-bit addresses: the tap is     *)
(* 6 in 4..7 (mask 12) with gateway 5; 1 is the physical gateway.  The raw  *)
(* path sees a peer of the subnet (7), an outside host (9), the tap and the *)
(* gateway; UDP frames go to 9 on a blocked and an unblocked port.          *)
EXTENDS PacketDispatch

MCRawDests == {5, 6, 7, 9}
MCFrameDests == {9}
MCPorts == {443, 8443}
MCLocalEP == [addr |-> 6, port |-> 8443]

\* The table Constructor compiles from rib_: the tunnel's 0/0, 0/1 and 8/1
\* (128/1) via the tap gateway 5, the bypass list 8/2 and the server's /32
\* (12) via the physical gateway 1.
MCFibTables ==
    { {[prefix |-> 0, len |-> 0, gw |-> 5], [prefix |-> 0, len |-> 1, gw |-> 5],
       [prefix |-> 8, len |-> 1, gw |-> 5], [prefix |-> 8, len |-> 2, gw |-> 1],
       [prefix |-> 12, len |-> 4, gw |-> 1]} }

MCKbpsIn == {0, 3}
=============================================================================
