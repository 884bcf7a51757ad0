------------------------- MODULE MC_RouteLifecycle -------------------------
(* Model values for RouteLifecycle: one bypass list, one tunnel DNS server,  *)
(* and start tables that always hold a default route and a LAN route via     *)
(* the physical gateway, optionally a second default route, a static route   *)
(* to the VPN server and a route to the bypass prefix.                       *)
EXTENDS RouteLifecycle

MCFiles == {"bypass"}
MCTunDns == {"dns"}

MCBaseRoutes == {R("0/0", "ugw"), R("lan", "ugw")}
MCOptionalRoutes == {R("0/0", "othergw"), R("server", "ugw"), R("bypass", "ugw")}

MCInitialRoutes == {MCBaseRoutes \cup x : x \in SUBSET MCOptionalRoutes}

\* Start tables with no route the switcher itself would also add.
MCDisjointRoutes == {MCBaseRoutes \cup x : x \in SUBSET {R("0/0", "othergw")}}
=============================================================================
