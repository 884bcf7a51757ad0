--------------------------- MODULE RouteLifecycle ---------------------------
(***************************************************************************)
(* Construction and teardown of the client switcher and the operating      *)
(* system routes it installs, VEthernetNetworkSwitcher.cpp, Linux branch:  *)
(* Constructor, ReleaseAllObjects, Dispose/Finalize, AddRoute, DeleteRoute, *)
(* AddRouteWithDnsServers, DeleteRouteWithDnsServers, FixUnderlyingNgw,    *)
(* LoadAllIPListWithFilePaths, AddRemoteEndPointToIPList, AddLoadIPList.   *)
(*                                                                         *)
(* The switcher's fields and the OS route table form one record, sw, so   *)
(* that a handler that calls several others is the composition of the     *)
(* operators modelling them.  Each handler runs on the switcher's context *)
(* and is one atomic step; Constructor resolves the server synchronously. *)
(*                                                                         *)
(* A route is [dst, gw]: dst names a prefix ("0/0", "0/1", "128/1", the   *)
(* VPN server's /32, a bypass-list prefix, a DNS server's /32, a LAN       *)
(* route), gw names a next hop: the tunnel gateway (tap->GatewayServer),  *)
(* the physical gateway (underlying_ni_->GatewayServer) or another one.    *)
(***************************************************************************)
EXTENDS Integers, FiniteSets, TLC

CONSTANTS
    Files,          \* bypass IP-list files; each contributes its prefix via the physical gateway
    TunDns,         \* DNS servers of tun_ni/underlying_ni_ that pass AddRouteWithDnsServers' filters
    InitialRoutes   \* the OS route tables the system may start with

Gateways == {"tapgw", "ugw", "othergw"}
Dsts == {"0/0", "0/1", "128/1", "server", "lan"} \cup Files \cup TunDns
Route == [dst : Dsts, gw : Gateways]

ASSUME InitialRoutes \subseteq SUBSET Route

R(d, g) == [dst |-> d, gw |-> g]

\* Collaborators that are opened: held in a field ("mounted"), opened and held by
\* nobody ("orphan"), or not open.
ObjState == {"none", "mounted", "orphan"}

VARIABLES
    sw,         \* the switcher's fields and the OS route table
    tap,        \* [promisc, hosted]: IsPromisc(), IsHostedNetwork() of the tap
    serverV4,   \* the resolved VPN server address is IPv4
    before,     \* the OS route table before the switcher first ran
    ctorResult  \* what the last Constructor call returned

vars == <<sw, tap, serverV4, before, ctorResult>>

Switcher == [os : SUBSET Route,          \* the operating system's route table
             rib : SUBSET Route,         \* rib_
             fib : SUBSET Route,         \* fib_ (its routes; empty when NULL)
             ribs : SUBSET Files,        \* ribs_: files queued by AddLoadIPList
             defaultRoutes : SUBSET Route, \* default_routes_
             dnsServers : SUBSET TunDns, \* dns_servers_
             routeAdded : BOOLEAN,       \* route_added_
             resolv : {"host", "tunnel"}, \* /etc/resolv.conf contents
             exchanger : ObjState,       \* exchanger_ (opened VEthernetExchanger)
             proxy : ObjState,           \* http_proxy_ (opened proxy switcher)
             disposed : BOOLEAN,
             balance : -1..2]            \* ghost: AddRoute calls minus DeleteRoute calls

-----------------------------------------------------------------------------
(* Mutated forms of the definitions below. *)

\* exchangeof(route_added_, false) replaced by a plain read: the flag stays set.
FlagKept(flag) == flag

\* dns_servers_ cleared before the routes are deleted.
DnsRoutesKept(t, dns) == t

\* DeleteRoute forgets to add default_routes_ back.
DeleteRouteNoRestore(s) ==
    [s EXCEPT !.os = ((@ \ s.rib) \cup {R("0/0", "ugw")}) \ {R(d, "tapgw") : d \in s.dnsServers},
              !.dnsServers = {}, !.balance = @ - 1]

\* LoadAllIPListWithFilePaths leaves fib_ as it was.
LoadKeepsFib(s, gwValid) ==
    [s EXCEPT !.rib = IF gwValid THEN {R(f, "ugw") : f \in s.ribs} ELSE {},
              !.ribs = {}]

-----------------------------------------------------------------------------

\* exchangeof(route_added_, false) leaves the flag cleared.
RouteAddedAfterRelease(flag) == FALSE

\* FixUnderlyingNgw: add 0.0.0.0/0 via the physical gateway.
FixUnderlyingNgw(t) == t \cup {R("0/0", "ugw")}

\* DeleteRouteWithDnsServers: delete each dns_servers_ /32 via the tunnel gateway.
DeleteDnsRoutes(t, dns) == t \ {R(d, "tapgw") : d \in dns}

\* AddRouteWithDnsServers: dns_servers_ recomputed from the NICs' DNS servers
\* and a /32 route via the tunnel gateway added for each.
AddRouteWithDnsServers(s) ==
    [s EXCEPT !.os = @ \cup {R(d, "tapgw") : d \in TunDns}, !.dnsServers = TunDns]

\* AddRoute: in non-promiscuous mode find and delete every default route not via
\* the tunnel gateway (kept in default_routes_), add every RIB route, then
\* AddRouteWithDnsServers.
AddRoute(s) ==
    LET found == IF tap.promisc THEN {}
                 ELSE {r \in s.os : r.dst = "0/0" /\ r.gw # "tapgw"}
    IN AddRouteWithDnsServers(
          [s EXCEPT !.defaultRoutes = IF tap.promisc THEN @ ELSE found,
                    !.os = (@ \ found) \cup s.rib,
                    !.balance = @ + 1])

\* DeleteRoute: delete every RIB route, add default_routes_ back,
\* FixUnderlyingNgw, then DeleteRouteWithDnsServers (which clears dns_servers_).
DeleteRoute(s) ==
    [s EXCEPT !.os = DeleteDnsRoutes(FixUnderlyingNgw((@ \ s.rib) \cup s.defaultRoutes),
                                     s.dnsServers),
              !.dnsServers = {},
              !.balance = @ - 1]

\* LoadAllIPListWithFilePaths(gw): rib_ and fib_ reset, rib_ rebuilt from the
\* queued files when gw is a valid address, and the queue consumed.
LoadAllIPListWithFilePaths(s, gwValid) ==
    [s EXCEPT !.rib = IF gwValid THEN {R(f, "ugw") : f \in s.ribs} ELSE {},
              !.fib = {},
              !.ribs = {}]

\* ReleaseAllObjects(ctor): dispose the proxy and the exchanger, DeleteRoute and
\* restore resolv.conf if routes were added, drop default_routes_, and, outside
\* the constructor, clear rib_/fib_.
ReleaseAllObjects(s, ctor) ==
    LET closed == [s EXCEPT !.proxy = IF @ = "mounted" THEN "none" ELSE @,
                            !.exchanger = IF @ = "mounted" THEN "none" ELSE @,
                            !.routeAdded = RouteAddedAfterRelease(@)]
        routed == IF s.routeAdded
                  THEN [DeleteRoute(closed) EXCEPT !.resolv = "host"]
                  ELSE closed
        dropped == [routed EXCEPT !.defaultRoutes = {}]
    IN IF ctor THEN dropped ELSE LoadAllIPListWithFilePaths(dropped, FALSE)

\* AddRemoteEndPointToIPList after a successful resolution: rib_ created if
\* NULL, and the three tunnel default routes added to it.
AddTunnelRoutes(s) ==
    [s EXCEPT !.rib = @ \cup {R("0/1", "tapgw"), R("128/1", "tapgw"), R("0/0", "tapgw")}]

\* AddRemoteEndPointToIPList returning true: the tunnel routes, then the
\* server /32 via the physical gateway if the server is IPv4.
AddRemoteEndPointToIPList(s) ==
    LET t == AddTunnelRoutes(s)
    IN IF serverV4 THEN [t EXCEPT !.rib = @ \cup {R("server", "ugw")}] ELSE t

\* The exchanger and the proxy opened and mounted, then the IP lists loaded.
Mounted(s) ==
    LoadAllIPListWithFilePaths([s EXCEPT !.exchanger = "mounted", !.proxy = "mounted"], TRUE)

\* A FIB filled from rib_ is kept only when available (rib_ not empty).
FilledFib(s) == [s EXCEPT !.fib = s.rib]

\* Routes added to the OS once, guarded by exchangeof(route_added_, true), then
\* the tunnel's DNS servers written to resolv.conf.
Installed(s) ==
    IF tap.hosted /\ ~s.routeAdded
    THEN [AddRoute(s) EXCEPT !.routeAdded = TRUE, !.resolv = "tunnel"]
    ELSE s

-----------------------------------------------------------------------------

Init ==
    /\ \E t \in InitialRoutes :
        /\ sw = [os |-> t, rib |-> {}, fib |-> {}, ribs |-> {}, defaultRoutes |-> {},
                 dnsServers |-> {}, routeAdded |-> FALSE, resolv |-> "host",
                 exchanger |-> "none", proxy |-> "none", disposed |-> FALSE, balance |-> 0]
        /\ before = t
    /\ tap \in [promisc : BOOLEAN, hosted : BOOLEAN]
    /\ serverV4 \in BOOLEAN
    /\ ctorResult = "none"

\* AddLoadIPList(path) for an existing file.
AddLoadIPList ==
    /\ \E f \in Files : sw' = [sw EXCEPT !.ribs = @ \cup {f}]
    /\ UNCHANGED <<tap, serverV4, before, ctorResult>>

\* Constructor(tap): ReleaseAllObjects(true), then each step in turn; a failing
\* step returns false and leaves what the earlier steps did.
Constructor ==
    LET s == ReleaseAllObjects(sw, TRUE) IN
    /\ \/ \* no underlying network interface
          /\ sw' = s
          /\ ctorResult' = "failed"
       \/ \* after FixUnderlyingNgw: VEthernet::Constructor, tun_ni, QoS, protector,
          \* NewExchanger or exchanger->Open, or http_proxy->Open fails; what was
          \* opened is disposed
          /\ sw' = [s EXCEPT !.os = FixUnderlyingNgw(@)]
          /\ ctorResult' = "failed"
       \/ \* NewHttpProxy returns NULL after exchanger->Open() succeeded
          /\ ~sw.disposed
          /\ sw' = [s EXCEPT !.os = FixUnderlyingNgw(@), !.exchanger = "orphan"]
          /\ ctorResult' = "failed"
       \/ \* everything mounted, then the server's endpoint cannot be resolved
          /\ ~sw.disposed
          /\ sw' = Mounted([s EXCEPT !.os = FixUnderlyingNgw(@)])
          /\ ctorResult' = "failed"
       \/ \* the server is IPv4 and rib->AddRoute of its /32 fails: the tunnel
          \* routes are already in rib_
          /\ ~sw.disposed
          /\ serverV4
          /\ sw' = AddTunnelRoutes(Mounted([s EXCEPT !.os = FixUnderlyingNgw(@)]))
          /\ ctorResult' = "failed"
       \/ \* success
          /\ ~sw.disposed
          /\ sw' = Installed(FilledFib(AddRemoteEndPointToIPList(
                        Mounted([s EXCEPT !.os = FixUnderlyingNgw(@)]))))
          /\ ctorResult' = "ok"
    /\ UNCHANGED <<tap, serverV4, before>>

\* Dispose on the owning context: Finalize runs at once (icmppackets_ cleared,
\* ReleaseAllObjects(false)), then VEthernet::Dispose.
Dispose ==
    /\ sw' = [ReleaseAllObjects(sw, FALSE) EXCEPT !.disposed = TRUE]
    /\ UNCHANGED <<tap, serverV4, before, ctorResult>>

\* The destructor runs Finalize once more.
Destroy ==
    /\ sw.disposed
    /\ sw' = ReleaseAllObjects(sw, FALSE)
    /\ UNCHANGED <<tap, serverV4, before, ctorResult>>

Next == AddLoadIPList \/ Constructor \/ Dispose \/ Destroy

Spec == Init /\ [][Next]_vars

-----------------------------------------------------------------------------
(* Properties *)

TypeOK ==
    /\ sw \in Switcher
    /\ tap \in [promisc : BOOLEAN, hosted : BOOLEAN]
    /\ serverV4 \in BOOLEAN
    /\ before \in InitialRoutes
    /\ ctorResult \in {"none", "ok", "failed"}

\* Across any sequence of Constructor, Dispose and destructor calls, DeleteRoute
\* runs once for each AddRoute and never without one (spec property 5, the
\* one-shot route_added_ flag).
RouteInstallBalanced ==
    /\ sw.balance \in {0, 1}
    /\ sw.routeAdded <=> sw.balance = 1

\* Whenever the switcher's routes are not installed, every default route the
\* system started with is back in the OS table (default_routes_ restored).
DefaultRoutesRestored ==
    ~sw.routeAdded => {r \in before : r.dst = "0/0"} \subseteq sw.os

\* Whenever the switcher's routes are not installed, no route through the tunnel
\* gateway is left in the OS table: not a RIB route, not a DNS /32.
NoTunnelRouteLeft ==
    ~sw.routeAdded => \A r \in sw.os : r.gw # "tapgw"

\* fib_ is either absent or compiled from the current rib_: a Constructor
\* that fails half-way never leaves a FIB of an older RIB behind.
FibFromCurrentRib ==
    sw.fib = {} \/ sw.fib = sw.rib

\* (violation run) Whenever the routes are not installed, every route the system
\* started with is present again (spec section 6: restored on teardown).
RoutesRestored ==
    ~sw.routeAdded => before \subseteq sw.os

\* (violation run) A Constructor that returns false leaves no exchanger or proxy
\* open (spec section 7(d)).
FailedConstructorReleasesAll ==
    ctorResult = "failed" => sw.exchanger = "none" /\ sw.proxy = "none"

=============================================================================
