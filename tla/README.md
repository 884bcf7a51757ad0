# TLA+ models of the openppp2 client switcher

This directory holds TLA+ models of the parts of openppp2 found in `src/`, the TLC
configurations that check them, and `PROJECT.json`. `PROJECT.json` lists the components,
the runs, the mutants, the code each definition models (`map`), the findings and the
hazards.

## The system

The code under `src/` is the client side of the VPN:

- **`VEthernetNetworkSwitcher`** (`src/ppp/app/client/VEthernetNetworkSwitcher.cpp`) is the
  core of the client. It sits between the virtual NIC (tap/tun) and the VPN link.
  - Its **ICMP path**:
    - `OnIcmpPacketInput` receives echo requests from the virtual NIC. Requests for another
      host are forwarded with a decremented TTL (`EchoOtherServer`).
    - Requests for the virtual gateway, or with TTL 1, are held in `icmppackets_` under a
      fresh 24-bit ack id. `exchanger->Echo(ack_id)` then sends them to the server
      (`EchoGatewayServer`).
    - The server's reply comes back through the exchanger to `ERORTE(ack_id)`. That takes
      the entry out of the table and writes an echo reply (ER) or a time-exceeded frame (TE)
      to the virtual NIC.
    - `OnTick` sweeps entries whose deadline has passed.
  - Its **lifecycle**:
    - `Constructor(tap)` first releases everything (`ReleaseAllObjects(true)`), then opens,
      in order: the QoS, the exchanger and the HTTP proxy.
    - It loads the bypass IP lists into `rib_` and adds the tunnel's default routes and the
      server's /32 to `rib_`.
    - It compiles `fib_`, and once (`exchangeof(route_added_, true)`) installs the routes in
      the OS: `AddRoute`, `AddRouteWithDnsServers` and resolv.conf.
    - `Dispose` → `Finalize` → `ReleaseAllObjects(false)` undoes this. So does the
      destructor, once more.
  - Its **packet dispatch**: `OnPacketInput`, `OnUdpPacketInput` with QUIC blocking, and
    `DatagramOutput`.
  - Its **bypass decision**: `IsBypassIpAddress` over `fib_`.
- **`VEthernetExchanger`** (header only) is the link to the server: connection state,
  keep-alive, echo, datagram and mapping ports.
- **Utilities:**
  - `Stopwatch`;
  - `UriAuxiliary`: percent-encoding and URL parsing;
  - `Socket`: opening acceptors and UDP sockets, and the asynchronous accept loop, which
    runs on the same kind of single-threaded `io_context`;
  - the `TapLinux` interface and `BufferblockAllocator`.

All the switcher's handlers run on one `io_context`, so each handler is one atomic step.
Concurrency comes from how those steps interleave with:
- network events: replies that are lost, duplicated or late;
- the periodic tick;
- disposal.

## Modules

| Module | Models | State | Actions |
|---|---|---|---|
| `IcmpEcho` | ICMP echo path | `icmppackets` (ack id → packet, ticks left before its deadline), `aid` (`icmppackets_aid_`), `alloc` (the packet whose ack-id loop is running), `exchanger`, `wire` (echo replies in flight). Ghosts: `inputs`, `forwarded`, `outs`, `answers` | `OnIcmpPacketInput` (with `EchoOtherServer`), `AllocStep` (one iteration of the `for (;;)` loop), `OnEcho`/`ERORTE`, `OnTick`, `Finalize`. Environment: `Advance` (the tick count), `Lose` |
| `Stopwatch` | `ppp::diagnostics::Stopwatch` | `start`, `stop` (`start_`, `stop_`; 0 is the null time point, the clock's epoch), `now`. Ghost: `op` (the last call) | `Start`, `Stop`, `Reset`, `Restart`; environment `Tick` |
| `PacketDispatch` | Packet dispatch, datagram output, `OnInformation`/QoS, bypass decision | `tap`, `exchanger`, `transmission`, `blockQuic` (`block_quic_`), `qos` (`qos_`'s bandwidth, bytes/s), `fib` (`fib_`: NULL or its route set), `promisc`. Ghosts: `nat`, `icmpIn`, `sent` (what was handed to `Nat`, `OnIcmpPacketInput`, `SendTo`), `tapOut` (frames written back), `lastReply`, `qosKbps` | `OnPacketInputRaw`, `OnPacketInput` (with `OnUdpPacketInput`), `DatagramOutput`, `OnInformation`, `BlockQUIC` |
| `Socket` | `OpenAcceptor`, `OpenSocket`, the `AcceptLoopbackAsync` loop | `acceptor`/`abound`, `udp`/`ubound` (open state, local endpoint), `stage` (idle / handler posted / accept outstanding), `pendingEc`, `cur` and `sock` (socket objects), `closeq` (posted closes), `ctx`. Ghosts: `live`, `lastOpen` | `OpenAcceptor`, `OpenSocket` (one disjunct per way each ends), `StartAcceptLoop`, `RunPosted`, `Complete` (the completion handler with its re-arm), `RunClose`, `CloseAcceptor`, `CancelAcceptor`, `CloseUdp`; environment `Connect`, `ReleaseOwned` |
| `UriAuxiliary` | `UriAuxiliary::Encode`/`Decode`/`Parse` | `input`: a byte string built one byte per step; `url`: a URL as a sequence of tokens (characters, scheme words, digit runs), built one token per step | `Encode`, `Decode`, `Atoi` (32-bit wrap-around) and `Parse` are operators; environment `Extend`, `Restart`, `StartUrl`, `ExtendUrl`, `RestartUrl` |
| `Exchanger` | `VEthernetExchanger`, from spec §4.2 (only the header is in `src/`) | `network_state` (`network_state_`), `disposed` (`disposed_`), `current` (`transmission_`, as a number), `alive` (transmissions not yet disposed), `opened`, `pending` (a suspended `ConnectTransmission`), `datagrams` (`datagrams_`: source → transmission its port is bound to), `mappings` (`mappings_`). Ghost: `wire` | `BeginConnect` (`Loopback` starts a connect), `ConnectDone` (its completion), `TransmissionLost`, `ExchangeToReconnectingState`, `SendTo` (with `GetOrCreate`), `OnSendTo`, `ReleaseDatagramPort`, `OnInformation`, `Dispose` |
| `SwitcherExchanger` | The two composed | both modules' variables; the switcher's `transmission` is derived from the exchanger's (`TransmissionView`) | `UdpToExchanger` (`OnUdpPacketInput` + `SendTo`), `ReplyToSwitcher` (`OnSendTo` + `DatagramOutput`), `Information` (both `OnInformation`s), and each component's own steps |
| `PendingEcho` | Abstract pending-echo table | `pending`, `answered` | `Accept`, `Answer`, `Release` |
| `RouteLifecycle` | Construction, teardown and OS routes (Linux branch) | One record `sw` holding the switcher's fields (`rib_`, `fib_`, `ribs_`, `default_routes_`, `dns_servers_`, `route_added_`, exchanger, proxy) and the OS route table. Fixed per behaviour: `tap` (promiscuous, hosted network), `serverV4`. Ghosts: `before`, `ctorResult` | `AddLoadIPList`, `Constructor` (one disjunct per way it can end), `Dispose`, `Destroy` (the destructor's Finalize) |

`IcmpEcho` instantiates `PendingEcho` with a refinement mapping:
- `pending` is the pings in `icmppackets` plus the one whose ack-id loop is running;
- `answered` is the pings ERORTE wrote a frame for.

An entry of `icmppackets` carries a ghost field `echoed`: whether `exchanger->Echo(ack_id)` succeeded for it. `PendingEntriesEchoed` uses it to check the erase after a failed `Echo` (line 372). Without that erase, the entry would wait for a reply never asked for, until the sweep.

`ImplementsPendingEcho` checks `Abstract!Spec`, fairness included, as a property of the `icmp_echo` run.

In `PacketDispatch`:
- Addresses are 4-bit naturals, and masks use `Bitwise`'s `&`.
- `ForwardInformationTable::GetNextHop` is not in `src/`. It is the recursive longest-prefix match `NextHopFrom`, which tries prefix lengths from longest to shortest, with the next hop `Any` (0) when nothing matches.
- `IsBypassIpAddress` is modelled, but no property checks it: its next-hop search is not code of this repository, and nothing the model runs calls it.
- `fib` takes the one table `Constructor` compiles from `rib_` (the tunnel's 0/0, 0/1 and 128/1 via the tap gateway, a bypass prefix and the server's /32 via the physical gateway), or NULL.

`SwitcherExchanger` composes `PacketDispatch` and `Exchanger` by `INSTANCE`:
- `PacketDispatch`'s `transmission` is substituted by the exchanger's state: NULL, open or disposed.
- A step that crosses the boundary is the conjunction of both components' actions. The exchanger's part comes first, because the switcher reads its transmission.
- Every other step is one component's action, with the other's variables unchanged.

`Exchanger` is modelled from spec §4.2 and the header's members, and its `map` entries are marked spec-modelled. It drives the switcher's view of the transmission in `SwitcherExchanger`, and no property is stated of it alone: any such property would follow from the spec's words and hold whatever the exchanger's code does. Its initial state is the one after `Open()`: mapping ports registered, no transmission yet. Transmissions are numbered in the order they are opened. A stale datagram port is one bound to a transmission other than `transmission_`.

In `RouteLifecycle`:
- Each callee is an operator from a switcher record to a switcher record, named after the
  function it models: `AddRoute`, `DeleteRoute`, `ReleaseAllObjects`,
  `LoadAllIPListWithFilePaths` and so on. A handler is the composition of its callees, in
  the code's order.
- `Constructor` has one disjunct per way it ends. One is the failure at line 1199: the server is IPv4 and its /32 cannot be added to `rib_`, after the tunnel's three default routes were added (lines 1178–1180). `fib_` is then NULL, because `LoadAllIPListWithFilePaths` cleared it (line 1246) and line 917 is not reached. `FibFromCurrentRib` says that `fib_` is either NULL or compiled from the current `rib_` after any such sequence.
- Routes are records `[dst, gw]` over a few named prefixes and next hops. Adding a route
  that is already there leaves the table unchanged. Deleting a route removes it.

## Runs

| Run | Checks | Bounds | Result |
|---|---|---|---|
| `icmp_echo` (`IcmpEcho.cfg`) | `TypeOK`, `PendingEntriesEchoed`, `AtMostOneAnswerPerEcho`, `ForwardedTtlDecreases`, `EntryEventuallyReleased`, `ImplementsPendingEcho` | 3 pings, TTL in {0,1,2}, ack ids 1..3, timeout 2 ticks, starting counter -1..4 | passes |
| `icmp_ack_exhausted` | `AllocationTerminates` | 2 pings for the gateway, 1 ack id | violated: the loop spins forever while the only id is pending |
| `icmp_ack_reuse` | `ReplyMatchesRequest` | same | violated: a stale duplicate reply for p1 answers p2, which reused id 1 |
| `route_lifecycle` (`RouteLifecycle.cfg`) | `TypeOK`, `RouteInstallBalanced`, `DefaultRoutesRestored`, `NoTunnelRouteLeft`, `FibFromCurrentRib` | 1 bypass list, 1 DNS server, 8 start tables, both tap modes, IPv4/IPv6 server | passes |
| `stopwatch` (`Stopwatch.cfg`) | `TypeOK`, `ElapsedNeverNegative`, `ElapsedMonotonic` | clock up to 7 ticks | passes |
| `switcher_exchanger` (`SwitcherExchanger.cfg`) | `TypeOK`, `DatagramRepliesReturnToSender` | 4-bit addresses; the compiled FIB or none; tap present or not, promiscuous or not; ports 443/8443; v4, v4-mapped and v6 remotes; 2 transmissions; 1 mapping rule | passes (206,400 states) |
| `socket_accept` (`Socket.cfg`) | `TypeOK`, `AcceptorKeepsAccepting`, `ClosingAcceptorEndsLoop` | 2 socket objects; listen ports 0, 8080, 70000; 4 kinds of listen address; every system call may fail | passes (55,752 states) |
| `uri_codec` (`UriAuxiliary.cfg`) | `TypeOK`, `DecodeInvertsEncode`, `ParseIsNormalForm` | every string of up to 4 bytes over 9 byte values; every URL of up to 8 tokens from 6 scheme prefixes and 11 tokens | passes (250,421 states) |
| `qos_units` (`PacketDispatchQos.cfg`, `PacketDispatch` alone) | `QosBandwidthInBytes` | as `switcher_exchanger`, without the exchanger | violated in the initial state |
| `socket_bind` | `OpenBindsRequestedAddress` | as `socket_accept` | violated |
| `route_restore` | `RoutesRestored` | start tables that already hold the server /32 or the bypass prefix | violated |
| `ctor_failure` | `FailedConstructorReleasesAll` | start tables disjoint from the switcher's routes | violated |

What the bounds give:
- **`IcmpEcho`:**
  - Three ack ids with three pings give both wrap-around (the counter passes 3 and restarts
    at 1) and a collision with a pending id.
  - A timeout of 2 ticks lets a reply race the sweep both before and after the deadline.
- **`RouteLifecycle`:** every start table combines a default route via another gateway, a
  static server route and a bypass-prefix route. Together these cover each way that
  install, teardown and restore can overlap.
- **`PacketDispatch`:** the tables hold a prefix nested in a shorter one with a different next hop, a /0 route and addresses no prefix covers. The longest match, the shortest match and the "no route" case therefore all differ on some address.
- **`Exchanger`:** two transmissions allow a first connect and one reconnect. A datagram port made on the first is stale on the second, and a connect can be suspended when `Dispose` comes. A failed connect does not use up a transmission.
- **`Socket`:** two socket objects let the loop arm a new accept while the previous socket is still owned or waiting for its posted close.
- **`UriAuxiliary`:** the alphabet has `' '`, `'+'`, `'%'`, unreserved bytes, a control byte and a byte above 127. With 4 bytes, an escape can end the string.
  - URLs start with `http://`, `HTTP://` (upper case), `tcp://`, `wss:/` (the `:/` separator), ` ws://` (a leading blank) or the unknown `ftp://`.
  - They go on with up to 4 more tokens from `:`, `/`, `[`, `]`, blank, a lower-case and an upper-case letter, an IPv4 literal, and the digit runs 0, 80 and 65536 (above `MaxPort`).
  - That gives empty hosts, bracketed hosts, hosts with several colons, the default and explicit ports, port 0, an out-of-range port, and paths.
  - `ParseIsNormalForm` says that a URL `Parse` accepts, rebuilt as `Parse` builds it, parses back to itself. A host with a stray `[` is left out: for `wss:/[][` the host is `[`, and `Parse` refuses the URL it built.
  - Name resolution is not in `src/`. A literal IPv4 host is its own address, and any other host is marked for lookup.

Each property of a passing run has a mutant in `PROJECT.json`: a plausible bug in a mapped
definition that TLC shows breaks it.

## Findings

1. **The ack-id loop can hang.** `EchoGatewayServer` never returns once every ack id is
   pending (line 343). The spec says allocation fails.
2. **Replies are matched by id alone.** `ERORTE` looks up the pending echo by ack id only
   (line 251), so a duplicated or late reply answers a later echo that reused the id.
3. **Teardown deletes pre-existing routes.** Teardown deletes every route in `rib_`
   (line 1102), including one that was already in the OS before the switcher added the same
   route. The route is not restored.
4. **A failed Constructor leaves objects open.** It can return false with the exchanger open:
   - unowned, when `NewHttpProxy` returns NULL (line 891);
   - or still mounted, when the server's address cannot be resolved (line 912).

5. **`NewQoS` never converts Kbps.** It clamps the configured bandwidth to be at least 0, then multiplies by 128 only under `bandwidth < 0` (line 410). That branch never runs, so until the first `OnInformation`, QoS runs at the Kbps figure read as bytes per second.
6. **`OpenAcceptor` can listen on every interface.** A failed `bind` on port 0 is not retried and not reported (line 742). `listen()` then binds implicitly to the wildcard address, and the call returns true. `OpenSocket` returns true with an unbound socket (line 808).

Observations made while modelling `Parse`, with no run. Nothing in the spec, a comment or a test says what the code should do in these cases:
- `Parse` lowercases the whole URL, path included (line 35).
- With the `:/` separator, a later `://` ends up in the host or the path (lines 40–50).
- `atoi` wraps a port above 2^32 into range (line 123), so `4294967376` reads as port 80.

## Fairness

`IcmpEcho` assumes weak fairness of `AllocStep`, `OnTick` and `Advance`:
- `AllocStep`: the allocation loop keeps running on its thread.
- `OnTick`: the switcher's timer keeps firing.
- `Advance`: the tick count keeps growing.

`Socket` assumes weak fairness of what the io_context runs once it is posted or completed:
- the arming handler (`RunPosted`);
- the completion handler of an `async_accept` that has completed (`Complete`);
- each posted `Closesocket` (`RunClose`).

Nothing is assumed of clients, of the socket's owner or of the system calls.

`SwitcherExchanger` has no liveness properties and no fairness. Whether a connect succeeds is up to the network and the server.

Nothing is assumed of the remote peer: replies may never come. `RouteLifecycle` and
`Stopwatch` have no liveness properties and no fairness. Every `Stopwatch` operation holds
`syncobj_`, so calls from several threads are a sequence of atomic steps.

## Not modelled, and why

- **Windows and macOS branches:** the paper-airplane controller and per-NIC DNS.
- **Dispose from a foreign thread:** `VEthernet::Dispose` is not in `src/`. This is listed
  as a hazard.
- **`tun_ni`/`underlying_ni_` being NULL while routes are installed:** it is unreachable,
  because both are replaced only after `ReleaseAllObjects`.
- **The contents of IP-list files:** each file is one prefix.
- **Packet formats and checksums.**
- **Allocation failure** (`make_shared_object` returning NULL) in `DatagramOutput` and `AcceptLoopbackAsync`.
- **Host-name resolution in `UriAuxiliary::Parse`:** it is not in `src/`, so a non-literal host is only marked for lookup.
- **`Socket::Poll`/`PolH` and the option setters:** single system calls with no state.
- **`VEthernetExchanger` beyond spec §4.2's link and datagram table:** NAT connection opcodes, `Frp*` port-mapping traffic, the `Lan` and `Nat` opcodes, and keep-alive (`Update`, `sekap_last_`/`sekap_next_`): the header gives no more than their names. `Update`'s effect, a lost transmission, is modelled. The echo path is in `IcmpEcho`.
- **`GetDefaultTTL`, `SetTypeOfService` and the other option setters:** single system calls whose results callers ignore.
- **`TapLinux` and `BufferblockAllocator`:** interfaces only.
- **The data race on `fib_`:** `IsBypassIpAddress` copies `fib_` without a lock. The race is a hazard in `PROJECT.json`; TLC cannot represent a torn `shared_ptr`.

## Plan

1. `IcmpEcho` composed with `Exchanger`: `Echo(ack_id)` fails without a live transmission, and replies arrive on it.
2. The `Parse` observations above as properties, once what `Parse` should refuse is stated somewhere.
