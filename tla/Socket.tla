------------------------------- MODULE Socket -------------------------------
(***************************************************************************)
(* The listening side of ppp::net::Socket (src/ppp/net/Socket.cpp):        *)
(* OpenAcceptor and OpenSocket, which open, configure and bind an acceptor *)
(* or a UDP socket, and AcceptLoopbackAsync, whose completion handler hands *)
(* each accepted socket to a callback, posts the close of a rejected one to *)
(* its context, and arms the next accept.  Closesocket and Cancel of the    *)
(* acceptor come from its owner.  Each system call's failure is an input;  *)
(* the async_accept's outcome comes from the network.                       *)
(***************************************************************************)
EXTENDS Integers, FiniteSets

CONSTANTS
    Sockets,    \* socket objects the loop may allocate (reused once closed)
    PortsIn,    \* listenPort arguments
    MaxPort,    \* IPEndPoint::MaxPort
    NoSocket    \* no socket armed

MinPort == 0    \* IPEndPoint::MinPort

\* listenIP arguments: unspecified, a local address, an address this host
\* does not have (bind fails whatever the port), and an invalid one.
AddrsIn == {"any", "local", "foreign", "invalid"}

Unbound == [addr |-> "none", port |-> -1]

Ephemeral == -2   \* the port the system picks on an implicit bind

VARIABLES
    acceptor,   \* the tcp::acceptor: "closed", "open" or "listening"
    abound,     \* the acceptor's local endpoint, Unbound before bind/listen
    udp,        \* the udp::socket: "closed" or "open"
    ubound,     \* its local endpoint
    stage,      \* the accept loop: "idle", "posted" (post queued) or "accepting"
    pendingEc,  \* the outstanding async_accept's error: "none" until it completes
    ctx,        \* the context the armed socket was made on
    cur,        \* the socket armed for the next accept
    sock,       \* socket -> "free", "armed", "owned", "rejected" or "closed"
    closeq,     \* sockets whose Closesocket is posted to their context
    live,       \* ghost: a loop was started and the owner has not closed or cancelled the acceptor since
    lastOpen    \* ghost: the last OpenAcceptor/OpenSocket call, its request and result

vars == <<acceptor, abound, udp, ubound, stage, pendingEc, ctx, cur, sock,
          closeq, live, lastOpen>>

NoOpen == [ok |-> FALSE, addr |-> "any", bound |-> Unbound]

IsOpen(s) == s \in {"open", "listening"}   \* is_open()

\* Socket objects free to be made: never used, or closed and released.
FreeSockets == {i \in Sockets : sock[i] \in {"free", "closed"}}

-----------------------------------------------------------------------------
(* Mutated forms of the definitions below. *)

\* The completion handler that re-arms only after a socket was taken.
RearmOnlyOnSuccess(success) == success

\* The completion handler that forgets to post the close of a rejected socket.
RejectedNotPosted(i) == {}

\* AcceptLoopbackAsync without its is_open() check.
AcceptsWhenClosed == TRUE

-----------------------------------------------------------------------------

\* listenPort outside MinPort..MaxPort becomes MinPort.
ClampPort(p) == IF p < MinPort \/ p > MaxPort THEN MinPort ELSE p

\* An invalid, specified address becomes address_v6::any().
ListenAddress(a) == IF a = "invalid" THEN "any" ELSE a

\* bind to (a, p): fails for an address the host does not have, or when the
\* system refuses it (bindErr: the port is in use).
BindOk(a, bindErr) == a # "foreign" /\ ~bindErr

\* bind, then the retry on MinPort when the requested port was refused.  The
\* result is the endpoint bound, Unbound when both fail or when the requested
\* port already was MinPort.
BindWithFallback(a, p, bindErr, bind0Err) ==
    IF BindOk(a, bindErr) THEN [addr |-> a, port |-> p]
    ELSE IF p # MinPort /\ BindOk(a, bind0Err) THEN [addr |-> a, port |-> MinPort]
    ELSE Unbound

\* Whether the fallback bind failed, which makes the call return false.
BindFails(a, p, bindErr, bind0Err) ==
    ~BindOk(a, bindErr) /\ p # MinPort /\ ~BindOk(a, bind0Err)

\* OpenAcceptor(acceptor, listenIP, listenPort, backlog, ...).  A failure after
\* open() returns false with the acceptor left open.  listen() on an unbound
\* acceptor binds it to the wildcard address on an ephemeral port.
OpenAcceptor(ip, port, openErr, reuseErr, bindErr, bind0Err, listenErr) ==
    LET a == ListenAddress(ip)
        p == ClampPort(port)
        b == BindWithFallback(a, p, bindErr, bind0Err)
    IN
    /\ acceptor = "closed"
    /\ \/ /\ openErr
          /\ lastOpen' = [ok |-> FALSE, addr |-> a, bound |-> Unbound]
          /\ UNCHANGED <<acceptor, abound>>
       \/ /\ ~openErr /\ reuseErr
          /\ acceptor' = "open"
          /\ lastOpen' = [ok |-> FALSE, addr |-> a, bound |-> Unbound]
          /\ UNCHANGED abound
       \/ /\ ~openErr /\ ~reuseErr /\ BindFails(a, p, bindErr, bind0Err)
          /\ acceptor' = "open"
          /\ lastOpen' = [ok |-> FALSE, addr |-> a, bound |-> Unbound]
          /\ UNCHANGED abound
       \/ /\ ~openErr /\ ~reuseErr /\ ~BindFails(a, p, bindErr, bind0Err)
          /\ listenErr
          /\ acceptor' = "open"
          /\ abound' = b
          /\ lastOpen' = [ok |-> FALSE, addr |-> a, bound |-> b]
       \/ /\ ~openErr /\ ~reuseErr /\ ~BindFails(a, p, bindErr, bind0Err)
          /\ ~listenErr
          /\ acceptor' = "listening"
          /\ abound' = IF b = Unbound THEN [addr |-> "any", port |-> Ephemeral] ELSE b
          /\ lastOpen' = [ok |-> TRUE, addr |-> a, bound |-> abound']
    /\ UNCHANGED <<udp, ubound, stage, pendingEc, ctx, cur, sock, closeq, live>>

\* OpenSocket(socket, listenIP, listenPort): the same steps for a UDP socket,
\* without listen().
OpenSocket(ip, port, openErr, reuseErr, bindErr, bind0Err) ==
    LET a == ListenAddress(ip)
        p == ClampPort(port)
    IN
    /\ udp = "closed"
    /\ \/ /\ openErr
          /\ lastOpen' = [ok |-> FALSE, addr |-> a, bound |-> Unbound]
          /\ UNCHANGED <<udp, ubound>>
       \/ /\ ~openErr /\ reuseErr
          /\ udp' = "open"
          /\ lastOpen' = [ok |-> FALSE, addr |-> a, bound |-> Unbound]
          /\ UNCHANGED ubound
       \/ /\ ~openErr /\ ~reuseErr /\ BindFails(a, p, bindErr, bind0Err)
          /\ udp' = "open"
          /\ lastOpen' = [ok |-> FALSE, addr |-> a, bound |-> Unbound]
          /\ UNCHANGED ubound
       \/ /\ ~openErr /\ ~reuseErr /\ ~BindFails(a, p, bindErr, bind0Err)
          /\ udp' = "open"
          /\ ubound' = BindWithFallback(a, p, bindErr, bind0Err)
          /\ lastOpen' = [ok |-> TRUE, addr |-> a, bound |-> ubound']
    /\ UNCHANGED <<acceptor, abound, stage, pendingEc, ctx, cur, sock, closeq, live>>

\* AcceptLoopbackAsync returns false at once on an acceptor that is not open.
AcceptorAccepts == IsOpen(acceptor)

\* The completion handler arms the next accept whatever the outcome.
RearmAfter(success) == TRUE

\* A socket that is not taken has its Closesocket posted to its context.
PostedCloses(i) == {i}

\* AcceptLoopbackAsync(acceptor, callback, context): the shared_ptr wrapper
\* and the overload it calls.  A closed acceptor returns false; a missing
\* callback, or a context callback that yields no context, closes the
\* acceptor and returns false; otherwise a socket is made on the context and
\* a handler that will call async_accept is posted.
StartAcceptLoop(hasCallback, ctxCb) ==
    /\ stage = "idle"
    /\ AcceptorAccepts
    /\ \/ /\ ~hasCallback \/ ctxCb = "null"
          /\ acceptor' = "closed"
          /\ abound' = Unbound
          /\ UNCHANGED <<stage, ctx, cur, sock, live>>
       \/ /\ hasCallback /\ ctxCb # "null"
          /\ \E i \in FreeSockets :
                /\ cur' = i
                /\ sock' = [sock EXCEPT ![i] = "armed"]
          /\ stage' = "posted"
          /\ ctx' = IF ctxCb = "caller" THEN "caller" ELSE "default"
          /\ live' = TRUE
          /\ UNCHANGED <<acceptor, abound>>
    /\ UNCHANGED <<udp, ubound, pendingEc, closeq, lastOpen>>

\* The posted handler calls async_accept; on an acceptor that is closed or
\* not listening the operation fails at once.
RunPosted ==
    /\ stage = "posted"
    /\ stage' = "accepting"
    /\ pendingEc' = IF acceptor = "listening" THEN "none" ELSE "error"
    /\ UNCHANGED <<acceptor, abound, udp, ubound, ctx, cur, sock, closeq, live, lastOpen>>

\* Network: a client connects, or the accept fails (ECONNABORTED, EMFILE).
Connect(ec) ==
    /\ stage = "accepting"
    /\ pendingEc = "none"
    /\ pendingEc' = ec
    /\ UNCHANGED <<acceptor, abound, udp, ubound, stage, ctx, cur, sock, closeq, live, lastOpen>>

\* The async_accept completion handler.  operation_canceled ends the loop and
\* drops the unconnected socket.  Otherwise the socket goes to the callback
\* when the accept and local_endpoint succeeded; if it was not taken its
\* close is posted; then AcceptLoopbackAsync(*acceptor_, accept_) is called
\* with no context callback, so the next socket is made on the default
\* executor, and it stops the loop when the acceptor is closed.
Complete(lepOk, taken) ==
    /\ stage = "accepting"
    /\ pendingEc # "none"
    /\ pendingEc' = "none"
    /\ \/ /\ pendingEc = "canceled"
          /\ stage' = "idle"
          /\ sock' = [sock EXCEPT ![cur] = "closed"]
          /\ UNCHANGED <<cur, ctx, closeq>>
       \/ /\ pendingEc # "canceled"
          /\ LET success == pendingEc = "ok" /\ lepOk /\ taken
                 after   == [sock EXCEPT ![cur] = IF success THEN "owned" ELSE "rejected"]
             IN
             /\ closeq' = IF success THEN closeq ELSE closeq \cup PostedCloses(cur)
             /\ \/ /\ ~(RearmAfter(success) /\ AcceptorAccepts)
                   /\ stage' = "idle"
                   /\ sock' = after
                   /\ UNCHANGED <<cur, ctx>>
                \/ /\ RearmAfter(success) /\ AcceptorAccepts
                   /\ \E j \in Sockets \ {cur} :
                         /\ after[j] \in {"free", "closed"}
                         /\ cur' = j
                         /\ sock' = [after EXCEPT ![j] = "armed"]
                   /\ stage' = "posted"
                   /\ ctx' = "default"
    /\ UNCHANGED <<acceptor, abound, udp, ubound, live, lastOpen>>

\* The posted Closesocket(socket_) runs on the socket's context.
RunClose(i) ==
    /\ i \in closeq
    /\ sock' = [sock EXCEPT ![i] = "closed"]
    /\ closeq' = closeq \ {i}
    /\ UNCHANGED <<acceptor, abound, udp, ubound, stage, pendingEc, ctx, cur, live, lastOpen>>

\* Closesocket(acceptor) by its owner: close() aborts an outstanding accept.
CloseAcceptor ==
    /\ IsOpen(acceptor)
    /\ acceptor' = "closed"
    /\ abound' = Unbound
    /\ pendingEc' = IF stage = "accepting" /\ pendingEc = "none" THEN "canceled" ELSE pendingEc
    /\ live' = FALSE
    /\ UNCHANGED <<udp, ubound, stage, ctx, cur, sock, closeq, lastOpen>>

\* Cancel(acceptor): cancel() aborts an outstanding accept, the acceptor stays open.
CancelAcceptor ==
    /\ IsOpen(acceptor)
    /\ pendingEc' = IF stage = "accepting" /\ pendingEc = "none" THEN "canceled" ELSE pendingEc
    /\ live' = FALSE
    /\ UNCHANGED <<acceptor, abound, udp, ubound, stage, ctx, cur, sock, closeq, lastOpen>>

\* Closesocket(socket) of the UDP socket by its owner.
CloseUdp ==
    /\ udp = "open"
    /\ udp' = "closed"
    /\ ubound' = Unbound
    /\ UNCHANGED <<acceptor, abound, stage, pendingEc, ctx, cur, sock, closeq, live, lastOpen>>

\* Environment: the callback's owner closes a socket it took.
ReleaseOwned(i) ==
    /\ sock[i] = "owned"
    /\ sock' = [sock EXCEPT ![i] = "closed"]
    /\ UNCHANGED <<acceptor, abound, udp, ubound, stage, pendingEc, ctx, cur, closeq, live, lastOpen>>

-----------------------------------------------------------------------------

Init ==
    /\ acceptor = "closed"
    /\ abound = Unbound
    /\ udp = "closed"
    /\ ubound = Unbound
    /\ stage = "idle"
    /\ pendingEc = "none"
    /\ ctx = "default"
    /\ cur = NoSocket
    /\ sock = [i \in Sockets |-> "free"]
    /\ closeq = {}
    /\ live = FALSE
    /\ lastOpen = NoOpen

Next ==
    \/ \E ip \in AddrsIn, port \in PortsIn, e1, e2, e3, e4, e5 \in BOOLEAN :
           OpenAcceptor(ip, port, e1, e2, e3, e4, e5)
    \/ \E ip \in AddrsIn, port \in PortsIn, e1, e2, e3, e4 \in BOOLEAN :
           OpenSocket(ip, port, e1, e2, e3, e4)
    \/ \E cb \in BOOLEAN, c \in {"none", "caller", "null"} : StartAcceptLoop(cb, c)
    \/ RunPosted
    \/ \E ec \in {"ok", "error"} : Connect(ec)
    \/ \E lepOk, taken \in BOOLEAN : Complete(lepOk, taken)
    \/ \E i \in Sockets : RunClose(i) \/ ReleaseOwned(i)
    \/ CloseAcceptor
    \/ CancelAcceptor
    \/ CloseUdp

\* The io_context runs every handler posted to it: the arming handler, the
\* completion handler of an async_accept that has completed, and each posted
\* Closesocket.  Clients, the owner and the system calls get no fairness.
Spec == Init /\ [][Next]_vars
        /\ WF_vars(RunPosted)
        /\ WF_vars(\E lepOk, taken \in BOOLEAN : Complete(lepOk, taken))
        /\ \A i \in Sockets : WF_vars(RunClose(i))

-----------------------------------------------------------------------------
(* Properties *)

TypeOK ==
    /\ acceptor \in {"closed", "open", "listening"}
    /\ udp \in {"closed", "open"}
    /\ stage \in {"idle", "posted", "accepting"}
    /\ pendingEc \in {"none", "ok", "error", "canceled"}
    /\ ctx \in {"caller", "default"}
    /\ sock \in [Sockets -> {"free", "armed", "owned", "rejected", "closed"}]
    /\ closeq = {i \in Sockets : sock[i] = "rejected"}   \* a refused socket has its close posted
    /\ (stage # "idle") = (cur \in Sockets /\ sock[cur] = "armed")
    /\ live \in BOOLEAN

\* Once AcceptLoopbackAsync has started the loop, an accept stays armed (posted
\* or outstanding) for as long as the acceptor is open and its owner has not
\* closed or cancelled it: a refused client, a failed accept or a failed
\* local_endpoint never ends the loop.
AcceptorKeepsAccepting ==
    IsOpen(acceptor) /\ live => stage # "idle"

\* Once the owner closes the acceptor, the accept loop ends: the arming
\* handler's async_accept fails on the closed acceptor or the outstanding one is
\* aborted, and the completion handler's unconditional re-arm stops at
\* AcceptLoopbackAsync's is_open() check, unless the acceptor is opened again.
ClosingAcceptorEndsLoop ==
    acceptor = "closed" ~> (stage = "idle" \/ IsOpen(acceptor))

\* OpenAcceptor and OpenSocket return true only with the socket bound to the
\* address asked for (the requested port, or MinPort after the fallback).
OpenBindsRequestedAddress ==
    lastOpen.ok => lastOpen.bound.addr = lastOpen.addr

=============================================================================
