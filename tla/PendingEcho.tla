---------------------------- MODULE PendingEcho ----------------------------
(***************************************************************************)
(* What the switcher promises of an echo request it keeps for the remote   *)
(* peer (spec: Pending-ICMP table and ERORTE): a request is accepted once, *)
(* is pending until it is answered or released (timeout, send failure,     *)
(* disposal), is answered at most once and only while pending, and never   *)
(* stays pending forever.                                                   *)
(***************************************************************************)
CONSTANT Pings   \* echo requests

VARIABLES
    pending,   \* requests waiting for the remote reply
    answered   \* requests an echo reply or time-exceeded was written for

vars == <<pending, answered>>

Init == pending = {} /\ answered = {}

Accept(p) ==
    /\ p \notin pending \cup answered
    /\ pending' = pending \cup {p}
    /\ UNCHANGED answered

Answer(p) ==
    /\ p \in pending
    /\ pending' = pending \ {p}
    /\ answered' = answered \cup {p}

\* Several requests may be released in one step (a sweep, a disposal).
Release(S) ==
    /\ S # {} /\ S \subseteq pending
    /\ pending' = pending \ S
    /\ UNCHANGED answered

Next == \E p \in Pings : Accept(p) \/ Answer(p) \/ Release({p})
        \/ \E S \in SUBSET pending : Release(S)

\* A pending request leaves the table, one way or the other.
Spec == Init /\ [][Next]_vars
        /\ \A p \in Pings : WF_vars(Answer(p) \/ Release({p}))

TypeOK == pending \subseteq Pings /\ answered \subseteq Pings

=============================================================================
