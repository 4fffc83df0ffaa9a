------------------------------ MODULE RouteLB ------------------------------
(***************************************************************************)
(* The routes of the lb_agent and the pulls that fill them: the RouteLB    *)
(* maps (lb_agent/src/route_lb.cpp), the UDP server threads that ask them  *)
(* (agent_udp_server.cpp), and the dns client thread that carries requests *)
(* to the DNS service and routes back (dns_client.cpp, over TCPClient and  *)
(* ThreadQueue).                                                           *)
(*                                                                         *)
(* A LoadBalance object is reduced to what its owner looks at: whether its *)
(* host_map_ is empty, status_, and whether the last update is younger     *)
(* than update_timeout.  Its queues are module LoadBalance.                *)
(*                                                                         *)
(* Every operation on one RouteLB holds that RouteLB's mutex and is one    *)
(* action.  conn_init resets the RouteLBs one after the other, taking and  *)
(* releasing each mutex, so UDP threads run between two resets.            *)
(*                                                                         *)
(* Messages are carried whole, and `connected' is false until the first    *)
(* connect() ends; module TCPStream has the bytes, and the case where the  *)
(* uninitialised flag happens to be true.                                  *)
(***************************************************************************)
EXTENDS Integers, Sequences, Functions

CONSTANTS
    Mod,       \* modid/cmdid pairs
    Home,      \* Home[m]: the RouteLB of m, (modid + cmdid) % 3
    NumLB,     \* the number of RouteLBs (3)
    ObufCap,   \* requests that fit in the output buffer of the TCP client
    MaxQueue,  \* bound: requests in dns_queue and on the wire
    MaxWire    \* bound: routes on the wire

ASSUME RouteAssumption ==
    /\ NumLB \in Nat
    /\ Home \in [Mod -> 0 .. NumLB - 1]
    /\ ObufCap \in Nat /\ MaxQueue \in Nat /\ MaxWire \in Nat

VARIABLES
    lb,        \* route_lb_map_ of all RouteLBs: the objects, by mod
    dns_queue, \* ThreadQueue from the UDP threads to the dns client thread
    obuf,      \* requests in the client's output buffer
    conn,      \* the client's connection: "up", "connecting" or "failed"
    reset,     \* RouteLBs below it are reset; NumLB: conn_init is done
    to_dns,    \* requests on the wire
    to_agent,  \* routes on the wire: <<mod, are there hosts>>
    booked,    \* mods this connection has subscribed at the service
    refused,   \* history: mods whose pull a full output buffer refused
    aborted    \* the assertion in get_host failed: the agent is gone

vars == <<lb, dns_queue, obuf, conn, reset, to_dns, to_agent, booked, refused, aborted>>
wire == <<to_dns, to_agent, booked>>

LB == [empty : BOOLEAN, status : {"PULLING", "NEW"}, fresh : BOOLEAN]

\* `new LoadBalance' followed by pull(): last_update_time_ is 0, long ago.
Created == [empty |-> TRUE, status |-> "PULLING", fresh |-> FALSE]

Updated == [empty |-> FALSE, status |-> "NEW", fresh |-> TRUE]

\* f with m mapped to v, whether or not m was in its domain.
With(f, m, v) == [n \in DOMAIN f \cup {m} |-> IF n = m THEN v ELSE f[n]]

Init ==
    /\ lb = <<>> /\ dns_queue = <<>> /\ obuf = <<>>
    \* connect() of the constructor returned at once, or is in progress; the
    \* hook conn_init is registered after the constructor.
    /\ conn \in {"up", "connecting"} /\ reset = NumLB
    /\ to_dns = <<>> /\ to_agent = <<>> /\ booked = {}
    /\ refused = {} /\ aborted = FALSE

-----------------------------------------------------------------------------
(* UDP server threads: get_host and get_route of the mod's RouteLB.        *)

\* LoadBalance::pull() on a new or known object.
Pull(m, obj) ==
    /\ Len(dns_queue) < MaxQueue
    /\ dns_queue' = Append(dns_queue, m)
    /\ lb' = With(lb, m, [obj EXCEPT !.status = "PULLING"])

\* The repull check at the end of get_host and get_route.
Stale(m) == lb[m].status = "NEW" /\ ~lb[m].fresh

Create(m) ==
    /\ m \notin DOMAIN lb
    /\ Pull(m, Created)
    /\ UNCHANGED aborted

Repull(m) ==
    /\ Stale(m)
    /\ Pull(m, lb[m])
    /\ UNCHANGED aborted

\* assert(lb->status_ == LoadBalance::PULLING)
AssertFails(m) ==
    /\ lb[m].empty /\ lb[m].status # "PULLING"
    /\ aborted' = TRUE
    /\ UNCHANGED <<lb, dns_queue>>

get_host(m) ==
    /\ ~aborted
    /\ \/ Create(m)
       \/ m \in DOMAIN lb /\ ~lb[m].empty /\ Repull(m)
       \/ m \in DOMAIN lb /\ AssertFails(m)
    /\ UNCHANGED <<obuf, conn, reset, refused, wire>>

\* get_route also repulls an object without hosts.
get_route(m) ==
    /\ ~aborted
    /\ Create(m) \/ (m \in DOMAIN lb /\ Repull(m))
    /\ UNCHANGED <<obuf, conn, reset, refused, wire>>

\* time(NULL) - last_update_time_ > update_timeout
Expire(m) ==
    /\ ~aborted /\ m \in DOMAIN lb /\ lb[m].fresh
    /\ lb' = [lb EXCEPT ![m].fresh = FALSE]
    /\ UNCHANGED <<dns_queue, obuf, conn, reset, refused, aborted, wire>>

-----------------------------------------------------------------------------
(* The dns client thread.  Its callbacks run one at a time; conn_init runs *)
(* inside the one that found the connection established.                   *)

InLoop == ~aborted /\ reset = NumLB

\* new_dns_request: takes the whole queue and sends every request.  Without a
\* connection, or without room, send_message drops it.
Room == ObufCap - Len(obuf)

Buffered(q) == [i \in 1 .. (IF Len(q) <= Room THEN Len(q) ELSE Room) |-> q[i]]

new_dns_request ==
    /\ InLoop /\ dns_queue # <<>>
    /\ dns_queue' = <<>>
    /\ IF conn = "up"
       THEN /\ obuf' = obuf \o Buffered(dns_queue)
            /\ refused' = refused \cup (Range(dns_queue) \ Range(Buffered(dns_queue)))
       ELSE UNCHANGED <<obuf, refused>>
    /\ UNCHANGED <<lb, conn, reset, aborted, wire>>

\* TCPClient::do_write, one request at a time.
do_write ==
    /\ InLoop /\ conn = "up" /\ obuf # <<>> /\ Len(to_dns) < MaxQueue
    /\ to_dns' = Append(to_dns, Head(obuf))
    /\ obuf' = Tail(obuf)
    /\ UNCHANGED <<lb, dns_queue, conn, reset, to_agent, booked, refused, aborted>>

\* RouteLB::update_host: an object whose route has no hosts is deleted.
update_host(m, hosts) ==
    IF m \notin DOMAIN lb THEN lb
    ELSE IF hosts THEN [lb EXCEPT ![m] = Updated]
    ELSE Restrict(lb, DOMAIN lb \ {m})

\* deal_recv_route, for the next route on the wire.
MutDealRecvRoute ==
    /\ InLoop /\ conn = "up" /\ to_agent # <<>>
    /\ to_agent' = Tail(to_agent)
    /\ LET m == Head(to_agent)[1] hosts == Head(to_agent)[2] IN
       lb' = IF m \in DOMAIN lb /\ hosts THEN [lb EXCEPT ![m] = Updated] ELSE lb
    /\ UNCHANGED <<dns_queue, obuf, conn, reset, to_dns, booked, refused, aborted>>
deal_recv_route ==
    /\ InLoop /\ conn = "up" /\ to_agent # <<>>
    /\ to_agent' = Tail(to_agent)
    /\ lb' = update_host(Head(to_agent)[1], Head(to_agent)[2])
    /\ UNCHANGED <<dns_queue, obuf, conn, reset, to_dns, booked, refused, aborted>>

\* read or write found the connection closed: clean_conn, then do_connect,
\* whose connect() is in progress, or succeeds at once and runs conn_init, or
\* fails and ends the process ("failed").  The output buffer is kept.
clean_conn ==
    /\ InLoop /\ conn = "up"
    /\ \/ conn' \in {"connecting", "failed"} /\ reset' = reset
       \/ conn' = "up" /\ reset' = 0
    /\ to_dns' = <<>> /\ to_agent' = <<>> /\ booked' = {}
    /\ UNCHANGED <<lb, dns_queue, obuf, refused, aborted>>

\* connection_delay: the pending connect() has an outcome.
connected ==
    /\ InLoop /\ conn = "connecting"
    /\ conn' = "up" /\ reset' = 0
    /\ UNCHANGED <<lb, dns_queue, obuf, refused, aborted, wire>>

\* A failed connect() is not retried.
connect_failed ==
    /\ InLoop /\ conn = "connecting"
    /\ conn' = "failed"
    /\ UNCHANGED <<lb, dns_queue, obuf, reset, refused, aborted, wire>>

\* conn_init: reset_lb_status of the next RouteLB.
MutResetLBStatus ==
    /\ ~aborted /\ reset < NumLB
    /\ reset' = reset + 1
    /\ UNCHANGED <<lb, dns_queue, obuf, conn, refused, aborted, wire>>
MutResetOneMore ==
    /\ ~aborted /\ reset <= NumLB
    /\ reset' = reset + 1
    /\ UNCHANGED <<lb, dns_queue, obuf, conn, refused, aborted, wire>>
reset_lb_status ==
    /\ ~aborted /\ reset < NumLB
    /\ lb' = [m \in DOMAIN lb |->
                IF Home[m] = reset THEN [lb[m] EXCEPT !.status = "NEW"] ELSE lb[m]]
    /\ reset' = reset + 1
    /\ UNCHANGED <<dns_queue, obuf, conn, refused, aborted, wire>>

-----------------------------------------------------------------------------
(* The DNS service at the other end: it answers every request with the     *)
(* hosts it has, and pushes a route that changes to the connections that   *)
(* asked for it before.  What it has is not this module's subject.         *)

DnsAnswer ==
    /\ to_dns # <<>> /\ Len(to_agent) < MaxWire
    /\ to_dns' = Tail(to_dns)
    /\ booked' = booked \cup {Head(to_dns)}
    /\ \E hosts \in BOOLEAN : to_agent' = Append(to_agent, <<Head(to_dns), hosts>>)
    /\ UNCHANGED <<lb, dns_queue, obuf, conn, reset, refused, aborted>>

\* The bound leaves room for an answer, which pushes may delay but not stop.
DnsPush ==
    /\ Len(to_agent) + 1 < MaxWire
    /\ \E m \in booked, hosts \in BOOLEAN : to_agent' = Append(to_agent, <<m, hosts>>)
    /\ UNCHANGED <<lb, dns_queue, obuf, conn, reset, to_dns, booked, refused, aborted>>

-----------------------------------------------------------------------------
UdpThreads == \E m \in Mod : get_host(m) \/ get_route(m) \/ Expire(m)

DnsClient ==
    \/ new_dns_request \/ do_write \/ deal_recv_route
    \/ clean_conn \/ connected \/ connect_failed \/ reset_lb_status

Next == UdpThreads \/ DnsClient \/ DnsAnswer \/ DnsPush

Spec == Init /\ [][Next]_vars

\* Each callback of the event loop whose event is pending is called
\* eventually, a pending connect() has an outcome, and the service answers.
Fairness ==
    /\ WF_vars(new_dns_request) /\ WF_vars(do_write) /\ WF_vars(deal_recv_route)
    /\ WF_vars(reset_lb_status) /\ WF_vars(connected \/ connect_failed)
    /\ WF_vars(DnsAnswer)

LiveSpec == Spec /\ Fairness

-----------------------------------------------------------------------------
\* The type of the state: objects for some of the mods, requests and routes
\* of mods only, conn_init somewhere in its loop.
TypeOK ==
    /\ DOMAIN lb \subseteq Mod /\ lb \in [DOMAIN lb -> LB]
    /\ dns_queue \in Seq(Mod)
    /\ obuf \in Seq(Mod) /\ Len(obuf) <= ObufCap
    /\ conn \in {"up", "connecting", "failed"}
    /\ reset \in 0 .. NumLB
    /\ to_dns \in Seq(Mod) /\ to_agent \in Seq(Mod \X BOOLEAN)
    /\ booked \in SUBSET Mod /\ refused \in SUBSET Mod
    /\ aborted \in BOOLEAN

Pulling(m) == m \in DOMAIN lb /\ lb[m].status = "PULLING"

InFlight(m) ==
    \/ m \in Range(dns_queue) \/ m \in Range(obuf) \/ m \in Range(to_dns)
    \/ \E hosts \in BOOLEAN : <<m, hosts>> \in Range(to_agent)

\* get_host and get_route never pull an object that is PULLING, so a PULLING
\* object whose request is lost stays without updates for ever.  Whatever the
\* connection does, a PULLING object has its request or its answer on the
\* way, or the reset of the next connection still ahead; the only request the
\* agent loses for good is one that a full output buffer refused.
PullAccounted ==
    \A m \in Mod : Pulling(m) =>
        InFlight(m) \/ conn # "up" \/ Home[m] >= reset \/ m \in refused

\* Every pull ends: by a route, by the removal of the object or by the reset
\* of the next connection, unless connect() failed or the buffer was full.
PullEnds ==
    \A m \in Mod : Pulling(m) ~> (~Pulling(m) \/ aborted \/ conn = "failed" \/ m \in refused)

-----------------------------------------------------------------------------
(* What an assertion says, and the code does not keep.                     *)

\* route_lb.cpp:41-42: an object without hosts is being pulled, its route has
\* not come back yet; the agent asserts it.
AssertionHolds == ~aborted

=============================================================================
