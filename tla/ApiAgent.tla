------------------------------ MODULE ApiAgent ------------------------------
(***************************************************************************)
(* The client API (api/cpp/api/api.cpp) and the agent it talks to over UDP *)
(* on the same host: the UDP servers (reactor/src/udp_server.cpp) with     *)
(* their handlers (lb_agent/src/agent_udp_server.cpp), and the start of    *)
(* the agent, which starts the servers before the queues their handlers    *)
(* use (lb_agent/src/main_server.cpp).                                     *)
(*                                                                         *)
(* An APIClient belongs to one thread: one call at a time.  It has a       *)
(* connected socket for each server.  A datagram to a full socket buffer   *)
(* is dropped without a word; one to a port nobody has bound leaves an     *)
(* error that the next call on the client's socket returns.  recvfrom has  *)
(* no timeout, but a signal can end it.                                    *)
(*                                                                         *)
(* What the agent knows of a mod is reduced to what an answer shows of it; *)
(* modules RouteLB and LoadBalance have the rest.                          *)
(***************************************************************************)
EXTENDS Integers, Sequences, FiniteSets

CONSTANTS
    Client,     \* APIClient objects
    Mod,        \* modid/cmdid pairs
    NumServers, \* UDP servers of the agent (3 in the code)
    Index,      \* by mod: (modid + cmdid) % 3
    SeqMod,     \* the sequence number is a uint32_t: 2^32
    RegTries,   \* tries of reg_init (3 in the code)
    SockCap,    \* datagrams that fit in the buffer of a socket
    MaxCalls,   \* bound: calls of a client
    MaxCuts,    \* bound: receptions of a client that a signal ends
    None

ASSUME ApiAssumption ==
    /\ NumServers \in Nat \ {0} /\ Index \in [Mod -> 0 .. NumServers - 1]
    /\ SeqMod \in Nat \ {0} /\ RegTries \in Nat \ {0}
    /\ SockCap \in Nat
    /\ MaxCalls \in Nat /\ MaxCuts \in Nat

Server == 0 .. NumServers - 1

VARIABLES
    seqid,   \* by client: seqid_
    call,    \* by client: the call it is in, or None
    sock,    \* by client and server: answers in the client's socket
    err,     \* by client and server: a pending ECONNREFUSED
    inq,     \* by server: datagrams in its socket
    bound,   \* by server: its thread has bound the port
    boot,    \* main() has created report_queue and dns_queue
    crashed, \* the agent process has ended
    route,   \* by mod: "absent", "hosts", or without hosts "pulling", or "new"
             \* after a reset
    calls,   \* history: by client, calls made
    cuts,    \* history: by client and server, receptions that a signal ended
    lost,    \* history: <<client, call, why>> of which a datagram was lost
    result   \* by client: how its last call returned, or None

client == <<seqid, call, calls, cuts, result>>
agent  == <<bound, boot, crashed, route>>
net    == <<sock, err, inq, lost>>
vars   == <<client, agent, net>>

Seqid   == 0 .. SeqMod - 1
Calls   == [op : {"get_host", "get_route", "reg_init"}, mod : Mod, seq : Seqid,
            id : Nat, tries : 1 .. RegTries, sent : BOOLEAN]
Request == [op : {"get_host", "get_route", "report"}, mod : Mod, seq : Seqid,
            id : Nat, client : Client]
Answer  == [op : {"get_host", "get_route"}, mod : Mod, seq : Seqid, of : Nat,
            ret : {"SUCC", "NOEXIST", "OVERLOAD"}]
Result  == [op : {"get_host", "get_route", "reg_init"}, id : Nat, of : Nat,
            ret : {"SUCC", "NOEXIST", "OVERLOAD", "SYSTEM_ERROR"}]

ASSUME NoneAssumption == None \notin Calls

Init ==
    /\ seqid = [c \in Client |-> 0] /\ call = [c \in Client |-> None]
    /\ sock = [c \in Client |-> [i \in Server |-> <<>>]]
    /\ err = [c \in Client |-> [i \in Server |-> FALSE]]
    /\ inq = [i \in Server |-> <<>>] /\ bound = [i \in Server |-> FALSE]
    /\ boot = FALSE /\ crashed = FALSE
    /\ route = [m \in Mod |-> "absent"]
    /\ calls = [c \in Client |-> 0]
    /\ cuts = [c \in Client |-> [i \in Server |-> 0]]
    /\ lost = {} /\ result = [c \in Client |-> None]

-----------------------------------------------------------------------------
(* The calls of the API.                                                    *)

\* A datagram to server i: lost if its buffer is full, refused if the port is
\* not bound.
Sendto(c, i, r) ==
    IF ~bound[i]
    THEN err' = [err EXCEPT ![c][i] = TRUE] /\ UNCHANGED <<inq, lost>>
    ELSE IF Len(inq[i]) < SockCap
    THEN inq' = [inq EXCEPT ![i] = Append(@, r)] /\ UNCHANGED <<err, lost>>
    ELSE lost' = lost \cup {<<c, r.id, "full">>} /\ UNCHANGED <<inq, err>>

MutOneMoreTry(c, k, ret, of) ==
    IF k.op = "reg_init" /\ ret # "SUCC" /\ k.tries <= RegTries
    THEN /\ call' = [call EXCEPT ![c] = [k EXCEPT !.tries = @ + 1, !.sent = FALSE]]
         /\ UNCHANGED result
    ELSE /\ call' = [call EXCEPT ![c] = None]
         /\ result' = [result EXCEPT ![c] =
              [op |-> k.op, id |-> k.id, of |-> of,
               ret |-> IF k.op = "reg_init" /\ ret # "SUCC" THEN "NOEXIST" ELSE ret]]

\* Call k returns ret; reg_init tries get_route again while it has no route.
Return(c, k, ret, of) ==
    IF k.op = "reg_init" /\ ret # "SUCC" /\ k.tries < RegTries
    THEN /\ call' = [call EXCEPT ![c] = [k EXCEPT !.tries = @ + 1, !.sent = FALSE]]
         /\ UNCHANGED result
    ELSE /\ call' = [call EXCEPT ![c] = None]
         /\ result' = [result EXCEPT ![c] =
              [op |-> k.op, id |-> k.id, of |-> of,
               ret |-> IF k.op = "reg_init" /\ ret # "SUCC" THEN "NOEXIST" ELSE ret]]

\* Call k reaches sendto(), which returns the pending error or sends.
SendRequest(c, k) ==
    /\ IF err[c][Index[k.mod]]
       THEN /\ Return(c, k, "SYSTEM_ERROR", k.id)
            /\ err' = [err EXCEPT ![c][Index[k.mod]] = FALSE]
            /\ UNCHANGED <<inq, lost>>
       ELSE /\ call' = [call EXCEPT ![c] = k]
            /\ Sendto(c, Index[k.mod],
                      [op |-> IF k.op = "get_host" THEN "get_host" ELSE "get_route",
                       mod |-> k.mod, seq |-> k.seq, id |-> k.id, client |-> c])
            /\ UNCHANGED result
    /\ UNCHANGED <<cuts, agent, sock>>

\* A call up to its recvfrom().
Begin(c, op, m) ==
    /\ call[c] = None /\ calls[c] < MaxCalls
    /\ calls' = [calls EXCEPT ![c] = @ + 1]
    /\ SendRequest(c, [op |-> op, mod |-> m, seq |-> seqid[c], id |-> calls[c] + 1,
                       tries |-> 1, sent |-> TRUE])

get_host(c, m) ==
    /\ Begin(c, "get_host", m)
    /\ seqid' = [seqid EXCEPT ![c] = (@ + 1) % SeqMod]

get_route(c, m) == Begin(c, "get_route", m) /\ UNCHANGED seqid

reg_init(c, m) == Begin(c, "reg_init", m) /\ UNCHANGED seqid

\* The next try of reg_init, after its sleep.
retry(c) ==
    /\ call[c] # None /\ ~call[c].sent
    /\ SendRequest(c, [call[c] EXCEPT !.sent = TRUE])
    /\ UNCHANGED <<seqid, calls>>

\* The server of the call that client c is in.
At(c) == Index[call[c].mod]

\* recvfrom() returns the pending error.
refused(c) ==
    /\ call[c] # None /\ call[c].sent /\ err[c][At(c)]
    /\ err' = [err EXCEPT ![c][At(c)] = FALSE]
    /\ Return(c, call[c], "SYSTEM_ERROR", call[c].id)
    /\ UNCHANGED <<seqid, calls, cuts, agent, sock, inq, lost>>

\* A signal ends recvfrom(); the answer will come nevertheless.
interrupted(c) ==
    /\ call[c] # None /\ call[c].sent
    /\ cuts[c][At(c)] < MaxCuts
    /\ cuts' = [cuts EXCEPT ![c][At(c)] = @ + 1]
    /\ Return(c, call[c], "SYSTEM_ERROR", call[c].id)
    /\ UNCHANGED <<seqid, calls, agent, net>>

\* recvfrom() returns the next datagram of the socket.
Recvfrom(c) ==
    /\ call[c] # None /\ call[c].sent
    /\ sock[c][At(c)] # <<>>
    /\ sock' = [sock EXCEPT ![c][At(c)] = Tail(@)]
    /\ UNCHANGED <<seqid, calls, cuts, agent, err, inq, lost>>

\* get_host reads on while the answer is older than its request.
MutReadsOn(a, k) == a.seq <= k.seq
Older(a, k) == a.seq < k.seq

MutRecvHostNoSeq(c) ==
    /\ Recvfrom(c) /\ call[c].op = "get_host"
    /\ LET k == call[c] a == Head(sock[c][At(c)]) IN
       IF a.op # "get_host" \/ a.mod # k.mod THEN Return(c, call[c], "SYSTEM_ERROR", a.of)
       ELSE Return(c, call[c], a.ret, a.of)
recv_host(c) ==
    /\ Recvfrom(c) /\ call[c].op = "get_host"
    /\ LET k == call[c] a == Head(sock[c][At(c)]) IN
       IF a.op # "get_host" THEN Return(c, call[c], "SYSTEM_ERROR", a.of)
       ELSE IF Older(a, k) THEN UNCHANGED <<call, result>>
       ELSE IF a.seq # k.seq \/ a.mod # k.mod THEN Return(c, call[c], "SYSTEM_ERROR", a.of)
       ELSE Return(c, call[c], a.ret, a.of)

\* get_route has no sequence number: it takes the first datagram, and returns
\* RET_SUCC with whatever hosts it has; reg_init looks whether there are any.
recv_route(c) ==
    /\ Recvfrom(c) /\ call[c].op # "get_host"
    /\ LET a == Head(sock[c][At(c)]) IN
       IF a.op # "get_route" \/ a.mod # call[c].mod THEN Return(c, call[c], "SYSTEM_ERROR", a.of)
       ELSE Return(c, call[c], IF call[c].op = "get_route" THEN "SUCC" ELSE a.ret, a.of)

\* report() sends and waits for nothing.
report(c, m) ==
    /\ call[c] = None /\ calls[c] < MaxCalls
    /\ calls' = [calls EXCEPT ![c] = @ + 1]
    /\ IF err[c][Index[m]]
       THEN err' = [err EXCEPT ![c][Index[m]] = FALSE] /\ UNCHANGED <<inq, lost>>
       ELSE Sendto(c, Index[m], [op |-> "report", mod |-> m, seq |-> 0,
                                 id |-> calls[c] + 1, client |-> c])
    /\ UNCHANGED <<seqid, call, cuts, result, agent, sock>>

-----------------------------------------------------------------------------
(* The agent.                                                               *)

\* agent_server_main of server i: the UDPServer binds its port.
start_UDP_server(i) ==
    /\ ~crashed /\ ~bound[i]
    /\ bound' = [bound EXCEPT ![i] = TRUE]
    /\ UNCHANGED <<client, boot, crashed, route, net>>

\* main() creates report_queue and dns_queue, and the thread of each.  No
\* handler needs report_queue before a route has come through dns_queue.
main ==
    /\ ~crashed /\ ~boot
    /\ boot' = TRUE
    /\ UNCHANGED <<client, bound, crashed, route, net>>

\* reset_lb_status of server i's RouteLB, called by conn_init of the DNS client
\* (module RouteLB): an object that waits for its first hosts becomes NEW.
reset_lb_status(i) ==
    /\ ~crashed /\ boot
    /\ route' = [m \in Mod |-> IF Index[m] = i /\ route[m] = "pulling" THEN "new" ELSE route[m]]
    /\ UNCHANGED <<client, bound, boot, crashed, net>>

\* What an answer about mod m may say; NOEXIST also stands for no hosts.
Replies(op, m) ==
    IF route[m] # "hosts" THEN {"NOEXIST"}
    ELSE IF op = "get_host" THEN {"SUCC", "OVERLOAD"} ELSE {"SUCC"}

\* UDPServer::send_message to the sender of r: an answer with too many hosts is
\* not sent, one that finds the client's socket full is dropped.
send_message(i, r) ==
    \/ /\ r.op = "get_route" /\ route[r.mod] = "hosts"
       /\ lost' = lost \cup {<<r.client, r.id, "large">>} /\ UNCHANGED sock
    \/ /\ Len(sock[r.client][i]) < SockCap
       /\ \E ret \in Replies(r.op, r.mod) :
            sock' = [sock EXCEPT ![r.client][i] = Append(@,
               [op |-> r.op, mod |-> r.mod, seq |-> r.seq, of |-> r.id, ret |-> ret])]
       /\ UNCHANGED lost
    \/ /\ Len(sock[r.client][i]) >= SockCap
       /\ lost' = lost \cup {<<r.client, r.id, "full">>} /\ UNCHANGED sock

\* The thread of server i takes a datagram.
Takes(i) == ~crashed /\ bound[i] /\ inq[i] # <<>>

\* Request r makes RouteLB pull: for a mod without an object, or by get_route
\* for one without hosts that was reset.
Pulls(r) == route[r.mod] = "absent" \/ (r.op = "get_route" /\ route[r.mod] = "new")

\* RouteLB::get_host asserts that an object without hosts is PULLING.
FailsAssert(r) == r.op = "get_host" /\ route[r.mod] = "new"

\* get_host_cb, get_route_cb: RouteLB creates the object of an unknown mod,
\* pulls, then the answer goes to the sender of the request.
serve(i) ==
    /\ Takes(i)
    /\ LET r == Head(inq[i]) IN
       /\ r.op # "report" /\ (Pulls(r) => boot) /\ ~FailsAssert(r)
       /\ inq' = [inq EXCEPT ![i] = Tail(@)]
       /\ route' = IF Pulls(r) THEN [route EXCEPT ![r.mod] = "pulling"] ELSE route
       /\ send_message(i, r)
    /\ UNCHANGED <<client, bound, boot, crashed, err>>

MutAnswersReport(i) ==
    /\ Takes(i) /\ Head(inq[i]).op = "report"
    /\ LET r == Head(inq[i]) IN
       sock' = [sock EXCEPT ![r.client][i] = Append(@,
                  [op |-> "get_host", mod |-> r.mod, seq |-> r.seq, of |-> r.id, ret |-> "SUCC"])]
    /\ inq' = [inq EXCEPT ![i] = Tail(@)]
    /\ UNCHANGED <<client, agent, err, lost>>

\* report_cb: module LoadBalance has the rest.
report_cb(i) ==
    /\ Takes(i) /\ Head(inq[i]).op = "report"
    /\ inq' = [inq EXCEPT ![i] = Tail(@)]
    /\ UNCHANGED <<client, agent, sock, err, lost>>

\* The agent process ends, and the datagrams in its sockets with it.
Ends ==
    /\ crashed' = TRUE
    /\ bound' = [j \in Server |-> FALSE] /\ inq' = [j \in Server |-> <<>>]
    /\ lost' = lost \cup UNION {{<<inq[j][n].client, inq[j][n].id, "agent">> :
                                   n \in 1 .. Len(inq[j])} : j \in Server}
    /\ UNCHANGED <<client, boot, route, sock, err>>

\* A request that ends the agent: LoadBalance::pull() with dns_queue still NULL,
\* or the assertion of RouteLB::get_host.
Fatal(i) ==
    /\ Takes(i)
    /\ LET r == Head(inq[i]) IN r.op # "report" /\ ((Pulls(r) /\ ~boot) \/ FailsAssert(r))
    /\ Ends

\* Another thread ends the agent: do_connect of the DNS or the report client
\* calls exit(1), or its do_read crashes (module TCPStream).
exit == ~crashed /\ Ends

\* A route of the DNS service arrives, with hosts or without.
deal_recv_route(m) ==
    /\ ~crashed /\ boot /\ route[m] # "absent"
    /\ \E r \in {"hosts", "absent"} : route' = [route EXCEPT ![m] = r]
    /\ UNCHANGED <<client, bound, boot, crashed, net>>

-----------------------------------------------------------------------------
Api(c) ==
    \/ \E m \in Mod : get_host(c, m) \/ get_route(c, m) \/ reg_init(c, m) \/ report(c, m)
    \/ interrupted(c)

InCall(c) == retry(c) \/ refused(c) \/ recv_host(c) \/ recv_route(c)

UdpServer(i) == serve(i) \/ report_cb(i) \/ Fatal(i)

Next ==
    \/ \E c \in Client : Api(c) \/ InCall(c)
    \/ \E i \in Server : start_UDP_server(i) \/ UdpServer(i) \/ reset_lb_status(i)
    \/ main \/ exit
    \/ \E m \in Mod : deal_recv_route(m)

Spec == Init /\ [][Next]_vars

\* A call goes on when it can, and so do the server threads and main().
LiveSpec ==
    /\ Spec
    /\ \A c \in Client : WF_vars(InCall(c))
    /\ \A i \in Server : WF_vars(start_UDP_server(i)) /\ WF_vars(UdpServer(i))
    /\ WF_vars(main)

-----------------------------------------------------------------------------
\* The type of the state: no sequence number leaves uint32_t, and reg_init asks
\* RegTries times at most.
TypeOK ==
    /\ seqid \in [Client -> Seqid]
    /\ call \in [Client -> Calls \cup {None}]
    /\ sock \in [Client -> [Server -> Seq(Answer)]]
    /\ err \in [Client -> [Server -> BOOLEAN]]
    /\ inq \in [Server -> Seq(Request)]
    /\ bound \in [Server -> BOOLEAN] /\ boot \in BOOLEAN /\ crashed \in BOOLEAN
    /\ route \in [Mod -> {"absent", "pulling", "new", "hosts"}]
    /\ calls \in [Client -> Nat] /\ cuts \in [Client -> [Server -> Nat]]
    /\ lost \subseteq Client \X Nat \X {"full", "large", "agent"}
    /\ result \in [Client -> Result \cup {None}]

\* get_host never takes the answer of another request for its own, however
\* many answers earlier calls left in the socket - except one that is 2^32
\* sequence numbers older.
HostAnswerOwn ==
    \A c \in Client :
        result[c] # None /\ result[c].op = "get_host" /\ result[c].ret # "SYSTEM_ERROR" =>
            \/ result[c].of = result[c].id
            \/ result[c].id - result[c].of >= SeqMod

\* The answers on the way to client c through server i.
Outstanding(c, i) ==
    Len(sock[c][i])
    + Cardinality({j \in DOMAIN inq[i] : inq[i][j].client = c /\ inq[i][j].op # "report"})

Waiting(c, i) == call[c] # None /\ call[c].sent /\ At(c) = i

\* A call may return without its answer only when a signal ended it: what
\* later calls find in the socket is never more than that, so without signals
\* no call, of whatever kind, gets the answer of another.
InStep ==
    \A c \in Client :
        /\ \A i \in Server :
             Outstanding(c, i) <= cuts[c][i] + (IF Waiting(c, i) THEN 1 ELSE 0)
        /\ result[c] # None /\ (\A i \in Server : cuts[c][i] = 0) => result[c].of = result[c].id

\* recvfrom has no timeout.  A call returns nevertheless, with an error if need
\* be and also after the agent has ended, unless one of its own datagrams was
\* lost: dropped at a full socket, an answer too large to be sent, or a request
\* that was in the agent's socket when the agent ended.
CallReturns ==
    \A c \in Client : \A k \in 1 .. MaxCalls :
        (call[c] # None /\ call[c].id = k) ~>
            \/ call[c] = None \/ call[c].id # k
            \/ \E why \in {"full", "large", "agent"} : <<c, k, why>> \in lost

=============================================================================
