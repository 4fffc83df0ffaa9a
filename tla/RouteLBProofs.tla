--------------------------- MODULE RouteLBProofs ---------------------------
(***************************************************************************)
(* Proofs about RouteLB, for every set of mods, every number of RouteLBs   *)
(* and every capacity of the output buffer.                                *)
(***************************************************************************)
EXTENDS RouteLB, SequenceTheorems, TLAPS

\* What a FIFO loses and gains at its two ends.
LEMMA TailRange ==
    ASSUME NEW S, NEW s \in Seq(S), s # <<>>
    PROVE  /\ Head(s) \in S /\ Head(s) \in Range(s) /\ Tail(s) \in Seq(S)
           /\ Range(s) = Range(Tail(s)) \cup {Head(s)}
<1>1. Head(s) \in S /\ Head(s) \in Range(s) /\ Tail(s) \in Seq(S)
    BY DEF Range
<1>2. Range(Tail(s)) \cup {Head(s)} \subseteq Range(s)
    BY DEF Range
<1>3. ASSUME NEW i \in DOMAIN s PROVE s[i] \in Range(Tail(s)) \cup {Head(s)}
  <2>1. CASE i = 1
      BY <2>1
  <2>2. CASE i # 1
    <3>1. i - 1 \in DOMAIN Tail(s) /\ Tail(s)[i - 1] = s[i]
        BY <2>2
    <3> QED
        BY <3>1 DEF Range
  <2> QED
      BY <2>1, <2>2
<1> QED
    BY <1>1, <1>2, <1>3 DEF Range

\* ThreadQueue::send, send_message and the wire add one element.
LEMMA AppendRange ==
    ASSUME NEW S, NEW s \in Seq(S), NEW e \in S
    PROVE  Append(s, e) \in Seq(S) /\ Range(Append(s, e)) = Range(s) \cup {e}
<1>1. Append(s, e) \in Seq(S) /\ Append(s, e) = s \o <<e>> /\ <<e>> \in Seq(S)
    BY AppendIsConcat
<1>2. Range(<<e>>) = {e}
    BY DEF Range
<1>3. Range(s \o <<e>>) = Range(s) \cup Range(<<e>>)
    BY <1>1, RangeConcatenation
<1> QED
    BY <1>1, <1>2, <1>3

\* new_dns_request hands a prefix of the queue to the output buffer.
LEMMA BufferedType ==
    ASSUME TypeOK
    PROVE  /\ Buffered(dns_queue) \in Seq(Mod)
           /\ Len(obuf) + Len(Buffered(dns_queue)) <= ObufCap
           /\ Range(Buffered(dns_queue)) \subseteq Range(dns_queue)
<1> DEFINE n == IF Len(dns_queue) <= Room THEN Len(dns_queue) ELSE Room
<1>1. n \in Nat /\ n <= Len(dns_queue) /\ Len(obuf) + n <= ObufCap
    BY RouteAssumption DEF TypeOK, Room
<1>2. \A i \in 1 .. n : dns_queue[i] \in Mod /\ dns_queue[i] \in Range(dns_queue)
    BY <1>1 DEF TypeOK, Range
<1>3. Buffered(dns_queue) = [i \in 1 .. n |-> dns_queue[i]]
    BY DEF Buffered
<1> HIDE DEF n
<1>4. [i \in 1 .. n |-> dns_queue[i]] \in Seq(Mod) /\ Len([i \in 1 .. n |-> dns_queue[i]]) = n
    BY <1>1, <1>2
<1>5. Range([i \in 1 .. n |-> dns_queue[i]]) \subseteq Range(dns_queue)
    BY <1>2 DEF Range
<1> QED
    BY <1>1, <1>3, <1>4, <1>5

-----------------------------------------------------------------------------
\* The state keeps its type under every action of the UDP threads.
LEMMA UdpTypeOK ==
    ASSUME TypeOK, UdpThreads
    PROVE  TypeOK'
<1>1. ASSUME NEW m \in Mod, NEW obj \in LB, Pull(m, obj)
      PROVE  /\ DOMAIN lb' \subseteq Mod /\ lb' \in [DOMAIN lb' -> LB]
             /\ dns_queue' \in Seq(Mod)
  <2>1. [obj EXCEPT !.status = "PULLING"] \in LB
      BY DEF LB
  <2>2. lb' = [n \in DOMAIN lb \cup {m} |->
                 IF n = m THEN [obj EXCEPT !.status = "PULLING"] ELSE lb[n]]
      BY <1>1 DEF Pull, With
  <2>3. dns_queue' \in Seq(Mod)
      BY <1>1 DEF Pull, TypeOK
  <2> QED
      BY <2>1, <2>2, <2>3 DEF TypeOK
<1>2. PICK m \in Mod : get_host(m) \/ get_route(m) \/ Expire(m)
    BY DEF UdpThreads
<1>3. CASE get_host(m) \/ get_route(m)
  <2>1. UNCHANGED <<obuf, conn, reset, refused, to_dns, to_agent, booked>>
      BY <1>3 DEF get_host, get_route, wire
  <2>2. CASE Create(m)
    <3>1. Created \in LB
        BY DEF Created, LB
    <3> QED
        BY <1>1, <2>1, <2>2, <3>1 DEF Create, TypeOK
  <2>3. CASE m \in DOMAIN lb /\ Repull(m)
    <3>1. lb[m] \in LB
        BY <2>3 DEF TypeOK
    <3> QED
        BY <1>1, <2>1, <2>3, <3>1 DEF Repull, TypeOK
  <2>4. CASE AssertFails(m)
      BY <2>1, <2>4 DEF AssertFails, TypeOK
  <2> QED
      BY <1>3, <2>2, <2>3, <2>4 DEF get_host, get_route
<1>4. CASE Expire(m)
  <2>1. [lb[m] EXCEPT !.fresh = FALSE] \in LB
      BY <1>4 DEF Expire, TypeOK, LB
  <2> QED
      BY <1>4, <2>1 DEF Expire, TypeOK, wire
<1> QED
    BY <1>2, <1>3, <1>4

\* The state keeps its type under every callback of the dns client thread.
LEMMA DnsClientTypeOK ==
    ASSUME TypeOK, DnsClient
    PROVE  TypeOK'
<1>1. CASE new_dns_request
  <2>1. CASE conn = "up"
    <3>1. /\ obuf' = obuf \o Buffered(dns_queue)
          /\ refused' = refused \cup (Range(dns_queue) \ Range(Buffered(dns_queue)))
          /\ dns_queue' = <<>> /\ UNCHANGED <<lb, conn, reset, aborted, to_dns, to_agent, booked>>
        BY <1>1, <2>1 DEF new_dns_request, wire
    <3>2. obuf' \in Seq(Mod) /\ Len(obuf') <= ObufCap
        BY <3>1, BufferedType, RouteAssumption DEF TypeOK
    <3>3. refused' \in SUBSET Mod
        BY <3>1, RangeOfSeq DEF TypeOK
    <3> QED
        BY <3>1, <3>2, <3>3 DEF TypeOK
  <2>2. CASE conn # "up"
      BY <1>1, <2>2 DEF new_dns_request, wire, TypeOK
  <2> QED
      BY <2>1, <2>2
<1>2. CASE do_write
  <2>1. to_dns' \in Seq(Mod) /\ obuf' \in Seq(Mod) /\ Len(obuf') <= ObufCap
      BY <1>2, RouteAssumption DEF do_write, TypeOK
  <2> QED
      BY <1>2, <2>1 DEF do_write, TypeOK
<1>3. CASE deal_recv_route
  <2>1. to_agent' \in Seq(Mod \X BOOLEAN)
      BY <1>3 DEF deal_recv_route, update_host, TypeOK
  <2>2. Updated \in LB
      BY DEF Updated, LB
  <2>3. DOMAIN lb' \subseteq Mod /\ lb' \in [DOMAIN lb' -> LB]
      BY <1>3, <2>2 DEF deal_recv_route, update_host, TypeOK, Restrict
  <2> QED
      BY <1>3, <2>1, <2>3 DEF deal_recv_route, TypeOK
<1>4. CASE clean_conn
    BY <1>4, RouteAssumption DEF clean_conn, TypeOK
<1>5. CASE connected
    BY <1>5, RouteAssumption DEF connected, TypeOK, wire
<1>6. CASE connect_failed
    BY <1>6 DEF connect_failed, TypeOK, wire
<1>7. CASE reset_lb_status
  <2>1. \A m \in DOMAIN lb : [lb[m] EXCEPT !.status = "NEW"] \in LB
      BY DEF TypeOK, LB
  <2>2. DOMAIN lb' \subseteq Mod /\ lb' \in [DOMAIN lb' -> LB]
      BY <1>7, <2>1 DEF reset_lb_status, TypeOK
  <2>3. reset' \in 0 .. NumLB
      BY <1>7, RouteAssumption DEF reset_lb_status, TypeOK
  <2> QED
      BY <1>7, <2>2, <2>3 DEF reset_lb_status, TypeOK, wire
<1> QED
    BY <1>1, <1>2, <1>3, <1>4, <1>5, <1>6, <1>7 DEF DnsClient

\* The state keeps its type under every action.
LEMMA NextTypeOK == TypeOK /\ [Next]_vars => TypeOK'
<1> SUFFICES ASSUME TypeOK, [Next]_vars PROVE TypeOK'
    OBVIOUS
<1>1. CASE DnsAnswer
    BY <1>1 DEF DnsAnswer, TypeOK
<1>2. CASE DnsPush
    BY <1>2 DEF DnsPush, TypeOK
<1>3. CASE UNCHANGED vars
    BY <1>3 DEF vars, TypeOK
<1> QED
    BY <1>1, <1>2, <1>3, UdpTypeOK, DnsClientTypeOK DEF Next

-----------------------------------------------------------------------------
(* Pulls.                                                                  *)

\* A pull that is accounted for stays so if nothing it may rest on is taken
\* away and its object does not start to pull.
LEMMA FramePull ==
    ASSUME PullAccounted,
           \A m \in Mod : Pulling(m)' => Pulling(m),
           \A m \in Mod : InFlight(m) => InFlight(m)',
           UNCHANGED <<conn, reset>>, refused \subseteq refused'
    PROVE  PullAccounted'
BY DEF PullAccounted

\* get_host and get_route put the request of what they pull in dns_queue.
LEMMA UdpPull ==
    ASSUME TypeOK, PullAccounted, UdpThreads
    PROVE  PullAccounted'
<1>1. ASSUME NEW m \in Mod, NEW obj \in LB, Pull(m, obj),
             UNCHANGED <<obuf, conn, reset, refused, to_dns, to_agent>>
      PROVE  PullAccounted'
  <2>1. Range(dns_queue') = Range(dns_queue) \cup {m}
      BY <1>1, AppendRange DEF Pull, TypeOK
  <2>2. \A n \in Mod : InFlight(n) => InFlight(n)'
      BY <1>1, <2>1 DEF InFlight
  <2>3. InFlight(m)'
      BY <2>1 DEF InFlight
  <2>4. \A n \in Mod \ {m} : Pulling(n)' => Pulling(n)
      BY <1>1 DEF Pull, With, Pulling
  <2> QED
      BY <1>1, <2>2, <2>3, <2>4 DEF PullAccounted
<1>2. PICK m \in Mod : get_host(m) \/ get_route(m) \/ Expire(m)
    BY DEF UdpThreads
<1>3. CASE get_host(m) \/ get_route(m)
  <2>1. UNCHANGED <<obuf, conn, reset, refused, to_dns, to_agent>>
      BY <1>3 DEF get_host, get_route, wire
  <2>2. CASE Create(m)
    <3>1. Created \in LB
        BY DEF Created, LB
    <3> QED
        BY <1>1, <2>1, <2>2, <3>1 DEF Create
  <2>3. CASE m \in DOMAIN lb /\ Repull(m)
    <3>1. lb[m] \in LB
        BY <2>3 DEF TypeOK
    <3> QED
        BY <1>1, <2>1, <2>3, <3>1 DEF Repull
  <2>4. CASE AssertFails(m)
      BY <2>1, <2>4, FramePull DEF AssertFails, Pulling, InFlight
  <2> QED
      BY <1>3, <2>2, <2>3, <2>4 DEF get_host, get_route
<1>4. CASE Expire(m)
  <2>1. \A n \in DOMAIN lb : lb'[n].status = lb[n].status
      BY <1>4 DEF Expire, TypeOK, LB
  <2>2. DOMAIN lb' = DOMAIN lb
      BY <1>4 DEF Expire, TypeOK
  <2> QED
      BY <1>4, <2>1, <2>2, FramePull DEF Expire, Pulling, InFlight, wire
<1> QED
    BY <1>2, <1>3, <1>4

\* new_dns_request moves requests to the output buffer; those it does not
\* move are refused, or there is no connection.
LEMMA NewRequestPull ==
    ASSUME TypeOK, PullAccounted, new_dns_request
    PROVE  PullAccounted'
<1>1. CASE conn # "up"
    BY <1>1 DEF new_dns_request, PullAccounted
<1>2. CASE conn = "up"
  <2>1. /\ obuf' = obuf \o Buffered(dns_queue)
        /\ refused' = refused \cup (Range(dns_queue) \ Range(Buffered(dns_queue)))
        /\ UNCHANGED <<lb, conn, reset, to_dns, to_agent>>
      BY <1>2 DEF new_dns_request, wire
  <2>2. Range(obuf') = Range(obuf) \cup Range(Buffered(dns_queue))
      BY <2>1, BufferedType, RangeConcatenation DEF TypeOK
  <2>3. \A m \in Mod : InFlight(m) => InFlight(m)' \/ m \in refused'
      BY <2>1, <2>2 DEF InFlight
  <2> QED
      BY <2>1, <2>3 DEF PullAccounted, Pulling
<1> QED
    BY <1>1, <1>2

\* A route ends the pull of its mod and of no other.
LEMMA RecvRoutePull ==
    ASSUME TypeOK, PullAccounted, deal_recv_route
    PROVE  PullAccounted'
<1>0. PICK k : k = Head(to_agent)[1]
    OBVIOUS
<1>1. /\ to_agent # <<>> /\ to_agent' = Tail(to_agent)
      /\ UNCHANGED <<dns_queue, obuf, conn, reset, to_dns, refused>>
    BY DEF deal_recv_route, update_host
<1>2. Range(to_agent) = Range(to_agent') \cup {Head(to_agent)}
    BY <1>1, TailRange DEF TypeOK
<1>3. ~Pulling(k)' /\ \A m \in Mod : Pulling(m)' => Pulling(m)
  <2>1. CASE k \notin DOMAIN lb /\ lb' = lb
      BY <2>1 DEF Pulling
  <2>2. CASE k \in DOMAIN lb /\ lb' = [lb EXCEPT ![k] = Updated]
      BY <2>2 DEF Pulling, Updated, TypeOK
  <2>3. CASE lb' = Restrict(lb, DOMAIN lb \ {k})
      BY <2>3 DEF Pulling, Restrict
  <2> QED
      BY <1>0, <2>1, <2>2, <2>3 DEF deal_recv_route, update_host
<1>4. \A m \in Mod : InFlight(m) => InFlight(m)' \/ m = k
    BY <1>0, <1>1, <1>2 DEF InFlight
<1> QED
    BY <1>1, <1>3, <1>4 DEF PullAccounted

\* conn_init ends the pulls of the RouteLB it resets.
LEMMA ResetPull ==
    ASSUME TypeOK, PullAccounted, reset_lb_status
    PROVE  PullAccounted'
<1>1. /\ DOMAIN lb' = DOMAIN lb
      /\ \A m \in DOMAIN lb : lb'[m] = IF Home[m] = reset
                                       THEN [lb[m] EXCEPT !.status = "NEW"] ELSE lb[m]
      /\ reset' = reset + 1
      /\ UNCHANGED <<dns_queue, obuf, conn, to_dns, to_agent, refused>>
    BY DEF reset_lb_status, wire
<1>2. \A m \in Mod : Pulling(m)' => Pulling(m) /\ Home[m] # reset
    BY <1>1 DEF Pulling, TypeOK, LB
<1>3. \A m \in Mod : InFlight(m) => InFlight(m)'
    BY <1>1 DEF InFlight
<1>4. \A m \in Mod : Home[m] \in Int /\ reset \in Int
    BY RouteAssumption DEF TypeOK
<1> QED
    BY <1>1, <1>2, <1>3, <1>4 DEF PullAccounted

\* Every callback of the dns client thread accounts for the pulls.
LEMMA DnsClientPull ==
    ASSUME TypeOK, PullAccounted, DnsClient
    PROVE  PullAccounted'
<1>1. CASE do_write
  <2>1. /\ obuf # <<>> /\ obuf' = Tail(obuf) /\ to_dns' = Append(to_dns, Head(obuf))
        /\ UNCHANGED <<lb, dns_queue, conn, reset, to_agent, refused>>
      BY <1>1 DEF do_write
  <2>2. Range(obuf) = Range(obuf') \cup {Head(obuf)} /\ Head(obuf) \in Mod
      BY <2>1, TailRange DEF TypeOK
  <2>3. Range(to_dns') = Range(to_dns) \cup {Head(obuf)}
      BY <2>1, <2>2, AppendRange DEF TypeOK
  <2>4. \A m \in Mod : InFlight(m) => InFlight(m)'
      BY <2>1, <2>2, <2>3 DEF InFlight
  <2> QED
      BY <2>1, <2>4, FramePull DEF Pulling
<1>2. CASE clean_conn
  <2>1. \A m \in Mod : Home[m] >= 0
      BY RouteAssumption
  <2> QED
      BY <1>2, <2>1 DEF clean_conn, PullAccounted
<1>3. CASE connected
  <2>1. \A m \in Mod : Home[m] >= 0
      BY RouteAssumption
  <2> QED
      BY <1>3, <2>1 DEF connected, PullAccounted
<1>4. CASE connect_failed
    BY <1>4 DEF connect_failed, PullAccounted
<1> QED
    BY <1>1, <1>2, <1>3, <1>4, NewRequestPull, RecvRoutePull, ResetPull DEF DnsClient

\* The service keeps what it owes: an answer replaces its request.
LEMMA DnsPull ==
    ASSUME TypeOK, PullAccounted, DnsAnswer \/ DnsPush
    PROVE  PullAccounted'
<1>1. CASE DnsAnswer
  <2>1. PICK hosts \in BOOLEAN : to_agent' = Append(to_agent, <<Head(to_dns), hosts>>)
      BY <1>1 DEF DnsAnswer
  <2>2. /\ to_dns # <<>> /\ to_dns' = Tail(to_dns)
        /\ UNCHANGED <<lb, dns_queue, obuf, conn, reset, refused>>
      BY <1>1 DEF DnsAnswer
  <2>3. Range(to_dns) = Range(to_dns') \cup {Head(to_dns)} /\ Head(to_dns) \in Mod
      BY <2>2, TailRange DEF TypeOK
  <2>4. Range(to_agent') = Range(to_agent) \cup {<<Head(to_dns), hosts>>}
    <3>1. <<Head(to_dns), hosts>> \in Mod \X BOOLEAN
        BY <2>3
    <3>2. \A e \in Mod \X BOOLEAN : Range(Append(to_agent, e)) = Range(to_agent) \cup {e}
        BY AppendRange DEF TypeOK
    <3> QED
        BY <2>1, <3>1, <3>2, Zenon
  <2>5. \A m \in Mod : InFlight(m) => InFlight(m)'
      BY <2>2, <2>3, <2>4 DEF InFlight
  <2> QED
      BY <2>2, <2>5, FramePull DEF Pulling
<1>2. CASE DnsPush
  <2>1. PICK k \in booked, hosts \in BOOLEAN : to_agent' = Append(to_agent, <<k, hosts>>)
      BY <1>2 DEF DnsPush
  <2>2. UNCHANGED <<lb, dns_queue, obuf, conn, reset, to_dns, refused>>
      BY <1>2 DEF DnsPush
  <2>3. Range(to_agent') = Range(to_agent) \cup {<<k, hosts>>}
    <3>1. <<k, hosts>> \in Mod \X BOOLEAN
        BY DEF TypeOK
    <3> QED
        BY <2>1, <3>1, AppendRange DEF TypeOK
  <2>4. \A m \in Mod : InFlight(m) => InFlight(m)'
      BY <2>2, <2>3 DEF InFlight
  <2> QED
      BY <2>2, <2>4, FramePull DEF Pulling
<1> QED
    BY <1>1, <1>2

\* No pull is lost by the agent, whatever the connection does and however the
\* UDP threads and conn_init interleave, except to a full output buffer: for
\* every set of mods, every assignment to RouteLBs and every capacity.
THEOREM PullsSafe == Spec => [](TypeOK /\ PullAccounted)
<1>1. Init => TypeOK /\ PullAccounted
  <2> SUFFICES ASSUME Init PROVE TypeOK /\ PullAccounted
      OBVIOUS
  <2>1. DOMAIN lb = {} /\ lb \in [DOMAIN lb -> LB]
      BY DEF Init
  <2>2. dns_queue \in Seq(Mod) /\ obuf \in Seq(Mod) /\ Len(obuf) <= ObufCap
      BY RouteAssumption DEF Init
  <2>3. to_dns \in Seq(Mod) /\ to_agent \in Seq(Mod \X BOOLEAN)
      BY DEF Init
  <2>4. /\ conn \in {"up", "connecting", "failed"} /\ reset \in 0 .. NumLB
        /\ booked \in SUBSET Mod /\ refused \in SUBSET Mod /\ aborted \in BOOLEAN
    <3>1. NumLB \in 0 .. NumLB
        BY RouteAssumption
    <3> QED
        BY <3>1 DEF Init
  <2>5. PullAccounted
      BY <2>1 DEF PullAccounted, Pulling
  <2> QED
      BY <2>1, <2>2, <2>3, <2>4, <2>5 DEF TypeOK
<1>2. TypeOK /\ PullAccounted /\ [Next]_vars => PullAccounted'
  <2> SUFFICES ASSUME TypeOK, PullAccounted, [Next]_vars PROVE PullAccounted'
      OBVIOUS
  <2>1. CASE UNCHANGED vars
      BY <2>1, FramePull DEF vars, Pulling, InFlight
  <2> QED
      BY <2>1, UdpPull, DnsClientPull, DnsPull DEF Next
<1> QED
    BY <1>1, <1>2, NextTypeOK, PTL DEF Spec

=============================================================================
