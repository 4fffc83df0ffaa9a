--------------------------- MODULE ApiAgentProofs ---------------------------
(***************************************************************************)
(* Proofs about ApiAgent, for any number of clients, mods, servers, calls  *)
(* and signals, and any width of the sequence number: what get_host takes  *)
(* for its answer (AnswersSafe), and what a call can find in its socket    *)
(* (StepsSafe).                                                            *)
(***************************************************************************)
EXTENDS ApiAgent, FiniteSetTheorems, FunctionTheorems, TLAPS

\* How many steps sequence number b is ahead of a: 1 to SeqMod.
Ahead(a, b) == IF a < b THEN b - a ELSE b - a + SeqMod

\* A get_host of client c with sequence number s, its call number id: its
\* number is no further behind than its call, from the next call and from the
\* one that is waiting.
Near(c, s, id) ==
    /\ s \in Seqid /\ id \in Nat /\ id <= calls[c]
    /\ Ahead(s, seqid[c]) <= calls[c] - id + 1
    /\ call[c] # None /\ call[c].op = "get_host" =>
         id = call[c].id \/ Ahead(s, call[c].seq) <= call[c].id - id

Types ==
    /\ seqid \in [Client -> Seqid] /\ calls \in [Client -> Nat]
    /\ DOMAIN call = Client /\ DOMAIN result = Client
    /\ inq \in [Server -> Seq(Request)] /\ sock \in [Client -> [Server -> Seq(Answer)]]
    /\ \A c \in Client : call[c] # None =>
         /\ call[c] \in Calls /\ call[c].seq \in Seqid
         /\ call[c].op = "get_host" => call[c].sent

AskedAt(i, j) ==
    inq[i][j].op = "get_host" => Near(inq[i][j].client, inq[i][j].seq, inq[i][j].id)

AnsweredAt(c, i, j) ==
    sock[c][i][j].op = "get_host" => Near(c, sock[c][i][j].seq, sock[c][i][j].of)

\* All get_hosts on the way, as requests and as answers.
InFlight ==
    \A i \in Server :
      /\ \A j \in 1 .. Len(inq[i]) : AskedAt(i, j)
      /\ \A c \in Client : \A j \in 1 .. Len(sock[c][i]) : AnsweredAt(c, i, j)

Own(c) ==
    result[c] # None /\ result[c].op = "get_host" /\ result[c].ret # "SYSTEM_ERROR" =>
        result[c].of = result[c].id \/ result[c].id - result[c].of >= SeqMod

Inv == Types /\ InFlight /\ \A c \in Client : Own(c)

\* The next sequence number.
LEMMA NextNumber ==
    ASSUME NEW a \in Seqid
    PROVE  (a + 1) % SeqMod = (IF a + 1 = SeqMod THEN 0 ELSE a + 1) /\ (a + 1) % SeqMod \in Seqid
<1>1. CASE a + 1 = SeqMod
    BY <1>1, ApiAssumption, SMTT(30) DEF Seqid
<1>2. CASE a + 1 # SeqMod
    BY <1>2, ApiAssumption, SMTT(30) DEF Seqid
<1> QED
    BY <1>1, <1>2

\* One step forward brings it at most one step further ahead.
LEMMA AheadStep ==
    ASSUME NEW s \in Seqid, NEW a \in Seqid
    PROVE  /\ Ahead(s, a) \in 1 .. SeqMod /\ Ahead(s, (a + 1) % SeqMod) <= Ahead(s, a) + 1
           /\ Ahead(a, (a + 1) % SeqMod) = 1 /\ Ahead(s, s) = SeqMod
BY NextNumber, ApiAssumption DEF Ahead, Seqid

\* Calls that client c does not make leave it as near.
LEMMA NearSame ==
    ASSUME NEW c, NEW s, NEW id, Near(c, s, id), seqid'[c] = seqid[c], calls'[c] = calls[c],
           \/ call'[c] = call[c]
           \/ call'[c] = None
           \/ call'[c].op # "get_host"
    PROVE  Near(c, s, id)'
BY DEF Near

\* A call that is no get_host, or a report.
LEMMA NearCall ==
    ASSUME Types, NEW c \in Client, NEW s, NEW id, Near(c, s, id), seqid'[c] = seqid[c],
           calls'[c] = calls[c] + 1, call[c] = None,
           call'[c] = None \/ call'[c].op # "get_host"
    PROVE  Near(c, s, id)'
<1>1. /\ seqid[c] \in Seqid /\ calls[c] \in Nat
      /\ s \in Seqid /\ id \in Nat /\ id <= calls[c]
      /\ Ahead(s, seqid[c]) <= calls[c] - id + 1
    BY DEF Near, Types
<1>2. Ahead(s, seqid[c]) \in 1 .. SeqMod
    BY <1>1, AheadStep
<1>3. SeqMod \in Nat
    BY ApiAssumption
<1> QED
    BY <1>1, <1>2, <1>3 DEF Near

\* A get_host: the next call, with the next number.
LEMMA NearHost ==
    ASSUME Types, NEW c \in Client, NEW s, NEW id, Near(c, s, id),
           seqid'[c] = (seqid[c] + 1) % SeqMod, calls'[c] = calls[c] + 1, call[c] = None,
           call'[c] = None \/ (call'[c].id = calls[c] + 1 /\ call'[c].seq = seqid[c])
    PROVE  Near(c, s, id)'
<1>1. /\ seqid[c] \in Seqid /\ calls[c] \in Nat /\ SeqMod \in Nat
      /\ s \in Seqid /\ id \in Nat /\ id <= calls[c]
      /\ Ahead(s, seqid[c]) <= calls[c] - id + 1
    BY ApiAssumption DEF Near, Types
<1>2. Ahead(s, seqid[c]) \in 1 .. SeqMod /\ Ahead(s, (seqid[c] + 1) % SeqMod) <= Ahead(s, seqid[c]) + 1
    BY <1>1, AheadStep
<1>3. Ahead(s, (seqid[c] + 1) % SeqMod) \in 1 .. SeqMod
    BY <1>1, NextNumber, AheadStep
<1> DEFINE a == Ahead(s, seqid[c])
           b == Ahead(s, (seqid[c] + 1) % SeqMod)
<1>4. a \in Nat /\ b \in Nat /\ b <= a + 1 /\ a <= calls[c] - id + 1
    BY <1>1, <1>2, <1>3
<1> HIDE DEF a, b
<1>5. b <= (calls[c] + 1) - id + 1 /\ a <= (calls[c] + 1) - id /\ id <= calls[c] + 1
    BY <1>1, <1>4
<1> QED
    BY <1>1, <1>5 DEF Near, a, b

\* The request of a new get_host.
LEMMA NearNew ==
    ASSUME Types, NEW c \in Client, NEW s, NEW id, s = seqid[c], id = calls[c] + 1,
           seqid'[c] = (seqid[c] + 1) % SeqMod, calls'[c] = id,
           call'[c].id = id
    PROVE  Near(c, s, id)'
<1>1. seqid[c] \in Seqid /\ calls[c] \in Nat
    BY DEF Types
<1>2. Ahead(s, seqid'[c]) = 1
    BY <1>1, AheadStep
<1> QED
    BY <1>1, <1>2 DEF Near

\* Datagrams that stay, or move up in their queue.
LEMMA Carried ==
    ASSUME Inv, Types',
           \A c \in Client : \A s, id : Near(c, s, id) => Near(c, s, id)',
           \A i \in Server : \A j \in 1 .. Len(inq'[i]) :
               \/ \E l \in 1 .. Len(inq[i]) : inq'[i][j] = inq[i][l]
               \/ AskedAt(i, j)',
           \A c \in Client : \A i \in Server : \A j \in 1 .. Len(sock'[c][i]) :
               \/ \E l \in 1 .. Len(sock[c][i]) : sock'[c][i][j] = sock[c][i][l]
               \/ AnsweredAt(c, i, j)'
    PROVE  InFlight'
<1>1. ASSUME NEW i \in Server, NEW j \in 1 .. Len(inq'[i]),
             NEW l \in 1 .. Len(inq[i]), inq'[i][j] = inq[i][l]
      PROVE  AskedAt(i, j)'
  <2>1. AskedAt(i, l)
      BY DEF Inv, InFlight
  <2>2. inq[i][l].client \in Client
    <3>1. inq[i] \in Seq(Request)
        BY DEF Inv, Types
    <3>2. inq[i][l] \in Request
        BY <3>1
    <3> QED
        BY <3>2 DEF Request
  <2> QED
      BY <1>1, <2>1, <2>2 DEF AskedAt
<1>2. ASSUME NEW c \in Client, NEW i \in Server, NEW j \in 1 .. Len(sock'[c][i]),
             NEW l \in 1 .. Len(sock[c][i]), sock'[c][i][j] = sock[c][i][l]
      PROVE  AnsweredAt(c, i, j)'
  <2>1. AnsweredAt(c, i, l)
      BY DEF Inv, InFlight
  <2> QED
      BY <1>2, <2>1 DEF AnsweredAt
<1> QED
    BY <1>1, <1>2 DEF InFlight

\* Sendto: the request is the new one, if it is taken at all.
LEMMA SendtoStep ==
    ASSUME Types, NEW c \in Client, NEW i \in Server, NEW r \in Request, Sendto(c, i, r)
    PROVE  /\ inq' \in [Server -> Seq(Request)]
           /\ \A k \in Server : \A j \in 1 .. Len(inq'[k]) :
               \/ \E l \in 1 .. Len(inq[k]) : inq'[k][j] = inq[k][l]
               \/ inq'[k][j] = r
<1>1. CASE inq' = inq
    BY <1>1 DEF Types
<1>2. CASE inq' = [inq EXCEPT ![i] = Append(@, r)]
  <2>1. inq' \in [Server -> Seq(Request)]
      BY <1>2 DEF Types
  <2>2. ASSUME NEW k \in Server, NEW j \in 1 .. Len(inq'[k])
        PROVE  (\E l \in 1 .. Len(inq[k]) : inq'[k][j] = inq[k][l]) \/ inq'[k][j] = r
    <3>1. inq[k] \in Seq(Request) /\ inq'[k] = IF k = i THEN Append(inq[k], r) ELSE inq[k]
        BY <1>2 DEF Types
    <3> QED
        BY <3>1
  <2> QED
      BY <2>1, <2>2
<1> QED
    BY <1>1, <1>2 DEF Sendto

-----------------------------------------------------------------------------
(* The actions.                                                             *)

\* A call with a try left has one try more, and no more than RegTries.
LEMMA MoreTries ==
    ASSUME NEW k \in Calls, k.tries < RegTries
    PROVE  k.tries + 1 \in 1 .. RegTries
<1>1. k.tries \in 1 .. RegTries /\ RegTries \in Nat
    BY ApiAssumption DEF Calls
<1> QED
    BY <1>1

\* What Return leaves: reg_init may go on, nothing else does.
LEMMA ReturnStep ==
    ASSUME Inv, NEW c \in Client, NEW k \in Calls, k.seq \in Seqid, NEW ret, NEW of,
           Return(c, k, ret, of),
           k.op = "get_host" => ret = "SYSTEM_ERROR" \/ of = k.id \/ k.id - of >= SeqMod
    PROVE  /\ DOMAIN call' = Client /\ DOMAIN result' = Client
           /\ \A d \in Client : /\ d # c => call'[d] = call[d]
                                /\ \/ call'[d] = call[d] \/ call'[d] = None
                                   \/ call'[d].op # "get_host"
           /\ call'[c] # None => /\ call'[c] \in Calls /\ call'[c].seq \in Seqid
                                 /\ call'[c].op # "get_host"
           /\ \A d \in Client : Own(d)'
<1>1. DOMAIN call = Client /\ DOMAIN result = Client /\ \A d \in Client : Own(d)
    BY DEF Inv, Types
<1>2. CASE k.op = "reg_init" /\ ret # "SUCC" /\ k.tries < RegTries
  <2> DEFINE n == [k EXCEPT !.tries = @ + 1, !.sent = FALSE]
  <2>1. call' = [call EXCEPT ![c] = n] /\ result' = result
      BY <1>2 DEF Return
  <2>2. n \in Calls /\ n.seq = k.seq /\ n.op = "reg_init"
    <3>1. k.tries + 1 \in 1 .. RegTries
        BY <1>2, MoreTries
    <3>2. n \in Calls
        BY <3>1 DEF Calls
    <3> QED
        BY <1>2, <3>2 DEF Calls
  <2> HIDE DEF n
  <2> QED
      BY <1>1, <2>1, <2>2 DEF Own
<1>3. CASE ~(k.op = "reg_init" /\ ret # "SUCC" /\ k.tries < RegTries)
  <2> DEFINE v == [op |-> k.op, id |-> k.id, of |-> of,
                   ret |-> IF k.op = "reg_init" /\ ret # "SUCC" THEN "NOEXIST" ELSE ret]
  <2>1. call' = [call EXCEPT ![c] = None] /\ result' = [result EXCEPT ![c] = v]
      BY <1>3 DEF Return
  <2>2. /\ v.op = k.op /\ v.id = k.id /\ v.of = of
        /\ k.op = "get_host" => v.ret = ret
      OBVIOUS
  <2> HIDE DEF v
  <2>3. \A d \in Client : Own(d)'
    <3>1. ASSUME NEW d \in Client, d # c PROVE Own(d)'
      <4>1. result'[d] = result[d]
          BY <1>1, <2>1, <3>1
      <4> QED
          BY <1>1, <4>1 DEF Own
    <3>2. Own(c)'
      <4>1. result'[c] = v
          BY <1>1, <2>1
      <4> QED
          BY <2>2, <4>1 DEF Own
    <3> QED
        BY <3>1, <3>2
  <2> QED
      BY <1>1, <2>1, <2>3
<1> QED
    BY <1>2, <1>3

\* Steps of the agent, and receptions: no call begins.
LEMMA QuietStep ==
    ASSUME Inv, UNCHANGED <<seqid, calls>>,
           DOMAIN call' = Client, DOMAIN result' = Client,
           \A d \in Client : \/ call'[d] = call[d] \/ call'[d] = None
                            \/ /\ call'[d] \in Calls /\ call'[d].seq \in Seqid
                               /\ call'[d].op # "get_host",
           \A d \in Client : Own(d)',
           inq' \in [Server -> Seq(Request)], sock' \in [Client -> [Server -> Seq(Answer)]],
           \A i \in Server : \A j \in 1 .. Len(inq'[i]) :
               \/ \E l \in 1 .. Len(inq[i]) : inq'[i][j] = inq[i][l]
               \/ inq'[i][j].op # "get_host",
           \A c \in Client : \A i \in Server : \A j \in 1 .. Len(sock'[c][i]) :
               \/ \E l \in 1 .. Len(sock[c][i]) : sock'[c][i][j] = sock[c][i][l]
               \/ AnsweredAt(c, i, j)'
    PROVE  Inv'
<1>1. Types'
    BY DEF Inv, Types
<1>2. \A c \in Client : \A s, id : Near(c, s, id) => Near(c, s, id)'
    BY NearSame
<1>3. \A i \in Server : \A j \in 1 .. Len(inq'[i]) :
               \/ \E l \in 1 .. Len(inq[i]) : inq'[i][j] = inq[i][l]
               \/ AskedAt(i, j)'
    BY DEF AskedAt
<1>4. InFlight'
    BY <1>1, <1>2, <1>3, Carried
<1> QED
    BY <1>1, <1>4 DEF Inv

\* The head of a queue leaves it.
LEMMA TailFacts ==
    ASSUME NEW S, NEW q \in Seq(S), q # <<>>
    PROVE  /\ Tail(q) \in Seq(S) /\ Head(q) \in S /\ Head(q) = q[1] /\ 1 \in 1 .. Len(q)
           /\ \A j \in 1 .. Len(Tail(q)) : \E l \in 1 .. Len(q) : Tail(q)[j] = q[l]
<1>1. Tail(q) \in Seq(S) /\ Head(q) \in S /\ Head(q) = q[1] /\ 1 \in 1 .. Len(q)
    OBVIOUS
<1>2. ASSUME NEW j \in 1 .. Len(Tail(q)) PROVE \E l \in 1 .. Len(q) : Tail(q)[j] = q[l]
  <2>1. j + 1 \in 1 .. Len(q) /\ Tail(q)[j] = q[j + 1]
      OBVIOUS
  <2> QED
      BY <2>1
<1> QED
    BY <1>1, <1>2

\* The ends of a call: an error, a signal, or an answer that get_host compares
\* with its request.
LEMMA EndSteps ==
    ASSUME Inv, NEW c \in Client, refused(c) \/ interrupted(c) \/ recv_host(c) \/ recv_route(c)
    PROVE  Inv'
<1> DEFINE k == call[c]
           i == Index[k.mod]
           a == sock[c][i][1]
<1>1. k # None /\ k \in Calls /\ k.seq \in Seqid /\ i \in Server /\ k.id \in Nat
  <2>1. k # None
      BY DEF refused, interrupted, recv_host, recv_route, Recvfrom
  <2>2. k \in Calls /\ k.seq \in Seqid
      BY <2>1 DEF Inv, Types
  <2>3. k.mod \in Mod /\ k.id \in Nat
      BY <2>2 DEF Calls
  <2> QED
      BY <2>1, <2>2, <2>3, ApiAssumption DEF Server
<1>2. inq' = inq /\ UNCHANGED <<seqid, calls>>
    BY DEF refused, interrupted, recv_host, recv_route, Recvfrom, net
<1>3. /\ sock' \in [Client -> [Server -> Seq(Answer)]]
      /\ \A d \in Client : \A h \in Server : \A j \in 1 .. Len(sock'[d][h]) :
           \E l \in 1 .. Len(sock[d][h]) : sock'[d][h][j] = sock[d][h][l]
  <2>1. CASE sock' = sock
      BY <2>1 DEF Inv, Types
  <2>2. CASE sock[c][i] # <<>> /\ sock' = [sock EXCEPT ![c][i] = Tail(@)]
    <3>1. sock[c][i] \in Seq(Answer)
        BY <1>1 DEF Inv, Types
    <3>2. /\ Tail(sock[c][i]) \in Seq(Answer)
          /\ \A j \in 1 .. Len(Tail(sock[c][i])) :
               \E l \in 1 .. Len(sock[c][i]) : Tail(sock[c][i])[j] = sock[c][i][l]
        BY <2>2, <3>1, TailFacts
    <3>3. sock' \in [Client -> [Server -> Seq(Answer)]]
        BY <1>1, <2>2, <3>2 DEF Inv, Types
    <3>4. ASSUME NEW d \in Client, NEW h \in Server, NEW j \in 1 .. Len(sock'[d][h])
          PROVE  \E l \in 1 .. Len(sock[d][h]) : sock'[d][h][j] = sock[d][h][l]
      <4>1. sock'[d][h] = IF d = c /\ h = i THEN Tail(sock[c][i]) ELSE sock[d][h]
          BY <1>1, <2>2 DEF Inv, Types
      <4> QED
          BY <3>2, <4>1
    <3> QED
        BY <3>3, <3>4
  <2> QED
      BY <2>1, <2>2 DEF refused, interrupted, recv_host, recv_route, Recvfrom, At, net
<1>4. ASSUME NEW ret, NEW of, Return(c, k, ret, of),
             k.op = "get_host" => ret = "SYSTEM_ERROR" \/ of = k.id \/ k.id - of >= SeqMod
      PROVE  Inv'
  <2> HIDE DEF i
  <2>1. /\ DOMAIN call' = Client /\ DOMAIN result' = Client /\ \A d \in Client : Own(d)'
        /\ \A d \in Client : \/ call'[d] = call[d] \/ call'[d] = None
                            \/ /\ call'[d] \in Calls /\ call'[d].seq \in Seqid
                               /\ call'[d].op # "get_host"
      BY <1>1, <1>4, ReturnStep
  <2>2. inq' \in [Server -> Seq(Request)]
      BY <1>2 DEF Inv, Types
  <2> QED
      BY <1>2, <1>3, <2>1, <2>2, QuietStep
<1>5. CASE UNCHANGED <<call, result>>
  <2> HIDE DEF i
  <2>1. \A d \in Client : Own(d)'
      BY <1>5 DEF Inv, Own
  <2>2. DOMAIN call' = Client /\ DOMAIN result' = Client /\ inq' \in [Server -> Seq(Request)]
      BY <1>2, <1>5 DEF Inv, Types
  <2> QED
      BY <1>2, <1>3, <1>5, <2>1, <2>2, QuietStep
<1>6. CASE refused(c) \/ interrupted(c) \/ recv_route(c)
  <2>1. CASE refused(c) \/ interrupted(c)
      BY <1>4, <2>1 DEF refused, interrupted
  <2>2. CASE recv_route(c)
      BY <1>4, <2>2 DEF recv_route
  <2> QED
      BY <1>6, <2>1, <2>2
<1>7. CASE recv_host(c)
  <2>1. k.op = "get_host" /\ sock[c][i] # <<>> /\ Head(sock[c][i]) = a
    <3>1. k.op = "get_host" /\ sock[c][i] # <<>>
        BY <1>7 DEF recv_host, Recvfrom, At
    <3>2. sock[c][i] \in Seq(Answer)
        BY <1>1 DEF Inv, Types
    <3> QED
        BY <3>1, <3>2, TailFacts
  <2>2. CASE a.op = "get_host" /\ a.seq = k.seq
    <3>1. 1 \in 1 .. Len(sock[c][i]) /\ sock[c][i] \in Seq(Answer)
        BY <1>1, <2>1, TailFacts DEF Inv, Types
    <3>2. Near(c, a.seq, a.of)
        BY <1>1, <2>2, <3>1 DEF Inv, InFlight, AnsweredAt
    <3>3. a.of = k.id \/ Ahead(k.seq, k.seq) <= k.id - a.of
        BY <1>1, <2>1, <2>2, <3>2 DEF Near
    <3>4. Ahead(k.seq, k.seq) = SeqMod
        BY <1>1, AheadStep
    <3>5. a.of \in Nat
        BY <3>2 DEF Near
    <3>6. a.of = k.id \/ k.id - a.of >= SeqMod
        BY <1>1, <3>3, <3>4, <3>5, ApiAssumption
    <3>7. Return(c, k, a.ret, a.of) \/ Return(c, k, "SYSTEM_ERROR", a.of) \/ UNCHANGED <<call, result>>
        BY <1>7, <2>1 DEF recv_host, At
    <3> QED
        BY <1>4, <1>5, <3>6, <3>7
  <2>3. CASE ~(a.op = "get_host" /\ a.seq = k.seq)
    <3>1. Return(c, k, "SYSTEM_ERROR", a.of) \/ UNCHANGED <<call, result>>
        BY <1>7, <2>1, <2>3 DEF recv_host, At
    <3> QED
        BY <1>4, <1>5, <3>1
  <2> QED
      BY <2>2, <2>3
<1> QED
    BY <1>6, <1>7

\* serve: the answer has the numbers of its request.
LEMMA ServeStep ==
    ASSUME Inv, NEW i \in Server, serve(i)
    PROVE  Inv'
<1>0. PICK r : r = Head(inq[i])
    OBVIOUS
<1> DEFINE c == r.client
<1>1. inq[i] \in Seq(Request) /\ inq[i] # <<>> /\ r.op # "report"
    BY <1>0 DEF serve, Takes, Inv, Types
<1>2. /\ Tail(inq[i]) \in Seq(Request) /\ r \in Request /\ r = inq[i][1] /\ 1 \in 1 .. Len(inq[i])
      /\ \A j \in 1 .. Len(Tail(inq[i])) : \E l \in 1 .. Len(inq[i]) : Tail(inq[i])[j] = inq[i][l]
    BY <1>0, <1>1, TailFacts
<1>3. c \in Client /\ r.op \in {"get_host", "get_route"} /\ r.mod \in Mod /\ r.seq \in Seqid /\ r.id \in Nat
    BY <1>1, <1>2 DEF Request
<1>4. r.op = "get_host" => Near(c, r.seq, r.id)
    BY <1>2 DEF Inv, InFlight, AskedAt
<1>5. inq' = [inq EXCEPT ![i] = Tail(@)] /\ UNCHANGED <<seqid, calls, call, result>>
    BY DEF serve, client
<1>6. PICK ret \in {"SUCC", "NOEXIST", "OVERLOAD"} :
        \/ sock' = sock
        \/ sock' = [sock EXCEPT ![c][i] = Append(@,
              [op |-> r.op, mod |-> r.mod, seq |-> r.seq, of |-> r.id, ret |-> ret])]
    BY <1>0 DEF serve, send_message, Replies
<1> DEFINE a == [op |-> r.op, mod |-> r.mod, seq |-> r.seq, of |-> r.id, ret |-> ret]
<1>7. a \in Answer /\ a.op = r.op /\ a.seq = r.seq /\ a.of = r.id
    BY <1>3 DEF Answer
<1>8. /\ inq' \in [Server -> Seq(Request)]
      /\ \A h \in Server : \A j \in 1 .. Len(inq'[h]) :
           \E l \in 1 .. Len(inq[h]) : inq'[h][j] = inq[h][l]
  <2>1. inq' \in [Server -> Seq(Request)]
      BY <1>2, <1>5 DEF Inv, Types
  <2>2. ASSUME NEW h \in Server, NEW j \in 1 .. Len(inq'[h])
        PROVE  \E l \in 1 .. Len(inq[h]) : inq'[h][j] = inq[h][l]
    <3>1. inq'[h] = IF h = i THEN Tail(inq[i]) ELSE inq[h]
        BY <1>5 DEF Inv, Types
    <3> QED
        BY <1>2, <3>1
  <2> QED
      BY <2>1, <2>2
<1>9. sock' = sock \/ sock' = [sock EXCEPT ![c][i] = Append(@, a)]
    BY <1>6
<1> HIDE DEF c, a
<1>10. /\ sock' \in [Client -> [Server -> Seq(Answer)]]
       /\ \A d \in Client : \A h \in Server : \A j \in 1 .. Len(sock'[d][h]) :
            \/ \E l \in 1 .. Len(sock[d][h]) : sock'[d][h][j] = sock[d][h][l]
            \/ d = c /\ sock'[d][h][j] = a
  <2>1. CASE sock' = sock
      BY <2>1 DEF Inv, Types
  <2>2. CASE sock' = [sock EXCEPT ![c][i] = Append(@, a)]
    <3>1. sock' \in [Client -> [Server -> Seq(Answer)]]
        BY <1>3, <1>7, <2>2 DEF Inv, Types
    <3>2. ASSUME NEW d \in Client, NEW h \in Server, NEW j \in 1 .. Len(sock'[d][h])
          PROVE  \/ \E l \in 1 .. Len(sock[d][h]) : sock'[d][h][j] = sock[d][h][l]
                 \/ d = c /\ sock'[d][h][j] = a
      <4>1. /\ sock[d][h] \in Seq(Answer)
            /\ sock'[d][h] = IF d = c /\ h = i THEN Append(sock[d][h], a) ELSE sock[d][h]
          BY <1>3, <2>2 DEF Inv, Types
      <4> QED
          BY <4>1
    <3> QED
        BY <3>1, <3>2
  <2> QED
      BY <1>9, <2>1, <2>2
<1>11. ASSUME NEW h \in Server, NEW j, sock'[c][h][j] = a
       PROVE  AnsweredAt(c, h, j)'
  <2>1. r.op = "get_host" => Near(c, r.seq, r.id)'
      BY <1>4, <1>5, NearSame
  <2> QED
      BY <1>7, <1>11, <2>1 DEF AnsweredAt
<1>12. \A d \in Client : Own(d)'
    BY <1>5 DEF Inv, Own
<1>13. DOMAIN call' = Client /\ DOMAIN result' = Client
    BY <1>5 DEF Inv, Types
<1>14. \A d \in Client : \A h \in Server : \A j \in 1 .. Len(sock'[d][h]) :
            \/ \E l \in 1 .. Len(sock[d][h]) : sock'[d][h][j] = sock[d][h][l]
            \/ AnsweredAt(d, h, j)'
    BY <1>10, <1>11
<1> QED
    BY <1>5, <1>8, <1>10, <1>12, <1>13, <1>14, QuietStep

\* The other steps of the agent only take datagrams away.
LEMMA AgentSteps ==
    ASSUME Inv, NEW i \in Server, report_cb(i) \/ Ends
    PROVE  Inv'
<1>1. UNCHANGED <<seqid, calls, call, result, sock>>
    BY DEF report_cb, Ends, client
<1>2. /\ inq' \in [Server -> Seq(Request)]
      /\ \A h \in Server : \A j \in 1 .. Len(inq'[h]) :
           \E l \in 1 .. Len(inq[h]) : inq'[h][j] = inq[h][l]
  <2>1. CASE report_cb(i)
    <3>1. inq[i] # <<>> /\ inq[i] \in Seq(Request) /\ inq' = [inq EXCEPT ![i] = Tail(@)]
        BY <2>1 DEF report_cb, Takes, Inv, Types
    <3>2. /\ Tail(inq[i]) \in Seq(Request)
          /\ \A j \in 1 .. Len(Tail(inq[i])) : \E l \in 1 .. Len(inq[i]) : Tail(inq[i])[j] = inq[i][l]
        BY <3>1, TailFacts
    <3>3. \A h \in Server : inq'[h] = IF h = i THEN Tail(inq[i]) ELSE inq[h]
        BY <3>1 DEF Inv, Types
    <3>4. inq' \in [Server -> Seq(Request)]
        BY <3>1, <3>2 DEF Inv, Types
    <3> QED
        BY <3>2, <3>3, <3>4
  <2>2. CASE Ends
    <3>1. inq' = [h \in Server |-> <<>>]
        BY <2>2 DEF Ends
    <3> QED
        BY <3>1
  <2> QED
      BY <2>1, <2>2
<1>3. \A d \in Client : Own(d)'
    BY <1>1 DEF Inv, Own
<1>4. /\ DOMAIN call' = Client /\ DOMAIN result' = Client
      /\ sock' \in [Client -> [Server -> Seq(Answer)]]
    BY <1>1 DEF Inv, Types
<1> QED
    BY <1>1, <1>2, <1>3, <1>4, QuietStep

\* A call that begins: get_host, get_route or reg_init.
LEMMA BeginStep ==
    ASSUME Inv, NEW c \in Client, NEW m \in Mod, NEW op \in {"get_host", "get_route", "reg_init"},
           Begin(c, op, m),
           seqid' = IF op = "get_host" THEN [seqid EXCEPT ![c] = (@ + 1) % SeqMod] ELSE seqid
    PROVE  Inv'
<1>0. PICK k : k = [op |-> op, mod |-> m, seq |-> seqid[c], id |-> calls[c] + 1,
                    tries |-> 1, sent |-> TRUE]
    OBVIOUS
<1>1. seqid[c] \in Seqid /\ calls[c] \in Nat /\ seqid \in [Client -> Seqid]
      /\ calls \in [Client -> Nat] /\ DOMAIN call = Client /\ DOMAIN result = Client
    BY DEF Inv, Types
<1>2. 1 \in 1 .. RegTries /\ calls[c] + 1 \in Nat
    BY <1>1, ApiAssumption
<1>3. /\ k \in Calls /\ k.op = op /\ k.seq = seqid[c] /\ k.id = calls[c] + 1 /\ k.sent /\ k.mod = m
    BY <1>0, <1>1, <1>2 DEF Calls
<1>4. /\ call[c] = None /\ calls' = [calls EXCEPT ![c] = @ + 1] /\ SendRequest(c, k) /\ sock' = sock
    BY <1>0 DEF Begin, SendRequest
<1>5. /\ calls'[c] = calls[c] + 1 /\ calls' \in [Client -> Nat] /\ seqid' \in [Client -> Seqid]
      /\ \A d \in Client : d # c => calls'[d] = calls[d] /\ seqid'[d] = seqid[d]
      /\ seqid'[c] = IF op = "get_host" THEN (seqid[c] + 1) % SeqMod ELSE seqid[c]
    BY <1>1, <1>4, NextNumber
<1>6. Index[m] \in Server
    BY ApiAssumption DEF Server
<1>7. PICK r \in Request :
        /\ r.op = "get_host" => op = "get_host" /\ r.seq = k.seq /\ r.id = k.id /\ r.client = c
        /\ \/ Return(c, k, "SYSTEM_ERROR", k.id) /\ inq' = inq
           \/ call' = [call EXCEPT ![c] = k] /\ Sendto(c, Index[m], r) /\ result' = result
  <2> DEFINE r == [op |-> IF k.op = "get_host" THEN "get_host" ELSE "get_route",
                   mod |-> k.mod, seq |-> k.seq, id |-> k.id, client |-> c]
  <2>1. r \in Request
      BY <1>1, <1>2, <1>3 DEF Request
  <2>2. r.op = "get_host" => op = "get_host" /\ r.seq = k.seq /\ r.id = k.id /\ r.client = c
      BY <1>3
  <2>3. \/ Return(c, k, "SYSTEM_ERROR", k.id) /\ inq' = inq
        \/ call' = [call EXCEPT ![c] = k] /\ Sendto(c, Index[m], r) /\ result' = result
      BY <1>3, <1>4 DEF SendRequest
  <2> HIDE DEF r
  <2> QED
      BY <2>1, <2>2, <2>3
<1>8. /\ DOMAIN call' = Client /\ DOMAIN result' = Client /\ \A d \in Client : Own(d)'
      /\ \A d \in Client : d # c => call'[d] = call[d]
      /\ call'[c] = k \/ call'[c] = None \/ (/\ call'[c] \in Calls /\ call'[c].seq \in Seqid
                                               /\ call'[c].op # "get_host")
      /\ op = "get_host" => call'[c] = k \/ call'[c] = None
  <2>1. CASE Return(c, k, "SYSTEM_ERROR", k.id)
    <3>1. op = "get_host" => call' = [call EXCEPT ![c] = None]
        BY <1>3, <2>1 DEF Return
    <3> QED
        BY <1>1, <1>3, <2>1, <3>1, ReturnStep
  <2>2. CASE call' = [call EXCEPT ![c] = k] /\ result' = result
    <3>1. \A d \in Client : Own(d)'
        BY <2>2 DEF Inv, Own
    <3> QED
        BY <1>1, <2>2, <3>1
  <2> QED
      BY <1>7, <2>1, <2>2
<1>9. /\ inq' \in [Server -> Seq(Request)]
      /\ \A i \in Server : \A j \in 1 .. Len(inq'[i]) :
           \/ \E l \in 1 .. Len(inq[i]) : inq'[i][j] = inq[i][l]
           \/ inq'[i][j] = r /\ call'[c] = k
  <2>1. CASE inq' = inq
      BY <2>1 DEF Inv, Types
  <2>2. CASE Sendto(c, Index[m], r) /\ call' = [call EXCEPT ![c] = k]
      BY <1>1, <1>6, <2>2, SendtoStep DEF Inv
  <2> QED
      BY <1>7, <2>1, <2>2
<1>10. Types'
  <2>1. ASSUME NEW d \in Client, call'[d] # None
        PROVE  /\ call'[d] \in Calls /\ call'[d].seq \in Seqid
               /\ call'[d].op = "get_host" => call'[d].sent
    <3>1. CASE d # c
        BY <1>8, <2>1, <3>1 DEF Inv, Types
    <3>2. CASE d = c
        BY <1>1, <1>3, <1>8, <2>1, <3>2
    <3> QED
        BY <3>1, <3>2
  <2> QED
      BY <1>4, <1>5, <1>8, <1>9, <2>1 DEF Inv, Types
<1>11. ASSUME NEW d \in Client, NEW s, NEW id, Near(d, s, id) PROVE Near(d, s, id)'
  <2>1. CASE d # c
      BY <1>5, <1>8, <1>11, <2>1, NearSame
  <2>2. CASE d = c /\ op = "get_host"
      BY <1>3, <1>4, <1>5, <1>8, <1>11, <2>2, NearHost DEF Inv
  <2>3. CASE d = c /\ op # "get_host"
      BY <1>3, <1>4, <1>5, <1>8, <1>11, <2>3, NearCall DEF Inv
  <2> QED
      BY <2>1, <2>2, <2>3
<1>12. ASSUME NEW i \in Server, NEW j, inq'[i][j] = r, call'[c] = k PROVE AskedAt(i, j)'
  <2>1. CASE r.op = "get_host"
    <3>1. Near(c, r.seq, r.id)'
        BY <1>3, <1>5, <1>7, <1>12, <2>1, NearNew DEF Inv
    <3> QED
        BY <1>7, <1>12, <2>1, <3>1 DEF AskedAt
  <2>2. CASE r.op # "get_host"
      BY <1>12, <2>2 DEF AskedAt
  <2> QED
      BY <2>1, <2>2
<1>13. \A i \in Server : \A j \in 1 .. Len(inq'[i]) :
          (\E l \in 1 .. Len(inq[i]) : inq'[i][j] = inq[i][l]) \/ AskedAt(i, j)'
    BY <1>9, <1>12
<1>14. InFlight'
    BY <1>4, <1>10, <1>11, <1>13, Carried
<1> QED
    BY <1>8, <1>10, <1>14 DEF Inv

\* The next try of reg_init.
LEMMA RetryStep ==
    ASSUME Inv, NEW c \in Client, retry(c)
    PROVE  Inv'
<1>0. PICK k : k = [call[c] EXCEPT !.sent = TRUE]
    OBVIOUS
<1>1. call[c] # None /\ ~call[c].sent /\ SendRequest(c, k) /\ sock' = sock /\ UNCHANGED <<seqid, calls>>
    BY <1>0 DEF retry, SendRequest
<1>2. call[c] \in Calls /\ call[c].seq \in Seqid /\ call[c].op # "get_host"
    BY <1>1 DEF Inv, Types
<1>3. /\ k \in Calls /\ k.seq = call[c].seq /\ k.op = call[c].op
      /\ k.mod \in Mod /\ k.seq \in Seqid /\ k.id \in Nat
    BY <1>0, <1>2 DEF Calls
<1>4. Index[k.mod] \in Server
    BY <1>3, ApiAssumption DEF Server
<1>5. PICK r \in Request :
        /\ r.op # "get_host"
        /\ \/ Return(c, k, "SYSTEM_ERROR", k.id) /\ inq' = inq
           \/ call' = [call EXCEPT ![c] = k] /\ Sendto(c, Index[k.mod], r) /\ result' = result
  <2> DEFINE r == [op |-> IF k.op = "get_host" THEN "get_host" ELSE "get_route",
                   mod |-> k.mod, seq |-> k.seq, id |-> k.id, client |-> c]
  <2>1. r \in Request
      BY <1>3 DEF Request
  <2>2. r.op # "get_host"
      BY <1>2, <1>3
  <2>3. \/ Return(c, k, "SYSTEM_ERROR", k.id) /\ inq' = inq
        \/ call' = [call EXCEPT ![c] = k] /\ Sendto(c, Index[k.mod], r) /\ result' = result
      BY <1>1 DEF SendRequest
  <2> HIDE DEF r
  <2> QED
      BY <2>1, <2>2, <2>3
<1>6. /\ DOMAIN call' = Client /\ DOMAIN result' = Client /\ \A d \in Client : Own(d)'
      /\ \A d \in Client : \/ call'[d] = call[d] \/ call'[d] = None
                           \/ /\ call'[d] \in Calls /\ call'[d].seq \in Seqid
                              /\ call'[d].op # "get_host"
  <2>1. CASE Return(c, k, "SYSTEM_ERROR", k.id)
      BY <1>2, <1>3, <2>1, ReturnStep
  <2>2. CASE call' = [call EXCEPT ![c] = k] /\ result' = result
    <3>1. \A d \in Client : Own(d)'
        BY <2>2 DEF Inv, Own
    <3> QED
        BY <1>2, <1>3, <2>2, <3>1 DEF Inv, Types
  <2> QED
      BY <1>5, <2>1, <2>2
<1>7. /\ inq' \in [Server -> Seq(Request)]
      /\ \A i \in Server : \A j \in 1 .. Len(inq'[i]) :
           \/ \E l \in 1 .. Len(inq[i]) : inq'[i][j] = inq[i][l]
           \/ inq'[i][j].op # "get_host"
  <2>1. CASE inq' = inq
      BY <2>1 DEF Inv, Types
  <2>2. CASE Sendto(c, Index[k.mod], r)
      BY <1>4, <1>5, <2>2, SendtoStep DEF Inv
  <2> QED
      BY <1>5, <2>1, <2>2
<1>8. sock' \in [Client -> [Server -> Seq(Answer)]]
    BY <1>1 DEF Inv, Types
<1> QED
    BY <1>1, <1>6, <1>7, <1>8, QuietStep

\* report(): a datagram without an answer.
LEMMA ReportStep ==
    ASSUME Inv, NEW c \in Client, NEW m \in Mod, report(c, m)
    PROVE  Inv'
<1>0. PICK r : r = [op |-> "report", mod |-> m, seq |-> 0, id |-> calls[c] + 1, client |-> c]
    OBVIOUS
<1>1. /\ call[c] = None /\ calls' = [calls EXCEPT ![c] = @ + 1] /\ UNCHANGED <<seqid, call, result, sock>>
      /\ inq' = inq \/ Sendto(c, Index[m], r)
    BY <1>0 DEF report
<1>2. /\ calls \in [Client -> Nat] /\ calls[c] + 1 \in Nat /\ Index[m] \in Server
      /\ 0 \in Seqid
    BY ApiAssumption DEF Inv, Types, Server, Seqid
<1>3. r \in Request /\ r.op # "get_host"
    BY <1>0, <1>2 DEF Request
<1>4. /\ inq' \in [Server -> Seq(Request)]
      /\ \A i \in Server : \A j \in 1 .. Len(inq'[i]) :
           \/ \E l \in 1 .. Len(inq[i]) : inq'[i][j] = inq[i][l]
           \/ inq'[i][j] = r
  <2>1. CASE inq' = inq
      BY <2>1 DEF Inv, Types
  <2>2. CASE Sendto(c, Index[m], r)
      BY <1>2, <1>3, <2>2, SendtoStep DEF Inv
  <2> QED
      BY <1>1, <2>1, <2>2
<1>5. Types'
    BY <1>1, <1>2, <1>4 DEF Inv, Types
<1>6. ASSUME NEW d \in Client, NEW s, NEW id, Near(d, s, id) PROVE Near(d, s, id)'
  <2>1. CASE d # c
    <3>1. calls'[d] = calls[d]
        BY <1>1, <1>2, <2>1
    <3> QED
        BY <1>1, <1>6, <3>1, NearSame
  <2>2. CASE d = c
    <3>1. calls'[c] = calls[c] + 1
        BY <1>1, <1>2
    <3> QED
        BY <1>1, <1>6, <2>2, <3>1, NearCall DEF Inv
  <2> QED
      BY <2>1, <2>2
<1>7. \A i \in Server : \A j \in 1 .. Len(inq'[i]) :
          (\E l \in 1 .. Len(inq[i]) : inq'[i][j] = inq[i][l]) \/ AskedAt(i, j)'
    BY <1>3, <1>4 DEF AskedAt
<1>8. InFlight'
    BY <1>1, <1>5, <1>6, <1>7, Carried
<1>9. \A d \in Client : Own(d)'
    BY <1>1 DEF Inv, Own
<1> QED
    BY <1>5, <1>8, <1>9 DEF Inv

\* For any width of the sequence number, any number of clients, servers and
\* calls, and whatever is lost or left behind in a socket: get_host takes the
\* answer of another request for its own only if it is a full turn of the
\* sequence number older (HostAnswerOwn).
THEOREM AnswersSafe == Spec => []HostAnswerOwn
<1>1. Init => Inv
  <2> SUFFICES ASSUME Init PROVE Inv
      OBVIOUS
  <2>1. /\ seqid = [c \in Client |-> 0] /\ call = [c \in Client |-> None]
        /\ sock = [c \in Client |-> [i \in Server |-> <<>>]] /\ inq = [i \in Server |-> <<>>]
        /\ calls = [c \in Client |-> 0] /\ result = [c \in Client |-> None]
      BY DEF Init
  <2>2. 0 \in Seqid
      BY ApiAssumption DEF Seqid
  <2>3. Types
      BY <2>1, <2>2 DEF Types
  <2>4. InFlight
      BY <2>1 DEF InFlight
  <2>5. \A c \in Client : Own(c)
      BY <2>1 DEF Own
  <2> QED
      BY <2>3, <2>4, <2>5 DEF Inv
<1>2. Inv /\ [Next]_vars => Inv'
  <2> SUFFICES ASSUME Inv, [Next]_vars PROVE Inv'
      OBVIOUS
  <2>1. ASSUME NEW c \in Client, Api(c) \/ InCall(c) PROVE Inv'
    <3>1. ASSUME NEW m \in Mod, get_host(c, m) PROVE Inv'
        BY <3>1, BeginStep DEF get_host
    <3>2. ASSUME NEW m \in Mod, get_route(c, m) PROVE Inv'
        BY <3>2, BeginStep DEF get_route
    <3>3. ASSUME NEW m \in Mod, reg_init(c, m) PROVE Inv'
        BY <3>3, BeginStep DEF reg_init
    <3>4. ASSUME NEW m \in Mod, report(c, m) PROVE Inv'
        BY <3>4, ReportStep
    <3>5. CASE retry(c)
        BY <3>5, RetryStep
    <3>6. CASE refused(c) \/ interrupted(c) \/ recv_host(c) \/ recv_route(c)
        BY <3>6, EndSteps
    <3> QED
        BY <2>1, <3>1, <3>2, <3>3, <3>4, <3>5, <3>6 DEF Api, InCall
  <2>2. ASSUME NEW i \in Server, UdpServer(i) \/ exit PROVE Inv'
    <3>1. serve(i) \/ report_cb(i) \/ Ends
        BY <2>2 DEF UdpServer, Fatal, exit
    <3> QED
        BY <3>1, ServeStep, AgentSteps
  <2>3. ASSUME UNCHANGED <<seqid, calls, call, result, sock, inq>> PROVE Inv'
      BY <2>3 DEF Inv, Types, InFlight, AskedAt, AnsweredAt, Near, Own
  <2>4. CASE \/ main \/ (\E i \in Server : start_UDP_server(i) \/ reset_lb_status(i))
             \/ \E m \in Mod : deal_recv_route(m)
      BY <2>3, <2>4 DEF main, start_UDP_server, reset_lb_status, deal_recv_route, client, net
  <2>5. CASE UNCHANGED vars
      BY <2>3, <2>5 DEF vars, client, net
  <2>6. CASE exit
    <3>1. 0 \in Server
        BY ApiAssumption DEF Server
    <3> QED
        BY <2>2, <2>6, <3>1
  <2> QED
      BY <2>1, <2>2, <2>4, <2>5, <2>6 DEF Next
<1>3. Inv => HostAnswerOwn
    BY DEF Inv, Own, HostAnswerOwn
<1> QED
    BY <1>1, <1>2, <1>3, PTL DEF Spec

-----------------------------------------------------------------------------
(* The types.                                                               *)

\* What the answer of a call may be.
Rets == {"SUCC", "NOEXIST", "OVERLOAD", "SYSTEM_ERROR"}

\* Why a datagram is lost.
Why == {"full", "large", "agent"}

\* Where requests, answers and errors are, and what is lost.
NetTypes ==
    /\ sock \in [Client -> [Server -> Seq(Answer)]] /\ err \in [Client -> [Server -> BOOLEAN]]
    /\ inq \in [Server -> Seq(Request)] /\ lost \subseteq Client \X Nat \X Why

ClientTypes ==
    /\ seqid \in [Client -> Seqid] /\ call \in [Client -> Calls \cup {None}]
    /\ calls \in [Client -> Nat] /\ cuts \in [Client -> [Server -> Nat]]
    /\ result \in [Client -> Result \cup {None}]

AgentTypes ==
    /\ bound \in [Server -> BOOLEAN] /\ boot \in BOOLEAN /\ crashed \in BOOLEAN
    /\ route \in [Mod -> {"absent", "pulling", "new", "hosts"}]

\* The parts of the type invariant.
LEMMA TypeParts == TypeOK <=> ClientTypes /\ AgentTypes /\ NetTypes
BY DEF TypeOK, ClientTypes, AgentTypes, NetTypes, Why

\* An error is set or taken back.
LEMMA ErrTypes ==
    ASSUME NetTypes, NEW c \in Client, NEW i \in Server, NEW b \in BOOLEAN,
           err' = [err EXCEPT ![c][i] = b]
    PROVE  err' \in [Client -> [Server -> BOOLEAN]]
BY DEF NetTypes

\* A datagram is refused, taken by the buffer, or lost.
LEMMA SendtoTypes ==
    ASSUME NetTypes, NEW c \in Client, NEW i \in Server, NEW r \in Request,
           Sendto(c, i, r), sock' = sock
    PROVE  NetTypes'
<1>1. CASE ~bound[i]
  <2>1. err' = [err EXCEPT ![c][i] = TRUE] /\ inq' = inq /\ lost' = lost
      BY <1>1 DEF Sendto
  <2>2. err' \in [Client -> [Server -> BOOLEAN]]
      BY <2>1, ErrTypes
  <2> QED
      BY <2>1, <2>2 DEF NetTypes
<1>2. CASE bound[i] /\ Len(inq[i]) < SockCap
  <2>1. inq' = [inq EXCEPT ![i] = Append(@, r)] /\ err' = err /\ lost' = lost
      BY <1>2 DEF Sendto
  <2>2. inq[i] \in Seq(Request) /\ inq \in [Server -> Seq(Request)]
      BY DEF NetTypes
  <2>3. Append(inq[i], r) \in Seq(Request)
      BY <2>2
  <2>4. inq' \in [Server -> Seq(Request)]
      BY <2>1, <2>2, <2>3
  <2> QED
      BY <2>1, <2>4 DEF NetTypes
<1>3. CASE bound[i] /\ ~(Len(inq[i]) < SockCap)
  <2>1. inq' = inq /\ err' = err /\ lost' = lost \cup {<<c, r.id, "full">>}
      BY <1>3 DEF Sendto
  <2>2. r.id \in Nat
      BY DEF Request
  <2>3. lost' \subseteq Client \X Nat \X Why
      BY <2>1, <2>2 DEF NetTypes, Why
  <2> QED
      BY <2>1, <2>3 DEF NetTypes
<1> QED
    BY <1>1, <1>2, <1>3

\* A call goes on, or returns.
LEMMA ReturnTypes ==
    ASSUME ClientTypes, NEW c \in Client, NEW k \in Calls, NEW ret \in Rets, NEW of \in Nat,
           Return(c, k, ret, of)
    PROVE  call' \in [Client -> Calls \cup {None}] /\ result' \in [Client -> Result \cup {None}]
<1>0. call \in [Client -> Calls \cup {None}] /\ result \in [Client -> Result \cup {None}]
    BY DEF ClientTypes
<1>1. CASE k.op = "reg_init" /\ ret # "SUCC" /\ k.tries < RegTries
  <2> DEFINE n == [k EXCEPT !.tries = @ + 1, !.sent = FALSE]
  <2>1. call' = [call EXCEPT ![c] = n] /\ result' = result
      BY <1>1 DEF Return
  <2>2. n \in Calls
    <3>1. k.tries + 1 \in 1 .. RegTries
        BY <1>1, MoreTries
    <3> QED
        BY <3>1 DEF Calls
  <2> HIDE DEF n
  <2> QED
      BY <1>0, <2>1, <2>2
<1>2. CASE ~(k.op = "reg_init" /\ ret # "SUCC" /\ k.tries < RegTries)
  <2> DEFINE v == [op |-> k.op, id |-> k.id, of |-> of,
                   ret |-> IF k.op = "reg_init" /\ ret # "SUCC" THEN "NOEXIST" ELSE ret]
  <2>1. call' = [call EXCEPT ![c] = None] /\ result' = [result EXCEPT ![c] = v]
      BY <1>2 DEF Return
  <2>2. v \in Result
    <3>1. k.op \in {"get_host", "get_route", "reg_init"} /\ k.id \in Nat
        BY DEF Calls
    <3> QED
        BY <3>1 DEF Result, Rets
  <2> HIDE DEF v
  <2> QED
      BY <1>0, <2>1, <2>2
<1> QED
    BY <1>1, <1>2

\* The request of a call, or the error that it finds.
LEMMA SendRequestTypes ==
    ASSUME ClientTypes, AgentTypes, NetTypes, NEW c \in Client, NEW k \in Calls, SendRequest(c, k)
    PROVE  /\ call' \in [Client -> Calls \cup {None}] /\ result' \in [Client -> Result \cup {None}]
           /\ cuts' = cuts /\ AgentTypes' /\ NetTypes'
<1>1. /\ k.mod \in Mod /\ k.seq \in Seqid /\ k.id \in Nat
      /\ Index[k.mod] \in Server
    BY ApiAssumption DEF Calls, Server
<1>2. cuts' = cuts /\ sock' = sock /\ AgentTypes'
    BY DEF SendRequest, agent, AgentTypes
<1>3. CASE err[c][Index[k.mod]]
  <2>1. /\ Return(c, k, "SYSTEM_ERROR", k.id) /\ err' = [err EXCEPT ![c][Index[k.mod]] = FALSE]
        /\ inq' = inq /\ lost' = lost
      BY <1>3 DEF SendRequest
  <2>2. call' \in [Client -> Calls \cup {None}] /\ result' \in [Client -> Result \cup {None}]
      BY <1>1, <2>1, ReturnTypes DEF Rets
  <2>3. err' \in [Client -> [Server -> BOOLEAN]]
      BY <1>1, <2>1, ErrTypes
  <2> QED
      BY <1>2, <2>1, <2>2, <2>3 DEF NetTypes
<1>4. CASE ~err[c][Index[k.mod]]
  <2> DEFINE r == [op |-> IF k.op = "get_host" THEN "get_host" ELSE "get_route",
                   mod |-> k.mod, seq |-> k.seq, id |-> k.id, client |-> c]
  <2>1. call' = [call EXCEPT ![c] = k] /\ Sendto(c, Index[k.mod], r) /\ result' = result
      BY <1>4 DEF SendRequest
  <2>2. r \in Request
      BY <1>1 DEF Request
  <2> HIDE DEF r
  <2>3. NetTypes'
      BY <1>1, <1>2, <2>1, <2>2, SendtoTypes
  <2> QED
      BY <1>2, <2>1, <2>3 DEF ClientTypes
<1> QED
    BY <1>3, <1>4

\* A call that begins.
LEMMA BeginTypes ==
    ASSUME ClientTypes, AgentTypes, NetTypes, NEW c \in Client, NEW m \in Mod,
           NEW op \in {"get_host", "get_route", "reg_init"}, Begin(c, op, m),
           seqid' = IF op = "get_host" THEN [seqid EXCEPT ![c] = (@ + 1) % SeqMod] ELSE seqid
    PROVE  ClientTypes' /\ AgentTypes' /\ NetTypes'
<1>0. PICK k : k = [op |-> op, mod |-> m, seq |-> seqid[c], id |-> calls[c] + 1,
                    tries |-> 1, sent |-> TRUE]
    OBVIOUS
<1>1. calls' = [calls EXCEPT ![c] = @ + 1] /\ SendRequest(c, k)
    BY <1>0 DEF Begin
<1>2. /\ seqid[c] \in Seqid /\ calls[c] \in Nat /\ calls[c] + 1 \in Nat
      /\ 1 \in 1 .. RegTries
    BY ApiAssumption DEF ClientTypes
<1>3. k \in Calls
    BY <1>0, <1>2 DEF Calls
<1>4. seqid' \in [Client -> Seqid] /\ calls' \in [Client -> Nat]
  <2>1. (seqid[c] + 1) % SeqMod \in Seqid
      BY <1>2, NextNumber
  <2> QED
      BY <1>1, <1>2, <2>1 DEF ClientTypes
<1>5. /\ call' \in [Client -> Calls \cup {None}] /\ result' \in [Client -> Result \cup {None}]
      /\ cuts' = cuts /\ AgentTypes' /\ NetTypes'
    BY <1>1, <1>3, SendRequestTypes
<1> QED
    BY <1>4, <1>5 DEF ClientTypes

\* The other steps of a client.
LEMMA CallTypes ==
    ASSUME ClientTypes, AgentTypes, NetTypes, NEW c \in Client,
           retry(c) \/ refused(c) \/ interrupted(c) \/ recv_host(c) \/ recv_route(c)
    PROVE  ClientTypes' /\ AgentTypes' /\ NetTypes'
<1>0. PICK k : k = call[c]
    OBVIOUS
<1>1. k \in Calls
    BY <1>0 DEF retry, refused, interrupted, recv_host, recv_route, Recvfrom, ClientTypes
<1>2. k.id \in Nat /\ k.mod \in Mod /\ Index[k.mod] \in Server /\ At(c) = Index[k.mod]
    BY <1>0, <1>1, ApiAssumption DEF Calls, Server, At
<1>3. CASE retry(c)
  <2>1. [k EXCEPT !.sent = TRUE] \in Calls
      BY <1>1 DEF Calls
  <2>2. SendRequest(c, [k EXCEPT !.sent = TRUE]) /\ UNCHANGED <<seqid, calls>>
      BY <1>0, <1>3 DEF retry
  <2>3. /\ call' \in [Client -> Calls \cup {None}] /\ result' \in [Client -> Result \cup {None}]
        /\ cuts' = cuts /\ AgentTypes' /\ NetTypes'
      BY <2>1, <2>2, SendRequestTypes
  <2> QED
      BY <2>2, <2>3 DEF ClientTypes
<1>4. CASE refused(c)
  <2>1. /\ err' = [err EXCEPT ![c][Index[k.mod]] = FALSE] /\ Return(c, k, "SYSTEM_ERROR", k.id)
        /\ UNCHANGED <<seqid, calls, cuts, agent, sock, inq, lost>>
      BY <1>0, <1>2, <1>4 DEF refused
  <2>2. err' \in [Client -> [Server -> BOOLEAN]]
      BY <1>2, <2>1, ErrTypes
  <2>3. call' \in [Client -> Calls \cup {None}] /\ result' \in [Client -> Result \cup {None}]
      BY <1>1, <1>2, <2>1, ReturnTypes DEF Rets
  <2>4. ClientTypes'
      BY <2>1, <2>3 DEF ClientTypes
  <2>5. NetTypes'
      BY <2>1, <2>2 DEF NetTypes
  <2> QED
      BY <2>1, <2>4, <2>5 DEF AgentTypes, agent
<1>5. CASE interrupted(c)
  <2>1. /\ cuts' = [cuts EXCEPT ![c][Index[k.mod]] = @ + 1] /\ Return(c, k, "SYSTEM_ERROR", k.id)
        /\ UNCHANGED <<seqid, calls, agent, net>>
      BY <1>0, <1>2, <1>5 DEF interrupted
  <2>2. cuts' \in [Client -> [Server -> Nat]]
    <3>1. cuts[c][Index[k.mod]] + 1 \in Nat
        BY <1>2 DEF ClientTypes
    <3> QED
        BY <1>2, <2>1, <3>1 DEF ClientTypes
  <2>3. call' \in [Client -> Calls \cup {None}] /\ result' \in [Client -> Result \cup {None}]
      BY <1>1, <1>2, <2>1, ReturnTypes DEF Rets
  <2>4. ClientTypes'
      BY <2>1, <2>2, <2>3 DEF ClientTypes
  <2>5. NetTypes'
      BY <2>1 DEF NetTypes, net
  <2> QED
      BY <2>1, <2>4, <2>5 DEF AgentTypes, agent
<1>6. CASE recv_host(c) \/ recv_route(c)
  <2>0. PICK q, i : q = sock[c][i] /\ i = Index[k.mod]
      OBVIOUS
  <2>1. /\ q # <<>> /\ sock' = [sock EXCEPT ![c][i] = Tail(@)] /\ q \in Seq(Answer) /\ i \in Server
        /\ UNCHANGED <<seqid, calls, cuts, agent, err, inq, lost>>
    <3>1. Recvfrom(c)
        BY <1>6 DEF recv_host, recv_route
    <3>2. /\ q # <<>> /\ sock' = [sock EXCEPT ![c][i] = Tail(@)]
          /\ UNCHANGED <<seqid, calls, cuts, agent, err, inq, lost>>
        BY <1>2, <2>0, <3>1 DEF Recvfrom
    <3>3. i \in Server /\ q \in Seq(Answer)
        BY <1>2, <2>0 DEF NetTypes
    <3> QED
        BY <3>2, <3>3
  <2>2. PICK a \in Answer : a = Head(q)
      BY <2>1, TailFacts
  <2>3. a.ret \in Rets /\ a.of \in Nat
      BY <2>2 DEF Answer, Rets
  <2>4. Tail(q) \in Seq(Answer)
      BY <2>1
  <2>5. NetTypes'
    <3>1. sock \in [Client -> [Server -> Seq(Answer)]]
        BY DEF NetTypes
    <3>2. sock' \in [Client -> [Server -> Seq(Answer)]]
        BY <2>0, <2>1, <2>4, <3>1
    <3> QED
        BY <2>1, <3>2 DEF NetTypes
  <2>6. \/ UNCHANGED <<call, result>>
        \/ \E ret \in Rets, of \in Nat : Return(c, k, ret, of)
    <3>1. CASE recv_host(c)
      <4>1. Return(c, k, "SYSTEM_ERROR", a.of) \/ UNCHANGED <<call, result>> \/ Return(c, k, a.ret, a.of)
          BY <1>0, <1>2, <2>0, <2>2, <3>1 DEF recv_host
      <4> QED
          BY <2>3, <4>1 DEF Rets
    <3>2. CASE recv_route(c)
      <4>1. \/ Return(c, k, "SYSTEM_ERROR", a.of)
            \/ Return(c, k, IF k.op = "get_route" THEN "SUCC" ELSE a.ret, a.of)
          BY <1>0, <1>2, <2>0, <2>2, <3>2 DEF recv_route
      <4> QED
          BY <2>3, <4>1 DEF Rets
    <3> QED
        BY <1>6, <3>1, <3>2
  <2>7. call' \in [Client -> Calls \cup {None}] /\ result' \in [Client -> Result \cup {None}]
    <3>1. CASE UNCHANGED <<call, result>>
        BY <3>1 DEF ClientTypes
    <3>2. ASSUME NEW ret \in Rets, NEW of \in Nat, Return(c, k, ret, of)
          PROVE  call' \in [Client -> Calls \cup {None}] /\ result' \in [Client -> Result \cup {None}]
        BY <1>1, <3>2, ReturnTypes
    <3> QED
        BY <2>6, <3>1, <3>2
  <2>8. ClientTypes'
      BY <2>1, <2>7 DEF ClientTypes
  <2> QED
      BY <2>1, <2>5, <2>8 DEF AgentTypes, agent
<1> QED
    BY <1>3, <1>4, <1>5, <1>6

\* report().
LEMMA ReportTypes ==
    ASSUME ClientTypes, AgentTypes, NetTypes, NEW c \in Client, NEW m \in Mod, report(c, m)
    PROVE  ClientTypes' /\ AgentTypes' /\ NetTypes'
<1>0. PICK r : r = [op |-> "report", mod |-> m, seq |-> 0, id |-> calls[c] + 1, client |-> c]
    OBVIOUS
<1>1. /\ calls' = [calls EXCEPT ![c] = @ + 1] /\ UNCHANGED <<seqid, call, cuts, result, agent, sock>>
      /\ \/ err' = [err EXCEPT ![c][Index[m]] = FALSE] /\ UNCHANGED <<inq, lost>>
         \/ Sendto(c, Index[m], r)
    BY <1>0 DEF report
<1>2. calls[c] \in Nat /\ calls[c] + 1 \in Nat /\ Index[m] \in Server /\ 0 \in Seqid
    BY ApiAssumption DEF ClientTypes, Server, Seqid
<1>3. r \in Request
    BY <1>0, <1>2 DEF Request
<1>4. ClientTypes'
    BY <1>1, <1>2 DEF ClientTypes
<1>5. CASE err' = [err EXCEPT ![c][Index[m]] = FALSE] /\ UNCHANGED <<inq, lost>>
  <2>1. err' \in [Client -> [Server -> BOOLEAN]]
      BY <1>2, <1>5, ErrTypes
  <2> QED
      BY <1>1, <1>4, <1>5, <2>1 DEF NetTypes, AgentTypes, agent
<1>6. CASE Sendto(c, Index[m], r)
  <2>1. NetTypes'
      BY <1>1, <1>2, <1>3, <1>6, SendtoTypes
  <2> QED
      BY <1>1, <1>4, <2>1 DEF AgentTypes, agent
<1> QED
    BY <1>1, <1>5, <1>6

\* The end of the agent.
LEMMA EndsTypes ==
    ASSUME ClientTypes, AgentTypes, NetTypes, Ends
    PROVE  ClientTypes' /\ AgentTypes' /\ NetTypes'
<1>1. /\ crashed' = TRUE /\ bound' = [j \in Server |-> FALSE] /\ inq' = [j \in Server |-> <<>>]
      /\ UNCHANGED <<boot, route, sock, err>> /\ UNCHANGED client
    BY DEF Ends
<1>2. ClientTypes' /\ AgentTypes'
    BY <1>1 DEF ClientTypes, AgentTypes, client
<1>3. inq' \in [Server -> Seq(Request)]
    BY <1>1
<1>4. ASSUME NEW t \in lost', t \notin lost PROVE t \in Client \X Nat \X Why
  <2>1. PICK j \in Server : \E n \in 1 .. Len(inq[j]) :
                              t = <<inq[j][n].client, inq[j][n].id, "agent">>
      BY <1>4 DEF Ends
  <2>2. PICK n \in 1 .. Len(inq[j]) : t = <<inq[j][n].client, inq[j][n].id, "agent">>
      BY <2>1
  <2>3. inq[j] \in Seq(Request)
      BY DEF NetTypes
  <2>4. PICK r \in Request : r = inq[j][n]
      BY <2>3
  <2>5. r.client \in Client /\ r.id \in Nat
      BY DEF Request
  <2> QED
      BY <2>2, <2>4, <2>5 DEF Why
<1>5. lost' \subseteq Client \X Nat \X Why
    BY <1>4 DEF NetTypes
<1> QED
    BY <1>1, <1>2, <1>3, <1>5 DEF NetTypes

\* The steps of the UDP servers.
LEMMA ServerTypes ==
    ASSUME ClientTypes, AgentTypes, NetTypes, NEW i \in Server, serve(i) \/ report_cb(i)
    PROVE  ClientTypes' /\ AgentTypes' /\ NetTypes'
<1>0. PICK q, r : q = inq[i] /\ r = Head(q)
    OBVIOUS
<1>1. q \in Seq(Request) /\ q # <<>> /\ ClientTypes'
  <2>1. UNCHANGED client /\ q # <<>>
      BY <1>0 DEF serve, report_cb, Takes
  <2> QED
      BY <1>0, <2>1 DEF ClientTypes, NetTypes, client
<1>2. r \in Request /\ Tail(q) \in Seq(Request)
    BY <1>0, <1>1, TailFacts
<1>3. ASSUME inq' = [inq EXCEPT ![i] = Tail(@)]
      PROVE  inq' \in [Server -> Seq(Request)]
    BY <1>0, <1>2, <1>3 DEF NetTypes
<1>4. CASE serve(i)
  <2>1. /\ r.op # "report" /\ inq' = [inq EXCEPT ![i] = Tail(@)] /\ UNCHANGED <<bound, boot, crashed, err>>
        /\ route' = [route EXCEPT ![r.mod] = "pulling"] \/ route' = route
        /\ send_message(i, r)
      BY <1>0, <1>4 DEF serve
  <2>2. /\ r.op \in {"get_host", "get_route"} /\ r.mod \in Mod /\ r.seq \in Seqid /\ r.id \in Nat
        /\ r.client \in Client
      BY <1>2, <2>1 DEF Request
  <2>3. AgentTypes'
      BY <2>1, <2>2 DEF AgentTypes
  <2>4. PICK ret \in {"SUCC", "NOEXIST", "OVERLOAD"} : \E a, d :
          /\ a = [op |-> r.op, mod |-> r.mod, seq |-> r.seq, of |-> r.id, ret |-> ret] /\ d = r.client
          /\ \/ lost' = lost /\ sock' = [sock EXCEPT ![d][i] = Append(@, a)]
             \/ (\E why \in Why : lost' = lost \cup {<<d, r.id, why>>}) /\ sock' = sock
      BY <2>1 DEF send_message, Replies, Why
  <2>5. PICK a, d :
          /\ a = [op |-> r.op, mod |-> r.mod, seq |-> r.seq, of |-> r.id, ret |-> ret] /\ d = r.client
          /\ \/ lost' = lost /\ sock' = [sock EXCEPT ![d][i] = Append(@, a)]
             \/ (\E why \in Why : lost' = lost \cup {<<d, r.id, why>>}) /\ sock' = sock
      BY <2>4
  <2>6. a \in Answer /\ d \in Client
      BY <2>2, <2>5 DEF Answer
  <2>7. CASE (\E why \in Why : lost' = lost \cup {<<d, r.id, why>>}) /\ sock' = sock
    <3>1. PICK why \in Why : lost' = lost \cup {<<d, r.id, why>>}
        BY <2>7
    <3>2. lost' \subseteq Client \X Nat \X Why
        BY <2>2, <2>6, <3>1 DEF NetTypes
    <3> QED
        BY <1>1, <1>3, <2>1, <2>3, <2>7, <3>2 DEF NetTypes
  <2>8. CASE lost' = lost /\ sock' = [sock EXCEPT ![d][i] = Append(@, a)]
    <3>1. sock \in [Client -> [Server -> Seq(Answer)]] /\ sock[d][i] \in Seq(Answer)
        BY <2>6 DEF NetTypes
    <3>2. Append(sock[d][i], a) \in Seq(Answer)
        BY <2>6, <3>1
    <3>3. sock' \in [Client -> [Server -> Seq(Answer)]]
        BY <2>6, <2>8, <3>1, <3>2
    <3> QED
        BY <1>1, <1>3, <2>1, <2>3, <2>8, <3>3 DEF NetTypes
  <2> QED
      BY <2>5, <2>7, <2>8
<1>5. CASE report_cb(i)
  <2>1. inq' = [inq EXCEPT ![i] = Tail(@)] /\ UNCHANGED <<agent, sock, err, lost>>
      BY <1>5 DEF report_cb
  <2> QED
      BY <1>1, <1>3, <2>1 DEF NetTypes, AgentTypes, agent
<1> QED
    BY <1>4, <1>5

\* Every step keeps the types.
LEMMA TypeStep ==
    ASSUME TypeOK, [Next]_vars
    PROVE  TypeOK'
<1>0. ClientTypes /\ AgentTypes /\ NetTypes
    BY TypeParts
<1> SUFFICES ClientTypes' /\ AgentTypes' /\ NetTypes'
    BY TypeParts DEF TypeOK, ClientTypes, AgentTypes, NetTypes, Why
<1>1. ASSUME NEW c \in Client, Api(c) \/ InCall(c)
      PROVE  ClientTypes' /\ AgentTypes' /\ NetTypes'
  <2>1. ASSUME NEW m \in Mod, get_host(c, m) PROVE ClientTypes' /\ AgentTypes' /\ NetTypes'
      BY <1>0, <2>1, BeginTypes DEF get_host
  <2>2. ASSUME NEW m \in Mod, get_route(c, m) PROVE ClientTypes' /\ AgentTypes' /\ NetTypes'
      BY <1>0, <2>2, BeginTypes DEF get_route
  <2>3. ASSUME NEW m \in Mod, reg_init(c, m) PROVE ClientTypes' /\ AgentTypes' /\ NetTypes'
      BY <1>0, <2>3, BeginTypes DEF reg_init
  <2>4. ASSUME NEW m \in Mod, report(c, m) PROVE ClientTypes' /\ AgentTypes' /\ NetTypes'
      BY <1>0, <2>4, ReportTypes
  <2>5. CASE interrupted(c) \/ InCall(c)
      BY <1>0, <2>5, CallTypes DEF InCall
  <2> QED
      BY <1>1, <2>1, <2>2, <2>3, <2>4, <2>5 DEF Api
<1>2. ASSUME NEW i \in Server, UdpServer(i) PROVE ClientTypes' /\ AgentTypes' /\ NetTypes'
  <2>1. serve(i) \/ report_cb(i) \/ Ends
      BY <1>2 DEF UdpServer, Fatal
  <2> QED
      BY <1>0, <2>1, ServerTypes, EndsTypes
<1>3. ASSUME UNCHANGED <<client, net>>, AgentTypes' PROVE ClientTypes' /\ AgentTypes' /\ NetTypes'
    BY <1>0, <1>3 DEF ClientTypes, NetTypes, client, net
<1>4. ASSUME NEW i \in Server, start_UDP_server(i) PROVE AgentTypes' /\ UNCHANGED <<client, net>>
    BY <1>0, <1>4 DEF start_UDP_server, AgentTypes
<1>5. ASSUME main PROVE AgentTypes' /\ UNCHANGED <<client, net>>
    BY <1>0, <1>5 DEF main, AgentTypes
<1>6. ASSUME NEW m \in Mod, deal_recv_route(m) PROVE AgentTypes' /\ UNCHANGED <<client, net>>
    BY <1>0, <1>6 DEF deal_recv_route, AgentTypes
<1>7. ASSUME UNCHANGED vars PROVE AgentTypes' /\ UNCHANGED <<client, net>>
    BY <1>0, <1>7 DEF vars, agent, AgentTypes
<1>8. ASSUME NEW i \in Server, reset_lb_status(i) PROVE AgentTypes' /\ UNCHANGED <<client, net>>
    BY <1>0, <1>8 DEF reset_lb_status, AgentTypes
<1>9. ASSUME exit PROVE ClientTypes' /\ AgentTypes' /\ NetTypes'
    BY <1>0, <1>9, EndsTypes DEF exit
<1> QED
    BY <1>1, <1>2, <1>3, <1>4, <1>5, <1>6, <1>7, <1>8, <1>9 DEF Next

\* The initial state has the types.
LEMMA InitTypes ==
    ASSUME Init
    PROVE  TypeOK
<1>1. 0 \in Seqid
    BY ApiAssumption DEF Seqid
<1>2. ClientTypes
    BY <1>1 DEF Init, ClientTypes
<1>3. AgentTypes
    BY DEF Init, AgentTypes
<1>4. NetTypes
    BY DEF Init, NetTypes
<1> QED
    BY <1>2, <1>3, <1>4, TypeParts

-----------------------------------------------------------------------------
(* Answers on the way.                                                      *)

\* The requests of client c in queue q that get an answer.
Asked(q, c) == {j \in DOMAIN q : q[j].client = c /\ q[j].op # "report"}

Counts(r, c) == r.client = c /\ r.op # "report"

\* A set of positions of a queue is finite.
LEMMA AskedFinite ==
    ASSUME NEW q \in Seq(Request), NEW c
    PROVE  /\ IsFiniteSet(Asked(q, c)) /\ Cardinality(Asked(q, c)) \in Nat
           /\ Asked(q, c) \subseteq 1 .. Len(q) /\ Len(q) \in Nat
           /\ Cardinality(Asked(q, c)) = 0 => Asked(q, c) = {}
<1>1. Len(q) \in Nat /\ DOMAIN q = 1 .. Len(q)
    OBVIOUS
<1>2. Asked(q, c) \subseteq 1 .. Len(q)
    BY <1>1 DEF Asked
<1>3. IsFiniteSet(1 .. Len(q))
    BY <1>1, FS_Interval
<1>4. IsFiniteSet(Asked(q, c))
    BY <1>2, <1>3, FS_Subset
<1> QED
    BY <1>1, <1>2, <1>4, FS_CardinalityType, FS_EmptySet

\* A request that joins the queue.
LEMMA AskedAppend ==
    ASSUME NEW q \in Seq(Request), NEW r \in Request, NEW c
    PROVE  /\ Cardinality(Asked(Append(q, r), c)) =
                Cardinality(Asked(q, c)) + (IF Counts(r, c) THEN 1 ELSE 0)
           /\ \A j \in Asked(Append(q, r), c) :
                (j \in Asked(q, c) /\ Append(q, r)[j] = q[j]) \/ (Append(q, r)[j] = r /\ Counts(r, c))
<1>0. PICK p, n : p = Append(q, r) /\ n = Len(q) + 1
    OBVIOUS
<1>1. /\ Len(q) \in Nat /\ DOMAIN q = 1 .. Len(q) /\ DOMAIN p = 1 .. n /\ p[n] = r
      /\ \A j \in 1 .. Len(q) : p[j] = q[j]
    BY <1>0
<1>2. /\ n \notin DOMAIN q /\ n \in DOMAIN p
      /\ \A j : j \in DOMAIN p <=> j \in DOMAIN q \/ j = n
    BY <1>0, <1>1
<1>3. \A j : j \in Asked(p, c) <=> j \in Asked(q, c) \/ (j = n /\ Counts(r, c))
    BY <1>1, <1>2 DEF Asked, Counts
<1>4. n \notin Asked(q, c)
    BY <1>2 DEF Asked
<1>5. Cardinality(Asked(p, c)) = Cardinality(Asked(q, c)) + (IF Counts(r, c) THEN 1 ELSE 0)
  <2>1. CASE Counts(r, c)
    <3>1. Asked(p, c) = Asked(q, c) \cup {n}
        BY <1>3, <2>1
    <3>2. IsFiniteSet(Asked(q, c))
        BY AskedFinite
    <3>3. Cardinality(Asked(q, c) \cup {n}) = Cardinality(Asked(q, c)) + 1
        BY <1>4, <3>2, FS_AddElement
    <3> QED
        BY <2>1, <3>1, <3>3
  <2>2. CASE ~Counts(r, c)
    <3>1. Asked(p, c) = Asked(q, c)
        BY <1>3, <2>2
    <3> QED
        BY <2>2, <3>1, AskedFinite
  <2> QED
      BY <2>1, <2>2
<1>6. \A j \in Asked(p, c) : (j \in Asked(q, c) /\ p[j] = q[j]) \/ (p[j] = r /\ Counts(r, c))
    BY <1>1, <1>3 DEF Asked
<1> QED
    BY <1>0, <1>5, <1>6

\* The request that leaves the queue.
LEMMA AskedTail ==
    ASSUME NEW q \in Seq(Request), q # <<>>, NEW c
    PROVE  /\ Cardinality(Asked(q, c)) =
                Cardinality(Asked(Tail(q), c)) + (IF Counts(Head(q), c) THEN 1 ELSE 0)
           /\ \A j \in Asked(Tail(q), c) : j + 1 \in Asked(q, c) /\ Tail(q)[j] = q[j + 1]
           /\ Counts(Head(q), c) => 1 \in Asked(q, c) /\ q[1] = Head(q)
<1>0. PICK p, r : p = Tail(q) /\ r = Head(q)
    OBVIOUS
<1>1. /\ Len(q) \in Nat /\ Len(q) > 0 /\ DOMAIN q = 1 .. Len(q) /\ DOMAIN p = 1 .. Len(q) - 1
      /\ r = q[1] /\ \A j \in 1 .. Len(q) - 1 : p[j] = q[j + 1]
    BY <1>0
<1>2. /\ 1 \in DOMAIN q
      /\ \A j \in DOMAIN p : j \in Nat /\ j >= 1 /\ j + 1 \in DOMAIN q /\ p[j] = q[j + 1]
      /\ \A j \in DOMAIN q : j = 1 \/ (j - 1 \in DOMAIN p /\ p[j - 1] = q[j])
    BY <1>1
<1>3. \A j \in Asked(p, c) : j \in Nat /\ j >= 1 /\ j + 1 \in Asked(q, c) /\ p[j] = q[j + 1]
    BY <1>2 DEF Asked
<1> DEFINE T == {j \in Asked(q, c) : j > 1}
           f == [j \in Asked(p, c) |-> j + 1]
<1>4. \A j \in T : j \in Nat /\ j - 1 \in Asked(p, c)
    BY <1>1, <1>2 DEF Asked
<1>5. f \in Bijection(Asked(p, c), T)
  <2>1. f \in [Asked(p, c) -> T]
      BY <1>3
  <2>2. \A i, j \in Asked(p, c) : f[i] = f[j] => i = j
      BY <1>3
  <2>3. \A j \in T : f[j - 1] = j
      BY <1>4
  <2>4. \A j \in T : \E i \in Asked(p, c) : f[i] = j
      BY <1>4, <2>3
  <2> HIDE DEF f, T
  <2> QED
      BY <2>1, <2>2, <2>4, Fun_IsBij
<1>6. ExistsBijection(Asked(p, c), T)
    BY <1>5 DEF ExistsBijection
<1>7. IsFiniteSet(Asked(p, c)) /\ Cardinality(Asked(p, c)) \in Nat
  <2>1. p \in Seq(Request)
      BY <1>0, TailFacts
  <2> QED
      BY <2>1, AskedFinite
<1>8. IsFiniteSet(T) /\ Cardinality(T) = Cardinality(Asked(p, c))
    BY <1>6, <1>7, FS_Bijection
<1>9. 1 \in Asked(q, c) <=> Counts(r, c)
    BY <1>1, <1>2 DEF Asked, Counts
<1>10. Asked(q, c) = T \cup (IF Counts(r, c) THEN {1} ELSE {}) /\ 1 \notin T
    BY <1>1, <1>9 DEF Asked
<1> HIDE DEF T, f
<1>11. Cardinality(Asked(q, c)) = Cardinality(Asked(p, c)) + (IF Counts(r, c) THEN 1 ELSE 0)
  <2>1. CASE Counts(r, c)
    <3>1. Asked(q, c) = T \cup {1}
        BY <1>10, <2>1
    <3> QED
        BY <1>8, <1>10, <2>1, <3>1, FS_AddElement
  <2>2. CASE ~Counts(r, c)
    <3>1. Asked(q, c) = T
        BY <1>10, <2>2
    <3> QED
        BY <1>7, <1>8, <2>2, <3>1
  <2> QED
      BY <2>1, <2>2
<1> QED
    BY <1>0, <1>1, <1>3, <1>9, <1>11

\* An answer to call n of client c is on the way through server i.
Has(c, i, n) ==
    \/ \E j \in DOMAIN sock[c][i] : sock[c][i][j].of = n
    \/ \E j \in Asked(inq[i], c) : inq[i][j].id = n

\* What is on the way to a client is accounted for by the signals that ended
\* its receptions and the call that waits - by the signals alone if that call
\* was refused.  Without a signal it is the answer of that call.
Good(c, i) ==
    /\ Outstanding(c, i) <= cuts[c][i] + (IF Waiting(c, i) THEN 1 ELSE 0)
    /\ err[c][i] /\ Waiting(c, i) => Outstanding(c, i) <= cuts[c][i]
    /\ cuts[c][i] = 0 => \A n : Has(c, i, n) => Waiting(c, i) /\ n = call[c].id

\* The result of a client that no signal has disturbed is its own.
Res(c) ==
    result[c] # None /\ (\A i \in Server : cuts[c][i] = 0) => result[c].of = result[c].id

StepInv == TypeOK /\ (\A c \in Client, i \in Server : Good(c, i)) /\ \A c \in Client : Res(c)

\* Nothing new is on the way.
Less(c, i) ==
    Outstanding(c, i)' <= Outstanding(c, i) /\ \A n : Has(c, i, n)' => Has(c, i, n)

\* A step that leaves the call of c alone, as far as server i is concerned.
Still(c, i) ==
    /\ cuts'[c][i] = cuts[c][i] /\ (err'[c][i] /\ Waiting(c, i) => err[c][i])
    /\ (Waiting(c, i)' <=> Waiting(c, i)) /\ (Waiting(c, i) => call'[c].id = call[c].id)
    /\ Less(c, i)

\* A step that ends a reception.
Finishes(c, i) == ~Waiting(c, i)' /\ Outstanding(c, i)' <= cuts'[c][i]

\* A step that begins one.
Asks(c, i) ==
    /\ ~Waiting(c, i) /\ Waiting(c, i)' /\ cuts'[c][i] = cuts[c][i]
    /\ Outstanding(c, i)' <= Outstanding(c, i) + 1
    /\ err'[c][i] => Outstanding(c, i)' <= Outstanding(c, i)
    /\ \A n : Has(c, i, n)' => Has(c, i, n) \/ n = call'[c].id

\* What is on the way can be counted.
LEMMA Countable ==
    ASSUME NEW s \in Seq(Answer), NEW q \in Seq(Request), NEW c
    PROVE  /\ Len(s) + Cardinality(Asked(q, c)) \in Nat
           /\ Len(s) + Cardinality(Asked(q, c)) = 0 => DOMAIN s = {} /\ Asked(q, c) = {}
<1>1. Len(s) \in Nat /\ DOMAIN s = 1 .. Len(s)
    OBVIOUS
<1>2. Cardinality(Asked(q, c)) \in Nat /\ (Cardinality(Asked(q, c)) = 0 => Asked(q, c) = {})
    BY AskedFinite
<1>3. PICK x \in Nat, y \in Nat : x = Len(s) /\ y = Cardinality(Asked(q, c))
    BY <1>1, <1>2
<1>4. x + y \in Nat /\ (x + y = 0 => x = 0 /\ y = 0)
    OBVIOUS
<1>5. x = 0 => DOMAIN s = {}
    BY <1>1, <1>3
<1> QED
    BY <1>2, <1>3, <1>4, <1>5

\* The count of Outstanding, before and after a step.
LEMMA Counted ==
    ASSUME NetTypes, NetTypes', NEW c \in Client, NEW i \in Server
    PROVE  /\ Outstanding(c, i) = Len(sock[c][i]) + Cardinality(Asked(inq[i], c))
           /\ Outstanding(c, i)' = Len(sock'[c][i]) + Cardinality(Asked(inq'[i], c))
           /\ Outstanding(c, i) \in Nat /\ Outstanding(c, i)' \in Nat
           /\ Outstanding(c, i)' = 0 => \A n : ~Has(c, i, n)'
<1>1. /\ sock[c][i] \in Seq(Answer) /\ inq[i] \in Seq(Request)
      /\ sock'[c][i] \in Seq(Answer) /\ inq'[i] \in Seq(Request)
    BY DEF NetTypes
<1>2. /\ Outstanding(c, i) = Len(sock[c][i]) + Cardinality(Asked(inq[i], c))
      /\ Outstanding(c, i)' = Len(sock'[c][i]) + Cardinality(Asked(inq'[i], c))
    BY DEF Outstanding, Asked
<1>3. Outstanding(c, i) \in Nat
    BY <1>1, <1>2, Countable
<1>4. /\ Outstanding(c, i)' \in Nat
      /\ Outstanding(c, i)' = 0 => DOMAIN (sock'[c][i]) = {} /\ Asked(inq'[i], c) = {}
    BY <1>1, <1>2, Countable
<1>5. Outstanding(c, i)' = 0 => \A n : ~Has(c, i, n)'
    BY <1>4 DEF Has
<1> QED
    BY <1>2, <1>3, <1>4, <1>5

\* Each of the three kinds of steps keeps the account.
LEMMA GoodKept ==
    ASSUME ClientTypes, ClientTypes', NetTypes, NetTypes', NEW c \in Client, NEW i \in Server,
           Good(c, i), Still(c, i) \/ Finishes(c, i) \/ Asks(c, i)
    PROVE  Good(c, i)'
<1>1. cuts[c][i] \in Nat /\ cuts'[c][i] \in Nat
    BY DEF ClientTypes
<1>2. PICK x \in Nat, y \in Nat : x = Outstanding(c, i) /\ y = Outstanding(c, i)'
    BY Counted
<1>3. PICK u \in Nat, v \in Nat : u = cuts[c][i] /\ v = cuts'[c][i]
    BY <1>1
<1>4. /\ x <= u + (IF Waiting(c, i) THEN 1 ELSE 0)
      /\ err[c][i] /\ Waiting(c, i) => x <= u
      /\ u = 0 => \A n : Has(c, i, n) => Waiting(c, i) /\ n = call[c].id
    BY <1>2, <1>3 DEF Good
<1> SUFFICES /\ y <= v + (IF Waiting(c, i)' THEN 1 ELSE 0)
             /\ err'[c][i] /\ Waiting(c, i)' => y <= v
             /\ v = 0 => \A n : Has(c, i, n)' => Waiting(c, i)' /\ n = call'[c].id
    BY <1>2, <1>3 DEF Good
<1>5. CASE Still(c, i)
  <2>1. /\ v = u /\ (err'[c][i] /\ Waiting(c, i) => err[c][i])
        /\ (Waiting(c, i)' <=> Waiting(c, i)) /\ (Waiting(c, i) => call'[c].id = call[c].id)
        /\ y <= x /\ \A n : Has(c, i, n)' => Has(c, i, n)
      BY <1>2, <1>3, <1>5 DEF Still, Less
  <2>2. y <= v + (IF Waiting(c, i)' THEN 1 ELSE 0)
      BY <1>4, <2>1
  <2>3. err'[c][i] /\ Waiting(c, i)' => y <= v
      BY <1>4, <2>1
  <2>4. v = 0 => \A n : Has(c, i, n)' => Waiting(c, i)' /\ n = call'[c].id
      BY <1>4, <2>1
  <2> QED
      BY <2>2, <2>3, <2>4
<1>6. CASE Finishes(c, i)
  <2>1. ~Waiting(c, i)' /\ y <= v
      BY <1>2, <1>3, <1>6 DEF Finishes
  <2>2. v = 0 => \A n : ~Has(c, i, n)'
    <3>1. v = 0 => y = 0
        BY <2>1
    <3> QED
        BY <1>2, <3>1, Counted
  <2> QED
      BY <2>1, <2>2
<1>7. CASE Asks(c, i)
  <2>1. /\ ~Waiting(c, i) /\ Waiting(c, i)' /\ v = u /\ y <= x + 1 /\ (err'[c][i] => y <= x)
        /\ \A n : Has(c, i, n)' => Has(c, i, n) \/ n = call'[c].id
      BY <1>2, <1>3, <1>7 DEF Asks
  <2>2. x <= u
      BY <1>4, <2>1
  <2>3. y <= v + 1 /\ (err'[c][i] => y <= v)
      BY <2>1, <2>2
  <2>4. v = 0 => \A n : Has(c, i, n)' => n = call'[c].id
      BY <1>4, <2>1
  <2> QED
      BY <2>1, <2>3, <2>4
<1> QED
    BY <1>5, <1>6, <1>7

\* Server i and the socket of client c at it are left alone.
LEMMA SameNet ==
    ASSUME NetTypes, NetTypes', NEW c \in Client, NEW i \in Server,
           sock'[c][i] = sock[c][i], inq'[i] = inq[i]
    PROVE  Less(c, i) /\ Outstanding(c, i)' = Outstanding(c, i)
<1>1. Outstanding(c, i)' = Outstanding(c, i) /\ Outstanding(c, i) \in Nat
    BY Counted
<1>2. \A n : Has(c, i, n)' => Has(c, i, n)
    BY DEF Has
<1> QED
    BY <1>1, <1>2 DEF Less

\* Sendto: one more on the way, if the datagram is taken and has an answer.
LEMMA SendNet ==
    ASSUME NetTypes, NetTypes', NEW c \in Client, NEW i \in Server, NEW r \in Request,
           Sendto(c, i, r), sock' = sock, NEW d \in Client, NEW h \in Server
    PROVE  /\ ~(h = i /\ Counts(r, d)) => Less(d, h)
           /\ Outstanding(d, h)' <= Outstanding(d, h) + 1
           /\ \A n : Has(d, h, n)' => Has(d, h, n) \/ n = r.id
           /\ ~(d = c /\ h = i) => err'[d][h] = err[d][h]
           /\ err'[d][h] /\ ~err[d][h] => Less(d, h)
<1>0. PICK x \in Nat : x = Outstanding(d, h)
    BY Counted
<1>1. CASE inq' = inq /\ (err' = err \/ err' = [err EXCEPT ![c][i] = TRUE])
  <2>1. Less(d, h) /\ Outstanding(d, h)' = x
      BY <1>0, <1>1, SameNet
  <2>2. ~(d = c /\ h = i) => err'[d][h] = err[d][h]
      BY <1>1 DEF NetTypes
  <2> QED
      BY <1>0, <2>1, <2>2 DEF Less
<1>2. CASE inq' = [inq EXCEPT ![i] = Append(@, r)] /\ err' = err
  <2>1. CASE h # i
    <3>1. inq'[h] = inq[h]
        BY <1>2, <2>1 DEF NetTypes
    <3>2. Less(d, h) /\ Outstanding(d, h)' = x
        BY <1>0, <3>1, SameNet
    <3> QED
        BY <1>0, <1>2, <3>2 DEF Less
  <2>2. CASE h = i
    <3>1. inq[h] \in Seq(Request) /\ inq'[h] = Append(inq[h], r)
        BY <1>2, <2>2 DEF NetTypes
    <3>2. PICK y \in Nat, z \in Nat, z1 \in Nat :
            /\ y = Len(sock[d][h]) /\ z = Cardinality(Asked(inq[h], d))
            /\ z1 = Cardinality(Asked(inq'[h], d))
      <4>1. sock[d][h] \in Seq(Answer) /\ inq'[h] \in Seq(Request)
          BY DEF NetTypes
      <4>2. Len(sock[d][h]) \in Nat
          BY <4>1
      <4> QED
          BY <3>1, <4>1, <4>2, AskedFinite
    <3>3. z1 = z + (IF Counts(r, d) THEN 1 ELSE 0)
      <4>1. Cardinality(Asked(Append(inq[h], r), d)) =
              Cardinality(Asked(inq[h], d)) + (IF Counts(r, d) THEN 1 ELSE 0)
          BY <3>1, AskedAppend
      <4> QED
          BY <3>1, <3>2, <4>1
    <3>4. x = y + z /\ Outstanding(d, h)' = y + z1
        BY <1>0, <3>2, Counted
    <3>5. \A j \in Asked(inq'[h], d) :
            (j \in Asked(inq[h], d) /\ inq'[h][j] = inq[h][j]) \/ (inq'[h][j] = r /\ Counts(r, d))
      <4>1. PICK q \in Seq(Request) : q = inq[h]
          BY <3>1
      <4>2. \A j \in Asked(Append(q, r), d) :
              \/ j \in Asked(q, d) /\ Append(q, r)[j] = q[j]
              \/ Append(q, r)[j] = r /\ Counts(r, d)
          BY AskedAppend
      <4> QED
          BY <3>1, <4>1, <4>2, Zenon
    <3>6. \A n : Has(d, h, n)' => Has(d, h, n) \/ (Counts(r, d) /\ n = r.id)
        BY <3>5 DEF Has
    <3>7. ~Counts(r, d) => Less(d, h)
        BY <1>0, <3>3, <3>4, <3>6 DEF Less
    <3>8. Outstanding(d, h)' <= x + 1
        BY <3>3, <3>4
    <3> QED
        BY <1>0, <1>2, <2>2, <3>6, <3>7, <3>8
  <2> QED
      BY <2>1, <2>2
<1> QED
    BY <1>1, <1>2 DEF Sendto

\* What Return does to the waiting of a client, and to its result.
LEMMA ReturnWait ==
    ASSUME ClientTypes, NEW c \in Client, NEW k \in Calls, NEW ret, NEW of, Return(c, k, ret, of)
    PROVE  /\ \A i : ~Waiting(c, i)'
           /\ \A d \in Client : d # c => /\ call'[d] = call[d] /\ result'[d] = result[d]
                                         /\ \A i : Waiting(d, i)' <=> Waiting(d, i)
           /\ result'[c] = result[c] \/ (result'[c].of = of /\ result'[c].id = k.id)
<1>0. call \in [Client -> Calls \cup {None}] /\ result \in [Client -> Result \cup {None}]
    BY DEF ClientTypes
<1>1. CASE k.op = "reg_init" /\ ret # "SUCC" /\ k.tries < RegTries
  <2> DEFINE n == [k EXCEPT !.tries = @ + 1, !.sent = FALSE]
  <2>1. call' = [call EXCEPT ![c] = n] /\ result' = result
      BY <1>1 DEF Return
  <2>2. n.sent = FALSE
      BY DEF Calls
  <2> HIDE DEF n
  <2>3. call'[c] = n /\ \A d \in Client : d # c => call'[d] = call[d]
      BY <1>0, <2>1
  <2> QED
      BY <2>1, <2>2, <2>3 DEF Waiting, At
<1>2. CASE ~(k.op = "reg_init" /\ ret # "SUCC" /\ k.tries < RegTries)
  <2> DEFINE v == [op |-> k.op, id |-> k.id, of |-> of,
                   ret |-> IF k.op = "reg_init" /\ ret # "SUCC" THEN "NOEXIST" ELSE ret]
  <2>1. call' = [call EXCEPT ![c] = None] /\ result' = [result EXCEPT ![c] = v]
      BY <1>2 DEF Return
  <2>2. v.of = of /\ v.id = k.id
      OBVIOUS
  <2> HIDE DEF v
  <2>3. /\ call'[c] = None /\ \A d \in Client : d # c => call'[d] = call[d] /\ result'[d] = result[d]
        /\ result'[c] = v
      BY <1>0, <2>1
  <2> QED
      BY <2>2, <2>3 DEF Waiting, At
<1> QED
    BY <1>1, <1>2

\* The results stay right when the signals are the same or more.
LEMMA ResKept ==
    ASSUME StepInv, NEW c \in Client, \A d \in Client : d # c => result'[d] = result[d] /\ cuts'[d] = cuts[d],
           \/ result'[c] = result[c]
           \/ result'[c].of = result'[c].id
           \/ \E i \in Server : cuts'[c][i] # 0,
           \A i \in Server : cuts'[c][i] = 0 => cuts[c][i] = 0
    PROVE  \A d \in Client : Res(d)'
<1>1. \A d \in Client : Res(d)
    BY DEF StepInv
<1>2. ASSUME NEW d \in Client, d # c PROVE Res(d)'
    BY <1>1, <1>2 DEF Res
<1>3. Res(c)'
    BY <1>1 DEF Res
<1> QED
    BY <1>2, <1>3

\* A request, or the error that it finds.
LEMMA SendRequestGood ==
    ASSUME StepInv, ClientTypes', NetTypes', NEW c \in Client, NEW k \in Calls, k.sent,
           \A i \in Server : ~Waiting(c, i), SendRequest(c, k)
    PROVE  /\ \A d \in Client, i \in Server : Good(d, i)'
           /\ \A d \in Client : Res(d)'
<1>0. ClientTypes /\ NetTypes /\ \A d \in Client, i \in Server : Good(d, i)
    BY TypeParts DEF StepInv
<1>1. PICK s : s = Index[k.mod]
    OBVIOUS
<1>2. k.mod \in Mod /\ k.seq \in Seqid /\ k.id \in Nat /\ s \in Server /\ k # None
    BY <1>1, ApiAssumption, NoneAssumption DEF Calls, Server
<1>3. cuts' = cuts /\ sock' = sock
    BY DEF SendRequest
<1>4. CASE err[c][s]
  <2>1. /\ Return(c, k, "SYSTEM_ERROR", k.id) /\ err' = [err EXCEPT ![c][s] = FALSE] /\ inq' = inq
      BY <1>1, <1>4 DEF SendRequest
  <2>2. \A d \in Client, i \in Server : err'[d][i] => err[d][i]
      BY <1>0, <1>2, <2>1 DEF NetTypes
  <2>3. \A d \in Client, i \in Server : Less(d, i)
      BY <1>0, <1>3, <2>1, SameNet
  <2>4. /\ \A i : ~Waiting(c, i)'
        /\ \A d \in Client : d # c => /\ call'[d] = call[d] /\ result'[d] = result[d]
                                      /\ \A i : Waiting(d, i)' <=> Waiting(d, i)
        /\ result'[c] = result[c] \/ (result'[c].of = k.id /\ result'[c].id = k.id)
      BY <1>0, <2>1, ReturnWait
  <2>5. \A d \in Client, i \in Server : Still(d, i)
      BY <1>3, <2>2, <2>3, <2>4 DEF Still
  <2>6. \A d \in Client, i \in Server : Good(d, i)'
      BY <1>0, <2>5, GoodKept
  <2>7. \A d \in Client : Res(d)'
      BY <1>3, <2>4, ResKept
  <2> QED
      BY <2>6, <2>7
<1>5. CASE ~err[c][s]
  <2>0. PICK r : r = [op |-> IF k.op = "get_host" THEN "get_host" ELSE "get_route",
                      mod |-> k.mod, seq |-> k.seq, id |-> k.id, client |-> c]
      OBVIOUS
  <2>1. call' = [call EXCEPT ![c] = k] /\ Sendto(c, s, r) /\ result' = result
      BY <1>1, <1>5, <2>0 DEF SendRequest
  <2>2. r \in Request /\ r.client = c /\ r.id = k.id
      BY <1>2, <2>0 DEF Request
  <2>3. call'[c] = k /\ \A d \in Client : d # c => call'[d] = call[d]
      BY <1>0, <2>1 DEF ClientTypes
  <2>4. /\ \A i : Waiting(c, i)' <=> i = s
        /\ \A d \in Client : d # c => \A i : Waiting(d, i)' <=> Waiting(d, i)
      BY <1>1, <1>2, <2>3 DEF Waiting, At
  <2>5. ASSUME NEW d \in Client, NEW i \in Server, ~(d = c /\ i = s) PROVE Still(d, i)
    <3>1. ~(i = s /\ Counts(r, d))
        BY <2>2, <2>5 DEF Counts
    <3>2. Less(d, i) /\ err'[d][i] = err[d][i]
        BY <1>0, <1>2, <1>3, <2>1, <2>2, <2>5, <3>1, SendNet
    <3>3. /\ Waiting(d, i)' <=> Waiting(d, i)
          /\ Waiting(d, i) => call'[d].id = call[d].id
        BY <2>3, <2>4, <2>5
    <3> QED
        BY <1>3, <3>2, <3>3 DEF Still
  <2>6. Asks(c, s)
    <3>1. /\ Outstanding(c, s)' <= Outstanding(c, s) + 1
          /\ \A n : Has(c, s, n)' => Has(c, s, n) \/ n = k.id
          /\ err'[c][s] => Less(c, s)
        BY <1>0, <1>2, <1>3, <1>5, <2>1, <2>2, SendNet
    <3> QED
        BY <1>2, <1>3, <2>3, <2>4, <3>1 DEF Asks, Less
  <2>7. \A d \in Client, i \in Server : Still(d, i) \/ Asks(d, i)
      BY <2>5, <2>6
  <2>8. \A d \in Client, i \in Server : Good(d, i)'
      BY <1>0, <2>7, GoodKept
  <2>9. \A d \in Client : Res(d)'
      BY <1>3, <2>1 DEF StepInv, Res
  <2> QED
      BY <2>8, <2>9
<1> QED
    BY <1>4, <1>5

\* The calls that begin.
LEMMA BeginGood ==
    ASSUME StepInv, ClientTypes', NetTypes', NEW c \in Client, NEW m \in Mod,
           NEW op \in {"get_host", "get_route", "reg_init"}, Begin(c, op, m)
    PROVE  (\A d \in Client, i \in Server : Good(d, i)') /\ \A d \in Client : Res(d)'
<1>0. PICK k : k = [op |-> op, mod |-> m, seq |-> seqid[c], id |-> calls[c] + 1,
                    tries |-> 1, sent |-> TRUE]
    OBVIOUS
<1>1. SendRequest(c, k) /\ call[c] = None
    BY <1>0 DEF Begin
<1>2. seqid[c] \in Seqid /\ calls[c] + 1 \in Nat /\ 1 \in 1 .. RegTries
  <2>1. seqid[c] \in Seqid /\ calls[c] \in Nat
      BY TypeParts DEF StepInv, ClientTypes
  <2> QED
      BY <2>1, ApiAssumption
<1>3. k \in Calls /\ k.sent
    BY <1>0, <1>2 DEF Calls
<1>4. \A i \in Server : ~Waiting(c, i)
    BY <1>1 DEF Waiting
<1> QED
    BY <1>1, <1>3, <1>4, SendRequestGood

\* The next try of reg_init.
LEMMA RetryGood ==
    ASSUME StepInv, ClientTypes', NetTypes', NEW c \in Client, retry(c)
    PROVE  (\A d \in Client, i \in Server : Good(d, i)') /\ \A d \in Client : Res(d)'
<1>0. PICK k : k = [call[c] EXCEPT !.sent = TRUE]
    OBVIOUS
<1>1. SendRequest(c, k) /\ call[c] # None /\ ~call[c].sent
    BY <1>0 DEF retry
<1>2. call[c] \in Calls
    BY <1>1, TypeParts DEF StepInv, ClientTypes
<1>3. k \in Calls /\ k.sent
    BY <1>0, <1>2 DEF Calls
<1>4. \A i \in Server : ~Waiting(c, i)
    BY <1>1 DEF Waiting
<1> QED
    BY <1>1, <1>3, <1>4, SendRequestGood

\* report(): its datagram has no answer.
LEMMA ReportGood ==
    ASSUME StepInv, ClientTypes', NetTypes', NEW c \in Client, NEW m \in Mod, report(c, m)
    PROVE  (\A d \in Client, i \in Server : Good(d, i)') /\ \A d \in Client : Res(d)'
<1>0. ClientTypes /\ NetTypes /\ \A d \in Client, i \in Server : Good(d, i)
    BY TypeParts DEF StepInv
<1>1. PICK r, s : /\ r = [op |-> "report", mod |-> m, seq |-> 0, id |-> calls[c] + 1, client |-> c]
                  /\ s = Index[m]
    OBVIOUS
<1>2. /\ call[c] = None /\ UNCHANGED <<call, cuts, result, sock>>
      /\ \/ err' = [err EXCEPT ![c][s] = FALSE] /\ inq' = inq
         \/ Sendto(c, s, r)
    BY <1>1 DEF report
<1>3. calls[c] + 1 \in Nat /\ s \in Server /\ 0 \in Seqid
  <2>1. calls[c] \in Nat
      BY <1>0 DEF ClientTypes
  <2> QED
      BY <1>1, <2>1, ApiAssumption DEF Server, Seqid
<1>4. r \in Request /\ r.op = "report"
    BY <1>1, <1>3 DEF Request
<1>5. \A d \in Client, i \in Server : Less(d, i) /\ (err'[d][i] /\ ~err[d][i] => d = c)
  <2>1. CASE err' = [err EXCEPT ![c][s] = FALSE] /\ inq' = inq
    <3>1. \A d \in Client, i \in Server : Less(d, i)
        BY <1>0, <1>2, <2>1, SameNet
    <3>2. \A d \in Client, i \in Server : err'[d][i] => err[d][i]
        BY <1>0, <1>3, <2>1 DEF NetTypes
    <3> QED
        BY <3>1, <3>2
  <2>2. CASE Sendto(c, s, r)
    <3> SUFFICES ASSUME NEW d \in Client, NEW i \in Server
                 PROVE  Less(d, i) /\ (err'[d][i] /\ ~err[d][i] => d = c)
        OBVIOUS
    <3>1. ~Counts(r, d)
        BY <1>4 DEF Counts
    <3> QED
        BY <1>0, <1>2, <1>3, <1>4, <2>2, <3>1, SendNet
  <2> QED
      BY <1>2, <2>1, <2>2
<1>6. \A i : ~Waiting(c, i)
    BY <1>2 DEF Waiting
<1>7. \A d \in Client, i \in Server : Waiting(d, i)' <=> Waiting(d, i)
    BY <1>2 DEF Waiting, At
<1>8. \A d \in Client, i \in Server : Still(d, i)
    BY <1>2, <1>5, <1>6, <1>7 DEF Still
<1>9. \A d \in Client, i \in Server : Good(d, i)'
    BY <1>0, <1>8, GoodKept
<1>10. \A d \in Client : Res(d)'
    BY <1>2 DEF StepInv, Res
<1> QED
    BY <1>9, <1>10

\* A refused call, and one that a signal ends.
LEMMA EndGood ==
    ASSUME StepInv, ClientTypes', NetTypes', NEW c \in Client, refused(c) \/ interrupted(c)
    PROVE  (\A d \in Client, i \in Server : Good(d, i)') /\ \A d \in Client : Res(d)'
<1>0. ClientTypes /\ NetTypes /\ \A d \in Client, i \in Server : Good(d, i)
    BY TypeParts DEF StepInv
<1>1. PICK k, s : k = call[c] /\ s = Index[k.mod]
    OBVIOUS
<1>2. /\ k # None /\ k.sent /\ Return(c, k, "SYSTEM_ERROR", k.id) /\ inq' = inq /\ sock' = sock
      /\ \/ err[c][s] /\ err' = [err EXCEPT ![c][s] = FALSE] /\ cuts' = cuts
         \/ err' = err /\ cuts' = [cuts EXCEPT ![c][s] = @ + 1]
    BY <1>1 DEF refused, interrupted, At, net
<1>3. k \in Calls
    BY <1>0, <1>1, <1>2 DEF ClientTypes
<1>4. s \in Server
    BY <1>1, <1>3, ApiAssumption DEF Calls, Server
<1>5. \A i : Waiting(c, i) <=> i = s
    BY <1>1, <1>2 DEF Waiting, At
<1>6. /\ \A i : ~Waiting(c, i)'
      /\ \A d \in Client : d # c => /\ call'[d] = call[d] /\ result'[d] = result[d]
                                    /\ \A i : Waiting(d, i)' <=> Waiting(d, i)
      /\ result'[c] = result[c] \/ (result'[c].of = k.id /\ result'[c].id = k.id)
    BY <1>0, <1>2, <1>3, ReturnWait
<1>7. \A d \in Client, i \in Server : Less(d, i) /\ Outstanding(d, i)' = Outstanding(d, i)
    BY <1>0, <1>2, SameNet
<1>8. /\ \A d \in Client, i \in Server : err'[d][i] => err[d][i]
      /\ \A d \in Client : d # c => cuts'[d] = cuts[d]
      /\ \A i \in Server : i # s => cuts'[c][i] = cuts[c][i]
      /\ cuts'[c][s] = cuts[c][s] \/ cuts'[c][s] = cuts[c][s] + 1
  <2>1. cuts \in [Client -> [Server -> Nat]] /\ err \in [Client -> [Server -> BOOLEAN]]
      BY <1>0 DEF ClientTypes, NetTypes
  <2> QED
      BY <1>2, <1>4, <2>1
<1>9. ASSUME NEW d \in Client, NEW i \in Server, ~(d = c /\ i = s) PROVE Still(d, i)
  <2>1. Waiting(d, i)' <=> Waiting(d, i)
      BY <1>5, <1>6, <1>9
  <2>2. Waiting(d, i) => call'[d].id = call[d].id
      BY <1>5, <1>6, <1>9
  <2>3. cuts'[d][i] = cuts[d][i]
      BY <1>8, <1>9
  <2> QED
      BY <1>7, <1>8, <2>1, <2>2, <2>3 DEF Still
<1>10. Finishes(c, s)
  <2>1. PICK x \in Nat, u \in Nat, v \in Nat :
            x = Outstanding(c, s) /\ u = cuts[c][s] /\ v = cuts'[c][s]
    <3>1. Outstanding(c, s) \in Nat
        BY <1>0, <1>4, Counted
    <3>2. cuts[c][s] \in Nat /\ cuts'[c][s] \in Nat
        BY <1>0, <1>4 DEF ClientTypes
    <3> QED
        BY <3>1, <3>2
  <2>2. x <= u + 1 /\ (err[c][s] => x <= u)
      BY <1>0, <1>4, <1>5, <2>1 DEF Good
  <2>3. (err[c][s] /\ v = u) \/ v = u + 1
    <3>1. cuts \in [Client -> [Server -> Nat]]
        BY <1>0 DEF ClientTypes
    <3> QED
        BY <1>2, <1>4, <2>1, <3>1
  <2>4. x <= v
      BY <2>2, <2>3
  <2> QED
      BY <1>4, <1>6, <1>7, <2>1, <2>4 DEF Finishes
<1>11. \A d \in Client, i \in Server : Still(d, i) \/ Finishes(d, i)
    BY <1>9, <1>10
<1>12. \A d \in Client, i \in Server : Good(d, i)'
    BY <1>0, <1>11, GoodKept
<1>13. \A i \in Server : cuts'[c][i] = 0 => cuts[c][i] = 0
  <2>1. \A i \in Server : cuts[c][i] \in Nat
      BY <1>0 DEF ClientTypes
  <2> QED
      BY <1>8, <2>1
<1>14. \A d \in Client : Res(d)'
    BY <1>6, <1>8, <1>13, ResKept
<1> QED
    BY <1>12, <1>14

\* A reception: without signals the datagram is the answer of this call.
LEMMA RecvGood ==
    ASSUME StepInv, ClientTypes', NetTypes', NEW c \in Client, recv_host(c) \/ recv_route(c)
    PROVE  (\A d \in Client, i \in Server : Good(d, i)') /\ \A d \in Client : Res(d)'
<1>0. ClientTypes /\ NetTypes /\ \A d \in Client, i \in Server : Good(d, i)
    BY TypeParts DEF StepInv
<1>1. PICK k, s, q, a : k = call[c] /\ s = Index[k.mod] /\ q = sock[c][s] /\ a = Head(q)
    OBVIOUS
<1>2. /\ k # None /\ k.sent /\ q # <<>> /\ sock' = [sock EXCEPT ![c][s] = Tail(@)]
      /\ UNCHANGED <<cuts, err, inq>>
    BY <1>1 DEF recv_host, recv_route, Recvfrom, At
<1>3. k \in Calls
    BY <1>0, <1>1, <1>2 DEF ClientTypes
<1>4. s \in Server
    BY <1>1, <1>3, ApiAssumption DEF Calls, Server
<1>5. q \in Seq(Answer) /\ \A d \in Client, i \in Server :
          sock'[d][i] = IF d = c /\ i = s THEN Tail(q) ELSE sock[d][i]
    BY <1>0, <1>1, <1>2, <1>4 DEF NetTypes
<1>6. \A i : Waiting(c, i) <=> i = s
    BY <1>1, <1>2 DEF Waiting, At
<1>7. /\ Len(q) \in Nat /\ Len(Tail(q)) = Len(q) - 1 /\ DOMAIN q = 1 .. Len(q)
      /\ a = q[1] /\ 1 \in DOMAIN q /\ DOMAIN Tail(q) = 1 .. Len(q) - 1
      /\ \A j \in 1 .. Len(q) - 1 : Tail(q)[j] = q[j + 1] /\ j + 1 \in DOMAIN q
    BY <1>1, <1>2, <1>5
<1>8. Outstanding(c, s) \in Nat /\ Outstanding(c, s)' = Outstanding(c, s) - 1 /\ Less(c, s)
  <2>1. PICK y \in Nat : y = Cardinality(Asked(inq[s], c))
      BY <1>0, <1>4, AskedFinite DEF NetTypes
  <2>2. Outstanding(c, s) = Len(q) + y /\ Outstanding(c, s)' = Len(Tail(q)) + y
    <3>1. /\ Outstanding(c, s) = Len(sock[c][s]) + Cardinality(Asked(inq[s], c))
          /\ Outstanding(c, s)' = Len(sock'[c][s]) + Cardinality(Asked(inq'[s], c))
        BY <1>0, <1>4, Counted
    <3>2. sock'[c][s] = Tail(q) /\ inq'[s] = inq[s]
        BY <1>2, <1>4, <1>5
    <3> QED
        BY <1>1, <2>1, <3>1, <3>2
  <2>3. Outstanding(c, s) \in Nat /\ Outstanding(c, s)' = Outstanding(c, s) - 1
      BY <1>7, <2>2
  <2>4. \A n : Has(c, s, n)' => Has(c, s, n)
    <3>1. ASSUME NEW n, NEW j \in DOMAIN Tail(q), Tail(q)[j].of = n PROVE Has(c, s, n)
        BY <1>1, <1>7, <3>1 DEF Has
    <3>2. ASSUME NEW n, NEW j \in Asked(inq[s], c), inq[s][j].id = n PROVE Has(c, s, n)
        BY <3>2 DEF Has
    <3>3. sock'[c][s] = Tail(q) /\ inq'[s] = inq[s]
        BY <1>2, <1>4, <1>5
    <3> QED
        BY <3>1, <3>2, <3>3 DEF Has
  <2> QED
      BY <2>3, <2>4 DEF Less
<1>9. Has(c, s, a.of)
    BY <1>1, <1>7 DEF Has
<1>10. (\A i \in Server : cuts[c][i] = 0) => a.of = k.id
    BY <1>0, <1>1, <1>4, <1>9 DEF Good
<1>11. \A d \in Client, i \in Server : ~(d = c /\ i = s) => Less(d, i)
    BY <1>0, <1>2, <1>5, SameNet
<1>12. CASE UNCHANGED <<call, result>>
  <2>1. \A d \in Client, i \in Server : Waiting(d, i)' <=> Waiting(d, i)
      BY <1>12 DEF Waiting, At
  <2>2. \A d \in Client, i \in Server : Still(d, i)
      BY <1>2, <1>8, <1>11, <1>12, <2>1 DEF Still
  <2>3. \A d \in Client, i \in Server : Good(d, i)'
      BY <1>0, <2>2, GoodKept
  <2>4. \A d \in Client : Res(d)'
      BY <1>2, <1>12 DEF StepInv, Res
  <2> QED
      BY <2>3, <2>4
<1>13. ASSUME NEW ret, Return(c, k, ret, a.of)
       PROVE  (\A d \in Client, i \in Server : Good(d, i)') /\ \A d \in Client : Res(d)'
  <2>1. /\ \A i : ~Waiting(c, i)'
        /\ \A d \in Client : d # c => /\ call'[d] = call[d] /\ result'[d] = result[d]
                                      /\ \A i : Waiting(d, i)' <=> Waiting(d, i)
        /\ result'[c] = result[c] \/ (result'[c].of = a.of /\ result'[c].id = k.id)
      BY <1>0, <1>3, <1>13, ReturnWait
  <2>2. \A d \in Client, i \in Server : ~(d = c /\ i = s) => Still(d, i)
      BY <1>2, <1>6, <1>11, <2>1 DEF Still
  <2>3. Finishes(c, s)
    <3>1. PICK x \in Nat, u \in Nat : x = Outstanding(c, s) /\ u = cuts[c][s]
      <4>1. cuts[c][s] \in Nat
          BY <1>0, <1>4 DEF ClientTypes
      <4> QED
          BY <1>8, <4>1
    <3>2. x <= u + 1
        BY <1>0, <1>4, <1>6, <3>1 DEF Good
    <3>3. x - 1 <= u
        BY <3>2
    <3> QED
        BY <1>2, <1>8, <2>1, <3>1, <3>3 DEF Finishes
  <2>4. \A d \in Client, i \in Server : Still(d, i) \/ Finishes(d, i)
      BY <2>2, <2>3
  <2>5. \A d \in Client, i \in Server : Good(d, i)'
      BY <1>0, <2>4, GoodKept
  <2>6. \/ result'[c] = result[c] \/ result'[c].of = result'[c].id
        \/ \E i \in Server : cuts'[c][i] # 0
      BY <1>2, <1>10, <2>1
  <2>7. \A d \in Client : Res(d)'
      BY <1>2, <2>1, <2>6, ResKept
  <2> QED
      BY <2>5, <2>7
<1>14. UNCHANGED <<call, result>> \/ \E ret : Return(c, k, ret, a.of)
  <2>1. CASE recv_host(c)
    <3>1. \/ Return(c, k, "SYSTEM_ERROR", a.of) \/ UNCHANGED <<call, result>>
          \/ Return(c, k, a.ret, a.of)
        BY <1>1, <2>1 DEF recv_host, At
    <3> QED
        BY <3>1
  <2>2. CASE recv_route(c)
    <3>1. \/ Return(c, k, "SYSTEM_ERROR", a.of)
          \/ Return(c, k, IF k.op = "get_route" THEN "SUCC" ELSE a.ret, a.of)
        BY <1>1, <2>2 DEF recv_route, At
    <3> QED
        BY <3>1
  <2> QED
      BY <2>1, <2>2
<1> QED
    BY <1>12, <1>13, <1>14

\* The agent: a request becomes its answer, or is lost.
LEMMA ServerGood ==
    ASSUME StepInv, ClientTypes', NetTypes', NEW i \in Server, serve(i) \/ report_cb(i) \/ Ends
    PROVE  (\A d \in Client, h \in Server : Good(d, h)') /\ \A d \in Client : Res(d)'
<1>0. ClientTypes /\ NetTypes /\ \A d \in Client, h \in Server : Good(d, h)
    BY TypeParts DEF StepInv
<1>1. UNCHANGED client /\ err' = err
    BY DEF serve, report_cb, Ends
<1>2. ASSUME \A d \in Client, h \in Server : Less(d, h)
      PROVE  (\A d \in Client, h \in Server : Good(d, h)') /\ \A d \in Client : Res(d)'
  <2>1. \A d \in Client, h \in Server : Waiting(d, h)' <=> Waiting(d, h)
      BY <1>1 DEF Waiting, At, client
  <2>2. \A d \in Client, h \in Server : Still(d, h)
      BY <1>1, <1>2, <2>1 DEF Still, client
  <2>3. \A d \in Client, h \in Server : Good(d, h)'
      BY <1>0, <2>2, GoodKept
  <2>4. \A d \in Client : Res(d)'
      BY <1>1 DEF StepInv, Res, client
  <2> QED
      BY <2>3, <2>4
<1>3. CASE Ends
  <2>1. inq' = [j \in Server |-> <<>>] /\ sock' = sock
      BY <1>3 DEF Ends
  <2>2. ASSUME NEW d \in Client, NEW h \in Server PROVE Less(d, h)
    <3>1. inq'[h] = <<>> /\ Asked(inq'[h], d) = {}
        BY <2>1 DEF Asked
    <3>2. Cardinality(Asked(inq'[h], d)) = 0
        BY <3>1, FS_EmptySet
    <3>3. PICK x \in Nat, y \in Nat : x = Len(sock[d][h]) /\ y = Cardinality(Asked(inq[h], d))
      <4>1. sock[d][h] \in Seq(Answer) /\ inq[h] \in Seq(Request)
          BY <1>0 DEF NetTypes
      <4> QED
          BY <4>1, AskedFinite
    <3>4. Outstanding(d, h) = x + y /\ Outstanding(d, h)' = x + 0
        BY <1>0, <2>1, <3>2, <3>3, Counted
    <3>5. \A n : Has(d, h, n)' => Has(d, h, n)
        BY <2>1, <3>1 DEF Has
    <3> QED
        BY <3>4, <3>5 DEF Less
  <2> QED
      BY <1>2, <2>2
<1>4. CASE serve(i) \/ report_cb(i)
  <2>1. PICK q, r : q = inq[i] /\ r = Head(q)
      OBVIOUS
  <2>2. q # <<>> /\ inq' = [inq EXCEPT ![i] = Tail(@)]
      BY <1>4, <2>1 DEF serve, report_cb, Takes
  <2>3. q \in Seq(Request) /\ \A h \in Server : inq'[h] = IF h = i THEN Tail(q) ELSE inq[h]
      BY <1>0, <2>1, <2>2 DEF NetTypes
  <2>4. r \in Request /\ Tail(q) \in Seq(Request)
      BY <2>1, <2>2, <2>3, TailFacts
  <2>5. PICK a : /\ a.of = r.id
                 /\ \/ sock' = sock
                    \/ sock' = [sock EXCEPT ![r.client][i] = Append(@, a)] /\ r.op # "report"
    <3>1. CASE report_cb(i)
      <4>1. [of |-> r.id].of = r.id /\ sock' = sock
          BY <3>1 DEF report_cb
      <4> QED
          BY <4>1
    <3>2. CASE serve(i)
      <4>1. PICK ret : \/ sock' = sock
                       \/ sock' = [sock EXCEPT ![r.client][i] = Append(@,
                            [op |-> r.op, mod |-> r.mod, seq |-> r.seq, of |-> r.id, ret |-> ret])]
          BY <2>1, <3>2 DEF serve, send_message
      <4>2. PICK a : a = [op |-> r.op, mod |-> r.mod, seq |-> r.seq, of |-> r.id, ret |-> ret]
          OBVIOUS
      <4>3. a.of = r.id
          BY <4>2
      <4>4. r.op # "report"
          BY <2>1, <3>2 DEF serve
      <4> QED
          BY <4>1, <4>2, <4>3, <4>4
    <3> QED
        BY <1>4, <3>1, <3>2
  <2>6. r.client \in Client
      BY <2>4 DEF Request
  <2>7. ASSUME NEW d \in Client, NEW h \in Server
        PROVE  sock'[d][h] = sock[d][h] \/ (/\ h = i /\ Counts(r, d)
                                             /\ sock'[d][h] = Append(sock[d][h], a))
    <3>1. CASE sock' = sock
        BY <3>1
    <3>2. CASE sock' = [sock EXCEPT ![r.client][i] = Append(@, a)] /\ r.op # "report"
      <4>1. PICK e : e = r.client
          OBVIOUS
      <4>2. e \in Client /\ sock' = [sock EXCEPT ![e][i] = Append(@, a)]
          BY <2>6, <3>2, <4>1
      <4>3. sock'[d][h] = IF d = e /\ h = i THEN Append(sock[d][h], a) ELSE sock[d][h]
          BY <1>0, <4>2 DEF NetTypes
      <4>4. d = e => Counts(r, d)
          BY <3>2, <4>1 DEF Counts
      <4> QED
          BY <4>3, <4>4
    <3> QED
        BY <2>5, <3>1, <3>2
  <2>8. ASSUME NEW d \in Client PROVE Less(d, i)
    <3>1. /\ Cardinality(Asked(q, d)) = Cardinality(Asked(Tail(q), d)) + (IF Counts(r, d) THEN 1 ELSE 0)
          /\ \A j \in Asked(Tail(q), d) : j + 1 \in Asked(q, d) /\ Tail(q)[j] = q[j + 1]
          /\ Counts(r, d) => 1 \in Asked(q, d) /\ q[1] = r
        BY <2>1, <2>2, <2>3, AskedTail
    <3>2. PICK w, v : w = sock[d][i] /\ v = sock'[d][i]
        OBVIOUS
    <3>3. w \in Seq(Answer) /\ v \in Seq(Answer) /\ (v = w \/ (Counts(r, d) /\ v = Append(w, a)))
      <4>1. w \in Seq(Answer) /\ v \in Seq(Answer)
          BY <1>0, <3>2 DEF NetTypes
      <4> QED
          BY <2>7, <3>2, <4>1
    <3>4. PICK x \in Nat, y \in Nat, z \in Nat : x = Len(w) /\ y = Cardinality(Asked(q, d))
                                                /\ z = Cardinality(Asked(Tail(q), d))
      <4>1. Len(w) \in Nat
          BY <3>3
      <4>2. Cardinality(Asked(q, d)) \in Nat /\ Cardinality(Asked(Tail(q), d)) \in Nat
          BY <2>3, <2>4, AskedFinite
      <4> QED
          BY <4>1, <4>2
    <3>5. /\ Len(v) = x \/ (Counts(r, d) /\ Len(v) = x + 1)
          /\ \A j \in DOMAIN v : (j \in DOMAIN w /\ v[j] = w[j]) \/ (Counts(r, d) /\ v[j] = a)
        BY <3>3, <3>4
    <3>6. Outstanding(d, i) = x + y /\ Outstanding(d, i)' = Len(v) + z
      <4>1. /\ Outstanding(d, i) = Len(sock[d][i]) + Cardinality(Asked(inq[i], d))
            /\ Outstanding(d, i)' = Len(sock'[d][i]) + Cardinality(Asked(inq'[i], d))
          BY <1>0, Counted
      <4> QED
          BY <2>1, <2>3, <3>2, <3>4, <4>1
    <3>7. Outstanding(d, i)' <= Outstanding(d, i)
        BY <3>1, <3>4, <3>5, <3>6
    <3>8. ASSUME NEW n, NEW j \in DOMAIN v, v[j].of = n PROVE Has(d, i, n)
        BY <2>1, <2>5, <3>1, <3>2, <3>5, <3>8 DEF Has
    <3>9. ASSUME NEW n, NEW j \in Asked(Tail(q), d), Tail(q)[j].id = n PROVE Has(d, i, n)
        BY <2>1, <3>1, <3>9 DEF Has
    <3>10. inq'[i] = Tail(q)
        BY <2>3
    <3>11. \A n : Has(d, i, n)' => Has(d, i, n)
        BY <3>2, <3>8, <3>9, <3>10 DEF Has
    <3> QED
        BY <3>7, <3>11 DEF Less
  <2>9. ASSUME NEW d \in Client, NEW h \in Server, h # i PROVE Less(d, h)
    <3>1. sock'[d][h] = sock[d][h] /\ inq'[h] = inq[h]
        BY <2>3, <2>7, <2>9
    <3> QED
        BY <1>0, <3>1, SameNet
  <2>10. \A d \in Client, h \in Server : Less(d, h)
      BY <2>8, <2>9
  <2> QED
      BY <1>2, <2>10
<1> QED
    BY <1>3, <1>4

\* For any number of clients, servers, calls and signals, and buffers of any
\* size: what later calls find in a socket of the API is never more than the
\* receptions that signals ended, and a client that none has disturbed gets
\* from every call the answer of that call (InStep).
THEOREM StepsSafe == Spec => [](TypeOK /\ InStep)
<1>1. Init => StepInv
  <2> SUFFICES ASSUME Init PROVE StepInv
      OBVIOUS
  <2>1. TypeOK
      BY InitTypes
  <2>2. ASSUME NEW c \in Client, NEW i \in Server PROVE Good(c, i)
    <3>1. sock[c][i] = <<>> /\ inq[i] = <<>> /\ cuts[c][i] = 0 /\ call[c] = None
        BY DEF Init
    <3>2. Asked(inq[i], c) = {} /\ DOMAIN (sock[c][i]) = {} /\ Len(sock[c][i]) = 0
        BY <3>1 DEF Asked
    <3>3. Outstanding(c, i) = 0 + Cardinality(Asked(inq[i], c))
        BY <3>2 DEF Outstanding, Asked
    <3>4. Outstanding(c, i) = 0
        BY <3>2, <3>3, FS_EmptySet
    <3>5. ~Waiting(c, i) /\ \A n : ~Has(c, i, n)
        BY <3>1, <3>2 DEF Waiting, Has
    <3> QED
        BY <3>1, <3>4, <3>5 DEF Good
  <2>3. \A c \in Client : Res(c)
      BY DEF Init, Res
  <2> QED
      BY <2>1, <2>2, <2>3 DEF StepInv
<1>2. StepInv /\ [Next]_vars => StepInv'
  <2> SUFFICES ASSUME StepInv, [Next]_vars PROVE StepInv'
      OBVIOUS
  <2>1. TypeOK /\ TypeOK'
      BY TypeStep DEF StepInv
  <2>2. ClientTypes' /\ NetTypes'
      BY <2>1 DEF TypeOK, ClientTypes, NetTypes, Why
  <2> DEFINE Goal == (\A d \in Client, h \in Server : Good(d, h)') /\ \A d \in Client : Res(d)'
  <2>3. ASSUME NEW c \in Client, Api(c) \/ InCall(c) PROVE Goal
    <3>1. ASSUME NEW m \in Mod, get_host(c, m) PROVE Goal
        BY <2>2, <3>1, BeginGood DEF get_host
    <3>2. ASSUME NEW m \in Mod, get_route(c, m) PROVE Goal
        BY <2>2, <3>2, BeginGood DEF get_route
    <3>3. ASSUME NEW m \in Mod, reg_init(c, m) PROVE Goal
        BY <2>2, <3>3, BeginGood DEF reg_init
    <3>4. ASSUME NEW m \in Mod, report(c, m) PROVE Goal
        BY <2>2, <3>4, ReportGood
    <3>5. CASE retry(c)
        BY <2>2, <3>5, RetryGood
    <3>6. CASE refused(c) \/ interrupted(c)
        BY <2>2, <3>6, EndGood
    <3>7. CASE recv_host(c) \/ recv_route(c)
        BY <2>2, <3>7, RecvGood
    <3> HIDE DEF Goal
    <3> QED
        BY <2>3, <3>1, <3>2, <3>3, <3>4, <3>5, <3>6, <3>7 DEF Api, InCall
  <2>4. ASSUME NEW i \in Server, UdpServer(i) \/ exit PROVE Goal
    <3>1. serve(i) \/ report_cb(i) \/ Ends
        BY <2>4 DEF UdpServer, Fatal, exit
    <3> QED
        BY <2>2, <3>1, ServerGood
  <2>5. ASSUME UNCHANGED <<client, net>> PROVE Goal
    <3>0. ClientTypes /\ NetTypes /\ \A d \in Client, h \in Server : Good(d, h)
        BY TypeParts DEF StepInv
    <3>1. /\ call' = call /\ cuts' = cuts /\ result' = result
          /\ sock' = sock /\ inq' = inq /\ err' = err
        BY <2>5 DEF client, net
    <3>2. \A d \in Client, h \in Server : Less(d, h)
        BY <2>2, <3>0, <3>1, SameNet
    <3>3. \A d \in Client, h \in Server : Waiting(d, h)' <=> Waiting(d, h)
        BY <3>1 DEF Waiting, At
    <3>4. \A d \in Client, h \in Server : Still(d, h)
        BY <3>1, <3>2, <3>3 DEF Still
    <3>5. \A d \in Client, h \in Server : Good(d, h)'
        BY <2>2, <3>0, <3>4, GoodKept
    <3>6. \A d \in Client : Res(d)'
        BY <3>1 DEF StepInv, Res
    <3> QED
        BY <3>5, <3>6
  <2> HIDE DEF Goal
  <2>6. ASSUME \/ main \/ (\E i \in Server : start_UDP_server(i) \/ reset_lb_status(i))
               \/ \E m \in Mod : deal_recv_route(m)
        PROVE  Goal
      BY <2>5, <2>6 DEF main, start_UDP_server, reset_lb_status, deal_recv_route
  <2>7. ASSUME UNCHANGED vars PROVE Goal
      BY <2>5, <2>7 DEF vars
  <2>8. Goal
    <3>1. 0 \in Server
        BY ApiAssumption DEF Server
    <3> QED
        BY <2>3, <2>4, <2>6, <2>7, <3>1 DEF Next
  <2>9. (\A d \in Client, h \in Server : Good(d, h)') /\ \A d \in Client : Res(d)'
      BY <2>8 DEF Goal
  <2> QED
      BY <2>1, <2>9 DEF StepInv
<1>3. StepInv => TypeOK /\ InStep
    BY DEF StepInv, Good, Res, InStep
<1> QED
    BY <1>1, <1>2, <1>3, PTL DEF Spec
=============================================================================
