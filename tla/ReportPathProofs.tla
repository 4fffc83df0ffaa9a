-------------------------- MODULE ReportPathProofs --------------------------
(***************************************************************************)
(* Proofs about ReportPath, for any number of agents, pool threads, store  *)
(* threads, reports and connections: get_thread of the store threads' pool *)
(* (RoundRobinSafe), and what becomes of the reports an agent commits      *)
(* (ReportsSafe).                                                          *)
(***************************************************************************)
EXTENDS ReportPath, SequenceTheorems, TLAPS

Quiet == \A t \in Thread : ~InGetThread(t)

\* The store threads before i have been picked once more than the others.
Turn(i, k) == \A s \in Store : picked[s] = IF s < i THEN k + 1 ELSE k

PickTypes ==
    /\ pc \in [Thread -> {"idle", "increment", "wrap", "send"}]
    /\ reg \in [Thread -> Nat] /\ index \in Nat /\ picked \in [Store -> Nat]
    /\ overlapped \in BOOLEAN /\ crashed \in BOOLEAN

\* A single thread in get_thread, and what it has loaded.
Alone ==
    /\ \A t, u \in Thread : InGetThread(t) /\ InGetThread(u) => t = u
    /\ \A t \in Thread :
         /\ pc[t] # "idle" => reg[t] \in Store
         /\ pc[t] = "wrap" => index = reg[t] + 1
    /\ Quiet => index \in Store

\* Whose turn it is: that of index_, or of the register of the thread inside.
Turns ==
    \E k \in Nat : /\ Quiet => Turn(index, k)
                   /\ \A t \in Thread : InGetThread(t) => Turn(reg[t], k)

PickInv == PickTypes /\ (~overlapped => ~crashed /\ Alone /\ Turns)

\* The store threads are numbers.
LEMMA StoreFacts ==
    NumStore \in Nat /\ NumStore > 0 /\ Store \subseteq Nat /\ \A i \in Nat : i \in Store <=> i < NumStore
BY ReportAssumption DEF Store

\* get_thread loads index_: nobody else is inside, or the two overlap.
LEMMA LoadStep ==
    ASSUME PickInv, NEW t \in Thread, NEW a \in Agent, NEW e \in Conn(a), get_report_status(t, a, e)
    PROVE  PickInv'
<1>1. /\ pc[t] = "idle" /\ reg' = [reg EXCEPT ![t] = index] /\ pc' = [pc EXCEPT ![t] = "increment"]
      /\ overlapped' = (overlapped \/ \E u \in Thread \ {t} : InGetThread(u))
      /\ index' = index /\ picked' = picked /\ crashed' = crashed
    BY DEF get_report_status
<1>2. PickTypes'
    BY <1>1 DEF PickInv, PickTypes
<1>3. ASSUME ~overlapped' PROVE ~crashed' /\ Alone' /\ Turns'
  <2>1. ~overlapped /\ ~crashed /\ Alone /\ Turns /\ Quiet
      BY <1>1, <1>3 DEF PickInv, PickTypes, Quiet, InGetThread
  <2>2. index \in Store
      BY <2>1 DEF Alone
  <2>3. \A u \in Thread : /\ u # t => pc'[u] = pc[u] /\ reg'[u] = reg[u]
                          /\ u = t => pc'[u] = "increment" /\ reg'[u] = index
      BY <1>1 DEF PickInv, PickTypes
  <2>4. InGetThread(t)' /\ \A u \in Thread : InGetThread(u)' => u = t
      BY <2>1, <2>3 DEF InGetThread, Quiet
  <2>5. Alone'
      BY <1>1, <2>1, <2>2, <2>3, <2>4 DEF Alone, Quiet, InGetThread
  <2>6. Turns'
    <3>1. PICK k \in Nat : Turn(index, k)
        BY <2>1 DEF Turns
    <3>2. \A u \in Thread : InGetThread(u)' => Turn(reg[u], k)'
        BY <1>1, <2>3, <2>4, <3>1 DEF Turn
    <3> QED
        BY <2>4, <3>2 DEF Turns, Quiet
  <2> QED
      BY <1>1, <2>1, <2>5, <2>6
<1> QED
    BY <1>2, <1>3 DEF PickInv

\* index_++
LEMMA IncrementStep ==
    ASSUME PickInv, NEW t \in Thread, increment(t)
    PROVE  PickInv'
<1>1. /\ pc[t] = "increment" /\ index' = reg[t] + 1 /\ pc' = [pc EXCEPT ![t] = "wrap"]
      /\ UNCHANGED <<reg, picked, overlapped, crashed>>
    BY DEF increment
<1>2. PickTypes'
    BY <1>1 DEF PickInv, PickTypes
<1>3. \A u \in Thread : /\ u # t => pc'[u] = pc[u]
                        /\ u = t => pc'[u] = "wrap"
    BY <1>1 DEF PickInv, PickTypes
<1>4. InGetThread(t) /\ \A u \in Thread : InGetThread(u)' <=> InGetThread(u)
    BY <1>1, <1>3 DEF InGetThread
<1>5. ASSUME ~overlapped' PROVE ~crashed' /\ Alone' /\ Turns'
  <2>1. ~overlapped /\ ~crashed /\ Alone /\ Turns
      BY <1>1, <1>5 DEF PickInv
  <2>2. ~Quiet /\ ~Quiet'
      BY <1>4 DEF Quiet
  <2>3. Alone'
      BY <1>1, <1>3, <1>4, <2>1, <2>2 DEF Alone, InGetThread
  <2>4. Turns'
      BY <1>1, <1>4, <2>1, <2>2 DEF Turns, Turn
  <2> QED
      BY <1>1, <2>1, <2>3, <2>4
<1> QED
    BY <1>2, <1>5 DEF PickInv

\* The wrap, whichever value it tests: alone, both are the same.
LEMMA WrapStep ==
    ASSUME PickInv, NEW t \in Thread, wrap(t)
    PROVE  PickInv'
<1>1. /\ pc[t] = "wrap" /\ pc' = [pc EXCEPT ![t] = "send"]
      /\ \E v \in {reg[t] + 1, index} : index' = IF v = NumStore THEN 0 ELSE index
      /\ picked' = [s \in Store |-> IF s = reg[t] THEN picked[s] + 1 ELSE picked[s]]
      /\ UNCHANGED <<reg, overlapped, crashed>>
    BY DEF wrap
<1>2. PickTypes'
  <2>1. index' \in Nat
      BY <1>1 DEF PickInv, PickTypes
  <2>2. picked' \in [Store -> Nat]
      BY <1>1 DEF PickInv, PickTypes
  <2> QED
      BY <1>1, <2>1, <2>2 DEF PickInv, PickTypes
<1>3. \A u \in Thread : /\ u # t => pc'[u] = pc[u]
                        /\ u = t => pc'[u] = "send"
    BY <1>1 DEF PickInv, PickTypes
<1>4. ASSUME ~overlapped' PROVE ~crashed' /\ Alone' /\ Turns'
  <2>1. ~overlapped /\ ~crashed /\ Alone /\ Turns
      BY <1>1, <1>4 DEF PickInv
  <2>2. InGetThread(t) /\ ~InGetThread(t)' /\ \A u \in Thread : u # t => ~InGetThread(u) /\ ~InGetThread(u)'
      BY <1>1, <1>3, <2>1 DEF Alone, InGetThread
  <2>3. Quiet' /\ reg[t] \in Store /\ index = reg[t] + 1
      BY <1>1, <2>1, <2>2 DEF Quiet, Alone
  <2>4. index' = IF reg[t] + 1 = NumStore THEN 0 ELSE reg[t] + 1
      BY <1>1, <2>3
  <2>5. index' \in Store
      BY <2>3, <2>4, ReportAssumption DEF Store
  <2>6. Alone'
      BY <1>1, <1>3, <2>1, <2>2, <2>3, <2>5 DEF Alone, InGetThread
  <2>7. Turns'
    <3>1. PICK k \in Nat : Turn(reg[t], k)
        BY <2>1, <2>2 DEF Turns
    <3>2. \A s \in Store : picked'[s] = IF s < reg[t] + 1 THEN k + 1 ELSE k
        BY <1>1, <2>3, <3>1, ReportAssumption DEF Turn, Store, PickInv, PickTypes
    <3>3. CASE reg[t] + 1 = NumStore
      <4>1. Turn(index, k + 1)'
          BY <1>1, <2>3, <2>4, <3>2, <3>3, StoreFacts DEF Turn
      <4> QED
          BY <2>3, <4>1 DEF Turns, Quiet
    <3>4. CASE reg[t] + 1 # NumStore
      <4>1. Turn(index, k)'
          BY <2>4, <3>2, <3>4 DEF Turn
      <4> QED
          BY <2>3, <4>1 DEF Turns, Quiet
    <3> QED
        BY <3>3, <3>4
  <2> QED
      BY <1>1, <2>1, <2>6, <2>7
<1> QED
    BY <1>2, <1>4 DEF PickInv

\* The send: alone, the register is an index of queues_.
LEMMA SendSteps ==
    ASSUME PickInv, NEW t \in Thread, send(t) \/ SendWild(t)
    PROVE  PickInv'
<1>1. CASE send(t)
  <2>1. /\ pc[t] = "send" /\ pc' = [pc EXCEPT ![t] = "idle"]
        /\ UNCHANGED <<reg, index, picked, overlapped, crashed>>
      BY <1>1 DEF send
  <2>2. PickTypes'
      BY <2>1 DEF PickInv, PickTypes
  <2>3. \A u \in Thread : /\ u # t => pc'[u] = pc[u]
                          /\ u = t => pc'[u] = "idle"
      BY <2>1 DEF PickInv, PickTypes
  <2>4. \A u \in Thread : InGetThread(u)' <=> InGetThread(u)
      BY <2>1, <2>3 DEF InGetThread
  <2>5. Quiet' <=> Quiet
      BY <2>4 DEF Quiet
  <2>6. Alone => Alone'
      BY <2>1, <2>3, <2>4, <2>5 DEF Alone
  <2>7. Turns => Turns'
      BY <2>1, <2>4, <2>5 DEF Turns, Turn
  <2> QED
      BY <2>1, <2>2, <2>6, <2>7 DEF PickInv
<1>2. CASE SendWild(t)
  <2>1. /\ pc[t] = "send" /\ reg[t] >= NumStore /\ crashed' = TRUE
        /\ UNCHANGED <<pc, reg, index, picked, overlapped>>
      BY <1>2 DEF SendWild, pool
  <2>2. overlapped
    <3> SUFFICES ASSUME ~overlapped PROVE FALSE
        BY DEF PickInv, PickTypes
    <3>1. reg[t] \in Store
        BY <2>1 DEF PickInv, Alone
    <3> QED
        BY <2>1, <3>1, ReportAssumption DEF Store
  <2> QED
      BY <2>1, <2>2 DEF PickInv, PickTypes
<1> QED
    BY <1>1, <1>2

\* Steps outside get_thread.
LEMMA ElsewhereStep ==
    ASSUME PickInv, UNCHANGED <<pc, reg, index, picked, overlapped, crashed>>
    PROVE  PickInv'
BY DEF PickInv, PickTypes, Alone, Turns, Turn, Quiet, InGetThread

\* For any number of threads on either side, get_thread is a round robin, and
\* queues_ is read inside its bounds, until two pool threads are in it at the
\* same time (RoundRobin).
THEOREM RoundRobinSafe == Spec => []RoundRobin
<1>1. Init => PickInv
  <2> SUFFICES ASSUME Init PROVE PickInv
      OBVIOUS
  <2>1. /\ pc = [t \in Thread |-> "idle"] /\ reg = [t \in Thread |-> 0] /\ index = 0
        /\ picked = [s \in Store |-> 0] /\ overlapped = FALSE /\ crashed = FALSE
      BY DEF Init
  <2>2. PickTypes
      BY <2>1 DEF PickTypes
  <2>3. Quiet
      BY <2>1 DEF Quiet, InGetThread
  <2>4. Alone
      BY <2>1, <2>3, StoreFacts DEF Alone, Quiet
  <2>5. Turn(index, 0)
      BY <2>1, StoreFacts DEF Turn
  <2> QED
      BY <2>1, <2>2, <2>3, <2>4, <2>5 DEF PickInv, Turns, Quiet
<1>2. PickInv /\ [Next]_vars => PickInv'
  <2> SUFFICES ASSUME PickInv, [Next]_vars PROVE PickInv'
      OBVIOUS
  <2>1. CASE \E a \in Agent : commit(a) \/ Client(a) \/ clean_conn(a)
    <3>1. UNCHANGED <<pc, reg, index, picked, overlapped, crashed>>
        BY <2>1 DEF commit, Client, clean_conn, new_report_request, do_write, connection_delay, pool
    <3> QED
        BY <3>1, ElsewhereStep
  <2>2. CASE \E t \in Thread : PoolThread(t)
      BY <2>2, LoadStep, IncrementStep, WrapStep, SendSteps DEF PoolThread
  <2>3. CASE \E s \in Store : StoreThread(s)
    <3>1. UNCHANGED <<pc, reg, index, picked, overlapped, crashed>>
        BY <2>3 DEF StoreThread, thread_report, store, store_fails, pool
    <3> QED
        BY <3>1, ElsewhereStep
  <2>4. CASE UNCHANGED vars
      BY <2>4, ElsewhereStep DEF vars, pool
  <2> QED
      BY <2>1, <2>2, <2>3, <2>4 DEF Next
<1>3. PickInv => RoundRobin
  <2> SUFFICES ASSUME PickInv, ~overlapped
               PROVE  ~crashed /\ \A s1, s2 \in Store : picked[s1] <= picked[s2] + 1
      BY DEF RoundRobin
  <2>1. \E k \in Nat, i \in Nat : Turn(i, k)
      BY DEF PickInv, PickTypes, Turns, Quiet
  <2>2. PICK k \in Nat, i \in Nat : Turn(i, k)
      BY <2>1
  <2>3. \A s \in Store : picked[s] = k \/ picked[s] = k + 1
      BY <2>2 DEF Turn
  <2> QED
      BY <2>3 DEF PickInv
<1> QED
    BY <1>1, <1>2, <1>3, PTL DEF Spec

-----------------------------------------------------------------------------
(* Types, and the size of the output buffer.                                *)

\* The state of the agents and of their connections.
AgentTypes ==
    /\ issued \in [Agent -> Nat]
    /\ queue \in [Agent -> Seq(Nat)]
    /\ obuf \in [Agent -> Seq(Nat)] /\ \A a \in Agent : Len(obuf[a]) <= ObufCap
    /\ conn \in [Agent -> {"up", "connecting", "failed", "exited"}]
    /\ epoch \in [Agent -> Nat] /\ DOMAIN home = Agent /\ DOMAIN wire = Agent
    /\ \A a \in Agent : /\ epoch[a] \in Conn(a) /\ home[a] \in [Conn(a) -> Thread]
                       /\ wire[a] \in [Conn(a) -> Seq(Report)]

\* The state of the service.
ServiceTypes ==
    /\ pc \in [Thread -> {"idle", "increment", "wrap", "send"}]
    /\ req \in [Thread -> Seq(Report)] /\ \A t \in Thread : Len(req[t]) <= 1
    /\ reg \in [Thread -> Nat] /\ index \in Nat
    /\ squeue \in [Store -> Seq(Report)] /\ batch \in [Store -> Seq(Report)]
    /\ picked \in [Store -> Nat]
    /\ overlapped \in BOOLEAN /\ crashed \in BOOLEAN

\* What became of the reports.
FateTypes ==
    /\ row \in [Agent -> Nat]
    /\ stored \in [Agent -> SUBSET (Nat \X Store \X Nat)]
    /\ lost \in [Agent -> SUBSET Nat]

\* The parts of the type invariant.
LEMMA TypeParts ==
    /\ TypeOK <=> AgentTypes /\ ServiceTypes /\ FateTypes
    /\ TypeOK' <=> AgentTypes' /\ ServiceTypes' /\ FateTypes'
BY DEF TypeOK, AgentTypes, ServiceTypes, FateTypes

\* The fields of a report.
LEMMA ReportFields ==
    \A r \in Report : r.agent \in Agent /\ r.n \in Nat /\ r.conn \in Nat
BY DEF Report

\* What Tail leaves, and what Head takes.
LEMMA TailFacts ==
    ASSUME NEW S, NEW q \in Seq(S), q # <<>>
    PROVE  /\ Head(q) \in S /\ Head(q) = q[1] /\ Tail(q) \in Seq(S)
           /\ Len(q) \in Nat /\ Len(q) > 0 /\ Len(Tail(q)) = Len(q) - 1
           /\ \A i \in 1 .. Len(q) - 1 : Tail(q)[i] = q[i + 1]
<1>1. Len(q) \in Nat /\ Len(q) > 0
    BY EmptySeq, LenProperties
<1>2. Head(q) \in S /\ Head(q) = q[1] /\ Tail(q) \in Seq(S) /\ Len(Tail(q)) = Len(q) - 1
      /\ \A i \in 1 .. Len(q) - 1 : Tail(q)[i] = q[i + 1]
    BY <1>1, HeadTailProperties
<1> QED
    BY <1>1, <1>2

\* The steps of an agent.
LEMMA AgentTypeStep ==
    ASSUME TypeOK, NEW a \in Agent, commit(a) \/ Client(a) \/ clean_conn(a)
    PROVE  TypeOK'
<1>0. AgentTypes /\ ServiceTypes /\ FateTypes
    BY TypeParts
<1>1. /\ queue[a] \in Seq(Nat) /\ obuf[a] \in Seq(Nat) /\ epoch[a] \in Conn(a) /\ epoch[a] \in Nat
      /\ wire[a][epoch[a]] \in Seq(Report) /\ Len(queue[a]) \in Nat /\ Len(obuf[a]) \in Nat
      /\ Len(wire[a][epoch[a]]) \in Nat /\ Len(obuf[a]) <= ObufCap /\ ObufCap \in Nat /\ issued[a] \in Nat
  <2>1. /\ queue[a] \in Seq(Nat) /\ obuf[a] \in Seq(Nat) /\ epoch[a] \in Conn(a) /\ epoch[a] \in Nat
        /\ wire[a][epoch[a]] \in Seq(Report) /\ Len(obuf[a]) <= ObufCap /\ issued[a] \in Nat
      BY <1>0 DEF AgentTypes
  <2> QED
      BY <2>1, LenProperties, ReportAssumption
<1>2. ServiceTypes'
    BY <1>0 DEF commit, Client, new_report_request, do_write, connection_delay, clean_conn, pool, ServiceTypes
<1>3. UNCHANGED <<row, stored>>
    BY DEF commit, Client, new_report_request, do_write, connection_delay, clean_conn, db
<1>4. CASE commit(a)
  <2>1. Append(queue[a], issued[a] + 1) \in Seq(Nat)
      BY <1>1, AppendProperties
  <2>2. issued' \in [Agent -> Nat] /\ queue' \in [Agent -> Seq(Nat)]
    <3>1. issued[a] + 1 \in Nat
        BY <1>1
    <3>2. issued' = [issued EXCEPT ![a] = issued[a] + 1] /\ queue' = [queue EXCEPT ![a] = Append(queue[a], issued[a] + 1)]
        BY <1>4 DEF commit
    <3> QED
        BY <1>0, <2>1, <3>1, <3>2 DEF AgentTypes
  <2>3. AgentTypes' /\ FateTypes'
      BY <1>0, <1>4, <2>2 DEF commit, AgentTypes, FateTypes, db
  <2> QED
      BY <1>2, <2>3, TypeParts
<1>5. CASE new_report_request(a)
  <2> DEFINE k == Accepted(a)
             u == SubSeq(queue[a], 1, k)
  <2>1. k \in 0 .. Len(queue[a]) /\ k <= ObufCap - Len(obuf[a])
    <3>1. \A n, m, c \in Nat : m <= c =>
              /\ 0 \in 0 .. n /\ 0 <= c - m
              /\ n <= c - m => n \in 0 .. n
              /\ ~(n <= c - m) => c - m \in 0 .. n /\ c - m <= c - m
        OBVIOUS
    <3>2. k = 0 \/ (k = Len(queue[a]) /\ Len(queue[a]) <= ObufCap - Len(obuf[a]))
              \/ (k = ObufCap - Len(obuf[a]) /\ ~(Len(queue[a]) <= ObufCap - Len(obuf[a])))
        BY DEF Accepted
    <3> HIDE DEF k
    <3> QED
        BY <1>1, <3>1, <3>2
  <2>2. /\ queue' = [queue EXCEPT ![a] = <<>>] /\ obuf' = [obuf EXCEPT ![a] = @ \o u]
        /\ lost' = [lost EXCEPT ![a] = @ \cup {queue[a][i] : i \in k + 1 .. Len(queue[a])}]
        /\ UNCHANGED <<issued, conn, epoch, home, wire>>
      BY <1>5 DEF new_report_request
  <2>3. \A i \in 1 .. Len(queue[a]) : queue[a][i] \in Nat
      BY <1>1, ElementOfSeq
  <2> HIDE DEF k
  <2>4. u \in Seq(Nat) /\ Len(u) = k
      BY <1>1, <2>1, <2>3
  <2> HIDE DEF u
  <2>5. obuf[a] \o u \in Seq(Nat) /\ Len(obuf[a] \o u) = Len(obuf[a]) + Len(u)
      BY <1>1, <2>4, ConcatProperties
  <2>6. Len(obuf[a] \o u) <= ObufCap
      BY <1>1, <2>1, <2>4, <2>5
  <2>7. <<>> \in Seq(Nat)
      BY EmptySeq
  <2>8. queue' \in [Agent -> Seq(Nat)]
      BY <1>0, <2>2, <2>7 DEF AgentTypes
  <2>9. obuf' \in [Agent -> Seq(Nat)] /\ \A b \in Agent : Len(obuf'[b]) <= ObufCap
    <3>1. obuf \in [Agent -> Seq(Nat)] /\ \A b \in Agent : Len(obuf[b]) <= ObufCap
        BY <1>0 DEF AgentTypes
    <3>2. obuf' \in [Agent -> Seq(Nat)]
        BY <2>2, <2>5, <3>1
    <3>3. \A b \in Agent : obuf'[b] = IF b = a THEN obuf[a] \o u ELSE obuf[b]
        BY <2>2, <3>1
    <3> QED
        BY <2>6, <3>1, <3>2, <3>3
  <2>10. \A i \in k + 1 .. Len(queue[a]) : queue[a][i] \in Nat
    <3>1. Len(queue[a]) \in Nat /\ k \in Nat
        BY <1>1, <2>1
    <3> QED
        BY <2>3, <3>1
  <2>11. lost' \in [Agent -> SUBSET Nat]
      BY <1>0, <2>2, <2>10 DEF FateTypes
  <2>12. AgentTypes'
      BY <1>0, <2>2, <2>8, <2>9 DEF AgentTypes
  <2>13. FateTypes'
      BY <1>0, <1>3, <2>11 DEF FateTypes
  <2> QED
      BY <1>2, <2>12, <2>13, TypeParts
<1>6. CASE do_write(a)
  <2> DEFINE r == Rep(a, Head(obuf[a]))
             e == epoch[a]
  <2>1. /\ Head(obuf[a]) \in Nat /\ Tail(obuf[a]) \in Seq(Nat) /\ Len(Tail(obuf[a])) <= ObufCap
    <3>1. obuf[a] # <<>>
        BY <1>6 DEF do_write
    <3>2. Head(obuf[a]) \in Nat /\ Tail(obuf[a]) \in Seq(Nat) /\ Len(Tail(obuf[a])) = Len(obuf[a]) - 1
        BY <1>1, <3>1, TailFacts
    <3> QED
        BY <1>1, <3>2
  <2>2. r \in Report
      BY <1>1, <2>1 DEF Rep, Report
  <2>3. /\ wire' = [wire EXCEPT ![a][e] = Append(@, r)] /\ obuf' = [obuf EXCEPT ![a] = Tail(@)]
        /\ UNCHANGED <<issued, queue, conn, epoch, home, lost>>
      BY <1>6 DEF do_write
  <2> HIDE DEF r
  <2>4. Append(wire[a][e], r) \in Seq(Report)
      BY <1>1, <2>2, AppendProperties
  <2>5. obuf' \in [Agent -> Seq(Nat)] /\ \A b \in Agent : Len(obuf'[b]) <= ObufCap
      BY <1>0, <2>1, <2>3 DEF AgentTypes
  <2>6. DOMAIN wire' = Agent /\ \A b \in Agent : wire'[b] \in [Conn(b) -> Seq(Report)]
      BY <1>0, <2>3, <2>4 DEF AgentTypes
  <2>7. AgentTypes'
      BY <1>0, <2>3, <2>5, <2>6 DEF AgentTypes
  <2>8. FateTypes'
      BY <1>0, <1>3, <2>3 DEF FateTypes
  <2> QED
      BY <1>2, <2>7, <2>8, TypeParts
<1>7. CASE connection_delay(a)
  <2>1. AgentTypes'
      BY <1>0, <1>7 DEF connection_delay, AgentTypes
  <2>2. FateTypes'
      BY <1>0, <1>7 DEF connection_delay, FateTypes, db
  <2> QED
      BY <1>2, <2>1, <2>2, TypeParts
<1>8. CASE clean_conn(a)
  <2> DEFINE w == wire[a][epoch[a]]
             e == epoch[a]
  <2>1. PICK k \in 0 .. Len(w) :
          /\ wire' = [wire EXCEPT ![a][e] = SubSeq(w, 1, k)]
          /\ lost' = [lost EXCEPT ![a] = @ \cup {w[i].n : i \in k + 1 .. Len(w)}]
      BY <1>8 DEF clean_conn
  <2>2. PICK c \in {"up", "connecting", "exited"}, t \in Thread :
          /\ conn' = [conn EXCEPT ![a] = c]
          /\ home' = [home EXCEPT ![a][e + 1] = t]
      BY <1>8 DEF clean_conn
  <2>3. e < MaxConn[a] /\ epoch' = [epoch EXCEPT ![a] = @ + 1] /\ UNCHANGED <<issued, queue, obuf>>
      BY <1>8 DEF clean_conn
  <2>4. e + 1 \in Conn(a) /\ e + 1 \in Nat
      BY <1>1, <2>3, ReportAssumption DEF Conn
  <2>5. \A i \in 1 .. Len(w) : w[i] \in Report
      BY <1>1, ElementOfSeq
  <2>6. SubSeq(w, 1, k) \in Seq(Report)
      BY <1>1, <2>5
  <2>7. \A i \in k + 1 .. Len(w) : w[i].n \in Nat
    <3>1. \A i \in k + 1 .. Len(w) : i \in 1 .. Len(w)
        BY <1>1
    <3> QED
        BY <2>5, <3>1, ReportFields
  <2>8. DOMAIN wire' = Agent /\ \A b \in Agent : wire'[b] \in [Conn(b) -> Seq(Report)]
      BY <1>0, <2>1, <2>6 DEF AgentTypes
  <2>9. DOMAIN home' = Agent /\ \A b \in Agent : home'[b] \in [Conn(b) -> Thread]
      BY <1>0, <2>2 DEF AgentTypes
  <2>10. epoch' \in [Agent -> Nat] /\ \A b \in Agent : epoch'[b] \in Conn(b)
      BY <1>0, <2>3, <2>4 DEF AgentTypes
  <2>11. lost' \in [Agent -> SUBSET Nat]
      BY <1>0, <2>1, <2>7 DEF FateTypes
  <2>12. conn' \in [Agent -> {"up", "connecting", "failed", "exited"}]
      BY <1>0, <2>2 DEF AgentTypes
  <2>13. AgentTypes'
      BY <1>0, <2>3, <2>8, <2>9, <2>10, <2>12 DEF AgentTypes
  <2>14. FateTypes'
      BY <1>0, <1>3, <2>11 DEF FateTypes
  <2> QED
      BY <1>2, <2>13, <2>14, TypeParts
<1> QED
    BY <1>4, <1>5, <1>6, <1>7, <1>8 DEF Client

\* The steps of the service.
LEMMA ServiceTypeStep ==
    ASSUME TypeOK, (\E t \in Thread : PoolThread(t)) \/ (\E s \in Store : StoreThread(s))
    PROVE  TypeOK'
<1>0. AgentTypes /\ ServiceTypes /\ FateTypes
    BY TypeParts
<1>1. ASSUME NEW t \in Thread, NEW a \in Agent, NEW e \in Conn(a), get_report_status(t, a, e) PROVE TypeOK'
  <2>1. /\ wire[a][e] # <<>> /\ wire' = [wire EXCEPT ![a][e] = Tail(@)]
        /\ req' = [req EXCEPT ![t] = <<Head(wire[a][e])>>] /\ reg' = [reg EXCEPT ![t] = index]
        /\ pc' = [pc EXCEPT ![t] = "increment"]
        /\ overlapped' = (overlapped \/ \E u \in Thread \ {t} : InGetThread(u))
        /\ UNCHANGED <<issued, queue, obuf, conn, epoch, home, index, squeue, batch, row, stored, lost, picked, crashed>>
      BY <1>1 DEF get_report_status, agents, db
  <2>2. wire[a][e] \in Seq(Report)
      BY <1>0 DEF AgentTypes
  <2>3. Head(wire[a][e]) \in Report /\ Tail(wire[a][e]) \in Seq(Report)
      BY <2>1, <2>2, TailFacts
  <2>4. <<Head(wire[a][e])>> \in Seq(Report) /\ Len(<<Head(wire[a][e])>>) = 1
      BY <2>3
  <2>5. DOMAIN wire' = Agent /\ \A b \in Agent : wire'[b] \in [Conn(b) -> Seq(Report)]
      BY <1>0, <2>1, <2>3 DEF AgentTypes
  <2>6. req' \in [Thread -> Seq(Report)] /\ \A u \in Thread : Len(req'[u]) <= 1
      BY <1>0, <2>1, <2>4 DEF ServiceTypes
  <2>7. AgentTypes' /\ FateTypes'
      BY <1>0, <2>1, <2>5 DEF AgentTypes, FateTypes
  <2>8. ServiceTypes'
      BY <1>0, <2>1, <2>6 DEF ServiceTypes
  <2> QED
      BY <2>7, <2>8, TypeParts
<1>2. ASSUME NEW t \in Thread, increment(t) \/ wrap(t) \/ SendWild(t) PROVE TypeOK'
  <2>1. UNCHANGED <<issued, queue, obuf, conn, epoch, home, wire, row, stored, lost, req, squeue, batch, overlapped>>
      BY <1>2 DEF increment, wrap, SendWild, agents, db, pool
  <2>2. AgentTypes' /\ FateTypes'
      BY <1>0, <2>1 DEF AgentTypes, FateTypes
  <2>3. index' \in Nat /\ reg' \in [Thread -> Nat] /\ crashed' \in BOOLEAN
    <3>1. reg[t] \in Nat /\ index \in Nat
        BY <1>0 DEF ServiceTypes
    <3>2. index' = reg[t] + 1 \/ index' = 0 \/ index' = index
        BY <1>2 DEF increment, wrap, SendWild, pool
    <3>3. reg' = reg /\ (crashed' = crashed \/ crashed' = TRUE)
        BY <1>2 DEF increment, wrap, SendWild, pool
    <3>4. index' \in Nat
        BY <3>1, <3>2
    <3>5. reg' \in [Thread -> Nat]
        BY <1>0, <3>3 DEF ServiceTypes
    <3>6. crashed' \in BOOLEAN
        BY <1>0, <3>3, Zenon DEF ServiceTypes
    <3> QED
        BY <3>4, <3>5, <3>6
  <2>4. pc' \in [Thread -> {"idle", "increment", "wrap", "send"}]
      BY <1>0, <1>2 DEF increment, wrap, SendWild, pool, ServiceTypes
  <2>5. picked' \in [Store -> Nat]
    <3>1. CASE wrap(t)
        BY <1>0, <3>1 DEF wrap, ServiceTypes
    <3>2. CASE picked' = picked
        BY <1>0, <3>2 DEF ServiceTypes
    <3> QED
        BY <1>2, <3>1, <3>2 DEF increment, SendWild
  <2>6. ServiceTypes'
      BY <1>0, <2>1, <2>3, <2>4, <2>5 DEF ServiceTypes
  <2> QED
      BY <2>2, <2>6, TypeParts
<1>3. ASSUME NEW t \in Thread, send(t) PROVE TypeOK'
  <2>1. /\ squeue' = [squeue EXCEPT ![reg[t]] = @ \o req[t]] /\ req' = [req EXCEPT ![t] = <<>>]
        /\ pc' = [pc EXCEPT ![t] = "idle"] /\ reg[t] < NumStore
        /\ UNCHANGED <<issued, queue, obuf, conn, epoch, home, wire, reg, index, batch, row, stored, lost, picked, overlapped, crashed>>
      BY <1>3 DEF send, agents, db
  <2>2. reg[t] \in Store /\ req[t] \in Seq(Report)
    <3>1. reg[t] \in Nat /\ req[t] \in Seq(Report)
        BY <1>0 DEF ServiceTypes
    <3> QED
        BY <2>1, <3>1, StoreFacts
  <2>3. squeue[reg[t]] \o req[t] \in Seq(Report)
      BY <1>0, <2>2, ConcatProperties DEF ServiceTypes
  <2>4. <<>> \in Seq(Report) /\ Len(<<>>) = 0
      BY EmptySeq
  <2>5. AgentTypes' /\ FateTypes'
      BY <1>0, <2>1 DEF AgentTypes, FateTypes
  <2>6. squeue' \in [Store -> Seq(Report)]
      BY <1>0, <2>1, <2>2, <2>3 DEF ServiceTypes
  <2>7. req' \in [Thread -> Seq(Report)] /\ \A u \in Thread : Len(req'[u]) <= 1
      BY <1>0, <2>1, <2>4 DEF ServiceTypes
  <2>8. ServiceTypes'
      BY <1>0, <2>1, <2>6, <2>7 DEF ServiceTypes
  <2> QED
      BY <2>5, <2>8, TypeParts
<1>4. ASSUME NEW s \in Store, thread_report(s) PROVE TypeOK'
  <2>1. /\ batch' = [batch EXCEPT ![s] = squeue[s]] /\ squeue' = [squeue EXCEPT ![s] = <<>>]
        /\ UNCHANGED <<issued, queue, obuf, conn, epoch, home, wire, pc, req, reg, index, overlapped, row, stored, lost, picked, crashed>>
      BY <1>4 DEF thread_report, agents, db, pool
  <2>2. <<>> \in Seq(Report)
      BY EmptySeq
  <2>3. AgentTypes' /\ FateTypes'
      BY <1>0, <2>1 DEF AgentTypes, FateTypes
  <2>4. squeue' \in [Store -> Seq(Report)] /\ batch' \in [Store -> Seq(Report)]
      BY <1>0, <2>1, <2>2 DEF ServiceTypes
  <2>5. ServiceTypes'
      BY <1>0, <2>1, <2>4 DEF ServiceTypes
  <2> QED
      BY <2>3, <2>5, TypeParts
<1>5. ASSUME NEW s \in Store, store(s) \/ store_fails(s) PROVE TypeOK'
  <2> DEFINE r == Head(batch[s])
  <2>1. /\ batch[s] # <<>> /\ batch' = [batch EXCEPT ![s] = Tail(@)]
        /\ UNCHANGED <<issued, queue, obuf, conn, epoch, home, wire, pc, req, reg, index, overlapped, squeue, picked, crashed>>
      BY <1>5 DEF store, store_fails, agents, pool
  <2>2. batch[s] \in Seq(Report)
      BY <1>0 DEF ServiceTypes
  <2>3. r \in Report /\ Tail(batch[s]) \in Seq(Report)
      BY <2>1, <2>2, TailFacts
  <2>4. r.agent \in Agent /\ r.n \in Nat /\ r.conn \in Nat
      BY <2>3, ReportFields
  <2>5. batch' \in [Store -> Seq(Report)]
      BY <1>0, <2>1, <2>3 DEF ServiceTypes
  <2>6. ServiceTypes' /\ AgentTypes'
      BY <1>0, <2>1, <2>5 DEF ServiceTypes, AgentTypes
  <2>7. FateTypes'
    <3>1. CASE store(s)
      <4>1. /\ row' = [row EXCEPT ![r.agent] = r.n] /\ lost' = lost
            /\ stored' = [stored EXCEPT ![r.agent] = @ \cup {<<r.n, s, r.conn>>}]
          BY <3>1 DEF store
      <4> HIDE DEF r
      <4>2. <<r.n, s, r.conn>> \in Nat \X Store \X Nat
          BY <2>4
      <4> QED
          BY <1>0, <2>4, <4>1, <4>2 DEF FateTypes
    <3>2. CASE store_fails(s)
      <4>1. row' = row /\ stored' = stored /\ lost' = [lost EXCEPT ![r.agent] = @ \cup {r.n}]
          BY <3>2 DEF store_fails, db
      <4> HIDE DEF r
      <4> QED
          BY <1>0, <2>4, <4>1 DEF FateTypes
    <3> QED
        BY <1>5, <3>1, <3>2
  <2> QED
      BY <2>6, <2>7, TypeParts
<1> QED
    BY <1>1, <1>2, <1>3, <1>4, <1>5 DEF PoolThread, StoreThread

\* The initial states.
LEMMA InitTypes ==
    ASSUME Init
    PROVE  TypeOK
<1>1. <<>> \in Seq(Nat) /\ <<>> \in Seq(Report) /\ Len(<<>>) = 0 /\ Len(<<>>) <= ObufCap
    BY EmptySeq, ReportAssumption
<1>2. AgentTypes
  <2>1. PICK h \in [Agent -> Thread] : home = [a \in Agent |-> [e \in Conn(a) |-> h[a]]]
      BY DEF Init
  <2>2. DOMAIN home = Agent /\ \A a \in Agent : home[a] \in [Conn(a) -> Thread]
      BY <2>1
  <2>3. \A a \in Agent : 1 \in Conn(a)
      BY ReportAssumption DEF Conn
  <2>4. DOMAIN wire = Agent /\ \A a \in Agent : wire[a] \in [Conn(a) -> Seq(Report)]
      BY <1>1 DEF Init
  <2> QED
      BY <1>1, <2>2, <2>3, <2>4 DEF Init, AgentTypes
<1>3. ServiceTypes
  <2>1. req \in [Thread -> Seq(Report)] /\ \A t \in Thread : Len(req[t]) <= 1
      BY <1>1 DEF Init
  <2>2. squeue \in [Store -> Seq(Report)] /\ batch \in [Store -> Seq(Report)]
      BY <1>1 DEF Init
  <2>3. overlapped \in BOOLEAN /\ crashed \in BOOLEAN
      BY DEF Init
  <2> QED
      BY <2>1, <2>2, <2>3 DEF Init, ServiceTypes
<1>4. FateTypes
    BY DEF Init, FateTypes
<1> QED
    BY <1>2, <1>3, <1>4, TypeParts

-----------------------------------------------------------------------------
(* What a sequence of numbers, or of reports, holds, and its order.         *)

InNum(q, n) == \E j \in 1 .. Len(q) : q[j] = n
UpNum(q) == \A i, j \in 1 .. Len(q) : i < j => q[i] < q[j]

\* A report of agent a and connection e is among q; those of the same agent
\* and connection are in the order of their numbers.
InSeq(q, a, e, n) == \E j \in 1 .. Len(q) : q[j].agent = a /\ q[j].conn = e /\ q[j].n = n
UpSeq(q) ==
    \A i, j \in 1 .. Len(q) :
        i < j /\ q[i].agent = q[j].agent /\ q[i].conn = q[j].conn => q[i].n < q[j].n

\* The reports of q are those of agent a on its connection e.
Tagged(q, a, e) == \A i \in 1 .. Len(q) : q[i].agent = a /\ q[i].conn = e

\* A number is appended.
LEMMA NumAppend ==
    ASSUME NEW q \in Seq(Nat), NEW x \in Nat
    PROVE  /\ \A n : InNum(Append(q, x), n) <=> InNum(q, n) \/ n = x
           /\ UpNum(q) /\ (\A n : InNum(q, n) => n < x) => UpNum(Append(q, x))
<1> DEFINE p == Append(q, x)
<1>1. Len(q) \in Nat /\ Len(p) = Len(q) + 1 /\ p[Len(q) + 1] = x /\ \A i \in 1 .. Len(q) : p[i] = q[i]
    BY LenProperties, AppendProperties
<1> HIDE DEF p
<1>2. \A i : i \in 1 .. Len(p) <=> i \in 1 .. Len(q) \/ i = Len(q) + 1
    BY <1>1
<1>3. \A n : InNum(p, n) <=> InNum(q, n) \/ n = x
    BY <1>1, <1>2 DEF InNum
<1>4. ASSUME UpNum(q), \A n : InNum(q, n) => n < x PROVE UpNum(p)
  <2>1. \A i \in 1 .. Len(q) : q[i] < x
      BY <1>4 DEF InNum
  <2> SUFFICES ASSUME NEW i \in 1 .. Len(p), NEW j \in 1 .. Len(p), i < j PROVE p[i] < p[j]
      BY DEF UpNum
  <2>2. i \in 1 .. Len(q) /\ p[i] = q[i]
      BY <1>1, <1>2
  <2>3. CASE j \in 1 .. Len(q)
      BY <1>1, <1>4, <2>2, <2>3 DEF UpNum
  <2>4. CASE j = Len(q) + 1
      BY <1>1, <2>1, <2>2, <2>4
  <2> QED
      BY <1>2, <2>3, <2>4
<1> QED
    BY <1>3, <1>4 DEF p

\* The first number is taken.
LEMMA NumTail ==
    ASSUME NEW q \in Seq(Nat), q # <<>>
    PROVE  /\ \A n : InNum(q, n) <=> n = Head(q) \/ InNum(Tail(q), n)
           /\ UpNum(q) => UpNum(Tail(q)) /\ \A n : InNum(Tail(q), n) => Head(q) < n
<1> DEFINE p == Tail(q)
           h == Head(q)
<1>1. /\ h = q[1] /\ Len(q) \in Nat /\ Len(q) > 0 /\ Len(p) = Len(q) - 1
      /\ \A i \in 1 .. Len(q) - 1 : p[i] = q[i + 1]
    BY TailFacts
<1> HIDE DEF p, h
<1>2. /\ 1 \in 1 .. Len(q)
      /\ \A i \in 1 .. Len(p) : i + 1 \in 1 .. Len(q) /\ p[i] = q[i + 1] /\ 1 < i + 1
      /\ \A i \in 1 .. Len(q) : i = 1 \/ (i - 1 \in 1 .. Len(p) /\ p[i - 1] = q[i])
    BY <1>1
<1>3. \A n : InNum(q, n) <=> n = h \/ InNum(p, n)
    BY <1>1, <1>2 DEF InNum
<1>4. ASSUME UpNum(q) PROVE UpNum(p) /\ \A n : InNum(p, n) => h < n
    BY <1>1, <1>2, <1>4 DEF UpNum, InNum
<1> QED
    BY <1>3, <1>4 DEF p, h

\* The first k numbers, and the others.
LEMMA NumCut ==
    ASSUME NEW q \in Seq(Nat), NEW k \in 0 .. Len(q)
    PROVE  /\ \A n : InNum(q, n) <=> InNum(SubSeq(q, 1, k), n) \/ n \in {q[i] : i \in k + 1 .. Len(q)}
           /\ UpNum(q) => /\ UpNum(SubSeq(q, 1, k))
                          /\ \A n : InNum(SubSeq(q, 1, k), n) => n \notin {q[i] : i \in k + 1 .. Len(q)}
<1> DEFINE p == SubSeq(q, 1, k)
<1>0. Len(q) \in Nat /\ \A i \in 1 .. Len(q) : q[i] \in Nat
    BY LenProperties, ElementOfSeq
<1>1. Len(p) = k /\ \A i \in 1 .. k : p[i] = q[i]
    BY <1>0
<1> HIDE DEF p
<1>2. /\ \A i \in 1 .. k : i \in 1 .. Len(q)
      /\ \A i \in k + 1 .. Len(q) : i \in 1 .. Len(q) /\ \A j \in 1 .. k : j < i
      /\ \A i \in 1 .. Len(q) : i \in 1 .. k \/ i \in k + 1 .. Len(q)
    BY <1>0
<1>3. \A n : InNum(q, n) <=> InNum(p, n) \/ n \in {q[i] : i \in k + 1 .. Len(q)}
    BY <1>1, <1>2 DEF InNum
<1>4. ASSUME UpNum(q) PROVE UpNum(p)
    BY <1>1, <1>2, <1>4 DEF UpNum
<1>5. ASSUME UpNum(q), NEW n, InNum(p, n), n \in {q[i] : i \in k + 1 .. Len(q)} PROVE FALSE
  <2>1. PICK i \in k + 1 .. Len(q) : n = q[i]
      BY <1>5
  <2>2. PICK j \in 1 .. k : n = q[j]
      BY <1>1, <1>5 DEF InNum
  <2>3. q[j] < q[i] /\ q[i] \in Nat
      BY <1>0, <1>2, <1>5 DEF UpNum
  <2> QED
      BY <2>1, <2>2, <2>3
<1> QED
    BY <1>3, <1>4, <1>5 DEF p

\* One sequence of numbers after another.
LEMMA NumConcat ==
    ASSUME NEW p \in Seq(Nat), NEW q \in Seq(Nat)
    PROVE  /\ \A n : InNum(p \o q, n) <=> InNum(p, n) \/ InNum(q, n)
           /\ UpNum(p) /\ UpNum(q) /\ (\A m, n : InNum(p, m) /\ InNum(q, n) => m < n) => UpNum(p \o q)
<1> DEFINE u == p \o q
<1>1. /\ Len(p) \in Nat /\ Len(q) \in Nat /\ Len(u) = Len(p) + Len(q)
      /\ \A i \in 1 .. Len(u) : u[i] = IF i <= Len(p) THEN p[i] ELSE q[i - Len(p)]
    BY LenProperties, ConcatProperties
<1> HIDE DEF u
<1>2. /\ \A i \in 1 .. Len(p) : i \in 1 .. Len(u) /\ u[i] = p[i]
      /\ \A i \in 1 .. Len(q) : i + Len(p) \in 1 .. Len(u) /\ u[i + Len(p)] = q[i]
      /\ \A i \in 1 .. Len(u) : \/ i \in 1 .. Len(p) /\ u[i] = p[i]
                                \/ i - Len(p) \in 1 .. Len(q) /\ u[i] = q[i - Len(p)] /\ i > Len(p)
  <2>1. ASSUME NEW i \in 1 .. Len(p) PROVE i \in 1 .. Len(u) /\ u[i] = p[i]
      BY <1>1
  <2>2. ASSUME NEW i \in 1 .. Len(q) PROVE i + Len(p) \in 1 .. Len(u) /\ u[i + Len(p)] = q[i]
    <3>1. i + Len(p) \in 1 .. Len(u) /\ ~(i + Len(p) <= Len(p)) /\ (i + Len(p)) - Len(p) = i
        BY <1>1
    <3> QED
        BY <1>1, <3>1
  <2>3. ASSUME NEW i \in 1 .. Len(u)
        PROVE  \/ i \in 1 .. Len(p) /\ u[i] = p[i]
               \/ i - Len(p) \in 1 .. Len(q) /\ u[i] = q[i - Len(p)] /\ i > Len(p)
      BY <1>1
  <2> QED
      BY <2>1, <2>2, <2>3
<1>3. \A n : InNum(u, n) <=> InNum(p, n) \/ InNum(q, n)
    BY <1>2 DEF InNum
<1>4. ASSUME UpNum(p), UpNum(q), \A m, n : InNum(p, m) /\ InNum(q, n) => m < n PROVE UpNum(u)
  <2> SUFFICES ASSUME NEW i \in 1 .. Len(u), NEW j \in 1 .. Len(u), i < j PROVE u[i] < u[j]
      BY DEF UpNum
  <2>1. CASE j \in 1 .. Len(p)
    <3>1. i \in 1 .. Len(p)
        BY <1>1, <2>1
    <3> QED
        BY <1>2, <1>4, <2>1, <3>1 DEF UpNum
  <2>2. CASE j - Len(p) \in 1 .. Len(q) /\ i \in 1 .. Len(p) /\ u[j] = q[j - Len(p)]
    <3>1. InNum(p, u[i]) /\ InNum(q, u[j])
        BY <1>2, <2>2 DEF InNum
    <3> QED
        BY <1>4, <3>1
  <2>3. CASE /\ j - Len(p) \in 1 .. Len(q) /\ i - Len(p) \in 1 .. Len(q)
             /\ u[i] = q[i - Len(p)] /\ u[j] = q[j - Len(p)]
    <3>1. i - Len(p) < j - Len(p)
        BY <1>1, <2>3
    <3> QED
        BY <1>4, <2>3, <3>1 DEF UpNum
  <2> QED
      BY <1>1, <1>2, <2>1, <2>2, <2>3
<1> QED
    BY <1>3, <1>4 DEF u

\* A report is appended.
LEMMA RepAppend ==
    ASSUME NEW q \in Seq(Report), NEW r \in Report
    PROVE  /\ \A a, e, n : InSeq(Append(q, r), a, e, n) <=>
                  InSeq(q, a, e, n) \/ (a = r.agent /\ e = r.conn /\ n = r.n)
           /\ UpSeq(q) /\ (\A n : InSeq(q, r.agent, r.conn, n) => n < r.n) => UpSeq(Append(q, r))
<1> DEFINE p == Append(q, r)
<1>1. Len(q) \in Nat /\ Len(p) = Len(q) + 1 /\ p[Len(q) + 1] = r /\ \A i \in 1 .. Len(q) : p[i] = q[i]
    BY LenProperties, AppendProperties
<1> HIDE DEF p
<1>2. \A i : i \in 1 .. Len(p) <=> i \in 1 .. Len(q) \/ i = Len(q) + 1
    BY <1>1
<1>3. \A a, e, n : InSeq(p, a, e, n) <=> InSeq(q, a, e, n) \/ (a = r.agent /\ e = r.conn /\ n = r.n)
    BY <1>1, <1>2 DEF InSeq
<1>4. ASSUME UpSeq(q), \A n : InSeq(q, r.agent, r.conn, n) => n < r.n PROVE UpSeq(p)
  <2>1. \A i \in 1 .. Len(q) : q[i].agent = r.agent /\ q[i].conn = r.conn => q[i].n < r.n
      BY <1>4 DEF InSeq
  <2> SUFFICES ASSUME NEW i \in 1 .. Len(p), NEW j \in 1 .. Len(p), i < j,
                      p[i].agent = p[j].agent, p[i].conn = p[j].conn
               PROVE  p[i].n < p[j].n
      BY DEF UpSeq
  <2>2. i \in 1 .. Len(q) /\ p[i] = q[i]
      BY <1>1, <1>2
  <2>3. CASE j \in 1 .. Len(q)
      BY <1>1, <1>4, <2>2, <2>3 DEF UpSeq
  <2>4. CASE j = Len(q) + 1
      BY <1>1, <2>1, <2>2, <2>4
  <2> QED
      BY <1>2, <2>3, <2>4
<1> QED
    BY <1>3, <1>4 DEF p

\* The first report is taken.
LEMMA RepTail ==
    ASSUME NEW q \in Seq(Report), q # <<>>
    PROVE  /\ \A a, e, n : InSeq(q, a, e, n) <=>
                  (a = Head(q).agent /\ e = Head(q).conn /\ n = Head(q).n) \/ InSeq(Tail(q), a, e, n)
           /\ UpSeq(q) => /\ UpSeq(Tail(q))
                          /\ \A n : InSeq(Tail(q), Head(q).agent, Head(q).conn, n) => Head(q).n < n
<1> DEFINE p == Tail(q)
           h == Head(q)
<1>1. /\ h = q[1] /\ Len(q) \in Nat /\ Len(q) > 0 /\ Len(p) = Len(q) - 1
      /\ \A i \in 1 .. Len(q) - 1 : p[i] = q[i + 1]
    BY TailFacts
<1> HIDE DEF p, h
<1>2. /\ 1 \in 1 .. Len(q)
      /\ \A i \in 1 .. Len(p) : i + 1 \in 1 .. Len(q) /\ p[i] = q[i + 1] /\ 1 < i + 1
      /\ \A i \in 1 .. Len(q) : i = 1 \/ (i - 1 \in 1 .. Len(p) /\ p[i - 1] = q[i])
    BY <1>1
<1>3. \A a, e, n : InSeq(q, a, e, n) <=> (a = h.agent /\ e = h.conn /\ n = h.n) \/ InSeq(p, a, e, n)
    BY <1>1, <1>2, SMTT(30) DEF InSeq
<1>4. ASSUME UpSeq(q) PROVE UpSeq(p)
    BY <1>1, <1>2, <1>4, SMTT(30) DEF UpSeq
<1>5. ASSUME UpSeq(q), NEW n, InSeq(p, h.agent, h.conn, n) PROVE h.n < n
  <2>1. PICK i \in 1 .. Len(p) : p[i].agent = h.agent /\ p[i].conn = h.conn /\ p[i].n = n
      BY <1>5 DEF InSeq
  <2>2. i + 1 \in 1 .. Len(q) /\ p[i] = q[i + 1] /\ 1 < i + 1
      BY <1>2
  <2> QED
      BY <1>1, <1>2, <1>5, <2>1, <2>2 DEF UpSeq
<1> QED
    BY <1>3, <1>4, <1>5 DEF p, h

\* The first k reports of a connection, and the others.
LEMMA RepCut ==
    ASSUME NEW q \in Seq(Report), NEW k \in 0 .. Len(q), NEW a, NEW e, Tagged(q, a, e)
    PROVE  /\ \A b, f, n : InSeq(q, b, f, n) <=>
                  \/ InSeq(SubSeq(q, 1, k), b, f, n)
                  \/ b = a /\ f = e /\ n \in {q[i].n : i \in k + 1 .. Len(q)}
           /\ UpSeq(q) => /\ UpSeq(SubSeq(q, 1, k))
                          /\ \A b, f, n : InSeq(SubSeq(q, 1, k), b, f, n) =>
                                 n \notin {q[i].n : i \in k + 1 .. Len(q)}
           /\ Tagged(SubSeq(q, 1, k), a, e)
<1> DEFINE p == SubSeq(q, 1, k)
<1>0. Len(q) \in Nat /\ \A i \in 1 .. Len(q) : q[i] \in Report /\ q[i].n \in Nat
  <2>1. Len(q) \in Nat /\ \A i \in 1 .. Len(q) : q[i] \in Report
      BY LenProperties, ElementOfSeq
  <2> QED
      BY <2>1, ReportFields
<1>1. Len(p) = k /\ \A i \in 1 .. k : p[i] = q[i]
    BY <1>0
<1> HIDE DEF p
<1>2. /\ \A i \in 1 .. k : i \in 1 .. Len(q)
      /\ \A i \in k + 1 .. Len(q) : i \in 1 .. Len(q) /\ \A j \in 1 .. k : j < i
      /\ \A i \in 1 .. Len(q) : i \in 1 .. k \/ i \in k + 1 .. Len(q)
    BY <1>0
<1>3. \A b, f, n : InSeq(q, b, f, n) <=>
          InSeq(p, b, f, n) \/ (b = a /\ f = e /\ n \in {q[i].n : i \in k + 1 .. Len(q)})
  <2>1. ASSUME NEW b, NEW f, NEW n, InSeq(q, b, f, n)
        PROVE  InSeq(p, b, f, n) \/ (b = a /\ f = e /\ n \in {q[i].n : i \in k + 1 .. Len(q)})
    <3>1. PICK i \in 1 .. Len(q) : q[i].agent = b /\ q[i].conn = f /\ q[i].n = n
        BY <2>1 DEF InSeq
    <3>2. CASE i \in 1 .. k
        BY <1>1, <3>1, <3>2 DEF InSeq
    <3>3. CASE i \in k + 1 .. Len(q)
        BY <3>1, <3>3 DEF Tagged
    <3> QED
        BY <1>2, <3>2, <3>3
  <2>2. ASSUME NEW b, NEW f, NEW n, InSeq(p, b, f, n) PROVE InSeq(q, b, f, n)
      BY <1>1, <1>2, <2>2 DEF InSeq
  <2>3. ASSUME NEW n, n \in {q[i].n : i \in k + 1 .. Len(q)} PROVE InSeq(q, a, e, n)
      BY <1>2, <2>3 DEF InSeq, Tagged
  <2> QED
      BY <2>1, <2>2, <2>3
<1>4. ASSUME UpSeq(q) PROVE UpSeq(p)
    BY <1>1, <1>2, <1>4 DEF UpSeq
<1>5. ASSUME UpSeq(q), NEW b, NEW f, NEW n, InSeq(p, b, f, n), n \in {q[i].n : i \in k + 1 .. Len(q)}
      PROVE  FALSE
  <2>1. PICK i \in k + 1 .. Len(q) : n = q[i].n
      BY <1>5
  <2>2. PICK j \in 1 .. k : n = q[j].n
      BY <1>1, <1>5 DEF InSeq
  <2>3. q[j].n < q[i].n /\ q[i].n \in Nat
      BY <1>0, <1>2, <1>5 DEF UpSeq, Tagged
  <2> QED
      BY <2>1, <2>2, <2>3
<1>6. Tagged(p, a, e)
    BY <1>1, <1>2 DEF Tagged
<1> QED
    BY <1>3, <1>4, <1>5, <1>6 DEF p

-----------------------------------------------------------------------------
(* Where a report is, and the order of those that follow one another.       *)

\* Report n of agent a, on connection e, is at stage k of its way, at place i
\* of that stage: 7 lost, 6 in the queue, 5 in the output buffer, 4 on the
\* way, 3 with pool thread i, 2 in the queue of store thread i, 1 among what
\* that thread took, 0 stored by it.  Before the way, and once it is lost, a
\* report has no connection of its own, and any e will do.
At(a, e, n, k, i) ==
    \/ k = 7 /\ i = 0 /\ n \in lost[a]
    \/ k = 6 /\ i = 0 /\ InNum(queue[a], n)
    \/ k = 5 /\ i = 0 /\ InNum(obuf[a], n)
    \/ k = 4 /\ i = e /\ e \in Conn(a) /\ InSeq(wire[a][e], a, e, n)
    \/ k = 3 /\ i \in Thread /\ InSeq(req[i], a, e, n)
    \/ k = 2 /\ i \in Store /\ InSeq(squeue[i], a, e, n)
    \/ k = 1 /\ i \in Store /\ InSeq(batch[i], a, e, n)
    \/ k = 0 /\ i \in Store /\ <<n, i, e>> \in stored[a]

\* What the reports on the way and with the service say of themselves is
\* true; an idle pool thread handles nothing.
Tags ==
    /\ \A a \in Agent : \A e \in Conn(a) : \A i \in 1 .. Len(wire[a][e]) :
          wire[a][e][i].agent = a /\ wire[a][e][i].conn = e
    /\ \A t \in Thread : pc[t] = "idle" => req[t] = <<>>

\* The connection of a report is not a later one than that of its agent, and
\* the pool thread that handles it is the one that serves the connection.
Homes ==
    \A a \in Agent : \A e, n, k, i \in Nat :
        At(a, e, n, k, i) /\ k <= 4 => e \in 1 .. epoch[a] /\ (k = 3 => home[a][e] = i)

\* Each queue keeps the reports of a connection in order.
Rising ==
    /\ \A a \in Agent : UpNum(queue[a]) /\ UpNum(obuf[a]) /\ \A e \in Conn(a) : UpSeq(wire[a][e])
    /\ \A s \in Store : UpSeq(squeue[s]) /\ UpSeq(batch[s])

\* The reports that are somewhere are those that were issued.
Known ==
    \A a \in Agent : \A n \in Nat :
        (\E e, k, i \in Nat : At(a, e, n, k, i)) <=> n \in 1 .. issued[a]

\* A report is in one place.
Unique ==
    \A a \in Agent : \A n, e, f, k, l, i, j \in Nat :
        At(a, e, n, k, i) /\ At(a, f, n, l, j) => k = l /\ i = j /\ (k <= 4 => e = f)

\* Of the reports of a connection, those ahead have the smaller numbers; past
\* the pool threads this holds of each store thread on its own.
Order ==
    \A a \in Agent : \A e, m, n, k, l, i, j \in Nat :
        At(a, e, n, k, i) /\ At(a, e, m, l, j) /\ k < l /\ l <= 6 /\ (l <= 2 => i = j) => n < m

PathInv == TypeOK /\ Tags /\ Homes /\ Rising /\ Known /\ Unique /\ Order

\* What a step may do with report n of agent a: leave it, or put it in one
\* place.
Stays(a, n) ==
    /\ \A e, k, i \in Nat : At(a, e, n, k, i)' <=> At(a, e, n, k, i)
    /\ n \in 1 .. issued'[a] <=> n \in 1 .. issued[a]
Moves(a, n) ==
    /\ n \in 1 .. issued'[a]
    /\ \E e, k, i \in Nat : At(a, e, n, k, i)'
    /\ \A e, f, k, l, i, j \in Nat :
          At(a, e, n, k, i)' /\ At(a, f, n, l, j)' => k = l /\ i = j /\ (k <= 4 => e = f)

\* Steps that do nothing else keep every report in one place.
LEMMA Accounts ==
    ASSUME Known, Unique, \A a \in Agent : \A n \in Nat : Stays(a, n) \/ Moves(a, n)
    PROVE  Known' /\ Unique'
<1>1. ASSUME NEW a \in Agent, NEW n \in Nat
      PROVE  (\E e, k, i \in Nat : At(a, e, n, k, i)') <=> n \in 1 .. issued'[a]
  <2>1. CASE Stays(a, n)
      BY <2>1 DEF Stays, Known
  <2>2. CASE Moves(a, n)
      BY <2>2 DEF Moves
  <2> QED
      BY <2>1, <2>2
<1>2. ASSUME NEW a \in Agent, NEW n \in Nat, NEW e \in Nat, NEW f \in Nat, NEW k \in Nat,
             NEW l \in Nat, NEW i \in Nat, NEW j \in Nat, At(a, e, n, k, i)', At(a, f, n, l, j)'
      PROVE  k = l /\ i = j /\ (k <= 4 => e = f)
  <2>1. CASE Stays(a, n)
    <3>1. At(a, e, n, k, i) /\ At(a, f, n, l, j)
        BY <1>2, <2>1 DEF Stays
    <3> QED
        BY <3>1 DEF Unique
  <2>2. CASE Moves(a, n)
      BY <1>2, <2>2 DEF Moves
  <2> QED
      BY <2>1, <2>2
<1> QED
    BY <1>1, <1>2 DEF Known, Unique

\* Report N of agent a, on connection E, goes to place I of stage K, and no
\* other report moves.
Carried(a, N, E, K, I) ==
    \A b \in Agent : \A f, n, k, i \in Nat :
        At(b, f, n, k, i)' <=> IF b = a /\ n = N THEN k = K /\ i = I /\ (K <= 4 => f = E) ELSE At(b, f, n, k, i)

\* The reports with it at its stage, and past the pool threads at its place,
\* come after it.
Behind(a, N, E, K, J) ==
    \A m, j \in Nat : At(a, E, m, K + 1, j) /\ m # N /\ (K <= 1 => j = J) => N < m

\* A single report that moves is in one place again.
LEMMA CarriedOnce ==
    ASSUME Known, Unique, issued' = issued,
           NEW a \in Agent, NEW N \in Nat, NEW E \in Nat, NEW K \in Nat, NEW I \in Nat,
           N \in 1 .. issued[a], Carried(a, N, E, K, I)
    PROVE  Known' /\ Unique'
<1>1. ASSUME NEW b \in Agent, NEW n \in Nat PROVE Stays(b, n) \/ Moves(b, n)
  <2>1. CASE b = a /\ n = N
    <3>1. \A f, k, i \in Nat : At(b, f, n, k, i)' <=> k = K /\ i = I /\ (K <= 4 => f = E)
        BY <2>1 DEF Carried
    <3>2. \A e, f, k, l, i, j \in Nat :
              At(b, e, n, k, i)' /\ At(b, f, n, l, j)' => k = l /\ i = j /\ (k <= 4 => e = f)
        BY <3>1
    <3>3. n \in 1 .. issued'[b]
        BY <2>1
    <3> QED
        BY <3>1, <3>2, <3>3 DEF Moves
  <2>2. CASE ~(b = a /\ n = N)
      BY <2>2 DEF Stays, Carried
  <2> QED
      BY <2>1, <2>2
<1> QED
    BY <1>1, Accounts

\* A single report goes on by one stage, ahead of those behind it.
LEMMA GoesOn ==
    ASSUME Known, Unique, Order, issued' = issued,
           NEW a \in Agent, NEW N \in Nat, NEW E \in Nat, NEW K \in 0 .. 4, NEW I \in Nat, NEW J \in Nat,
           At(a, E, N, K + 1, J), K <= 1 => I = J, Behind(a, N, E, K, J), Carried(a, N, E, K, I)
    PROVE  Known' /\ Unique' /\ Order'
<1>0. K \in Nat /\ K + 1 \in Nat /\ K <= 4
    OBVIOUS
<1>1. Known' /\ Unique'
  <2>1. N \in 1 .. issued[a]
      BY <1>0 DEF Known
  <2> QED
      BY <1>0, <2>1, CarriedOnce
<1>2. Order'
  <2> SUFFICES ASSUME NEW b \in Agent, NEW f \in Nat, NEW m \in Nat, NEW n \in Nat, NEW k \in Nat, NEW l \in Nat,
                      NEW i \in Nat, NEW j \in Nat,
                      At(b, f, n, k, i)' /\ At(b, f, m, l, j)' /\ k < l /\ l <= 6 /\ (l <= 2 => i = j)
               PROVE  n < m
      BY DEF Order
  <2>0. At(b, f, n, k, i)' /\ At(b, f, m, l, j)' /\ k < l /\ l <= 6 /\ (l <= 2 => i = j)
      OBVIOUS
  <2>1. CASE b = a /\ n = N
    <3>1. k = K /\ i = I /\ f = E
        BY <1>0, <2>0, <2>1 DEF Carried
    <3>2. m # N /\ At(a, E, m, l, j)
        BY <2>0, <2>1, <3>1 DEF Carried
    <3>3. CASE l = K + 1
        BY <2>0, <2>1, <3>1, <3>2, <3>3 DEF Behind
    <3>4. CASE l # K + 1
      <4>1. K + 1 < l /\ K + 1 \in Nat /\ (l <= 2 => J = j)
          BY <2>0, <3>1, <3>4
      <4> QED
          BY <2>0, <2>1, <3>2, <4>1 DEF Order
    <3> QED
        BY <3>3, <3>4
  <2>2. CASE b = a /\ m = N
    <3>1. l = K /\ j = I /\ f = E
        BY <1>0, <2>0, <2>2 DEF Carried
    <3>2. n # N /\ At(a, E, n, k, i)
        BY <2>0, <2>2, <3>1 DEF Carried
    <3>3. k < K + 1 /\ K + 1 <= 6 /\ K + 1 \in Nat /\ (K + 1 <= 2 => i = J)
        BY <2>0, <3>1
    <3> QED
        BY <2>2, <3>2, <3>3 DEF Order
  <2>3. CASE ~(b = a /\ n = N) /\ ~(b = a /\ m = N)
    <3>1. At(b, f, n, k, i) /\ At(b, f, m, l, j)
        BY <2>0, <2>3 DEF Carried
    <3> QED
        BY <2>0, <3>1 DEF Order
  <2> QED
      BY <2>1, <2>2, <2>3
<1> QED
    BY <1>1, <1>2

\* No report comes to a stage before the last.
NoneComes ==
    \A a \in Agent : \A e, n, k, i \in Nat : At(a, e, n, k, i)' /\ k <= 6 => At(a, e, n, k, i)

\* Where no report comes to a stage before the last, the order is kept.
LEMMA OrderKept ==
    ASSUME Order, NoneComes
    PROVE  Order'
<1> SUFFICES ASSUME NEW b \in Agent, NEW f \in Nat, NEW m \in Nat, NEW n \in Nat, NEW k \in Nat, NEW l \in Nat,
                    NEW i \in Nat, NEW j \in Nat,
                    At(b, f, n, k, i)' /\ At(b, f, m, l, j)' /\ k < l /\ l <= 6 /\ (l <= 2 => i = j)
             PROVE  n < m
    BY DEF Order
<1>1. At(b, f, n, k, i) /\ At(b, f, m, l, j)
    BY DEF NoneComes
<1> QED
    BY <1>1 DEF Order

\* What the type invariant says of each place.
LEMMA Shapes ==
    ASSUME TypeOK
    PROVE  /\ \A a \in Agent : /\ queue[a] \in Seq(Nat) /\ obuf[a] \in Seq(Nat) /\ lost[a] \subseteq Nat
                               /\ issued[a] \in Nat /\ epoch[a] \in Conn(a) /\ epoch[a] \in Nat
                               /\ \A e \in Conn(a) : e \in Nat /\ wire[a][e] \in Seq(Report) /\ home[a][e] \in Thread
           /\ \A t \in Thread : t \in Nat /\ req[t] \in Seq(Report) /\ reg[t] \in Nat
           /\ \A s \in Store : s \in Nat /\ squeue[s] \in Seq(Report) /\ batch[s] \in Seq(Report)
           /\ DOMAIN queue = Agent /\ DOMAIN obuf = Agent /\ DOMAIN lost = Agent /\ DOMAIN stored = Agent
           /\ DOMAIN issued = Agent /\ DOMAIN epoch = Agent /\ DOMAIN home = Agent /\ DOMAIN wire = Agent
           /\ \A a \in Agent : DOMAIN wire[a] = Conn(a) /\ DOMAIN home[a] = Conn(a)
           /\ DOMAIN req = Thread /\ DOMAIN squeue = Store /\ DOMAIN batch = Store /\ DOMAIN pc = Thread
<1>1. \A a \in Agent : /\ queue[a] \in Seq(Nat) /\ obuf[a] \in Seq(Nat) /\ lost[a] \subseteq Nat
                       /\ issued[a] \in Nat /\ epoch[a] \in Conn(a) /\ epoch[a] \in Nat
    BY DEF TypeOK
<1>2. \A a \in Agent : \A e \in Conn(a) : e \in Nat
    BY ReportAssumption DEF Conn
<1>3. \A a \in Agent : \A e \in Conn(a) : wire[a][e] \in Seq(Report) /\ home[a][e] \in Thread
    BY DEF TypeOK
<1>4. \A t \in Thread : t \in Nat /\ req[t] \in Seq(Report) /\ reg[t] \in Nat
    BY ReportAssumption DEF TypeOK, Thread
<1>5. \A s \in Store : s \in Nat /\ squeue[s] \in Seq(Report) /\ batch[s] \in Seq(Report)
    BY StoreFacts DEF TypeOK
<1>6. /\ DOMAIN queue = Agent /\ DOMAIN obuf = Agent /\ DOMAIN lost = Agent /\ DOMAIN stored = Agent
      /\ DOMAIN issued = Agent /\ DOMAIN epoch = Agent /\ DOMAIN home = Agent /\ DOMAIN wire = Agent
      /\ \A a \in Agent : DOMAIN wire[a] = Conn(a) /\ DOMAIN home[a] = Conn(a)
      /\ DOMAIN req = Thread /\ DOMAIN squeue = Store /\ DOMAIN batch = Store /\ DOMAIN pc = Thread
    BY DEF TypeOK
<1> QED
    BY <1>1, <1>2, <1>3, <1>4, <1>5, <1>6

\* The reports of a sequence have a number and a connection.
LEMMA InSeqTypes ==
    ASSUME NEW q \in Seq(Report), NEW a, NEW e, NEW n, InSeq(q, a, e, n)
    PROVE  a \in Agent /\ e \in Nat /\ n \in Nat
<1>1. PICK j \in 1 .. Len(q) : q[j].agent = a /\ q[j].conn = e /\ q[j].n = n
    BY DEF InSeq
<1>2. q[j] \in Report
    BY ElementOfSeq
<1> QED
    BY <1>1, <1>2, ReportFields

\* The numbers of a sequence.
LEMMA InNumTypes ==
    ASSUME NEW q \in Seq(Nat), NEW n, InNum(q, n)
    PROVE  n \in Nat
BY ElementOfSeq DEF InNum

\* Two places of a report are the same.
LEMMA OneSpot ==
    ASSUME Unique, NEW a \in Agent, NEW n \in Nat, NEW e \in Nat, NEW f \in Nat, NEW k \in Nat,
           NEW l \in Nat, NEW i \in Nat, NEW j \in Nat, At(a, e, n, k, i), At(a, f, n, l, j)
    PROVE  k = l /\ i = j /\ (k <= 4 => e = f)
BY DEF Unique

\* do_write: the first report of the output buffer goes on the way.
LEMMA WriteStep ==
    ASSUME PathInv, NEW a \in Agent, do_write(a)
    PROVE  Tags' /\ Homes' /\ Rising' /\ Known' /\ Unique' /\ Order'
<1>0. TypeOK /\ Tags /\ Homes /\ Rising /\ Known /\ Unique /\ Order
    BY DEF PathInv
<1>1. PICK q, E, w : q = obuf[a] /\ E = epoch[a] /\ w = wire[a][E]
    OBVIOUS
<1>2. q \in Seq(Nat) /\ E \in Conn(a) /\ E \in Nat /\ w \in Seq(Report) /\ UpNum(q) /\ UpSeq(w)
    BY <1>0, <1>1, Shapes DEF Rising
<1>3. PICK N, r : N = Head(q) /\ r = Rep(a, N)
    OBVIOUS
<1>4. /\ q # <<>> /\ wire' = [wire EXCEPT ![a][E] = Append(w, r)] /\ obuf' = [obuf EXCEPT ![a] = Tail(q)]
      /\ UNCHANGED <<issued, queue, conn, epoch, home, pc, req, squeue, batch, stored, lost>>
    BY <1>1, <1>3 DEF do_write, pool, db
<1>5. N \in Nat /\ r \in Report /\ r.agent = a /\ r.n = N /\ r.conn = E
  <2>1. N \in Nat
      BY <1>2, <1>3, <1>4, TailFacts
  <2> QED
      BY <1>1, <1>2, <1>3, <2>1 DEF Rep, Report
<1>6. /\ \A b \in Agent : obuf'[b] = IF b = a THEN Tail(q) ELSE obuf[b]
      /\ \A b \in Agent : \A f \in Conn(b) : wire'[b][f] = IF b = a /\ f = E THEN Append(w, r) ELSE wire[b][f]
    BY <1>0, <1>2, <1>4, Shapes
<1>7. /\ \A n : InNum(q, n) <=> n = N \/ InNum(Tail(q), n)
      /\ UpNum(Tail(q)) /\ \A n : InNum(Tail(q), n) => N < n
    BY <1>2, <1>3, <1>4, NumTail
<1>8. \A n : InNum(Tail(q), n) <=> InNum(q, n) /\ n # N
  <2>1. \A n : InNum(Tail(q), n) => n # N
      BY <1>5, <1>7
  <2> QED
      BY <1>7, <2>1
<1>9. \A b, f, n : InSeq(Append(w, r), b, f, n) <=> InSeq(w, b, f, n) \/ (b = a /\ f = E /\ n = N)
    BY <1>2, <1>5, RepAppend
<1>10. \A f \in Nat : At(a, f, N, 5, 0)
    BY <1>1, <1>7 DEF At
<1>11. ASSUME NEW b \in Agent, NEW f \in Nat, NEW n \in Nat, NEW k \in Nat, NEW i \in Nat
       PROVE  /\ k \notin {4, 5} => (At(b, f, n, k, i)' <=> At(b, f, n, k, i))
              /\ k = 5 => (At(b, f, n, k, i)' <=> At(b, f, n, k, i) /\ ~(b = a /\ n = N))
              /\ k = 4 => (At(b, f, n, k, i)' <=> At(b, f, n, k, i) \/ (b = a /\ n = N /\ f = E /\ i = E))
  <2>1. k \notin {4, 5} => (At(b, f, n, k, i)' <=> At(b, f, n, k, i))
      BY <1>4 DEF At
  <2>2. k = 5 => (At(b, f, n, k, i)' <=> At(b, f, n, k, i) /\ ~(b = a /\ n = N))
      BY <1>1, <1>6, <1>8 DEF At
  <2>3. k = 4 => (At(b, f, n, k, i)' <=> At(b, f, n, k, i) \/ (b = a /\ n = N /\ f = E /\ i = E))
      BY <1>1, <1>2, <1>6, <1>9 DEF At
  <2> QED
      BY <2>1, <2>2, <2>3
<1>12. Carried(a, N, E, 4, E)
  <2> SUFFICES ASSUME NEW b \in Agent, NEW f \in Nat, NEW n \in Nat, NEW k \in Nat, NEW i \in Nat
               PROVE  At(b, f, n, k, i)' <=>
                          IF b = a /\ n = N THEN k = 4 /\ i = E /\ (4 <= 4 => f = E) ELSE At(b, f, n, k, i)
      BY DEF Carried
  <2>1. b = a /\ n = N /\ At(b, f, n, k, i) => k = 5
      BY <1>0, <1>5, <1>10, SMTT(30) DEF Unique
  <2> QED
      BY <1>11, <2>1
<1>13. Behind(a, N, E, 4, 0)
  <2> SUFFICES ASSUME NEW m \in Nat, NEW j \in Nat, At(a, E, m, 5, j), m # N PROVE N < m
      BY DEF Behind
  <2>1. InNum(q, m)
      BY <1>1 DEF At
  <2> QED
      BY <1>7, <2>1
<1>14. Known' /\ Unique' /\ Order'
    BY <1>0, <1>2, <1>4, <1>5, <1>10, <1>12, <1>13, GoesOn, SMTT(30)
<1>15. Homes'
  <2> SUFFICES ASSUME NEW b \in Agent, NEW f \in Nat, NEW n \in Nat, NEW k \in Nat, NEW i \in Nat,
                      At(b, f, n, k, i)', k <= 4
               PROVE  f \in 1 .. epoch'[b] /\ (k = 3 => home'[b][f] = i)
      BY DEF Homes
  <2>1. CASE b = a /\ n = N
      BY <1>1, <1>2, <1>4, <1>12, <2>1 DEF Carried, Conn
  <2>2. CASE ~(b = a /\ n = N)
    <3>1. At(b, f, n, k, i)
        BY <1>12, <2>2 DEF Carried
    <3> QED
        BY <1>0, <1>4, <3>1 DEF Homes
  <2> QED
      BY <2>1, <2>2
<1>16. Rising'
  <2>1. \A n : InSeq(w, a, E, n) => n < N
    <3> SUFFICES ASSUME NEW n, InSeq(w, a, E, n) PROVE n < N
        OBVIOUS
    <3>1. n \in Nat
        BY <1>2, InSeqTypes
    <3>2. PICK k \in Nat, l \in Nat, j \in Nat : k = 4 /\ l = 5 /\ j = 0
        OBVIOUS
    <3>3. At(a, E, n, k, E) /\ At(a, E, N, l, j)
        BY <1>1, <1>2, <1>10, <3>2 DEF At
    <3>4. k < l /\ l <= 6 /\ (l <= 2 => E = j)
        BY <3>2
    <3> QED
        BY <1>0, <1>2, <1>5, <3>1, <3>3, <3>4 DEF Order
  <2>2. UpSeq(Append(w, r))
      BY <1>2, <1>5, <2>1, RepAppend
  <2> QED
      BY <1>0, <1>4, <1>6, <1>7, <2>2 DEF Rising
<1>17. Tags'
  <2>1. \A i \in 1 .. Len(Append(w, r)) : Append(w, r)[i].agent = a /\ Append(w, r)[i].conn = E
    <3>1. Len(w) \in Nat /\ Len(Append(w, r)) = Len(w) + 1 /\ Append(w, r)[Len(w) + 1] = r
          /\ \A i \in 1 .. Len(w) : Append(w, r)[i] = w[i]
        BY <1>2, <1>5, LenProperties, AppendProperties
    <3>2. \A i \in 1 .. Len(w) : w[i].agent = a /\ w[i].conn = E
        BY <1>0, <1>1, <1>2 DEF Tags
    <3>3. \A i \in 1 .. Len(Append(w, r)) : i \in 1 .. Len(w) \/ i = Len(w) + 1
        BY <3>1
    <3> QED
        BY <1>5, <3>1, <3>2, <3>3
  <2> QED
      BY <1>0, <1>4, <1>6, <2>1 DEF Tags
<1> QED
    BY <1>14, <1>15, <1>16, <1>17

\* A sequence of one report, and an empty one.
LEMMA RepSingle ==
    ASSUME NEW r
    PROVE  /\ \A b, f, n : InSeq(<<r>>, b, f, n) <=> b = r.agent /\ f = r.conn /\ n = r.n
           /\ \A b, f, n : ~InSeq(<<>>, b, f, n)
<1>1. Len(<<r>>) = 1 /\ <<r>>[1] = r /\ Len(<<>>) = 0
    OBVIOUS
<1>2. (\A i : i \in 1 .. 1 <=> i = 1) /\ \A i : i \notin 1 .. 0
    OBVIOUS
<1> QED
    BY <1>1, <1>2 DEF InSeq

\* get_report_status: the first report of a connection goes to the pool thread
\* that serves it, which had none.
LEMMA ReadStep ==
    ASSUME PathInv, NEW t \in Thread, NEW a \in Agent, NEW E \in Conn(a), get_report_status(t, a, E)
    PROVE  Tags' /\ Homes' /\ Rising' /\ Known' /\ Unique' /\ Order'
<1>0. TypeOK /\ Tags /\ Homes /\ Rising /\ Known /\ Unique /\ Order
    BY DEF PathInv
<1>1. PICK w, r, N : w = wire[a][E] /\ r = Head(w) /\ N = r.n
    OBVIOUS
<1>2. E \in Nat /\ t \in Nat /\ w \in Seq(Report) /\ UpSeq(w)
    BY <1>0, <1>1, Shapes DEF Rising
<1>4. /\ w # <<>> /\ wire' = [wire EXCEPT ![a][E] = Tail(w)] /\ req' = [req EXCEPT ![t] = <<r>>]
      /\ pc[t] = "idle" /\ pc' = [pc EXCEPT ![t] = "increment"] /\ home[a][E] = t
      /\ UNCHANGED <<issued, queue, obuf, epoch, home, squeue, batch, stored, lost>>
    BY <1>1 DEF get_report_status, agents, db
<1>5. N \in Nat /\ r \in Report /\ r.agent = a /\ r.n = N /\ r.conn = E
  <2>1. r \in Report /\ r = w[1] /\ 1 \in 1 .. Len(w)
    <3>1. r \in Report /\ r = w[1] /\ Len(w) \in Nat /\ Len(w) > 0
        BY <1>1, <1>2, <1>4, TailFacts
    <3> QED
        BY <3>1
  <2>2. r.agent = a /\ r.conn = E
      BY <1>0, <1>1, <2>1 DEF Tags
  <2> QED
      BY <1>1, <2>1, <2>2, ReportFields
<1>6. /\ \A u \in Thread : req'[u] = IF u = t THEN <<r>> ELSE req[u]
      /\ \A u \in Thread : pc'[u] = IF u = t THEN "increment" ELSE pc[u]
      /\ \A b \in Agent : \A f \in Conn(b) : wire'[b][f] = IF b = a /\ f = E THEN Tail(w) ELSE wire[b][f]
    BY <1>0, <1>4, Shapes
<1>7. /\ \A b, f, n : InSeq(w, b, f, n) <=> (b = a /\ f = E /\ n = N) \/ InSeq(Tail(w), b, f, n)
      /\ UpSeq(Tail(w)) /\ \A n : InSeq(Tail(w), a, E, n) => N < n
  <2>1. /\ \A b, f, n : InSeq(w, b, f, n) <=>
                (b = r.agent /\ f = r.conn /\ n = r.n) \/ InSeq(Tail(w), b, f, n)
        /\ UpSeq(Tail(w)) /\ \A n : InSeq(Tail(w), r.agent, r.conn, n) => r.n < n
      BY <1>1, <1>2, <1>4, RepTail
  <2> QED
      BY <1>5, <2>1
<1>8. \A n : InSeq(Tail(w), a, E, n) <=> InSeq(w, a, E, n) /\ n # N
  <2>1. \A n : InSeq(Tail(w), a, E, n) => n # N
      BY <1>5, <1>7
  <2> QED
      BY <1>7, <2>1
<1>9. /\ \A b, f, n : InSeq(<<r>>, b, f, n) <=> b = a /\ f = E /\ n = N
      /\ \A b, f, n : ~InSeq(req[t], b, f, n)
    BY <1>0, <1>4, <1>5, RepSingle DEF Tags
<1>10. At(a, E, N, 4, E)
    BY <1>1, <1>7 DEF At
<1>11. ASSUME NEW b \in Agent, NEW f \in Nat, NEW n \in Nat, NEW k \in Nat, NEW i \in Nat
       PROVE  /\ k \notin {3, 4} => (At(b, f, n, k, i)' <=> At(b, f, n, k, i))
              /\ k = 4 => (At(b, f, n, k, i)' <=> At(b, f, n, k, i) /\ ~(b = a /\ n = N /\ f = E))
              /\ k = 3 => (At(b, f, n, k, i)' <=> At(b, f, n, k, i) \/ (b = a /\ n = N /\ f = E /\ i = t))
  <2>1. k \notin {3, 4} => (At(b, f, n, k, i)' <=> At(b, f, n, k, i))
      BY <1>4 DEF At
  <2>2. k = 4 => (At(b, f, n, k, i)' <=> At(b, f, n, k, i) /\ ~(b = a /\ n = N /\ f = E))
      BY <1>1, <1>6, <1>8 DEF At
  <2>3. k = 3 => (At(b, f, n, k, i)' <=> At(b, f, n, k, i) \/ (b = a /\ n = N /\ f = E /\ i = t))
      BY <1>6, <1>9 DEF At
  <2> QED
      BY <2>1, <2>2, <2>3
<1>12. Carried(a, N, E, 3, t)
  <2> SUFFICES ASSUME NEW b \in Agent, NEW f \in Nat, NEW n \in Nat, NEW k \in Nat, NEW i \in Nat
               PROVE  At(b, f, n, k, i)' <=>
                          IF b = a /\ n = N THEN k = 3 /\ i = t /\ (3 <= 4 => f = E) ELSE At(b, f, n, k, i)
      BY DEF Carried
  <2>0. PICK l \in Nat : l = 4
      OBVIOUS
  <2>6. At(a, E, N, l, E)
      BY <1>10, <2>0
  <2>7. E \in Nat /\ N \in Nat /\ Unique
      BY <1>0, <1>2, <1>5
  <2>1. ASSUME b = a, n = N, At(b, f, n, k, i) PROVE k = l /\ (k <= 4 => f = E)
    <3>1. At(a, f, N, k, i)
        BY <2>1
    <3> QED
      <4>1. k = l /\ i = E /\ (k <= 4 => f = E)
          BY <2>6, <2>7, <3>1, OneSpot
      <4> QED
          BY <4>1
  <2> QED
      BY <1>11, <2>0, <2>1
<1>13. Behind(a, N, E, 3, E)
  <2> SUFFICES ASSUME NEW m \in Nat, NEW j \in Nat, At(a, E, m, 4, j), m # N PROVE N < m
      BY DEF Behind
  <2>1. InSeq(w, a, E, m)
      BY <1>1 DEF At
  <2> QED
      BY <1>7, <2>1
<1>14. Known' /\ Unique' /\ Order'
    BY <1>0, <1>2, <1>4, <1>5, <1>10, <1>12, <1>13, GoesOn
<1>15. Homes'
  <2> SUFFICES ASSUME NEW b \in Agent, NEW f \in Nat, NEW n \in Nat, NEW k \in Nat, NEW i \in Nat,
                      At(b, f, n, k, i)', k <= 4
               PROVE  f \in 1 .. epoch'[b] /\ (k = 3 => home'[b][f] = i)
      BY DEF Homes
  <2>1. CASE b = a /\ n = N
    <3>1. k = 3 /\ i = t /\ f = E
        BY <1>12, <2>1 DEF Carried
    <3>2. E \in 1 .. epoch[a]
        BY <1>0, <1>2, <1>5, <1>10 DEF Homes
    <3> QED
        BY <1>4, <2>1, <3>1, <3>2
  <2>2. CASE ~(b = a /\ n = N)
    <3>1. At(b, f, n, k, i)
        BY <1>12, <2>2 DEF Carried
    <3> QED
        BY <1>0, <1>4, <3>1 DEF Homes
  <2> QED
      BY <2>1, <2>2
<1>16. Rising'
    BY <1>0, <1>4, <1>6, <1>7 DEF Rising
<1>17. Tags'
  <2>1. \A i \in 1 .. Len(Tail(w)) : Tail(w)[i].agent = a /\ Tail(w)[i].conn = E
    <3>1. /\ Len(w) \in Nat /\ Len(w) > 0 /\ Len(Tail(w)) = Len(w) - 1
          /\ \A i \in 1 .. Len(w) - 1 : Tail(w)[i] = w[i + 1]
        BY <1>2, <1>4, TailFacts
    <3>2. \A i \in 1 .. Len(w) : w[i].agent = a /\ w[i].conn = E
        BY <1>0, <1>1 DEF Tags
    <3>3. \A i \in 1 .. Len(Tail(w)) : i \in 1 .. Len(w) - 1 /\ i + 1 \in 1 .. Len(w)
        BY <3>1
    <3> QED
        BY <3>1, <3>2, <3>3
  <2>2. \A u \in Thread : pc'[u] = "idle" => req'[u] = <<>>
      BY <1>0, <1>6 DEF Tags
  <2>3. \A b \in Agent : \A f \in Conn(b) : \A i \in 1 .. Len(wire'[b][f]) :
            wire'[b][f][i].agent = b /\ wire'[b][f][i].conn = f
    <3> SUFFICES ASSUME NEW b \in Agent, NEW f \in Conn(b), NEW i \in 1 .. Len(wire'[b][f])
                 PROVE  wire'[b][f][i].agent = b /\ wire'[b][f][i].conn = f
        OBVIOUS
    <3>1. CASE b = a /\ f = E
        BY <1>6, <2>1, <3>1
    <3>2. CASE ~(b = a /\ f = E)
        BY <1>0, <1>6, <3>2 DEF Tags
    <3> QED
        BY <3>1, <3>2
  <2> QED
      BY <2>2, <2>3 DEF Tags
<1> QED
    BY <1>14, <1>15, <1>16, <1>17

\* Steps that move no report.
LEMMA StillStep ==
    ASSUME Homes, Rising, Known, Unique, Order,
           UNCHANGED <<issued, queue, obuf, epoch, home, wire, req, squeue, batch, stored, lost>>
    PROVE  Homes' /\ Rising' /\ Known' /\ Unique' /\ Order'
<1>1. \A b \in Agent : \A f, n, k, i \in Nat : At(b, f, n, k, i)' <=> At(b, f, n, k, i)
    BY DEF At
<1>2. Rising'
    BY DEF Rising
<1>3. Homes'
    BY <1>1 DEF Homes
<1>4. Known' /\ Unique'
  <2>1. \A b \in Agent : \A n \in Nat : Stays(b, n)
      BY <1>1 DEF Stays
  <2> QED
      BY <2>1, Accounts
<1>5. Order'
  <2>1. NoneComes
      BY <1>1 DEF NoneComes
  <2> QED
      BY <2>1, OrderKept
<1> QED
    BY <1>2, <1>3, <1>4, <1>5

\* send: the report of a pool thread goes to the store thread it picked.
LEMMA SendStep ==
    ASSUME PathInv, NEW t \in Thread, send(t)
    PROVE  Tags' /\ Homes' /\ Rising' /\ Known' /\ Unique' /\ Order'
<1>0. TypeOK /\ Tags /\ Homes /\ Rising /\ Known /\ Unique /\ Order
    BY DEF PathInv
<1>1. PICK s, q, p : s = reg[t] /\ q = squeue[s] /\ p = req[t]
    OBVIOUS
<1>2. s \in Store /\ s \in Nat /\ t \in Nat /\ q \in Seq(Report) /\ p \in Seq(Report) /\ UpSeq(q) /\ Len(p) <= 1
  <2>1. s \in Nat /\ s < NumStore /\ p \in Seq(Report) /\ t \in Nat
      BY <1>0, <1>1, Shapes DEF send
  <2>2. s \in Store
      BY <2>1, StoreFacts
  <2>3. Len(p) <= 1
      BY <1>0, <1>1 DEF TypeOK
  <2> QED
      BY <1>0, <1>1, <2>1, <2>2, <2>3, Shapes DEF Rising
<1>3. /\ squeue' = [squeue EXCEPT ![s] = q \o p] /\ req' = [req EXCEPT ![t] = <<>>]
      /\ pc' = [pc EXCEPT ![t] = "idle"]
      /\ UNCHANGED <<issued, queue, obuf, epoch, home, wire, batch, stored, lost>>
    BY <1>1 DEF send, agents, db
<1>4. /\ \A u \in Thread : req'[u] = IF u = t THEN <<>> ELSE req[u]
      /\ \A u \in Thread : pc'[u] = IF u = t THEN "idle" ELSE pc[u]
      /\ \A z \in Store : squeue'[z] = IF z = s THEN q \o p ELSE squeue[z]
    BY <1>0, <1>3, Shapes
<1>5. Tags'
  <2>1. \A u \in Thread : pc'[u] = "idle" => req'[u] = <<>>
      BY <1>0, <1>4 DEF Tags
  <2> QED
      BY <1>0, <1>3, <2>1 DEF Tags
<1>6. CASE p = <<>>
  <2>1. q \o p = q
      BY <1>2, <1>6, ConcatEmptySeq
  <2>2. squeue' = squeue /\ req' = req
    <3>1. squeue \in [Store -> Seq(Report)] /\ req \in [Thread -> Seq(Report)]
        BY <1>0 DEF TypeOK
    <3>2. squeue' = [squeue EXCEPT ![s] = squeue[s]] /\ req' = [req EXCEPT ![t] = req[t]]
        BY <1>1, <1>3, <1>6, <2>1
    <3> QED
        BY <3>1, <3>2
  <2> QED
      BY <1>0, <1>3, <1>5, <2>2, StillStep
<1>7. CASE p # <<>>
  <2>1. PICK r, a, N, E : r = p[1] /\ a = r.agent /\ N = r.n /\ E = r.conn
      OBVIOUS
  <2>2. p = <<r>> /\ r \in Report /\ a \in Agent /\ N \in Nat /\ E \in Nat
    <3>0. Len(p) \in Nat /\ Len(p) > 0 /\ Head(p) = p[1] /\ Head(p) \in Report
        BY <1>2, <1>7, TailFacts
    <3>1. Len(p) = 1 /\ r \in Report
      <4>1. r \in Report
          BY <2>1, <3>0
      <4>2. \A x \in Nat : x > 0 /\ x <= 1 => x = 1
          OBVIOUS
      <4>3. Len(p) = 1
          BY <1>2, <3>0, <4>2
      <4> QED
          BY <4>1, <4>3
    <3>2. p = <<r>>
        BY <1>2, <2>1, <3>1
    <3> QED
        BY <2>1, <3>1, <3>2, ReportFields
  <2>3. q \o p = Append(q, r)
      BY <1>2, <2>2, AppendIsConcat
  <2>4. /\ \A b, f, n : InSeq(p, b, f, n) <=> b = a /\ f = E /\ n = N
        /\ \A b, f, n : ~InSeq(<<>>, b, f, n)
      BY <2>1, <2>2, RepSingle
  <2>5. /\ \A b, f, n : InSeq(q \o p, b, f, n) <=> InSeq(q, b, f, n) \/ (b = a /\ f = E /\ n = N)
        /\ (\A n : InSeq(q, a, E, n) => n < N) => UpSeq(q \o p)
    <3>1. /\ \A b, f, n : InSeq(Append(q, r), b, f, n) <=>
                  InSeq(q, b, f, n) \/ (b = r.agent /\ f = r.conn /\ n = r.n)
          /\ (\A n : InSeq(q, r.agent, r.conn, n) => n < r.n) => UpSeq(Append(q, r))
        BY <1>2, <2>2, RepAppend
    <3> QED
        BY <2>1, <2>3, <3>1
  <2>6. At(a, E, N, 3, t)
      BY <1>1, <2>4 DEF At
  <2>7. ASSUME NEW b \in Agent, NEW f \in Nat, NEW n \in Nat, NEW k \in Nat, NEW i \in Nat
        PROVE  /\ k \notin {2, 3} => (At(b, f, n, k, i)' <=> At(b, f, n, k, i))
               /\ k = 3 => (At(b, f, n, k, i)' <=> At(b, f, n, k, i) /\ i # t)
               /\ k = 2 => (At(b, f, n, k, i)' <=> At(b, f, n, k, i) \/ (b = a /\ n = N /\ f = E /\ i = s))
               /\ At(b, f, n, 3, t) => b = a /\ f = E /\ n = N
    <3>1. k \notin {2, 3} => (At(b, f, n, k, i)' <=> At(b, f, n, k, i))
        BY <1>3 DEF At
    <3>2. k = 3 => (At(b, f, n, k, i)' <=> At(b, f, n, k, i) /\ i # t)
        BY <1>4, <2>4 DEF At
    <3>3. k = 2 => (At(b, f, n, k, i)' <=> At(b, f, n, k, i) \/ (b = a /\ n = N /\ f = E /\ i = s))
        BY <1>1, <1>2, <1>4, <2>5 DEF At
    <3>4. At(b, f, n, 3, t) => b = a /\ f = E /\ n = N
        BY <1>1, <2>4 DEF At
    <3> QED
        BY <3>1, <3>2, <3>3, <3>4
  <2>8. Carried(a, N, E, 2, s)
    <3> SUFFICES ASSUME NEW b \in Agent, NEW f \in Nat, NEW n \in Nat, NEW k \in Nat, NEW i \in Nat
                 PROVE  At(b, f, n, k, i)' <=>
                            IF b = a /\ n = N THEN k = 2 /\ i = s /\ (2 <= 4 => f = E) ELSE At(b, f, n, k, i)
        BY DEF Carried
    <3>1. PICK l \in Nat : l = 3
        OBVIOUS
    <3>2. At(a, E, N, l, t) /\ Unique /\ t \in Nat /\ N \in Nat /\ E \in Nat /\ a \in Agent
        BY <1>0, <1>2, <2>2, <2>6, <3>1
    <3>3. ASSUME b = a, n = N, At(b, f, n, k, i) PROVE k = l /\ i = t /\ (k <= 4 => f = E)
      <4>1. At(a, f, N, k, i)
          BY <3>3
      <4> QED
          BY <3>2, <4>1, OneSpot
    <3> QED
        BY <2>7, <3>1, <3>3
  <2>9. Behind(a, N, E, 2, t)
    <3> SUFFICES ASSUME NEW m \in Nat, NEW j \in Nat, At(a, E, m, 3, j), m # N PROVE N < m
        BY DEF Behind
    <3>1. PICK l \in Nat : l = 3
        OBVIOUS
    <3>2. At(a, E, m, l, j) /\ At(a, E, N, l, t) /\ l <= 4
        BY <2>6, <3>1
    <3>3. home[a][E] = j /\ home[a][E] = t
        BY <1>0, <1>2, <2>2, <3>1, <3>2 DEF Homes
    <3> QED
        BY <2>2, <2>7, <3>3
  <2>10. Known' /\ Unique' /\ Order'
      BY <1>0, <1>2, <1>3, <2>2, <2>6, <2>8, <2>9, GoesOn
  <2>11. Homes'
    <3> SUFFICES ASSUME NEW b \in Agent, NEW f \in Nat, NEW n \in Nat, NEW k \in Nat, NEW i \in Nat,
                        At(b, f, n, k, i)', k <= 4
                 PROVE  f \in 1 .. epoch'[b] /\ (k = 3 => home'[b][f] = i)
        BY DEF Homes
    <3>1. CASE b = a /\ n = N
      <4>1. k = 2 /\ f = E
          BY <2>8, <3>1 DEF Carried
      <4>2. PICK l \in Nat : l = 3
          OBVIOUS
      <4>3. At(a, E, N, l, t) /\ l <= 4
          BY <2>6, <4>2
      <4>4. E \in 1 .. epoch[a]
          BY <1>0, <1>2, <2>2, <4>3 DEF Homes
      <4> QED
          BY <1>3, <3>1, <4>1, <4>4
    <3>2. CASE ~(b = a /\ n = N)
      <4>1. At(b, f, n, k, i)
          BY <2>8, <3>2 DEF Carried
      <4> QED
          BY <1>0, <1>3, <4>1 DEF Homes
    <3> QED
        BY <3>1, <3>2
  <2>12. Rising'
    <3>1. \A n : InSeq(q, a, E, n) => n < N
      <4> SUFFICES ASSUME NEW n, InSeq(q, a, E, n) PROVE n < N
          OBVIOUS
      <4>1. n \in Nat
          BY <1>2, InSeqTypes
      <4>2. PICK k \in Nat, l \in Nat : k = 2 /\ l = 3
          OBVIOUS
      <4>3. At(a, E, n, k, s) /\ At(a, E, N, l, t)
          BY <1>1, <1>2, <2>6, <4>2 DEF At
      <4>4. k < l /\ l <= 6 /\ (l <= 2 => s = t)
          BY <4>2
      <4> QED
          BY <1>0, <1>2, <2>2, <4>1, <4>3, <4>4 DEF Order
    <3>2. UpSeq(q \o p)
        BY <2>5, <3>1
    <3> QED
        BY <1>0, <1>3, <1>4, <3>2 DEF Rising
  <2> QED
      BY <1>5, <2>10, <2>11, <2>12
<1> QED
    BY <1>6, <1>7

\* store and store_fails: the first report that a store thread took is stored,
\* or lost.
LEMMA StoreStep ==
    ASSUME PathInv, NEW s \in Store, store(s) \/ store_fails(s)
    PROVE  Tags' /\ Homes' /\ Rising' /\ Known' /\ Unique' /\ Order'
<1>0. TypeOK /\ Tags /\ Homes /\ Rising /\ Known /\ Unique /\ Order
    BY DEF PathInv
<1>1. PICK q, r, a, N, E : q = batch[s] /\ r = Head(q) /\ a = r.agent /\ N = r.n /\ E = r.conn
    OBVIOUS
<1>2. q \in Seq(Report) /\ s \in Nat /\ UpSeq(q) /\ q # <<>>
    BY <1>0, <1>1, Shapes DEF Rising, store, store_fails
<1>3. a \in Agent /\ N \in Nat /\ E \in Nat
  <2>1. r \in Report
      BY <1>1, <1>2, TailFacts
  <2> QED
      BY <1>1, <2>1, ReportFields
<1>4. /\ batch' = [batch EXCEPT ![s] = Tail(q)]
      /\ UNCHANGED <<issued, queue, obuf, epoch, home, wire, pc, req, squeue>>
    BY <1>1 DEF store, store_fails, agents, pool
<1>5. \A z \in Store : batch'[z] = IF z = s THEN Tail(q) ELSE batch[z]
    BY <1>0, <1>4, Shapes
<1>6. /\ \A b, f, n : InSeq(q, b, f, n) <=> (b = a /\ f = E /\ n = N) \/ InSeq(Tail(q), b, f, n)
      /\ UpSeq(Tail(q)) /\ \A n : InSeq(Tail(q), a, E, n) => N < n
    BY <1>1, <1>2, RepTail
<1>7. \A n : InSeq(Tail(q), a, E, n) => n # N
    BY <1>3, <1>6
<1>8. PICK l \in Nat : l = 1
    OBVIOUS
<1>9. At(a, E, N, l, s) /\ At(a, E, N, 1, s)
    BY <1>1, <1>6, <1>8 DEF At
<1>10. ASSUME NEW f \in Nat, NEW k \in Nat, NEW i \in Nat, At(a, f, N, k, i)
       PROVE  k = l /\ i = s /\ (k <= 4 => f = E)
    BY <1>0, <1>2, <1>3, <1>9, <1>10, OneSpot
<1>11. ASSUME NEW b \in Agent, NEW f \in Nat, NEW n \in Nat, NEW i \in Nat
       PROVE  At(b, f, n, 1, i)' <=> At(b, f, n, 1, i) /\ ~(b = a /\ n = N)
  <2>1. b = a /\ n = N /\ At(b, f, n, 1, i) => i = s /\ f = E
      BY <1>8, <1>10
  <2>2. At(b, f, n, 1, i)' <=> At(b, f, n, 1, i) /\ ~(b = a /\ n = N /\ f = E /\ i = s)
      BY <1>1, <1>5, <1>6, <1>7 DEF At
  <2> QED
      BY <2>1, <2>2
<1>12. Rising' /\ Tags'
    BY <1>0, <1>4, <1>5, <1>6 DEF Rising, Tags
<1>13. E \in 1 .. epoch[a] /\ N \in 1 .. issued[a]
  <2>1. E \in 1 .. epoch[a]
      BY <1>0, <1>2, <1>3, <1>8, <1>9 DEF Homes
  <2> QED
      BY <1>0, <1>2, <1>3, <1>9, <2>1 DEF Known
<1>14. ASSUME NEW K \in {0, 7}, NEW I \in Nat, Carried(a, N, E, K, I) PROVE Homes'
  <2> SUFFICES ASSUME NEW b \in Agent, NEW f \in Nat, NEW n \in Nat, NEW k \in Nat, NEW i \in Nat,
                      At(b, f, n, k, i)', k <= 4
               PROVE  f \in 1 .. epoch'[b] /\ (k = 3 => home'[b][f] = i)
      BY DEF Homes
  <2>1. CASE b = a /\ n = N
    <3>1. k = 0 /\ f = E
        BY <1>14, <2>1 DEF Carried
    <3> QED
        BY <1>4, <1>13, <2>1, <3>1
  <2>2. CASE ~(b = a /\ n = N)
    <3>1. At(b, f, n, k, i)
        BY <1>14, <2>2 DEF Carried
    <3> QED
        BY <1>0, <1>4, <3>1 DEF Homes
  <2> QED
      BY <2>1, <2>2
<1>15. CASE store(s)
  <2>1. lost' = lost /\ stored' = [stored EXCEPT ![a] = @ \cup {<<N, s, E>>}]
      BY <1>1, <1>15 DEF store
  <2>2. \A b \in Agent : stored'[b] = IF b = a THEN stored[b] \cup {<<N, s, E>>} ELSE stored[b]
      BY <1>0, <2>1, Shapes
  <2>3. ASSUME NEW b \in Agent, NEW f \in Nat, NEW n \in Nat, NEW k \in Nat, NEW i \in Nat
        PROVE  /\ k \notin {0, 1} => (At(b, f, n, k, i)' <=> At(b, f, n, k, i))
               /\ k = 0 => (At(b, f, n, k, i)' <=> At(b, f, n, k, i) \/ (b = a /\ n = N /\ f = E /\ i = s))
    <3>1. k \notin {0, 1} => (At(b, f, n, k, i)' <=> At(b, f, n, k, i))
        BY <1>4, <2>1 DEF At
    <3>2. k = 0 => (At(b, f, n, k, i)' <=> At(b, f, n, k, i) \/ (b = a /\ n = N /\ f = E /\ i = s))
      <4>1. <<n, i, f>> \in stored'[b] <=> <<n, i, f>> \in stored[b] \/ (b = a /\ n = N /\ f = E /\ i = s)
        <5>1. <<n, i, f>> = <<N, s, E>> <=> n = N /\ f = E /\ i = s
            OBVIOUS
        <5>2. CASE b = a
          <6>1. stored'[b] = stored[b] \cup {<<N, s, E>>}
              BY <2>2, <5>2
          <6> QED
              BY <5>1, <5>2, <6>1, Zenon
        <5>3. CASE b # a
            BY <2>2, <5>3
        <5> QED
            BY <5>2, <5>3
      <4>2. k = 0 => /\ At(b, f, n, k, i) <=> i \in Store /\ <<n, i, f>> \in stored[b]
                     /\ At(b, f, n, k, i)' <=> i \in Store /\ <<n, i, f>> \in stored'[b]
          BY DEF At
      <4> QED
          BY <4>1, <4>2
    <3> QED
        BY <3>1, <3>2
  <2>4. Carried(a, N, E, 0, s)
    <3> SUFFICES ASSUME NEW b \in Agent, NEW f \in Nat, NEW n \in Nat, NEW k \in Nat, NEW i \in Nat
                 PROVE  At(b, f, n, k, i)' <=>
                            IF b = a /\ n = N THEN k = 0 /\ i = s /\ (0 <= 4 => f = E) ELSE At(b, f, n, k, i)
        BY DEF Carried
    <3>1. b = a /\ n = N /\ At(b, f, n, k, i) => k = 1 /\ i = s /\ f = E
        BY <1>8, <1>10
    <3> QED
        BY <1>11, <2>3, <3>1
  <2>5. Behind(a, N, E, 0, s)
    <3> SUFFICES ASSUME NEW m \in Nat, At(a, E, m, 1, s), m # N PROVE N < m
        BY DEF Behind
    <3>1. InSeq(q, a, E, m)
        BY <1>1 DEF At
    <3> QED
        BY <1>6, <3>1
  <2>6. Known' /\ Unique' /\ Order'
      BY <1>0, <1>2, <1>3, <1>4, <1>9, <2>4, <2>5, GoesOn
  <2> QED
      BY <1>2, <1>12, <1>14, <2>4, <2>6
<1>16. CASE store_fails(s)
  <2>1. stored' = stored /\ lost' = [lost EXCEPT ![a] = @ \cup {N}]
      BY <1>1, <1>16 DEF store_fails, db
  <2>2. \A b \in Agent : lost'[b] = IF b = a THEN lost[b] \cup {N} ELSE lost[b]
      BY <1>0, <2>1, Shapes
  <2>3. ASSUME NEW b \in Agent, NEW f \in Nat, NEW n \in Nat, NEW k \in Nat, NEW i \in Nat
        PROVE  /\ k \notin {1, 7} => (At(b, f, n, k, i)' <=> At(b, f, n, k, i))
               /\ k = 7 => (At(b, f, n, k, i)' <=> At(b, f, n, k, i) \/ (b = a /\ n = N /\ i = 0))
    <3>1. k \notin {1, 7} => (At(b, f, n, k, i)' <=> At(b, f, n, k, i))
        BY <1>4, <2>1 DEF At
    <3>2. k = 7 => (At(b, f, n, k, i)' <=> At(b, f, n, k, i) \/ (b = a /\ n = N /\ i = 0))
      <4>1. n \in lost'[b] <=> n \in lost[b] \/ (b = a /\ n = N)
          BY <2>2
      <4>2. k = 7 => /\ At(b, f, n, k, i) <=> i = 0 /\ n \in lost[b]
                     /\ At(b, f, n, k, i)' <=> i = 0 /\ n \in lost'[b]
          BY DEF At
      <4> QED
          BY <4>1, <4>2
    <3> QED
        BY <3>1, <3>2
  <2>4. Carried(a, N, E, 7, 0)
    <3> SUFFICES ASSUME NEW b \in Agent, NEW f \in Nat, NEW n \in Nat, NEW k \in Nat, NEW i \in Nat
                 PROVE  At(b, f, n, k, i)' <=>
                            IF b = a /\ n = N THEN k = 7 /\ i = 0 /\ (7 <= 4 => f = E) ELSE At(b, f, n, k, i)
        BY DEF Carried
    <3>1. b = a /\ n = N /\ At(b, f, n, k, i) => k = 1 /\ i = s /\ f = E
        BY <1>8, <1>10
    <3> QED
        BY <1>11, <2>3, <3>1
  <2>5. Known' /\ Unique'
      BY <1>0, <1>3, <1>4, <1>13, <2>4, CarriedOnce
  <2>6. NoneComes
      BY <1>11, <2>3 DEF NoneComes
  <2>7. Order'
      BY <1>0, <2>6, OrderKept
  <2> QED
      BY <1>12, <1>14, <2>4, <2>5, <2>7
<1> QED
    BY <1>15, <1>16

\* thread_report: a store thread takes all of its queue.
LEMMA TakeStep ==
    ASSUME PathInv, NEW s \in Store, thread_report(s)
    PROVE  Tags' /\ Homes' /\ Rising' /\ Known' /\ Unique' /\ Order'
<1>0. TypeOK /\ Tags /\ Homes /\ Rising /\ Known /\ Unique /\ Order
    BY DEF PathInv
<1>1. /\ batch[s] = <<>> /\ batch' = [batch EXCEPT ![s] = squeue[s]] /\ squeue' = [squeue EXCEPT ![s] = <<>>]
      /\ UNCHANGED <<issued, queue, obuf, epoch, home, wire, pc, req, stored, lost>>
    BY DEF thread_report, agents, db, pool
<1>2. /\ \A z \in Store : batch'[z] = IF z = s THEN squeue[s] ELSE batch[z]
      /\ \A z \in Store : squeue'[z] = IF z = s THEN <<>> ELSE squeue[z]
    BY <1>0, <1>1, Shapes
<1>3. s \in Nat /\ UpSeq(<<>>) /\ \A b, f, n : ~InSeq(<<>>, b, f, n)
  <2>1. s \in Nat
      BY <1>0, Shapes
  <2>2. Len(<<>>) = 0 /\ \A i : i \notin 1 .. 0
      OBVIOUS
  <2>3. UpSeq(<<>>) /\ \A b, f, n : ~InSeq(<<>>, b, f, n)
      BY <2>2 DEF UpSeq, InSeq
  <2> QED
      BY <2>1, <2>3
<1>4. ASSUME NEW b \in Agent, NEW f \in Nat, NEW n \in Nat, NEW k \in Nat, NEW i \in Nat
      PROVE  /\ k \notin {1, 2} => (At(b, f, n, k, i)' <=> At(b, f, n, k, i))
             /\ k = 2 => (At(b, f, n, k, i)' <=> At(b, f, n, k, i) /\ i # s)
             /\ k = 1 => (At(b, f, n, k, i)' <=> IF i = s THEN At(b, f, n, 2, s) ELSE At(b, f, n, k, i))
             /\ ~At(b, f, n, 1, s)
  <2>1. k \notin {1, 2} => (At(b, f, n, k, i)' <=> At(b, f, n, k, i))
      BY <1>1 DEF At
  <2>2. k = 2 => (At(b, f, n, k, i)' <=> At(b, f, n, k, i) /\ i # s)
      BY <1>2, <1>3 DEF At
  <2>3. k = 1 => (At(b, f, n, k, i)' <=> IF i = s THEN At(b, f, n, 2, s) ELSE At(b, f, n, k, i))
      BY <1>2 DEF At
  <2>4. ~At(b, f, n, 1, s)
      BY <1>1, <1>3 DEF At
  <2> QED
      BY <2>1, <2>2, <2>3, <2>4
<1>5. Tags' /\ Rising'
    BY <1>0, <1>1, <1>2, <1>3 DEF Tags, Rising
<1>6. ASSUME NEW b \in Agent, NEW n \in Nat PROVE Stays(b, n) \/ Moves(b, n)
  <2>1. CASE \E F \in Nat : At(b, F, n, 2, s)
    <3>1. PICK F \in Nat, l \in Nat : At(b, F, n, l, s) /\ l = 2 /\ At(b, F, n, 2, s)
        BY <2>1
    <3>7. Unique /\ s \in Nat /\ At(b, F, n, l, s)
        BY <1>0, <1>3, <3>1
    <3>2. ASSUME NEW f \in Nat, NEW k \in Nat, NEW i \in Nat, At(b, f, n, k, i)
          PROVE  k = l /\ i = s /\ (k <= 4 => f = F)
        BY <3>2, <3>7, OneSpot
    <3>3. ASSUME NEW f \in Nat, NEW k \in Nat, NEW i \in Nat
          PROVE  At(b, f, n, k, i)' <=> k = 1 /\ i = s /\ f = F
      <4>1. At(b, f, n, k, i) => k = 2 /\ i = s /\ f = F
          BY <3>1, <3>2
      <4>2. At(b, f, n, 2, s) <=> f = F
          BY <1>3, <3>1, <3>2
      <4> QED
          BY <1>4, <4>1, <4>2
    <3>4. n \in 1 .. issued'[b]
        BY <1>0, <1>1, <1>3, <3>1 DEF Known
    <3>5. At(b, F, n, 1, s)'
        BY <1>3, <3>3
    <3>6. \A e, f, k, l2, i, j \in Nat :
              At(b, e, n, k, i)' /\ At(b, f, n, l2, j)' => k = l2 /\ i = j /\ (k <= 4 => e = f)
        BY <3>3
    <3> QED
        BY <1>3, <3>4, <3>5, <3>6 DEF Moves
  <2>2. CASE ~\E F \in Nat : At(b, F, n, 2, s)
    <3>1. ASSUME NEW f \in Nat, NEW k \in Nat, NEW i \in Nat
          PROVE  At(b, f, n, k, i)' <=> At(b, f, n, k, i)
        BY <1>4, <2>2
    <3> QED
        BY <1>1, <3>1 DEF Stays
  <2> QED
      BY <2>1, <2>2
<1>7. Known' /\ Unique'
    BY <1>0, <1>6, Accounts
<1>8. Homes'
  <2> SUFFICES ASSUME NEW b \in Agent, NEW f \in Nat, NEW n \in Nat, NEW k \in Nat, NEW i \in Nat,
                      At(b, f, n, k, i)', k <= 4
               PROVE  f \in 1 .. epoch'[b] /\ (k = 3 => home'[b][f] = i)
      BY DEF Homes
  <2>1. CASE k = 1 /\ i = s
    <3>1. PICK l \in Nat : At(b, f, n, l, s) /\ l = 2
        BY <1>4, <2>1
    <3> QED
        BY <1>0, <1>1, <1>3, <2>1, <3>1 DEF Homes
  <2>2. CASE ~(k = 1 /\ i = s)
    <3>1. At(b, f, n, k, i)
        BY <1>4, <2>2
    <3> QED
        BY <1>0, <1>1, <3>1 DEF Homes
  <2> QED
      BY <2>1, <2>2
<1>9. Order'
  <2> SUFFICES ASSUME NEW b \in Agent, NEW f \in Nat, NEW m \in Nat, NEW n \in Nat, NEW k \in Nat, NEW l \in Nat,
                      NEW i \in Nat, NEW j \in Nat,
                      At(b, f, n, k, i)' /\ At(b, f, m, l, j)' /\ k < l /\ l <= 6 /\ (l <= 2 => i = j)
               PROVE  n < m
      BY DEF Order
  <2>0. PICK k2 \in Nat : k2 = 2
      OBVIOUS
  <2>1. CASE k = 1 /\ i = s
    <3>1. At(b, f, n, k2, s)
        BY <1>4, <2>0, <2>1
    <3>2. l # 2
        BY <1>4, <2>1
    <3>3. At(b, f, m, l, j) /\ k2 < l /\ l <= 6 /\ (l <= 2 => s = j)
        BY <1>4, <2>0, <2>1, <3>2
    <3> QED
        BY <1>0, <1>3, <3>1, <3>3 DEF Order
  <2>2. CASE l = 1 /\ j = s
    <3>1. At(b, f, m, k2, s)
        BY <1>4, <2>0, <2>2
    <3>2. At(b, f, n, k, i) /\ k < k2 /\ k2 <= 6 /\ (k2 <= 2 => i = s)
        BY <1>4, <2>0, <2>2
    <3> QED
        BY <1>0, <1>3, <3>1, <3>2 DEF Order
  <2>3. CASE ~(k = 1 /\ i = s) /\ ~(l = 1 /\ j = s)
    <3>1. At(b, f, n, k, i) /\ At(b, f, m, l, j)
        BY <1>4, <2>3
    <3> QED
        BY <1>0, <3>1 DEF Order
  <2> QED
      BY <2>1, <2>2, <2>3
<1> QED
    BY <1>5, <1>7, <1>8, <1>9

\* commit: a new report enters the queue.
LEMMA CommitStep ==
    ASSUME PathInv, NEW a \in Agent, commit(a)
    PROVE  Tags' /\ Homes' /\ Rising' /\ Known' /\ Unique' /\ Order'
<1>0. TypeOK /\ Tags /\ Homes /\ Rising /\ Known /\ Unique /\ Order
    BY DEF PathInv
<1>1. PICK q, N : q = queue[a] /\ N = issued[a] + 1
    OBVIOUS
<1>2. q \in Seq(Nat) /\ issued[a] \in Nat /\ N \in Nat /\ UpNum(q)
    BY <1>0, <1>1, Shapes DEF Rising
<1>3. /\ issued' = [issued EXCEPT ![a] = N] /\ queue' = [queue EXCEPT ![a] = Append(q, N)]
      /\ UNCHANGED <<obuf, epoch, home, wire, pc, req, squeue, batch, stored, lost>>
    BY <1>1 DEF commit, pool, db
<1>4. \A b \in Agent : /\ issued'[b] = IF b = a THEN N ELSE issued[b]
                       /\ queue'[b] = IF b = a THEN Append(q, N) ELSE queue[b]
    BY <1>0, <1>3, Shapes
<1>5. \A n : InNum(Append(q, N), n) <=> InNum(q, n) \/ n = N
    BY <1>2, NumAppend
<1>6. ASSUME NEW f \in Nat, NEW n \in Nat, NEW k \in Nat, NEW i \in Nat, At(a, f, n, k, i) PROVE n < N
  <2>1. n \in 1 .. issued[a]
      BY <1>0, <1>6 DEF Known
  <2> QED
      BY <1>1, <1>2, <2>1
<1>7. ASSUME NEW b \in Agent, NEW f \in Nat, NEW n \in Nat, NEW k \in Nat, NEW i \in Nat
      PROVE  /\ k # 6 => (At(b, f, n, k, i)' <=> At(b, f, n, k, i))
             /\ k = 6 => (At(b, f, n, k, i)' <=> At(b, f, n, k, i) \/ (b = a /\ n = N /\ i = 0))
  <2>1. k # 6 => (At(b, f, n, k, i)' <=> At(b, f, n, k, i))
      BY <1>3 DEF At
  <2>2. k = 6 => (At(b, f, n, k, i)' <=> At(b, f, n, k, i) \/ (b = a /\ n = N /\ i = 0))
      BY <1>1, <1>4, <1>5 DEF At
  <2> QED
      BY <2>1, <2>2
<1>8. Rising'
  <2>1. \A n : InNum(q, n) => n < N
    <3> SUFFICES ASSUME NEW n, InNum(q, n) PROVE n < N
        OBVIOUS
    <3>1. n \in Nat
        BY <1>2, InNumTypes
    <3>2. At(a, 0, n, 6, 0)
        BY <1>1 DEF At
    <3> QED
        BY <1>6, <3>1, <3>2
  <2>2. UpNum(Append(q, N))
      BY <1>2, <2>1, NumAppend
  <2> QED
      BY <1>0, <1>3, <1>4, <2>2 DEF Rising
<1>9. Tags'
    BY <1>0, <1>3 DEF Tags
<1>10. Homes'
  <2> SUFFICES ASSUME NEW b \in Agent, NEW f \in Nat, NEW n \in Nat, NEW k \in Nat, NEW i \in Nat,
                      At(b, f, n, k, i)', k <= 4
               PROVE  f \in 1 .. epoch'[b] /\ (k = 3 => home'[b][f] = i)
      BY DEF Homes
  <2>1. At(b, f, n, k, i)
      BY <1>7
  <2> QED
      BY <1>0, <1>3, <2>1 DEF Homes
<1>11. ASSUME NEW b \in Agent, NEW n \in Nat PROVE Stays(b, n) \/ Moves(b, n)
  <2>1. CASE b = a /\ n = N
    <3>1. ASSUME NEW f \in Nat, NEW k \in Nat, NEW i \in Nat
          PROVE  At(b, f, n, k, i)' <=> k = 6 /\ i = 0
      <4>1. ~At(a, f, N, k, i)
          BY <1>2, <1>6
      <4> QED
          BY <1>7, <2>1, <4>1
    <3>2. n \in 1 .. issued'[b]
        BY <1>1, <1>2, <1>4, <2>1
    <3>3. At(b, 0, n, 6, 0)'
        BY <3>1
    <3>4. \A e, f, k, l, i, j \in Nat :
              At(b, e, n, k, i)' /\ At(b, f, n, l, j)' => k = l /\ i = j /\ (k <= 4 => e = f)
        BY <3>1
    <3> QED
        BY <3>2, <3>3, <3>4 DEF Moves
  <2>2. CASE ~(b = a /\ n = N)
    <3>1. ASSUME NEW f \in Nat, NEW k \in Nat, NEW i \in Nat
          PROVE  At(b, f, n, k, i)' <=> At(b, f, n, k, i)
        BY <1>7, <2>2
    <3>2. n \in 1 .. issued'[b] <=> n \in 1 .. issued[b]
        BY <1>1, <1>2, <1>4, <2>2
    <3> QED
        BY <3>1, <3>2 DEF Stays
  <2> QED
      BY <2>1, <2>2
<1>12. Known' /\ Unique'
    BY <1>0, <1>11, Accounts
<1>13. Order'
  <2> SUFFICES ASSUME NEW b \in Agent, NEW f \in Nat, NEW m \in Nat, NEW n \in Nat, NEW k \in Nat, NEW l \in Nat,
                      NEW i \in Nat, NEW j \in Nat,
                      At(b, f, n, k, i)' /\ At(b, f, m, l, j)' /\ k < l /\ l <= 6 /\ (l <= 2 => i = j)
               PROVE  n < m
      BY DEF Order
  <2>1. At(b, f, n, k, i)
      BY <1>7
  <2>2. CASE b = a /\ m = N
      BY <1>6, <2>1, <2>2
  <2>3. CASE ~(b = a /\ m = N)
    <3>1. At(b, f, m, l, j)
        BY <1>7, <2>3
    <3> QED
        BY <1>0, <2>1, <3>1 DEF Order
  <2> QED
      BY <2>2, <2>3
<1> QED
    BY <1>8, <1>9, <1>10, <1>12, <1>13

\* send_message accepts a part of what it is given.
LEMMA AcceptedPart ==
    ASSUME TypeOK, NEW a \in Agent
    PROVE  Accepted(a) \in 0 .. Len(queue[a])
<1>1. \A n, m, c \in Nat : m <= c =>
          0 \in 0 .. n /\ n \in 0 .. n /\ (~(n <= c - m) => c - m \in 0 .. n)
    OBVIOUS
<1>2. Len(queue[a]) \in Nat /\ Len(obuf[a]) \in Nat /\ ObufCap \in Nat /\ Len(obuf[a]) <= ObufCap
  <2>1. queue[a] \in Seq(Nat) /\ obuf[a] \in Seq(Nat) /\ Len(obuf[a]) <= ObufCap
      BY DEF TypeOK
  <2> QED
      BY <2>1, LenProperties, ReportAssumption
<1>3. \/ Accepted(a) = 0 \/ Accepted(a) = Len(queue[a])
      \/ Accepted(a) = ObufCap - Len(obuf[a]) /\ ~(Len(queue[a]) <= ObufCap - Len(obuf[a]))
    BY DEF Accepted
<1> QED
    BY <1>1, <1>2, <1>3

\* new_report_request: the queue goes to the output buffer, as far as it is
\* accepted, and is lost otherwise.
LEMMA RequestStep ==
    ASSUME PathInv, NEW a \in Agent, new_report_request(a)
    PROVE  Tags' /\ Homes' /\ Rising' /\ Known' /\ Unique' /\ Order'
<1>0. TypeOK /\ Tags /\ Homes /\ Rising /\ Known /\ Unique /\ Order
    BY DEF PathInv
<1>1. PICK q, o, K : q = queue[a] /\ o = obuf[a] /\ K = Accepted(a)
    OBVIOUS
<1>2. q \in Seq(Nat) /\ o \in Seq(Nat) /\ UpNum(q) /\ UpNum(o)
    BY <1>0, <1>1, Shapes DEF Rising
<1>3. K \in 0 .. Len(q)
    BY <1>0, <1>1, AcceptedPart
<1>4. PICK u, L : u = SubSeq(q, 1, K) /\ L = {q[i] : i \in K + 1 .. Len(q)}
    OBVIOUS
<1>5. /\ queue' = [queue EXCEPT ![a] = <<>>] /\ obuf' = [obuf EXCEPT ![a] = o \o u]
      /\ lost' = [lost EXCEPT ![a] = @ \cup L]
      /\ UNCHANGED <<issued, epoch, home, wire, pc, req, squeue, batch, stored>>
    BY <1>1, <1>4 DEF new_report_request, pool, db
<1>6. \A b \in Agent : /\ queue'[b] = IF b = a THEN <<>> ELSE queue[b]
                       /\ obuf'[b] = IF b = a THEN o \o u ELSE obuf[b]
                       /\ lost'[b] = IF b = a THEN lost[b] \cup L ELSE lost[b]
    BY <1>0, <1>5, Shapes
<1>7. /\ \A n : InNum(q, n) <=> InNum(u, n) \/ n \in L
      /\ UpNum(u) /\ \A n : InNum(u, n) => n \notin L
    BY <1>2, <1>3, <1>4, NumCut
<1>8. u \in Seq(Nat)
  <2>1. Len(q) \in Nat /\ \A i \in 1 .. Len(q) : q[i] \in Nat
      BY <1>2, LenProperties, ElementOfSeq
  <2> QED
      BY <1>2, <1>3, <1>4, <2>1
<1>9. UpNum(<<>>) /\ \A n : ~InNum(<<>>, n)
  <2>1. Len(<<>>) = 0 /\ \A i : i \notin 1 .. 0
      OBVIOUS
  <2> QED
      BY <2>1 DEF UpNum, InNum
<1>10. \A n : InNum(o \o u, n) <=> InNum(o, n) \/ InNum(u, n)
    BY <1>2, <1>8, NumConcat
<1>11. ASSUME NEW b \in Agent, NEW f \in Nat, NEW n \in Nat, NEW k \in Nat, NEW i \in Nat
       PROVE  /\ k \notin {5, 6, 7} => (At(b, f, n, k, i)' <=> At(b, f, n, k, i))
              /\ k = 7 => (At(b, f, n, k, i)' <=> At(b, f, n, k, i) \/ (b = a /\ i = 0 /\ n \in L))
              /\ k = 6 => (At(b, f, n, k, i)' <=> At(b, f, n, k, i) /\ b # a)
              /\ k = 5 => (At(b, f, n, k, i)' <=> At(b, f, n, k, i) \/ (b = a /\ i = 0 /\ InNum(u, n)))
              /\ k = 6 /\ b = a => (At(b, f, n, k, i) <=> i = 0 /\ InNum(q, n))
  <2>1. k \notin {5, 6, 7} => (At(b, f, n, k, i)' <=> At(b, f, n, k, i))
      BY <1>5 DEF At
  <2>2. k = 7 => (At(b, f, n, k, i)' <=> At(b, f, n, k, i) \/ (b = a /\ i = 0 /\ n \in L))
    <3>1. n \in lost'[b] <=> n \in lost[b] \/ (b = a /\ n \in L)
        BY <1>6
    <3>2. k = 7 => /\ At(b, f, n, k, i) <=> i = 0 /\ n \in lost[b]
                   /\ At(b, f, n, k, i)' <=> i = 0 /\ n \in lost'[b]
        BY DEF At
    <3> QED
        BY <3>1, <3>2
  <2>3. k = 6 => (At(b, f, n, k, i)' <=> At(b, f, n, k, i) /\ b # a)
    <3>1. InNum(queue'[b], n) <=> InNum(queue[b], n) /\ b # a
        BY <1>6, <1>9
    <3>2. k = 6 => /\ At(b, f, n, k, i) <=> i = 0 /\ InNum(queue[b], n)
                   /\ At(b, f, n, k, i)' <=> i = 0 /\ InNum(queue'[b], n)
        BY DEF At
    <3> QED
        BY <3>1, <3>2
  <2>4. k = 5 => (At(b, f, n, k, i)' <=> At(b, f, n, k, i) \/ (b = a /\ i = 0 /\ InNum(u, n)))
    <3>1. InNum(obuf'[b], n) <=> InNum(obuf[b], n) \/ (b = a /\ InNum(u, n))
        BY <1>1, <1>6, <1>10
    <3>2. k = 5 => /\ At(b, f, n, k, i) <=> i = 0 /\ InNum(obuf[b], n)
                   /\ At(b, f, n, k, i)' <=> i = 0 /\ InNum(obuf'[b], n)
        BY DEF At
    <3> QED
        BY <3>1, <3>2
  <2>5. k = 6 /\ b = a => (At(b, f, n, k, i) <=> i = 0 /\ InNum(q, n))
      BY <1>1 DEF At
  <2> QED
      BY <2>1, <2>2, <2>3, <2>4, <2>5
<1>12. Tags'
    BY <1>0, <1>5 DEF Tags
<1>13. Homes'
  <2> SUFFICES ASSUME NEW b \in Agent, NEW f \in Nat, NEW n \in Nat, NEW k \in Nat, NEW i \in Nat,
                      At(b, f, n, k, i)', k <= 4
               PROVE  f \in 1 .. epoch'[b] /\ (k = 3 => home'[b][f] = i)
      BY DEF Homes
  <2>1. At(b, f, n, k, i)
      BY <1>11
  <2> QED
      BY <1>0, <1>5, <2>1 DEF Homes
<1>14. Rising'
  <2>1. \A m, n : InNum(o, m) /\ InNum(u, n) => m < n
    <3> SUFFICES ASSUME NEW m, NEW n, InNum(o, m), InNum(u, n) PROVE m < n
        OBVIOUS
    <3>1. m \in Nat /\ n \in Nat
        BY <1>2, <1>8, InNumTypes
    <3>2. PICK e \in Nat, k \in Nat, l \in Nat, i \in Nat : e = 0 /\ k = 5 /\ l = 6 /\ i = 0
        OBVIOUS
    <3>3. At(a, e, m, k, i) /\ At(a, e, n, l, i)
        BY <1>1, <1>7, <3>2 DEF At
    <3>4. k < l /\ l <= 6 /\ (l <= 2 => i = i)
        BY <3>2
    <3> QED
        BY <1>0, <3>1, <3>3, <3>4 DEF Order
  <2>2. UpNum(o \o u)
      BY <1>2, <1>7, <1>8, <2>1, NumConcat
  <2> QED
      BY <1>0, <1>5, <1>6, <1>9, <2>2 DEF Rising
<1>15. ASSUME NEW b \in Agent, NEW n \in Nat PROVE Stays(b, n) \/ Moves(b, n)
  <2>1. CASE b = a /\ InNum(q, n)
    <3>1. PICK l \in Nat, j \in Nat, z \in Nat : l = 6 /\ j = 0 /\ z = 0
        OBVIOUS
    <3>2. Unique /\ At(b, z, n, l, j) /\ At(b, 0, n, 6, 0)
        BY <1>0, <1>11, <2>1, <3>1
    <3>3. ASSUME NEW f \in Nat, NEW k \in Nat, NEW i \in Nat, At(b, f, n, k, i)
          PROVE  k = l /\ i = j /\ (k <= 4 => f = z)
        BY <3>2, <3>3, OneSpot
    <3>4. ASSUME NEW f \in Nat, NEW k \in Nat, NEW i \in Nat
          PROVE  At(b, f, n, k, i)' <=> i = 0 /\ k = (IF n \in L THEN 7 ELSE 5)
      <4>1. At(b, f, n, k, i) => k = 6
          BY <3>1, <3>3
      <4>2. InNum(u, n) <=> n \notin L
          BY <1>7, <2>1
      <4> QED
          BY <1>11, <2>1, <4>1, <4>2
    <3>5. n \in 1 .. issued'[b]
        BY <1>0, <1>5, <3>2 DEF Known
    <3>6. At(b, 0, n, IF n \in L THEN 7 ELSE 5, 0)'
        BY <3>4
    <3>7. \A e, f, k, l2, i, j2 \in Nat :
              At(b, e, n, k, i)' /\ At(b, f, n, l2, j2)' => k = l2 /\ i = j2 /\ (k <= 4 => e = f)
        BY <3>4
    <3>8. \E e, k, i \in Nat : At(b, e, n, k, i)'
      <4>1. (IF n \in L THEN 7 ELSE 5) \in Nat /\ 0 \in Nat
          OBVIOUS
      <4> QED
          BY <3>6, <4>1
    <3> QED
        BY <3>5, <3>7, <3>8 DEF Moves
  <2>2. CASE ~(b = a /\ InNum(q, n))
    <3>1. ASSUME NEW f \in Nat, NEW k \in Nat, NEW i \in Nat
          PROVE  At(b, f, n, k, i)' <=> At(b, f, n, k, i)
        BY <1>7, <1>11, <2>2
    <3> QED
        BY <1>5, <3>1 DEF Stays
  <2> QED
      BY <2>1, <2>2
<1>16. Known' /\ Unique'
    BY <1>0, <1>15, Accounts
<1>17. Order'
  <2> SUFFICES ASSUME NEW b \in Agent, NEW f \in Nat, NEW m \in Nat, NEW n \in Nat, NEW k \in Nat, NEW l \in Nat,
                      NEW i \in Nat, NEW j \in Nat,
                      At(b, f, n, k, i)' /\ At(b, f, m, l, j)' /\ k < l /\ l <= 6 /\ (l <= 2 => i = j)
               PROVE  n < m
      BY DEF Order
  <2>1. CASE k = 5
    <3>1. l = 6 /\ b # a
        BY <1>11, <2>1
    <3>2. At(b, f, n, k, i) /\ At(b, f, m, l, j)
        BY <1>11, <2>1, <3>1
    <3> QED
        BY <1>0, <3>2 DEF Order
  <2>2. CASE k # 5 /\ l = 5 /\ b = a /\ InNum(u, m)
    <3>1. PICK l2 \in Nat, j2 \in Nat : l2 = 6 /\ j2 = 0
        OBVIOUS
    <3>2. At(b, f, n, k, i) /\ At(b, f, m, l2, j2)
        BY <1>7, <1>11, <2>2, <3>1
    <3>3. k < l2 /\ l2 <= 6 /\ (l2 <= 2 => i = j2)
        BY <2>2, <3>1
    <3> QED
        BY <1>0, <3>2, <3>3 DEF Order
  <2>3. CASE k # 5 /\ ~(l = 5 /\ b = a /\ InNum(u, m))
    <3>1. At(b, f, n, k, i) /\ At(b, f, m, l, j)
        BY <1>11, <2>3
    <3> QED
        BY <1>0, <3>1 DEF Order
  <2> QED
      BY <2>1, <2>2, <2>3
<1> QED
    BY <1>12, <1>13, <1>14, <1>16, <1>17

\* clean_conn: what is on the way arrives up to some report, and the rest is
\* lost; the next connection has a number of its own.
LEMMA CleanStep ==
    ASSUME PathInv, NEW a \in Agent, clean_conn(a)
    PROVE  Tags' /\ Homes' /\ Rising' /\ Known' /\ Unique' /\ Order'
<1>0. TypeOK /\ Tags /\ Homes /\ Rising /\ Known /\ Unique /\ Order
    BY DEF PathInv
<1> DEFINE E == epoch[a]
           w == wire[a][epoch[a]]
<1>1. E = epoch[a] /\ w = wire[a][E]
    OBVIOUS
<1>2. E \in Conn(a) /\ E \in Nat /\ w \in Seq(Report) /\ UpSeq(w)
    BY <1>0, <1>1, Shapes DEF Rising
<1>3. PICK K \in 0 .. Len(w) :
          /\ wire' = [wire EXCEPT ![a][E] = SubSeq(w, 1, K)]
          /\ lost' = [lost EXCEPT ![a] = @ \cup {w[i].n : i \in K + 1 .. Len(w)}]
    BY DEF clean_conn
<1>4. PICK t : home' = [home EXCEPT ![a][E + 1] = t]
    BY DEF clean_conn
<1>5. /\ epoch' = [epoch EXCEPT ![a] = E + 1]
      /\ UNCHANGED <<issued, queue, obuf, pc, req, squeue, batch, stored>>
    BY <1>1 DEF clean_conn, pool, db
<1> HIDE DEF E, w
<1>6. PICK u, L : u = SubSeq(w, 1, K) /\ L = {w[i].n : i \in K + 1 .. Len(w)}
    OBVIOUS
<1>7. /\ \A b \in Agent : \A f \in Conn(b) : wire'[b][f] = IF b = a /\ f = E THEN u ELSE wire[b][f]
      /\ \A b \in Agent : lost'[b] = IF b = a THEN lost[b] \cup L ELSE lost[b]
      /\ \A b \in Agent : epoch'[b] = IF b = a THEN E + 1 ELSE epoch[b]
  <2>1. \A b \in Agent : \A f \in Conn(b) : wire'[b][f] = IF b = a /\ f = E THEN u ELSE wire[b][f]
      BY <1>0, <1>2, <1>3, <1>6, Shapes
  <2>2. \A b \in Agent : lost'[b] = IF b = a THEN lost[b] \cup L ELSE lost[b]
      BY <1>0, <1>3, <1>6, Shapes
  <2>3. \A b \in Agent : epoch'[b] = IF b = a THEN E + 1 ELSE epoch[b]
      BY <1>0, <1>5, Shapes
  <2> QED
      BY <2>1, <2>2, <2>3
<1>8. \A b \in Agent : \A f \in Nat : ~(b = a /\ f = E + 1) => home'[b][f] = home[b][f]
    BY <1>0, <1>4, Shapes
<1>9. /\ \A b, f, n : InSeq(w, b, f, n) <=> InSeq(u, b, f, n) \/ (b = a /\ f = E /\ n \in L)
      /\ UpSeq(u) /\ \A b, f, n : InSeq(u, b, f, n) => n \notin L
      /\ \A i \in 1 .. Len(u) : u[i].agent = a /\ u[i].conn = E
  <2>1. Tagged(w, a, E)
      BY <1>0, <1>1, <1>2 DEF Tags, Tagged
  <2>2. /\ \A b, f, n : InSeq(w, b, f, n) <=> InSeq(u, b, f, n) \/ (b = a /\ f = E /\ n \in L)
        /\ UpSeq(u) /\ \A b, f, n : InSeq(u, b, f, n) => n \notin L
        /\ Tagged(u, a, E)
      BY <1>2, <1>6, <2>1, RepCut
  <2> QED
      BY <2>2 DEF Tagged
<1>10. ASSUME NEW b \in Agent, NEW f \in Nat, NEW n \in Nat, NEW k \in Nat, NEW i \in Nat
       PROVE  /\ k \notin {4, 7} => (At(b, f, n, k, i)' <=> At(b, f, n, k, i))
              /\ k = 7 => (At(b, f, n, k, i)' <=> At(b, f, n, k, i) \/ (b = a /\ i = 0 /\ n \in L))
              /\ k = 4 => (At(b, f, n, k, i)' <=> At(b, f, n, k, i) /\ ~(b = a /\ f = E /\ n \in L))
  <2>1. k \notin {4, 7} => (At(b, f, n, k, i)' <=> At(b, f, n, k, i))
      BY <1>5 DEF At
  <2>2. k = 7 => (At(b, f, n, k, i)' <=> At(b, f, n, k, i) \/ (b = a /\ i = 0 /\ n \in L))
    <3>1. n \in lost'[b] <=> n \in lost[b] \/ (b = a /\ n \in L)
        BY <1>7
    <3>2. k = 7 => /\ At(b, f, n, k, i) <=> i = 0 /\ n \in lost[b]
                   /\ At(b, f, n, k, i)' <=> i = 0 /\ n \in lost'[b]
        BY DEF At
    <3> QED
        BY <3>1, <3>2
  <2>3. k = 4 => (At(b, f, n, k, i)' <=> At(b, f, n, k, i) /\ ~(b = a /\ f = E /\ n \in L))
      BY <1>1, <1>7, <1>9 DEF At
  <2> QED
      BY <2>1, <2>2, <2>3
<1>11. Tags'
  <2>1. \A b \in Agent : \A f \in Conn(b) : \A i \in 1 .. Len(wire'[b][f]) :
            wire'[b][f][i].agent = b /\ wire'[b][f][i].conn = f
    <3> SUFFICES ASSUME NEW b \in Agent, NEW f \in Conn(b), NEW i \in 1 .. Len(wire'[b][f])
                 PROVE  wire'[b][f][i].agent = b /\ wire'[b][f][i].conn = f
        OBVIOUS
    <3>1. CASE b = a /\ f = E
        BY <1>7, <1>9, <3>1
    <3>2. CASE ~(b = a /\ f = E)
        BY <1>0, <1>7, <3>2 DEF Tags
    <3> QED
        BY <3>1, <3>2
  <2> QED
      BY <1>0, <1>5, <2>1 DEF Tags
<1>12. Rising'
    BY <1>0, <1>5, <1>7, <1>9 DEF Rising
<1>13. Homes'
  <2> SUFFICES ASSUME NEW b \in Agent, NEW f \in Nat, NEW n \in Nat, NEW k \in Nat, NEW i \in Nat,
                      At(b, f, n, k, i)', k <= 4
               PROVE  f \in 1 .. epoch'[b] /\ (k = 3 => home'[b][f] = i)
      BY DEF Homes
  <2>1. At(b, f, n, k, i)
      BY <1>10
  <2>2. f \in 1 .. epoch[b] /\ (k = 3 => home[b][f] = i)
      BY <1>0, <2>1 DEF Homes
  <2>3. epoch[b] \in Nat
      BY <1>0, Shapes
  <2> QED
      BY <1>1, <1>2, <1>7, <1>8, <2>2, <2>3
<1>14. ASSUME NEW b \in Agent, NEW n \in Nat PROVE Stays(b, n) \/ Moves(b, n)
  <2>1. CASE b = a /\ n \in L
    <3>1. PICK l \in Nat : l = 4
        OBVIOUS
    <3>2. Unique /\ E \in Nat /\ At(b, E, n, l, E) /\ At(b, E, n, 4, E)
        BY <1>0, <1>1, <1>2, <1>9, <2>1, <3>1 DEF At
    <3>3. ASSUME NEW f \in Nat, NEW k \in Nat, NEW i \in Nat, At(b, f, n, k, i)
          PROVE  k = l /\ i = E /\ (k <= 4 => f = E)
        BY <3>2, <3>3, OneSpot
    <3>4. ASSUME NEW f \in Nat, NEW k \in Nat, NEW i \in Nat
          PROVE  At(b, f, n, k, i)' <=> i = 0 /\ k = 7
      <4>1. At(b, f, n, k, i) => k = 4 /\ f = E
          BY <3>1, <3>3
      <4> QED
          BY <1>10, <2>1, <4>1
    <3>5. n \in 1 .. issued'[b]
        BY <1>0, <1>5, <3>2 DEF Known
    <3>6. At(b, 0, n, 7, 0)'
        BY <3>4
    <3>7. \A e, f, k, l2, i, j \in Nat :
              At(b, e, n, k, i)' /\ At(b, f, n, l2, j)' => k = l2 /\ i = j /\ (k <= 4 => e = f)
        BY <3>4
    <3> QED
        BY <3>5, <3>6, <3>7 DEF Moves
  <2>2. CASE ~(b = a /\ n \in L)
    <3>1. ASSUME NEW f \in Nat, NEW k \in Nat, NEW i \in Nat
          PROVE  At(b, f, n, k, i)' <=> At(b, f, n, k, i)
        BY <1>10, <2>2
    <3> QED
        BY <1>5, <3>1 DEF Stays
  <2> QED
      BY <2>1, <2>2
<1>15. Known' /\ Unique'
    BY <1>0, <1>14, Accounts
<1>16. NoneComes
    BY <1>10 DEF NoneComes
<1>17. Order'
    BY <1>0, <1>16, OrderKept
<1> QED
    BY <1>11, <1>12, <1>13, <1>15, <1>17

-----------------------------------------------------------------------------
(* The places of ReportAccounted are those of At.                           *)

\* y is the place of a report of agent a on connection e, at place i of stage k.
Slot(a, y, e, k, i) ==
    \/ k = 7 /\ i = 0 /\ \E n \in lost[a] : y = [at |-> <<"lost">>, n |-> n]
    \/ k = 6 /\ i = 0 /\ \E x \in 1 .. Len(queue[a]) : y = [at |-> <<"queue", x>>, n |-> queue[a][x]]
    \/ k = 5 /\ i = 0 /\ \E x \in 1 .. Len(obuf[a]) : y = [at |-> <<"obuf", x>>, n |-> obuf[a][x]]
    \/ k = 4 /\ i = e /\ e \in Conn(a)
       /\ \E x \in 1 .. Len(wire[a][e]) : y = [at |-> <<"wire", e, x>>, n |-> wire[a][e][x].n]
    \/ k = 3 /\ i \in Thread /\ req[i] # <<>> /\ req[i][1].agent = a /\ req[i][1].conn = e
       /\ y = [at |-> <<"req", i>>, n |-> req[i][1].n]
    \/ k = 2 /\ i \in Store
       /\ \E x \in 1 .. Len(squeue[i]) : squeue[i][x].agent = a /\ squeue[i][x].conn = e
                                         /\ y = [at |-> <<"squeue", i, x>>, n |-> squeue[i][x].n]
    \/ k = 1 /\ i \in Store
       /\ \E x \in 1 .. Len(batch[i]) : batch[i][x].agent = a /\ batch[i][x].conn = e
                                        /\ y = [at |-> <<"batch", i, x>>, n |-> batch[i][x].n]
    \/ k = 0 /\ i \in Store
       /\ \E n \in Nat : <<n, i, e>> \in stored[a] /\ y = [at |-> <<"stored", i, e>>, n |-> n]

\* Slots, place by place.
LEMMA SlotCases ==
    ASSUME NEW a, NEW y
    PROVE  y \in Slots(a) <=>
           \/ \E x \in DOMAIN queue[a] : y = [at |-> <<"queue", x>>, n |-> queue[a][x]]
           \/ \E x \in DOMAIN obuf[a] : y = [at |-> <<"obuf", x>>, n |-> obuf[a][x]]
           \/ \E e \in Conn(a) : \E x \in DOMAIN wire[a][e] : y = [at |-> <<"wire", e, x>>, n |-> wire[a][e][x].n]
           \/ \E t \in Thread : req[t] # <<>> /\ req[t][1].agent = a /\ y = [at |-> <<"req", t>>, n |-> req[t][1].n]
           \/ \E s \in Store : \E x \in DOMAIN squeue[s] :
                  squeue[s][x].agent = a /\ y = [at |-> <<"squeue", s, x>>, n |-> squeue[s][x].n]
           \/ \E s \in Store : \E x \in DOMAIN batch[s] :
                  batch[s][x].agent = a /\ y = [at |-> <<"batch", s, x>>, n |-> batch[s][x].n]
           \/ \E x \in stored[a] : y = [at |-> <<"stored", x[2], x[3]>>, n |-> x[1]]
           \/ \E n \in lost[a] : y = [at |-> <<"lost">>, n |-> n]
<1> DEFINE WireOf(e) == {[at |-> <<"wire", e, i>>, n |-> wire[a][e][i].n] : i \in DOMAIN wire[a][e]}
           SqueueOf(s) == {[at |-> <<"squeue", s, i>>, n |-> squeue[s][i].n] :
                              i \in {j \in DOMAIN squeue[s] : squeue[s][j].agent = a}}
           BatchOf(s) == {[at |-> <<"batch", s, i>>, n |-> batch[s][i].n] :
                              i \in {j \in DOMAIN batch[s] : batch[s][j].agent = a}}
           Q == {[at |-> <<"queue", i>>, n |-> queue[a][i]] : i \in DOMAIN queue[a]}
           O == {[at |-> <<"obuf", i>>, n |-> obuf[a][i]] : i \in DOMAIN obuf[a]}
           W == UNION {WireOf(e) : e \in Conn(a)}
           R == {[at |-> <<"req", t>>, n |-> req[t][1].n] :
                     t \in {u \in Thread : req[u] # <<>> /\ req[u][1].agent = a}}
           S == UNION {SqueueOf(s) : s \in Store}
           B == UNION {BatchOf(s) : s \in Store}
           D == {[at |-> <<"stored", x[2], x[3]>>, n |-> x[1]] : x \in stored[a]}
           L == {[at |-> <<"lost">>, n |-> n] : n \in lost[a]}
<1>1. Slots(a) = Q \cup O \cup W \cup R \cup S \cup B \cup D \cup L
    BY Zenon DEF Slots
<1>2. y \in Q <=> \E x \in DOMAIN queue[a] : y = [at |-> <<"queue", x>>, n |-> queue[a][x]]
    OBVIOUS
<1>3. y \in O <=> \E x \in DOMAIN obuf[a] : y = [at |-> <<"obuf", x>>, n |-> obuf[a][x]]
    OBVIOUS
<1>4. y \in W <=> \E e \in Conn(a) : \E x \in DOMAIN wire[a][e] :
                      y = [at |-> <<"wire", e, x>>, n |-> wire[a][e][x].n]
  <2>1. \A e : y \in WireOf(e) <=> \E x \in DOMAIN wire[a][e] : y = [at |-> <<"wire", e, x>>, n |-> wire[a][e][x].n]
      OBVIOUS
  <2> HIDE DEF WireOf
  <2>2. y \in W <=> \E e \in Conn(a) : y \in WireOf(e)
      BY Zenon
  <2> QED
      BY <2>1, <2>2, Zenon
<1>5. y \in R <=> \E t \in Thread : /\ req[t] # <<>> /\ req[t][1].agent = a
                                    /\ y = [at |-> <<"req", t>>, n |-> req[t][1].n]
    OBVIOUS
<1>6. y \in S <=> \E s \in Store : \E x \in DOMAIN squeue[s] :
                      squeue[s][x].agent = a /\ y = [at |-> <<"squeue", s, x>>, n |-> squeue[s][x].n]
  <2>1. \A s : y \in SqueueOf(s) <=> \E x \in DOMAIN squeue[s] :
                      squeue[s][x].agent = a /\ y = [at |-> <<"squeue", s, x>>, n |-> squeue[s][x].n]
      OBVIOUS
  <2> HIDE DEF SqueueOf
  <2>2. y \in S <=> \E s \in Store : y \in SqueueOf(s)
      BY Zenon
  <2> QED
      BY <2>1, <2>2, Zenon
<1>7. y \in B <=> \E s \in Store : \E x \in DOMAIN batch[s] :
                      batch[s][x].agent = a /\ y = [at |-> <<"batch", s, x>>, n |-> batch[s][x].n]
  <2>1. \A s : y \in BatchOf(s) <=> \E x \in DOMAIN batch[s] :
                      batch[s][x].agent = a /\ y = [at |-> <<"batch", s, x>>, n |-> batch[s][x].n]
      OBVIOUS
  <2> HIDE DEF BatchOf
  <2>2. y \in B <=> \E s \in Store : y \in BatchOf(s)
      BY Zenon
  <2> QED
      BY <2>1, <2>2, Zenon
<1>8. y \in D <=> \E x \in stored[a] : y = [at |-> <<"stored", x[2], x[3]>>, n |-> x[1]]
    OBVIOUS
<1>9. y \in L <=> \E n \in lost[a] : y = [at |-> <<"lost">>, n |-> n]
    OBVIOUS
<1>10. y \in Slots(a) <=> \/ y \in Q \/ y \in O \/ y \in W \/ y \in R
                         \/ y \in S \/ y \in B \/ y \in D \/ y \in L
  <2> HIDE DEF Q, O, W, R, S, B, D, L
  <2> QED
      BY <1>1
<1> HIDE DEF Q, O, W, R, S, B, D, L
<1> QED
    BY <1>2, <1>3, <1>4, <1>5, <1>6, <1>7, <1>8, <1>9, <1>10, Zenon

\* Each of them has a stage and a place.
LEMMA SlotsPlaced ==
    ASSUME TypeOK, NEW a \in Agent, NEW y
    PROVE  y \in Slots(a) <=> \E e, k, i \in Nat : Slot(a, y, e, k, i)
<1>1. /\ DOMAIN queue[a] = 1 .. Len(queue[a]) /\ DOMAIN obuf[a] = 1 .. Len(obuf[a])
      /\ \A e \in Conn(a) : DOMAIN wire[a][e] = 1 .. Len(wire[a][e]) /\ e \in Nat
      /\ \A s \in Store : DOMAIN squeue[s] = 1 .. Len(squeue[s]) /\ DOMAIN batch[s] = 1 .. Len(batch[s]) /\ s \in Nat
      /\ \A t \in Thread : t \in Nat
    BY Shapes, LenProperties
<1>2. \A s \in Store : /\ \A x \in 1 .. Len(squeue[s]) : squeue[s][x].conn \in Nat
                       /\ \A x \in 1 .. Len(batch[s]) : batch[s][x].conn \in Nat
  <2>1. \A s \in Store : /\ \A x \in 1 .. Len(squeue[s]) : squeue[s][x] \in Report
                         /\ \A x \in 1 .. Len(batch[s]) : batch[s][x] \in Report
      BY Shapes, ElementOfSeq
  <2> QED
      BY <2>1, ReportFields
<1>3. \A t \in Thread : req[t] # <<>> => req[t][1].conn \in Nat
  <2>1. \A t \in Thread : req[t] # <<>> => req[t][1] \in Report
      BY Shapes, TailFacts
  <2> QED
      BY <2>1, ReportFields
<1>4. \A x \in stored[a] : x = <<x[1], x[2], x[3]>> /\ x[1] \in Nat /\ x[2] \in Store /\ x[3] \in Nat
  <2>1. stored[a] \subseteq Nat \X Store \X Nat
      BY DEF TypeOK
  <2> QED
      BY <2>1
<1>5. ASSUME y \in Slots(a) PROVE \E e, k, i \in Nat : Slot(a, y, e, k, i)
  <2>1. CASE \E x \in DOMAIN queue[a] : y = [at |-> <<"queue", x>>, n |-> queue[a][x]]
    <3>1. Slot(a, y, 0, 6, 0)
        BY <1>1, <2>1 DEF Slot
    <3> QED
        BY <3>1
  <2>2. CASE \E x \in DOMAIN obuf[a] : y = [at |-> <<"obuf", x>>, n |-> obuf[a][x]]
    <3>1. Slot(a, y, 0, 5, 0)
        BY <1>1, <2>2 DEF Slot
    <3> QED
        BY <3>1
  <2>3. CASE \E e \in Conn(a) : \E x \in DOMAIN wire[a][e] : y = [at |-> <<"wire", e, x>>, n |-> wire[a][e][x].n]
    <3>1. PICK e \in Conn(a) : \E x \in DOMAIN wire[a][e] : y = [at |-> <<"wire", e, x>>, n |-> wire[a][e][x].n]
        BY <2>3
    <3>2. Slot(a, y, e, 4, e)
        BY <1>1, <3>1 DEF Slot
    <3> QED
        BY <1>1, <3>2
  <2>4. CASE \E t \in Thread : req[t] # <<>> /\ req[t][1].agent = a /\ y = [at |-> <<"req", t>>, n |-> req[t][1].n]
    <3>1. PICK t \in Thread : req[t] # <<>> /\ req[t][1].agent = a /\ y = [at |-> <<"req", t>>, n |-> req[t][1].n]
        BY <2>4
    <3>2. Slot(a, y, req[t][1].conn, 3, t)
        BY <3>1 DEF Slot
    <3> QED
        BY <1>1, <1>3, <3>1, <3>2
  <2>5. CASE \E s \in Store : \E x \in DOMAIN squeue[s] :
                  squeue[s][x].agent = a /\ y = [at |-> <<"squeue", s, x>>, n |-> squeue[s][x].n]
    <3>0. PICK s \in Store : \E x \in DOMAIN squeue[s] :
              squeue[s][x].agent = a /\ y = [at |-> <<"squeue", s, x>>, n |-> squeue[s][x].n]
        BY <2>5
    <3>1. PICK x \in 1 .. Len(squeue[s]) :
              squeue[s][x].agent = a /\ y = [at |-> <<"squeue", s, x>>, n |-> squeue[s][x].n]
        BY <1>1, <3>0
    <3>2. Slot(a, y, squeue[s][x].conn, 2, s)
        BY <3>1 DEF Slot
    <3> QED
        BY <1>1, <1>2, <3>2
  <2>6. CASE \E s \in Store : \E x \in DOMAIN batch[s] :
                  batch[s][x].agent = a /\ y = [at |-> <<"batch", s, x>>, n |-> batch[s][x].n]
    <3>0. PICK s \in Store : \E x \in DOMAIN batch[s] :
              batch[s][x].agent = a /\ y = [at |-> <<"batch", s, x>>, n |-> batch[s][x].n]
        BY <2>6
    <3>1. PICK x \in 1 .. Len(batch[s]) :
              batch[s][x].agent = a /\ y = [at |-> <<"batch", s, x>>, n |-> batch[s][x].n]
        BY <1>1, <3>0
    <3>2. Slot(a, y, batch[s][x].conn, 1, s)
        BY <3>1 DEF Slot
    <3> QED
        BY <1>1, <1>2, <3>2
  <2>7. CASE \E x \in stored[a] : y = [at |-> <<"stored", x[2], x[3]>>, n |-> x[1]]
    <3>1. PICK x \in stored[a] : y = [at |-> <<"stored", x[2], x[3]>>, n |-> x[1]]
        BY <2>7
    <3>2. PICK n \in Nat, s \in Store, e \in Nat : x = <<n, s, e>> /\ n = x[1] /\ s = x[2] /\ e = x[3]
        BY <1>4
    <3>3. <<n, s, e>> \in stored[a] /\ y = [at |-> <<"stored", s, e>>, n |-> n]
        BY <3>1, <3>2
    <3>4. Slot(a, y, e, 0, s)
        BY <3>2, <3>3 DEF Slot
    <3> QED
        BY <1>1, <3>4
  <2>8. CASE \E n \in lost[a] : y = [at |-> <<"lost">>, n |-> n]
    <3>1. Slot(a, y, 0, 7, 0)
        BY <2>8 DEF Slot
    <3> QED
        BY <3>1
  <2> QED
      BY <1>5, <2>1, <2>2, <2>3, <2>4, <2>5, <2>6, <2>7, <2>8, SlotCases
<1>6. ASSUME NEW e \in Nat, NEW k \in Nat, NEW i \in Nat, Slot(a, y, e, k, i) PROVE y \in Slots(a)
  <2>1. CASE k = 7
      BY <1>6, <2>1, SlotCases DEF Slot
  <2>2. CASE k = 6
      BY <1>1, <1>6, <2>2, SlotCases DEF Slot
  <2>3. CASE k = 5
      BY <1>1, <1>6, <2>3, SlotCases DEF Slot
  <2>4. CASE k = 4
      BY <1>1, <1>6, <2>4, SlotCases DEF Slot
  <2>5. CASE k = 3
      BY <1>6, <2>5, SlotCases DEF Slot
  <2>6. CASE k = 2
      BY <1>1, <1>6, <2>6, SlotCases DEF Slot
  <2>7. CASE k = 1
      BY <1>1, <1>6, <2>7, SlotCases DEF Slot
  <2>8. CASE k = 0
    <3>1. PICK n \in Nat : <<n, i, e>> \in stored[a] /\ y = [at |-> <<"stored", i, e>>, n |-> n]
        BY <1>6, <2>8 DEF Slot
    <3>2. PICK x \in stored[a] : x = <<n, i, e>>
        BY <3>1
    <3>3. y = [at |-> <<"stored", x[2], x[3]>>, n |-> x[1]]
        BY <3>1, <3>2
    <3> QED
        BY <3>3, SlotCases
  <2> QED
      BY <1>6, <2>1, <2>2, <2>3, <2>4, <2>5, <2>6, <2>7, <2>8 DEF Slot
<1> QED
    BY <1>5, <1>6

\* A place of Slots is one of At.
LEMMA SlotIsAt ==
    ASSUME TypeOK, Tags, NEW a \in Agent, NEW y, NEW e \in Nat, NEW k \in Nat, NEW i \in Nat, Slot(a, y, e, k, i)
    PROVE  At(a, e, y.n, k, i) /\ y.n \in Nat
<1>1. /\ queue[a] \in Seq(Nat) /\ obuf[a] \in Seq(Nat) /\ lost[a] \subseteq Nat
      /\ \A f \in Conn(a) : wire[a][f] \in Seq(Report)
      /\ \A t \in Thread : req[t] \in Seq(Report)
      /\ \A s \in Store : squeue[s] \in Seq(Report) /\ batch[s] \in Seq(Report)
    BY Shapes
<1>2. CASE k = 7
    BY <1>1, <1>2 DEF Slot, At
<1>3. CASE k = 6
  <2>1. InNum(queue[a], y.n) /\ i = 0
      BY <1>3 DEF Slot, InNum
  <2> QED
      BY <1>1, <1>3, <2>1, InNumTypes DEF At
<1>4. CASE k = 5
  <2>1. InNum(obuf[a], y.n) /\ i = 0
      BY <1>4 DEF Slot, InNum
  <2> QED
      BY <1>1, <1>4, <2>1, InNumTypes DEF At
<1>5. CASE k = 4
  <2>1. e \in Conn(a) /\ i = e /\ InSeq(wire[a][e], a, e, y.n)
      BY <1>5 DEF Slot, InSeq, Tags
  <2> QED
      BY <1>1, <1>5, <2>1, InSeqTypes DEF At
<1>6. CASE k = 3
  <2>1. i \in Thread /\ req[i] # <<>> /\ req[i][1].agent = a /\ req[i][1].conn = e /\ req[i][1].n = y.n
      BY <1>6 DEF Slot
  <2>2. 1 \in 1 .. Len(req[i])
    <3>1. Len(req[i]) \in Nat /\ Len(req[i]) > 0
        BY <1>1, <2>1, TailFacts
    <3> QED
        BY <3>1
  <2>3. InSeq(req[i], a, e, y.n)
      BY <2>1, <2>2 DEF InSeq
  <2> QED
      BY <1>1, <1>6, <2>1, <2>3, InSeqTypes DEF At
<1>7. CASE k = 2
  <2>1. i \in Store /\ InSeq(squeue[i], a, e, y.n)
      BY <1>7 DEF Slot, InSeq
  <2> QED
      BY <1>1, <1>7, <2>1, InSeqTypes DEF At
<1>8. CASE k = 1
  <2>1. i \in Store /\ InSeq(batch[i], a, e, y.n)
      BY <1>8 DEF Slot, InSeq
  <2> QED
      BY <1>1, <1>8, <2>1, InSeqTypes DEF At
<1>9. CASE k = 0
  <2>1. PICK n \in Nat : i \in Store /\ <<n, i, e>> \in stored[a] /\ y = [at |-> <<"stored", i, e>>, n |-> n]
      BY <1>9 DEF Slot
  <2>2. y.n = n
      BY <2>1
  <2> QED
      BY <1>9, <2>1, <2>2 DEF At
<1> QED
    BY <1>2, <1>3, <1>4, <1>5, <1>6, <1>7, <1>8, <1>9 DEF Slot

\* A place of At is one of Slots.
LEMMA AtIsSlot ==
    ASSUME TypeOK, Tags, NEW a \in Agent, NEW n \in Nat, NEW e \in Nat, NEW k \in Nat, NEW i \in Nat, At(a, e, n, k, i)
    PROVE  \E y : Slot(a, y, e, k, i) /\ y.n = n
<1>2. CASE k = 7
  <2>1. i = 0 /\ n \in lost[a]
      BY <1>2 DEF At
  <2>2. PICK y : y = [at |-> <<"lost">>, n |-> n]
      OBVIOUS
  <2> QED
      BY <1>2, <2>1, <2>2 DEF Slot
<1>3. CASE k = 6
  <2>1. PICK x \in 1 .. Len(queue[a]) : i = 0 /\ queue[a][x] = n
      BY <1>3 DEF At, InNum
  <2>2. PICK y : y = [at |-> <<"queue", x>>, n |-> queue[a][x]]
      OBVIOUS
  <2> QED
      BY <1>3, <2>1, <2>2 DEF Slot
<1>4. CASE k = 5
  <2>1. PICK x \in 1 .. Len(obuf[a]) : i = 0 /\ obuf[a][x] = n
      BY <1>4 DEF At, InNum
  <2>2. PICK y : y = [at |-> <<"obuf", x>>, n |-> obuf[a][x]]
      OBVIOUS
  <2> QED
      BY <1>4, <2>1, <2>2 DEF Slot
<1>5. CASE k = 4
  <2>1. PICK x \in 1 .. Len(wire[a][e]) : i = e /\ e \in Conn(a) /\ wire[a][e][x].n = n
      BY <1>5 DEF At, InSeq
  <2>2. PICK y : y = [at |-> <<"wire", e, x>>, n |-> wire[a][e][x].n]
      OBVIOUS
  <2> QED
      BY <1>5, <2>1, <2>2 DEF Slot
<1>6. CASE k = 3
  <2>1. PICK x \in 1 .. Len(req[i]) :
            i \in Thread /\ req[i][x].agent = a /\ req[i][x].conn = e /\ req[i][x].n = n
      BY <1>6 DEF At, InSeq
  <2>2. x = 1 /\ req[i] # <<>>
    <3>1. req[i] \in Seq(Report) /\ Len(req[i]) <= 1
        BY <2>1 DEF TypeOK
    <3>2. Len(req[i]) \in Nat
        BY <3>1, LenProperties
    <3> QED
        BY <3>1, <3>2, EmptySeq
  <2>3. PICK y : y = [at |-> <<"req", i>>, n |-> req[i][1].n]
      OBVIOUS
  <2> QED
      BY <1>6, <2>1, <2>2, <2>3 DEF Slot
<1>7. CASE k = 2
  <2>1. PICK x \in 1 .. Len(squeue[i]) :
            i \in Store /\ squeue[i][x].agent = a /\ squeue[i][x].conn = e /\ squeue[i][x].n = n
      BY <1>7 DEF At, InSeq
  <2>2. PICK y : y = [at |-> <<"squeue", i, x>>, n |-> squeue[i][x].n]
      OBVIOUS
  <2> QED
      BY <1>7, <2>1, <2>2 DEF Slot
<1>8. CASE k = 1
  <2>1. PICK x \in 1 .. Len(batch[i]) :
            i \in Store /\ batch[i][x].agent = a /\ batch[i][x].conn = e /\ batch[i][x].n = n
      BY <1>8 DEF At, InSeq
  <2>2. PICK y : y = [at |-> <<"batch", i, x>>, n |-> batch[i][x].n]
      OBVIOUS
  <2> QED
      BY <1>8, <2>1, <2>2 DEF Slot
<1>9. CASE k = 0
  <2>1. i \in Store /\ <<n, i, e>> \in stored[a]
      BY <1>9 DEF At
  <2>2. PICK y : y = [at |-> <<"stored", i, e>>, n |-> n]
      OBVIOUS
  <2> QED
      BY <1>9, <2>1, <2>2 DEF Slot
<1> QED
    BY <1>2, <1>3, <1>4, <1>5, <1>6, <1>7, <1>8, <1>9 DEF At

\* One place of At is one place of Slots, since each queue is in order.
LEMMA SlotOnce ==
    ASSUME TypeOK, Tags, Rising, NEW a \in Agent, NEW x, NEW y, NEW e \in Nat, NEW f \in Nat, NEW k \in Nat, NEW i \in Nat,
           Slot(a, x, e, k, i), Slot(a, y, f, k, i), x.n = y.n, k <= 4 => e = f
    PROVE  x = y
<1>1. \A q \in Seq(Nat) : UpNum(q) => \A u, v \in 1 .. Len(q) : q[u] = q[v] => u = v
  <2> SUFFICES ASSUME NEW q \in Seq(Nat), UpNum(q), NEW u \in 1 .. Len(q), NEW v \in 1 .. Len(q), q[u] = q[v]
               PROVE  u = v
      OBVIOUS
  <2>1. Len(q) \in Nat /\ q[u] \in Nat /\ q[v] \in Nat
      BY LenProperties, ElementOfSeq
  <2>2. ~(u < v) /\ ~(v < u)
      BY <2>1 DEF UpNum
  <2> QED
      BY <2>1, <2>2
<1>2. ASSUME NEW q \in Seq(Report), UpSeq(q), NEW u \in 1 .. Len(q), NEW v \in 1 .. Len(q),
             q[u].agent = q[v].agent, q[u].conn = q[v].conn, q[u].n = q[v].n
      PROVE  u = v
  <2>0. q[u] \in Report /\ q[v] \in Report
      BY <1>2, ElementOfSeq
  <2>1. Len(q) \in Nat /\ q[u].n \in Nat /\ q[v].n \in Nat
      BY <1>2, <2>0, LenProperties, ReportFields
  <2>2. ~(u < v) /\ ~(v < u)
      BY <1>2, <2>1 DEF UpSeq
  <2> QED
      BY <2>1, <2>2
<1>3. CASE k = 7
    BY <1>3 DEF Slot
<1>4. CASE k = 6
  <2>1. PICK u \in 1 .. Len(queue[a]) : x = [at |-> <<"queue", u>>, n |-> queue[a][u]]
      BY <1>4 DEF Slot
  <2>2. PICK v \in 1 .. Len(queue[a]) : y = [at |-> <<"queue", v>>, n |-> queue[a][v]]
      BY <1>4 DEF Slot
  <2>3. queue[a][u] = queue[a][v]
      BY <2>1, <2>2
  <2>4. queue[a] \in Seq(Nat) /\ UpNum(queue[a])
      BY Shapes DEF Rising
  <2>5. u = v
      BY <1>1, <2>3, <2>4
  <2> QED
      BY <2>1, <2>2, <2>5
<1>5. CASE k = 5
  <2>1. PICK u \in 1 .. Len(obuf[a]) : x = [at |-> <<"obuf", u>>, n |-> obuf[a][u]]
      BY <1>5 DEF Slot
  <2>2. PICK v \in 1 .. Len(obuf[a]) : y = [at |-> <<"obuf", v>>, n |-> obuf[a][v]]
      BY <1>5 DEF Slot
  <2>3. obuf[a][u] = obuf[a][v]
      BY <2>1, <2>2
  <2>4. obuf[a] \in Seq(Nat) /\ UpNum(obuf[a])
      BY Shapes DEF Rising
  <2>5. u = v
      BY <1>1, <2>3, <2>4
  <2> QED
      BY <2>1, <2>2, <2>5
<1>6. CASE k = 4
  <2>0. e \in Conn(a) /\ e = f
      BY <1>6 DEF Slot
  <2>1. PICK u \in 1 .. Len(wire[a][e]) : x = [at |-> <<"wire", e, u>>, n |-> wire[a][e][u].n]
      BY <1>6 DEF Slot
  <2>2. PICK v \in 1 .. Len(wire[a][e]) : y = [at |-> <<"wire", e, v>>, n |-> wire[a][e][v].n]
      BY <1>6, <2>0 DEF Slot
  <2>3. wire[a][e][u].n = wire[a][e][v].n
      BY <2>1, <2>2
  <2>4. wire[a][e] \in Seq(Report) /\ UpSeq(wire[a][e])
      BY <2>0, Shapes DEF Rising
  <2>5. wire[a][e][u].agent = wire[a][e][v].agent /\ wire[a][e][u].conn = wire[a][e][v].conn
      BY <2>0 DEF Tags
  <2>6. u = v
      BY <1>2, <2>3, <2>4, <2>5
  <2> QED
      BY <2>1, <2>2, <2>6
<1>7. CASE k = 3
    BY <1>7 DEF Slot
<1>8. CASE k = 2
  <2>0. i \in Store /\ e = f
      BY <1>8 DEF Slot
  <2>1. PICK u \in 1 .. Len(squeue[i]) : squeue[i][u].agent = a /\ squeue[i][u].conn = e
                                         /\ x = [at |-> <<"squeue", i, u>>, n |-> squeue[i][u].n]
      BY <1>8 DEF Slot
  <2>2. PICK v \in 1 .. Len(squeue[i]) : squeue[i][v].agent = a /\ squeue[i][v].conn = e
                                         /\ y = [at |-> <<"squeue", i, v>>, n |-> squeue[i][v].n]
      BY <1>8, <2>0 DEF Slot
  <2>3. squeue[i][u].n = squeue[i][v].n
      BY <2>1, <2>2
  <2>4. squeue[i] \in Seq(Report) /\ UpSeq(squeue[i])
      BY <2>0, Shapes DEF Rising
  <2>5. u = v
      BY <1>2, <2>1, <2>2, <2>3, <2>4
  <2> QED
      BY <2>1, <2>2, <2>5
<1>9. CASE k = 1
  <2>0. i \in Store /\ e = f
      BY <1>9 DEF Slot
  <2>1. PICK u \in 1 .. Len(batch[i]) : batch[i][u].agent = a /\ batch[i][u].conn = e
                                        /\ x = [at |-> <<"batch", i, u>>, n |-> batch[i][u].n]
      BY <1>9 DEF Slot
  <2>2. PICK v \in 1 .. Len(batch[i]) : batch[i][v].agent = a /\ batch[i][v].conn = e
                                        /\ y = [at |-> <<"batch", i, v>>, n |-> batch[i][v].n]
      BY <1>9, <2>0 DEF Slot
  <2>3. batch[i][u].n = batch[i][v].n
      BY <2>1, <2>2
  <2>4. batch[i] \in Seq(Report) /\ UpSeq(batch[i])
      BY <2>0, Shapes DEF Rising
  <2>5. u = v
      BY <1>2, <2>1, <2>2, <2>3, <2>4
  <2> QED
      BY <2>1, <2>2, <2>5
<1>10. CASE k = 0
  <2>0. e = f
      BY <1>10
  <2>1. PICK m \in Nat : <<m, i, e>> \in stored[a] /\ x = [at |-> <<"stored", i, e>>, n |-> m]
      BY <1>10 DEF Slot
  <2>2. PICK n \in Nat : <<n, i, e>> \in stored[a] /\ y = [at |-> <<"stored", i, e>>, n |-> n]
      BY <1>10, <2>0 DEF Slot
  <2> QED
      BY <2>1, <2>2
<1> QED
    BY <1>3, <1>4, <1>5, <1>6, <1>7, <1>8, <1>9, <1>10 DEF Slot

\* Every report is in exactly one place.
LEMMA PathAccounts == PathInv => ReportAccounted
<1> SUFFICES ASSUME PathInv, NEW a \in Agent, NEW n \in 1 .. issued[a]
             PROVE  \E x \in Slots(a) : x.n = n /\ \A y \in Slots(a) : y.n = n => y = x
    BY DEF ReportAccounted
<1>0. TypeOK /\ Tags /\ Rising /\ Known /\ Unique
    BY DEF PathInv
<1>1. n \in Nat
    BY <1>0, Shapes
<1>2. PICK e \in Nat, k \in Nat, i \in Nat : At(a, e, n, k, i)
    BY <1>0, <1>1 DEF Known
<1>3. PICK x : Slot(a, x, e, k, i) /\ x.n = n
    BY <1>0, <1>1, <1>2, AtIsSlot
<1>4. x \in Slots(a)
    BY <1>0, <1>3, SlotsPlaced
<1>5. ASSUME NEW y \in Slots(a), y.n = n PROVE y = x
  <2>1. PICK f \in Nat, l \in Nat, j \in Nat : Slot(a, y, f, l, j)
      BY <1>0, SlotsPlaced
  <2>2. At(a, f, n, l, j)
    <3>1. At(a, f, y.n, l, j)
        BY <1>0, <2>1, SlotIsAt
    <3> QED
        BY <1>5, <3>1
  <2>5. Unique /\ n \in Nat /\ At(a, e, n, k, i)
      BY <1>0, <1>1, <1>2
  <2>3. k = l /\ i = j /\ (k <= 4 => e = f)
      BY <2>2, <2>5, OneSpot
  <2>4. Slot(a, y, f, k, i) /\ x.n = y.n
      BY <1>3, <1>5, <2>1, <2>3
  <2> QED
      BY <1>0, <1>3, <2>3, <2>4, SlotOnce
<1> QED
    BY <1>3, <1>4, <1>5

\* What a store thread stores is newer than what it has stored of the same
\* connection, so the row that it overwrites never comes back.
LEMMA RowStep ==
    ASSUME PathInv, LaterReportWins, NEW s \in Store, store(s)
    PROVE  LaterReportWins'
<1>0. TypeOK /\ Unique /\ Order
    BY DEF PathInv
<1>1. PICK q, r, a, N, E : q = batch[s] /\ r = Head(q) /\ a = r.agent /\ N = r.n /\ E = r.conn
    OBVIOUS
<1>2. q \in Seq(Report) /\ s \in Nat /\ q # <<>>
    BY <1>0, <1>1, Shapes DEF store
<1>3. a \in Agent /\ N \in Nat /\ E \in Nat
  <2>1. r \in Report
      BY <1>1, <1>2, TailFacts
  <2> QED
      BY <1>1, <2>1, ReportFields
<1>4. row' = [row EXCEPT ![a] = N] /\ stored' = [stored EXCEPT ![a] = @ \cup {<<N, s, E>>}]
    BY <1>1 DEF store
<1>5. PICK l \in Nat : l = 1
    OBVIOUS
<1>6. At(a, E, N, l, s)
  <2>1. InSeq(q, a, E, N)
      BY <1>1, <1>2, RepTail
  <2> QED
      BY <1>1, <1>5, <2>1 DEF At
<1>7. \A b \in Agent : \A x \in stored[b] :
          x = <<x[1], x[2], x[3]>> /\ x[1] \in Nat /\ x[2] \in Store /\ x[2] \in Nat /\ x[3] \in Nat
  <2>1. \A b \in Agent : stored[b] \subseteq Nat \X Store \X Nat
      BY <1>0 DEF TypeOK
  <2> QED
      BY <2>1, StoreFacts
<1>8. ASSUME NEW x \in stored[a] PROVE x[1] # N /\ (x[2] = s /\ x[3] = E => x[1] < N)
  <2>1. PICK n \in Nat, z \in Nat, e \in Nat, k \in Nat :
            n = x[1] /\ z = x[2] /\ e = x[3] /\ k = 0 /\ x = <<n, z, e>> /\ z \in Store
      BY <1>3, <1>7
  <2>2. At(a, e, n, k, z)
    <3>1. <<n, z, e>> \in stored[a]
        BY <2>1
    <3> QED
        BY <2>1, <3>1 DEF At
  <2>3. n # N
    <3> SUFFICES ASSUME n = N PROVE FALSE
        OBVIOUS
    <3>1. Unique /\ At(a, e, N, k, z)
        BY <1>0, <2>2
    <3>2. k = l /\ z = s /\ (k <= 4 => e = E)
        BY <1>2, <1>3, <1>6, <3>1, OneSpot
    <3> QED
        BY <1>5, <2>1, <3>2
  <2>4. ASSUME z = s, e = E PROVE n < N
    <3>1. At(a, E, n, k, s)
        BY <2>2, <2>4
    <3>2. k < l /\ l <= 6 /\ (l <= 2 => s = s)
        BY <1>5, <2>1
    <3> QED
        BY <1>0, <1>2, <1>3, <1>6, <3>1, <3>2 DEF Order
  <2> QED
      BY <2>1, <2>3, <2>4
<1>9. \A b \in Agent : /\ row'[b] = IF b = a THEN N ELSE row[b]
                       /\ stored'[b] = IF b = a THEN stored[b] \cup {<<N, s, E>>} ELSE stored[b]
    BY <1>0, <1>4 DEF TypeOK
<1> SUFFICES ASSUME NEW b \in Agent, NEW x \in stored'[b], NEW y \in stored'[b],
                    x[1] < y[1], x[2] = y[2], x[3] = y[3], row'[b] = x[1]
             PROVE  FALSE
    BY DEF LaterReportWins
<1>10. CASE b # a
  <2>1. row[b] = x[1] /\ x \in stored[b] /\ y \in stored[b]
      BY <1>9, <1>10
  <2>2. \A p, z \in stored[b] : p[1] < z[1] /\ p[2] = z[2] /\ p[3] = z[3] => row[b] # p[1]
      BY <1>0 DEF LaterReportWins
  <2> QED
      BY <2>1, <2>2, Zenon
<1>11. CASE b = a
  <2>0. \A p : p = <<N, s, E>> => p[1] = N /\ p[2] = s /\ p[3] = E
      OBVIOUS
  <2>1. x[1] = N /\ (x \in stored[a] \/ x = <<N, s, E>>) /\ (y \in stored[a] \/ y = <<N, s, E>>)
      BY <1>9, <1>11
  <2>2. x = <<N, s, E>>
      BY <1>8, <2>1
  <2>3. x[2] = s /\ x[3] = E
      BY <2>0, <2>2
  <2>4. CASE y \in stored[a]
    <3>1. y[1] < N /\ y[1] \in Nat
        BY <1>3, <1>7, <1>8, <2>3, <2>4
    <3> QED
        BY <1>3, <2>1, <3>1
  <2>5. CASE y = <<N, s, E>>
      BY <1>3, <2>0, <2>1, <2>5
  <2> QED
      BY <2>1, <2>4, <2>5
<1> QED
    BY <1>10, <1>11

\* For any number of agents, threads and store threads, any buffer and any
\* number of reports and connections: the types hold and the output buffer
\* does not overflow (TypeOK); no report is duplicated, and none disappears
\* but where the code drops it (ReportAccounted); and of the reports that a
\* connection and a store thread share, the row holds the last that was stored
\* (LaterReportWins).
THEOREM ReportsSafe == Spec => [](TypeOK /\ ReportAccounted /\ LaterReportWins)
<1>1. Init => PathInv /\ LaterReportWins
  <2> SUFFICES ASSUME Init PROVE PathInv /\ LaterReportWins
      OBVIOUS
  <2>1. \A b, f, n : ~InSeq(<<>>, b, f, n) /\ ~InNum(<<>>, n)
    <3>1. Len(<<>>) = 0 /\ \A i : i \notin 1 .. 0
        OBVIOUS
    <3> QED
        BY <3>1 DEF InSeq, InNum
  <2>2. UpSeq(<<>>) /\ UpNum(<<>>)
    <3>1. Len(<<>>) = 0 /\ \A i : i \notin 1 .. 0
        OBVIOUS
    <3> QED
        BY <3>1 DEF UpSeq, UpNum
  <2>3. /\ \A a \in Agent : /\ queue[a] = <<>> /\ obuf[a] = <<>> /\ lost[a] = {} /\ stored[a] = {} /\ issued[a] = 0
                            /\ \A e \in Conn(a) : wire[a][e] = <<>>
        /\ \A t \in Thread : req[t] = <<>>
        /\ \A s \in Store : squeue[s] = <<>> /\ batch[s] = <<>>
      BY DEF Init
  <2>4. ASSUME NEW a \in Agent, NEW e, NEW n, NEW k, NEW i PROVE ~At(a, e, n, k, i)
      BY <2>1, <2>3 DEF At
  <2>5. TypeOK
      BY InitTypes
  <2>6. Tags
    <3>1. Len(<<>>) = 0 /\ \A i : i \notin 1 .. 0
        OBVIOUS
    <3> QED
        BY <2>3, <3>1 DEF Tags
  <2>7. Homes /\ Unique /\ Order
      BY <2>4 DEF Homes, Unique, Order
  <2>8. Known
      BY <2>3, <2>4 DEF Known
  <2>9. Rising
      BY <2>2, <2>3 DEF Rising
  <2>10. LaterReportWins
      BY <2>3 DEF LaterReportWins
  <2> QED
      BY <2>5, <2>6, <2>7, <2>8, <2>9, <2>10 DEF PathInv
<1>2. PathInv /\ LaterReportWins /\ [Next]_vars => (PathInv /\ LaterReportWins)'
  <2> SUFFICES ASSUME PathInv, LaterReportWins, [Next]_vars PROVE PathInv' /\ LaterReportWins'
      OBVIOUS
  <2>0. TypeOK /\ Tags /\ Homes /\ Rising /\ Known /\ Unique /\ Order
      BY DEF PathInv
  <2>1. ASSUME UNCHANGED <<row, stored>> PROVE LaterReportWins'
      BY <2>1 DEF LaterReportWins
  <2>2. CASE \E a \in Agent : commit(a) \/ Client(a) \/ clean_conn(a)
    <3>1. PICK a \in Agent : commit(a) \/ Client(a) \/ clean_conn(a)
        BY <2>2
    <3>2. TypeOK' /\ LaterReportWins'
      <4>1. UNCHANGED <<row, stored>>
          BY <3>1 DEF commit, Client, clean_conn, new_report_request, do_write, connection_delay, db
      <4> QED
          BY <2>0, <2>1, <3>1, <4>1, AgentTypeStep
    <3>3. CASE connection_delay(a)
      <4>1. UNCHANGED <<issued, queue, obuf, epoch, home, wire, pc, req, squeue, batch, stored, lost>>
          BY <3>3 DEF connection_delay, pool, db
      <4>2. Tags'
          BY <2>0, <4>1 DEF Tags
      <4> QED
          BY <2>0, <3>2, <4>1, <4>2, StillStep DEF PathInv
    <3> QED
        BY <3>1, <3>2, <3>3, CommitStep, RequestStep, WriteStep, CleanStep DEF Client, PathInv
  <2>3. CASE \E t \in Thread : PoolThread(t)
    <3>1. PICK t \in Thread : PoolThread(t)
        BY <2>3
    <3>2. TypeOK' /\ LaterReportWins'
      <4>1. UNCHANGED <<row, stored>>
          BY <3>1 DEF PoolThread, get_report_status, increment, wrap, send, SendWild, db
      <4> QED
          BY <2>0, <2>1, <2>3, <4>1, ServiceTypeStep
    <3>3. CASE increment(t) \/ wrap(t) \/ SendWild(t)
      <4>1. /\ UNCHANGED <<issued, queue, obuf, epoch, home, wire, req, squeue, batch, stored, lost>>
            /\ \A u \in Thread : pc'[u] = "idle" => pc[u] = "idle"
        <5>1. UNCHANGED <<issued, queue, obuf, epoch, home, wire, req, squeue, batch, stored, lost>>
            BY <3>3 DEF increment, wrap, SendWild, agents, pool, db
        <5>2. pc' = [pc EXCEPT ![t] = "wrap"] \/ pc' = [pc EXCEPT ![t] = "send"] \/ pc' = pc
            BY <3>3 DEF increment, wrap, SendWild, pool
        <5> QED
            BY <2>0, <5>1, <5>2, Shapes
      <4>2. Tags'
          BY <2>0, <4>1 DEF Tags
      <4> QED
          BY <2>0, <3>2, <4>1, <4>2, StillStep DEF PathInv
    <3>4. CASE send(t)
        BY <3>2, <3>4, SendStep DEF PathInv
    <3>5. CASE \E a \in Agent : \E e \in Conn(a) : get_report_status(t, a, e)
        BY <3>2, <3>5, ReadStep DEF PathInv
    <3> QED
        BY <3>1, <3>3, <3>4, <3>5, <3>2 DEF PoolThread
  <2>4. CASE \E s \in Store : StoreThread(s)
    <3>1. PICK s \in Store : StoreThread(s)
        BY <2>4
    <3>2. TypeOK'
        BY <2>0, <2>4, ServiceTypeStep
    <3>3. CASE thread_report(s)
      <4>1. LaterReportWins'
          BY <2>1, <3>3 DEF thread_report, db
      <4> QED
          BY <3>2, <3>3, <4>1, TakeStep DEF PathInv
    <3>4. CASE store(s)
        BY <3>2, <3>4, StoreStep, RowStep DEF PathInv
    <3>5. CASE store_fails(s)
      <4>1. LaterReportWins'
          BY <2>1, <3>5 DEF store_fails, db
      <4> QED
          BY <3>2, <3>5, <4>1, StoreStep DEF PathInv
    <3> QED
        BY <3>1, <3>3, <3>4, <3>5 DEF StoreThread
  <2>5. CASE UNCHANGED vars
    <3>1. UNCHANGED <<issued, queue, obuf, epoch, home, wire, pc, req, squeue, batch, row, stored, lost>>
        BY <2>5 DEF vars, agents, pool, db
    <3>2. Tags'
        BY <2>0, <3>1 DEF Tags
    <3>3. TypeOK'
        BY <2>0, <2>5 DEF vars, agents, pool, db, TypeOK
    <3> QED
        BY <2>0, <2>1, <3>1, <3>2, <3>3, StillStep DEF PathInv
  <2> QED
      BY <2>2, <2>3, <2>4, <2>5 DEF Next
<1>3. PathInv /\ LaterReportWins => TypeOK /\ ReportAccounted /\ LaterReportWins
    BY PathAccounts DEF PathInv
<1> QED
    BY <1>1, <1>2, <1>3, PTL DEF Spec
=============================================================================
