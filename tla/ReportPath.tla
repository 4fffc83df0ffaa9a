----------------------------- MODULE ReportPath -----------------------------
(***************************************************************************)
(* The way of a ReportStatusRequest from a LoadBalance object to the       *)
(* database: the queue and the reporter client of each agent               *)
(* (lb_agent/src/reporter_client.cpp), the connection to the reporter      *)
(* service, the pool thread that reads it and picks a store thread         *)
(* (reporter/src/reporter_service.cpp, store_thread.cpp), and the store    *)
(* thread that writes the row (store_report.cpp).                          *)
(*                                                                         *)
(* get_thread reads, increments and wraps index_ without a lock, in every  *)
(* pool thread: its accesses are steps of their own.  A report is the      *)
(* number it has among those of its agent; its ts grows with the number.   *)
(* Two agents never write the same row, since caller is part of the key,   *)
(* and the rows of one agent are alike, so a report has one row here.      *)
(***************************************************************************)
EXTENDS Integers, Sequences, FiniteSets

CONSTANTS
    Agent,      \* agents, each with one reporter client
    NumThreads, \* threadNum of the service's pool
    NumStore,   \* db_thread_cnt: store threads
    ObufCap,    \* reports that fit in the client's output buffer
    MaxReports, \* bound: by agent, its reports
    MaxConn     \* bound: by agent, its connections, one after the other

ASSUME ReportAssumption ==
    /\ NumThreads \in Nat \ {0} /\ NumStore \in Nat \ {0}
    /\ ObufCap \in Nat
    /\ MaxReports \in [Agent -> Nat] /\ MaxConn \in [Agent -> Nat \ {0}]

Thread == 0 .. NumThreads - 1
Store  == 0 .. NumStore - 1
Conn(a) == 1 .. MaxConn[a]

\* A report, and the connection that carried it.
Report == [agent : Agent, n : Nat, conn : Nat]

VARIABLES
    issued,     \* by agent: reports its LoadBalance objects have sent
    queue,      \* by agent: report_queue
    obuf,       \* by agent: the client's output buffer
    conn,       \* by agent: "up", "connecting", "failed" or "exited"
    epoch,      \* by agent: the number of its connection
    home,       \* by agent and connection: the pool thread that serves it
    wire,       \* by agent and connection: reports on the way
    pc,         \* by pool thread: "idle", or where it is in get_report_status
    req,        \* by pool thread: the report it handles
    reg,        \* by pool thread: the index_ it has loaded
    index,      \* index_ of the StoreThreadPool
    squeue,     \* by store thread: its ThreadQueue
    batch,      \* by store thread: the reports it took and has not stored
    row,        \* by agent: the report in its row of ServerCallStatus, or 0
    stored,     \* history: by agent, <<report, store thread, connection>> of what is stored
    lost,       \* history: by agent, the reports that will not be stored
    picked,     \* history: by store thread, how often get_thread returned its queue
    overlapped, \* history: two threads have been in get_thread at a time
    crashed     \* queues_ was read out of bounds: the service is gone

agents  == <<issued, queue, obuf, conn, epoch, home>>
pool    == <<pc, req, reg, index, overlapped>>
db      == <<row, stored>>
vars    == <<agents, wire, pool, squeue, batch, db, lost, picked, crashed>>

\* reporter_client.cpp: do_connect of the constructor connected at once or is
\* in progress.  store_thread.cpp: the constructor of the pool.
Init ==
    /\ issued = [a \in Agent |-> 0]
    /\ queue = [a \in Agent |-> <<>>] /\ obuf = [a \in Agent |-> <<>>]
    /\ conn \in [Agent -> {"up", "connecting"}]
    /\ epoch = [a \in Agent |-> 1]
    /\ home \in {[a \in Agent |-> [e \in Conn(a) |-> h[a]]] : h \in [Agent -> Thread]}
    /\ wire = [a \in Agent |-> [e \in Conn(a) |-> <<>>]]
    /\ pc = [t \in Thread |-> "idle"]
    /\ req = [t \in Thread |-> <<>>] /\ reg = [t \in Thread |-> 0]
    /\ index = 0
    /\ squeue = [s \in Store |-> <<>>] /\ batch = [s \in Store |-> <<>>]
    /\ row = [a \in Agent |-> 0] /\ stored = [a \in Agent |-> {}]
    /\ lost = [a \in Agent |-> {}]
    /\ picked = [s \in Store |-> 0]
    /\ overlapped = FALSE /\ crashed = FALSE

-----------------------------------------------------------------------------
(* An agent: the UDP threads send to report_queue, the client's thread runs *)
(* one callback at a time.                                                  *)

Running(a) == conn[a] # "exited"

\* Report n of agent a, once its connection is known.
Rep(a, n) == [agent |-> a, n |-> n, conn |-> epoch[a]]

\* The end of LoadBalance::commit.
commit(a) ==
    /\ Running(a) /\ issued[a] < MaxReports[a]
    /\ issued' = [issued EXCEPT ![a] = @ + 1]
    /\ queue' = [queue EXCEPT ![a] = Append(@, issued[a] + 1)]
    /\ UNCHANGED <<obuf, conn, epoch, home, wire, pool, squeue, batch, db, lost, picked, crashed>>

\* What send_message takes of the queued reports: nothing without a
\* connection, else what fits.
MutAcceptAll(a) == IF conn[a] # "up" THEN 0 ELSE Len(queue[a])
Accepted(a) ==
    IF conn[a] # "up" THEN 0
    ELSE IF Len(queue[a]) <= ObufCap - Len(obuf[a]) THEN Len(queue[a])
    ELSE ObufCap - Len(obuf[a])

\* The whole queue is picked; what send_message refuses is forgotten.
new_report_request(a) ==
    /\ Running(a) /\ queue[a] # <<>>
    /\ queue' = [queue EXCEPT ![a] = <<>>]
    /\ obuf' = [obuf EXCEPT ![a] = @ \o SubSeq(queue[a], 1, Accepted(a))]
    /\ lost' = [lost EXCEPT ![a] =
                  @ \cup {queue[a][i] : i \in Accepted(a) + 1 .. Len(queue[a])}]
    /\ UNCHANGED <<issued, conn, epoch, home, wire, pool, squeue, batch, db, picked, crashed>>

do_write(a) ==
    /\ conn[a] = "up" /\ obuf[a] # <<>>
    /\ wire' = [wire EXCEPT ![a][epoch[a]] = Append(@, Rep(a, Head(obuf[a])))]
    /\ obuf' = [obuf EXCEPT ![a] = Tail(@)]
    /\ UNCHANGED <<issued, queue, conn, epoch, home, pool, squeue, batch, db, lost, picked, crashed>>

\* The connection is gone: some of what is on the way is lost.  The output
\* buffer is kept.  do_connect connects at once, later, or exits.
clean_conn(a) ==
    /\ conn[a] = "up" /\ epoch[a] < MaxConn[a]
    /\ \E k \in 0 .. Len(wire[a][epoch[a]]) :
          LET w == wire[a][epoch[a]] IN
          /\ wire' = [wire EXCEPT ![a][epoch[a]] = SubSeq(w, 1, k)]
          /\ lost' = [lost EXCEPT ![a] = @ \cup {w[i].n : i \in k + 1 .. Len(w)}]
    /\ epoch' = [epoch EXCEPT ![a] = @ + 1]
    /\ \E c \in {"up", "connecting", "exited"}, t \in Thread :
          /\ conn' = [conn EXCEPT ![a] = c]
          /\ home' = [home EXCEPT ![a][epoch[a] + 1] = t]
    /\ UNCHANGED <<issued, queue, obuf, pool, squeue, batch, db, picked, crashed>>

\* connection_delay: the pending connect() succeeded, or it failed and
\* nothing tries again.
connection_delay(a) ==
    /\ conn[a] = "connecting"
    /\ \E c \in {"up", "failed"} : conn' = [conn EXCEPT ![a] = c]
    /\ UNCHANGED <<issued, queue, obuf, epoch, home, wire, pool, squeue, batch, db, lost, picked, crashed>>

-----------------------------------------------------------------------------
(* A pool thread of the service: get_report_status of the next message of   *)
(* one of its connections.                                                  *)

InGetThread(t) == pc[t] \in {"increment", "wrap"}

\* The message is parsed, and get_thread loads index_.
get_report_status(t, a, e) ==
    /\ ~crashed /\ pc[t] = "idle"
    /\ home[a][e] = t /\ wire[a][e] # <<>>
    /\ wire' = [wire EXCEPT ![a][e] = Tail(@)]
    /\ req' = [req EXCEPT ![t] = <<Head(wire[a][e])>>]
    /\ reg' = [reg EXCEPT ![t] = index]
    /\ pc' = [pc EXCEPT ![t] = "increment"]
    /\ overlapped' = (overlapped \/ \E u \in Thread \ {t} : InGetThread(u))
    /\ UNCHANGED <<agents, index, squeue, batch, db, lost, picked, crashed>>

\* index_++
increment(t) ==
    /\ ~crashed /\ pc[t] = "increment"
    /\ index' = reg[t] + 1
    /\ pc' = [pc EXCEPT ![t] = "wrap"]
    /\ UNCHANGED <<agents, wire, req, reg, squeue, batch, db, lost, picked, overlapped, crashed>>

\* if (index_ == thread_cnt_) index_ = 0; the compiler may test the register
\* or load index_ again.
MutWrapLate(t) ==
    /\ ~crashed /\ pc[t] = "wrap"
    /\ \E v \in {reg[t] + 1, index} : index' = IF v > NumStore THEN 0 ELSE index
    /\ picked' = [s \in Store |-> IF s = reg[t] THEN picked[s] + 1 ELSE picked[s]]
    /\ pc' = [pc EXCEPT ![t] = "send"]
    /\ UNCHANGED <<agents, wire, req, reg, squeue, batch, db, lost, overlapped, crashed>>
wrap(t) ==
    /\ ~crashed /\ pc[t] = "wrap"
    /\ \E v \in {reg[t] + 1, index} : index' = IF v = NumStore THEN 0 ELSE index
    /\ picked' = [s \in Store |-> IF s = reg[t] THEN picked[s] + 1 ELSE picked[s]]
    /\ pc' = [pc EXCEPT ![t] = "send"]
    /\ UNCHANGED <<agents, wire, req, reg, squeue, batch, db, lost, overlapped, crashed>>

\* queues_[reg]->send(req)
send(t) ==
    /\ ~crashed /\ pc[t] = "send" /\ reg[t] < NumStore
    /\ squeue' = [squeue EXCEPT ![reg[t]] = @ \o req[t]]
    /\ req' = [req EXCEPT ![t] = <<>>]
    /\ pc' = [pc EXCEPT ![t] = "idle"]
    /\ UNCHANGED <<agents, wire, reg, index, batch, db, lost, picked, overlapped, crashed>>

\* queues_ has no element reg: what is used as a queue is no queue.
SendWild(t) ==
    /\ ~crashed /\ pc[t] = "send" /\ reg[t] >= NumStore
    /\ crashed' = TRUE
    /\ UNCHANGED <<agents, wire, pool, squeue, batch, db, lost, picked>>

-----------------------------------------------------------------------------
(* A store thread.                                                          *)

\* thread_report: all of the queue is picked, and stored one by one.
MutTakeAgain(s) ==
    /\ ~crashed /\ batch[s] = <<>> /\ squeue[s] # <<>>
    /\ batch' = [batch EXCEPT ![s] = squeue[s]]
    /\ UNCHANGED <<agents, wire, pool, squeue, db, lost, picked, crashed>>
MutTakeTwo(s) ==
    /\ ~crashed /\ batch[s] = <<>> /\ Len(squeue[s]) > 1
    /\ batch' = [batch EXCEPT ![s] = squeue[s]]
    /\ squeue' = [squeue EXCEPT ![s] = <<>>]
    /\ UNCHANGED <<agents, wire, pool, db, lost, picked, crashed>>
MutTakeReversed(s) ==
    /\ ~crashed /\ batch[s] = <<>> /\ squeue[s] # <<>>
    /\ batch' = [batch EXCEPT ![s] = [i \in DOMAIN squeue[s] |-> squeue[s][Len(squeue[s]) + 1 - i]]]
    /\ squeue' = [squeue EXCEPT ![s] = <<>>]
    /\ UNCHANGED <<agents, wire, pool, db, lost, picked, crashed>>
thread_report(s) ==
    /\ ~crashed /\ batch[s] = <<>> /\ squeue[s] # <<>>
    /\ batch' = [batch EXCEPT ![s] = squeue[s]]
    /\ squeue' = [squeue EXCEPT ![s] = <<>>]
    /\ UNCHANGED <<agents, wire, pool, db, lost, picked, crashed>>

\* StoreReport::store: INSERT ... ON DUPLICATE KEY UPDATE, whatever ts the
\* row has.
store(s) ==
    /\ ~crashed /\ batch[s] # <<>>
    /\ LET r == Head(batch[s]) IN
       /\ row' = [row EXCEPT ![r.agent] = r.n]
       /\ stored' = [stored EXCEPT ![r.agent] = @ \cup {<<r.n, s, r.conn>>}]
    /\ batch' = [batch EXCEPT ![s] = Tail(@)]
    /\ UNCHANGED <<agents, wire, pool, squeue, lost, picked, crashed>>

\* The statement fails and the loop continues.
store_fails(s) ==
    /\ ~crashed /\ batch[s] # <<>>
    /\ LET r == Head(batch[s]) IN lost' = [lost EXCEPT ![r.agent] = @ \cup {r.n}]
    /\ batch' = [batch EXCEPT ![s] = Tail(@)]
    /\ UNCHANGED <<agents, wire, pool, squeue, db, picked, crashed>>

-----------------------------------------------------------------------------
Client(a) == new_report_request(a) \/ do_write(a) \/ connection_delay(a)

PoolThread(t) ==
    \/ \E a \in Agent : \E e \in Conn(a) : get_report_status(t, a, e)
    \/ increment(t) \/ wrap(t) \/ send(t) \/ SendWild(t)

StoreThread(s) == thread_report(s) \/ store(s) \/ store_fails(s)

Next ==
    \/ \E a \in Agent : commit(a) \/ Client(a) \/ clean_conn(a)
    \/ \E t \in Thread : PoolThread(t)
    \/ \E s \in Store : StoreThread(s)

Spec == Init /\ [][Next]_vars

\* Every thread that has something to do goes on; for the client thread that
\* includes the outcome of a pending connect().
Fairness ==
    /\ \A a \in Agent : WF_vars(Client(a))
    /\ \A t \in Thread : WF_vars(PoolThread(t))
    /\ \A s \in Store : WF_vars(StoreThread(s))

LiveSpec == Spec /\ Fairness

-----------------------------------------------------------------------------
\* The type of the state; the output buffer never overflows.
TypeOK ==
    /\ issued \in [Agent -> Nat]
    /\ queue \in [Agent -> Seq(Nat)]
    /\ obuf \in [Agent -> Seq(Nat)] /\ \A a \in Agent : Len(obuf[a]) <= ObufCap
    /\ conn \in [Agent -> {"up", "connecting", "failed", "exited"}]
    /\ epoch \in [Agent -> Nat] /\ DOMAIN home = Agent /\ DOMAIN wire = Agent
    /\ \A a \in Agent : /\ epoch[a] \in Conn(a) /\ home[a] \in [Conn(a) -> Thread]
                       /\ wire[a] \in [Conn(a) -> Seq(Report)]
    /\ pc \in [Thread -> {"idle", "increment", "wrap", "send"}]
    /\ req \in [Thread -> Seq(Report)] /\ \A t \in Thread : Len(req[t]) <= 1
    /\ reg \in [Thread -> Nat] /\ index \in Nat
    /\ squeue \in [Store -> Seq(Report)] /\ batch \in [Store -> Seq(Report)]
    /\ row \in [Agent -> Nat]
    /\ stored \in [Agent -> SUBSET (Nat \X Store \X Nat)]
    /\ lost \in [Agent -> SUBSET Nat]
    /\ picked \in [Store -> Nat]
    /\ overlapped \in BOOLEAN /\ crashed \in BOOLEAN

\* Where the reports of agent a are, each place with the number of its report.
Slots(a) ==
    {[at |-> <<"queue", i>>, n |-> queue[a][i]] : i \in DOMAIN queue[a]}
    \cup {[at |-> <<"obuf", i>>, n |-> obuf[a][i]] : i \in DOMAIN obuf[a]}
    \cup (UNION {{[at |-> <<"wire", e, i>>, n |-> wire[a][e][i].n] :
                    i \in DOMAIN wire[a][e]} : e \in Conn(a)})
    \cup {[at |-> <<"req", t>>, n |-> req[t][1].n] :
             t \in {u \in Thread : req[u] # <<>> /\ req[u][1].agent = a}}
    \cup (UNION {{[at |-> <<"squeue", s, i>>, n |-> squeue[s][i].n] :
                    i \in {j \in DOMAIN squeue[s] : squeue[s][j].agent = a}} : s \in Store})
    \cup (UNION {{[at |-> <<"batch", s, i>>, n |-> batch[s][i].n] :
                    i \in {j \in DOMAIN batch[s] : batch[s][j].agent = a}} : s \in Store})
    \cup {[at |-> <<"stored", x[2], x[3]>>, n |-> x[1]] : x \in stored[a]}
    \cup {[at |-> <<"lost">>, n |-> n] : n \in lost[a]}

\* From commit() to the database no report is duplicated and none disappears
\* silently: each is in one queue or buffer, once, or stored once, or was
\* dropped at one of the places where the code drops it.
ReportAccounted ==
    \A a \in Agent : \A n \in 1 .. issued[a] :
        \E x \in Slots(a) : x.n = n /\ \A y \in Slots(a) : y.n = n => y = x

\* Round robin over the store threads can store two reports of an agent in
\* the wrong order.  That takes two store threads or two connections: of the
\* reports that shared both, the row never holds the older one.
LaterReportWins ==
    \A a \in Agent : \A x, y \in stored[a] :
        x[1] < y[1] /\ x[2] = y[2] /\ x[3] = y[3] => row[a] # x[1]

\* reporter_service.cpp:15: the reports are spread evenly over the store
\* threads.  This, and that queues_ is never read out of bounds, holds as long
\* as no two pool threads have been in get_thread at the same time.
RoundRobin ==
    ~overlapped =>
        /\ ~crashed
        /\ \A s1, s2 \in Store : picked[s1] <= picked[s2] + 1

\* Every report is stored or dropped in the end, unless its agent has lost
\* the service for good or the service crashed.
ReportSettles ==
    \A a \in Agent : \A n \in 1 .. MaxReports[a] :
        n <= issued[a] ~>
            \/ n \in {x[1] : x \in stored[a]} \cup lost[a]
            \/ conn[a] \in {"failed", "exited"}
            \/ crashed

=============================================================================
