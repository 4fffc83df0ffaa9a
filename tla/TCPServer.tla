----------------------------- MODULE TCPServer ------------------------------
(***************************************************************************)
(* The server half of the reactor: do_accept of the main thread and the    *)
(* count of connections (reactor/src/tcp_server.cpp), the threads of the   *)
(* pool with their task queues (thread_pool.cpp, thread_queue.h) and event *)
(* loops (eventloop.cpp), the life of a TCPConn (tcp_conn.cpp) and the     *)
(* buffers it takes from the pool that all threads share (buf_pool.cpp,    *)
(* reactor_buf.cpp).                                                       *)
(*                                                                         *)
(* The listening socket blocks, so once it has a connection to accept the  *)
(* main thread of a server with a pool stays in do_accept.  Without a pool *)
(* (threadNum = 0) thread 0 stands for the main thread, which then does    *)
(* everything; configuration is read at the start.  The kernel gives out   *)
(* the lowest free descriptor.  A thread's step ends where it takes or     *)
(* releases a lock or changes what other threads see; its own loop and     *)
(* buffers change within the step.  Module TCPStream has what is in the    *)
(* buffers; here a buffer has the class of its capacity.  Module           *)
(* SubscribeList has the pool's other tasks, those of send_task.           *)
(***************************************************************************)
EXTENDS Integers, Sequences, FiniteSets

CONSTANTS
    NumThreads,  \* threads of the pool, if there is one
    MaxConns,    \* [reactor] maxConn
    OtherFds,    \* descriptors of the process besides 0, 1, 2 and the connections
    FdLimit,     \* descriptors a process may have
    NumClasses,  \* sizes of buffers (7, from 4K to 8M)
    Size,        \* by class: memory of a buffer
    Prealloc,    \* by class: buffers the constructor of BufPool makes
    MemLimit,    \* EXTRA_MEM_LIMIT
    MaxArrivals  \* bound: clients that connect

Thread   == 0 .. NumThreads - 1
Class    == 1 .. NumClasses
FirstFd  == 3 + OtherFds
ConnFd   == FirstFd .. FdLimit - 1
ArrayLen == MaxConns + 3

VARIABLES
    thread_cnt,   \* 0 (no pool) or NumThreads
    run,          \* "ok", or how the process ended
    main,         \* the main thread: "loop", or "accept" inside do_accept
    backlog,      \* connections the kernel has ready for accept()
    opened, eof,  \* connection descriptors; those the peer has closed
    conns,        \* TCPServer::conns: the descriptors with a TCPConn
    curr_conns,   \* TCPServer::_curr_conns
    index,        \* ThreadPool::_index
    queue, evfd,  \* by thread: ThreadQueue::_queue and the eventfd's counter
    tasks,        \* by thread: what recv() took, still to be dealt with
    evs,          \* by thread: descriptors in EventLoop::_io_evs
    act,          \* by thread: what it is in the middle of
    ibuf, obuf,   \* by descriptor: class of the buffer held, 0 for NULL
    olen,         \* descriptors with data in obuf, and EPOLLOUT
    torn,         \* those whose data does not start at the front of obuf
    free,         \* BufPool::_pool: number of buffers by class
    total_mem,    \* BufPool::_total_mem
    arrived,      \* history: clients that connected
    overrun,      \* history: conns was indexed past its end
    peak, waiting \* history: most descriptors open, most accepted but not counted

ASSUME ServerAssumption ==
    /\ NumThreads \in Nat \ {0} /\ MaxConns \in Nat \ {0}
    /\ OtherFds \in Nat /\ FdLimit \in Nat
    /\ NumClasses \in Nat \ {0} /\ Size \in [Class -> Nat] /\ Prealloc \in [Class -> Nat]
    /\ MemLimit \in Nat /\ MaxArrivals \in Nat

net    == <<backlog, opened, eof, arrived, peak>>
count  == <<conns, curr_conns, overrun>>
queues == <<queue, evfd>>
loops  == <<tasks, evs>>
bufs   == <<ibuf, obuf, olen, torn>>
pool   == <<free, total_mem>>
vars   == <<thread_cnt, run, main, net, count, index, queues, loops, act, bufs, pool, waiting>>

Idle == [op |-> "idle", fd |-> 0, old |-> 0]
Doing(op, fd) == [op |-> op, fd |-> fd, old |-> 0]

Act == [op : {"idle", "tasks", "build", "parse", "head", "first", "body", "pop",
              "clean", "ibuf", "obuf", "close"},
        fd : ConnFd \cup {0}, old : Class \cup {0}]

\* Memory of n[c] buffers of each class c.
Memory(n) ==
    LET upTo[c \in 0 .. NumClasses] == IF c = 0 THEN 0 ELSE upTo[c - 1] + Size[c] * n[c]
    IN  upTo[NumClasses]

Init ==
    /\ thread_cnt \in {0, NumThreads} /\ run = "ok" /\ main = "loop"
    /\ backlog = 0 /\ opened = {} /\ eof = {}
    /\ conns = {} /\ curr_conns = 0 /\ index = 0
    /\ queue = [t \in Thread |-> <<>>] /\ evfd = [t \in Thread |-> 0]
    /\ tasks = [t \in Thread |-> <<>>]
    /\ evs = [t \in Thread |-> {}] /\ act = [t \in Thread |-> Idle]
    /\ ibuf = [fd \in ConnFd |-> 0] /\ obuf = [fd \in ConnFd |-> 0] /\ olen = {} /\ torn = {}
    /\ free = Prealloc /\ total_mem = Memory(Prealloc)
    /\ arrived = 0
    /\ overrun = FALSE /\ peak = 0 /\ waiting = 0

-----------------------------------------------------------------------------
(* The main thread, and the peers.                                          *)

\* Accepted descriptors that increase_conn has not counted yet.
Pending == {fd \in opened : \E t \in Thread :
              \/ fd \in {queue[t][i] : i \in 1 .. Len(queue[t])}
              \/ fd \in {tasks[t][i] : i \in 1 .. Len(tasks[t])}
              \/ act[t].op = "build" /\ act[t].fd = fd}

Connect ==
    /\ run = "ok" /\ arrived < MaxArrivals
    /\ arrived' = arrived + 1 /\ backlog' = backlog + 1
    /\ UNCHANGED <<thread_cnt, run, main, opened, eof, peak, count, index, queues, loops,
                   act, bufs, pool, waiting>>

PeerCloses(fd) ==
    /\ run = "ok" /\ fd \in opened \ eof
    /\ eof' = eof \cup {fd}
    /\ UNCHANGED <<thread_cnt, run, main, backlog, opened, arrived, peak, count, index,
                   queues, loops, act, bufs, pool, waiting>>

MutSendQuiet(t, x) ==
    /\ queue' = [queue EXCEPT ![t] = Append(@, x)]
    /\ evfd' = evfd

\* ThreadQueue::send, under the lock of the queue.
send(t, x) ==
    /\ queue' = [queue EXCEPT ![t] = Append(@, x)]
    /\ evfd' = [evfd EXCEPT ![t] = @ + 1]

\* ThreadPool::get_thread.
get_thread == index' = IF index + 1 = thread_cnt THEN 0 ELSE index + 1

\* The event of the listening socket: do_accept starts.
accept_callback ==
    /\ run = "ok" /\ main = "loop" /\ backlog > 0
    /\ thread_cnt = 0 => act[0] = Idle
    /\ main' = "accept"
    /\ UNCHANGED <<thread_cnt, run, net, count, index, queues, loops, act, bufs, pool, waiting>>

MutTooMany == curr_conns > MaxConns

TooMany == curr_conns >= MaxConns

\* accept() returned descriptor fd.  Too many connections: it is closed, and
\* the loop goes back to accept(), as it does without a free descriptor (EMFILE).
do_accept(fd) ==
    /\ run = "ok" /\ main = "accept" /\ backlog > 0
    /\ fd \in ConnFd \ opened /\ \A f \in ConnFd \ opened : fd <= f
    /\ backlog' = backlog - 1
    /\ IF TooMany
       THEN UNCHANGED <<main, opened, index, queues, act, peak, waiting>>
       ELSE /\ opened' = opened \cup {fd}
            /\ peak' = IF Cardinality(opened') > peak THEN Cardinality(opened') ELSE peak
            /\ waiting' = IF Cardinality(Pending) + 1 > waiting
                          THEN Cardinality(Pending) + 1 ELSE waiting
            /\ IF thread_cnt > 0
               THEN send(index, fd) /\ get_thread /\ UNCHANGED <<main, act>>
               ELSE /\ main' = "loop" /\ act' = [act EXCEPT ![0] = Doing("build", fd)]
                    /\ UNCHANGED <<index, queues>>
    /\ UNCHANGED <<thread_cnt, run, eof, arrived, count, loops, bufs, pool>>

\* accept() fails with another error, as it may for the uninitialised _addrlen.
accept_error ==
    /\ run = "ok" /\ main = "accept" /\ backlog > 0
    /\ run' = "exited"
    /\ UNCHANGED <<thread_cnt, main, net, count, index, queues, loops, act, bufs, pool, waiting>>

\* Nobody sets _thread_pool when there is no pool: do_accept takes what it
\* finds there for NULL, above, or for a pool.
WildPool ==
    /\ run = "ok" /\ main = "accept" /\ backlog > 0
    /\ thread_cnt = 0 /\ ~TooMany /\ opened # ConnFd
    /\ run' = "crashed"
    /\ UNCHANGED <<thread_cnt, main, net, count, index, queues, loops, act, bufs, pool, waiting>>

-----------------------------------------------------------------------------
(* The threads.                                                             *)

\* Thread t runs, and is about to do op.
At(t, op) ==
    /\ run = "ok" /\ act[t].op = op
    /\ thread_cnt = 0 => t = 0 /\ main = "loop"

MutRecvCopies(t) ==
    /\ At(t, "idle") /\ evfd[t] > 0
    /\ tasks' = [tasks EXCEPT ![t] = queue[t]]
    /\ queue' = queue /\ evfd' = [evfd EXCEPT ![t] = 0]
    /\ act' = [act EXCEPT ![t] = Doing("tasks", 0)]
    /\ UNCHANGED <<thread_cnt, run, main, net, count, index, evs, bufs, pool, waiting>>

\* The eventfd of the queue has fired: recv() takes the whole queue.
deal_task_message(t) ==
    /\ At(t, "idle") /\ evfd[t] > 0
    /\ tasks' = [tasks EXCEPT ![t] = queue[t]]
    /\ queue' = [queue EXCEPT ![t] = <<>>] /\ evfd' = [evfd EXCEPT ![t] = 0]
    /\ act' = [act EXCEPT ![t] = Doing("tasks", 0)]
    /\ UNCHANGED <<thread_cnt, run, main, net, count, index, evs, bufs, pool, waiting>>

\* One task of those taken: a connection to build.
deal_task(t) ==
    /\ At(t, "tasks")
    /\ \/ tasks[t] = <<>> /\ act' = [act EXCEPT ![t] = Idle] /\ tasks' = tasks
       \/ /\ tasks[t] # <<>>
          /\ act' = [act EXCEPT ![t] = Doing("build", Head(tasks[t]))]
          /\ tasks' = [tasks EXCEPT ![t] = Tail(@)]
    /\ UNCHANGED <<thread_cnt, run, main, net, count, index, queues, evs, bufs, pool, waiting>>

\* Indexing conns by fd: past the end anything may follow, at once or never.
Index(fd) ==
    /\ overrun' = (overrun \/ fd >= ArrayLen)
    /\ run' \in IF fd >= ArrayLen THEN {"ok", "crashed"} ELSE {"ok"}

\* EventLoop::add_io_event and del_io_event of thread t's loop, for the read
\* event; olen has the write event.
add_io_event(t, fd) == evs' = [evs EXCEPT ![t] = @ \cup {fd}]

del_io_event(t, fd) == evs' = [evs EXCEPT ![t] = @ \ {fd}]

\* The constructor of TCPConn: the read event, then increase_conn.
TCPConn(t) ==
    /\ At(t, "build")
    /\ LET fd == act[t].fd IN
         /\ add_io_event(t, fd)
         /\ Index(fd) /\ conns' = conns \cup {fd} /\ curr_conns' = curr_conns + 1
    /\ act' = [act EXCEPT ![t] = IF thread_cnt = 0 THEN Idle ELSE Doing("tasks", 0)]
    /\ UNCHANGED <<thread_cnt, main, net, index, queues, tasks, bufs, pool, waiting>>

MutAtLimit(c) ==
    IF free[c] > 0
    THEN free' = [free EXCEPT ![c] = @ - 1] /\ UNCHANGED <<run, total_mem>>
    ELSE IF total_mem + Size[c] <= MemLimit
    THEN total_mem' = total_mem + Size[c] /\ UNCHANGED <<run, free>>
    ELSE run' = "exited" /\ UNCHANGED pool

\* BufPool::alloc_buf: a pooled buffer, else a new one, else the process ends.
\* For more than the largest class it returns NULL: read_refused, send_refused.
alloc_buf(c) ==
    IF free[c] > 0
    THEN free' = [free EXCEPT ![c] = @ - 1] /\ UNCHANGED <<run, total_mem>>
    ELSE IF total_mem + Size[c] < MemLimit
    THEN total_mem' = total_mem + Size[c] /\ UNCHANGED <<run, free>>
    ELSE run' = "exited" /\ UNCHANGED pool

\* BufPool::revert, of nothing when c = 0.
revert(c) == free' = IF c = 0 THEN free ELSE [free EXCEPT ![c] = @ + 1]

\* A buffer of class old that must take what needs class c: kept, or replaced
\* by a larger one whose predecessor goes back to the pool.
Grow(old, c) == IF old >= c THEN UNCHANGED <<run, pool>> ELSE alloc_buf(c)
Larger(old, c) == IF old >= c THEN old ELSE c
MutForgets(old, c) == 0
Leftover(old, c) == IF old >= c THEN 0 ELSE old

\* read_data of do_read, up to the buffer: c is the class the data needs; at
\* the end of the stream the least one is taken before read() tells.
read_data(t, fd) ==
    /\ At(t, "idle") /\ fd \in evs[t]
    /\ \E c \in IF fd \in eof THEN {Larger(ibuf[fd], 1)} ELSE Class :
         /\ Grow(ibuf[fd], c)
         /\ ibuf' = [ibuf EXCEPT ![fd] = Larger(@, c)]
         /\ act' = [act EXCEPT ![t] = [op |-> IF fd \in eof THEN "clean" ELSE "parse",
                                       fd |-> fd, old |-> Leftover(ibuf[fd], c)]]
    /\ UNCHANGED <<thread_cnt, main, net, count, index, queues, loops, obuf, olen, torn, waiting>>

\* read_data without a buffer: the connection is closed.
read_refused(t, fd) ==
    /\ At(t, "idle") /\ fd \in evs[t] \ eof
    /\ act' = [act EXCEPT ![t] = Doing("clean", fd)]
    /\ UNCHANGED <<thread_cnt, run, main, net, count, index, queues, loops, bufs, pool, waiting>>

\* The smaller buffer goes back to the pool, and the thread goes on.
revert_old(t) ==
    /\ run = "ok" /\ act[t].old # 0
    /\ revert(act[t].old) /\ act' = [act EXCEPT ![t].old = 0]
    /\ UNCHANGED <<thread_cnt, run, main, net, count, index, queues, loops, bufs, total_mem, waiting>>

\* The loop of do_read: an incomplete message stays, a malformed one closes the
\* connection, a whole one reaches a handler, which answers or does not.
do_read(t) ==
    /\ At(t, "parse") /\ act[t].old = 0
    /\ \E op \in {"idle", "clean", "head", "pop"} :
         act' = [act EXCEPT ![t] = IF op = "idle" THEN Idle ELSE Doing(op, @.fd)]
    /\ UNCHANGED <<thread_cnt, run, main, net, count, index, queues, loops, bufs, pool, waiting>>

\* Thread t is in send_message, at the body: the header is alone in obuf, or
\* behind older messages.
Body(t) == At(t, "first") \/ At(t, "body")

\* send_message: the header and then the body are appended to obuf.
send_data(t) ==
    /\ (At(t, "head") /\ act[t].fd \notin torn) \/ Body(t)
    /\ act[t].old = 0
    /\ LET fd == act[t].fd IN
         \E c \in IF act[t].op = "head" /\ fd \notin olen THEN {1} ELSE Class :
           /\ Grow(obuf[fd], c)
           /\ obuf' = [obuf EXCEPT ![fd] = Larger(@, c)]
           /\ olen' = olen \cup {fd}
           /\ act' = [act EXCEPT ![t] =
                [op |-> IF @.op # "head" THEN "pop" ELSE IF fd \in olen THEN "body" ELSE "first",
                 fd |-> fd, old |-> Leftover(obuf[fd], c)]]
    /\ UNCHANGED <<thread_cnt, main, net, count, index, queues, loops, ibuf, torn, waiting>>

\* send_message without a buffer for the header; or for the body, when it pops
\* the length of the header, which is at the end, from the front.
send_refused(t) ==
    /\ act[t].old = 0
    /\ LET fd == act[t].fd IN
         \/ At(t, "head") /\ fd \in olen \ torn /\ UNCHANGED <<obuf, olen, torn, free>>
         \/ At(t, "body") /\ torn' = torn \cup {fd} /\ UNCHANGED <<obuf, olen, free>>
         \/ /\ At(t, "first") /\ revert(obuf[fd])
            /\ obuf' = [obuf EXCEPT ![fd] = 0] /\ olen' = olen \ {fd} /\ UNCHANGED torn
    /\ act' = [act EXCEPT ![t] = Doing("pop", @.fd)]
    /\ UNCHANGED <<thread_cnt, run, main, net, count, index, queues, loops, ibuf, total_mem, waiting>>

\* send_data asserts that the data starts at the front.
send_torn(t) ==
    /\ At(t, "head") /\ act[t].fd \in torn
    /\ run' = "crashed"
    /\ UNCHANGED <<thread_cnt, main, net, count, index, queues, loops, act, bufs, pool, waiting>>

\* ReactorBuf::pop after the handler: an emptied buffer goes back; a rest stays.
pop(t) ==
    /\ At(t, "pop") /\ act[t].old = 0
    /\ LET fd == act[t].fd IN
         \/ revert(ibuf[fd]) /\ ibuf' = [ibuf EXCEPT ![fd] = 0]
         \/ UNCHANGED <<free, ibuf>>
    /\ act' = [act EXCEPT ![t] = Idle]
    /\ UNCHANGED <<thread_cnt, run, main, net, count, index, queues, loops, obuf, olen,
                   torn, total_mem, waiting>>

\* An event with EPOLLIN never gets here, so not after the peer has closed.
\* write2fd pops at the IOBuf: an emptied buffer stays with the connection.  It
\* asserts that the data starts at the front.
do_write(t, fd) ==
    /\ At(t, "idle") /\ fd \in evs[t] /\ fd \in olen \ eof
    /\ \/ fd \notin torn /\ olen' = olen \ {fd} /\ UNCHANGED <<run, act>>
       \/ /\ fd \notin torn /\ act' = [act EXCEPT ![t] = Doing("clean", fd)]
          /\ UNCHANGED <<run, olen>>
       \/ fd \in torn /\ run' = "crashed" /\ UNCHANGED <<olen, act>>
    /\ UNCHANGED <<thread_cnt, main, net, count, index, queues, loops, ibuf, obuf, torn, pool, waiting>>

\* clean_conn: decrease_conn and the events, the buffers, the descriptor.
decrease_conn(t) ==
    /\ At(t, "clean") /\ act[t].old = 0
    /\ LET fd == act[t].fd IN
         /\ Index(fd) /\ conns' = conns \ {fd} /\ curr_conns' = curr_conns - 1
         /\ del_io_event(t, fd)
         /\ act' = [act EXCEPT ![t] = Doing("ibuf", fd)]
    /\ UNCHANGED <<thread_cnt, main, net, index, queues, tasks, bufs, pool, waiting>>

clear(t) ==
    /\ \/ /\ At(t, "ibuf") /\ revert(ibuf[act[t].fd])
          /\ ibuf' = [ibuf EXCEPT ![act[t].fd] = 0]
          /\ act' = [act EXCEPT ![t].op = "obuf"] /\ UNCHANGED <<obuf, olen, torn>>
       \/ /\ At(t, "obuf") /\ revert(obuf[act[t].fd])
          /\ obuf' = [obuf EXCEPT ![act[t].fd] = 0] /\ olen' = olen \ {act[t].fd}
          /\ torn' = torn \ {act[t].fd}
          /\ act' = [act EXCEPT ![t].op = "close"] /\ UNCHANGED ibuf
    /\ UNCHANGED <<thread_cnt, run, main, net, count, index, queues, loops, total_mem, waiting>>

close(t) ==
    /\ At(t, "close")
    /\ opened' = opened \ {act[t].fd} /\ eof' = eof \ {act[t].fd}
    /\ act' = [act EXCEPT ![t] = Idle]
    /\ UNCHANGED <<thread_cnt, run, main, backlog, arrived, peak, count, index, queues,
                   loops, bufs, pool, waiting>>

\* A thread in the middle of something.
Continue(t) ==
    \/ deal_task(t) \/ TCPConn(t) \/ revert_old(t) \/ do_read(t) \/ send_data(t)
    \/ send_refused(t) \/ send_torn(t) \/ pop(t) \/ decrease_conn(t) \/ clear(t) \/ close(t)

Next ==
    \/ Connect \/ accept_callback \/ accept_error \/ WildPool
    \/ \E fd \in ConnFd : PeerCloses(fd) \/ do_accept(fd)
    \/ \E t \in Thread :
         \/ deal_task_message(t) \/ Continue(t)
         \/ \E fd \in ConnFd : read_data(t, fd) \/ read_refused(t, fd) \/ do_write(t, fd)

Spec == Init /\ [][Next]_vars

\* Threads go on with what they have begun.  An event loop calls every ready
\* descriptor in turn, however often the others are ready too: strong fairness.
LiveSpec ==
    /\ Spec
    /\ \A t \in Thread : WF_vars(Continue(t)) /\ SF_vars(deal_task_message(t))
    /\ \A fd \in ConnFd : SF_vars(\E t \in Thread : read_data(t, fd))

-----------------------------------------------------------------------------
(* Properties.                                                              *)

\* The type invariant; the pool's memory stays below its limit, unless the
\* constructor has passed it already.
TypeOK ==
    /\ thread_cnt \in {0, NumThreads} /\ run \in {"ok", "exited", "crashed"}
    /\ main \in {"loop", "accept"} /\ backlog \in 0 .. MaxArrivals
    /\ opened \subseteq ConnFd /\ eof \subseteq opened /\ conns \subseteq ConnFd
    /\ curr_conns \in Nat /\ index \in Thread
    /\ queue \in [Thread -> Seq(ConnFd)] /\ evfd \in [Thread -> Nat]
    /\ tasks \in [Thread -> Seq(ConnFd)] /\ evs \in [Thread -> SUBSET ConnFd]
    /\ act \in [Thread -> Act]
    /\ ibuf \in [ConnFd -> Class \cup {0}] /\ obuf \in [ConnFd -> Class \cup {0}]
    /\ olen \subseteq ConnFd /\ torn \subseteq ConnFd /\ free \in [Class -> Nat]
    /\ total_mem \in Nat /\ (total_mem < MemLimit \/ total_mem = Memory(Prealloc))
    /\ arrived \in 0 .. MaxArrivals /\ overrun \in BOOLEAN /\ peak \in Nat /\ waiting \in Nat

InSeq(s, fd) == {i \in 1 .. Len(s) : s[i] = fd}

\* The descriptor thread t alone knows of: not yet watched, or not any more.
InHand(t) == IF act[t].op \in {"build", "ibuf", "obuf", "close"} THEN {act[t].fd} ELSE {}

\* The places where the threads have descriptor fd.
Places(fd) ==
    UNION {      {<<"queue", t, i>> : i \in InSeq(queue[t], fd)}
            \cup {<<"tasks", t, i>> : i \in InSeq(tasks[t], fd)}
            \cup {<<"evs", t, 0>> : f \in evs[t] \cap {fd}}
            \cup {<<"act", t, 0>> : f \in InHand(t) \cap {fd}} : t \in Thread}

\* From accept() to close() a descriptor is in the hands of one thread, in one
\* place, though numbers are used again; conns has exactly those with a
\* TCPConn whose thread watches them, and _curr_conns is their number.
OneOwner ==
    /\ \A fd \in ConnFd : Cardinality(Places(fd)) = IF fd \in opened THEN 1 ELSE 0
    /\ conns = UNION {evs[t] : t \in Thread}
    /\ curr_conns = Cardinality(conns)

\* Buffers of class c in the hands of connections.
Held(c) ==
    Cardinality({fd \in ConnFd : ibuf[fd] = c}) + Cardinality({fd \in ConnFd : obuf[fd] = c})
    + Cardinality({t \in Thread : act[t].old = c})

\* No buffer is lost, freed twice or kept by a closed connection, however the
\* threads allocate, grow and release: _total_mem is the memory of the buffers
\* in the pool and of those held.
PoolBalanced ==
    run = "ok" =>
      /\ total_mem = Memory([c \in Class |-> free[c] + Held(c)])
      /\ \A fd \in ConnFd \ opened : ibuf[fd] = 0 /\ obuf[fd] = 0

\* do_accept tests a count that grows later, in the threads: the limit is
\* passed by no more than the connections that were waiting to be built; a
\* server without a pool keeps it.  conns is indexed past its end only when the
\* connections and the other descriptors together have exceeded maxConn.
LimitsHold ==
    /\ curr_conns + Cardinality(Pending) <= MaxConns + (IF waiting = 0 THEN 0 ELSE waiting - 1)
    /\ thread_cnt = 0 => curr_conns <= MaxConns
    /\ overrun => peak + OtherFds > MaxConns

\* The main thread waits in accept() for a client, or for a descriptor that
\* only it could close.
Blocked == thread_cnt = 0 /\ main = "accept"

\* A client that goes away is noticed and its descriptor closed, unless the
\* process ends or, without a pool, do_accept has gone back to accept() after
\* turning a client away.
CloseNoticed ==
    \A fd \in ConnFd : (fd \in eof) ~> (fd \notin eof \/ run # "ok" \/ Blocked)
=============================================================================
