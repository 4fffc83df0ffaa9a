--------------------------- MODULE SubscribeList ---------------------------
(***************************************************************************)
(* Subscriptions and pushes of the DNS service: the handlers that run in   *)
(* the threads of the pool (dns/src/dns_service.cpp), the lists they share *)
(* with the thread that watches the database (dns/src/subscribe.cpp), and  *)
(* what of the reactor carries them: accept, the task queue of each thread *)
(* and the connection's end.                                               *)
(*                                                                         *)
(* A connection belongs to one thread, which runs one callback at a time;  *)
(* the steps of a callback are split where it touches what other threads   *)
(* touch: book_list and push_list under their locks, the route table under *)
(* its read-write lock, a task queue under its mutex.                      *)
(*                                                                         *)
(* The hosts of a mod are a generation number: table[m] grows whenever a   *)
(* swap() brings other hosts.  Which swaps come with which RouteChange     *)
(* rows is the database's affair, so both are arbitrary here.              *)
(***************************************************************************)
EXTENDS Integers, Sequences, FiniteSets, Functions

CONSTANTS
    Mod,        \* modid/cmdid pairs
    Fd,         \* descriptors that accept() may return
    NumThreads, \* threadNum of the pool
    PushTask,   \* a NEW_TASK message with push_change_task
    MaxGen,     \* bound: generations of a mod's hosts
    MaxQueue    \* bound: messages in a task queue

ASSUME SubscribeAssumption ==
    /\ NumThreads \in Nat \ {0}
    /\ PushTask \notin Fd
    /\ MaxGen \in Nat /\ MaxQueue \in Nat

Thread == 0 .. NumThreads - 1

VARIABLES
    conn,      \* by fd: "closed", "accepted", "open" or "closing"
    home,      \* by fd: the thread of the connection
    sub_list,  \* by fd: conn->param, the mods the client subscribed
    book_list, \* _book_list: by mod, the subscribed fds
    push_list, \* _push_list: by fd, the mods to push
    need,      \* by fd: what the running push_change_task took for it
    asking,    \* by fd: the mod whose get_route is before get_hosts
    queue,     \* by thread: its ThreadQueue, of fds (NEW_CONN) and PushTasks
    ready,     \* by thread: push tasks in the loop's _ready_tasks
    index,     \* _index of the pool
    table,     \* data_pointer_: by mod, the generation of its hosts
    watcher,   \* the database thread: "sleep", "publish" or "send_task"
    changes,   \* its change list
    notify,    \* the next thread its send_task notifies
    published, \* history: by mod, the generation last published
    seen,      \* history: by fd and mod, the generation last sent, or -1
    skipped,   \* history: fds that make_publish_map passed over
    crashed    \* the invalid iterator of make_publish_map hit bad memory

threads == <<queue, ready, index>>
watch   == <<watcher, changes, notify, published>>
vars    == <<conn, home, sub_list, book_list, push_list, need, asking, threads,
             table, watch, seen, skipped, crashed>>

Init ==
    /\ conn = [f \in Fd |-> "closed"] /\ home = [f \in Fd |-> 0]
    /\ sub_list = [f \in Fd |-> {}] /\ book_list = [m \in Mod |-> {}]
    /\ push_list = [f \in Fd |-> {}] /\ need = [f \in Fd |-> {}]
    /\ asking = [f \in Fd |-> {}]
    /\ queue = [t \in Thread |-> <<>>] /\ ready = [t \in Thread |-> 0] /\ index = 0
    /\ table = [m \in Mod |-> 0]
    /\ watcher = "sleep" /\ changes = {} /\ notify = 0
    /\ published = [m \in Mod |-> 0]
    /\ seen = [f \in Fd |-> [m \in Mod |-> -1]]
    /\ skipped = {} /\ crashed = FALSE

\* Thread t is in its event loop, not inside a callback.
InLoop(t) ==
    /\ ~crashed
    /\ \A f \in Fd : home[f] = t => conn[f] # "closing" /\ asking[f] = {} /\ need[f] = {}

-----------------------------------------------------------------------------
(* Connections: TCPServer::do_accept, deal_task_message, TCPConn.          *)

Post(t, msg) ==
    /\ Len(queue[t]) < MaxQueue
    /\ queue' = [queue EXCEPT ![t] = Append(@, msg)]

\* The next thread of the pool in turn gets the new connection.
do_accept(f) ==
    /\ ~crashed /\ conn[f] = "closed"
    /\ conn' = [conn EXCEPT ![f] = "accepted"]
    /\ home' = [home EXCEPT ![f] = index]
    /\ Post(index, f)
    /\ index' = (index + 1) % NumThreads
    /\ UNCHANGED <<sub_list, book_list, push_list, need, asking, ready, table,
                   watch, seen, skipped, crashed>>

\* The whole queue is taken: a TCPConn is built for every new connection, with
\* an empty sub_list (create_subscribe); tasks are kept until the batch of
\* events is through, before which the queue does not fire again.
MutDealFirst(t) ==
    /\ InLoop(t) /\ ready[t] = 0 /\ queue[t] # <<>>
    /\ conn' = [f \in Fd |-> IF f = Head(queue[t]) THEN "open" ELSE conn[f]]
    /\ sub_list' = [f \in Fd |-> IF f = Head(queue[t]) THEN {} ELSE sub_list[f]]
    /\ ready' = [ready EXCEPT ![t] = IF Head(queue[t]) = PushTask THEN 1 ELSE 0]
    /\ queue' = [queue EXCEPT ![t] = <<>>]
    /\ UNCHANGED <<home, book_list, push_list, need, asking, index, table,
                   watch, seen, skipped, crashed>>
deal_task_message(t) ==
    /\ InLoop(t) /\ ready[t] = 0 /\ queue[t] # <<>>
    /\ conn' = [f \in Fd |-> IF f \in Range(queue[t]) THEN "open" ELSE conn[f]]
    /\ sub_list' = [f \in Fd |-> IF f \in Range(queue[t]) THEN {} ELSE sub_list[f]]
    /\ ready' = [ready EXCEPT
         ![t] = Cardinality({i \in DOMAIN queue[t] : queue[t][i] = PushTask})]
    /\ queue' = [queue EXCEPT ![t] = <<>>]
    /\ UNCHANGED <<home, book_list, push_list, need, asking, index, table,
                   watch, seen, skipped, crashed>>

\* do_read or do_write finds the connection gone: clean_conn begins.
clean_conn(f) ==
    /\ conn[f] = "open" /\ InLoop(home[f])
    /\ conn' = [conn EXCEPT ![f] = "closing"]
    /\ UNCHANGED <<home, sub_list, book_list, push_list, need, asking, threads,
                   table, watch, seen, skipped, crashed>>

\* clear_subscribe: one mod after the other, each under the lock.
unsubscribe(f, m) ==
    /\ ~crashed /\ conn[f] = "closing" /\ m \in sub_list[f]
    /\ book_list' = [book_list EXCEPT ![m] = @ \ {f}]
    /\ sub_list' = [sub_list EXCEPT ![f] = @ \ {m}]
    /\ UNCHANGED <<conn, home, push_list, need, asking, threads, table, watch,
                   seen, skipped, crashed>>

\* The rest of clean_conn; the kernel may reuse the descriptor from here on.
MutCloseEarly(f) ==
    /\ ~crashed /\ conn[f] = "closing"
    /\ conn' = [conn EXCEPT ![f] = "closed"]
    /\ sub_list' = [sub_list EXCEPT ![f] = {}]
    /\ seen' = [seen EXCEPT ![f] = [m \in Mod |-> -1]]
    /\ UNCHANGED <<home, book_list, push_list, need, asking, threads,
                   table, watch, skipped, crashed>>
close(f) ==
    /\ ~crashed /\ conn[f] = "closing" /\ sub_list[f] = {}
    /\ conn' = [conn EXCEPT ![f] = "closed"]
    /\ seen' = [seen EXCEPT ![f] = [m \in Mod |-> -1]]
    /\ UNCHANGED <<home, sub_list, book_list, push_list, need, asking, threads,
                   table, watch, skipped, crashed>>

-----------------------------------------------------------------------------
(* get_route: subscribe if the mod is new to the connection, then look the *)
(* hosts up and send them.                                                 *)

subscribe(f, m) ==
    /\ conn[f] = "open" /\ InLoop(home[f])
    /\ sub_list' = [sub_list EXCEPT ![f] = @ \cup {m}]
    /\ book_list' = IF m \in sub_list[f] THEN book_list
                    ELSE [book_list EXCEPT ![m] = @ \cup {f}]
    /\ asking' = [asking EXCEPT ![f] = {m}]
    /\ UNCHANGED <<conn, home, push_list, need, threads, table, watch, seen,
                   skipped, crashed>>

Send(f, m) == seen' = [seen EXCEPT ![f][m] = table[m]]

get_hosts(f, m) ==
    /\ ~crashed /\ m \in asking[f]
    /\ Send(f, m)
    /\ asking' = [asking EXCEPT ![f] = @ \ {m}]
    /\ UNCHANGED <<conn, home, sub_list, book_list, push_list, need, threads,
                   table, watch, skipped, crashed>>

-----------------------------------------------------------------------------
(* push_change_task in a thread of the pool.                               *)

Online(t) == {f \in Fd : conn[f] = "open" /\ home[f] = t}

Matching(t) == {f \in Online(t) : push_list[f] # {}}

\* The loop erases the element its iterator points to and then increments the
\* iterator.  After the first match anything may follow: the traversal goes
\* on, other elements are passed over, or the process is gone.
MutTakeOffline(t) ==
    /\ InLoop(t) /\ ready[t] > 0
    /\ need' = push_list
    /\ push_list' = [f \in Fd |-> {}]
    /\ skipped' = {}
    /\ ready' = [ready EXCEPT ![t] = @ - 1]
    /\ UNCHANGED <<conn, home, sub_list, book_list, asking, queue, index, table,
                   watch, seen, crashed>>
make_publish_map(t) ==
    /\ InLoop(t) /\ ready[t] > 0
    /\ \E taken \in SUBSET Matching(t) :
          /\ Matching(t) # {} => taken # {}
          /\ need' = [f \in Fd |-> IF f \in taken THEN push_list[f] ELSE need[f]]
          /\ push_list' = [f \in Fd |-> IF f \in taken THEN {} ELSE push_list[f]]
          /\ skipped' = (skipped \cup Matching(t)) \ taken
    /\ ready' = [ready EXCEPT ![t] = @ - 1]
    /\ UNCHANGED <<conn, home, sub_list, book_list, asking, queue, index, table,
                   watch, seen, crashed>>

BadIterator(t) ==
    /\ InLoop(t) /\ ready[t] > 0 /\ Matching(t) # {}
    /\ crashed' = TRUE
    /\ UNCHANGED <<conn, home, sub_list, book_list, push_list, need, asking,
                   threads, table, watch, seen, skipped>>

\* The next route of need_publish: look the hosts up, send them.
push(f, m) ==
    /\ ~crashed /\ m \in need[f]
    /\ Send(f, m)
    /\ need' = [need EXCEPT ![f] = @ \ {m}]
    /\ UNCHANGED <<conn, home, sub_list, book_list, push_list, asking, threads,
                   table, watch, skipped, crashed>>

-----------------------------------------------------------------------------
(* check_route_changes in the database thread.                             *)

Swapped(new) == [m \in Mod |-> IF m \in new THEN table[m] + 1 ELSE table[m]]

\* A new version: the hosts of `new' change with the swap (none if the load
\* failed), the RouteChange table names the mods `listed'.
NewVersion(new, listed) ==
    /\ ~crashed /\ watcher = "sleep" /\ \A m \in new : table[m] < MaxGen
    /\ table' = Swapped(new)
    /\ changes' = listed
    /\ watcher' = "publish"
    /\ UNCHANGED <<conn, home, sub_list, book_list, push_list, need, asking,
                   threads, notify, published, seen, skipped, crashed>>

\* The periodic load publishes nothing.
PeriodicLoad(new) ==
    /\ ~crashed /\ watcher = "sleep" /\ \A m \in new : table[m] < MaxGen
    /\ table' = Swapped(new)
    /\ UNCHANGED <<conn, home, sub_list, book_list, push_list, need, asking,
                   threads, watch, seen, skipped, crashed>>

\* publish, first part, under both locks.
publish ==
    /\ ~crashed /\ watcher = "publish"
    /\ push_list' = [f \in Fd |-> push_list[f] \cup {m \in changes : f \in book_list[m]}]
    /\ published' = [m \in Mod |-> IF m \in changes THEN table[m] ELSE published[m]]
    /\ watcher' = "send_task" /\ notify' = 0 /\ skipped' = {}
    /\ UNCHANGED <<conn, home, sub_list, book_list, need, asking, threads, table,
                   changes, seen, crashed>>

\* publish, second part: ThreadPool::send_task, thread after thread.
MutNotifyOne ==
    /\ ~crashed /\ watcher = "send_task"
    /\ Post(notify, PushTask)
    /\ notify' = 0 /\ watcher' = "sleep" /\ changes' = {}
    /\ UNCHANGED <<conn, home, sub_list, book_list, push_list, need, asking, ready,
                   index, table, published, seen, skipped, crashed>>
MutNotifyOneMore ==
    /\ ~crashed /\ watcher = "send_task"
    /\ Post(notify, PushTask)
    /\ IF notify < NumThreads
       THEN notify' = notify + 1 /\ UNCHANGED <<watcher, changes>>
       ELSE notify' = 0 /\ watcher' = "sleep" /\ changes' = {}
    /\ UNCHANGED <<conn, home, sub_list, book_list, push_list, need, asking, ready,
                   index, table, published, seen, skipped, crashed>>
send_task ==
    /\ ~crashed /\ watcher = "send_task"
    /\ Post(notify, PushTask)
    /\ IF notify + 1 < NumThreads
       THEN notify' = notify + 1 /\ UNCHANGED <<watcher, changes>>
       ELSE notify' = 0 /\ watcher' = "sleep" /\ changes' = {}
    /\ UNCHANGED <<conn, home, sub_list, book_list, push_list, need, asking, ready,
                   index, table, published, seen, skipped, crashed>>

-----------------------------------------------------------------------------
Connections ==
    \E f \in Fd : \/ do_accept(f) \/ clean_conn(f) \/ close(f)
                  \/ \E m \in Mod : unsubscribe(f, m)

Routes == \E f \in Fd, m \in Mod : subscribe(f, m) \/ get_hosts(f, m) \/ push(f, m)

Tasks == \E t \in Thread : deal_task_message(t) \/ make_publish_map(t) \/ BadIterator(t)

Watcher ==
    \/ \E new, listed \in SUBSET Mod : NewVersion(new, listed)
    \/ \E new \in SUBSET Mod : PeriodicLoad(new)
    \/ publish \/ send_task

Next == Connections \/ Routes \/ Tasks \/ Watcher

Spec == Init /\ [][Next]_vars

\* A callback that has begun goes on; the queue of a thread and the tasks it
\* took get their turn among the other events of the loop, which runs the
\* tasks after every batch; the database thread goes on.
Fairness ==
    /\ \A f \in Fd, m \in Mod :
          /\ WF_vars(get_hosts(f, m)) /\ WF_vars(push(f, m))
          /\ WF_vars(unsubscribe(f, m)) /\ WF_vars(close(f))
    /\ \A t \in Thread : SF_vars(deal_task_message(t)) /\ SF_vars(make_publish_map(t))
    /\ WF_vars(publish) /\ WF_vars(send_task)

LiveSpec == Spec /\ Fairness

-----------------------------------------------------------------------------
\* The type of the state.
TypeOK ==
    /\ conn \in [Fd -> {"closed", "accepted", "open", "closing"}]
    /\ home \in [Fd -> Thread]
    /\ sub_list \in [Fd -> SUBSET Mod] /\ book_list \in [Mod -> SUBSET Fd]
    /\ push_list \in [Fd -> SUBSET Mod] /\ need \in [Fd -> SUBSET Mod]
    /\ asking \in [Fd -> SUBSET Mod]
    /\ queue \in [Thread -> Seq(Fd \cup {PushTask})]
    /\ ready \in [Thread -> Nat] /\ index \in Thread
    /\ table \in [Mod -> Nat] /\ published \in [Mod -> Nat]
    /\ watcher \in {"sleep", "publish", "send_task"}
    /\ changes \in SUBSET Mod /\ notify \in Thread
    /\ seen \in [Fd -> [Mod -> Nat \cup {-1}]]
    /\ skipped \in SUBSET Fd /\ crashed \in BOOLEAN

\* The global list of subscribers and the lists of the connections agree, for
\* every interleaving of get_route, clear_subscribe and accept: a descriptor
\* the kernel hands out again is subscribed to nothing.
BookMatches ==
    /\ \A f \in Fd, m \in Mod : f \in book_list[m] <=> m \in sub_list[f]
    /\ \A f \in Fd : conn[f] \in {"closed", "accepted"} => sub_list[f] = {}

\* push_change_task looks conns[fd] up for descriptors it took from the shared
\* list: they are open connections of its own thread all the while.
PushTargetsOpen == \A f \in Fd : need[f] # {} => conn[f] = "open"

\* A push task is on its way to thread t, or waits there.
TaskPending(t) ==
    \/ watcher = "send_task" /\ notify <= t
    \/ PushTask \in Range(queue[t])
    \/ ready[t] > 0

\* No published change is lost between the lists: a subscriber whose last
\* route is older than the last published one is about to look the hosts up,
\* or its push is taken, or it is listed and its thread has a push task
\* coming - unless make_publish_map passed it over.
UpdateOnItsWay ==
    \A f \in Fd, m \in Mod :
        conn[f] = "open" /\ m \in sub_list[f] /\ seen[f][m] < published[m] =>
            \/ m \in asking[f]
            \/ m \in need[f]
            \/ m \in push_list[f] /\ (f \in skipped \/ TaskPending(home[f]))

\* A published change reaches every subscriber that stays, except one that
\* make_publish_map passed over.
PushDelivered ==
    \A f \in Fd, m \in Mod :
        (conn[f] = "open" /\ m \in sub_list[f] /\ seen[f][m] < published[m]) ~>
            (seen[f][m] >= published[m] \/ conn[f] # "open" \/ f \in skipped \/ crashed)

-----------------------------------------------------------------------------
(* What a comment says, and the code does not keep.                        *)

\* dns_route.cpp:314: what is pushed goes to the clients that subscribed the
\* mod.
PushToSubscribers == \A f \in Fd : need[f] \subseteq sub_list[f]

=============================================================================
