------------------------ MODULE SubscribeListProofs ------------------------
(***************************************************************************)
(* Proofs about SubscribeList, for every set of descriptors and mods,      *)
(* every number of threads and every bound.                                *)
(***************************************************************************)
EXTENDS SubscribeList, FiniteSetTheorems, SequenceTheorems, TLAPS

\* A descriptor in a task queue is a connection accepted for that thread and
\* not yet built: accept() did not return it twice.
Queued ==
    \A t \in Thread, f \in Fd :
        f \in Range(queue[t]) => conn[f] = "accepted" /\ home[f] = t

IndInv == TypeOK /\ BookMatches /\ PushTargetsOpen /\ Queued

-----------------------------------------------------------------------------
\* ThreadQueue::send puts one message behind the others.
LEMMA PostFacts ==
    ASSUME TypeOK, NEW t \in Thread, NEW msg \in Fd \cup {PushTask}, Post(t, msg)
    PROVE  /\ queue' \in [Thread -> Seq(Fd \cup {PushTask})]
           /\ \A u \in Thread : Range(queue'[u]) =
                 IF u = t THEN Range(queue[u]) \cup {msg} ELSE Range(queue[u])
<1>1. queue[t] \in Seq(Fd \cup {PushTask})
    BY DEF TypeOK
<1>2. /\ Append(queue[t], msg) = queue[t] \o <<msg>>
      /\ <<msg>> \in Seq(Fd \cup {PushTask})
      /\ Append(queue[t], msg) \in Seq(Fd \cup {PushTask})
    BY <1>1, AppendIsConcat
<1>3. Range(<<msg>>) = {msg}
    BY DEF Range
<1>4. Range(queue[t] \o <<msg>>) = Range(queue[t]) \cup Range(<<msg>>)
    BY <1>1, <1>2, RangeConcatenation
<1>5. queue' = [queue EXCEPT ![t] = Append(@, msg)]
    BY DEF Post
<1>6. \A u \in Thread : queue'[u] = IF u = t THEN Append(queue[t], msg) ELSE queue[u]
    BY <1>5 DEF TypeOK
<1> QED
    BY <1>2, <1>3, <1>4, <1>5, <1>6 DEF TypeOK

\* A thread that empties its queue keeps as many push tasks as were in it.
LEMMA TasksCounted ==
    ASSUME TypeOK, NEW t \in Thread
    PROVE  LET n == Cardinality({i \in DOMAIN queue[t] : queue[t][i] = PushTask})
           IN  n \in Nat /\ (PushTask \in Range(queue[t]) => n > 0)
<1> DEFINE S == {i \in DOMAIN queue[t] : queue[t][i] = PushTask}
<1>1. queue[t] \in Seq(Fd \cup {PushTask})
    BY DEF TypeOK
<1>2. DOMAIN queue[t] = 1 .. Len(queue[t]) /\ Len(queue[t]) \in Nat
    BY <1>1
<1>3. IsFiniteSet(1 .. Len(queue[t]))
    BY <1>2, FS_Interval
<1>4. IsFiniteSet(S)
    BY <1>2, <1>3, FS_Subset
<1>5. Cardinality(S) \in Nat
    BY <1>4, FS_CardinalityType
<1>6. PushTask \in Range(queue[t]) => S # {}
    BY DEF Range
<1>7. S # {} => Cardinality(S) # 0
    BY <1>4, FS_EmptySet
<1> HIDE DEF S
<1>8. Cardinality(S) \in Nat /\ (PushTask \in Range(queue[t]) => Cardinality(S) > 0)
    BY <1>5, <1>6, <1>7
<1> QED
    BY <1>8 DEF S

-----------------------------------------------------------------------------
\* The first state satisfies the invariant.
LEMMA InitIndInv == Init => IndInv
<1> SUFFICES ASSUME Init PROVE IndInv
    OBVIOUS
<1>1. 0 \in Thread
    BY SubscribeAssumption DEF Thread
<1>2. Range(<<>>) = {}
    BY DEF Range
<1>3. TypeOK
  <2>1. queue \in [Thread -> Seq(Fd \cup {PushTask})]
      BY DEF Init
  <2>2. seen \in [Fd -> [Mod -> Nat \cup {-1}]]
      BY DEF Init
  <2> QED
      BY <1>1, <2>1, <2>2 DEF Init, TypeOK
<1>4. BookMatches /\ PushTargetsOpen
    BY DEF Init, BookMatches, PushTargetsOpen
<1>5. Queued
    BY <1>2 DEF Init, Queued
<1> QED
    BY <1>3, <1>4, <1>5 DEF IndInv

\* Accepting, building and ending connections keeps the invariant: the
\* descriptor is subscribed nowhere before it is closed.
LEMMA ConnectionsIndInv ==
    ASSUME IndInv, Connections
    PROVE  IndInv'
<1>1. PICK f \in Fd : do_accept(f) \/ clean_conn(f) \/ close(f) \/ \E m \in Mod : unsubscribe(f, m)
    BY DEF Connections
<1>2. CASE do_accept(f)
  <2>1. index \in Thread /\ f \in Fd \cup {PushTask} /\ Post(index, f) /\ TypeOK
      BY <1>2 DEF do_accept, IndInv, TypeOK
  <2>2. /\ queue' \in [Thread -> Seq(Fd \cup {PushTask})]
        /\ \A u \in Thread : Range(queue'[u]) =
              IF u = index THEN Range(queue[u]) \cup {f} ELSE Range(queue[u])
      BY <2>1, PostFacts
  <2>3. index' \in Thread
      BY <1>2, <2>1, SubscribeAssumption DEF do_accept, Thread
  <2>4. TypeOK'
      BY <1>2, <2>1, <2>2, <2>3 DEF do_accept, TypeOK, watch
  <2>5. BookMatches' /\ PushTargetsOpen'
      BY <1>2 DEF do_accept, IndInv, TypeOK, BookMatches, PushTargetsOpen
  <2>6. Queued'
      BY <1>2, <2>1, <2>2 DEF do_accept, IndInv, TypeOK, Queued
  <2> QED
      BY <2>4, <2>5, <2>6 DEF IndInv
<1>3. CASE clean_conn(f)
  <2>1. need[f] = {}
      BY <1>3 DEF clean_conn, InLoop
  <2>2. TypeOK'
      BY <1>3 DEF clean_conn, IndInv, TypeOK, threads, watch
  <2>3. BookMatches' /\ PushTargetsOpen'
      BY <1>3, <2>1 DEF clean_conn, IndInv, TypeOK, BookMatches, PushTargetsOpen
  <2>4. Queued'
      BY <1>3 DEF clean_conn, IndInv, TypeOK, Queued, threads
  <2> QED
      BY <2>2, <2>3, <2>4 DEF IndInv
<1>4. CASE close(f)
  <2>1. TypeOK'
      BY <1>4 DEF close, IndInv, TypeOK, threads, watch
  <2>2. BookMatches' /\ PushTargetsOpen'
      BY <1>4 DEF close, IndInv, TypeOK, BookMatches, PushTargetsOpen
  <2>3. Queued'
      BY <1>4 DEF close, IndInv, TypeOK, Queued, threads
  <2> QED
      BY <2>1, <2>2, <2>3 DEF IndInv
<1>5. ASSUME NEW m \in Mod, unsubscribe(f, m)
      PROVE  IndInv'
  <2>1. TypeOK'
      BY <1>5 DEF unsubscribe, IndInv, TypeOK, threads, watch
  <2>2. BookMatches' /\ PushTargetsOpen'
      BY <1>5 DEF unsubscribe, IndInv, TypeOK, BookMatches, PushTargetsOpen
  <2>3. Queued'
      BY <1>5 DEF unsubscribe, IndInv, Queued, threads
  <2> QED
      BY <2>1, <2>2, <2>3 DEF IndInv
<1> QED
    BY <1>1, <1>2, <1>3, <1>4, <1>5

\* get_route and the sends of push_change_task keep it.
LEMMA RoutesIndInv ==
    ASSUME IndInv, Routes
    PROVE  IndInv'
<1>1. PICK f \in Fd, m \in Mod : subscribe(f, m) \/ get_hosts(f, m) \/ push(f, m)
    BY DEF Routes
<1>2. CASE subscribe(f, m)
  <2>1. TypeOK'
      BY <1>2 DEF subscribe, IndInv, TypeOK, threads, watch
  <2>2. BookMatches'
      BY <1>2 DEF subscribe, IndInv, TypeOK, BookMatches
  <2>3. PushTargetsOpen' /\ Queued'
      BY <1>2 DEF subscribe, IndInv, PushTargetsOpen, Queued, threads
  <2> QED
      BY <2>1, <2>2, <2>3 DEF IndInv
<1>3. CASE get_hosts(f, m)
  <2>1. TypeOK'
      BY <1>3 DEF get_hosts, Send, IndInv, TypeOK, threads, watch
  <2>2. BookMatches' /\ PushTargetsOpen' /\ Queued'
      BY <1>3 DEF get_hosts, IndInv, BookMatches, PushTargetsOpen, Queued, threads
  <2> QED
      BY <2>1, <2>2 DEF IndInv
<1>4. CASE push(f, m)
  <2>1. TypeOK'
      BY <1>4 DEF push, Send, IndInv, TypeOK, threads, watch
  <2>2. BookMatches' /\ Queued'
      BY <1>4 DEF push, IndInv, BookMatches, Queued, threads
  <2>3. PushTargetsOpen'
      BY <1>4 DEF push, IndInv, TypeOK, PushTargetsOpen
  <2> QED
      BY <2>1, <2>2, <2>3 DEF IndInv
<1> QED
    BY <1>1, <1>2, <1>3, <1>4

\* The messages of a task queue and the collection of pushes keep it.
LEMMA TasksIndInv ==
    ASSUME IndInv, Tasks
    PROVE  IndInv'
<1>1. PICK t \in Thread : deal_task_message(t) \/ make_publish_map(t) \/ BadIterator(t)
    BY DEF Tasks
<1>2. CASE deal_task_message(t)
  <2>1. Cardinality({i \in DOMAIN queue[t] : queue[t][i] = PushTask}) \in Nat
      BY TasksCounted DEF IndInv
  <2>2. TypeOK'
      BY <1>2, <2>1 DEF deal_task_message, IndInv, TypeOK, watch
  <2>3. \A f \in Fd : f \in Range(queue[t]) => conn[f] = "accepted" /\ sub_list[f] = {}
      BY DEF IndInv, Queued, BookMatches
  <2>4. BookMatches'
      BY <1>2, <2>3 DEF deal_task_message, IndInv, TypeOK, BookMatches
  <2>5. PushTargetsOpen'
      BY <1>2 DEF deal_task_message, IndInv, TypeOK, PushTargetsOpen
  <2>6. \A u \in Thread : Range(queue'[u]) = IF u = t THEN {} ELSE Range(queue[u])
    <3>1. Range(<<>>) = {}
        BY DEF Range
    <3> QED
        BY <1>2, <3>1 DEF deal_task_message, IndInv, TypeOK
  <2>7. Queued'
      BY <1>2, <2>6 DEF deal_task_message, IndInv, TypeOK, Queued
  <2> QED
      BY <2>2, <2>4, <2>5, <2>7 DEF IndInv
<1>3. CASE make_publish_map(t)
  <2>1. PICK taken \in SUBSET Matching(t) :
          /\ need' = [f \in Fd |-> IF f \in taken THEN push_list[f] ELSE need[f]]
          /\ push_list' = [f \in Fd |-> IF f \in taken THEN {} ELSE push_list[f]]
          /\ skipped' = (skipped \cup Matching(t)) \ taken
      BY <1>3 DEF make_publish_map
  <2>2. taken \subseteq Fd /\ Matching(t) \subseteq Fd /\ \A f \in taken : conn[f] = "open"
      BY DEF Matching, Online
  <2>3. ready' \in [Thread -> Nat]
      BY <1>3 DEF make_publish_map, IndInv, TypeOK
  <2>4. TypeOK'
      BY <1>3, <2>1, <2>2, <2>3 DEF make_publish_map, IndInv, TypeOK, watch
  <2>5. BookMatches' /\ Queued'
      BY <1>3 DEF make_publish_map, IndInv, BookMatches, Queued
  <2>6. PushTargetsOpen'
      BY <1>3, <2>1, <2>2 DEF make_publish_map, IndInv, TypeOK, PushTargetsOpen
  <2> QED
      BY <2>4, <2>5, <2>6 DEF IndInv
<1>4. CASE BadIterator(t)
    BY <1>4 DEF BadIterator, IndInv, TypeOK, BookMatches, PushTargetsOpen, Queued,
                threads, watch
<1> QED
    BY <1>1, <1>2, <1>3, <1>4

\* The database thread keeps it: it changes neither connections nor
\* subscriptions.
LEMMA WatcherIndInv ==
    ASSUME IndInv, Watcher
    PROVE  IndInv'
<1>1. ASSUME NEW new \in SUBSET Mod PROVE Swapped(new) \in [Mod -> Nat]
    BY <1>1 DEF Swapped, IndInv, TypeOK
<1>2. ASSUME NEW new \in SUBSET Mod, NEW listed \in SUBSET Mod, NewVersion(new, listed)
      PROVE  IndInv'
    BY <1>1, <1>2 DEF NewVersion, IndInv, TypeOK, BookMatches, PushTargetsOpen, Queued, threads
<1>3. ASSUME NEW new \in SUBSET Mod, PeriodicLoad(new)
      PROVE  IndInv'
    BY <1>1, <1>3 DEF PeriodicLoad, IndInv, TypeOK, BookMatches, PushTargetsOpen, Queued,
                      threads, watch
<1>4. CASE publish
  <2>1. 0 \in Thread
      BY SubscribeAssumption DEF Thread
  <2>2. TypeOK'
      BY <1>4, <2>1 DEF publish, IndInv, TypeOK, threads
  <2>3. BookMatches' /\ PushTargetsOpen' /\ Queued'
      BY <1>4 DEF publish, IndInv, BookMatches, PushTargetsOpen, Queued, threads
  <2> QED
      BY <2>2, <2>3 DEF IndInv
<1>5. CASE send_task
  <2>1. notify \in Thread /\ PushTask \in Fd \cup {PushTask} /\ Post(notify, PushTask) /\ TypeOK
      BY <1>5 DEF send_task, IndInv, TypeOK
  <2>2. /\ queue' \in [Thread -> Seq(Fd \cup {PushTask})]
        /\ \A u \in Thread : Range(queue'[u]) =
              IF u = notify THEN Range(queue[u]) \cup {PushTask} ELSE Range(queue[u])
      BY <2>1, PostFacts
  <2>3. notify' \in Thread
      BY <1>5, <2>1, SubscribeAssumption DEF send_task, Thread
  <2>4. TypeOK'
      BY <1>5, <2>1, <2>2, <2>3 DEF send_task, TypeOK
  <2>5. BookMatches' /\ PushTargetsOpen'
      BY <1>5 DEF send_task, IndInv, BookMatches, PushTargetsOpen
  <2>6. Queued'
      BY <1>5, <2>2, SubscribeAssumption DEF send_task, IndInv, Queued
  <2> QED
      BY <2>4, <2>5, <2>6 DEF IndInv
<1> QED
    BY <1>2, <1>3, <1>4, <1>5 DEF Watcher

\* IndInv holds in every state.
LEMMA IndInvHolds == Spec => []IndInv
<1>1. IndInv /\ [Next]_vars => IndInv'
  <2>1. IndInv /\ UNCHANGED vars => IndInv'
      BY DEF vars, threads, watch, IndInv, TypeOK, BookMatches, PushTargetsOpen, Queued
  <2> QED
      BY <2>1, ConnectionsIndInv, RoutesIndInv, TasksIndInv, WatcherIndInv DEF Next
<1> QED
    BY InitIndInv, <1>1, PTL DEF Spec

\* The lists of subscribers agree with the connections, and push tasks send to
\* open connections of their own thread, whatever threads, descriptors and
\* mods there are.
THEOREM SubscribersSafe == Spec => [](TypeOK /\ BookMatches /\ PushTargetsOpen)
<1>1. IndInv => TypeOK /\ BookMatches /\ PushTargetsOpen
    BY DEF IndInv
<1> QED
    BY IndInvHolds, <1>1, PTL

-----------------------------------------------------------------------------
\* What is published was in the table before: swap() precedes publish().
Behind == \A m \in Mod : published[m] <= table[m]

UpdateInv == Behind /\ UpdateOnItsWay

\* A connection that is open after a step of connections was open before, with
\* the same subscriptions, pushes and tasks.
LEMMA ConnectionsUpdate ==
    ASSUME IndInv, UpdateInv, Connections
    PROVE  UpdateInv'
<1>1. PICK f \in Fd : do_accept(f) \/ clean_conn(f) \/ close(f) \/ \E m \in Mod : unsubscribe(f, m)
    BY DEF Connections
<1>2. UNCHANGED <<table, published, watcher, notify, push_list, need, asking, skipped, ready>>
    BY <1>1 DEF do_accept, clean_conn, close, unsubscribe, threads, watch
<1>3. Behind'
    BY <1>2 DEF UpdateInv, Behind
<1>4. /\ conn'[f] # "open"
      /\ \A g \in Fd \ {f} : /\ conn'[g] = conn[g] /\ home'[g] = home[g]
                             /\ sub_list'[g] = sub_list[g] /\ seen'[g] = seen[g]
    BY <1>1 DEF do_accept, clean_conn, close, unsubscribe, IndInv, TypeOK
<1>5. \A t \in Thread : Range(queue[t]) \subseteq Range(queue'[t])
  <2>1. CASE do_accept(f)
    <3>1. index \in Thread /\ f \in Fd \cup {PushTask} /\ Post(index, f) /\ TypeOK
        BY <2>1 DEF do_accept, IndInv, TypeOK
    <3> QED
        BY <3>1, PostFacts
  <2>2. CASE ~do_accept(f)
    <3>1. queue' = queue
        BY <1>1, <2>2 DEF clean_conn, close, unsubscribe, threads
    <3> QED
        BY <3>1
  <2> QED
      BY <2>1, <2>2
<1>6. \A t \in Thread : TaskPending(t) => TaskPending(t)'
    BY <1>2, <1>5 DEF TaskPending
<1>7. \A g \in Fd : home[g] \in Thread
    BY DEF IndInv, TypeOK
<1>8. UpdateOnItsWay'
  <2> SUFFICES ASSUME NEW g \in Fd, NEW m \in Mod,
                      (conn[g] = "open" /\ m \in sub_list[g] /\ seen[g][m] < published[m])'
               PROVE  (\/ m \in asking[g]
                       \/ m \in need[g]
                       \/ m \in push_list[g] /\ (g \in skipped \/ TaskPending(home[g])))'
      BY DEF UpdateOnItsWay
  <2>1. g # f /\ conn[g] = "open" /\ m \in sub_list[g] /\ seen[g][m] < published[m]
      BY <1>2, <1>4
  <2>2. home[g]' = home[g] /\ (TaskPending(home[g]) => TaskPending(home[g])')
      BY <1>4, <1>6, <1>7, <2>1 DEF TaskPending
  <2> QED
      BY <1>2, <2>1, <2>2 DEF UpdateInv, UpdateOnItsWay
<1> QED
    BY <1>3, <1>8 DEF UpdateInv

\* get_hosts and push send what the table has, which is what was published or
\* newer; a new subscription is followed by its look-up.
LEMMA RoutesUpdate ==
    ASSUME IndInv, UpdateInv, Routes
    PROVE  UpdateInv'
<1>1. PICK f \in Fd, m \in Mod : subscribe(f, m) \/ get_hosts(f, m) \/ push(f, m)
    BY DEF Routes
<1>2. UNCHANGED <<conn, home, table, published, watcher, notify, push_list, skipped, ready, queue>>
    BY <1>1 DEF subscribe, get_hosts, push, threads, watch
<1>3. Behind'
    BY <1>2 DEF UpdateInv, Behind
<1>4. \A g \in Fd : TaskPending(home[g])' <=> TaskPending(home[g])
    BY <1>2 DEF TaskPending
<1> SUFFICES ASSUME NEW g \in Fd, NEW n \in Mod,
                    (conn[g] = "open" /\ n \in sub_list[g] /\ seen[g][n] < published[n])'
             PROVE  (\/ n \in asking[g]
                     \/ n \in need[g]
                     \/ n \in push_list[g] /\ (g \in skipped \/ TaskPending(home[g])))'
    BY <1>3 DEF UpdateInv, UpdateOnItsWay
<1>5. CASE subscribe(f, m)
  <2>1. UNCHANGED <<need, seen>> /\ asking[f] = {}
      BY <1>5 DEF subscribe, InLoop
  <2>2. asking' = [asking EXCEPT ![f] = {m}] /\ sub_list' = [sub_list EXCEPT ![f] = @ \cup {m}]
      BY <1>5 DEF subscribe
  <2>3. CASE g = f /\ n = m
      BY <2>2, <2>3 DEF IndInv, TypeOK
  <2>4. CASE g # f \/ n # m
    <3>1. n \in sub_list[g] /\ (n \in asking[g] => n \in asking'[g])
        BY <2>1, <2>2, <2>4 DEF IndInv, TypeOK
    <3> QED
        BY <1>2, <1>4, <2>1, <3>1 DEF UpdateInv, UpdateOnItsWay
  <2> QED
      BY <2>3, <2>4
<1>6. CASE get_hosts(f, m) \/ push(f, m)
  <2>1. sub_list' = sub_list /\ seen' = [seen EXCEPT ![f][m] = table[m]]
      BY <1>6 DEF get_hosts, push, Send
  <2>2. /\ \A h \in Fd, k \in Mod : k \in asking[h] => k \in asking'[h] \/ (h = f /\ k = m)
        /\ \A h \in Fd, k \in Mod : k \in need[h] => k \in need'[h] \/ (h = f /\ k = m)
      BY <1>6 DEF get_hosts, push, IndInv, TypeOK
  <2>3. seen'[f][m] = table[m] /\ \A h \in Fd, k \in Mod : (h # f \/ k # m) => seen'[h][k] = seen[h][k]
      BY <2>1 DEF IndInv, TypeOK
  <2>4. ~(g = f /\ n = m)
      BY <1>2, <2>3 DEF UpdateInv, Behind, IndInv, TypeOK
  <2> QED
      BY <1>2, <1>4, <2>1, <2>2, <2>3, <2>4 DEF UpdateInv, UpdateOnItsWay
<1> QED
    BY <1>1, <1>5, <1>6

\* A thread that takes its queue keeps the push tasks in it; one that runs a
\* push task takes what is listed for its connections or passes them over.
LEMMA TasksUpdate ==
    ASSUME IndInv, UpdateInv, Tasks
    PROVE  UpdateInv'
<1>1. PICK t \in Thread : deal_task_message(t) \/ make_publish_map(t) \/ BadIterator(t)
    BY DEF Tasks
<1>2. UNCHANGED <<home, table, published, watcher, notify, seen, asking>>
    BY <1>1 DEF deal_task_message, make_publish_map, BadIterator, threads, watch
<1>3. Behind'
    BY <1>2 DEF UpdateInv, Behind
<1> SUFFICES ASSUME NEW g \in Fd, NEW n \in Mod,
                    (conn[g] = "open" /\ n \in sub_list[g] /\ seen[g][n] < published[n])'
             PROVE  (\/ n \in asking[g]
                     \/ n \in need[g]
                     \/ n \in push_list[g] /\ (g \in skipped \/ TaskPending(home[g])))'
    BY <1>3 DEF UpdateInv, UpdateOnItsWay
<1>4. home[g] \in Thread
    BY DEF IndInv, TypeOK
<1>5. CASE deal_task_message(t)
  <2>1. /\ conn' = [f \in Fd |-> IF f \in Range(queue[t]) THEN "open" ELSE conn[f]]
        /\ sub_list' = [f \in Fd |-> IF f \in Range(queue[t]) THEN {} ELSE sub_list[f]]
        /\ UNCHANGED <<push_list, need, skipped>>
      BY <1>5 DEF deal_task_message
  <2>2. g \notin Range(queue[t]) /\ conn[g] = "open" /\ n \in sub_list[g]
      BY <2>1
  <2>3. TaskPending(home[g]) => TaskPending(home[g])'
    <3> DEFINE k == Cardinality({i \in DOMAIN queue[t] : queue[t][i] = PushTask})
    <3>1. k \in Nat /\ (PushTask \in Range(queue[t]) => k > 0)
        BY TasksCounted DEF IndInv
    <3>2. /\ ready[t] = 0
          /\ ready' = [ready EXCEPT ![t] = k]
          /\ queue' = [queue EXCEPT ![t] = <<>>]
        BY <1>5 DEF deal_task_message
    <3> HIDE DEF k
    <3>3. CASE home[g] = t
        BY <1>2, <3>1, <3>2, <3>3 DEF TaskPending, IndInv, TypeOK
    <3>4. CASE home[g] # t
        BY <1>2, <1>4, <3>2, <3>4 DEF TaskPending, IndInv, TypeOK
    <3> QED
        BY <3>3, <3>4
  <2> QED
      BY <1>2, <2>1, <2>2, <2>3 DEF UpdateInv, UpdateOnItsWay
<1>6. CASE make_publish_map(t)
  <2>1. PICK taken \in SUBSET Matching(t) :
          /\ need' = [f \in Fd |-> IF f \in taken THEN push_list[f] ELSE need[f]]
          /\ push_list' = [f \in Fd |-> IF f \in taken THEN {} ELSE push_list[f]]
          /\ skipped' = (skipped \cup Matching(t)) \ taken
      BY <1>6 DEF make_publish_map
  <2>2. conn' = conn /\ sub_list' = sub_list /\ queue' = queue
      BY <1>6 DEF make_publish_map
  <2>3. CASE home[g] = t
    <3>1. need[g] = {}
        BY <1>6, <2>3 DEF make_publish_map, InLoop
    <3>2. n \in asking[g] \/ n \in push_list[g]
        BY <1>2, <2>2, <3>1 DEF UpdateInv, UpdateOnItsWay
    <3>3. n \in push_list[g] => g \in Matching(t)
        BY <2>2, <2>3 DEF Matching, Online
    <3> QED
        BY <1>2, <2>1, <3>2, <3>3
  <2>4. CASE home[g] # t
    <3>1. g \notin taken
        BY <2>4 DEF Matching, Online
    <3>2. ready'[home[g]] = ready[home[g]]
        BY <1>4, <1>6, <2>4 DEF make_publish_map, IndInv, TypeOK
    <3>3. TaskPending(home[g]) => TaskPending(home[g])'
        BY <1>2, <2>2, <3>2 DEF TaskPending
    <3> QED
        BY <1>2, <2>1, <2>2, <3>1, <3>3 DEF UpdateInv, UpdateOnItsWay
  <2> QED
      BY <2>3, <2>4
<1>7. CASE BadIterator(t)
    BY <1>2, <1>7 DEF BadIterator, UpdateInv, UpdateOnItsWay, TaskPending, threads
<1> QED
    BY <1>1, <1>5, <1>6, <1>7

\* publish() lists every subscriber before the first thread is notified, and
\* send_task notifies every thread.
LEMMA WatcherUpdate ==
    ASSUME IndInv, UpdateInv, Watcher
    PROVE  UpdateInv'
<1>1. ASSUME NEW new \in SUBSET Mod
      PROVE  \A m \in Mod : Swapped(new)[m] \in Nat /\ table[m] <= Swapped(new)[m]
    BY <1>1 DEF Swapped, IndInv, TypeOK
<1>2. ASSUME NEW new \in SUBSET Mod,
             PeriodicLoad(new) \/ \E listed \in SUBSET Mod : NewVersion(new, listed)
      PROVE  UpdateInv'
  <2>1. /\ table' = Swapped(new)
        /\ UNCHANGED <<conn, home, sub_list, push_list, need, asking, queue, ready, notify,
                       published, seen, skipped>>
        /\ watcher = "sleep"
      BY <1>2 DEF PeriodicLoad, NewVersion, threads, watch
  <2>2. Behind'
    <3> SUFFICES ASSUME NEW m \in Mod PROVE published[m] <= table'[m]
        BY <2>1 DEF Behind
    <3>1. table'[m] \in Nat /\ table[m] <= table'[m]
        BY <1>1, <2>1
    <3>2. table[m] \in Nat /\ published[m] \in Nat /\ published[m] <= table[m]
        BY DEF UpdateInv, Behind, IndInv, TypeOK
    <3> QED
        BY <3>1, <3>2
  <2>3. \A g \in Fd : TaskPending(home[g]) => TaskPending(home[g])'
      BY <2>1 DEF TaskPending
  <2>4. UpdateOnItsWay'
      BY <2>1, <2>3 DEF UpdateInv, UpdateOnItsWay
  <2> QED
      BY <2>2, <2>4 DEF UpdateInv
<1>3. CASE publish
  <2>1. /\ push_list' = [f \in Fd |-> push_list[f] \cup {m \in changes : f \in book_list[m]}]
        /\ published' = [m \in Mod |-> IF m \in changes THEN table[m] ELSE published[m]]
        /\ watcher' = "send_task" /\ notify' = 0
        /\ UNCHANGED <<conn, home, sub_list, need, asking, queue, ready, table, seen>>
      BY <1>3 DEF publish, threads
  <2>2. Behind'
      BY <2>1 DEF UpdateInv, Behind, IndInv, TypeOK
  <2>3. \A g \in Fd : TaskPending(home[g])'
    <3>1. \A g \in Fd : home[g] \in Thread
        BY DEF IndInv, TypeOK
    <3> QED
        BY <2>1, <3>1 DEF TaskPending, Thread
  <2>4. UpdateOnItsWay'
    <3> SUFFICES ASSUME NEW g \in Fd, NEW n \in Mod,
                        (conn[g] = "open" /\ n \in sub_list[g] /\ seen[g][n] < published[n])'
                 PROVE  (n \in asking[g] \/ n \in need[g] \/ n \in push_list[g])'
        BY <2>3 DEF UpdateOnItsWay
    <3>1. CASE n \in changes
      <4>1. g \in book_list[n]
          BY <2>1 DEF IndInv, BookMatches
      <4> QED
          BY <2>1, <3>1, <4>1
    <3>2. CASE n \notin changes
      <4>1. seen[g][n] < published[n]
          BY <2>1, <3>2
      <4> QED
          BY <2>1, <4>1 DEF UpdateInv, UpdateOnItsWay
    <3> QED
        BY <3>1, <3>2
  <2> QED
      BY <2>2, <2>4 DEF UpdateInv
<1>4. CASE send_task
  <2>1. notify \in Thread /\ PushTask \in Fd \cup {PushTask} /\ Post(notify, PushTask) /\ TypeOK
      BY <1>4 DEF send_task, IndInv, TypeOK
  <2>2. \A u \in Thread : Range(queue'[u]) =
           IF u = notify THEN Range(queue[u]) \cup {PushTask} ELSE Range(queue[u])
      BY <2>1, PostFacts
  <2>3. UNCHANGED <<conn, home, sub_list, push_list, need, asking, ready, table, published,
                    seen, skipped>>
      BY <1>4 DEF send_task
  <2>4. Behind'
      BY <2>3 DEF UpdateInv, Behind
  <2>5. ASSUME NEW u \in Thread, TaskPending(u)
        PROVE  TaskPending(u)'
    <3>1. CASE u = notify
        BY <2>2, <3>1 DEF TaskPending
    <3>2. CASE u # notify /\ watcher = "send_task" /\ notify <= u
      <4>1. notify + 1 <= u /\ notify + 1 < NumThreads
          BY <2>1, <3>2, SubscribeAssumption DEF Thread
      <4>2. notify' = notify + 1 /\ watcher' = watcher
          BY <1>4, <4>1 DEF send_task
      <4> QED
          BY <3>2, <4>1, <4>2 DEF TaskPending
    <3>3. CASE PushTask \in Range(queue[u]) \/ ready[u] > 0
        BY <2>2, <2>3, <3>3 DEF TaskPending
    <3> QED
        BY <2>5, <3>1, <3>2, <3>3 DEF TaskPending
  <2>6. \A g \in Fd : home[g] \in Thread /\ home'[g] = home[g]
      BY <2>3 DEF IndInv, TypeOK
  <2>7. \A g \in Fd : TaskPending(home[g]) => TaskPending(home[g])'
      BY <2>3, <2>5, <2>6 DEF TaskPending
  <2>8. UpdateOnItsWay'
      BY <2>3, <2>7 DEF UpdateInv, UpdateOnItsWay
  <2> QED
      BY <2>4, <2>8 DEF UpdateInv
<1> QED
    BY <1>2, <1>3, <1>4 DEF Watcher

\* No published change is lost on the way to a subscriber, in any interleaving
\* of the handlers, the push tasks, new and ending connections and the database
\* thread, for any number of threads.
THEOREM UpdatesSafe == Spec => []UpdateOnItsWay
<1>1. Init => UpdateInv
    BY DEF Init, UpdateInv, Behind, UpdateOnItsWay
<1>2. IndInv /\ UpdateInv /\ [Next]_vars => UpdateInv'
  <2>1. UpdateInv /\ UNCHANGED vars => UpdateInv'
      BY DEF vars, threads, watch, UpdateInv, Behind, UpdateOnItsWay, TaskPending
  <2> QED
      BY <2>1, ConnectionsUpdate, RoutesUpdate, TasksUpdate, WatcherUpdate DEF Next
<1>3. UpdateInv => UpdateOnItsWay
    BY DEF UpdateInv
<1> QED
    BY IndInvHolds, <1>1, <1>2, <1>3, PTL DEF Spec

=============================================================================
