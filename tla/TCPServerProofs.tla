--------------------------- MODULE TCPServerProofs --------------------------
(***************************************************************************)
(* Proofs about TCPServer: who owns a descriptor, where the buffers are    *)
(* and how far the limit can be passed, for any number of threads,         *)
(* descriptors and sizes of buffers.                                       *)
(***************************************************************************)
EXTENDS TCPServer, FiniteSetTheorems, WellFoundedInduction, TLAPS

-----------------------------------------------------------------------------
(* Memory: what one more buffer adds.                                       *)

\* Induction over the naturals, for a set instead of a predicate.
LEMMA SetInduction ==
    ASSUME NEW T, 0 \in T, \A k \in Nat : k \in T => k + 1 \in T
    PROVE  \A k \in Nat : k \in T
<1> DEFINE B == {k \in Nat : k \notin T}
<1> SUFFICES ASSUME B # {} PROVE FALSE
    OBVIOUS
<1> DEFINE R == {ss \in Nat \X Nat : ss[1] < ss[2]}
<1>0. IsWellFoundedOn(R, Nat)
    BY NatLessThanWellFounded, Zenon DEF OpToRel
<1> HIDE DEF R
<1>1. PICK x \in B : \A y \in B : ~(<<y, x>> \in R)
    BY <1>0, WFMin
<1>2. \A y \in B : ~(y < x)
    BY <1>1 DEF R
<1>3. x \in Nat /\ x \notin T /\ x # 0
    OBVIOUS
<1>4. x - 1 \in Nat /\ x - 1 < x
    BY <1>3
<1>5. x - 1 \in T
    BY <1>2, <1>4
<1> QED
    BY <1>3, <1>4, <1>5

\* The sums of Memory, as a function from 0 to a class.
IsSum(f, n, m) ==
    /\ f \in [0 .. m -> Nat] /\ f[0] = 0
    /\ \A c \in 1 .. m : f[c] = f[c - 1] + Size[c] * n[c]

\* There is such a function, so Memory is one of its values.
LEMMA SumExists ==
    ASSUME NEW n \in [Class -> Nat]
    PROVE  \E f : IsSum(f, n, NumClasses) /\ Memory(n) = f[NumClasses]
<1> NumClasses \in Nat /\ Size \in [Class -> Nat]
    BY ServerAssumption
<1> DEFINE T == {m \in Nat : m <= NumClasses => \E f : IsSum(f, n, m)}
<1>1. 0 \in T
  <2> DEFINE z == [c \in 0 .. 0 |-> 0]
  <2>1. IsSum(z, n, 0)
      BY DEF IsSum
  <2> QED
      BY <2>1
<1>2. ASSUME NEW m \in Nat, m \in T PROVE m + 1 \in T
  <2> SUFFICES ASSUME m + 1 <= NumClasses PROVE \E f : IsSum(f, n, m + 1)
      OBVIOUS
  <2>1. PICK f : IsSum(f, n, m)
      BY <1>2
  <2> DEFINE g == [c \in 0 .. m + 1 |-> IF c = m + 1 THEN f[m] + Size[m + 1] * n[m + 1] ELSE f[c]]
  <2>2. m + 1 \in Class /\ Size[m + 1] \in Nat /\ n[m + 1] \in Nat /\ f[m] \in Nat
      BY <2>1 DEF Class, IsSum
  <2>3. Size[m + 1] * n[m + 1] \in Nat
      BY <2>2
  <2>4. g \in [0 .. m + 1 -> Nat]
      BY <2>1, <2>2, <2>3 DEF IsSum
  <2>5. ASSUME NEW c \in 1 .. m + 1 PROVE g[c] = g[c - 1] + Size[c] * n[c]
    <3>1. c - 1 \in 0 .. m /\ g[c - 1] = f[c - 1]
        OBVIOUS
    <3>2. CASE c = m + 1
        BY <3>1, <3>2
    <3>3. CASE c # m + 1
        BY <2>1, <3>1, <3>3 DEF IsSum
    <3> QED
        BY <3>2, <3>3
  <2>6. g[0] = 0
      BY <2>1 DEF IsSum
  <2> HIDE DEF g
  <2>7. IsSum(g, n, m + 1)
      BY <2>4, <2>5, <2>6 DEF IsSum
  <2> QED
      BY <2>7
<1> HIDE DEF T
<1>3. NumClasses \in T
    BY <1>1, <1>2, SetInduction
<1>4. PICK f : IsSum(f, n, NumClasses)
    BY <1>3 DEF T
<1> DEFINE E(h) == [c \in 0 .. NumClasses |-> IF c = 0 THEN 0 ELSE h[c - 1] + Size[c] * n[c]]
           u == CHOOSE h : h = E(h)
<1>5. f = E(f)
    BY <1>4 DEF IsSum
<1>6. u = E(u)
    BY <1>5
<1>7. Memory(n) = u[NumClasses]
    BY DEF Memory
<1> HIDE DEF u
<1>8. u \in [0 .. NumClasses -> Nat]
  <2> DEFINE V == {m \in Nat : m <= NumClasses => u[m] = f[m]}
  <2>1. 0 \in V
      BY <1>4, <1>6 DEF IsSum
  <2>2. ASSUME NEW m \in Nat, m \in V PROVE m + 1 \in V
    <3> SUFFICES ASSUME m + 1 <= NumClasses PROVE u[m + 1] = f[m + 1]
        OBVIOUS
    <3>1. u[m + 1] = u[m] + Size[m + 1] * n[m + 1]
        BY <1>6
    <3>2. f[m + 1] = f[m] + Size[m + 1] * n[m + 1]
        BY <1>4 DEF IsSum
    <3> QED
        BY <2>2, <3>1, <3>2
  <2> HIDE DEF V
  <2>3. \A m \in Nat : m \in V
      BY <2>1, <2>2, SetInduction
  <2>4. \A m \in 0 .. NumClasses : u[m] = f[m]
      BY <2>3 DEF V
  <2> QED
      BY <1>4, <1>6, <2>4 DEF IsSum
<1>9. IsSum(u, n, NumClasses)
    BY <1>6, <1>8 DEF IsSum
<1> QED
    BY <1>7, <1>9

\* One more buffer of class c is Size[c] more memory.
LEMMA MemoryAdds ==
    ASSUME NEW n \in [Class -> Nat], NEW k \in [Class -> Nat], NEW c \in Class,
           k[c] = n[c] + 1, \A d \in Class : d # c => k[d] = n[d]
    PROVE  Memory(n) \in Nat /\ Memory(k) = Memory(n) + Size[c]
<1> NumClasses \in Nat /\ Size \in [Class -> Nat] /\ c \in 1 .. NumClasses
    BY ServerAssumption DEF Class
<1>1. PICK f : IsSum(f, n, NumClasses) /\ Memory(n) = f[NumClasses]
    BY SumExists
<1>2. PICK g : IsSum(g, k, NumClasses) /\ Memory(k) = g[NumClasses]
    BY SumExists
<1> DEFINE V == {m \in Nat : m <= NumClasses => g[m] = f[m] + IF m < c THEN 0 ELSE Size[c]}
<1>3. 0 \in V
    BY <1>1, <1>2 DEF IsSum
<1>4. ASSUME NEW m \in Nat, m \in V PROVE m + 1 \in V
  <2> SUFFICES ASSUME m + 1 <= NumClasses
               PROVE  g[m + 1] = f[m + 1] + IF m + 1 < c THEN 0 ELSE Size[c]
      OBVIOUS
  <2>1. m + 1 \in Class /\ m + 1 \in 1 .. NumClasses /\ (m + 1) - 1 = m
      BY DEF Class
  <2>2. g[m + 1] = g[m] + Size[m + 1] * k[m + 1] /\ f[m + 1] = f[m] + Size[m + 1] * n[m + 1]
      BY <1>1, <1>2, <2>1 DEF IsSum
  <2>3. g[m] = f[m] + IF m < c THEN 0 ELSE Size[c]
      BY <1>4
  <2>4. g[m] \in Nat /\ f[m] \in Nat /\ Size[m + 1] \in Nat /\ n[m + 1] \in Nat /\ Size[c] \in Nat
      BY <1>1, <1>2, <2>1 DEF IsSum
  <2>5. CASE m + 1 = c
    <3>1. Size[c] * (n[c] + 1) = Size[c] * n[c] + Size[c]
        BY <2>4, <2>5
    <3>2. Size[c] * n[c] \in Nat
        BY <2>4, <2>5
    <3> QED
        BY <2>2, <2>3, <2>4, <2>5, <3>1, <3>2
  <2>6. CASE m + 1 # c
    <3>1. k[m + 1] = n[m + 1] /\ Size[m + 1] * n[m + 1] \in Nat
        BY <2>1, <2>4, <2>6
    <3> QED
        BY <2>2, <2>3, <2>4, <2>6, <3>1
  <2> QED
      BY <2>5, <2>6
<1> HIDE DEF V
<1>5. NumClasses \in V
    BY <1>3, <1>4, SetInduction
<1>6. g[NumClasses] = f[NumClasses] + Size[c] /\ f[NumClasses] \in Nat
    BY <1>1, <1>5 DEF V, IsSum
<1> QED
    BY <1>1, <1>2, <1>6

-----------------------------------------------------------------------------
(* Held: what changes when one buffer changes hands.                        *)

Count(f, S, v) == Cardinality({y \in S : f[y] = v})

Is(a, c) == IF a = c THEN 1 ELSE 0

\* f and g differ at most at x.
SameBut(f, g, S, x) == \A y \in S : y # x => g[y] = f[y]

\* What one assignment does to the number of places with value v.
LEMMA CountChanges ==
    ASSUME NEW S, IsFiniteSet(S), NEW f, NEW g, NEW x \in S, NEW v, SameBut(f, g, S, x)
    PROVE  /\ Count(f, S, v) \in Nat /\ Count(g, S, v) \in Nat
           /\ Count(g, S, v) + Is(f[x], v) = Count(f, S, v) + Is(g[x], v)
<1> DEFINE R == {y \in S : y # x /\ f[y] = v}
           F == {y \in S : f[y] = v}
           G == {y \in S : g[y] = v}
<1>1. IsFiniteSet(R) /\ IsFiniteSet(F) /\ IsFiniteSet(G)
    BY FS_Subset
<1>2. Cardinality(R) \in Nat /\ Cardinality(F) \in Nat /\ Cardinality(G) \in Nat
    BY <1>1, FS_CardinalityType
<1>3. Cardinality(R \cup {x}) = Cardinality(R) + 1
    BY <1>1, FS_AddElement
<1>4. F = IF f[x] = v THEN R \cup {x} ELSE R
    OBVIOUS
<1>5. G = IF g[x] = v THEN R \cup {x} ELSE R
    BY DEF SameBut
<1> HIDE DEF R, F, G
<1>6. Cardinality(F) = Cardinality(R) + IF f[x] = v THEN 1 ELSE 0
    BY <1>2, <1>3, <1>4
<1>7. Cardinality(G) = Cardinality(R) + IF g[x] = v THEN 1 ELSE 0
    BY <1>2, <1>3, <1>5
<1>8. Cardinality(F) \in Nat /\ Cardinality(G) \in Nat
      /\ Cardinality(G) + (IF f[x] = v THEN 1 ELSE 0) = Cardinality(F) + (IF g[x] = v THEN 1 ELSE 0)
    BY <1>2, <1>6, <1>7
<1> QED
    BY <1>8 DEF F, G, Count, Is

-----------------------------------------------------------------------------
(* The inductive invariant.                                                 *)

\* What a thread's step says about the rest of its state.
Steps ==
    \A t \in Thread :
      /\ act[t].op \notin {"idle", "tasks"} => act[t].fd \in ConnFd
      /\ act[t].old # 0 => act[t].op \in {"parse", "first", "body", "pop", "clean"}
      /\ act[t].op \in {"parse", "head", "first", "body", "pop", "clean"} => act[t].fd \in evs[t]
      /\ act[t].op \notin {"tasks", "build"} => tasks[t] = <<>>

\* Without a pool nothing is queued, and only thread 0 works, and not in accept().
NoPool ==
    thread_cnt = 0 =>
      /\ \A t \in Thread : /\ queue[t] = <<>> /\ tasks[t] = <<>> /\ evfd[t] = 0
                           /\ t # 0 => act[t].op = "idle"
      /\ main = "accept" => act[0].op = "idle"
      /\ waiting <= 1

\* Descriptor fd is at position i of place k of thread t.
InPlace(k, t, i, fd) ==
    \/ k = "queue" /\ i \in 1 .. Len(queue[t]) /\ queue[t][i] = fd
    \/ k = "tasks" /\ i \in 1 .. Len(tasks[t]) /\ tasks[t][i] = fd
    \/ k = "evs" /\ i = 0 /\ fd \in evs[t]
    \/ k = "act" /\ i = 0 /\ fd \in InHand(t)

Unique ==
    \A fd : \A t, u \in Thread : \A k, l, i, j :
       InPlace(k, t, i, fd) /\ InPlace(l, u, j, fd) => k = l /\ t = u /\ i = j

Covered == \A fd : fd \in opened <=> \E t \in Thread : \E k, i : InPlace(k, t, i, fd)

Counted ==
    /\ \A fd : fd \in conns <=> \E t \in Thread : fd \in evs[t]
    /\ curr_conns = Cardinality(conns)

\* The lowest free descriptor is given out: none is above the most there were.
LowFds == \A fd \in opened : fd <= peak + OtherFds + 2

TypeInv == TypeOK /\ backlog <= arrived

Inv == TypeInv /\ Steps /\ NoPool /\ Unique /\ Covered /\ Counted /\ LowFds /\ LimitsHold

-----------------------------------------------------------------------------
(* The constants.                                                           *)

\* Sets of threads and of descriptors are finite, and 0 is a thread.
LEMMA Constants ==
    /\ NumThreads \in Nat \ {0} /\ MaxConns \in Nat \ {0} /\ OtherFds \in Nat /\ FdLimit \in Nat
    /\ IsFiniteSet(Thread) /\ IsFiniteSet(ConnFd) /\ 0 \in Thread
    /\ \A fd \in ConnFd : fd \in Nat /\ fd >= 3
<1>1. NumThreads \in Nat \ {0} /\ OtherFds \in Nat /\ FdLimit \in Nat /\ MaxConns \in Nat \ {0}
    BY ServerAssumption
<1>2. NumThreads - 1 \in Int /\ FirstFd \in Int /\ FdLimit - 1 \in Int
    BY <1>1 DEF FirstFd
<1>3. IsFiniteSet(Thread) /\ IsFiniteSet(ConnFd)
    BY <1>2, FS_Interval DEF Thread, ConnFd
<1> QED
    BY <1>1, <1>3 DEF Thread, ConnFd, FirstFd

-----------------------------------------------------------------------------
(* The type invariant.                                                      *)

\* The record of what a thread does.
LEMMA ActTypes ==
    /\ Idle \in Act /\ Doing("tasks", 0) \in Act
    /\ \A fd \in ConnFd : /\ Doing("build", fd) \in Act /\ Doing("clean", fd) \in Act
                          /\ Doing("head", fd) \in Act /\ Doing("pop", fd) \in Act
                          /\ Doing("ibuf", fd) \in Act
    /\ \A fd \in ConnFd, old \in Class \cup {0} :
         \A op \in {"parse", "first", "body", "pop", "clean"} : [op |-> op, fd |-> fd, old |-> old] \in Act
BY DEF Act, Idle, Doing

\* A connection that is being closed is still counted.
LEMMA CleanCounted ==
    ASSUME Inv, NEW t \in Thread, act[t].op = "clean"
    PROVE  act[t].fd \in conns /\ curr_conns \in Nat \ {0} /\ IsFiniteSet(conns)
<1>1. act[t].fd \in conns
    BY DEF Inv, Steps, Counted
<1>2. conns \subseteq ConnFd
    BY DEF Inv, TypeInv, TypeOK
<1>3. IsFiniteSet(conns)
    BY <1>2, Constants, FS_Subset
<1>4. Cardinality(conns) \in Nat /\ Cardinality(conns) # 0
    BY <1>1, <1>3, FS_CardinalityType, FS_EmptySet
<1> QED
    BY <1>1, <1>3, <1>4 DEF Inv, Counted

MemBelow == total_mem < MemLimit \/ total_mem = Memory(Prealloc)

\* The pool after a buffer was taken or given back.
LEMMA PoolTypes ==
    ASSUME TypeOK
    PROVE  /\ \A c \in Class \cup {0} : revert(c) => free' \in [Class -> Nat]
           /\ \A c \in Class, old \in Class \cup {0} :
                Grow(old, c) /\ run = "ok" => /\ free' \in [Class -> Nat] /\ total_mem' \in Nat
                                /\ MemBelow' /\ run' \in {"ok", "exited"}
                                /\ Larger(old, c) \in Class /\ Leftover(old, c) \in Class \cup {0}
<1>0. NumClasses \in Nat /\ Size \in [Class -> Nat]
    BY ServerAssumption
<1>1. ASSUME NEW c \in Class \cup {0}, revert(c) PROVE free' \in [Class -> Nat]
    BY <1>1 DEF TypeOK, revert
<1>2. ASSUME NEW c \in Class, NEW old \in Class \cup {0}, Grow(old, c), run = "ok"
      PROVE  /\ free' \in [Class -> Nat] /\ total_mem' \in Nat /\ run' \in {"ok", "exited"}
             /\ MemBelow'
  <2>0. UNCHANGED total_mem => MemBelow'
      BY DEF TypeOK, MemBelow
  <2>1. CASE old >= c
      BY <1>2, <2>0, <2>1 DEF Grow, TypeOK, pool
  <2>2. CASE ~(old >= c)
    <3>1. alloc_buf(c)
        BY <1>2, <2>2 DEF Grow
    <3>2. free[c] \in Nat /\ Size[c] \in Nat /\ total_mem \in Nat /\ free \in [Class -> Nat]
        BY <1>0 DEF TypeOK
    <3>3. CASE free[c] > 0
        BY <1>2, <2>0, <3>1, <3>2, <3>3 DEF alloc_buf
    <3>4. CASE ~(free[c] > 0) /\ total_mem + Size[c] < MemLimit
        BY <1>2, <3>1, <3>2, <3>4 DEF alloc_buf, MemBelow
    <3>5. CASE ~(free[c] > 0) /\ ~(total_mem + Size[c] < MemLimit)
        BY <1>2, <2>0, <3>1, <3>2, <3>5 DEF alloc_buf, pool
    <3> QED
        BY <3>3, <3>4, <3>5
  <2> QED
      BY <2>1, <2>2
<1>3. ASSUME NEW c \in Class, NEW old \in Class \cup {0}
      PROVE  Larger(old, c) \in Class /\ Leftover(old, c) \in Class \cup {0}
    BY <1>0 DEF Larger, Leftover, Class
<1> QED
    BY <1>1, <1>2, <1>3

\* A step of the main thread or of a peer keeps the types.
LEMMA MainTypes ==
    ASSUME Inv
    PROVE  /\ Connect => TypeInv'
           /\ accept_callback => TypeInv'
           /\ WildPool \/ accept_error => TypeInv'
           /\ \A fd \in ConnFd : PeerCloses(fd) \/ do_accept(fd) => TypeInv'
<1> USE DEF net, count, queues, loops, bufs, pool, add_io_event, del_io_event
<1>0. TypeOK /\ backlog <= arrived
    BY DEF Inv, TypeInv
<1>1. Connect => TypeInv'
    BY <1>0, ServerAssumption DEF Connect, TypeInv, TypeOK
<1>2. accept_callback => TypeInv'
    BY <1>0 DEF accept_callback, TypeInv, TypeOK
<1>3. WildPool \/ accept_error => TypeInv'
    BY <1>0 DEF WildPool, accept_error, TypeInv, TypeOK
<1>4. ASSUME NEW fd \in ConnFd, PeerCloses(fd) PROVE TypeInv'
    BY <1>0, <1>4 DEF PeerCloses, TypeInv, TypeOK
<1>5. ASSUME NEW fd \in ConnFd, do_accept(fd) PROVE TypeInv'
  <2>1. CASE TooMany
      BY <1>0, <1>5, <2>1, ServerAssumption DEF do_accept, TypeInv, TypeOK
  <2>2. CASE ~TooMany
    <3>1. opened' = opened \cup {fd} /\ backlog' = backlog - 1 /\ backlog > 0
          /\ UNCHANGED <<thread_cnt, run, eof, arrived, count, loops, bufs, pool>>
        BY <1>5, <2>2 DEF do_accept
    <3>2. IsFiniteSet(opened') /\ IsFiniteSet(Pending)
        BY <1>0, <3>1, Constants, FS_Subset DEF TypeOK, Pending
    <3>3. Cardinality(opened') \in Nat /\ Cardinality(Pending) \in Nat
        BY <3>2, FS_CardinalityType
    <3>4. peak' \in Nat /\ waiting' \in Nat
      <4>1. /\ peak' = IF Cardinality(opened') > peak THEN Cardinality(opened') ELSE peak
            /\ waiting' = IF Cardinality(Pending) + 1 > waiting THEN Cardinality(Pending) + 1 ELSE waiting
          BY <1>5, <2>2 DEF do_accept
      <4>2. peak \in Nat /\ waiting \in Nat
          BY <1>0 DEF TypeOK
      <4> QED
          BY <3>3, <4>1, <4>2
    <3>5. CASE thread_cnt > 0
      <4>1. send(index, fd) /\ get_thread /\ UNCHANGED <<main, act>> /\ thread_cnt = NumThreads
          BY <1>0, <1>5, <2>2, <3>5, ServerAssumption DEF do_accept, TypeOK
      <4>2. index \in Thread /\ index' \in Thread
          BY <1>0, <4>1, ServerAssumption DEF TypeOK, get_thread, Thread
      <4>3. queue' \in [Thread -> Seq(ConnFd)] /\ evfd' \in [Thread -> Nat]
          BY <1>0, <4>1, <4>2 DEF TypeOK, send
      <4>4. backlog' \in 0 .. MaxArrivals /\ arrived' \in 0 .. MaxArrivals /\ backlog' <= arrived'
          BY <1>0, <3>1, ServerAssumption DEF TypeOK
      <4> QED
          BY <1>0, <3>1, <3>4, <4>1, <4>2, <4>3, <4>4, SMTT(30) DEF TypeInv, TypeOK
    <3>6. CASE ~(thread_cnt > 0)
      <4>1. main' = "loop" /\ act' = [act EXCEPT ![0] = Doing("build", fd)] /\ UNCHANGED <<index, queues>>
          BY <1>5, <2>2, <3>6 DEF do_accept
      <4>2. act' \in [Thread -> Act]
          BY <1>0, <4>1, ActTypes DEF TypeOK
      <4> QED
          BY <1>0, <3>1, <3>4, <4>1, <4>2, ServerAssumption DEF TypeInv, TypeOK
    <3> QED
        BY <3>5, <3>6
  <2> QED
      BY <2>1, <2>2
<1> QED
    BY <1>1, <1>2, <1>3, <1>4, <1>5

\* What follows the header, or the body, in send_message.
NextOp(t) ==
    IF act[t].op # "head" THEN "pop" ELSE IF act[t].fd \in olen THEN "body" ELSE "first"

\* A thread's step keeps the types.
LEMMA ThreadTypes ==
    ASSUME Inv, NEW t \in Thread
    PROVE  /\ deal_task_message(t) \/ Continue(t) => TypeInv'
           /\ \A fd \in ConnFd : read_data(t, fd) \/ read_refused(t, fd) \/ do_write(t, fd) => TypeInv'
<1> USE DEF net, count, queues, loops, bufs, pool, add_io_event, del_io_event
<1>0. TypeOK /\ backlog <= arrived
    BY DEF Inv, TypeInv
<1>a. act[t] \in Act /\ act[t].fd \in ConnFd \cup {0} /\ act[t].old \in Class \cup {0}
    BY <1>0 DEF TypeOK, Act
<1>b. act[t].op \notin {"idle", "tasks"} => act[t].fd \in ConnFd
    BY DEF Inv, Steps
<1>c. 1 \in Class
    BY ServerAssumption DEF Class
<1>1. ASSUME deal_task_message(t) PROVE TypeInv'
  <2>1. act' \in [Thread -> Act]
      BY <1>0, <1>1, ActTypes DEF deal_task_message, TypeOK
  <2>2. /\ tasks' \in [Thread -> Seq(ConnFd)] /\ queue' \in [Thread -> Seq(ConnFd)]
        /\ evfd' \in [Thread -> Nat]
      BY <1>0, <1>1 DEF deal_task_message, TypeOK
  <2> QED
      BY <1>0, <1>1, <2>1, <2>2 DEF deal_task_message, TypeInv, TypeOK
<1>2. ASSUME deal_task(t) PROVE TypeInv'
  <2>1. tasks' \in [Thread -> Seq(ConnFd)] /\ act' \in [Thread -> Act]
    <3>1. CASE tasks[t] = <<>>
        BY <1>0, <1>2, <3>1, ActTypes DEF deal_task, TypeOK
    <3>2. CASE tasks[t] # <<>>
      <4>1. tasks[t] \in Seq(ConnFd)
          BY <1>0 DEF TypeOK
      <4>2. Head(tasks[t]) \in ConnFd /\ Tail(tasks[t]) \in Seq(ConnFd)
          BY <3>2, <4>1
      <4> QED
          BY <1>0, <1>2, <3>2, <4>2, ActTypes DEF deal_task, TypeOK
    <3> QED
        BY <3>1, <3>2
  <2> QED
      BY <1>0, <1>2, <2>1 DEF deal_task, TypeInv, TypeOK
<1>3. ASSUME TCPConn(t) PROVE TypeInv'
  <2>1. act[t].fd \in ConnFd /\ At(t, "build")
      BY <1>3, <1>b DEF TCPConn, At
  <2>2. act' \in [Thread -> Act]
      BY <1>0, <1>3, ActTypes DEF TCPConn, TypeOK
  <2>3. run' \in {"ok", "crashed"} /\ overrun' \in BOOLEAN
      BY <1>3 DEF TCPConn, Index
  <2>4. evs' \in [Thread -> SUBSET ConnFd] /\ conns' \subseteq ConnFd /\ curr_conns' \in Nat
      BY <1>0, <1>3, <2>1 DEF TCPConn, TypeOK
  <2> QED
      BY <1>0, <1>3, <2>2, <2>3, <2>4 DEF TCPConn, TypeInv, TypeOK
<1>4. ASSUME revert_old(t) PROVE TypeInv'
  <2>1. free' \in [Class -> Nat]
      BY <1>0, <1>4, <1>a, PoolTypes DEF revert_old
  <2>2. act' \in [Thread -> Act]
      BY <1>0, <1>4, <1>a DEF revert_old, TypeOK, Act
  <2> QED
      BY <1>0, <1>4, <2>1, <2>2 DEF revert_old, TypeInv, TypeOK
<1>5. ASSUME do_read(t) PROVE TypeInv'
  <2>1. act[t].fd \in ConnFd
      BY <1>5, <1>b DEF do_read, At
  <2>2. PICK x \in Act : act' = [act EXCEPT ![t] = x]
      BY <1>5, <2>1, ActTypes DEF do_read
  <2>3. act' \in [Thread -> Act]
      BY <1>0, <2>2 DEF TypeOK
  <2> QED
      BY <1>0, <1>5, <2>3 DEF do_read, TypeInv, TypeOK
<1>6. ASSUME send_data(t) PROVE TypeInv'
  <2>1. act[t].fd \in ConnFd /\ run = "ok" /\ NextOp(t) \in {"first", "body", "pop"}
      BY <1>6, <1>b DEF send_data, At, Body, NextOp
  <2>2. PICK c \in Class :
           /\ Grow(obuf[act[t].fd], c)
           /\ obuf' = [obuf EXCEPT ![act[t].fd] = Larger(@, c)]
           /\ olen' = olen \cup {act[t].fd}
           /\ act' = [act EXCEPT ![t] = [op |-> NextOp(t), fd |-> act[t].fd,
                                         old |-> Leftover(obuf[act[t].fd], c)]]
      BY <1>6, <1>c DEF send_data, NextOp
  <2>3. obuf[act[t].fd] \in Class \cup {0}
      BY <1>0, <2>1 DEF TypeOK
  <2>4. /\ free' \in [Class -> Nat] /\ total_mem' \in Nat /\ run' \in {"ok", "exited"}
        /\ MemBelow' /\ Larger(obuf[act[t].fd], c) \in Class /\ Leftover(obuf[act[t].fd], c) \in Class \cup {0}
      BY <1>0, <2>1, <2>2, <2>3, PoolTypes
  <2>5. act' \in [Thread -> Act]
      BY <1>0, <2>1, <2>2, <2>4, ActTypes DEF TypeOK
  <2>6. obuf' \in [ConnFd -> Class \cup {0}] /\ olen' \subseteq ConnFd
      BY <1>0, <2>1, <2>2, <2>4 DEF TypeOK
  <2> QED
      BY <1>0, <1>6, <2>4, <2>5, <2>6 DEF send_data, TypeInv, TypeOK, MemBelow
<1>7. ASSUME pop(t) PROVE TypeInv'
  <2>1. act[t].fd \in ConnFd
      BY <1>7, <1>b DEF pop, At
  <2>2. ibuf[act[t].fd] \in Class \cup {0}
      BY <1>0, <2>1 DEF TypeOK
  <2>3. free' \in [Class -> Nat] /\ ibuf' \in [ConnFd -> Class \cup {0}]
      BY <1>0, <1>7, <2>2, PoolTypes DEF pop, TypeOK
  <2> QED
      BY <1>0, <1>7, <2>3, ActTypes DEF pop, TypeInv, TypeOK
<1>8. ASSUME decrease_conn(t) PROVE TypeInv'
  <2>1. act[t].fd \in ConnFd /\ act[t].op = "clean"
      BY <1>8, <1>b DEF decrease_conn, At
  <2>2. curr_conns' \in Nat /\ conns' \subseteq ConnFd
      BY <1>0, <1>8, <2>1, CleanCounted DEF decrease_conn, TypeOK
  <2>3. act' \in [Thread -> Act] /\ evs' \in [Thread -> SUBSET ConnFd]
      BY <1>0, <1>8, <2>1, ActTypes DEF decrease_conn, TypeOK
  <2>4. run' \in {"ok", "crashed"} /\ overrun' \in BOOLEAN
      BY <1>8 DEF decrease_conn, Index
  <2> QED
      BY <1>0, <1>8, <2>2, <2>3, <2>4 DEF decrease_conn, TypeInv, TypeOK
<1>9. ASSUME clear(t) PROVE TypeInv'
  <2>1. act[t].fd \in ConnFd
      BY <1>9, <1>b DEF clear, At
  <2>2. ibuf[act[t].fd] \in Class \cup {0} /\ obuf[act[t].fd] \in Class \cup {0}
      BY <1>0, <2>1 DEF TypeOK
  <2>3. free' \in [Class -> Nat]
      BY <1>0, <1>9, <2>2, PoolTypes DEF clear, TypeOK
  <2>4. act' \in [Thread -> Act]
    <3>1. [act[t] EXCEPT !.op = "obuf"] \in Act /\ [act[t] EXCEPT !.op = "close"] \in Act
        BY <1>a DEF Act
    <3> QED
        BY <1>0, <1>9, <3>1 DEF clear, TypeOK
  <2>5. ibuf' \in [ConnFd -> Class \cup {0}] /\ obuf' \in [ConnFd -> Class \cup {0}]
        /\ olen' \subseteq ConnFd /\ torn' \subseteq ConnFd
      BY <1>0, <1>9, <2>1 DEF clear, TypeOK
  <2> QED
      BY <1>0, <1>9, <2>3, <2>4, <2>5 DEF clear, TypeInv, TypeOK
<1>10. close(t) => TypeInv'
    BY <1>0, ActTypes DEF close, TypeInv, TypeOK
<1>11. ASSUME NEW fd \in ConnFd, read_data(t, fd) PROVE TypeInv'
  <2>1. ibuf[fd] \in Class \cup {0} /\ run = "ok"
      BY <1>0, <1>11 DEF TypeOK, read_data, At
  <2>2. Larger(ibuf[fd], 1) \in Class
      BY <2>1, ServerAssumption DEF Larger, Class
  <2>3. PICK c \in Class :
         /\ Grow(ibuf[fd], c)
         /\ ibuf' = [ibuf EXCEPT ![fd] = Larger(@, c)]
         /\ act' = [act EXCEPT ![t] = [op |-> IF fd \in eof THEN "clean" ELSE "parse",
                                       fd |-> fd, old |-> Leftover(ibuf[fd], c)]]
      BY <1>11, <2>2 DEF read_data
  <2>4. /\ free' \in [Class -> Nat] /\ total_mem' \in Nat /\ run' \in {"ok", "exited"}
        /\ MemBelow' /\ Larger(ibuf[fd], c) \in Class /\ Leftover(ibuf[fd], c) \in Class \cup {0}
      BY <1>0, <2>1, <2>3, PoolTypes
  <2>5. act' \in [Thread -> Act]
      BY <1>0, <2>3, <2>4, ActTypes DEF TypeOK
  <2>6. ibuf' \in [ConnFd -> Class \cup {0}]
      BY <1>0, <2>3, <2>4 DEF TypeOK
  <2> QED
      BY <1>0, <1>11, <2>4, <2>5, <2>6 DEF read_data, TypeInv, TypeOK, MemBelow
<1>12. ASSUME NEW fd \in ConnFd, do_write(t, fd) PROVE TypeInv'
  <2>1. act' \in [Thread -> Act]
      BY <1>0, <1>12, ActTypes DEF do_write, TypeOK
  <2>2. olen' \subseteq ConnFd /\ run' \in {"ok", "crashed"}
      BY <1>0, <1>12 DEF do_write, At, TypeOK
  <2> QED
      BY <1>0, <1>12, <2>1, <2>2 DEF do_write, TypeInv, TypeOK
<1>13. ASSUME NEW fd \in ConnFd, read_refused(t, fd) PROVE TypeInv'
  <2>1. act' \in [Thread -> Act]
      BY <1>0, <1>13, ActTypes DEF read_refused, TypeOK
  <2> QED
      BY <1>0, <1>13, <2>1 DEF read_refused, TypeInv, TypeOK
<1>14. ASSUME send_refused(t) PROVE TypeInv'
  <2>1. act[t].fd \in ConnFd
      BY <1>14, <1>b DEF send_refused, At
  <2>2. act' \in [Thread -> Act]
      BY <1>0, <1>14, <2>1, ActTypes DEF send_refused, TypeOK
  <2>3. obuf[act[t].fd] \in Class \cup {0}
      BY <1>0, <2>1 DEF TypeOK
  <2>4. /\ free' \in [Class -> Nat] /\ obuf' \in [ConnFd -> Class \cup {0}]
        /\ olen' \subseteq ConnFd /\ torn' \subseteq ConnFd
      BY <1>0, <1>14, <2>1, <2>3, PoolTypes DEF send_refused, TypeOK
  <2> QED
      BY <1>0, <1>14, <2>2, <2>4 DEF send_refused, TypeInv, TypeOK
<1>15. send_torn(t) => TypeInv'
    BY <1>0 DEF send_torn, TypeInv, TypeOK
<1> QED
    BY <1>1, <1>2, <1>3, <1>4, <1>5, <1>6, <1>7, <1>8, <1>9, <1>10, <1>11, <1>12, <1>13, <1>14, <1>15
       DEF Continue

-----------------------------------------------------------------------------
(* Steps that leave every descriptor where it is.                           *)

Owners == <<thread_cnt, opened, conns, curr_conns, queue, evfd, tasks, evs, peak, waiting, overrun>>

InHandOps == {"build", "ibuf", "obuf", "close"}

\* Thread t goes on to r within the handling of an event.
Work(t, r) ==
    /\ act' = [act EXCEPT ![t] = r] /\ r \in Act
    /\ act[t].op \notin {"tasks", "build"} /\ r.op \notin {"tasks", "build"}
    /\ thread_cnt = 0 => t = 0 /\ main # "accept"
    /\ r.op # "idle" => r.fd \in ConnFd
    /\ r.old # 0 => r.op \in {"parse", "first", "body", "pop", "clean"}
    /\ r.op \in {"parse", "head", "first", "body", "pop", "clean"} => r.fd \in evs[t]
    /\ act[t].op \in InHandOps \/ r.op \in InHandOps
         => act[t].op \in InHandOps /\ r.op \in InHandOps /\ r.fd = act[t].fd
    /\ UNCHANGED main /\ UNCHANGED Owners

\* A thread with a smaller buffer to give back, or at a step of its own, works.
LEMMA WorkSteps ==
    ASSUME Inv, NEW t \in Thread
    PROVE  /\ revert_old(t) \/ do_read(t) \/ send_data(t) \/ send_refused(t) \/ pop(t) \/ clear(t)
                => \E r : Work(t, r)
           /\ \A fd \in ConnFd : read_data(t, fd) \/ read_refused(t, fd) => \E r : Work(t, r)
           /\ \A fd \in ConnFd : do_write(t, fd) => (\E r : Work(t, r)) \/ UNCHANGED <<main, act, Owners>>
<1> USE DEF net, count, queues, loops, bufs, pool, add_io_event, del_io_event
<1>0. TypeOK /\ act \in [Thread -> Act] /\ thread_cnt \in {0, NumThreads}
    BY DEF Inv, TypeInv, TypeOK
<1>1. /\ act[t].op \notin {"idle", "tasks"} => act[t].fd \in ConnFd
      /\ act[t].old # 0 => act[t].op \in {"parse", "first", "body", "pop", "clean"}
      /\ act[t].op \in {"parse", "head", "first", "body", "pop", "clean"} => act[t].fd \in evs[t]
    BY DEF Inv, Steps
<1>2. thread_cnt = 0 /\ act[t].op # "idle" => t = 0 /\ main # "accept"
    BY DEF Inv, NoPool
<1>3. ASSUME TypeInv' PROVE act'[t] \in Act
    BY <1>3 DEF TypeInv, TypeOK
<1>4. ASSUME revert_old(t) PROVE \E r : Work(t, r)
  <2>1. act'[t] \in Act
      BY <1>3, <1>4, ThreadTypes DEF Continue
  <2> DEFINE r == [act[t] EXCEPT !.old = 0]
  <2>2. act' = [act EXCEPT ![t] = r] /\ act[t].old # 0 /\ UNCHANGED main /\ UNCHANGED Owners
      BY <1>4 DEF revert_old, Owners
  <2>3. r \in Act /\ r.op = act[t].op /\ r.fd = act[t].fd /\ r.old = 0
      BY <1>0, <2>1, <2>2 DEF Act
  <2> HIDE DEF r
  <2>4. Work(t, r)
      BY <1>1, <1>2, <2>2, <2>3 DEF Work, InHandOps
  <2> QED
      BY <2>4
<1>5. ASSUME do_read(t) PROVE \E r : Work(t, r)
  <2>1. act'[t] \in Act
      BY <1>3, <1>5, ThreadTypes DEF Continue
  <2>2. PICK op \in {"idle", "clean", "head", "pop"} :
           act' = [act EXCEPT ![t] = IF op = "idle" THEN Idle ELSE Doing(op, act[t].fd)]
      BY <1>5 DEF do_read
  <2> DEFINE r == IF op = "idle" THEN Idle ELSE Doing(op, act[t].fd)
  <2>3. act' = [act EXCEPT ![t] = r] /\ act[t].op = "parse" /\ UNCHANGED main /\ UNCHANGED Owners
      BY <1>5, <2>2 DEF do_read, Owners, At
  <2>4. r \in Act
      BY <1>0, <2>1, <2>3
  <2>5. r.op = op /\ (op # "idle" => r.fd = act[t].fd) /\ r.old = 0
      BY DEF Idle, Doing
  <2> HIDE DEF r
  <2>6. Work(t, r)
      BY <1>1, <1>2, <2>3, <2>4, <2>5 DEF Work, InHandOps
  <2> QED
      BY <2>6
<1>6. ASSUME send_data(t) PROVE \E r : Work(t, r)
  <2>1. act'[t] \in Act
      BY <1>3, <1>6, ThreadTypes DEF Continue
  <2>2. PICK c : act' = [act EXCEPT ![t] = [op |-> NextOp(t), fd |-> act[t].fd,
                                            old |-> Leftover(obuf[act[t].fd], c)]]
      BY <1>6 DEF send_data, NextOp
  <2> DEFINE r == [op |-> NextOp(t), fd |-> act[t].fd, old |-> Leftover(obuf[act[t].fd], c)]
  <2>3. /\ act' = [act EXCEPT ![t] = r] /\ act[t].op \in {"head", "first", "body"}
        /\ UNCHANGED main /\ UNCHANGED Owners
      BY <1>6, <2>2 DEF send_data, Owners, At, Body
  <2>4. r \in Act
      BY <1>0, <2>1, <2>3
  <2>5. r.op \in {"first", "body", "pop"} /\ r.fd = act[t].fd
      BY DEF NextOp
  <2> HIDE DEF r
  <2>6. Work(t, r)
      BY <1>1, <1>2, <2>3, <2>4, <2>5 DEF Work, InHandOps
  <2> QED
      BY <2>6
<1>7. ASSUME pop(t) PROVE \E r : Work(t, r)
  <2>1. Idle \in Act /\ Idle.op = "idle" /\ Idle.old = 0
      BY ActTypes DEF Idle
  <2>2. act' = [act EXCEPT ![t] = Idle] /\ act[t].op = "pop" /\ UNCHANGED main /\ UNCHANGED Owners
      BY <1>7 DEF pop, Owners, At
  <2>3. Work(t, Idle)
      BY <1>1, <1>2, <2>1, <2>2 DEF Work, InHandOps
  <2> QED
      BY <2>3
<1>8. ASSUME clear(t) PROVE \E r : Work(t, r)
  <2>1. act'[t] \in Act
      BY <1>3, <1>8, ThreadTypes DEF Continue
  <2>2. PICK op \in {"obuf", "close"} : act' = [act EXCEPT ![t].op = op]
      BY <1>8 DEF clear
  <2> DEFINE r == [act[t] EXCEPT !.op = op]
  <2>3. act' = [act EXCEPT ![t] = r] /\ act[t].op \in {"ibuf", "obuf"} /\ UNCHANGED main /\ UNCHANGED Owners
      BY <1>8, <2>2 DEF clear, Owners, At
  <2>4. r \in Act
      BY <1>0, <2>1, <2>3
  <2>5. r.op = op /\ r.fd = act[t].fd /\ r.old = act[t].old
      BY <1>0 DEF Act
  <2> HIDE DEF r
  <2>6. Work(t, r)
      BY <1>1, <1>2, <2>3, <2>4, <2>5 DEF Work, InHandOps
  <2> QED
      BY <2>6
<1>9. ASSUME NEW fd \in ConnFd, read_data(t, fd) PROVE \E r : Work(t, r)
  <2>1. act'[t] \in Act
      BY <1>3, <1>9, ThreadTypes
  <2>2. PICK c : act' = [act EXCEPT ![t] = [op |-> IF fd \in eof THEN "clean" ELSE "parse",
                                            fd |-> fd, old |-> Leftover(ibuf[fd], c)]]
      BY <1>9 DEF read_data
  <2> DEFINE r == [op |-> IF fd \in eof THEN "clean" ELSE "parse", fd |-> fd, old |-> Leftover(ibuf[fd], c)]
  <2>3. /\ act' = [act EXCEPT ![t] = r] /\ At(t, "idle") /\ fd \in evs[t]
        /\ UNCHANGED main /\ UNCHANGED Owners
      BY <1>9, <2>2 DEF read_data, Owners
  <2>4. r \in Act
      BY <1>0, <2>1, <2>3
  <2>5. r.op \in {"clean", "parse"} /\ r.fd = fd
      OBVIOUS
  <2> HIDE DEF r
  <2>6. Work(t, r)
      BY <2>3, <2>4, <2>5 DEF Work, InHandOps, At
  <2> QED
      BY <2>6
<1>10. ASSUME NEW fd \in ConnFd, do_write(t, fd)
       PROVE  (\E r : Work(t, r)) \/ UNCHANGED <<main, act, Owners>>
  <2>1. CASE act' = act
      BY <1>10, <2>1 DEF do_write, Owners
  <2>2. CASE act' = [act EXCEPT ![t] = Doing("clean", fd)]
    <3>1. Doing("clean", fd) \in Act /\ Doing("clean", fd).op = "clean"
          /\ Doing("clean", fd).fd = fd /\ Doing("clean", fd).old = 0
        BY ActTypes DEF Doing
    <3>2. At(t, "idle") /\ fd \in evs[t] /\ UNCHANGED main /\ UNCHANGED Owners
        BY <1>10 DEF do_write, Owners
    <3>3. Work(t, Doing("clean", fd))
        BY <2>2, <3>1, <3>2 DEF Work, InHandOps, At
    <3> QED
        BY <3>3
  <2> QED
      BY <1>10, <2>1, <2>2 DEF do_write
<1>11. ASSUME NEW fd \in ConnFd, read_refused(t, fd) PROVE \E r : Work(t, r)
  <2>1. Doing("clean", fd) \in Act /\ Doing("clean", fd).op = "clean"
        /\ Doing("clean", fd).fd = fd /\ Doing("clean", fd).old = 0
      BY ActTypes DEF Doing
  <2>2. /\ At(t, "idle") /\ fd \in evs[t] /\ UNCHANGED main /\ UNCHANGED Owners
        /\ act' = [act EXCEPT ![t] = Doing("clean", fd)]
      BY <1>11 DEF read_refused, Owners
  <2>3. Work(t, Doing("clean", fd))
      BY <2>1, <2>2 DEF Work, InHandOps, At
  <2> QED
      BY <2>3
<1>12. ASSUME send_refused(t) PROVE \E r : Work(t, r)
  <2>1. /\ act[t].op \in {"head", "first", "body"} /\ UNCHANGED main /\ UNCHANGED Owners
        /\ act' = [act EXCEPT ![t] = Doing("pop", act[t].fd)]
      BY <1>12 DEF send_refused, At, Owners
  <2>2. PICK fd \in ConnFd : fd = act[t].fd
      BY <1>1, <2>1
  <2>3. Doing("pop", fd) \in Act /\ Doing("pop", fd).op = "pop"
        /\ Doing("pop", fd).fd = fd /\ Doing("pop", fd).old = 0
      BY ActTypes DEF Doing
  <2>4. Work(t, Doing("pop", fd))
      BY <1>1, <1>2, <2>1, <2>2, <2>3 DEF Work, InHandOps
  <2> QED
      BY <2>4
<1> QED
    BY <1>4, <1>5, <1>6, <1>7, <1>8, <1>9, <1>10, <1>11, <1>12

Core == Steps /\ NoPool /\ Unique /\ Covered /\ Counted /\ LowFds /\ LimitsHold

\* Queues, tasks, events and hands as before: the places are as before.
LEMMA SamePlaces ==
    ASSUME Unique, Covered, Counted, LowFds, UNCHANGED Owners,
           \A t \in Thread : InHand(t)' = InHand(t)
    PROVE  Unique' /\ Covered' /\ Counted' /\ LowFds'
<1>1. ASSUME NEW t \in Thread, NEW k, NEW i, NEW fd PROVE InPlace(k, t, i, fd)' <=> InPlace(k, t, i, fd)
    BY DEF InPlace, Owners
<1>2. Unique'
    BY <1>1 DEF Unique
<1>3. Covered'
    BY <1>1 DEF Covered, Owners
<1> QED
    BY <1>2, <1>3 DEF Counted, LowFds, Owners

\* What Pending is made of.
IsPending(fd) ==
    /\ fd \in opened
    /\ \E t \in Thread : \/ \E i : InPlace("queue", t, i, fd)
                         \/ \E i : InPlace("tasks", t, i, fd)
                         \/ act[t].op = "build" /\ act[t].fd = fd

LEMMA PendingDef ==
    ASSUME NEW fd
    PROVE  (fd \in Pending <=> IsPending(fd)) /\ (fd \in Pending' <=> IsPending(fd)')
BY DEF Pending, InPlace, IsPending

\* The handling of an event keeps the invariant.
LEMMA WorkKeeps ==
    ASSUME Inv, NEW t \in Thread, NEW r, Work(t, r)
    PROVE  Core'
<1>0. act \in [Thread -> Act]
    BY DEF Inv, TypeInv, TypeOK
<1>1. \A u \in Thread : /\ u # t => act'[u] = act[u]
                        /\ u = t => act'[u] = r
    BY <1>0 DEF Work
<1>2. \A u \in Thread : InHand(u)' = InHand(u)
    BY <1>1 DEF Work, InHand, InHandOps
<1>3. Unique' /\ Covered' /\ Counted' /\ LowFds'
    BY <1>2, SamePlaces DEF Inv, Work
<1>4. Steps'
    BY <1>1 DEF Inv, Steps, Work, Owners
<1>5. NoPool'
    BY <1>1, Constants DEF Inv, NoPool, Work, Owners
<1>6. \A u \in Thread : act'[u].op = "build" <=> act[u].op = "build"
    BY <1>1 DEF Work
<1>7. \A fd : fd \in Pending' <=> fd \in Pending
    BY <1>1, <1>6 DEF Pending, Work, Owners
<1>8. LimitsHold'
  <2>1. Pending' = Pending
      BY <1>7
  <2> QED
      BY <2>1 DEF Inv, LimitsHold, Work, Owners
<1> QED
    BY <1>3, <1>4, <1>5, <1>8 DEF Core

\* So does a step that changes no descriptor's place and no thread's step.
LEMMA RestKeeps ==
    ASSUME Inv, UNCHANGED act, UNCHANGED Owners,
           main' = main \/ (thread_cnt = 0 => act[0].op = "idle")
    PROVE  Core'
<1>1. \A u \in Thread : InHand(u)' = InHand(u)
    BY DEF InHand
<1>2. Unique' /\ Covered' /\ Counted' /\ LowFds'
    BY <1>1, SamePlaces DEF Inv
<1>3. Steps' /\ NoPool'
    BY DEF Inv, Steps, NoPool, Owners
<1>4. Pending' = Pending
    BY DEF Pending, Owners
<1>5. LimitsHold'
    BY <1>4 DEF Inv, LimitsHold, Owners
<1> QED
    BY <1>2, <1>3, <1>5 DEF Core

-----------------------------------------------------------------------------
(* A descriptor comes, moves and goes.                                      *)

\* The step puts descriptor fd in a place, and moves no other.
PlaceAdded(fd, k0, t0, i0) ==
    \A t \in Thread : \A k, i, f :
       InPlace(k, t, i, f)' <=> InPlace(k, t, i, f) \/ (k = k0 /\ t = t0 /\ i = i0 /\ f = fd)

\* A new descriptor in one new place.
LEMMA AddPlace ==
    ASSUME Unique, Covered, NEW fd, fd \notin opened, opened' = opened \cup {fd},
           NEW k0, NEW t0 \in Thread, NEW i0, PlaceAdded(fd, k0, t0, i0)
    PROVE  Unique' /\ Covered'
<1>1. \A t \in Thread : \A k, i : ~InPlace(k, t, i, fd)
    BY DEF Covered
<1>2. Unique'
    BY <1>1 DEF Unique, PlaceAdded
<1>3. Covered'
    BY DEF Covered, PlaceAdded
<1> QED
    BY <1>2, <1>3

\* The lowest free descriptor is at most one above the number of open ones.
LEMMA LowestFree ==
    ASSUME Inv, NEW fd \in ConnFd, do_accept(fd), ~TooMany
    PROVE  LowFds'
<1>1. /\ opened \subseteq ConnFd /\ opened' = opened \cup {fd} /\ peak \in Nat
      /\ \A f \in ConnFd \ opened : fd <= f
      /\ peak' = IF Cardinality(opened') > peak THEN Cardinality(opened') ELSE peak
    BY DEF Inv, TypeInv, TypeOK, do_accept
<1>2. /\ OtherFds \in Nat /\ FirstFd = 3 + OtherFds /\ fd \in Nat /\ fd \in FirstFd .. FdLimit - 1
      /\ FdLimit \in Nat
    BY Constants DEF FirstFd, ConnFd
<1>3. FirstFd .. fd \subseteq opened'
    BY <1>1, <1>2 DEF ConnFd
<1>4. IsFiniteSet(opened')
    BY <1>1, Constants, FS_Subset
<1>5. Cardinality(FirstFd .. fd) <= Cardinality(opened') /\ Cardinality(opened') \in Nat
    BY <1>3, <1>4, FS_Subset, FS_CardinalityType
<1>6. Cardinality(FirstFd .. fd) = fd - FirstFd + 1
    BY <1>2, FS_Interval
<1>7. fd <= peak' + OtherFds + 2 /\ peak' >= peak /\ peak' \in Nat
    BY <1>1, <1>2, <1>5, <1>6
<1>8. \A f \in opened : f \in Nat /\ f <= peak + OtherFds + 2
    BY <1>1, Constants DEF Inv, LowFds
<1> QED
    BY <1>1, <1>2, <1>7, <1>8 DEF LowFds

\* One more descriptor waits: as many as there were the last time _curr_conns
\* was below the limit, and one.
LEMMA WaitingCounts ==
    ASSUME Inv, NEW fd \in ConnFd, do_accept(fd), ~TooMany, Pending' = Pending \cup {fd}
    PROVE  LimitsHold' /\ IsFiniteSet(Pending) /\ (Pending = {} /\ waiting <= 1 => waiting' <= 1)
<1>1. /\ opened \subseteq ConnFd /\ curr_conns \in Nat /\ waiting \in Nat /\ peak \in Nat
      /\ fd \notin opened /\ opened' = opened \cup {fd}
      /\ curr_conns < MaxConns /\ curr_conns' = curr_conns /\ overrun' = overrun /\ thread_cnt' = thread_cnt
      /\ waiting' = IF Cardinality(Pending) + 1 > waiting THEN Cardinality(Pending) + 1 ELSE waiting
      /\ peak' = IF Cardinality(opened') > peak THEN Cardinality(opened') ELSE peak
    BY Constants DEF Inv, TypeInv, TypeOK, do_accept, TooMany, count
<1>2. IsFiniteSet(Pending) /\ IsFiniteSet(opened') /\ fd \notin Pending
    BY <1>1, Constants, FS_Subset DEF Pending
<1>3. Cardinality(Pending) \in Nat /\ Cardinality(opened') \in Nat /\ MaxConns \in Nat /\ OtherFds \in Nat
    BY <1>2, FS_CardinalityType, Constants
<1>4. Cardinality(Pending') = Cardinality(Pending) + 1
    BY <1>2, FS_AddElement
<1>5. waiting' \in Nat /\ waiting' >= Cardinality(Pending) + 1
    BY <1>1, <1>3
<1>6. curr_conns' + Cardinality(Pending') <= MaxConns + (IF waiting' = 0 THEN 0 ELSE waiting' - 1)
    BY <1>1, <1>3, <1>4, <1>5
<1>7. thread_cnt' = 0 => curr_conns' <= MaxConns
    BY <1>1, <1>3
<1>8. overrun' => peak' + OtherFds > MaxConns
    BY <1>1, <1>3 DEF Inv, LimitsHold
<1>9. Pending = {} => Cardinality(Pending) = 0
    BY FS_EmptySet
<1> QED
    BY <1>1, <1>2, <1>3, <1>6, <1>7, <1>8, <1>9 DEF LimitsHold

\* accept() returned: the descriptor is queued, built or closed again.
LEMMA AcceptKeeps ==
    ASSUME Inv, NEW fd \in ConnFd, do_accept(fd)
    PROVE  Core'
<1> USE DEF net, count, queues, loops, bufs, pool, add_io_event, del_io_event
<1>0. /\ act \in [Thread -> Act] /\ queue \in [Thread -> Seq(ConnFd)] /\ evfd \in [Thread -> Nat]
      /\ thread_cnt \in {0, NumThreads} /\ index \in Thread /\ opened \subseteq ConnFd
    BY DEF Inv, TypeInv, TypeOK
<1>1. CASE TooMany
  <2>1. UNCHANGED <<main, act>> /\ UNCHANGED Owners
      BY <1>1 DEF do_accept, Owners
  <2> QED
      BY <2>1, RestKeeps
<1>2. CASE ~TooMany /\ thread_cnt > 0
  <2>1. /\ send(index, fd) /\ opened' = opened \cup {fd} /\ fd \notin opened
        /\ UNCHANGED <<main, act, thread_cnt, conns, curr_conns, tasks, evs>>
      BY <1>2 DEF do_accept
  <2>2. \A t \in Thread : t # index => queue'[t] = queue[t]
      BY <1>0, <2>1 DEF send
  <2>3. queue'[index] = Append(queue[index], fd) /\ queue[index] \in Seq(ConnFd)
      BY <1>0, <2>1 DEF send
  <2>4. PICK n \in Nat : n = Len(queue[index])
      BY <2>3
  <2>5. /\ Len(queue'[index]) = n + 1 /\ queue'[index][n + 1] = fd
        /\ \A i \in 1 .. n : queue'[index][i] = queue[index][i]
      BY <2>3, <2>4
  <2>6. ASSUME NEW t \in Thread, NEW k, NEW i, NEW f
        PROVE  InPlace(k, t, i, f)' <=> InPlace(k, t, i, f) \/ (k = "queue" /\ t = index /\ i = n + 1 /\ f = fd)
    <3>1. InHand(t)' = InHand(t)
        BY <2>1 DEF InHand
    <3>2. CASE t = index
        BY <2>1, <2>4, <2>5, <3>1, <3>2 DEF InPlace
    <3>3. CASE t # index
        BY <2>1, <2>2, <3>1, <3>3 DEF InPlace
    <3> QED
        BY <3>2, <3>3
  <2>7. PICK t0 \in Thread : t0 = index
      BY <1>0
  <2>8. Unique' /\ Covered'
    <3>2. PlaceAdded(fd, "queue", t0, n + 1)
        BY <2>6, <2>7 DEF PlaceAdded
    <3>3. Unique /\ Covered
        BY DEF Inv
    <3> QED
        BY <2>1, <3>2, <3>3, AddPlace
  <2>9. Counted'
      BY <2>1 DEF Inv, Counted
  <2>10. Steps' /\ NoPool'
      BY <1>0, <1>2, <2>1 DEF Inv, Steps, NoPool
  <2>11. Pending' = Pending \cup {fd}
    <3>1. \A f : f \in Pending' <=> f \in Pending \/ f = fd
        BY <2>1, <2>6, <2>7, PendingDef DEF IsPending, Inv, Covered
    <3> QED
        BY <3>1
  <2> QED
      BY <1>2, <2>8, <2>9, <2>10, <2>11, LowestFree, WaitingCounts DEF Core
<1>3. CASE ~TooMany /\ ~(thread_cnt > 0)
  <2>1. /\ opened' = opened \cup {fd} /\ fd \notin opened /\ main = "accept" /\ main' = "loop"
        /\ act' = [act EXCEPT ![0] = Doing("build", fd)]
        /\ UNCHANGED <<queue, evfd, thread_cnt, conns, curr_conns, tasks, evs>>
      BY <1>3 DEF do_accept
  <2>2. thread_cnt = 0 /\ 0 \in Thread
      BY <1>0, <1>3, Constants
  <2>3. /\ \A t \in Thread : act[t].op = "idle" /\ queue[t] = <<>> /\ tasks[t] = <<>> /\ evfd[t] = 0
        /\ waiting <= 1
      BY <2>1, <2>2 DEF Inv, NoPool
  <2>4. /\ act'[0].op = "build" /\ act'[0].fd = fd /\ act'[0].old = 0
        /\ \A t \in Thread : t # 0 => act'[t] = act[t]
      BY <1>0, <2>1, <2>2 DEF Doing
  <2>5. InHand(0)' = {fd} /\ InHand(0) = {} /\ \A t \in Thread : t # 0 => InHand(t)' = InHand(t)
      BY <2>2, <2>3, <2>4 DEF InHand
  <2>6. ASSUME NEW t \in Thread, NEW k, NEW i, NEW f
        PROVE  InPlace(k, t, i, f)' <=> InPlace(k, t, i, f) \/ (k = "act" /\ t = 0 /\ i = 0 /\ f = fd)
    <3>1. CASE t = 0
        BY <2>1, <2>5, <3>1 DEF InPlace
    <3>2. CASE t # 0
        BY <2>1, <2>5, <3>2 DEF InPlace
    <3> QED
        BY <3>1, <3>2
  <2>7. Unique' /\ Covered'
    <3>1. PlaceAdded(fd, "act", 0, 0)
        BY <2>6 DEF PlaceAdded
    <3> QED
        BY <2>1, <2>2, <3>1, AddPlace DEF Inv
  <2>8. Counted'
      BY <2>1 DEF Inv, Counted
  <2>9. Steps'
    <3>1. ASSUME NEW t \in Thread
          PROVE  /\ act'[t].op \notin {"idle", "tasks"} => act'[t].fd \in ConnFd
                 /\ act'[t].old # 0 => act'[t].op \in {"parse", "first", "body", "pop", "clean"}
                 /\ act'[t].op \in {"parse", "head", "first", "body", "pop", "clean"} => act'[t].fd \in evs'[t]
                 /\ act'[t].op \notin {"tasks", "build"} => tasks'[t] = <<>>
        BY <2>1, <2>3, <2>4 DEF Inv, Steps
    <3> QED
        BY <3>1 DEF Steps
  <2>10. Pending = {} /\ Pending' = Pending \cup {fd}
    <3>1. \A f : f \notin Pending
        BY <2>3 DEF Pending
    <3>2. \A f : f \in Pending' <=> f = fd
        BY <2>1, <2>2, <2>3, <2>4 DEF Pending
    <3> QED
        BY <3>1, <3>2
  <2>11. NoPool'
      BY <1>3, <2>1, <2>3, <2>4, <2>10, WaitingCounts DEF NoPool
  <2> QED
      BY <1>3, <2>7, <2>8, <2>9, <2>10, <2>11, LowestFree, WaitingCounts DEF Core
<1> QED
    BY <1>1, <1>2, <1>3

\* recv() moves the queue of thread t to its tasks.
LEMMA RecvKeeps ==
    ASSUME Inv, NEW t \in Thread, deal_task_message(t)
    PROVE  Core'
<1> USE DEF net, count, queues, loops, bufs, pool, add_io_event, del_io_event
<1>0. /\ act \in [Thread -> Act] /\ queue \in [Thread -> Seq(ConnFd)] /\ evfd \in [Thread -> Nat]
      /\ tasks \in [Thread -> Seq(ConnFd)]
    BY DEF Inv, TypeInv, TypeOK
<1>1. /\ act[t].op = "idle" /\ evfd[t] > 0 /\ tasks' = [tasks EXCEPT ![t] = queue[t]]
      /\ queue' = [queue EXCEPT ![t] = <<>>] /\ evfd' = [evfd EXCEPT ![t] = 0]
      /\ act' = [act EXCEPT ![t] = Doing("tasks", 0)]
      /\ UNCHANGED <<thread_cnt, main, opened, conns, curr_conns, evs, peak, waiting, overrun>>
    BY DEF deal_task_message, At
<1>2. tasks[t] = <<>> /\ InHand(t) = {} /\ thread_cnt # 0
  <2>1. tasks[t] = <<>>
      BY <1>1 DEF Inv, Steps
  <2>2. InHand(t) = {}
      BY <1>1 DEF InHand
  <2>3. thread_cnt # 0
      BY <1>0, <1>1 DEF Inv, NoPool
  <2> QED
      BY <2>1, <2>2, <2>3
<1>3. /\ tasks'[t] = queue[t] /\ queue'[t] = <<>> /\ act'[t].op = "tasks" /\ act'[t].old = 0
      /\ \A u \in Thread : u # t => tasks'[u] = tasks[u] /\ queue'[u] = queue[u] /\ act'[u] = act[u]
    BY <1>0, <1>1 DEF Doing
<1>4. InHand(t)' = {} /\ \A u \in Thread : u # t => InHand(u)' = InHand(u)
    BY <1>3 DEF InHand
<1>5. ASSUME NEW u \in Thread, NEW k, NEW i, NEW f
      PROVE  /\ u # t => (InPlace(k, u, i, f)' <=> InPlace(k, u, i, f))
             /\ InPlace(k, t, i, f)' <=> \/ k = "tasks" /\ InPlace("queue", t, i, f)
                                         \/ k \notin {"queue", "tasks"} /\ InPlace(k, t, i, f)
             /\ ~InPlace("tasks", t, i, f)
  <2>1. u # t => (InPlace(k, u, i, f)' <=> InPlace(k, u, i, f))
      BY <1>1, <1>3, <1>4 DEF InPlace
  <2>2. InPlace(k, t, i, f)' <=> \/ k = "tasks" /\ InPlace("queue", t, i, f)
                                 \/ k \notin {"queue", "tasks"} /\ InPlace(k, t, i, f)
      BY <1>1, <1>2, <1>3, <1>4 DEF InPlace
  <2>3. ~InPlace("tasks", t, i, f)
      BY <1>2 DEF InPlace
  <2> QED
      BY <2>1, <2>2, <2>3
<1>6. Unique'
    BY <1>5 DEF Inv, Unique
<1>7. Covered'
  <2>1. ASSUME NEW f PROVE f \in opened' <=> \E u \in Thread : \E k, i : InPlace(k, u, i, f)'
    <3>1. ASSUME NEW u \in Thread, NEW k, NEW i, InPlace(k, u, i, f)
          PROVE  \E v \in Thread : \E l, j : InPlace(l, v, j, f)'
      <4>1. CASE u = t /\ k = "queue"
          BY <1>5, <3>1, <4>1
      <4>2. CASE ~(u = t /\ k = "queue")
          BY <1>5, <3>1, <4>2
      <4> QED
          BY <4>1, <4>2
    <3>2. ASSUME NEW u \in Thread, NEW k, NEW i, InPlace(k, u, i, f)'
          PROVE  \E v \in Thread : \E l, j : InPlace(l, v, j, f)
        BY <1>5, <3>2
    <3> QED
        BY <1>1, <3>1, <3>2 DEF Inv, Covered
  <2> QED
      BY <2>1 DEF Covered
<1>8. Counted' /\ LowFds'
    BY <1>1 DEF Inv, Counted, LowFds
<1>9. Steps'
    BY <1>1, <1>3 DEF Inv, Steps
<1>10. NoPool'
    BY <1>1, <1>2 DEF NoPool
<1>11. Pending' = Pending
  <2>1. ASSUME NEW f PROVE f \in Pending' <=> f \in Pending
      BY <1>1, <1>3, <1>5, PendingDef DEF IsPending
  <2> QED
      BY <2>1
<1>12. LimitsHold'
    BY <1>1, <1>11 DEF Inv, LimitsHold
<1> QED
    BY <1>6, <1>7, <1>8, <1>9, <1>10, <1>12 DEF Core

\* The next task of those taken is built; after the last the thread is idle.
LEMMA TaskKeeps ==
    ASSUME Inv, NEW t \in Thread, deal_task(t)
    PROVE  Core'
<1> USE DEF net, count, queues, loops, bufs, pool, add_io_event, del_io_event
<1>0. act \in [Thread -> Act] /\ tasks \in [Thread -> Seq(ConnFd)]
    BY DEF Inv, TypeInv, TypeOK
<1>1. /\ act[t].op = "tasks" /\ (thread_cnt = 0 => t = 0 /\ main = "loop")
      /\ UNCHANGED <<thread_cnt, main, opened, conns, curr_conns, queue, evfd, evs, peak, waiting, overrun>>
    BY DEF deal_task, At
<1>2. InHand(t) = {}
    BY <1>1 DEF InHand
<1>3. CASE tasks[t] = <<>>
  <2>1. act' = [act EXCEPT ![t] = Idle] /\ tasks' = tasks
      BY <1>3 DEF deal_task
  <2>2. /\ act'[t].op = "idle" /\ act'[t].old = 0
        /\ \A u \in Thread : u # t => act'[u] = act[u]
      BY <1>0, <2>1 DEF Idle
  <2>3. \A u \in Thread : InHand(u)' = InHand(u)
      BY <1>2, <2>2 DEF InHand
  <2>4. Unique' /\ Covered' /\ Counted' /\ LowFds'
      BY <1>1, <2>1, <2>3, SamePlaces DEF Inv, Owners
  <2>5. Steps'
      BY <1>1, <1>3, <2>1, <2>2 DEF Inv, Steps
  <2>6. NoPool'
      BY <1>1, <2>1, <2>2 DEF Inv, NoPool
  <2>7. Pending' = Pending
    <3>1. \A f : f \in Pending' <=> f \in Pending
        BY <1>1, <2>1, <2>2 DEF Pending
    <3> QED
        BY <3>1
  <2>8. LimitsHold'
      BY <1>1, <2>7 DEF Inv, LimitsHold
  <2> QED
      BY <2>4, <2>5, <2>6, <2>8 DEF Core
<1>4. CASE tasks[t] # <<>>
  <2>1. PICK s \in Seq(ConnFd) : s = tasks[t]
      BY <1>0
  <2>2. act' = [act EXCEPT ![t] = Doing("build", Head(s))] /\ tasks' = [tasks EXCEPT ![t] = Tail(s)]
      BY <1>4, <2>1 DEF deal_task
  <2>3. PICK fd \in ConnFd : fd = Head(s) /\ s # <<>>
      BY <1>4, <2>1
  <2>4. /\ act'[t].op = "build" /\ act'[t].old = 0 /\ act'[t].fd = fd /\ tasks'[t] = Tail(s)
        /\ \A u \in Thread : u # t => act'[u] = act[u] /\ tasks'[u] = tasks[u]
      BY <1>0, <2>2, <2>3 DEF Doing
  <2>5. InHand(t)' = {fd} /\ \A u \in Thread : u # t => InHand(u)' = InHand(u)
      BY <2>4 DEF InHand
  <2>6. /\ fd = s[1] /\ Len(s) \in Nat \ {0} /\ Len(Tail(s)) = Len(s) - 1
        /\ \A i \in 1 .. Len(Tail(s)) : Tail(s)[i] = s[i + 1]
      BY <2>3
  <2>7. ASSUME NEW u \in Thread, NEW k, NEW i, NEW f
        PROVE  /\ u # t => (InPlace(k, u, i, f)' <=> InPlace(k, u, i, f))
               /\ InPlace(k, t, i, f)' <=>
                     \/ k = "tasks" /\ i \in Nat \ {0} /\ InPlace("tasks", t, i + 1, f)
                     \/ k = "act" /\ i = 0 /\ f = fd
                     \/ k \notin {"tasks", "act"} /\ InPlace(k, t, i, f)
    <3>1. u # t => (InPlace(k, u, i, f)' <=> InPlace(k, u, i, f))
        BY <1>1, <2>4, <2>5 DEF InPlace
    <3>2. CASE k = "tasks"
        BY <2>1, <2>4, <2>6, <3>2 DEF InPlace
    <3>3. CASE k # "tasks"
        BY <1>1, <2>5, <3>3 DEF InPlace
    <3> QED
        BY <3>1, <3>2, <3>3
  <2>8. InPlace("tasks", t, 1, fd)
      BY <2>1, <2>6 DEF InPlace
  <2>9. \A k, i, f : InPlace(k, t, i, f) => k # "act"
      BY <1>2 DEF InPlace
  <2>10. \A k, i, f : InPlace(k, t, i, f) /\ k = "tasks" => i \in Nat \ {0} /\ (i = 1 => f = fd)
      BY <2>1, <2>6 DEF InPlace
  <2>11. Unique'
    <3> SUFFICES ASSUME NEW f, NEW u \in Thread, NEW v \in Thread, NEW k, NEW l, NEW i, NEW j,
                        InPlace(k, u, i, f)', InPlace(l, v, j, f)'
                 PROVE  k = l /\ u = v /\ i = j
        BY DEF Unique
    <3>1. CASE u = t /\ v = t
        BY <2>7, <2>8, <2>10, <3>1 DEF Inv, Unique
    <3>2. CASE u # t /\ v # t
        BY <2>7, <3>2 DEF Inv, Unique
    <3>3. CASE u = t /\ v # t
        BY <2>7, <2>8, <3>3 DEF Inv, Unique
    <3>4. CASE u # t /\ v = t
        BY <2>7, <2>8, <3>4 DEF Inv, Unique
    <3> QED
        BY <3>1, <3>2, <3>3, <3>4
  <2>12. Covered'
    <3>1. ASSUME NEW f, NEW u \in Thread, NEW k, NEW i, InPlace(k, u, i, f)
          PROVE  \E v \in Thread : \E l, j : InPlace(l, v, j, f)'
      <4>1. CASE u = t /\ k = "tasks" /\ i = 1
          BY <2>7, <2>10, <3>1, <4>1
      <4>2. CASE u = t /\ k = "tasks" /\ i # 1
        <5>1. i - 1 \in Nat \ {0} /\ (i - 1) + 1 = i
            BY <2>10, <3>1, <4>2
        <5>2. InPlace("tasks", t, i - 1, f)'
            BY <2>7, <3>1, <4>2, <5>1
        <5> QED
            BY <5>2
      <4>3. CASE ~(u = t /\ k = "tasks")
          BY <2>7, <2>9, <3>1, <4>3
      <4> QED
          BY <4>1, <4>2, <4>3
    <3>2. ASSUME NEW f, NEW u \in Thread, NEW k, NEW i, InPlace(k, u, i, f)'
          PROVE  \E v \in Thread : \E l, j : InPlace(l, v, j, f)
        BY <2>7, <2>8, <3>2
    <3>3. ASSUME NEW f PROVE f \in opened' <=> \E u \in Thread : \E k, i : InPlace(k, u, i, f)'
        BY <1>1, <3>1, <3>2 DEF Inv, Covered
    <3> QED
        BY <3>3 DEF Covered
  <2>13. Counted' /\ LowFds'
      BY <1>1 DEF Inv, Counted, LowFds
  <2>14. Steps'
      BY <1>1, <2>3, <2>4 DEF Inv, Steps
  <2>15. NoPool'
      BY <1>1, <1>4, <2>4 DEF Inv, NoPool
  <2>16. ASSUME NEW f PROVE f \in Pending' <=> f \in Pending
    <3>1. ASSUME IsPending(f) PROVE IsPending(f)'
      <4>1. CASE f = fd
          BY <1>1, <2>4, <3>1, <4>1 DEF IsPending
      <4>2. CASE f # fd
        <5>1. PICK u \in Thread : \/ \E i : InPlace("queue", u, i, f)
                                  \/ \E i : InPlace("tasks", u, i, f)
                                  \/ act[u].op = "build" /\ act[u].fd = f
            BY <3>1 DEF IsPending
        <5>2. CASE u # t
            BY <1>1, <2>4, <2>7, <3>1, <5>1, <5>2 DEF IsPending
        <5>3. CASE u = t /\ \E i : InPlace("queue", u, i, f)
            BY <1>1, <2>7, <3>1, <5>3 DEF IsPending
        <5>4. CASE u = t /\ \E i : InPlace("tasks", u, i, f)
          <6>1. PICK i : InPlace("tasks", u, i, f)
              BY <5>4
          <6>2. i - 1 \in Nat \ {0} /\ (i - 1) + 1 = i
              BY <2>10, <4>2, <5>4, <6>1
          <6>3. InPlace("tasks", t, i - 1, f)'
              BY <2>7, <5>4, <6>1, <6>2
          <6> QED
              BY <1>1, <3>1, <6>3 DEF IsPending
        <5> QED
            BY <1>1, <5>1, <5>2, <5>3, <5>4
      <4> QED
          BY <4>1, <4>2
    <3>2. ASSUME IsPending(f)' PROVE IsPending(f)
      <4>1. PICK u \in Thread : \/ \E i : InPlace("queue", u, i, f)'
                                \/ \E i : InPlace("tasks", u, i, f)'
                                \/ act'[u].op = "build" /\ act'[u].fd = f
          BY <3>2 DEF IsPending
      <4>2. CASE u # t
          BY <1>1, <2>4, <2>7, <3>2, <4>1, <4>2 DEF IsPending
      <4>3. CASE u = t
          BY <1>1, <2>4, <2>7, <2>8, <3>2, <4>1, <4>3 DEF IsPending
      <4> QED
          BY <4>2, <4>3
    <3> QED
        BY <3>1, <3>2, PendingDef
  <2>17. LimitsHold'
    <3>1. Pending' = Pending
        BY <2>16
    <3> QED
        BY <1>1, <3>1 DEF Inv, LimitsHold
  <2> QED
      BY <2>11, <2>12, <2>13, <2>14, <2>15, <2>17 DEF Core
<1> QED
    BY <1>3, <1>4

\* conns was indexed past its end: there were that many descriptors.
LEMMA IndexKeeps ==
    ASSUME Inv, NEW fd \in opened, Index(fd), peak' = peak
    PROVE  overrun' => peak' + OtherFds > MaxConns
<1>1. fd <= peak + OtherFds + 2 /\ fd \in Nat /\ peak \in Nat /\ OtherFds \in Nat /\ MaxConns \in Nat
    BY Constants DEF Inv, LowFds, TypeInv, TypeOK
<1>2. CASE overrun
    BY <1>2 DEF Inv, LimitsHold
<1>3. CASE fd >= ArrayLen
    BY <1>1, <1>3 DEF ArrayLen
<1> QED
    BY <1>2, <1>3 DEF Index

\* The constructor: from the thread's hands into its event loop.
LEMMA BuildKeeps ==
    ASSUME Inv, NEW t \in Thread, TCPConn(t)
    PROVE  Core'
<1> USE DEF net, count, queues, loops, bufs, pool, add_io_event, del_io_event
<1>0. /\ act \in [Thread -> Act] /\ evs \in [Thread -> SUBSET ConnFd] /\ conns \subseteq ConnFd
      /\ curr_conns \in Nat /\ opened \subseteq ConnFd /\ waiting \in Nat /\ MaxConns \in Nat
      /\ thread_cnt \in {0, NumThreads} /\ NumThreads # 0
    BY Constants DEF Inv, TypeInv, TypeOK
<1>1. PICK fd \in ConnFd : fd = act[t].fd /\ act[t].op = "build"
    BY DEF TCPConn, At, Inv, Steps
<1>2. /\ evs' = [evs EXCEPT ![t] = @ \cup {fd}] /\ Index(fd) /\ conns' = conns \cup {fd}
      /\ curr_conns' = curr_conns + 1
      /\ act' = [act EXCEPT ![t] = IF thread_cnt = 0 THEN Idle ELSE Doing("tasks", 0)]
      /\ (thread_cnt = 0 => t = 0 /\ main = "loop")
      /\ UNCHANGED <<thread_cnt, main, opened, queue, evfd, tasks, peak, waiting>>
    BY <1>1 DEF TCPConn, At
<1>3. /\ act'[t].op = (IF thread_cnt = 0 THEN "idle" ELSE "tasks") /\ act'[t].old = 0
      /\ evs'[t] = evs[t] \cup {fd}
      /\ \A u \in Thread : u # t => act'[u] = act[u] /\ evs'[u] = evs[u]
    BY <1>0, <1>2 DEF Idle, Doing
<1>4. InHand(t) = {fd} /\ InHand(t)' = {} /\ \A u \in Thread : u # t => InHand(u)' = InHand(u)
    BY <1>1, <1>3 DEF InHand
<1>5. ASSUME NEW u \in Thread, NEW k, NEW i, NEW f
      PROVE  /\ u # t => (InPlace(k, u, i, f)' <=> InPlace(k, u, i, f))
             /\ InPlace(k, t, i, f)' <=> \/ k = "evs" /\ i = 0 /\ f = fd
                                         \/ k # "act" /\ InPlace(k, t, i, f)
  <2>1. u # t => (InPlace(k, u, i, f)' <=> InPlace(k, u, i, f))
      BY <1>2, <1>3, <1>4 DEF InPlace
  <2>2. InPlace(k, t, i, f)' <=> (k = "evs" /\ i = 0 /\ f = fd) \/ (k # "act" /\ InPlace(k, t, i, f))
      BY <1>2, <1>3, <1>4 DEF InPlace
  <2> QED
      BY <2>1, <2>2
<1>6. InPlace("act", t, 0, fd) /\ \A i, f : InPlace("act", t, i, f) => f = fd
    BY <1>4 DEF InPlace
<1>7. /\ fd \in opened
      /\ \A u \in Thread : \A k, i : InPlace(k, u, i, fd) => k = "act" /\ u = t
    BY <1>6 DEF Inv, Unique, Covered
<1>8. Unique'
    BY <1>5, <1>7 DEF Inv, Unique
<1>9. Covered'
  <2>1. ASSUME NEW f PROVE f \in opened' <=> \E u \in Thread : \E k, i : InPlace(k, u, i, f)'
    <3>1. CASE f = fd
        BY <1>2, <1>5, <1>7, <3>1
    <3>2. CASE f # fd
        BY <1>2, <1>5, <1>6, <3>2 DEF Inv, Covered
    <3> QED
        BY <3>1, <3>2
  <2> QED
      BY <2>1 DEF Covered
<1>10. Counted'
  <2>1. \A u \in Thread : fd \notin evs[u]
      BY <1>7 DEF InPlace
  <2>2. fd \notin conns
      BY <2>1 DEF Inv, Counted
  <2>3. IsFiniteSet(conns)
      BY <1>0, Constants, FS_Subset
  <2>4. Cardinality(conns') = Cardinality(conns) + 1
      BY <1>2, <2>2, <2>3, FS_AddElement
  <2>5. \A f : f \in conns' <=> \E u \in Thread : f \in evs'[u]
      BY <1>2, <1>3 DEF Inv, Counted
  <2> QED
      BY <1>2, <2>4, <2>5 DEF Inv, Counted
<1>11. LowFds'
    BY <1>2 DEF Inv, LowFds
<1>12. Steps'
  <2>1. thread_cnt = 0 => tasks[t] = <<>>
      BY DEF Inv, NoPool
  <2> QED
      BY <1>2, <1>3, <2>1 DEF Inv, Steps
<1>13. NoPool'
    BY <1>2, <1>3 DEF Inv, NoPool
<1>14. Pending' = Pending \ {fd} /\ fd \in Pending
  <2>1. fd \in Pending
      BY <1>1, <1>7, PendingDef DEF IsPending
  <2>2. ASSUME NEW f PROVE f \in Pending' <=> f \in Pending /\ f # fd
    <3>1. CASE f = fd
      <4>1. ASSUME NEW u \in Thread PROVE ~(act'[u].op = "build" /\ act'[u].fd = fd)
        <5>1. u # t => fd \notin InHand(u)
            BY <1>7 DEF InPlace
        <5> QED
            BY <1>3, <5>1 DEF InHand
      <4> QED
          BY <1>5, <1>7, <3>1, <4>1, PendingDef DEF IsPending
    <3>2. CASE f # fd
        BY <1>1, <1>2, <1>3, <1>5, <3>2, PendingDef DEF IsPending
    <3> QED
        BY <3>1, <3>2
  <2> QED
      BY <2>1, <2>2
<1>15. LimitsHold'
  <2>1. IsFiniteSet(Pending)
      BY <1>0, Constants, FS_Subset DEF Pending
  <2>2. Cardinality(Pending) \in Nat /\ Cardinality(Pending') = Cardinality(Pending) - 1
      BY <1>14, <2>1, FS_RemoveElement, FS_CardinalityType
  <2>3. curr_conns' + Cardinality(Pending') <= MaxConns + (IF waiting' = 0 THEN 0 ELSE waiting' - 1)
      BY <1>0, <1>2, <2>2 DEF Inv, LimitsHold
  <2>4. thread_cnt' = 0 => waiting' <= 1
      BY <1>13 DEF NoPool
  <2>5. Cardinality(Pending') \in Nat
      BY <1>14, <2>1, FS_RemoveElement, FS_CardinalityType
  <2>6. thread_cnt' = 0 => curr_conns' <= MaxConns
      BY <1>0, <1>2, <2>3, <2>4, <2>5
  <2> QED
      BY <1>2, <1>7, <2>3, <2>6, IndexKeeps DEF LimitsHold
<1> QED
    BY <1>8, <1>9, <1>10, <1>11, <1>12, <1>13, <1>15 DEF Core

\* clean_conn begins: out of the event loop, into the thread's hands.
LEMMA CleanKeeps ==
    ASSUME Inv, NEW t \in Thread, decrease_conn(t)
    PROVE  Core'
<1> USE DEF net, count, queues, loops, bufs, pool, add_io_event, del_io_event
<1>0. /\ act \in [Thread -> Act] /\ evs \in [Thread -> SUBSET ConnFd] /\ opened \subseteq ConnFd
      /\ curr_conns \in Nat /\ waiting \in Nat /\ MaxConns \in Nat
    BY Constants DEF Inv, TypeInv, TypeOK
<1>1. PICK fd \in ConnFd : fd = act[t].fd /\ act[t].op = "clean" /\ fd \in evs[t]
    BY DEF decrease_conn, At, Inv, Steps
<1>2. /\ evs' = [evs EXCEPT ![t] = @ \ {fd}] /\ Index(fd) /\ conns' = conns \ {fd}
      /\ curr_conns' = curr_conns - 1 /\ act' = [act EXCEPT ![t] = Doing("ibuf", fd)]
      /\ (thread_cnt = 0 => t = 0 /\ main = "loop")
      /\ UNCHANGED <<thread_cnt, main, opened, queue, evfd, tasks, peak, waiting>>
    BY <1>1 DEF decrease_conn, At
<1>3. /\ act'[t].op = "ibuf" /\ act'[t].fd = fd /\ act'[t].old = 0 /\ evs'[t] = evs[t] \ {fd}
      /\ \A u \in Thread : u # t => act'[u] = act[u] /\ evs'[u] = evs[u]
    BY <1>0, <1>2 DEF Doing
<1>4. InHand(t) = {} /\ InHand(t)' = {fd} /\ \A u \in Thread : u # t => InHand(u)' = InHand(u)
    BY <1>1, <1>3 DEF InHand
<1>5. ASSUME NEW u \in Thread, NEW k, NEW i, NEW f
      PROVE  /\ u # t => (InPlace(k, u, i, f)' <=> InPlace(k, u, i, f))
             /\ InPlace(k, t, i, f)' <=> \/ k = "act" /\ i = 0 /\ f = fd
                                         \/ ~(k = "evs" /\ f = fd) /\ InPlace(k, t, i, f)
  <2>1. u # t => (InPlace(k, u, i, f)' <=> InPlace(k, u, i, f))
      BY <1>2, <1>3, <1>4 DEF InPlace
  <2>2. InPlace(k, t, i, f)' <=>
           (k = "act" /\ i = 0 /\ f = fd) \/ (~(k = "evs" /\ f = fd) /\ InPlace(k, t, i, f))
      BY <1>2, <1>3, <1>4 DEF InPlace
  <2> QED
      BY <2>1, <2>2
<1>6. InPlace("evs", t, 0, fd)
    BY <1>1 DEF InPlace
<1>7. /\ fd \in opened
      /\ \A u \in Thread : \A k, i : InPlace(k, u, i, fd) => k = "evs" /\ u = t
    BY <1>6 DEF Inv, Unique, Covered
<1>8. Unique'
    BY <1>5, <1>7 DEF Inv, Unique
<1>9. Covered'
  <2>1. ASSUME NEW f PROVE f \in opened' <=> \E u \in Thread : \E k, i : InPlace(k, u, i, f)'
    <3>1. CASE f = fd
        BY <1>2, <1>5, <1>7, <3>1
    <3>2. CASE f # fd
        BY <1>2, <1>5, <3>2 DEF Inv, Covered
    <3> QED
        BY <3>1, <3>2
  <2> QED
      BY <2>1 DEF Covered
<1>10. Counted'
  <2>1. \A u \in Thread : u # t => fd \notin evs[u]
      BY <1>7 DEF InPlace
  <2>2. fd \in conns /\ IsFiniteSet(conns)
      BY <1>1, CleanCounted
  <2>3. Cardinality(conns') = Cardinality(conns) - 1
      BY <1>2, <2>2, FS_RemoveElement
  <2>4. \A f : f \in conns' <=> \E u \in Thread : f \in evs'[u]
      BY <1>2, <1>3, <2>1 DEF Inv, Counted
  <2> QED
      BY <1>2, <2>3, <2>4 DEF Inv, Counted
<1>11. LowFds'
    BY <1>2 DEF Inv, LowFds
<1>12. Steps'
    BY <1>1, <1>2, <1>3 DEF Inv, Steps
<1>13. NoPool'
    BY <1>2, <1>3 DEF Inv, NoPool
<1>14. Pending' = Pending
  <2>1. ASSUME NEW f PROVE f \in Pending' <=> f \in Pending
      BY <1>1, <1>2, <1>3, <1>5, PendingDef DEF IsPending
  <2> QED
      BY <2>1
<1>15. LimitsHold'
  <2>1. IsFiniteSet(Pending)
      BY <1>0, Constants, FS_Subset DEF Pending
  <2>2. Cardinality(Pending) \in Nat
      BY <2>1, FS_CardinalityType
  <2> QED
      BY <1>0, <1>2, <1>7, <1>14, <2>2, IndexKeeps DEF Inv, LimitsHold
<1> QED
    BY <1>8, <1>9, <1>10, <1>11, <1>12, <1>13, <1>15 DEF Core

\* close(): the descriptor leaves the thread's hands and may be given out again.
LEMMA CloseKeeps ==
    ASSUME Inv, NEW t \in Thread, close(t)
    PROVE  Core'
<1> USE DEF net, count, queues, loops, bufs, pool, add_io_event, del_io_event
<1>0. act \in [Thread -> Act] /\ opened \subseteq ConnFd
    BY DEF Inv, TypeInv, TypeOK
<1>1. PICK fd \in ConnFd : fd = act[t].fd /\ act[t].op = "close"
    BY DEF close, At, Inv, Steps
<1>2. /\ opened' = opened \ {fd} /\ act' = [act EXCEPT ![t] = Idle]
      /\ (thread_cnt = 0 => t = 0 /\ main = "loop")
      /\ UNCHANGED <<thread_cnt, main, conns, curr_conns, queue, evfd, tasks, evs, peak, waiting, overrun>>
    BY <1>1 DEF close, At
<1>3. act'[t].op = "idle" /\ act'[t].old = 0 /\ \A u \in Thread : u # t => act'[u] = act[u]
    BY <1>0, <1>2 DEF Idle
<1>4. InHand(t) = {fd} /\ InHand(t)' = {} /\ \A u \in Thread : u # t => InHand(u)' = InHand(u)
    BY <1>1, <1>3 DEF InHand
<1>5. ASSUME NEW u \in Thread, NEW k, NEW i, NEW f
      PROVE  InPlace(k, u, i, f)' <=> InPlace(k, u, i, f) /\ ~(k = "act" /\ u = t)
    BY <1>2, <1>4 DEF InPlace
<1>6. InPlace("act", t, 0, fd) /\ \A i, f : InPlace("act", t, i, f) => f = fd
    BY <1>4 DEF InPlace
<1>7. \A u \in Thread : \A k, i : InPlace(k, u, i, fd) => k = "act" /\ u = t
    BY <1>6 DEF Inv, Unique
<1>8. Unique'
    BY <1>5 DEF Inv, Unique
<1>9. Covered'
  <2>1. ASSUME NEW f PROVE f \in opened' <=> \E u \in Thread : \E k, i : InPlace(k, u, i, f)'
    <3>1. CASE f = fd
        BY <1>2, <1>5, <1>7, <3>1
    <3>2. CASE f # fd
        BY <1>2, <1>5, <1>6, <3>2 DEF Inv, Covered
    <3> QED
        BY <3>1, <3>2
  <2> QED
      BY <2>1 DEF Covered
<1>10. Counted' /\ LowFds'
    BY <1>2 DEF Inv, Counted, LowFds
<1>11. Steps'
    BY <1>1, <1>2, <1>3 DEF Inv, Steps
<1>12. NoPool'
    BY <1>2, <1>3 DEF Inv, NoPool
<1>13. Pending' = Pending
  <2>1. ASSUME NEW f PROVE f \in Pending' <=> f \in Pending
    <3>1. CASE f = fd
      <4>1. ASSUME NEW u \in Thread PROVE ~(act[u].op = "build" /\ act[u].fd = fd)
        <5>1. u # t => fd \notin InHand(u)
            BY <1>7 DEF InPlace
        <5> QED
            BY <1>1, <5>1 DEF InHand
      <4> QED
          BY <1>2, <1>7, <3>1, <4>1, PendingDef DEF IsPending
    <3>2. CASE f # fd
        BY <1>1, <1>2, <1>3, <1>5, <3>2, PendingDef DEF IsPending
    <3> QED
        BY <3>1, <3>2
  <2> QED
      BY <2>1
<1>14. LimitsHold'
    BY <1>2, <1>13 DEF Inv, LimitsHold
<1> QED
    BY <1>8, <1>9, <1>10, <1>11, <1>12, <1>14 DEF Core

-----------------------------------------------------------------------------
(* Owners and limits.                                                       *)

\* The initial states satisfy the invariant.
LEMMA InitInv == Init => Inv
<1> SUFFICES ASSUME Init PROVE Inv
    OBVIOUS
<1>1. \A t \in Thread : /\ queue[t] = <<>> /\ tasks[t] = <<>> /\ evs[t] = {} /\ evfd[t] = 0
                        /\ act[t].op = "idle" /\ act[t].old = 0
    BY DEF Init, Idle
<1>2. TypeInv
  <2>1. Prealloc \in [Class -> Nat] /\ MaxArrivals \in Nat /\ NumClasses \in Nat
      BY ServerAssumption
  <2>2. PICK f : IsSum(f, Prealloc, NumClasses) /\ Memory(Prealloc) = f[NumClasses]
      BY <2>1, SumExists
  <2>3. total_mem \in Nat /\ total_mem = Memory(Prealloc)
      BY <2>1, <2>2 DEF Init, IsSum
  <2>4. act \in [Thread -> Act] /\ index \in Thread
      BY ActTypes, Constants DEF Init
  <2>5. /\ queue \in [Thread -> Seq(ConnFd)] /\ evfd \in [Thread -> Nat]
        /\ tasks \in [Thread -> Seq(ConnFd)] /\ evs \in [Thread -> SUBSET ConnFd]
        /\ ibuf \in [ConnFd -> Class \cup {0}] /\ obuf \in [ConnFd -> Class \cup {0}]
      BY DEF Init
  <2> QED
      BY <2>1, <2>3, <2>4, <2>5 DEF Init, TypeInv, TypeOK
<1>3. Steps
    BY <1>1 DEF Steps
<1>4. NoPool
    BY <1>1, Constants DEF NoPool, Init
<1>5. \A t \in Thread : InHand(t) = {}
    BY <1>1 DEF InHand
<1>6. \A t \in Thread : \A k, i, f : ~InPlace(k, t, i, f)
    BY <1>1, <1>5 DEF InPlace
<1>7. Unique /\ Covered
    BY <1>6 DEF Unique, Covered, Init
<1>8. Counted /\ LowFds
    BY <1>1, FS_EmptySet DEF Counted, LowFds, Init
<1>9. Pending = {}
    BY DEF Pending, Init
<1>10. LimitsHold
  <2>1. Cardinality(Pending) = 0 /\ MaxConns \in Nat
      BY <1>9, FS_EmptySet, Constants
  <2> QED
      BY <2>1 DEF LimitsHold, Init
<1> QED
    BY <1>2, <1>3, <1>4, <1>7, <1>8, <1>10 DEF Inv

\* Every step preserves the invariant.
LEMMA NextInv == Inv /\ [Next]_vars => Inv'
<1> SUFFICES ASSUME Inv, [Next]_vars PROVE TypeInv' /\ Core'
    BY DEF Core, Inv
<1> USE DEF net, count, queues, loops, bufs, pool, add_io_event, del_io_event
<1>1. CASE UNCHANGED vars
  <2>1. UNCHANGED act /\ UNCHANGED Owners /\ main' = main
      BY <1>1 DEF vars, Owners
  <2>2. TypeInv'
      BY <1>1 DEF Inv, TypeInv, TypeOK, vars
  <2> QED
      BY <2>1, <2>2, RestKeeps
<1>2. CASE Connect
    BY <1>2, MainTypes, RestKeeps DEF Connect, Owners
<1>3. CASE accept_callback
  <2>1. UNCHANGED act /\ UNCHANGED Owners /\ (thread_cnt = 0 => act[0].op = "idle")
      BY <1>3 DEF accept_callback, Owners, Idle
  <2> QED
      BY <1>3, <2>1, MainTypes, RestKeeps
<1>4. CASE WildPool \/ accept_error
    BY <1>4, MainTypes, RestKeeps DEF WildPool, accept_error, Owners
<1>5. ASSUME NEW fd \in ConnFd, PeerCloses(fd) PROVE TypeInv' /\ Core'
    BY <1>5, MainTypes, RestKeeps DEF PeerCloses, Owners
<1>6. ASSUME NEW fd \in ConnFd, do_accept(fd) PROVE TypeInv' /\ Core'
    BY <1>6, MainTypes, AcceptKeeps
<1>7. ASSUME NEW t \in Thread, deal_task_message(t) PROVE TypeInv' /\ Core'
    BY <1>7, ThreadTypes, RecvKeeps
<1>8. ASSUME NEW t \in Thread, Continue(t) PROVE TypeInv' /\ Core'
  <2>1. TypeInv'
      BY <1>8, ThreadTypes
  <2>2. CASE deal_task(t)
      BY <2>1, <2>2, TaskKeeps
  <2>3. CASE TCPConn(t)
      BY <2>1, <2>3, BuildKeeps
  <2>4. CASE revert_old(t) \/ do_read(t) \/ send_data(t) \/ send_refused(t) \/ pop(t) \/ clear(t)
      BY <2>1, <2>4, WorkSteps, WorkKeeps
  <2>5. CASE decrease_conn(t)
      BY <2>1, <2>5, CleanKeeps
  <2>6. CASE close(t)
      BY <2>1, <2>6, CloseKeeps
  <2>7. CASE send_torn(t)
      BY <2>1, <2>7, RestKeeps DEF send_torn, Owners
  <2> QED
      BY <1>8, <2>2, <2>3, <2>4, <2>5, <2>6, <2>7 DEF Continue
<1>9. ASSUME NEW t \in Thread, NEW fd \in ConnFd, read_data(t, fd) \/ read_refused(t, fd) PROVE TypeInv' /\ Core'
    BY <1>9, ThreadTypes, WorkSteps, WorkKeeps
<1>10. ASSUME NEW t \in Thread, NEW fd \in ConnFd, do_write(t, fd) PROVE TypeInv' /\ Core'
  <2>1. CASE \E r : Work(t, r)
      BY <1>10, <2>1, ThreadTypes, WorkKeeps
  <2>2. CASE UNCHANGED <<main, act, Owners>>
      BY <1>10, <2>2, ThreadTypes, RestKeeps
  <2> QED
      BY <1>10, <2>1, <2>2, WorkSteps
<1> QED
    BY <1>1, <1>2, <1>3, <1>4, <1>5, <1>6, <1>7, <1>8, <1>9, <1>10 DEF Next

\* The places of a descriptor are the triples of InPlace.
LEMMA PlacesDef ==
    ASSUME NEW fd, NEW p
    PROVE  p \in Places(fd) <=> \E t \in Thread : \E k, i : p = <<k, t, i>> /\ InPlace(k, t, i, fd)
<1>1. ASSUME NEW t \in Thread, NEW k, NEW i, InPlace(k, t, i, fd) PROVE <<k, t, i>> \in Places(fd)
    BY <1>1 DEF InPlace, Places, InSeq
<1>2. ASSUME p \in Places(fd) PROVE \E t \in Thread : \E k, i : p = <<k, t, i>> /\ InPlace(k, t, i, fd)
    BY <1>2 DEF InPlace, Places, InSeq
<1> QED
    BY <1>1, <1>2

\* In the invariant, an open descriptor has one place and a closed one none.
LEMMA InvOneOwner == Inv => OneOwner
<1> SUFFICES ASSUME Inv PROVE OneOwner
    OBVIOUS
<1>1. ASSUME NEW fd \in ConnFd PROVE Cardinality(Places(fd)) = IF fd \in opened THEN 1 ELSE 0
  <2>1. CASE fd \in opened
    <3>1. PICK t \in Thread : \E k, i : InPlace(k, t, i, fd)
        BY <2>1 DEF Inv, Covered
    <3>2. PICK k, i : InPlace(k, t, i, fd)
        BY <3>1
    <3>3. ASSUME NEW p PROVE p \in Places(fd) <=> p = <<k, t, i>>
        BY <3>2, PlacesDef DEF Inv, Unique
    <3>4. Places(fd) = {<<k, t, i>>}
        BY <3>3
    <3> QED
        BY <2>1, <3>4, FS_Singleton
  <2>2. CASE fd \notin opened
    <3>1. ASSUME NEW p PROVE p \notin Places(fd)
        BY <2>2, PlacesDef DEF Inv, Covered
    <3>2. Places(fd) = {}
        BY <3>1
    <3> QED
        BY <2>2, <3>2, FS_EmptySet
  <2> QED
      BY <2>1, <2>2
<1>2. conns = UNION {evs[t] : t \in Thread}
    BY DEF Inv, Counted
<1> QED
    BY <1>1, <1>2 DEF Inv, Counted, OneOwner

\* For any number of threads, connections and descriptors: from accept() to
\* close() a descriptor is in one place of one thread; conns and _curr_conns
\* count those that are watched; maxConn is passed by no more than the
\* descriptors that waited for their thread, and never without a pool; conns
\* is indexed past its end only when there were more descriptors than maxConn.
THEOREM OwnersSafe == Spec => [](TypeOK /\ OneOwner /\ LimitsHold)
<1>1. Inv => TypeOK /\ OneOwner /\ LimitsHold
    BY InvOneOwner DEF Inv, TypeInv
<1> QED
    BY <1>1, InitInv, NextInv, PTL DEF Spec

-----------------------------------------------------------------------------
(* Buffers.                                                                 *)

\* The connection still has, or may have, its buffers.
Holding(fd) ==
    \E t \in Thread : fd \in evs[t] \/ (act[t].op \in {"ibuf", "obuf"} /\ act[t].fd = fd)

\* While a connection is taken apart its buffers go one after the other.
Emptied ==
    /\ \A fd \in ConnFd : ~Holding(fd) => ibuf[fd] = 0 /\ obuf[fd] = 0
    /\ \A t \in Thread : act[t].op = "obuf" => ibuf[act[t].fd] = 0

Buffers == [c \in Class |-> free[c] + Held(c)]

BufInv == Emptied /\ (run = "ok" => total_mem = Memory(Buffers))

\* What the step does to ibuf and obuf of at most one descriptor, and to the
\* smaller buffer of at most one thread.
OneChange(t, fd) ==
    /\ \A f \in ConnFd : f # fd => ibuf'[f] = ibuf[f] /\ obuf'[f] = obuf[f]
    /\ \A u \in Thread : u # t => act'[u].old = act[u].old

\* Held, before and after such a step.
LEMMA HeldChanges ==
    ASSUME NEW t \in Thread, NEW fd \in ConnFd, OneChange(t, fd), NEW c \in Class
    PROVE  /\ Held(c) \in Nat /\ Held(c)' \in Nat
           /\ Held(c)' + Is(ibuf[fd], c) + Is(obuf[fd], c) + Is(act[t].old, c)
                = Held(c) + Is(ibuf'[fd], c) + Is(obuf'[fd], c) + Is(act'[t].old, c)
<1> DEFINE old == [u \in Thread |-> act[u].old]
           new == [u \in Thread |-> act'[u].old]
<1>1. /\ Count(ibuf, ConnFd, c) \in Nat /\ Count(ibuf', ConnFd, c) \in Nat
      /\ Count(ibuf', ConnFd, c) + Is(ibuf[fd], c) = Count(ibuf, ConnFd, c) + Is(ibuf'[fd], c)
  <2>1. PICK f, g : f = ibuf /\ g = ibuf'
      OBVIOUS
  <2>2. IsFiniteSet(ConnFd) /\ SameBut(f, g, ConnFd, fd)
      BY <2>1, Constants DEF OneChange, SameBut
  <2>3. /\ Count(f, ConnFd, c) \in Nat /\ Count(g, ConnFd, c) \in Nat
        /\ Count(g, ConnFd, c) + Is(f[fd], c) = Count(f, ConnFd, c) + Is(g[fd], c)
      BY <2>2, CountChanges
  <2> QED
      BY <2>1, <2>3
<1>2. /\ Count(obuf, ConnFd, c) \in Nat /\ Count(obuf', ConnFd, c) \in Nat
      /\ Count(obuf', ConnFd, c) + Is(obuf[fd], c) = Count(obuf, ConnFd, c) + Is(obuf'[fd], c)
  <2>1. PICK f, g : f = obuf /\ g = obuf'
      OBVIOUS
  <2>2. IsFiniteSet(ConnFd) /\ SameBut(f, g, ConnFd, fd)
      BY <2>1, Constants DEF OneChange, SameBut
  <2>3. /\ Count(f, ConnFd, c) \in Nat /\ Count(g, ConnFd, c) \in Nat
        /\ Count(g, ConnFd, c) + Is(f[fd], c) = Count(f, ConnFd, c) + Is(g[fd], c)
      BY <2>2, CountChanges
  <2> QED
      BY <2>1, <2>3
<1>3. /\ Count(old, Thread, c) \in Nat /\ Count(new, Thread, c) \in Nat
      /\ Count(new, Thread, c) + Is(old[t], c) = Count(old, Thread, c) + Is(new[t], c)
  <2>1. IsFiniteSet(Thread) /\ SameBut(old, new, Thread, t)
      BY Constants DEF OneChange, SameBut
  <2> HIDE DEF old, new
  <2> QED
      BY <2>1, CountChanges
<1>4. {u \in Thread : act[u].old = c} = {u \in Thread : old[u] = c}
      /\ {u \in Thread : act'[u].old = c} = {u \in Thread : new[u] = c}
    OBVIOUS
<1>5. old[t] = act[t].old /\ new[t] = act'[t].old
    OBVIOUS
<1> HIDE DEF old, new
<1>6. /\ Held(c) = Count(ibuf, ConnFd, c) + Count(obuf, ConnFd, c) + Count(old, Thread, c)
      /\ Held(c)' = Count(ibuf', ConnFd, c) + Count(obuf', ConnFd, c) + Count(new, Thread, c)
    BY <1>4 DEF Held, Count
<1>7. /\ Is(ibuf[fd], c) \in Nat /\ Is(obuf[fd], c) \in Nat /\ Is(act[t].old, c) \in Nat
      /\ Is(ibuf'[fd], c) \in Nat /\ Is(obuf'[fd], c) \in Nat /\ Is(act'[t].old, c) \in Nat
    BY DEF Is
<1> QED
    BY <1>1, <1>2, <1>3, <1>5, <1>6, <1>7

\* A step that moves buffers between the pool and their holders, making none.
LEMMA MovesBalance ==
    ASSUME TypeOK, TypeOK', BufInv, NEW t \in Thread, NEW fd \in ConnFd, OneChange(t, fd),
           total_mem' = total_mem, run = "ok",
           \A c \in Class : free'[c] + Is(ibuf'[fd], c) + Is(obuf'[fd], c) + Is(act'[t].old, c)
                             = free[c] + Is(ibuf[fd], c) + Is(obuf[fd], c) + Is(act[t].old, c)
    PROVE  total_mem' = Memory(Buffers')
<1>1. ASSUME NEW c \in Class PROVE free'[c] + Held(c)' = free[c] + Held(c)
  <2>1. free[c] \in Nat /\ free'[c] \in Nat
      BY DEF TypeOK
  <2>2. /\ Is(ibuf[fd], c) \in Nat /\ Is(obuf[fd], c) \in Nat /\ Is(act[t].old, c) \in Nat
        /\ Is(ibuf'[fd], c) \in Nat /\ Is(obuf'[fd], c) \in Nat /\ Is(act'[t].old, c) \in Nat
      BY DEF Is
  <2>3. /\ Held(c) \in Nat /\ Held(c)' \in Nat
        /\ Held(c)' + Is(ibuf[fd], c) + Is(obuf[fd], c) + Is(act[t].old, c)
             = Held(c) + Is(ibuf'[fd], c) + Is(obuf'[fd], c) + Is(act'[t].old, c)
      BY HeldChanges
  <2> QED
      BY <2>1, <2>2, <2>3
<1>2. Buffers' = Buffers
    BY <1>1 DEF Buffers
<1> QED
    BY <1>2 DEF BufInv

\* A step that makes a buffer of class c.
LEMMA MadeBalance ==
    ASSUME TypeOK, TypeOK', BufInv, NEW t \in Thread, NEW fd \in ConnFd, OneChange(t, fd),
           NEW d \in Class, total_mem' = total_mem + Size[d], run = "ok",
           \A c \in Class : free'[c] + Is(ibuf'[fd], c) + Is(obuf'[fd], c) + Is(act'[t].old, c)
                             = free[c] + Is(ibuf[fd], c) + Is(obuf[fd], c) + Is(act[t].old, c) + Is(d, c)
    PROVE  total_mem' = Memory(Buffers')
<1>1. ASSUME NEW c \in Class
      PROVE  /\ free'[c] + Held(c)' = free[c] + Held(c) + Is(d, c)
             /\ free[c] + Held(c) \in Nat /\ free'[c] + Held(c)' \in Nat
  <2>1. free[c] \in Nat /\ free'[c] \in Nat
      BY DEF TypeOK
  <2>2. /\ Is(ibuf[fd], c) \in Nat /\ Is(obuf[fd], c) \in Nat /\ Is(act[t].old, c) \in Nat
        /\ Is(ibuf'[fd], c) \in Nat /\ Is(obuf'[fd], c) \in Nat /\ Is(act'[t].old, c) \in Nat
        /\ Is(d, c) \in Nat
      BY DEF Is
  <2>3. /\ Held(c) \in Nat /\ Held(c)' \in Nat
        /\ Held(c)' + Is(ibuf[fd], c) + Is(obuf[fd], c) + Is(act[t].old, c)
             = Held(c) + Is(ibuf'[fd], c) + Is(obuf'[fd], c) + Is(act'[t].old, c)
      BY HeldChanges
  <2>4. free'[c] + Is(ibuf'[fd], c) + Is(obuf'[fd], c) + Is(act'[t].old, c)
          = free[c] + Is(ibuf[fd], c) + Is(obuf[fd], c) + Is(act[t].old, c) + Is(d, c)
      OBVIOUS
  <2>5. PICK hp, h, fp, f, dd \in Nat : /\ hp = Held(c)' /\ h = Held(c) /\ fp = free'[c] /\ f = free[c]
                                        /\ dd = Is(d, c)
      BY <2>1, <2>2, <2>3
  <2>6. fp + hp = f + h + dd
      BY <2>2, <2>3, <2>4, <2>5
  <2> QED
      BY <2>5, <2>6
<1>2. PICK n : n = Buffers
    OBVIOUS
<1>3. PICK m : m = Buffers'
    OBVIOUS
<1>4. n \in [Class -> Nat] /\ m \in [Class -> Nat]
    BY <1>1, <1>2, <1>3 DEF Buffers
<1>5. m[d] = n[d] + 1 /\ \A c \in Class : c # d => m[c] = n[c]
    BY <1>1, <1>2, <1>3 DEF Buffers, Is
<1>6. Memory(m) = Memory(n) + Size[d]
    BY <1>4, <1>5, MemoryAdds
<1> QED
    BY <1>2, <1>3, <1>6 DEF BufInv

\* Classes are numbers above 0, the class of no buffer.
LEMMA ClassFacts == 1 \in Class /\ \A d \in Class : d \in Nat \ {0}
BY ServerAssumption DEF Class

\* A step that touches neither buffers nor pool.
LEMMA RestBalance ==
    ASSUME BufInv, run' = "ok" => run = "ok", UNCHANGED <<ibuf, obuf, free, total_mem>>,
           \A u \in Thread : act'[u].old = act[u].old
    PROVE  run' = "ok" => total_mem' = Memory(Buffers')
<1>1. ASSUME NEW c PROVE Held(c)' = Held(c)
  <2>1. {u \in Thread : act'[u].old = c} = {u \in Thread : act[u].old = c}
      OBVIOUS
  <2> QED
      BY <2>1 DEF Held
<1>2. Buffers' = Buffers
    BY <1>1 DEF Buffers
<1> QED
    BY <1>2 DEF BufInv

\* A buffer of class a becomes one that holds class c: what the pool gives,
\* what is left over and what is made add up.
LEMMA GrowAdds ==
    ASSUME TypeOK, NEW c \in Class, NEW a \in Class \cup {0}, Grow(a, c), run = "ok", run' = "ok"
    PROVE  \/ /\ total_mem' = total_mem
              /\ \A d \in Class : free'[d] + Is(Larger(a, c), d) + Is(Leftover(a, c), d) = free[d] + Is(a, d)
           \/ /\ total_mem' = total_mem + Size[c]
              /\ \A d \in Class : free'[d] + Is(Larger(a, c), d) + Is(Leftover(a, c), d)
                                   = free[d] + Is(a, d) + Is(c, d)
<1>0. free \in [Class -> Nat] /\ \A d \in Class : d \in Nat \ {0} /\ free[d] \in Nat
    BY ClassFacts DEF TypeOK
<1>1. CASE a >= c
  <2>1. Larger(a, c) = a /\ Leftover(a, c) = 0 /\ free' = free /\ total_mem' = total_mem
      BY <1>1 DEF Larger, Leftover, Grow, pool
  <2>2. \A d \in Class : Is(0, d) = 0 /\ Is(a, d) \in Nat
      BY <1>0 DEF Is
  <2> QED
      BY <1>0, <2>1, <2>2
<1>2. CASE ~(a >= c)
  <2>1. Larger(a, c) = c /\ Leftover(a, c) = a /\ alloc_buf(c)
      BY <1>2 DEF Larger, Leftover, Grow
  <2>2. \A d \in Class : Is(a, d) \in Nat /\ Is(c, d) \in Nat
      BY DEF Is
  <2>3. CASE free[c] > 0
    <3>1. free' = [free EXCEPT ![c] = @ - 1] /\ total_mem' = total_mem
        BY <2>1, <2>3 DEF alloc_buf
    <3>2. \A d \in Class : free'[d] + Is(c, d) = free[d]
        BY <1>0, <3>1 DEF Is
    <3>3. \A d \in Class : free'[d] \in Nat
        BY <1>0, <2>3, <3>1
    <3> QED
        BY <1>0, <2>1, <2>2, <3>1, <3>2, <3>3
  <2>4. CASE ~(free[c] > 0)
    <3>1. free' = free /\ total_mem' = total_mem + Size[c]
        BY <2>1, <2>4 DEF alloc_buf, pool
    <3> QED
        BY <1>0, <2>1, <2>2, <3>1
  <2> QED
      BY <2>3, <2>4
<1> QED
    BY <1>1, <1>2

\* do_read takes a buffer for what it reads.
LEMMA ReadBalance ==
    ASSUME Inv, TypeOK', BufInv, NEW t \in Thread, NEW fd \in ConnFd, read_data(t, fd), run' = "ok"
    PROVE  total_mem' = Memory(Buffers')
<1>0. TypeOK /\ act \in [Thread -> Act] /\ ibuf \in [ConnFd -> Class \cup {0}]
    BY DEF Inv, TypeInv, TypeOK
<1>1. run = "ok" /\ act[t].op = "idle" /\ obuf' = obuf
    BY DEF read_data, At
<1>2. act[t].old = 0
    BY <1>1 DEF Inv, Steps
<1>3. PICK a \in Class \cup {0} : a = ibuf[fd]
    BY <1>0
<1>4. Larger(a, 1) \in Class
    BY ServerAssumption DEF Larger, Class
<1>5. PICK c \in Class :
         /\ Grow(a, c)
         /\ ibuf' = [ibuf EXCEPT ![fd] = Larger(a, c)]
         /\ act' = [act EXCEPT ![t] = [op |-> IF fd \in eof THEN "clean" ELSE "parse",
                                       fd |-> fd, old |-> Leftover(a, c)]]
    BY <1>3, <1>4 DEF read_data
<1>6. ibuf'[fd] = Larger(a, c) /\ act'[t].old = Leftover(a, c) /\ OneChange(t, fd)
    BY <1>0, <1>1, <1>5 DEF OneChange
<1>7. ASSUME NEW d \in Class
      PROVE  /\ Is(act[t].old, d) = 0 /\ Is(obuf'[fd], d) = Is(obuf[fd], d) /\ Is(obuf[fd], d) \in Nat
             /\ free'[d] \in Nat /\ free[d] \in Nat /\ Is(a, d) \in Nat /\ Is(c, d) \in Nat
             /\ Is(ibuf'[fd], d) \in Nat /\ Is(act'[t].old, d) \in Nat
  <2>1. free'[d] \in Nat /\ free[d] \in Nat /\ d # 0
      BY <1>0, ClassFacts DEF TypeOK
  <2> QED
      BY <1>1, <1>2, <2>1 DEF Is
<1>8. CASE /\ total_mem' = total_mem
           /\ \A d \in Class : free'[d] + Is(Larger(a, c), d) + Is(Leftover(a, c), d) = free[d] + Is(a, d)
  <2>1. ASSUME NEW d \in Class
        PROVE  free'[d] + Is(ibuf'[fd], d) + Is(obuf'[fd], d) + Is(act'[t].old, d)
                 = free[d] + Is(ibuf[fd], d) + Is(obuf[fd], d) + Is(act[t].old, d)
    <3>1. free'[d] + Is(ibuf'[fd], d) + Is(act'[t].old, d) = free[d] + Is(ibuf[fd], d)
        BY <1>3, <1>6, <1>8
    <3> QED
        BY <1>3, <1>7, <3>1
  <2> QED
      BY <1>0, <1>1, <1>6, <1>8, <2>1, MovesBalance
<1>9. CASE /\ total_mem' = total_mem + Size[c]
           /\ \A d \in Class : free'[d] + Is(Larger(a, c), d) + Is(Leftover(a, c), d)
                                = free[d] + Is(a, d) + Is(c, d)
  <2>1. ASSUME NEW d \in Class
        PROVE  free'[d] + Is(ibuf'[fd], d) + Is(obuf'[fd], d) + Is(act'[t].old, d)
                 = free[d] + Is(ibuf[fd], d) + Is(obuf[fd], d) + Is(act[t].old, d) + Is(c, d)
    <3>1. free'[d] + Is(ibuf'[fd], d) + Is(act'[t].old, d) = free[d] + Is(ibuf[fd], d) + Is(c, d)
        BY <1>3, <1>6, <1>9
    <3> QED
        BY <1>3, <1>7, <3>1
  <2> QED
      BY <1>0, <1>1, <1>6, <1>9, <2>1, MadeBalance
<1> QED
    BY <1>0, <1>1, <1>5, <1>8, <1>9, GrowAdds

\* send_message takes a buffer for what it appends.
LEMMA SendBalance ==
    ASSUME Inv, TypeOK', BufInv, NEW t \in Thread, send_data(t), run' = "ok"
    PROVE  total_mem' = Memory(Buffers')
<1>0. TypeOK /\ act \in [Thread -> Act] /\ obuf \in [ConnFd -> Class \cup {0}]
    BY DEF Inv, TypeInv, TypeOK
<1>1. run = "ok" /\ act[t].op \in {"head", "first", "body"} /\ act[t].old = 0 /\ ibuf' = ibuf
    BY DEF send_data, At, Body
<1>2. PICK fd \in ConnFd : fd = act[t].fd
    BY <1>1 DEF Inv, Steps
<1>3. PICK a \in Class \cup {0} : a = obuf[fd]
    BY <1>0
<1>4. 1 \in Class
    BY ServerAssumption DEF Class
<1>5. PICK c \in Class :
         /\ Grow(a, c)
         /\ obuf' = [obuf EXCEPT ![fd] = Larger(a, c)]
         /\ act' = [act EXCEPT ![t] = [op |-> NextOp(t), fd |-> fd, old |-> Leftover(a, c)]]
  <2>1. PICK c \in Class :
           /\ Grow(obuf[act[t].fd], c)
           /\ obuf' = [obuf EXCEPT ![act[t].fd] = Larger(@, c)]
           /\ act' = [act EXCEPT ![t] = [op |-> NextOp(t), fd |-> act[t].fd,
                                         old |-> Leftover(obuf[act[t].fd], c)]]
      BY <1>4 DEF send_data, NextOp
  <2>2. obuf' = [obuf EXCEPT ![fd] = Larger(a, c)]
      BY <1>2, <1>3, <2>1
  <2> QED
      BY <1>2, <1>3, <2>1, <2>2
<1>6. obuf'[fd] = Larger(a, c) /\ act'[t].old = Leftover(a, c) /\ OneChange(t, fd)
    BY <1>0, <1>1, <1>5 DEF OneChange
<1>7. ASSUME NEW d \in Class
      PROVE  /\ Is(act[t].old, d) = 0 /\ Is(ibuf'[fd], d) = Is(ibuf[fd], d) /\ Is(ibuf[fd], d) \in Nat
             /\ free'[d] \in Nat /\ free[d] \in Nat /\ Is(a, d) \in Nat /\ Is(c, d) \in Nat
             /\ Is(obuf'[fd], d) \in Nat /\ Is(act'[t].old, d) \in Nat
  <2>1. free'[d] \in Nat /\ free[d] \in Nat /\ d # 0
      BY <1>0, ClassFacts DEF TypeOK
  <2> QED
      BY <1>1, <2>1 DEF Is
<1>8. CASE /\ total_mem' = total_mem
           /\ \A d \in Class : free'[d] + Is(Larger(a, c), d) + Is(Leftover(a, c), d) = free[d] + Is(a, d)
  <2>1. ASSUME NEW d \in Class
        PROVE  free'[d] + Is(ibuf'[fd], d) + Is(obuf'[fd], d) + Is(act'[t].old, d)
                 = free[d] + Is(ibuf[fd], d) + Is(obuf[fd], d) + Is(act[t].old, d)
    <3>1. free'[d] + Is(obuf'[fd], d) + Is(act'[t].old, d) = free[d] + Is(obuf[fd], d)
        BY <1>3, <1>6, <1>8
    <3> QED
        BY <1>3, <1>7, <3>1
  <2> QED
      BY <1>0, <1>1, <1>6, <1>8, <2>1, MovesBalance
<1>9. CASE /\ total_mem' = total_mem + Size[c]
           /\ \A d \in Class : free'[d] + Is(Larger(a, c), d) + Is(Leftover(a, c), d)
                                = free[d] + Is(a, d) + Is(c, d)
  <2>1. ASSUME NEW d \in Class
        PROVE  free'[d] + Is(ibuf'[fd], d) + Is(obuf'[fd], d) + Is(act'[t].old, d)
                 = free[d] + Is(ibuf[fd], d) + Is(obuf[fd], d) + Is(act[t].old, d) + Is(c, d)
    <3>1. free'[d] + Is(obuf'[fd], d) + Is(act'[t].old, d) = free[d] + Is(obuf[fd], d) + Is(c, d)
        BY <1>3, <1>6, <1>9
    <3> QED
        BY <1>3, <1>7, <3>1
  <2> QED
      BY <1>0, <1>1, <1>6, <1>9, <2>1, MadeBalance
<1> QED
    BY <1>0, <1>1, <1>5, <1>8, <1>9, GrowAdds

\* What revert(a) adds to the pool.
LEMMA RevertAdds ==
    ASSUME TypeOK, NEW a \in Class \cup {0}, revert(a), NEW d \in Class
    PROVE  free'[d] = free[d] + Is(a, d) /\ free[d] \in Nat /\ Is(a, d) \in Nat /\ Is(0, d) = 0
<1>1. free \in [Class -> Nat] /\ d # 0 /\ free[d] \in Nat
    BY ClassFacts DEF TypeOK
<1>2. CASE a = 0
    BY <1>1, <1>2 DEF revert, Is
<1>3. CASE a # 0
    BY <1>1, <1>3 DEF revert, Is
<1> QED
    BY <1>2, <1>3

\* The steps that give a buffer back.
LEMMA RevertBalance ==
    ASSUME Inv, TypeOK', BufInv, NEW t \in Thread,
           revert_old(t) \/ send_refused(t) \/ pop(t) \/ clear(t)
    PROVE  total_mem' = Memory(Buffers')
<1>0. /\ TypeOK /\ act \in [Thread -> Act] /\ ibuf \in [ConnFd -> Class \cup {0}]
      /\ obuf \in [ConnFd -> Class \cup {0}] /\ act[t].old \in Class \cup {0}
    BY DEF Inv, TypeInv, TypeOK, Act
<1>1. run = "ok" /\ total_mem' = total_mem
    BY DEF revert_old, send_refused, pop, clear, At
<1>2. PICK fd \in ConnFd : fd = act[t].fd
    BY DEF revert_old, send_refused, pop, clear, At, Inv, Steps
<1>n. ASSUME NEW d \in Class
      PROVE  /\ free[d] \in Nat /\ free'[d] \in Nat /\ Is(ibuf[fd], d) \in Nat /\ Is(obuf[fd], d) \in Nat
             /\ Is(act[t].old, d) \in Nat
    BY <1>0 DEF TypeOK, Is
<1>3. CASE revert_old(t)
  <2>1. /\ revert(act[t].old) /\ ibuf' = ibuf /\ obuf' = obuf
        /\ act'[t].old = 0 /\ \A u \in Thread : u # t => act'[u] = act[u]
      BY <1>0, <1>3 DEF revert_old, bufs, Act
  <2>2. OneChange(t, fd)
      BY <2>1 DEF OneChange
  <2>3. ASSUME NEW d \in Class
        PROVE  free'[d] + Is(ibuf'[fd], d) + Is(obuf'[fd], d) + Is(act'[t].old, d)
                 = free[d] + Is(ibuf[fd], d) + Is(obuf[fd], d) + Is(act[t].old, d)
    <3>1. free'[d] = free[d] + Is(act[t].old, d) /\ Is(act'[t].old, d) = 0
        BY <1>0, <2>1, RevertAdds
    <3> QED
        BY <1>n, <2>1, <3>1
  <2> QED
      BY <1>0, <1>1, <2>2, <2>3, MovesBalance
<1>4. CASE pop(t) /\ ~(revert(ibuf[act[t].fd]) /\ ibuf' = [ibuf EXCEPT ![act[t].fd] = 0])
  <2>1. free' = free /\ ibuf' = ibuf /\ obuf' = obuf /\ act[t].old = 0 /\ act' = [act EXCEPT ![t] = Idle]
      BY <1>4 DEF pop
  <2>2. \A u \in Thread : act'[u].old = act[u].old
      BY <1>0, <2>1 DEF Idle
  <2> QED
      BY <1>1, <2>1, <2>2, RestBalance DEF BufInv, Buffers, Held
<1>5. CASE pop(t) /\ revert(ibuf[act[t].fd]) /\ ibuf' = [ibuf EXCEPT ![act[t].fd] = 0]
  <2>1. /\ revert(ibuf[fd]) /\ ibuf'[fd] = 0 /\ (\A f \in ConnFd : f # fd => ibuf'[f] = ibuf[f])
        /\ obuf' = obuf /\ act[t].old = 0 /\ act' = [act EXCEPT ![t] = Idle]
      BY <1>0, <1>2, <1>5 DEF pop
  <2>2. \A u \in Thread : act'[u].old = act[u].old
      BY <1>0, <2>1 DEF Idle
  <2>3. OneChange(t, fd)
      BY <2>1, <2>2 DEF OneChange
  <2>4. ASSUME NEW d \in Class
        PROVE  free'[d] + Is(ibuf'[fd], d) + Is(obuf'[fd], d) + Is(act'[t].old, d)
                 = free[d] + Is(ibuf[fd], d) + Is(obuf[fd], d) + Is(act[t].old, d)
    <3>1. free'[d] = free[d] + Is(ibuf[fd], d) /\ Is(ibuf'[fd], d) = 0
        BY <1>0, <2>1, RevertAdds
    <3> QED
        BY <1>n, <2>1, <2>2, <3>1
  <2> QED
      BY <1>0, <1>1, <2>3, <2>4, MovesBalance
<1>6. CASE clear(t) /\ act[t].op = "ibuf"
  <2>1. /\ revert(ibuf[fd]) /\ ibuf'[fd] = 0 /\ (\A f \in ConnFd : f # fd => ibuf'[f] = ibuf[f])
        /\ obuf' = obuf /\ act' = [act EXCEPT ![t].op = "obuf"]
      BY <1>0, <1>2, <1>6 DEF clear, At
  <2>2. \A u \in Thread : act'[u].old = act[u].old
      BY <1>0, <2>1 DEF Act
  <2>3. OneChange(t, fd)
      BY <2>1, <2>2 DEF OneChange
  <2>4. ASSUME NEW d \in Class
        PROVE  free'[d] + Is(ibuf'[fd], d) + Is(obuf'[fd], d) + Is(act'[t].old, d)
                 = free[d] + Is(ibuf[fd], d) + Is(obuf[fd], d) + Is(act[t].old, d)
    <3>1. free'[d] = free[d] + Is(ibuf[fd], d) /\ Is(ibuf'[fd], d) = 0
        BY <1>0, <2>1, RevertAdds
    <3> QED
        BY <1>n, <2>1, <2>2, <3>1
  <2> QED
      BY <1>0, <1>1, <2>3, <2>4, MovesBalance
<1>7. CASE clear(t) /\ act[t].op # "ibuf"
  <2>1. /\ revert(obuf[fd]) /\ obuf'[fd] = 0 /\ (\A f \in ConnFd : f # fd => obuf'[f] = obuf[f])
        /\ ibuf' = ibuf /\ act' = [act EXCEPT ![t].op = "close"]
      BY <1>0, <1>2, <1>7 DEF clear, At
  <2>2. \A u \in Thread : act'[u].old = act[u].old
      BY <1>0, <2>1 DEF Act
  <2>3. OneChange(t, fd)
      BY <2>1, <2>2 DEF OneChange
  <2>4. ASSUME NEW d \in Class
        PROVE  free'[d] + Is(ibuf'[fd], d) + Is(obuf'[fd], d) + Is(act'[t].old, d)
                 = free[d] + Is(ibuf[fd], d) + Is(obuf[fd], d) + Is(act[t].old, d)
    <3>1. free'[d] = free[d] + Is(obuf[fd], d) /\ Is(obuf'[fd], d) = 0
        BY <1>0, <2>1, RevertAdds
    <3> QED
        BY <1>n, <2>1, <2>2, <3>1
  <2> QED
      BY <1>0, <1>1, <2>3, <2>4, MovesBalance
<1>8. CASE send_refused(t) /\ act[t].op # "first"
  <2>1. /\ free' = free /\ ibuf' = ibuf /\ obuf' = obuf /\ act[t].old = 0
        /\ act' = [act EXCEPT ![t] = Doing("pop", act[t].fd)]
      BY <1>8 DEF send_refused, At
  <2>2. \A u \in Thread : act'[u].old = act[u].old
      BY <1>0, <2>1 DEF Doing
  <2> QED
      BY <1>1, <2>1, <2>2, RestBalance DEF BufInv, Buffers, Held
<1>9. CASE send_refused(t) /\ act[t].op = "first"
  <2>1. /\ revert(obuf[fd]) /\ obuf'[fd] = 0 /\ (\A f \in ConnFd : f # fd => obuf'[f] = obuf[f])
        /\ ibuf' = ibuf /\ act[t].old = 0 /\ act' = [act EXCEPT ![t] = Doing("pop", act[t].fd)]
      BY <1>0, <1>2, <1>9 DEF send_refused, At
  <2>2. \A u \in Thread : act'[u].old = act[u].old
      BY <1>0, <2>1 DEF Doing
  <2>3. OneChange(t, fd)
      BY <2>1, <2>2 DEF OneChange
  <2>4. ASSUME NEW d \in Class
        PROVE  free'[d] + Is(ibuf'[fd], d) + Is(obuf'[fd], d) + Is(act'[t].old, d)
                 = free[d] + Is(ibuf[fd], d) + Is(obuf[fd], d) + Is(act[t].old, d)
    <3>1. free'[d] = free[d] + Is(obuf[fd], d) /\ Is(obuf'[fd], d) = 0
        BY <1>0, <2>1, RevertAdds
    <3> QED
        BY <1>n, <2>1, <2>2, <3>1
  <2> QED
      BY <1>0, <1>1, <2>3, <2>4, MovesBalance
<1> QED
    BY <1>3, <1>4, <1>5, <1>6, <1>7, <1>8, <1>9

\* What a thread handles is in no other thread's loop or hands.
LEMMA Alone ==
    ASSUME Inv, NEW t \in Thread, NEW fd, fd \in evs[t] \/ fd \in InHand(t)
    PROVE  \A u \in Thread : u # t => fd \notin evs[u] /\ fd \notin InHand(u)
<1>1. \E k : InPlace(k, t, 0, fd)
    BY DEF InPlace
<1>2. ASSUME NEW u \in Thread, fd \in evs[u] \/ fd \in InHand(u) PROVE \E k : InPlace(k, u, 0, fd)
    BY <1>2 DEF InPlace
<1> QED
    BY <1>1, <1>2 DEF Inv, Unique

\* Every step keeps the buffers with connections that are watched or taken apart.
LEMMA EmptiedStep ==
    ASSUME Inv, TypeOK', BufInv, [Next]_vars
    PROVE  Emptied'
<1> USE DEF net, count, queues, loops, bufs, pool, add_io_event, del_io_event
<1>0. /\ TypeOK /\ act \in [Thread -> Act] /\ evs \in [Thread -> SUBSET ConnFd]
      /\ ibuf \in [ConnFd -> Class \cup {0}] /\ obuf \in [ConnFd -> Class \cup {0}]
    BY DEF Inv, TypeInv, TypeOK
<1>e. Emptied
    BY DEF BufInv
<1>r. ASSUME UNCHANGED <<ibuf, obuf, evs>>,
             \A u \in Thread : /\ act[u].op \in {"ibuf", "obuf"} => act'[u] = act[u]
                               /\ act'[u].op = "obuf" => act'[u] = act[u]
      PROVE  Emptied'
  <2>1. \A f \in ConnFd : Holding(f) => Holding(f)'
      BY <1>r DEF Holding
  <2>2. \A f \in ConnFd : ~Holding(f)' => ibuf'[f] = 0 /\ obuf'[f] = 0
      BY <1>e, <1>r, <2>1 DEF Emptied
  <2>3. \A u \in Thread : act'[u].op = "obuf" => ibuf'[act'[u].fd] = 0
      BY <1>e, <1>r DEF Emptied
  <2> QED
      BY <2>2, <2>3 DEF Emptied
<1>1. CASE UNCHANGED vars
    BY <1>1, <1>r DEF vars
<1>2. CASE Connect \/ accept_callback \/ accept_error \/ WildPool
    BY <1>2, <1>r DEF Connect, accept_callback, accept_error, WildPool
<1>3. ASSUME NEW fd \in ConnFd, PeerCloses(fd) PROVE Emptied'
    BY <1>3, <1>r DEF PeerCloses
<1>4. ASSUME NEW fd \in ConnFd, do_accept(fd) PROVE Emptied'
  <2>1. CASE act' = act
      BY <1>4, <1>r, <2>1 DEF do_accept
  <2>2. CASE act' # act
    <3>1. /\ act' = [act EXCEPT ![0] = Doing("build", fd)] /\ main = "accept" /\ ~(thread_cnt > 0)
          /\ UNCHANGED <<ibuf, obuf, evs>>
        BY <1>4, <2>2 DEF do_accept
    <3>2. thread_cnt = 0 /\ 0 \in Thread
        BY <1>0, <3>1, Constants DEF TypeOK
    <3>3. act[0].op = "idle" /\ act'[0].op = "build" /\ \A u \in Thread : u # 0 => act'[u] = act[u]
        BY <1>0, <3>1, <3>2 DEF Doing, Inv, NoPool
    <3> QED
        BY <1>r, <3>1, <3>3
  <2> QED
      BY <2>1, <2>2
<1>5. ASSUME NEW t \in Thread, deal_task_message(t) \/ deal_task(t) \/ revert_old(t) \/ do_read(t)
      PROVE  Emptied'
  <2>1. UNCHANGED <<ibuf, obuf, evs>> /\ act[t].op \notin {"ibuf", "obuf"}
      BY <1>5 DEF deal_task_message, deal_task, revert_old, do_read, At, Inv, Steps
  <2>2. act'[t].op # "obuf" /\ \A u \in Thread : u # t => act'[u] = act[u]
    <3>1. CASE deal_task_message(t)
        BY <1>0, <3>1 DEF deal_task_message, Doing
    <3>2. CASE deal_task(t)
        BY <1>0, <3>2 DEF deal_task, Doing, Idle
    <3>3. CASE revert_old(t)
        BY <1>0, <2>1, <3>3 DEF revert_old, Act
    <3>4. CASE do_read(t)
        BY <1>0, <3>4 DEF do_read, Doing, Idle
    <3> QED
        BY <1>5, <3>1, <3>2, <3>3, <3>4
  <2> QED
      BY <1>r, <2>1, <2>2
<1>6. ASSUME NEW t \in Thread, TCPConn(t) PROVE Emptied'
  <2>1. /\ UNCHANGED <<ibuf, obuf>> /\ act[t].op = "build" /\ act'[t].op \in {"idle", "tasks"}
        /\ (\A u \in Thread : u # t => act'[u] = act[u])
        /\ \A u \in Thread : evs[u] \subseteq evs'[u]
      BY <1>0, <1>6 DEF TCPConn, At, Idle, Doing
  <2>2. \A f \in ConnFd : Holding(f) => Holding(f)'
      BY <2>1 DEF Holding
  <2>3. \A f \in ConnFd : ~Holding(f)' => ibuf'[f] = 0 /\ obuf'[f] = 0
      BY <1>e, <2>1, <2>2 DEF Emptied
  <2>4. \A u \in Thread : act'[u].op = "obuf" => ibuf'[act'[u].fd] = 0
      BY <1>e, <2>1 DEF Emptied
  <2> QED
      BY <2>3, <2>4 DEF Emptied
<1>w. ASSUME NEW t \in Thread, NEW fd \in ConnFd, fd \in evs[t], UNCHANGED evs,
             act[t].op \notin {"ibuf", "obuf"}, act'[t].op \notin {"ibuf", "obuf"},
             \A u \in Thread : u # t => act'[u] = act[u],
             \A f \in ConnFd : f # fd => ibuf'[f] = ibuf[f] /\ obuf'[f] = obuf[f]
      PROVE  Emptied'
  <2>1. \A f \in ConnFd : Holding(f) => Holding(f)'
      BY <1>w DEF Holding
  <2>2. Holding(fd)'
      BY <1>w DEF Holding
  <2>3. \A f \in ConnFd : ~Holding(f)' => ibuf'[f] = 0 /\ obuf'[f] = 0
      BY <1>e, <1>w, <2>1, <2>2 DEF Emptied
  <2>4. ASSUME NEW u \in Thread, act'[u].op = "obuf" PROVE ibuf'[act'[u].fd] = 0
    <3>1. u # t /\ act'[u] = act[u]
        BY <1>w, <2>4
    <3>2. act[u].fd # fd
        BY <1>w, <2>4, <3>1, Alone DEF InHand
    <3>3. act[u].fd \in ConnFd
        BY <2>4, <3>1 DEF Inv, Steps
    <3> QED
        BY <1>e, <1>w, <2>4, <3>1, <3>2, <3>3 DEF Emptied
  <2> QED
      BY <2>3, <2>4 DEF Emptied
<1>7. ASSUME NEW t \in Thread, send_data(t) PROVE Emptied'
  <2>1. act[t].op \in {"head", "first", "body"} /\ act[t].fd \in ConnFd /\ act[t].fd \in evs[t]
      BY <1>7 DEF send_data, At, Body, Inv, Steps
  <2>2. /\ UNCHANGED <<evs, ibuf>> /\ act'[t].op \in {"first", "body", "pop"}
        /\ \A u \in Thread : u # t => act'[u] = act[u]
        /\ \A f \in ConnFd : f # act[t].fd => obuf'[f] = obuf[f]
      BY <1>0, <1>7 DEF send_data
  <2>3. PICK fd \in ConnFd : fd = act[t].fd
      BY <2>1
  <2> QED
      BY <1>w, <2>1, <2>2, <2>3
<1>8. ASSUME NEW t \in Thread, pop(t) PROVE Emptied'
  <2>1. act[t].op = "pop" /\ act[t].fd \in ConnFd /\ act[t].fd \in evs[t]
      BY <1>8 DEF pop, At, Inv, Steps
  <2>2. /\ UNCHANGED <<evs, obuf>> /\ act'[t].op = "idle"
        /\ \A u \in Thread : u # t => act'[u] = act[u]
        /\ \A f \in ConnFd : f # act[t].fd => ibuf'[f] = ibuf[f]
      BY <1>0, <1>8 DEF pop, Idle
  <2>3. PICK fd \in ConnFd : fd = act[t].fd
      BY <2>1
  <2> QED
      BY <1>w, <2>1, <2>2, <2>3
<1>9. ASSUME NEW t \in Thread, NEW fd \in ConnFd,
             read_data(t, fd) \/ read_refused(t, fd) \/ do_write(t, fd) PROVE Emptied'
  <2>1. /\ act[t].op = "idle" /\ fd \in evs[t] /\ UNCHANGED evs
        /\ act'[t].op \in {"idle", "clean", "parse"}
        /\ (\A u \in Thread : u # t => act'[u] = act[u])
        /\ \A f \in ConnFd : f # fd => ibuf'[f] = ibuf[f] /\ obuf'[f] = obuf[f]
    <3>1. CASE read_data(t, fd)
        BY <1>0, <3>1 DEF read_data, At
    <3>2. CASE do_write(t, fd)
        BY <1>0, <3>2 DEF do_write, At, Doing
    <3>3. CASE read_refused(t, fd)
        BY <1>0, <3>3 DEF read_refused, At, Doing
    <3> QED
        BY <1>9, <3>1, <3>2, <3>3
  <2> QED
      BY <1>w, <2>1
<1>10. ASSUME NEW t \in Thread, decrease_conn(t) PROVE Emptied'
  <2>1. PICK fd \in ConnFd : fd = act[t].fd /\ act[t].op = "clean"
      BY <1>10 DEF decrease_conn, At, Inv, Steps
  <2>2. /\ UNCHANGED <<ibuf, obuf>> /\ act'[t].op = "ibuf" /\ act'[t].fd = fd
        /\ (\A u \in Thread : u # t => act'[u] = act[u] /\ evs'[u] = evs[u])
        /\ evs'[t] = evs[t] \ {fd}
      BY <1>0, <1>10, <2>1 DEF decrease_conn, Doing
  <2>3. \A f \in ConnFd : Holding(f) => Holding(f)'
      BY <2>1, <2>2 DEF Holding
  <2>4. \A f \in ConnFd : ~Holding(f)' => ibuf'[f] = 0 /\ obuf'[f] = 0
      BY <1>e, <2>2, <2>3 DEF Emptied
  <2>5. \A u \in Thread : act'[u].op = "obuf" => ibuf'[act'[u].fd] = 0
      BY <1>e, <2>2 DEF Emptied
  <2> QED
      BY <2>4, <2>5 DEF Emptied
<1>11. ASSUME NEW t \in Thread, clear(t) PROVE Emptied'
  <2>1. PICK fd \in ConnFd : fd = act[t].fd /\ act[t].op \in {"ibuf", "obuf"}
      BY <1>11 DEF clear, At, Inv, Steps
  <2>2. \A u \in Thread : u # t => act'[u] = act[u] /\ fd \notin InHand(u)
    <3>1. fd \in InHand(t)
        BY <2>1 DEF InHand
    <3> QED
        BY <1>0, <1>11, <3>1, Alone DEF clear
  <2>3. CASE act[t].op = "ibuf"
    <3>1. /\ UNCHANGED <<evs, obuf>> /\ act'[t].op = "obuf" /\ act'[t].fd = fd /\ ibuf'[fd] = 0
          /\ \A f \in ConnFd : f # fd => ibuf'[f] = ibuf[f]
        BY <1>0, <1>11, <2>1, <2>3 DEF clear, At, Act
    <3>2. \A f \in ConnFd : Holding(f) => Holding(f)'
        BY <2>1, <2>2, <3>1 DEF Holding
    <3>3. \A f \in ConnFd : ~Holding(f)' => ibuf'[f] = 0 /\ obuf'[f] = 0
        BY <1>e, <3>1, <3>2 DEF Emptied
    <3>4. ASSUME NEW u \in Thread, act'[u].op = "obuf" PROVE ibuf'[act'[u].fd] = 0
      <4>1. CASE u = t
          BY <3>1, <4>1
      <4>2. CASE u # t
        <5>1. act[u].op = "obuf" /\ act[u].fd # fd /\ act[u].fd \in ConnFd /\ act'[u].fd = act[u].fd
            BY <2>2, <3>4, <4>2 DEF InHand, Inv, Steps
        <5> QED
            BY <1>e, <3>1, <5>1 DEF Emptied
      <4> QED
          BY <4>1, <4>2
    <3> QED
        BY <3>3, <3>4 DEF Emptied
  <2>4. CASE act[t].op = "obuf"
    <3>1. /\ UNCHANGED <<evs, ibuf>> /\ act'[t].op = "close" /\ obuf'[fd] = 0 /\ ibuf[fd] = 0
          /\ \A f \in ConnFd : f # fd => obuf'[f] = obuf[f]
        BY <1>0, <1>11, <1>e, <2>1, <2>4 DEF clear, At, Act, Emptied
    <3>2. \A f \in ConnFd : f # fd /\ Holding(f) => Holding(f)'
        BY <2>1, <2>2, <3>1 DEF Holding
    <3>3. \A f \in ConnFd : ~Holding(f)' => ibuf'[f] = 0 /\ obuf'[f] = 0
        BY <1>e, <3>1, <3>2 DEF Emptied
    <3>4. \A u \in Thread : act'[u].op = "obuf" => ibuf'[act'[u].fd] = 0
        BY <1>e, <2>2, <3>1 DEF Emptied
    <3> QED
        BY <3>3, <3>4 DEF Emptied
  <2> QED
      BY <2>1, <2>3, <2>4
<1>12. ASSUME NEW t \in Thread, close(t) PROVE Emptied'
  <2>1. /\ UNCHANGED <<ibuf, obuf, evs>> /\ act[t].op = "close" /\ act'[t].op = "idle"
        /\ \A u \in Thread : u # t => act'[u] = act[u]
      BY <1>0, <1>12 DEF close, At, Idle
  <2> QED
      BY <1>r, <2>1
<1>13. ASSUME NEW t \in Thread, send_refused(t) PROVE Emptied'
  <2>1. act[t].op \in {"head", "first", "body"} /\ act[t].fd \in ConnFd /\ act[t].fd \in evs[t]
      BY <1>13 DEF send_refused, At, Inv, Steps
  <2>2. /\ UNCHANGED <<evs, ibuf>> /\ act'[t].op = "pop"
        /\ \A u \in Thread : u # t => act'[u] = act[u]
        /\ \A f \in ConnFd : f # act[t].fd => obuf'[f] = obuf[f]
      BY <1>0, <1>13 DEF send_refused, Doing
  <2>3. PICK fd \in ConnFd : fd = act[t].fd
      BY <2>1
  <2> QED
      BY <1>w, <2>1, <2>2, <2>3
<1>14. ASSUME NEW t \in Thread, send_torn(t) PROVE Emptied'
    BY <1>14, <1>r DEF send_torn
<1> QED
    BY <1>1, <1>2, <1>3, <1>4, <1>5, <1>6, <1>7, <1>8, <1>9, <1>10, <1>11, <1>12, <1>13, <1>14
       DEF Next, Continue

\* Every step keeps _total_mem equal to the memory of the buffers.
LEMMA BalanceStep ==
    ASSUME Inv, TypeOK', BufInv, [Next]_vars
    PROVE  run' = "ok" => total_mem' = Memory(Buffers')
<1> USE DEF net, count, queues, loops, bufs, pool, add_io_event, del_io_event
<1>0. TypeOK /\ act \in [Thread -> Act]
    BY DEF Inv, TypeInv, TypeOK
<1>s. \A u \in Thread : act[u].old # 0 => act[u].op \in {"parse", "first", "body", "pop", "clean"}
    BY DEF Inv, Steps
<1>r. ASSUME UNCHANGED <<ibuf, obuf, free, total_mem>>, run = "ok",
             \A u \in Thread : act'[u].old = act[u].old
      PROVE  run' = "ok" => total_mem' = Memory(Buffers')
    BY <1>r, RestBalance
<1>1. CASE UNCHANGED vars
    BY <1>1, RestBalance DEF vars
<1>2. CASE Connect \/ accept_callback \/ accept_error \/ WildPool
    BY <1>2, <1>r DEF Connect, accept_callback, accept_error, WildPool
<1>3. ASSUME NEW fd \in ConnFd, PeerCloses(fd) PROVE run' = "ok" => total_mem' = Memory(Buffers')
    BY <1>3, <1>r DEF PeerCloses
<1>4. ASSUME NEW fd \in ConnFd, do_accept(fd) PROVE run' = "ok" => total_mem' = Memory(Buffers')
  <2>1. CASE act' = act
      BY <1>4, <1>r, <2>1 DEF do_accept
  <2>2. CASE act' # act
    <3>1. /\ act' = [act EXCEPT ![0] = Doing("build", fd)] /\ main = "accept" /\ ~(thread_cnt > 0)
          /\ UNCHANGED <<ibuf, obuf, free, total_mem>> /\ run = "ok"
        BY <1>4, <2>2 DEF do_accept
    <3>2. act[0].op = "idle" /\ 0 \in Thread
        BY <1>0, <3>1, Constants DEF TypeOK, Inv, NoPool
    <3>3. \A u \in Thread : act'[u].old = act[u].old
        BY <1>0, <1>s, <3>1, <3>2 DEF Doing
    <3> QED
        BY <1>r, <3>1, <3>3
  <2> QED
      BY <2>1, <2>2
<1>5. ASSUME NEW t \in Thread,
             deal_task_message(t) \/ deal_task(t) \/ TCPConn(t) \/ do_read(t) \/ decrease_conn(t) \/ close(t)
      PROVE  run' = "ok" => total_mem' = Memory(Buffers')
  <2>1. UNCHANGED <<ibuf, obuf, free, total_mem>> /\ run = "ok" /\ act[t].old = 0
    <3>1. CASE deal_task_message(t) \/ deal_task(t) \/ TCPConn(t) \/ close(t)
        BY <1>s, <3>1 DEF deal_task_message, deal_task, TCPConn, close, At
    <3>2. CASE do_read(t) \/ decrease_conn(t)
        BY <3>2 DEF do_read, decrease_conn, At
    <3> QED
        BY <1>5, <3>1, <3>2
  <2>2. \A u \in Thread : act'[u].old = act[u].old
    <3>1. CASE deal_task_message(t)
        BY <1>0, <2>1, <3>1 DEF deal_task_message, Doing
    <3>2. CASE deal_task(t)
        BY <1>0, <2>1, <3>2 DEF deal_task, Doing, Idle
    <3>3. CASE TCPConn(t)
        BY <1>0, <2>1, <3>3 DEF TCPConn, Doing, Idle
    <3>4. CASE do_read(t)
        BY <1>0, <2>1, <3>4 DEF do_read, Doing, Idle
    <3>5. CASE decrease_conn(t)
        BY <1>0, <2>1, <3>5 DEF decrease_conn, Doing
    <3>6. CASE close(t)
        BY <1>0, <2>1, <3>6 DEF close, Idle
    <3> QED
        BY <1>5, <3>1, <3>2, <3>3, <3>4, <3>5, <3>6
  <2> QED
      BY <1>r, <2>1, <2>2
<1>6. ASSUME NEW t \in Thread, revert_old(t) \/ send_refused(t) \/ pop(t) \/ clear(t)
      PROVE  run' = "ok" => total_mem' = Memory(Buffers')
    BY <1>6, RevertBalance
<1>7. ASSUME NEW t \in Thread, send_data(t) PROVE run' = "ok" => total_mem' = Memory(Buffers')
    BY <1>7, SendBalance
<1>8. ASSUME NEW t \in Thread, NEW fd \in ConnFd, read_data(t, fd)
      PROVE  run' = "ok" => total_mem' = Memory(Buffers')
    BY <1>8, ReadBalance
<1>9. ASSUME NEW t \in Thread, NEW fd \in ConnFd, read_refused(t, fd) \/ do_write(t, fd)
      PROVE  run' = "ok" => total_mem' = Memory(Buffers')
  <2>1. UNCHANGED <<ibuf, obuf, free, total_mem>> /\ run = "ok" /\ act[t].old = 0
      BY <1>9, <1>s DEF read_refused, do_write, At
  <2>2. \A u \in Thread : act'[u].old = act[u].old
      BY <1>0, <1>9, <2>1 DEF read_refused, do_write, Doing
  <2> QED
      BY <1>r, <2>1, <2>2
<1>10. ASSUME NEW t \in Thread, send_torn(t) PROVE run' = "ok" => total_mem' = Memory(Buffers')
    BY <1>10, <1>r DEF send_torn
<1> QED
    BY <1>1, <1>2, <1>3, <1>4, <1>5, <1>6, <1>7, <1>8, <1>9, <1>10 DEF Next, Continue

\* At the start the pool has what the constructor made, and nothing is held.
LEMMA InitBuf == Init => BufInv
<1> SUFFICES ASSUME Init PROVE BufInv
    OBVIOUS
<1>1. \A t \in Thread : act[t].old = 0 /\ act[t].op = "idle"
    BY DEF Init, Idle
<1>2. Emptied
    BY <1>1 DEF Emptied, Init
<1>3. ASSUME NEW c \in Class PROVE free[c] + Held(c) = Prealloc[c]
  <2>1. c # 0 /\ Prealloc[c] \in Nat
      BY ServerAssumption, ClassFacts
  <2>2. /\ {fd \in ConnFd : ibuf[fd] = c} = {} /\ {fd \in ConnFd : obuf[fd] = c} = {}
        /\ {t \in Thread : act[t].old = c} = {}
      BY <1>1, <2>1 DEF Init
  <2>3. PICK z : z = {}
      OBVIOUS
  <2>4. Held(c) = Cardinality(z) + Cardinality(z) + Cardinality(z)
      BY <2>2, <2>3 DEF Held
  <2>5. Held(c) = 0
    <3>1. Cardinality(z) = 0
        BY <2>3, FS_EmptySet
    <3> QED
        BY <2>4, <3>1
  <2> QED
      BY <2>1, <2>5 DEF Init
<1>4. Buffers = Prealloc
    BY <1>3, ServerAssumption DEF Buffers
<1> QED
    BY <1>2, <1>4 DEF BufInv, Init

\* A descriptor nobody has open has no place, hence no buffers.
LEMMA BufBalanced == Inv /\ BufInv => PoolBalanced
<1> SUFFICES ASSUME Inv, BufInv PROVE PoolBalanced
    OBVIOUS
<1>1. ASSUME NEW fd \in ConnFd, fd \notin opened PROVE ibuf[fd] = 0 /\ obuf[fd] = 0
  <2>1. \A t \in Thread : \A k, i : ~InPlace(k, t, i, fd)
      BY <1>1 DEF Inv, Covered
  <2>2. \A t \in Thread : fd \notin evs[t] /\ fd \notin InHand(t)
      BY <2>1 DEF InPlace
  <2>3. ~Holding(fd)
      BY <2>2 DEF Holding, InHand
  <2> QED
      BY <2>3 DEF BufInv, Emptied
<1> QED
    BY <1>1 DEF PoolBalanced, BufInv, Buffers

\* For any number of threads and any sizes: however the threads allocate,
\* grow, shrink and release their buffers, _total_mem is the memory of the
\* buffers in the pool and of those held, and a closed connection holds none.
THEOREM PoolSafe == Spec => []PoolBalanced
<1>1. Init => Inv /\ BufInv
    BY InitInv, InitBuf
<1>2. Inv /\ BufInv /\ [Next]_vars => (Inv /\ BufInv)'
  <2> SUFFICES ASSUME Inv, BufInv, [Next]_vars PROVE Inv' /\ BufInv'
      OBVIOUS
  <2>1. Inv' /\ TypeOK'
      BY NextInv DEF Inv, TypeInv
  <2> QED
      BY <2>1, EmptiedStep, BalanceStep DEF BufInv
<1> QED
    BY <1>1, <1>2, BufBalanced, PTL DEF Spec
=============================================================================
