# Verification of lb-rpc

TLA+ modules for the client API, the load balancing agent, the DNS service, the
reporter service and the reactor of lb-rpc, the TLC runs that check them on small
instances, and TLAPS proofs of their main invariants. Paths below are relative
to `src/`.

## The system

A *mod* is a pair modid/cmdid; its *hosts* are the machines that serve it.

| Part | State | Operations | Talks to |
|---|---|---|---|
| Client API (`api/cpp`) | three UDP sockets | get_host, get_route, report | agent, UDP |
| `lb_agent` UDP servers, RouteLB | 3 maps mod -> LoadBalance, a mutex each | get_host, get_route, report_host, update_host, reset_lb_status | LoadBalance, queues |
| `lb_agent` LoadBalance, HostInfo | host map, idle and overload queue, counters | pick_one_host, update, report, commit, pull, get_all_hosts | dns_queue, report_queue |
| `lb_agent` dns client | queue, TCP client | new_dns_request, deal_recv_route, conn_init | DNS service, TCP |
| `lb_agent` reporter client | queue, TCP client | new_report_request | reporter, TCP |
| `dns` service | book list, push list, a list per connection | get_route, create/clear_subscribe, publish, push_change_task | agents, pool threads |
| `dns` Route | two tables, version | get_hosts, load_version, load_route_data, swap, load_changes, remove_changes | MySQL |
| `reporter` | store threads, a queue each | get_report_status, store | MySQL |
| `reactor` | event loops, thread pool, queues, TCP/UDP endpoints, buffer pool | see the source | everything above |
| `web` | - | writes RouteData, RouteChange, RouteVersion | MySQL |

A client asks the agent for a host and reports how the call went. The agent
keeps the hosts of a mod in two queues and moves them by the reports. Routes
come from the DNS service: pulled when a mod is new or its route is old, pushed
when the database changes. The reactor gives each thread an event loop that runs
one callback at a time; threads hand each other messages through ThreadQueues.

What is hard here: the UDP threads and the dns client thread interleave on
RouteLB objects; a connection may be lost at any moment with requests in a
queue, a buffer or on the wire; a push crosses three locks, one queue per thread
and descriptors that the kernel reuses; hosts move between queues on counters
with seeds, streaks, windows and timeouts; messages arrive in pieces and are
cut by broken connections; threads share a buffer pool, a count of connections
and an index without a lock; several variables are used uninitialised.
`PROJECT.json` lists these hazards with their lines.

What makes each part correct: a host is in one queue, the one its counters call
for, and clients get only hosts of the last route; a pull is never forgotten; the
subscription lists agree and every published change reaches the subscribers; the
table never goes back and follows every write of the database; a report is
stored once or dropped at a known place; a call gets its own answer and returns;
requests are handled whole and answers in order; a descriptor has one owner and no
buffer is lost.

## Modules

`LoadBalance` - one LoadBalance object. `host_map`, `idle_list`,
`overload_list`, `access_cnt` are the members of the class without their
underscore; `info` is the HostInfo of every key. Actions: `pick_one_host` (five
paths of the code in four disjuncts), `update`, `report_host` (`report` and the
`commit` that always follows it), `get_all_hosts`, and `Tick` for time(NULL).
All run under the RouteLB's mutex and are atomic. `freed` are the keys whose
HostInfo `update` deleted and left in the map; touching one sets `undef`, after
which nothing happens. A new HostInfo has an arbitrary `idle_ts` (`JunkTs`), a new
object an arbitrary `access_cnt`. Rates are integer percentages, compared by
multiplication.

`HostTable` - the abstract specification: a set of served hosts that only routes
change, answers from that set. `LoadBalance` implements it with
`served <- host_map \ freed`.

`RouteLB` - the maps of the three RouteLBs, the UDP threads, the dns client
thread and the wire. A LoadBalance object is reduced to empty, status and
freshness. `new_dns_request` drops what send_message refuses (no connection, no
room); `clean_conn` loses the wire and keeps the output buffer; `connected` starts
`conn_init`, whose resets (`reset_lb_status`) are one step per RouteLB.
`DnsAnswer` and `DnsPush` are the service as the agent sees it.

`SubscribeList` - the DNS service: handlers in pool threads, the two shared
lists, the database thread. A callback is cut where it touches what other
threads touch: get_route into `subscribe` and `get_hosts`, clean_conn into
`clean_conn`, `unsubscribe` per mod and `close`, push_change_task into
`make_publish_map` and `push` per route, publish into `publish` and
`send_task` per thread. While a thread is inside a callback (`InLoop` false) it
starts no other. Hosts of a mod are a generation number; `seen` and `published`
are history. make_publish_map increments an iterator whose element it erased:
after the first match it may take any subset of the rest, or crash
(`BadIterator`).

`DnsRoute` - the database, the site that writes it and the thread of the DNS
service that watches it. Nobody uses a transaction: every SQL statement and
every reading of the clock is a step, and any statement may fail. A request of the
site (`req`) writes RouteData (`Begin`), then a RouteChange row, then the version;
`HandlerDelete` only the data. The watcher walks through check_route_changes
(`watcher` is its place): `VersionChanged`, `load_route_data` or `load_fails`, `swap`,
`load_changes`, `publish`, `remove_changes`; or `VersionUnchanged` and, when the
last load is old enough, the periodic load. Hosts are generation numbers; a row
keeps, as history, the generation it stands for; `silent` is history too: mods
changed without a version that the service would notice (deletions, failed
statements, a version equal to the last one). `publish` is refined by
SubscribeList.

`ReportPath` - a ReportStatusRequest on its way from `commit` to the database:
the report_queue and reporter client of each agent (`new_report_request`,
`do_write`, `clean_conn`, `connection_delay`), the pool threads of the service
(`get_report_status`, then get_thread in three steps: `increment` into a register,
`wrap`, which tests index_ and sets it back at once, `send`), the store threads (`thread_report`, `store`, `store_fails`). `index` is
shared without a lock; a register past the array is `SendWild`. `stored`, `lost`,
`picked`, `overlapped` are history.

`ApiAgent` - the API calls and the agent's UDP servers. A call is cut at its
recvfrom: `get_host`, `get_route`, `reg_init` send, `recv_host`, `recv_route`,
`refused`, `interrupted` end it, `retry` is the next try of reg_init. Sockets have
a capacity and drop what does not fit; a port that is not bound leaves an error for
the next call. `start_UDP_server` and `main` come in any order, since main() starts
the server threads before it creates dns_queue. `serve` and `report_cb` are the
handlers; what they know of a mod is reduced to whether it has hosts and, if not,
whether it is being pulled or was reset (`reset_lb_status`); RouteLB and LoadBalance
have the rest. `send_message` does not send an answer that is too large, and drops one that
finds the client's socket full. The agent ends by a request that is `Fatal` (a pull
before dns_queue exists, or get_host of an object without hosts that was reset,
which fails the assertion that `route_lb_assert` finds) or by `exit` of another thread.
`lost` is history: the calls of which a datagram was lost, and why.

`TCPStream` - one TCPClient and its TCPConn over a byte stream. A message is a
sequence of units, header and body; reads and writes move any number of them.
`client_*` and `conn_*` are the callbacks and send_message of the two classes
(`c_`, `s_` their buffers); the loop of do_read is one `parse` step per message. The
server waits for a whole request, or closes the connection if its length is over
MESSAGE_LENGTH_LIMIT (`conn_refuse`); the client runs its handler as soon as the header
is there (`client_handle`), and ends if the body was not: `partial` is the history of that.
`do_connect`, `clean_conn`, `connection_delay` make the connection again and keep the
buffers; `out` and `watch` are the events registered. `Cut` and `Established` are the
network. Units that are no header are read as one by `conn_misread`, with every
outcome the arbitrary length allows. A failed assertion is `Abort`.

`TCPServer` - accept and the connection limit in the main thread, task queues with
their eventfd, the threads that build, serve and close connections, and the shared
buffer pool. `act` is what a thread is in the middle of: its steps end where it
takes or releases a lock. `thread_cnt` 0 is the server without a pool, in which
the main thread does everything, and whose uninitialised pool pointer is
`WildPool`. A buffer is the class of its capacity; `Leftover` is the smaller buffer
that growing leaves to be returned. What is larger than the largest class gets no buffer:
`read_refused` closes the connection, `send_refused` drops the answer, and its rollback
can leave obuf `torn`, on which the next write or answer fails an assertion. `accept_error`
is the exit of do_accept. `overrun`, `peak`, `waiting` are history.

How they fit: `ApiAgent`'s `serve` is refined by `RouteLB` and `LoadBalance`,
`RouteLB`'s and `ReportPath`'s connections by `TCPStream`, `SubscribeList`'s
accepted connections by `TCPServer`, `DnsRoute`'s publish by `SubscribeList`. Except
for HostTable these are abstractions by hand, not checked refinements.

The `*Proofs` modules hold the theorems, `MC*` the values for TLC.

## Runs

| Run | Shows |
|---|---|
| `load_balance` | type, QueuesPartition, NoOverdueSwitch, AnswerFromRoute, refinement of HostTable, OverloadProbed, IdleServed |
| `route_lb` | type, PullAccounted, PullEnds |
| `subscribe` | type, BookMatches, PushTargetsOpen, UpdateOnItsWay |
| `subscribe_live` | PushDelivered |
| `dns_route` | type, WriteOnItsWay, RowsLoaded, TableNeverOlder, TableCatchesUp |
| `report_path` | type, ReportAccounted, LaterReportWins, RoundRobin, ReportSettles |
| `api_agent` | type, HostAnswerOwn, InStep, CallReturns |
| `tcp_stream` | type, RequestsWhole, AnswersGiven, EventsMatch, AbortCauses, RequestAnswered |
| `tcp_server` | type, OneOwner, PoolBalanced, LimitsHold, CloseNoticed |

Violated, each by what the code does against what a comment says:

| Run | Property | Cause |
|---|---|---|
| `lb_host_map` | HostMapIsRoute | update() deletes the HostInfo and keeps the key |
| `route_lb_assert` | AssertionHolds | conn_init resets objects that have no hosts yet |
| `subscribe_stale` | PushToSubscribers | closing leaves entries in _push_list |

Other places where code and text differ. The models do what the code does, and
the passing properties are stated around it:

- `lb_agent/conf/lb_agent.conf:17` says a few failures of a new host are tolerated; its
  idle_ts is not initialised (`lb_agent/include/host_info.h:8`), so its window may
  look expired and one failure overloads it.
- `lb_agent/conf/lb_agent.conf:20` gives init_err_cnt; it is never read
  (`lb_agent/src/main_server.cpp:35`), so one success makes an overloaded host idle.
- `dns/src/subscribe.cpp:46` walks over all descriptors to push to; the iterator is
  used after erase (`:56`) and may pass some over.
- `reactor/src/tcp_server.cpp:173` says maxConn+3 elements suffice for conns; queues,
  epoll instances and other sockets use descriptors too (`overrun` in LimitsHold).
- `reactor/include/tcp_server.h:71` calls maxConn the greatest number of clients;
  connections that wait to be built are not counted.
- `reactor/src/tcp_conn.cpp:89` closes a connection for a message over
  MESSAGE_LENGTH_LIMIT, which TCPClient::send_message (`reactor/src/tcp_client.cpp:289`)
  takes as long as its buffer has room (`toolong` in RequestAnswered).
- `reactor/src/tcp_client.cpp:84` says the body has been dealt with; the handler may have
  run on a part of it (`partial` in AnswersGiven).
- `reactor/src/tcp_conn.cpp:96` says an incomplete message should be discarded; the
  code waits for the rest.

Bounds. LoadBalance: two hosts meet in every pair of queue positions and one
leaves while the other stays; three calls per window pass every threshold (streak
of 2, rates of 50 and 70 percent, seed 2); three seconds pass both timeouts of 2;
`MaxInt` is 2 so that access_cnt wraps. RouteLB: two mods in different RouteLBs, so
that one is reset before the other; a buffer of one request, so that it fills; two
messages per queue. SubscribeList: two descriptors and two threads, reuse of a
descriptor, two messages per queue, one new generation; the liveness run has
one thread, which both descriptors share. DnsRoute: one mod, two requests that
overlap, two seconds on the clock, so that times repeat and also differ, two rows,
a periodic load every two seconds. ReportPath: two agents on two pool threads
overlap in get_thread; one agent has two reports and two connections, so that
reports overtake each other; a buffer of one report fills. ApiAgent: three calls
and sequence numbers modulo 2, so that an answer can be a full turn old; sockets of
two datagrams, so that a third is dropped; two signals; two tries of reg_init. One
client and one server: clients share only the server's socket, which one fills as
well. TCPStream: headers and frames of 2 and 3 units, buffers that hold between one
and three messages, a wire of 4 units that fills, so that every split occurs; the
second of four requests has no body, the third one a body over the limit; one break. TCPServer: two threads, a limit of
one connection that three clients pass, two descriptors, so that one is used again
and the array overrun, two classes of buffers, one of each made at the start, memory for a
few. No other descriptors (`OtherFds` 0): with one, a limit of one would make the last
part of LimitsHold true of every state, and a limit of two is too large for TLC; the
theorem `OwnersSafe` has every value.

Deadlock is not checked where the modelled process may end (undefined
behaviour, failed assertion, crash) or a bound stops the clock and the counters.

Fairness. LoadBalance: clients keep asking (`WF(pick_one_host)`); nothing else is
assumed. RouteLB: a pending event is handled (the loop runs through all fired
events), a pending connect() has an outcome, the service answers; nothing makes a
lost connection come back. SubscribeList: a callback that began goes on (weak);
a thread's queue and the tasks it took get their turn among other events (strong,
since connection callbacks disable them in between: epoll is level triggered and
returns every ready descriptor, and the loop runs tasks after every batch); the
database thread goes on. DnsRoute: the watcher goes on (its loop never ends), and a
load that is tried for ever succeeds at last (strong): TableCatchesUp needs a
database that answers now and then. Nothing is assumed of the site. ReportPath:
every thread that has something to do goes on, and a pending connect() has an
outcome; a statement may fail for ever. ApiAgent: a call goes on when it can, so do
the server threads and main(); no datagram is assumed to arrive. TCPStream: the
loops call what epoll reports (weak; level triggered), connect() has an outcome.
TCPServer: a thread goes on with what it has begun (weak); a ready descriptor gets
its turn though others keep the loop busy (strong, as above); nothing is assumed
of the main thread.

## Proofs

For every value of the constants that satisfies the named assumptions
(`HostAssumption`, `ConfigAssumption`, `RouteAssumption`, `SubscribeAssumption`,
`DnsRouteAssumption`, `ReportAssumption`, `ApiAssumption`, `NoneAssumption`,
`StreamAssumption`, `ServerAssumption`):

- `QueuesSafe`: type and QueuesPartition. Inductive with `Live \subseteq route`
  (`IndInv`). The lemmas on `Kept`, `Orderings` and appending to an injective
  sequence say what list::remove and push_back do to a list without repetition.
- `CountersSafe`: NoOverdueSwitch and CountersAgree. The invariant restates both
  per HostInfo; counting a success cannot make an idle host overdue nor a failure
  an overloaded one, and the seeds start below the thresholds.
- `OutputsSafe`: AnswerFromRoute and OneRowPerHost, from `IndInv`: answers are list
  elements, rows are made from the lists after the step.
- `Refinement`: Spec implies HostTable's specification, action by action.
- `PullsSafe`: type and PullAccounted, inductive together. Losing the connection
  loses requests, but then conn is not "up"; becoming "up" sets reset to 0, which
  puts every RouteLB ahead of its reset.
- `SubscribersSafe`: type, BookMatches, PushTargetsOpen. Needs `Queued`: a descriptor
  in a task queue is an accepted connection of that thread, so that building it
  cannot clear the list of an open one.
- `UpdatesSafe`: UpdateOnItsWay. Needs `Behind`: published generations never pass
  the table, so that a lookup always catches up.
- `TableSafe`: type and TableNeverOlder, from `Ordered`: the table is not ahead of the
  database, and a loaded map that waits for swap is between the two.
- `WritesSafe`: WriteOnItsWay, inductive with `Ordered`, which swap needs: it cannot
  replace a current table by an older one.
- `RowsSafe`: RowsLoaded, from `RowInv`: no stored time is ahead of the clock, so a row
  whose time is before the version in hand had its data in RouteData before
  the load for that version. The invariant has to speak of rows that requests
  hold and have not stored yet, since they may be stored at any later time.
- `StreamSafe`: RequestsWhole and AbortCauses. The invariant speaks of the whole
  stream of requests that have not been handled, `Stream`, from the server's input
  buffer over the wire to the client's output buffer: it ends where a request
  ends, every unit is followed by the rest of its request, requests are in order
  and later than those handled (`Flow`); unless torn, it also begins at a request
  while there is a connection (`Start`). Reading and writing leave it as it is,
  handling takes a whole request off its front, a break leaves a suffix.
- `TCPStreamProofs!AnswersSafe`: type and AnswersGiven, by the same argument in the
  other direction: `Answers` runs from the client's input buffer over the wire to
  what the server has not sent. Unless clean_conn kept half a header (`stale`) it
  begins where an answer begins (`Fresh`); as long as no request was misread its
  answers are in order, later than those handed on, and of handled requests
  (`AStrict`, `AFrom`). After a stale start it begins with a part of a header, behind
  which a new answer begins (`Left`): the misreading that AnswersGiven allows.
  Running the handler on a part of an answer ends the client, so that it is the last.
- `EventsSafe`: EventsMatch, inductive with `out = "write" => connected`.
- `RoundRobinSafe`: RoundRobin. As long as get_thread was never entered twice at a
  time, the store threads before the turn have been picked once more than the
  others (`Turn`); the turn is index_, or the register of the thread inside.
- `ReportsSafe`: type, ReportAccounted and LaterReportWins. `At` gives the stages of
  the way a number, from lost and queue down to stored. The invariant `PathInv`:
  a report that was issued is somewhere (`Known`) and in one place only
  (`Unique`), every queue is in order (`Rising`), and of two reports of one connection
  the one further on is the earlier - past the pool threads, of one store thread
  (`Order`). Order needs to know that the reports of a connection are handled by one
  pool thread (`Homes`). Every action moves one report by one stage, or a part of
  a queue at once; the lemmas `GoesOn` and `StillStep` carry the invariant over such moves.
- `ApiAgentProofs!AnswersSafe`: HostAnswerOwn, for any width of the sequence number. Every
  get_host on the way is no further behind the next number than its call is behind
  the next call (`Near`); equal numbers are thus the same call or a full turn apart.
- `StepsSafe`: type and InStep. InStep is not inductive: a refused call could leave
  an answer behind if one were on the way, and a reception could find another
  call's. `Good` adds that nothing is on the way for a refused call beyond what
  signals left, and that without signals what is on the way is the answer of the
  call that waits. Each step leaves the account of a client and a server alone
  (`Still`), ends a reception (`Ends`) or begins one (`Asks`).
- `OwnersSafe`: type (with the memory of the pool below its limit, unless the
  constructor passed it), OneOwner and LimitsHold. The places of a descriptor (queue,
  task list, watched, in the hands of a thread) are one relation, `InPlace`: a
  descriptor has one place at most (`Unique`) and has one exactly if it is open
  (`Covered`). `Steps` says what a thread is in the middle of, `NoPool` that a server
  without threads has no queues, `Counted` that conns and _curr_conns agree with
  the watched ones. accept() returns the lowest free number, so that a large
  descriptor means that many were open (`LowFds`).
- `PoolSafe`: PoolBalanced, on top of the same invariant. Every step that allocates,
  grows or returns a buffer changes the holder of one buffer of a class
  (`HeldChanges`), and one buffer more or less changes `Memory` by its size
  (`MemoryAdds`).

The library's induction theorems take a predicate as a parameter, which the provers
cannot instantiate. `SetInduction` states induction for a set instead, from
WFMin and the well-founded order of the naturals; with it MemoryAdds is proved of
the recursive function that sums over the classes.

Every invariant that a run checks is proved, as are TableNeverOlder and the
refinement of HostTable. CountersAgree and OneRowPerHost are proved and not listed
in a run. Only model-checked: the liveness properties OverloadProbed, IdleServed,
PullEnds, PushDelivered, TableCatchesUp, ReportSettles, CallReturns,
RequestAnswered and CloseNoticed (fairness is out of the prover's reach), and the
three violations.

## Not modelled

- LoadBalance: the clock moving inside one report(); the 32 bit width of the
  call counters (the window restarts them); rounding of double quotients; signed
  overflow of access_cnt is taken as wrapping.
- RouteLB: partial messages and TCPClient's uninitialised `connected` (in
  TCPStream); requests before dns_queue exists (in ApiAgent); a connect() that
  fails at once (the process exits).
- SubscribeList: send_message failing for want of a buffer; the connection limit
  (in TCPServer); the mutexes that the constructor leaves uninitialised (the model
  takes them to work).
- DnsRoute: a clock of the site that is set back; several instances of the service;
  the rows of one mod, whose hosts are one generation; two writes of one
  statement as the database sees them (a statement is atomic).
- ReportPath: messages in pieces; the caller's other rows, which are alike; another
  thread between the test and the store of `wrap`.
- ApiAgent: reordered datagrams (the sockets are on one host); several calls of one
  APIClient at a time, which the class does not allow for.
- TCPStream: EPOLLOUT starving behind an EPOLLIN that is always set
  (`reactor/src/eventloop.cpp:58`); the second close of a descriptor
  (`reactor/src/tcp_client.cpp:184`), which needs the descriptors of all threads.
- TCPServer: the batch of events that epoll_wait returns, and the assertion on an
  event whose descriptor an earlier callback of the batch removed.
- ConfigFile (a parser of a file read at the start), UDPClient (used by the
  examples only), the login and the reading pages of the site, the examples and test
  programs. Of the 42,000 lines of C++ and Go, all but about 7,600 are the vendored
  MySQL connector and generated protocol buffers, which have no logic of this
  system.

## Plan

1. `DnsRoute` composed with `SubscribeList`: which changes are pushed. Rows of the
   version's own second that come between load_changes and remove_changes,
   rows stored late, the old mod of a moved row and deletions are removed or
   never written, and reach agents only when they pull again.
2. `EventLoop` with its batch; descriptors of a client process with several threads.
3. Theorems: what the composition of 1 needs of both modules; the step invariants
   under which the liveness properties hold (what is enabled while something waits).
