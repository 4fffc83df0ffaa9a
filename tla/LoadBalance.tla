---------------------------- MODULE LoadBalance ----------------------------
(***************************************************************************)
(* One LoadBalance object of the lb_agent: the hosts of one modid/cmdid in *)
(* two queues, idle and overloaded, and the rules that move a host between *)
(* them (lb_agent/src/load_balance.cpp, host_info.cpp).  Every operation   *)
(* runs under the mutex of the RouteLB that owns the object, so each is    *)
(* one atomic action.  status_ and last_update_time_ are used only by the  *)
(* callers; they are state of module RouteLB.                              *)
(*                                                                         *)
(* update() deletes a HostInfo but leaves its key in host_map_; the keys   *)
(* in this state are `freed'.  An operation that dereferences one of them, *)
(* or takes the front of an empty list, is undefined: it sets `undef', and *)
(* nothing is modelled after that.                                         *)
(***************************************************************************)
EXTENDS Integers, Sequences, FiniteSets, Functions

CONSTANTS
    Host,            \* keys (ip << 32) + port
    ProbeNum,        \* lb_config.probe_num
    InitSuccCnt,     \* lb_config.init_succ_cnt
    ErrRate,         \* lb_config.err_rate, in percent
    SuccRate,        \* lb_config.succ_rate, in percent
    WindowErrRate,   \* lb_config.window_err_rate, in percent
    ConErrLimit,     \* lb_config.con_err_limit
    ConSuccLimit,    \* lb_config.con_succ_limit
    IdleTimeout,     \* lb_config.idle_timeout, in seconds
    OverloadTimeout, \* lb_config.overload_timeout, in seconds
    JunkTs,          \* what the uninitialised idle_ts of a new HostInfo may hold
    MaxInt,          \* the largest int: access_cnt_ wraps there
    MaxCalls,        \* bound: calls counted for a host in one window
    MaxTime,         \* bound: seconds
    RetOverload, NoAnswer

ASSUME HostAssumption ==
    /\ IsFiniteSet(Host)
    /\ RetOverload \notin Host
    /\ NoAnswer \notin Host

ASSUME ConfigAssumption ==
    /\ InitSuccCnt \in Nat
    /\ ErrRate \in Nat /\ SuccRate \in Nat /\ WindowErrRate \in Nat
    /\ ConErrLimit \in Nat \ {0} /\ ConSuccLimit \in Nat \ {0}
    /\ IdleTimeout \in Nat /\ OverloadTimeout \in Nat
    /\ MaxInt \in Nat /\ ProbeNum \in 0 .. MaxInt
    /\ JunkTs \subseteq Int
    /\ MaxCalls \in Nat /\ MaxTime \in Nat

VARIABLES
    host_map,      \* the keys of host_map_
    freed,         \* those whose HostInfo has been deleted
    info,          \* the HostInfo of every other key
    idle_list,     \* idle_list_
    overload_list, \* overload_list_
    access_cnt,    \* access_cnt_
    route,         \* history: the hosts of the last GetRouteResponse
    answer,        \* the host or retcode the last get_host returned
    sent,          \* the rows of the last ReportStatusRequest sent
    undef,         \* an operation was undefined
    now            \* time(NULL)

vars == <<host_map, freed, info, idle_list, overload_list, access_cnt,
          route, answer, sent, undef, now>>

Live == host_map \ freed

-----------------------------------------------------------------------------
(* std::list<HostInfo*>: a sequence without repetition.                    *)

\* The sequences that list every element of S once.
Orderings(S) ==
    {s \in [1 .. Cardinality(S) -> S] : IsInjective(s) /\ Range(s) = S}

\* list::remove of every element outside S: the one ordering of what remains
\* that keeps the order of s.
MutKeepAll(s, S) == {s}
Kept(s, S) ==
    {t \in Orderings(Range(s) \cap S) :
        \A i, j \in DOMAIN t : \A k, l \in DOMAIN s :
            (i < j /\ s[k] = t[i] /\ s[l] = t[j]) => k < l}

\* get_host_from_list: the front is handed out and goes to the back.
MutNoRotate(s) == s
Rotate(s) == Append(Tail(s), Head(s))

-----------------------------------------------------------------------------
(* HostInfo.  idle_ts is read only while the host is idle and overload_ts  *)
(* only while it is overloaded, each being set on entry: one field `ts'.   *)

HostInfo == [vsucc : Nat, verr : Nat, rsucc : Nat, rerr : Nat,
             con_succ : Nat, con_err : Nat, overload : BOOLEAN, ts : Int]

\* lb_config.init_err_cnt is never read from the configuration file; the
\* global lb_config is zero-initialised.
InitErrCnt == 0

Fresh(over, t) ==
    [vsucc |-> IF over THEN 0 ELSE InitSuccCnt,
     verr  |-> IF over THEN InitErrCnt ELSE 0,
     rsucc |-> 0, rerr |-> 0, con_succ |-> 0, con_err |-> 0,
     overload |-> over, ts |-> t]

NewHost(junk) == Fresh(FALSE, junk)

set_idle == Fresh(FALSE, now)

MutSetOverloadSeedsSuccess == [Fresh(TRUE, now) EXCEPT !.vsucc = InitSuccCnt]
set_overload == Fresh(TRUE, now)

\* The real error rate of the window has reached its threshold.
check_window(c) ==
    /\ c.rsucc + c.rerr # 0
    /\ 100 * c.rerr >= WindowErrRate * (c.rsucc + c.rerr)

\* The counting part of report().
Counted(c, ok) ==
    IF ok
    THEN [c EXCEPT !.vsucc = @ + 1, !.rsucc = @ + 1, !.con_succ = @ + 1, !.con_err = 0]
    ELSE [c EXCEPT !.verr = @ + 1, !.rerr = @ + 1, !.con_err = @ + 1, !.con_succ = 0]

\* The thresholds that report() tests on the virtual counters.
MustOverload(c) ==
    \/ 100 * c.verr > ErrRate * (c.vsucc + c.verr)
    \/ c.con_err >= ConErrLimit

MustIdle(c) ==
    \/ 100 * c.vsucc > SuccRate * (c.vsucc + c.verr)
    \/ c.con_succ >= ConSuccLimit

IdleExpired(c)     == now - c.ts >= IdleTimeout
OverloadExpired(c) == now - c.ts >= OverloadTimeout

\* The outcome of report() for a host whose counters, with this call, are c.
\* The thresholds are tested first, then the window or the time spent in the
\* overload queue.
BecomesOverload(c, ok) ==
    /\ ~c.overload
    /\ (~ok /\ MustOverload(c)) \/ (IdleExpired(c) /\ check_window(c))

BecomesIdle(c, ok) ==
    /\ c.overload
    /\ (ok /\ MustIdle(c)) \/ OverloadExpired(c)

RestartsWindow(c, ok) ==
    ~c.overload /\ ~BecomesOverload(c, ok) /\ IdleExpired(c)

-----------------------------------------------------------------------------
\* commit(): one row per element of each list; the flag is the list's.
Row(i, h, over) ==
    [host |-> h, succ |-> i[h].rsucc, err |-> i[h].rerr, overload |-> over]

Results(i, idle, over) ==
    {Row(i, h, FALSE) : h \in Range(idle)} \cup {Row(i, h, TRUE) : h \in Range(over)}

-----------------------------------------------------------------------------
\* The object just constructed by RouteLB: access_cnt_ is not initialised.
Init ==
    /\ host_map = {} /\ freed = {} /\ info = <<>>
    /\ idle_list = <<>> /\ overload_list = <<>>
    /\ access_cnt \in (-MaxInt - 1) .. MaxInt
    /\ route = {} /\ answer = NoAnswer /\ sent = {}
    /\ undef = FALSE /\ now = 0

\* ++access_cnt_
MutNoIncrement(n) == n
Increment(n) == IF n = MaxInt THEN -MaxInt - 1 ELSE n + 1

Undefined ==
    /\ undef' = TRUE /\ answer' = NoAnswer /\ sent' = {}
    /\ UNCHANGED <<host_map, freed, info, idle_list, overload_list,
                   access_cnt, route, now>>

-----------------------------------------------------------------------------
(* pick_one_host(), called by RouteLB::get_host when host_map_ is not      *)
(* empty.                                                                  *)

ProbeDue == access_cnt >= ProbeNum

PickProbe ==
    /\ ProbeDue /\ overload_list # <<>>
    /\ answer' = Head(overload_list)
    /\ overload_list' = Rotate(overload_list)
    /\ access_cnt' = 0 /\ sent' = {}
    /\ UNCHANGED <<host_map, freed, info, idle_list, route, undef, now>>

PickIdle ==
    /\ idle_list # <<>> /\ (overload_list = <<>> \/ ~ProbeDue)
    /\ answer' = Head(idle_list)
    /\ idle_list' = Rotate(idle_list)
    /\ access_cnt' = Increment(access_cnt) /\ sent' = {}
    /\ UNCHANGED <<host_map, freed, info, overload_list, route, undef, now>>

PickRefused ==
    /\ idle_list = <<>> /\ ~ProbeDue
    /\ answer' = RetOverload
    /\ access_cnt' = Increment(access_cnt) /\ sent' = {}
    /\ UNCHANGED <<host_map, freed, info, idle_list, overload_list, route, undef, now>>

\* Every host of the map is deleted: front() of an empty list.
PickEmpty ==
    /\ idle_list = <<>> /\ overload_list = <<>> /\ ProbeDue
    /\ Undefined

pick_one_host ==
    /\ ~undef /\ host_map # {}
    /\ PickProbe \/ PickIdle \/ PickRefused \/ PickEmpty

-----------------------------------------------------------------------------
(* update(rsp): new keys go to the idle list, keys that rsp does not name  *)
(* lose their HostInfo.  A deleted key that rsp names is still found in    *)
(* host_map_ and is not taken in again; one it does not name is deleted a  *)
(* second time.                                                            *)

MutNotInserted(rsp, added) ==
    /\ host_map' = host_map
    /\ freed' = freed \cup (host_map \ rsp)
    /\ \E junk \in [added -> JunkTs] :
          info' = [h \in (Live \cap rsp) \cup added |->
                     IF h \in added THEN NewHost(junk[h]) ELSE info[h]]
    /\ \E idle \in Kept(idle_list, rsp), new \in Orderings(added) :
          idle_list' = idle \o new
    /\ overload_list' \in Kept(overload_list, rsp)
    /\ route' = rsp /\ answer' = NoAnswer /\ sent' = {}
    /\ UNCHANGED <<access_cnt, undef, now>>

Refresh(rsp, added) ==
    /\ host_map' = host_map \cup rsp
    /\ freed' = freed \cup (host_map \ rsp)
    /\ \E junk \in [added -> JunkTs] :
          info' = [h \in (Live \cap rsp) \cup added |->
                     IF h \in added THEN NewHost(junk[h]) ELSE info[h]]
    /\ \E idle \in Kept(idle_list, rsp), new \in Orderings(added) :
          idle_list' = idle \o new
    /\ overload_list' \in Kept(overload_list, rsp)
    /\ route' = rsp /\ answer' = NoAnswer /\ sent' = {}
    /\ UNCHANGED <<access_cnt, undef, now>>

update(rsp) ==
    /\ ~undef
    /\ \/ freed \subseteq rsp /\ Refresh(rsp, rsp \ host_map)
       \/ ~(freed \subseteq rsp) /\ Undefined

-----------------------------------------------------------------------------
(* RouteLB::report_host: report(h, retcode), then commit().                *)

\* commit() after the step, from the primed lists; it sends nothing while
\* host_map_ is empty.
Commit ==
    sent' = IF host_map = {} THEN {} ELSE Results(info', idle_list', overload_list')

ReportFrame == UNCHANGED <<host_map, freed, access_cnt, route, undef, now>>

ToOverload(h) ==
    /\ info' = [info EXCEPT ![h] = set_overload]
    /\ idle_list' \in Kept(idle_list, Live \ {h})
    /\ overload_list' = Append(overload_list, h)

MutToIdle(h) ==
    /\ info' = [info EXCEPT ![h] = set_idle]
    /\ UNCHANGED overload_list
    /\ idle_list' = Append(idle_list, h)
ToIdle(h) ==
    /\ info' = [info EXCEPT ![h] = set_idle]
    /\ overload_list' \in Kept(overload_list, Live \ {h})
    /\ idle_list' = Append(idle_list, h)

InPlace(h, c) ==
    /\ info' = [info EXCEPT ![h] = c]
    /\ UNCHANGED <<idle_list, overload_list>>

ReportLive(h, ok) ==
    LET c == Counted(info[h], ok) IN
    /\ info[h].rsucc + info[h].rerr < MaxCalls
    /\ \/ BecomesOverload(c, ok) /\ ToOverload(h)
       \/ BecomesIdle(c, ok) /\ ToIdle(h)
       \/ RestartsWindow(c, ok) /\ InPlace(h, set_idle)
       \/ /\ ~BecomesOverload(c, ok) /\ ~BecomesIdle(c, ok) /\ ~RestartsWindow(c, ok)
          /\ InPlace(h, c)
    /\ answer' = NoAnswer
    /\ Commit
    /\ ReportFrame

\* A host this object never had: nothing is counted, the commit still happens.
ReportUnknown ==
    /\ answer' = NoAnswer
    /\ UNCHANGED <<info, idle_list, overload_list>>
    /\ Commit
    /\ ReportFrame

report_host(h, ok) ==
    /\ ~undef
    /\ \/ h \in Live /\ ReportLive(h, ok)
       \/ h \notin host_map /\ ReportUnknown
       \/ h \in freed /\ Undefined

\* RouteLB::get_route copies ip and port out of every HostInfo of host_map_
\* (get_all_hosts); it changes nothing, but it may read a deleted one.
get_all_hosts ==
    /\ ~undef /\ freed # {}
    /\ Undefined

Tick ==
    /\ ~undef /\ now < MaxTime
    /\ now' = now + 1
    /\ answer' = NoAnswer /\ sent' = {}
    /\ UNCHANGED <<host_map, freed, info, idle_list, overload_list,
                   access_cnt, route, undef>>

Next ==
    \/ pick_one_host
    \/ \E rsp \in SUBSET Host \ {{}} : update(rsp)
    \/ \E h \in Host, ok \in BOOLEAN : report_host(h, ok)
    \/ get_all_hosts
    \/ Tick

Spec == Init /\ [][Next]_vars

\* Clients keep asking for hosts.
LiveSpec == Spec /\ WF_vars(pick_one_host)

-----------------------------------------------------------------------------
Rows == [host : Host, succ : Nat, err : Nat, overload : BOOLEAN]

\* The type of the state.  update() gives every key it enters in host_map_ a
\* HostInfo and takes it from the keys it deletes: exactly the keys that are not
\* deleted have one.
TypeOK ==
    /\ host_map \in SUBSET Host /\ freed \in SUBSET host_map
    /\ info \in [Live -> HostInfo]
    /\ idle_list \in Seq(Host) /\ overload_list \in Seq(Host)
    /\ access_cnt \in (-MaxInt - 1) .. MaxInt
    /\ route \in SUBSET Host
    /\ answer \in Host \cup {RetOverload, NoAnswer}
    /\ sent \in SUBSET Rows
    /\ undef \in BOOLEAN
    /\ now \in Nat

\* load_balance.cpp report() and update() move and delete hosts by the
\* overload flag: every host with a HostInfo is in exactly one queue, once,
\* and it is the queue its flag names.  A deleted host is in neither.
QueuesPartition ==
    /\ IsInjective(idle_list) /\ IsInjective(overload_list)
    /\ Range(idle_list) = {h \in Live : ~info[h].overload}
    /\ Range(overload_list) = {h \in Live : info[h].overload}

\* report() tests the thresholds only on a failure of an idle host and only
\* on a success of an overloaded one.  That is enough: no host ever sits in
\* a queue while its counters say it must leave it.
NoOverdueSwitch ==
    \A h \in Live : IF info[h].overload THEN ~MustIdle(info[h])
                                        ELSE ~MustOverload(info[h])

\* The virtual counters that decide are the reported ones on top of the
\* seed of the queue the host is in, and the two streaks exclude each other:
\* set_idle, set_overload and the counting in report() keep them together.
CountersAgree ==
    \A h \in Live : LET c == info[h] s == Fresh(c.overload, 0) IN
        /\ c.vsucc = s.vsucc + c.rsucc /\ c.verr = s.verr + c.rerr
        /\ c.con_succ <= c.rsucc /\ c.con_err <= c.rerr
        /\ c.con_succ = 0 \/ c.con_err = 0

\* get_host hands out only hosts of the last route the DNS service sent, and
\* never one whose HostInfo is deleted.
AnswerFromRoute == answer \in Host => answer \in route /\ answer \in Live

\* What commit() sends to the reporter names every host with a HostInfo once,
\* with the flag report() decided on.
OneRowPerHost ==
    sent # {} =>
        /\ {r.host : r \in sent} = Live
        /\ \A r \in sent : r = Row(info, r.host, info[r.host].overload)

\* An overloaded host is not forgotten: as long as clients keep asking it is
\* probed, or it leaves the overload queue.
OverloadProbed ==
    \A h \in Host : h \in Range(overload_list) ~>
        (answer = h \/ h \notin Range(overload_list) \/ undef)

\* No idle host starves behind the probes or behind the other idle hosts.
IdleServed ==
    \A h \in Host : h \in Range(idle_list) ~>
        (answer = h \/ h \notin Range(idle_list) \/ undef)

Table == INSTANCE HostTable WITH served <- Live

\* The queues and counters implement the table of HostTable: whatever is
\* picked and reported, the set of hosts changes with routes only.
ImplementsTable == Table!Spec

-----------------------------------------------------------------------------
(* What a comment says, and the code does not keep.                        *)

\* load_balance.cpp:118: "2. 删除减少的host信息 从host_map_中", the hosts
\* missing from the response are deleted from host_map_.
HostMapIsRoute == host_map = route

=============================================================================
