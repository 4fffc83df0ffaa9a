----------------------------- MODULE DnsRoute ------------------------------
(***************************************************************************)
(* The route table of the DNS service and the database behind it: the      *)
(* thread that watches the database (dns/src/dns_route.cpp) and the        *)
(* handlers of the administration site that write it                       *)
(* (web/controllers/default.go, web/models/modelFunc.go).                  *)
(*                                                                         *)
(* Neither side uses a transaction, so every SQL statement is a step of    *)
(* its own, and so is every reading of the clock: the site reads the time  *)
(* before the statement that stores it.  Any statement may fail.           *)
(*                                                                         *)
(* The hosts of a mod are a generation number, which every write of its    *)
(* RouteData rows increases.                                               *)
(***************************************************************************)
EXTENDS Integers, FiniteSets

CONSTANTS
    Mod,       \* modid/cmdid pairs
    Request,   \* requests that the site may serve at the same time
    WaitTime,  \* back_sche_time, in seconds
    MaxTime,   \* bound: seconds on the clock of the site
    MaxGen,    \* bound: generations of a mod's hosts
    MaxRows    \* bound: rows of table RouteChange

ASSUME DnsRouteAssumption ==
    /\ WaitTime \in Nat \ {0}
    /\ MaxTime \in Nat /\ MaxGen \in Nat /\ MaxRows \in Nat

VARIABLES
    data,       \* table RouteData: by mod, the generation of its hosts
    rows,       \* table RouteChange
    db_version, \* table RouteVersion
    now,        \* time.Now().Unix() of the site
    req,        \* the requests the site serves
    version,    \* version_
    table,      \* data_pointer_: by mod, the generation loaded, or -1
    temp,       \* temp_pointer_
    watcher,    \* the next step of check_route_changes
    age,        \* current_time - last_load_time, up to WaitTime
    changes,    \* its change list
    silent      \* history: mods changed without a version to notice

db      == <<data, rows, db_version>>
service == <<version, table, temp, watcher, age, changes>>
vars    == <<db, now, req, service, silent>>

\* A RouteChange row; gen is history: the generation of the mod when the time
\* of the row was read.
Row == [mod : Mod, version : Nat, gen : Nat]

\* A request: the mods whose data it wrote, the row it inserts and the version
\* it stores.
Req == [step : {"row_clock", "row", "version_clock", "version"},
        touched : SUBSET Mod, row : Row, version : Nat]

Idle == [step |-> "idle"]

NoHosts == [m \in Mod |-> -1]

Unloaded == {m \in Mod : table[m] # data[m]}

\* Route::Route has connected and read the version; build_maps comes next.
Init ==
    /\ data = [m \in Mod |-> 0] /\ rows = {} /\ db_version = 0 /\ now = 0
    /\ req = [q \in Request |-> Idle]
    /\ version = 0 /\ table = NoHosts /\ temp = NoHosts
    /\ watcher = "build" /\ age = 0 /\ changes = {}
    /\ silent = {}

-----------------------------------------------------------------------------
(* The administration site.                                                *)

Written(ms) == [m \in Mod |-> IF m \in ms THEN data[m] + 1 ELSE data[m]]

\* The RouteData rows of the mods ms are written; a row that lists m and a new
\* version are to follow.
Begin(q, m, ms) ==
    /\ req[q] = Idle /\ \A n \in ms : data[n] < MaxGen
    /\ data' = Written(ms)
    /\ req' = [req EXCEPT ![q] = [step |-> "row_clock", touched |-> ms, version |-> 0,
                                 row |-> [mod |-> m, version |-> 0, gen |-> 0]]]
    /\ UNCHANGED <<rows, db_version, now, service, silent>>

\* If AddRoute fails the handler returns.
HandleAddRoute(q, m) == Begin(q, m, {m})

\* UpdateRoute may move a row from one mod to another; only the new one is
\* listed.  If it fails the handler goes on.
HandleUpdate(q, old, m) == Begin(q, m, {old, m}) \/ Begin(q, m, {})

\* Neither a row nor a version.
HandlerDelete(m) ==
    /\ data[m] < MaxGen
    /\ data' = Written({m})
    /\ silent' = silent \cup {m}
    /\ UNCHANGED <<rows, db_version, now, req, service>>

\* time.Now().Unix() in InsertRouteChange and in UpdateVersion.
ReadClock(q) ==
    /\ \/ req[q].step = "row_clock" /\ req' = [req EXCEPT ![q].step = "row",
            ![q].row.version = now, ![q].row.gen = data[req[q].row.mod]]
       \/ req[q].step = "version_clock" /\ req' = [req EXCEPT ![q].step = "version",
            ![q].version = now]
    /\ UNCHANGED <<db, now, service, silent>>

\* The handlers print an error and go on.
InsertRouteChange(q) ==
    /\ req[q].step = "row"
    /\ \/ Cardinality(rows) < MaxRows /\ rows' = rows \cup {req[q].row}
       \/ UNCHANGED rows
    /\ req' = [req EXCEPT ![q].step = "version_clock", ![q].row.version = 0, ![q].row.gen = 0]
    /\ UNCHANGED <<data, db_version, now, service, silent>>

\* A version equal to the one the service has is not noticed.
UpdateVersion(q) ==
    /\ req[q].step = "version"
    /\ \/ db_version' = req[q].version
          /\ silent' = IF req[q].version = version THEN silent \cup Unloaded ELSE silent
       \/ UNCHANGED db_version /\ silent' = silent \cup req[q].touched
    /\ req' = [req EXCEPT ![q] = Idle]
    /\ UNCHANGED <<data, rows, now, service>>

Tick ==
    /\ now < MaxTime
    /\ now' = now + 1
    /\ UNCHANGED <<db, req, service, silent>>

-----------------------------------------------------------------------------
(* The DNS service: the end of Route::Route, then check_route_changes.     *)

\* A failure ends the process.
build_maps ==
    /\ watcher = "build"
    /\ table' = data /\ watcher' = "clear"
    /\ silent' = {}
    /\ UNCHANGED <<db, now, req, version, temp, age, changes>>

\* remove_changes(true)
clear_changes ==
    /\ watcher = "clear"
    /\ rows' \in {rows, {}}
    /\ watcher' = "sleep"
    /\ UNCHANGED <<data, db_version, now, req, version, table, temp, age, changes, silent>>

\* sleep(1) and what the loop may take longer.
Aged == {a \in 1 .. WaitTime : a > age \/ a = WaitTime}

\* load_version returns 1.
MutTakesVersionOnly ==
    /\ watcher = "sleep" /\ db_version # version
    /\ version' = db_version /\ watcher' = "changes" /\ age' \in Aged
    /\ UNCHANGED <<db, now, req, table, temp, changes, silent>>
VersionChanged ==
    /\ watcher = "sleep" /\ db_version # version
    /\ version' = db_version /\ watcher' = "load" /\ age' \in Aged
    /\ UNCHANGED <<db, now, req, table, temp, changes, silent>>

\* load_version returns 0, or it fails: the periodic load, if it is time.
MutNeverReloads ==
    /\ watcher = "sleep"
    /\ age' \in Aged
    /\ UNCHANGED watcher
    /\ UNCHANGED <<db, now, req, version, table, temp, changes, silent>>
VersionUnchanged ==
    /\ watcher = "sleep"
    /\ age' \in Aged
    /\ watcher' = IF age' >= WaitTime THEN "reload" ELSE "sleep"
    /\ UNCHANGED <<db, now, req, version, table, temp, changes, silent>>

Loading == watcher \in {"load", "reload"}

load_route_data ==
    /\ Loading
    /\ temp' = data
    /\ watcher' = IF watcher = "load" THEN "swap" ELSE "reswap"
    /\ UNCHANGED <<db, now, req, version, table, age, changes, silent>>

\* The version is taken all the same; after a failed periodic load all is as
\* before.
MutSwapsAnyway ==
    /\ Loading
    /\ temp' = NoHosts
    /\ watcher' = IF watcher = "load" THEN "swap" ELSE "reswap"
    /\ UNCHANGED <<db, now, req, version, table, age, changes, silent>>
load_fails ==
    /\ Loading
    /\ temp' = NoHosts
    /\ \/ watcher = "load" /\ watcher' = "changes" /\ silent' = silent \cup Unloaded
       \/ watcher = "reload" /\ watcher' = "sleep" /\ UNCHANGED silent
    /\ UNCHANGED <<db, now, req, version, table, age, changes>>

MutSwapForgets ==
    /\ watcher \in {"swap", "reswap"}
    /\ age' = 0
    /\ watcher' = IF watcher = "swap" THEN "changes" ELSE "sleep"
    /\ UNCHANGED <<db, now, req, version, table, temp, changes, silent>>
swap ==
    /\ watcher \in {"swap", "reswap"}
    /\ table' = temp /\ temp' = table /\ age' = 0
    /\ watcher' = IF watcher = "swap" THEN "changes" ELSE "sleep"
    /\ silent' = {m \in silent : temp[m] # data[m]}
    /\ UNCHANGED <<db, now, req, version, changes>>

\* The rows up to the version that the service has.
Due == {r \in rows : r.version <= version}

MutWholeRows ==
    /\ watcher = "changes"
    /\ changes' \in {{}, Due}
    /\ watcher' = "publish"
    /\ UNCHANGED <<db, now, req, version, table, temp, age, silent>>
load_changes ==
    /\ watcher = "changes"
    /\ changes' \in {{}, {r.mod : r \in Due}}
    /\ watcher' = "publish"
    /\ UNCHANGED <<db, now, req, version, table, temp, age, silent>>

\* SubscribeList::publish, module SubscribeList.
publish ==
    /\ watcher = "publish"
    /\ watcher' = "remove"
    /\ UNCHANGED <<db, now, req, version, table, temp, age, changes, silent>>

remove_changes ==
    /\ watcher = "remove"
    /\ rows' \in {rows, rows \ Due}
    /\ watcher' = "sleep" /\ changes' = {}
    /\ UNCHANGED <<data, db_version, now, req, version, table, temp, age, silent>>

-----------------------------------------------------------------------------
Site ==
    \/ \E q \in Request, m \in Mod :
          HandleAddRoute(q, m) \/ \E old \in Mod : HandleUpdate(q, old, m)
    \/ \E m \in Mod : HandlerDelete(m)
    \/ \E q \in Request : ReadClock(q) \/ InsertRouteChange(q) \/ UpdateVersion(q)

Watcher ==
    \/ build_maps \/ clear_changes \/ VersionChanged \/ VersionUnchanged
    \/ load_route_data \/ load_fails \/ swap
    \/ load_changes \/ publish \/ remove_changes

Next == Site \/ Watcher \/ Tick

Spec == Init /\ [][Next]_vars

\* The watcher goes on, and a load that is tried for ever succeeds at last.
Fairness == WF_vars(Watcher) /\ SF_vars(load_route_data)

LiveSpec == Spec /\ Fairness

-----------------------------------------------------------------------------
\* The type of the state.
TypeOK ==
    /\ data \in [Mod -> Nat] /\ rows \in SUBSET Row
    /\ db_version \in Nat /\ now \in Nat
    /\ req \in [Request -> Req \cup {Idle}]
    /\ version \in Nat
    /\ table \in [Mod -> Nat \cup {-1}] /\ temp \in [Mod -> Nat \cup {-1}]
    /\ watcher \in {"build", "clear", "sleep", "load", "reload", "swap", "reswap",
                    "changes", "publish", "remove"}
    /\ age \in 0 .. WaitTime /\ changes \in SUBSET Mod
    /\ silent \in SUBSET Mod

\* check_route_changes swaps the two maps only after a load that succeeded:
\* the table that get_hosts reads never goes back to older hosts or to none.
TableNeverOlder == [][\A m \in Mod : table[m] <= table'[m]]_vars

\* A write the table does not have yet is not forgotten: its request still
\* has to store a version, the version differs from the service's, or the
\* service has taken the version and is about to load.  The exceptions are
\* deletions, statements that failed, and a version stored again with the
\* value the service has.
WriteOnItsWay ==
    \A m \in Unloaded :
        \/ \E q \in Request : req[q] # Idle /\ m \in req[q].touched
        \/ db_version # version
        \/ watcher \in {"build", "load"} \/ (watcher = "swap" /\ temp[m] = data[m])
        \/ m \in silent

\* What check_route_changes announces and removes is in the table: a row older
\* than the version in hand stands for hosts that are loaded, unless the load
\* failed or the mod was also changed without a version to notice (silent).
\* Rows of the second of the version itself may stand for later ones.
RowsLoaded ==
    watcher \in {"changes", "publish", "remove"} =>
        \A r \in rows : r.version < version => table[r.mod] >= r.gen \/ r.mod \in silent

\* Every write reaches the table, announced or not: by the periodic load at
\* the latest.
TableCatchesUp ==
    \A m \in Mod : \A g \in 0 .. MaxGen : data[m] = g ~> table[m] >= g

=============================================================================
