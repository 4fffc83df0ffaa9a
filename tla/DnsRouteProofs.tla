-------------------------- MODULE DnsRouteProofs ---------------------------
(***************************************************************************)
(* Proofs about DnsRoute, for any number of mods and requests: the type    *)
(* invariant, TableNeverOlder, WriteOnItsWay and RowsLoaded.               *)
(***************************************************************************)
EXTENDS DnsRoute, TLAPS

-----------------------------------------------------------------------------
(* The type invariant.                                                     *)

\* A request that is at one of its steps is a record of Req.
LEMMA Busy ==
    ASSUME TypeOK, NEW q \in Request, req[q].step # "idle"
    PROVE  req[q] \in Req
BY DEF TypeOK, Idle

\* The two handlers that write a row are Begin, for some set of mods.
LEMMA Begins ==
    ASSUME NEW q \in Request, NEW m \in Mod, NEW old \in Mod,
           HandleAddRoute(q, m) \/ HandleUpdate(q, old, m)
    PROVE  \E ms \in SUBSET Mod : Begin(q, m, ms)
BY DEF HandleAddRoute, HandleUpdate

\* A write of RouteData keeps the types.
LEMMA BeginType ==
    ASSUME TypeOK, NEW q \in Request, NEW m \in Mod, NEW ms \in SUBSET Mod, Begin(q, m, ms)
    PROVE  TypeOK'
<1> DEFINE new == [step |-> "row_clock", touched |-> ms, version |-> 0,
                   row |-> [mod |-> m, version |-> 0, gen |-> 0]]
<1>1. new \in Req
    BY DEF Req, Row
<1>2. data' \in [Mod -> Nat]
    BY DEF Begin, Written, TypeOK
<1>3. req' = [req EXCEPT ![q] = new]
    BY DEF Begin
<1>4. req' \in [Request -> Req \cup {Idle}]
    BY <1>1, <1>3 DEF TypeOK
<1> QED
    BY <1>2, <1>4 DEF Begin, service, TypeOK

\* So does a reading of the clock, which fills the row or the version in.
LEMMA ClockType ==
    ASSUME TypeOK, NEW q \in Request, ReadClock(q)
    PROVE  TypeOK'
<1>1. req[q] \in Req
    BY Busy DEF ReadClock
<1>2. now \in Nat /\ data[req[q].row.mod] \in Nat
    BY <1>1 DEF TypeOK, Req, Row
<1>3. req' \in [Request -> Req \cup {Idle}]
  <2>1. CASE req[q].step = "row_clock"
    <3> DEFINE new == [req[q] EXCEPT !.step = "row", !.row.version = now,
                                     !.row.gen = data[req[q].row.mod]]
    <3>1. new \in Req
        BY <1>1, <1>2 DEF Req, Row
    <3>2. req' = [req EXCEPT ![q] = new]
        BY <2>1 DEF ReadClock, TypeOK
    <3> QED
        BY <3>1, <3>2 DEF TypeOK
  <2>2. CASE req[q].step = "version_clock"
    <3> DEFINE new == [req[q] EXCEPT !.step = "version", !.version = now]
    <3>1. new \in Req
        BY <1>1, <1>2 DEF Req
    <3>2. req' = [req EXCEPT ![q] = new]
        BY <2>2 DEF ReadClock, TypeOK
    <3> QED
        BY <3>1, <3>2 DEF TypeOK
  <2> QED
      BY <2>1, <2>2 DEF ReadClock
<1> QED
    BY <1>3 DEF ReadClock, db, service, TypeOK

\* So does InsertRouteChange.
LEMMA InsertType ==
    ASSUME TypeOK, NEW q \in Request, InsertRouteChange(q)
    PROVE  TypeOK'
<1> DEFINE new == [req[q] EXCEPT !.step = "version_clock", !.row.version = 0, !.row.gen = 0]
<1>1. req[q] \in Req
    BY Busy DEF InsertRouteChange
<1>2. new \in Req
    BY <1>1 DEF Req, Row
<1>3. req' = [req EXCEPT ![q] = new]
    BY DEF InsertRouteChange, TypeOK
<1>4. req' \in [Request -> Req \cup {Idle}]
    BY <1>2, <1>3 DEF TypeOK
<1>5. rows' \in SUBSET Row
    BY <1>1 DEF InsertRouteChange, TypeOK, Req
<1> QED
    BY <1>4, <1>5 DEF InsertRouteChange, service, TypeOK

\* So does UpdateVersion.
LEMMA UpdateVersionType ==
    ASSUME TypeOK, NEW q \in Request, UpdateVersion(q)
    PROVE  TypeOK'
<1>1. req[q] \in Req
    BY Busy DEF UpdateVersion
<1>2. req' \in [Request -> Req \cup {Idle}]
    BY DEF UpdateVersion, TypeOK
<1>3. db_version' \in Nat /\ silent' \in SUBSET Mod
    BY <1>1 DEF UpdateVersion, TypeOK, Req, Unloaded
<1> QED
    BY <1>2, <1>3 DEF UpdateVersion, service, TypeOK

\* So do the steps of the DNS service.
LEMMA WatcherType ==
    ASSUME TypeOK, Watcher
    PROVE  TypeOK'
<1> USE DnsRouteAssumption DEF TypeOK, db
<1>1. CASE build_maps
    BY <1>1 DEF build_maps
<1>2. CASE clear_changes
    BY <1>2 DEF clear_changes
<1>3. CASE VersionChanged
    BY <1>3 DEF VersionChanged, Aged
<1>4. CASE VersionUnchanged
    BY <1>4 DEF VersionUnchanged, Aged
<1>5. CASE load_route_data
    BY <1>5 DEF load_route_data
<1>6. CASE load_fails
    BY <1>6 DEF load_fails, NoHosts, Unloaded
<1>7. CASE swap
    BY <1>7 DEF swap
<1>8. CASE load_changes
  <2>1. {r.mod : r \in Due} \in SUBSET Mod
      BY DEF Due, Row
  <2> QED
      BY <1>8, <2>1 DEF load_changes
<1>9. CASE publish
    BY <1>9 DEF publish
<1>10. CASE remove_changes
    BY <1>10 DEF remove_changes
<1> QED
    BY <1>1, <1>2, <1>3, <1>4, <1>5, <1>6, <1>7, <1>8, <1>9, <1>10 DEF Watcher

\* TypeOK is inductive.
LEMMA NextType ==
    ASSUME TypeOK, [Next]_vars
    PROVE  TypeOK'
<1>1. ASSUME NEW q \in Request, NEW m \in Mod, NEW old \in Mod,
             HandleAddRoute(q, m) \/ HandleUpdate(q, old, m)
      PROVE  TypeOK'
    BY <1>1, Begins, BeginType
<1>2. ASSUME NEW m \in Mod, HandlerDelete(m)
      PROVE  TypeOK'
    BY <1>2 DEF HandlerDelete, Written, service, TypeOK
<1>3. CASE Tick
    BY <1>3 DEF Tick, db, service, TypeOK
<1>4. CASE UNCHANGED vars
    BY <1>4 DEF vars, db, service, TypeOK
<1> QED
    BY <1>1, <1>2, <1>3, <1>4, ClockType, InsertType, UpdateVersionType, WatcherType
    DEF Next, Site

-----------------------------------------------------------------------------
(* The table only moves forward.                                           *)

\* The site leaves the service alone, hosts never go back to an older
\* generation, and no mod stops being silent.
LEMMA SiteGrows ==
    ASSUME TypeOK, Site
    PROVE  /\ UNCHANGED <<now, service>>
           /\ \A m \in Mod : data[m] <= data'[m]
           /\ silent \subseteq silent'
<1>1. ASSUME NEW q \in Request, NEW m \in Mod, NEW ms \in SUBSET Mod, Begin(q, m, ms)
      PROVE  /\ UNCHANGED <<now, service, silent>>
             /\ \A n \in Mod : data[n] <= data'[n]
    BY <1>1 DEF Begin, Written, TypeOK
<1>2. ASSUME NEW m \in Mod, HandlerDelete(m)
      PROVE  /\ UNCHANGED <<now, service>>
             /\ \A n \in Mod : data[n] <= data'[n]
             /\ silent \subseteq silent'
    BY <1>2 DEF HandlerDelete, Written, TypeOK
<1>3. ASSUME NEW q \in Request, ReadClock(q) \/ InsertRouteChange(q) \/ UpdateVersion(q)
      PROVE  UNCHANGED <<now, service, data>> /\ silent \subseteq silent'
    BY <1>3 DEF ReadClock, InsertRouteChange, UpdateVersion, db
<1> QED
    BY <1>1, <1>2, <1>3, Begins DEF Site, TypeOK

\* The table is not ahead of the database, and what is about to be swapped in
\* is between the two.
Ordered ==
    /\ \A m \in Mod : table[m] <= data[m]
    /\ watcher \in {"swap", "reswap"} => \A m \in Mod : table[m] <= temp[m] /\ temp[m] <= data[m]

\* Ordered is inductive, and a step that keeps it does not set the table back.
LEMMA NextOrdered ==
    ASSUME TypeOK, Ordered, [Next]_vars
    PROVE  Ordered' /\ \A m \in Mod : table[m] <= table'[m]
<1>0. TypeOK'
    BY NextType
<1> USE <1>0 DEF TypeOK, Ordered
<1>1. CASE Site
    BY <1>1, SiteGrows DEF service
<1>2. CASE Tick \/ UNCHANGED vars
    BY <1>2 DEF Tick, vars, db, service
<1>3. CASE build_maps
    BY <1>3 DEF build_maps, db
<1>4. CASE load_route_data
    BY <1>4 DEF load_route_data, db
<1>5. CASE swap
    BY <1>5 DEF swap, db
<1>6. CASE load_fails
    BY <1>6 DEF load_fails, db
<1>7. CASE clear_changes \/ VersionChanged \/ VersionUnchanged
           \/ load_changes \/ publish \/ remove_changes
    BY <1>7 DEF clear_changes, VersionChanged, VersionUnchanged, load_changes, publish,
                remove_changes, db
<1> QED
    BY <1>1, <1>2, <1>3, <1>4, <1>5, <1>6, <1>7 DEF Next, Watcher

\* The initial state.
LEMMA Initial ==
    ASSUME Init
    PROVE  TypeOK /\ Ordered
BY DnsRouteAssumption DEF Init, TypeOK, Ordered, NoHosts

\* The table that get_hosts reads never goes back to older hosts: swap comes
\* only after a load that succeeded, and generations grow.
THEOREM TableSafe == Spec => []TypeOK /\ TableNeverOlder
<1>1. Init => TypeOK /\ Ordered
    BY Initial
<1>2. TypeOK /\ Ordered /\ [Next]_vars => (TypeOK /\ Ordered)'
    BY NextType, NextOrdered
<1>3. TypeOK /\ Ordered /\ [Next]_vars => [\A m \in Mod : table[m] <= table'[m]]_vars
    BY NextOrdered
<1> QED
    BY <1>1, <1>2, <1>3, PTL DEF Spec, TableNeverOlder

-----------------------------------------------------------------------------
(* Writes are not forgotten.                                               *)

\* A request that wrote is there to store a version, until UpdateVersion.
LEMMA SiteWrites ==
    ASSUME TypeOK, WriteOnItsWay, Site
    PROVE  WriteOnItsWay'
<1> SUFFICES ASSUME NEW n \in Mod, table'[n] # data'[n]
             PROVE  \/ \E q \in Request : (req[q] # Idle /\ n \in req[q].touched)'
                    \/ db_version' # version'
                    \/ watcher' \in {"build", "load"} \/ (watcher' = "swap" /\ temp'[n] = data'[n])
                    \/ n \in silent'
    BY DEF WriteOnItsWay, Unloaded
<1>0. TypeOK'
    BY NextType DEF Next
<1>1. ASSUME NEW q \in Request, NEW m \in Mod, NEW ms \in SUBSET Mod, Begin(q, m, ms)
      PROVE  \/ \E p \in Request : (req[p] # Idle /\ n \in req[p].touched)'
             \/ n \in Unloaded /\ UNCHANGED data[n]
    <2>1. req'[q] # Idle /\ req'[q].touched = ms
        BY <1>1 DEF Begin, TypeOK, Idle
    <2> QED
        BY <1>1, <2>1 DEF Begin, Written, Unloaded, TypeOK, service
<1>2. ASSUME NEW q \in Request, NEW m \in Mod, NEW ms \in SUBSET Mod, Begin(q, m, ms)
      PROVE  \A p \in Request : req[p] # Idle => UNCHANGED req[p]
    BY <1>2 DEF Begin, TypeOK
<1>3. CASE \E q \in Request, m \in Mod, ms \in SUBSET Mod : Begin(q, m, ms)
    BY <1>1, <1>2, <1>3 DEF WriteOnItsWay, Begin, service
<1>4. CASE \E m \in Mod : HandlerDelete(m)
    BY <1>4 DEF HandlerDelete, Written, WriteOnItsWay, Unloaded, TypeOK, service
<1>5. ASSUME NEW q \in Request, ReadClock(q) \/ InsertRouteChange(q)
      PROVE  \A p \in Request : req[p] # Idle => (req'[p] # Idle /\ UNCHANGED req[p].touched)
  <2>1. req[q] \in Req
      BY <1>5, Busy DEF ReadClock, InsertRouteChange
  <2>2. req'[q].step # "idle" /\ req'[q].touched = req[q].touched
      BY <1>5, <2>1 DEF ReadClock, InsertRouteChange, Req, TypeOK
  <2> QED
      BY <1>5, <2>2 DEF ReadClock, InsertRouteChange, TypeOK, Idle
<1>6. CASE \E q \in Request : ReadClock(q) \/ InsertRouteChange(q)
    BY <1>5, <1>6 DEF ReadClock, InsertRouteChange, WriteOnItsWay, Unloaded, db, service
<1>7. ASSUME NEW q \in Request, UpdateVersion(q)
      PROVE  \/ \E p \in Request : (req[p] # Idle /\ n \in req[p].touched)'
             \/ db_version' # version'
             \/ watcher' \in {"build", "load"} \/ (watcher' = "swap" /\ temp'[n] = data'[n])
             \/ n \in silent'
  <2>1. n \in Unloaded /\ UNCHANGED <<service, data>>
      BY <1>7 DEF UpdateVersion, Unloaded, service
  <2>2. CASE db_version' = req[q].version
             /\ silent' = IF req[q].version = version THEN silent \cup Unloaded ELSE silent
      BY <2>1, <2>2 DEF service
  <2>3. CASE UNCHANGED db_version /\ silent' = silent \cup req[q].touched
    <3>1. \A p \in Request : p # q => UNCHANGED req[p]
        BY <1>7 DEF UpdateVersion, TypeOK
    <3> QED
        BY <2>1, <2>3, <3>1 DEF WriteOnItsWay, service
  <2> QED
      BY <1>7, <2>2, <2>3 DEF UpdateVersion
<1> QED
    BY <1>3, <1>4, <1>6, <1>7, Begins DEF Site

\* The service drops the difference of the versions only to load everything.
LEMMA WatcherWrites ==
    ASSUME TypeOK, Ordered, WriteOnItsWay, Watcher
    PROVE  WriteOnItsWay'
<1> USE DEF TypeOK, WriteOnItsWay, Unloaded
<1>1. CASE build_maps
    BY <1>1 DEF build_maps, db
<1>2. CASE clear_changes
    BY <1>2 DEF clear_changes
<1>3. CASE VersionChanged
    BY <1>3 DEF VersionChanged
<1>4. CASE VersionUnchanged
    BY <1>4 DEF VersionUnchanged, db
<1>5. CASE load_route_data
    BY <1>5 DEF load_route_data, Loading, db
<1>6. CASE load_fails
    BY <1>6 DEF load_fails, Loading, db
<1>7. CASE swap
    BY <1>7 DEF swap, db, Ordered
<1>8. CASE load_changes \/ publish
    BY <1>8 DEF load_changes, publish, db
<1>9. CASE remove_changes
    BY <1>9 DEF remove_changes
<1> QED
    BY <1>1, <1>2, <1>3, <1>4, <1>5, <1>6, <1>7, <1>8, <1>9 DEF Watcher

\* No write of the site is forgotten: WriteOnItsWay is inductive with the
\* types and Ordered.
THEOREM WritesSafe == Spec => []WriteOnItsWay
<1> DEFINE Inv == TypeOK /\ Ordered /\ WriteOnItsWay
<1>1. Init => Inv
    BY Initial DEF Init, WriteOnItsWay
<1>2. Inv /\ [Next]_vars => Inv'
  <2> SUFFICES ASSUME Inv, [Next]_vars PROVE WriteOnItsWay'
      BY NextType, NextOrdered
  <2>1. CASE Tick \/ UNCHANGED vars
      BY <2>1 DEF Tick, vars, db, service, WriteOnItsWay, Unloaded
  <2> QED
      BY <2>1, SiteWrites, WatcherWrites DEF Next
<1> QED
    BY <1>1, <1>2, PTL DEF Spec

-----------------------------------------------------------------------------
(* Announced rows are loaded.                                              *)

\* What is known of a row from the moment its time is read.  A row with a time
\* before the version was complete, with its data, before the load began.
RowFact(r) ==
    /\ r.gen <= data[r.mod] /\ r.version <= now
    /\ r.version < version =>
        /\ watcher = "swap" => temp[r.mod] >= r.gen
        /\ watcher \in {"changes", "publish", "remove"} => table[r.mod] >= r.gen \/ r.mod \in silent

\* No time is ahead of the clock, and RowFact holds of the rows stored and of
\* those a request is about to store.
RowInv ==
    /\ version <= now /\ db_version <= now
    /\ \A q \in Request :
        /\ req[q].step = "version" => req[q].version <= now
        /\ req[q].step = "row" => RowFact(req[q].row)
    /\ \A r \in rows : RowFact(r)

\* A row that has RowFact keeps it.
LEMMA RowKept ==
    ASSUME TypeOK, RowInv, [Next]_vars, NEW r \in Row, RowFact(r)
    PROVE  RowFact(r)'
<1>0. TypeOK'
    BY NextType
<1>a. r.mod \in Mod /\ r.gen \in Nat /\ r.version \in Nat
    BY DEF Row
<1> USE <1>0, <1>a DEF TypeOK, RowFact
<1>1. CASE Site
    BY <1>1, SiteGrows DEF service
<1>2. CASE Tick \/ UNCHANGED vars
    BY <1>2 DEF Tick, vars, db, service
<1>3. CASE build_maps \/ clear_changes \/ remove_changes
    BY <1>3 DEF build_maps, clear_changes, remove_changes, db
<1>4. CASE VersionChanged \/ VersionUnchanged
    BY <1>4 DEF VersionChanged, VersionUnchanged, db
<1>5. CASE load_route_data
    BY <1>5 DEF load_route_data, Loading, db
<1>6. CASE load_fails
    BY <1>6 DEF load_fails, Loading, Unloaded, db
<1>7. CASE swap
    BY <1>7 DEF swap, db
<1>8. CASE load_changes \/ publish
    BY <1>8 DEF load_changes, publish, db
<1> QED
    BY <1>1, <1>2, <1>3, <1>4, <1>5, <1>6, <1>7, <1>8 DEF Next, Watcher

\* RowInv is inductive with the types: a new row has the time of now, which no
\* version is ahead of, so nothing is claimed of it before the next load.
LEMMA NextRows ==
    ASSUME TypeOK, RowInv, [Next]_vars
    PROVE  RowInv'
<1>0. TypeOK'
    BY NextType
<1>1. \A r \in rows : RowFact(r)'
    BY RowKept DEF RowInv, TypeOK
<1>2. \A q \in Request : req[q].step = "row" => req[q].row \in Row /\ RowFact(req[q].row)
    BY Busy DEF RowInv, Req
<1>3. ASSUME NEW q \in Request, NEW r \in Row, req[q].step = "row", r = req[q].row
      PROVE  RowFact(r)'
    BY <1>2, <1>3, RowKept
<1>4. ASSUME NEW q \in Request
      PROVE  \/ UNCHANGED req[q]
             \/ req'[q].step \notin {"row", "version"}
             \/ ReadClock(q)
  <2>1. ASSUME NEW p \in Request, NEW m \in Mod, NEW ms \in SUBSET Mod, Begin(p, m, ms)
        PROVE  UNCHANGED req[q] \/ req'[q].step = "row_clock"
      BY <2>1 DEF Begin, TypeOK
  <2>2. ASSUME NEW p \in Request, ReadClock(p)
        PROVE  UNCHANGED req[q] \/ ReadClock(q)
      BY <2>2 DEF ReadClock, TypeOK
  <2>3. ASSUME NEW p \in Request, InsertRouteChange(p)
        PROVE  UNCHANGED req[q] \/ req'[q].step = "version_clock"
    <3>1. req[p] \in Req
        BY <2>3, Busy DEF InsertRouteChange
    <3> QED
        BY <2>3, <3>1 DEF InsertRouteChange, TypeOK, Req
  <2>4. ASSUME NEW p \in Request, UpdateVersion(p)
        PROVE  UNCHANGED req[q] \/ req'[q].step = "idle"
      BY <2>4 DEF UpdateVersion, TypeOK, Idle
  <2>5. CASE (\E m \in Mod : HandlerDelete(m)) \/ Tick \/ Watcher \/ UNCHANGED vars
      BY <2>5 DEF HandlerDelete, Tick, Watcher, build_maps, clear_changes, VersionChanged,
                  VersionUnchanged, load_route_data, load_fails, swap, load_changes, publish,
                  remove_changes, vars
  <2> QED
      BY <2>1, <2>2, <2>3, <2>4, <2>5, Begins DEF Next, Site
<1>5. \A r \in rows' : RowFact(r)'
  <2>1. rows' \subseteq rows \/ \E q \in Request : InsertRouteChange(q)
      BY Begins DEF Next, Site, Begin, HandlerDelete, ReadClock, UpdateVersion, Tick, Watcher,
            build_maps, clear_changes, VersionChanged, VersionUnchanged, load_route_data,
            load_fails, swap, load_changes, publish, remove_changes, vars, db
  <2>2. ASSUME NEW q \in Request, InsertRouteChange(q), NEW r \in rows', r \notin rows
        PROVE  RowFact(r)'
      BY <1>2, <1>3, <2>2 DEF InsertRouteChange
  <2> QED
      BY <1>1, <2>1, <2>2
<1>6. now <= now' /\ version' <= now' /\ db_version' <= now'
  <2>1. CASE Site
    <3>1. db_version' <= now
        BY <2>1, Begins DEF Site, Begin, HandlerDelete, ReadClock, InsertRouteChange,
                    UpdateVersion, RowInv, db
    <3> QED
        BY <2>1, <3>1, SiteGrows DEF RowInv, TypeOK, service
  <2>2. CASE Tick \/ UNCHANGED vars
      BY <2>2 DEF Tick, vars, db, service, RowInv, TypeOK
  <2>3. CASE Watcher
      BY <2>3 DEF Watcher, build_maps, clear_changes, VersionChanged, VersionUnchanged,
                  load_route_data, load_fails, swap, load_changes, publish, remove_changes, db,
                  RowInv, TypeOK
  <2> QED
      BY <2>1, <2>2, <2>3 DEF Next
<1>7. ASSUME NEW q \in Request, ReadClock(q)
      PROVE  (/\ req[q].step = "version" => req[q].version <= now
              /\ req[q].step = "row" => RowFact(req[q].row))'
  <2>1. req[q] \in Req
      BY <1>7, Busy DEF ReadClock
  <2>2. CASE req[q].step = "row_clock"
    <3>1. /\ req'[q].step = "row" /\ req'[q].row.mod = req[q].row.mod
          /\ req'[q].row.version = now /\ req'[q].row.gen = data[req[q].row.mod]
        BY <1>7, <2>1, <2>2 DEF ReadClock, TypeOK, Req, Row
    <3>2. UNCHANGED <<data, now, version>> /\ data[req[q].row.mod] \in Nat /\ now \in Nat
          /\ version \in Nat
        BY <1>7, <2>1 DEF ReadClock, db, service, TypeOK, Req, Row
    <3> QED
        BY <3>1, <3>2 DEF RowFact, RowInv
  <2>3. CASE req[q].step = "version_clock"
      BY <1>7, <2>1, <2>3 DEF ReadClock, TypeOK, Req
  <2> QED
      BY <1>7, <2>2, <2>3 DEF ReadClock
<1>8. ASSUME NEW q \in Request
      PROVE  (/\ req[q].step = "version" => req[q].version <= now
              /\ req[q].step = "row" => RowFact(req[q].row))'
  <2>1. CASE req'[q] = req[q] /\ req[q].step = "row"
    <3>1. PICK r \in Row : r = req[q].row
        BY <1>2, <2>1
    <3>2. RowFact(r)' /\ r = req'[q].row
        BY <1>3, <2>1, <3>1
    <3> QED
        BY <2>1, <3>2
  <2>2. CASE req'[q] = req[q] /\ req[q].step = "version"
    <3>1. req[q].version \in Nat
        BY <2>2, Busy DEF Req
    <3> QED
        BY <1>0, <1>6, <2>2, <3>1 DEF RowInv, TypeOK
  <2> QED
      BY <1>4, <1>7, <2>1, <2>2
<1> QED
    BY <1>5, <1>6, <1>8 DEF RowInv

\* The rows that check_route_changes announces and removes stand for hosts that
\* are in the table, but for those of the second of the version itself.
THEOREM RowsSafe == Spec => []RowsLoaded
<1>1. Init => TypeOK /\ RowInv
    BY Initial DEF Init, RowInv, Idle
<1>2. TypeOK /\ RowInv /\ [Next]_vars => (TypeOK /\ RowInv)'
    BY NextType, NextRows
<1>3. RowInv => RowsLoaded
    BY DEF RowInv, RowFact, RowsLoaded
<1> QED
    BY <1>1, <1>2, <1>3, PTL DEF Spec

=============================================================================
