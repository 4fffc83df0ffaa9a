------------------------- MODULE LoadBalanceProofs -------------------------
(***************************************************************************)
(* Proofs about LoadBalance, for every set of hosts, every configuration   *)
(* and every bound.                                                        *)
(***************************************************************************)
EXTENDS LoadBalance, FiniteSetTheorems, SequenceTheorems, TLAPS

-----------------------------------------------------------------------------
(* Lists without repetition.                                               *)

\* An ordering of a finite set is a list of it: get_host_from_list, remove
\* and push_back rest on the next five facts.
LEMMA OrderingFacts ==
    ASSUME NEW S, IsFiniteSet(S), NEW s \in Orderings(S)
    PROVE  s \in Seq(S) /\ IsInjective(s) /\ Range(s) = S
<1>1. Cardinality(S) \in Nat
    BY FS_CardinalityType
<1> QED
    BY <1>1 DEF Orderings

\* list::remove leaves the other elements, each once.
LEMMA KeptFacts ==
    ASSUME NEW D, IsFiniteSet(D), NEW s \in Seq(D), NEW S, NEW t \in Kept(s, S)
    PROVE  t \in Seq(D) /\ IsInjective(t) /\ Range(t) = Range(s) \cap S
<1>1. Range(s) \cap S \in SUBSET D
    BY RangeOfSeq
<1>2. IsFiniteSet(Range(s) \cap S)
    BY <1>1, FS_Subset
<1>3. t \in Orderings(Range(s) \cap S)
    BY DEF Kept
<1>4. t \in Seq(Range(s) \cap S) /\ IsInjective(t) /\ Range(t) = Range(s) \cap S
    BY <1>2, <1>3, OrderingFacts
<1> QED
    BY <1>1, <1>4, SeqMonotonic

\* push_back of an element that is not in the list.
LEMMA AppendFacts ==
    ASSUME NEW D, NEW s \in Seq(D), IsInjective(s), NEW h \in D, h \notin Range(s)
    PROVE  /\ Append(s, h) \in Seq(D)
           /\ IsInjective(Append(s, h))
           /\ Range(Append(s, h)) = Range(s) \cup {h}
BY DEF IsInjective, Range

\* The new hosts of update() go behind the ones that stay.
LEMMA ConcatFacts ==
    ASSUME NEW D, NEW s \in Seq(D), NEW t \in Seq(D),
           IsInjective(s), IsInjective(t), Range(s) \cap Range(t) = {}
    PROVE  /\ s \o t \in Seq(D)
           /\ IsInjective(s \o t)
           /\ Range(s \o t) = Range(s) \cup Range(t)
<1>1. s \o t \in Seq(D) /\ Range(s \o t) = Range(s) \cup Range(t)
    BY RangeConcatenation
<1>2. ASSUME NEW i \in DOMAIN (s \o t), NEW j \in DOMAIN (s \o t), (s \o t)[i] = (s \o t)[j]
      PROVE  i = j
  <2>1. /\ \A k \in 1 .. Len(s) : (s \o t)[k] = s[k] /\ s[k] \in Range(s)
        /\ \A k \in Len(s) + 1 .. Len(s) + Len(t) :
              (s \o t)[k] = t[k - Len(s)] /\ t[k - Len(s)] \in Range(t)
        /\ i \in 1 .. Len(s) + Len(t) /\ j \in 1 .. Len(s) + Len(t)
      BY DEF Range
  <2>2. CASE i <= Len(s) /\ j <= Len(s)
      BY <1>2, <2>1, <2>2 DEF IsInjective
  <2>3. CASE i > Len(s) /\ j > Len(s)
    <3>1. i - Len(s) \in DOMAIN t /\ j - Len(s) \in DOMAIN t
        BY <2>1, <2>3
    <3>2. t[i - Len(s)] = t[j - Len(s)]
        BY <1>2, <2>1, <2>3
    <3> QED
        BY <2>1, <3>1, <3>2 DEF IsInjective
  <2>4. CASE i <= Len(s) /\ j > Len(s)
      BY <1>2, <2>1, <2>4
  <2>5. CASE i > Len(s) /\ j <= Len(s)
      BY <1>2, <2>1, <2>5
  <2> QED
      BY <2>1, <2>2, <2>3, <2>4, <2>5
<1> QED
    BY <1>1, <1>2 DEF IsInjective

\* get_host_from_list keeps the elements of the list.
LEMMA RotateFacts ==
    ASSUME NEW D, NEW s \in Seq(D), s # <<>>, IsInjective(s)
    PROVE  /\ Head(s) \in Range(s)
           /\ Rotate(s) \in Seq(D)
           /\ IsInjective(Rotate(s))
           /\ Range(Rotate(s)) = Range(s)
<1>1. Head(s) \in Range(s) /\ Head(s) \in D /\ Tail(s) \in Seq(D)
    BY DEF Range
<1>2. IsInjective(Tail(s))
    BY DEF IsInjective
<1>3. Head(s) \notin Range(Tail(s))
    BY DEF IsInjective, Range
<1>4. Range(s) = Range(Tail(s)) \cup {Head(s)}
  <2>1. Range(Tail(s)) \cup {Head(s)} \subseteq Range(s)
      BY DEF Range
  <2>2. ASSUME NEW i \in DOMAIN s PROVE s[i] \in Range(Tail(s)) \cup {Head(s)}
    <3>1. CASE i = 1
        BY <3>1
    <3>2. CASE i # 1
      <4>1. i - 1 \in DOMAIN Tail(s) /\ Tail(s)[i - 1] = s[i]
          BY <3>2
      <4> QED
          BY <4>1 DEF Range
    <3> QED
        BY <3>1, <3>2
  <2> QED
      BY <2>1, <2>2 DEF Range
<1>5. \A t \in Seq(D) : \A h \in D : IsInjective(t) /\ h \notin Range(t) =>
        /\ Append(t, h) \in Seq(D)
        /\ IsInjective(Append(t, h))
        /\ Range(Append(t, h)) = Range(t) \cup {h}
    BY AppendFacts
<1>6. /\ Append(Tail(s), Head(s)) \in Seq(D)
      /\ IsInjective(Append(Tail(s), Head(s)))
      /\ Range(Append(Tail(s), Head(s))) = Range(Tail(s)) \cup {Head(s)}
    BY <1>1, <1>2, <1>3, <1>5, Zenon
<1> QED
    BY <1>1, <1>4, <1>6, Zenon DEF Rotate


-----------------------------------------------------------------------------
(* The HostInfo operations stay in their type and say which queue.         *)

\* set_idle, set_overload and the constructor.
LEMMA FreshFacts ==
    ASSUME NEW over \in BOOLEAN, NEW t \in Int
    PROVE  Fresh(over, t) \in HostInfo /\ Fresh(over, t).overload = over
BY ConfigAssumption DEF Fresh, HostInfo, InitErrCnt

\* The counting part of report(), field by field.
LEMMA CountedIs ==
    ASSUME NEW c \in HostInfo
    PROVE  /\ Counted(c, TRUE) =
                [vsucc |-> c.vsucc + 1, verr |-> c.verr,
                 rsucc |-> c.rsucc + 1, rerr |-> c.rerr,
                 con_succ |-> c.con_succ + 1, con_err |-> 0,
                 overload |-> c.overload, ts |-> c.ts]
           /\ Counted(c, FALSE) =
                [vsucc |-> c.vsucc, verr |-> c.verr + 1,
                 rsucc |-> c.rsucc, rerr |-> c.rerr + 1,
                 con_succ |-> 0, con_err |-> c.con_err + 1,
                 overload |-> c.overload, ts |-> c.ts]
BY DEF Counted, HostInfo

\* Counting one call in report() changes the counters and nothing else.
LEMMA CountedFields ==
    ASSUME NEW c \in HostInfo, NEW d
    PROVE  /\ d = Counted(c, TRUE) =>
                /\ d.vsucc = c.vsucc + 1 /\ d.verr = c.verr
                /\ d.rsucc = c.rsucc + 1 /\ d.rerr = c.rerr
                /\ d.con_succ = c.con_succ + 1 /\ d.con_err = 0
           /\ d = Counted(c, FALSE) =>
                /\ d.vsucc = c.vsucc /\ d.verr = c.verr + 1
                /\ d.rsucc = c.rsucc /\ d.rerr = c.rerr + 1
                /\ d.con_succ = 0 /\ d.con_err = c.con_err + 1
<1>1. CASE d = Counted(c, TRUE)
    BY <1>1 DEF Counted, HostInfo
<1>2. CASE d = Counted(c, FALSE)
    BY <1>2 DEF Counted, HostInfo
<1> QED
    BY <1>1, <1>2

\* Counting a call does not change the queue.
LEMMA CountedFacts ==
    ASSUME NEW c \in HostInfo, NEW ok \in BOOLEAN
    PROVE  Counted(c, ok) \in HostInfo /\ Counted(c, ok).overload = c.overload
<1>1. /\ c.vsucc \in Nat /\ c.verr \in Nat /\ c.rsucc \in Nat /\ c.rerr \in Nat
      /\ c.con_succ \in Nat /\ c.con_err \in Nat
      /\ c.overload \in BOOLEAN /\ c.ts \in Int
    BY DEF HostInfo
<1>2. /\ Counted(c, TRUE) \in HostInfo /\ Counted(c, TRUE).overload = c.overload
      /\ Counted(c, FALSE) \in HostInfo /\ Counted(c, FALSE).overload = c.overload
  <2> DEFINE s == [vsucc |-> c.vsucc + 1, verr |-> c.verr,
                   rsucc |-> c.rsucc + 1, rerr |-> c.rerr,
                   con_succ |-> c.con_succ + 1, con_err |-> 0,
                   overload |-> c.overload, ts |-> c.ts]
             f == [vsucc |-> c.vsucc, verr |-> c.verr + 1,
                   rsucc |-> c.rsucc, rerr |-> c.rerr + 1,
                   con_succ |-> 0, con_err |-> c.con_err + 1,
                   overload |-> c.overload, ts |-> c.ts]
  <2>1. s \in HostInfo /\ s.overload = c.overload /\ f \in HostInfo /\ f.overload = c.overload
      BY <1>1 DEF HostInfo
  <2>2. Counted(c, TRUE) = s /\ Counted(c, FALSE) = f
      BY CountedIs
  <2> QED
      BY <2>1, <2>2, Zenon
<1>3. CASE ok = TRUE
    BY <1>2, <1>3, Zenon
<1>4. CASE ok = FALSE
    BY <1>2, <1>4, Zenon
<1> QED
    BY <1>3, <1>4

\* The rows of a commit are typed if the lists hold hosts with a HostInfo.
LEMMA ResultsType ==
    ASSUME NEW L \in SUBSET Host, NEW i \in [L -> HostInfo], NEW s, NEW t,
           Range(s) \subseteq L, Range(t) \subseteq L
    PROVE  Results(i, s, t) \subseteq Rows
<1>1. ASSUME NEW h \in L, NEW o \in BOOLEAN PROVE Row(i, h, o) \in Rows
    BY <1>1 DEF Row, Rows, HostInfo
<1> QED
    BY <1>1 DEF Results

-----------------------------------------------------------------------------
(* The queues.  Typing, the partition into two queues and the fact that    *)
(* every host with a HostInfo is in the last route are inductive together: *)
(* the domain of info is the union of the queues, and update() needs both  *)
(* to remove what it deletes.                                              *)

Lists == <<host_map, freed, info, idle_list, overload_list, route>>

IndInv == TypeOK /\ QueuesPartition /\ Live \subseteq route

\* A new LoadBalance has two empty queues.
LEMMA InitIndInv == Init => IndInv
<1> SUFFICES ASSUME Init PROVE IndInv
    OBVIOUS
<1>1. Live = {} /\ info \in [Live -> HostInfo]
    BY DEF Init, Live
<1>2. TypeOK
  <2>1. idle_list \in Seq(Host) /\ overload_list \in Seq(Host)
      BY DEF Init
  <2>2. host_map \in SUBSET Host /\ freed \in SUBSET host_map /\ route \in SUBSET Host
      BY DEF Init
  <2>3. /\ access_cnt \in (-MaxInt - 1) .. MaxInt /\ now \in Nat /\ undef \in BOOLEAN
        /\ sent \in SUBSET Rows /\ answer \in Host \cup {RetOverload, NoAnswer}
      BY DEF Init
  <2> QED
      BY <1>1, <2>1, <2>2, <2>3 DEF TypeOK
<1>3. QueuesPartition
    BY <1>1 DEF Init, QueuesPartition, IsInjective, Range
<1> QED
    BY <1>1, <1>2, <1>3 DEF IndInv

\* A step that leaves the table alone keeps the invariant.
LEMMA FrameIndInv ==
    ASSUME IndInv, UNCHANGED Lists,
           access_cnt' \in (-MaxInt - 1) .. MaxInt,
           answer' \in Host \cup {RetOverload, NoAnswer},
           sent' \in SUBSET Rows, undef' \in BOOLEAN, now' \in Nat
    PROVE  IndInv'
BY DEF IndInv, Lists, TypeOK, QueuesPartition, Live

\* An undefined operation changes neither map nor queues.
LEMMA UndefinedIndInv ==
    ASSUME IndInv, Undefined
    PROVE  IndInv'
BY FrameIndInv DEF IndInv, TypeOK, Undefined, Lists

\* ++access_cnt_ stays an int.
LEMMA IncrementType ==
    ASSUME NEW n \in (-MaxInt - 1) .. MaxInt
    PROVE  Increment(n) \in (-MaxInt - 1) .. MaxInt
BY ConfigAssumption DEF Increment

\* pick_one_host turns a queue round; its hosts stay.
LEMMA PickIndInv ==
    ASSUME IndInv, pick_one_host
    PROVE  IndInv'
<1> USE DEF IndInv
<1>1. CASE PickProbe
  <2>1. /\ Head(overload_list) \in Range(overload_list)
        /\ overload_list' \in Seq(Host) /\ IsInjective(overload_list')
        /\ Range(overload_list') = Range(overload_list)
      BY <1>1, RotateFacts DEF PickProbe, TypeOK, QueuesPartition
  <2>2. Head(overload_list) \in Host
      BY <2>1 DEF QueuesPartition, TypeOK, Live
  <2>3. TypeOK'
      BY <1>1, <2>1, <2>2, ConfigAssumption DEF PickProbe, TypeOK, Live
  <2>4. QueuesPartition'
      BY <1>1, <2>1 DEF PickProbe, QueuesPartition, Live
  <2> QED
      BY <1>1, <2>3, <2>4 DEF PickProbe, Live
<1>2. CASE PickIdle
  <2>1. /\ Head(idle_list) \in Range(idle_list)
        /\ idle_list' \in Seq(Host) /\ IsInjective(idle_list')
        /\ Range(idle_list') = Range(idle_list)
      BY <1>2, RotateFacts DEF PickIdle, TypeOK, QueuesPartition
  <2>2. Head(idle_list) \in Host
      BY <2>1 DEF QueuesPartition, TypeOK, Live
  <2>3. TypeOK'
      BY <1>2, <2>1, <2>2, IncrementType DEF PickIdle, TypeOK, Live
  <2>4. QueuesPartition'
      BY <1>2, <2>1 DEF PickIdle, QueuesPartition, Live
  <2> QED
      BY <1>2, <2>3, <2>4 DEF PickIdle, Live
<1>3. CASE PickRefused
    BY <1>3, FrameIndInv, IncrementType DEF PickRefused, TypeOK, Lists
<1>4. CASE PickEmpty
    BY <1>4, UndefinedIndInv DEF PickEmpty
<1> QED
    BY <1>1, <1>2, <1>3, <1>4 DEF pick_one_host

\* update() adds to the idle queue what it adds to the map and takes from
\* the queues what it deletes.
LEMMA UpdateIndInv ==
    ASSUME IndInv, NEW rsp \in SUBSET Host, update(rsp)
    PROVE  IndInv'
<1> USE DEF IndInv
<1>1. CASE freed \subseteq rsp /\ Refresh(rsp, rsp \ host_map)
  <2> DEFINE added == rsp \ host_map
             kept  == Live \cap rsp
  <2>1. host_map' = host_map \cup rsp /\ freed' = freed \cup (host_map \ rsp)
      BY <1>1 DEF Refresh
  <2>2. Live' = kept \cup added
      BY <2>1 DEF Live, TypeOK
  <2>3. PICK junk \in [added -> JunkTs] :
          info' = [h \in kept \cup added |->
                     IF h \in added THEN NewHost(junk[h]) ELSE info[h]]
      BY <1>1 DEF Refresh
  <2>4. ASSUME NEW h \in Live'
        PROVE  /\ info'[h] \in HostInfo
               /\ info'[h].overload = (h \in kept /\ info[h].overload)
    <3>1. CASE h \in added
      <4>1. junk[h] \in Int
          BY <3>1, ConfigAssumption
      <4>2. info'[h] = Fresh(FALSE, junk[h]) /\ h \notin kept
          BY <2>2, <2>3, <3>1 DEF NewHost, Live
      <4> QED
          BY <4>1, <4>2, FreshFacts
    <3>2. CASE h \notin added
      <4>1. h \in kept /\ info'[h] = info[h]
          BY <2>2, <2>3, <2>4, <3>2
      <4>2. info[h] \in HostInfo
          BY <4>1 DEF TypeOK
      <4> QED
          BY <4>1, <4>2 DEF HostInfo
    <3> QED
        BY <3>1, <3>2
  <2>5. info' \in [Live' -> HostInfo]
      BY <2>2, <2>3, <2>4
  <2>6. PICK idle \in Kept(idle_list, rsp), new \in Orderings(added) :
          idle_list' = idle \o new
      BY <1>1 DEF Refresh
  <2>7. idle \in Seq(Host) /\ IsInjective(idle) /\ Range(idle) = Range(idle_list) \cap rsp
      BY <2>6, KeptFacts, HostAssumption DEF TypeOK
  <2>8. new \in Seq(Host) /\ IsInjective(new) /\ Range(new) = added
    <3>1. IsFiniteSet(added) /\ added \subseteq Host
        BY HostAssumption, FS_Subset
    <3>2. new \in Seq(added) /\ IsInjective(new) /\ Range(new) = added
        BY <2>6, <3>1, OrderingFacts
    <3> QED
        BY <3>1, <3>2, SeqMonotonic
  <2>9. Range(idle) \cap Range(new) = {}
      BY <2>7, <2>8 DEF QueuesPartition, Live
  <2>10. /\ idle_list' \in Seq(Host) /\ IsInjective(idle_list')
         /\ Range(idle_list') = (Range(idle_list) \cap rsp) \cup added
      BY <2>6, <2>7, <2>8, <2>9, ConcatFacts
  <2>11. overload_list' \in Kept(overload_list, rsp)
      BY <1>1 DEF Refresh
  <2>12. /\ overload_list' \in Seq(Host) /\ IsInjective(overload_list')
         /\ Range(overload_list') = Range(overload_list) \cap rsp
      BY <2>11, KeptFacts, HostAssumption DEF TypeOK
  <2>13. TypeOK'
      BY <1>1, <2>1, <2>5, <2>10, <2>12 DEF Refresh, TypeOK
  <2>14. QueuesPartition'
    <3>1. Range(idle_list') = {h \in Live' : ~info'[h].overload}
        BY <2>2, <2>4, <2>10 DEF QueuesPartition, Live
    <3>2. Range(overload_list') = {h \in Live' : info'[h].overload}
        BY <2>2, <2>4, <2>12 DEF QueuesPartition, Live
    <3> QED
        BY <2>10, <2>12, <3>1, <3>2 DEF QueuesPartition
  <2>15. (Live \subseteq route)'
      BY <1>1, <2>2 DEF Refresh
  <2> QED
      BY <2>13, <2>14, <2>15
<1>2. CASE ~(freed \subseteq rsp) /\ Undefined
    BY <1>2, UndefinedIndInv
<1> QED
    BY <1>1, <1>2 DEF update

\* The state after a report, given where the reported host h went: its new
\* HostInfo and the list that its flag names.
LEMMA MovedIndInv ==
    ASSUME IndInv, NEW h \in Live, NEW c \in HostInfo,
           info' = [info EXCEPT ![h] = c],
           idle_list' \in Seq(Host), overload_list' \in Seq(Host),
           IsInjective(idle_list'), IsInjective(overload_list'),
           Range(idle_list') = (Range(idle_list) \ {h}) \cup (IF c.overload THEN {} ELSE {h}),
           Range(overload_list') = (Range(overload_list) \ {h}) \cup (IF c.overload THEN {h} ELSE {}),
           answer' = NoAnswer, Commit, ReportFrame
    PROVE  IndInv'
<1> USE DEF IndInv
<1>1. Live' = Live /\ host_map' = host_map
    BY DEF ReportFrame, Live
<1>2. info' \in [Live -> HostInfo] /\ info'[h] = c /\ \A g \in Live \ {h} : info'[g] = info[g]
    BY DEF TypeOK
<1>3. Range(idle_list') = {g \in Live : ~info'[g].overload}
    BY <1>2 DEF QueuesPartition
<1>4. Range(overload_list') = {g \in Live : info'[g].overload}
    BY <1>2 DEF QueuesPartition
<1>5. QueuesPartition'
    BY <1>1, <1>3, <1>4 DEF QueuesPartition
<1>6. sent' \in SUBSET Rows
  <2>1. Live \in SUBSET Host /\ Range(idle_list') \subseteq Live /\ Range(overload_list') \subseteq Live
      BY <1>3, <1>4 DEF TypeOK, Live
  <2>2. Results(info', idle_list', overload_list') \subseteq Rows
      BY <1>2, <2>1, ResultsType
  <2> QED
      BY <2>2 DEF Commit
<1>7. TypeOK'
    BY <1>1, <1>2, <1>6 DEF TypeOK, ReportFrame
<1> QED
    BY <1>1, <1>5, <1>7 DEF ReportFrame

\* report() moves a host from the queue of its old flag to that of the new.
LEMMA ReportIndInv ==
    ASSUME IndInv, NEW h \in Host, NEW ok \in BOOLEAN, report_host(h, ok)
    PROVE  IndInv'
<1>1. CASE h \in Live /\ ReportLive(h, ok)
  <2> DEFINE c == Counted(info[h], ok)
  <2>0. /\ h \in Live /\ info[h] \in HostInfo /\ now \in Int
        /\ idle_list \in Seq(Host) /\ overload_list \in Seq(Host)
        /\ IsInjective(idle_list) /\ IsInjective(overload_list)
        /\ Range(idle_list) = {g \in Live : ~info[g].overload}
        /\ Range(overload_list) = {g \in Live : info[g].overload}
      BY <1>1 DEF IndInv, TypeOK, QueuesPartition
  <2>1. c \in HostInfo /\ c.overload = info[h].overload
      BY <2>0, CountedFacts
  <2>2. answer' = NoAnswer /\ Commit /\ ReportFrame
      BY <1>1 DEF ReportLive
  <2>3. /\ set_idle \in HostInfo /\ set_idle.overload = FALSE
        /\ set_overload \in HostInfo /\ set_overload.overload = TRUE
      BY <2>0, FreshFacts DEF set_idle, set_overload
  <2> HIDE DEF c
  <2>4. CASE BecomesOverload(c, ok) /\ ToOverload(h)
    <3>1. h \notin Range(overload_list)
        BY <2>0, <2>1, <2>4 DEF BecomesOverload
    <3>2. /\ idle_list' \in Seq(Host) /\ IsInjective(idle_list')
          /\ Range(idle_list') = Range(idle_list) \cap (Live \ {h})
        BY <2>0, <2>4, KeptFacts, HostAssumption DEF ToOverload
    <3>3. /\ overload_list' \in Seq(Host) /\ IsInjective(overload_list')
          /\ Range(overload_list') = Range(overload_list) \cup {h}
        BY <2>0, <2>4, <3>1, AppendFacts DEF ToOverload
    <3>4. /\ Range(idle_list') = (Range(idle_list) \ {h}) \cup {}
          /\ Range(overload_list') = (Range(overload_list) \ {h}) \cup {h}
        BY <2>0, <3>1, <3>2, <3>3
    <3> QED
        BY <2>0, <2>2, <2>3, <2>4, <3>2, <3>3, <3>4, MovedIndInv DEF ToOverload
  <2>5. CASE BecomesIdle(c, ok) /\ ToIdle(h)
    <3>1. h \notin Range(idle_list)
        BY <2>0, <2>1, <2>5 DEF BecomesIdle
    <3>2. /\ overload_list' \in Seq(Host) /\ IsInjective(overload_list')
          /\ Range(overload_list') = Range(overload_list) \cap (Live \ {h})
        BY <2>0, <2>5, KeptFacts, HostAssumption DEF ToIdle
    <3>3. /\ idle_list' \in Seq(Host) /\ IsInjective(idle_list')
          /\ Range(idle_list') = Range(idle_list) \cup {h}
        BY <2>0, <2>5, <3>1, AppendFacts DEF ToIdle
    <3>4. /\ Range(overload_list') = (Range(overload_list) \ {h}) \cup {}
          /\ Range(idle_list') = (Range(idle_list) \ {h}) \cup {h}
        BY <2>0, <3>1, <3>2, <3>3
    <3> QED
        BY <2>0, <2>2, <2>3, <2>5, <3>2, <3>3, <3>4, MovedIndInv DEF ToIdle
  <2>6. ASSUME NEW d \in HostInfo, d.overload = info[h].overload, InPlace(h, d)
        PROVE  IndInv'
    <3>1. /\ Range(idle_list) = (Range(idle_list) \ {h}) \cup (IF d.overload THEN {} ELSE {h})
          /\ Range(overload_list) = (Range(overload_list) \ {h}) \cup (IF d.overload THEN {h} ELSE {})
        BY <2>0, <2>6
    <3> QED
        BY <2>0, <2>2, <2>6, <3>1, MovedIndInv DEF InPlace
  <2>7. CASE RestartsWindow(c, ok) /\ InPlace(h, set_idle)
    <3>1. ~info[h].overload
        BY <2>1, <2>7 DEF RestartsWindow
    <3>2. info[h].overload = FALSE
        BY <2>0, <3>1 DEF HostInfo
    <3> QED
        BY <2>3, <2>6, <2>7, <3>2
  <2>8. CASE InPlace(h, c)
      BY <2>1, <2>6, <2>8
  <2> QED
      BY <1>1, <2>4, <2>5, <2>7, <2>8 DEF ReportLive, c
<1>2. CASE h \notin host_map /\ ReportUnknown
  <2>1. Live \in SUBSET Host /\ info \in [Live -> HostInfo]
      BY DEF IndInv, TypeOK, Live
  <2>2. Range(idle_list) \subseteq Live /\ Range(overload_list) \subseteq Live
      BY DEF IndInv, QueuesPartition
  <2>3. Results(info, idle_list, overload_list) \subseteq Rows
      BY <2>1, <2>2, ResultsType
  <2>4. sent' \in SUBSET Rows
      BY <1>2, <2>3 DEF ReportUnknown, Commit
  <2> QED
      BY <1>2, <2>4, FrameIndInv DEF ReportUnknown, ReportFrame, Lists, IndInv, TypeOK
<1>3. CASE h \in freed /\ Undefined
    BY <1>3, UndefinedIndInv
<1> QED
    BY <1>1, <1>2, <1>3 DEF report_host

\* Time changes no queue.
LEMMA TickIndInv ==
    ASSUME IndInv, Tick
    PROVE  IndInv'
<1>1. now' \in Nat
    BY DEF IndInv, TypeOK, Tick
<1> QED
    BY <1>1, FrameIndInv DEF Tick, Lists, IndInv, TypeOK

\* Every action of the object keeps typing and the two queues.
LEMMA NextIndInv == IndInv /\ [Next]_vars => IndInv'
<1> SUFFICES ASSUME IndInv, [Next]_vars PROVE IndInv'
    OBVIOUS
<1>1. CASE pick_one_host
    BY <1>1, PickIndInv
<1>2. CASE \E rsp \in SUBSET Host \ {{}} : update(rsp)
    BY <1>2, UpdateIndInv
<1>3. CASE \E h \in Host, ok \in BOOLEAN : report_host(h, ok)
    BY <1>3, ReportIndInv
<1>4. CASE get_all_hosts
    BY <1>4, UndefinedIndInv DEF get_all_hosts
<1>5. CASE Tick
    BY <1>5, TickIndInv
<1>6. CASE UNCHANGED vars
    BY <1>6, FrameIndInv DEF vars, Lists, IndInv, TypeOK
<1> QED
    BY <1>1, <1>2, <1>3, <1>4, <1>5, <1>6 DEF Next

\* The state keeps its type, and every host with a HostInfo is in exactly the
\* queue its flag names: load_balance.cpp never loses or doubles a host,
\* whatever is picked, reported, updated or ticked, in any order.
THEOREM QueuesSafe == Spec => [](TypeOK /\ QueuesPartition)
<1>1. IndInv => TypeOK /\ QueuesPartition
    BY DEF IndInv
<1> QED
    BY <1>1, InitIndInv, NextIndInv, PTL DEF Spec

-----------------------------------------------------------------------------
(* The counters.  What one HostInfo satisfies between two operations.      *)

InRightQueue(c) == IF c.overload THEN ~MustIdle(c) ELSE ~MustOverload(c)

SeededBy(c, s) ==
    /\ c.vsucc = s.vsucc + c.rsucc /\ c.verr = s.verr + c.rerr
    /\ c.con_succ <= c.rsucc /\ c.con_err <= c.rerr
    /\ c.con_succ = 0 \/ c.con_err = 0

Sound(c) == InRightQueue(c) /\ SeededBy(c, Fresh(c.overload, 0))

CountersInv == \A h \in Live : Sound(info[h])

\* The two properties of the runs are CountersInv.
LEMMA CountersInvIs == CountersInv <=> NoOverdueSwitch /\ CountersAgree
BY DEF CountersInv, Sound, InRightQueue, SeededBy, NoOverdueSwitch, CountersAgree

\* A threshold product grows with the number of calls.
LEMMA Product ==
    ASSUME NEW r \in Nat, NEW n \in Nat
    PROVE  r * n \in Nat /\ r * (n + 1) = r * n + r
OBVIOUS

\* A host that has just entered a queue has no reason to leave it.
LEMMA FreshSound ==
    ASSUME NEW over \in BOOLEAN, NEW t \in Int
    PROVE  Sound(Fresh(over, t))
<1>1. CASE over = TRUE
  <2> DEFINE c == [vsucc |-> 0, verr |-> 0, rsucc |-> 0, rerr |-> 0, con_succ |-> 0,
                   con_err |-> 0, overload |-> TRUE, ts |-> t]
  <2>1. Fresh(over, t) = c
      BY <1>1 DEF Fresh, InitErrCnt
  <2>2. ~MustIdle(c)
      BY ConfigAssumption DEF MustIdle
  <2>3. SeededBy(c, Fresh(TRUE, 0))
      BY DEF SeededBy, Fresh, InitErrCnt
  <2>4. c.overload = TRUE
      OBVIOUS
  <2> HIDE DEF c
  <2> QED
      BY <2>1, <2>2, <2>3, <2>4, Zenon DEF Sound, InRightQueue
<1>2. CASE over = FALSE
  <2> DEFINE c == [vsucc |-> InitSuccCnt, verr |-> 0, rsucc |-> 0, rerr |-> 0, con_succ |-> 0,
                   con_err |-> 0, overload |-> FALSE, ts |-> t]
  <2>1. Fresh(over, t) = c
      BY <1>2 DEF Fresh
  <2>2. ~MustOverload(c)
    <3>1. ErrRate * (InitSuccCnt + 0) \in Nat
        BY ConfigAssumption, Product
    <3> QED
        BY <3>1, ConfigAssumption DEF MustOverload
  <2>3. SeededBy(c, Fresh(FALSE, 0))
      BY ConfigAssumption DEF SeededBy, Fresh
  <2>4. c.overload = FALSE
      OBVIOUS
  <2> HIDE DEF c
  <2> QED
      BY <2>1, <2>2, <2>3, <2>4, Zenon DEF Sound, InRightQueue
<1> QED
    BY <1>1, <1>2

\* report() need not test the threshold of a queue on the calls that it does
\* not test it on: a success cannot push an idle host over the error rate,
\* nor a failure an overloaded one over the success rate.
LEMMA CountedSound ==
    ASSUME NEW c \in HostInfo, NEW ok \in BOOLEAN, Sound(c),
           ~BecomesOverload(Counted(c, ok), ok), ~BecomesIdle(Counted(c, ok), ok)
    PROVE  Sound(Counted(c, ok))
<1> DEFINE d == Counted(c, ok)
<1>1. /\ c.vsucc \in Nat /\ c.verr \in Nat /\ c.rsucc \in Nat /\ c.rerr \in Nat
      /\ c.con_succ \in Nat /\ c.con_err \in Nat /\ c.overload \in BOOLEAN
    BY DEF HostInfo
<1>2. /\ Fresh(c.overload, 0).vsucc \in Nat /\ Fresh(c.overload, 0).verr \in Nat
    BY ConfigAssumption DEF Fresh, InitErrCnt
<1>3. d.overload = c.overload
    BY CountedFacts
<1>4. CASE ok = TRUE
  <2>1. /\ d.vsucc = c.vsucc + 1 /\ d.verr = c.verr
        /\ d.rsucc = c.rsucc + 1 /\ d.rerr = c.rerr
        /\ d.con_succ = c.con_succ + 1 /\ d.con_err = 0
    <3>1. d = Counted(c, TRUE)
        BY <1>4
    <3> HIDE DEF d
    <3> QED
        BY <3>1, CountedFields
  <2> HIDE DEF d
  <2>2. SeededBy(d, Fresh(d.overload, 0))
    <3>1. Fresh(d.overload, 0) = Fresh(c.overload, 0)
        BY <1>3, Zenon
    <3>2. SeededBy(c, Fresh(c.overload, 0))
        BY DEF Sound
    <3>3. SeededBy(d, Fresh(c.overload, 0))
        BY <1>1, <1>2, <2>1, <3>2 DEF SeededBy
    <3> QED
        BY <3>1, <3>3, Zenon
  <2>3. CASE ~c.overload
    <3>1. ErrRate * ((c.vsucc + c.verr) + 1) = ErrRate * (c.vsucc + c.verr) + ErrRate
        BY <1>1, ConfigAssumption, Product
    <3>2. ErrRate * (c.vsucc + c.verr) \in Nat
        BY <1>1, ConfigAssumption, Product
    <3>3. d.vsucc + d.verr = (c.vsucc + c.verr) + 1
        BY <1>1, <2>1
    <3>4. ~(100 * c.verr > ErrRate * (c.vsucc + c.verr))
        BY <2>3 DEF Sound, InRightQueue, MustOverload
    <3>5. ~MustOverload(d)
        BY <1>1, <2>1, <3>1, <3>2, <3>3, <3>4, ConfigAssumption DEF MustOverload
    <3> QED
        BY <1>3, <2>2, <2>3, <3>5 DEF Sound, InRightQueue, d
  <2>4. CASE c.overload
    <3>1. ~MustIdle(d)
        BY <1>4, <1>3, <2>4 DEF BecomesIdle, d
    <3> QED
        BY <1>3, <2>2, <2>4, <3>1 DEF Sound, InRightQueue, d
  <2> QED
      BY <2>3, <2>4
<1>5. CASE ok = FALSE
  <2>1. /\ d.vsucc = c.vsucc /\ d.verr = c.verr + 1
        /\ d.rsucc = c.rsucc /\ d.rerr = c.rerr + 1
        /\ d.con_succ = 0 /\ d.con_err = c.con_err + 1
    <3>1. d = Counted(c, FALSE)
        BY <1>5
    <3> HIDE DEF d
    <3> QED
        BY <3>1, CountedFields
  <2> HIDE DEF d
  <2>2. SeededBy(d, Fresh(d.overload, 0))
    <3>1. Fresh(d.overload, 0) = Fresh(c.overload, 0)
        BY <1>3, Zenon
    <3>2. SeededBy(c, Fresh(c.overload, 0))
        BY DEF Sound
    <3>3. SeededBy(d, Fresh(c.overload, 0))
        BY <1>1, <1>2, <2>1, <3>2 DEF SeededBy
    <3> QED
        BY <3>1, <3>3, Zenon
  <2>3. CASE c.overload
    <3>1. SuccRate * ((c.vsucc + c.verr) + 1) = SuccRate * (c.vsucc + c.verr) + SuccRate
        BY <1>1, ConfigAssumption, Product
    <3>2. SuccRate * (c.vsucc + c.verr) \in Nat
        BY <1>1, ConfigAssumption, Product
    <3>3. d.vsucc + d.verr = (c.vsucc + c.verr) + 1
        BY <1>1, <2>1
    <3>4. ~(100 * c.vsucc > SuccRate * (c.vsucc + c.verr))
        BY <2>3 DEF Sound, InRightQueue, MustIdle
    <3>5. ~MustIdle(d)
        BY <1>1, <2>1, <3>1, <3>2, <3>3, <3>4, ConfigAssumption DEF MustIdle
    <3> QED
        BY <1>3, <2>2, <2>3, <3>5 DEF Sound, InRightQueue, d
  <2>4. CASE ~c.overload
    <3>1. ~MustOverload(d)
        BY <1>5, <1>3, <2>4 DEF BecomesOverload, d
    <3> QED
        BY <1>3, <2>2, <2>4, <3>1 DEF Sound, InRightQueue, d
  <2> QED
      BY <2>3, <2>4
<1> QED
    BY <1>4, <1>5

\* update() keeps the counters of the hosts that stay; a new host has the
\* seed of the idle queue.
LEMMA UpdateCountersInv ==
    ASSUME IndInv, CountersInv, NEW rsp \in SUBSET Host, update(rsp)
    PROVE  CountersInv'
<1>1. CASE freed \subseteq rsp /\ Refresh(rsp, rsp \ host_map)
  <2>1. Live' = (Live \cap rsp) \cup (rsp \ host_map)
      BY <1>1 DEF Refresh, Live, IndInv, TypeOK
  <2>2. PICK junk \in [rsp \ host_map -> JunkTs] :
          info' = [h \in (Live \cap rsp) \cup (rsp \ host_map) |->
                     IF h \in rsp \ host_map THEN NewHost(junk[h]) ELSE info[h]]
      BY <1>1 DEF Refresh
  <2>3. ASSUME NEW h \in Live' PROVE Sound(info'[h])
    <3>1. CASE h \in rsp \ host_map
      <4>1. junk[h] \in Int /\ info'[h] = Fresh(FALSE, junk[h])
          BY <2>1, <2>2, <3>1, ConfigAssumption DEF NewHost
      <4> QED
          BY <4>1, FreshSound
    <3>2. CASE h \notin rsp \ host_map
      <4>1. h \in Live /\ info'[h] = info[h]
          BY <2>1, <2>2, <2>3, <3>2
      <4> QED
          BY <4>1 DEF CountersInv
    <3> QED
        BY <3>1, <3>2
  <2>4. ASSUME NEW h \in Live' PROVE Sound(info[h])'
      BY <2>3 DEF Sound, InRightQueue, SeededBy, MustIdle, MustOverload, Fresh, InitErrCnt
  <2> QED
      BY <2>4 DEF CountersInv
<1>2. CASE Undefined
    BY <1>2 DEF CountersInv, Undefined, Live, Sound, InRightQueue, SeededBy, MustIdle,
                MustOverload, Fresh, InitErrCnt
<1> QED
    BY <1>1, <1>2 DEF update

\* One HostInfo changes, the others stay.
LEMMA OneSound ==
    ASSUME IndInv, CountersInv, NEW h \in Live, NEW c, Sound(c),
           info' = [info EXCEPT ![h] = c], Live' = Live
    PROVE  CountersInv'
<1>1. ASSUME NEW g \in Live PROVE Sound(info'[g])
  <2>1. CASE g = h
      BY <2>1 DEF IndInv, TypeOK
  <2>2. CASE g # h
      BY <2>2 DEF IndInv, TypeOK, CountersInv
  <2> QED
      BY <2>1, <2>2
<1> QED
    BY <1>1 DEF CountersInv, Sound, InRightQueue, SeededBy, MustIdle, MustOverload, Fresh,
                InitErrCnt

\* Counters that do not change stay right.
LEMMA FrameCountersInv ==
    ASSUME CountersInv, UNCHANGED <<host_map, freed, info>>
    PROVE  CountersInv'
BY DEF CountersInv, Live, Sound, InRightQueue, SeededBy, MustIdle, MustOverload, Fresh,
       InitErrCnt

\* report() leaves every host below the thresholds of its queue: a failure
\* is the only call that can overload an idle host, a success the only one
\* that can free an overloaded one.
LEMMA ReportCountersInv ==
    ASSUME IndInv, CountersInv, NEW h \in Host, NEW ok \in BOOLEAN, report_host(h, ok)
    PROVE  CountersInv'
<1>1. CASE h \in Live /\ ReportLive(h, ok)
  <2>1. h \in Live /\ info[h] \in HostInfo /\ Sound(info[h]) /\ now \in Int
      BY <1>1 DEF IndInv, TypeOK, CountersInv
  <2>2. Live' = Live
      BY <1>1 DEF ReportLive, ReportFrame, Live
  <2>3. Sound(set_idle) /\ Sound(set_overload)
      BY <2>1, FreshSound DEF set_idle, set_overload
  <2>4. CASE ToOverload(h)
      BY <2>1, <2>2, <2>3, <2>4, OneSound DEF ToOverload
  <2>5. CASE ToIdle(h)
      BY <2>1, <2>2, <2>3, <2>5, OneSound DEF ToIdle
  <2>6. CASE InPlace(h, set_idle)
      BY <2>1, <2>2, <2>3, <2>6, OneSound DEF InPlace
  <2>7. CASE /\ ~BecomesOverload(Counted(info[h], ok), ok)
             /\ ~BecomesIdle(Counted(info[h], ok), ok)
             /\ InPlace(h, Counted(info[h], ok))
    <3>1. Sound(Counted(info[h], ok))
        BY <2>1, <2>7, CountedSound
    <3> QED
        BY <2>1, <2>2, <2>7, <3>1, OneSound DEF InPlace
  <2> QED
      BY <1>1, <2>4, <2>5, <2>6, <2>7 DEF ReportLive
<1>2. CASE ReportUnknown
    BY <1>2, FrameCountersInv DEF ReportUnknown, ReportFrame
<1>3. CASE Undefined
    BY <1>3, FrameCountersInv DEF Undefined
<1> QED
    BY <1>1, <1>2, <1>3 DEF report_host

\* Every action keeps the counters of every host within its queue's rules.
LEMMA NextCountersInv == IndInv /\ CountersInv /\ [Next]_vars => CountersInv'
<1> SUFFICES ASSUME IndInv, CountersInv, [Next]_vars PROVE CountersInv'
    OBVIOUS
<1>1. CASE pick_one_host
    BY <1>1, FrameCountersInv
       DEF pick_one_host, PickProbe, PickIdle, PickRefused, PickEmpty, Undefined
<1>2. CASE \E rsp \in SUBSET Host \ {{}} : update(rsp)
    BY <1>2, UpdateCountersInv
<1>3. CASE \E h \in Host, ok \in BOOLEAN : report_host(h, ok)
    BY <1>3, ReportCountersInv
<1>4. CASE get_all_hosts
    BY <1>4, FrameCountersInv DEF get_all_hosts, Undefined
<1>5. CASE Tick
    BY <1>5, FrameCountersInv DEF Tick
<1>6. CASE UNCHANGED vars
    BY <1>6, FrameCountersInv DEF vars
<1> QED
    BY <1>1, <1>2, <1>3, <1>4, <1>5, <1>6 DEF Next

\* No host is ever left in a queue that its counters say it must leave, and
\* the virtual counters are the reported ones on top of the seed: the tests
\* that report() makes, only on failures of idle hosts and on successes of
\* overloaded ones, are enough for every configuration.
THEOREM CountersSafe == Spec => [](NoOverdueSwitch /\ CountersAgree)
<1>1. Init => CountersInv
    BY DEF Init, CountersInv, Live
<1>2. IndInv /\ CountersInv /\ [Next]_vars => IndInv' /\ CountersInv'
    BY NextIndInv, NextCountersInv
<1>3. CountersInv => NoOverdueSwitch /\ CountersAgree
    BY CountersInvIs
<1> QED
    BY <1>1, <1>2, <1>3, InitIndInv, PTL DEF Spec

-----------------------------------------------------------------------------
(* What leaves the object: answers and reports.                            *)

\* get_host hands out hosts of the last route only; a commit names every
\* host with a HostInfo, with its flag.
OutInv == AnswerFromRoute /\ OneRowPerHost

\* The rows of commit() are those of the hosts of both queues.
LEMMA ResultsAre ==
    ASSUME NEW L, NEW i \in [L -> HostInfo], NEW s, NEW t,
           Range(s) = {h \in L : ~i[h].overload}, Range(t) = {h \in L : i[h].overload}
    PROVE  /\ {r.host : r \in Results(i, s, t)} = L
           /\ \A r \in Results(i, s, t) : r = Row(i, r.host, i[r.host].overload)
<1>1. \A h \in L : i[h].overload \in BOOLEAN
    BY DEF HostInfo
<1>2. ASSUME NEW h, NEW o PROVE Row(i, h, o).host = h
    BY DEF Row
<1>3. ASSUME NEW r \in Results(i, s, t)
      PROVE  r.host \in L /\ r = Row(i, r.host, i[r.host].overload)
  <2>1. CASE \E h \in Range(s) : r = Row(i, h, FALSE)
    <3>1. PICK h \in Range(s) : r = Row(i, h, FALSE)
        BY <2>1
    <3>2. h \in L /\ i[h].overload = FALSE
        BY <1>1
    <3> QED
        BY <1>2, <3>1, <3>2, Zenon
  <2>2. CASE \E h \in Range(t) : r = Row(i, h, TRUE)
    <3>1. PICK h \in Range(t) : r = Row(i, h, TRUE)
        BY <2>2
    <3>2. h \in L /\ i[h].overload = TRUE
        BY <1>1
    <3> QED
        BY <1>2, <3>1, <3>2, Zenon
  <2> QED
      BY <1>3, <2>1, <2>2 DEF Results
<1>4. ASSUME NEW h \in L PROVE \E r \in Results(i, s, t) : r.host = h
  <2>1. CASE h \in Range(s)
    <3>1. Row(i, h, FALSE) \in Results(i, s, t)
        BY <2>1 DEF Results
    <3> QED
        BY <1>2, <3>1, Zenon
  <2>2. CASE h \in Range(t)
    <3>1. Row(i, h, TRUE) \in Results(i, s, t)
        BY <2>2 DEF Results
    <3> QED
        BY <1>2, <3>1, Zenon
  <2> QED
      BY <2>1, <2>2
<1> QED
    BY <1>3, <1>4

\* An answer of pick_one_host comes from one of the queues.
LEMMA PickAnswer ==
    ASSUME IndInv, pick_one_host
    PROVE  \/ /\ answer' \in Live \cup {RetOverload} /\ sent' = {}
              /\ UNCHANGED <<host_map, freed, route, undef>>
           \/ Undefined
<1>1. CASE PickProbe
  <2>1. Head(overload_list) \in Range(overload_list)
      BY <1>1, RotateFacts DEF IndInv, TypeOK, QueuesPartition, PickProbe
  <2>2. answer' \in Live
      BY <1>1, <2>1 DEF IndInv, QueuesPartition, PickProbe
  <2> QED
      BY <1>1, <2>2 DEF PickProbe
<1>2. CASE PickIdle
  <2>1. Head(idle_list) \in Range(idle_list)
      BY <1>2, RotateFacts DEF IndInv, TypeOK, QueuesPartition, PickIdle
  <2>2. answer' \in Live
      BY <1>2, <2>1 DEF IndInv, QueuesPartition, PickIdle
  <2> QED
      BY <1>2, <2>2 DEF PickIdle
<1>3. CASE PickRefused
    BY <1>3 DEF PickRefused
<1>4. CASE PickEmpty
    BY <1>4 DEF PickEmpty
<1> QED
    BY <1>1, <1>2, <1>3, <1>4 DEF pick_one_host

\* Every step leaves an answer and rows that fit the state after it.
LEMMA NextOutInv == IndInv /\ IndInv' /\ OutInv /\ [Next]_vars => OutInv'
<1> SUFFICES ASSUME IndInv, IndInv', OutInv, [Next]_vars PROVE OutInv'
    OBVIOUS
<1> USE HostAssumption
<1>1. ASSUME answer' = NoAnswer, sent' = {} PROVE OutInv'
    BY <1>1 DEF OutInv, AnswerFromRoute, OneRowPerHost
<1>2. CASE pick_one_host
  <2>1. CASE /\ answer' \in Live \cup {RetOverload} /\ sent' = {}
             /\ UNCHANGED <<host_map, freed, route, undef>>
      BY <2>1 DEF OutInv, AnswerFromRoute, OneRowPerHost, Live, IndInv, TypeOK
  <2>2. CASE Undefined
      BY <1>1, <2>2 DEF Undefined
  <2> QED
      BY <1>2, <2>1, <2>2, PickAnswer
<1>3. CASE \E rsp \in SUBSET Host \ {{}} : update(rsp)
    BY <1>1, <1>3 DEF update, Refresh, Undefined
<1>4. CASE \E h \in Host, ok \in BOOLEAN : report_host(h, ok)
  <2>1. PICK h \in Host, ok \in BOOLEAN : report_host(h, ok)
      BY <1>4
  <2>2. CASE Undefined
      BY <1>1, <2>2 DEF Undefined
  <2>3. CASE answer' = NoAnswer /\ Commit
    <3>1. /\ {r.host : r \in Results(info', idle_list', overload_list')} = Live'
          /\ \A r \in Results(info', idle_list', overload_list') :
                r = Row(info', r.host, info'[r.host].overload)
      <4>1. /\ info' \in [Live' -> HostInfo]
            /\ Range(idle_list') = {g \in Live' : ~info'[g].overload}
            /\ Range(overload_list') = {g \in Live' : info'[g].overload}
          BY DEF IndInv, TypeOK, QueuesPartition
      <4> QED
          BY <4>1, ResultsAre
    <3>2. OneRowPerHost'
        BY <2>3, <3>1 DEF Commit, OneRowPerHost, Row
    <3> QED
        BY <2>3, <3>2 DEF OutInv, AnswerFromRoute
  <2> QED
      BY <2>1, <2>2, <2>3 DEF report_host, ReportLive, ReportUnknown
<1>5. CASE get_all_hosts
    BY <1>1, <1>5 DEF get_all_hosts, Undefined
<1>6. CASE Tick
    BY <1>1, <1>6 DEF Tick
<1>7. CASE UNCHANGED vars
    BY <1>7 DEF vars, OutInv, AnswerFromRoute, OneRowPerHost, Live, Row
<1> QED
    BY <1>2, <1>3, <1>4, <1>5, <1>6, <1>7 DEF Next

\* get_host hands out only hosts of the last route, and the reporter gets one
\* row for every host, with the flag of the queue the host is in.
THEOREM OutputsSafe == Spec => [](AnswerFromRoute /\ OneRowPerHost)
<1>1. Init => OutInv
    BY HostAssumption DEF Init, OutInv, AnswerFromRoute, OneRowPerHost
<1>2. OutInv => AnswerFromRoute /\ OneRowPerHost
    BY DEF OutInv
<1> QED
    BY <1>1, <1>2, InitIndInv, NextIndInv, NextOutInv, PTL DEF Spec

-----------------------------------------------------------------------------
(* The refinement of HostTable.                                            *)

\* Every step of the object is a step of the table, or leaves it unchanged.
LEMMA NextRefines == IndInv /\ [Next]_vars => [Table!Next]_(Table!vars)
<1> SUFFICES ASSUME IndInv, [Next]_vars PROVE [Table!Next]_(Table!vars)
    OBVIOUS
<1> USE DEF Table!Next, Table!vars
<1>1. ASSUME ~undef, Undefined PROVE Table!Next
    BY <1>1 DEF Undefined, Table!Break, Live
<1>2. CASE pick_one_host
  <2>1. CASE /\ answer' \in Live \cup {RetOverload} /\ sent' = {}
             /\ UNCHANGED <<host_map, freed, route, undef>>
    <3>1. Table!Answer
        BY <2>1 DEF Table!Answer, Live
    <3> QED
        BY <1>2, <3>1 DEF pick_one_host
  <2> QED
      BY <1>1, <1>2, <2>1, PickAnswer DEF pick_one_host
<1>3. CASE \E rsp \in SUBSET Host \ {{}} : update(rsp)
  <2>1. PICK rsp \in SUBSET Host \ {{}} : update(rsp)
      BY <1>3
  <2>2. CASE freed \subseteq rsp /\ Refresh(rsp, rsp \ host_map)
    <3>1. Live' = (Live \cap rsp) \cup (rsp \ host_map)
        BY <2>2 DEF Refresh, Live, IndInv, TypeOK
    <3>2. Table!Update(rsp)
        BY <2>2, <3>1 DEF Refresh, Table!Update
    <3> QED
        BY <2>1, <3>2 DEF update
  <2> QED
      BY <1>1, <2>1, <2>2 DEF update
<1>4. CASE \E h \in Host, ok \in BOOLEAN : report_host(h, ok)
  <2>1. PICK h \in Host, ok \in BOOLEAN : report_host(h, ok)
      BY <1>4
  <2>2. CASE answer' = NoAnswer /\ ReportFrame
    <3>1. Table!Internal
        BY <2>2 DEF ReportFrame, Table!Internal, Live
    <3> QED
        BY <2>1, <3>1 DEF report_host
  <2> QED
      BY <1>1, <2>1, <2>2 DEF report_host, ReportLive, ReportUnknown
<1>5. CASE get_all_hosts
    BY <1>1, <1>5 DEF get_all_hosts
<1>6. CASE Tick
    BY <1>6 DEF Tick, Table!Internal, Live
<1>7. CASE UNCHANGED vars
    BY <1>7 DEF vars, Live
<1> QED
    BY <1>2, <1>3, <1>4, <1>5, <1>6, <1>7 DEF Next

\* The two queues, their counters and clocks implement the table of hosts:
\* the set of hosts that can be handed out changes with routes only, and is
\* always part of the last one.
THEOREM Refinement == Spec => ImplementsTable
<1>1. Init => Table!Init
    BY DEF Init, Table!Init, Live
<1> QED
    BY <1>1, InitIndInv, NextIndInv, NextRefines, PTL DEF Spec, ImplementsTable, Table!Spec

=============================================================================
