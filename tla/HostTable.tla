----------------------------- MODULE HostTable -----------------------------
(***************************************************************************)
(* What one LoadBalance object promises to the agent that owns it, without *)
(* its queues, counters and clocks: the set of hosts it can hand out for   *)
(* one modid/cmdid, as a function of the routes the DNS service sent.      *)
(*                                                                         *)
(*   - a host is handed out only if the last route names it;               *)
(*   - a host that is handed out stays so as long as every route names it, *)
(*     whatever calls are reported for it;                                 *)
(*   - reports never change the set.                                       *)
(*                                                                         *)
(* The promise ends with the first undefined operation (undef): the code   *)
(* can reach one, see LoadBalance.                                         *)
(***************************************************************************)
CONSTANTS Host,        \* keys of host_map_: (ip << 32) + port
          RetOverload, \* RET_OVERLOAD, the refusal of pick_one_host
          NoAnswer     \* the last operation was not a get_host

VARIABLES route,   \* the hosts of the last GetRouteResponse
          served,  \* the hosts that can be handed out
          answer,  \* what the last get_host returned
          undef    \* an operation of the code was undefined

vars == <<route, served, answer, undef>>

Init ==
    /\ route = {}
    /\ served = {}
    /\ answer = NoAnswer
    /\ undef = FALSE

\* A route replaces the previous one: what it does not name is dropped, what
\* was served and is named again stays.  Of the other hosts it names any part
\* may be taken in.
Update(rsp) ==
    /\ route' = rsp
    /\ served' \in SUBSET rsp
    /\ served \cap rsp \subseteq served'
    /\ answer' = NoAnswer
    /\ UNCHANGED undef

Answer ==
    /\ answer' \in served \cup {RetOverload}
    /\ UNCHANGED <<route, served, undef>>

\* A reported call, or the clock: the answer is used up, the table stays.
Internal ==
    /\ answer' = NoAnswer
    /\ UNCHANGED <<route, served, undef>>

Break ==
    /\ undef' = TRUE
    /\ answer' = NoAnswer
    /\ UNCHANGED <<route, served>>

Next ==
    /\ ~undef
    /\ \/ \E rsp \in SUBSET Host \ {{}} : Update(rsp)
       \/ Answer
       \/ Internal
       \/ Break

Spec == Init /\ [][Next]_vars

=============================================================================
