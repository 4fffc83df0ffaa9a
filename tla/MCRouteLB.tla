------------------------------ MODULE MCRouteLB -----------------------------
(* The instance of RouteLB that TLC checks: two mods in different RouteLBs. *)
EXTENDS RouteLB

CONSTANTS m1, m2

MCMod == {m1, m2}

\* conn_init resets the RouteLB of m1 before that of m2.
MCHome == [m \in MCMod |-> IF m = m1 THEN 0 ELSE 1]

=============================================================================
