----------------------------- MODULE MCApiAgent -----------------------------
(* The instance of ApiAgent that TLC checks: all mods at the same server.  *)
EXTENDS ApiAgent

MCIndex == [m \in Mod |-> 0]

=============================================================================
