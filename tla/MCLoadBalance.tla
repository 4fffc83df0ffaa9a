--------------------------- MODULE MCLoadBalance ---------------------------
(* The instances of LoadBalance that TLC checks.                           *)
EXTENDS LoadBalance

\* An uninitialised idle_ts: long ago, or just now.
MCJunkTs == {-IdleTimeout, 0}

=============================================================================
