---------------------------- MODULE MCTCPStream -----------------------------
(* The instance of TCPStream that TLC checks: the second request has no     *)
(* body, the third is over the server's limit, and the answers have a body. *)
EXTENDS TCPStream

MCReqBody == [m \in Msg |-> CASE m = 2 -> 0 [] m = 3 -> 2 [] OTHER -> 1]

MCRespBody == [m \in 0 .. MaxMsgs |-> 1]

=============================================================================
