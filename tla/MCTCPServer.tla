---------------------------- MODULE MCTCPServer -----------------------------
(* The instance of TCPServer that TLC checks: two sizes of buffers.         *)
EXTENDS TCPServer

MCSize == <<1, 2>>

MCPrealloc == <<1, 1>>

=============================================================================
