---------------------------- MODULE MCReportPath ----------------------------
(* The instance of ReportPath that TLC checks: one agent with two reports  *)
(* and a connection it loses, one agent whose report comes in between.     *)
EXTENDS ReportPath, TLC

CONSTANTS a1, a2

MCMaxReports == a1 :> 2 @@ a2 :> 1
MCMaxConn == a1 :> 2 @@ a2 :> 1

=============================================================================
