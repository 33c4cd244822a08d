----------------------------- MODULE MCAnoSystem -----------------------------
(***************************************************************************)
(* Instances of AnoSystem for TLC.                                         *)
(***************************************************************************)
EXTENDS AnoSystem

CONSTANTS c1, c2, c3, none, noInfo

\* What run_client.cpp asks for, and everything a caller of AnoClient could.
DemoRequest == {[ano_type |-> "GroundWater", status |-> "ok", file_path |-> "named"]}
AllRequests == [ano_type : AnoTypes, status : Statuses, file_path : Paths]

\* One request that is served and one for each way a request ends the server.
HaltingRequests ==
  {[ano_type |-> "GroundWater", status |-> "ok", file_path |-> "named"],
   [ano_type |-> "GroundWater", status |-> "local", file_path |-> "named"],
   [ano_type |-> "GroundWater", status |-> "ok", file_path |-> "short"],
   [ano_type |-> "ForeignBody", status |-> "ok", file_path |-> "named"]}

\* Image sizes found in unwritten memory: no image, one shorter and one
\* longer than the client's, and none that a recv could be asked for.
Junk == {-1, 0, 1, 3}

=============================================================================
