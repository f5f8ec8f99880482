---------------------------- MODULE MCPartyTask ----------------------------
(* Calls of start and stop for TLC, and what the stops ask for.             *)
EXTENDS PartyTask, TLC

MCStopStatus == [c \in Stops |-> CANCELED]
=============================================================================
