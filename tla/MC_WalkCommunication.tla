------------------------ MODULE MC_WalkCommunication -------------------------
(* Three commands, queues of two messages, for TLC. *)
EXTENDS WalkCommunication
=============================================================================
