---------------------------- MODULE MC_TcpSocket -----------------------------
(* Three messages of two bytes, for TLC. *)
EXTENDS TcpSocket
=============================================================================
