---------------------------- MODULE MC_UdpSocket -----------------------------
(* Four messages, for TLC. *)
EXTENDS UdpSocket
=============================================================================
