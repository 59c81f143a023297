---------------------------- MODULE MC_InfoShare -----------------------------
(* Robot 1 of a team of two or three, for TLC. *)
EXTENDS InfoShare

From(id, team, lists) == [id |-> id, team |-> team, lists |-> lists]

\* Team mates with full and with empty lists, the other team, our own datagram
\* looped back by the broadcast, a truncated datagram, and a robot that was
\* set up with an id the table has no row for.
MC_Datagrams ==
  { From(2, "magenta", VectorFields), From(2, "magenta", {}),
    From(3, "magenta", {"our_robot_gl"}),
    From(2, "cyan", {"enemy_robot_gl"}),
    From(1, "magenta", VectorFields), From(2, "none", VectorFields),
    From(4, "magenta", {}) }

\* One field of each kind, in the order of the source.
ShortOrder == <<"recv_time", "status", "command", "our_robot_gl", "ball_gl_cf">>

\* Two robots and every field of the source.
PairDatagrams == { From(2, "magenta", {"black_pole_gl"}), From(2, "cyan", {}) }
=============================================================================
