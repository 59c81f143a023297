-------------------------- MODULE MC_OldUdpSocket ---------------------------
(* For TLC: two clients, one of which broadcasts, and three servers, two of *)
(* the newer class and one of the older, which shares its port with one of  *)
(* them.                                                                    *)
EXTENDS OldUdpSocket, TLC

CONSTANTS c1, c2, s1, s2, old

Ports == (s1 :> 7110) @@ (s2 :> 7111) @@ (old :> 7110)
Destinations == [c \in {c1, c2} |-> 7110]
=============================================================================
