--------------------------- MODULE MC_SharingData ----------------------------
(* A handful of calls whose values lie on both sides of every conversion, with *)
(* balls of every constructor.                                                 *)
EXTENDS SharingData

\* No list, one pose in each, one long list, and more poses than the receive
\* buffer holds, with the cut inside the lists and between the two places; the
\* list of 59 just fits.
ListLengths ==
  { [l \in Lists |-> 0],
    [l \in Lists |-> 1],
    [l \in Lists |-> IF l = "our_robot_gl" THEN 6 ELSE 0],
    [l \in Lists |-> 20],
    [l \in Lists |-> IF l = "our_robot_gl" THEN 59 ELSE 0],
    [l \in Lists |-> IF l = "our_robot_gl" THEN 60 ELSE IF l = "target_pos_vec" THEN 1 ELSE 0] }

\* The ball, fps, temperature, the shifted servo, the shifted voltage, flags.
Readings ==
  { <<setPosition(12345, 3141, 77), 30, 30, 45 * 256, 12 * 8, FALSE, FALSE>>,
    <<resetPosition(setPosition(-19, -1579, 300)), 200, 127, 200 * 256 + 7, 12003, TRUE, FALSE>>,
    <<FromPos2D(0, 9, -3), 300, 128, 0, 1023, FALSE, TRUE>>,
    <<setPosition(-12340, 10, 130), -1, -5, -256, 0, TRUE, TRUE>> }

MC_Calls ==
  { [ball_gl_cf |-> r[1], self_pos_cf |-> FromPos2D(777, 0, 50), lists |-> lists,
     fps |-> r[2], Temperature |-> r[3], servo1temp |-> r[4], MotorVoltage |-> r[5],
     fallen |-> r[6], idle |-> r[7]] : lists \in ListLengths, r \in Readings }
=============================================================================
