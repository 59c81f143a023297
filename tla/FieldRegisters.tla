--------------------------- MODULE FieldRegisters ----------------------------
(***************************************************************************)
(* What the information sharing library promises the application about the *)
(* data of the other robots, whatever the threads inside do: every field   *)
(* of every robot is an atomic register.  Datagrams arrive one after the   *)
(* other, the register of a field takes the number of a datagram that      *)
(* carries it, it never goes back to an older one, and it never overtakes  *)
(* the register of the robot's receive time.                               *)
(***************************************************************************)
EXTENDS Integers, Sequences

CONSTANTS NUM_PLAYERS, Fields, VectorFields, Datagrams

Ids == 1 .. NUM_PLAYERS

VARIABLES
  log,    \* the datagrams accepted so far
  reg,    \* reg[id][f]: the number of the datagram the field comes from
  read    \* what the last getter returned

vars == <<log, reg, read>>

Init ==
  /\ log = << >>
  /\ reg = [id \in Ids |-> [f \in Fields |-> 0]]
  /\ read = [id |-> 0, field |-> "recv_time", num |-> 0]

Arrive ==
  /\ \E d \in Datagrams : log' = Append(log, d)
  /\ UNCHANGED <<reg, read>>

\* The newest datagram is the one whose data are published.
Publish(id, f) ==
  /\ log # << >>
  /\ LET k == Len(log) IN
       /\ reg[id][f] < k
       /\ log[k].id = id
       /\ f \in VectorFields => f \in log[k].lists
       /\ f # "recv_time" => reg[id]["recv_time"] = k
       /\ reg' = [reg EXCEPT ![id][f] = k]
  /\ UNCHANGED <<log, read>>

Read(id, f) ==
  /\ read' = [id |-> id, field |-> f, num |-> reg[id][f]]
  /\ UNCHANGED <<log, reg>>

\* The reading robot's own id, or an id no robot has: a default value.
ReadDefault(id, f) ==
  /\ read' = [id |-> id, field |-> f, num |-> 0]
  /\ UNCHANGED <<log, reg>>

Next ==
  \/ Arrive
  \/ \E id \in Ids, f \in Fields : Publish(id, f) \/ Read(id, f)
  \/ \E id \in 0 .. NUM_PLAYERS + 1, f \in Fields : ReadDefault(id, f)

Spec == Init /\ [][Next]_vars
=============================================================================
