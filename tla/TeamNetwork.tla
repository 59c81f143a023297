----------------------------- MODULE TeamNetwork -----------------------------
(***************************************************************************)
(* Several processes that use the information sharing library (class       *)
(* InfoShare of devInfoshare/InfoShare) and the network between them:      *)
(* robots of two teams on a broadcast network, or the processes of one PC  *)
(* in unicast mode, where the port of a process is given by its robot id.  *)
(* Processes start, end or crash, and start again; datagrams are lost and  *)
(* overtake each other; the colour of a robot may change.                  *)
(*                                                                         *)
(* What a process does with one datagram, field by field, is InfoShare's   *)
(* subject: here the handler is two actions, its checks and its writes,    *)
(* and a row of the table is the process its data came from.               *)
(***************************************************************************)
EXTENDS Integers, FiniteSets

CONSTANTS
  Processes,
  IdOf,           \* the robot id each process passes to setup
  NetworkOf,      \* the network the host of each process is on
  ip_address,     \* the address it passes to setup: one of a network, or Dotless
  Dotless,        \* text without a dot
  NUM_PLAYERS,
  Modes,          \* the modes that may be selected: "broadcast", "unicast"
  MaxInFlight,    \* bound of the model: datagrams in the network and in hand
  FairPairs,      \* the speakers and hearers whose link is fair, for liveness
  NoRow           \* a row nobody has written

Ids == 1 .. NUM_PLAYERS
Colors == {"magenta", "cyan"}

ASSUME IdAssumption == NUM_PLAYERS \in Nat \ {0} /\ IdOf \in [Processes -> Ids]
ASSUME AddressAssumption == DOMAIN NetworkOf = Processes /\ DOMAIN ip_address = Processes
ASSUME ModeAssumption == Modes \subseteq {"broadcast", "unicast"}
ASSUME NetAssumption == MaxInFlight \in Nat /\ FairPairs \subseteq Processes \X Processes

VARIABLES
  socket_mode,    \* socket_mode_, the same in every process
  proc,           \* down, up, or deaf: set up, but without a server
  our_color,
  hand,           \* the datagram past the checks of the handler, if there is one
  table,          \* robot_data_list_ of every process
  strangers,      \* rows written for another team since the colour was last set (history)
  net             \* the datagrams on the way

vars == <<socket_mode, proc, our_color, hand, table, strangers, net>>

\* Every robot has a host of its own with port BROADCAST_PORT; in unicast mode
\* the processes share one host and COMM_INFO_PORT0 + id - 1 tells them apart.
Port(p) == IF socket_mode = "unicast" THEN IdOf[p] ELSE p
Ports == Ids \union Processes

Datagram == [port : Ports, id : Ids, team : Colors, from : Processes]
Row == Processes \union {NoRow}

Init ==
  /\ socket_mode \in Modes
  /\ proc = [p \in Processes |-> "down"]
  /\ our_color = [p \in Processes |-> "magenta"]
  /\ hand = [p \in Processes |-> {}]
  /\ table = [p \in Processes |-> [id \in Ids |-> NoRow]]
  /\ strangers = [p \in Processes |-> 0]
  /\ net = {}

-----------------------------------------------------------------------------
\* setup in a new process.  Binding the port fails when another process of the
\* host has it, reuse_address being set only afterwards: the client exists by
\* then, the server never will.
setup(p, color) ==
  /\ proc[p] = "down"
  /\ proc' = [proc EXCEPT ![p] =
       IF \E q \in Processes : proc[q] = "up" /\ Port(q) = Port(p) THEN "deaf" ELSE "up"]
  /\ our_color' = [our_color EXCEPT ![p] = color]
  /\ UNCHANGED <<socket_mode, hand, table, strangers, net>>

\* The last number of the address is replaced by 255; when there is no dot before
\* it, erase throws and the address is 255.255.255.255, which stays on the own
\* network.
toBroadcastIP(p) == IF ip_address[p] = Dotless THEN NetworkOf[p] ELSE ip_address[p]

\* Who is on the network the process broadcasts to; no other network lets a
\* broadcast in.
Broadcast == [p \in Processes |->
  {q \in Processes : NetworkOf[q] = NetworkOf[p] /\ toBroadcastIP(p) = NetworkOf[p]}]

\* Mutant of Destinations: the loop over the ports ends one too early.
Destinations_Short(p) ==
  IF socket_mode = "unicast" THEN {i \in Ids : i < NUM_PLAYERS} \ {IdOf[p]} ELSE Broadcast[p]

\* A broadcast reaches its sender too; the unicast loop leaves the own port out.
Destinations(p) == IF socket_mode = "unicast" THEN Ids \ {IdOf[p]} ELSE Broadcast[p]

\* The network takes some of the datagrams and loses the others.
sendCommonInfo(p, reached) ==
  /\ proc[p] # "down"
  /\ net' = net \union {[port |-> port, id |-> IdOf[p], team |-> our_color[p], from |-> p] :
                          port \in reached}
  /\ Cardinality(net') + Cardinality({q \in Processes : hand[q] # {}}) <= MaxInFlight
  /\ UNCHANGED <<socket_mode, proc, our_color, hand, table, strangers>>

\* Mutant of Accepts: the check of the colour is left out.
Accepts_AnyTeam(p, d) == d.id # IdOf[p]

\* Mutant of Accepts: the check of the own id is left out.
Accepts_Echo(p, d) == d.team = our_color[p]

Accepts(p, d) == d.team = our_color[p] /\ d.id # IdOf[p]

\* The handler looks at the colour and the id, and returns, or goes on to
\* write the row.
receivedDataHandler(p, d) ==
  /\ proc[p] = "up" /\ hand[p] = {}
  /\ d \in net /\ d.port = Port(p)
  /\ net' = net \ {d}
  /\ hand' = IF Accepts(p, d) THEN [hand EXCEPT ![p] = {d}] ELSE hand
  /\ UNCHANGED <<socket_mode, proc, our_color, table, strangers>>

\* The writes of the handler: our_color_ is not looked at again.
SetRow(p) ==
  /\ \E d \in hand[p] :
       /\ table' = [table EXCEPT ![p][d.id] = d.from]
       /\ strangers' = IF d.team = our_color[p] THEN strangers ELSE [strangers EXCEPT ![p] = @ + 1]
  /\ hand' = [hand EXCEPT ![p] = {}]
  /\ UNCHANGED <<socket_mode, proc, our_color, net>>

\* A datagram for a port nobody has.
NobodyThere(d) ==
  /\ d \in net
  /\ \A p \in Processes : ~(proc[p] = "up" /\ Port(p) = d.port)
  /\ net' = net \ {d}
  /\ UNCHANGED <<socket_mode, proc, our_color, hand, table, strangers>>

\* our_color_ is a plain int, and the handler runs in another thread: it may
\* be anywhere in a datagram.
changeColor(p, color) ==
  /\ proc[p] # "down"
  /\ our_color' = [our_color EXCEPT ![p] = color]
  /\ strangers' = [strangers EXCEPT ![p] = 0]
  /\ UNCHANGED <<socket_mode, proc, hand, table, net>>

\* The process ends or crashes, its memory is gone and its port is free again.
Exit(p) ==
  /\ proc[p] # "down"
  /\ proc' = [proc EXCEPT ![p] = "down"]
  /\ our_color' = [our_color EXCEPT ![p] = "magenta"]
  /\ hand' = [hand EXCEPT ![p] = {}]
  /\ table' = [table EXCEPT ![p] = [id \in Ids |-> NoRow]]
  /\ strangers' = [strangers EXCEPT ![p] = 0]
  /\ UNCHANGED <<socket_mode, net>>

-----------------------------------------------------------------------------
Next ==
  \/ \E p \in Processes, color \in Colors : setup(p, color) \/ changeColor(p, color)
  \/ \E p \in Processes : Exit(p) \/ SetRow(p)
  \/ \E p \in Processes : \E reached \in SUBSET Destinations(p) : sendCommonInfo(p, reached)
  \/ \E p \in Processes, d \in net : receivedDataHandler(p, d)
  \/ \E d \in net : NobodyThere(d)

Spec == Init /\ [][Next]_vars

From(p, q) == \E d \in net : d.from = p /\ receivedDataHandler(q, d)
Reaching(p, q) ==
  \E reached \in SUBSET Destinations(p) :
    Port(q) \in reached /\ sendCommonInfo(p, reached) /\ \E d \in net' \ net : d.port = Port(q)

\* The application calls sendCommonInfo in every turn of its main loop; the
\* network loses datagrams, but not all those from one robot to another for
\* ever; nothing stays on the way for ever; and a handler that has begun goes
\* on.
Fairness ==
  /\ \A link \in FairPairs :
       SF_vars(Reaching(link[1], link[2])) /\ SF_vars(From(link[1], link[2]))
  /\ WF_vars(\E d \in net : NobodyThere(d) \/ \E p \in Processes : receivedDataHandler(p, d))
  /\ \A p \in Processes : WF_vars(SetRow(p))

FairSpec == Spec /\ Fairness

-----------------------------------------------------------------------------
(* Properties *)

\* The type invariant.
TypeOK ==
  /\ socket_mode \in Modes
  /\ proc \in [Processes -> {"down", "up", "deaf"}]
  /\ our_color \in [Processes -> Colors]
  /\ hand \in [Processes -> SUBSET Datagram]
  /\ table \in [Processes -> [Ids -> Row]]
  /\ strangers \in [Processes -> Nat]
  /\ net \subseteq Datagram /\ Cardinality(net) <= MaxInFlight

\* Every row of every table is about the robot whose row it is, and no process
\* has a row about its own robot: not from its broadcasts, which come back to
\* it, not from datagrams of its own that a crash and a restart left on the
\* way, and not from a robot of the other team with the same number.
RowsAreOthers ==
  \A p \in Processes, id \in Ids :
    table[p][id] # NoRow => id # IdOf[p] /\ IdOf[table[p][id]] = id

\* A process writes rows for robots that were of another team than its own when
\* they spoke only if its colour was changed while the handler was between its
\* checks and its writes: then one datagram of the old team is still written,
\* and no second one, whatever else is on the way.
OneStrangerAtMost == \A p \in Processes : strangers[p] <= 1

\* Two processes of different robots that stay up on the same team, on one PC in
\* unicast mode or where the broadcasts of the one get to the other, hear each
\* other in the end, and after the last restart of the hearer: whatever the
\* network lost before, and whatever the other processes do meanwhile.
TeamMatesHearEachOther ==
  \A link \in FairPairs :
    LET p == link[1]
        q == link[2]
    IN  IdOf[p] # IdOf[q] /\ (socket_mode = "unicast" \/ q \in Broadcast[p]) =>
          ( <>[](proc[p] # "down" /\ proc[q] = "up" /\ our_color[p] = our_color[q])
              => <>[](table[q][IdOf[p]] # NoRow) )
=============================================================================
