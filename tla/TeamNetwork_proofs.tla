------------------------- MODULE TeamNetwork_proofs --------------------------
(***************************************************************************)
(* Proofs about the team and its network, for any number of processes and  *)
(* robots, in both modes; and about the sockets that came before it, for   *)
(* any number of clients and servers of either class in one process.       *)
(***************************************************************************)
EXTENDS TeamNetwork, OldUdpSocket, TLAPS

\* The types the argument needs; the bound of the model is left out.
Types ==
  /\ proc \in [Processes -> {"down", "up", "deaf"}]
  /\ our_color \in [Processes -> Colors]
  /\ hand \in [Processes -> SUBSET Datagram]
  /\ table \in [Processes -> [Ids -> Row]]
  /\ net \subseteq Datagram

\* Nobody forges an id: a datagram carries the id of the process it is from,
\* which may have ended, or been started again, in the meantime.
NetIsGenuine == \A d \in net : d.id = IdOf[d.from]

HandIsGenuine ==
  \A p \in Processes : \A d \in hand[p] : d.id = IdOf[d.from] /\ d.id # IdOf[p]

IInv == Types /\ NetIsGenuine /\ HandIsGenuine /\ RowsAreOthers

LEMMA InitIInv == Init => IInv
BY IdAssumption DEF Init, IInv, Types, NetIsGenuine, HandIsGenuine, RowsAreOthers, Colors, Row

LEMMA SendKeeps ==
  ASSUME IInv, NEW p \in Processes, NEW reached \in SUBSET Destinations(p), sendCommonInfo(p, reached)
  PROVE  IInv'
<1> USE DEF IInv
<1>1. UNCHANGED <<proc, our_color, hand, table>>
  BY DEF sendCommonInfo
<1>2. \A d \in net' :
        d \in net \/ \E port \in reached :
                       d = [port |-> port, id |-> IdOf[p], team |-> our_color[p], from |-> p]
  BY DEF sendCommonInfo
<1>3. IdOf[p] \in Ids /\ our_color[p] \in Colors
  BY IdAssumption DEF Types
<1>4. net' \subseteq Datagram
  <2>1. reached \subseteq Ports
    BY DEF Destinations, Broadcast, Ports
  <2> QED BY <1>2, <1>3, <2>1 DEF Types, Datagram
<1>5. NetIsGenuine'
  BY <1>2 DEF NetIsGenuine
<1> QED BY <1>1, <1>4, <1>5 DEF Types, HandIsGenuine, RowsAreOthers

LEMMA HandlerKeeps ==
  ASSUME IInv, NEW p \in Processes, NEW d \in net, receivedDataHandler(p, d)
  PROVE  IInv'
<1> USE DEF IInv
<1>1. net' \subseteq net /\ UNCHANGED <<proc, our_color, table>>
  BY DEF receivedDataHandler
<1>2. d \in Datagram /\ d.id = IdOf[d.from]
  BY DEF Types, NetIsGenuine
<1>3. hand' \in [Processes -> SUBSET Datagram] /\ HandIsGenuine'
  <2>1. CASE Accepts(p, d)
    <3>1. hand' = [hand EXCEPT ![p] = {d}]
      BY <2>1 DEF receivedDataHandler
    <3>2. d.id # IdOf[p]
      BY <2>1 DEF Accepts
    <3> QED BY <1>2, <3>1, <3>2 DEF Types, HandIsGenuine
  <2>2. CASE ~Accepts(p, d)
    <3>1. hand' = hand
      BY <2>2 DEF receivedDataHandler
    <3> QED BY <3>1 DEF Types, HandIsGenuine
  <2> QED BY <2>1, <2>2
<1> QED BY <1>1, <1>3 DEF Types, NetIsGenuine, RowsAreOthers

LEMMA SetRowKeeps ==
  ASSUME IInv, NEW p \in Processes, SetRow(p)
  PROVE  IInv'
<1> USE DEF IInv
<1>1. UNCHANGED <<proc, our_color, net>> /\ hand' = [hand EXCEPT ![p] = {}]
  BY DEF SetRow
<1>2. PICK d \in hand[p] : table' = [table EXCEPT ![p][d.id] = d.from]
  BY DEF SetRow
<1>3. d \in Datagram /\ d.id = IdOf[d.from] /\ d.id # IdOf[p]
  BY DEF Types, HandIsGenuine
<1>4. d.id \in Ids /\ d.from \in Row
  BY <1>3 DEF Datagram, Row
<1>5. table' \in [Processes -> [Ids -> Row]]
  BY <1>2, <1>4 DEF Types
<1>6. RowsAreOthers'
  <2> SUFFICES ASSUME NEW q \in Processes, NEW id \in Ids, table'[q][id] # NoRow
               PROVE  id # IdOf[q] /\ IdOf[table'[q][id]] = id
    BY DEF RowsAreOthers
  <2>1. CASE q = p /\ id = d.id
    BY <1>2, <1>3, <2>1 DEF Types
  <2>2. CASE ~(q = p /\ id = d.id)
    <3>1. table'[q][id] = table[q][id]
      BY <1>2, <1>4, <2>2 DEF Types
    <3> QED BY <3>1 DEF RowsAreOthers
  <2> QED BY <2>1, <2>2
<1>7. hand' \in [Processes -> SUBSET Datagram] /\ HandIsGenuine'
  BY <1>1 DEF Types, HandIsGenuine
<1> QED BY <1>1, <1>5, <1>6, <1>7 DEF Types, NetIsGenuine

LEMMA StepIInv == IInv /\ [Next]_vars => IInv'
<1> SUFFICES ASSUME IInv, [Next]_vars PROVE IInv'
  OBVIOUS
<1> USE DEF IInv
<1>1. CASE UNCHANGED vars
  BY <1>1 DEF vars, Types, NetIsGenuine, HandIsGenuine, RowsAreOthers
<1>2. ASSUME NEW p \in Processes, NEW color \in Colors, setup(p, color) PROVE IInv'
  BY <1>2 DEF setup, Types, NetIsGenuine, HandIsGenuine, RowsAreOthers
<1>3. ASSUME NEW p \in Processes, NEW color \in Colors, changeColor(p, color) PROVE IInv'
  BY <1>3 DEF changeColor, Types, NetIsGenuine, HandIsGenuine, RowsAreOthers
<1>4. ASSUME NEW p \in Processes, Exit(p) PROVE IInv'
  <2>1. Types' /\ NetIsGenuine'
    BY <1>4 DEF Exit, Types, NetIsGenuine, Colors, Row
  <2>2. HandIsGenuine'
    BY <1>4 DEF Exit, Types, HandIsGenuine
  <2>3. RowsAreOthers'
    BY <1>4 DEF Exit, Types, RowsAreOthers
  <2> QED BY <2>1, <2>2, <2>3
<1>5. ASSUME NEW p \in Processes, NEW reached \in SUBSET Destinations(p), sendCommonInfo(p, reached)
      PROVE  IInv'
  BY <1>5, SendKeeps
<1>6. ASSUME NEW p \in Processes, NEW d \in net, receivedDataHandler(p, d) PROVE IInv'
  BY <1>6, HandlerKeeps
<1>7. ASSUME NEW p \in Processes, SetRow(p) PROVE IInv'
  BY <1>7, SetRowKeeps
<1>8. ASSUME NEW d \in net, NobodyThere(d) PROVE IInv'
  BY <1>8 DEF NobodyThere, Types, NetIsGenuine, HandIsGenuine, RowsAreOthers
<1> QED BY <1>1, <1>2, <1>3, <1>4, <1>5, <1>6, <1>7, <1>8 DEF Next

LEMMA Invariance == Spec => []IInv
BY InitIInv, StepIInv, PTL DEF Spec

\* No process ever shows data of its own robot, or of one robot under the
\* number of another: whatever is lost, reordered, restarted or recoloured.
THEOREM NoEchoes == Spec => []RowsAreOthers
<1>1. IInv => RowsAreOthers
  BY DEF IInv
<1> QED BY <1>1, Invariance, PTL

\* A process has written for one stranger at most, and for none as long as it
\* has another one in its hand; a process that is down has nothing in it.
StrangerInv ==
  /\ strangers \in [Processes -> {0, 1}]
  /\ \A p \in Processes : proc[p] = "down" => hand[p] = {}
  /\ \A p \in Processes :
       (\E d \in hand[p] : d.team # our_color[p]) => strangers[p] = 0

LEMMA StepStrangerInv == IInv /\ StrangerInv /\ [Next]_vars => StrangerInv'
<1> SUFFICES ASSUME IInv, StrangerInv, [Next]_vars
             PROVE  StrangerInv'
  OBVIOUS
<1> USE DEF IInv, Types
<1>1. CASE UNCHANGED vars
  BY <1>1 DEF vars, StrangerInv
<1>2. ASSUME NEW p \in Processes, NEW color \in Colors, setup(p, color) PROVE StrangerInv'
  BY <1>2 DEF setup, StrangerInv
<1>3. ASSUME NEW p \in Processes, NEW color \in Colors, changeColor(p, color) PROVE StrangerInv'
  BY <1>3 DEF changeColor, StrangerInv
<1>4. ASSUME NEW p \in Processes, Exit(p) PROVE StrangerInv'
  BY <1>4 DEF Exit, StrangerInv
<1>5. ASSUME NEW p \in Processes, NEW d \in net, receivedDataHandler(p, d) PROVE StrangerInv'
  <2>1. UNCHANGED <<proc, our_color, strangers>> /\ proc[p] = "up"
    BY <1>5 DEF receivedDataHandler
  <2>2. hand' = hand \/ (hand' = [hand EXCEPT ![p] = {d}] /\ d.team = our_color[p])
    BY <1>5 DEF receivedDataHandler, Accepts
  <2>3. CASE hand' = hand
    BY <2>1, <2>3 DEF StrangerInv
  <2>4. CASE hand' = [hand EXCEPT ![p] = {d}] /\ d.team = our_color[p]
    <3>1. hand'[p] = {d} /\ \A q \in Processes : q # p => hand'[q] = hand[q]
      BY <2>4
    <3> QED BY <2>1, <2>4, <3>1 DEF StrangerInv
  <2> QED BY <2>2, <2>3, <2>4
<1>6. ASSUME NEW p \in Processes, SetRow(p) PROVE StrangerInv'
  <2>1. PICK d \in hand[p] :
          strangers' = IF d.team = our_color[p] THEN strangers ELSE [strangers EXCEPT ![p] = @ + 1]
    BY <1>6 DEF SetRow
  <2>2. UNCHANGED <<proc, our_color>> /\ hand' = [hand EXCEPT ![p] = {}]
    BY <1>6 DEF SetRow
  <2>3. CASE d.team = our_color[p]
    BY <2>1, <2>2, <2>3 DEF StrangerInv
  <2>4. CASE d.team # our_color[p]
    <3>1. strangers[p] = 0
      BY <2>4 DEF StrangerInv
    <3>2. strangers' = [strangers EXCEPT ![p] = 1]
      BY <2>1, <2>4, <3>1
    <3> QED BY <2>2, <3>2 DEF StrangerInv
  <2> QED BY <2>3, <2>4
<1>7. CASE UNCHANGED <<proc, our_color, hand, strangers>>
  BY <1>7 DEF StrangerInv
<1> QED BY <1>1, <1>2, <1>3, <1>4, <1>5, <1>6, <1>7 DEF Next, sendCommonInfo, NobodyThere

\* A process whose colour is changed while datagrams are on the way writes one
\* row more for a robot of its old team at most, however many of them come.
THEOREM StrangersPass == Spec => []OneStrangerAtMost
<1>1. Init => StrangerInv
  BY DEF Init, StrangerInv
<1>2. StrangerInv => OneStrangerAtMost
  BY DEF StrangerInv, OneStrangerAtMost
<1> QED BY <1>1, <1>2, StepStrangerInv, Invariance, PTL DEF Spec

-----------------------------------------------------------------------------
(***************************************************************************)
(* The first sockets: what a crash of the process tells about it.  The     *)
(* step that matters is the destructor of a server that finds the static   *)
(* variable set: it was set by a server that has come further than this    *)
(* one, so that there are two.                                             *)
(***************************************************************************)
NewServers == Servers \ InfoShareServers

TypeInv ==
  /\ client \in [Clients -> {"absent", "running", "joining", "joined", "gone"}]
  /\ server \in [Servers -> {"absent", "starting", "running", "flagged", "cancelled",
                             "stopped", "joined", "gone"}]

\* The static variable was set by a server, which is terminating or terminated.
FlagHasCaller ==
  already_called =>
    \E s \in NewServers : server[s] \in {"flagged", "cancelled", "stopped", "joined", "gone"}

CrashInv == TypeInv /\ FlagHasCaller /\ CrashNeedsSecondCall

-----------------------------------------------------------------------------
\* A step of one server, from where it is to a place farther on, that crashes
\* nothing, sets no flag, and does not take it away from where it was joined.
LEMMA ServerMoves ==
  ASSUME CrashInv, NEW s \in Servers, NEW place,
         place \in {"starting", "running", "flagged", "cancelled", "stopped", "joined", "gone"},
         server' = [server EXCEPT ![s] = place],
         client' = client, app' = app, already_called' = already_called,
         server[s] # "joined",
         server[s] \in {"flagged", "cancelled", "stopped", "joined", "gone"} =>
           place \in {"flagged", "cancelled", "stopped", "joined", "gone"}
  PROVE  CrashInv'
<1>1. server \in [Servers -> {"absent", "starting", "running", "flagged", "cancelled",
                              "stopped", "joined", "gone"}]
  BY DEF CrashInv, TypeInv
<1>2. /\ server'[s] = place
      /\ \A t \in Servers : t # s => server'[t] = server[t]
  BY <1>1
<1>3. TypeInv'
  BY <1>1 DEF CrashInv, TypeInv
<1>4. FlagHasCaller'
  BY <1>2 DEF CrashInv, FlagHasCaller, NewServers
<1>5. CrashNeedsSecondCall'
  <2> SUFFICES ASSUME app = "crashed" PROVE CrashNeedsSecondCall'
    BY DEF CrashNeedsSecondCall
  <2>1. CASE \E t, u \in Servers \ InfoShareServers :
               t # u /\ server[t] # "absent" /\ server[u] # "absent"
    BY <1>2, <2>1 DEF CrashNeedsSecondCall
  <2>2. CASE \E c \in Clients : client[c] = "joined"
    BY <2>2 DEF CrashNeedsSecondCall
  <2>3. CASE \E t \in InfoShareServers : server[t] = "joined"
    BY <1>2, <2>3, SocketAssumption DEF CrashNeedsSecondCall
  <2> QED BY <2>1, <2>2, <2>3 DEF CrashInv, CrashNeedsSecondCall
<1> QED BY <1>3, <1>4, <1>5 DEF CrashInv

\* A step of one client of a process that has not crashed.
LEMMA ClientMoves ==
  ASSUME CrashInv, NEW c \in Clients, NEW place,
         place \in {"running", "joining", "joined", "gone"},
         client' = [client EXCEPT ![c] = place],
         server' = server, already_called' = already_called,
         app # "crashed", app' = app
  PROVE  CrashInv'
<1>1. TypeInv'
  BY DEF CrashInv, TypeInv
<1> QED BY <1>1 DEF CrashInv, FlagHasCaller, CrashNeedsSecondCall

\* The terminate of a server that the application may call, or whose destructor
\* may.
LEMMA TerminateStep ==
  ASSUME CrashInv, app # "crashed", ~Busy,
         NEW s \in Servers, NEW destructor \in BOOLEAN,
         destructor => Exists(s), Terminate(s, destructor),
         UNCHANGED clientVars
  PROVE  CrashInv'
<1>1. client' = client
  BY DEF clientVars
<1>2. CASE s \in InfoShareServers
  <2>1. InfoShareTerminate(s, destructor)
    BY <1>2 DEF Terminate
  <2>2. CASE server[s] = "running" /\ server' = [server EXCEPT ![s] = "stopped"]
             /\ UNCHANGED <<app, already_called>>
    BY <1>1, <2>2, ServerMoves
  <2>3. CASE server[s] = "joined" /\ app' = "crashed"
             /\ UNCHANGED <<server, destroying, already_called>>
    BY <1>1, <1>2, <2>3 DEF CrashInv, TypeInv, FlagHasCaller, CrashNeedsSecondCall
  <2> QED BY <2>1, <2>2, <2>3 DEF InfoShareTerminate
<1>3. CASE s \notin InfoShareServers
  <2>1. ServerTerminate(s, destructor)
    BY <1>3 DEF Terminate
  <2>2. server \in [Servers -> {"absent", "starting", "running", "flagged", "cancelled",
                                "stopped", "joined", "gone"}]
    BY DEF CrashInv, TypeInv
  <2>3. CASE ~already_called /\ server[s] = "running" /\ already_called' = TRUE
             /\ server' = [server EXCEPT ![s] = "flagged"] /\ UNCHANGED app
    <3>1. server'[s] = "flagged" /\ TypeInv'
      BY <1>1, <2>2, <2>3 DEF CrashInv, TypeInv
    <3>2. FlagHasCaller'
      BY <1>3, <3>1 DEF FlagHasCaller, NewServers
    <3> QED BY <2>3, <3>1, <3>2 DEF CrashInv, CrashNeedsSecondCall
  <2>4. CASE already_called /\ destructor
             /\ app' = (IF server[s] = "joined" THEN app ELSE "crashed")
             /\ server' = [server EXCEPT ![s] = "gone"]
             /\ UNCHANGED <<destroying, already_called>>
    <3>1. server'[s] = "gone" /\ TypeInv' /\ \A t \in Servers : t # s => server'[t] = server[t]
      BY <1>1, <2>2, <2>4 DEF CrashInv, TypeInv
    <3>2. FlagHasCaller'
      BY <1>3, <3>1 DEF FlagHasCaller, NewServers
    <3>3. CrashNeedsSecondCall'
      <4>1. CASE server[s] = "joined"
        BY <2>4, <4>1 DEF CrashNeedsSecondCall
      <4>2. CASE server[s] # "joined"
        <5>1. PICK t \in NewServers :
                server[t] \in {"flagged", "cancelled", "stopped", "joined", "gone"}
          BY <2>4 DEF CrashInv, FlagHasCaller
        <5>2. t # s
          BY <2>4, <4>2, <5>1 DEF Busy, Exists
        <5>3. server'[t] # "absent" /\ server'[s] # "absent"
          BY <3>1, <5>1, <5>2 DEF NewServers
        <5> QED BY <1>3, <5>1, <5>2, <5>3 DEF CrashNeedsSecondCall, NewServers
      <4> QED BY <4>1, <4>2
    <3> QED BY <3>1, <3>2, <3>3 DEF CrashInv
  <2> QED BY <2>1, <2>3, <2>4 DEF ServerTerminate
<1> QED BY <1>2, <1>3

LEMMA ClientTerminateStep ==
  ASSUME CrashInv, app # "crashed", NEW c \in Clients, NEW destructor \in BOOLEAN,
         ClientTerminate(c, destructor), UNCHANGED serverVars
  PROVE  CrashInv'
<1>1. server' = server /\ already_called' = already_called
  BY DEF serverVars
<1>2. CASE client' = [client EXCEPT ![c] = "joining"] /\ UNCHANGED app
  BY <1>1, <1>2, ClientMoves
<1>3. CASE client[c] = "joined" /\ app' = "crashed" /\ UNCHANGED <<client, destroying>>
  BY <1>1, <1>3 DEF CrashInv, TypeInv, FlagHasCaller, CrashNeedsSecondCall
<1> QED BY <1>2, <1>3 DEF ClientTerminate

LEMMA StillStep ==
  ASSUME CrashInv, UNCHANGED <<client, server, already_called>>, app' = app \/ app' # "crashed"
  PROVE  CrashInv'
BY DEF CrashInv, TypeInv, FlagHasCaller, CrashNeedsSecondCall

LEMMA NextCrashInv == CrashInv /\ [OldNext]_oldVars => CrashInv'
<1> SUFFICES ASSUME CrashInv, [OldNext]_oldVars PROVE CrashInv'
  OBVIOUS
<1>1. ASSUME NEW c \in Clients, ClientConstructed(c) PROVE CrashInv'
  <2>1. client' = [client EXCEPT ![c] = "running"] /\ server' = server
        /\ already_called' = already_called /\ app # "crashed" /\ app' = app
    BY <1>1 DEF ClientConstructed, serverVars, Free
  <2> QED BY <2>1, ClientMoves
<1>2. ASSUME NEW c \in Clients, Send(c) \/ SendQueued(c) \/ Transmit(c) PROVE CrashInv'
  BY <1>2, StillStep DEF Send, SendQueued, Transmit, serverVars
<1>3. ASSUME NEW c \in Clients, ClientJoin(c) PROVE CrashInv'
  <2>1. PICK place \in {"gone", "joined"} : client' = [client EXCEPT ![c] = place]
    BY <1>3 DEF ClientJoin
  <2>2. server' = server /\ already_called' = already_called /\ app # "crashed" /\ app' = app
    BY <1>3 DEF ClientJoin, serverVars
  <2> QED BY <2>1, <2>2, ClientMoves
<1>4. ASSUME NEW s \in Servers, ServerConstructed(s) PROVE CrashInv'
  <2>1. server' = [server EXCEPT ![s] = "running"] /\ client' = client /\ app' = app
        /\ already_called' = already_called /\ server[s] = "absent"
    BY <1>4 DEF ServerConstructed, clientVars
  <2> QED BY <2>1, ServerMoves
<1>5. ASSUME NEW s \in Servers, InfoShareServerConstructed(s) PROVE CrashInv'
  <2>1. server' = [server EXCEPT ![s] = "starting"] /\ client' = client /\ app' = app
        /\ already_called' = already_called /\ server[s] = "absent"
    BY <1>5 DEF InfoShareServerConstructed, clientVars
  <2> QED BY <2>1, ServerMoves
<1>6. ASSUME NEW s \in Servers,
             \/ ReceiveHandler(s) \/ WakeUp(s) \/ StartReceive(s) \/ ThreadExits(s)
             \/ InfoShareReceiveHandler(s)
      PROVE  CrashInv'
  BY <1>6, StillStep DEF ReceiveHandler, WakeUp, StartReceive, ThreadExits,
     InfoShareReceiveHandler, clientVars
<1>7. ASSUME NEW s \in Servers, ServerCancel(s) PROVE CrashInv'
  <2>1. server' = [server EXCEPT ![s] = "cancelled"] /\ client' = client /\ app' = app
        /\ already_called' = already_called /\ server[s] = "flagged"
    BY <1>7 DEF ServerCancel, clientVars
  <2> QED BY <2>1, ServerMoves
<1>8. ASSUME NEW s \in Servers, ServerStop(s) PROVE CrashInv'
  <2>1. server' = [server EXCEPT ![s] = "stopped"] /\ client' = client /\ app' = app
        /\ already_called' = already_called /\ server[s] = "cancelled"
    BY <1>8 DEF ServerStop, clientVars
  <2> QED BY <2>1, ServerMoves
<1>9. ASSUME NEW s \in Servers, ServerJoin(s) PROVE CrashInv'
  <2>1. PICK place \in {"gone", "joined"} : server' = [server EXCEPT ![s] = place]
    BY <1>9 DEF ServerJoin
  <2>2. client' = client /\ app' = app
        /\ already_called' = already_called /\ server[s] = "stopped"
    BY <1>9 DEF ServerJoin, clientVars
  <2> QED BY <2>1, <2>2, ServerMoves
<1>10. ASSUME NEW s \in Servers, FirstReceive(s) PROVE CrashInv'
  <2>1. server' = [server EXCEPT ![s] = "running"] /\ client' = client /\ app' = app
        /\ already_called' = already_called /\ server[s] = "starting"
    BY <1>10 DEF FirstReceive, clientVars
  <2> QED BY <2>1, ServerMoves
<1>11. CASE CallTerminate
  <2>1. app # "crashed" /\ ~Busy
    BY <1>11 DEF CallTerminate, Free
  <2>2. ASSUME NEW c \in Clients, ClientTerminate(c, FALSE), UNCHANGED serverVars
        PROVE  CrashInv'
    BY <2>1, <2>2, ClientTerminateStep
  <2>3. ASSUME NEW s \in Servers, Terminate(s, FALSE), UNCHANGED clientVars
        PROVE  CrashInv'
    BY <2>1, <2>3, TerminateStep
  <2> QED BY <1>11, <2>2, <2>3 DEF CallTerminate
<1>12. CASE Destroy
  <2>1. app # "crashed" /\ ~Busy
    BY <1>12 DEF Destroy
  <2>2. ASSUME NEW c \in Clients, ClientTerminate(c, TRUE), UNCHANGED serverVars
        PROVE  CrashInv'
    BY <2>1, <2>2, ClientTerminateStep
  <2>3. ASSUME NEW s \in Servers, Exists(s), Terminate(s, TRUE), UNCHANGED clientVars
        PROVE  CrashInv'
    BY <2>1, <2>3, TerminateStep
  <2> QED BY <1>12, <2>2, <2>3 DEF Destroy
<1>13. CASE MainReturns
  BY <1>13, StillStep DEF MainReturns, clientVars, serverVars
<1>14. CASE UNCHANGED oldVars
  BY <1>14, StillStep DEF oldVars, clientVars, serverVars
<1> QED BY <1>1, <1>2, <1>3, <1>4, <1>5, <1>6, <1>7, <1>8, <1>9, <1>10, <1>11, <1>12, <1>13, <1>14
        DEF OldNext, ClientStep, ServerStep

\* A process crashes only when it has had two servers of the newer class, or
\* has itself called the terminate of a client or of an older server: one
\* object of each class, left to its destructor, never ends it.
THEOREM CrashHasCause == OldSpec => []CrashNeedsSecondCall
<1>1. OldInit => CrashInv
  BY DEF OldInit, CrashInv, TypeInv, FlagHasCaller, CrashNeedsSecondCall
<1>2. CrashInv /\ [OldNext]_oldVars => CrashInv'
  BY NextCrashInv
<1>3. CrashInv => CrashNeedsSecondCall
  BY DEF CrashInv
<1> QED BY <1>1, <1>2, <1>3, PTL DEF OldSpec
=============================================================================
