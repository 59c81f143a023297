---------------------------- MODULE OldUdpSocket ----------------------------
(***************************************************************************)
(* The first UDP sockets: classes Client and Server of                     *)
(* devInfoshare/try_old/header.hpp, and the class InfoShareServer of       *)
(* try_old/server.cpp that came before them, in a process that may have    *)
(* several of each.  The application's thread constructs, uses and         *)
(* destroys them; each object has a thread that runs its io_service.  All  *)
(* of them end in terminate(), which the destructor calls too; Client and  *)
(* Server guard it with a static variable: one for all the servers, and    *)
(* one for all the clients that nobody sets.                               *)
(*                                                                         *)
(* Only the number of datagrams is kept: what they hold when asio has had  *)
(* to queue them is the subject of UdpSocket.                              *)
(***************************************************************************)
EXTENDS Integers

CONSTANTS
  Clients, Servers,
  InfoShareServers, \* the servers of the older class
  BroadcastClients, \* the clients constructed with is_broadcast
  PortOf, To,     \* the port of a server, and the one a client sends to
  SendBuffer,     \* datagrams the kernel keeps for a client's socket
  ReceiveBuffer,  \* and for a server's
  Sends           \* sends of one client: a bound

ASSUME SocketAssumption ==
  /\ BroadcastClients \subseteq Clients /\ InfoShareServers \subseteq Servers
  /\ DOMAIN PortOf = Servers /\ DOMAIN To = Clients
  /\ SendBuffer \in Nat \ {0} /\ ReceiveBuffer \in Nat \ {0} /\ Sends \in Nat

VARIABLES
  app,            \* running, leaving (main has returned) or crashed
  destroying,     \* the terminate under way was called by a destructor
  client,         \* absent, running, joining, joined or gone
  sent,           \* calls of send
  queued,         \* sends asio could not do at once
  sendbuf,        \* datagrams in the client's kernel buffer
  already_called, \* the static variable of Server::terminate
  server,         \* absent, starting, running, flagged, cancelled, stopped, joined, gone
  recvbuf,        \* datagrams in the server's kernel buffer
  armed,          \* an async_receive_from is outstanding
  thread          \* the server's: waiting, sleeping, arming or exited

clientVars == <<client, sent, queued, sendbuf>>
serverVars == <<already_called, server, recvbuf, armed, thread>>
oldVars == <<app, destroying, clientVars, serverVars>>

OldInit ==
  /\ app = "running" /\ destroying = FALSE /\ already_called = FALSE
  /\ client = [c \in Clients |-> "absent"]
  /\ sent = [c \in Clients |-> 0]
  /\ queued = [c \in Clients |-> 0] /\ sendbuf = [c \in Clients |-> 0]
  /\ server = [s \in Servers |-> "absent"]
  /\ recvbuf = [s \in Servers |-> 0]
  /\ armed = [s \in Servers |-> FALSE]
  /\ thread = [s \in Servers |-> "waiting"]

\* The application is inside a constructor or a terminate.
Busy ==
  \/ \E c \in Clients : client[c] = "joining"
  \/ \E s \in Servers : server[s] \in {"starting", "flagged", "cancelled", "stopped"}

Free == app = "running" /\ ~Busy

\* A server has its socket until it is destroyed, and no other server its port:
\* to bind that throws, and there is no server.
Exists(s) == server[s] \notin {"absent", "gone"}
PortIsFree(s) == \A other \in Servers : Exists(other) => PortOf[other] # PortOf[s]

-----------------------------------------------------------------------------
(* The client *)

ClientConstructed(c) ==
  /\ Free /\ client[c] = "absent"
  /\ client' = [client EXCEPT ![c] = "running"]
  /\ UNCHANGED <<app, destroying, sent, queued, sendbuf, serverVars>>

\* The constructor sets the broadcast option before it opens the socket: that
\* throws, and the handler it has for this leaves the socket closed.
IsOpen(c) == c \notin BroadcastClients

\* send: async_send_to tries at once, also when the thread has ended.
Send(c) ==
  /\ Free /\ client[c] \in {"running", "joined"} /\ sent[c] < Sends
  /\ sent' = [sent EXCEPT ![c] = @ + 1]
  /\ IF ~IsOpen(c) THEN UNCHANGED <<queued, sendbuf>>
     ELSE IF queued[c] = 0 /\ sendbuf[c] < SendBuffer
     THEN sendbuf' = [sendbuf EXCEPT ![c] = @ + 1] /\ UNCHANGED queued
     ELSE queued' = [queued EXCEPT ![c] = @ + 1] /\ UNCHANGED sendbuf
  /\ UNCHANGED <<app, destroying, client, serverVars>>

\* The client's thread does a queued send when there is room.
SendQueued(c) ==
  /\ app # "crashed" /\ client[c] \in {"running", "joining"}
  /\ queued[c] > 0 /\ sendbuf[c] < SendBuffer
  /\ queued' = [queued EXCEPT ![c] = @ - 1]
  /\ sendbuf' = [sendbuf EXCEPT ![c] = @ + 1]
  /\ UNCHANGED <<app, destroying, client, sent, serverVars>>

\* terminate gives up the work guard and joins; its static variable is never
\* set, so that a second call joins a thread that was joined: std::system_error,
\* which nobody catches.
ClientTerminate(c, destructor) ==
  \/ /\ client[c] = "running"
     /\ client' = [client EXCEPT ![c] = "joining"]
     /\ destroying' = destructor
     /\ UNCHANGED app
  \/ /\ client[c] = "joined"
     /\ app' = "crashed"
     /\ UNCHANGED <<client, destroying>>

\* run returns when no send is queued any more, and so does join.
ClientJoin(c) ==
  /\ app # "crashed" /\ client[c] = "joining" /\ queued[c] = 0
  /\ client' = [client EXCEPT ![c] = IF destroying THEN "gone" ELSE "joined"]
  /\ UNCHANGED <<app, destroying, sent, queued, sendbuf, serverVars>>

\* The kernel sends, and the datagram arrives or is lost.
Transmit(c) ==
  /\ sendbuf[c] > 0
  /\ sendbuf' = [sendbuf EXCEPT ![c] = @ - 1]
  /\ \/ \E s \in Servers :
          /\ app # "crashed" /\ Exists(s) /\ PortOf[s] = To[c]
          /\ recvbuf[s] < ReceiveBuffer
          /\ recvbuf' = [recvbuf EXCEPT ![s] = @ + 1]
     \/ UNCHANGED recvbuf
  /\ UNCHANGED <<app, destroying, client, sent, queued, already_called, server, armed, thread>>

-----------------------------------------------------------------------------
(* The server *)

\* The constructor binds the port, starts the thread and the first receive.
ServerConstructed(s) ==
  /\ Free /\ s \notin InfoShareServers /\ server[s] = "absent" /\ PortIsFree(s)
  /\ server' = [server EXCEPT ![s] = "running"]
  /\ armed' = [armed EXCEPT ![s] = TRUE]
  /\ UNCHANGED <<app, destroying, clientVars, already_called, recvbuf, thread>>

\* receiveHandler and startReceive read terminated_, a plain bool the
\* application may be writing: once it is set, they may see it or not.
Goes(s, next) ==
  \/ thread' = [thread EXCEPT ![s] = next]
  \/ server[s] # "running" /\ thread' = [thread EXCEPT ![s] = "waiting"]

ReceiveHandler(s) ==
  /\ s \notin InfoShareServers
  /\ app # "crashed" /\ thread[s] = "waiting" /\ armed[s] /\ recvbuf[s] > 0
  /\ server[s] \in {"running", "flagged", "cancelled"}
  /\ armed' = [armed EXCEPT ![s] = FALSE]
  /\ recvbuf' = [recvbuf EXCEPT ![s] = @ - 1]
  /\ Goes(s, "sleeping")
  /\ UNCHANGED <<app, destroying, clientVars, already_called, server>>

\* startReceive after its 10 ms.
WakeUp(s) ==
  /\ app # "crashed" /\ thread[s] = "sleeping"
  /\ Goes(s, "arming")
  /\ UNCHANGED <<app, destroying, clientVars, already_called, server, recvbuf, armed>>

\* async_receive_from; cancel closes nothing, so that it succeeds after it too.
StartReceive(s) ==
  /\ app # "crashed" /\ thread[s] = "arming"
  /\ armed' = [armed EXCEPT ![s] = TRUE]
  /\ thread' = [thread EXCEPT ![s] = "waiting"]
  /\ UNCHANGED <<app, destroying, clientVars, already_called, server, recvbuf>>

\* run has nothing to wait for: the guard is gone, or there never was one, and
\* no receive is outstanding.
OutOfWork(s) ==
  /\ ~armed[s]
  /\ server[s] \in IF s \in InfoShareServers THEN {"starting", "running"} ELSE {"flagged", "cancelled"}

\* Mutant of ThreadExits: terminate does not stop the io_service.
ThreadExits_NoStop(s) ==
  /\ app # "crashed" /\ thread[s] = "waiting"
  /\ OutOfWork(s) \/ (server[s] = "stopped" /\ ~armed[s])
  /\ thread' = [thread EXCEPT ![s] = "exited"]
  /\ UNCHANGED <<app, destroying, clientVars, already_called, server, recvbuf, armed>>

\* run returns when the io_service is stopped or out of work.
ThreadExits(s) ==
  /\ app # "crashed" /\ thread[s] = "waiting"
  /\ OutOfWork(s) \/ server[s] = "stopped"
  /\ thread' = [thread EXCEPT ![s] = "exited"]
  /\ UNCHANGED <<app, destroying, clientVars, already_called, server, recvbuf, armed>>

\* Mutant of ServerTerminate: the static variable is never set, as in the client.
ServerTerminate_NeverSet(s, destructor) ==
  \/ /\ server[s] = "running"
     /\ server' = [server EXCEPT ![s] = "flagged"]
     /\ destroying' = destructor
     /\ UNCHANGED <<app, already_called>>
  \/ /\ server[s] = "joined"
     /\ app' = "crashed"
     /\ UNCHANGED <<server, destroying, already_called>>

\* terminate up to w_guard_.reset().  A later call, of any server, does
\* nothing: a destructor then goes on to destroy the thread, and std::thread
\* ends the process when that was not joined.
ServerTerminate(s, destructor) ==
  \/ /\ ~already_called /\ server[s] = "running"
     /\ already_called' = TRUE
     /\ server' = [server EXCEPT ![s] = "flagged"]
     /\ destroying' = destructor
     /\ UNCHANGED app
  \/ /\ already_called /\ destructor
     /\ app' = IF server[s] = "joined" THEN app ELSE "crashed"
     /\ server' = [server EXCEPT ![s] = "gone"]
     /\ UNCHANGED <<destroying, already_called>>

\* socket_.cancel(), io_service_.stop() and join().
ServerCancel(s) ==
  /\ server[s] = "flagged"
  /\ server' = [server EXCEPT ![s] = "cancelled"]
  /\ armed' = [armed EXCEPT ![s] = FALSE]
  /\ UNCHANGED <<app, destroying, clientVars, already_called, recvbuf, thread>>

ServerStop(s) ==
  /\ server[s] = "cancelled"
  /\ server' = [server EXCEPT ![s] = "stopped"]
  /\ UNCHANGED <<app, destroying, clientVars, already_called, recvbuf, armed, thread>>

ServerJoin(s) ==
  /\ server[s] = "stopped" /\ thread[s] = "exited"
  /\ server' = [server EXCEPT ![s] = IF destroying THEN "gone" ELSE "joined"]
  /\ UNCHANGED <<app, destroying, clientVars, already_called, recvbuf, armed, thread>>

-----------------------------------------------------------------------------
(* The older server *)

\* The thread starts among the initialisers and has no work for 100 ms: it may
\* be gone by the time the first receive is started, and the server is deaf.
InfoShareServerConstructed(s) ==
  /\ Free /\ s \in InfoShareServers /\ server[s] = "absent" /\ PortIsFree(s)
  /\ server' = [server EXCEPT ![s] = "starting"]
  /\ UNCHANGED <<app, destroying, clientVars, already_called, recvbuf, armed, thread>>

FirstReceive(s) ==
  /\ server[s] = "starting"
  /\ server' = [server EXCEPT ![s] = "running"]
  /\ armed' = [armed EXCEPT ![s] = TRUE]
  /\ UNCHANGED <<app, destroying, clientVars, already_called, recvbuf, thread>>

\* The datagram "end" is the last one that is received.
InfoShareReceiveHandler(s) ==
  /\ s \in InfoShareServers
  /\ app # "crashed" /\ thread[s] = "waiting" /\ armed[s] /\ recvbuf[s] > 0
  /\ server[s] = "running"
  /\ recvbuf' = [recvbuf EXCEPT ![s] = @ - 1]
  /\ \E end \in BOOLEAN : armed' = [armed EXCEPT ![s] = ~end]
  /\ UNCHANGED <<app, destroying, clientVars, already_called, server, thread>>

\* io_service_.stop() and join(), every time: a second call joins a thread that
\* was joined.
InfoShareTerminate(s, destructor) ==
  \/ /\ server[s] = "running"
     /\ server' = [server EXCEPT ![s] = "stopped"]
     /\ destroying' = destructor
     /\ UNCHANGED <<app, already_called>>
  \/ /\ server[s] = "joined"
     /\ app' = "crashed"
     /\ UNCHANGED <<server, destroying, already_called>>

-----------------------------------------------------------------------------
(* The application *)

Terminate(s, destructor) ==
  IF s \in InfoShareServers
  THEN InfoShareTerminate(s, destructor)
  ELSE ServerTerminate(s, destructor)

\* The application calls terminate itself.
CallTerminate ==
  /\ Free
  /\ \/ \E c \in Clients : ClientTerminate(c, FALSE) /\ UNCHANGED <<sent, queued, sendbuf, serverVars>>
     \/ \E s \in Servers :
          Terminate(s, FALSE) /\ UNCHANGED <<clientVars, recvbuf, armed, thread>>

\* A destructor runs: the object's lifetime ends, or main has returned.
Destroy ==
  /\ app # "crashed" /\ ~Busy
  /\ \/ \E c \in Clients : ClientTerminate(c, TRUE) /\ UNCHANGED <<sent, queued, sendbuf, serverVars>>
     \/ \E s \in Servers :
          /\ Exists(s)
          /\ Terminate(s, TRUE)
          /\ UNCHANGED <<clientVars, recvbuf, armed, thread>>

MainReturns ==
  /\ Free
  /\ app' = "leaving"
  /\ UNCHANGED <<destroying, clientVars, serverVars>>

ClientStep(c) == SendQueued(c) \/ ClientJoin(c)
ServerStep(s) ==
  \/ ReceiveHandler(s) \/ WakeUp(s) \/ StartReceive(s) \/ ThreadExits(s)
  \/ ServerCancel(s) \/ ServerStop(s) \/ ServerJoin(s)
  \/ FirstReceive(s) \/ InfoShareReceiveHandler(s)

OldNext ==
  \/ \E c \in Clients : ClientConstructed(c) \/ Send(c) \/ ClientStep(c) \/ Transmit(c)
  \/ \E s \in Servers : ServerConstructed(s) \/ InfoShareServerConstructed(s) \/ ServerStep(s)
  \/ CallTerminate \/ Destroy \/ MainReturns

OldSpec == OldInit /\ [][OldNext]_oldVars

\* The threads run, a terminate that has begun goes on, the kernel empties its
\* send buffers, and a process that has returned from main destroys what it has.
OldFairSpec ==
  /\ OldSpec
  /\ \A c \in Clients : WF_oldVars(ClientStep(c)) /\ WF_oldVars(Transmit(c))
  /\ \A s \in Servers : WF_oldVars(ServerStep(s))
  /\ WF_oldVars(app = "leaving" /\ Destroy)

-----------------------------------------------------------------------------
(* Properties *)

\* "The destructor calls it too, so that there is no need to call it" (and no
\* harm): a process crashes only when it has had a second server of the newer
\* class, or has itself called the terminate of a client or of an older server.
CrashNeedsSecondCall ==
  app = "crashed" =>
    \/ \E s, t \in Servers \ InfoShareServers :
         s # t /\ server[s] # "absent" /\ server[t] # "absent"
    \/ \E c \in Clients : client[c] = "joined"
    \/ \E s \in InfoShareServers : server[s] = "joined"

\* A process that returns from main ends, by crashing or with every object
\* destroyed: no destructor waits forever, also not for queued sends.
LeavingEnds ==
  app = "leaving" ~>
    \/ app = "crashed"
    \/ \A c \in Clients : client[c] \in {"absent", "gone"}
       /\ \A s \in Servers : ~Exists(s)
=============================================================================
