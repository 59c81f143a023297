------------------------------ MODULE UdpSocket ------------------------------
(***************************************************************************)
(* UDPClient and UDPServer (devInfoshare/InfoShare/try/sUDPSocket.hpp) in  *)
(* one application that sends to its own port, as the socket test does.    *)
(* Three threads: the application, the client's io_service thread and the  *)
(* server's.  Between them the kernel: a send buffer, a receive buffer,    *)
(* and a network that may lose what is in it.                              *)
(*                                                                         *)
(* asio tries a send at once, while the caller still has the bytes.  When  *)
(* the send buffer is full, or a send already waits, it queues the         *)
(* operation with a pointer to the bytes instead, and send returns and     *)
(* releases them: the io_service thread then sends whatever that memory    *)
(* holds, and the next messages are put into the same memory.              *)
(*                                                                         *)
(* A datagram is named by the send it stems from; content tells which      *)
(* message its bytes are (0: no message's).                                *)
(***************************************************************************)
EXTENDS Integers, Sequences

CONSTANTS
  Sends,          \* messages the application sends, numbered from 1
  SendBuffer,     \* datagrams the kernel's send buffer holds
  ReceiveBuffer   \* datagrams the kernel's receive buffer holds

ASSUME SendsAssumption == Sends \in Nat
ASSUME BufferAssumption == SendBuffer \in Nat \ {0} /\ ReceiveBuffer \in Nat \ {0}

VARIABLES
  calling,        \* the terminate the application is in: none, client or server
  sent,           \* messages the application has passed to send
  client,         \* running, flagged, stopped, closed or joined
  queued,         \* sends asio could not do at once, their bytes released
  content,        \* the message in the datagram of each send
  sendbuf,        \* the kernel's send buffer
  recvbuf,        \* the kernel's receive buffer of the server's port
  server,         \* running, flagged, closed, stopped, joined or crashed
  armed,          \* an async_receive_from is outstanding
  failed,         \* a receive has ended with an error (history)
  thread,         \* the server thread: none, waiting, handling, checking, arming or exited
  hand,           \* the datagram receivedHandler_ is working on
  delivered,      \* the datagrams receivedHandler_ was called for
  waited          \* some send had to be queued (history)

clientVars == <<sent, client, queued, content, sendbuf>>
serverVars == <<server, armed, failed, thread, hand, delivered>>
vars == <<calling, clientVars, recvbuf, serverVars, waited>>

Garbage == 0

\* The constructor of the client opens the socket, whatever the mode: an option
\* that cannot be set is reported and forgotten.  Then it starts the thread.
ClientConstructed ==
  /\ client = "running"
  /\ sent = 0 /\ queued = << >> /\ sendbuf = << >>
  /\ content = [n \in 1 .. Sends |-> n]

\* The constructor of the server binds the port, sets the options, starts the
\* thread and then the first receive.  When an option cannot be set, or the
\* thread cannot be started, it reports that and goes on without a thread.
ServerConstructed ==
  /\ server = "running"
  /\ recvbuf = << >> /\ armed = TRUE /\ failed = FALSE
  /\ thread \in {"waiting", "none"} /\ hand = 0 /\ delivered = << >>

Init == ClientConstructed /\ ServerConstructed /\ calling = "none" /\ waited = FALSE

-----------------------------------------------------------------------------
(* Sending *)

\* Mutant of Send: every send is left to the io_service thread.
Send_Queues ==
  /\ calling = "none" /\ sent < Sends
  /\ sent' = sent + 1
  /\ IF client # "running"
     THEN UNCHANGED queued
     ELSE queued' = Append(queued, sent + 1)
  /\ waited' = (waited \/ Len(sendbuf) = SendBuffer)
  /\ UNCHANGED <<calling, client, content, sendbuf, recvbuf, serverVars>>

\* Mutant of Send: a send overtakes those that wait.
Send_Overtakes ==
  /\ calling = "none" /\ sent < Sends
  /\ sent' = sent + 1
  /\ IF client # "running"
     THEN UNCHANGED <<queued, sendbuf, waited>>
     ELSE IF Len(sendbuf) < SendBuffer
     THEN sendbuf' = Append(sendbuf, sent + 1) /\ UNCHANGED <<queued, waited>>
     ELSE queued' = Append(queued, sent + 1) /\ waited' = TRUE /\ UNCHANGED sendbuf
  /\ UNCHANGED <<calling, client, content, recvbuf, serverVars>>

\* send: on a closed socket the operation fails and nothing is sent.
Send ==
  /\ calling = "none" /\ sent < Sends
  /\ sent' = sent + 1
  /\ IF client # "running"
     THEN UNCHANGED <<queued, sendbuf, waited>>
     ELSE IF queued = << >> /\ Len(sendbuf) < SendBuffer
     THEN sendbuf' = Append(sendbuf, sent + 1) /\ UNCHANGED <<queued, waited>>
     ELSE queued' = Append(queued, sent + 1) /\ waited' = TRUE /\ UNCHANGED sendbuf
  /\ UNCHANGED <<calling, client, content, recvbuf, serverVars>>

\* Mutant of Leftovers: the operation is queued before its message is put into
\* the memory, which may still hold one of the messages before it.
Leftovers_Earlier(n) == {Garbage} \union {m \in 1 .. Sends : m <= sent + 1}

\* What the memory of message n may hold once send has released it: still that
\* message, no message, or one that was sent since or is just being made.
\* (Assumed of the application: it keeps no copies that could be put there, so
\* that an earlier message, whose own memory went before, does not come back.)
Leftovers(n) == {Garbage} \union {m \in n .. Sends : m <= sent + 1}

\* The client's io_service thread does a queued send when there is room; it
\* reads memory that send has released.
SendQueued ==
  /\ client \in {"running", "flagged"} /\ server # "crashed"
  /\ queued # << >> /\ Len(sendbuf) < SendBuffer
  /\ sendbuf' = Append(sendbuf, Head(queued))
  /\ \E m \in Leftovers(Head(queued)) : content' = [content EXCEPT ![Head(queued)] = m]
  /\ queued' = Tail(queued)
  /\ UNCHANGED <<calling, sent, client, recvbuf, serverVars, waited>>

\* The network: a datagram reaches the server's port, or is lost; it is lost
\* too when the receive buffer is full or the port is closed.
Transmit ==
  /\ sendbuf # << >>
  /\ sendbuf' = Tail(sendbuf)
  /\ \/ /\ server \in {"running", "flagged"} /\ Len(recvbuf) < ReceiveBuffer
        /\ recvbuf' = Append(recvbuf, Head(sendbuf))
     \/ UNCHANGED recvbuf
  /\ UNCHANGED <<calling, sent, client, queued, content, serverVars, waited>>

-----------------------------------------------------------------------------
(* The server's thread *)

\* run() hands a datagram to receiveHandler, which calls receivedHandler_.
ReceiveHandler ==
  /\ thread = "waiting" /\ armed
  /\ server \in {"running", "flagged"}
  /\ recvbuf # << >>
  /\ armed' = FALSE
  /\ recvbuf' = Tail(recvbuf)
  /\ hand' = Head(recvbuf)
  /\ thread' = "handling"
  /\ UNCHANGED <<calling, clientVars, server, failed, delivered, waited>>

\* Any error of a receive but eof: receiveHandler does nothing, and no other
\* receive is ever started.
ReceiveFails ==
  /\ thread = "waiting" /\ armed
  /\ server \in {"running", "flagged"}
  /\ armed' = FALSE /\ failed' = TRUE
  /\ UNCHANGED <<calling, clientVars, recvbuf, server, thread, hand, delivered, waited>>

\* Mutant of HandlerReturns: an exception of the handler ends the turn.
HandlerReturns_Throws ==
  /\ thread = "handling"
  /\ delivered' = Append(delivered, hand)
  /\ thread' = "waiting"
  /\ UNCHANGED <<calling, clientVars, recvbuf, server, armed, failed, hand, waited>>

HandlerReturns ==
  /\ thread = "handling"
  /\ delivered' = Append(delivered, hand)
  /\ thread' = "checking"
  /\ UNCHANGED <<calling, clientVars, recvbuf, server, armed, failed, hand, waited>>

\* Mutant of CheckTerminated: the next receive is started only when more data
\* is already there.
CheckTerminated_OnlyIfMore ==
  /\ thread = "checking"
  /\ thread' = IF recvbuf # << >> THEN "arming" ELSE "waiting"
  /\ UNCHANGED <<calling, clientVars, recvbuf, server, armed, failed, hand, delivered, waited>>

\* receiveHandler and startReceive look at terminated_, a plain bool the
\* application may be writing: once it is set, they may see it or not.
CheckTerminated ==
  /\ thread = "checking"
  /\ \/ thread' = "arming"
     \/ server # "running" /\ thread' = "waiting"
  /\ UNCHANGED <<calling, clientVars, recvbuf, server, armed, failed, hand, delivered, waited>>

\* Mutant of StartReceive: the operation survives the closed socket.
StartReceive_Always ==
  /\ thread = "arming"
  /\ armed' = TRUE
  /\ thread' = "waiting"
  /\ UNCHANGED <<calling, clientVars, recvbuf, server, failed, hand, delivered, waited>>

\* async_receive_from: on a socket closed in the meantime it fails, and the
\* handler does not start another one after an error.
StartReceive ==
  /\ thread = "arming"
  /\ armed' = (server \in {"running", "flagged"})
  /\ thread' = "waiting"
  /\ UNCHANGED <<calling, clientVars, recvbuf, server, failed, hand, delivered, waited>>

\* run() returns when the io_service is stopped, or when the work guard is
\* gone and no operation is outstanding.
ThreadExits ==
  /\ thread = "waiting"
  /\ server = "stopped" \/ (server # "running" /\ ~armed)
  /\ thread' = "exited"
  /\ UNCHANGED <<calling, clientVars, recvbuf, server, armed, failed, hand, delivered, waited>>

-----------------------------------------------------------------------------
(* Terminating: terminated_ makes a second call a no-op *)

\* terminated_ = true and w_guard_.reset().
CallTerminate ==
  /\ calling = "none"
  /\ \/ client = "running" /\ client' = "flagged" /\ calling' = "client" /\ UNCHANGED server
     \/ server = "running" /\ server' = "flagged" /\ calling' = "server" /\ UNCHANGED client
  /\ UNCHANGED <<sent, queued, content, sendbuf, recvbuf, armed, failed, thread, hand, delivered, waited>>

\* io_service_.stop(): the io_service thread does no more.
ClientStop ==
  /\ client = "flagged"
  /\ client' = "stopped"
  /\ UNCHANGED <<calling, sent, queued, content, sendbuf, recvbuf, serverVars, waited>>

\* socket_.close() cancels what is queued; what the kernel has is still sent.
ClientClose ==
  /\ client = "stopped"
  /\ client' = "closed"
  /\ queued' = << >>
  /\ UNCHANGED <<calling, sent, content, sendbuf, recvbuf, serverVars, waited>>

ClientJoin ==
  /\ client = "closed"
  /\ client' = "joined"
  /\ calling' = "none"
  /\ UNCHANGED <<sent, queued, content, sendbuf, recvbuf, serverVars, waited>>

\* Mutant of ServerClose: the thread is joined before the socket is closed.
ServerClose_AfterJoin ==
  /\ server = "flagged" /\ thread = "exited"
  /\ server' = "closed"
  /\ armed' = FALSE
  /\ recvbuf' = << >>
  /\ UNCHANGED <<calling, clientVars, failed, thread, hand, delivered, waited>>

\* socket_.close() cancels the outstanding receive.
ServerClose ==
  /\ server = "flagged"
  /\ server' = "closed"
  /\ armed' = FALSE
  /\ recvbuf' = << >>
  /\ UNCHANGED <<calling, clientVars, failed, thread, hand, delivered, waited>>

ServerStop ==
  /\ server = "closed"
  /\ server' = "stopped"
  /\ UNCHANGED <<calling, clientVars, recvbuf, armed, failed, thread, hand, delivered, waited>>

ServerJoin ==
  /\ server = "stopped" /\ thread = "exited"
  /\ server' = "joined"
  /\ calling' = "none"
  /\ UNCHANGED <<clientVars, recvbuf, armed, failed, thread, hand, delivered, waited>>

\* Without a thread there is nothing at server_thread_ to call join on: the
\* process ends there.
ServerJoinCrashes ==
  /\ server = "stopped" /\ thread = "none"
  /\ server' = "crashed"
  /\ UNCHANGED <<calling, clientVars, recvbuf, armed, failed, thread, hand, delivered, waited>>

-----------------------------------------------------------------------------
ServerThread ==
  ReceiveHandler \/ HandlerReturns \/ CheckTerminated \/ StartReceive \/ ThreadExits

Terminating ==
  \/ ClientStop \/ ClientClose \/ ClientJoin
  \/ ServerClose \/ ServerStop \/ ServerJoin \/ ServerJoinCrashes

Next ==
  \/ Send \/ SendQueued \/ Transmit
  \/ ServerThread \/ ReceiveFails
  \/ CallTerminate \/ Terminating

Spec == Init /\ [][Next]_vars

\* The operating system runs the server's thread and a terminate that has
\* begun; the handler returns.  The network owes nothing, and no receive has to
\* fail.
FairSpec == Spec /\ WF_vars(ServerThread) /\ WF_vars(Terminating)

-----------------------------------------------------------------------------
(* Properties *)

\* The type invariant.
TypeOK ==
  /\ calling \in {"none", "client", "server"}
  /\ sent \in 0 .. Sends
  /\ client \in {"running", "flagged", "stopped", "closed", "joined"}
  /\ server \in {"running", "flagged", "closed", "stopped", "joined", "crashed"}
  /\ queued \in Seq(1 .. Sends)
  /\ content \in [1 .. Sends -> 0 .. Sends]
  /\ sendbuf \in Seq(1 .. Sends) /\ Len(sendbuf) <= SendBuffer
  /\ recvbuf \in Seq(1 .. Sends) /\ Len(recvbuf) <= ReceiveBuffer
  /\ {armed, failed, waited} \subseteq BOOLEAN
  /\ thread \in {"none", "waiting", "handling", "checking", "arming", "exited"}
  /\ hand \in 0 .. Sends
  /\ delivered \in Seq(1 .. Sends)

\* What receivedHandler_ was called with.
Received == [i \in DOMAIN delivered |-> content[delivered[i]]]

\* As long as no send has had to wait, the handler gets messages that were
\* sent, unchanged, in the order of the sends and none twice.
DeliveredAsSent ==
  ~waited =>
    /\ \A i \in DOMAIN Received : Received[i] \in 1 .. sent
    /\ \A i, j \in DOMAIN Received : i < j => Received[i] < Received[j]

\* Seen from the outside the two sockets, the threads and the kernel between
\* them are a channel that loses messages but no order: every call of the
\* handler stems from a send of its own, later ones from later sends.  (What
\* it brings then need not be what was sent: see OnlyLaterMessages.)  The
\* channel closes when the terminate of the server has returned.
Channel == INSTANCE MessageChannel WITH
  posted <- sent, since <- 0, open <- server # "joined", taken <- delivered
ImplementsChannel == Channel!Spec

\* The bytes of a send that had to wait may be gone, or be those of a message
\* that was sent later, which then comes early and once more in its own place;
\* they are never an earlier message.  So the k-th call of the handler never
\* brings one of the first k - 1 messages, and nothing comes late.
OnlyLaterMessages ==
  \A k \in DOMAIN delivered :
    Received[k] # Garbage => k <= delivered[k] /\ delivered[k] <= Received[k]

\* A server nobody terminated becomes deaf by an error of a receive, and in no
\* other way, if its constructor could start the thread: a receive is
\* outstanding, or the thread is on its way to start one.
DeafOnlyByError ==
  server = "running" /\ thread # "none" /\ ~failed =>
    armed \/ thread \in {"handling", "checking", "arming"}

\* When terminate has returned, no operation is left that would write into
\* the buffer of the server, which may now be destroyed.
NothingOutlivesServer == server = "joined" => ~armed /\ thread = "exited"

\* After terminate has returned the handler, which uses the objects of the
\* application, stores nothing any more.
NoHandlerAfterTerminate == [][server = "joined" => UNCHANGED delivered]_vars

\* terminate returns, wherever it catches the threads, if there is a thread to
\* join; a server without one takes the process with it.
ServerTerminates == server = "flagged" /\ thread # "none" ~> server = "joined"

\* What has reached the port is handled, unless the server is terminated first,
\* a receive fails, or the constructor could not start the thread.
ArrivedIsHandled ==
  \A n \in 1 .. Sends :
    (\E i \in DOMAIN recvbuf : recvbuf[i] = n) /\ thread # "none"
      ~> (\E i \in DOMAIN delivered : delivered[i] = n) \/ server # "running" \/ failed

\* What the socket test requires: once as many messages have arrived as were
\* sent, they are the messages that were sent.
AllArrivedMeansEqual == Len(delivered) = Sends => Received = [i \in 1 .. Sends |-> i]
=============================================================================
