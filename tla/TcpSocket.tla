------------------------------ MODULE TcpSocket ------------------------------
(***************************************************************************)
(* TCPClient and TCPServer (devInfoshare/InfoShare/try/sAsyncSocket.hpp):  *)
(* one client that connects to one server.  Three threads: the             *)
(* application, which calls send and the two terminates, the client's      *)
(* io_service thread and the server's.                                     *)
(*                                                                         *)
(* A connection is a stream: pipe is what the kernels hold of it, byte by  *)
(* byte, a byte being named by the send it stems from and its place among  *)
(* the bytes of that send; content tells which message they are of (0: no  *)
(* message).  send uses async_send, which writes as much as there is room  *)
(* for and no more; when a connect or another send is under way it is      *)
(* queued with a pointer to bytes that send releases on its return, and    *)
(* the io_service thread later writes whatever that memory holds: the next *)
(* messages are put there too.                                             *)
(***************************************************************************)
EXTENDS Integers, Sequences, SequencesExt

CONSTANTS
  Sends,          \* messages the application sends, numbered from 1
  MessageSize,    \* bytes of a message
  Window,         \* bytes the kernels hold
  buffer_size_    \* bytes of one receive

ASSUME SendsAssumption == Sends \in Nat
ASSUME SizeAssumption ==
  MessageSize \in Nat \ {0} /\ Window \in Nat \ {0} /\ buffer_size_ \in Nat \ {0}

VARIABLES
  calling,        \* the terminate the application is in: none, client or server
  sent,           \* messages the application has passed to send
  client,         \* running, flagged, stopped, closed or joined
  link,           \* the client's connection: connecting, up or gone
  queued,         \* sends that wait, their bytes released
  content,        \* the message in the bytes of each send
  pipe,           \* the bytes on the way
  fin,            \* the client has closed its end
  accept,         \* the server's only async_accept: pending, done, late or failed
  server,         \* running, flagged, closed, stopped, joined or crashed
  armed,          \* an async_receive is outstanding
  failed,         \* a receive has ended with an error (history)
  thread,         \* the server thread: none, waiting, handling, checking, arming or exited
  hand,           \* the bytes receivedHandler_ is called with
  delivered,      \* all the bytes it was called with, one after the other (history)
  empty,          \* it was called with an empty string (history)
  intact          \* no send was queued or written in part (history)

clientVars == <<sent, client, link, queued, content, intact>>
handlerVars == <<delivered, empty>>
serverVars == <<accept, server, armed, failed, thread, hand, handlerVars>>
vars == <<calling, clientVars, pipe, fin, serverVars>>

Garbage == 0

\* The bytes of a send.
Bytes(n) == [i \in 1 .. MessageSize |-> <<n, i>>]
Room == Window - Len(pipe)
Written(n) == IF Room < MessageSize THEN SubSeq(Bytes(n), 1, Room) ELSE Bytes(n)

\* The constructor of the client starts the thread, then to connect.
ClientConstructed ==
  /\ client = "running" /\ link = "connecting"
  /\ sent = 0 /\ queued = << >>
  /\ content = [n \in 1 .. Sends |-> n]
  /\ pipe = << >> /\ fin = FALSE

\* The constructor of the server listens, sets the options, starts the thread
\* and then to accept.  When an option cannot be set, or the thread cannot be
\* started, it reports that and goes on without a thread.
ServerConstructed ==
  /\ server = "running" /\ accept = "pending"
  /\ armed = FALSE /\ failed = FALSE
  /\ thread \in {"waiting", "none"} /\ hand = << >>
  /\ delivered = << >> /\ empty = FALSE

Init == ClientConstructed /\ ServerConstructed /\ calling = "none" /\ intact = TRUE

-----------------------------------------------------------------------------
(* The client *)

\* The connection is made, or refused; nothing ever tries again.
Connected ==
  /\ link = "connecting" /\ client \in {"running", "flagged"} /\ server # "crashed"
  /\ link' \in {"up", "gone"}
  /\ queued' = IF link' = "gone" THEN << >> ELSE queued
  /\ UNCHANGED <<calling, sent, client, content, intact, pipe, fin, serverVars>>

\* Mutant of Send: a send overtakes those that wait.
Send_Overtakes ==
  /\ calling = "none" /\ sent < Sends
  /\ sent' = sent + 1
  /\ IF client # "running" \/ link = "gone"
     THEN UNCHANGED <<queued, pipe, intact>>
     ELSE IF link = "up" /\ Room > 0
     THEN /\ pipe' = pipe \o Written(sent + 1)
          /\ intact' = (intact /\ Room >= MessageSize)
          /\ UNCHANGED queued
     ELSE queued' = Append(queued, sent + 1) /\ intact' = FALSE /\ UNCHANGED pipe
  /\ UNCHANGED <<calling, client, link, content, fin, serverVars>>

\* send: asio tries at once unless a connect or a send is under way.  What
\* does not fit is not sent: the handler does not look at bytes_transferred.
Send ==
  /\ calling = "none" /\ sent < Sends
  /\ sent' = sent + 1
  /\ IF client # "running" \/ link = "gone"
     THEN UNCHANGED <<queued, pipe, intact>>
     ELSE IF link = "up" /\ queued = << >> /\ Room > 0
     THEN /\ pipe' = pipe \o Written(sent + 1)
          /\ intact' = (intact /\ Room >= MessageSize)
          /\ UNCHANGED queued
     ELSE queued' = Append(queued, sent + 1) /\ intact' = FALSE /\ UNCHANGED pipe
  /\ UNCHANGED <<calling, client, link, content, fin, serverVars>>

\* What the memory of message n may hold once send has released it: still that
\* message, no message, or one that was sent since or is just being made.
\* (Assumed of the application: it keeps no copies that could be put there, so
\* that an earlier message, whose own memory went before, does not come back.)
Leftovers(n) == {Garbage} \union {m \in n .. Sends : m <= sent + 1}

\* The io_service thread writes what waits, from memory that is released.
SendQueued ==
  /\ client \in {"running", "flagged"} /\ server # "crashed"
  /\ link = "up" /\ queued # << >> /\ Room > 0
  /\ pipe' = pipe \o Written(Head(queued))
  /\ \E m \in Leftovers(Head(queued)) : content' = [content EXCEPT ![Head(queued)] = m]
  /\ queued' = Tail(queued)
  /\ UNCHANGED <<calling, sent, client, link, intact, fin, serverVars>>

-----------------------------------------------------------------------------
(* The server's thread *)

\* onAccept, once in the life of a server: after an error it starts nothing.
\* terminate does not close the acceptor: between socket_.close() and
\* io_service_.stop() it may still accept, and opens the socket again.
OnAccept ==
  /\ thread = "waiting" /\ accept = "pending"
  /\ server \in {"running", "flagged", "closed"}
  /\ link = "up" \/ fin
  /\ \/ accept' = (IF server = "closed" THEN "late" ELSE "done") /\ thread' = "checking"
     \/ accept' = "failed" /\ UNCHANGED thread
  /\ UNCHANGED <<calling, clientVars, pipe, fin, server, armed, failed, hand, handlerVars>>

\* Mutant of ReceiveHandler: a receive that finds nothing is data too.
ReceiveHandler_Polls ==
  /\ thread = "waiting" /\ armed
  /\ server \in {"running", "flagged", "closed"}
  /\ \/ \E n \in 1 .. Len(pipe) :
          n <= buffer_size_ /\ hand' = SubSeq(pipe, 1, n) /\ pipe' = SubSeq(pipe, n + 1, Len(pipe))
     \/ pipe = << >> /\ hand' = << >> /\ UNCHANGED pipe
  /\ armed' = FALSE /\ thread' = "handling"
  /\ UNCHANGED <<calling, clientVars, fin, accept, server, failed, handlerVars>>

\* A receive completes with any part of what is there, whatever the messages
\* were; when the client has closed its end it completes with eof and no
\* byte, which receiveHandler treats like data.
ReceiveHandler ==
  /\ thread = "waiting" /\ armed
  /\ server \in {"running", "flagged", "closed"}
  /\ \/ \E n \in 1 .. Len(pipe) :
          n <= buffer_size_ /\ hand' = SubSeq(pipe, 1, n) /\ pipe' = SubSeq(pipe, n + 1, Len(pipe))
     \/ pipe = << >> /\ fin /\ hand' = << >> /\ UNCHANGED pipe
  /\ armed' = FALSE /\ thread' = "handling"
  /\ UNCHANGED <<calling, clientVars, fin, accept, server, failed, handlerVars>>

\* Any error of a receive but eof: receiveHandler does nothing, and no other
\* receive is ever started.  The error may be the end of the connection.
ReceiveFails ==
  /\ thread = "waiting" /\ armed
  /\ server \in {"running", "flagged", "closed"}
  /\ armed' = FALSE /\ failed' = TRUE
  /\ \/ UNCHANGED <<pipe, link, queued>>
     \/ pipe' = << >> /\ link' = "gone" /\ queued' = << >>
  /\ UNCHANGED <<calling, sent, client, content, intact, fin, accept, server, thread, hand,
                 handlerVars>>

\* Mutant of HandlerReturns: the string is longer than what was received.
HandlerReturns_Padded ==
  /\ thread = "handling"
  /\ delivered' = delivered \o hand
                    \o (IF hand # << >> /\ Len(hand) < buffer_size_ THEN SubSeq(hand, 1, 1) ELSE << >>)
  /\ empty' = (empty \/ hand = << >>)
  /\ thread' = "checking"
  /\ UNCHANGED <<calling, clientVars, pipe, fin, accept, server, armed, failed, hand>>

HandlerReturns ==
  /\ thread = "handling"
  /\ delivered' = delivered \o hand
  /\ empty' = (empty \/ hand = << >>)
  /\ thread' = "checking"
  /\ UNCHANGED <<calling, clientVars, pipe, fin, accept, server, armed, failed, hand>>

\* Mutant of CheckTerminated: the next receive is started only when more
\* bytes are already there.
CheckTerminated_OnlyIfMore ==
  /\ thread = "checking"
  /\ thread' = IF pipe # << >> THEN "arming" ELSE "waiting"
  /\ UNCHANGED <<calling, clientVars, pipe, fin, accept, server, armed, failed, hand, handlerVars>>

\* receiveHandler and startReceive look at terminated_, a plain bool the
\* application may be writing: once it is set, they may see it or not.
CheckTerminated ==
  /\ thread = "checking"
  /\ \/ thread' = "arming"
     \/ server # "running" /\ thread' = "waiting"
  /\ UNCHANGED <<calling, clientVars, pipe, fin, accept, server, armed, failed, hand, handlerVars>>

\* async_receive: on a socket closed in the meantime it fails, and after such
\* an error no other one is started.
StartReceive ==
  /\ thread = "arming"
  /\ armed' = (server \in {"running", "flagged"} \/ accept = "late")
  /\ thread' = "waiting"
  /\ UNCHANGED <<calling, clientVars, pipe, fin, accept, server, failed, hand, handlerVars>>

\* run() returns when the io_service is stopped, or when the work guard is
\* gone and neither an accept nor a receive is outstanding.
ThreadExits ==
  /\ thread = "waiting"
  /\ server = "stopped" \/ (server # "running" /\ ~armed /\ accept # "pending")
  /\ thread' = "exited"
  /\ UNCHANGED <<calling, clientVars, pipe, fin, accept, server, armed, failed, hand, handlerVars>>

-----------------------------------------------------------------------------
(* Terminating: terminated_ makes a second call a no-op *)

\* terminated_ = true and w_guard_.reset().
CallTerminate ==
  /\ calling = "none"
  /\ \/ client = "running" /\ client' = "flagged" /\ calling' = "client" /\ UNCHANGED server
     \/ server = "running" /\ server' = "flagged" /\ calling' = "server" /\ UNCHANGED client
  /\ UNCHANGED <<sent, link, queued, content, intact, pipe, fin, accept, armed, failed, thread, hand,
                 handlerVars>>

\* io_service_.stop(): the client's io_service thread does no more.
ClientStop ==
  /\ client = "flagged"
  /\ client' = "stopped"
  /\ UNCHANGED <<calling, sent, link, queued, content, intact, pipe, fin, serverVars>>

\* socket_.close() cancels what is queued; what the kernel has is still sent,
\* and then the end of the stream.
ClientClose ==
  /\ client = "stopped"
  /\ client' = "closed"
  /\ fin' = (link = "up")
  /\ link' = "gone" /\ queued' = << >>
  /\ UNCHANGED <<calling, sent, content, intact, pipe, serverVars>>

ClientJoin ==
  /\ client = "closed"
  /\ client' = "joined" /\ calling' = "none"
  /\ UNCHANGED <<sent, link, queued, content, intact, pipe, fin, serverVars>>

\* Mutant of ServerClose: the thread is joined before the socket is closed.
ServerClose_AfterJoin ==
  /\ server = "flagged" /\ thread = "exited"
  /\ server' = "closed"
  /\ armed' = FALSE
  /\ IF accept = "done"
     THEN pipe' = << >> /\ link' = "gone" /\ queued' = << >>
     ELSE UNCHANGED <<pipe, link, queued>>
  /\ UNCHANGED <<calling, sent, client, content, intact, fin, accept, failed, thread, hand,
                 handlerVars>>

\* socket_.close() ends the connection, if there is one; the acceptor stays
\* open, and a connection that was not accepted stays in its queue.
ServerClose ==
  /\ server = "flagged"
  /\ server' = "closed"
  /\ armed' = FALSE
  /\ IF accept = "done"
     THEN pipe' = << >> /\ link' = "gone" /\ queued' = << >>
     ELSE UNCHANGED <<pipe, link, queued>>
  /\ UNCHANGED <<calling, sent, client, content, intact, fin, accept, failed, thread, hand,
                 handlerVars>>

ServerStop ==
  /\ server = "closed"
  /\ server' = "stopped"
  /\ UNCHANGED <<calling, clientVars, pipe, fin, accept, armed, failed, thread, hand, handlerVars>>

\* Mutant of ServerJoin: the thread is detached.
ServerJoin_Detaches ==
  /\ server = "stopped"
  /\ server' = "joined" /\ calling' = "none"
  /\ UNCHANGED <<clientVars, pipe, fin, accept, armed, failed, thread, hand, handlerVars>>

ServerJoin ==
  /\ server = "stopped" /\ thread = "exited"
  /\ server' = "joined" /\ calling' = "none"
  /\ UNCHANGED <<clientVars, pipe, fin, accept, armed, failed, thread, hand, handlerVars>>

\* Without a thread there is nothing at server_thread_ to call join on: the
\* process ends there.
ServerJoinCrashes ==
  /\ server = "stopped" /\ thread = "none"
  /\ server' = "crashed"
  /\ UNCHANGED <<calling, clientVars, pipe, fin, accept, armed, failed, thread, hand, handlerVars>>

-----------------------------------------------------------------------------
ServerThread ==
  OnAccept \/ ReceiveHandler \/ HandlerReturns \/ CheckTerminated \/ StartReceive \/ ThreadExits

Terminating ==
  \/ ClientStop \/ ClientClose \/ ClientJoin
  \/ ServerClose \/ ServerStop \/ ServerJoin \/ ServerJoinCrashes

Next ==
  \/ Connected \/ Send \/ SendQueued
  \/ ServerThread \/ ReceiveFails
  \/ CallTerminate \/ Terminating

Spec == Init /\ [][Next]_vars

\* The operating system runs the server's thread and a terminate that has
\* begun; the handler returns.  No receive has to fail.
FairSpec == Spec /\ WF_vars(ServerThread) /\ WF_vars(Terminating)

-----------------------------------------------------------------------------
(* Properties *)

Stream == (1 .. Sends) \X (1 .. MessageSize)

\* The type invariant.
TypeOK ==
  /\ calling \in {"none", "client", "server"}
  /\ sent \in 0 .. Sends
  /\ client \in {"running", "flagged", "stopped", "closed", "joined"}
  /\ link \in {"connecting", "up", "gone"}
  /\ queued \in Seq(1 .. Sends)
  /\ content \in [1 .. Sends -> 0 .. Sends]
  /\ pipe \in Seq(Stream) /\ Len(pipe) <= Window
  /\ {fin, armed, failed, empty, intact} \subseteq BOOLEAN
  /\ accept \in {"pending", "done", "late", "failed"}
  /\ server \in {"running", "flagged", "closed", "stopped", "joined", "crashed"}
  /\ thread \in {"none", "waiting", "handling", "checking", "arming", "exited"}
  /\ hand \in Seq(Stream) /\ Len(hand) <= buffer_size_
  /\ delivered \in Seq(Stream)

\* What receivedHandler_ was called with.
Received == [i \in DOMAIN delivered |-> <<content[delivered[i][1]], delivered[i][2]>>]

\* As long as no send had to wait and none was written in part, the handler
\* has got the beginning of the messages, byte for byte; not message for
\* message: a call may bring a part of one or parts of two.
StreamArrives ==
  intact => IsPrefix(Received, FlattenSeq([n \in 1 .. sent |-> Bytes(n)]))

Precedes(b, c) == b[1] < c[1] \/ (b[1] = c[1] /\ b[2] < c[2])

\* Whatever was written in part or from released memory, every byte the
\* handler gets stems from a send of its own, in the order of the sends; and
\* it is of that message, of no message, or of one that was sent later, which
\* then comes early and once more in its own place: nothing comes late.
OnlyLaterBytes ==
  /\ \A i, j \in DOMAIN delivered : i < j => Precedes(delivered[i], delivered[j])
  /\ \A i \in DOMAIN delivered :
       Received[i][1] # Garbage => delivered[i][1] <= Received[i][1]

\* The handler is called with an empty string only when the client is gone
\* and all it sent has been handled.
EmptyMeansGone == empty => fin /\ pipe = << >>

\* After terminate has returned the handler is not called any more, not even
\* for a connection that was accepted while terminate was running.
QuietAfterJoin == [][server = "joined" => UNCHANGED <<delivered, empty>>]_vars

\* terminate returns, even from the turns without end of a server whose client
\* has closed its end: every receive then completes at once.  There has to be
\* a thread to join; a server without one takes the process with it.
ServerTerminates == server = "flagged" /\ thread # "none" ~> server = "joined"

\* What is on the way to a server that has accepted is handled in the end,
\* unless the server is terminated first or a receive fails.
ArrivedIsHandled ==
  pipe # << >> /\ accept = "done" ~> pipe = << >> \/ server # "running" \/ failed
=============================================================================
