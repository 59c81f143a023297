-------------------------- MODULE UdpSocket_proofs ---------------------------
(***************************************************************************)
(* Proofs about the UDP sockets, for any number of messages and buffers of *)
(* any size.  There are two arguments, which do not need each other: one   *)
(* about the threads, which tells where the server's thread can be when    *)
(* terminate has come how far, and one about the data, which follows the   *)
(* messages through all the places they pass.  Together they show that     *)
(* the sockets are a MessageChannel.                                       *)
(***************************************************************************)
EXTENDS UdpSocket, SequenceLemmas

-----------------------------------------------------------------------------
(* The threads *)

\* A closed socket has no receive outstanding: a receive that is started too
\* late fails.
ClosedIsUnarmed == server \in {"closed", "stopped", "joined", "crashed"} => ~armed

ThreadInv == DeafOnlyByError /\ ClosedIsUnarmed /\ NothingOutlivesServer

LEMMA InitThreadInv == Init => ThreadInv
BY DEF Init, ClientConstructed, ServerConstructed, ThreadInv, DeafOnlyByError, ClosedIsUnarmed, NothingOutlivesServer

LEMMA NextThreadInv == ThreadInv /\ [Next]_vars => ThreadInv'
<1> SUFFICES ASSUME ThreadInv, [Next]_vars PROVE ThreadInv'
  OBVIOUS
<1> USE DEF ThreadInv, DeafOnlyByError, ClosedIsUnarmed, NothingOutlivesServer
<1>1. CASE Send \/ SendQueued \/ Transmit
  BY <1>1 DEF Send, SendQueued, Transmit, serverVars
<1>2. CASE ReceiveHandler
  BY <1>2 DEF ReceiveHandler
<1>13. CASE ReceiveFails
  BY <1>13 DEF ReceiveFails
<1>3. CASE HandlerReturns
  BY <1>3 DEF HandlerReturns
<1>4. CASE CheckTerminated
  BY <1>4 DEF CheckTerminated
<1>5. CASE StartReceive
  BY <1>5 DEF StartReceive
<1>6. CASE ThreadExits
  BY <1>6 DEF ThreadExits
<1>7. CASE CallTerminate
  BY <1>7 DEF CallTerminate
<1>8. CASE ClientStop \/ ClientClose \/ ClientJoin
  BY <1>8 DEF ClientStop, ClientClose, ClientJoin, serverVars
<1>9. CASE ServerClose
  BY <1>9 DEF ServerClose
<1>10. CASE ServerStop
  BY <1>10 DEF ServerStop
<1>11. CASE ServerJoin
  BY <1>11 DEF ServerJoin
<1>14. CASE ServerJoinCrashes
  BY <1>14 DEF ServerJoinCrashes
<1>12. CASE UNCHANGED vars
  BY <1>12 DEF vars, serverVars
<1> QED BY <1>1, <1>2, <1>3, <1>4, <1>5, <1>6, <1>7, <1>8, <1>9, <1>10, <1>11, <1>12, <1>13, <1>14
        DEF Next, ServerThread, Terminating

LEMMA ThreadInvariance == Spec => []ThreadInv
BY InitThreadInv, NextThreadInv, PTL DEF Spec

\* A server with a thread that was not terminated has a receive outstanding or
\* is about to start one, until a receive fails: no other order of what its
\* thread and the application do makes it deaf.
THEOREM ServerListens == Spec => []DeafOnlyByError
<1>1. ThreadInv => DeafOnlyByError
  BY DEF ThreadInv
<1> QED BY <1>1, ThreadInvariance, PTL

\* When terminate has returned, no receive is left that would write into the
\* buffer of an object that may be gone, and the thread has ended.
THEOREM NothingIsLeft == Spec => []NothingOutlivesServer
<1>1. ThreadInv => NothingOutlivesServer
  BY DEF ThreadInv
<1> QED BY <1>1, ThreadInvariance, PTL

\* The handler is not called any more once terminate has returned.
THEOREM HandlerIsQuiet == Spec => NoHandlerAfterTerminate
<1>1. ThreadInv /\ [Next]_vars => (server = "joined" => UNCHANGED delivered)
  <2> SUFFICES ASSUME ThreadInv, [Next]_vars, server = "joined" PROVE UNCHANGED delivered
    OBVIOUS
  <2>1. thread = "exited"
    BY DEF ThreadInv, NothingOutlivesServer
  <2>2. ~HandlerReturns
    BY <2>1 DEF HandlerReturns
  <2> QED BY <2>2 DEF Next, ServerThread, Terminating, vars, serverVars, Send, SendQueued, Transmit,
        ReceiveHandler, CheckTerminated, StartReceive, ThreadExits, CallTerminate, ClientStop,
        ClientClose, ClientJoin, ServerClose, ServerStop, ServerJoin, ServerJoinCrashes, ReceiveFails
<1> QED BY <1>1, ThreadInvariance, PTL DEF Spec, NoHandlerAfterTerminate

-----------------------------------------------------------------------------
(* The data *)

\* What is not about the numbers of messages in the type invariant.
ControlTypes ==
  /\ calling \in {"none", "client", "server"}
  /\ client \in {"running", "flagged", "stopped", "closed", "joined"}
  /\ server \in {"running", "flagged", "closed", "stopped", "joined", "crashed"}
  /\ armed \in BOOLEAN /\ failed \in BOOLEAN /\ waited \in BOOLEAN
  /\ thread \in {"none", "waiting", "handling", "checking", "arming", "exited"}

\* No datagram is anywhere before its send.
DataTypes ==
  /\ sent \in 0 .. Sends
  /\ queued \in Seq(1 .. sent)
  /\ sendbuf \in Seq(1 .. sent) /\ Len(sendbuf) <= SendBuffer
  /\ recvbuf \in Seq(1 .. sent) /\ Len(recvbuf) <= ReceiveBuffer
  /\ hand \in 0 .. sent
  /\ delivered \in Seq(1 .. sent)

\* The datagrams are in the order of the sends in every place, and each place
\* holds earlier ones than the places before it on the way.
InOrder ==
  /\ Rising(delivered) /\ Rising(recvbuf) /\ Rising(sendbuf) /\ Rising(queued)
  /\ Before(delivered, recvbuf) /\ Before(delivered, sendbuf) /\ Before(delivered, queued)
  /\ Before(recvbuf, sendbuf) /\ Before(recvbuf, queued) /\ Before(sendbuf, queued)

HandInOrder ==
  thread = "handling" =>
    /\ hand # 0
    /\ Above(hand, delivered)
    /\ Below(hand, recvbuf) /\ Below(hand, sendbuf) /\ Below(hand, queued)

\* There is never more on the way, and handled, than was sent.
InHand == IF thread = "handling" THEN 1 ELSE 0
Counted == Len(delivered) + InHand + Len(recvbuf) + Len(sendbuf) + Len(queued) <= sent

\* A datagram holds its own message, a later one or none, and as long as no send
\* had to wait, its own.
ContentInv ==
  /\ content \in [1 .. Sends -> 0 .. Sends]
  /\ \A n \in 1 .. Sends : content[n] # 0 => n <= content[n]
  /\ ~waited => queued = << >> /\ \A n \in 1 .. Sends : content[n] = n

DataInv == ControlTypes /\ DataTypes /\ InOrder /\ HandInOrder /\ Counted /\ ContentInv

\* The sets the sequences are over are sets of numbers, and so are lengths.
LEMMA DataFacts ==
  ASSUME DataTypes
  PROVE  /\ sent \in Nat /\ 1 .. sent \in SUBSET Nat
         /\ Len(queued) \in Nat /\ Len(sendbuf) \in Nat
         /\ Len(recvbuf) \in Nat /\ Len(delivered) \in Nat
<1>1. sent \in Nat
  BY SendsAssumption DEF DataTypes
<1>2. 1 .. sent \in SUBSET Nat
  BY <1>1
<1> QED BY <1>1, <1>2, LenProperties DEF DataTypes

LEMMA InitDataInv == Init => DataInv
<1> SUFFICES ASSUME Init PROVE DataInv
  OBVIOUS
<1>1. ControlTypes
  BY DEF Init, ClientConstructed, ServerConstructed, ControlTypes
<1>2. sent = 0 /\ hand = 0 /\ thread # "handling" /\ waited = FALSE
  BY DEF Init, ClientConstructed, ServerConstructed
<1>3. /\ queued = << >> /\ sendbuf = << >> /\ recvbuf = << >> /\ delivered = << >>
      /\ Len(<< >>) = 0
  BY EmptySeq DEF Init, ClientConstructed, ServerConstructed
<1>4. DataTypes
  <2>1. 0 \in 0 .. Sends /\ 0 \in 0 .. 0 /\ 0 <= SendBuffer /\ 0 <= ReceiveBuffer
    BY SendsAssumption, BufferAssumption
  <2>2. \A S : << >> \in Seq(S)
    BY EmptySeq
  <2> QED BY <1>2, <1>3, <2>1, <2>2 DEF DataTypes
<1>5. InOrder /\ ContentInv
  <2>1. content = [n \in 1 .. Sends |-> n]
    BY DEF Init, ClientConstructed
  <2>2. ContentInv
    BY <1>3, <2>1, SendsAssumption DEF ContentInv
  <2> QED BY <1>3, <2>2, EmptyRises DEF InOrder
<1>6. Counted
  BY <1>2, <1>3 DEF Counted, InHand
<1> QED BY <1>1, <1>2, <1>4, <1>5, <1>6 DEF DataInv, HandInOrder

\* Steps of the threads that move no data.
LEMMA QuietKeeps ==
  ASSUME DataInv, ControlTypes',
         UNCHANGED <<sent, queued, content, sendbuf, recvbuf, hand, delivered, waited>>,
         (thread' = "handling") = (thread = "handling")
  PROVE  DataInv'
BY DEF DataInv, DataTypes, InOrder, HandInOrder, Counted, InHand, ContentInv

\* The sequences keep their types when another message is sent.
LEMMA MoreSent ==
  ASSUME DataTypes, sent < Sends, NEW n, n = sent + 1
  PROVE  /\ n \in 0 .. Sends /\ n \in 1 .. n /\ n # 0
         /\ 1 .. n \in SUBSET Nat
         /\ queued \in Seq(1 .. n) /\ hand \in 0 .. n
         /\ sendbuf \in Seq(1 .. n) /\ recvbuf \in Seq(1 .. n) /\ delivered \in Seq(1 .. n)
         /\ Above(n, queued) /\ Above(n, sendbuf) /\ Above(n, recvbuf) /\ Above(n, delivered)
         /\ hand < n
<1>1. /\ n \in 0 .. Sends /\ n \in 1 .. n /\ n # 0
      /\ 1 .. n \in SUBSET Nat
  BY DataFacts, SendsAssumption
<1>2. 1 .. sent \subseteq 1 .. n /\ 0 .. sent \subseteq 0 .. n /\ hand \in 0 .. n /\ hand < n
  BY DataFacts DEF DataTypes
<1>3. /\ queued \in Seq(1 .. n)
      /\ sendbuf \in Seq(1 .. n) /\ recvbuf \in Seq(1 .. n) /\ delivered \in Seq(1 .. n)
  BY <1>2, SeqMonotonic DEF DataTypes
<1>4. /\ \A i \in DOMAIN queued : queued[i] \in 1 .. sent
      /\ \A i \in DOMAIN sendbuf : sendbuf[i] \in 1 .. sent
      /\ \A i \in DOMAIN recvbuf : recvbuf[i] \in 1 .. sent
      /\ \A i \in DOMAIN delivered : delivered[i] \in 1 .. sent
  BY LenProperties, ElementOfSeq DEF DataTypes
<1>5. /\ Above(n, queued) /\ Above(n, sendbuf) /\ Above(n, recvbuf) /\ Above(n, delivered)
  BY <1>4, DataFacts DEF Above
<1> QED BY <1>1, <1>2, <1>3, <1>5

\* A send puts its message behind all that were sent before.
LEMMA SendKeeps ==
  ASSUME DataInv, Send
  PROVE  DataInv'
<1> USE DEF DataInv
<1> DEFINE n == sent + 1
<1>1. /\ sent < Sends /\ sent' = n
      /\ UNCHANGED <<calling, client, content, recvbuf, server, armed, failed, thread, hand, delivered>>
  BY DEF Send, serverVars
<1>2. /\ n \in 0 .. Sends /\ n \in 1 .. n /\ n # 0
      /\ 1 .. n \in SUBSET Nat
      /\ queued \in Seq(1 .. n) /\ hand \in 0 .. n
      /\ sendbuf \in Seq(1 .. n) /\ recvbuf \in Seq(1 .. n) /\ delivered \in Seq(1 .. n)
      /\ Above(n, queued) /\ Above(n, sendbuf) /\ Above(n, recvbuf) /\ Above(n, delivered)
      /\ hand < n
  BY <1>1, MoreSent
<1>3. /\ Len(queued) \in Nat /\ Len(sendbuf) \in Nat /\ Len(recvbuf) \in Nat /\ Len(delivered) \in Nat
      /\ sent \in Nat /\ n = sent + 1 /\ InHand \in Nat /\ InHand' = InHand
  BY <1>1, DataFacts DEF InHand
<1> HIDE DEF n
<1>4. CASE UNCHANGED <<queued, sendbuf, waited>>
  <2>1. DataTypes' /\ Counted'
    BY <1>1, <1>2, <1>3, <1>4 DEF DataTypes, Counted
  <2> QED BY <1>1, <1>4, <2>1 DEF ControlTypes, InOrder, HandInOrder, ContentInv
<1>5. CASE /\ queued = << >> /\ Len(sendbuf) < SendBuffer
           /\ sendbuf' = Append(sendbuf, n) /\ UNCHANGED <<queued, waited>>
  <2>1. /\ sendbuf' \in Seq(1 .. n) /\ Len(sendbuf') = Len(sendbuf) + 1
        /\ Rising(sendbuf') /\ Before(recvbuf, sendbuf') /\ Before(delivered, sendbuf')
        /\ Below(hand, sendbuf) => Below(hand, sendbuf')
    BY <1>2, <1>5, AppendRises DEF InOrder
  <2>2. Before(sendbuf', queued')
    BY <1>5, EmptyRises
  <2>3. Len(sendbuf') <= SendBuffer /\ Counted'
    BY <1>1, <1>3, <1>5, <2>1, BufferAssumption DEF Counted
  <2>4. DataTypes'
    BY <1>1, <1>2, <1>5, <2>1, <2>3 DEF DataTypes
  <2>5. InOrder' /\ HandInOrder'
    BY <1>1, <1>5, <2>1, <2>2 DEF InOrder, HandInOrder
  <2> QED BY <1>1, <1>5, <2>1, <2>3, <2>4, <2>5 DEF ControlTypes, ContentInv
<1>6. CASE queued' = Append(queued, n) /\ waited' = TRUE /\ UNCHANGED sendbuf
  <2>1. /\ queued' \in Seq(1 .. n) /\ Len(queued') = Len(queued) + 1
        /\ Rising(queued')
        /\ Before(delivered, queued') /\ Before(recvbuf, queued') /\ Before(sendbuf, queued')
        /\ Below(hand, queued) => Below(hand, queued')
    BY <1>2, <1>6, AppendRises DEF InOrder
  <2>2. Counted'
    BY <1>1, <1>3, <1>6, <2>1 DEF Counted
  <2>3. DataTypes'
    BY <1>1, <1>2, <1>6, <2>1 DEF DataTypes
  <2>4. InOrder' /\ HandInOrder'
    BY <1>1, <1>6, <2>1 DEF InOrder, HandInOrder
  <2> QED BY <1>1, <1>6, <2>2, <2>3, <2>4 DEF ControlTypes, ContentInv
<1> QED BY <1>4, <1>5, <1>6 DEF Send, n

\* What waited goes out in its place, with what its memory holds by then.
LEMMA SendQueuedKeeps ==
  ASSUME DataInv, SendQueued
  PROVE  DataInv'
<1> USE DEF DataInv
<1> DEFINE e == Head(queued)
<1>1. PICK m \in Leftovers(e) : content' = [content EXCEPT ![e] = m]
  BY DEF SendQueued
<1>2. /\ queued # << >> /\ Len(sendbuf) < SendBuffer
      /\ queued' = Tail(queued) /\ sendbuf' = Append(sendbuf, e)
      /\ UNCHANGED <<calling, sent, client, recvbuf, server, armed, failed, thread, hand, delivered, waited>>
  BY DEF SendQueued, serverVars
<1>3. /\ queued \in Seq(1 .. sent) /\ 1 .. sent \in SUBSET Nat
      /\ sendbuf \in Seq(1 .. sent)
  BY DataFacts DEF DataTypes
<1>4. /\ e \in 1 .. sent /\ queued' \in Seq(1 .. sent) /\ Len(queued') = Len(queued) - 1
      /\ Rising(queued') /\ Below(e, queued')
      /\ Before(delivered, queued') /\ Before(recvbuf, queued') /\ Before(sendbuf, queued')
      /\ Above(e, delivered) /\ Above(e, recvbuf) /\ Above(e, sendbuf)
      /\ Below(hand, queued) => Below(hand, queued') /\ (e # 0 /\ hand # 0 => hand < e)
  <2>1. 1 \in DOMAIN queued /\ e = queued[1]
    BY <1>2, <1>3, LenProperties, EmptySeq, HeadTailProperties
  <2>2. Below(hand, queued) => (e # 0 /\ hand # 0 => hand < e)
    BY <2>1 DEF Below
  <2> QED BY <1>2, <1>3, <2>2, TailRises DEF InOrder
<1> HIDE DEF e
<1>6. /\ sendbuf' \in Seq(1 .. sent) /\ Len(sendbuf') = Len(sendbuf) + 1
      /\ Rising(sendbuf') /\ Before(recvbuf, sendbuf') /\ Before(delivered, sendbuf')
      /\ Before(sendbuf', queued')
      /\ Below(hand, sendbuf) /\ (e # 0 /\ hand # 0 => hand < e) => Below(hand, sendbuf')
  BY <1>2, <1>3, <1>4, AppendRises DEF InOrder
<1>7. Len(sendbuf') <= SendBuffer /\ Counted'
  <2>1. InHand' = InHand /\ InHand \in Nat
    BY <1>2 DEF InHand
  <2> QED BY <1>2, <1>4, <1>6, <2>1, DataFacts, BufferAssumption DEF Counted
<1>8. DataTypes'
  BY <1>2, <1>4, <1>6, <1>7 DEF DataTypes
<1>9. InOrder' /\ HandInOrder'
  BY <1>2, <1>4, <1>6 DEF InOrder, HandInOrder
<1>10. ContentInv'
  <2>1. waited' # FALSE
    BY <1>2 DEF ContentInv, ControlTypes
  <2>2. m \in 0 .. Sends /\ (m # 0 => e <= m)
    BY <1>4, SendsAssumption DEF Leftovers, Garbage, DataTypes
  <2>3. content' \in [1 .. Sends -> 0 .. Sends] /\ \A n \in 1 .. Sends : content'[n] = IF n = e THEN m ELSE content[n]
    BY <1>1, <2>2 DEF ContentInv
  <2>4. \A n \in 1 .. Sends : content'[n] # 0 => n <= content'[n]
    BY <2>2, <2>3 DEF ContentInv
  <2> QED BY <1>2, <2>1, <2>3, <2>4 DEF ContentInv, ControlTypes
<1> QED BY <1>2, <1>7, <1>8, <1>9, <1>10 DEF ControlTypes

\* The network moves the oldest datagram on or loses it.
LEMMA TransmitKeeps ==
  ASSUME DataInv, Transmit
  PROVE  DataInv'
<1> USE DEF DataInv
<1> DEFINE e == Head(sendbuf)
<1>1. /\ sendbuf # << >> /\ sendbuf' = Tail(sendbuf)
      /\ UNCHANGED <<calling, sent, client, queued, content, server, armed, failed, thread, hand, delivered, waited>>
  BY DEF Transmit, serverVars
<1>2. /\ sendbuf \in Seq(1 .. sent) /\ recvbuf \in Seq(1 .. sent) /\ 1 .. sent \in SUBSET Nat
  BY DataFacts DEF DataTypes
<1>3. /\ e \in 1 .. sent /\ sendbuf' \in Seq(1 .. sent) /\ Len(sendbuf') = Len(sendbuf) - 1
      /\ Rising(sendbuf') /\ Below(e, sendbuf') /\ Below(e, queued)
      /\ Before(sendbuf', queued) /\ Before(recvbuf, sendbuf') /\ Before(delivered, sendbuf')
      /\ Above(e, delivered) /\ Above(e, recvbuf)
      /\ Below(hand, sendbuf) => Below(hand, sendbuf') /\ (e # 0 /\ hand # 0 => hand < e)
  <2>1. 1 \in DOMAIN sendbuf /\ e = sendbuf[1]
    BY <1>1, <1>2, LenProperties, EmptySeq, HeadTailProperties
  <2>2. Below(hand, sendbuf) => (e # 0 /\ hand # 0 => hand < e)
    BY <2>1 DEF Below
  <2> QED BY <1>1, <1>2, <2>2, TailRises DEF InOrder
<1> HIDE DEF e
<1>4. InHand' = InHand /\ InHand \in Nat
  BY <1>1 DEF InHand
<1>5. CASE UNCHANGED recvbuf
  <2>1. Len(sendbuf') <= SendBuffer /\ Counted'
    BY <1>1, <1>3, <1>4, <1>5, DataFacts, BufferAssumption DEF Counted, DataTypes
  <2>2. DataTypes'
    BY <1>1, <1>3, <1>5, <2>1 DEF DataTypes
  <2>3. InOrder' /\ HandInOrder' /\ ContentInv'
    BY <1>1, <1>3, <1>5 DEF InOrder, HandInOrder, ContentInv
  <2> QED BY <1>1, <2>1, <2>2, <2>3 DEF ControlTypes
<1>6. CASE Len(recvbuf) < ReceiveBuffer /\ recvbuf' = Append(recvbuf, e)
  <2>1. /\ recvbuf' \in Seq(1 .. sent) /\ Len(recvbuf') = Len(recvbuf) + 1
        /\ Rising(recvbuf') /\ Before(delivered, recvbuf')
        /\ Before(recvbuf', sendbuf') /\ Before(recvbuf', queued)
        /\ Below(hand, recvbuf) /\ (e # 0 /\ hand # 0 => hand < e) => Below(hand, recvbuf')
    BY <1>2, <1>3, <1>6, AppendRises DEF InOrder
  <2>2. Len(sendbuf') <= SendBuffer /\ Len(recvbuf') <= ReceiveBuffer /\ Counted'
    BY <1>1, <1>3, <1>4, <1>6, <2>1, DataFacts, BufferAssumption DEF Counted, DataTypes
  <2>3. DataTypes'
    BY <1>1, <1>3, <2>1, <2>2 DEF DataTypes
  <2>4. InOrder' /\ HandInOrder' /\ ContentInv'
    BY <1>1, <1>3, <2>1 DEF InOrder, HandInOrder, ContentInv
  <2> QED BY <1>1, <2>2, <2>3, <2>4 DEF ControlTypes
<1> QED BY <1>5, <1>6 DEF Transmit, e

\* The server's thread takes the oldest datagram in hand.
LEMMA ReceiveHandlerKeeps ==
  ASSUME DataInv, ReceiveHandler
  PROVE  DataInv'
<1> USE DEF DataInv
<1>1. /\ recvbuf # << >> /\ recvbuf' = Tail(recvbuf) /\ hand' = Head(recvbuf)
      /\ thread = "waiting" /\ thread' = "handling" /\ armed' = FALSE
      /\ UNCHANGED <<calling, sent, client, queued, content, sendbuf, server, failed, delivered, waited>>
  BY DEF ReceiveHandler, clientVars
<1>2. recvbuf \in Seq(1 .. sent) /\ 1 .. sent \in SUBSET Nat
  BY DataFacts DEF DataTypes
<1>3. /\ hand' \in 1 .. sent /\ recvbuf' \in Seq(1 .. sent) /\ Len(recvbuf') = Len(recvbuf) - 1
      /\ Rising(recvbuf') /\ Before(delivered, recvbuf')
      /\ Before(recvbuf', sendbuf) /\ Before(recvbuf', queued)
      /\ Above(hand', delivered) /\ Below(hand', recvbuf')
      /\ Below(hand', sendbuf) /\ Below(hand', queued)
  BY <1>1, <1>2, TailRises DEF InOrder
<1>4. Len(recvbuf') <= ReceiveBuffer /\ Counted'
  <2>1. InHand = 0 /\ InHand' = 1
    BY <1>1 DEF InHand
  <2> QED BY <1>1, <1>3, <2>1, DataFacts, BufferAssumption DEF Counted, DataTypes
<1>5. DataTypes'
  BY <1>1, <1>3, <1>4 DEF DataTypes
<1>6. InOrder' /\ HandInOrder' /\ ContentInv'
  BY <1>1, <1>3 DEF InOrder, HandInOrder, ContentInv
<1> QED BY <1>1, <1>4, <1>5, <1>6 DEF ControlTypes

\* What was in hand is handled.
LEMMA HandlerReturnsKeeps ==
  ASSUME DataInv, HandlerReturns
  PROVE  DataInv'
<1> USE DEF DataInv
<1>1. /\ thread = "handling" /\ thread' = "checking" /\ delivered' = Append(delivered, hand)
      /\ UNCHANGED <<calling, sent, client, queued, content, sendbuf, recvbuf, server, armed, failed, hand, waited>>
  BY DEF HandlerReturns, clientVars
<1>2. delivered \in Seq(1 .. sent) /\ 1 .. sent \in SUBSET Nat /\ hand \in 1 .. sent
  BY <1>1, DataFacts DEF DataTypes, HandInOrder
<1>3. Above(hand, delivered) /\ Below(hand, recvbuf) /\ Below(hand, sendbuf) /\ Below(hand, queued)
  BY <1>1 DEF HandInOrder
<1>4. /\ delivered' \in Seq(1 .. sent) /\ Len(delivered') = Len(delivered) + 1
      /\ Rising(delivered')
      /\ Before(delivered', recvbuf) /\ Before(delivered', sendbuf) /\ Before(delivered', queued)
  BY <1>1, <1>2, <1>3, AppendRises DEF InOrder
<1>5. Counted'
  <2>1. InHand = 1 /\ InHand' = 0
    BY <1>1 DEF InHand
  <2> QED BY <1>1, <1>4, <2>1, DataFacts DEF Counted
<1>6. DataTypes'
  BY <1>1, <1>4 DEF DataTypes
<1>7. InOrder' /\ HandInOrder' /\ ContentInv'
  BY <1>1, <1>4 DEF InOrder, HandInOrder, ContentInv
<1> QED BY <1>1, <1>5, <1>6, <1>7 DEF ControlTypes

\* Closing a socket drops what waits at it.
LEMMA CloseKeeps ==
  ASSUME DataInv, ClientClose \/ ServerClose
  PROVE  DataInv'
<1> USE DEF DataInv
<1>1. UNCHANGED <<calling, sent, content, sendbuf, failed, thread, hand, delivered, waited>>
  BY DEF ClientClose, ServerClose, clientVars, serverVars
<1>2. /\ client' \in {"running", "flagged", "stopped", "closed", "joined"}
      /\ server' \in {"running", "flagged", "closed", "stopped", "joined", "crashed"}
      /\ armed' \in BOOLEAN
  BY DEF ClientClose, ServerClose, clientVars, serverVars, ControlTypes
<1>3. queued' \in {queued, << >>} /\ recvbuf' \in {recvbuf, << >>}
  BY DEF ClientClose, ServerClose, clientVars, serverVars
<1>4. Len(<< >>) = 0 /\ \A S : << >> \in Seq(S)
  BY EmptySeq
<1>5. /\ queued' \in Seq(1 .. sent) /\ Len(queued') <= Len(queued) /\ Len(queued') \in Nat
      /\ recvbuf' \in Seq(1 .. sent) /\ Len(recvbuf') <= Len(recvbuf) /\ Len(recvbuf') \in Nat
  <2>1. queued' \in Seq(1 .. sent) /\ Len(queued') <= Len(queued) /\ Len(queued') \in Nat
    <3>1. CASE queued' = queued
      BY <3>1, DataFacts DEF DataTypes
    <3>2. CASE queued' = << >>
      BY <1>4, <3>2, DataFacts
    <3> QED BY <1>3, <3>1, <3>2
  <2>2. recvbuf' \in Seq(1 .. sent) /\ Len(recvbuf') <= Len(recvbuf) /\ Len(recvbuf') \in Nat
    <3>1. CASE recvbuf' = recvbuf
      BY <3>1, DataFacts DEF DataTypes
    <3>2. CASE recvbuf' = << >>
      BY <1>4, <3>2, DataFacts
    <3> QED BY <1>3, <3>1, <3>2
  <2> QED BY <2>1, <2>2
<1>6. InHand' = InHand /\ InHand \in Nat
  BY <1>1 DEF InHand
<1>7. Len(recvbuf') <= ReceiveBuffer /\ Counted'
  BY <1>1, <1>5, <1>6, DataFacts, BufferAssumption DEF Counted, DataTypes
<1>8. DataTypes'
  BY <1>1, <1>5, <1>7 DEF DataTypes
<1>9. InOrder' /\ HandInOrder' /\ ContentInv'
  <2>1. /\ Rising(queued') /\ Rising(recvbuf')
        /\ Before(delivered, queued') /\ Before(sendbuf, queued') /\ Before(recvbuf', queued')
        /\ Before(delivered, recvbuf') /\ Before(recvbuf', sendbuf)
        /\ Below(hand, queued) => Below(hand, queued')
        /\ Below(hand, recvbuf) => Below(hand, recvbuf')
    BY <1>3, EmptyRises DEF InOrder
  <2> QED BY <1>1, <1>3, <2>1 DEF InOrder, HandInOrder, ContentInv
<1> QED BY <1>1, <1>2, <1>7, <1>8, <1>9 DEF ControlTypes

LEMMA NextDataInv == DataInv /\ [Next]_vars => DataInv'
<1> SUFFICES ASSUME DataInv, [Next]_vars PROVE DataInv'
  OBVIOUS
<1>1. CASE Send
  BY <1>1, SendKeeps
<1>2. CASE SendQueued
  BY <1>2, SendQueuedKeeps
<1>3. CASE Transmit
  BY <1>3, TransmitKeeps
<1>4. CASE ReceiveHandler
  BY <1>4, ReceiveHandlerKeeps
<1>5. CASE HandlerReturns
  BY <1>5, HandlerReturnsKeeps
<1>6. CASE ClientClose \/ ServerClose
  BY <1>6, CloseKeeps
<1>7. CASE CheckTerminated \/ StartReceive \/ ThreadExits
  <2>1. /\ UNCHANGED <<calling, sent, client, queued, content, sendbuf, recvbuf, server, failed, hand, delivered, waited>>
        /\ thread # "handling" /\ thread' \in {"waiting", "arming", "exited"}
    BY <1>7 DEF CheckTerminated, StartReceive, ThreadExits, clientVars
  <2>2. armed' \in BOOLEAN
    <3>1. CASE StartReceive
      <4>1. armed' = (server \in {"running", "flagged"})
        BY <3>1, Zenon DEF StartReceive
      <4>2. armed' = TRUE \/ armed' = FALSE
        <5>1. CASE server \in {"running", "flagged"}
          BY <4>1, <5>1, Zenon
        <5>2. CASE ~(server \in {"running", "flagged"})
          BY <4>1, <5>2
        <5> QED BY <5>1, <5>2
      <4> QED BY <4>2
    <3>2. CASE CheckTerminated \/ ThreadExits
      BY <3>2 DEF CheckTerminated, ThreadExits, DataInv, ControlTypes
    <3> QED BY <1>7, <3>1, <3>2
  <2>3. ControlTypes'
    BY <2>1, <2>2 DEF DataInv, ControlTypes
  <2> QED BY <2>1, <2>3, QuietKeeps
<1>8. CASE \/ CallTerminate \/ ClientStop \/ ClientJoin \/ ServerStop \/ ServerJoin
           \/ ServerJoinCrashes \/ ReceiveFails \/ UNCHANGED vars
  <2>1. ControlTypes' /\ UNCHANGED <<sent, queued, content, sendbuf, recvbuf, hand, delivered, waited, thread>>
    BY <1>8 DEF CallTerminate, ClientStop, ClientJoin, ServerStop, ServerJoin, ServerJoinCrashes,
                ReceiveFails, vars,
                DataInv, ControlTypes, clientVars, serverVars
  <2> QED BY <2>1, QuietKeeps
<1> QED BY <1>1, <1>2, <1>3, <1>4, <1>5, <1>6, <1>7, <1>8 DEF Next, ServerThread, Terminating

LEMMA DataInvariance == Spec => []DataInv
BY InitDataInv, NextDataInv, PTL DEF Spec

\* The type invariant, for any number of messages and buffers of any size.
THEOREM TypeCorrect == Spec => []TypeOK
<1>1. DataInv => TypeOK
  <2> SUFFICES ASSUME DataInv PROVE TypeOK
    OBVIOUS
  <2>1. sent <= Sends /\ 1 .. sent \subseteq 1 .. Sends /\ 0 .. sent \subseteq 0 .. Sends
    BY SendsAssumption, DataFacts DEF DataInv, DataTypes
  <2>2. /\ queued \in Seq(1 .. Sends) /\ sendbuf \in Seq(1 .. Sends)
        /\ recvbuf \in Seq(1 .. Sends) /\ delivered \in Seq(1 .. Sends)
    BY <2>1, SeqMonotonic DEF DataInv, DataTypes
  <2>3. hand \in 0 .. Sends
    BY <2>1 DEF DataInv, DataTypes
  <2>4. {armed, failed, waited} \subseteq BOOLEAN
    BY Zenon DEF DataInv, ControlTypes
  <2>5. content \in [1 .. Sends -> 0 .. Sends]
    BY DEF DataInv, ContentInv
  <2> QED BY <2>2, <2>3, <2>4, <2>5 DEF DataInv, ControlTypes, DataTypes, TypeOK
<1> QED BY <1>1, DataInvariance, PTL

\* Each call of the handler stems from a send of its own, later ones from later
\* sends.
LEMMA DeliveredFacts ==
  ASSUME DataInv
  PROVE  /\ \A i \in DOMAIN delivered : delivered[i] \in 1 .. sent
         /\ \A i, j \in DOMAIN delivered : i < j => delivered[i] < delivered[j]
         /\ Len(delivered) \in Nat /\ DOMAIN delivered = 1 .. Len(delivered)
         /\ sent \in Nat /\ 1 .. sent \subseteq 1 .. Sends
<1>1. delivered \in Seq(1 .. sent) /\ sent \in Nat /\ sent <= Sends
  BY DataFacts, SendsAssumption DEF DataInv, DataTypes
<1>2. /\ Len(delivered) \in Nat /\ DOMAIN delivered = 1 .. Len(delivered)
      /\ \A i \in DOMAIN delivered : delivered[i] \in 1 .. sent
  BY <1>1, LenProperties, ElementOfSeq
<1>3. \A i \in DOMAIN delivered : delivered[i] # 0
  BY <1>1, <1>2
<1>4. \A i, j \in DOMAIN delivered : i < j => delivered[i] < delivered[j]
  BY <1>3 DEF DataInv, InOrder, Rising
<1> QED BY <1>1, <1>2, <1>4, SendsAssumption

\* While no send has had to wait, what the handler gets is what was sent, in
\* the order of the sends, nothing twice.
THEOREM Delivery == Spec => []DeliveredAsSent
<1>1. DataInv => DeliveredAsSent
  <2> SUFFICES ASSUME DataInv, ~waited
               PROVE  /\ \A i \in DOMAIN Received : Received[i] \in 1 .. sent
                      /\ \A i, j \in DOMAIN Received : i < j => Received[i] < Received[j]
    BY DEF DeliveredAsSent
  <2>1. \A i \in DOMAIN delivered : Received[i] = delivered[i]
    BY DeliveredFacts DEF DataInv, ContentInv, Received
  <2>2. DOMAIN Received = DOMAIN delivered
    BY DEF Received
  <2> QED BY <2>1, <2>2, DeliveredFacts
<1> QED BY <1>1, DataInvariance, PTL

\* A send that had to wait may bring a later message than its own, or none, but
\* never an earlier one, so that nothing the handler gets comes late.
THEOREM NothingLate == Spec => []OnlyLaterMessages
<1>1. DataInv => OnlyLaterMessages
  <2> SUFFICES ASSUME DataInv, NEW k \in DOMAIN delivered, Received[k] # Garbage
               PROVE  k <= delivered[k] /\ delivered[k] <= Received[k]
    BY DEF OnlyLaterMessages
  <2>1. \A i \in DOMAIN delivered : delivered[i] \in Nat /\ 0 < delivered[i]
    BY DeliveredFacts
  <2>2. 0 + k <= delivered[k]
    BY <2>1, DeliveredFacts, KthIsAbove
  <2>3. delivered[k] \in 1 .. Sends /\ Received[k] = content[delivered[k]]
    BY DeliveredFacts DEF Received
  <2>4. delivered[k] <= Received[k]
    BY <2>3 DEF DataInv, ContentInv, Garbage
  <2> QED BY <2>2, <2>3, <2>4, DeliveredFacts
<1> QED BY <1>1, DataInvariance, PTL

-----------------------------------------------------------------------------
(* The sockets are a channel *)

\* What the handler is called for was sent, after all it was called for before,
\* and that is less than was sent: the datagram in hand was not counted yet.
LEMMA RefinesTake ==
  ASSUME DataInv, ThreadInv, HandlerReturns
  PROVE  Channel!Take
<1>1. /\ thread = "handling" /\ delivered' = Append(delivered, hand)
      /\ sent' = sent /\ server' = server
  BY DEF HandlerReturns, clientVars
<1>2. hand \in 0 .. sent /\ hand # 0 /\ Above(hand, delivered) /\ sent \in Nat
  BY <1>1, DataFacts DEF DataInv, DataTypes, HandInOrder
<1>3. Len(delivered) < sent - 0
  BY <1>1, DataFacts DEF DataInv, Counted, InHand
<1>4. server # "joined"
  BY <1>1 DEF ThreadInv, NothingOutlivesServer
<1>5. hand \in 0 + 1 .. sent
  BY <1>2
<1>6. \A i \in DOMAIN delivered : delivered[i] < hand
  BY <1>2, DeliveredFacts DEF Above
<1> QED BY <1>1, <1>3, <1>4, <1>5, <1>6 DEF Channel!Take

\* Every step of the three threads and the kernel is one of the channel, or none.
LEMMA RefinesStep == DataInv /\ ThreadInv /\ [Next]_vars => [Channel!Next]_(Channel!vars)
<1> SUFFICES ASSUME DataInv, ThreadInv, [Next]_vars PROVE Channel!Next \/ UNCHANGED Channel!vars
  OBVIOUS
<1>1. CASE Send
  <2>1. sent' = sent + 1 /\ server' = server /\ delivered' = delivered
    BY <1>1 DEF Send, serverVars
  <2>2. Channel!Post
    BY <2>1 DEF Channel!Post
  <2> QED BY <2>2 DEF Channel!Next
<1>2. CASE HandlerReturns
  BY <1>2, RefinesTake DEF Channel!Next
<1>3. CASE ServerJoin
  <2>1. /\ server = "stopped" /\ server' = "joined"
        /\ sent' = sent /\ delivered' = delivered
    BY <1>3 DEF ServerJoin, clientVars
  <2>2. Channel!Close
    BY <2>1 DEF Channel!Close
  <2> QED BY <2>2 DEF Channel!Next
<1>4. CASE \/ SendQueued \/ Transmit \/ ReceiveHandler \/ ReceiveFails \/ CheckTerminated
           \/ StartReceive \/ ThreadExits \/ ClientStop \/ ClientClose \/ ClientJoin \/ UNCHANGED vars
  <2>1. UNCHANGED <<sent, server, delivered>>
    BY <1>4 DEF SendQueued, Transmit, ReceiveHandler, ReceiveFails, CheckTerminated, StartReceive,
                ThreadExits, ClientStop, ClientClose, ClientJoin, vars, clientVars, serverVars
  <2> QED BY <2>1 DEF Channel!vars
<1>5. CASE CallTerminate
  <2>1. UNCHANGED <<sent, delivered>>
    BY <1>5 DEF CallTerminate
  <2>2. server' = server \/ (server = "running" /\ server' = "flagged")
    BY <1>5 DEF CallTerminate
  <2> QED BY <2>1, <2>2 DEF Channel!vars
<1>6. CASE ServerClose \/ ServerStop \/ ServerJoinCrashes
  <2>1. /\ UNCHANGED <<sent, delivered>>
        /\ server # "joined" /\ server' # "joined"
    BY <1>6 DEF ServerClose, ServerStop, ServerJoinCrashes, clientVars
  <2> QED BY <2>1 DEF Channel!vars
<1> QED BY <1>1, <1>2, <1>3, <1>4, <1>5, <1>6 DEF Next, ServerThread, Terminating

\* The sockets are a channel: whatever the network, the buffers and a failed
\* receive lose, and whenever the terminates come, every call of the handler
\* stems from a send of its own, in the order of the sends, and none comes
\* after the server is gone.
THEOREM Refinement == Spec => ImplementsChannel
<1>1. Init => Channel!Init
  BY DEF Init, ClientConstructed, ServerConstructed, Channel!Init
<1> QED BY <1>1, RefinesStep, DataInvariance, ThreadInvariance, PTL
        DEF Spec, ImplementsChannel, Channel!Spec
=============================================================================
