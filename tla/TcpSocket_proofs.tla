--------------------------- MODULE TcpSocket_proofs ---------------------------
(***************************************************************************)
(* Proofs about the TCP sockets, for any number of messages of any length, *)
(* any room in the kernels and any size of a receive.  The types come      *)
(* first; then the end of the stream and of the server; then the order,    *)
(* which follows the bytes from the send through the pipe and the hand of  *)
(* the handler to what it was called with, and the messages they are of;   *)
(* last that none is missing among them while nothing was written in part  *)
(* or from released memory.                                                *)
(***************************************************************************)
EXTENDS TcpSocket, SequenceLemmas

-----------------------------------------------------------------------------
(* Bytes and their places *)

\* What is written of a message is the beginning of its bytes, as much of it
\* as there is room for.
LEMMA WrittenFacts ==
  ASSUME TypeOK, NEW m \in 1 .. Sends
  PROVE  /\ Written(m) \in Seq(Stream)
         /\ Len(Written(m)) \in Nat /\ Len(Written(m)) <= Window - Len(pipe)
         /\ \A i \in 1 .. Len(Written(m)) : Written(m)[i] = <<m, i>>
<1> DEFINE b == Bytes(m)
<1>1. Len(pipe) \in Nat /\ Room \in Nat
  BY LenProperties, SizeAssumption DEF TypeOK, Room
<1>2. /\ b \in Seq(Stream) /\ Len(b) = MessageSize
      /\ \A i \in 1 .. MessageSize : b[i] = <<m, i>>
  BY SizeAssumption, SendsAssumption DEF Bytes, Stream
<1> HIDE DEF b
<1>3. CASE Room < MessageSize
  <2> DEFINE w == SubSeq(b, 1, Room)
  <2>1. Written(m) = w
    BY <1>3 DEF Written, b
  <2>2. \A i \in 1 .. Room : b[i] \in Stream
    BY <1>1, <1>2, <1>3, SizeAssumption, ElementOfSeq
  <2>3. /\ w \in Seq(Stream)
        /\ Len(w) = IF 1 <= Room THEN Room - 1 + 1 ELSE 0
        /\ \A i \in 1 .. Room - 1 + 1 : w[i] = b[1 + i - 1]
    <3>1. 1 \in Int /\ Room \in Int
      BY <1>1
    <3> QED BY <2>2, <3>1, SubSeqProperties
  <2> HIDE DEF w
  <2>4. Len(w) = Room
    BY <1>1, <2>3
  <2>5. \A i \in 1 .. Room : w[i] = <<m, i>>
    BY <1>1, <1>2, <1>3, <2>3, SizeAssumption
  <2> QED BY <1>1, <2>1, <2>3, <2>4, <2>5 DEF Room
<1>4. CASE ~(Room < MessageSize)
  <2>1. Written(m) = b
    BY <1>4 DEF Written, b
  <2> QED BY <1>1, <1>2, <1>4, <2>1, SizeAssumption DEF Room
<1> QED BY <1>3, <1>4

\* Two sequences, one behind the other.
LEMMA ConcatFacts ==
  ASSUME NEW S, NEW s \in Seq(S), NEW t \in Seq(S)
  PROVE  /\ s \o t \in Seq(S) /\ Len(s) \in Nat /\ Len(t) \in Nat
         /\ Len(s \o t) = Len(s) + Len(t)
         /\ DOMAIN s = 1 .. Len(s) /\ DOMAIN t = 1 .. Len(t)
         /\ DOMAIN (s \o t) = 1 .. Len(s) + Len(t)
         /\ \A i \in DOMAIN (s \o t) :
              \/ i \in DOMAIN s /\ (s \o t)[i] = s[i]
              \/ i - Len(s) \in DOMAIN t /\ i > Len(s) /\ (s \o t)[i] = t[i - Len(s)]
<1> DEFINE u == s \o t
<1>1. Len(s) \in Nat /\ Len(t) \in Nat /\ DOMAIN s = 1 .. Len(s) /\ DOMAIN t = 1 .. Len(t)
  BY LenProperties
<1>2. /\ u \in Seq(S) /\ Len(u) = Len(s) + Len(t)
      /\ \A i \in 1 .. Len(s) + Len(t) : u[i] = IF i <= Len(s) THEN s[i] ELSE t[i - Len(s)]
  BY ConcatProperties
<1>3. DOMAIN u = 1 .. Len(s) + Len(t)
  BY <1>2, LenProperties
<1> HIDE DEF u
<1> QED BY <1>1, <1>2, <1>3 DEF u

\* A receive cuts the stream in two.
LEMMA CutFacts ==
  ASSUME NEW S, NEW s \in Seq(S), NEW n \in 1 .. Len(s)
  PROVE  LET p == SubSeq(s, 1, n)
             r == SubSeq(s, n + 1, Len(s))
         IN  /\ p \in Seq(S) /\ r \in Seq(S) /\ Len(s) \in Nat
             /\ Len(p) = n /\ Len(r) = Len(s) - n
             /\ DOMAIN p = 1 .. n /\ DOMAIN r = 1 .. Len(s) - n /\ DOMAIN s = 1 .. Len(s)
             /\ \A i \in DOMAIN p : p[i] = s[i]
             /\ \A i \in DOMAIN r : r[i] = s[i + n]
<1> DEFINE p == SubSeq(s, 1, n)
           r == SubSeq(s, n + 1, Len(s))
<1>1. Len(s) \in Nat /\ DOMAIN s = 1 .. Len(s) /\ n \in Nat /\ 1 <= n /\ n <= Len(s)
  BY LenProperties
<1>2. (\A i \in 1 .. n : s[i] \in S) /\ (\A i \in n + 1 .. Len(s) : s[i] \in S)
  BY <1>1, ElementOfSeq
<1>3. /\ p \in Seq(S) /\ Len(p) = IF 1 <= n THEN n - 1 + 1 ELSE 0
      /\ \A i \in 1 .. n - 1 + 1 : p[i] = s[1 + i - 1]
  <2>1. 1 \in Int /\ n \in Int
    BY <1>1
  <2> QED BY <1>2, <2>1, SubSeqProperties
<1>4. /\ r \in Seq(S) /\ Len(r) = IF n + 1 <= Len(s) THEN Len(s) - (n + 1) + 1 ELSE 0
      /\ \A i \in 1 .. Len(s) - (n + 1) + 1 : r[i] = s[n + 1 + i - 1]
  <2>1. n + 1 \in Int /\ Len(s) \in Int
    BY <1>1
  <2> QED BY <1>2, <2>1, SubSeqProperties
<1> HIDE DEF p, r
<1>5. Len(p) = n /\ Len(r) = Len(s) - n
  <2> DEFINE l == Len(s)
  <2>1. Len(p) = n - 1 + 1
    BY <1>1, <1>3
  <2>2. l \in Nat /\ n \in Nat /\ n <= l /\ Len(r) = IF n + 1 <= l THEN l - (n + 1) + 1 ELSE 0
    BY <1>1, <1>4
  <2> HIDE DEF l
  <2>3. Len(r) = l - n
    BY <2>2
  <2> QED BY <1>1, <2>1, <2>3 DEF l
<1>6. DOMAIN p = 1 .. n /\ DOMAIN r = 1 .. Len(s) - n
  BY <1>3, <1>4, <1>5, LenProperties
<1>7. \A i \in DOMAIN p : p[i] = s[i]
  BY <1>1, <1>3, <1>6
<1>8. \A i \in DOMAIN r : r[i] = s[i + n]
  <2> SUFFICES ASSUME NEW i \in DOMAIN r PROVE r[i] = s[i + n]
    OBVIOUS
  <2>1. i \in 1 .. Len(s) - (n + 1) + 1 /\ n + 1 + i - 1 = i + n
    BY <1>1, <1>6
  <2> QED BY <1>4, <2>1
<1> QED BY <1>1, <1>3, <1>4, <1>5, <1>6, <1>7, <1>8 DEF p, r

-----------------------------------------------------------------------------
(* The types *)

\* The kernels take what is written, and no more than they have room for.
LEMMA PipeFacts ==
  ASSUME TypeOK, NEW m \in 1 .. Sends
  PROVE  pipe \o Written(m) \in Seq(Stream) /\ Len(pipe \o Written(m)) <= Window
<1>1. pipe \in Seq(Stream) /\ Written(m) \in Seq(Stream)
  BY WrittenFacts DEF TypeOK
<1>2. Len(Written(m)) \in Nat /\ Len(Written(m)) <= Window - Len(pipe)
  BY WrittenFacts
<1>3. pipe \o Written(m) \in Seq(Stream) /\ Len(pipe) \in Nat
      /\ Len(pipe \o Written(m)) = Len(pipe) + Len(Written(m))
  BY <1>1, ConcatFacts
<1> QED BY <1>2, <1>3, SizeAssumption

\* Released memory holds a message's bytes only if it is not an earlier one.
LEMMA LeftoversFacts ==
  ASSUME NEW n \in 1 .. Sends, NEW m \in Leftovers(n)
  PROVE  m \in 0 .. Sends /\ (m # Garbage => n <= m)
BY SendsAssumption DEF Leftovers, Garbage

LEMMA InitTypes == Init => TypeOK
<1>1. << >> \in Seq(Stream) /\ << >> \in Seq(1 .. Sends) /\ Len(<< >>) = 0
  BY EmptySeq
<1> SUFFICES ASSUME Init PROVE TypeOK
  OBVIOUS
<1>2. sent \in 0 .. Sends
  BY SendsAssumption DEF Init, ClientConstructed, ServerConstructed
<1>3. Len(pipe) <= Window /\ Len(hand) <= buffer_size_
  BY <1>1, SizeAssumption DEF Init, ClientConstructed, ServerConstructed
<1>4. pipe \in Seq(Stream) /\ hand \in Seq(Stream) /\ delivered \in Seq(Stream) /\ queued \in Seq(1 .. Sends)
  BY <1>1 DEF Init, ClientConstructed, ServerConstructed
<1>5. {fin, armed, failed, empty, intact} \subseteq BOOLEAN
  BY DEF Init, ClientConstructed, ServerConstructed
<1>6. content \in [1 .. Sends -> 0 .. Sends]
  BY SendsAssumption DEF Init, ClientConstructed, ServerConstructed
<1> QED BY <1>2, <1>3, <1>4, <1>5, <1>6 DEF Init, ClientConstructed, ServerConstructed, TypeOK

LEMMA NextTypes == TypeOK /\ [Next]_vars => TypeOK'
<1> SUFFICES ASSUME TypeOK, [Next]_vars PROVE TypeOK'
  OBVIOUS
<1>0. << >> \in Seq(Stream) /\ << >> \in Seq(1 .. Sends) /\ Len(<< >>) = 0
  BY EmptySeq
<1>1. CASE Connected
  BY <1>0, <1>1 DEF Connected, TypeOK, serverVars, handlerVars
<1>2. CASE Send
  <2>1. sent + 1 \in 1 .. Sends /\ sent + 1 \in 0 .. Sends /\ sent' = sent + 1
    BY <1>2, SendsAssumption DEF Send, TypeOK
  <2>2. pipe' = pipe \/ pipe' = pipe \o Written(sent + 1)
    BY <1>2 DEF Send
  <2>3. pipe' \in Seq(Stream) /\ Len(pipe') <= Window
    <3>1. pipe \o Written(sent + 1) \in Seq(Stream) /\ Len(pipe \o Written(sent + 1)) <= Window
      BY <2>1, PipeFacts
    <3> QED BY <2>2, <3>1 DEF TypeOK
  <2>4. queued' = queued \/ queued' = Append(queued, sent + 1)
    BY <1>2 DEF Send
  <2>5. queued' \in Seq(1 .. Sends)
    <3>1. queued \in Seq(1 .. Sends)
      BY DEF TypeOK
    <3>2. Append(queued, sent + 1) \in Seq(1 .. Sends)
      BY <2>1, <3>1, AppendProperties
    <3> QED BY <2>4, <3>1, <3>2
  <2>6. intact' \in BOOLEAN
    BY <1>2 DEF Send, TypeOK
  <2> QED BY <1>2, <2>1, <2>3, <2>5, <2>6 DEF Send, TypeOK, serverVars, handlerVars
<1>3. CASE SendQueued
  <2>1. queued # << >> /\ queued \in Seq(1 .. Sends)
    BY <1>3 DEF SendQueued, TypeOK
  <2>2. Head(queued) \in 1 .. Sends /\ Tail(queued) \in Seq(1 .. Sends)
    BY <2>1, HeadTailProperties
  <2>3. pipe' \in Seq(Stream) /\ Len(pipe') <= Window
    BY <1>3, <2>2, PipeFacts DEF SendQueued
  <2>4. content' \in [1 .. Sends -> 0 .. Sends]
    <3>1. PICK m \in Leftovers(Head(queued)) : content' = [content EXCEPT ![Head(queued)] = m]
      BY <1>3 DEF SendQueued
    <3>2. m \in 0 .. Sends
      BY <2>2, <3>1, LeftoversFacts
    <3> QED BY <3>1, <3>2 DEF TypeOK
  <2> QED BY <1>3, <2>2, <2>3, <2>4 DEF SendQueued, TypeOK, serverVars, handlerVars
<1>4. CASE OnAccept
  BY <1>4 DEF OnAccept, TypeOK, clientVars, handlerVars
<1>5. CASE ReceiveHandler
  <2>1. /\ hand' \in Seq(Stream) /\ Len(hand') <= buffer_size_
        /\ pipe' \in Seq(Stream) /\ Len(pipe') <= Window
    <3>1. CASE \E n \in 1 .. Len(pipe) :
                 n <= buffer_size_ /\ hand' = SubSeq(pipe, 1, n)
                 /\ pipe' = SubSeq(pipe, n + 1, Len(pipe))
      <4>1. PICK n \in 1 .. Len(pipe) :
                 n <= buffer_size_ /\ hand' = SubSeq(pipe, 1, n)
                 /\ pipe' = SubSeq(pipe, n + 1, Len(pipe))
        BY <3>1
      <4>2. pipe \in Seq(Stream) /\ Len(pipe) <= Window
        BY DEF TypeOK
      <4>3. /\ hand' \in Seq(Stream) /\ Len(hand') = n
            /\ pipe' \in Seq(Stream) /\ Len(pipe') = Len(pipe) - n /\ Len(pipe) \in Nat
        BY <4>1, <4>2, CutFacts
      <4> QED BY <4>1, <4>2, <4>3, SizeAssumption
    <3>2. CASE pipe = << >> /\ fin /\ hand' = << >> /\ UNCHANGED pipe
      BY <1>0, <3>2, SizeAssumption DEF TypeOK
    <3> QED BY <1>5, <3>1, <3>2 DEF ReceiveHandler
  <2> QED BY <1>5, <2>1 DEF ReceiveHandler, TypeOK, clientVars, handlerVars
<1>6. CASE HandlerReturns
  <2>1. delivered \o hand \in Seq(Stream)
    BY ConcatFacts DEF TypeOK
  <2> QED BY <1>6, <2>1 DEF HandlerReturns, TypeOK, clientVars
<1>7. CASE CheckTerminated
  BY <1>7 DEF CheckTerminated, TypeOK, clientVars, handlerVars
<1>8. CASE StartReceive
  BY <1>8 DEF StartReceive, TypeOK, clientVars, handlerVars
<1>9. CASE ThreadExits
  BY <1>9 DEF ThreadExits, TypeOK, clientVars, handlerVars
<1>10. CASE CallTerminate
  BY <1>10 DEF CallTerminate, TypeOK, handlerVars
<1>11. CASE ClientStop \/ ClientClose \/ ClientJoin
  BY <1>0, <1>11 DEF ClientStop, ClientClose, ClientJoin, TypeOK, serverVars, handlerVars
<1>12. CASE ServerClose
  <2>1. pipe' \in Seq(Stream) /\ Len(pipe') <= Window
    <3>1. pipe' = pipe \/ pipe' = << >>
      BY <1>12 DEF ServerClose
    <3>2. CASE pipe' = pipe
      BY <3>2 DEF TypeOK
    <3>3. CASE pipe' = << >>
      <4>1. 0 <= Window
        BY SizeAssumption
      <4> QED BY <1>0, <3>3, <4>1
    <3> QED BY <3>1, <3>2, <3>3
  <2>2. queued' \in Seq(1 .. Sends) /\ link' \in {"connecting", "up", "gone"}
    BY <1>0, <1>12 DEF ServerClose, TypeOK
  <2> QED BY <1>12, <2>1, <2>2 DEF ServerClose, TypeOK, handlerVars
<1>13. CASE ServerStop \/ ServerJoin \/ ServerJoinCrashes
  BY <1>13 DEF ServerStop, ServerJoin, ServerJoinCrashes, TypeOK, clientVars, handlerVars
<1>14. CASE ReceiveFails
  <2>1. pipe' \in Seq(Stream) /\ Len(pipe') <= Window
    <3>1. pipe' = pipe \/ pipe' = << >>
      BY <1>14 DEF ReceiveFails
    <3>2. 0 <= Window
      BY SizeAssumption
    <3>3. CASE pipe' = pipe
      BY <3>3 DEF TypeOK
    <3>4. CASE pipe' = << >>
      BY <1>0, <3>2, <3>4
    <3> QED BY <3>1, <3>3, <3>4
  <2>2. queued' \in Seq(1 .. Sends) /\ link' \in {"connecting", "up", "gone"}
    BY <1>0, <1>14 DEF ReceiveFails, TypeOK
  <2>3. armed' \in BOOLEAN /\ failed' \in BOOLEAN
    BY <1>14 DEF ReceiveFails
  <2> QED BY <1>14, <2>1, <2>2, <2>3 DEF ReceiveFails, TypeOK, handlerVars
<1>15. CASE UNCHANGED vars
  BY <1>15 DEF vars, TypeOK, clientVars, serverVars, handlerVars
<1> QED BY <1>1, <1>2, <1>3, <1>4, <1>5, <1>6, <1>7, <1>8, <1>9, <1>10, <1>11, <1>12, <1>13, <1>14,
           <1>15
        DEF Next, ServerThread, Terminating

\* Every variable keeps its type; the kernels never hold more than they have
\* room for, and a receive never brings more than its buffer holds.
THEOREM TypeCorrect == Spec => []TypeOK
BY InitTypes, NextTypes, PTL DEF Spec

-----------------------------------------------------------------------------
(* The end of the stream, and of the server *)

\* A client that has closed its end writes nothing more; a receive that
\* brings no byte has met the end; and a server is joined after its thread.
EndInv ==
  /\ fin => link = "gone" /\ client \in {"closed", "joined"}
  /\ thread = "handling" /\ hand = << >> => fin /\ pipe = << >>
  /\ EmptyMeansGone
  /\ server = "joined" => thread = "exited"

LEMMA NextEndInv == TypeOK /\ EndInv /\ [Next]_vars => EndInv'
<1> SUFFICES ASSUME TypeOK, EndInv, [Next]_vars PROVE EndInv'
  OBVIOUS
<1> USE DEF EndInv, EmptyMeansGone
<1>1. CASE Connected
  BY <1>1 DEF Connected, serverVars, handlerVars
<1>2. CASE Send
  BY <1>2 DEF Send, serverVars, handlerVars
<1>3. CASE SendQueued
  BY <1>3 DEF SendQueued, serverVars, handlerVars
<1>4. CASE OnAccept
  BY <1>4 DEF OnAccept, clientVars, handlerVars
<1>5. CASE ReceiveHandler
  <2>1. CASE \E n \in 1 .. Len(pipe) :
               n <= buffer_size_ /\ hand' = SubSeq(pipe, 1, n)
               /\ pipe' = SubSeq(pipe, n + 1, Len(pipe))
    <3>1. PICK n \in 1 .. Len(pipe) :
               n <= buffer_size_ /\ hand' = SubSeq(pipe, 1, n)
               /\ pipe' = SubSeq(pipe, n + 1, Len(pipe))
      BY <2>1
    <3>2. pipe \in Seq(Stream)
      BY DEF TypeOK
    <3>3. Len(hand') = n /\ Len(pipe) \in Nat /\ n >= 1
      BY <3>1, <3>2, CutFacts
    <3>4. hand' # << >> /\ pipe # << >>
      BY <3>1, <3>3, EmptySeq
    <3> QED BY <1>5, <3>4 DEF ReceiveHandler, clientVars, handlerVars
  <2>2. CASE pipe = << >> /\ fin /\ hand' = << >> /\ UNCHANGED pipe
    BY <1>5, <2>2 DEF ReceiveHandler, clientVars, handlerVars
  <2> QED BY <1>5, <2>1, <2>2 DEF ReceiveHandler
<1>6. CASE HandlerReturns
  BY <1>6 DEF HandlerReturns, clientVars, TypeOK
<1>7. CASE CheckTerminated
  BY <1>7 DEF CheckTerminated, clientVars, handlerVars
<1>8. CASE StartReceive
  BY <1>8 DEF StartReceive, clientVars, handlerVars
<1>9. CASE ThreadExits
  BY <1>9 DEF ThreadExits, clientVars, handlerVars
<1>10. CASE CallTerminate
  BY <1>10 DEF CallTerminate, handlerVars
<1>11. CASE ClientStop \/ ClientClose \/ ClientJoin
  BY <1>11 DEF ClientStop, ClientClose, ClientJoin, serverVars, handlerVars
<1>12. CASE ServerClose
  BY <1>12 DEF ServerClose, handlerVars
<1>13. CASE ServerStop \/ ServerJoin \/ ServerJoinCrashes
  BY <1>13 DEF ServerStop, ServerJoin, ServerJoinCrashes, clientVars, handlerVars
<1>14. CASE ReceiveFails
  BY <1>14 DEF ReceiveFails, handlerVars
<1>15. CASE UNCHANGED vars
  BY <1>15 DEF vars, clientVars, serverVars, handlerVars
<1> QED BY <1>1, <1>2, <1>3, <1>4, <1>5, <1>6, <1>7, <1>8, <1>9, <1>10, <1>11, <1>12, <1>13, <1>14,
           <1>15
        DEF Next, ServerThread, Terminating

LEMMA EndInvariance == Spec => []EndInv
<1>1. Init => EndInv
  BY DEF Init, ClientConstructed, ServerConstructed, EndInv, EmptyMeansGone
<1> QED BY <1>1, NextEndInv, TypeCorrect, PTL DEF Spec

\* The handler is called with an empty string only when the client has closed
\* its end and all that it sent has been handled.
THEOREM EmptyIsTheEnd == Spec => []EmptyMeansGone
<1>1. EndInv => EmptyMeansGone
  BY DEF EndInv
<1> QED BY <1>1, EndInvariance, PTL

\* Once terminate has returned the handler is not called any more, not even
\* for a connection that was accepted between the close and the stop.
THEOREM Quiet == Spec => QuietAfterJoin
<1>1. EndInv /\ [Next]_vars => (server = "joined" => UNCHANGED <<delivered, empty>>)
  <2> SUFFICES ASSUME EndInv, [Next]_vars, server = "joined" PROVE UNCHANGED <<delivered, empty>>
    OBVIOUS
  <2>1. ~HandlerReturns
    BY DEF EndInv, HandlerReturns
  <2> QED BY <2>1 DEF Next, ServerThread, Terminating, vars, serverVars, handlerVars, Connected, Send,
        SendQueued, OnAccept, ReceiveHandler, CheckTerminated, StartReceive, ThreadExits,
        CallTerminate, ClientStop, ClientClose, ClientJoin, ServerClose, ServerStop, ServerJoin,
        ServerJoinCrashes, ReceiveFails
<1> QED BY <1>1, EndInvariance, PTL DEF Spec, QuietAfterJoin

-----------------------------------------------------------------------------
(* The order *)

Ordered(s) == \A i, j \in DOMAIN s : i < j => Precedes(s[i], s[j])
Ahead(s, t) == \A i \in DOMAIN s : \A j \in DOMAIN t : Precedes(s[i], t[j])

\* All bytes are of sends before m.
Older(s, m) == \A i \in DOMAIN s : s[i][1] < m

LEMMA ConcatOrder ==
  ASSUME NEW s \in Seq(Stream), NEW t \in Seq(Stream)
  PROVE  /\ Ordered(s) /\ Ordered(t) /\ Ahead(s, t) => Ordered(s \o t)
         /\ \A u \in Seq(Stream) : Ahead(s, u) /\ Ahead(t, u) => Ahead(s \o t, u)
         /\ \A u \in Seq(Stream) : Ahead(u, s) /\ Ahead(u, t) => Ahead(u, s \o t)
         /\ \A m : Older(s, m) /\ Older(t, m) => Older(s \o t, m)
<1> DEFINE v == s \o t
           l == Len(s)
<1>1. /\ l \in Nat /\ DOMAIN v \subseteq Int
      /\ \A i \in DOMAIN v : \/ i \in DOMAIN s /\ v[i] = s[i] /\ i <= l
                             \/ i - l \in DOMAIN t /\ i > l /\ v[i] = t[i - l]
  BY ConcatFacts
<1> HIDE DEF v, l
<1>2. ASSUME Ordered(s), Ordered(t), Ahead(s, t) PROVE Ordered(v)
  <2> SUFFICES ASSUME NEW i \in DOMAIN v, NEW j \in DOMAIN v, i < j PROVE Precedes(v[i], v[j])
    BY DEF Ordered
  <2>1. i \in Int /\ j \in Int
    BY <1>1
  <2>2. CASE i \in DOMAIN s /\ v[i] = s[i] /\ j \in DOMAIN s /\ v[j] = s[j]
    BY <1>2, <2>2 DEF Ordered
  <2>3. CASE i \in DOMAIN s /\ v[i] = s[i] /\ j - l \in DOMAIN t /\ v[j] = t[j - l]
    BY <1>2, <2>3 DEF Ahead
  <2>4. CASE i - l \in DOMAIN t /\ v[i] = t[i - l] /\ j - l \in DOMAIN t /\ v[j] = t[j - l]
    <3>1. i - l < j - l
      BY <1>1, <2>1
    <3> QED BY <1>2, <2>4, <3>1 DEF Ordered
  <2>5. ~(i > l /\ j <= l)
    BY <1>1, <2>1
  <2> QED BY <1>1, <2>2, <2>3, <2>4, <2>5
<1>3. ASSUME NEW u \in Seq(Stream), Ahead(s, u), Ahead(t, u) PROVE Ahead(v, u)
  BY <1>1, <1>3 DEF Ahead
<1>4. ASSUME NEW u \in Seq(Stream), Ahead(u, s), Ahead(u, t) PROVE Ahead(u, v)
  BY <1>1, <1>4 DEF Ahead
<1>5. ASSUME NEW m, Older(s, m), Older(t, m) PROVE Older(v, m)
  BY <1>1, <1>5 DEF Older
<1> QED BY <1>2, <1>3, <1>4, <1>5 DEF v

\* What a receive takes is ahead of what it leaves, and both stand to the rest
\* as the whole did.
LEMMA CutOrder ==
  ASSUME NEW s \in Seq(Stream), NEW n \in 1 .. Len(s), Ordered(s)
  PROVE  LET p == SubSeq(s, 1, n)
             r == SubSeq(s, n + 1, Len(s))
         IN  /\ Ordered(p) /\ Ordered(r) /\ Ahead(p, r)
             /\ \A u \in Seq(Stream) : Ahead(u, s) => Ahead(u, p) /\ Ahead(u, r)
             /\ \A m : Older(s, m) => Older(p, m) /\ Older(r, m)
<1> DEFINE p == SubSeq(s, 1, n)
           r == SubSeq(s, n + 1, Len(s))
           l == Len(s)
<1>1. /\ l \in Nat /\ n \in 1 .. l
      /\ DOMAIN p = 1 .. n /\ DOMAIN r = 1 .. l - n /\ DOMAIN s = 1 .. l
      /\ \A i \in DOMAIN p : p[i] = s[i]
      /\ \A i \in DOMAIN r : r[i] = s[i + n]
  BY CutFacts
<1> HIDE DEF p, r, l
<1>2. \A i \in DOMAIN p : i \in DOMAIN s /\ p[i] = s[i] /\ i \in Int /\ i <= n
  BY <1>1
<1>3. \A i \in DOMAIN r : i + n \in DOMAIN s /\ r[i] = s[i + n] /\ i \in Int /\ i + n > n
  BY <1>1
<1>4. n \in Int
  BY <1>1
<1>5. Ordered(p)
  BY <1>2 DEF Ordered
<1>6. Ordered(r)
  <2> SUFFICES ASSUME NEW i \in DOMAIN r, NEW j \in DOMAIN r, i < j PROVE Precedes(r[i], r[j])
    BY DEF Ordered
  <2>1. i + n < j + n
    BY <1>3, <1>4
  <2> QED BY <1>3, <2>1 DEF Ordered
<1>7. Ahead(p, r)
  <2> SUFFICES ASSUME NEW i \in DOMAIN p, NEW j \in DOMAIN r PROVE Precedes(p[i], r[j])
    BY DEF Ahead
  <2>1. i < j + n
    BY <1>2, <1>3, <1>4
  <2> QED BY <1>2, <1>3, <2>1 DEF Ordered
<1>8. \A u \in Seq(Stream) : Ahead(u, s) => Ahead(u, p) /\ Ahead(u, r)
  BY <1>2, <1>3 DEF Ahead
<1>9. \A m : Older(s, m) => Older(p, m) /\ Older(r, m)
  BY <1>2, <1>3 DEF Older
<1> QED BY <1>5, <1>6, <1>7, <1>8, <1>9 DEF p, r, l

\* What is written of a send is in order, behind everything older, and older
\* than every later send.
LEMMA WrittenOrder ==
  ASSUME TypeOK, NEW m \in 1 .. Sends
  PROVE  /\ Ordered(Written(m))
         /\ \A s \in Seq(Stream) : Older(s, m) => Ahead(s, Written(m))
         /\ \A k \in Nat : m < k => Older(Written(m), k)
<1> DEFINE w == Written(m)
<1>1. w \in Seq(Stream) /\ DOMAIN w = 1 .. Len(w) /\ m \in Nat
  BY WrittenFacts, LenProperties, SendsAssumption
<1>2. \A i \in DOMAIN w : w[i] = <<m, i>> /\ i \in Int
  BY WrittenFacts, <1>1
<1> HIDE DEF w
<1>3. \A i \in DOMAIN w : w[i][1] = m /\ w[i][2] = i
  BY <1>2
<1>4. Ordered(w)
  BY <1>2, <1>3 DEF Ordered, Precedes
<1>5. ASSUME NEW s \in Seq(Stream), Older(s, m) PROVE Ahead(s, w)
  BY <1>3, <1>5 DEF Ahead, Older, Precedes
<1>6. ASSUME NEW k \in Nat, m < k PROVE Older(w, k)
  BY <1>3, <1>6 DEF Older
<1> QED BY <1>4, <1>5, <1>6 DEF w

LEMMA NothingOrder ==
  /\ Ordered(<< >>)
  /\ \A s \in Seq(Stream) : Ahead(s, << >>) /\ Ahead(<< >>, s)
  /\ \A m : Older(<< >>, m)
BY DEF Ordered, Ahead, Older

LEMMA OlderStays ==
  ASSUME NEW s \in Seq(Stream), NEW m \in Int, NEW k \in Int, m <= k, Older(s, m)
  PROVE  Older(s, k)
<1>1. \A i \in DOMAIN s : s[i] \in Stream /\ s[i][1] \in Int
  <2>1. DOMAIN s = 1 .. Len(s)
    BY LenProperties
  <2>2. \A i \in DOMAIN s : s[i] \in Stream
    BY <2>1, ElementOfSeq
  <2> QED BY <2>2, SendsAssumption DEF Stream
<1> QED BY <1>1 DEF Older

\* All bytes are of sends before those that may still be written: the ones
\* that wait and the ones that are to come.
InFuture(s) == Older(s, sent + 1) /\ \A i \in DOMAIN queued : Older(s, queued[i])

\* The bytes are in order in every place and from place to place, they are of
\* older sends than all that may still be written, and what waits is in order
\* too.
StreamInv ==
  /\ Ordered(delivered) /\ Ordered(pipe) /\ Ahead(delivered, pipe)
  /\ thread = "handling" => Ordered(hand) /\ Ahead(delivered, hand) /\ Ahead(hand, pipe)
  /\ InFuture(delivered) /\ InFuture(hand) /\ InFuture(pipe)
  /\ \A i \in DOMAIN queued : queued[i] <= sent
  /\ \A i, j \in DOMAIN queued : i < j => queued[i] < queued[j]

\* A step that moves no byte, and lets nothing new be written.
LEMMA StillStep ==
  ASSUME StreamInv, UNCHANGED <<sent, pipe, hand, delivered>>,
         queued' = queued \/ queued' = << >>, thread' = thread \/ thread' # "handling"
  PROVE  StreamInv'
<1>1. \A i \in DOMAIN queued' : i \in DOMAIN queued /\ queued'[i] = queued[i]
  OBVIOUS
<1>2. InFuture(delivered)' /\ InFuture(hand)' /\ InFuture(pipe)'
  BY <1>1 DEF StreamInv, InFuture
<1>3. /\ \A i \in DOMAIN queued' : queued'[i] <= sent
      /\ \A i, j \in DOMAIN queued' : i < j => queued'[i] < queued'[j]
  BY <1>1 DEF StreamInv
<1> QED BY <1>2, <1>3 DEF StreamInv

\* Send m is written behind the bytes of older ones.
LEMMA WriteStep ==
  ASSUME TypeOK, StreamInv, NEW m \in 1 .. Sends,
         Older(delivered, m), Older(hand, m), Older(pipe, m)
  PROVE  /\ Ordered(pipe \o Written(m)) /\ Ahead(delivered, pipe \o Written(m))
         /\ thread = "handling" => Ahead(hand, pipe \o Written(m))
         /\ \A k \in Nat : Older(pipe, k) /\ m < k => Older(pipe \o Written(m), k)
<1> DEFINE w == Written(m)
<1>1. /\ w \in Seq(Stream) /\ Ordered(w)
      /\ \A s \in Seq(Stream) : Older(s, m) => Ahead(s, w)
      /\ \A k \in Nat : m < k => Older(w, k)
  BY WrittenFacts, WrittenOrder
<1>2. delivered \in Seq(Stream) /\ hand \in Seq(Stream) /\ pipe \in Seq(Stream)
  BY DEF TypeOK
<1> HIDE DEF w
<1>3. Ahead(delivered, w) /\ Ahead(hand, w) /\ Ahead(pipe, w)
  BY <1>1, <1>2
<1>4. /\ Ordered(pipe \o w)
      /\ Ahead(delivered, pipe \o w)
      /\ thread = "handling" => Ahead(hand, pipe \o w)
  BY <1>1, <1>2, <1>3, ConcatOrder DEF StreamInv
<1>5. \A k \in Nat : Older(pipe, k) /\ m < k => Older(pipe \o w, k)
  BY <1>1, <1>2, ConcatOrder
<1> QED BY <1>4, <1>5 DEF w

\* The connection ends, and with it all that is on the way.
LEMMA EndStep ==
  ASSUME TypeOK, StreamInv, UNCHANGED <<sent, thread, hand, delivered>>,
         pipe' = << >>, queued' = << >>
  PROVE  StreamInv'
<1>1. delivered \in Seq(Stream) /\ hand \in Seq(Stream)
  BY DEF TypeOK
<1>2. Ordered(pipe') /\ Ahead(delivered, pipe') /\ Ahead(hand, pipe')
  BY <1>1, NothingOrder
<1>3. DOMAIN queued' = {}
  OBVIOUS
<1>4. InFuture(delivered)' /\ InFuture(hand)' /\ InFuture(pipe)'
  BY <1>3, NothingOrder DEF StreamInv, InFuture
<1> QED BY <1>2, <1>3, <1>4 DEF StreamInv

LEMMA SendKeepsOrder == TypeOK /\ StreamInv /\ Send => StreamInv'
<1> SUFFICES ASSUME TypeOK, StreamInv, Send PROVE StreamInv'
  OBVIOUS
<1>1. /\ sent \in Nat /\ sent + 1 \in 1 .. Sends /\ sent' = sent + 1
      /\ sent + 1 \in Nat /\ sent + 2 \in Nat
  BY SendsAssumption DEF Send, TypeOK
<1>2. delivered \in Seq(Stream) /\ hand \in Seq(Stream) /\ pipe \in Seq(Stream)
  BY DEF TypeOK
<1>3. UNCHANGED <<thread, hand, delivered>>
  BY DEF Send, serverVars, handlerVars
<1>4. Older(delivered, sent + 2) /\ Older(hand, sent + 2) /\ Older(pipe, sent + 2)
  BY <1>1, <1>2, OlderStays DEF StreamInv, InFuture
<1>5. sent' + 1 = sent + 2
  BY <1>1
<1>6. CASE UNCHANGED <<queued, pipe>>
  <2>1. InFuture(delivered)' /\ InFuture(hand)' /\ InFuture(pipe)'
    BY <1>3, <1>4, <1>5, <1>6 DEF StreamInv, InFuture
  <2>2. \A i \in DOMAIN queued' : queued'[i] <= sent'
    <3>1. \A i \in DOMAIN queued : queued[i] \in Nat
      <4>1. queued \in Seq(1 .. Sends) /\ DOMAIN queued = 1 .. Len(queued)
        BY LenProperties DEF TypeOK
      <4>2. \A i \in DOMAIN queued : queued[i] \in 1 .. Sends
        BY <4>1, ElementOfSeq
      <4> QED BY <4>2, SendsAssumption
    <3> QED BY <1>1, <1>6, <3>1 DEF StreamInv
  <2> QED BY <1>3, <1>6, <2>1, <2>2 DEF StreamInv
<1>7. CASE queued = << >> /\ pipe' = pipe \o Written(sent + 1) /\ UNCHANGED queued
  <2>1. /\ Ordered(pipe') /\ Ahead(delivered, pipe')
        /\ thread = "handling" => Ahead(hand, pipe')
        /\ Older(pipe', sent + 2)
    <3>1. Older(delivered, sent + 1) /\ Older(hand, sent + 1) /\ Older(pipe, sent + 1)
      BY DEF StreamInv, InFuture
    <3>2. sent + 1 < sent + 2
      BY <1>1
    <3> QED BY <1>1, <1>4, <1>7, <3>1, <3>2, WriteStep
  <2>2. DOMAIN queued' = {}
    BY <1>7
  <2>3. InFuture(delivered)' /\ InFuture(hand)' /\ InFuture(pipe)'
    BY <1>3, <1>4, <1>5, <2>1, <2>2 DEF InFuture
  <2> QED BY <1>3, <2>1, <2>2, <2>3 DEF StreamInv
<1>8. CASE queued' = Append(queued, sent + 1) /\ UNCHANGED pipe
  <2> DEFINE l == Len(queued)
  <2>1. queued \in Seq(1 .. Sends)
    BY DEF TypeOK
  <2>2. /\ l \in Nat /\ DOMAIN queued = 1 .. l
        /\ \A i \in 1 .. l : queued[i] \in 1 .. Sends
    BY <2>1, LenProperties, ElementOfSeq
  <2>3. /\ Append(queued, sent + 1) \in Seq(1 .. Sends)
        /\ Len(Append(queued, sent + 1)) = l + 1
        /\ \A i \in 1 .. l : Append(queued, sent + 1)[i] = queued[i]
        /\ Append(queued, sent + 1)[l + 1] = sent + 1
    BY <1>1, <2>1, AppendProperties
  <2>4. DOMAIN queued' = 1 .. l + 1
    BY <1>8, <2>3, LenProperties
  <2> HIDE DEF l
  <2>5. \A i \in DOMAIN queued' :
          \/ i \in DOMAIN queued /\ i <= l /\ queued'[i] = queued[i] /\ queued[i] \in Nat
          \/ i = l + 1 /\ queued'[i] = sent + 1
    BY <1>8, <2>2, <2>3, <2>4, SendsAssumption
  <2>6. InFuture(delivered)' /\ InFuture(hand)' /\ InFuture(pipe)'
    BY <1>3, <1>4, <1>5, <1>8, <2>5 DEF StreamInv, InFuture
  <2>7. \A i \in DOMAIN queued' : queued'[i] <= sent'
    BY <1>1, <2>5 DEF StreamInv
  <2>8. \A i, j \in DOMAIN queued' : i < j => queued'[i] < queued'[j]
    <3> SUFFICES ASSUME NEW i \in DOMAIN queued', NEW j \in DOMAIN queued', i < j
                 PROVE  queued'[i] < queued'[j]
      OBVIOUS
    <3>1. i \in Int /\ j \in Int /\ j <= l + 1 /\ i # l + 1
      BY <2>2, <2>4
    <3>2. i \in DOMAIN queued /\ queued'[i] = queued[i] /\ queued[i] \in Nat /\ queued[i] <= sent
      BY <2>5, <3>1 DEF StreamInv
    <3>3. CASE j \in DOMAIN queued /\ queued'[j] = queued[j]
      BY <3>2, <3>3 DEF StreamInv
    <3>4. CASE queued'[j] = sent + 1
      BY <1>1, <3>2, <3>4
    <3> QED BY <2>5, <3>3, <3>4
  <2> QED BY <1>3, <1>8, <2>6, <2>7, <2>8 DEF StreamInv
<1> QED BY <1>6, <1>7, <1>8 DEF Send

LEMMA SendQueuedKeepsOrder == TypeOK /\ StreamInv /\ SendQueued => StreamInv'
<1> SUFFICES ASSUME TypeOK, StreamInv, SendQueued PROVE StreamInv'
  OBVIOUS
<1>1. queued \in Seq(1 .. Sends) /\ queued # << >>
  BY DEF TypeOK, SendQueued
<1>2. UNCHANGED <<sent, thread, hand, delivered>> /\ queued' = Tail(queued)
  BY DEF SendQueued, serverVars, handlerVars
<1> DEFINE l == Len(queued)
<1>3. /\ l \in Nat /\ DOMAIN queued = 1 .. l
      /\ \A i \in 1 .. l : queued[i] \in 1 .. Sends
  BY <1>1, LenProperties, ElementOfSeq
<1>4. l >= 1 /\ Head(queued) = queued[1]
  BY <1>1, <1>3, EmptySeq
<1>5. /\ Tail(queued) \in Seq(1 .. Sends) /\ Len(Tail(queued)) = l - 1
      /\ \A i \in 1 .. Len(Tail(queued)) : Tail(queued)[i] = queued[i + 1]
  BY <1>1, HeadTailProperties
<1>6. DOMAIN queued' = 1 .. l - 1
  BY <1>2, <1>5, LenProperties
<1> HIDE DEF l
<1>7. \A i \in DOMAIN queued' :
        /\ i \in Int /\ i + 1 \in DOMAIN queued /\ i + 1 > 1
        /\ queued'[i] = queued[i + 1] /\ queued[i + 1] \in Nat
  BY <1>2, <1>3, <1>5, <1>6, SendsAssumption
<1>8. 1 \in DOMAIN queued /\ queued[1] \in 1 .. Sends /\ queued[1] \in Nat /\ queued[1] > 0
  BY <1>3, <1>4, SendsAssumption
<1> DEFINE m == Head(queued)
<1>9. pipe' = pipe \o Written(m)
  BY DEF SendQueued
<1>10. m \in 1 .. Sends /\ m \in Nat /\ m = queued[1]
  BY <1>4, <1>8
<1> HIDE DEF m
<1>11. Older(delivered, m) /\ Older(hand, m) /\ Older(pipe, m)
  BY <1>8, <1>10 DEF StreamInv, InFuture
<1>12. /\ Ordered(pipe') /\ Ahead(delivered, pipe')
       /\ thread = "handling" => Ahead(hand, pipe')
       /\ \A k \in Nat : Older(pipe, k) /\ m < k => Older(pipe', k)
  BY <1>9, <1>10, <1>11, WriteStep
<1>13. InFuture(delivered)' /\ InFuture(hand)'
  BY <1>2, <1>7 DEF StreamInv, InFuture
<1>14. InFuture(pipe)'
  <2>1. sent + 1 \in Nat /\ m < sent + 1
    <3>1. queued[1] <= sent /\ sent \in Nat
      BY <1>8, SendsAssumption DEF StreamInv, TypeOK
    <3> QED BY <1>8, <1>10, <3>1
  <2>2. Older(pipe', sent + 1)
    BY <1>12, <2>1 DEF StreamInv, InFuture
  <2>3. ASSUME NEW i \in DOMAIN queued' PROVE Older(pipe', queued'[i])
    <3>1. queued[1] < queued[i + 1]
      BY <1>7, <1>8, <2>3 DEF StreamInv
    <3>2. m < queued[i + 1]
      BY <1>7, <1>8, <1>10, <2>3, <3>1
    <3> QED BY <1>7, <1>12, <2>3, <3>2 DEF StreamInv, InFuture
  <2> QED BY <1>2, <2>2, <2>3 DEF InFuture
<1>15. /\ \A i \in DOMAIN queued' : queued'[i] <= sent'
       /\ \A i, j \in DOMAIN queued' : i < j => queued'[i] < queued'[j]
  <2>1. \A i \in DOMAIN queued' : queued'[i] <= sent'
    BY <1>2, <1>7 DEF StreamInv
  <2>2. ASSUME NEW i \in DOMAIN queued', NEW j \in DOMAIN queued', i < j
        PROVE  queued'[i] < queued'[j]
    <3>1. i + 1 < j + 1
      BY <1>7, <2>2
    <3> QED BY <1>7, <2>2, <3>1 DEF StreamInv
  <2> QED BY <2>1, <2>2
<1> QED BY <1>2, <1>12, <1>13, <1>14, <1>15 DEF StreamInv

LEMMA ReceiveKeepsOrder == TypeOK /\ StreamInv /\ ReceiveHandler => StreamInv'
<1> SUFFICES ASSUME TypeOK, StreamInv, ReceiveHandler PROVE StreamInv'
  OBVIOUS
<1>1. UNCHANGED <<sent, queued, delivered>>
  BY DEF ReceiveHandler, clientVars, handlerVars
<1>2. pipe \in Seq(Stream) /\ delivered \in Seq(Stream)
  BY DEF TypeOK
<1>3. /\ Ordered(hand') /\ Ordered(pipe') /\ Ahead(hand', pipe')
      /\ Ahead(delivered, hand') /\ Ahead(delivered, pipe')
      /\ \A m : Older(pipe, m) => Older(hand', m) /\ Older(pipe', m)
  <2>1. CASE \E n \in 1 .. Len(pipe) :
               n <= buffer_size_ /\ hand' = SubSeq(pipe, 1, n)
               /\ pipe' = SubSeq(pipe, n + 1, Len(pipe))
    <3>1. PICK n \in 1 .. Len(pipe) :
               hand' = SubSeq(pipe, 1, n) /\ pipe' = SubSeq(pipe, n + 1, Len(pipe))
      BY <2>1
    <3>2. Ordered(pipe) /\ Ahead(delivered, pipe)
      BY DEF StreamInv
    <3> QED BY <1>2, <3>1, <3>2, CutOrder
  <2>2. CASE pipe = << >> /\ hand' = << >> /\ UNCHANGED pipe
    BY <1>2, <2>2, NothingOrder
  <2> QED BY <2>1, <2>2 DEF ReceiveHandler
<1>4. InFuture(delivered)' /\ InFuture(hand)' /\ InFuture(pipe)'
  BY <1>1, <1>3 DEF StreamInv, InFuture
<1> QED BY <1>1, <1>3, <1>4 DEF StreamInv

LEMMA HandlerKeepsOrder == TypeOK /\ StreamInv /\ HandlerReturns => StreamInv'
<1> SUFFICES ASSUME TypeOK, StreamInv, HandlerReturns PROVE StreamInv'
  OBVIOUS
<1>1. /\ UNCHANGED <<sent, queued, pipe, hand>> /\ thread = "handling" /\ thread' = "checking"
      /\ delivered' = delivered \o hand
  BY DEF HandlerReturns, clientVars
<1>2. pipe \in Seq(Stream) /\ delivered \in Seq(Stream) /\ hand \in Seq(Stream)
  BY DEF TypeOK
<1>3. /\ Ordered(delivered) /\ Ordered(hand) /\ Ahead(delivered, hand)
      /\ Ahead(delivered, pipe) /\ Ahead(hand, pipe)
  BY <1>1 DEF StreamInv
<1>4. Ordered(delivered') /\ Ahead(delivered', pipe)
  BY <1>1, <1>2, <1>3, ConcatOrder
<1>5. \A m : Older(delivered, m) /\ Older(hand, m) => Older(delivered', m)
  BY <1>1, <1>2, ConcatOrder
<1>6. InFuture(delivered)' /\ InFuture(hand)' /\ InFuture(pipe)'
  BY <1>1, <1>5 DEF StreamInv, InFuture
<1> QED BY <1>1, <1>4, <1>6 DEF StreamInv

LEMMA NextStreamInv == TypeOK /\ StreamInv /\ [Next]_vars => StreamInv'
<1> SUFFICES ASSUME TypeOK, StreamInv, [Next]_vars PROVE StreamInv'
  OBVIOUS
<1>1. CASE Connected
  BY <1>1, StillStep DEF Connected, serverVars, handlerVars
<1>2. CASE Send
  BY <1>2, SendKeepsOrder
<1>3. CASE SendQueued
  BY <1>3, SendQueuedKeepsOrder
<1>4. CASE OnAccept
  BY <1>4, StillStep DEF OnAccept, clientVars, handlerVars
<1>5. CASE ReceiveHandler
  BY <1>5, ReceiveKeepsOrder
<1>6. CASE HandlerReturns
  BY <1>6, HandlerKeepsOrder
<1>7. CASE CheckTerminated \/ StartReceive \/ ThreadExits
  BY <1>7, StillStep DEF CheckTerminated, StartReceive, ThreadExits, clientVars, handlerVars
<1>8. CASE CallTerminate
  BY <1>8, StillStep DEF CallTerminate, handlerVars
<1>9. CASE ClientStop \/ ClientClose \/ ClientJoin
  BY <1>9, StillStep DEF ClientStop, ClientClose, ClientJoin, serverVars, handlerVars
<1>10. CASE ServerClose
  <2>1. CASE accept = "done"
    BY <1>10, <2>1, EndStep DEF ServerClose, handlerVars
  <2>2. CASE accept # "done"
    BY <1>10, <2>2, StillStep DEF ServerClose, handlerVars
  <2> QED BY <2>1, <2>2
<1>11. CASE ServerStop \/ ServerJoin \/ ServerJoinCrashes
  BY <1>11, StillStep DEF ServerStop, ServerJoin, ServerJoinCrashes, clientVars, handlerVars
<1>12. CASE ReceiveFails
  <2>1. CASE UNCHANGED <<pipe, link, queued>>
    BY <1>12, <2>1, StillStep DEF ReceiveFails, handlerVars
  <2>2. CASE pipe' = << >> /\ link' = "gone" /\ queued' = << >>
    BY <1>12, <2>2, EndStep DEF ReceiveFails, handlerVars
  <2> QED BY <1>12, <2>1, <2>2 DEF ReceiveFails
<1>13. CASE UNCHANGED vars
  BY <1>13, StillStep DEF vars, clientVars, serverVars, handlerVars
<1> QED BY <1>1, <1>2, <1>3, <1>4, <1>5, <1>6, <1>7, <1>8, <1>9, <1>10, <1>11, <1>12, <1>13
        DEF Next, ServerThread, Terminating

LEMMA DeliveredBytes ==
  ASSUME TypeOK
  PROVE  \A i \in DOMAIN delivered :
           delivered[i][1] \in 1 .. Sends /\ delivered[i] = <<delivered[i][1], delivered[i][2]>>
<1>1. delivered \in Seq(Stream) /\ DOMAIN delivered = 1 .. Len(delivered)
  BY LenProperties DEF TypeOK
<1>2. \A i \in DOMAIN delivered : delivered[i] \in Stream
  BY <1>1, ElementOfSeq
<1> QED BY <1>2 DEF Stream

\* The bytes of a send are of no message, or of one that is not an earlier one.
ContentInv == \A n \in 1 .. Sends : content[n] # Garbage => n <= content[n]

LEMMA NextContentInv == TypeOK /\ ContentInv /\ [Next]_vars => ContentInv'
<1> SUFFICES ASSUME TypeOK, ContentInv, [Next]_vars PROVE ContentInv'
  OBVIOUS
<1>1. CASE SendQueued
  <2>1. queued # << >> /\ queued \in Seq(1 .. Sends)
    BY <1>1 DEF SendQueued, TypeOK
  <2>2. Head(queued) \in 1 .. Sends
    BY <2>1, HeadTailProperties
  <2>3. PICK m \in Leftovers(Head(queued)) : content' = [content EXCEPT ![Head(queued)] = m]
    BY <1>1 DEF SendQueued
  <2>4. m # Garbage => Head(queued) <= m
    BY <2>2, <2>3, LeftoversFacts
  <2>5. \A n \in 1 .. Sends : content'[n] = IF n = Head(queued) THEN m ELSE content[n]
    BY <2>3 DEF TypeOK
  <2> QED BY <2>4, <2>5 DEF ContentInv
<1>2. CASE UNCHANGED content
  BY <1>2 DEF ContentInv
<1>3. SendQueued \/ UNCHANGED content
  BY DEF Next, ServerThread, Terminating, vars, clientVars, Connected, Send, OnAccept,
         ReceiveHandler, ReceiveFails, HandlerReturns, CheckTerminated, StartReceive, ThreadExits,
         CallTerminate, ClientStop, ClientClose, ClientJoin, ServerClose, ServerStop, ServerJoin,
         ServerJoinCrashes
<1> QED BY <1>1, <1>2, <1>3

\* Whatever was written in part or from released memory, the bytes reach the
\* handler in the order of the sends and none of them twice, and no byte is of
\* an earlier message than the send it stems from.
THEOREM NothingLate == Spec => []OnlyLaterBytes
<1>1. Init => StreamInv /\ ContentInv
  <2> SUFFICES ASSUME Init PROVE StreamInv /\ ContentInv
    OBVIOUS
  <2>1. StreamInv
    BY NothingOrder, EmptySeq
    DEF Init, ClientConstructed, ServerConstructed, StreamInv, InFuture, Ordered, Ahead, Older
  <2>2. ContentInv
    BY SendsAssumption DEF Init, ClientConstructed, ServerConstructed, ContentInv
  <2> QED BY <2>1, <2>2
<1>2. TypeOK /\ StreamInv /\ ContentInv => OnlyLaterBytes
  <2> SUFFICES ASSUME TypeOK, StreamInv, ContentInv PROVE OnlyLaterBytes
    OBVIOUS
  <2>1. \A i, j \in DOMAIN delivered : i < j => Precedes(delivered[i], delivered[j])
    BY DEF StreamInv, Ordered
  <2>2. \A i \in DOMAIN delivered : Received[i][1] # Garbage => delivered[i][1] <= Received[i][1]
    <3>1. \A i \in DOMAIN delivered : delivered[i][1] \in 1 .. Sends
      BY DeliveredBytes
    <3> QED BY <3>1 DEF Received, ContentInv
  <2> QED BY <2>1, <2>2 DEF OnlyLaterBytes
<1> QED BY <1>1, <1>2, NextStreamInv, NextContentInv, TypeCorrect, PTL DEF Spec

-----------------------------------------------------------------------------
(* The whole stream *)

\* The bytes of the first n messages, one message behind the other.
All(n) == FlattenSeq([m \in 1 .. n |-> Bytes(m)])

LEMMA Regroup == \A s, t, u \in Seq(Stream) : s \o (t \o u) = (s \o t) \o u
BY ConcatAssociative

LEMMA BytesFacts ==
  ASSUME NEW m \in 1 .. Sends
  PROVE  Bytes(m) \in Seq(Stream) /\ Len(Bytes(m)) = MessageSize
BY SizeAssumption, SendsAssumption DEF Bytes, Stream

LEMMA AllFacts ==
  /\ All(0) = << >>
  /\ \A n \in 0 .. Sends : All(n) \in Seq(Stream)
  /\ \A n \in 0 .. Sends : n + 1 <= Sends => All(n + 1) = All(n) \o Bytes(n + 1)
<1> DEFINE s(n) == [m \in 1 .. n |-> Bytes(m)]
<1>1. ASSUME NEW n \in 0 .. Sends
      PROVE  n \in Nat /\ s(n) \in Seq(Seq(Stream)) /\ Len(s(n)) = n
  <2>1. n \in Nat /\ \A m \in 1 .. n : Bytes(m) \in Seq(Stream)
    BY BytesFacts, SendsAssumption
  <2> QED BY <2>1
<1>2. All(0) = << >>
  <2>1. s(0) = << >>
    OBVIOUS
  <2>2. << >> \in Seq(Seq(Stream))
    BY EmptySeq
  <2>3. FlattenSeq(<< >>) = << >>
    BY <2>2, FlattenFacts
  <2> QED BY <2>1, <2>3 DEF All
<1>3. ASSUME NEW n \in 0 .. Sends PROVE All(n) \in Seq(Stream)
  BY <1>1, FlattenFacts DEF All
<1>4. ASSUME NEW n \in 0 .. Sends, n + 1 <= Sends PROVE All(n + 1) = All(n) \o Bytes(n + 1)
  <2>1. n \in Nat /\ n + 1 \in 1 .. Sends /\ Bytes(n + 1) \in Seq(Stream)
    BY <1>4, SendsAssumption, BytesFacts
  <2> DEFINE b == Bytes(n + 1)
             x == s(n)
             y == s(n + 1)
  <2>2. /\ x \in Seq(Seq(Stream)) /\ Len(x) = n /\ \A i \in 1 .. n : x[i] = Bytes(i)
        /\ y \in Seq(Seq(Stream)) /\ Len(y) = n + 1 /\ \A i \in 1 .. n + 1 : y[i] = Bytes(i)
    BY <1>1, <2>1
  <2> HIDE DEF b, x, y
  <2>3. y = Append(x, b)
    <3>1. /\ Append(x, b) \in Seq(Seq(Stream)) /\ Len(Append(x, b)) = n + 1
          /\ \A i \in 1 .. n : Append(x, b)[i] = x[i]
          /\ Append(x, b)[n + 1] = b
      BY <2>1, <2>2, AppendProperties DEF b
    <3>2. ASSUME NEW i \in 1 .. n + 1 PROVE y[i] = Append(x, b)[i]
      BY <2>1, <2>2, <3>1 DEF b
    <3> QED BY <2>2, <3>1, <3>2, SeqEqual
  <2>4. FlattenSeq(y) = FlattenSeq(x) \o b
    BY <2>1, <2>2, <2>3, FlattenFacts DEF b
  <2> QED BY <2>4 DEF All, x, y, b
<1> QED BY <1>2, <1>3, <1>4

\* What the handler has in its hand, and whether a send may still be written.
InHand == IF thread = "handling" THEN hand ELSE << >>
CanWrite == client = "running" /\ link # "gone"

\* Everything that was sent is what it was, and in its place: delivered, in the hand of the handler, on
\* the way, or lost with the connection, behind all that got farther.
ArrivalInv ==
  intact =>
    /\ queued = << >> /\ content = [n \in 1 .. Sends |-> n]
    /\ \E lost \in Seq(Stream) :
         /\ CanWrite => lost = << >>
         /\ delivered \o (InHand \o (pipe \o lost)) = All(sent)

\* A step that moves no byte and opens nothing.
LEMMA StillArrives ==
  ASSUME ArrivalInv, UNCHANGED <<sent, content, pipe, delivered, InHand>>, intact' = intact,
         queued' = queued \/ queued' = << >>, CanWrite' => CanWrite
  PROVE  ArrivalInv'
BY DEF ArrivalInv

LEMMA SendArrives == TypeOK /\ ArrivalInv /\ Send => ArrivalInv'
<1> SUFFICES ASSUME TypeOK, ArrivalInv, Send, intact' PROVE ArrivalInv'
  BY DEF ArrivalInv
<1>1. /\ sent \in 0 .. Sends /\ sent + 1 \in 1 .. Sends /\ sent + 1 <= Sends /\ sent' = sent + 1
  BY SendsAssumption DEF Send, TypeOK
<1>2. UNCHANGED <<client, link, content, delivered, InHand>>
  BY DEF Send, serverVars, handlerVars, InHand
<1>3. intact /\ ~(queued' = Append(queued, sent + 1) /\ intact' = FALSE)
  BY DEF Send
<1> DEFINE b == Bytes(sent + 1)
           h == InHand
<1>4. b \in Seq(Stream) /\ delivered \in Seq(Stream) /\ h \in Seq(Stream) /\ pipe \in Seq(Stream)
  BY <1>1, BytesFacts, EmptySeq DEF TypeOK, InHand
<1>5. queued = << >> /\ content = [n \in 1 .. Sends |-> n] /\ \E lost \in Seq(Stream) :
         /\ CanWrite => lost = << >>
         /\ delivered \o (h \o (pipe \o lost)) = All(sent)
  BY <1>3 DEF ArrivalInv
<1>6. PICK lost \in Seq(Stream) : (CanWrite => lost = << >>) /\ delivered \o (h \o (pipe \o lost)) = All(sent)
  BY <1>5
<1>7. All(sent') = All(sent) \o b
  BY <1>1, AllFacts
<1> HIDE DEF b, h
<1>8. CASE ~CanWrite
  <2>1. UNCHANGED <<queued, pipe>>
    BY <1>8 DEF Send, CanWrite
  <2>2. delivered \o (h \o (pipe \o (lost \o b))) = All(sent')
    <3> DEFINE p == pipe \o lost
    <3>0. p \in Seq(Stream)
      BY <1>4, <1>6, ConcatProperties
    <3>1. pipe \o (lost \o b) = p \o b
      BY <1>4, Regroup, Zenon
    <3>2. delivered \o (h \o p) = All(sent)
      BY <1>6
    <3> HIDE DEF p
    <3>3. delivered \o (h \o (p \o b)) = (delivered \o (h \o p)) \o b
      <4> DEFINE w == h \o p
      <4>1. w \in Seq(Stream) /\ h \o (p \o b) = w \o b
        BY <1>4, <3>0, Regroup, ConcatProperties
      <4> HIDE DEF w
      <4>2. delivered \o (w \o b) = (delivered \o w) \o b
        BY <1>4, <4>1, Regroup
      <4> QED BY <4>1, <4>2 DEF w
    <3> QED BY <1>7, <3>1, <3>2, <3>3
  <2>3. lost \o b \in Seq(Stream)
    BY <1>4, <1>6, ConcatProperties
  <2>4. ~CanWrite'
    BY <1>2, <1>8 DEF CanWrite
  <2> QED BY <1>2, <1>5, <2>1, <2>2, <2>3, <2>4 DEF ArrivalInv, h
<1>9. CASE CanWrite
  <2>1. /\ pipe' = pipe \o Written(sent + 1) /\ UNCHANGED queued
        /\ Room >= MessageSize
    BY <1>3, <1>9 DEF Send, CanWrite
  <2>2. Written(sent + 1) = b
    <3>1. Room \in Int /\ MessageSize \in Int
      BY <1>4, LenProperties, SizeAssumption DEF Room
    <3> QED BY <2>1, <3>1 DEF Written, b
  <2>3. lost = << >> /\ pipe \o lost = pipe
    BY <1>4, <1>6, <1>9, ConcatEmptySeq
  <2>4. pipe' \in Seq(Stream) /\ pipe' \o << >> = pipe'
    BY <1>4, <2>1, <2>2, ConcatProperties, ConcatEmptySeq
  <2>5. delivered \o (h \o (pipe \o b)) = All(sent')
    <3>1. delivered \o (h \o (pipe \o b)) = (delivered \o (h \o pipe)) \o b
      BY <1>4
    <3> QED BY <1>6, <1>7, <2>3, <3>1
  <2>6. delivered \o (h \o (pipe' \o << >>)) = All(sent')
    BY <2>1, <2>2, <2>4, <2>5
  <2>7. << >> \in Seq(Stream)
    BY EmptySeq
  <2> QED BY <1>2, <1>5, <2>1, <2>6, <2>7 DEF ArrivalInv, h
<1> QED BY <1>8, <1>9

LEMMA ReceiveArrives == TypeOK /\ ArrivalInv /\ ReceiveHandler => ArrivalInv'
<1> SUFFICES ASSUME TypeOK, ArrivalInv, ReceiveHandler, intact PROVE ArrivalInv'
  BY DEF ArrivalInv, ReceiveHandler, clientVars
<1>1. UNCHANGED <<sent, queued, content, intact, delivered>> /\ CanWrite' = CanWrite
  BY DEF ReceiveHandler, clientVars, handlerVars, CanWrite
<1>2. InHand = << >> /\ InHand' = hand'
  BY DEF ReceiveHandler, InHand
<1>3. delivered \in Seq(Stream) /\ pipe \in Seq(Stream)
  BY DEF TypeOK
<1>4. hand' \in Seq(Stream) /\ pipe' \in Seq(Stream) /\ hand' \o pipe' = pipe
  <2>1. CASE \E n \in 1 .. Len(pipe) :
               n <= buffer_size_ /\ hand' = SubSeq(pipe, 1, n)
               /\ pipe' = SubSeq(pipe, n + 1, Len(pipe))
    <3>1. PICK n \in 1 .. Len(pipe) :
               hand' = SubSeq(pipe, 1, n) /\ pipe' = SubSeq(pipe, n + 1, Len(pipe))
      BY <2>1
    <3>2. hand' \in Seq(Stream) /\ pipe' \in Seq(Stream) /\ Len(pipe) \in Nat
      BY <1>3, <3>1, CutFacts
    <3>3. 1 \in 1 .. Len(pipe) + 1 /\ n \in 1 - 1 .. Len(pipe) /\ Len(pipe) \in n .. Len(pipe)
      BY <3>2
    <3>4. SubSeq(pipe, 1, n) \o SubSeq(pipe, n + 1, Len(pipe)) = SubSeq(pipe, 1, Len(pipe))
      BY <1>3, <3>3, ConcatAdjacentSubSeq
    <3> QED BY <1>3, <3>1, <3>2, <3>4, SubSeqFull
  <2>2. CASE pipe = << >> /\ hand' = << >> /\ UNCHANGED pipe
    BY <1>3, <2>2, ConcatEmptySeq
  <2> QED BY <2>1, <2>2 DEF ReceiveHandler
<1>5. queued = << >> /\ content = [n \in 1 .. Sends |-> n] /\ \E lost \in Seq(Stream) :
         (CanWrite => lost = << >>) /\ delivered \o (InHand \o (pipe \o lost)) = All(sent)
  BY DEF ArrivalInv
<1>6. PICK lost \in Seq(Stream) :
         (CanWrite => lost = << >>) /\ delivered \o (InHand \o (pipe \o lost)) = All(sent)
  BY <1>5
<1>7. hand' \o (pipe' \o lost) = InHand \o (pipe \o lost)
  <2>1. pipe \o lost \in Seq(Stream)
    BY <1>3, <1>6, ConcatProperties
  <2>2. << >> \o (pipe \o lost) = pipe \o lost
    BY <2>1, ConcatEmptySeq
  <2>3. hand' \o (pipe' \o lost) = (hand' \o pipe') \o lost
    BY <1>4, <1>6, Regroup
  <2> QED BY <1>2, <1>4, <2>2, <2>3
<1>8. delivered' \o (InHand' \o (pipe' \o lost)) = All(sent')
  BY <1>1, <1>2, <1>6, <1>7
<1> QED BY <1>1, <1>5, <1>6, <1>8 DEF ArrivalInv

LEMMA HandlerArrives == TypeOK /\ ArrivalInv /\ HandlerReturns => ArrivalInv'
<1> SUFFICES ASSUME TypeOK, ArrivalInv, HandlerReturns, intact PROVE ArrivalInv'
  BY DEF ArrivalInv, HandlerReturns, clientVars
<1>1. UNCHANGED <<sent, queued, content, intact, pipe>> /\ CanWrite' = CanWrite /\ delivered' = delivered \o hand
  BY DEF HandlerReturns, clientVars, CanWrite
<1>2. InHand = hand /\ InHand' = << >>
  BY DEF HandlerReturns, InHand
<1>3. delivered \in Seq(Stream) /\ pipe \in Seq(Stream) /\ hand \in Seq(Stream)
  BY DEF TypeOK
<1>4. queued = << >> /\ content = [n \in 1 .. Sends |-> n] /\ \E lost \in Seq(Stream) :
         (CanWrite => lost = << >>) /\ delivered \o (InHand \o (pipe \o lost)) = All(sent)
  BY DEF ArrivalInv
<1>5. PICK lost \in Seq(Stream) :
         (CanWrite => lost = << >>) /\ delivered \o (InHand \o (pipe \o lost)) = All(sent)
  BY <1>4
<1>6. (delivered \o hand) \o (<< >> \o (pipe \o lost)) = delivered \o (hand \o (pipe \o lost))
  <2>1. pipe \o lost \in Seq(Stream)
    BY <1>3, <1>5, ConcatProperties
  <2>2. << >> \o (pipe \o lost) = pipe \o lost
    BY <2>1, ConcatEmptySeq
  <2>3. (delivered \o hand) \o (pipe \o lost) = delivered \o (hand \o (pipe \o lost))
    BY <1>3, <2>1, Regroup
  <2> QED BY <2>2, <2>3
<1>7. delivered' \o (InHand' \o (pipe' \o lost)) = All(sent')
  BY <1>1, <1>2, <1>5, <1>6
<1> QED BY <1>1, <1>4, <1>5, <1>7 DEF ArrivalInv

\* The connection ends, and what was on the way is lost with it.
LEMMA EndArrives ==
  ASSUME TypeOK, ArrivalInv, UNCHANGED <<sent, content, delivered, InHand>>, intact' = intact,
         pipe' = << >>, queued' = << >>, link' = "gone"
  PROVE  ArrivalInv'
<1> SUFFICES ASSUME intact PROVE ArrivalInv'
  BY DEF ArrivalInv
<1>1. ~CanWrite' /\ content = [n \in 1 .. Sends |-> n]
  BY DEF CanWrite, ArrivalInv
<1>2. PICK lost \in Seq(Stream) : delivered \o (InHand \o (pipe \o lost)) = All(sent)
  BY DEF ArrivalInv
<1>3. pipe \o lost \in Seq(Stream)
  BY ConcatProperties DEF TypeOK
<1>4. << >> \o (pipe \o lost) = pipe \o lost
  BY <1>3, ConcatEmptySeq
<1>5. delivered' \o (InHand' \o (pipe' \o (pipe \o lost))) = All(sent')
  BY <1>2, <1>4
<1> QED BY <1>1, <1>3, <1>5 DEF ArrivalInv

LEMMA NextArrivalInv == TypeOK /\ ArrivalInv /\ [Next]_vars => ArrivalInv'
<1> SUFFICES ASSUME TypeOK, ArrivalInv, [Next]_vars PROVE ArrivalInv'
  OBVIOUS
<1> USE DEF CanWrite, InHand
<1>1. CASE Connected
  BY <1>1, StillArrives DEF Connected, serverVars, handlerVars
<1>2. CASE Send
  BY <1>2, SendArrives
<1>3. CASE SendQueued
  BY <1>3 DEF SendQueued, ArrivalInv
<1>4. CASE OnAccept
  BY <1>4, StillArrives DEF OnAccept, clientVars, handlerVars
<1>5. CASE ReceiveHandler
  BY <1>5, ReceiveArrives
<1>6. CASE HandlerReturns
  BY <1>6, HandlerArrives
<1>7. CASE CheckTerminated \/ StartReceive \/ ThreadExits
  BY <1>7, StillArrives DEF CheckTerminated, StartReceive, ThreadExits, clientVars, handlerVars
<1>8. CASE CallTerminate
  BY <1>8, StillArrives DEF CallTerminate, handlerVars
<1>9. CASE ClientStop \/ ClientClose \/ ClientJoin
  BY <1>9, StillArrives DEF ClientStop, ClientClose, ClientJoin, serverVars, handlerVars
<1>10. CASE ServerClose
  <2>1. CASE accept = "done"
    BY <1>10, <2>1, EndArrives DEF ServerClose, handlerVars
  <2>2. CASE accept # "done"
    BY <1>10, <2>2, StillArrives DEF ServerClose, handlerVars
  <2> QED BY <2>1, <2>2
<1>11. CASE ServerStop \/ ServerJoin \/ ServerJoinCrashes
  BY <1>11, StillArrives DEF ServerStop, ServerJoin, ServerJoinCrashes, clientVars, handlerVars
<1>12. CASE ReceiveFails
  <2>1. CASE UNCHANGED <<pipe, link, queued>>
    BY <1>12, <2>1, StillArrives DEF ReceiveFails, handlerVars
  <2>2. CASE pipe' = << >> /\ link' = "gone" /\ queued' = << >>
    BY <1>12, <2>2, EndArrives DEF ReceiveFails, handlerVars
  <2> QED BY <1>12, <2>1, <2>2 DEF ReceiveFails
<1>13. CASE UNCHANGED vars
  BY <1>13, StillArrives DEF vars, clientVars, serverVars, handlerVars
<1> QED BY <1>1, <1>2, <1>3, <1>4, <1>5, <1>6, <1>7, <1>8, <1>9, <1>10, <1>11, <1>12, <1>13
        DEF Next, ServerThread, Terminating

\* As long as no send had to wait and none was written in part, the handler has
\* got the beginning of the stream of all messages, byte for byte.
THEOREM Arrival == Spec => []StreamArrives
<1>1. Init => ArrivalInv
  <2> SUFFICES ASSUME Init PROVE ArrivalInv
    OBVIOUS
  <2>1. << >> \in Seq(Stream) /\ << >> \o (<< >> \o (<< >> \o << >>)) = << >>
    BY EmptySeq, ConcatEmptySeq
  <2> QED BY <2>1, AllFacts DEF Init, ClientConstructed, ServerConstructed, ArrivalInv, InHand
<1>2. TypeOK /\ ArrivalInv => StreamArrives
  <2> SUFFICES ASSUME TypeOK, ArrivalInv, intact PROVE IsPrefix(Received, All(sent))
    BY DEF StreamArrives, All
  <2>0. Received = delivered
    <3>1. \A i \in DOMAIN delivered :
            delivered[i][1] \in 1 .. Sends /\ delivered[i] = <<delivered[i][1], delivered[i][2]>>
      BY DeliveredBytes
    <3>2. \A n \in 1 .. Sends : content[n] = n
      BY DEF ArrivalInv
    <3>3. Received = [i \in DOMAIN delivered |-> delivered[i]]
      BY <3>1, <3>2 DEF Received
    <3>4. delivered = [i \in DOMAIN delivered |-> delivered[i]]
      BY DEF TypeOK
    <3> QED BY <3>3, <3>4
  <2>1. PICK lost \in Seq(Stream) : delivered \o (InHand \o (pipe \o lost)) = All(sent)
    BY DEF ArrivalInv
  <2>2. InHand \in Seq(Stream) /\ pipe \in Seq(Stream) /\ delivered \in Seq(Stream)
    BY EmptySeq DEF TypeOK, InHand
  <2>3. InHand \o (pipe \o lost) \in Seq(Stream)
    BY <2>1, <2>2, ConcatProperties
  <2> QED BY <2>0, <2>1, <2>2, <2>3, PrefixOfConcat
<1> QED BY <1>1, <1>2, NextArrivalInv, TypeCorrect, PTL DEF Spec
=============================================================================
