------------------------------ MODULE PictureQueue ------------------------------
(***************************************************************************)
(* The picture queue of socket/: a sender (sender.cpp, in the place of     *)
(* Webots) and a receiver (receiver.cpp, in the place of the vision        *)
(* program), two processes around one named message queue in shared        *)
(* memory.  The receiver removes the queue of that name and makes a new    *)
(* one; the sender waits until there is one, opens it once more and sends. *)
(* Both may end, or crash, at any moment and start again; a queue that was *)
(* removed lives on for those who opened it.                               *)
(***************************************************************************)
EXTENDS CameraMeasurement, FiniteSets

CONSTANTS
  Pictures,         \* the pictures a sender may compose
  Capacity,         \* messages a queue holds: 5 in the source
  max_len_message,  \* length of a message, and of the receiver's buffer
  MaxStarts,        \* bound of the model: starts of the receiver
  MaxSends          \* bound of the model: messages sent, by all senders

ASSUME QueueAssumption ==
  Capacity \in Nat \ {0} /\ max_len_message \in Nat /\ MaxStarts \in Nat /\ MaxSends \in Nat
\* A picture is a message that no parse has given unknown fields, and it fits.
ASSUME PictureAssumption ==
  \A p \in Pictures :
    /\ p \in [name : Seq(Byte), width : Nat, height : Nat, quality : Int, image : Seq(Byte),
              simtime : Nat, unknown : {<< >>}]
    /\ Len(InternalSerialize(p)) \in 1 .. max_len_message

VARIABLES
  sender,         \* down, waiting, found, sending
  picture,        \* the picture the sender composed
  msgq,           \* the queue the sender opened, 0 if none
  receiver,       \* down, removed, receiving
  named,          \* the queue of the name, 0 if there is none
  queues,         \* the contents of every queue made so far
  received_data,
  sent,           \* history: number of messages sent by anybody
  before,         \* history: how many of them when this receiver made its queue
  received        \* history: what this receiver has taken from its queue

senderVars == <<sender, picture, msgq>>
receiverVars == <<receiver, received_data, before, received>>
vars == <<senderVars, receiverVars, named, queues, sent>>

\* A receiver uses the queue it made, the last one of all.
Newest == Len(queues)

\* A picture as the sender makes it: the fields it leaves out are at their defaults.
Composed(image, simtime, width, height) ==
  set_height(set_width(set_simtime(set_image(SharedCtor, image), simtime), width), height)

\* What is sent is data; its number and its picture are history.
Message(num, p) == [num |-> num, picture |-> p, data |-> InternalSerialize(p)]

Init ==
  /\ sender = "down" /\ picture = SharedCtor /\ msgq = 0
  /\ receiver = "down" /\ received_data = << >>
  /\ named = 0 /\ queues = << >>
  /\ sent = 0 /\ before = 0 /\ received = << >>

\* The message of the receiver: the whole buffer is parsed, not the bytes that
\* were received, and nobody asks whether that succeeded.  The parse clears the
\* message first, which makes it a function of the buffer.
recv_pic == ParseFromString(SharedCtor, received_data).msg

-----------------------------------------------------------------------------
(* The sender *)

SenderStarts(p) ==
  /\ sender = "down"
  /\ sender' = "waiting"
  /\ picture' = p
  /\ msgq' = 0
  /\ UNCHANGED <<receiverVars, named, queues, sent>>

\* The loop that opens the queue to see whether it exists, and closes it again.
Wait ==
  /\ sender = "waiting"
  /\ named # 0
  /\ sender' = "found"
  /\ UNCHANGED <<picture, msgq, receiverVars, named, queues, sent>>

\* Opens the queue again, outside the try: when a receiver has removed it in
\* between, nobody catches the exception.
Open ==
  /\ sender = "found"
  /\ IF named = 0 THEN sender' = "down" ELSE sender' = "sending"
  /\ msgq' = named
  /\ UNCHANGED <<picture, receiverVars, named, queues, sent>>

\* Blocks while the queue is full.
Send ==
  /\ sender = "sending"
  /\ sent < MaxSends
  /\ Len(queues[msgq]) < Capacity
  /\ queues' = [queues EXCEPT ![msgq] = Append(@, Message(sent + 1, picture))]
  /\ sent' = sent + 1
  /\ UNCHANGED <<senderVars, receiverVars, named>>

SenderEnds ==
  /\ sender # "down"
  /\ sender' = "down"
  /\ msgq' = 0
  /\ UNCHANGED <<picture, receiverVars, named, queues, sent>>

-----------------------------------------------------------------------------
(* The receiver *)

\* Mutant of RemoveQueue: the queue of an earlier receiver is not removed.
RemoveQueue_Keeps ==
  /\ receiver = "down"
  /\ Newest < MaxStarts
  /\ receiver' = "removed"
  /\ UNCHANGED <<senderVars, received_data, before, received, named, queues, sent>>

RemoveQueue ==
  /\ receiver = "down"
  /\ Newest < MaxStarts
  /\ receiver' = "removed"
  /\ named' = 0
  /\ UNCHANGED <<senderVars, received_data, before, received, queues, sent>>

\* Opens the queue of the name or makes one; the buffer of a new process is zero.
OpenOrCreate ==
  /\ receiver = "removed"
  /\ receiver' = "receiving"
  /\ IF named = 0
     THEN queues' = Append(queues, << >>) /\ named' = Len(queues) + 1
     ELSE UNCHANGED <<queues, named>>
  /\ received_data' = [i \in 1 .. max_len_message |-> 0]
  /\ before' = sent
  /\ received' = << >>
  /\ UNCHANGED <<senderVars, sent>>

\* Mutant of Overwritten: the message goes behind the one that is there.
Overwritten_Shifted(buffer, data) ==
  <<buffer[1]>> \o data \o SubSeq(buffer, Len(data) + 2, Len(buffer))

\* The message is written over the front of the buffer.
Overwritten(buffer, data) ==
  data \o SubSeq(buffer, Len(data) + 1, Len(buffer))

\* Mutant of Receive: the receiver waits for a full queue.
Receive_WhenFull ==
  /\ receiver = "receiving"
  /\ Len(queues[Newest]) = Capacity
  /\ LET message == Head(queues[Newest])
     IN  /\ received_data' = Overwritten(received_data, message.data)
         /\ received' = Append(received, message)
  /\ queues' = [queues EXCEPT ![Newest] = Tail(@)]
  /\ UNCHANGED <<senderVars, receiver, before, named, sent>>

\* Every receive is followed by a parse, which is why recv_pic is no variable.
Receive ==
  /\ receiver = "receiving"
  /\ queues[Newest] # << >>
  /\ LET message == Head(queues[Newest])
     IN  /\ received_data' = Overwritten(received_data, message.data)
         /\ received' = Append(received, message)
  /\ queues' = [queues EXCEPT ![Newest] = Tail(@)]
  /\ UNCHANGED <<senderVars, receiver, before, named, sent>>

\* The process ends or crashes; its queue stays.
ReceiverEnds ==
  /\ receiver # "down"
  /\ receiver' = "down"
  /\ UNCHANGED <<senderVars, received_data, before, received, named, queues, sent>>

-----------------------------------------------------------------------------
Next ==
  \/ \E p \in Pictures : SenderStarts(p)
  \/ Wait \/ Open \/ Send \/ SenderEnds
  \/ RemoveQueue \/ OpenOrCreate \/ Receive \/ ReceiverEnds

Spec == Init /\ [][Next]_vars

\* Both processes go on with what they have begun; nothing makes them start, or
\* end.
FairSpec ==
  Spec /\ WF_vars(Wait) /\ WF_vars(Open) /\ WF_vars(Send)
       /\ WF_vars(OpenOrCreate) /\ WF_vars(Receive)

-----------------------------------------------------------------------------
(* Properties *)

\* What the receiver shows is the picture it took last, all of it and nothing
\* else, unless an earlier message of its life was longer: then the tail of
\* that one is parsed as well.  A shorter predecessor, zeros, and a result of
\* the parse that nobody looks at do no harm.
ShownIsSent ==
  \A i \in {Len(received)} \ {0} :
    (\A j \in DOMAIN received : Len(received[j].data) <= Len(received[i].data))
      => recv_pic = received[i].picture

\* A receiver never shows what was sent before it made its queue, whichever
\* senders of which age there are, and takes pictures in the order in which
\* they were sent, none of them twice.
PicturesInOrder ==
  /\ \A i \in DOMAIN received : received[i].num > before
  /\ \A i, j \in DOMAIN received : i < j => received[i].num < received[j].num

\* Seen from the receiver, the queues are a channel that is made anew whenever it
\* starts, although the senders, and the queues of its predecessors, are still
\* there: nobody is ever served from a queue that is not his.
Channel == INSTANCE MessageChannel WITH
  posted <- sent, since <- before, open <- receiver = "receiving",
  taken <- [i \in DOMAIN received |-> received[i].num]
ImplementsChannel == Channel!Spec

\* A sender and a receiver that stay on the same queue get everything across,
\* however small the queue is: sending blocks, but not for ever.
AllArrive ==
  <>[](sender = "sending" /\ receiver = "receiving" /\ msgq = Newest)
    => <>(sent = MaxSends /\ \A q \in {msgq} \ {0} : queues[q] = << >>)

\* The laws of the generated class, for the message the sender composed and the
\* one the receiver parsed, with the unknown fields that old tails left in it:
\* parsing two messages written one behind the other merges the second into the
\* first, the size that is computed is the size that is written, a message that
\* was copied, either way, is the same, and swapping or moving loses nothing.
PictureLaws ==
  \A a, b \in {picture, recv_pic} :
    /\ ParseFromString(a, InternalSerialize(a) \o InternalSerialize(b))
         = [msg |-> MergeFrom(a, b), ok |-> TRUE]
    /\ ByteSizeLong(a) = Len(InternalSerialize(a))
    /\ CopyFrom(a, b) = b /\ CopyConstructor(b) = b
    /\ Swap(a, b) = <<b, a>> /\ MoveConstructor(a) = <<a, SharedCtor>>
=============================================================================
