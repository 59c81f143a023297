-------------------------- MODULE WalkCommunication --------------------------
(***************************************************************************)
(* walkCommunicationClient and walkCommunicationServer                     *)
(* (my_project/hajime_cmd/classes.{hpp,cpp}): an application that commands *)
(* a robot's walking program, and that program.  Commands go one way and   *)
(* states the other, each through a pair of ZeroMQ publish and subscribe   *)
(* sockets over ipc.                                                       *)
(*                                                                         *)
(* In the application one thread gives commands, one reads states (the     *)
(* sockets may not be shared: the todo of recv_state), and any thread may  *)
(* call hajimeSetSuspended, which only stores an atomic flag.              *)
(*                                                                         *)
(* Of ZeroMQ the model keeps: a publisher drops what no subscriber has     *)
(* asked for and what does not fit into the subscriber's queue, and its    *)
(* send never fails; a connection comes about some time after both sides   *)
(* exist.  The client is the side that connects: it keeps its queue, and   *)
(* the subscription it knows of, while the walking program is gone, and    *)
(* hands the next one what was meant for the one before.                   *)
(***************************************************************************)
EXTENDS Integers, Sequences

CONSTANTS
  MaxCalls,       \* bound of the model: commands called
  HighWater       \* messages a queue holds

ASSUME CallsAssumption == MaxCalls \in Nat
ASSUME QueueAssumption == HighWater \in Nat \ {0}

\* The public functions that command, with the flag of hajimeMotion: those
\* that obey the suspension, the one-step walk, which calls the accurate walk
\* (and so looks twice), and the motion that ignores the suspension.
Calls == {"hajimeWalk", "hajimeAccurateOneStep", "hajimeMotionIgnoringSuspend"}

VARIABLES
  is_suspended,   \* is_suspended_
  called,         \* commands called so far, which numbers them
  caller,         \* the commanding thread: idle, looked_once or looked
  call,           \* the function it is in
  held,           \* commands sent since the flag was last set, motions aside (history)
  server,         \* the walking program is up
  command_link,   \* a server's subscription has reached the client
  state_link,     \* the client's subscription has reached the server
  commands,       \* the numbers of the commands in the queue
  states,         \* the states in the queue: short, or longer than the client's buffer
  received,       \* what recv_command returned (history)
  reader          \* the reading thread: idle, blocked, or value or nullopt returned

commandVars == <<called, caller, call>>
linkVars == <<server, command_link, state_link>>
vars == <<is_suspended, commandVars, held, linkVars, commands, states, received, reader>>

Init ==
  /\ is_suspended = FALSE
  /\ called = 0 /\ caller = "idle" /\ call = "hajimeWalk"
  /\ held = 0
  /\ server = TRUE /\ command_link = FALSE /\ state_link = FALSE
  /\ commands = << >> /\ states = << >>
  /\ received = << >>
  /\ reader = "idle"

-----------------------------------------------------------------------------
(* The application: commands *)

\* hajimeMotion leaves the flag alone when it is called with ignoresuspend.
Obeys(c) == c # "hajimeMotionIgnoringSuspend"

\* Mutant of Call: the flag is not looked at.
Call_Unchecked(c) ==
  /\ caller = "idle" /\ called < MaxCalls
  /\ called' = called + 1
  /\ call' = c
  /\ caller' = IF c = "hajimeAccurateOneStep" THEN "looked_once" ELSE "looked"
  /\ UNCHANGED <<is_suspended, held, linkVars, commands, states, received, reader>>

\* Any command: the flag is looked at first, and the function returns when it
\* is set.
Call(c) ==
  /\ caller = "idle" /\ called < MaxCalls
  /\ called' = called + 1
  /\ call' = c
  /\ caller' = IF is_suspended /\ Obeys(c) THEN "idle"
               ELSE IF c = "hajimeAccurateOneStep" THEN "looked_once" ELSE "looked"
  /\ UNCHANGED <<is_suspended, held, linkVars, commands, states, received, reader>>

\* hajimeAccurateWalk, called by the one-step walk, looks again.
LookAgain ==
  /\ caller = "looked_once"
  /\ caller' = IF is_suspended THEN "idle" ELSE "looked"
  /\ UNCHANGED <<is_suspended, called, call, held, linkVars, commands, states, received, reader>>

Deliver == IF command_link /\ Len(commands) < HighWater THEN Append(commands, called) ELSE commands

\* Mutant of SendCommand: it believes the 0 of send_command, that nothing was
\* sent, and tries again.
SendCommand_Retries ==
  /\ caller = "looked"
  /\ commands' = Deliver
  /\ caller' \in {"idle", "looked"}
  /\ held' = IF is_suspended /\ Obeys(call) THEN held + 1 ELSE held
  /\ UNCHANGED <<is_suspended, called, call, linkVars, states, received, reader>>

\* send_command: the result of the publisher's send always has a value, and
\* then 0 is returned; the caller takes that for a full queue and logs it, and
\* nothing else comes of it.
SendCommand ==
  /\ caller = "looked"
  /\ commands' = Deliver
  /\ caller' = "idle"
  /\ held' = IF is_suspended /\ Obeys(call) THEN held + 1 ELSE held
  /\ UNCHANGED <<is_suspended, called, call, linkVars, states, received, reader>>

hajimeSetSuspended(suspend) ==
  /\ is_suspended' = suspend
  /\ held' = 0
  /\ UNCHANGED <<commandVars, linkVars, commands, states, received, reader>>

-----------------------------------------------------------------------------
(* The application: getVoltage, getStatus and getStatusQuaternion *)

Get ==
  /\ reader # "blocked"
  /\ reader' = "blocked"
  /\ UNCHANGED <<is_suspended, commandVars, held, linkVars, commands, states, received>>

\* Mutant of RecvState: after a message that was cut it waits for the next.
RecvState_SkipsCut ==
  /\ reader = "blocked" /\ states # << >>
  /\ states' = Tail(states)
  /\ reader' = IF Head(states) = "long" THEN "blocked" ELSE "value"
  /\ UNCHANGED <<is_suspended, commandVars, held, linkVars, commands, received>>

\* recv_state takes the oldest state of the queue; one that is longer than the
\* buffer is cut, and nothing is returned.
RecvState ==
  /\ reader = "blocked" /\ states # << >>
  /\ states' = Tail(states)
  /\ reader' = IF Head(states) = "long" THEN "nullopt" ELSE "value"
  /\ UNCHANGED <<is_suspended, commandVars, held, linkVars, commands, received>>

-----------------------------------------------------------------------------
(* The walking program *)

\* recv_command: a command is never longer than the server's buffer.
recv_command ==
  /\ server /\ commands # << >>
  /\ received' = Append(received, Head(commands))
  /\ commands' = Tail(commands)
  /\ UNCHANGED <<is_suspended, commandVars, held, linkVars, states, reader>>

send_state(size) ==
  /\ server
  /\ states' = IF state_link /\ Len(states) < HighWater THEN Append(states, size) ELSE states
  /\ UNCHANGED <<is_suspended, commandVars, held, linkVars, commands, received, reader>>

\* The program ends or crashes.  What had left the client's queue of commands
\* is lost, and so are the states that had not reached the client.
ServerEnds ==
  /\ server
  /\ server' = FALSE /\ state_link' = FALSE
  /\ \E n \in 0 .. Len(commands) : commands' = SubSeq(commands, n + 1, Len(commands))
  /\ \E n \in 0 .. Len(states) : states' = SubSeq(states, 1, n)
  /\ UNCHANGED <<is_suspended, commandVars, held, command_link, received, reader>>

ServerStarts ==
  /\ ~server
  /\ server' = TRUE
  /\ UNCHANGED <<is_suspended, commandVars, held, command_link, state_link,
                 commands, states, received, reader>>

\* ZeroMQ connects, and connects again, each pair of sockets by itself.
CommandsConnect ==
  /\ server /\ ~command_link
  /\ command_link' = TRUE
  /\ UNCHANGED <<is_suspended, commandVars, held, server, state_link,
                 commands, states, received, reader>>

StatesConnect ==
  /\ server /\ ~state_link
  /\ state_link' = TRUE
  /\ UNCHANGED <<is_suspended, commandVars, held, server, command_link,
                 commands, states, received, reader>>

-----------------------------------------------------------------------------
Next ==
  \/ \E c \in Calls : Call(c)
  \/ LookAgain \/ SendCommand
  \/ \E suspend \in BOOLEAN : hajimeSetSuspended(suspend)
  \/ Get \/ RecvState
  \/ recv_command
  \/ \E size \in {"short", "long"} : send_state(size)
  \/ ServerEnds \/ ServerStarts \/ CommandsConnect \/ StatesConnect

Spec == Init /\ [][Next]_vars

\* The operating system runs every thread; ZeroMQ connects; the walking
\* program, which is restarted when it ends, publishes in every turn of its
\* loop, states that fit among them.
FairSpec ==
  /\ Spec
  /\ WF_vars(LookAgain \/ SendCommand)
  /\ WF_vars(RecvState)
  /\ WF_vars(ServerStarts) /\ WF_vars(CommandsConnect) /\ WF_vars(StatesConnect)
  /\ WF_vars(recv_command)
  /\ WF_vars(\E size \in {"short", "long"} : send_state(size))

-----------------------------------------------------------------------------
(* Properties *)

\* The type invariant.
TypeOK ==
  /\ {is_suspended, server, command_link, state_link} \subseteq BOOLEAN
  /\ called \in 0 .. MaxCalls
  /\ caller \in {"idle", "looked_once", "looked"}
  /\ call \in Calls
  /\ held \in 0 .. MaxCalls
  /\ commands \in Seq(1 .. called) /\ Len(commands) <= HighWater
  /\ states \in Seq({"short", "long"}) /\ Len(states) <= HighWater
  /\ received \in Seq(1 .. called)
  /\ reader \in {"idle", "blocked", "value", "nullopt"}

\* After hajimeSetSuspended(true) has returned, at most one command that obeys
\* it still leaves: the one whose function had looked at the flag before.
SuspendHolds == held <= 1

\* The walking program gets every command at most once and in the order of
\* the calls, however often it was restarted with commands in the queue.
NoCommandTwice ==
  \A i, j \in DOMAIN received : i < j => received[i] < received[j]

\* Seen from the walking program, the queue of commands is one channel that its
\* restarts do not renew: every call of the application is a message, one that
\* the flag stops is lost, and so is what does not fit.
Channel == INSTANCE MessageChannel WITH
  posted <- called, since <- 0, open <- server, taken <- received
ImplementsChannel == Channel!Spec

\* A getter that blocks returns, unless the walking program keeps ending.
GetterReturns == <>[]server => (reader = "blocked" ~> reader # "blocked")
=============================================================================
