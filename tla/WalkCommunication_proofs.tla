---------------------- MODULE WalkCommunication_proofs -----------------------
(***************************************************************************)
(* Proofs about the walk communication, for any number of commands and any *)
(* length of the queues.                                                   *)
(*                                                                         *)
(* The properties are not inductive.  That one command at most slips past  *)
(* a suspension rests on what the commanding thread knows: with the flag   *)
(* set and a call under way that obeys it, the flag was set during that    *)
(* call, and nothing has slipped past it yet.  That no command arrives     *)
(* twice rests on the order of all the places a command can be in, and so  *)
(* does that the queue of commands is a MessageChannel.                    *)
(***************************************************************************)
EXTENDS WalkCommunication, SequenceLemmas

\* A command that is under way has been numbered.
CallIsNumbered == caller # "idle" => called \in Nat \ {0}

\* While a call that obeys the flag is under way and the flag is set, that
\* call is the one that may slip past it.
Slipping == is_suspended /\ caller # "idle" /\ Obeys(call) => held = 0

\* Commands come in the order of the calls in every place they pass through,
\* and the one under way comes after all of them.
CommandsInOrder ==
  /\ Rising(received) /\ Rising(commands) /\ Before(received, commands)
  /\ caller # "idle" => Above(called, received) /\ Above(called, commands)

IInv == TypeOK /\ CallIsNumbered /\ SuspendHolds /\ Slipping /\ CommandsInOrder

\* What the type invariant says of the two sequences of commands.
LEMMA CommandTypes ==
  ASSUME TypeOK
  PROVE  /\ called \in Nat /\ 1 .. called \in SUBSET Nat
         /\ commands \in Seq(1 .. called) /\ received \in Seq(1 .. called)
         /\ Len(commands) \in Nat /\ Len(commands) <= HighWater
         /\ \A i \in DOMAIN commands : commands[i] \in 1 .. called
         /\ \A i \in DOMAIN received : received[i] \in 1 .. called
<1>1. commands \in Seq(1 .. called) /\ received \in Seq(1 .. called) /\ called \in Nat
  BY CallsAssumption DEF TypeOK
<1> QED BY <1>1, LenProperties, ElementOfSeq DEF TypeOK

LEMMA InitIInv == Init => IInv
<1> SUFFICES ASSUME Init PROVE IInv
  OBVIOUS
<1>1. TypeOK
  <2>1. /\ commands \in Seq(1 .. called) /\ received \in Seq(1 .. called)
        /\ states \in Seq({"short", "long"}) /\ Len(states) = 0 /\ Len(commands) = 0
    BY EmptySeq DEF Init
  <2>2. {is_suspended, server, command_link, state_link} \subseteq BOOLEAN
    BY DEF Init
  <2>3. 0 \in 0 .. MaxCalls /\ 0 <= HighWater
    BY CallsAssumption, QueueAssumption
  <2>4. called \in 0 .. MaxCalls /\ held \in 0 .. MaxCalls /\ Len(commands) <= HighWater
        /\ Len(states) <= HighWater
    BY <2>1, <2>3 DEF Init
  <2>5. /\ caller \in {"idle", "looked_once", "looked"} /\ call \in Calls
        /\ reader \in {"idle", "blocked", "value", "nullopt"}
    BY DEF Init, Calls
  <2> QED BY <2>1, <2>2, <2>4, <2>5 DEF TypeOK
<1>2. CommandsInOrder
  BY EmptyRises DEF Init, CommandsInOrder
<1> QED BY <1>1, <1>2 DEF Init, IInv, CallIsNumbered, SuspendHolds, Slipping

\* A new call: its number is above all the others.
LEMMA CallKeeps ==
  ASSUME IInv, NEW c \in Calls, Call(c)
  PROVE  IInv'
<1> USE DEF IInv
<1>1. /\ called \in Nat /\ called' = called + 1 /\ called < MaxCalls /\ caller = "idle"
      /\ UNCHANGED <<is_suspended, held, linkVars, commands, states, received, reader>>
  BY CommandTypes DEF Call
<1>2. called' \in 0 .. MaxCalls /\ called' \in Nat \ {0} /\ 1 .. called \subseteq 1 .. called'
  BY <1>1, CallsAssumption DEF TypeOK
<1>3. commands' \in Seq(1 .. called') /\ received' \in Seq(1 .. called')
  BY <1>1, <1>2, CommandTypes, SeqMonotonic
<1>4. TypeOK'
  BY <1>1, <1>2, <1>3 DEF Call, TypeOK, linkVars
<1>5. CommandsInOrder'
  <2>1. Above(called', received') /\ Above(called', commands')
    BY <1>1, CommandTypes DEF Above
  <2> QED BY <1>1, <2>1 DEF CommandsInOrder
<1>6. Slipping'
  BY DEF Call, Slipping
<1> QED BY <1>1, <1>2, <1>4, <1>5, <1>6 DEF CallIsNumbered, SuspendHolds

LEMMA LookAgainKeeps == IInv /\ LookAgain => IInv'
BY DEF IInv, LookAgain, TypeOK, CallIsNumbered, SuspendHolds, Slipping, CommandsInOrder, linkVars

\* The command that leaves comes after all that left before it.
LEMMA SendCommandKeeps ==
  ASSUME IInv, SendCommand
  PROVE  IInv'
<1> USE DEF IInv
<1>1. /\ called \in 1 .. called /\ called \in 1 .. MaxCalls /\ caller = "looked" /\ caller' = "idle"
      /\ UNCHANGED <<is_suspended, called, call, linkVars, states, received, reader>>
  BY CommandTypes DEF SendCommand, TypeOK, CallIsNumbered
<1>2. /\ Rising(received) /\ Rising(commands) /\ Before(received, commands)
      /\ Above(called, received) /\ Above(called, commands)
  BY <1>1 DEF CommandsInOrder
<1>3. held' \in 0 .. MaxCalls /\ held' <= 1
  <2>1. CASE is_suspended /\ Obeys(call)
    <3>1. held = 0
      BY <1>1, <2>1 DEF Slipping
    <3>2. held' = 1
      BY <2>1, <3>1 DEF SendCommand
    <3> QED BY <1>1, <3>2, CallsAssumption
  <2>2. CASE ~(is_suspended /\ Obeys(call))
    BY <2>2 DEF SendCommand, TypeOK, SuspendHolds
  <2> QED BY <2>1, <2>2
<1>4. commands' \in Seq(1 .. called) /\ Len(commands') <= HighWater /\ CommandsInOrder'
  <2>1. CASE commands' = commands
    BY <1>1, <1>2, <2>1 DEF TypeOK, CommandsInOrder
  <2>2. CASE commands' = Append(commands, called) /\ Len(commands) < HighWater
    <3>1. /\ commands' \in Seq(1 .. called) /\ Len(commands') = Len(commands) + 1
          /\ Rising(commands') /\ Before(received, commands')
      BY <1>1, <1>2, <2>2, CommandTypes, AppendRises
    <3>2. Len(commands') <= HighWater
      BY <2>2, <3>1, CommandTypes, QueueAssumption
    <3> QED BY <1>1, <1>2, <3>1, <3>2 DEF CommandsInOrder
  <2> QED BY <2>1, <2>2 DEF SendCommand, Deliver
<1>5. TypeOK'
  BY <1>1, <1>3, <1>4 DEF TypeOK, linkVars
<1> QED BY <1>1, <1>3, <1>4, <1>5 DEF CallIsNumbered, SuspendHolds, Slipping

LEMMA SetSuspendedKeeps ==
  ASSUME IInv, NEW suspend \in BOOLEAN, hajimeSetSuspended(suspend)
  PROVE  IInv'
BY CallsAssumption DEF IInv, hajimeSetSuspended, TypeOK, CallIsNumbered, SuspendHolds, Slipping,
   CommandsInOrder, linkVars, commandVars

\* The states and their reader have no part in the order of the commands.
LEMMA ReaderKeeps ==
  ASSUME IInv, Get \/ RecvState
  PROVE  IInv'
<1> USE DEF IInv
<1>1. UNCHANGED <<is_suspended, commandVars, held, linkVars, commands, received>>
  BY DEF Get, RecvState
<1>2. /\ states' \in Seq({"short", "long"}) /\ Len(states') <= HighWater
      /\ reader' \in {"idle", "blocked", "value", "nullopt"}
  <2>1. CASE Get
    BY <2>1 DEF Get, TypeOK
  <2>2. CASE RecvState
    <3>1. /\ states \in Seq({"short", "long"}) /\ states # << >> /\ states' = Tail(states)
          /\ Len(states) <= HighWater
      BY <2>2 DEF RecvState, TypeOK
    <3>2. states' \in Seq({"short", "long"}) /\ Len(states') = Len(states) - 1 /\ Len(states) \in Nat
      BY <3>1, HeadTailProperties, LenProperties
    <3>3. Len(states') <= HighWater
      BY <3>1, <3>2, QueueAssumption
    <3>4. reader' \in {"value", "nullopt"}
      BY <2>2 DEF RecvState
    <3> QED BY <3>2, <3>3, <3>4
  <2> QED BY <2>1, <2>2
<1> QED BY <1>1, <1>2 DEF TypeOK, CallIsNumbered, SuspendHolds, Slipping, CommandsInOrder,
                          linkVars, commandVars

\* The walking program takes the oldest command, which comes before the rest.
LEMMA RecvCommandKeeps ==
  ASSUME IInv, recv_command
  PROVE  IInv'
<1> USE DEF IInv
<1> DEFINE e == Head(commands)
<1>1. /\ commands # << >> /\ commands' = Tail(commands) /\ received' = Append(received, e)
      /\ UNCHANGED <<is_suspended, commandVars, held, linkVars, states, reader>>
  BY DEF recv_command
<1>2. /\ e \in 1 .. called /\ commands' \in Seq(1 .. called) /\ Len(commands') = Len(commands) - 1
      /\ Rising(commands') /\ Below(e, commands') /\ Above(e, received) /\ Before(received, commands')
      /\ Above(called, commands) => Above(called, commands') /\ (e # 0 /\ called # 0 => e < called)
  BY <1>1, CommandTypes, TailRises DEF CommandsInOrder
<1> HIDE DEF e
<1>3. /\ received' \in Seq(1 .. called)
      /\ Rising(received') /\ Before(received', commands')
      /\ Above(called, received) /\ (e # 0 /\ called # 0 => e < called) => Above(called, received')
  BY <1>1, <1>2, CommandTypes, AppendRises DEF CommandsInOrder
<1>4. Len(commands') <= HighWater
  BY <1>2, CommandTypes, QueueAssumption
<1>5. UNCHANGED <<called, caller, call, is_suspended, held, linkVars, states, reader>>
  BY <1>1 DEF commandVars
<1>6. TypeOK'
  BY <1>2, <1>3, <1>4, <1>5 DEF TypeOK, linkVars
<1>7. CommandsInOrder'
  BY <1>2, <1>3, <1>5 DEF CommandsInOrder
<1> QED BY <1>5, <1>6, <1>7 DEF CallIsNumbered, SuspendHolds, Slipping

LEMMA SendStateKeeps ==
  ASSUME IInv, NEW size \in {"short", "long"}, send_state(size)
  PROVE  IInv'
<1> USE DEF IInv
<1>1. UNCHANGED <<is_suspended, called, caller, call, held, linkVars, commands, received, reader>>
  BY DEF send_state, commandVars
<1>2. states' \in Seq({"short", "long"}) /\ Len(states') <= HighWater
  <2>1. CASE states' = states
    BY <2>1 DEF TypeOK
  <2>2. CASE states' = Append(states, size) /\ Len(states) < HighWater
    <3>1. states \in Seq({"short", "long"})
      BY DEF TypeOK
    <3>2. states' \in Seq({"short", "long"}) /\ Len(states') = Len(states) + 1 /\ Len(states) \in Nat
      BY <2>2, <3>1, AppendProperties, LenProperties
    <3> QED BY <2>2, <3>2, QueueAssumption
  <2> QED BY <2>1, <2>2 DEF send_state
<1> QED BY <1>1, <1>2 DEF TypeOK, CallIsNumbered, SuspendHolds, Slipping, CommandsInOrder, linkVars

\* What is lost with the walking program leaves the order of the rest.
LEMMA ServerEndsKeeps ==
  ASSUME IInv, ServerEnds
  PROVE  IInv'
<1> USE DEF IInv
<1>1. /\ UNCHANGED <<is_suspended, called, caller, call, held, command_link, received, reader>>
      /\ server' = FALSE /\ state_link' = FALSE
  BY DEF ServerEnds, commandVars
<1>2. PICK n \in 0 .. Len(commands) : commands' = SubSeq(commands, n + 1, Len(commands))
  BY DEF ServerEnds
<1>3. PICK k \in 0 .. Len(states) : states' = SubSeq(states, 1, k)
  BY DEF ServerEnds
<1>4. /\ commands' \in Seq(1 .. called) /\ Len(commands') = Len(commands) - n
      /\ Rising(commands) => Rising(commands')
      /\ \A t : Before(t, commands) => Before(t, commands')
      /\ \A e : Above(e, commands) => Above(e, commands')
  BY <1>2, CommandTypes, SuffixRises
<1>5. Len(commands') <= HighWater
  BY <1>4, CommandTypes, QueueAssumption
<1>6. states' \in Seq({"short", "long"}) /\ Len(states') <= HighWater
  <2>1. states \in Seq({"short", "long"}) /\ Len(states) \in Nat /\ Len(states) <= HighWater
    BY LenProperties DEF TypeOK
  <2>2. k \in Int /\ 1 \in Int /\ \A i \in 1 .. k : states[i] \in {"short", "long"}
    BY <2>1, ElementOfSeq
  <2>3. /\ states' \in Seq({"short", "long"})
        /\ Len(states') = IF 1 <= k THEN k - 1 + 1 ELSE 0
    BY <1>3, <2>2, SubSeqProperties
  <2>4. Len(states') <= HighWater
    BY <2>1, <2>2, <2>3, QueueAssumption
  <2> QED BY <2>3, <2>4
<1>7. TypeOK'
  BY <1>1, <1>4, <1>5, <1>6 DEF TypeOK
<1>8. CommandsInOrder'
  BY <1>1, <1>4 DEF CommandsInOrder
<1> QED BY <1>1, <1>7, <1>8 DEF CallIsNumbered, SuspendHolds, Slipping

\* A program that starts and connections that come about touch no queue.
LEMMA LinksKeep ==
  ASSUME IInv, ServerStarts \/ CommandsConnect \/ StatesConnect
  PROVE  IInv'
<1>1. /\ UNCHANGED <<is_suspended, called, caller, call, held, commands, states, received, reader>>
      /\ {server', command_link', state_link'} \subseteq BOOLEAN
  BY DEF IInv, TypeOK, ServerStarts, CommandsConnect, StatesConnect, commandVars
<1> QED BY <1>1 DEF IInv, TypeOK, CallIsNumbered, SuspendHolds, Slipping, CommandsInOrder

LEMMA NextKeeps == IInv /\ [Next]_vars => IInv'
<1> SUFFICES ASSUME IInv, [Next]_vars PROVE IInv'
  OBVIOUS
<1>1. CASE \E c \in Calls : Call(c)
  BY <1>1, CallKeeps
<1>2. CASE LookAgain
  BY <1>2, LookAgainKeeps
<1>3. CASE SendCommand
  BY <1>3, SendCommandKeeps
<1>4. CASE \E suspend \in BOOLEAN : hajimeSetSuspended(suspend)
  BY <1>4, SetSuspendedKeeps
<1>5. CASE Get \/ RecvState
  BY <1>5, ReaderKeeps
<1>6. CASE recv_command
  BY <1>6, RecvCommandKeeps
<1>7. CASE \E size \in {"short", "long"} : send_state(size)
  BY <1>7, SendStateKeeps
<1>8. CASE ServerEnds
  BY <1>8, ServerEndsKeeps
<1>9. CASE ServerStarts \/ CommandsConnect \/ StatesConnect
  BY <1>9, LinksKeep
<1>10. CASE UNCHANGED vars
  BY <1>10 DEF IInv, TypeOK, CallIsNumbered, SuspendHolds, Slipping, CommandsInOrder,
               vars, commandVars, linkVars
<1> QED BY <1>1, <1>2, <1>3, <1>4, <1>5, <1>6, <1>7, <1>8, <1>9, <1>10 DEF Next

LEMMA Invariance == Spec => []IInv
BY InitIInv, NextKeeps, PTL DEF Spec

-----------------------------------------------------------------------------
\* The type invariant, for every number of calls and every length of a queue.
THEOREM TypeCorrect == Spec => []TypeOK
<1>1. IInv => TypeOK
  BY DEF IInv
<1> QED BY <1>1, Invariance, PTL

\* One command at most, whose function had looked at the flag before, leaves
\* after hajimeSetSuspended(true): whatever the threads do.
THEOREM SuspensionHolds == Spec => []SuspendHolds
<1>1. IInv => SuspendHolds
  BY DEF IInv
<1> QED BY <1>1, Invariance, PTL

\* No walking program, and no sequence of them, gets a command twice or one
\* before another that was given earlier.
THEOREM CommandsOnce == Spec => []NoCommandTwice
<1>1. IInv => NoCommandTwice
  <2> SUFFICES ASSUME IInv, NEW i \in DOMAIN received, NEW j \in DOMAIN received, i < j
               PROVE  received[i] < received[j]
    BY DEF NoCommandTwice
  <2>1. received[i] # 0 /\ received[j] # 0
    BY CommandTypes DEF IInv
  <2> QED BY <2>1 DEF IInv, CommandsInOrder, Rising
<1> QED BY <1>1, Invariance, PTL

-----------------------------------------------------------------------------
(* The commands are a channel *)

\* The command that is taken was called, after all that were taken before, so
\* that there were fewer of those than calls.
LEMMA RefinesTake ==
  ASSUME IInv, recv_command
  PROVE  Channel!Take
<1> DEFINE m == Head(commands)
<1>1. /\ server /\ commands # << >> /\ received' = Append(received, m)
      /\ called' = called /\ server' = server
  BY DEF recv_command, commandVars, linkVars
<1>2. /\ called \in Nat /\ 1 .. called \in SUBSET Nat
      /\ commands \in Seq(1 .. called) /\ received \in Seq(1 .. called)
      /\ \A i \in DOMAIN received : received[i] \in 1 .. called
      /\ Rising(received) /\ Before(received, commands)
  BY CommandTypes DEF IInv, CommandsInOrder
<1>3. m \in 1 .. called /\ Above(m, received)
  BY <1>1, <1>2, TailRises
<1> HIDE DEF m
<1>4. \A i \in DOMAIN received : received[i] < m
  BY <1>2, <1>3 DEF Above
<1>5. Len(received) < called - 0
  <2>1. Len(received) \in Nat /\ DOMAIN received = 1 .. Len(received)
    BY <1>2, LenProperties
  <2>2. \A i \in DOMAIN received : received[i] \in 0 + 1 .. m - 1
    BY <1>2, <1>3, <1>4
  <2>3. \A i, j \in DOMAIN received : i < j => received[i] < received[j]
    <3>1. \A i \in DOMAIN received : received[i] # 0
      BY <1>2
    <3> QED BY <1>2, <3>1 DEF Rising
  <2>4. m \in Nat /\ 0 < m /\ m <= called
    BY <1>2, <1>3
  <2>5. Len(received) < m - 0
    BY <2>1, <2>2, <2>3, <2>4, RoomBelow
  <2> QED BY <1>2, <2>1, <2>4, <2>5
<1>6. m \in 0 + 1 .. called
  BY <1>2, <1>3
<1> QED BY <1>1, <1>4, <1>5, <1>6 DEF Channel!Take

\* Every step of the two programs is one of the channel, or none.
LEMMA RefinesStep == IInv /\ [Next]_vars => [Channel!Next]_(Channel!vars)
<1> SUFFICES ASSUME IInv, [Next]_vars PROVE Channel!Next \/ UNCHANGED Channel!vars
  OBVIOUS
<1>1. CASE \E c \in Calls : Call(c)
  <2>1. called' = called + 1 /\ server' = server /\ received' = received
    BY <1>1 DEF Call, linkVars
  <2>2. Channel!Post
    BY <2>1 DEF Channel!Post
  <2> QED BY <2>2 DEF Channel!Next
<1>2. CASE recv_command
  BY <1>2, RefinesTake DEF Channel!Next
<1>3. CASE ServerEnds
  <2>1. server /\ server' = FALSE /\ called' = called /\ received' = received
    BY <1>3 DEF ServerEnds, commandVars
  <2>2. Channel!Close
    BY <2>1 DEF Channel!Close
  <2> QED BY <2>2 DEF Channel!Next
<1>4. CASE ServerStarts
  <2>1. ~server /\ server' = TRUE /\ called' = called /\ received' = received
    BY <1>4 DEF ServerStarts, commandVars
  <2>2. Channel!Reopen
    BY <2>1 DEF Channel!Reopen
  <2> QED BY <2>2 DEF Channel!Next
<1>5. CASE \/ LookAgain \/ SendCommand \/ \E suspend \in BOOLEAN : hajimeSetSuspended(suspend)
           \/ Get \/ RecvState \/ \E size \in {"short", "long"} : send_state(size)
           \/ CommandsConnect \/ StatesConnect \/ UNCHANGED vars
  <2>1. called' = called /\ server' = server /\ received' = received
    BY <1>5 DEF LookAgain, SendCommand, hajimeSetSuspended, Get, RecvState, send_state,
                CommandsConnect, StatesConnect, commandVars, linkVars, vars
  <2> QED BY <2>1 DEF Channel!vars
<1> QED BY <1>1, <1>2, <1>3, <1>4, <1>5 DEF Next

\* The commands pass through a channel: whatever is dropped, and however often
\* the walking program restarts, it takes what was called, each command once and
\* in the order of the calls, and nothing while it is down.
THEOREM Refinement == Spec => ImplementsChannel
<1>1. Init => Channel!Init
  BY DEF Init, Channel!Init
<1> QED BY <1>1, RefinesStep, Invariance, PTL DEF Spec, ImplementsChannel, Channel!Spec
=============================================================================
