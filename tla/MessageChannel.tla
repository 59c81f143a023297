--------------------------- MODULE MessageChannel ----------------------------
(***************************************************************************)
(* What the three ways in which programs here hand messages to each other  *)
(* promise the program that takes them (the UDP sockets, the commands for  *)
(* the walking program, the queue of pictures), whatever buffers, threads, *)
(* losses and restarts lie in between.  Messages are numbered as they are  *)
(* posted.  Any of them may be lost, but none is taken twice, after one    *)
(* that was posted later, or out of nowhere, and nothing is taken from a   *)
(* channel that is closed.  A new taker either gets the place of the old   *)
(* one, whose order goes on, or a channel of its own, in which nothing     *)
(* comes that was posted before.                                           *)
(*                                                                         *)
(* A message is its place in the order of the posts.  What its contents    *)
(* have become is for each way to say.                                     *)
(***************************************************************************)
EXTENDS Integers, Sequences

VARIABLES
  posted,   \* messages posted so far
  since,    \* how many of them when the channel was made
  open,     \* somebody takes messages
  taken     \* the numbers of the messages taken from this channel

vars == <<posted, since, open, taken>>

Init ==
  /\ posted = 0 /\ since = 0
  /\ open \in BOOLEAN
  /\ taken = << >>

Post ==
  /\ posted' = posted + 1
  /\ UNCHANGED <<since, open, taken>>

\* One message, of those that came into this channel and are not accounted for.
Take ==
  /\ open
  /\ Len(taken) < posted - since
  /\ \E n \in since + 1 .. posted :
       /\ \A i \in DOMAIN taken : taken[i] < n
       /\ taken' = Append(taken, n)
  /\ UNCHANGED <<posted, since, open>>

Close ==
  /\ open
  /\ open' = FALSE
  /\ UNCHANGED <<posted, since, taken>>

Reopen ==
  /\ ~open
  /\ open' = TRUE
  /\ UNCHANGED <<posted, since, taken>>

\* A new channel takes the place of the old one.
Renew ==
  /\ ~open
  /\ open' = TRUE
  /\ since' = posted
  /\ taken' = << >>
  /\ UNCHANGED posted

Next == Post \/ Take \/ Close \/ Reopen \/ Renew

Spec == Init /\ [][Next]_vars
=============================================================================
