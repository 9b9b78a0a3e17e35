------------------------------ MODULE Channel ------------------------------
(***************************************************************************)
(* What a pair of msg_socks promises: messages arrive whole, once, and in  *)
(* the order in which they were put.  One that arrives while its receiver  *)
(* has no callback is skipped.                                             *)
(***************************************************************************)
EXTENDS Sequences

CONSTANTS
  Msg             \* contents of messages

VARIABLES
  waiting,        \* put and not arrived
  received,       \* handed to the receiver's callback
  listening       \* the receiver has a callback

vars == <<waiting, received, listening>>

Init == waiting = <<>> /\ received = <<>> /\ listening \in BOOLEAN

Put(m) == waiting' = Append(waiting, m) /\ UNCHANGED <<received, listening>>

Deliver ==
  /\ listening
  /\ waiting # <<>>
  /\ received' = Append(received, Head(waiting))
  /\ waiting' = Tail(waiting)
  /\ UNCHANGED listening

Skip ==
  /\ ~listening
  /\ waiting # <<>>
  /\ waiting' = Tail(waiting)
  /\ UNCHANGED <<received, listening>>

Listen == listening' \in BOOLEAN /\ UNCHANGED <<waiting, received>>

Next == (\E m \in Msg : Put(m)) \/ Deliver \/ Skip \/ Listen

Spec == Init /\ [][Next]_vars

=============================================================================
