------------------------------- MODULE Inbox -------------------------------
(***************************************************************************)
(* What inject_cb promises its callers: callbacks wait in the order in     *)
(* which they were injected, each runs once, the first first.  They are    *)
(* taken in batches; a callback that throws takes the rest of its batch    *)
(* with it, and nothing that was injected later.                           *)
(***************************************************************************)
EXTENDS Integers, Sequences, Functions

CONSTANTS
  Cb              \* the callbacks, each injected at most once

VARIABLES
  waiting,        \* injected and still to run
  batch,          \* how many of them were taken together
  over            \* injected and no longer waiting

vars == <<waiting, batch, over>>

Init == waiting = <<>> /\ batch = 0 /\ over = {}

Inject(c) ==
  /\ c \notin over \cup Range(waiting)
  /\ waiting' = Append(waiting, c)
  /\ UNCHANGED <<batch, over>>

Take ==
  /\ batch = 0
  /\ batch' = Len(waiting)
  /\ UNCHANGED <<waiting, over>>

Run ==
  /\ batch > 0
  /\ batch' = batch - 1
  /\ waiting' = Tail(waiting)
  /\ over' = over \cup {Head(waiting)}

Throw ==
  /\ batch > 0
  /\ batch' = 0
  /\ waiting' = SubSeq(waiting, batch + 1, Len(waiting))
  /\ over' = over \cup Range(SubSeq(waiting, 1, batch))

Next == (\E c \in Cb : Inject(c)) \/ Take \/ Run \/ Throw

Spec == Init /\ [][Next]_vars

=============================================================================
