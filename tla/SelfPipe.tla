----------------------------- MODULE SelfPipe -----------------------------
(***************************************************************************)
(* The self-pipe of xdr::pollset_plus: a non-blocking pipe whose bytes     *)
(* tell poll that callbacks were injected (Normal) or that a signal came   *)
(* (Signal).  Only the number of bytes of each kind matters.               *)
(***************************************************************************)
EXTENDS Naturals

Pipe == [Normal : Nat, Signal : Nat]
EmptyPipe == [Normal |-> 0, Signal |-> 0]

Bytes(p) == p.Normal + p.Signal

\* wake(wt): the result of write is not looked at, so a full pipe takes nothing.
Write(p, wt, capacity) ==
  IF Bytes(p) < capacity THEN [p EXCEPT ![wt] = @ + 1] ELSE p

=============================================================================
