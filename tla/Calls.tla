------------------------------- MODULE Calls -------------------------------
(***************************************************************************)
(* What RPC promises about the calls of a client: the server executes a    *)
(* call at most once, and the client's callback gets one answer, its own.  *)
(* A result says that the call was executed; any other answer leaves it    *)
(* open whether it was, or still will be.                                  *)
(***************************************************************************)
EXTENDS Sequences, SequencesExt

CONSTANTS
  Call,
  What            \* kinds of answers, one of them "result"

VARIABLES
  issued,         \* calls that were made
  executed,       \* calls in the order of their execution
  answer          \* per call: the first answer, [what |-> "none", of |-> c] before

vars == <<issued, executed, answer>>

Init ==
  /\ issued = {}
  /\ executed = <<>>
  /\ answer = [c \in Call |-> [what |-> "none", of |-> c]]

Issue(c) ==
  /\ c \notin issued
  /\ issued' = issued \cup {c}
  /\ UNCHANGED <<executed, answer>>

Execute(c) ==
  /\ c \in issued
  /\ c \notin ToSet(executed)
  /\ executed' = Append(executed, c)
  /\ UNCHANGED <<issued, answer>>

Answer(c, w) ==
  /\ c \in issued
  /\ answer[c].what = "none"
  /\ w = "result" => c \in ToSet(executed)
  /\ answer' = [answer EXCEPT ![c].what = w]
  /\ UNCHANGED <<issued, executed>>

Next == \E c \in Call : Issue(c) \/ Execute(c) \/ \E w \in What : Answer(c, w)

Spec == Init /\ [][Next]_vars

=============================================================================
