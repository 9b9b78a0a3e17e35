----------------------------- MODULE Timeouts -----------------------------
(***************************************************************************)
(* The timeouts of xdr::pollset: the multimap time_cbs_, the time ::poll   *)
(* may sleep (next_timeout) and the loop that runs expired timeouts        *)
(* (run_timeouts), whose callbacks add, cancel and reschedule timeouts     *)
(* while an iterator into the multimap is live.                            *)
(***************************************************************************)
EXTENDS Integers, Sequences, SequencesExt

CONSTANTS
  Timer,          \* the timeouts of the program; a timer is pending at most once
  MaxTime,        \* bound: the clock stops there
  IntMax,         \* numeric_limits<int>::max()
  MaxCalls        \* bound: calls of timeout_at and timeout_reschedule_at

End == "end"

ASSUME BoundsAssumption ==
  /\ End \notin Timer
  /\ MaxTime \in Nat
  /\ IntMax \in Nat \ {0}
  /\ MaxCalls \in Nat

VARIABLES
  time_cbs_,      \* sequence of [at, t], ordered as the multimap iterates
  now,            \* now_ms()
  pc,             \* "user", "sleep" (in ::poll), "loop" (run_timeouts), "callback",
                  \* "undefined" (an iterator was used after it was invalidated)
  i,              \* run_timeouts: the timer its iterator points to, or End
  valid,          \* the node under the iterator is still in the map
  cached,         \* run_timeouts: the time it read before the loop
  ms, since, wait,\* poll's argument, when it began to sleep, next_timeout's result
  added,          \* history: timers inserted since the loop began
  calls           \* insertions so far

vars == <<time_cbs_, now, pc, i, valid, cached, ms, since, wait, added, calls>>

Entry == [at : 0..MaxTime, t : Timer]
Phases == {"user", "sleep", "loop", "callback", "undefined"}

Position(s, t) == CHOOSE k \in DOMAIN s : s[k].t = t
Pending(t) == \E k \in DOMAIN time_cbs_ : time_cbs_[k].t = t
Index(t) == Position(time_cbs_, t)
At(t) == time_cbs_[Index(t)].at

TypeOK ==
  /\ time_cbs_ \in Seq(Entry)
  /\ now \in 0..MaxTime /\ cached \in 0..MaxTime /\ since \in 0..MaxTime
  /\ pc \in Phases
  /\ i \in Timer \cup {End}
  /\ valid \in BOOLEAN
  /\ {ms, wait} \subseteq -(IntMax + 1)..IntMax
  /\ added \in SUBSET Timer
  /\ calls \in 0..MaxCalls

Init ==
  /\ time_cbs_ = <<>>
  /\ now = 0 /\ cached = 0 /\ since = 0
  /\ pc = "user" /\ i = End /\ valid = TRUE
  /\ ms = 0 /\ wait = 0
  /\ added = {} /\ calls = 0

----------------------------------------------------------------------------
(***************************************************************************)
(* The multimap: emplace puts an entry behind those with the same key.     *)
(***************************************************************************)
Without(s, t) == RemoveAt(s, Position(s, t))

\* Variant: the new entry goes to the end.
WithAtEnd(s, t, at) == Append(s, [at |-> at, t |-> t])

\* The upper bound of a key.
Place(s, at) ==
  CHOOSE k \in 1..Len(s) + 1 : \A j \in DOMAIN s : s[j].at <= at <=> j < k
With(s, t, at) == InsertAt(s, Place(s, at), [at |-> at, t |-> t])

UserCode == pc \in {"user", "callback"}

\* timeout_at, and timeout, which adds now_ms() to its argument.
TimeoutAt(t, at) ==
  /\ UserCode
  /\ ~Pending(t)
  /\ calls < MaxCalls /\ calls' = calls + 1
  /\ time_cbs_' = With(time_cbs_, t, at)
  /\ added' = added \cup {t}
  /\ UNCHANGED <<now, pc, i, valid, cached, ms, since, wait>>

\* timeout_cancel of a handle whose timeout is still in the map.  While its own
\* callback runs it still is.
TimeoutCancel(t) ==
  /\ UserCode
  /\ Pending(t)
  /\ time_cbs_' = Without(time_cbs_, t)
  /\ valid' = (valid /\ t # i)
  /\ UNCHANGED <<now, pc, i, cached, ms, since, wait, added, calls>>

\* timeout_reschedule_at: a new node gets the callback, the old one is erased.
TimeoutReschedule(t, at) ==
  /\ UserCode
  /\ Pending(t)
  /\ calls < MaxCalls /\ calls' = calls + 1
  /\ time_cbs_' = With(Without(time_cbs_, t), t, at)
  /\ valid' = (valid /\ t # i)
  /\ added' = added \cup {t}
  /\ UNCHANGED <<now, pc, i, cached, ms, since, wait>>

----------------------------------------------------------------------------
(***************************************************************************)
(* next_timeout.  Its result is an int: what does not fit wraps.           *)
(***************************************************************************)
ToInt(w) == IF w <= IntMax THEN w ELSE w - 2 * (IntMax + 1)

\* Variant: the wait is not clamped to an int.
NextTimeoutUnclamped(m) ==
  IF time_cbs_ = <<>> THEN m
  ELSE LET w == Head(time_cbs_).at - now
       IN  IF w <= 0 THEN 0
           ELSE IF m >= 0 /\ m <= w THEN m ELSE ToInt(w)

NextTimeout(m) ==
  IF time_cbs_ = <<>> THEN m
  ELSE LET w == Head(time_cbs_).at - now
           clamped == IF w > IntMax THEN IntMax ELSE w
       IN  IF w <= 0 THEN 0
           ELSE IF m >= 0 /\ m <= clamped THEN m ELSE ToInt(clamped)

\* poll(m) enters ::poll.
Poll(m) ==
  /\ pc = "user"
  /\ pc' = "sleep"
  /\ ms' = m /\ since' = now /\ wait' = NextTimeout(m)
  /\ UNCHANGED <<time_cbs_, now, i, valid, cached, added, calls>>

\* ::poll returns: its time is over, or some descriptor is ready; run_timeouts
\* reads the clock once and starts at the first entry.
EndSleep ==
  /\ pc' = "loop"
  /\ cached' = now
  /\ i' = IF time_cbs_ = <<>> THEN End ELSE Head(time_cbs_).t
  /\ valid' = TRUE
  /\ added' = {}
  /\ ms' = 0 /\ since' = 0 /\ wait' = 0
  /\ UNCHANGED <<time_cbs_, now, calls>>

WakeByTime == pc = "sleep" /\ wait >= 0 /\ now >= since + wait /\ EndSleep
WakeByDescriptor == pc = "sleep" /\ EndSleep

Tick ==
  /\ now < MaxTime
  /\ now' = now + 1
  /\ UNCHANGED <<time_cbs_, pc, i, valid, cached, ms, since, wait, added, calls>>

----------------------------------------------------------------------------
(***************************************************************************)
(* run_timeouts: the entry is erased after its callback, also when the     *)
(* callback throws, and the iterator moves on to the entry behind it.      *)
(***************************************************************************)
Expired == i # End /\ cached >= At(i)

RunCallback ==
  /\ pc = "loop" /\ Expired
  /\ pc' = "callback"
  /\ UNCHANGED <<time_cbs_, now, i, valid, cached, ms, since, wait, added, calls>>

Leave == pc' = "user" /\ i' = End /\ cached' = 0 /\ added' = {}

LeaveLoop ==
  /\ pc = "loop" /\ ~Expired
  /\ Leave
  /\ UNCHANGED <<time_cbs_, now, valid, ms, since, wait, calls>>

\* Variant: the iterator is advanced once more.
AfterSkipping(t) ==
  IF Index(t) + 1 >= Len(time_cbs_) THEN End ELSE time_cbs_[Index(t) + 2].t

After(t) == IF Index(t) = Len(time_cbs_) THEN End ELSE time_cbs_[Index(t) + 1].t

CallbackReturns ==
  /\ pc = "callback" /\ valid
  /\ i' = After(i)
  /\ time_cbs_' = Without(time_cbs_, i)
  /\ pc' = "loop"
  /\ UNCHANGED <<now, valid, cached, ms, since, wait, added, calls>>

\* Variant: the entry is erased only when the callback returns.
CallbackThrowsKeeping ==
  /\ pc = "callback" /\ valid
  /\ Leave
  /\ UNCHANGED <<time_cbs_, now, valid, ms, since, wait, calls>>

CallbackThrows ==
  /\ pc = "callback" /\ valid
  /\ time_cbs_' = Without(time_cbs_, i)
  /\ Leave
  /\ UNCHANGED <<now, valid, ms, since, wait, calls>>

\* erase(i++) on a node that the callback already erased.
EraseTwice ==
  /\ pc = "callback" /\ ~valid
  /\ pc' = "undefined"
  /\ UNCHANGED <<time_cbs_, now, i, valid, cached, ms, since, wait, added, calls>>

----------------------------------------------------------------------------
User ==
  \/ \E t \in Timer, at \in 0..MaxTime : TimeoutAt(t, at) \/ TimeoutReschedule(t, at)
  \/ \E t \in Timer : TimeoutCancel(t)

Loop ==
  \/ \E m \in {-1, 0, IntMax} : Poll(m)
  \/ WakeByTime
  \/ RunCallback \/ LeaveLoop
  \/ CallbackReturns \/ CallbackThrows \/ EraseTwice

Next == User \/ Loop \/ WakeByDescriptor \/ Tick

(***************************************************************************)
(* The program polls again and again (poll's typical usage), callbacks     *)
(* end, and time passes.                                                   *)
(***************************************************************************)
Spec == Init /\ [][Next]_vars /\ WF_vars(Loop) /\ WF_vars(Tick)

----------------------------------------------------------------------------
(***************************************************************************)
(* Properties.                                                             *)
(***************************************************************************)

\* ::poll sleeps no longer than poll was asked to, and never beyond the first
\* timeout: next_timeout, its clamp to an int included, neither overshoots nor
\* turns a finite wait into the negative number that means forever.
NeverOversleeps ==
  pc = "sleep" =>
    /\ ms >= 0 => wait \in 0..ms
    /\ time_cbs_ # <<>> =>
         wait >= 0 /\ (wait > 0 => since + wait <= Head(time_cbs_).at)

\* Timeouts run in the order of their times: when one runs, every earlier one
\* still in the map was put there by a callback of this very round.  (With it,
\* the state has its type.)
RunsInOrder ==
  /\ TypeOK
  /\ pc = "callback" /\ valid =>
       \A k \in DOMAIN time_cbs_ :
         time_cbs_[k].at < At(i) => time_cbs_[k].t \in added

\* run_timeouts does not stop before everything that had expired when it read the
\* clock has run, whatever the callbacks added, cancelled or rescheduled.
ExpiredAllRun ==
  [][LeaveLoop => \A k \in DOMAIN time_cbs_ :
       time_cbs_[k].at <= cached => time_cbs_[k].t \in added]_vars

\* A pending timeout runs or is cancelled or rescheduled: it never stays behind,
\* not even behind one whose callback throws.
EveryTimeoutRuns ==
  \A t \in Timer : Pending(t) ~> (~Pending(t) \/ pc = "undefined")

=============================================================================
