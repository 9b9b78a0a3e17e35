------------------------------ MODULE Pollset ------------------------------
(***************************************************************************)
(* xdr::pollset (pollset.h, pollset.cc): read and write callbacks on file  *)
(* descriptors, and one round of pollset::poll.  The round is broken into  *)
(* the steps between which user code runs: every callback may register,    *)
(* replace and remove callbacks, close and open descriptors, and throw.    *)
(*                                                                         *)
(* pollfds_ is the array handed to ::poll, state_ the map from descriptors *)
(* to their callbacks.  An fd_state that is not in the map has idx 0 here  *)
(* (the code's idx -1 or no entry at all); indices start at 1.  The bits   *)
(* POLLIN and POLLOUT carry the name of the side they serve.               *)
(***************************************************************************)
EXTENDS Integers, Sequences, FiniteSets

CONSTANTS
  Fd,             \* the descriptor numbers the process uses
  Uses            \* the callbacks it registers: pairs <<side, mode>>

Side == {"Read", "Write"}
Mode == {"none", "every", "once"}      \* no callback, fd_cb(Read), fd_cb(ReadOnce)
Flag == Side \cup {"HUP", "NVAL"}      \* HUP stands for POLLHUP and POLLERR

ASSUME UsesAssumption == Uses \subseteq Side \X (Mode \ {"none"})

(***************************************************************************)
(* What ::poll can report for an entry.  HUP together with a readiness bit *)
(* selects the same callbacks as HUP alone, so it is not listed.           *)
(***************************************************************************)
Ready(isOpen, events) ==
  IF isOpen THEN (SUBSET events) \cup {{"HUP"}} ELSE {{"NVAL"}}
Reports == (SUBSET Side) \cup {{"HUP"}, {"NVAL"}}

VARIABLES
  open,           \* kernel: the descriptors that are open
  pollfds_,       \* sequence of [fd, events, revents]
  state_,         \* [Fd -> [idx, cb]], cb the mode of each side
  pc,             \* "idle" between polls, else the step poll has reached
  i, maxpoll, r,  \* poll's locals; consolidate reuses i
  due             \* history: ready callbacks this round has still to run

vars == <<open, pollfds_, state_, pc, i, maxpoll, r, due>>

PollFd == [fd : Fd, events : SUBSET Side, revents : SUBSET Flag]
None == [s \in Side |-> "none"]
Absent == [idx |-> 0, cb |-> None]

InLoop == {"read", "readcb", "write", "writecb"}
\* "others" is run_timeouts and run_subtype_handlers, whose callbacks may use
\* the descriptors too; "pop" and "swap" are the two loops of consolidate.
Phases == {"idle", "others", "pop", "swap", "aborted"} \cup InLoop

\* The points of the program at which user code runs.
UserCode == pc \in {"idle", "readcb", "writecb", "others"}

TypeOK ==
  /\ open \in SUBSET Fd
  /\ pollfds_ \in Seq(PollFd)
  /\ state_ \in [Fd -> [idx : Nat, cb : [Side -> Mode]]]
  /\ pc \in Phases
  /\ i \in Nat /\ maxpoll \in Nat /\ r \in Int
  /\ due \in SUBSET (Fd \X Side)

Init ==
  /\ open = {}
  /\ pollfds_ = <<>>
  /\ state_ = [f \in Fd |-> Absent]
  /\ pc = "idle"
  /\ i = 0 /\ maxpoll = 0 /\ r = 0
  /\ due = {}

----------------------------------------------------------------------------
(***************************************************************************)
(* Calls of user code.                                                     *)
(***************************************************************************)

\* fd_cb_helper finds or creates the entry of f: its index, and the array that
\* has it.
EntryOf(f) == IF state_[f].idx = 0 THEN Len(pollfds_) + 1 ELSE state_[f].idx

WithEntry(f) ==
  IF state_[f].idx = 0
  THEN Append(pollfds_, [fd |-> f, events |-> {}, revents |-> {}])
  ELSE pollfds_

Events(f) == IF state_[f].idx = 0 THEN {} ELSE pollfds_[state_[f].idx].events
SetEvents(f, E) == [WithEntry(f) EXCEPT ![EntryOf(f)].events = E]
SetCallbacks(f, c) == [state_ EXCEPT ![f] = [idx |-> EntryOf(f), cb |-> c]]

\* fd_cb(f, s, cb) with a callable cb: the new callback replaces the old one.
SetCb(f, s, m) ==
  /\ UserCode
  /\ f \in open
  /\ pollfds_' = SetEvents(f, Events(f) \cup {s})
  /\ state_' = SetCallbacks(f, [state_[f].cb EXCEPT ![s] = m])
  /\ due' = due \ {<<f, s>>}
  /\ UNCHANGED <<open, pc, i, maxpoll, r>>

\* fd_cb(f, s, cb) with an empty std::function: the helper creates the entry,
\* the template then removes the callback again.
SetEmptyCb(f, s) ==
  /\ UserCode
  /\ f \in open
  /\ pollfds_' = SetEvents(f, Events(f) \ {s})
  /\ state_' = SetCallbacks(f, [state_[f].cb EXCEPT ![s] = "none"])
  /\ due' = due \ {<<f, s>>}
  /\ UNCHANGED <<open, pc, i, maxpoll, r>>

\* fd_cb(f, op, nullptr): the entry stays in both containers.  On a descriptor
\* that is not in state_ the call returns at once.
RemoveCb(f, ss) ==
  /\ UserCode
  /\ state_[f].idx # 0
  /\ pollfds_' = SetEvents(f, Events(f) \ ss)
  /\ state_' = SetCallbacks(f, [s \in Side |-> IF s \in ss THEN "none"
                                               ELSE state_[f].cb[s]])
  /\ due' = due \ ({f} \X ss)
  /\ UNCHANGED <<open, pc, i, maxpoll, r>>

\* The program closes a descriptor after it has removed its callbacks (what
\* ~msg_sock does), and opens one; numbers are reused.
Close(f) ==
  /\ UserCode
  /\ f \in open
  /\ state_[f].cb = None
  /\ open' = open \ {f}
  /\ UNCHANGED <<pollfds_, state_, pc, i, maxpoll, r, due>>

Open(f) ==
  /\ UserCode
  /\ f \notin open
  /\ open' = open \cup {f}
  /\ UNCHANGED <<pollfds_, state_, pc, i, maxpoll, r, due>>

\* A callback returns to poll, or leaves poll with an exception: the rest of
\* the round, consolidate included, is skipped.
Return ==
  \/ /\ pc = "readcb" /\ pc' = "write"
     /\ UNCHANGED <<open, pollfds_, state_, i, maxpoll, r, due>>
  \/ /\ pc = "writecb" /\ pc' = "read" /\ i' = i + 1
     /\ UNCHANGED <<open, pollfds_, state_, maxpoll, r, due>>
  \/ /\ pc = "others" /\ pc' = "pop"
     /\ UNCHANGED <<open, pollfds_, state_, i, maxpoll, r, due>>

\* poll's locals are gone when it is left.
EndRound == pc' = "idle" /\ i' = 0 /\ maxpoll' = 0 /\ r' = 0 /\ due' = {}

Throw ==
  /\ pc \in {"readcb", "writecb", "others"}
  /\ EndRound
  /\ UNCHANGED <<open, pollfds_, state_>>

----------------------------------------------------------------------------
(***************************************************************************)
(* One round of poll.                                                      *)
(***************************************************************************)

\* The sides of a descriptor that an entry's revents select.
Selected(revents) == {s \in Side : revents \cap {s, "HUP"} # {}}

\* ::poll returns.  (EINTR leaves everything as it is.)
PollReturns ==
  /\ pc = "idle"
  /\ \E rev \in [DOMAIN pollfds_ -> Reports] :
       /\ \A j \in DOMAIN pollfds_ :
            rev[j] \in Ready(pollfds_[j].fd \in open, pollfds_[j].events)
       /\ pollfds_' = [j \in DOMAIN pollfds_ |->
                         [pollfds_[j] EXCEPT !.revents = rev[j]]]
       /\ r' = Cardinality({j \in DOMAIN pollfds_ : rev[j] # {}})
       /\ due' = {p \in Fd \X Side :
                    /\ state_[p[1]].cb[p[2]] # "none"
                    /\ p[2] \in Selected(rev[state_[p[1]].idx])}
  /\ maxpoll' = Len(pollfds_)
  /\ i' = 1
  /\ pc' = "read"
  /\ UNCHANGED <<open, state_>>

\* The loop condition r > 0 && i < maxpoll fails.
LoopDone == r <= 0 \/ i > maxpoll

LeaveLoop ==
  /\ pc = "read"
  /\ LoopDone
  /\ pc' = "others"
  /\ UNCHANGED <<open, pollfds_, state_, i, maxpoll, r, due>>

\* assert (!(pfp->revents & POLLNVAL)) fails.
Abort ==
  /\ pc = "read"
  /\ ~LoopDone
  /\ "NVAL" \in pollfds_[i].revents
  /\ pc' = "aborted"
  /\ UNCHANGED <<open, pollfds_, state_, i, maxpoll, r, due>>

\* Variant: the event bit of a one-shot callback stays set.
CallOrSkipKeepingEvent(s, incb, skip) ==
  LET f == pollfds_[i].fd IN
  IF s \in Selected(pollfds_[i].revents) /\ state_[f].cb[s] # "none"
  THEN /\ pc' = incb
       /\ due' = due \ {<<f, s>>}
       /\ state_' = [state_ EXCEPT ![f].cb[s] = IF @ = "once" THEN "none" ELSE @]
       /\ UNCHANGED pollfds_
  ELSE pc' = skip /\ UNCHANGED <<pollfds_, state_, due>>

\* Call the callback of side s of entry i if it was selected; a callback
\* registered with kOnceFlag is taken out first, its event bit with it.
CallOrSkip(s, incb, skip) ==
  LET f == pollfds_[i].fd IN
  IF s \in Selected(pollfds_[i].revents) /\ state_[f].cb[s] # "none"
  THEN /\ pc' = incb
       /\ due' = due \ {<<f, s>>}
       /\ IF state_[f].cb[s] = "once"
          THEN /\ pollfds_' = [pollfds_ EXCEPT ![i].events = @ \ {s}]
               /\ state_' = [state_ EXCEPT ![f].cb[s] = "none"]
          ELSE UNCHANGED <<pollfds_, state_>>
  ELSE pc' = skip /\ UNCHANGED <<pollfds_, state_, due>>

\* Variant: the round counts callbacks, not ready entries.
ReadSideCountingCallbacks ==
  /\ pc = "read"
  /\ ~LoopDone
  /\ "NVAL" \notin pollfds_[i].revents
  /\ r' = r - Cardinality(Selected(pollfds_[i].revents))
  /\ CallOrSkip("Read", "readcb", "write")
  /\ UNCHANGED <<open, i, maxpoll>>

ReadSide ==
  /\ pc = "read"
  /\ ~LoopDone
  /\ "NVAL" \notin pollfds_[i].revents
  /\ r' = IF pollfds_[i].revents # {} THEN r - 1 ELSE r
  /\ CallOrSkip("Read", "readcb", "write")
  /\ UNCHANGED <<open, i, maxpoll>>

WriteSide ==
  /\ pc = "write"
  /\ CallOrSkip("Write", "writecb", "read")
  /\ i' = IF pc' = "read" THEN i + 1 ELSE i
  /\ UNCHANGED <<open, maxpoll, r>>

----------------------------------------------------------------------------
(***************************************************************************)
(* consolidate: pop unused entries off the end, then fill each remaining   *)
(* hole with the last entry.                                               *)
(***************************************************************************)
Last == pollfds_[Len(pollfds_)]
Popped == SubSeq(pollfds_, 1, Len(pollfds_) - 1)

PopUnused ==
  /\ pc = "pop"
  /\ pollfds_ # <<>>
  /\ Last.events = {}
  /\ state_' = [state_ EXCEPT ![Last.fd] = Absent]
  /\ pollfds_' = Popped
  /\ UNCHANGED <<open, pc, i, maxpoll, r, due>>

\* Variant: the first hole is looked for at the last entry.
PopDoneTooHigh ==
  /\ pc = "pop"
  /\ pollfds_ # <<>> => Last.events # {}
  /\ IF Len(pollfds_) < 2
     THEN EndRound
     ELSE pc' = "swap" /\ i' = Len(pollfds_) /\ UNCHANGED <<maxpoll, r, due>>
  /\ UNCHANGED <<open, pollfds_, state_>>

PopDone ==
  /\ pc = "pop"
  /\ pollfds_ # <<>> => Last.events # {}
  /\ IF Len(pollfds_) < 2
     THEN EndRound
     ELSE pc' = "swap" /\ i' = Len(pollfds_) - 1 /\ UNCHANGED <<maxpoll, r, due>>
  /\ UNCHANGED <<open, pollfds_, state_>>

\* Variant: the moved entry's idx is not updated.
FillHoleKeepingIdx ==
  /\ pc = "swap" /\ i > 0
  /\ pollfds_[i].events = {}
  /\ pollfds_' = [Popped EXCEPT ![i] = Last]
  /\ state_' = [state_ EXCEPT ![pollfds_[i].fd] = Absent]
  /\ i' = i - 1
  /\ UNCHANGED <<open, pc, maxpoll, r, due>>

FillHole ==
  /\ pc = "swap" /\ i > 0
  /\ pollfds_[i].events = {}
  /\ pollfds_' = [Popped EXCEPT ![i] = Last]
  /\ state_' = [state_ EXCEPT ![pollfds_[i].fd] = Absent, ![Last.fd].idx = i]
  /\ i' = i - 1
  /\ UNCHANGED <<open, pc, maxpoll, r, due>>

KeepEntry ==
  /\ pc = "swap" /\ i > 0
  /\ pollfds_[i].events # {}
  /\ i' = i - 1
  /\ UNCHANGED <<open, pollfds_, state_, pc, maxpoll, r, due>>

PollDone ==
  /\ pc = "swap" /\ i = 0
  /\ EndRound
  /\ UNCHANGED <<open, pollfds_, state_>>

----------------------------------------------------------------------------
User ==
  \/ \E f \in Fd, u \in Uses : SetCb(f, u[1], u[2]) \/ SetEmptyCb(f, u[1])
  \/ \E f \in Fd, ss \in (SUBSET Side) \ {{}} : RemoveCb(f, ss)
  \/ \E f \in Fd : Close(f) \/ Open(f)
  \/ Return
  \/ Throw

Poll ==
  \/ PollReturns \/ LeaveLoop \/ Abort \/ ReadSide \/ WriteSide
  \/ PopUnused \/ PopDone \/ FillHole \/ KeepEntry \/ PollDone

Next == User \/ Poll

Spec == Init /\ [][Next]_vars

----------------------------------------------------------------------------
(***************************************************************************)
(* Properties.                                                             *)
(***************************************************************************)

\* state_ and pollfds_ index each other: every idx names the entry of its own
\* descriptor and every entry's descriptor points back at it.  The code relies
\* on it for pollfds_.at(idx), for the assert in fd_cb_helper (pfdp->fd == s.fd_)
\* and for state_.at(fd) in poll and consolidate, none of which may throw.
RegistryOK ==
  /\ \A f \in Fd : \/ state_[f].idx = 0
                   \/ /\ state_[f].idx \in DOMAIN pollfds_
                      /\ pollfds_[state_[f].idx].fd = f
  /\ \A j \in DOMAIN pollfds_ : state_[pollfds_[j].fd].idx = j

\* An entry polls for exactly the sides that have a callback, so no callback
\* is deaf and ::poll never spins on an event nobody handles.
EventsMatchCallbacks ==
  \A f \in Fd : Events(f) = {s \in Side : state_[f].cb[s] # "none"}

\* The positions at which poll and consolidate index pollfds_ exist: poll's
\* entries are still there after every callback, because only consolidate
\* shrinks the array, and consolidate's last entry is always above the hole it
\* fills and in use.
PositionOK ==
  /\ pc \in InLoop => /\ 1 <= i /\ maxpoll <= Len(pollfds_)
                      /\ pc # "read" => i <= maxpoll
  /\ pc = "swap" => /\ i < Len(pollfds_)
                    /\ \A j \in DOMAIN pollfds_ : i < j => pollfds_[j].events # {}

\* A round does not end before every callback that was ready when ::poll
\* returned has run, unless it was removed or replaced meanwhile: the countdown
\* of r and the fixed maxpoll never cut the round short.
NoReadyCallbackSkipped == pc \in {"others", "pop", "swap"} => due = {}

\* consolidate leaves no entry without events, so the next ::poll looks only at
\* descriptors with callbacks (and never at one that was closed meanwhile).
Compacts ==
  [][(pc = "pop" \/ pc = "swap") /\ pc' = "idle" =>
       \A j \in DOMAIN pollfds_' : pollfds_'[j].events # {}]_vars

\* ~fd_state asserts that both callbacks are empty: an fd_state leaves the map
\* only when nothing is registered on it.
ErasedUnused ==
  [][\A f \in Fd : state_[f].idx # 0 /\ state_'[f].idx = 0 => state_[f].cb = None]_vars

=============================================================================
