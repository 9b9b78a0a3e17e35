------------------------------ MODULE Signals ------------------------------
(***************************************************************************)
(* Signal callbacks of xdr::pollset_plus.  A signal has one owner in the   *)
(* whole process; its handler, which runs in any thread, marks the signal  *)
(* and wakes the owner through its self-pipe, and the owner's poll calls   *)
(* the callback.  signal_cb adds a callback (stealing the signal from      *)
(* another pollset_plus if need be) or removes one; the destructor removes *)
(* all.                                                                    *)
(*                                                                         *)
(* Every pollset_plus is polled, changed and destroyed by a thread of its  *)
(* own.  signal_owners and signal_cbs_ change only under                   *)
(* signal_owners_lock; the handler takes no lock, so a step ends wherever  *)
(* a handler can see or change something.  The fences in the code make the *)
(* accesses to signal_owners and signal_flags sequentially consistent.     *)
(***************************************************************************)
EXTENDS Integers, FiniteSets

CONSTANTS
  PS,             \* the pollset_plus objects, and the threads that use them
  Sig,            \* signal numbers
  Handler,        \* threads in which the handler may run
  Refused,        \* signals that sigaction refuses to catch
  Throwers,       \* callbacks that may throw: "signal" callbacks, "other" ones
  CallbacksChange,\* callbacks may call signal_cb
  Removes,        \* signals are removed, and not only stolen
  Interrupting,   \* a handler interrupts the threads, as it does in a program
                  \* that has only one, or runs beside them
  MaxSignals,     \* bound: signals delivered
  MaxCalls        \* bound: calls of signal_cb and of the destructor

None == "none"
Free == "free"

ASSUME SignalAssumption ==
  /\ Sig \subseteq 1..31 /\ Refused \subseteq Sig
  /\ None \notin PS /\ Free \notin PS
  /\ Throwers \subseteq {"signal", "other"}
  /\ {CallbacksChange, Removes, Interrupting} \subseteq BOOLEAN
  /\ MaxSignals \in Nat /\ MaxCalls \in Nat

VARIABLES
  owner,          \* signal_owners
  flag,           \* signal_flags: 0, 1 (wake in progress) or 2
  caught,         \* signals whose disposition is signal_handler
  cbs,            \* keys of signal_cbs_
  woken,          \* a Signal byte is in the self-pipe
  signal_pending_,
  lock,           \* signal_owners_lock: the thread that holds it, or Free
  thread,         \* per pollset_plus: what its thread does
  handler,        \* per handler thread: what its signal_handler does
  overtaken,      \* history: signals whose removal undid what a handler had marked
  unguarded,      \* history: signals stolen, or whose mark was replaced, while a handler
                  \* was about to wake their owner
  signals, calls  \* signals delivered and calls made

vars == <<owner, flag, caught, cbs, woken, signal_pending_, lock, thread, handler,
          overtaken, unguarded, signals, calls>>
tables == <<owner, caught, cbs>>
crossings == <<overtaken, unguarded>>
counters == <<crossings, signals, calls>>

ThreadPC == {"loop", "dispatch", "next", "clear", "callback", "adding", "spin",
             "reraise", "destroy", "closing", "gone"}
HandlerPC == {"idle", "entered", "mark", "read", "wake", "finish"}

TypeOK ==
  /\ owner \in [Sig -> PS \cup {None}]
  /\ flag \in [Sig -> 0..2]
  /\ caught \in SUBSET Sig
  /\ cbs \in [PS -> SUBSET Sig]
  /\ woken \in [PS -> BOOLEAN] /\ signal_pending_ \in [PS -> BOOLEAN]
  /\ lock \in PS \cup {Free}
  /\ thread \in [PS -> [pc : ThreadPC, sig : Sig \cup {0}, back : ThreadPC,
                        pending : SUBSET Sig]]
  /\ handler \in [Handler -> [pc : HandlerPC, sig : Sig \cup {0}, ps : PS \cup {None}]]
  /\ overtaken \in SUBSET Sig /\ unguarded \in SUBSET Sig
  /\ signals \in 0..MaxSignals /\ calls \in 0..MaxCalls

Init ==
  /\ owner = [s \in Sig |-> None] /\ flag = [s \in Sig |-> 0] /\ caught = {}
  /\ cbs = [p \in PS |-> {}]
  /\ woken = [p \in PS |-> FALSE] /\ signal_pending_ = [p \in PS |-> FALSE]
  /\ lock = Free
  /\ thread = [p \in PS |-> [pc |-> "loop", sig |-> 0, back |-> "loop", pending |-> {}]]
  /\ handler = [h \in Handler |-> [pc |-> "idle", sig |-> 0, ps |-> None]]
  /\ overtaken = {} /\ unguarded = {} /\ signals = 0 /\ calls = 0

Alive(p) == thread[p].pc # "gone"
Acquire(p) == lock = Free /\ lock' = p
Release == lock' = Free

\* A handler of s is at one of the pcs.
Handling(s, pcs) == \E h \in Handler : handler[h].sig = s /\ handler[h].pc \in pcs

\* What keeps the owner of s alive (s being its own, or the mark) is taken away,
\* perhaps under a handler of H that is at one of the pcs.
Exposes(s, pcs, H) ==
  unguarded' = IF \E h \in H : handler[h].sig = s /\ handler[h].pc \in pcs
               THEN unguarded \cup {s} ELSE unguarded

\* Thread p is at pc and may take a step.
At(p, pc) ==
  /\ thread[p].pc = pc
  /\ Interrupting => \A h \in Handler : handler[h].pc = "idle"

\* Thread p goes to pc.
Go(p, pc) == thread' = [thread EXCEPT ![p].pc = pc]

----------------------------------------------------------------------------
(***************************************************************************)
(* signal_handler.                                                         *)
(***************************************************************************)

\* A caught signal is delivered: h starts its handler.
Deliver(h, s) ==
  /\ s \in caught
  /\ signals < MaxSignals
  /\ handler[h].pc = "idle"
  /\ handler' = [handler EXCEPT ![h] = [pc |-> "entered", sig |-> s, ps |-> None]]
  /\ signals' = signals + 1
  /\ UNCHANGED <<tables, flag, woken, signal_pending_, lock, thread, crossings, calls>>

\* if (signal_flags[sig]) return;
Check(h) ==
  /\ handler[h].pc = "entered"
  /\ handler' = [handler EXCEPT ![h].pc =
                   IF flag[handler[h].sig] # 0 THEN "idle" ELSE "mark"]
  /\ UNCHANGED <<tables, flag, woken, signal_pending_, lock, thread, counters>>

Mark(h) ==
  /\ handler[h].pc = "mark"
  /\ flag' = [flag EXCEPT ![handler[h].sig] = 1]
  /\ handler' = [handler EXCEPT ![h].pc = "read"]
  /\ UNCHANGED <<tables, woken, signal_pending_, lock, thread, counters>>

ReadOwner(h) ==
  /\ handler[h].pc = "read"
  /\ LET ps == owner[handler[h].sig]
     IN handler' = [handler EXCEPT ![h].ps = ps,
                                   ![h].pc = IF ps = None THEN "finish" ELSE "wake"]
  /\ UNCHANGED <<tables, flag, woken, signal_pending_, lock, thread, counters>>

\* ps->wake(Signal).  If ps was destroyed the write goes to a descriptor that is
\* closed, and wakes nobody.
WakeOwner(h) ==
  /\ handler[h].pc = "wake"
  /\ woken' = [woken EXCEPT ![handler[h].ps] = Alive(handler[h].ps)]
  /\ handler' = [handler EXCEPT ![h].pc = "finish"]
  /\ UNCHANGED <<tables, flag, signal_pending_, lock, thread, counters>>

\* If another handler of the signal is at work, its mark is gone with this one's.
Finish(h) ==
  /\ handler[h].pc = "finish"
  /\ flag' = [flag EXCEPT ![handler[h].sig] = 2]
  /\ handler' = [handler EXCEPT ![h].pc = "idle"]
  /\ Exposes(handler[h].sig, {"read", "wake"}, Handler \ {h})
  /\ UNCHANGED <<tables, woken, signal_pending_, lock, thread, overtaken, signals, calls>>

----------------------------------------------------------------------------
(***************************************************************************)
(* signal_cb and the destructor, called by thread p outside poll or in a   *)
(* signal callback.                                                        *)
(***************************************************************************)

MayCall(p) ==
  /\ calls < MaxCalls
  /\ calls' = calls + 1
  /\ At(p, "loop") \/ (CallbacksChange /\ At(p, "callback"))

\* p->signal_cb(s, cb) for a signal that p does not own (for its own, only the
\* callback is replaced): p becomes the owner, and the previous owner, if any,
\* forgets it.
AddSignal(p, s) ==
  /\ MayCall(p)
  /\ Acquire(p)
  /\ owner[s] # p
  /\ owner[s] = None => s \notin Refused
  /\ owner' = [owner EXCEPT ![s] = p]
  /\ cbs' = [q \in PS |-> IF q = p THEN cbs[q] \cup {s}
                          ELSE IF q = owner[s] THEN cbs[q] \ {s} ELSE cbs[q]]
  /\ caught' = caught \cup {s}
  /\ thread' = [thread EXCEPT ![p].pc = "adding", ![p].sig = s, ![p].back = thread[p].pc]
  /\ Exposes(s, {"wake"}, Handler)
  /\ UNCHANGED <<flag, woken, signal_pending_, handler, overtaken, signals>>

\* sigaction fails: signal_cb takes back the owner and throws.
AddRefused(p, s) ==
  /\ MayCall(p)
  /\ lock = Free
  /\ owner[s] = None /\ s \in Refused
  /\ cbs' = [cbs EXCEPT ![p] = @ \cup {s}]
  /\ UNCHANGED <<owner, flag, caught, woken, signal_pending_, lock, thread, handler, crossings, signals>>

\* The end of signal_cb: if (signal_flags[sig]) wake(Signal).
Added(p) ==
  /\ At(p, "adding")
  /\ woken' = [woken EXCEPT ![p] = @ \/ flag[thread[p].sig] # 0]
  /\ Release
  /\ Go(p, thread[p].back)
  /\ UNCHANGED <<tables, flag, signal_pending_, handler, counters>>

\* Variant: the callback stays in signal_cbs_.
UnhookKeepingCallback(p, s) ==
  /\ owner[s] # None
  /\ caught' = caught \ {s}
  /\ owner' = [owner EXCEPT ![s] = None]
  /\ thread' = [thread EXCEPT ![p].pc = "spin", ![p].sig = s, ![p].back = thread[p].pc]
  /\ UNCHANGED cbs

\* erase_signal_cb for an owned signal, up to the loop that waits for a handler.
Unhook(p, s) ==
  /\ owner[s] # None
  /\ caught' = caught \ {s}
  /\ owner' = [owner EXCEPT ![s] = None]
  /\ cbs' = [cbs EXCEPT ![owner[s]] = @ \ {s}]
  /\ thread' = [thread EXCEPT ![p].pc = "spin", ![p].sig = s, ![p].back = thread[p].pc]

\* signal_cb(s) from thread p, whoever owns s.
RemoveSignal(p, s) ==
  /\ Removes
  /\ MayCall(p)
  /\ Acquire(p)
  /\ Unhook(p, s)
  /\ UNCHANGED <<flag, woken, signal_pending_, handler, crossings, signals>>

RemoveNothing(p, s) ==
  /\ Removes
  /\ MayCall(p)
  /\ lock = Free
  /\ owner[s] = None
  /\ UNCHANGED <<tables, flag, woken, signal_pending_, lock, thread, handler, crossings, signals>>

\* Variant: the loop that waits is left out.
SpunAtOnce(p) ==
  /\ At(p, "spin")
  /\ Go(p, "reraise")
  /\ UNCHANGED <<tables, flag, woken, signal_pending_, lock, handler, counters>>

\* while (signal_flags[sig] & 1) yield();
Spun(p) ==
  /\ At(p, "spin")
  /\ flag[thread[p].sig] # 1
  /\ Go(p, "reraise")
  /\ UNCHANGED <<tables, flag, woken, signal_pending_, lock, handler, counters>>

\* A signal that was caught and not handled is raised again, for the default
\* action: here of a signal that does not end the process.  The handler that marked
\* it may have passed its check before the removal, and marked it after the loop.
Reraise(p) ==
  /\ At(p, "reraise")
  /\ flag' = [flag EXCEPT ![thread[p].sig] = 0]
  /\ lock' = IF thread[p].back = "destroy" THEN p ELSE Free
  /\ Go(p, thread[p].back)
  /\ overtaken' = IF Handling(thread[p].sig, {"read", "wake", "finish"})
                  THEN overtaken \cup {thread[p].sig} ELSE overtaken
  /\ Exposes(thread[p].sig, {"read"}, Handler)
  /\ UNCHANGED <<tables, woken, signal_pending_, handler, signals, calls>>

Destroy(p) ==
  /\ At(p, "loop")
  /\ calls < MaxCalls
  /\ calls' = calls + 1
  /\ Removes \/ cbs[p] = {}
  /\ Acquire(p)
  /\ Go(p, "destroy")
  /\ UNCHANGED <<tables, flag, woken, signal_pending_, handler, crossings, signals>>

\* The first signal of a set, in the order of std::map.
First(S) == {s \in S : \A r \in S : s <= r}

\* while (signal_cbs_.begin() != signal_cbs_.end()): for a signal without owner
\* erase_signal_cb does nothing, and the loop goes on for ever.
DestroyOne(p) ==
  /\ At(p, "destroy")
  /\ \E s \in First(cbs[p]) : Unhook(p, s)
  /\ UNCHANGED <<flag, woken, signal_pending_, lock, handler, counters>>

\* Variant: the destructor leaves the signals to their fate.
DestroyedEarly(p) ==
  /\ At(p, "destroy")
  /\ Release
  /\ Go(p, "closing")
  /\ UNCHANGED <<tables, flag, woken, signal_pending_, handler, counters>>

Destroyed(p) ==
  /\ At(p, "destroy")
  /\ cbs[p] = {}
  /\ Release
  /\ Go(p, "closing")
  /\ UNCHANGED <<tables, flag, woken, signal_pending_, handler, counters>>

Close(p) ==
  /\ At(p, "closing")
  /\ Go(p, "gone")
  /\ woken' = [woken EXCEPT ![p] = FALSE]
  /\ UNCHANGED <<tables, flag, signal_pending_, lock, handler, counters>>

----------------------------------------------------------------------------
(***************************************************************************)
(* poll: run_pending_asyncs drains the pipe, run_subtype_handlers calls    *)
(* the callbacks.                                                          *)
(***************************************************************************)

\* ::poll returns, for the pipe or for something else.
Drain(p) ==
  /\ At(p, "loop")
  /\ signal_pending_' = [signal_pending_ EXCEPT ![p] = @ \/ woken[p]]
  /\ woken' = [woken EXCEPT ![p] = FALSE]
  /\ UNCHANGED <<tables, flag, lock, handler, counters>>

Poll(p) == Drain(p) /\ Go(p, "dispatch")

\* Another callback of this poll throws.
PollThrows(p) == "other" \in Throwers /\ Drain(p) /\ UNCHANGED thread

NoSignal(p) ==
  /\ At(p, "dispatch")
  /\ ~signal_pending_[p]
  /\ Go(p, "loop")
  /\ UNCHANGED <<tables, flag, woken, signal_pending_, lock, handler, counters>>

\* The signals to handle; their flags are looked at together.
Collect(p) ==
  /\ At(p, "dispatch")
  /\ signal_pending_[p]
  /\ Acquire(p)
  /\ thread' = [thread EXCEPT ![p].pc = "next",
                              ![p].pending = {s \in cbs[p] : flag[s] # 0}]
  /\ UNCHANGED <<tables, flag, woken, signal_pending_, handler, counters>>

\* The next one was stolen or removed during a callback.
SkipStolen(p) ==
  /\ At(p, "next")
  /\ \E s \in First(thread[p].pending) :
       /\ s \notin cbs[p]
       /\ thread' = [thread EXCEPT ![p].pending = @ \ {s}]
  /\ UNCHANGED <<tables, flag, woken, signal_pending_, lock, handler, counters>>

\* The next one waits until its handler has finished.
Waited(p) ==
  /\ At(p, "next")
  /\ \E s \in First(thread[p].pending) :
       /\ s \in cbs[p]
       /\ flag[s] # 1
       /\ thread' = [thread EXCEPT ![p].pc = "clear", ![p].sig = s, ![p].pending = @ \ {s}]
  /\ UNCHANGED <<tables, flag, woken, signal_pending_, lock, handler, counters>>

\* Variant: the flag is not reset.
ClearNothing(p) ==
  /\ At(p, "clear")
  /\ Release
  /\ Go(p, "callback")
  /\ UNCHANGED <<tables, flag, woken, signal_pending_, handler, counters>>

\* signal_flags[i] = 0; the callback is called without the lock.
Clear(p) ==
  /\ At(p, "clear")
  /\ flag' = [flag EXCEPT ![thread[p].sig] = 0]
  /\ Release
  /\ Go(p, "callback")
  /\ Exposes(thread[p].sig, {"read", "wake"}, Handler)
  /\ UNCHANGED <<tables, woken, signal_pending_, handler, overtaken, signals, calls>>

CallbackReturns(p) ==
  /\ At(p, "callback")
  /\ Acquire(p)
  /\ Go(p, "next")
  /\ UNCHANGED <<tables, flag, woken, signal_pending_, handler, counters>>

\* Variant: signal_pending_ is reset before the callbacks are called.
CallbackThrowsForgetting(p) ==
  /\ "signal" \in Throwers
  /\ At(p, "callback")
  /\ thread' = [thread EXCEPT ![p].pc = "loop", ![p].pending = {}]
  /\ signal_pending_' = [signal_pending_ EXCEPT ![p] = FALSE]
  /\ UNCHANGED <<tables, flag, woken, lock, handler, counters>>

\* The exception leaves poll; signal_pending_ stays set.
CallbackThrows(p) ==
  /\ "signal" \in Throwers
  /\ At(p, "callback")
  /\ thread' = [thread EXCEPT ![p].pc = "loop", ![p].pending = {}]
  /\ UNCHANGED <<tables, flag, woken, signal_pending_, lock, handler, counters>>

Dispatched(p) ==
  /\ At(p, "next")
  /\ thread[p].pending = {}
  /\ signal_pending_' = [signal_pending_ EXCEPT ![p] = FALSE]
  /\ Release
  /\ Go(p, "loop")
  /\ UNCHANGED <<tables, flag, woken, handler, counters>>

----------------------------------------------------------------------------
HandlerStep(h) == Check(h) \/ Mark(h) \/ ReadOwner(h) \/ WakeOwner(h) \/ Finish(h)

\* What thread p does without being asked: it finishes what it began, and polls
\* when its pipe is readable.
ThreadStep(p) ==
  \/ Added(p) \/ Spun(p) \/ Reraise(p) \/ DestroyOne(p) \/ Destroyed(p) \/ Close(p)
  \/ woken[p] /\ Poll(p)
  \/ NoSignal(p) \/ Collect(p) \/ SkipStolen(p) \/ Waited(p) \/ Clear(p)
  \/ CallbackReturns(p) \/ Dispatched(p)

Call(p) ==
  \/ \E s \in Sig : AddSignal(p, s) \/ AddRefused(p, s)
  \/ \E s \in Sig : RemoveSignal(p, s) \/ RemoveNothing(p, s)
  \/ Destroy(p)

Next ==
  \/ \E h \in Handler : HandlerStep(h) \/ \E s \in Sig : Deliver(h, s)
  \/ \E p \in PS : ThreadStep(p) \/ Call(p) \/ Poll(p) \/ PollThrows(p) \/ CallbackThrows(p)

\* A handler and a thread go on; nobody has to call signal_cb, and nothing but
\* the pipe has to end the sleep of poll.
Fairness ==
  /\ \A h \in Handler : WF_vars(HandlerStep(h))
  /\ \A p \in PS : WF_vars(ThreadStep(p))

Spec == Init /\ [][Next]_vars /\ Fairness

----------------------------------------------------------------------------
(***************************************************************************)
(* Properties.                                                             *)
(***************************************************************************)

(***************************************************************************)
(* signal_cbs_ and signal_owners, which stealing, removal and destruction  *)
(* change together, agree whenever nobody holds signal_owners_lock (but a  *)
(* refused signal_cb leaves its callback in signal_cbs_ without an owner). *)
(* With it, the state has its type.                                        *)
(***************************************************************************)
OwnersAgree ==
  /\ TypeOK
  /\ lock = Free => \A p \in PS, s \in Sig \ Refused : s \in cbs[p] <=> owner[s] = p

\* A signal is never left with an owner that is being closed: every handler that is
\* started later would wake a destroyed pollset_plus (pollset.cc:60).
OwnersAlive == \A s \in Sig : owner[s] # None => thread[owner[s]].pc \notin {"closing", "gone"}

(***************************************************************************)
(* "It would be pretty unpleasant if ps got deleted in another thread      *)
(* right here" (pollset.cc:37): a handler that has read its owner finds it *)
(* alive when it wakes it, as whoever removes the signal waits while it is *)
(* marked 1.  A thief does not wait, and his victim is not protected; nor  *)
(* is anybody from a handler whose mark a removal, the call of a callback  *)
(* or another handler has replaced.                                        *)
(***************************************************************************)
WakesTheLiving ==
  \A h \in Handler :
    handler[h].pc = "wake" /\ handler[h].sig \notin unguarded =>
      Alive(handler[h].ps)

Waking(s) == Handling(s, {"read", "wake"})

(***************************************************************************)
(* A marked signal is not forgotten: when no handler of it is about to     *)
(* wake somebody, its owner has a byte in its pipe or still has            *)
(* signal_pending_ set, whoever stole it meanwhile.  (A marked signal is   *)
(* ignored by the handler, so it would be lost for good.)                  *)
(***************************************************************************)
MarkedIsNoticed ==
  lock = Free =>
    \A s \in Sig \ overtaken : flag[s] # 0 /\ owner[s] # None /\ ~Waking(s) =>
                     woken[owner[s]] \/ signal_pending_[owner[s]]

\* A callback threw, and the signals behind it wait until something else ends ::poll.
LeftBehind(p) == signal_pending_[p] /\ thread[p].pc = "loop"
\* A destructor goes round and round with the lock, at a signal that was refused.
Stuck == \E p \in PS : thread[p].pc = "destroy" /\ \E s \in First(cbs[p]) : owner[s] = None

(***************************************************************************)
(* A marked signal is handled, unless its owner changes, in spite of       *)
(* thieves, other signals and callbacks that throw: then it is left behind *)
(* (pollset.cc:305).                                                       *)
(***************************************************************************)
MarkedIsServed ==
  \A s \in Sig \ Refused, p \in PS :
    flag[s] # 0 /\ owner[s] = p ~>
      (flag[s] = 0 \/ owner[s] # p \/ s \in overtaken \/ LeftBehind(p) \/ Stuck)
=============================================================================
