---------------------------- MODULE AsyncQueue ----------------------------
(***************************************************************************)
(* Callbacks injected into a pollset_plus by other threads (inject_cb) and *)
(* by its own asynchronous tasks (async), the self-pipe that wakes poll,   *)
(* and the main thread that runs run() -> poll() -> run_pending_asyncs().  *)
(*                                                                         *)
(* A step of a thread ends where another thread can see a difference:      *)
(* async_cbs_ and async_pending_ are touched only under async_cbs_lock_,   *)
(* the pipe is written under the lock but read without it.                 *)
(***************************************************************************)
EXTENDS Integers, Sequences, FiniteSets, Functions, SelfPipe

CONSTANTS
  Thread,         \* threads that inject callbacks
  Cb,             \* callbacks, each injected at most once
  Task,           \* those that are the done() of an async() task
  Throwing,       \* those that may throw
  Capacity,       \* bytes the pipe holds
  MaxOther        \* bound: bytes written for another reason than an injection

Free == "free"    \* nobody holds async_cbs_lock_

ASSUME CbAssumption ==
  /\ Free \notin Thread
  /\ Task \subseteq Cb /\ IsFiniteSet(Task)
  /\ Throwing \subseteq Cb
  /\ Capacity \in Nat \ {0}
  /\ MaxOther \in Nat

VARIABLES
  async_cbs_,     \* callbacks injected and not yet taken
  async_pending_, \* a byte was sent for them
  nasync_,        \* async() tasks that are not done
  pipe,           \* selfpipe_
  signal_pending_,\* a Signal byte was read
  lock,           \* async_cbs_lock_: its holder or Free
  phase,          \* main thread: "run", "poll", "drain", "take", "call", "others",
                  \* "reinject", "returned" (from run) or "crashed"
  cbs,            \* run_pending_asyncs: the callbacks it took and has to run
  ready,          \* callbacks whose thread has still to inject them
  others,         \* bytes that may still be written for another reason
  ran, lost       \* history: callbacks that ran, that were dropped

queuevars == <<async_cbs_, async_pending_, nasync_, pipe, signal_pending_, lock, phase, cbs,
               ready, others, ran, lost>>

QueuePhases == {"run", "poll", "drain", "take", "call", "others", "reinject", "returned",
                "crashed"}

QueueTypeOK ==
  /\ async_cbs_ \in Seq(Cb) /\ cbs \in Seq(Cb)
  /\ async_pending_ \in BOOLEAN /\ signal_pending_ \in BOOLEAN
  /\ nasync_ \in Nat
  /\ pipe \in Pipe
  /\ lock \in Thread \cup {Free}
  /\ phase \in QueuePhases
  /\ others \in 0..MaxOther
  /\ ready \in SUBSET Cb /\ ran \in SUBSET Cb /\ lost \in SUBSET Cb

QueueInit ==
  /\ async_cbs_ = <<>> /\ cbs = <<>>
  /\ async_pending_ = FALSE /\ signal_pending_ = FALSE
  /\ nasync_ = 0
  /\ pipe = EmptyPipe
  /\ lock = Free
  /\ phase = "run"
  /\ others = MaxOther
  /\ ready = Cb \ Task /\ ran = {} /\ lost = {}

----------------------------------------------------------------------------
(***************************************************************************)
(* Other threads.                                                          *)
(***************************************************************************)

\* inject_cb up to wake(): the thread keeps the lock until it has written the
\* byte.  If a byte is on its way already it is done.
Inject(t, c) ==
  /\ lock = Free
  /\ c \in ready
  /\ ready' = ready \ {c}
  /\ async_cbs_' = Append(async_cbs_, c)
  /\ async_pending_' = TRUE
  /\ lock' = IF async_pending_ THEN Free ELSE t
  /\ UNCHANGED <<nasync_, pipe, signal_pending_, phase, cbs, others, ran, lost>>

Wake(t) ==
  /\ lock = t
  /\ pipe' = Write(pipe, "Normal", Capacity)
  /\ lock' = Free
  /\ UNCHANGED <<async_cbs_, async_pending_, nasync_, signal_pending_, phase, cbs,
                 ready, others, ran, lost>>

\* wake() called by the program from any thread, or a signal handler's byte.  An
\* endless stream of them would keep the main thread in the loop that drains the
\* pipe.
OtherByte(wt) ==
  /\ others > 0
  /\ others' = others - 1
  /\ pipe' = Write(pipe, wt, Capacity)
  /\ UNCHANGED <<async_cbs_, async_pending_, nasync_, signal_pending_, lock, phase, cbs,
                 ready, ran, lost>>

----------------------------------------------------------------------------
(***************************************************************************)
(* The main thread.                                                        *)
(***************************************************************************)

\* async(work, cb), called outside poll or by a callback: its thread will inject
\* the task's done().
Async(c) ==
  /\ phase \in {"run", "call"}
  /\ c \in Task \ (ready \cup ran \cup lost \cup Range(async_cbs_ \o cbs))
  /\ nasync_' = nasync_ + 1
  /\ ready' = ready \cup {c}
  /\ UNCHANGED <<async_cbs_, async_pending_, pipe, signal_pending_, lock, phase,
                 cbs, others, ran, lost>>

\* The constructor registers run_pending_asyncs for reads of the pipe, and only
\* the destructor removes it.
num_cbs == 1

pending == nasync_ # 0 \/ num_cbs # 0

\* run(): while (pending()) poll();
Run ==
  /\ phase = "run"
  /\ phase' = IF pending THEN "poll" ELSE "returned"
  /\ UNCHANGED <<async_cbs_, async_pending_, nasync_, pipe, signal_pending_,
                 lock, cbs, ready, others, ran, lost>>

\* ::poll finds the pipe readable and poll calls run_pending_asyncs.
PollReturns ==
  /\ phase = "poll"
  /\ Bytes(pipe) # 0
  /\ phase' = "drain"
  /\ UNCHANGED <<async_cbs_, async_pending_, nasync_, pipe, signal_pending_,
                 lock, cbs, ready, others, ran, lost>>

\* while ((n = read(...)) > 0): one read, and the one that finds nothing.
Drain ==
  /\ phase = "drain"
  /\ Bytes(pipe) # 0
  /\ signal_pending_' = (signal_pending_ \/ pipe.Signal # 0)
  /\ pipe' = EmptyPipe
  /\ UNCHANGED <<async_cbs_, async_pending_, nasync_, lock, phase, cbs, ready,
                 others, ran, lost>>

Drained ==
  /\ phase = "drain"
  /\ Bytes(pipe) = 0
  /\ phase' = "take"
  /\ UNCHANGED <<async_cbs_, async_pending_, nasync_, pipe, signal_pending_,
                 lock, cbs, ready, others, ran, lost>>

\* Variant: async_pending_ is not reset.
TakeKeepingPending ==
  /\ phase = "take"
  /\ lock = Free
  /\ cbs' = async_cbs_ /\ async_cbs_' = <<>>
  /\ phase' = "call"
  /\ UNCHANGED <<async_pending_, nasync_, pipe, signal_pending_, lock, ready,
                 others, ran, lost>>

\* Variant: the callbacks are copied, not swapped.
TakeCopying ==
  /\ phase = "take"
  /\ lock = Free
  /\ async_pending_' = FALSE
  /\ cbs' = async_cbs_
  /\ phase' = "call"
  /\ UNCHANGED <<async_cbs_, nasync_, pipe, signal_pending_, lock, ready, others,
                 ran, lost>>

\* Under the lock: async_pending_ = false; swap(cbs, async_cbs_).
Take ==
  /\ phase = "take"
  /\ lock = Free
  /\ async_pending_' = FALSE
  /\ cbs' = async_cbs_ /\ async_cbs_' = <<>>
  /\ phase' = "call"
  /\ UNCHANGED <<nasync_, pipe, signal_pending_, lock, ready, others, ran,
                 lost>>

\* Variant: done() does not count its task off.
CalledKeepingCount ==
  /\ ran' = ran \cup {Head(cbs)}
  /\ cbs' = Tail(cbs)
  /\ UNCHANGED nasync_

\* (*i)(): done() counts its task off before it calls the task's callback.
Called ==
  /\ ran' = ran \cup {Head(cbs)}
  /\ cbs' = Tail(cbs)
  /\ nasync_' = IF Head(cbs) \in Task THEN nasync_ - 1 ELSE nasync_

Call ==
  /\ phase = "call"
  /\ cbs # <<>>
  /\ Called
  /\ UNCHANGED <<async_cbs_, async_pending_, pipe, signal_pending_, lock, phase,
                 ready, others, lost>>

CallThrows ==
  /\ phase = "call"
  /\ cbs # <<>>
  /\ Head(cbs) \in Throwing
  /\ Called
  /\ phase' = "reinject"
  /\ UNCHANGED <<async_cbs_, async_pending_, pipe, signal_pending_, lock, ready,
                 others, lost>>

AllCalled ==
  /\ phase = "call"
  /\ cbs = <<>>
  /\ phase' = "others"
  /\ UNCHANGED <<async_cbs_, async_pending_, nasync_, pipe, signal_pending_,
                 lock, cbs, ready, others, ran, lost>>

\* The rest of poll; run_subtype_handlers takes notice of signals.
PollEnds ==
  /\ phase = "others"
  /\ signal_pending_' = FALSE
  /\ phase' = "run"
  /\ UNCHANGED <<async_cbs_, async_pending_, nasync_, pipe, lock, cbs, ready,
                 others, ran, lost>>

\* The cleanup of a throwing callback: inject_cb_vec(i+1, cbs.end()).  It means
\* to put the rest back, but std::move writes behind the end of async_cbs_ and
\* the vector does not grow: the callbacks are gone when cbs is destroyed, unless
\* the write itself ends the program.  The exception leaves poll and run; the
\* program that caught it calls run again.
ReinjectNothing ==
  /\ phase = "reinject"
  /\ cbs = <<>>
  /\ phase' = "run"
  /\ UNCHANGED <<async_cbs_, async_pending_, nasync_, pipe, signal_pending_,
                 lock, cbs, ready, others, ran, lost>>

ReinjectLoses ==
  /\ phase = "reinject"
  /\ cbs # <<>>
  /\ lock = Free
  /\ lost' = lost \cup Range(cbs)
  /\ cbs' = <<>>
  /\ pipe' = IF async_pending_ THEN pipe ELSE Write(pipe, "Normal", Capacity)
  /\ async_pending_' = TRUE
  /\ phase' = "run"
  /\ UNCHANGED <<async_cbs_, nasync_, signal_pending_, lock, ready, others,
                 ran>>

ReinjectCrashes ==
  /\ phase = "reinject"
  /\ cbs # <<>>
  /\ lock = Free
  /\ phase' = "crashed"
  /\ UNCHANGED <<async_cbs_, async_pending_, nasync_, pipe, signal_pending_,
                 lock, cbs, ready, others, ran, lost>>

----------------------------------------------------------------------------
Alive == phase # "crashed"

Others ==
  \/ \E t \in Thread, c \in Cb : Inject(t, c)
  \/ \E t \in Thread : Wake(t)
  \/ \E wt \in {"Normal", "Signal"} : OtherByte(wt)

Main ==
  \/ Run \/ PollReturns \/ Drain \/ Drained \/ Take
  \/ Call \/ CallThrows \/ AllCalled \/ PollEnds
  \/ ReinjectNothing \/ ReinjectLoses \/ ReinjectCrashes

QueueNext ==
  \/ Alive /\ Others
  \/ Main
  \/ \E c \in Task : Async(c)

(***************************************************************************)
(* A thread that holds the lock goes on; so does the main thread, whose    *)
(* callbacks end.  Nobody has to inject anything.                          *)
(***************************************************************************)
QueueFairness == WF_queuevars(Main) /\ \A t \in Thread : WF_queuevars(Alive /\ Wake(t))

QueueSpec == QueueInit /\ [][QueueNext]_queuevars /\ QueueFairness

----------------------------------------------------------------------------
(***************************************************************************)
(* Properties.                                                             *)
(***************************************************************************)

\* No wake-up is lost: whenever callbacks wait in async_cbs_, the main thread is
\* about to take them, or a byte is in the pipe, or the thread that must write it
\* holds the lock.  The order of draining the pipe and of resetting
\* async_pending_ in run_pending_asyncs is what makes this true.
NoLostWakeup ==
  async_cbs_ # <<>> =>
    \/ Bytes(pipe) # 0
    \/ lock # Free
    \/ phase \in {"drain", "take", "crashed"}

\* nasync_, which pending() answers from, counts the tasks that async() started and
\* whose done() has not begun; the task of a dropped callback is counted for ever.
Outstanding == Task \cap (ready \cup Range(async_cbs_) \cup Range(cbs) \cup lost)
NasyncCounts == nasync_ = Cardinality(Outstanding)

\* An injected callback runs, unless one before it in the same batch threw or the
\* program died.
InjectedRuns ==
  \A c \in Cb : c \in Range(async_cbs_) ~> (c \in ran \cup lost \/ ~Alive)

\* Callbacks run once each, in the order in which they got the lock; only a throw
\* can drop some, and only those behind it in the same batch.
Doomed == phase \in {"reinject", "crashed"}
AbstractInbox == INSTANCE Inbox
  WITH waiting <- IF Doomed THEN async_cbs_ ELSE cbs \o async_cbs_,
       batch <- IF Doomed THEN 0 ELSE Len(cbs),
       over <- ran \cup lost \cup IF Doomed THEN Range(cbs) ELSE {}
InOrderOnce == AbstractInbox!Spec

=============================================================================
