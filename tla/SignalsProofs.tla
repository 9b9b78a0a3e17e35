--------------------------- MODULE SignalsProofs ---------------------------
(***************************************************************************)
(* For every number of pollset_plus objects, signals and handler threads:  *)
(* signal_owners and signal_cbs_ agree, no destroyed object owns a signal, *)
(* and handlers wake objects that are alive, if nothing came between;      *)
(* and where handlers interrupt the threads, a marked signal is never      *)
(* forgotten.                                                              *)
(***************************************************************************)
EXTENDS Signals, TLAPS

\* Where a thread goes on after signal_cb or erase_signal_cb.
Backs == \A p \in PS : thread[p].back \in {"loop", "callback", "destroy"}

\* Owners have the callbacks, also while signal_owners_lock is held.
Owned ==
  \A p \in PS, s \in Sig :
    /\ owner[s] = p => s \in cbs[p]
    /\ s \in cbs[p] /\ s \notin Refused => owner[s] = p

\* The destructor leaves no callback behind.
ClosedEmpty == \A p \in PS : thread[p].pc \in {"closing", "gone"} => cbs[p] = {}

\* Handlers know their signals, and whom they wake.
Busy ==
  \A h \in Handler :
    /\ handler[h].pc # "idle" => handler[h].sig \in Sig
    /\ handler[h].pc = "wake" => handler[h].ps \in PS

IInv == TypeOK /\ Busy /\ Backs /\ Owned /\ ClosedEmpty

----------------------------------------------------------------------------
(***************************************************************************)
(* Types.                                                                  *)
(***************************************************************************)
LEMMA InitIInv == Init => IInv
  BY SignalAssumption DEF Init, IInv, TypeOK, Busy, Backs, Owned, ClosedEmpty, ThreadPC, HandlerPC

\* A thread's record with another place to be at.
LEMMA GoType ==
  ASSUME TypeOK, NEW p \in PS, NEW pc \in ThreadPC, Go(p, pc)
  PROVE  /\ thread' \in [PS -> [pc : ThreadPC, sig : Sig \cup {0}, back : ThreadPC,
                                pending : SUBSET Sig]]
         /\ thread'[p].pc = pc /\ thread'[p].sig = thread[p].sig
         /\ thread'[p].back = thread[p].back /\ thread'[p].pending = thread[p].pending
         /\ \A q \in PS \ {p} : thread'[q] = thread[q]
  BY DEF TypeOK, Go

\* The same where the call of a function of the object begins.
LEMMA CallType ==
  ASSUME TypeOK, NEW p \in PS, NEW pc \in ThreadPC, NEW s \in Sig,
         thread' = [thread EXCEPT ![p].pc = pc, ![p].sig = s, ![p].back = thread[p].pc]
  PROVE  /\ thread' \in [PS -> [pc : ThreadPC, sig : Sig \cup {0}, back : ThreadPC,
                                pending : SUBSET Sig]]
         /\ thread'[p].pc = pc /\ thread'[p].sig = s
         /\ thread'[p].back = thread[p].pc /\ thread'[p].pending = thread[p].pending
         /\ \A q \in PS \ {p} : thread'[q] = thread[q]
  BY DEF TypeOK

\* The same in run_subtype_handlers, with the signals that are left, and with the
\* next one.
LEMMA LeftType ==
  ASSUME TypeOK, NEW p \in PS, NEW pc \in ThreadPC, NEW left \in SUBSET Sig,
         thread' = [thread EXCEPT ![p].pc = pc, ![p].pending = left]
  PROVE  /\ thread' \in [PS -> [pc : ThreadPC, sig : Sig \cup {0}, back : ThreadPC,
                                pending : SUBSET Sig]]
         /\ thread'[p].pc = pc /\ thread'[p].sig = thread[p].sig
         /\ thread'[p].back = thread[p].back /\ thread'[p].pending = left
         /\ \A q \in PS \ {p} : thread'[q] = thread[q]
<1>1. thread \in [PS -> [pc : ThreadPC, sig : Sig \cup {0}, back : ThreadPC,
                         pending : SUBSET Sig]]
  BY DEF TypeOK
<1> DEFINE new == [thread[p] EXCEPT !.pc = pc, !.pending = left]
<1>2. new \in [pc : ThreadPC, sig : Sig \cup {0}, back : ThreadPC, pending : SUBSET Sig]
  BY <1>1
<1>3. /\ new.pc = pc /\ new.sig = thread[p].sig
      /\ new.back = thread[p].back /\ new.pending = left
  BY <1>1
<1>4. thread' = [thread EXCEPT ![p] = new]
  BY <1>1
<1> HIDE DEF new
<1> QED
  BY <1>1, <1>2, <1>3, <1>4

LEMMA SignalType ==
  ASSUME TypeOK, NEW p \in PS, NEW pc \in ThreadPC, NEW s \in Sig, NEW left \in SUBSET Sig,
         thread' = [thread EXCEPT ![p].pc = pc, ![p].sig = s, ![p].pending = left]
  PROVE  /\ thread' \in [PS -> [pc : ThreadPC, sig : Sig \cup {0}, back : ThreadPC,
                                pending : SUBSET Sig]]
         /\ thread'[p].pc = pc /\ thread'[p].sig = s
         /\ thread'[p].back = thread[p].back /\ thread'[p].pending = left
         /\ \A q \in PS \ {p} : thread'[q] = thread[q]
  BY ZenonT(40) DEF TypeOK

\* Setting a flag.
LEMMA FlagType ==
  ASSUME TypeOK, NEW s, NEW n \in 0..2, flag' = [flag EXCEPT ![s] = n]
  PROVE  /\ flag' \in [Sig -> 0..2]
         /\ s \in Sig => flag'[s] = n
         /\ \A r \in Sig \ {s} : flag'[r] = flag[r]
  BY DEF TypeOK

\* A handler goes to another place.
LEMMA HandlerGo ==
  ASSUME TypeOK, NEW h \in Handler, NEW pc \in HandlerPC,
         handler' = [handler EXCEPT ![h].pc = pc]
  PROVE  /\ handler' \in [Handler -> [pc : HandlerPC, sig : Sig \cup {0}, ps : PS \cup {None}]]
         /\ handler'[h].pc = pc /\ handler'[h].sig = handler[h].sig
         /\ handler'[h].ps = handler[h].ps
         /\ \A g \in Handler \ {h} : handler'[g] = handler[g]
  BY DEF TypeOK

\* What Exposes adds are signals.
LEMMA ExposesType ==
  ASSUME TypeOK, Busy, NEW s, NEW H \in SUBSET Handler, NEW pcs \in SUBSET {"read", "wake"},
         Exposes(s, pcs, H)
  PROVE  unguarded' \in SUBSET Sig
<1>1. CASE \E h \in H : handler[h].sig = s /\ handler[h].pc \in pcs
  <2>1. s \in Sig
    BY <1>1 DEF Busy
  <2> QED
    BY <1>1, <2>1 DEF Exposes, TypeOK
<1>2. CASE ~\E h \in H : handler[h].sig = s /\ handler[h].pc \in pcs
  BY <1>2 DEF Exposes, TypeOK
<1> QED
  BY <1>1, <1>2

LEMMA HandlerStepType ==
  ASSUME TypeOK, Busy, NEW h \in Handler, HandlerStep(h)
  PROVE  TypeOK' /\ Busy'
<1> USE DEF HandlerPC, tables, crossings, counters
<1>1. CASE Check(h)
  <2>1. PICK pc \in {"idle", "mark"} : handler' = [handler EXCEPT ![h].pc = pc]
    BY <1>1 DEF Check
  <2>2. Busy'
    BY <1>1, <2>1, HandlerGo DEF Busy, Check
  <2> QED
    BY <1>1, <2>1, <2>2, HandlerGo DEF Check, TypeOK
<1>2. CASE Mark(h)
  <2>1. handler' = [handler EXCEPT ![h].pc = "read"] /\ handler[h].pc = "mark"
    BY <1>2 DEF Mark
  <2>2. Busy'
    BY <2>1, HandlerGo DEF Busy
  <2>3. flag' \in [Sig -> 0..2]
    <3>1. flag' = [flag EXCEPT ![handler[h].sig] = 1] /\ 1 \in 0..2
      BY <1>2 DEF Mark
    <3> QED
      BY <3>1, FlagType
  <2> QED
    BY <1>2, <2>1, <2>2, <2>3, HandlerGo DEF Mark, TypeOK
<1>3. CASE ReadOwner(h)
  <2> DEFINE ps == owner[handler[h].sig]
             pc == IF ps = None THEN "finish" ELSE "wake"
  <2>1. handler[h].pc = "read" /\ handler' = [handler EXCEPT ![h].ps = ps, ![h].pc = pc]
    BY <1>3 DEF ReadOwner
  <2>2. ps \in PS \cup {None} /\ pc \in HandlerPC /\ (pc = "wake" => ps \in PS)
    BY <2>1 DEF TypeOK, Busy
  <2> HIDE DEF ps, pc
  <2>3. /\ handler' \in [Handler -> [pc : HandlerPC, sig : Sig \cup {0}, ps : PS \cup {None}]]
        /\ handler'[h].sig = handler[h].sig /\ handler'[h].pc = pc /\ handler'[h].ps = ps
        /\ \A g \in Handler \ {h} : handler'[g] = handler[g]
    BY <2>1, <2>2 DEF TypeOK
  <2>4. Busy'
    BY <2>1, <2>2, <2>3 DEF Busy
  <2> QED
    BY <1>3, <2>3, <2>4 DEF ReadOwner, TypeOK
<1>4. CASE WakeOwner(h)
  <2>1. handler' = [handler EXCEPT ![h].pc = "finish"] /\ handler[h].pc = "wake"
    BY <1>4 DEF WakeOwner
  <2>2. Busy'
    BY <2>1, HandlerGo DEF Busy
  <2>3. woken' \in [PS -> BOOLEAN]
    BY <1>4 DEF WakeOwner, TypeOK, Alive
  <2> QED
    BY <1>4, <2>1, <2>2, <2>3, HandlerGo DEF WakeOwner, TypeOK
<1>5. CASE Finish(h)
  <2>1. handler' = [handler EXCEPT ![h].pc = "idle"] /\ handler[h].pc = "finish"
    BY <1>5 DEF Finish
  <2>2. Busy'
    BY <2>1, HandlerGo DEF Busy
  <2>3. flag' \in [Sig -> 0..2]
    <3>1. flag' = [flag EXCEPT ![handler[h].sig] = 2] /\ 2 \in 0..2
      BY <1>5 DEF Finish
    <3> QED
      BY <3>1, FlagType
  <2>4. unguarded' \in SUBSET Sig
    <3>1. Exposes(handler[h].sig, {"read", "wake"}, Handler \ {h})
      BY <1>5 DEF Finish
    <3> QED
      BY <3>1, ExposesType
  <2> QED
    BY <1>5, <2>1, <2>2, <2>3, <2>4, HandlerGo DEF Finish, TypeOK
<1> QED
  BY <1>1, <1>2, <1>3, <1>4, <1>5 DEF HandlerStep

LEMMA DeliverType ==
  ASSUME TypeOK, Busy, NEW h \in Handler, NEW s \in Sig, Deliver(h, s)
  PROVE  TypeOK' /\ Busy'
<1> DEFINE new == [pc |-> "entered", sig |-> s, ps |-> None]
<1>1. handler' = [handler EXCEPT ![h] = new]
  BY DEF Deliver
<1>2. new \in [pc : HandlerPC, sig : Sig \cup {0}, ps : PS \cup {None}]
      /\ new.pc = "entered" /\ new.sig = s
  BY DEF HandlerPC
<1> HIDE DEF new
<1>3. handler' \in [Handler -> [pc : HandlerPC, sig : Sig \cup {0}, ps : PS \cup {None}]]
      /\ handler'[h] = new /\ \A g \in Handler \ {h} : handler'[g] = handler[g]
  BY <1>1, <1>2 DEF TypeOK
<1>4. Busy'
  BY <1>2, <1>3 DEF Busy
<1>5. signals' \in 0..MaxSignals
  BY SignalAssumption DEF Deliver, TypeOK
<1> QED
  BY <1>3, <1>4, <1>5 DEF Deliver, TypeOK, tables, crossings

\* A pipe that is written to or emptied.
LEMMA WokenType ==
  ASSUME NEW f \in [PS -> BOOLEAN], NEW g, NEW p \in PS, NEW b \in BOOLEAN,
         g = [f EXCEPT ![p] = b]
  PROVE  g \in [PS -> BOOLEAN] /\ g[p] = b /\ \A q \in PS \ {p} : g[q] = f[q]
  OBVIOUS

\* signal_cb for a new signal.
LEMMA AddSignalStep ==
  ASSUME IInv, NEW p \in PS, NEW s \in Sig, AddSignal(p, s)
  PROVE  IInv'
<1>1. /\ thread[p].pc \in {"loop", "callback"} /\ calls' \in 0..MaxCalls /\ lock' = p
      /\ owner' = [owner EXCEPT ![s] = p] /\ caught' = caught \cup {s}
      /\ cbs' = [q \in PS |-> IF q = p THEN cbs[q] \cup {s}
                              ELSE IF q = owner[s] THEN cbs[q] \ {s} ELSE cbs[q]]
  BY SignalAssumption DEF AddSignal, MayCall, At, Acquire, IInv, TypeOK
<1>2. /\ thread' \in [PS -> [pc : ThreadPC, sig : Sig \cup {0}, back : ThreadPC,
                             pending : SUBSET Sig]]
      /\ thread'[p].pc = "adding" /\ thread'[p].back = thread[p].pc
      /\ \A q \in PS \ {p} : thread'[q] = thread[q]
  BY CallType DEF AddSignal, IInv, ThreadPC
<1>3. TypeOK'
  <2>1. owner' \in [Sig -> PS \cup {None}] /\ cbs' \in [PS -> SUBSET Sig]
    BY <1>1 DEF IInv, TypeOK
  <2>2. overtaken' \in SUBSET Sig /\ unguarded' \in SUBSET Sig
    <3>1. Exposes(s, {"wake"}, Handler)
      BY DEF AddSignal
    <3> QED
      BY <3>1, ExposesType DEF AddSignal, IInv, TypeOK
  <2> QED
    BY <1>1, <1>2, <2>1, <2>2 DEF AddSignal, IInv, TypeOK
<1>4. Busy' /\ Backs'
  BY <1>1, <1>2 DEF AddSignal, IInv, Busy, Backs
<1>5. Owned'
  <2> SUFFICES ASSUME NEW q \in PS, NEW r \in Sig
               PROVE  /\ owner'[r] = q => r \in cbs'[q]
                      /\ r \in cbs'[q] /\ r \notin Refused => owner'[r] = q
    BY DEF Owned
  <2>1. CASE r = s
    BY <1>1, <2>1 DEF IInv, TypeOK, Owned
  <2>2. CASE r # s
    BY <1>1, <2>2 DEF IInv, TypeOK, Owned
  <2> QED
    BY <2>1, <2>2
<1>6. ClosedEmpty'
  BY <1>1, <1>2 DEF IInv, ClosedEmpty
<1> QED
  BY <1>3, <1>4, <1>5, <1>6 DEF IInv

\* A refused signal_cb.
LEMMA AddRefusedStep ==
  ASSUME IInv, NEW p \in PS, NEW s \in Sig, AddRefused(p, s)
  PROVE  IInv'
<1>1. /\ thread[p].pc \in {"loop", "callback"} /\ calls' \in 0..MaxCalls
      /\ owner[s] = None /\ s \in Refused /\ cbs' = [cbs EXCEPT ![p] = @ \cup {s}]
      /\ owner' = owner /\ thread' = thread
  BY SignalAssumption DEF AddRefused, MayCall, At, IInv, TypeOK
<1>2. TypeOK' /\ Busy' /\ Backs'
  BY <1>1 DEF AddRefused, IInv, TypeOK, Busy, Backs, crossings
<1>3. Owned' /\ ClosedEmpty'
  BY <1>1 DEF IInv, TypeOK, Owned, ClosedEmpty
<1> QED
  BY <1>2, <1>3 DEF IInv

\* erase_signal_cb, from signal_cb or the destructor.
LEMMA UnhookStep ==
  ASSUME IInv, NEW p \in PS, NEW s \in Sig, Unhook(p, s),
         thread[p].pc \in {"loop", "callback", "destroy"},
         calls' \in 0..MaxCalls, lock' \in PS \cup {Free},
         UNCHANGED <<flag, woken, signal_pending_, handler, crossings, signals>>
  PROVE  IInv'
<1>1. /\ thread' \in [PS -> [pc : ThreadPC, sig : Sig \cup {0}, back : ThreadPC,
                             pending : SUBSET Sig]]
      /\ thread'[p].pc = "spin" /\ thread'[p].back = thread[p].pc
      /\ \A q \in PS \ {p} : thread'[q] = thread[q]
  BY CallType DEF Unhook, IInv, ThreadPC
<1>2. /\ owner[s] \in PS /\ caught' = caught \ {s}
      /\ owner' = [owner EXCEPT ![s] = None]
      /\ cbs' = [cbs EXCEPT ![owner[s]] = @ \ {s}]
  BY DEF Unhook, IInv, TypeOK
<1>3. TypeOK'
  <2>1. owner' \in [Sig -> PS \cup {None}] /\ cbs' \in [PS -> SUBSET Sig]
    BY <1>2 DEF IInv, TypeOK
  <2> QED
    BY <1>1, <1>2, <2>1 DEF IInv, TypeOK, crossings
<1>4. Busy' /\ Backs'
  BY <1>1 DEF IInv, Busy, Backs
<1>5. Owned'
  <2> SUFFICES ASSUME NEW q \in PS, NEW r \in Sig
               PROVE  /\ owner'[r] = q => r \in cbs'[q]
                      /\ r \in cbs'[q] /\ r \notin Refused => owner'[r] = q
    BY DEF Owned
  <2>1. CASE r = s
    BY <1>2, <2>1, SignalAssumption DEF IInv, TypeOK, Owned
  <2>2. CASE r # s
    BY <1>2, <2>2 DEF IInv, TypeOK, Owned
  <2> QED
    BY <2>1, <2>2
<1>6. ClosedEmpty'
  BY <1>1, <1>2 DEF IInv, TypeOK, ClosedEmpty
<1> QED
  BY <1>3, <1>4, <1>5, <1>6 DEF IInv

\* A step that leaves owners and callbacks alone, and at most closes an object
\* that has no callbacks.
LEMMA Frame ==
  ASSUME IInv, TypeOK', UNCHANGED <<tables, handler>>, NEW p \in PS,
         thread'[p].back \in {"loop", "callback", "destroy"},
         thread'[p].pc \in {"closing", "gone"} => cbs[p] = {},
         \A q \in PS \ {p} : thread'[q] = thread[q]
  PROVE  IInv'
<1>1. Busy' /\ Backs'
  BY DEF IInv, Busy, Backs
<1>2. Owned' /\ ClosedEmpty'
  BY DEF IInv, Owned, ClosedEmpty, tables
<1> QED
  BY <1>1, <1>2 DEF IInv

\* Steps that only move the thread on, or wake it, or release or take the lock.
LEMMA GoStep ==
  ASSUME IInv, NEW p \in PS, NEW pc \in ThreadPC, Go(p, pc),
         pc \in {"closing", "gone"} => cbs[p] = {},
         UNCHANGED <<tables, handler>>,
         flag' \in [Sig -> 0..2], lock' \in PS \cup {Free},
         woken' \in [PS -> BOOLEAN], signal_pending_' \in [PS -> BOOLEAN],
         overtaken' \in SUBSET Sig, unguarded' \in SUBSET Sig,
         signals' \in 0..MaxSignals, calls' \in 0..MaxCalls
  PROVE  IInv'
<1>1. /\ thread' \in [PS -> [pc : ThreadPC, sig : Sig \cup {0}, back : ThreadPC,
                             pending : SUBSET Sig]]
      /\ thread'[p].pc = pc /\ thread'[p].back = thread[p].back
      /\ \A q \in PS \ {p} : thread'[q] = thread[q]
  BY GoType DEF IInv
<1>2. TypeOK'
  BY <1>1 DEF IInv, TypeOK, tables
<1> QED
  BY <1>1, <1>2, Frame DEF IInv, Backs

LEMMA ThreadStepIInv ==
  ASSUME IInv, NEW p \in PS,
         ThreadStep(p) \/ Destroy(p) \/ Poll(p) \/ PollThrows(p) \/ CallbackThrows(p)
  PROVE  IInv'
<1> USE DEF crossings, counters
<1>1. /\ flag \in [Sig -> 0..2] /\ lock \in PS \cup {Free}
      /\ woken \in [PS -> BOOLEAN] /\ signal_pending_ \in [PS -> BOOLEAN]
      /\ overtaken \in SUBSET Sig /\ unguarded \in SUBSET Sig
      /\ signals \in 0..MaxSignals /\ calls \in 0..MaxCalls
  BY DEF IInv, TypeOK
<1>2. /\ thread[p].pc \in ThreadPC
      /\ thread[p].back \in {"loop", "callback", "destroy"}
      /\ {"loop", "dispatch", "next", "clear", "callback", "adding", "spin",
          "reraise", "destroy", "closing", "gone"} = ThreadPC
  BY DEF IInv, TypeOK, Backs, ThreadPC
<1>3. CASE Added(p)
  <2>1. woken' \in [PS -> BOOLEAN]
    BY <1>1, <1>3 DEF Added
  <2> QED
    BY <1>1, <1>2, <1>3, <2>1, GoStep DEF Added, Release
<1>4. CASE Spun(p)
  BY <1>1, <1>2, <1>4, GoStep DEF Spun
<1>5. CASE Reraise(p)
  <2>1. flag' \in [Sig -> 0..2]
    <3>1. flag' = [flag EXCEPT ![thread[p].sig] = 0] /\ 0 \in 0..2
      BY <1>5 DEF Reraise
    <3> QED
      BY <3>1, FlagType DEF IInv
  <2>2. overtaken' \in SUBSET Sig
    <3>1. Handling(thread[p].sig, {"read", "wake", "finish"}) => thread[p].sig \in Sig
      BY DEF Handling, IInv, Busy
    <3> QED
      BY <1>1, <1>5, <3>1 DEF Reraise
  <2>3. unguarded' \in SUBSET Sig
    <3>1. Exposes(thread[p].sig, {"read"}, Handler)
      BY <1>5 DEF Reraise
    <3> QED
      BY <3>1, ExposesType DEF IInv
  <2> QED
    BY <1>1, <1>2, <1>5, <2>1, <2>2, <2>3, GoStep DEF Reraise
<1>6. CASE Destroy(p)
  <2>1. calls' \in 0..MaxCalls
    BY <1>1, <1>6, SignalAssumption DEF Destroy
  <2> QED
    BY <1>1, <1>2, <1>6, <2>1, GoStep DEF Destroy, Acquire
<1>7. CASE DestroyOne(p)
  <2>1. PICK s \in First(cbs[p]) : Unhook(p, s)
    BY <1>7 DEF DestroyOne
  <2>2. s \in Sig
    BY DEF First, IInv, TypeOK
  <2> QED
    BY <1>1, <1>7, <2>1, <2>2, UnhookStep DEF DestroyOne, At
<1>8. CASE Destroyed(p)
  BY <1>1, <1>2, <1>8, GoStep DEF Destroyed, Release
<1>9. CASE Close(p)
  <2>1. cbs[p] = {} /\ woken' \in [PS -> BOOLEAN]
    BY <1>1, <1>9 DEF Close, At, IInv, ClosedEmpty
  <2> QED
    BY <1>1, <1>2, <1>9, <2>1, GoStep DEF Close
<1>10. ASSUME Drain(p)
       PROVE  woken' \in [PS -> BOOLEAN] /\ signal_pending_' \in [PS -> BOOLEAN]
  BY <1>1, <1>10 DEF Drain
<1>11. CASE Poll(p)
  BY <1>1, <1>2, <1>10, <1>11, GoStep DEF Poll, Drain
<1>12. CASE PollThrows(p)
  <2>1. TypeOK'
    BY <1>10, <1>12 DEF PollThrows, Drain, IInv, TypeOK, tables
  <2> QED
    BY <1>12, <2>1, Frame DEF PollThrows, Drain, IInv, Backs, ClosedEmpty
<1>13. CASE NoSignal(p) \/ CallbackReturns(p)
  BY <1>1, <1>2, <1>13, GoStep DEF NoSignal, CallbackReturns, Acquire
<1>14. CASE Clear(p)
  <2>1. flag' \in [Sig -> 0..2]
    <3>1. flag' = [flag EXCEPT ![thread[p].sig] = 0] /\ 0 \in 0..2
      BY <1>14 DEF Clear
    <3> QED
      BY <3>1, FlagType DEF IInv
  <2>2. unguarded' \in SUBSET Sig
    <3>1. Exposes(thread[p].sig, {"read", "wake"}, Handler)
      BY <1>14 DEF Clear
    <3> QED
      BY <3>1, ExposesType DEF IInv
  <2> QED
    BY <1>1, <1>2, <1>14, <2>1, <2>2, GoStep DEF Clear, Release
<1>15. CASE Dispatched(p)
  <2>1. signal_pending_' \in [PS -> BOOLEAN]
    BY <1>1, <1>15 DEF Dispatched
  <2> QED
    BY <1>1, <1>2, <1>15, <2>1, GoStep DEF Dispatched, Release
<1>16. CASE Collect(p) \/ SkipStolen(p) \/ Waited(p) \/ CallbackThrows(p)
  <2> DEFINE Moved == /\ thread' \in [PS -> [pc : ThreadPC, sig : Sig \cup {0}, back : ThreadPC,
                                            pending : SUBSET Sig]]
                     /\ thread'[p].pc \in {"next", "clear", "loop"}
                     /\ thread'[p].back = thread[p].back
                     /\ \A q \in PS \ {p} : thread'[q] = thread[q]
  <2>1. thread[p].pending \in SUBSET Sig /\ cbs[p] \in SUBSET Sig
    BY DEF IInv, TypeOK
  <2>2. Moved
    <3>1. CASE Collect(p)
      <4> DEFINE left == {s \in cbs[p] : flag[s] # 0}
      <4>1. /\ left \in SUBSET Sig /\ "next" \in ThreadPC
            /\ thread' = [thread EXCEPT ![p].pc = "next", ![p].pending = left]
        BY <1>2, <2>1, <3>1 DEF Collect
      <4> HIDE DEF left
      <4>2. TypeOK
        BY DEF IInv
      <4> QED
        BY <4>1, <4>2, LeftType
    <3>2. CASE SkipStolen(p)
      <4>1. PICK s \in First(thread[p].pending) :
              thread' = [thread EXCEPT ![p].pending = @ \ {s}]
        BY <3>2 DEF SkipStolen
      <4> QED
        BY <1>2, <3>2, <4>1, SMTT(30) DEF SkipStolen, At, IInv, TypeOK
    <3>3. CASE Waited(p)
      <4>1. PICK s \in First(thread[p].pending) :
              thread' = [thread EXCEPT ![p].pc = "clear", ![p].sig = s, ![p].pending = @ \ {s}]
        BY <3>3 DEF Waited
      <4> DEFINE left == thread[p].pending \ {s}
      <4>2. /\ s \in Sig /\ left \in SUBSET Sig
            /\ thread' = [thread EXCEPT ![p].pc = "clear", ![p].sig = s, ![p].pending = left]
        BY <2>1, <4>1 DEF First
      <4> HIDE DEF left
      <4> QED
        BY <1>2, <4>2, SignalType, ZenonT(40) DEF IInv
    <3>4. CASE CallbackThrows(p)
      <4>1. /\ {} \in SUBSET Sig /\ "loop" \in ThreadPC
            /\ thread' = [thread EXCEPT ![p].pc = "loop", ![p].pending = {}]
        BY <1>2, <3>4 DEF CallbackThrows
      <4>2. TypeOK
        BY DEF IInv
      <4> QED
        BY <4>1, <4>2, LeftType
    <3> QED
      BY <1>16, <3>1, <3>2, <3>3, <3>4
  <2>3. TypeOK' /\ UNCHANGED <<tables, handler>>
    BY <1>16, <2>2 DEF IInv, TypeOK, tables, Collect, SkipStolen, Waited, CallbackThrows, Acquire
  <2> QED
    BY <1>2, <2>2, <2>3, Frame
<1> QED
  BY <1>3, <1>4, <1>5, <1>6, <1>7, <1>8, <1>9, <1>10, <1>13, <1>14, <1>15, <1>16,
     <1>11, <1>12 DEF ThreadStep

LEMMA NextIInv == IInv /\ [Next]_vars => IInv'
<1> SUFFICES ASSUME IInv, [Next]_vars  PROVE IInv'
  OBVIOUS
<1>1. ASSUME NEW h \in Handler, HandlerStep(h) \/ \E s \in Sig : Deliver(h, s)
      PROVE  IInv'
  <2>1. TypeOK' /\ Busy'
    BY <1>1, HandlerStepType, DeliverType DEF IInv
  <2>2. UNCHANGED <<tables, thread>>
    BY <1>1 DEF HandlerStep, Check, Mark, ReadOwner, WakeOwner, Finish, Deliver
  <2> QED
    BY <2>1, <2>2 DEF IInv, Backs, Owned, ClosedEmpty, tables
<1>2. ASSUME NEW p \in PS, NEW s \in Sig, RemoveSignal(p, s)  PROVE IInv'
  <2>1. /\ Unhook(p, s) /\ thread[p].pc \in {"loop", "callback"} /\ lock' = p
        /\ calls' \in 0..MaxCalls
    BY <1>2, SignalAssumption DEF RemoveSignal, MayCall, At, Acquire, IInv, TypeOK
  <2> QED
    BY <1>2, <2>1, UnhookStep DEF RemoveSignal
<1>3. ASSUME NEW p \in PS, NEW s \in Sig, RemoveNothing(p, s)  PROVE IInv'
  <2>1. calls' \in 0..MaxCalls
    BY <1>3, SignalAssumption DEF RemoveNothing, MayCall, IInv, TypeOK
  <2> QED
    BY <1>3, <2>1
    DEF RemoveNothing, IInv, TypeOK, Busy, Backs, Owned, ClosedEmpty, tables, crossings
<1>4. ASSUME NEW p \in PS, Call(p)  PROVE IInv'
  BY <1>2, <1>3, <1>4, AddSignalStep, AddRefusedStep, ThreadStepIInv DEF Call
<1>5. CASE UNCHANGED vars
  BY <1>5 DEF vars, IInv, TypeOK, Busy, Backs, Owned, ClosedEmpty
<1> QED
  BY <1>1, <1>4, <1>5, ThreadStepIInv DEF Next

LEMMA InvariantHolds == Spec => []IInv
  BY InitIInv, NextIInv, PTL DEF Spec

(***************************************************************************)
(* signal_owners and signal_cbs_ agree whenever signal_owners_lock is free *)
(* (pollset.cc:340), however signals are stolen, removed and refused, and  *)
(* objects destroyed, by any number of threads.                            *)
(***************************************************************************)
THEOREM OwnersAlwaysAgree == Spec => []OwnersAgree
<1>1. IInv => OwnersAgree
  BY DEF IInv, Owned, OwnersAgree
<1> QED
  BY <1>1, InvariantHolds, PTL

----------------------------------------------------------------------------
(***************************************************************************)
(* Marked signals.                                                         *)
(***************************************************************************)

\* signal_owners_lock is held where the code holds it.
Locked ==
  \A p \in PS :
    /\ thread[p].pc \in {"adding", "spin", "reraise", "next", "clear", "destroy"} => lock = p
    /\ thread[p].pc = "adding" => thread[p].back # "destroy"

\* Under way in run_subtype_handlers, perhaps within a callback's signal_cb.
Dispatching(p) ==
  \/ thread[p].pc \in {"next", "clear", "callback"}
  \/ thread[p].pc \in {"adding", "spin", "reraise"} /\ thread[p].back = "callback"

\* A handler that interrupts the threads finds the signal as it left it.
Knows ==
  \A h \in Handler :
    /\ handler[h].pc \in {"read", "wake", "finish"} => flag[handler[h].sig] # 0
    /\ handler[h].pc = "wake" => handler[h].ps = owner[handler[h].sig]

\* Where p learns of its marked signal s: from the pipe, from a handler or the end
\* of signal_cb, from the set that run_subtype_handlers goes through, or from its
\* next run.
NotedBy(p, s) ==
  owner[s] = p /\ flag[s] # 0 =>
    \/ woken[p] \/ Waking(s)
    \/ thread[p].pc \in {"adding", "clear"} /\ thread[p].sig = s
    \/ Dispatching(p) /\ s \in thread[p].pending
    \/ ~Dispatching(p) /\ signal_pending_[p]

Noted ==
  /\ \A p \in PS : Dispatching(p) => signal_pending_[p]
  /\ \A p \in PS, s \in Sig : NotedBy(p, s)

JInv == Locked /\ (Interrupting => Knows /\ Noted)

LEMMA InitJInv == Init => JInv
  BY SignalAssumption DEF Init, JInv, Locked, Dispatching, Knows, NotedBy, Noted

\* What a handler's step must not lose.
LEMMA StillNoted ==
  ASSUME Noted, UNCHANGED <<owner, thread, signal_pending_>>,
         \A s \in Sig : flag'[s] # 0 => flag[s] # 0 \/ Waking(s)',
         \A p \in PS : woken[p] => woken'[p],
         \A p \in PS, s \in Sig : Waking(s) /\ owner[s] = p => Waking(s)' \/ woken'[p]
  PROVE  Noted'
  BY DEF Noted, NotedBy, Dispatching

LEMMA HandlerJInv ==
  ASSUME IInv, JInv, NEW h \in Handler, HandlerStep(h) \/ \E s \in Sig : Deliver(h, s)
  PROVE  JInv'
<1>1. Locked'
  BY DEF JInv, Locked, HandlerStep, Check, Mark, ReadOwner, WakeOwner, Finish, Deliver
<1> SUFFICES ASSUME Interrupting  PROVE Knows' /\ Noted'
  BY <1>1 DEF JInv
<1> DEFINE sig == handler[h].sig
<1>2. /\ Knows /\ Noted /\ UNCHANGED <<owner, thread, signal_pending_>>
      /\ TypeOK /\ (handler[h].pc # "idle" => sig \in Sig)
  BY DEF JInv, IInv, Busy, tables, HandlerStep, Check, Mark, ReadOwner, WakeOwner, Finish, Deliver
<1>3. CASE Check(h) \/ \E s \in Sig : Deliver(h, s)
  <2>1. /\ handler[h].pc \notin {"read", "wake"} /\ handler'[h].pc \notin {"read", "wake", "finish"}
        /\ \A g \in Handler \ {h} : handler'[g] = handler[g]
        /\ UNCHANGED <<flag, woken>>
    <3>1. CASE Check(h)
      <4>1. PICK pc \in {"idle", "mark"} : handler' = [handler EXCEPT ![h].pc = pc]
        BY <3>1 DEF Check
      <4>2. pc \in HandlerPC
        BY DEF HandlerPC
      <4>3. handler'[h].pc = pc /\ \A g \in Handler \ {h} : handler'[g] = handler[g]
        BY <1>2, <4>1, <4>2, HandlerGo
      <4> QED
        BY <3>1, <4>3 DEF Check
    <3>2. CASE \E s \in Sig : Deliver(h, s)
      <4>1. PICK new : new.pc = "entered" /\ handler' = [handler EXCEPT ![h] = new]
        BY <3>2 DEF Deliver
      <4>2. handler'[h] = new /\ \A g \in Handler \ {h} : handler'[g] = handler[g]
        BY <1>2, <4>1 DEF TypeOK
      <4> QED
        BY <3>2, <4>1, <4>2 DEF Deliver
    <3> QED
      BY <1>3, <3>1, <3>2
  <2>2. Knows'
    BY <1>2, <2>1 DEF Knows
  <2>3. \A s \in Sig : Waking(s) => Waking(s)'
    BY <2>1 DEF Waking, Handling
  <2> QED
    BY <1>2, <2>1, <2>2, <2>3, StillNoted
<1>4. CASE Mark(h)
  <2>1. /\ handler[h].pc = "mark" /\ handler'[h].pc = "read" /\ handler'[h].sig = sig
        /\ \A g \in Handler \ {h} : handler'[g] = handler[g]
        /\ flag'[sig] = 1 /\ \A s \in Sig \ {sig} : flag'[s] = flag[s]
        /\ UNCHANGED woken
    <3>1. /\ handler' = [handler EXCEPT ![h].pc = "read"] /\ "read" \in HandlerPC
          /\ flag' = [flag EXCEPT ![sig] = 1] /\ 1 \in 0..2
          /\ handler[h].pc = "mark" /\ UNCHANGED woken
      BY <1>4 DEF Mark, HandlerPC
    <3>2. /\ handler'[h].pc = "read" /\ handler'[h].sig = sig
          /\ \A g \in Handler \ {h} : handler'[g] = handler[g]
      BY <1>2, <3>1, HandlerGo
    <3>3. sig \in Sig
      BY <1>2, <3>1
    <3> HIDE DEF sig
    <3>4. flag'[sig] = 1 /\ \A s \in Sig \ {sig} : flag'[s] = flag[s]
      BY <1>2, <3>1, <3>3, FlagType
    <3> QED
      BY <3>1, <3>2, <3>4
  <2>2. Knows'
    BY <1>2, <2>1 DEF Knows, IInv, Busy
  <2>3. \A s \in Sig : Waking(s) => Waking(s)'
    BY <2>1 DEF Waking, Handling
  <2> HIDE DEF sig
  <2>5. \A s \in Sig : flag'[s] # 0 => flag[s] # 0 \/ Waking(s)'
    <3> TAKE s \in Sig
    <3>1. CASE s = sig
      BY <2>1, <3>1 DEF Waking, Handling
    <3>2. CASE s # sig
      BY <2>1, <3>2
    <3> QED
      BY <3>1, <3>2
  <2> QED
    BY <1>2, <2>1, <2>2, <2>3, <2>5, StillNoted
<1>5. CASE ReadOwner(h)
  <2>1. /\ handler[h].pc = "read" /\ handler'[h].sig = sig /\ handler'[h].ps = owner[sig]
        /\ handler'[h].pc = IF owner[sig] = None THEN "finish" ELSE "wake"
        /\ \A g \in Handler \ {h} : handler'[g] = handler[g]
        /\ UNCHANGED <<flag, woken>>
    <3> DEFINE ps == owner[sig]
               pc == IF ps = None THEN "finish" ELSE "wake"
    <3>1. /\ handler[h].pc = "read" /\ UNCHANGED <<flag, woken>>
          /\ handler' = [handler EXCEPT ![h].ps = ps, ![h].pc = pc]
      BY <1>5 DEF ReadOwner
    <3> HIDE DEF ps, pc
    <3>2. /\ handler'[h].sig = sig /\ handler'[h].ps = ps /\ handler'[h].pc = pc
          /\ \A g \in Handler \ {h} : handler'[g] = handler[g]
      BY <1>2, <3>1 DEF TypeOK
    <3> QED
      BY <3>1, <3>2 DEF ps, pc
  <2>2. Knows'
    BY <1>2, <2>1 DEF Knows
  <2>3. \A p \in PS, s \in Sig : Waking(s) /\ owner[s] = p => Waking(s)'
    BY <2>1, SignalAssumption DEF Waking, Handling
  <2> QED
    BY <1>2, <2>1, <2>2, <2>3, StillNoted
<1>6. CASE WakeOwner(h)
  <2>1. /\ handler[h].pc = "wake" /\ handler'[h].pc = "finish" /\ handler'[h].sig = sig
        /\ \A g \in Handler \ {h} : handler'[g] = handler[g]
        /\ handler[h].ps = owner[sig] /\ handler[h].ps \in PS
        /\ UNCHANGED flag
    BY <1>2, <1>6, HandlerGo DEF WakeOwner, HandlerPC, Knows, IInv, Busy
  <2>2. Alive(handler[h].ps)
    <3>1. owner[sig] \in PS /\ sig \in cbs[owner[sig]]
      BY <1>2, <2>1 DEF IInv, Owned
    <3> QED
      BY <2>1, <3>1 DEF IInv, ClosedEmpty, Alive
  <2>3. woken'[owner[sig]] /\ \A p \in PS : woken[p] => woken'[p]
    BY <1>2, <1>6, <2>1, <2>2 DEF WakeOwner, TypeOK
  <2>4. Knows'
    BY <1>2, <2>1 DEF Knows
  <2>5. \A p \in PS, s \in Sig : Waking(s) /\ owner[s] = p => Waking(s)' \/ woken'[p]
    BY <2>1, <2>3 DEF Waking, Handling
  <2> QED
    BY <1>2, <2>1, <2>3, <2>4, <2>5, StillNoted
<1>7. CASE Finish(h)
  <2>1. /\ handler[h].pc = "finish" /\ handler'[h].pc = "idle"
        /\ \A g \in Handler \ {h} : handler'[g] = handler[g]
        /\ flag'[sig] = 2 /\ flag[sig] # 0 /\ \A s \in Sig \ {sig} : flag'[s] = flag[s]
        /\ UNCHANGED woken
    <3>1. /\ handler' = [handler EXCEPT ![h].pc = "idle"] /\ "idle" \in HandlerPC
          /\ flag' = [flag EXCEPT ![sig] = 2] /\ 2 \in 0..2
          /\ handler[h].pc = "finish" /\ UNCHANGED woken
      BY <1>7 DEF Finish, HandlerPC
    <3>2. /\ handler'[h].pc = "idle"
          /\ \A g \in Handler \ {h} : handler'[g] = handler[g]
      BY <1>2, <3>1, HandlerGo
    <3>3. sig \in Sig /\ flag[sig] # 0
      BY <1>2, <3>1 DEF Knows
    <3> HIDE DEF sig
    <3>4. flag'[sig] = 2 /\ \A s \in Sig \ {sig} : flag'[s] = flag[s]
      BY <1>2, <3>1, <3>3, FlagType
    <3> QED
      BY <3>1, <3>2, <3>3, <3>4
  <2>2. Knows'
    BY <1>2, <2>1 DEF Knows, IInv, Busy
  <2>3. \A s \in Sig : Waking(s) => Waking(s)'
    BY <2>1 DEF Waking, Handling
  <2> QED
    BY <1>2, <2>1, <2>2, <2>3, StillNoted
<1> QED
  BY <1>3, <1>4, <1>5, <1>6, <1>7 DEF HandlerStep

(***************************************************************************)
(* A step of thread p while the handlers rest.  What it must show is about *)
(* p alone: the signals of another object are as they were, or no longer   *)
(* that object's.                                                          *)
(***************************************************************************)
LEMMA OthersNoted ==
  ASSUME JInv, Interrupting, NEW p \in PS,
         \A h \in Handler : handler[h].pc = "idle", UNCHANGED handler,
         \A q \in PS \ {p} : /\ thread'[q] = thread[q] /\ woken'[q] = woken[q]
                             /\ signal_pending_'[q] = signal_pending_[q],
         \A q \in PS \ {p}, s \in Sig : owner'[s] = q => owner[s] = q,
         \A s \in Sig : flag'[s] # 0 => flag[s] # 0,
         Dispatching(p)' => signal_pending_'[p],
         \A s \in Sig : NotedBy(p, s)'
  PROVE  Knows' /\ Noted'
<1>1. \A s \in Sig : Waking(s) = Waking(s)'
  BY DEF Waking, Handling
<1>2. \A q \in PS \ {p}, s \in Sig : NotedBy(q, s)'
  BY <1>1 DEF JInv, Noted, NotedBy, Dispatching
<1>3. \A q \in PS \ {p} : Dispatching(q)' => signal_pending_'[q]
  BY DEF JInv, Noted, Dispatching
<1> QED
  BY <1>2, <1>3 DEF Knows, Noted

\* The lock is passed on by the thread that holds it.
LEMMA OthersLocked ==
  ASSUME Locked, NEW p \in PS,
         lock \in {p, Free} \/ lock' = lock,
         \A q \in PS \ {p} : thread'[q] = thread[q],
         thread'[p].pc \in {"adding", "spin", "reraise", "next", "clear", "destroy"} => lock' = p,
         thread'[p].pc = "adding" => thread'[p].back # "destroy"
  PROVE  Locked'
  BY SignalAssumption DEF Locked

\* signal_cb for a new signal.
LEMMA AddSignalJInv ==
  ASSUME IInv, JInv, NEW p \in PS, NEW s \in Sig, AddSignal(p, s)
  PROVE  JInv'
<1>1. /\ thread[p].pc \in {"loop", "callback"} /\ lock = Free /\ lock' = p
      /\ owner' = [owner EXCEPT ![s] = p]
      /\ Interrupting => \A h \in Handler : handler[h].pc = "idle"
      /\ UNCHANGED <<flag, woken, signal_pending_, handler>>
  BY DEF AddSignal, MayCall, At, Acquire
<1>2. /\ thread'[p].pc = "adding" /\ thread'[p].back = thread[p].pc /\ thread'[p].sig = s
      /\ thread'[p].pending = thread[p].pending
      /\ \A q \in PS \ {p} : thread'[q] = thread[q]
  BY CallType DEF AddSignal, IInv, ThreadPC
<1>3. Locked'
  BY <1>1, <1>2, OthersLocked DEF JInv
<1> SUFFICES ASSUME Interrupting  PROVE Knows' /\ Noted'
  BY <1>3 DEF JInv
<1>4. Dispatching(p)' = Dispatching(p)
  BY <1>1, <1>2 DEF Dispatching
<1>5. \A r \in Sig : owner'[r] = IF r = s THEN p ELSE owner[r]
  BY <1>1 DEF IInv, TypeOK
<1>6. \A r \in Sig : NotedBy(p, r)'
  <2> TAKE r \in Sig
  <2>1. NotedBy(p, r) /\ Waking(r)' = Waking(r)
    BY <1>1 DEF JInv, Noted, Waking, Handling
  <2> QED
    BY <1>1, <1>2, <1>4, <1>5, <2>1 DEF NotedBy
<1> QED
  BY <1>1, <1>2, <1>4, <1>5, <1>6, OthersNoted DEF JInv, Noted

\* erase_signal_cb, from signal_cb or the destructor.
LEMMA UnhookJInv ==
  ASSUME IInv, JInv, NEW p \in PS, NEW s \in Sig, Unhook(p, s),
         thread[p].pc \in {"loop", "callback", "destroy"},
         lock \in {p, Free}, lock' = p,
         Interrupting => \A h \in Handler : handler[h].pc = "idle",
         UNCHANGED <<flag, woken, signal_pending_, handler>>
  PROVE  JInv'
<1>1. /\ thread'[p].pc = "spin" /\ thread'[p].back = thread[p].pc
      /\ thread'[p].pending = thread[p].pending
      /\ \A q \in PS \ {p} : thread'[q] = thread[q]
  BY CallType DEF Unhook, IInv, ThreadPC
<1>2. Locked'
  BY <1>1, OthersLocked DEF JInv
<1> SUFFICES ASSUME Interrupting  PROVE Knows' /\ Noted'
  BY <1>2 DEF JInv
<1>3. Dispatching(p)' = Dispatching(p)
  BY <1>1 DEF Dispatching
<1>4. \A r \in Sig : owner'[r] = IF r = s THEN None ELSE owner[r]
  BY DEF Unhook, IInv, TypeOK
<1>5. \A r \in Sig : NotedBy(p, r)'
  <2> TAKE r \in Sig
  <2>1. NotedBy(p, r) /\ Waking(r)' = Waking(r)
    BY DEF JInv, Noted, Waking, Handling
  <2> QED
    BY <1>1, <1>3, <1>4, <2>1, SignalAssumption DEF NotedBy
<1> QED
  BY <1>1, <1>3, <1>4, <1>5, OthersNoted, SignalAssumption DEF JInv, Noted


\* Any other step of a thread: it changes nothing but the thread's own state,
\* and perhaps resets a flag.
LEMMA OwnStepJInv ==
  ASSUME IInv, JInv, NEW p \in PS,
         Interrupting => \A h \in Handler : handler[h].pc = "idle",
         UNCHANGED <<tables, handler>>,
         \A q \in PS \ {p} : /\ thread'[q] = thread[q] /\ woken'[q] = woken[q]
                             /\ signal_pending_'[q] = signal_pending_[q],
         \A s \in Sig : flag'[s] # 0 => flag[s] # 0,
         lock \in {p, Free} \/ lock' = lock,
         thread'[p].pc \in {"adding", "spin", "reraise", "next", "clear", "destroy"} => lock' = p,
         thread'[p].pc # "adding",
         Interrupting /\ Dispatching(p)' => signal_pending_'[p],
         \A s \in Sig : Interrupting /\ NotedBy(p, s) /\ ~Waking(s) => NotedBy(p, s)'
  PROVE  JInv'
<1>1. Locked'
  BY OthersLocked DEF JInv
<1> SUFFICES ASSUME Interrupting  PROVE Knows' /\ Noted'
  BY <1>1 DEF JInv
<1>2. \A s \in Sig : NotedBy(p, s) /\ NotedBy(p, s)'
  BY DEF JInv, Noted, Waking, Handling
<1> QED
  BY <1>2, OthersNoted DEF tables

LEMMA ThreadStepJInv ==
  ASSUME IInv, JInv, NEW p \in PS,
         ThreadStep(p) \/ Destroy(p) \/ Poll(p) \/ PollThrows(p) \/ CallbackThrows(p)
  PROVE  JInv'
<1>1. /\ TypeOK /\ thread[p].back \in {"loop", "callback", "destroy"}
      /\ {"loop", "dispatch", "next", "clear", "callback", "adding", "spin",
          "reraise", "destroy", "closing", "gone"} = ThreadPC
      /\ \A s \in Sig : owner[s] = p => s \in cbs[p]
  BY DEF IInv, Owned, Backs, ThreadPC
<1>2. /\ thread[p].pc \in {"adding", "spin", "reraise", "next", "clear", "destroy"} => lock = p
      /\ thread[p].pc = "adding" => thread[p].back # "destroy"
      /\ Interrupting => (Dispatching(p) => signal_pending_[p])
  BY DEF JInv, Locked, Noted
<1> USE DEF crossings, counters
<1>3. CASE Added(p)
  <2>1. /\ thread[p].pc = "adding" /\ Go(p, thread[p].back) /\ lock' = Free
        /\ (Interrupting => \A h \in Handler : handler[h].pc = "idle")
        /\ UNCHANGED <<tables, flag, signal_pending_, handler>>
        /\ woken' = [woken EXCEPT ![p] = @ \/ flag[thread[p].sig] # 0]
    BY <1>1, <1>2, <1>3 DEF Added, At, Release
  <2>2. /\ thread'[p].pc = thread[p].back /\ thread'[p].sig = thread[p].sig
        /\ thread'[p].back = thread[p].back /\ thread'[p].pending = thread[p].pending
        /\ \A q \in PS \ {p} : thread'[q] = thread[q]
        /\ woken'[p] = (woken[p] \/ flag[thread[p].sig] # 0)
        /\ \A q \in PS \ {p} : woken'[q] = woken[q]
    BY <1>1, <2>1, GoType DEF TypeOK
  <2>3. \A s \in Sig : Interrupting /\ NotedBy(p, s) /\ ~Waking(s) => NotedBy(p, s)'
    BY <1>1, <1>2, <2>1, <2>2 DEF NotedBy, Dispatching, tables
  <2> QED
    BY <1>1, <1>2, <2>1, <2>2, <2>3, OwnStepJInv DEF Dispatching, tables
<1>4. CASE Spun(p)
  <2>1. /\ thread[p].pc = "spin" /\ Go(p, "reraise") /\ UNCHANGED lock
        /\ (Interrupting => \A h \in Handler : handler[h].pc = "idle")
        /\ UNCHANGED <<tables, flag, woken, signal_pending_, handler>>
    BY <1>1, <1>2, <1>4 DEF Spun, At
  <2>2. /\ thread'[p].pc = "reraise" /\ thread'[p].sig = thread[p].sig
        /\ thread'[p].back = thread[p].back /\ thread'[p].pending = thread[p].pending
        /\ \A q \in PS \ {p} : thread'[q] = thread[q]
    BY <1>1, <2>1, GoType
  <2>3. \A s \in Sig : Interrupting /\ NotedBy(p, s) /\ ~Waking(s) => NotedBy(p, s)'
    BY <1>1, <1>2, <2>1, <2>2 DEF NotedBy, Dispatching, tables
  <2> QED
    BY <1>1, <1>2, <2>1, <2>2, <2>3, OwnStepJInv DEF Dispatching, tables
<1>5. CASE Reraise(p)
  <2>1. /\ thread[p].pc = "reraise" /\ Go(p, thread[p].back)
        /\ (Interrupting => \A h \in Handler : handler[h].pc = "idle")
        /\ lock' = IF thread[p].back = "destroy" THEN p ELSE Free
        /\ UNCHANGED <<tables, woken, signal_pending_, handler>>
        /\ flag' = [flag EXCEPT ![thread[p].sig] = 0]
    BY <1>1, <1>2, <1>5 DEF Reraise, At
  <2>2. /\ thread'[p].pc = thread[p].back /\ thread'[p].sig = thread[p].sig
        /\ thread'[p].back = thread[p].back /\ thread'[p].pending = thread[p].pending
        /\ \A q \in PS \ {p} : thread'[q] = thread[q]
        /\ \A s \in Sig : flag'[s] \in {flag[s], 0}
    BY <1>1, <2>1, GoType DEF TypeOK
  <2>3. \A s \in Sig : Interrupting /\ NotedBy(p, s) /\ ~Waking(s) => NotedBy(p, s)'
    BY <1>1, <1>2, <2>1, <2>2 DEF NotedBy, Dispatching, tables
  <2> QED
    BY <1>1, <1>2, <2>1, <2>2, <2>3, OwnStepJInv DEF Dispatching, tables
<1>6. CASE Destroy(p)
  <2>1. /\ thread[p].pc = "loop" /\ Go(p, "destroy") /\ lock = Free /\ lock' = p
        /\ (Interrupting => \A h \in Handler : handler[h].pc = "idle")
        /\ UNCHANGED <<tables, flag, woken, signal_pending_, handler>>
    BY <1>1, <1>2, <1>6 DEF Destroy, At, Acquire
  <2>2. /\ thread'[p].pc = "destroy" /\ thread'[p].sig = thread[p].sig
        /\ thread'[p].back = thread[p].back /\ thread'[p].pending = thread[p].pending
        /\ \A q \in PS \ {p} : thread'[q] = thread[q]
    BY <1>1, <2>1, GoType
  <2>3. \A s \in Sig : Interrupting /\ NotedBy(p, s) /\ ~Waking(s) => NotedBy(p, s)'
    BY <1>1, <1>2, <2>1, <2>2 DEF NotedBy, Dispatching, tables
  <2> QED
    BY <1>1, <1>2, <2>1, <2>2, <2>3, OwnStepJInv DEF Dispatching, tables
<1>7. CASE DestroyOne(p)
  <2>1. PICK s \in First(cbs[p]) : Unhook(p, s)
    BY <1>7 DEF DestroyOne
  <2>2. s \in Sig
    BY <1>1 DEF First, TypeOK
  <2> QED
    BY <1>2, <1>7, <2>1, <2>2, UnhookJInv DEF DestroyOne, At
<1>8. CASE Destroyed(p)
  <2>1. /\ thread[p].pc = "destroy" /\ Go(p, "closing") /\ lock' = Free
        /\ (Interrupting => \A h \in Handler : handler[h].pc = "idle")
        /\ UNCHANGED <<tables, flag, woken, signal_pending_, handler>>
    BY <1>1, <1>2, <1>8 DEF Destroyed, At, Release
  <2>2. /\ thread'[p].pc = "closing" /\ thread'[p].sig = thread[p].sig
        /\ thread'[p].back = thread[p].back /\ thread'[p].pending = thread[p].pending
        /\ \A q \in PS \ {p} : thread'[q] = thread[q]
    BY <1>1, <2>1, GoType
  <2>3. \A s \in Sig : Interrupting /\ NotedBy(p, s) /\ ~Waking(s) => NotedBy(p, s)'
    BY <1>1, <1>2, <2>1, <2>2 DEF NotedBy, Dispatching, tables
  <2> QED
    BY <1>1, <1>2, <2>1, <2>2, <2>3, OwnStepJInv DEF Dispatching, tables
<1>9. CASE Close(p)
  <2>1. /\ thread[p].pc = "closing" /\ Go(p, "gone") /\ UNCHANGED lock
        /\ (Interrupting => \A h \in Handler : handler[h].pc = "idle")
        /\ UNCHANGED <<tables, flag, signal_pending_, handler>>
        /\ woken' = [woken EXCEPT ![p] = FALSE]
    BY <1>1, <1>2, <1>9 DEF Close, At
  <2>2. /\ thread'[p].pc = "gone" /\ thread'[p].sig = thread[p].sig
        /\ thread'[p].back = thread[p].back /\ thread'[p].pending = thread[p].pending
        /\ \A q \in PS \ {p} : thread'[q] = thread[q]
        /\ \A q \in PS \ {p} : woken'[q] = woken[q]
    BY <1>1, <2>1, GoType DEF TypeOK
  <2>3. \A s \in Sig : owner[s] # p
    BY <1>1, <2>1 DEF IInv, ClosedEmpty
  <2>4. \A s \in Sig : Interrupting /\ NotedBy(p, s) /\ ~Waking(s) => NotedBy(p, s)'
    BY <1>1, <1>2, <2>1, <2>2, <2>3 DEF NotedBy, Dispatching, tables
  <2> QED
    BY <1>1, <1>2, <2>1, <2>2, <2>3, <2>4, OwnStepJInv DEF Dispatching, tables
<1>10. CASE Poll(p)
  <2>1. /\ thread[p].pc = "loop" /\ UNCHANGED lock
        /\ (Interrupting => \A h \in Handler : handler[h].pc = "idle")
        /\ UNCHANGED <<tables, flag, handler>>
        /\ signal_pending_' = [signal_pending_ EXCEPT ![p] = @ \/ woken[p]]
        /\ woken' = [woken EXCEPT ![p] = FALSE]
        /\ Go(p, "dispatch")
    BY <1>1, <1>2, <1>10 DEF Poll, Drain, At
  <2>2. /\ thread'[p].pc = "dispatch" /\ thread'[p].sig = thread[p].sig
        /\ thread'[p].back = thread[p].back /\ thread'[p].pending = thread[p].pending
        /\ \A q \in PS \ {p} : thread'[q] = thread[q]
        /\ signal_pending_'[p] = (signal_pending_[p] \/ woken[p])
        /\ \A q \in PS \ {p} : woken'[q] = woken[q] /\ signal_pending_'[q] = signal_pending_[q]
    BY <1>1, <2>1, GoType DEF TypeOK
  <2>3. \A s \in Sig : Interrupting /\ NotedBy(p, s) /\ ~Waking(s) => NotedBy(p, s)'
    BY <1>1, <1>2, <2>1, <2>2 DEF NotedBy, Dispatching, tables
  <2> QED
    BY <1>1, <1>2, <2>1, <2>2, <2>3, OwnStepJInv DEF Dispatching, tables
<1>11. CASE PollThrows(p)
  <2>1. /\ thread[p].pc = "loop" /\ UNCHANGED lock
        /\ (Interrupting => \A h \in Handler : handler[h].pc = "idle")
        /\ UNCHANGED <<tables, flag, handler>>
        /\ signal_pending_' = [signal_pending_ EXCEPT ![p] = @ \/ woken[p]]
        /\ woken' = [woken EXCEPT ![p] = FALSE]
        /\ UNCHANGED thread
    BY <1>1, <1>2, <1>11 DEF PollThrows, Drain, At
  <2>2. /\ signal_pending_'[p] = (signal_pending_[p] \/ woken[p])
        /\ \A q \in PS \ {p} : woken'[q] = woken[q] /\ signal_pending_'[q] = signal_pending_[q]
    BY <1>1, <2>1 DEF TypeOK
  <2>3. \A s \in Sig : Interrupting /\ NotedBy(p, s) /\ ~Waking(s) => NotedBy(p, s)'
    BY <1>1, <1>2, <2>1, <2>2 DEF NotedBy, Dispatching, tables
  <2> QED
    BY <1>1, <1>2, <2>1, <2>2, <2>3, OwnStepJInv DEF Dispatching, tables
<1>12. CASE NoSignal(p)
  <2>1. /\ thread[p].pc = "dispatch" /\ Go(p, "loop") /\ UNCHANGED lock
        /\ (Interrupting => \A h \in Handler : handler[h].pc = "idle")
        /\ UNCHANGED <<tables, flag, woken, signal_pending_, handler>>
    BY <1>1, <1>2, <1>12 DEF NoSignal, At
  <2>2. /\ thread'[p].pc = "loop" /\ thread'[p].sig = thread[p].sig
        /\ thread'[p].back = thread[p].back /\ thread'[p].pending = thread[p].pending
        /\ \A q \in PS \ {p} : thread'[q] = thread[q]
    BY <1>1, <2>1, GoType
  <2>3. \A s \in Sig : Interrupting /\ NotedBy(p, s) /\ ~Waking(s) => NotedBy(p, s)'
    BY <1>1, <1>2, <2>1, <2>2 DEF NotedBy, Dispatching, tables
  <2> QED
    BY <1>1, <1>2, <2>1, <2>2, <2>3, OwnStepJInv DEF Dispatching, tables
<1>13. CASE Collect(p)
  <2>1. /\ thread[p].pc = "dispatch" /\ lock = Free /\ lock' = p /\ signal_pending_[p]
        /\ (Interrupting => \A h \in Handler : handler[h].pc = "idle")
        /\ UNCHANGED <<tables, flag, woken, signal_pending_, handler>>
        /\ thread' = [thread EXCEPT ![p].pc = "next",
                                   ![p].pending = {s \in cbs[p] : flag[s] # 0}]
    BY <1>1, <1>2, <1>13 DEF Collect, At, Acquire
  <2>2. /\ thread'[p].pc = "next" /\ thread'[p].pending = {s \in cbs[p] : flag[s] # 0}
        /\ thread'[p].back = thread[p].back /\ thread'[p].sig = thread[p].sig
        /\ \A q \in PS \ {p} : thread'[q] = thread[q]
    BY <1>1, <2>1 DEF TypeOK
  <2>3. \A s \in Sig : Interrupting /\ NotedBy(p, s) /\ ~Waking(s) => NotedBy(p, s)'
    BY <1>1, <1>2, <2>1, <2>2 DEF NotedBy, Dispatching, tables
  <2> QED
    BY <1>1, <1>2, <2>1, <2>2, <2>3, OwnStepJInv DEF Dispatching, tables
<1>14. CASE SkipStolen(p)
  <2>1. PICK r \in First(thread[p].pending) :
          r \notin cbs[p] /\ thread' = [thread EXCEPT ![p].pending = @ \ {r}]
    BY <1>14 DEF SkipStolen
  <2>2. /\ thread[p].pc = "next" /\ UNCHANGED lock
        /\ (Interrupting => \A h \in Handler : handler[h].pc = "idle")
        /\ UNCHANGED <<tables, flag, woken, signal_pending_, handler>>
    BY <1>14 DEF SkipStolen, At
  <2>3. /\ thread'[p].pc = "next" /\ thread'[p].pending = thread[p].pending \ {r}
        /\ thread'[p].back = thread[p].back /\ thread'[p].sig = thread[p].sig
        /\ \A q \in PS \ {p} : thread'[q] = thread[q]
    BY <1>1, <2>1, <2>2 DEF TypeOK
  <2>4. \A s \in Sig : Interrupting /\ NotedBy(p, s) /\ ~Waking(s) => NotedBy(p, s)'
    BY <1>1, <1>2, <2>1, <2>2, <2>3 DEF NotedBy, Dispatching, tables
  <2> QED
    BY <1>1, <1>2, <2>2, <2>3, <2>4, OwnStepJInv DEF Dispatching, tables
<1>15. CASE Waited(p)
  <2>1. PICK r \in First(thread[p].pending) :
          thread' = [thread EXCEPT ![p].pc = "clear", ![p].sig = r, ![p].pending = @ \ {r}]
    BY <1>15 DEF Waited
  <2>2. /\ thread[p].pc = "next" /\ UNCHANGED lock
        /\ (Interrupting => \A h \in Handler : handler[h].pc = "idle")
        /\ UNCHANGED <<tables, flag, woken, signal_pending_, handler>>
    BY <1>15 DEF Waited, At
  <2>3. /\ thread'[p].pc = "clear" /\ thread'[p].pending = thread[p].pending \ {r}
        /\ thread'[p].back = thread[p].back /\ thread'[p].sig = r
        /\ \A q \in PS \ {p} : thread'[q] = thread[q]
    BY <1>1, <2>1, <2>2 DEF TypeOK
  <2>4. \A s \in Sig : Interrupting /\ NotedBy(p, s) /\ ~Waking(s) => NotedBy(p, s)'
    BY <1>1, <1>2, <2>1, <2>2, <2>3 DEF NotedBy, Dispatching, tables
  <2> QED
    BY <1>1, <1>2, <2>2, <2>3, <2>4, OwnStepJInv DEF Dispatching, tables
<1>16. CASE Clear(p)
  <2>1. /\ thread[p].pc = "clear" /\ Go(p, "callback") /\ lock' = Free
        /\ (Interrupting => \A h \in Handler : handler[h].pc = "idle")
        /\ UNCHANGED <<tables, woken, signal_pending_, handler>>
        /\ flag' = [flag EXCEPT ![thread[p].sig] = 0]
    BY <1>1, <1>2, <1>16 DEF Clear, At, Release
  <2>2. /\ thread'[p].pc = "callback" /\ thread'[p].sig = thread[p].sig
        /\ thread'[p].back = thread[p].back /\ thread'[p].pending = thread[p].pending
        /\ \A q \in PS \ {p} : thread'[q] = thread[q]
        /\ \A s \in Sig : flag'[s] = IF s = thread[p].sig THEN 0 ELSE flag[s]
    BY <1>1, <2>1, GoType DEF TypeOK
  <2>3. \A s \in Sig : Interrupting /\ NotedBy(p, s) /\ ~Waking(s) => NotedBy(p, s)'
    BY <1>1, <1>2, <2>1, <2>2 DEF NotedBy, Dispatching, tables
  <2> QED
    BY <1>1, <1>2, <2>1, <2>2, <2>3, OwnStepJInv DEF Dispatching, tables
<1>17. CASE CallbackReturns(p)
  <2>1. /\ thread[p].pc = "callback" /\ Go(p, "next") /\ lock = Free /\ lock' = p
        /\ (Interrupting => \A h \in Handler : handler[h].pc = "idle")
        /\ UNCHANGED <<tables, flag, woken, signal_pending_, handler>>
    BY <1>1, <1>2, <1>17 DEF CallbackReturns, At, Acquire
  <2>2. /\ thread'[p].pc = "next" /\ thread'[p].sig = thread[p].sig
        /\ thread'[p].back = thread[p].back /\ thread'[p].pending = thread[p].pending
        /\ \A q \in PS \ {p} : thread'[q] = thread[q]
    BY <1>1, <2>1, GoType
  <2>3. \A s \in Sig : Interrupting /\ NotedBy(p, s) /\ ~Waking(s) => NotedBy(p, s)'
    BY <1>1, <1>2, <2>1, <2>2 DEF NotedBy, Dispatching, tables
  <2> QED
    BY <1>1, <1>2, <2>1, <2>2, <2>3, OwnStepJInv DEF Dispatching, tables
<1>18. CASE CallbackThrows(p)
  <2>1. /\ thread[p].pc = "callback" /\ UNCHANGED lock
        /\ (Interrupting => \A h \in Handler : handler[h].pc = "idle")
        /\ UNCHANGED <<tables, flag, woken, signal_pending_, handler>>
        /\ thread' = [thread EXCEPT ![p].pc = "loop", ![p].pending = {}]
    BY <1>1, <1>2, <1>18 DEF CallbackThrows, At
  <2>2. /\ thread'[p].pc = "loop" /\ thread'[p].pending = {}
        /\ thread'[p].back = thread[p].back /\ thread'[p].sig = thread[p].sig
        /\ \A q \in PS \ {p} : thread'[q] = thread[q]
    BY <1>1, <2>1 DEF TypeOK
  <2>3. \A s \in Sig : Interrupting /\ NotedBy(p, s) /\ ~Waking(s) => NotedBy(p, s)'
    BY <1>1, <1>2, <2>1, <2>2 DEF NotedBy, Dispatching, tables
  <2> QED
    BY <1>1, <1>2, <2>1, <2>2, <2>3, OwnStepJInv DEF Dispatching, tables
<1>19. CASE Dispatched(p)
  <2>1. /\ thread[p].pc = "next" /\ thread[p].pending = {} /\ Go(p, "loop") /\ lock' = Free
        /\ (Interrupting => \A h \in Handler : handler[h].pc = "idle")
        /\ UNCHANGED <<tables, flag, woken, handler>>
        /\ signal_pending_' = [signal_pending_ EXCEPT ![p] = FALSE]
    BY <1>1, <1>2, <1>19 DEF Dispatched, At, Release
  <2>2. /\ thread'[p].pc = "loop" /\ thread'[p].sig = thread[p].sig
        /\ thread'[p].back = thread[p].back /\ thread'[p].pending = thread[p].pending
        /\ \A q \in PS \ {p} : thread'[q] = thread[q]
        /\ \A q \in PS \ {p} : signal_pending_'[q] = signal_pending_[q]
    BY <1>1, <2>1, GoType DEF TypeOK
  <2>3. \A s \in Sig : Interrupting /\ NotedBy(p, s) /\ ~Waking(s) => NotedBy(p, s)'
    BY <1>1, <1>2, <2>1, <2>2 DEF NotedBy, Dispatching, tables
  <2> QED
    BY <1>1, <1>2, <2>1, <2>2, <2>3, OwnStepJInv DEF Dispatching, tables
<1> QED
  BY <1>3, <1>4, <1>5, <1>6, <1>7, <1>8, <1>9, <1>10, <1>11, <1>12, <1>13, <1>14,
     <1>15, <1>16, <1>17, <1>18, <1>19 DEF ThreadStep

LEMMA NextJInv == IInv /\ JInv /\ [Next]_vars => JInv'
<1> SUFFICES ASSUME IInv, JInv, [Next]_vars  PROVE JInv'
  OBVIOUS
<1>1. ASSUME NEW p \in PS, NEW s \in Sig, AddRefused(p, s) \/ RemoveNothing(p, s)
      PROVE  JInv'
  <2>1. /\ UNCHANGED <<owner, flag, woken, signal_pending_, lock, thread, handler>>
    BY <1>1 DEF AddRefused, RemoveNothing, tables
  <2> QED
    BY <2>1 DEF JInv, Locked, Dispatching, Knows, NotedBy, Noted, Waking, Handling
<1>2. ASSUME NEW p \in PS, NEW s \in Sig, RemoveSignal(p, s)  PROVE JInv'
  <2>1. /\ Unhook(p, s) /\ thread[p].pc \in {"loop", "callback"} /\ lock = Free /\ lock' = p
        /\ Interrupting => \A h \in Handler : handler[h].pc = "idle"
        /\ UNCHANGED <<flag, woken, signal_pending_, handler>>
    BY <1>2 DEF RemoveSignal, MayCall, At, Acquire
  <2> QED
    BY <2>1, UnhookJInv
<1>3. ASSUME NEW p \in PS, Call(p)  PROVE JInv'
  BY <1>1, <1>2, <1>3, AddSignalJInv, ThreadStepJInv DEF Call
<1>4. CASE UNCHANGED vars
  BY <1>4 DEF vars, JInv, Locked, Dispatching, Knows, NotedBy, Noted, Waking, Handling
<1> QED
  BY <1>3, <1>4, HandlerJInv, ThreadStepJInv DEF Next

(***************************************************************************)
(* Where a handler interrupts the threads (a program of one thread, or one *)
(* whose other threads wait), a marked signal is never forgotten: its      *)
(* owner has a byte in its pipe, or will go through its signals again      *)
(* (pollset.cc:37 and 300), though signals are stolen and removed, and     *)
(* callbacks throw, in between; and no removal overtakes a handler, so     *)
(* that this holds of every signal.                                        *)
(***************************************************************************)
THEOREM MarkedStaysNoticed == Interrupting /\ Spec => [](MarkedIsNoticed /\ overtaken = {})
<1>1. Interrupting /\ IInv /\ JInv => MarkedIsNoticed
  BY SignalAssumption DEF IInv, TypeOK, JInv, Locked, Noted, NotedBy, Dispatching, MarkedIsNoticed
<1>2. Spec => [](IInv /\ JInv)
  BY InitIInv, NextIInv, InitJInv, NextJInv, PTL DEF Spec
<1>3. CASE Interrupting
  <2>1. IInv /\ JInv => MarkedIsNoticed
    BY <1>1, <1>3
  <2>2. Init => overtaken = {}
    BY DEF Init
  <2>3. overtaken = {} /\ [Next]_vars => (overtaken = {})'
    <3> SUFFICES ASSUME overtaken = {}, [Next]_vars  PROVE overtaken' = {}
      OBVIOUS
    <3>1. ASSUME NEW p \in PS, Reraise(p)  PROVE overtaken' = {}
      BY <1>3, <3>1 DEF Reraise, At, Handling
    <3>2. ASSUME NEW h \in Handler, HandlerStep(h) \/ \E s \in Sig : Deliver(h, s)
          PROVE  overtaken' = {}
      BY <3>2 DEF HandlerStep, Check, Mark, ReadOwner, WakeOwner, Finish, Deliver,
                  counters, crossings
    <3>3. ASSUME NEW p \in PS, Call(p)  PROVE overtaken' = {}
      BY <3>3 DEF Call, AddSignal, AddRefused, RemoveSignal, RemoveNothing, Destroy, crossings
    <3>4. ASSUME NEW p \in PS, ThreadStep(p) \/ Poll(p) \/ PollThrows(p) \/ CallbackThrows(p)
          PROVE  overtaken' = {}
      BY <3>1, <3>4 DEF ThreadStep, Added, Spun, DestroyOne, Destroyed, Close, Poll, Drain,
                        PollThrows, NoSignal, Collect, SkipStolen, Waited, Clear,
                        CallbackReturns, CallbackThrows, Dispatched, counters, crossings
    <3> QED
      BY <3>2, <3>3, <3>4 DEF Next, vars
  <2> QED
    BY <1>2, <2>1, <2>2, <2>3, PTL DEF Spec
<1> QED
  BY <1>3

----------------------------------------------------------------------------
(***************************************************************************)
(* Handlers that have marked their signal, and that have read its owner.   *)
(***************************************************************************)

\* The mark is still there.
Marked(h) ==
  handler[h].pc \in {"read", "wake"} /\ handler[h].sig \notin unguarded =>
    flag[handler[h].sig] = 1

\* The owner that was read still owns the signal, or the thread that removes it
\* waits with the lock, and the owner is not closed.
Protected(h) ==
  handler[h].pc = "wake" /\ handler[h].sig \notin unguarded =>
    \/ owner[handler[h].sig] = handler[h].ps
    \/ /\ thread[handler[h].ps].pc \notin {"closing", "gone"}
       /\ lock \in PS
       /\ thread[lock].pc = "spin" /\ thread[lock].sig = handler[h].sig

\* What is being removed has no owner.
Removing == \A p \in PS : thread[p].pc \in {"spin", "reraise"} => owner[thread[p].sig] = None

LInv == Removing /\ \A h \in Handler : Marked(h) /\ Protected(h)

\* Exposes excuses the handlers it is about.
LEMMA Exposed ==
  ASSUME NEW s, NEW pcs, NEW H, Exposes(s, pcs, H)
  PROVE  /\ \A r : r \in unguarded => r \in unguarded'
         /\ \A h \in H : handler[h].sig = s /\ handler[h].pc \in pcs =>
              handler[h].sig \in unguarded'
<1>1. CASE \E h \in H : handler[h].sig = s /\ handler[h].pc \in pcs
  BY <1>1 DEF Exposes
<1>2. CASE ~\E h \in H : handler[h].sig = s /\ handler[h].pc \in pcs
  BY <1>2 DEF Exposes
<1> QED
  BY <1>1, <1>2

\* A step of a thread that removes nothing, and closes only what it has locked.
LEMMA OtherLInv ==
  ASSUME IInv, LInv, NEW p \in PS,
         UNCHANGED <<tables, handler>>,
         \A s : s \in unguarded => s \in unguarded',
         \A h \in Handler : handler[h].pc \in {"read", "wake"} =>
           \/ handler[h].sig \in unguarded'
           \/ flag'[handler[h].sig] = flag[handler[h].sig],
         thread[p].pc \notin {"spin", "reraise"}, thread'[p].pc \notin {"spin", "reraise"},
         lock \in {p, Free} \/ lock' = lock,
         \A q \in PS \ {p} : thread'[q] = thread[q],
         thread'[p].pc \in {"closing", "gone"} =>
           lock = p \/ thread[p].pc \in {"closing", "gone"}
  PROVE  LInv'
<1>1. Removing'
  BY DEF LInv, Removing, tables
<1> SUFFICES ASSUME NEW h \in Handler, handler[h].sig \notin unguarded'
             PROVE  Marked(h)' /\ Protected(h)'
  BY <1>1 DEF LInv, Marked, Protected
<1>2. /\ Marked(h) /\ Protected(h) /\ handler[h].sig \notin unguarded
      /\ handler[h].pc = "wake" => handler[h].ps \in PS
  BY DEF LInv, IInv, Busy
<1>3. Marked(h)'
  BY <1>2 DEF Marked
<1>4. Protected(h)'
  BY <1>2, SignalAssumption DEF Protected, tables
<1> QED
  BY <1>3, <1>4

LEMMA UnhookLInv ==
  ASSUME IInv, LInv, NEW p \in PS, NEW s \in Sig, Unhook(p, s),
         thread[p].pc \in {"loop", "callback", "destroy"},
         lock \in {p, Free}, lock' = p, UNCHANGED <<handler, flag, unguarded>>
  PROVE  LInv'
<1>1. /\ thread'[p].pc = "spin" /\ thread'[p].sig = s
      /\ \A q \in PS \ {p} : thread'[q] = thread[q]
  BY CallType DEF Unhook, IInv, ThreadPC
<1>2. \A r \in Sig : owner'[r] = IF r = s THEN None ELSE owner[r]
  BY DEF Unhook, IInv, TypeOK
<1>3. Removing'
  <2> SUFFICES ASSUME NEW q \in PS, thread'[q].pc \in {"spin", "reraise"}
               PROVE  owner'[thread'[q].sig] = None
    BY DEF Removing
  <2>1. CASE q = p
    BY <1>1, <1>2, <2>1
  <2>2. CASE q # p
    <3>1. owner[thread[q].sig] = None /\ thread'[q] = thread[q]
      BY <1>1, <2>2 DEF LInv, Removing
    <3>2. owner' = [owner EXCEPT ![s] = None] /\ owner \in [Sig -> PS \cup {None}]
      BY DEF Unhook, IInv, TypeOK
    <3> QED
      BY <3>1, <3>2
  <2> QED
    BY <2>1, <2>2
<1> SUFFICES ASSUME NEW h \in Handler, handler[h].sig \notin unguarded
             PROVE  Marked(h)' /\ Protected(h)'
  BY <1>3 DEF LInv, Marked, Protected
<1>4. Marked(h)'
  BY DEF LInv, Marked
<1>5. Protected(h)'
  <2> SUFFICES ASSUME handler[h].pc = "wake"  PROVE Protected(h)'
    BY DEF Protected
  <2>1. /\ Protected(h) /\ handler[h].ps \in PS /\ handler[h].sig \in Sig
        /\ owner[handler[h].sig] = handler[h].ps
    BY SignalAssumption DEF LInv, Protected, IInv, Busy
  <2>2. thread[handler[h].ps].pc \notin {"closing", "gone"}
    BY <2>1 DEF IInv, Owned, ClosedEmpty
  <2> QED
    BY <1>1, <1>2, <2>1, <2>2 DEF Protected
<1> QED
  BY <1>4, <1>5

LEMMA ThreadLInv ==
  ASSUME IInv, JInv, LInv, NEW p \in PS,
         ThreadStep(p) \/ Call(p) \/ Poll(p) \/ PollThrows(p) \/ CallbackThrows(p)
  PROVE  LInv'
<1>1. /\ thread[p].pc \in {"adding", "spin", "reraise", "next", "clear", "destroy"} => lock = p
      /\ TypeOK
  BY DEF JInv, Locked, IInv
<1>2. ASSUME NEW s \in Sig, AddSignal(p, s)  PROVE LInv'
  <2>1. /\ lock = Free /\ UNCHANGED <<handler, flag>> /\ thread'[p].pc = "adding"
        /\ \A q \in PS \ {p} : thread'[q] = thread[q]
        /\ \A r \in Sig \ {s} : owner'[r] = owner[r]
        /\ Exposes(s, {"wake"}, Handler)
    BY <1>1, <1>2 DEF AddSignal, Acquire, TypeOK
  <2>2. \A q \in PS : thread'[q].pc \notin {"spin", "reraise"}
    BY <2>1, SignalAssumption DEF JInv, Locked
  <2>3. Removing'
    BY <2>2 DEF Removing
  <2> SUFFICES ASSUME NEW h \in Handler, handler[h].sig \notin unguarded'
               PROVE  Marked(h)' /\ Protected(h)'
    BY <2>1, <2>3 DEF LInv, Marked, Protected
  <2>4. /\ handler[h].sig \notin unguarded
        /\ handler[h].pc = "wake" => handler[h].sig # s
    BY <2>1, Exposed
  <2>5. Marked(h)'
    BY <2>1, <2>4 DEF LInv, Marked
  <2>6. handler[h].pc = "wake" =>
          handler[h].sig \in Sig /\ owner[handler[h].sig] = handler[h].ps
    BY <2>1, <2>4, SignalAssumption DEF LInv, Protected, IInv, Busy
  <2> QED
    BY <2>1, <2>4, <2>5, <2>6 DEF Protected
<1>3. ASSUME NEW s \in Sig, RemoveSignal(p, s)  PROVE LInv'
  BY <1>3, UnhookLInv DEF RemoveSignal, MayCall, At, Acquire, crossings
<1>4. CASE DestroyOne(p)
  <2>1. PICK s \in First(cbs[p]) : Unhook(p, s)
    BY <1>4 DEF DestroyOne
  <2>2. s \in Sig
    BY <1>1 DEF First, TypeOK
  <2> QED
    BY <1>1, <1>4, <2>1, <2>2, UnhookLInv DEF DestroyOne, At, counters, crossings
<1>5. ASSUME NEW s \in Sig, AddRefused(p, s) \/ RemoveNothing(p, s)  PROVE LInv'
  <2>1. UNCHANGED <<owner, flag, lock, thread, handler, unguarded>>
    BY <1>5 DEF AddRefused, RemoveNothing, tables, crossings
  <2> QED
    BY <2>1 DEF LInv, Marked, Protected, Removing
<1>6. CASE Spun(p)
  <2>1. /\ thread[p].pc = "spin" /\ UNCHANGED <<owner, flag, lock, handler, unguarded>>
        /\ thread'[p].pc = "reraise" /\ thread'[p].sig = thread[p].sig
        /\ \A q \in PS \ {p} : thread'[q] = thread[q]
        /\ lock = p /\ flag[thread[p].sig] # 1
    BY <1>1, <1>6, GoType DEF Spun, At, ThreadPC, tables, counters, crossings
  <2>2. Removing'
    BY <2>1 DEF LInv, Removing
  <2> SUFFICES ASSUME NEW h \in Handler, handler[h].sig \notin unguarded
               PROVE  Marked(h)' /\ Protected(h)'
    BY <2>1, <2>2 DEF LInv, Marked, Protected
  <2>3. Marked(h) /\ Protected(h)
    BY DEF LInv
  <2>4. handler[h].pc = "wake" => owner[handler[h].sig] = handler[h].ps
    BY <2>1, <2>3 DEF Marked, Protected
  <2> QED
    BY <2>1, <2>3, <2>4 DEF Marked, Protected
<1>7. CASE Reraise(p)
  <2>1. /\ lock = p /\ UNCHANGED <<owner, handler>> /\ thread[p].pc = "reraise"
        /\ thread'[p].pc = thread[p].back
        /\ \A q \in PS \ {p} : thread'[q] = thread[q]
        /\ flag' = [flag EXCEPT ![thread[p].sig] = 0]
        /\ Exposes(thread[p].sig, {"read"}, Handler)
    BY <1>1, <1>7, GoType DEF Reraise, At, tables, IInv, Backs, ThreadPC
  <2>2. Removing' /\ thread'[p].pc \in {"loop", "callback", "destroy"}
    BY <2>1 DEF LInv, Removing, IInv, Backs
  <2> SUFFICES ASSUME NEW h \in Handler, handler[h].sig \notin unguarded'
               PROVE  Marked(h)' /\ Protected(h)'
    BY <2>1, <2>2 DEF LInv, Marked, Protected
  <2>3. /\ handler[h].sig \notin unguarded /\ Marked(h) /\ Protected(h)
        /\ handler[h].pc = "read" => handler[h].sig # thread[p].sig
    BY <2>1, Exposed DEF LInv
  <2>4. handler[h].pc = "wake" =>
          owner[handler[h].sig] = handler[h].ps /\ handler[h].ps \in PS
    BY <2>1, <2>3 DEF Protected, IInv, Busy
  <2>5. handler[h].pc = "wake" => handler[h].sig # thread[p].sig
    BY <2>1, <2>4, SignalAssumption DEF LInv, Removing
  <2>6. Marked(h)'
    BY <1>1, <2>1, <2>3, <2>5 DEF Marked, TypeOK
  <2> QED
    BY <2>1, <2>4, <2>6 DEF Protected
<1>8. ASSUME NEW pc \in ThreadPC, Go(p, pc), UNCHANGED <<tables, flag, handler, unguarded>>,
             thread[p].pc \notin {"spin", "reraise"}, pc \notin {"spin", "reraise"},
             lock \in {p, Free} \/ lock' = lock,
             pc \in {"closing", "gone"} => lock = p \/ thread[p].pc \in {"closing", "gone"}
      PROVE  LInv'
  BY <1>1, <1>8, GoType, OtherLInv
<1>9. /\ {"loop", "dispatch", "next", "callback", "destroy", "closing", "gone"} \subseteq ThreadPC
      /\ thread[p].back \in {"loop", "callback", "destroy"}
  BY DEF ThreadPC, IInv, Backs
<1>10. CASE Added(p) \/ Destroyed(p) \/ Close(p)
  BY <1>1, <1>8, <1>9, <1>10 DEF Added, Destroyed, Close, At, counters, crossings
<1>11. CASE Destroy(p) \/ Poll(p) \/ NoSignal(p)
  BY <1>1, <1>8, <1>9, <1>11 DEF Destroy, Poll, Drain, NoSignal, At, Acquire, counters, crossings
<1>12. CASE CallbackReturns(p) \/ Dispatched(p)
  BY <1>1, <1>8, <1>9, <1>12 DEF CallbackReturns, Dispatched, At, Acquire, counters, crossings
<1>13. CASE PollThrows(p)
  BY <1>13, OtherLInv DEF PollThrows, Drain, At, counters, crossings
<1>14. CASE Clear(p)
  <2>1. /\ lock = p /\ UNCHANGED <<tables, handler>> /\ thread[p].pc = "clear"
        /\ thread'[p].pc = "callback"
        /\ \A q \in PS \ {p} : thread'[q] = thread[q]
        /\ flag' = [flag EXCEPT ![thread[p].sig] = 0]
        /\ Exposes(thread[p].sig, {"read", "wake"}, Handler)
    BY <1>1, <1>9, <1>14, GoType DEF Clear, At
  <2>2. \A h \in Handler : handler[h].pc \in {"read", "wake"} =>
          \/ handler[h].sig \in unguarded'
          \/ flag'[handler[h].sig] = flag[handler[h].sig]
    <3> TAKE h \in Handler
    <3>1. CASE handler[h].sig = thread[p].sig
      BY <2>1, <3>1, Exposed
    <3>2. CASE handler[h].sig # thread[p].sig
      BY <1>1, <2>1, <3>2 DEF TypeOK
    <3> QED
      BY <3>1, <3>2
  <2>3. \A s : s \in unguarded => s \in unguarded'
    BY <2>1, Exposed
  <2> QED
    BY <2>1, <2>2, <2>3, OtherLInv
<1>15. CASE Collect(p) \/ SkipStolen(p) \/ Waited(p) \/ CallbackThrows(p)
  <2>1. /\ UNCHANGED <<tables, flag, handler, unguarded>>
        /\ thread[p].pc \notin {"spin", "reraise"}
        /\ lock \in {p, Free} \/ lock' = lock
    BY <1>1, <1>15
    DEF Collect, SkipStolen, Waited, CallbackThrows, At, Acquire, counters, crossings
  <2>2. /\ \A q \in PS \ {p} : thread'[q] = thread[q]
        /\ thread'[p].pc \in {"next", "clear", "loop"}
    <3>1. CASE Collect(p)
      BY <1>1, <3>1 DEF Collect, TypeOK
    <3>2. CASE SkipStolen(p)
      <4>1. PICK s : thread[p].pc = "next" /\ thread' = [thread EXCEPT ![p].pending = @ \ {s}]
        BY <3>2 DEF SkipStolen, At
      <4> QED
        BY <1>1, <4>1 DEF TypeOK
    <3>3. CASE Waited(p)
      <4>1. PICK s : thread' = [thread EXCEPT ![p].pc = "clear", ![p].sig = s, ![p].pending = @ \ {s}]
        BY <3>3 DEF Waited
      <4> QED
        BY <1>1, <4>1 DEF TypeOK
    <3>4. CASE CallbackThrows(p)
      BY <1>1, <3>4 DEF CallbackThrows, TypeOK
    <3> QED
      BY <1>15, <3>1, <3>2, <3>3, <3>4
  <2> QED
    BY <2>1, <2>2, OtherLInv
<1> QED
  BY <1>2, <1>3, <1>4, <1>5, <1>6, <1>7, <1>10, <1>11, <1>12, <1>13, <1>14, <1>15
  DEF ThreadStep, Call

LEMMA HandlerLInv ==
  ASSUME IInv, LInv, NEW g \in Handler, HandlerStep(g) \/ \E s \in Sig : Deliver(g, s)
  PROVE  LInv'
<1>1. /\ UNCHANGED <<owner, lock, thread>> /\ TypeOK
      /\ \A h \in Handler \ {g} : handler'[h] = handler[h]
  BY DEF HandlerStep, Check, Mark, ReadOwner, WakeOwner, Finish, Deliver, tables, IInv, TypeOK
<1>2. Removing'
  BY <1>1 DEF LInv, Removing
<1>3. CASE Finish(g)
  <2>1. /\ flag' = [flag EXCEPT ![handler[g].sig] = 2] /\ handler'[g].pc = "idle"
        /\ Exposes(handler[g].sig, {"read", "wake"}, Handler \ {g})
    BY <1>1, <1>3 DEF Finish, TypeOK
  <2> SUFFICES ASSUME NEW h \in Handler \ {g}, handler[h].sig \notin unguarded'
               PROVE  Marked(h)' /\ Protected(h)'
    BY <1>1, <1>2, <2>1 DEF LInv, Marked, Protected
  <2>2. /\ handler[h].sig \notin unguarded /\ Marked(h) /\ Protected(h)
        /\ handler[h].pc \in {"read", "wake"} => handler[h].sig # handler[g].sig
    BY <2>1, Exposed DEF LInv
  <2> QED
    BY <1>1, <2>1, <2>2 DEF Marked, Protected, TypeOK
<1>4. CASE ~Finish(g)
  <2>1. /\ unguarded' = unguarded
        /\ \A s \in Sig : flag'[s] \in {flag[s], 1}
        /\ handler'[g].pc = "wake" =>
             handler[g].pc = "read" /\ owner[handler'[g].sig] = handler'[g].ps
        /\ handler'[g].pc \in {"read", "wake"} =>
             /\ handler'[g].sig = handler[g].sig /\ handler[g].sig \in Sig
             /\ flag'[handler[g].sig] = 1 \/ (handler[g].pc = "read" /\ flag' = flag)
    <3>1. CASE Check(g)
      BY <1>1, <3>1 DEF Check, counters, crossings, TypeOK
    <3>2. CASE Mark(g)
      BY <1>1, <3>2 DEF Mark, counters, crossings, TypeOK, IInv, Busy
    <3>3. CASE ReadOwner(g)
      BY <1>1, <3>3 DEF ReadOwner, counters, crossings, TypeOK, IInv, Busy
    <3>4. CASE WakeOwner(g)
      BY <1>1, <3>4 DEF WakeOwner, counters, crossings, TypeOK
    <3>5. CASE \E s \in Sig : Deliver(g, s)
      BY <1>1, <3>5 DEF Deliver, crossings, TypeOK
    <3> QED
      BY <1>4, <3>1, <3>2, <3>3, <3>4, <3>5 DEF HandlerStep
  <2>2. ASSUME NEW h \in Handler  PROVE Marked(h)' /\ Protected(h)'
    <3>1. CASE h = g
      BY <1>1, <2>1, <3>1 DEF LInv, Marked, Protected
    <3>2. CASE h # g
      <4>1. /\ handler'[h] = handler[h] /\ Marked(h) /\ Protected(h)
            /\ handler[h].pc # "idle" => handler[h].sig \in Sig
        BY <1>1, <3>2 DEF LInv, IInv, Busy
      <4> QED
        BY <1>1, <2>1, <4>1 DEF Marked, Protected
    <3> QED
      BY <3>1, <3>2
  <2> QED
    BY <1>2, <2>2 DEF LInv
<1> QED
  BY <1>3, <1>4

LEMMA NextLInv == IInv /\ JInv /\ LInv /\ [Next]_vars => LInv'
<1> SUFFICES ASSUME IInv, JInv, LInv, [Next]_vars  PROVE LInv'
  OBVIOUS
<1>1. CASE UNCHANGED vars
  BY <1>1 DEF vars, LInv, Marked, Protected, Removing
<1> QED
  BY <1>1, HandlerLInv, ThreadLInv DEF Next

(***************************************************************************)
(* No signal's owner is an object that is being closed or gone, so that a  *)
(* handler that starts after the destructor wakes nothing that is not      *)
(* there (pollset.cc:56); and a handler that has read its owner finds it   *)
(* alive when it wakes it (pollset.cc:37), because whoever removes the     *)
(* signal spins while it is marked 1, unless the signal was stolen, or the *)
(* mark replaced, while a handler of it was at work.                       *)
(***************************************************************************)
THEOREM HandlersWakeTheLiving == Spec => [](OwnersAlive /\ WakesTheLiving)
<1>1. IInv => OwnersAlive
  BY DEF IInv, TypeOK, Owned, ClosedEmpty, OwnersAlive
<1>2. IInv /\ LInv => WakesTheLiving
  <2> SUFFICES ASSUME IInv, NEW h \in Handler, Protected(h),
                      handler[h].pc = "wake", handler[h].sig \notin unguarded
               PROVE  Alive(handler[h].ps)
    BY DEF LInv, WakesTheLiving
  <2>1. handler[h].ps \in PS /\ handler[h].sig \in Sig
    BY DEF IInv, Busy
  <2> QED
    BY <2>1 DEF Protected, IInv, Owned, ClosedEmpty, Alive
<1>3. Init => LInv
  BY DEF Init, LInv, Marked, Protected, Removing
<1> QED
  BY <1>1, <1>2, <1>3, InitIInv, NextIInv, InitJInv, NextJInv, NextLInv, PTL DEF Spec
=============================================================================
