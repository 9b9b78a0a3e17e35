--------------------------- MODULE PollsetProofs ---------------------------
(***************************************************************************)
(* For every set of descriptors: state_ and pollfds_ stay each other's     *)
(* index, an entry polls for exactly the sides that have a callback,       *)
(* neither poll nor consolidate indexes pollfds_ out of bounds, and no     *)
(* round ends before the callbacks that were ready have run.               *)
(***************************************************************************)
EXTENDS Pollset, SequenceTheorems, FiniteSetTheorems, TLAPS

\* The two containers and what ties them to each other.
RegistryType ==
  /\ pollfds_ \in Seq(PollFd)
  /\ state_ \in [Fd -> [idx : Nat, cb : [Side -> Mode]]]

Registry == RegistryType /\ RegistryOK /\ EventsMatchCallbacks

\* The inductive invariant: RegistryOK needs EventsMatchCallbacks for the entry
\* that consolidate drops, and PositionOK for the one it moves.
IInv == TypeOK /\ RegistryOK /\ EventsMatchCallbacks /\ PositionOK

CbSet(c) == {s \in Side : c[s] # "none"}

\* Replacing one entry of an array of pollfds.
LEMMA ReplaceEntry ==
  ASSUME NEW s \in Seq(PollFd), NEW k \in 1..Len(s), NEW e \in PollFd
  PROVE  LET q == [s EXCEPT ![k] = e]
         IN  /\ q \in Seq(PollFd)
             /\ Len(q) = Len(s)
             /\ q[k] = e
             /\ \A j \in 1..Len(s) : j # k => q[j] = s[j]
  BY ExceptSeq

\* What the find-or-create of fd_cb_helper leaves in pollfds_: one entry more
\* if f had none, every other entry untouched.
LEMMA EntryUpdate ==
  ASSUME RegistryType, RegistryOK, NEW f \in Fd, NEW E \in SUBSET Side
  PROVE  LET q == SetEvents(f, E)
         IN  /\ q \in Seq(PollFd)
             /\ EntryOf(f) \in 1..Len(q)
             /\ Len(q) = IF state_[f].idx = 0 THEN Len(pollfds_) + 1 ELSE Len(pollfds_)
             /\ q[EntryOf(f)].fd = f
             /\ q[EntryOf(f)].events = E
             /\ \A j \in 1..Len(pollfds_) : j # EntryOf(f) => q[j] = pollfds_[j]
<1> DEFINE k == EntryOf(f)
           w == WithEntry(f)
           e == [w[k] EXCEPT !.events = E]
           q == [w EXCEPT ![k] = e]
<1>1. pollfds_ \in Seq(PollFd) /\ Len(pollfds_) \in Nat
  BY LenProperties DEF RegistryType
<1>2. /\ w \in Seq(PollFd)
      /\ k \in 1..Len(w)
      /\ Len(w) = IF state_[f].idx = 0 THEN Len(pollfds_) + 1 ELSE Len(pollfds_)
      /\ w[k].fd = f
      /\ \A j \in 1..Len(pollfds_) : j # k => w[j] = pollfds_[j]
  <2>1. CASE state_[f].idx = 0
    <3> DEFINE new == [fd |-> f, events |-> {}, revents |-> {}]
    <3>1. new \in PollFd /\ new.fd = f
      BY DEF PollFd
    <3>2. k = Len(pollfds_) + 1 /\ w = Append(pollfds_, new)
      BY <2>1 DEF EntryOf, WithEntry
    <3> HIDE DEF new, k, w
    <3>3. /\ w \in Seq(PollFd)
          /\ Len(w) = k
          /\ \A j \in 1..Len(pollfds_) : w[j] = pollfds_[j]
          /\ w[k] = new
      BY <1>1, <3>1, <3>2, AppendProperties
    <3> QED
      BY <1>1, <2>1, <3>1, <3>2, <3>3
  <2>2. CASE state_[f].idx # 0
    <3>1. k = state_[f].idx /\ w = pollfds_
      BY <2>2 DEF EntryOf, WithEntry
    <3>2. k \in 1..Len(pollfds_) /\ pollfds_[k].fd = f
      BY <1>1, <2>2, <3>1, LenProperties DEF RegistryOK
    <3> QED
      BY <1>1, <2>2, <3>1, <3>2
  <2> QED
    BY <2>1, <2>2
<1>3. e \in PollFd /\ e.fd = f /\ e.events = E
  <2>1. w[k] \in PollFd
    BY <1>2, ElementOfSeq
  <2> QED
    BY <1>2, <2>1 DEF PollFd
<1> HIDE DEF e, w, k
<1>4. /\ q \in Seq(PollFd)
      /\ Len(q) = Len(w)
      /\ q[k] = e
      /\ \A j \in 1..Len(w) : j # k => q[j] = w[j]
  BY <1>2, <1>3, ReplaceEntry
<1> HIDE DEF q
<1>5. /\ q \in Seq(PollFd)
      /\ k \in 1..Len(q)
      /\ Len(q) = IF state_[f].idx = 0 THEN Len(pollfds_) + 1 ELSE Len(pollfds_)
      /\ q[k].fd = f
      /\ q[k].events = E
      /\ \A j \in 1..Len(pollfds_) : j # k => q[j] = pollfds_[j]
  BY <1>1, <1>2, <1>3, <1>4
<1> QED
  BY <1>5 DEF q, e, w, k, SetEvents

LEMMA InitIInv == Init => IInv
BY EmptySeq DEF Init, IInv, TypeOK, RegistryOK, EventsMatchCallbacks, Events, PositionOK,
     Absent, None, Phases, InLoop, Mode, Side

LEMMA FdOfEntry ==
  ASSUME RegistryType, NEW j \in 1..Len(pollfds_)
  PROVE  pollfds_[j] \in PollFd /\ pollfds_[j].fd \in Fd
<1>1. pollfds_[j] \in PollFd
  BY ElementOfSeq DEF RegistryType
<1> QED
  BY <1>1 DEF PollFd

\* Registering or removing callbacks of f through its (possibly new) entry.
LEMMA EntryStep ==
  ASSUME Registry, NEW f \in Fd, NEW c \in [Side -> Mode],
         pollfds_' = SetEvents(f, CbSet(c)),
         state_' = SetCallbacks(f, c)
  PROVE  /\ Registry'
         /\ Len(pollfds_') \in Nat /\ Len(pollfds_) \in Nat
         /\ Len(pollfds_) <= Len(pollfds_')
<1> DEFINE k == EntryOf(f)
<1>1. /\ pollfds_' \in Seq(PollFd)
      /\ k \in 1..Len(pollfds_')
      /\ Len(pollfds_') = IF state_[f].idx = 0 THEN Len(pollfds_) + 1 ELSE Len(pollfds_)
      /\ pollfds_'[k].fd = f
      /\ pollfds_'[k].events = CbSet(c)
      /\ \A j \in 1..Len(pollfds_) : j # k => pollfds_'[j] = pollfds_[j]
  BY EntryUpdate DEF Registry, CbSet
<1>2. /\ DOMAIN pollfds_ = 1..Len(pollfds_) /\ Len(pollfds_) \in Nat
      /\ DOMAIN pollfds_' = 1..Len(pollfds_') /\ Len(pollfds_') \in Nat
  BY <1>1, LenProperties DEF Registry, RegistryType
<1>3. k = IF state_[f].idx = 0 THEN Len(pollfds_) + 1 ELSE state_[f].idx
  BY DEF EntryOf
<1> HIDE DEF k
<1>4. /\ k \in Nat
      /\ state_' \in [Fd -> [idx : Nat, cb : [Side -> Mode]]]
      /\ state_'[f].idx = k /\ state_'[f].cb = c
      /\ \A g \in Fd \ {f} : state_'[g] = state_[g]
  BY <1>1, <1>2 DEF Registry, RegistryType, k, SetCallbacks
<1>5. \A j \in DOMAIN pollfds_ : pollfds_[j].fd \in Fd
  BY <1>2, FdOfEntry DEF Registry
<1>6. RegistryType'
  BY <1>1, <1>4 DEF Registry, RegistryType
<1>7. \A g \in Fd \ {f} : state_[g].idx # 0 =>
        /\ state_[g].idx \in DOMAIN pollfds_
        /\ pollfds_[state_[g].idx].fd = g
        /\ state_[g].idx # k
        /\ pollfds_'[state_[g].idx] = pollfds_[state_[g].idx]
  <2> TAKE g \in Fd \ {f}
  <2> HAVE state_[g].idx # 0
  <2>1. state_[g].idx \in 1..Len(pollfds_) /\ pollfds_[state_[g].idx].fd = g
    BY <1>2 DEF Registry, RegistryOK
  <2>2. state_[g].idx # k
    BY <1>2, <1>3, <2>1 DEF Registry, RegistryOK
  <2> QED
    BY <1>1, <1>2, <2>1, <2>2
<1>8. RegistryOK'
  <2>1. ASSUME NEW g \in Fd, state_'[g].idx # 0
        PROVE  state_'[g].idx \in DOMAIN pollfds_' /\ pollfds_'[state_'[g].idx].fd = g
    BY <1>1, <1>2, <1>4, <1>7, <2>1
  <2>2. ASSUME NEW j \in DOMAIN pollfds_'
        PROVE  state_'[pollfds_'[j].fd].idx = j
    <3>1. CASE j = k
      BY <1>1, <1>4, <3>1
    <3>2. CASE j # k
      <4>1. j \in DOMAIN pollfds_ /\ pollfds_'[j] = pollfds_[j]
        BY <1>1, <1>2, <1>3, <2>2, <3>2
      <4>2. state_[pollfds_[j].fd].idx = j /\ pollfds_[j].fd # f
        BY <1>2, <1>3, <3>2, <4>1 DEF Registry, RegistryOK
      <4> QED
        BY <1>4, <1>5, <4>1, <4>2
    <3> QED
      BY <3>1, <3>2
  <2> QED
    BY <2>1, <2>2 DEF RegistryOK
<1>9. EventsMatchCallbacks'
  <2> SUFFICES ASSUME NEW g \in Fd PROVE Events(g)' = CbSet(state_'[g].cb)
    BY DEF EventsMatchCallbacks, CbSet
  <2>1. CASE g = f
    BY <1>1, <1>2, <1>4, <2>1 DEF Events
  <2>2. CASE g # f
    <3>1. Events(g)' = Events(g) /\ state_'[g].cb = state_[g].cb
      BY <1>4, <1>7, <2>2 DEF Events
    <3>2. Events(g) = CbSet(state_[g].cb)
      BY DEF Registry, EventsMatchCallbacks, CbSet
    <3> QED
      BY <3>1, <3>2
  <2> QED
    BY <2>1, <2>2
<1> QED
  BY <1>1, <1>2, <1>6, <1>8, <1>9 DEF Registry

\* consolidate drops the last entry.
LEMMA PopStep ==
  ASSUME Registry, PopUnused
  PROVE  Registry' /\ Len(pollfds_') = Len(pollfds_) - 1
<1> DEFINE n == Len(pollfds_)
           g == Last.fd
<1>1. n \in Nat \ {0} /\ DOMAIN pollfds_ = 1..n
  BY EmptySeq, LenProperties DEF PopUnused, Registry, RegistryType
<1>2. /\ pollfds_' \in Seq(PollFd)
      /\ Len(pollfds_') = n - 1
      /\ \A j \in 1..n-1 : pollfds_'[j] = pollfds_[j]
  <2>1. \A j \in 1..n-1 : pollfds_[j] \in PollFd
    BY <1>1, ElementOfSeq DEF Registry, RegistryType
  <2> QED
    BY <1>1, <2>1, SubSeqProperties DEF PopUnused, Popped
<1>3. DOMAIN pollfds_' = 1..n-1
  BY <1>2, LenProperties
<1>4. g \in Fd /\ g = pollfds_[n].fd /\ state_[g].idx = n
  BY <1>1, FdOfEntry DEF Last, Registry, RegistryOK
<1>5. /\ state_' \in [Fd -> [idx : Nat, cb : [Side -> Mode]]]
      /\ state_'[g] = Absent
      /\ \A f \in Fd \ {g} : state_'[f] = state_[f]
  BY <1>4 DEF PopUnused, Registry, RegistryType, Absent, None, Mode
<1>6. RegistryType'
  BY <1>2, <1>5 DEF RegistryType
<1> HIDE DEF g, n
<1>7. \A f \in Fd \ {g} : state_[f].idx # 0 =>
        state_[f].idx \in 1..n-1 /\ pollfds_[state_[f].idx].fd = f
  BY <1>1, <1>4 DEF Registry, RegistryOK, RegistryType
<1>8. \A j \in 1..n-1 : pollfds_[j].fd \in Fd \ {g} /\ state_[pollfds_[j].fd].idx = j
  BY <1>1, <1>4, FdOfEntry DEF n, Registry, RegistryOK
<1>9. RegistryOK'
  <2>1. \A f \in Fd : state_'[f].idx # 0 =>
          state_'[f].idx \in DOMAIN pollfds_' /\ pollfds_'[state_'[f].idx].fd = f
    BY <1>2, <1>3, <1>5, <1>7 DEF Absent
  <2>2. \A j \in DOMAIN pollfds_' : state_'[pollfds_'[j].fd].idx = j
    BY <1>2, <1>3, <1>5, <1>8
  <2> QED
    BY <2>1, <2>2 DEF RegistryOK
<1>10. EventsMatchCallbacks'
  <2> SUFFICES ASSUME NEW f \in Fd PROVE Events(f)' = CbSet(state_'[f].cb)
    BY DEF EventsMatchCallbacks, CbSet
  <2>1. CASE f = g
    BY <1>5, <2>1 DEF Events, Absent, None, CbSet
  <2>2. CASE f # g
    <3>1. Events(f)' = Events(f) /\ state_'[f].cb = state_[f].cb
      BY <1>2, <1>5, <1>7, <2>2 DEF Events
    <3>2. Events(f) = CbSet(state_[f].cb)
      BY DEF Registry, EventsMatchCallbacks, CbSet
    <3> QED
      BY <3>1, <3>2
  <2> QED
    BY <2>1, <2>2
<1> QED
  BY <1>2, <1>6, <1>9, <1>10 DEF Registry, n

\* consolidate moves the last entry into a hole below it.
LEMMA FillStep ==
  ASSUME Registry, FillHole, i \in Nat, i < Len(pollfds_)
  PROVE  /\ Registry'
         /\ Len(pollfds_') = Len(pollfds_) - 1
         /\ pollfds_'[i] = Last
         /\ \A j \in 1..Len(pollfds_) - 1 : j # i => pollfds_'[j] = pollfds_[j]
<1> DEFINE n == Len(pollfds_)
           g == pollfds_[i].fd
           h == Last.fd
<1>1. n \in Nat /\ DOMAIN pollfds_ = 1..n /\ i \in 1..n-1
  BY LenProperties DEF FillHole, Registry, RegistryType
<1>2. /\ pollfds_' \in Seq(PollFd)
      /\ Len(pollfds_') = n - 1
      /\ pollfds_'[i] = Last
      /\ \A j \in 1..n-1 : j # i => pollfds_'[j] = pollfds_[j]
  <2>1. \A j \in 1..n : pollfds_[j] \in PollFd
    BY <1>1, ElementOfSeq DEF Registry, RegistryType
  <2>2. /\ Popped \in Seq(PollFd)
        /\ Len(Popped) = n - 1
        /\ \A j \in 1..n-1 : Popped[j] = pollfds_[j]
    BY <1>1, <2>1, SubSeqProperties DEF Popped
  <2>3. Last \in PollFd
    BY <1>1, <2>1 DEF Last
  <2> DEFINE q == [Popped EXCEPT ![i] = Last]
  <2>4. pollfds_' = q
    BY DEF FillHole
  <2>5. i \in 1..Len(Popped)
    BY <1>1, <2>2
  <2>6. /\ q \in Seq(PollFd)
        /\ Len(q) = Len(Popped)
        /\ q[i] = Last
        /\ \A j \in 1..Len(Popped) : j # i => q[j] = Popped[j]
    BY <2>2, <2>3, <2>5, ReplaceEntry
  <2> HIDE DEF q, n
  <2> QED
    BY <1>1, <2>2, <2>4, <2>6
<1>3. DOMAIN pollfds_' = 1..n-1
  BY <1>2, LenProperties
<1>4. /\ g \in Fd /\ state_[g].idx = i
      /\ h \in Fd /\ h = pollfds_[n].fd /\ state_[h].idx = n
      /\ g # h
  BY <1>1, FdOfEntry DEF Last, Registry, RegistryOK
<1>5. Events(g) = {} /\ Events(h) = Last.events
  BY <1>1, <1>4 DEF Events, Last, FillHole
<1> HIDE DEF g, h, n
<1>6. state_' = [state_ EXCEPT ![g] = Absent, ![h].idx = i]
  BY DEF FillHole, g, h
<1>7. /\ state_' \in [Fd -> [idx : Nat, cb : [Side -> Mode]]]
      /\ state_'[g] = Absent
      /\ state_'[h].idx = i /\ state_'[h].cb = state_[h].cb
      /\ \A f \in Fd \ {g, h} : state_'[f] = state_[f]
  BY <1>1, <1>4, <1>6 DEF Registry, RegistryType, Absent, None, Mode
<1>8. RegistryType'
  BY <1>2, <1>7 DEF RegistryType
<1>9. \A f \in Fd \ {g, h} : state_[f].idx # 0 =>
        /\ state_[f].idx \in 1..n-1
        /\ pollfds_'[state_[f].idx] = pollfds_[state_[f].idx]
        /\ pollfds_'[state_[f].idx].fd = f
  <2> TAKE f \in Fd \ {g, h}
  <2> HAVE state_[f].idx # 0
  <2>1. state_[f].idx \in 1..n /\ pollfds_[state_[f].idx].fd = f
    BY <1>1 DEF Registry, RegistryOK
  <2>2. state_[f].idx # n /\ state_[f].idx # i
    BY <1>4, <2>1 DEF g
  <2> QED
    BY <1>1, <1>2, <2>1, <2>2
<1>10. \A j \in 1..n-1 : j # i => /\ pollfds_'[j].fd \in Fd \ {g, h}
                                 /\ state_[pollfds_'[j].fd].idx = j
  <2> TAKE j \in 1..n-1
  <2> HAVE j # i
  <2>1. j \in 1..n /\ pollfds_[j].fd \in Fd /\ state_[pollfds_[j].fd].idx = j
    BY <1>1, FdOfEntry DEF n, Registry, RegistryOK
  <2> QED
    BY <1>1, <1>2, <1>4, <2>1
<1>11. RegistryOK'
  <2>1. \A f \in Fd : state_'[f].idx # 0 =>
          state_'[f].idx \in DOMAIN pollfds_' /\ pollfds_'[state_'[f].idx].fd = f
    BY <1>1, <1>2, <1>3, <1>7, <1>9 DEF Absent, h
  <2>2. \A j \in DOMAIN pollfds_' : state_'[pollfds_'[j].fd].idx = j
    BY <1>2, <1>3, <1>7, <1>10 DEF h
  <2> QED
    BY <2>1, <2>2 DEF RegistryOK
<1>12. EventsMatchCallbacks'
  <2> SUFFICES ASSUME NEW f \in Fd PROVE Events(f)' = CbSet(state_'[f].cb)
    BY DEF EventsMatchCallbacks, CbSet
  <2>1. Events(f) = CbSet(state_[f].cb)
    BY DEF Registry, EventsMatchCallbacks, CbSet
  <2>2. CASE f = g
    BY <1>7, <2>2 DEF Events, Absent, None, CbSet
  <2>3. CASE f = h
    <3>1. Events(f)' = Events(f)
      BY <1>1, <1>2, <1>5, <1>7, <2>3 DEF Events
    <3> QED
      BY <1>7, <2>1, <2>3, <3>1
  <2>4. CASE f \notin {g, h}
    <3>1. Events(f)' = Events(f) /\ state_'[f].cb = state_[f].cb
      BY <1>7, <1>9, <2>4 DEF Events
    <3> QED
      BY <2>1, <3>1
  <2> QED
    BY <2>2, <2>3, <2>4
<1> QED
  BY <1>2, <1>8, <1>11, <1>12 DEF Registry, n

\* An entry that keeps its descriptor but may get other revents.
LEMMA SameRegistry ==
  ASSUME Registry, pollfds_' \in Seq(PollFd), Len(pollfds_') = Len(pollfds_),
         \A j \in 1..Len(pollfds_) : /\ pollfds_'[j].fd = pollfds_[j].fd
                                     /\ pollfds_'[j].events = pollfds_[j].events,
         UNCHANGED state_
  PROVE  Registry'
<1>1. DOMAIN pollfds_' = 1..Len(pollfds_) /\ DOMAIN pollfds_ = 1..Len(pollfds_)
  BY LenProperties DEF Registry, RegistryType
<1>2. RegistryType'
  BY DEF Registry, RegistryType
<1>3. RegistryOK'
  BY <1>1 DEF Registry, RegistryOK
<1>4. ASSUME NEW f \in Fd
      PROVE  Events(f)' = Events(f)
  BY <1>1 DEF Events, Registry, RegistryOK
<1> QED
  BY <1>2, <1>3, <1>4 DEF Registry, EventsMatchCallbacks

\* The loop of poll runs one callback, or passes over it: the entry's event bit
\* and the callback of a one-shot registration go together.
LEMMA CallStep ==
  ASSUME Registry, i \in 1..Len(pollfds_), NEW s \in Side, NEW a, NEW b,
         due \in SUBSET (Fd \X Side), CallOrSkip(s, a, b)
  PROVE  /\ Registry'
         /\ Len(pollfds_') \in Nat /\ Len(pollfds_) \in Nat
         /\ Len(pollfds_) <= Len(pollfds_')
         /\ pc' \in {a, b}
         /\ due' \in SUBSET (Fd \X Side)
<1> DEFINE f == pollfds_[i].fd
           c == [state_[f].cb EXCEPT ![s] = "none"]
<1>1. Len(pollfds_) \in Nat
  BY LenProperties DEF Registry, RegistryType
<1>2. f \in Fd /\ state_[f].idx = i /\ i # 0
  BY <1>1, FdOfEntry, LenProperties DEF Registry, RegistryOK, RegistryType
<1>3. CASE UNCHANGED <<pollfds_, state_>>
  <2>1. Registry'
    BY <1>3 DEF Registry, RegistryType, RegistryOK, EventsMatchCallbacks, Events
  <2> QED
    BY <1>1, <1>3, <2>1 DEF CallOrSkip
<1>4. CASE /\ pollfds_' = [pollfds_ EXCEPT ![i].events = @ \ {s}]
           /\ state_' = [state_ EXCEPT ![f].cb[s] = "none"]
  <2>1. EntryOf(f) = i /\ WithEntry(f) = pollfds_ /\ Events(f) = pollfds_[i].events
    BY <1>2 DEF EntryOf, WithEntry, Events
  <2>2. c \in [Side -> Mode] /\ state_' = SetCallbacks(f, c)
    <3>1. state_[f].cb \in [Side -> Mode] /\ state_[f] = [idx |-> i, cb |-> state_[f].cb]
      BY <1>2 DEF Registry, RegistryType
    <3>2. c \in [Side -> Mode]
      BY <3>1 DEF Mode
    <3>3. [state_[f] EXCEPT !.cb = c] = [idx |-> i, cb |-> c]
      BY <3>1
    <3>4. state_' = [state_ EXCEPT ![f] = [state_[f] EXCEPT !.cb = c]]
      BY <1>2, <1>4 DEF Registry, RegistryType
    <3> QED
      BY <2>1, <3>2, <3>3, <3>4 DEF SetCallbacks
  <2>3. CbSet(c) = Events(f) \ {s}
    BY <1>2 DEF Registry, RegistryType, EventsMatchCallbacks, CbSet
  <2>4. pollfds_' = SetEvents(f, CbSet(c))
    BY <1>4, <2>1, <2>3 DEF SetEvents
  <2> HIDE DEF c, f
  <2>5. Registry' /\ Len(pollfds_') \in Nat /\ Len(pollfds_) <= Len(pollfds_')
    BY <1>2, <2>2, <2>4, EntryStep
  <2> QED
    BY <1>1, <2>5 DEF CallOrSkip
<1> QED
  BY <1>3, <1>4 DEF CallOrSkip

----------------------------------------------------------------------------
LEMMA RegistryOfIInv == IInv => Registry
BY DEF IInv, TypeOK, Registry, RegistryType

LEMMA Untouched ==
  ASSUME Registry, UNCHANGED <<pollfds_, state_>>
  PROVE  Registry'
BY DEF Registry, RegistryType, RegistryOK, EventsMatchCallbacks, Events

\* The scalar variables.
ScalarType ==
  /\ open \in SUBSET Fd
  /\ pc \in Phases
  /\ i \in Nat /\ maxpoll \in Nat /\ r \in Int
  /\ due \in SUBSET (Fd \X Side)

LEMMA ScalarOfIInv == IInv => ScalarType
BY DEF IInv, TypeOK, ScalarType

\* The calls of user code.
LEMMA UserStep == IInv /\ User => IInv'
<1> SUFFICES ASSUME IInv, User PROVE IInv'
  OBVIOUS
<1> USE RegistryOfIInv
<1>1. ASSUME NEW f \in Fd, NEW c \in [Side -> Mode], UserCode,
             pollfds_' = SetEvents(f, CbSet(c)), state_' = SetCallbacks(f, c),
             due' \in SUBSET due, UNCHANGED <<open, pc, i, maxpoll, r>>
      PROVE  IInv'
  <2>1. /\ Registry'
        /\ Len(pollfds_') \in Nat /\ Len(pollfds_) \in Nat
        /\ Len(pollfds_) <= Len(pollfds_')
    BY <1>1, EntryStep
  <2>2. TypeOK'
    BY <1>1, <2>1 DEF IInv, TypeOK, Registry, RegistryType
  <2>3. PositionOK'
    BY <1>1, <2>1 DEF IInv, TypeOK, PositionOK, UserCode, InLoop
  <2> QED
    BY <2>1, <2>2, <2>3 DEF IInv, Registry
<1>2. ASSUME NEW f \in Fd
      PROVE  Events(f) = CbSet(state_[f].cb) /\ state_[f].cb \in [Side -> Mode]
  BY DEF Registry, RegistryType, EventsMatchCallbacks, CbSet
<1>3. ASSUME NEW f \in Fd, NEW u \in Uses, SetCb(f, u[1], u[2])
      PROVE  IInv'
  <2> DEFINE c == [state_[f].cb EXCEPT ![u[1]] = u[2]]
  <2>1. u[1] \in Side /\ u[2] \in Mode \ {"none"}
    BY UsesAssumption
  <2>2. c \in [Side -> Mode] /\ CbSet(c) = Events(f) \cup {u[1]}
    BY <1>2, <2>1 DEF CbSet
  <2> QED
    BY <1>1, <1>3, <2>2 DEF SetCb
<1>4. ASSUME NEW f \in Fd, NEW u \in Uses, SetEmptyCb(f, u[1])
      PROVE  IInv'
  <2> DEFINE c == [state_[f].cb EXCEPT ![u[1]] = "none"]
  <2>1. u[1] \in Side
    BY UsesAssumption
  <2>2. c \in [Side -> Mode] /\ CbSet(c) = Events(f) \ {u[1]}
    BY <1>2, <2>1 DEF CbSet, Mode
  <2> QED
    BY <1>1, <1>4, <2>2 DEF SetEmptyCb
<1>5. ASSUME NEW f \in Fd, NEW ss \in SUBSET Side, RemoveCb(f, ss)
      PROVE  IInv'
  <2> DEFINE c == [s \in Side |-> IF s \in ss THEN "none" ELSE state_[f].cb[s]]
  <2>1. c \in [Side -> Mode]
    BY <1>2 DEF Mode
  <2>2. CbSet(c) = Events(f) \ ss
    <3>1. \A s \in Side : c[s] # "none" <=> s \notin ss /\ state_[f].cb[s] # "none"
      OBVIOUS
    <3> HIDE DEF c
    <3>2. CbSet(c) = {s \in Side : s \notin ss /\ state_[f].cb[s] # "none"}
      BY <3>1 DEF CbSet
    <3>3. Events(f) = {s \in Side : state_[f].cb[s] # "none"}
      BY <1>2 DEF CbSet
    <3> QED
      BY <3>2, <3>3
  <2> QED
    BY <1>1, <1>5, <2>1, <2>2 DEF RemoveCb
<1>6. ASSUME NEW f \in Fd, Close(f) \/ Open(f)
      PROVE  IInv'
  <2>1. Registry'
    BY <1>6, Untouched DEF Close, Open
  <2>2. ScalarType' /\ PositionOK'
    BY <1>6, ScalarOfIInv DEF Close, Open, ScalarType, IInv, PositionOK
  <2> QED
    BY <2>1, <2>2 DEF IInv, TypeOK, Registry, RegistryType, ScalarType
<1>7. CASE Return \/ Throw
  <2>1. Registry'
    BY <1>7, Untouched DEF Return, Throw
  <2>2. ScalarType' /\ PositionOK'
    BY <1>7, ScalarOfIInv DEF Return, Throw, EndRound, ScalarType, IInv, PositionOK,
                          Phases, InLoop
  <2> QED
    BY <2>1, <2>2 DEF IInv, TypeOK, Registry, RegistryType, ScalarType
<1> QED
  BY <1>3, <1>4, <1>5, <1>6, <1>7 DEF User

\* The steps of poll.
LEMMA PollStep == IInv /\ Poll => IInv'
<1> SUFFICES ASSUME IInv, Poll PROVE IInv'
  OBVIOUS
<1> USE RegistryOfIInv
<1>0. Len(pollfds_) \in Nat /\ DOMAIN pollfds_ = 1..Len(pollfds_)
  BY LenProperties DEF IInv, TypeOK
<1>1. CASE PollReturns
  <2>1. PICK rev \in [DOMAIN pollfds_ -> Reports] :
          /\ pollfds_' = [j \in DOMAIN pollfds_ |->
                            [pollfds_[j] EXCEPT !.revents = rev[j]]]
          /\ r' = Cardinality({j \in DOMAIN pollfds_ : rev[j] # {}})
          /\ due' \in SUBSET (Fd \X Side)
    BY <1>1 DEF PollReturns
  <2>2. \A j \in 1..Len(pollfds_) :
          /\ [pollfds_[j] EXCEPT !.revents = rev[j]] \in PollFd
          /\ [pollfds_[j] EXCEPT !.revents = rev[j]].fd = pollfds_[j].fd
          /\ [pollfds_[j] EXCEPT !.revents = rev[j]].events = pollfds_[j].events
    <3> TAKE j \in 1..Len(pollfds_)
    <3>1. pollfds_[j] \in PollFd /\ rev[j] \in SUBSET Flag
      BY <1>0, FdOfEntry DEF Registry, Reports, Flag
    <3> QED
      BY <3>1 DEF PollFd
  <2>3. /\ pollfds_' \in Seq(PollFd)
        /\ Len(pollfds_') = Len(pollfds_)
        /\ \A j \in 1..Len(pollfds_) : /\ pollfds_'[j].fd = pollfds_[j].fd
                                       /\ pollfds_'[j].events = pollfds_[j].events
    <3>1. pollfds_' \in [1..Len(pollfds_) -> PollFd]
      BY <1>0, <2>1, <2>2
    <3>2. pollfds_' \in Seq(PollFd)
      BY <1>0, <3>1, SeqDef
    <3>3. Len(pollfds_') = Len(pollfds_)
      BY <1>0, <3>1, <3>2, LenProperties
    <3> QED
      BY <1>0, <2>1, <2>2, <3>2, <3>3
  <2>4. Registry'
    BY <1>1, <2>3, SameRegistry DEF PollReturns
  <2>5. r' \in Int
    <3>1. IsFiniteSet(1..Len(pollfds_))
      BY <1>0, FS_Interval
    <3>2. IsFiniteSet({j \in DOMAIN pollfds_ : rev[j] # {}})
      BY <1>0, <3>1, FS_Subset
    <3> QED
      BY <2>1, <3>2, FS_CardinalityType
  <2>6. TypeOK'
    BY <1>0, <1>1, <2>1, <2>4, <2>5
    DEF PollReturns, IInv, TypeOK, Registry, RegistryType, Phases, InLoop
  <2>7. PositionOK'
    BY <1>0, <1>1, <2>3 DEF PollReturns, PositionOK, InLoop
  <2> QED
    BY <2>4, <2>6, <2>7 DEF IInv, Registry
<1>2. CASE LeaveLoop \/ Abort \/ KeepEntry
  <2>1. Registry'
    BY <1>2, Untouched DEF LeaveLoop, Abort, KeepEntry
  <2>2. ScalarType'
    BY <1>2, ScalarOfIInv DEF LeaveLoop, Abort, KeepEntry, ScalarType, Phases
  <2>3. CASE LeaveLoop \/ Abort
    <3>1. PositionOK'
      BY <2>3 DEF LeaveLoop, Abort, PositionOK, InLoop
    <3> QED
      BY <2>1, <2>2, <3>1 DEF IInv, TypeOK, Registry, RegistryType, ScalarType
  <2>4. CASE KeepEntry
    <3>1. \A j \in DOMAIN pollfds_ : i - 1 < j => pollfds_[j].events # {}
      BY <1>0, <2>4, ScalarOfIInv DEF KeepEntry, IInv, PositionOK, ScalarType
    <3>2. PositionOK'
      BY <1>0, <2>4, <3>1, ScalarOfIInv DEF KeepEntry, IInv, PositionOK, ScalarType, InLoop
    <3> QED
      BY <2>1, <2>2, <3>2 DEF IInv, TypeOK, Registry, RegistryType, ScalarType
  <2> QED
    BY <1>2, <2>3, <2>4
<1>3. CASE ReadSide
  <2>1. i \in 1..Len(pollfds_) /\ i \in 1..maxpoll
    BY <1>0, <1>3 DEF ReadSide, LoopDone, IInv, TypeOK, PositionOK, InLoop
  <2>2. /\ Registry'
        /\ Len(pollfds_') \in Nat /\ Len(pollfds_) <= Len(pollfds_')
        /\ pc' \in {"readcb", "write"}
        /\ due' \in SUBSET (Fd \X Side)
    BY <1>3, <2>1, CallStep DEF ReadSide, IInv, TypeOK, Side
  <2>3. TypeOK'
    BY <1>3, <2>2 DEF ReadSide, IInv, TypeOK, Registry, RegistryType, Phases, InLoop
  <2>4. PositionOK'
    BY <1>0, <1>3, <2>1, <2>2 DEF ReadSide, IInv, TypeOK, PositionOK, InLoop
  <2> QED
    BY <2>2, <2>3, <2>4 DEF IInv, Registry
<1>4. CASE WriteSide
  <2>1. i \in 1..Len(pollfds_) /\ i \in 1..maxpoll
    BY <1>0, <1>4 DEF WriteSide, IInv, TypeOK, PositionOK, InLoop
  <2>2. /\ Registry'
        /\ Len(pollfds_') \in Nat /\ Len(pollfds_) <= Len(pollfds_')
        /\ pc' \in {"writecb", "read"}
        /\ due' \in SUBSET (Fd \X Side)
    BY <1>4, <2>1, CallStep DEF WriteSide, IInv, TypeOK, Side
  <2>3. TypeOK'
    BY <1>4, <2>2 DEF WriteSide, IInv, TypeOK, Registry, RegistryType, Phases, InLoop
  <2>4. PositionOK'
    BY <1>0, <1>4, <2>1, <2>2 DEF WriteSide, IInv, TypeOK, PositionOK, InLoop
  <2> QED
    BY <2>2, <2>3, <2>4 DEF IInv, Registry
<1>5. CASE PopUnused
  <2>1. Registry'
    BY <1>5, PopStep
  <2>2. TypeOK'
    BY <1>5, <2>1 DEF PopUnused, IInv, TypeOK, Registry, RegistryType
  <2>3. PositionOK'
    BY <1>5 DEF PopUnused, PositionOK, InLoop
  <2> QED
    BY <2>1, <2>2, <2>3 DEF IInv, Registry
<1>6. CASE PopDone
  <2>1. Registry'
    BY <1>6 DEF PopDone, Registry, RegistryType, RegistryOK, EventsMatchCallbacks, Events
  <2>2. TypeOK'
    BY <1>0, <1>6 DEF PopDone, EndRound, IInv, TypeOK, Phases
  <2>3. PositionOK'
    BY <1>0, <1>6 DEF PopDone, EndRound, PositionOK, InLoop, Last
  <2> QED
    BY <2>1, <2>2, <2>3 DEF IInv, Registry
<1>7. CASE FillHole
  <2>1. i \in Nat /\ i > 0 /\ i < Len(pollfds_)
    BY <1>7 DEF FillHole, IInv, TypeOK, PositionOK
  <2>2. /\ Registry'
        /\ Len(pollfds_') = Len(pollfds_) - 1
        /\ pollfds_'[i] = Last
        /\ \A j \in 1..Len(pollfds_) - 1 : j # i => pollfds_'[j] = pollfds_[j]
    BY <1>7, <2>1, FillStep
  <2>3. TypeOK'
    <3>1. i' = i - 1 /\ UNCHANGED <<open, pc, maxpoll, r, due>>
      BY <1>7 DEF FillHole
    <3> QED
      BY <2>1, <2>2, <3>1 DEF IInv, TypeOK, Registry, RegistryType
  <2>4. PositionOK'
    <3>1. \A j \in 1..Len(pollfds_) : i < j => pollfds_[j].events # {}
      BY <1>0, <1>7 DEF FillHole, IInv, PositionOK
    <3>2. Last.events # {}
      BY <1>0, <2>1, <3>1 DEF Last
    <3>3. DOMAIN pollfds_' = 1..Len(pollfds_) - 1
      BY <2>2, LenProperties DEF Registry, RegistryType
    <3> QED
      BY <1>0, <1>7, <2>1, <2>2, <3>1, <3>2, <3>3 DEF FillHole, PositionOK, InLoop
  <2> QED
    BY <2>2, <2>3, <2>4 DEF IInv, Registry
<1>8. CASE PollDone
  <2>1. Registry'
    BY <1>8, Untouched DEF PollDone
  <2>2. ScalarType' /\ PositionOK'
    BY <1>8, ScalarOfIInv DEF PollDone, EndRound, ScalarType, PositionOK, InLoop, Phases
  <2> QED
    BY <2>1, <2>2 DEF IInv, TypeOK, Registry, RegistryType, ScalarType
<1> QED
  BY <1>1, <1>2, <1>3, <1>4, <1>5, <1>6, <1>7, <1>8 DEF Poll

----------------------------------------------------------------------------
LEMMA NextIInv == IInv /\ [Next]_vars => IInv'
<1>1. CASE UNCHANGED vars
  BY <1>1 DEF vars, IInv, TypeOK, RegistryOK, EventsMatchCallbacks, Events, PositionOK,
              InLoop
<1> QED
  BY <1>1, UserStep, PollStep DEF Next

\* Every variable keeps its type.
THEOREM TypeCorrect == Spec => []TypeOK
<1>1. IInv => TypeOK
  BY DEF IInv
<1> QED
  BY <1>1, InitIInv, NextIInv, PTL DEF Spec

\* state_ and pollfds_ index each other in every reachable state.
THEOREM RegistryCorrect == Spec => []RegistryOK
<1>1. IInv => RegistryOK
  BY DEF IInv
<1> QED
  BY <1>1, InitIInv, NextIInv, PTL DEF Spec

\* ::poll is asked about exactly the events that have a callback.
THEOREM EventsCorrect == Spec => []EventsMatchCallbacks
<1>1. IInv => EventsMatchCallbacks
  BY DEF IInv
<1> QED
  BY <1>1, InitIInv, NextIInv, PTL DEF Spec

\* No pollfds_.at(i) of poll or consolidate is out of range.
THEOREM PositionCorrect == Spec => []PositionOK
<1>1. IInv => PositionOK
  BY DEF IInv
<1> QED
  BY <1>1, InitIInv, NextIInv, PTL DEF Spec

\* consolidate leaves no entry without events.
THEOREM CompactsCorrect == Spec => Compacts
<1>1. IInv /\ [Next]_vars =>
        ((pc = "pop" \/ pc = "swap") /\ pc' = "idle" =>
           \A j \in DOMAIN pollfds_' : pollfds_'[j].events # {})
  <2> SUFFICES ASSUME IInv, [Next]_vars, pc = "pop" \/ pc = "swap", pc' = "idle"
               PROVE  \A j \in DOMAIN pollfds_' : pollfds_'[j].events # {}
    OBVIOUS
  <2>1. Len(pollfds_) \in Nat /\ DOMAIN pollfds_ = 1..Len(pollfds_)
    BY LenProperties DEF IInv, TypeOK
  <2>2. PopDone \/ PollDone
    BY DEF Next, vars, User, UserCode, SetCb, SetEmptyCb, RemoveCb, Close, Open, Return,
           Throw, Poll, PollReturns, LeaveLoop, Abort, ReadSide, WriteSide, PopUnused,
           FillHole, KeepEntry
  <2>3. CASE PopDone
    <3>1. pollfds_' = pollfds_ /\ Len(pollfds_) < 2
      BY <2>3 DEF PopDone
    <3>2. CASE Len(pollfds_) = 0
      BY <2>1, <3>1, <3>2
    <3>3. CASE Len(pollfds_) = 1
      <4>1. pollfds_ # <<>>
        BY <3>3
      <4> QED
        BY <2>1, <2>3, <3>1, <3>3, <4>1 DEF PopDone, Last
    <3> QED
      BY <2>1, <3>1, <3>2, <3>3
  <2>4. CASE PollDone
    BY <2>1, <2>4 DEF PollDone, IInv, PositionOK
  <2> QED
    BY <2>2, <2>3, <2>4
<1> QED
  BY <1>1, InitIInv, NextIInv, PTL DEF Spec, Compacts

\* An fd_state leaves the map only when it has no callbacks.
THEOREM ErasedUnusedCorrect == Spec => ErasedUnused
<1>1. IInv /\ [Next]_vars =>
        \A f \in Fd : state_[f].idx # 0 /\ state_'[f].idx = 0 => state_[f].cb = None
  <2> SUFFICES ASSUME IInv, [Next]_vars,
                      NEW f \in Fd, state_[f].idx # 0, state_'[f].idx = 0
               PROVE  state_[f].cb = None
    OBVIOUS
  <2>1. Registry
    BY RegistryOfIInv
  <2>2. Events(f) = {} => state_[f].cb = None
    BY <2>1 DEF Registry, RegistryType, EventsMatchCallbacks, None
  <2>3. Len(pollfds_) \in Nat /\ DOMAIN pollfds_ = 1..Len(pollfds_)
    BY LenProperties DEF IInv, TypeOK
  <2>4. state_ \in [Fd -> [idx : Nat, cb : [Side -> Mode]]]
    BY DEF IInv, TypeOK
  <2>5. ASSUME NEW g \in Fd, NEW c, state_' = SetCallbacks(g, c)
        PROVE  FALSE
    BY <2>3, <2>4, <2>5 DEF SetCallbacks, EntryOf
  <2>6. CASE User
    BY <2>5, <2>6 DEF User, SetCb, SetEmptyCb, RemoveCb, Close, Open, Return, Throw
  <2>7. CASE ReadSide \/ WriteSide
    <3>1. PICK g, s : state_' = [state_ EXCEPT ![g].cb[s] = "none"] \/ UNCHANGED state_
      BY <2>7 DEF ReadSide, WriteSide, CallOrSkip
    <3> QED
      BY <2>4, <3>1
  <2>8. CASE PopUnused
    <3>1. state_' = [state_ EXCEPT ![Last.fd] = Absent]
      BY <2>8 DEF PopUnused
    <3>2. f = Last.fd
      BY <2>4, <3>1
    <3>3. Len(pollfds_) # 0
      BY <2>8, EmptySeq DEF PopUnused, IInv, TypeOK
    <3>4. state_[f].idx = Len(pollfds_)
      BY <2>1, <2>3, <3>2, <3>3 DEF Last, Registry, RegistryOK
    <3> QED
      BY <2>2, <2>8, <3>4 DEF PopUnused, Events, Last
  <2>9. CASE FillHole
    <3>1. /\ state_' = [state_ EXCEPT ![pollfds_[i].fd] = Absent, ![Last.fd].idx = i]
          /\ pollfds_[i].events = {}
          /\ i > 0 /\ i < Len(pollfds_) /\ i \in Nat
      BY <2>9 DEF FillHole, IInv, TypeOK, PositionOK
    <3>2. f = pollfds_[i].fd
      BY <2>4, <3>1
    <3>3. state_[f].idx = i
      BY <2>1, <2>3, <3>1, <3>2 DEF Registry, RegistryOK
    <3> QED
      BY <2>2, <3>1, <3>3 DEF Events
  <2> QED
    BY <2>6, <2>7, <2>8, <2>9 DEF Next, vars, Poll, PollReturns, LeaveLoop, Abort,
       PopDone, KeepEntry, PollDone
<1> QED
  BY <1>1, InitIInv, NextIInv, PTL DEF Spec, ErasedUnused

----------------------------------------------------------------------------
(***************************************************************************)
(* The round reaches every callback that was ready when ::poll returned.   *)
(***************************************************************************)

\* The entries of this round that r still counts.
Left == {j \in 1..maxpoll : /\ pollfds_[j].revents # {}
                            /\ i < j \/ (i = j /\ pc = "read")}

\* The callback of side s of f exists, and its entry was reported ready for it.
Held(f, s) ==
  /\ state_[f].cb[s] # "none"
  /\ state_[f].idx \in 1..maxpoll
  /\ s \in Selected(pollfds_[state_[f].idx].revents)

\* The loop has not passed side s of the entry at position k.
Coming(k, s) ==
  \/ i < k
  \/ i = k /\ pc = "read"
  \/ i = k /\ pc \in {"readcb", "write"} /\ s = "Write"

DueAhead == pc \in InLoop => \A f \in Fd, s \in Side :
              <<f, s>> \in due => Held(f, s) /\ Coming(state_[f].idx, s)
CountRight == pc \in InLoop => r = Cardinality(Left)
NothingDue == pc \in {"idle", "others", "pop", "swap"} => due = {}

\* The inductive invariant of NoReadyCallbackSkipped, on top of IInv: what is due
\* lies ahead of the loop, and r counts the entries that do.
DInv == DueAhead /\ CountRight /\ NothingDue

LEMMA InitDInv == Init => DInv
BY DEF Init, DInv, DueAhead, CountRight, NothingDue, InLoop

\* The find-or-create of fd_cb_helper leaves what ::poll reported alone.
LEMMA ReventsStay ==
  ASSUME Registry, NEW f \in Fd, NEW E \in SUBSET Side, NEW j \in 1..Len(pollfds_)
  PROVE  SetEvents(f, E)[j].revents = pollfds_[j].revents
<1>1. CASE j # EntryOf(f)
  <2> DEFINE q == SetEvents(f, E)
  <2>1. q[j] = pollfds_[j]
    BY <1>1, EntryUpdate DEF Registry
  <2> QED
    BY <2>1
<1>2. CASE j = EntryOf(f)
  <2>1. Len(pollfds_) \in Nat /\ DOMAIN pollfds_ = 1..Len(pollfds_)
    BY LenProperties DEF Registry, RegistryType
  <2> DEFINE n == Len(pollfds_)
  <2>2. state_[f].idx # 0
    <3> SUFFICES ASSUME state_[f].idx = 0 PROVE FALSE
      OBVIOUS
    <3>1. EntryOf(f) = n + 1
      BY DEF EntryOf
    <3> HIDE DEF n
    <3> QED
      BY <1>2, <2>1, <3>1 DEF n
  <2>5. WithEntry(f) = pollfds_
    BY <2>2 DEF WithEntry
  <2>3. pollfds_[j] \in PollFd
    BY FdOfEntry DEF Registry
  <2>4. SetEvents(f, E)[j] = [pollfds_[j] EXCEPT !.events = E]
    BY <1>2, <2>1, <2>5 DEF SetEvents
  <2> QED
    BY <2>3, <2>4 DEF PollFd
<1> QED
  BY <1>1, <1>2

\* A step that leaves the places of the entries and what was reported for them
\* alone, and every callback that stays due.
Gentle ==
  /\ Len(pollfds_') \in Nat /\ Len(pollfds_) <= Len(pollfds_')
  /\ \A j \in 1..Len(pollfds_) : pollfds_'[j].revents = pollfds_[j].revents
  /\ \A f \in Fd : state_[f].idx # 0 => state_'[f].idx = state_[f].idx
  /\ \A f \in Fd, s \in Side : <<f, s>> \in due' =>
       <<f, s>> \in due /\ state_'[f].cb[s] = state_[f].cb[s]
  /\ maxpoll' = maxpoll

LEMMA GentleKeeps ==
  ASSUME IInv, DueAhead, pc \in InLoop, Gentle,
         NEW f \in Fd, NEW s \in Side, <<f, s>> \in due'
  PROVE  /\ Held(f, s)' /\ Held(f, s)
         /\ <<f, s>> \in due
         /\ state_'[f].idx = state_[f].idx
         /\ Coming(state_[f].idx, s)
<1>1. <<f, s>> \in due /\ state_'[f].cb[s] = state_[f].cb[s]
  BY DEF Gentle
<1>2. Held(f, s) /\ Coming(state_[f].idx, s)
  BY <1>1 DEF DueAhead
<1>3. Len(pollfds_) \in Nat /\ maxpoll \in Nat /\ maxpoll <= Len(pollfds_)
  BY LenProperties DEF IInv, TypeOK, PositionOK
<1>4. state_[f].idx \in 1..maxpoll /\ state_[f].idx \in 1..Len(pollfds_) /\ state_[f].idx # 0
  BY <1>2, <1>3 DEF Held
<1>5. state_'[f].idx = state_[f].idx
  BY <1>4 DEF Gentle
<1>6. pollfds_'[state_[f].idx].revents = pollfds_[state_[f].idx].revents
  BY <1>4 DEF Gentle
<1>7. Held(f, s)'
  BY <1>1, <1>2, <1>4, <1>5, <1>6 DEF Held, Gentle
<1> QED
  BY <1>1, <1>2, <1>5, <1>7

\* The entries that r counts after such a step.
LEMMA LeftAfter ==
  ASSUME IInv, pc \in InLoop, Gentle
  PROVE  Left' = {j \in 1..maxpoll : /\ pollfds_[j].revents # {}
                                     /\ i' < j \/ (i' = j /\ pc' = "read")}
<1>1. Len(pollfds_) \in Nat /\ maxpoll \in Nat /\ maxpoll <= Len(pollfds_)
  BY LenProperties DEF IInv, TypeOK, PositionOK
<1>2. \A j \in 1..maxpoll : pollfds_'[j].revents = pollfds_[j].revents
  BY <1>1 DEF Gentle
<1> QED
  BY <1>2 DEF Left, Gentle

LEMMA LeftFinite ==
  ASSUME IInv
  PROVE  IsFiniteSet(Left)
<1>1. IsFiniteSet(1..maxpoll)
  BY FS_Interval DEF IInv, TypeOK
<1> QED
  BY <1>1, FS_Subset DEF Left

\* Code of the user registers, replaces and removes callbacks of f: what it
\* touches is no longer due.
LEMMA EntryKeepsDue ==
  ASSUME IInv, DInv, NEW f \in Fd, NEW ss \in SUBSET Side, NEW c \in [Side -> Mode],
         UserCode, \A s \in Side \ ss : c[s] = state_[f].cb[s],
         pollfds_' = SetEvents(f, CbSet(c)), state_' = SetCallbacks(f, c),
         due' = due \ ({f} \X ss), UNCHANGED <<open, pc, i, maxpoll, r>>
  PROVE  DInv'
<1> USE RegistryOfIInv
<1>1. CASE pc \in {"idle", "others"}
  BY <1>1 DEF DInv, DueAhead, CountRight, NothingDue, InLoop
<1>2. CASE pc \in {"readcb", "writecb"}
  <2>1. pc \in InLoop /\ pc' = pc /\ i' = i /\ r' = r
    BY <1>2 DEF InLoop
  <2>2. Len(pollfds_') \in Nat /\ Len(pollfds_) <= Len(pollfds_')
    BY EntryStep
  <2>3. CbSet(c) \in SUBSET Side
    BY DEF CbSet
  <2>4. \A j \in 1..Len(pollfds_) : pollfds_'[j].revents = pollfds_[j].revents
    BY <2>3, ReventsStay
  <2>5. \A g \in Fd : state_[g].idx # 0 => state_'[g].idx = state_[g].idx
    BY DEF SetCallbacks, EntryOf, Registry, RegistryType
  <2>6. \A g \in Fd, s \in Side : <<g, s>> \in due' =>
          <<g, s>> \in due /\ state_'[g].cb[s] = state_[g].cb[s]
    BY DEF SetCallbacks, Registry, RegistryType
  <2>7. Gentle
    BY <2>2, <2>4, <2>5, <2>6 DEF Gentle
  <2>8. DueAhead'
    <3> SUFFICES ASSUME NEW g \in Fd, NEW s \in Side, <<g, s>> \in due'
                 PROVE  Held(g, s)' /\ Coming(state_[g].idx, s)'
      BY DEF DueAhead
    <3>1. Held(g, s)' /\ state_'[g].idx = state_[g].idx /\ Coming(state_[g].idx, s)
      BY <2>1, <2>7, GentleKeeps DEF DInv
    <3> QED
      BY <2>1, <3>1 DEF Coming
  <2>9. Left' = Left
    BY <2>1, <2>7, LeftAfter DEF Left
  <2> QED
    BY <2>1, <2>8, <2>9, <1>2 DEF DInv, CountRight, NothingDue
<1> QED
  BY <1>1, <1>2 DEF UserCode

LEMMA UserKeepsDue == IInv /\ DInv /\ User => DInv'
<1> SUFFICES ASSUME IInv, DInv, User PROVE DInv'
  OBVIOUS
<1>0. ASSUME NEW f \in Fd
      PROVE  Events(f) = CbSet(state_[f].cb) /\ state_[f].cb \in [Side -> Mode]
  BY DEF IInv, TypeOK, EventsMatchCallbacks, CbSet
<1>1. ASSUME NEW f \in Fd, NEW u \in Uses, SetCb(f, u[1], u[2])
      PROVE  DInv'
  <2> DEFINE c == [state_[f].cb EXCEPT ![u[1]] = u[2]]
             ss == {u[1]}
  <2>1. u[1] \in Side /\ u[2] \in Mode \ {"none"}
    BY UsesAssumption
  <2>2. /\ c \in [Side -> Mode] /\ CbSet(c) = Events(f) \cup {u[1]}
        /\ \A s \in Side \ ss : c[s] = state_[f].cb[s]
    BY <1>0, <2>1 DEF CbSet
  <2>3. ss \in SUBSET Side /\ {f} \X ss = {<<f, u[1]>>}
    BY <2>1
  <2>4. /\ UserCode /\ pollfds_' = SetEvents(f, CbSet(c)) /\ state_' = SetCallbacks(f, c)
        /\ due' = due \ ({f} \X ss) /\ UNCHANGED <<open, pc, i, maxpoll, r>>
    BY <1>1, <2>2, <2>3 DEF SetCb
  <2> HIDE DEF c, ss
  <2> QED
    BY <2>2, <2>3, <2>4, EntryKeepsDue
<1>2. ASSUME NEW f \in Fd, NEW u \in Uses, SetEmptyCb(f, u[1])
      PROVE  DInv'
  <2> DEFINE c == [state_[f].cb EXCEPT ![u[1]] = "none"]
             ss == {u[1]}
  <2>1. u[1] \in Side
    BY UsesAssumption
  <2>2. /\ c \in [Side -> Mode] /\ CbSet(c) = Events(f) \ {u[1]}
        /\ \A s \in Side \ ss : c[s] = state_[f].cb[s]
    BY <1>0, <2>1 DEF CbSet, Mode
  <2>3. ss \in SUBSET Side /\ {f} \X ss = {<<f, u[1]>>}
    BY <2>1
  <2>4. /\ UserCode /\ pollfds_' = SetEvents(f, CbSet(c)) /\ state_' = SetCallbacks(f, c)
        /\ due' = due \ ({f} \X ss) /\ UNCHANGED <<open, pc, i, maxpoll, r>>
    BY <1>2, <2>2, <2>3 DEF SetEmptyCb
  <2> HIDE DEF c, ss
  <2> QED
    BY <2>2, <2>3, <2>4, EntryKeepsDue
<1>3. ASSUME NEW f \in Fd, NEW ss \in SUBSET Side, RemoveCb(f, ss)
      PROVE  DInv'
  <2> DEFINE c == [s \in Side |-> IF s \in ss THEN "none" ELSE state_[f].cb[s]]
  <2>1. c \in [Side -> Mode] /\ \A s \in Side \ ss : c[s] = state_[f].cb[s]
    BY <1>0 DEF Mode
  <2>2. CbSet(c) = Events(f) \ ss
    <3>1. \A s \in Side : c[s] # "none" <=> s \notin ss /\ state_[f].cb[s] # "none"
      OBVIOUS
    <3> HIDE DEF c
    <3>2. CbSet(c) = {s \in Side : s \notin ss /\ state_[f].cb[s] # "none"}
      BY <3>1 DEF CbSet
    <3>3. Events(f) = {s \in Side : state_[f].cb[s] # "none"}
      BY <1>0 DEF CbSet
    <3> QED
      BY <3>2, <3>3
  <2>3. /\ UserCode /\ pollfds_' = SetEvents(f, CbSet(c)) /\ state_' = SetCallbacks(f, c)
        /\ due' = due \ ({f} \X ss) /\ UNCHANGED <<open, pc, i, maxpoll, r>>
    BY <1>3, <2>2 DEF RemoveCb
  <2> HIDE DEF c
  <2> QED
    BY <2>1, <2>3, EntryKeepsDue
<1>4. ASSUME NEW f \in Fd, Close(f) \/ Open(f)
      PROVE  DInv'
  <2>1. UNCHANGED <<pollfds_, state_, pc, i, maxpoll, r, due>>
    BY <1>4 DEF Close, Open
  <2> QED
    BY <2>1 DEF DInv, DueAhead, CountRight, NothingDue, InLoop, Left, Held, Coming
<1>5. CASE Return
  <2>1. CASE pc = "others"
    BY <1>5, <2>1 DEF Return, DInv, DueAhead, CountRight, NothingDue, InLoop
  <2>2. CASE pc \in {"readcb", "writecb"}
    <3>1. /\ UNCHANGED <<pollfds_, state_, maxpoll, r, due>> /\ pc \in InLoop
          /\ \/ pc = "readcb" /\ pc' = "write" /\ i' = i
             \/ pc = "writecb" /\ pc' = "read" /\ i' = i + 1
      BY <1>5, <2>2 DEF Return, InLoop
    <3>2. Gentle /\ i \in Nat /\ maxpoll \in Nat
      BY <3>1, LenProperties DEF Gentle, IInv, TypeOK
    <3>3. DueAhead'
      <4> SUFFICES ASSUME NEW g \in Fd, NEW s \in Side, <<g, s>> \in due'
                   PROVE  Held(g, s)' /\ Coming(state_[g].idx, s)'
        BY DEF DueAhead
      <4>1. Held(g, s)' /\ Held(g, s) /\ state_'[g].idx = state_[g].idx /\ Coming(state_[g].idx, s)
        BY <3>1, <3>2, GentleKeeps DEF DInv
      <4>2. state_[g].idx \in 1..maxpoll
        BY <4>1 DEF Held
      <4> QED
        BY <3>1, <3>2, <4>1, <4>2 DEF Coming
    <3>4. Left' = Left
      <4>1. \A j \in 1..maxpoll : i' < j \/ (i' = j /\ pc' = "read")
                                  <=> i < j \/ (i = j /\ pc = "read")
        BY <3>1, <3>2
      <4> QED
        BY <3>1, <3>2, <4>1, LeftAfter DEF Left
    <3> QED
      BY <3>1, <3>3, <3>4 DEF DInv, CountRight, NothingDue
  <2> QED
    BY <1>5, <2>1, <2>2 DEF Return
<1>6. CASE Throw
  BY <1>6 DEF Throw, EndRound, DInv, DueAhead, CountRight, NothingDue, InLoop
<1> QED
  BY <1>1, <1>2, <1>3, <1>4, <1>5, <1>6 DEF User

\* What the loop does with one side of entry i is gentle, and the side is no
\* longer due.
LEMMA CallIsGentle ==
  ASSUME IInv, DueAhead, pc \in InLoop, i \in 1..Len(pollfds_), NEW s \in Side,
         NEW a, NEW b, a # b, CallOrSkip(s, a, b), maxpoll' = maxpoll
  PROVE  /\ Gentle
         /\ \A f \in Fd : <<f, s>> \in due' => state_[f].idx # i
<1> USE RegistryOfIInv
<1> DEFINE g == pollfds_[i].fd
<1>1. /\ Len(pollfds_) \in Nat /\ DOMAIN pollfds_ = 1..Len(pollfds_)
      /\ Len(pollfds_') \in Nat /\ Len(pollfds_) <= Len(pollfds_')
  BY CallStep, LenProperties DEF IInv, TypeOK
<1>2. g \in Fd /\ state_[g].idx = i
  BY <1>1, FdOfEntry DEF Registry, RegistryOK
<1>3. \A f \in Fd : state_[f].idx = i => f = g
  BY <1>1 DEF Registry, RegistryOK
<1>4. /\ state_ \in [Fd -> [idx : Nat, cb : [Side -> Mode]]]
      /\ \A j \in 1..Len(pollfds_) : pollfds_[j] \in PollFd
  BY FdOfEntry DEF Registry, RegistryType
<1>5. \A j \in 1..Len(pollfds_) : pollfds_'[j].revents = pollfds_[j].revents
  <2>1. CASE pollfds_' = pollfds_
    BY <2>1
  <2>2. CASE pollfds_' = [pollfds_ EXCEPT ![i].events = @ \ {s}]
    BY <1>1, <1>4, <2>2 DEF PollFd
  <2> QED
    BY <2>1, <2>2 DEF CallOrSkip
<1>6. CASE s \in Selected(pollfds_[i].revents) /\ state_[g].cb[s] # "none"
  <2>1. /\ due' = due \ {<<g, s>>}
        /\ state_' = state_ \/ state_' = [state_ EXCEPT ![g].cb[s] = "none"]
    BY <1>6 DEF CallOrSkip
  <2>2. \A f \in Fd : /\ state_'[f].idx = state_[f].idx
                      /\ \A t \in Side : <<f, t>> # <<g, s>> => state_'[f].cb[t] = state_[f].cb[t]
    BY <1>2, <1>4, <2>1
  <2>3. Gentle
    BY <1>1, <1>5, <2>1, <2>2 DEF Gentle
  <2> QED
    BY <1>3, <2>1, <2>3
<1>7. CASE ~(s \in Selected(pollfds_[i].revents) /\ state_[g].cb[s] # "none")
  <2>1. UNCHANGED <<pollfds_, state_, due>>
    BY <1>7 DEF CallOrSkip
  <2>2. Gentle
    BY <1>1, <2>1 DEF Gentle
  <2>3. ASSUME NEW f \in Fd, <<f, s>> \in due', state_[f].idx = i
        PROVE  FALSE
    <3>1. f = g /\ Held(f, s)
      BY <1>3, <2>1, <2>3 DEF DueAhead
    <3> QED
      BY <1>7, <2>3, <3>1 DEF Held
  <2> QED
    BY <2>2, <2>3
<1> QED
  BY <1>6, <1>7

\* ::poll reports: everything is still ahead, and r is the number of entries
\* it reported on.
LEMMA PollReturnsDue == IInv /\ DInv /\ PollReturns => DInv'
<1> SUFFICES ASSUME IInv, DInv, PollReturns PROVE DInv'
  OBVIOUS
<1>1. Len(pollfds_) \in Nat /\ DOMAIN pollfds_ = 1..Len(pollfds_)
  BY LenProperties DEF IInv, TypeOK
<1>2. PICK rev \in [DOMAIN pollfds_ -> Reports] :
        /\ pollfds_' = [j \in DOMAIN pollfds_ |-> [pollfds_[j] EXCEPT !.revents = rev[j]]]
        /\ r' = Cardinality({j \in DOMAIN pollfds_ : rev[j] # {}})
        /\ due' = {p \in Fd \X Side :
                     /\ state_[p[1]].cb[p[2]] # "none"
                     /\ p[2] \in Selected(rev[state_[p[1]].idx])}
  BY DEF PollReturns
<1>3. maxpoll' = Len(pollfds_) /\ i' = 1 /\ pc' = "read" /\ state_' = state_
  BY DEF PollReturns
<1>4. \A j \in 1..Len(pollfds_) : pollfds_'[j].revents = rev[j]
  <2> TAKE j \in 1..Len(pollfds_)
  <2>1. pollfds_[j] \in PollFd
    BY RegistryOfIInv, FdOfEntry DEF Registry
  <2> QED
    BY <1>1, <1>2, <2>1 DEF PollFd
<1>5. DueAhead'
  <2> SUFFICES ASSUME NEW f \in Fd, NEW s \in Side, <<f, s>> \in due'
               PROVE  Held(f, s)' /\ Coming(state_[f].idx, s)'
    BY DEF DueAhead
  <2>1. state_[f].cb[s] # "none" /\ s \in Selected(rev[state_[f].idx])
    BY <1>2
  <2>2. state_[f].idx # 0
    BY <2>1 DEF IInv, EventsMatchCallbacks, Events
  <2>3. state_[f].idx \in 1..Len(pollfds_)
    BY <1>1, <2>2 DEF IInv, RegistryOK
  <2>4. Held(f, s)'
    BY <1>3, <1>4, <2>1, <2>3 DEF Held
  <2> QED
    BY <1>1, <1>3, <2>3, <2>4 DEF Coming
<1>6. Left' = {j \in 1..Len(pollfds_) : rev[j] # {}}
  <2>1. \A j \in 1..Len(pollfds_) : i' < j \/ (i' = j /\ pc' = "read")
    BY <1>1, <1>3
  <2> QED
    BY <1>3, <1>4, <2>1 DEF Left
<1>7. CountRight'
  BY <1>1, <1>2, <1>6 DEF CountRight
<1> QED
  BY <1>3, <1>5, <1>7 DEF DInv, NothingDue

\* The loop ends with nothing due: neither r nor maxpoll ends it early.
LEMMA LeaveLoopDue == IInv /\ DInv /\ LeaveLoop => DInv'
<1> SUFFICES ASSUME IInv, DInv, LeaveLoop PROVE DInv'
  OBVIOUS
<1>1. pc = "read" /\ pc \in InLoop /\ i \in Nat /\ maxpoll \in Nat
  BY DEF LeaveLoop, InLoop, IInv, TypeOK
<1>2. ASSUME NEW f \in Fd, NEW s \in Side, <<f, s>> \in due
      PROVE  FALSE
  <2>1. Held(f, s) /\ Coming(state_[f].idx, s)
    BY <1>1, <1>2 DEF DInv, DueAhead
  <2> DEFINE k == state_[f].idx
  <2>2. k \in 1..maxpoll /\ i <= k
    BY <1>1, <2>1 DEF Held, Coming
  <2>3. k \in Left
    <3>1. pollfds_[k].revents # {}
      BY <2>1 DEF Held, Selected
    <3>2. i < k \/ i = k
      BY <1>1, <2>2
    <3> HIDE DEF k
    <3> QED
      BY <1>1, <2>2, <3>1, <3>2 DEF Left
  <2>4. r = Cardinality(Left) /\ r # 0 /\ r \in Nat
    <3>1. r = Cardinality(Left)
      BY <1>1 DEF DInv, CountRight
    <3>2. Cardinality(Left) \in Nat /\ Cardinality(Left) # 0
      BY <2>3, LeftFinite, FS_CardinalityType, FS_EmptySet
    <3> QED
      BY <3>1, <3>2
  <2> HIDE DEF k
  <2> QED
    BY <1>1, <2>2, <2>4 DEF LeaveLoop, LoopDone
<1>3. due = {}
  BY <1>2 DEF IInv, TypeOK
<1> QED
  BY <1>3 DEF LeaveLoop, DInv, DueAhead, CountRight, NothingDue, InLoop

\* r goes down by one exactly at the entries it counts.
LEMMA ReadSideDue == IInv /\ DInv /\ ReadSide => DInv'
<1> SUFFICES ASSUME IInv, DInv, ReadSide PROVE DInv'
  OBVIOUS
<1>1. /\ pc = "read" /\ pc \in InLoop /\ i' = i /\ maxpoll' = maxpoll
      /\ CallOrSkip("Read", "readcb", "write")
      /\ pc' \in {"readcb", "write"}
      /\ r' = IF pollfds_[i].revents # {} THEN r - 1 ELSE r
  BY DEF ReadSide, CallOrSkip, InLoop
<1>2. Len(pollfds_) \in Nat /\ i \in 1..maxpoll /\ i \in 1..Len(pollfds_)
  BY <1>1, LenProperties DEF ReadSide, LoopDone, IInv, TypeOK, PositionOK
<1>3. Gentle /\ \A f \in Fd : <<f, "Read">> \in due' => state_[f].idx # i
  BY <1>1, <1>2, CallIsGentle DEF DInv, Side
<1>4. DueAhead'
  <2> SUFFICES ASSUME NEW f \in Fd, NEW s \in Side, <<f, s>> \in due'
               PROVE  Held(f, s)' /\ Coming(state_[f].idx, s)'
    BY DEF DueAhead
  <2>1. Held(f, s)' /\ state_'[f].idx = state_[f].idx /\ Coming(state_[f].idx, s)
    BY <1>1, <1>3, GentleKeeps DEF DInv
  <2>2. s = "Read" => state_[f].idx # i
    BY <1>3
  <2> QED
    BY <1>1, <2>1, <2>2 DEF Coming, Side
<1>5. Left' = Left \ {i}
  <2>1. \A j \in 1..maxpoll : i' < j \/ (i' = j /\ pc' = "read")
                              <=> (i < j \/ (i = j /\ pc = "read")) /\ j # i
    BY <1>1, <1>2
  <2> QED
    BY <1>1, <1>3, <2>1, LeftAfter DEF Left
<1>6. r = Cardinality(Left) /\ IsFiniteSet(Left)
  BY <1>1, LeftFinite DEF DInv, CountRight
<1>7. i \in Left <=> pollfds_[i].revents # {}
  BY <1>1, <1>2 DEF Left
<1>8. r' = Cardinality(Left \ {i})
  <2>1. CASE i \in Left
    BY <1>1, <1>6, <1>7, <2>1, FS_RemoveElement
  <2>2. CASE i \notin Left
    <3>1. Left \ {i} = Left
      BY <2>2
    <3> QED
      BY <1>1, <1>6, <1>7, <2>2, <3>1
  <2> QED
    BY <2>1, <2>2
<1> QED
  BY <1>1, <1>4, <1>5, <1>8 DEF DInv, CountRight, NothingDue

LEMMA WriteSideDue == IInv /\ DInv /\ WriteSide => DInv'
<1> SUFFICES ASSUME IInv, DInv, WriteSide PROVE DInv'
  OBVIOUS
<1>1. /\ pc = "write" /\ pc \in InLoop /\ maxpoll' = maxpoll /\ r' = r
      /\ CallOrSkip("Write", "writecb", "read")
      /\ \/ pc' = "writecb" /\ i' = i
         \/ pc' = "read" /\ i' = i + 1
  BY DEF WriteSide, CallOrSkip, InLoop
<1>2. Len(pollfds_) \in Nat /\ i \in 1..maxpoll /\ i \in 1..Len(pollfds_)
  BY <1>1, LenProperties DEF IInv, TypeOK, PositionOK
<1>3. Gentle /\ \A f \in Fd : <<f, "Write">> \in due' => state_[f].idx # i
  BY <1>1, <1>2, CallIsGentle DEF DInv, Side
<1>4. DueAhead'
  <2> SUFFICES ASSUME NEW f \in Fd, NEW s \in Side, <<f, s>> \in due'
               PROVE  Held(f, s)' /\ Coming(state_[f].idx, s)'
    BY DEF DueAhead
  <2>1. Held(f, s)' /\ Held(f, s) /\ state_'[f].idx = state_[f].idx /\ Coming(state_[f].idx, s)
    BY <1>1, <1>3, GentleKeeps DEF DInv
  <2>2. s = "Write" => state_[f].idx # i
    BY <1>3
  <2>3. state_[f].idx \in 1..maxpoll
    BY <2>1 DEF Held
  <2>4. i < state_[f].idx
    BY <1>1, <2>1, <2>2 DEF Coming, Side
  <2> QED
    BY <1>1, <1>2, <2>1, <2>3, <2>4 DEF Coming
<1>5. Left' = Left
  <2>1. maxpoll \in Nat
    BY DEF IInv, TypeOK
  <2>2. \A j \in 1..maxpoll : i' < j \/ (i' = j /\ pc' = "read")
                              <=> i < j \/ (i = j /\ pc = "read")
    BY <1>1, <1>2, <2>1
  <2> QED
    BY <1>1, <1>3, <2>2, LeftAfter DEF Left
<1> QED
  BY <1>1, <1>4, <1>5 DEF DInv, CountRight, NothingDue

LEMMA NextDInv == IInv /\ DInv /\ [Next]_vars => DInv'
<1> SUFFICES ASSUME IInv, DInv, [Next]_vars PROVE DInv'
  OBVIOUS
<1>1. CASE UNCHANGED vars
  BY <1>1 DEF vars, DInv, DueAhead, CountRight, NothingDue, InLoop, Left, Held, Coming
<1>2. CASE Abort
  BY <1>2 DEF Abort, DInv, DueAhead, CountRight, NothingDue, InLoop
<1>3. CASE PopUnused \/ PopDone \/ FillHole \/ KeepEntry \/ PollDone
  <2>1. pc \in {"pop", "swap"} /\ pc' \in {"pop", "swap", "idle"} /\ due' \in {due, {}}
    BY <1>3 DEF PopUnused, PopDone, FillHole, KeepEntry, PollDone, EndRound
  <2> QED
    BY <2>1 DEF DInv, DueAhead, CountRight, NothingDue, InLoop
<1> QED
  BY <1>1, <1>2, <1>3, UserKeepsDue, PollReturnsDue, LeaveLoopDue, ReadSideDue, WriteSideDue
  DEF Next, Poll

\* Every callback whose descriptor was ready when ::poll returned has run, or was
\* removed or replaced, before the loop of poll ends.
THEOREM NoneSkipped == Spec => []NoReadyCallbackSkipped
<1>1. Init => IInv /\ DInv
  BY InitIInv, InitDInv
<1>2. IInv /\ DInv /\ [Next]_vars => IInv' /\ DInv'
  BY NextIInv, NextDInv
<1>3. DInv => NoReadyCallbackSkipped
  BY DEF DInv, NothingDue, NoReadyCallbackSkipped
<1> QED
  BY <1>1, <1>2, <1>3, PTL DEF Spec
=============================================================================
