---------------------------- MODULE QueueProofs ----------------------------
(***************************************************************************)
(* The two queues of callbacks that poll serves.                           *)
(*                                                                         *)
(* Timeouts: for any number of timeouts, any times and any width of int,   *)
(* poll never sleeps too long, timeouts run in the order of their times,   *)
(* and a round of run_timeouts leaves none behind that had expired.        *)
(*                                                                         *)
(* Injected callbacks: for every set of threads and callbacks and every    *)
(* capacity of the pipe, no wake-up is lost, nasync_ counts the            *)
(* outstanding tasks, and the queue with its two vectors and its pipe      *)
(* implements Inbox.                                                       *)
(***************************************************************************)
EXTENDS Timeouts, AsyncQueue, SequenceTheorems, FiniteSetTheorems, WellFoundedInduction, TLAPS

\* A multimap, in which a timer is at most once.
Ordered(s) == \A j, k \in 1..Len(s) : j < k => s[j].at <= s[k].at
Once(s) == \A j, k \in 1..Len(s) : s[j].t = s[k].t => j = k

\* The iterator x is at place p.
Points(s, p, x) ==
  /\ p \in 1..Len(s) + 1
  /\ IF p = Len(s) + 1 THEN x = End ELSE s[p].t = x

\* What run_timeouts has passed was inserted since it began.
PassedBy(s, x, new) ==
  \E p \in 1..Len(s) + 1 : Points(s, p, x) /\ \A k \in 1..p - 1 : s[k].t \in new
Passed == pc \in {"loop", "callback"} /\ valid => PassedBy(time_cbs_, i, added)

Phased == /\ pc = "loop" => valid
          /\ pc = "callback" => i # End

IInv == TypeOK /\ Ordered(time_cbs_) /\ Once(time_cbs_) /\ Phased /\ Passed

----------------------------------------------------------------------------
(***************************************************************************)
(* Sequences with an entry more, or less.                                  *)
(***************************************************************************)
Inserted(u, s, p, e) ==
  /\ u \in Seq(Entry) /\ Len(u) = Len(s) + 1 /\ p \in 1..Len(u)
  /\ u[p] = e
  /\ \A k \in 1..p - 1 : u[k] = s[k]
  /\ \A k \in p + 1..Len(u) : u[k] = s[k - 1]

Removed(u, s, p) ==
  /\ u \in Seq(Entry) /\ Len(u) = Len(s) - 1 /\ p \in 1..Len(s)
  /\ \A k \in 1..p - 1 : u[k] = s[k]
  /\ \A k \in p..Len(u) : u[k] = s[k + 1]

LEMMA EntryType ==
  ASSUME NEW s \in Seq(Entry), NEW k \in 1..Len(s)
  PROVE  /\ s[k] \in Entry /\ s[k].at \in 0..MaxTime /\ s[k].at \in Nat /\ s[k].t \in Timer
<1>1. s[k] \in Entry
  OBVIOUS
<1> QED
  BY <1>1, BoundsAssumption DEF Entry

LEMMA Inserts ==
  ASSUME NEW s \in Seq(Entry), NEW p \in 1..Len(s) + 1, NEW e \in Entry
  PROVE  Inserted(InsertAt(s, p, e), s, p, e)
<1> DEFINE a == SubSeq(s, 1, p - 1)
           b == SubSeq(s, p, Len(s))
           u == (a \o << e >>) \o b
<1>1. /\ a \in Seq(Entry) /\ Len(a) = p - 1
      /\ \A k \in 1..p - 1 : a[k] = s[k]
  <2>1. \A k \in 1..p - 1 : s[k] \in Entry
    OBVIOUS
  <2> QED
    BY <2>1, SubSeqProperties
<1>2. /\ b \in Seq(Entry) /\ Len(b) = Len(s) - p + 1
      /\ \A k \in 1..Len(b) : b[k] = s[p + k - 1]
  <2>1. \A k \in p..Len(s) : s[k] \in Entry
    OBVIOUS
  <2> QED
    BY <2>1, SubSeqProperties
<1> HIDE DEF a, b
<1> DEFINE c == a \o << e >>
<1>3. /\ c \in Seq(Entry) /\ Len(c) = p /\ c[p] = e
      /\ \A k \in 1..p - 1 : c[k] = s[k]
  <2>1. << e >> \in Seq(Entry) /\ Len(<< e >>) = 1 /\ << e >>[1] = e
    OBVIOUS
  <2>2. /\ c \in Seq(Entry) /\ Len(c) = Len(a) + Len(<< e >>)
        /\ \A k \in 1..Len(a) + Len(<< e >>) :
             c[k] = IF k <= Len(a) THEN a[k] ELSE << e >>[k - Len(a)]
    BY <1>1, <2>1, ConcatProperties
  <2> QED
    BY <1>1, <2>1, <2>2
<1> HIDE DEF c
<1>4. /\ c \o b \in Seq(Entry) /\ Len(c \o b) = Len(c) + Len(b)
      /\ \A k \in 1..Len(c) + Len(b) :
           (c \o b)[k] = IF k <= Len(c) THEN c[k] ELSE b[k - Len(c)]
  BY <1>2, <1>3, ConcatProperties
<1>5. InsertAt(s, p, e) = c \o b
  BY DEF InsertAt, a, b, c
<1> DEFINE v == c \o b
<1>6. /\ v \in Seq(Entry) /\ Len(v) = Len(s) + 1 /\ v[p] = e
      /\ \A k \in 1..p - 1 : v[k] = s[k]
      /\ \A k \in p + 1..Len(v) : v[k] = s[k - 1]
  <2>1. Len(v) = Len(s) + 1 /\ v \in Seq(Entry)
    BY <1>2, <1>3, <1>4
  <2>2. \A k \in 1..p : v[k] = c[k]
    BY <1>2, <1>3, <1>4
  <2>3. \A k \in p + 1..Len(v) : v[k] = b[k - p] /\ b[k - p] = s[k - 1]
    BY <1>2, <1>3, <1>4, <2>1
  <2> QED
    BY <1>3, <2>1, <2>2, <2>3
<1> HIDE DEF v
<1>7. Inserted(v, s, p, e)
  BY <1>6 DEF Inserted
<1> QED
  BY <1>5, <1>7 DEF v

LEMMA Removes ==
  ASSUME NEW s \in Seq(Entry), NEW p \in 1..Len(s)
  PROVE  Removed(RemoveAt(s, p), s, p)
<1> DEFINE a == SubSeq(s, 1, p - 1)
           b == SubSeq(s, p + 1, Len(s))
<1>1. /\ a \in Seq(Entry) /\ Len(a) = p - 1
      /\ \A k \in 1..p - 1 : a[k] = s[k]
  <2>1. \A k \in 1..p - 1 : s[k] \in Entry
    OBVIOUS
  <2> QED
    BY <2>1, SubSeqProperties
<1>2. /\ b \in Seq(Entry) /\ Len(b) = Len(s) - p
      /\ \A k \in 1..Len(b) : b[k] = s[p + k]
  <2>1. \A k \in p + 1..Len(s) : s[k] \in Entry
    OBVIOUS
  <2> QED
    BY <2>1, SubSeqProperties
<1> HIDE DEF a, b
<1> DEFINE v == a \o b
<1>3. /\ v \in Seq(Entry) /\ Len(v) = Len(a) + Len(b)
      /\ \A k \in 1..Len(a) + Len(b) : v[k] = IF k <= Len(a) THEN a[k] ELSE b[k - Len(a)]
  BY <1>1, <1>2, ConcatProperties
<1>4. RemoveAt(s, p) = v
  BY DEF RemoveAt, a, b
<1> HIDE DEF v
<1>5. Len(v) = Len(s) - 1
  BY <1>1, <1>2, <1>3
<1>6. \A k \in 1..p - 1 : v[k] = s[k]
  BY <1>1, <1>2, <1>3
<1>7. \A k \in p..Len(v) : v[k] = b[k - (p - 1)] /\ b[k - (p - 1)] = s[k + 1]
  BY <1>1, <1>2, <1>3, <1>5, SMTT(30)
<1> QED
  BY <1>3, <1>4, <1>5, <1>6, <1>7 DEF Removed

----------------------------------------------------------------------------
(***************************************************************************)
(* The multimap.                                                           *)
(***************************************************************************)
\* The upper bound of a key exists: the first place with a later time, or the end.
LEMMA PlaceExists ==
  ASSUME NEW s \in Seq(Entry), Ordered(s), NEW at \in 0..MaxTime
  PROVE  /\ Place(s, at) \in 1..Len(s) + 1
         /\ \A j \in 1..Len(s) : s[j].at <= at <=> j < Place(s, at)
<1> DEFINE Late == {k \in 1..Len(s) : ~(s[k].at <= at)} \cup {Len(s) + 1}
<1>1. PICK k \in Late : \A j \in Late : ~(j < k)
  <2>1. Late \subseteq Nat /\ Late # {}
    OBVIOUS
  <2>2. \E k \in Late : \A j \in Late : ~(<< j, k >> \in OpToRel(<, Nat))
    <3> HIDE DEF Late
    <3> QED
      BY <2>1, WFMin, NatLessThanWellFounded, Zenon
  <2> HIDE DEF Late
  <2> QED
    BY <2>1, <2>2, Zenon DEF OpToRel
<1>2. k \in 1..Len(s) + 1
  OBVIOUS
<1>3. ASSUME NEW j \in 1..Len(s)
      PROVE  s[j].at <= at <=> j < k
  <2>1. CASE j < k
    BY <1>1, <1>2, <2>1
  <2>2. CASE ~(j < k)
    <3>1. k \in 1..Len(s) /\ ~(s[k].at <= at)
      BY <1>1, <1>2, <2>2
    <3>2. s[k].at <= s[j].at
      <4>1. CASE j = k
        BY <3>1, <4>1, EntryType
      <4>2. CASE k < j
        BY <3>1, <4>2 DEF Ordered
      <4> QED
        BY <1>2, <2>2, <4>1, <4>2
    <3>3. s[k].at \in Nat /\ s[j].at \in Nat
      BY <3>1, EntryType
    <3> QED
      BY <2>2, <3>1, <3>2, <3>3, BoundsAssumption
  <2> QED
    BY <2>1, <2>2
<1>4. DOMAIN s = 1..Len(s)
  OBVIOUS
<1> HIDE DEF Late
<1>5. \E q \in 1..Len(s) + 1 : \A j \in DOMAIN s : s[j].at <= at <=> j < q
  BY <1>2, <1>3, <1>4
<1> QED
  BY <1>4, <1>5, Zenon DEF Place

\* emplace keeps the order.
LEMMA WithKeeps ==
  ASSUME NEW s \in Seq(Entry), Ordered(s), Once(s), NEW t \in Timer, NEW at \in 0..MaxTime,
         \A k \in 1..Len(s) : s[k].t # t
  PROVE  /\ Inserted(With(s, t, at), s, Place(s, at), [at |-> at, t |-> t])
         /\ Ordered(With(s, t, at)) /\ Once(With(s, t, at))
<1> DEFINE p == Place(s, at)
           u == With(s, t, at)
           e == [at |-> at, t |-> t]
<1>1. p \in 1..Len(s) + 1 /\ \A j \in 1..Len(s) : s[j].at <= at <=> j < p
  BY PlaceExists
<1>2. e \in Entry
  BY DEF Entry
<1>3. Inserted(u, s, p, e)
  BY <1>1, <1>2, Inserts DEF With
<1>4. e.at = at /\ e.t = t
  OBVIOUS
<1> HIDE DEF p, u, e
<1>5. /\ u \in Seq(Entry) /\ Len(u) = Len(s) + 1 /\ u[p] = e /\ Len(s) \in Nat
      /\ \A k \in 1..p - 1 : u[k] = s[k] /\ k \in 1..Len(s)
      /\ \A k \in p + 1..Len(u) : u[k] = s[k - 1] /\ k - 1 \in 1..Len(s)
  BY <1>1, <1>3 DEF Inserted
<1>6. \A k \in 1..Len(u) : k \in 1..p - 1 \/ k = p \/ k \in p + 1..Len(u)
  BY <1>1, <1>5
<1>7. \A k \in 1..Len(s) : s[k].at \in Nat
  BY EntryType
<1>8. Ordered(u)
  <2> SUFFICES ASSUME NEW j \in 1..Len(u), NEW k \in 1..Len(u), j < k
               PROVE  u[j].at <= u[k].at
    BY DEF Ordered
  <2>1. CASE j = p
    <3>1. k \in p + 1..Len(u) /\ ~(k - 1 < p) /\ k - 1 \in 1..Len(s)
      BY <1>1, <1>5, <1>6, <2>1
    <3> QED
      BY <1>1, <1>4, <1>5, <1>7, <2>1, <3>1
  <2>2. CASE k = p
    <3>1. j \in 1..p - 1 /\ j < p /\ j \in 1..Len(s)
      BY <1>1, <1>5, <1>6, <2>2
    <3> QED
      BY <1>1, <1>4, <1>5, <2>2, <3>1
  <2>3. CASE j \in 1..p - 1 /\ k \in 1..p - 1
    BY <1>5, <2>3 DEF Ordered
  <2>4. CASE j \in 1..p - 1 /\ k \in p + 1..Len(u)
    <3>1. j < k - 1 /\ j \in 1..Len(s) /\ k - 1 \in 1..Len(s)
      BY <1>1, <1>5, <2>4
    <3> QED
      BY <1>5, <2>4, <3>1 DEF Ordered
  <2>5. CASE j \in p + 1..Len(u) /\ k \in p + 1..Len(u)
    <3>1. j - 1 < k - 1 /\ j - 1 \in 1..Len(s) /\ k - 1 \in 1..Len(s)
      BY <1>1, <1>5, <2>5
    <3> QED
      BY <1>5, <2>5, <3>1 DEF Ordered
  <2> QED
    BY <1>1, <1>6, <2>1, <2>2, <2>3, <2>4, <2>5
<1>9. Once(u)
  <2> SUFFICES ASSUME NEW j \in 1..Len(u), NEW k \in 1..Len(u), u[j].t = u[k].t, j < k
               PROVE  FALSE
    <3>1. \A j, k \in 1..Len(u) : u[j].t = u[k].t => ~(j < k)
      OBVIOUS
    <3> QED
      BY <1>5, <3>1 DEF Once
  <2>1. CASE j = p
    <3>1. k \in p + 1..Len(u)
      BY <1>1, <1>5, <2>1
    <3> QED
      BY <1>4, <1>5, <2>1, <3>1
  <2>2. CASE k = p
    BY <1>1, <1>4, <1>5, <1>6, <2>2
  <2>3. CASE j \in 1..p - 1 /\ k \in 1..p - 1
    BY <1>5, <2>3 DEF Once
  <2>4. CASE j \in 1..p - 1 /\ k \in p + 1..Len(u)
    <3>1. j # k - 1 /\ j \in 1..Len(s) /\ k - 1 \in 1..Len(s)
      BY <1>1, <1>5, <2>4
    <3> QED
      BY <1>5, <2>4, <3>1, ZenonT(40) DEF Once
  <2>5. CASE j \in p + 1..Len(u) /\ k \in p + 1..Len(u)
    <3>1. j - 1 # k - 1 /\ j - 1 \in 1..Len(s) /\ k - 1 \in 1..Len(s)
      BY <1>1, <1>5, <2>5
    <3> QED
      BY <1>5, <2>5, <3>1, SMTT(30) DEF Once
  <2> QED
    BY <1>1, <1>6, <2>1, <2>2, <2>3, <2>4, <2>5
<1> QED
  BY <1>3, <1>8, <1>9 DEF p, u, e

\* erase keeps it too.
LEMMA WithoutKeeps ==
  ASSUME NEW s \in Seq(Entry), Ordered(s), Once(s), NEW t, NEW n \in 1..Len(s), s[n].t = t
  PROVE  /\ Position(s, t) = n /\ Removed(Without(s, t), s, n)
         /\ Ordered(Without(s, t)) /\ Once(Without(s, t))
         /\ \A k \in 1..Len(Without(s, t)) : Without(s, t)[k].t # t
<1> DEFINE u == Without(s, t)
<1>1. Position(s, t) = n
  <2>1. DOMAIN s = 1..Len(s)
    OBVIOUS
  <2>2. Position(s, t) \in 1..Len(s) /\ s[Position(s, t)].t = t
    BY <2>1, Zenon DEF Position
  <2> QED
    BY <2>2 DEF Once
<1>2. Removed(u, s, n)
  BY <1>1, Removes DEF Without
<1> HIDE DEF u
<1>3. /\ u \in Seq(Entry) /\ Len(u) = Len(s) - 1 /\ Len(s) \in Nat
      /\ \A k \in 1..n - 1 : u[k] = s[k] /\ k \in 1..Len(s)
      /\ \A k \in n..Len(u) : u[k] = s[k + 1] /\ k + 1 \in 1..Len(s)
  BY <1>2 DEF Removed
<1>4. \A k \in 1..Len(u) : k \in 1..n - 1 \/ k \in n..Len(u)
  BY <1>3
<1>5. Ordered(u)
  <2> SUFFICES ASSUME NEW j \in 1..Len(u), NEW k \in 1..Len(u), j < k
               PROVE  u[j].at <= u[k].at
    BY DEF Ordered
  <2>1. CASE k \in 1..n - 1
    BY <1>3, <1>4, <2>1 DEF Ordered
  <2>2. CASE j \in n..Len(u)
    <3>1. k \in n..Len(u) /\ j + 1 < k + 1
      BY <1>3, <2>2
    <3> QED
      BY <1>3, <2>2, <3>1 DEF Ordered
  <2>3. CASE j \in 1..n - 1 /\ k \in n..Len(u)
    <3>1. j < k + 1
      BY <1>3, <2>3
    <3> QED
      BY <1>3, <2>3, <3>1 DEF Ordered
  <2> QED
    BY <1>4, <2>1, <2>2, <2>3
<1>6. \A k \in 1..Len(u) : u[k].t # t
  <2> SUFFICES ASSUME NEW k \in 1..Len(u), u[k].t = t  PROVE FALSE
    OBVIOUS
  <2>1. CASE k \in 1..n - 1
    BY <1>3, <2>1 DEF Once
  <2>2. CASE k \in n..Len(u)
    <3>1. k + 1 # n
      BY <1>3, <2>2
    <3> QED
      BY <1>3, <2>2, <3>1 DEF Once
  <2> QED
    BY <1>4, <2>1, <2>2
<1>7. Once(u)
  <2> SUFFICES ASSUME NEW j \in 1..Len(u), NEW k \in 1..Len(u), u[j].t = u[k].t, j < k
               PROVE  FALSE
    <3>1. \A j, k \in 1..Len(u) : u[j].t = u[k].t => ~(j < k)
      OBVIOUS
    <3> QED
      BY <1>3, <3>1 DEF Once
  <2>1. CASE k \in 1..n - 1
    BY <1>3, <1>4, <2>1, SMTT(30) DEF Once
  <2>2. CASE j \in n..Len(u)
    <3>1. k \in n..Len(u) /\ j + 1 # k + 1
      BY <1>3, <2>2
    <3>2. u[j] = s[j + 1] /\ u[k] = s[k + 1] /\ j + 1 \in 1..Len(s) /\ k + 1 \in 1..Len(s)
      BY <1>3, <2>2, <3>1
    <3> QED
      BY <3>1, <3>2 DEF Once
  <2>3. CASE j \in 1..n - 1 /\ k \in n..Len(u)
    <3>1. j # k + 1
      BY <1>3, <2>3
    <3> QED
      BY <1>3, <2>3, <3>1 DEF Once
  <2> QED
    BY <1>4, <2>1, <2>2, <2>3
<1> QED
  BY <1>1, <1>2, <1>5, <1>6, <1>7 DEF u

----------------------------------------------------------------------------
(***************************************************************************)
(* The iterator, while the multimap changes.                               *)
(***************************************************************************)
LEMMA InsertPassed ==
  ASSUME NEW s \in Seq(Entry), NEW u, NEW q, NEW e, Inserted(u, s, q, e),
         NEW x, NEW new, PassedBy(s, x, new)
  PROVE  PassedBy(u, x, new \cup {e.t})
<1>1. PICK p \in 1..Len(s) + 1 : Points(s, p, x) /\ \A k \in 1..p - 1 : s[k].t \in new
  BY DEF PassedBy
<1>2. /\ Len(u) = Len(s) + 1 /\ q \in 1..Len(u) /\ u[q] = e /\ Len(s) \in Nat
      /\ \A k \in 1..q - 1 : u[k] = s[k]
      /\ \A k \in q + 1..Len(u) : u[k] = s[k - 1]
  BY DEF Inserted
<1>3. CASE q <= p
  <2>1. Points(u, p + 1, x)
    <3>1. CASE p = Len(s) + 1
      BY <1>1, <1>2, <3>1 DEF Points
    <3>2. CASE p \in 1..Len(s)
      <4>1. u[p + 1] = s[p]
        BY <1>2, <1>3, <3>2
      <4> QED
        BY <1>1, <1>2, <3>2, <4>1 DEF Points
    <3> QED
      BY <3>1, <3>2
  <2>2. ASSUME NEW k \in 1..p  PROVE u[k].t \in new \cup {e.t}
    <3>1. CASE k < q
      <4>1. u[k] = s[k] /\ k \in 1..p - 1
        BY <1>2, <1>3, <3>1
      <4> QED
        BY <1>1, <4>1
    <3>2. CASE k = q
      BY <1>2, <3>2
    <3>3. CASE k > q
      <4>1. u[k] = s[k - 1] /\ k - 1 \in 1..p - 1
        BY <1>2, <1>3, <3>3
      <4> QED
        BY <1>1, <4>1
    <3> QED
      BY <1>2, <3>1, <3>2, <3>3
  <2>3. p + 1 \in 1..Len(u) + 1 /\ (p + 1) - 1 = p
    BY <1>2
  <2> QED
    BY <2>1, <2>2, <2>3 DEF PassedBy
<1>4. CASE p < q
  <2>1. p \in 1..Len(s) /\ u[p] = s[p] /\ p \in 1..Len(u)
    BY <1>2, <1>4
  <2>2. Points(u, p, x)
    BY <1>1, <1>2, <2>1 DEF Points
  <2>3. ASSUME NEW k \in 1..p - 1  PROVE u[k].t \in new \cup {e.t}
    BY <1>1, <1>2, <1>4
  <2> QED
    BY <1>2, <2>1, <2>2, <2>3 DEF PassedBy
<1> QED
  BY <1>2, <1>3, <1>4

LEMMA RemovePassed ==
  ASSUME NEW s \in Seq(Entry), NEW u, NEW n, Removed(u, s, n),
         NEW x, s[n].t # x, NEW new, PassedBy(s, x, new)
  PROVE  PassedBy(u, x, new)
<1>1. PICK p \in 1..Len(s) + 1 : Points(s, p, x) /\ \A k \in 1..p - 1 : s[k].t \in new
  BY DEF PassedBy
<1>2. /\ Len(u) = Len(s) - 1 /\ n \in 1..Len(s) /\ Len(s) \in Nat
      /\ \A k \in 1..n - 1 : u[k] = s[k]
      /\ \A k \in n..Len(u) : u[k] = s[k + 1]
  BY DEF Removed
<1>3. p # n
  BY <1>1, <1>2 DEF Points
<1>4. CASE n < p
  <2>1. Points(u, p - 1, x)
    <3>1. CASE p = Len(s) + 1
      BY <1>1, <1>2, <3>1 DEF Points
    <3>2. CASE p \in 1..Len(s)
      <4>1. u[p - 1] = s[p]
        BY <1>2, <1>4, <3>2
      <4> QED
        BY <1>1, <1>2, <1>4, <3>2, <4>1 DEF Points
    <3> QED
      BY <3>1, <3>2
  <2>2. ASSUME NEW k \in 1..(p - 1) - 1  PROVE u[k].t \in new
    <3>1. CASE k < n
      BY <1>1, <1>2, <1>4, <3>1
    <3>2. CASE k >= n
      <4>1. u[k] = s[k + 1] /\ k + 1 \in 1..p - 1
        BY <1>2, <1>4, <3>2
      <4> QED
        BY <1>1, <4>1
    <3> QED
      BY <1>2, <3>1, <3>2
  <2>3. p - 1 \in 1..Len(u) + 1
    BY <1>2, <1>4
  <2> QED
    BY <2>1, <2>2, <2>3 DEF PassedBy
<1>5. CASE p < n
  <2>1. p \in 1..Len(s) /\ u[p] = s[p] /\ p \in 1..Len(u)
    BY <1>2, <1>5
  <2>2. Points(u, p, x)
    BY <1>1, <1>2, <2>1 DEF Points
  <2>3. ASSUME NEW k \in 1..p - 1  PROVE u[k].t \in new
    BY <1>1, <1>2, <1>5
  <2> QED
    BY <1>2, <2>1, <2>2, <2>3 DEF PassedBy
<1> QED
  BY <1>2, <1>3, <1>4, <1>5

\* erase(i++): the iterator goes to the entry behind the one that is erased.
LEMMA AdvancePassed ==
  ASSUME NEW s \in Seq(Entry), NEW u, NEW n, Removed(u, s, n),
         NEW new, \A k \in 1..n - 1 : s[k].t \in new
  PROVE  PassedBy(u, IF n = Len(s) THEN End ELSE s[n + 1].t, new)
<1>1. /\ Len(u) = Len(s) - 1 /\ n \in 1..Len(s) /\ Len(s) \in Nat
      /\ \A k \in 1..n - 1 : u[k] = s[k]
      /\ \A k \in n..Len(u) : u[k] = s[k + 1]
  BY DEF Removed
<1>2. Points(u, n, IF n = Len(s) THEN End ELSE s[n + 1].t)
  BY <1>1 DEF Points
<1>3. \A k \in 1..n - 1 : u[k].t \in new
  BY <1>1
<1> QED
  BY <1>1, <1>2, <1>3 DEF PassedBy

----------------------------------------------------------------------------
(***************************************************************************)
(* Steps.                                                                  *)
(***************************************************************************)
LEMMA InitIInv == Init => IInv
  BY BoundsAssumption DEF Init, IInv, TypeOK, Phases, Ordered, Once, Phased, Passed

\* The place of a pending timer.
LEMMA PendingPlace ==
  ASSUME time_cbs_ \in Seq(Entry), NEW t
  PROVE  Pending(t) <=> \E n \in 1..Len(time_cbs_) : time_cbs_[n].t = t
<1>1. DOMAIN time_cbs_ = 1..Len(time_cbs_)
  OBVIOUS
<1> QED
  BY <1>1 DEF Pending

LEMMA TimeoutAtStep ==
  ASSUME IInv, NEW t \in Timer, NEW at \in 0..MaxTime, TimeoutAt(t, at)
  PROVE  IInv'
<1> DEFINE e == [at |-> at, t |-> t]
<1>1. /\ time_cbs_' = With(time_cbs_, t, at) /\ added' = added \cup {t}
      /\ ~Pending(t) /\ calls' \in 0..MaxCalls
      /\ UNCHANGED <<now, pc, i, valid, cached, ms, since, wait>>
      /\ time_cbs_ \in Seq(Entry) /\ Ordered(time_cbs_) /\ Once(time_cbs_)
  BY BoundsAssumption DEF TimeoutAt, IInv, TypeOK
<1>2. \A k \in 1..Len(time_cbs_) : time_cbs_[k].t # t
  BY <1>1, PendingPlace
<1>3. /\ Inserted(time_cbs_', time_cbs_, Place(time_cbs_, at), e)
      /\ Ordered(time_cbs_') /\ Once(time_cbs_')
  BY <1>1, <1>2, WithKeeps
<1>4. e.t = t
  OBVIOUS
<1> HIDE DEF e
<1>5. Passed'
  <2> SUFFICES ASSUME pc \in {"loop", "callback"}, valid
               PROVE  PassedBy(time_cbs_', i, added')
    BY <1>1 DEF Passed
  <2>1. PassedBy(time_cbs_, i, added)
    BY DEF IInv, Passed
  <2>2. PassedBy(time_cbs_', i, added \cup {e.t})
    BY <1>1, <1>3, <2>1, InsertPassed
  <2> QED
    BY <1>1, <1>4, <2>2
<1>6. TypeOK' /\ Phased'
  BY <1>1, <1>3 DEF IInv, TypeOK, Phased, Inserted
<1> QED
  BY <1>3, <1>5, <1>6 DEF IInv

LEMMA TimeoutCancelStep ==
  ASSUME IInv, NEW t \in Timer, TimeoutCancel(t)
  PROVE  IInv'
<1>1. /\ time_cbs_' = Without(time_cbs_, t) /\ valid' = (valid /\ t # i) /\ Pending(t)
      /\ UNCHANGED <<now, pc, i, cached, ms, since, wait, added, calls>>
      /\ pc \in {"user", "callback"}
      /\ time_cbs_ \in Seq(Entry) /\ Ordered(time_cbs_) /\ Once(time_cbs_) /\ valid \in BOOLEAN
  BY DEF TimeoutCancel, UserCode, IInv, TypeOK
<1>2. PICK n \in 1..Len(time_cbs_) : time_cbs_[n].t = t
  BY <1>1, PendingPlace
<1>3. /\ Removed(time_cbs_', time_cbs_, n)
      /\ Ordered(time_cbs_') /\ Once(time_cbs_')
  BY <1>1, <1>2, WithoutKeeps
<1>4. Passed'
  <2> SUFFICES ASSUME pc = "callback", valid, t # i
               PROVE  PassedBy(time_cbs_', i, added)
    BY <1>1 DEF Passed
  <2>1. PassedBy(time_cbs_, i, added)
    BY DEF IInv, Passed
  <2> QED
    BY <1>1, <1>2, <1>3, <2>1, RemovePassed
<1>5. TypeOK'
  <2>1. valid' \in BOOLEAN
    BY <1>1
  <2> QED
    BY <1>1, <1>3, <2>1 DEF IInv, TypeOK, Removed
<1>6. Phased'
  BY <1>1 DEF IInv, Phased
<1> QED
  BY <1>3, <1>4, <1>5, <1>6 DEF IInv

LEMMA TimeoutRescheduleStep ==
  ASSUME IInv, NEW t \in Timer, NEW at \in 0..MaxTime, TimeoutReschedule(t, at)
  PROVE  IInv'
<1> DEFINE s == Without(time_cbs_, t)
           e == [at |-> at, t |-> t]
<1>1. /\ time_cbs_' = With(s, t, at) /\ valid' = (valid /\ t # i) /\ Pending(t)
      /\ UNCHANGED <<now, pc, i, cached, ms, since, wait>>
      /\ pc \in {"user", "callback"} /\ calls' \in 0..MaxCalls /\ added' = added \cup {t}
      /\ time_cbs_ \in Seq(Entry) /\ Ordered(time_cbs_) /\ Once(time_cbs_) /\ valid \in BOOLEAN
  BY BoundsAssumption DEF TimeoutReschedule, UserCode, IInv, TypeOK
<1>2. PICK n \in 1..Len(time_cbs_) : time_cbs_[n].t = t
  BY <1>1, PendingPlace
<1>3. /\ Removed(s, time_cbs_, n) /\ Ordered(s) /\ Once(s)
      /\ \A k \in 1..Len(s) : s[k].t # t
  BY <1>1, <1>2, WithoutKeeps
<1>4. e.t = t
  OBVIOUS
<1> HIDE DEF s
<1>5. s \in Seq(Entry)
  BY <1>3 DEF Removed
<1>6. /\ Inserted(time_cbs_', s, Place(s, at), e)
      /\ Ordered(time_cbs_') /\ Once(time_cbs_')
  BY <1>1, <1>3, <1>5, WithKeeps
<1> HIDE DEF e
<1>7. Passed'
  <2> SUFFICES ASSUME pc = "callback", valid, t # i
               PROVE  PassedBy(time_cbs_', i, added')
    BY <1>1 DEF Passed
  <2>1. PassedBy(time_cbs_, i, added)
    BY DEF IInv, Passed
  <2>2. PassedBy(s, i, added)
    BY <1>1, <1>2, <1>3, <2>1, RemovePassed
  <2>3. PassedBy(time_cbs_', i, added \cup {e.t})
    BY <1>5, <1>6, <2>2, InsertPassed
  <2> QED
    BY <1>1, <1>4, <2>3
<1>8. TypeOK'
  <2>1. valid' \in BOOLEAN
    BY <1>1
  <2> QED
    BY <1>1, <1>6, <2>1 DEF IInv, TypeOK, Inserted
<1>9. Phased'
  BY <1>1 DEF IInv, Phased
<1> QED
  BY <1>6, <1>7, <1>8, <1>9 DEF IInv

LEMMA NextTimeoutType ==
  ASSUME TypeOK, NEW m \in {-1, 0, IntMax}
  PROVE  /\ NextTimeout(m) \in -(IntMax + 1)..IntMax
         /\ m >= 0 => NextTimeout(m) \in 0..m
         /\ time_cbs_ # << >> =>
              NextTimeout(m) >= 0 /\ (NextTimeout(m) > 0 => now + NextTimeout(m) <= Head(time_cbs_).at)
<1>1. CASE time_cbs_ = << >>
  BY <1>1, BoundsAssumption DEF NextTimeout
<1>2. CASE time_cbs_ # << >>
  <2> DEFINE at == Head(time_cbs_).at
  <2>1. at \in Nat /\ now \in Nat
    <3>1. Head(time_cbs_) = time_cbs_[1] /\ 1 \in 1..Len(time_cbs_)
      BY <1>2 DEF TypeOK
    <3> QED
      BY <3>1, EntryType, BoundsAssumption DEF TypeOK
  <2>2. NextTimeout(m) =
          LET w == at - now
              clamped == IF w > IntMax THEN IntMax ELSE w
          IN  IF w <= 0 THEN 0
              ELSE IF m >= 0 /\ m <= clamped THEN m ELSE ToInt(clamped)
    BY <1>2 DEF NextTimeout
  <2> HIDE DEF at
  <2>3. /\ NextTimeout(m) \in 0..IntMax
        /\ m >= 0 => NextTimeout(m) \in 0..m
        /\ NextTimeout(m) > 0 => now + NextTimeout(m) <= at
    BY <2>1, <2>2, BoundsAssumption DEF ToInt
  <2> QED
    BY <1>2, <2>3, BoundsAssumption DEF at
<1> QED
  BY <1>1, <1>2

LEMMA PollStep ==
  ASSUME IInv, NEW m \in {-1, 0, IntMax}, Poll(m)
  PROVE  IInv'
<1>1. NextTimeout(m) \in -(IntMax + 1)..IntMax /\ m \in -(IntMax + 1)..IntMax
  BY NextTimeoutType, BoundsAssumption DEF IInv
<1> QED
  BY <1>1 DEF Poll, IInv, TypeOK, Phases, Phased, Passed

LEMMA EndSleepStep ==
  ASSUME IInv, EndSleep
  PROVE  IInv'
<1>1. /\ pc' = "loop" /\ cached' = now /\ valid' = TRUE /\ added' = {}
      /\ i' = IF time_cbs_ = << >> THEN End ELSE Head(time_cbs_).t
      /\ ms' = 0 /\ since' = 0 /\ wait' = 0 /\ UNCHANGED <<time_cbs_, now, calls>>
      /\ time_cbs_ \in Seq(Entry)
  BY DEF EndSleep, IInv, TypeOK
<1>2. Points(time_cbs_, 1, i') /\ i' \in Timer \cup {End}
  <2>1. CASE time_cbs_ = << >>
    BY <1>1, <2>1 DEF Points
  <2>2. CASE time_cbs_ # << >>
    <3>1. Head(time_cbs_) = time_cbs_[1] /\ 1 \in 1..Len(time_cbs_) /\ 1 # Len(time_cbs_) + 1
      BY <1>1, <2>2
    <3> QED
      BY <1>1, <2>2, <3>1, EntryType DEF Points
  <2> QED
    BY <2>1, <2>2
<1>3. Passed'
  <2>1. 1 \in 1..Len(time_cbs_) + 1
    BY <1>1
  <2> QED
    BY <1>1, <1>2, <2>1 DEF Passed, PassedBy
<1>4. TypeOK'
  BY <1>1, <1>2, BoundsAssumption DEF IInv, TypeOK, Phases
<1> QED
  BY <1>1, <1>3, <1>4 DEF IInv, Phased

LEMMA TickStep ==
  ASSUME IInv, Tick
  PROVE  IInv'
  BY BoundsAssumption DEF Tick, IInv, TypeOK, Phased, Passed

LEMMA RunCallbackStep ==
  ASSUME IInv, RunCallback
  PROVE  IInv'
  BY DEF RunCallback, Expired, IInv, TypeOK, Phases, Phased, Passed

LEMMA LeaveLoopStep ==
  ASSUME IInv, LeaveLoop
  PROVE  IInv'
  BY BoundsAssumption DEF LeaveLoop, Leave, IInv, TypeOK, Phases, Phased, Passed

\* The entry whose callback runs.
LEMMA Running ==
  ASSUME IInv, pc = "callback", valid
  PROVE  \E n \in 1..Len(time_cbs_) :
           /\ time_cbs_[n].t = i /\ Index(i) = n
           /\ \A k \in 1..n - 1 : time_cbs_[k].t \in added
           /\ Removed(Without(time_cbs_, i), time_cbs_, n)
           /\ Ordered(Without(time_cbs_, i)) /\ Once(Without(time_cbs_, i))
<1>1. /\ time_cbs_ \in Seq(Entry) /\ Ordered(time_cbs_) /\ Once(time_cbs_) /\ i # End
      /\ PassedBy(time_cbs_, i, added)
  BY DEF IInv, TypeOK, Phased, Passed
<1>2. PICK n \in 1..Len(time_cbs_) + 1 :
        Points(time_cbs_, n, i) /\ \A k \in 1..n - 1 : time_cbs_[k].t \in added
  BY <1>1 DEF PassedBy
<1>3. n \in 1..Len(time_cbs_) /\ time_cbs_[n].t = i
  BY <1>1, <1>2 DEF Points
<1>4. /\ Position(time_cbs_, i) = n /\ Removed(Without(time_cbs_, i), time_cbs_, n)
      /\ Ordered(Without(time_cbs_, i)) /\ Once(Without(time_cbs_, i))
  BY <1>1, <1>3, WithoutKeeps
<1> QED
  BY <1>2, <1>3, <1>4 DEF Index

LEMMA CallbackReturnsStep ==
  ASSUME IInv, CallbackReturns
  PROVE  IInv'
<1>1. /\ pc = "callback" /\ valid /\ i' = After(i) /\ time_cbs_' = Without(time_cbs_, i)
      /\ pc' = "loop" /\ UNCHANGED <<now, valid, cached, ms, since, wait, added, calls>>
      /\ time_cbs_ \in Seq(Entry)
  BY DEF CallbackReturns, IInv, TypeOK
<1>2. PICK n \in 1..Len(time_cbs_) :
        /\ time_cbs_[n].t = i /\ Index(i) = n
        /\ \A k \in 1..n - 1 : time_cbs_[k].t \in added
        /\ Removed(time_cbs_', time_cbs_, n)
        /\ Ordered(time_cbs_') /\ Once(time_cbs_')
  BY <1>1, Running
<1>3. i' = IF n = Len(time_cbs_) THEN End ELSE time_cbs_[n + 1].t
  BY <1>1, <1>2 DEF After
<1>4. i' \in Timer \cup {End}
  <2>1. n # Len(time_cbs_) => n + 1 \in 1..Len(time_cbs_)
    BY <1>1
  <2> QED
    BY <1>1, <1>3, <2>1, EntryType
<1>5. Passed'
  BY <1>1, <1>2, <1>3, AdvancePassed DEF Passed
<1>6. TypeOK'
  BY <1>1, <1>2, <1>4 DEF IInv, TypeOK, Phases, Removed
<1> QED
  BY <1>1, <1>2, <1>5, <1>6 DEF IInv, Phased

LEMMA CallbackThrowsStep ==
  ASSUME IInv, CallbackThrows
  PROVE  IInv'
<1>1. /\ pc = "callback" /\ valid /\ i' = End /\ time_cbs_' = Without(time_cbs_, i)
      /\ pc' = "user" /\ cached' = 0 /\ added' = {}
      /\ UNCHANGED <<now, valid, ms, since, wait, calls>>
  BY DEF CallbackThrows, Leave
<1>2. time_cbs_' \in Seq(Entry) /\ Ordered(time_cbs_') /\ Once(time_cbs_')
  BY <1>1, Running DEF Removed
<1> QED
  BY <1>1, <1>2, BoundsAssumption DEF IInv, TypeOK, Phases, Phased, Passed

LEMMA EraseTwiceStep ==
  ASSUME IInv, EraseTwice
  PROVE  IInv'
  BY DEF EraseTwice, IInv, TypeOK, Phases, Phased, Passed

LEMMA NextIInv == IInv /\ [Next]_vars => IInv'
<1> SUFFICES ASSUME IInv, [Next]_vars  PROVE IInv'
  OBVIOUS
<1>1. CASE UNCHANGED vars
  BY <1>1 DEF vars, IInv, TypeOK, Phased, Passed
<1>2. CASE User
  BY <1>2, TimeoutAtStep, TimeoutCancelStep, TimeoutRescheduleStep DEF User
<1>3. CASE Loop
  BY <1>3, PollStep, EndSleepStep, RunCallbackStep, LeaveLoopStep, CallbackReturnsStep,
     CallbackThrowsStep, EraseTwiceStep DEF Loop, WakeByTime
<1> QED
  BY <1>1, <1>2, <1>3, EndSleepStep, TickStep DEF Next, WakeByDescriptor

LEMMA InvariantHolds == Spec => []IInv
  BY InitIInv, NextIInv, PTL DEF Spec

----------------------------------------------------------------------------
(***************************************************************************)
(* ::poll is never told to sleep longer than poll's caller wants or than   *)
(* the first timeout allows, for clocks and ints of any size: the clamp of *)
(* next_timeout is enough (pollset.cc:209).                                *)
(***************************************************************************)
THEOREM SleepsNoLonger == Spec => []NeverOversleeps
<1>1. Init => NeverOversleeps
  BY DEF Init, NeverOversleeps
<1>2. IInv /\ NeverOversleeps /\ [Next]_vars => NeverOversleeps'
  <2> SUFFICES ASSUME IInv, NeverOversleeps, [Next]_vars, pc' = "sleep"
               PROVE  /\ ms' >= 0 => wait' \in 0..ms'
                      /\ time_cbs_' # << >> =>
                           wait' >= 0 /\ (wait' > 0 => since' + wait' <= Head(time_cbs_').at)
    BY DEF NeverOversleeps
  <2>1. CASE pc = "sleep" /\ UNCHANGED <<ms, wait, since, time_cbs_>>
    BY <2>1 DEF NeverOversleeps
  <2>2. ASSUME NEW m \in {-1, 0, IntMax}, Poll(m)
        PROVE  /\ ms' >= 0 => wait' \in 0..ms'
               /\ time_cbs_' # << >> =>
                    wait' >= 0 /\ (wait' > 0 => since' + wait' <= Head(time_cbs_').at)
    BY <2>2, NextTimeoutType DEF Poll, IInv
  <2>3. \/ pc = "sleep" /\ UNCHANGED <<ms, wait, since, time_cbs_>>
        \/ \E m \in {-1, 0, IntMax} : Poll(m)
    BY DEF Next, vars, User, Loop, TimeoutAt, TimeoutCancel, TimeoutReschedule, UserCode,
           WakeByTime, WakeByDescriptor, EndSleep, Tick, RunCallback, LeaveLoop, Leave,
           CallbackReturns, CallbackThrows, EraseTwice
  <2> QED
    BY <2>1, <2>2, <2>3
<1> QED
  BY <1>1, <1>2, InvariantHolds, PTL DEF Spec

(***************************************************************************)
(* Timeouts run in the order of their times (pollset.cc:267), whatever     *)
(* callbacks add, cancel and reschedule, and wherever the multimap puts it. *)
(***************************************************************************)
THEOREM InOrder == Spec => []RunsInOrder
<1>1. IInv => RunsInOrder
  <2> SUFFICES ASSUME IInv, pc = "callback", valid, NEW k \in DOMAIN time_cbs_,
                      time_cbs_[k].at < At(i)
               PROVE  time_cbs_[k].t \in added
    BY DEF RunsInOrder, IInv
  <2>1. PICK n \in 1..Len(time_cbs_) :
          Index(i) = n /\ \A j \in 1..n - 1 : time_cbs_[j].t \in added
    BY Running
  <2>2. /\ k \in 1..Len(time_cbs_) /\ time_cbs_[k].at < time_cbs_[n].at
        /\ time_cbs_[k].at \in Nat /\ time_cbs_[n].at \in Nat
    BY <2>1, EntryType DEF At, IInv, TypeOK
  <2>3. ~(n < k) /\ n # k
    BY <2>2 DEF IInv, Ordered
  <2> QED
    BY <2>1, <2>2, <2>3
<1> QED
  BY <1>1, InvariantHolds, PTL

(***************************************************************************)
(* run_timeouts ends only when all that had expired when it read the clock *)
(* has run, except what was inserted since (pollset.cc:267).               *)
(***************************************************************************)
THEOREM AllExpiredRun == Spec => ExpiredAllRun
<1>1. IInv /\ [Next]_vars => [LeaveLoop => \A k \in DOMAIN time_cbs_ :
        time_cbs_[k].at <= cached => time_cbs_[k].t \in added]_vars
  <2> SUFFICES ASSUME IInv, LeaveLoop, NEW k \in DOMAIN time_cbs_, time_cbs_[k].at <= cached
               PROVE  time_cbs_[k].t \in added
    OBVIOUS
  <2>1. /\ pc = "loop" /\ ~Expired /\ valid /\ cached \in 0..MaxTime
        /\ time_cbs_ \in Seq(Entry) /\ Ordered(time_cbs_) /\ Once(time_cbs_)
        /\ PassedBy(time_cbs_, i, added)
    BY DEF LeaveLoop, IInv, TypeOK, Phased, Passed
  <2>2. PICK n \in 1..Len(time_cbs_) + 1 :
          Points(time_cbs_, n, i) /\ \A j \in 1..n - 1 : time_cbs_[j].t \in added
    BY <2>1 DEF PassedBy
  <2>3. k \in 1..Len(time_cbs_) /\ time_cbs_[k].at \in Nat
    BY <2>1, EntryType
  <2>4. CASE n = Len(time_cbs_) + 1
    BY <2>1, <2>2, <2>3, <2>4
  <2>5. CASE n \in 1..Len(time_cbs_)
    <3>1. time_cbs_[n].t = i /\ i # End /\ time_cbs_[n].at \in Nat
      <4>1. time_cbs_[n].t = i /\ time_cbs_[n].t \in Timer /\ time_cbs_[n].at \in Nat
        BY <2>1, <2>2, <2>5, EntryType DEF Points
      <4> QED
        BY <4>1, BoundsAssumption
    <3>2. Index(i) = n
      BY <2>1, <2>5, <3>1, WithoutKeeps DEF Index
    <3>3. ~(cached >= time_cbs_[n].at)
      BY <2>1, <3>1, <3>2 DEF Expired, At
    <3>4. ~(n < k) /\ n # k
      BY <2>1, <2>3, <2>5, <3>1, <3>3, BoundsAssumption DEF Ordered
    <3> QED
      BY <2>2, <2>3, <2>5, <3>4
  <2> QED
    BY <2>2, <2>4, <2>5
<1> QED
  BY <1>1, InvariantHolds, PTL DEF Spec, ExpiredAllRun

----------------------------------------------------------------------------
(***************************************************************************)
(* Injected callbacks.                                                     *)
(***************************************************************************)
\* A callback is in one place, and once.
OnePlace ==
  /\ IsInjective(cbs) /\ IsInjective(async_cbs_)
  /\ Range(cbs) \cap Range(async_cbs_) = {}
  /\ ready \cap (Range(cbs) \cup Range(async_cbs_) \cup ran \cup lost) = {}
  /\ (ran \cup lost) \cap (Range(cbs) \cup Range(async_cbs_)) = {}
  /\ ran \cap lost = {}

\* run_pending_asyncs holds callbacks only while it calls them.
CbsEmpty == phase \in {"run", "poll", "drain", "take", "others", "returned"} => cbs = <<>>

\* async_pending_ stands for a byte that is in the pipe, will be there when the
\* lock is released, or was read by a main thread that has still to take.
Woken ==
  /\ async_cbs_ # <<>> => async_pending_
  /\ async_pending_ => \/ Bytes(pipe) # 0
                       \/ lock # Free
                       \/ phase \in {"drain", "take", "crashed"}

QueueInv == QueueTypeOK /\ OnePlace /\ CbsEmpty /\ Woken /\ NasyncCounts

----------------------------------------------------------------------------
(***************************************************************************)
(* Lemmas about the pipe and about sequences without repetitions.          *)
(***************************************************************************)

\* wake leaves a pipe with at least one byte in it, even if it was full.
LEMMA WriteFacts ==
  ASSUME NEW p \in Pipe, NEW wt \in {"Normal", "Signal"}, NEW n \in Nat \ {0}
  PROVE  /\ Write(p, wt, n) \in Pipe
         /\ Bytes(Write(p, wt, n)) # 0
BY DEF Write, Bytes, Pipe

\* Append adds its element to the range and keeps the elements distinct.
LEMMA AppendFacts ==
  ASSUME NEW S, NEW s \in Seq(S), NEW e \in S
  PROVE  /\ Append(s, e) \in Seq(S)
         /\ Append(s, e) # <<>>
         /\ Range(Append(s, e)) = Range(s) \cup {e}
         /\ IsInjective(s) /\ e \notin Range(s) => IsInjective(Append(s, e))
<1>1. Append(s, e) \in Seq(S) /\ Append(s, e) # <<>>
  BY AppendProperties
<1>2. Range(Append(s, e)) = Range(s) \cup {e}
  BY <1>1, AppendProperties, LenProperties DEF Range
<1>3. ASSUME IsInjective(s), e \notin Range(s)
      PROVE  IsInjective(Append(s, e))
  <2>1. /\ DOMAIN Append(s, e) = 1..Len(s)+1 /\ DOMAIN s = 1..Len(s)
        /\ Len(s) \in Nat
    BY <1>1, AppendProperties, LenProperties
  <2>2. \A k \in 1..Len(s) : Append(s, e)[k] = s[k] /\ s[k] # e
    BY <1>3, <2>1, AppendProperties DEF Range
  <2>3. Append(s, e)[Len(s)+1] = e
    BY AppendProperties
  <2>4. \A k, j \in 1..Len(s) : s[k] = s[j] => k = j
    BY <1>3, <2>1 DEF IsInjective
  <2>5. \A k, j \in 1..Len(s)+1 : Append(s, e)[k] = Append(s, e)[j] => k = j
    BY <2>1, <2>2, <2>3, <2>4
  <2>. QED BY <2>1, <2>5 DEF IsInjective
<1>. QED BY <1>1, <1>2, <1>3

\* Tail takes Head(s) out of the range if the elements are distinct.
LEMMA TailFacts ==
  ASSUME NEW S, NEW s \in Seq(S), s # <<>>, IsInjective(s)
  PROVE  /\ Head(s) \in S /\ Head(s) \in Range(s)
         /\ Tail(s) \in Seq(S)
         /\ Range(Tail(s)) = Range(s) \ {Head(s)}
         /\ IsInjective(Tail(s))
<1>1. /\ Head(s) \in S /\ Tail(s) \in Seq(S)
      /\ Len(s) \in Nat \ {0} /\ Len(Tail(s)) = Len(s) - 1
      /\ DOMAIN s = 1..Len(s) /\ DOMAIN Tail(s) = 1..Len(s)-1
      /\ \A k \in 1..Len(s)-1 : Tail(s)[k] = s[k+1]
  BY HeadTailProperties, LenProperties, EmptySeq
<1>2. Head(s) = s[1]
  BY <1>1
<1>3. \A k, j \in 1..Len(s) : s[k] = s[j] => k = j
  BY <1>1 DEF IsInjective
<1>4. Range(Tail(s)) = Range(s) \ {Head(s)}
  <2>1. ASSUME NEW x \in Range(Tail(s)) PROVE x \in Range(s) \ {Head(s)}
    <3>1. PICK k \in 1..Len(s)-1 : x = s[k+1]
      BY <1>1, <2>1 DEF Range
    <3>2. k+1 \in 1..Len(s) /\ k+1 # 1 /\ 1 \in 1..Len(s)
      BY <1>1
    <3>. QED BY <1>1, <1>2, <1>3, <3>1, <3>2 DEF Range
  <2>2. ASSUME NEW x \in Range(s) \ {Head(s)} PROVE x \in Range(Tail(s))
    <3>1. PICK k \in 1..Len(s) : x = s[k]
      BY <1>1, <2>2 DEF Range
    <3>2. k - 1 \in 1..Len(s)-1 /\ (k - 1) + 1 = k
      BY <1>1, <1>2, <3>1
    <3>3. Tail(s)[k - 1] = x
      BY <1>1, <3>1, <3>2
    <3>. QED BY <1>1, <3>2, <3>3 DEF Range
  <2>. QED BY <2>1, <2>2
<1>5. IsInjective(Tail(s))
  <2>1. ASSUME NEW k \in 1..Len(s)-1, NEW j \in 1..Len(s)-1, Tail(s)[k] = Tail(s)[j]
        PROVE  k = j
    <3>1. k+1 \in 1..Len(s) /\ j+1 \in 1..Len(s) /\ s[k+1] = s[j+1]
      BY <1>1, <2>1
    <3>. QED BY <1>1, <1>3, <3>1
  <2>. QED BY <1>1, <2>1 DEF IsInjective
<1>6. Head(s) \in Range(s)
  BY <1>1, <1>2 DEF Range
<1>. QED BY <1>1, <1>4, <1>5, <1>6

\* The empty sequence.
LEMMA EmptyFacts == Range(<<>>) = {} /\ IsInjective(<<>>)
BY DEF Range, IsInjective

----------------------------------------------------------------------------
(***************************************************************************)
(* The inductive invariant.                                                *)
(***************************************************************************)

\* Adding or removing one task changes the count by one.
LEMMA CountFacts ==
  /\ IsFiniteSet(Task)
  /\ \A S \in SUBSET Task : IsFiniteSet(S) /\ Cardinality(S) \in Nat
  /\ \A S \in SUBSET Task, c \in Task :
       /\ c \notin S => Cardinality(S \cup {c}) = Cardinality(S) + 1
       /\ c \in S => Cardinality(S \ {c}) = Cardinality(S) - 1
<1>1. IsFiniteSet(Task)
  BY CbAssumption
<1>2. \A S \in SUBSET Task : IsFiniteSet(S) /\ Cardinality(S) \in Nat
  BY <1>1, FS_Subset, FS_CardinalityType
<1>3. \A S \in SUBSET Task, c \in Task :
        /\ c \notin S => Cardinality(S \cup {c}) = Cardinality(S) + 1
        /\ c \in S => Cardinality(S \ {c}) = Cardinality(S) - 1
  BY <1>2, FS_AddElement, FS_RemoveElement
<1>. QED BY <1>1, <1>2, <1>3

\* Nothing waits and no task is out when the pollset is made.
LEMMA InitInv == QueueInit => QueueInv
<1> SUFFICES ASSUME QueueInit PROVE QueueInv
  OBVIOUS
<1>1. QueueTypeOK
  <2>1. EmptyPipe \in Pipe /\ <<>> \in Seq(Cb)
    BY EmptySeq DEF Pipe, EmptyPipe
  <2>2. Cb \ Task \in SUBSET Cb /\ MaxOther \in 0..MaxOther
    BY CbAssumption
  <2>. QED BY <2>1, <2>2 DEF QueueInit, QueueTypeOK, QueuePhases
<1>2. OnePlace /\ CbsEmpty /\ Woken
  BY EmptyFacts DEF QueueInit, OnePlace, CbsEmpty, Woken
<1>3. NasyncCounts
  <2>1. Outstanding = {}
    BY EmptyFacts DEF QueueInit, Outstanding
  <2>. QED BY <2>1, FS_EmptySet DEF QueueInit, NasyncCounts
<1>. QED BY <1>1, <1>2, <1>3 DEF QueueInv

\* inject_cb: the callback goes from ready to the end of async_cbs_.
LEMMA InjectInv ==
  ASSUME QueueInv, NEW t \in Thread, NEW c \in Cb, Inject(t, c) PROVE QueueInv'
<1>1. /\ async_cbs_' \in Seq(Cb) /\ async_cbs_' # <<>>
      /\ Range(async_cbs_') = Range(async_cbs_) \cup {c}
      /\ IsInjective(async_cbs_')
  <2>1. async_cbs_ \in Seq(Cb) /\ IsInjective(async_cbs_) /\ c \notin Range(async_cbs_)
    BY DEF QueueInv, QueueTypeOK, OnePlace, Inject
  <2>2. async_cbs_' = Append(async_cbs_, c)
    BY DEF Inject
  <2>. HIDE DEF QueueInv, Inject
  <2>. QED BY <2>1, <2>2, AppendFacts
<1>2. QueueTypeOK'
  BY <1>1, CbAssumption DEF QueueInv, QueueTypeOK, Inject
<1>3. OnePlace'
  BY <1>1 DEF QueueInv, OnePlace, Inject
<1>4. CbsEmpty' /\ Woken'
  BY CbAssumption DEF QueueInv, CbsEmpty, Woken, Inject
<1>5. NasyncCounts'
  <2>1. Outstanding' = Outstanding
    BY <1>1 DEF Outstanding, Inject
  <2>. QED BY <2>1 DEF QueueInv, NasyncCounts, Inject
<1>. QED BY <1>2, <1>3, <1>4, <1>5 DEF QueueInv

\* The bytes that other threads and signal handlers write.
LEMMA WriteInv ==
  ASSUME QueueInv, \/ \E t \in Thread : Wake(t)
               \/ \E wt \in {"Normal", "Signal"} : OtherByte(wt)
  PROVE  QueueInv'
<1>1. /\ pipe' \in Pipe /\ Bytes(pipe') # 0
      /\ lock' \in Thread \cup {Free}
      /\ others' \in 0..MaxOther
      /\ UNCHANGED <<async_cbs_, async_pending_, nasync_, signal_pending_, phase, cbs, ready,
                     ran, lost>>
  <2>0. pipe \in Pipe /\ others \in 0..MaxOther /\ lock \in Thread \cup {Free}
    BY DEF QueueInv, QueueTypeOK
  <2>1. CASE \E t \in Thread : Wake(t)
    BY <2>0, <2>1, WriteFacts, CbAssumption DEF Wake
  <2>2. CASE \E wt \in {"Normal", "Signal"} : OtherByte(wt)
    BY <2>0, <2>2, WriteFacts, CbAssumption DEF OtherByte
  <2>. QED BY <2>1, <2>2
<1>2. QueueTypeOK'
  BY <1>1 DEF QueueInv, QueueTypeOK
<1>3. OnePlace' /\ CbsEmpty' /\ Woken'
  BY <1>1 DEF QueueInv, OnePlace, CbsEmpty, Woken
<1>4. NasyncCounts'
  BY <1>1 DEF QueueInv, NasyncCounts, Outstanding
<1>. QED BY <1>2, <1>3, <1>4 DEF QueueInv

\* async: one task more is outstanding.
LEMMA AsyncInv ==
  ASSUME QueueInv, NEW c \in Task, Async(c) PROVE QueueInv'
<1>1. Range(async_cbs_ \o cbs) = Range(async_cbs_) \cup Range(cbs)
  BY RangeConcatenation DEF QueueInv, QueueTypeOK
<1>2. c \in Cb /\ c \notin ready \cup ran \cup lost \cup Range(async_cbs_) \cup Range(cbs)
  BY <1>1, CbAssumption DEF Async
<1>3. QueueTypeOK'
  BY <1>2 DEF QueueInv, QueueTypeOK, Async
<1>4. OnePlace' /\ CbsEmpty' /\ Woken'
  BY <1>2 DEF QueueInv, OnePlace, CbsEmpty, Woken, Async
<1>5. NasyncCounts'
  <2>1. Outstanding' = Outstanding \cup {c} /\ c \notin Outstanding
        /\ Outstanding \in SUBSET Task
    BY <1>2 DEF Outstanding, Async
  <2>2. Cardinality(Outstanding') = Cardinality(Outstanding) + 1
    BY <2>1, CountFacts
  <2>. QED BY <2>2 DEF QueueInv, NasyncCounts, Async
<1>. QED BY <1>3, <1>4, <1>5 DEF QueueInv

\* Steps of the main thread that move neither callbacks nor async_pending_.
LEMMA MoveInv ==
  ASSUME QueueInv, Run \/ PollReturns \/ Drain \/ Drained \/ AllCalled \/ PollEnds
               \/ ReinjectNothing \/ ReinjectCrashes
  PROVE  QueueInv'
<1>1. UNCHANGED <<async_cbs_, async_pending_, nasync_, lock, cbs, ready, others, ran, lost>>
  BY DEF Run, PollReturns, Drain, Drained, AllCalled, PollEnds, ReinjectNothing,
         ReinjectCrashes
<1>2. QueueTypeOK'
  <2>1. phase' \in QueuePhases /\ signal_pending_' \in BOOLEAN
    BY DEF QueueInv, QueueTypeOK, QueuePhases, Run, PollReturns, Drain, Drained, AllCalled, PollEnds,
           ReinjectNothing, ReinjectCrashes
  <2>2. pipe' \in Pipe
    BY DEF QueueInv, QueueTypeOK, Pipe, EmptyPipe, Run, PollReturns, Drain, Drained, AllCalled,
           PollEnds, ReinjectNothing, ReinjectCrashes
  <2>. QED BY <1>1, <2>1, <2>2 DEF QueueInv, QueueTypeOK
<1>3. OnePlace' /\ NasyncCounts'
  BY <1>1 DEF QueueInv, OnePlace, NasyncCounts, Outstanding
<1>4. CbsEmpty' /\ Woken'
  BY <1>1 DEF QueueInv, CbsEmpty, Woken, Run, PollReturns, Drain, Drained, AllCalled, PollEnds,
              ReinjectNothing, ReinjectCrashes
<1>. QED BY <1>2, <1>3, <1>4 DEF QueueInv

\* The swap under the lock.
LEMMA TakeInv ==
  ASSUME QueueInv, Take PROVE QueueInv'
<1>1. cbs = <<>> /\ cbs' = async_cbs_ /\ async_cbs_' = <<>>
  BY DEF QueueInv, CbsEmpty, Take
<1>2. QueueTypeOK'
  BY <1>1, EmptySeq DEF QueueInv, QueueTypeOK, QueuePhases, Take
<1>3. OnePlace'
  BY <1>1, EmptyFacts DEF QueueInv, OnePlace, Take
<1>4. CbsEmpty' /\ Woken'
  BY DEF QueueInv, CbsEmpty, Woken, Take
<1>5. NasyncCounts'
  BY <1>1, EmptyFacts DEF QueueInv, NasyncCounts, Outstanding, Take
<1>. QED BY <1>2, <1>3, <1>4, <1>5 DEF QueueInv

\* A callback runs, and returns or throws.
LEMMA CallInv ==
  ASSUME QueueInv, Call \/ CallThrows PROVE QueueInv'
<1>0. /\ cbs # <<>> /\ Called /\ phase' \in {"call", "reinject"} /\ phase = "call"
      /\ UNCHANGED <<async_cbs_, async_pending_, pipe, signal_pending_, lock, ready, others,
                     lost>>
  BY DEF Call, CallThrows
<1>1. /\ Head(cbs) \in Cb /\ Head(cbs) \in Range(cbs)
      /\ cbs' \in Seq(Cb) /\ Range(cbs') = Range(cbs) \ {Head(cbs)}
      /\ IsInjective(cbs')
  <2>1. cbs \in Seq(Cb) /\ IsInjective(cbs)
    BY DEF QueueInv, QueueTypeOK, OnePlace
  <2>2. cbs' = Tail(cbs)
    BY <1>0 DEF Called
  <2>. QED BY <1>0, <2>1, <2>2, TailFacts
<1>2. Outstanding \in SUBSET Task /\ Cardinality(Outstanding) \in Nat
  BY CountFacts DEF Outstanding
<1>3. NasyncCounts' /\ nasync_' \in Nat
  <2>0. /\ Outstanding' = Outstanding \ {Head(cbs)}
        /\ Head(cbs) \in Task => Head(cbs) \in Outstanding
        /\ Head(cbs) \notin Task => Outstanding' = Outstanding
    BY <1>0, <1>1 DEF QueueInv, OnePlace, Outstanding
  <2>1. CASE Head(cbs) \in Task
    <3>1. Cardinality(Outstanding') = Cardinality(Outstanding) - 1
      BY <1>2, <2>0, <2>1, CountFacts
    <3>2. Cardinality(Outstanding') \in Nat
      BY <1>2, <2>0, CountFacts
    <3>. QED BY <1>0, <2>1, <3>1, <3>2 DEF QueueInv, NasyncCounts, Called
  <2>2. CASE Head(cbs) \notin Task
    BY <1>0, <1>2, <2>0, <2>2 DEF QueueInv, NasyncCounts, Called
  <2>. QED BY <2>1, <2>2
<1>4. QueueTypeOK'
  BY <1>0, <1>1, <1>3 DEF QueueInv, QueueTypeOK, QueuePhases, Called
<1>5. OnePlace'
  BY <1>0, <1>1 DEF QueueInv, OnePlace, Called
<1>6. CbsEmpty' /\ Woken'
  BY <1>0 DEF QueueInv, CbsEmpty, Woken
<1>. QED BY <1>3, <1>4, <1>5, <1>6 DEF QueueInv

\* The cleanup that drops the rest of the batch.
LEMMA ReinjectInv ==
  ASSUME QueueInv, ReinjectLoses PROVE QueueInv'
<1>1. /\ pipe' \in Pipe /\ Bytes(pipe') # 0
  <2>1. pipe \in Pipe /\ (async_pending_ => Bytes(pipe) # 0)
    BY DEF QueueInv, QueueTypeOK, Woken, ReinjectLoses
  <2>. QED BY <2>1, WriteFacts, CbAssumption DEF ReinjectLoses
<1>2. QueueTypeOK'
  <2>1. Range(cbs) \in SUBSET Cb
    BY RangeOfSeq DEF QueueInv, QueueTypeOK
  <2>. QED BY <1>1, <2>1, EmptySeq DEF QueueInv, QueueTypeOK, QueuePhases, ReinjectLoses
<1>3. OnePlace'
  BY EmptyFacts DEF QueueInv, OnePlace, ReinjectLoses
<1>4. CbsEmpty' /\ Woken'
  BY <1>1 DEF QueueInv, CbsEmpty, Woken, ReinjectLoses
<1>5. NasyncCounts'
  <2>1. Outstanding' = Outstanding
    BY EmptyFacts DEF Outstanding, ReinjectLoses
  <2>. QED BY <2>1 DEF QueueInv, NasyncCounts, ReinjectLoses
<1>. QED BY <1>2, <1>3, <1>4, <1>5 DEF QueueInv

\* Every step keeps the invariant.
LEMMA NextInv == QueueInv /\ [QueueNext]_queuevars => QueueInv'
<1> SUFFICES ASSUME QueueInv, [QueueNext]_queuevars PROVE QueueInv'
  OBVIOUS
<1>1. CASE UNCHANGED queuevars
  BY <1>1 DEF queuevars, QueueInv, QueueTypeOK, OnePlace, CbsEmpty, Woken, NasyncCounts, Outstanding
<1>2. CASE Others
  BY <1>2, InjectInv, WriteInv DEF Others
<1>3. CASE Main
  BY <1>3, MoveInv, TakeInv, CallInv, ReinjectInv DEF Main
<1>4. CASE \E c \in Task : Async(c)
  BY <1>4, AsyncInv
<1>. QED BY <1>1, <1>2, <1>3, <1>4 DEF QueueNext

\* The invariant holds in every reachable state.
THEOREM QueueInvariant == QueueSpec => []QueueInv
BY InitInv, NextInv, PTL DEF QueueSpec

\* The variables of the queue keep their types; the count of tasks never goes
\* below zero.
THEOREM QueueTypes == QueueSpec => []QueueTypeOK
<1>1. QueueInv => QueueTypeOK
  BY DEF QueueInv
<1>. QED BY <1>1, QueueInvariant, PTL

\* run_pending_asyncs and inject_cb lose no wake-up.
THEOREM NoLostWakeupCorrect == QueueSpec => []NoLostWakeup
<1>1. QueueInv => NoLostWakeup
  BY DEF QueueInv, Woken, NoLostWakeup
<1>. QED BY <1>1, QueueInvariant, PTL

\* pending() sees every task that async() started and that is not done.
THEOREM NasyncCountsCorrect == QueueSpec => []NasyncCounts
<1>1. QueueInv => NasyncCounts
  BY DEF QueueInv
<1>. QED BY <1>1, QueueInvariant, PTL

----------------------------------------------------------------------------
(***************************************************************************)
(* Refinement: every step is a step of Inbox or leaves it alone.           *)
(***************************************************************************)

\* Inbox has its own copy of Range.
LEMMA SameRange == \A s : AbstractInbox!Range(s) = Range(s)
BY DEF Range, AbstractInbox!Range

\* In the initial state nothing was injected.
LEMMA InitRefines == QueueInit => AbstractInbox!Init
<1> SUFFICES ASSUME QueueInit PROVE AbstractInbox!Init
  OBVIOUS
<1>1. ~Doomed /\ cbs = <<>> /\ async_cbs_ = <<>> /\ ran = {} /\ lost = {}
  BY DEF QueueInit, Doomed
<1>2. <<>> \o <<>> = <<>> /\ Len(<<>>) = 0
  BY ConcatEmptySeq, EmptySeq
<1>. QED BY <1>1, <1>2 DEF AbstractInbox!Init

\* inject_cb appends to what waits.
LEMMA InjectRefines ==
  ASSUME QueueInv, NEW t \in Thread, NEW c \in Cb, Inject(t, c)
  PROVE  AbstractInbox!Inject(c)
<1>1. /\ async_cbs_ \in Seq(Cb) /\ cbs \in Seq(Cb)
      /\ async_cbs_' = Append(async_cbs_, c) /\ cbs' = cbs
      /\ Doomed' = Doomed /\ ran' = ran /\ lost' = lost
  BY DEF QueueInv, QueueTypeOK, Inject, Doomed
<1>2. c \notin ran \cup lost \cup Range(cbs) \cup Range(async_cbs_)
  BY DEF QueueInv, OnePlace, Inject
<1>3. Range(cbs \o async_cbs_) = Range(cbs) \cup Range(async_cbs_)
  BY <1>1, RangeConcatenation
<1>4. cbs \o Append(async_cbs_, c) = Append(cbs \o async_cbs_, c)
  <2>1. /\ Append(async_cbs_, c) = async_cbs_ \o <<c>>
        /\ cbs \o async_cbs_ \in Seq(Cb)
        /\ <<c>> \in Seq(Cb)
    BY <1>1, AppendIsConcat, ConcatProperties
  <2>2. Append(cbs \o async_cbs_, c) = (cbs \o async_cbs_) \o <<c>>
    BY <2>1, AppendIsConcat
  <2>. QED BY <1>1, <2>1, <2>2, ConcatAssociative
<1>. QED BY <1>1, <1>2, <1>3, <1>4, SameRange DEF AbstractInbox!Inject

\* The swap takes all that waits as one batch.
LEMMA TakeRefines == ASSUME QueueInv, Take PROVE AbstractInbox!Take
<1>1. /\ async_cbs_ \in Seq(Cb) /\ cbs = <<>>
      /\ async_cbs_' = <<>> /\ cbs' = async_cbs_
      /\ ~Doomed /\ ~Doomed' /\ ran' = ran /\ lost' = lost
  BY DEF QueueInv, QueueTypeOK, CbsEmpty, Take, Doomed
<1>2. /\ <<>> \o async_cbs_ = async_cbs_ /\ async_cbs_ \o <<>> = async_cbs_
      /\ Len(<<>>) = 0
  BY <1>1, ConcatEmptySeq, EmptySeq
<1>. QED BY <1>1, <1>2 DEF AbstractInbox!Take

\* A callback that returns was the first of those that wait.
LEMMA CallRefines == ASSUME QueueInv, Call PROVE AbstractInbox!Run
<1>1. /\ async_cbs_ \in Seq(Cb) /\ cbs \in Seq(Cb) /\ cbs # <<>>
      /\ async_cbs_' = async_cbs_ /\ cbs' = Tail(cbs)
      /\ ~Doomed /\ ~Doomed' /\ ran' = ran \cup {Head(cbs)} /\ lost' = lost
  BY DEF QueueInv, QueueTypeOK, Call, Called, Doomed
<1>2. Len(cbs) \in Nat \ {0} /\ Len(Tail(cbs)) = Len(cbs) - 1 /\ Tail(cbs) \in Seq(Cb)
  BY <1>1, EmptySeq, HeadTailProperties
<1>3. /\ Head(cbs \o async_cbs_) = Head(cbs)
      /\ Tail(cbs \o async_cbs_) = Tail(cbs) \o async_cbs_
  BY <1>1, <1>2
<1>. QED BY <1>1, <1>2, <1>3 DEF AbstractInbox!Run

\* One that throws takes the rest of its batch with it, and nothing else.
LEMMA CallThrowsRefines == ASSUME QueueInv, CallThrows PROVE AbstractInbox!Throw
<1>1. /\ async_cbs_ \in Seq(Cb) /\ cbs \in Seq(Cb) /\ cbs # <<>> /\ IsInjective(cbs)
      /\ async_cbs_' = async_cbs_ /\ cbs' = Tail(cbs)
      /\ ~Doomed /\ Doomed' /\ ran' = ran \cup {Head(cbs)} /\ lost' = lost
  BY DEF QueueInv, QueueTypeOK, OnePlace, CallThrows, Called, Doomed
<1>2. /\ Len(cbs) \in Nat \ {0} /\ Len(async_cbs_) \in Nat
      /\ cbs \o async_cbs_ \in Seq(Cb)
      /\ Len(cbs \o async_cbs_) = Len(cbs) + Len(async_cbs_)
      /\ \A k \in 1..Len(cbs) + Len(async_cbs_) : (cbs \o async_cbs_)[k] =
             IF k <= Len(cbs) THEN cbs[k] ELSE async_cbs_[k - Len(cbs)]
  BY <1>1, EmptySeq, LenProperties, ConcatProperties
<1>3. SubSeq(cbs \o async_cbs_, Len(cbs) + 1, Len(cbs \o async_cbs_)) = async_cbs_
  BY <1>1, <1>2
<1>4. SubSeq(cbs \o async_cbs_, 1, Len(cbs)) = cbs
  BY <1>1, <1>2
<1>5. Range(cbs) = {Head(cbs)} \cup Range(Tail(cbs))
  BY <1>1, TailFacts
<1>6. /\ (IF Doomed THEN async_cbs_ ELSE cbs \o async_cbs_) = cbs \o async_cbs_
      /\ (IF Doomed THEN 0 ELSE Len(cbs)) = Len(cbs)
      /\ (ran \cup lost \cup IF Doomed THEN Range(cbs) ELSE {}) = ran \cup lost
      /\ (IF Doomed THEN async_cbs_ ELSE cbs \o async_cbs_)' = async_cbs_
      /\ (IF Doomed THEN 0 ELSE Len(cbs))' = 0
      /\ (ran \cup lost \cup IF Doomed THEN Range(cbs) ELSE {})'
           = ran \cup lost \cup Range(cbs)
  BY <1>1, <1>5
<1>7. AbstractInbox!Range(SubSeq(cbs \o async_cbs_, 1, Len(cbs))) = Range(cbs)
  BY <1>4, SameRange
<1>8. Len(cbs) > 0
  BY <1>2
<1>. QED BY ONLY <1>3, <1>6, <1>7, <1>8 DEF AbstractInbox!Throw

\* The other steps move no callback.
LEMMA MoveRefines ==
  ASSUME QueueInv, UNCHANGED <<async_cbs_, cbs, ran, lost>>, Doomed' = Doomed
  PROVE  UNCHANGED AbstractInbox!vars
BY DEF AbstractInbox!vars

\* Dropping the rest of the batch changes nothing more: those callbacks were over
\* when the exception was thrown.
LEMMA ReinjectRefines ==
  ASSUME QueueInv, ReinjectLoses \/ ReinjectNothing
  PROVE  UNCHANGED AbstractInbox!vars
<1>1. /\ async_cbs_ \in Seq(Cb) /\ cbs' = <<>> /\ async_cbs_' = async_cbs_
      /\ Doomed /\ ~Doomed' /\ ran' = ran /\ lost' = lost \cup Range(cbs)
  BY EmptyFacts DEF QueueInv, QueueTypeOK, ReinjectLoses, ReinjectNothing, Doomed
<1>2. <<>> \o async_cbs_ = async_cbs_ /\ Len(<<>>) = 0
  BY <1>1, ConcatEmptySeq, EmptySeq
<1>. QED BY <1>1, <1>2 DEF AbstractInbox!vars

\* The queue of injected callbacks implements Inbox.
THEOREM InOrderOnceCorrect == QueueSpec => InOrderOnce
<1>1. ASSUME QueueInv, [QueueNext]_queuevars PROVE AbstractInbox!Next \/ UNCHANGED AbstractInbox!vars
  <2>1. CASE UNCHANGED queuevars
    BY <1>1, <2>1, MoveRefines DEF queuevars, Doomed
  <2>2. CASE Others
    <3>1. CASE \E t \in Thread, c \in Cb : Inject(t, c)
      BY <1>1, <3>1, InjectRefines DEF AbstractInbox!Next
    <3>2. CASE (\E t \in Thread : Wake(t)) \/ \E wt \in {"Normal", "Signal"} : OtherByte(wt)
      BY <1>1, <3>2, MoveRefines DEF Wake, OtherByte, Doomed
    <3>. QED BY <2>2, <3>1, <3>2 DEF Others
  <2>3. CASE Main
    <3>1. CASE Run \/ PollReturns \/ Drain \/ Drained \/ AllCalled \/ PollEnds
               \/ ReinjectCrashes
      BY <1>1, <3>1, MoveRefines DEF Run, PollReturns, Drain, Drained, AllCalled, PollEnds,
           ReinjectCrashes, Doomed
    <3>2. CASE Take
      BY <1>1, <3>2, TakeRefines DEF AbstractInbox!Next
    <3>3. CASE Call
      BY <1>1, <3>3, CallRefines DEF AbstractInbox!Next
    <3>4. CASE CallThrows
      BY <1>1, <3>4, CallThrowsRefines DEF AbstractInbox!Next
    <3>5. CASE ReinjectLoses \/ ReinjectNothing
      BY <1>1, <3>5, ReinjectRefines
    <3>. QED BY <2>3, <3>1, <3>2, <3>3, <3>4, <3>5 DEF Main
  <2>4. CASE \E c \in Task : Async(c)
    BY <1>1, <2>4, MoveRefines DEF Async, Doomed
  <2>. QED BY <1>1, <2>1, <2>2, <2>3, <2>4 DEF QueueNext
<1>. QED BY <1>1, InitRefines, QueueInvariant, PTL DEF QueueSpec, InOrderOnce, AbstractInbox!Spec
=============================================================================
