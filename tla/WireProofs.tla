----------------------------- MODULE WireProofs -----------------------------
(***************************************************************************)
(* What goes over the network.                                             *)
(*                                                                         *)
(* Messages, for any messages, buffers and limits: a msg_sock's bytes stay *)
(* in order and none is lost, so messages arrive whole, in order and once; *)
(* and it is not touched after it was destroyed.                           *)
(*                                                                         *)
(* Registrations, for every number of programs, keys, addresses and        *)
(* failures: rpcbind's table and the programs' notes agree, only races     *)
(* make a registration fail, and a search that ends in vain missed no      *)
(* reachable server.                                                       *)
(***************************************************************************)
EXTENDS MsgSock, Rpcbind, SequenceTheorems, WellFoundedInduction, TLAPS

----------------------------------------------------------------------------
(***************************************************************************)
(* Induction over the naturals and over sequences, with a set in the place *)
(* of the predicate.                                                       *)
(***************************************************************************)
LEMMA EveryNat ==
  ASSUME NEW T, 0 \in T, \A n \in Nat : n \in T => n + 1 \in T
  PROVE  Nat \subseteq T
<1> DEFINE Out == Nat \ T
<1>1. SUFFICES ASSUME Out # {}  PROVE FALSE
  OBVIOUS
<1>2. PICK k \in Out : \A j \in Out : ~(j < k)
  <2>1. Out \subseteq Nat
    OBVIOUS
  <2>2. \E k \in Out : \A j \in Out : ~(<< j, k >> \in OpToRel(<, Nat))
    <3> HIDE DEF Out
    <3> QED
      BY <1>1, <2>1, WFMin, NatLessThanWellFounded, Zenon
  <2> HIDE DEF Out
  <2> QED
    BY <2>1, <2>2, Zenon DEF OpToRel
<1>3. k \in Nat /\ k # 0
  OBVIOUS
<1>4. k - 1 \in Nat /\ k - 1 < k /\ (k - 1) + 1 = k
  BY <1>3
<1>5. k - 1 \in T
  BY <1>2, <1>4
<1>6. k \in T
  BY <1>4, <1>5
<1> QED
  BY <1>6

LEMMA EverySeq ==
  ASSUME NEW S, NEW T, <<>> \in T,
         \A s \in Seq(S), e \in S : s \in T => Append(s, e) \in T
  PROVE  Seq(S) \subseteq T
<1> DEFINE Sizes == {n \in Nat : \A s \in Seq(S) : Len(s) = n => s \in T}
<1>1. 0 \in Sizes
  BY EmptySeq
<1>2. ASSUME NEW n \in Nat, n \in Sizes
      PROVE  n + 1 \in Sizes
  <2>1. ASSUME NEW s \in Seq(S), Len(s) = n + 1
        PROVE  s \in T
    <3>1. s # <<>>
      BY <2>1, EmptySeq
    <3>2. PICK t \in Seq(S), e \in S : s = Append(t, e)
      BY <3>1, SequenceEmptyOrAppend
    <3>3. Len(t) = n
      BY <2>1, <3>2, AppendProperties, LenProperties
    <3> QED
      BY <1>2, <3>2, <3>3
  <2> QED
    BY <2>1
<1>3. Nat \subseteq Sizes
  <2> HIDE DEF Sizes
  <2> QED
    BY <1>1, <1>2, EveryNat
<1> QED
  BY <1>3, LenProperties

----------------------------------------------------------------------------
(***************************************************************************)
(* A sequence cut in two.                                                  *)
(***************************************************************************)
LEMMA Halves ==
  ASSUME NEW S, NEW s \in Seq(S), NEW n \in Nat
  PROVE  /\ First(s, n) \in Seq(S) /\ Behind(s, n) \in Seq(S)
         /\ Len(First(s, n)) = (IF n < Len(s) THEN n ELSE Len(s))
         /\ Len(Behind(s, n)) = (IF n < Len(s) THEN Len(s) - n ELSE 0)
         /\ \A i \in 1..Len(First(s, n)) : First(s, n)[i] = s[i]
         /\ \A i \in 1..Len(Behind(s, n)) : Behind(s, n)[i] = s[n + i]
<1> DEFINE m == IF n < Len(s) THEN n ELSE Len(s)
<1>1. m \in Nat /\ Len(s) \in Nat /\ m <= Len(s)
  BY LenProperties
<1>2. /\ SubSeq(s, 1, m) \in Seq(S)
      /\ Len(SubSeq(s, 1, m)) = m
      /\ \A i \in 1..m : SubSeq(s, 1, m)[i] = s[i]
  <2>1. \A i \in 1..m : s[i] \in S
    BY <1>1, ElementOfSeq
  <2> QED
    BY <1>1, <2>1, SubSeqProperties
<1>3. /\ SubSeq(s, n + 1, Len(s)) \in Seq(S)
      /\ Len(SubSeq(s, n + 1, Len(s))) = (IF n < Len(s) THEN Len(s) - n ELSE 0)
      /\ \A i \in 1..Len(s) - n : SubSeq(s, n + 1, Len(s))[i] = s[n + i]
  <2>1. \A i \in n + 1..Len(s) : s[i] \in S
    BY <1>1, ElementOfSeq
  <2>2. n + 1 \in Int /\ Len(s) \in Int
    BY <1>1
  <2>3. /\ SubSeq(s, n + 1, Len(s)) \in Seq(S)
        /\ Len(SubSeq(s, n + 1, Len(s)))
             = (IF n + 1 <= Len(s) THEN Len(s) - (n + 1) + 1 ELSE 0)
        /\ \A i \in 1..Len(s) - (n + 1) + 1 :
             SubSeq(s, n + 1, Len(s))[i] = s[n + 1 + i - 1]
    BY <2>1, <2>2, SubSeqProperties
  <2> QED
    BY <1>1, <2>3
<1> QED
  BY <1>1, <1>2, <1>3 DEF First, Behind

LEMMA Joined ==
  ASSUME NEW S, NEW s \in Seq(S), NEW n \in Nat
  PROVE  s = First(s, n) \o Behind(s, n)
<1> DEFINE a == First(s, n)  b == Behind(s, n)
<1>1. /\ a \in Seq(S) /\ b \in Seq(S)
      /\ Len(a) = (IF n < Len(s) THEN n ELSE Len(s))
      /\ Len(b) = (IF n < Len(s) THEN Len(s) - n ELSE 0)
      /\ \A i \in 1..Len(a) : a[i] = s[i]
      /\ \A i \in 1..Len(b) : b[i] = s[n + i]
  BY Halves
<1> HIDE DEF a, b
<1>2. /\ a \o b \in Seq(S)
      /\ Len(a \o b) = Len(a) + Len(b)
      /\ \A i \in 1..Len(a) + Len(b) :
           (a \o b)[i] = IF i <= Len(a) THEN a[i] ELSE b[i - Len(a)]
  BY <1>1, ConcatProperties
<1>3. Len(s) \in Nat
  BY LenProperties
<1>4. Len(a \o b) = Len(s)
  BY <1>1, <1>2, <1>3
<1>5. ASSUME NEW i \in 1..Len(s)
      PROVE  s[i] = (a \o b)[i]
  BY <1>1, <1>2, <1>3
<1>6. s = a \o b
  BY <1>2, <1>4, <1>5, SeqEqual
<1> QED
  BY <1>6 DEF a, b

\* Where a sequence of two parts is cut within or behind the first.
LEMMA Cut ==
  ASSUME NEW S, NEW a \in Seq(S), NEW b \in Seq(S), NEW n \in Nat
  PROVE  /\ n <= Len(a) => /\ First(a \o b, n) = First(a, n)
                           /\ Behind(a \o b, n) = Behind(a, n) \o b
         /\ n >= Len(a) => /\ First(a \o b, n) = a \o First(b, n - Len(a))
                           /\ Behind(a \o b, n) = Behind(b, n - Len(a))
<1> DEFINE c == a \o b
<1>1. /\ c \in Seq(S)
      /\ Len(c) = Len(a) + Len(b)
      /\ \A i \in 1..Len(a) + Len(b) :
           c[i] = IF i <= Len(a) THEN a[i] ELSE b[i - Len(a)]
  BY ConcatProperties
<1>2. Len(a) \in Nat /\ Len(b) \in Nat
  BY LenProperties
<1> HIDE DEF c
<1>3. /\ First(c, n) \in Seq(S) /\ Behind(c, n) \in Seq(S)
      /\ Len(First(c, n)) = (IF n < Len(c) THEN n ELSE Len(c))
      /\ Len(Behind(c, n)) = (IF n < Len(c) THEN Len(c) - n ELSE 0)
      /\ \A i \in 1..Len(First(c, n)) : First(c, n)[i] = c[i]
      /\ \A i \in 1..Len(Behind(c, n)) : Behind(c, n)[i] = c[n + i]
  BY <1>1, Halves
<1>4. CASE n <= Len(a)
  <2> DEFINE d == Behind(a, n)
  <2>1. /\ First(a, n) \in Seq(S) /\ d \in Seq(S)
        /\ Len(First(a, n)) = n
        /\ Len(d) = Len(a) - n
        /\ \A i \in 1..Len(First(a, n)) : First(a, n)[i] = a[i]
        /\ \A i \in 1..Len(d) : d[i] = a[n + i]
    BY <1>2, <1>4, Halves
  <2>2. First(c, n) = First(a, n)
    <3>1. Len(First(c, n)) = n
      <4>1. n < Len(c) \/ n = Len(c)
        BY <1>1, <1>2, <1>4
      <4>2. Len(First(c, n)) = (IF n < Len(c) THEN n ELSE Len(c))
        BY <1>3
      <4> QED
        BY <4>1, <4>2, SMTT(30)
    <3>2. ASSUME NEW i \in 1..n  PROVE First(c, n)[i] = First(a, n)[i]
      <4>1. /\ i \in 1..Len(First(c, n)) /\ i \in 1..Len(First(a, n))
            /\ i \in 1..Len(a) + Len(b) /\ i <= Len(a)
        BY <1>2, <1>4, <2>1, <3>1
      <4>2. First(c, n)[i] = c[i]
        BY <1>3, <4>1
      <4>3. First(a, n)[i] = a[i]
        BY <2>1, <4>1
      <4>4. c[i] = a[i]
        BY <1>1, <4>1
      <4> QED
        BY <4>2, <4>3, <4>4
    <3> QED
      BY <1>3, <2>1, <3>1, <3>2, SeqEqual
  <2> HIDE DEF d
  <2>3. /\ d \o b \in Seq(S)
        /\ Len(d \o b) = Len(d) + Len(b)
        /\ \A i \in 1..Len(d) + Len(b) :
             (d \o b)[i] = IF i <= Len(d) THEN d[i] ELSE b[i - Len(d)]
    BY <2>1, ConcatProperties
  <2>4. Behind(c, n) = d \o b
    <3>1. Len(Behind(c, n)) = Len(d) + Len(b)
      BY <1>1, <1>2, <1>3, <1>4, <2>1
    <3>2. ASSUME NEW i \in 1..Len(d) + Len(b)  PROVE Behind(c, n)[i] = (d \o b)[i]
      <4>1. Behind(c, n)[i] = c[n + i] /\ n + i \in 1..Len(a) + Len(b)
        BY <1>2, <1>3, <1>4, <2>1, <3>1
      <4>2. CASE i <= Len(d)
        <5>1. n + i <= Len(a) /\ i \in 1..Len(d)
          BY <1>2, <1>4, <2>1, <4>2
        <5> QED
          BY <1>1, <2>1, <2>3, <4>1, <4>2, <5>1
      <4>3. CASE ~(i <= Len(d))
        <5>1. ~(n + i <= Len(a)) /\ (n + i) - Len(a) = i - Len(d)
          BY <1>2, <1>4, <2>1, <4>3
        <5> QED
          BY <1>1, <2>3, <4>1, <4>3, <5>1
      <4> QED
        BY <4>2, <4>3
    <3> QED
      BY <1>3, <2>3, <3>1, <3>2, SeqEqual
  <2>5. n >= Len(a) => n = Len(a) /\ n - Len(a) = 0
    BY <1>2, <1>4
  <2>6. n = Len(a) => d = <<>> /\ First(a, n) = a /\ First(b, 0) = <<>> /\ Behind(b, 0) = b
    <3>1. ASSUME n = Len(a)  PROVE d = <<>>
      BY <1>2, <2>1, <3>1, EmptySeq
    <3>2. ASSUME n = Len(a)  PROVE First(a, n) = a
      BY <1>2, <2>1, <3>2, SeqEqual
    <3>3. First(b, 0) = <<>>
      BY <1>2, Halves, EmptySeq
    <3>4. Behind(b, 0) = b
      BY <1>2, SubSeqFull DEF Behind
    <3> QED
      BY <3>1, <3>2, <3>3, <3>4
  <2>7. <<>> \o b = b /\ a \o <<>> = a
    BY ConcatEmptySeq
  <2> QED
    BY <1>4, <2>2, <2>4, <2>5, <2>6, <2>7 DEF c, d
<1>5. CASE ~(n <= Len(a))
  <2> DEFINE m == n - Len(a)
             d == First(b, m)
  <2>1. m \in Nat /\ m > 0
    BY <1>2, <1>5
  <2>2. /\ d \in Seq(S) /\ Behind(b, m) \in Seq(S)
        /\ Len(d) = (IF m < Len(b) THEN m ELSE Len(b))
        /\ Len(Behind(b, m)) = (IF m < Len(b) THEN Len(b) - m ELSE 0)
        /\ \A i \in 1..Len(d) : d[i] = b[i]
        /\ \A i \in 1..Len(Behind(b, m)) : Behind(b, m)[i] = b[m + i]
    BY <2>1, Halves
  <2> HIDE DEF d
  <2>3. /\ a \o d \in Seq(S)
        /\ Len(a \o d) = Len(a) + Len(d)
        /\ \A i \in 1..Len(a) + Len(d) :
             (a \o d)[i] = IF i <= Len(a) THEN a[i] ELSE d[i - Len(a)]
    <3>1. d \in Seq(S)
      BY <2>2
    <3> HIDE DEF m
    <3> QED
      BY <3>1, ConcatProperties
  <2>4. First(c, n) = a \o d
    <3>1. Len(First(c, n)) = Len(a) + Len(d) /\ Len(d) \in Nat
      BY <1>1, <1>2, <1>3, <2>1, <2>2
    <3>2. ASSUME NEW i \in 1..Len(a) + Len(d)  PROVE First(c, n)[i] = (a \o d)[i]
      <4>1. Len(d) <= Len(b)
        BY <1>2, <2>1, <2>2
      <4>2. First(c, n)[i] = c[i] /\ i \in 1..Len(a) + Len(b)
        BY <1>2, <1>3, <3>1, <4>1, SMTT(30)
      <4>3. CASE i <= Len(a)
        BY <1>1, <2>3, <4>2, <4>3
      <4>4. CASE ~(i <= Len(a))
        <5>1. i - Len(a) \in 1..Len(d)
          BY <1>2, <3>1, <4>4
        <5> QED
          BY <1>1, <2>2, <2>3, <4>2, <4>4, <5>1
      <4> QED
        BY <4>3, <4>4
    <3> QED
      BY <1>3, <2>3, <3>1, <3>2, SeqEqual
  <2>5. Behind(c, n) = Behind(b, m)
    <3>1. Len(Behind(c, n)) = Len(Behind(b, m))
      BY <1>1, <1>2, <1>3, <2>1, <2>2
    <3>2. ASSUME NEW i \in 1..Len(Behind(c, n))  PROVE Behind(c, n)[i] = Behind(b, m)[i]
      <4>1. n + i \in 1..Len(a) + Len(b) /\ ~(n + i <= Len(a)) /\ (n + i) - Len(a) = m + i
        BY <1>1, <1>2, <1>3, <1>5
      <4>2. c[n + i] = b[m + i]
        <5> HIDE DEF m
        <5> QED
          BY <1>1, <4>1
      <4> QED
        BY <1>3, <2>2, <3>1, <4>2
    <3> QED
      BY <1>3, <2>2, <3>1, <3>2, SeqEqual
  <2> QED
    BY <1>5, <2>4, <2>5 DEF c, d
<1> QED
  BY <1>4, <1>5

LEMMA CutWithin ==
  ASSUME NEW S, NEW a \in Seq(S), NEW b \in Seq(S), NEW n \in Nat, n <= Len(a)
  PROVE  First(a \o b, n) = First(a, n) /\ Behind(a \o b, n) = Behind(a, n) \o b
  BY Cut

LEMMA CutBeyond ==
  ASSUME NEW S, NEW a \in Seq(S), NEW b \in Seq(S), NEW n \in Nat, n >= Len(a)
  PROVE  /\ First(a \o b, n) = a \o First(b, n - Len(a))
         /\ Behind(a \o b, n) = Behind(b, n - Len(a))
  BY Cut, ZenonT(40)

LEMMA CutEnds ==
  ASSUME NEW S, NEW s \in Seq(S), NEW n \in Nat
  PROVE  /\ First(s, 0) = <<>> /\ Behind(s, 0) = s
         /\ n >= Len(s) => First(s, n) = s /\ Behind(s, n) = <<>>
<1>1. Len(s) \in Nat
  BY LenProperties
<1>2. First(s, 0) = <<>>
  <2>1. First(s, 0) \in Seq(S) /\ Len(First(s, 0)) = 0
    BY <1>1, Halves
  <2> QED
    BY <2>1, EmptySeq
<1>3. Behind(s, 0) = s
  BY SubSeqFull DEF Behind
<1>4. ASSUME n >= Len(s)
      PROVE  First(s, n) = s /\ Behind(s, n) = <<>>
  <2>1. /\ First(s, n) \in Seq(S) /\ Behind(s, n) \in Seq(S)
        /\ Len(First(s, n)) = Len(s) /\ Len(Behind(s, n)) = 0
        /\ \A i \in 1..Len(First(s, n)) : First(s, n)[i] = s[i]
    BY <1>1, <1>4, Halves
  <2> QED
    BY <2>1, SeqEqual, EmptySeq
<1> QED
  BY <1>2, <1>3, <1>4

LEMMA CutAt ==
  ASSUME NEW S, NEW a \in Seq(S), NEW b \in Seq(S)
  PROVE  First(a \o b, Len(a)) = a /\ Behind(a \o b, Len(a)) = b
<1>1. Len(a) \in Nat /\ Len(a) >= Len(a)
  BY LenProperties
<1>2. /\ First(a \o b, Len(a)) = First(a, Len(a))
      /\ Behind(a \o b, Len(a)) = Behind(a, Len(a)) \o b
  BY <1>1, Cut
<1>3. First(a, Len(a)) = a /\ Behind(a, Len(a)) = <<>>
  BY <1>1, CutEnds
<1> QED
  BY <1>2, <1>3, ConcatEmptySeq

LEMMA CutTwice ==
  ASSUME NEW S, NEW s \in Seq(S), NEW m \in Nat, NEW n \in Nat
  PROVE  /\ Behind(Behind(s, m), n) = Behind(s, m + n)
         /\ n <= m => First(First(s, m), n) = First(s, n)
<1> DEFINE a == First(s, m)  b == Behind(s, m)
<1>1. /\ a \in Seq(S) /\ b \in Seq(S) /\ s = a \o b
      /\ Len(a) = (IF m < Len(s) THEN m ELSE Len(s))
      /\ Len(b) = (IF m < Len(s) THEN Len(s) - m ELSE 0)
  BY Halves, Joined
<1>2. Len(s) \in Nat /\ m + n \in Nat
  BY LenProperties
<1> HIDE DEF a, b
<1>3. CASE m <= Len(s)
  <2>1. Len(a) = m
    BY <1>2, <1>3, Halves DEF a
  <2>2. Behind(s, m + n) = Behind(b, n)
    <3> DEFINE p == m + n
    <3>1. p \in Nat /\ p >= m /\ p - m = n
      OBVIOUS
    <3> HIDE DEF p
    <3>2. p >= Len(a) /\ p - Len(a) = n
      BY <2>1, <3>1, Zenon
    <3>3. a \in Seq(S) /\ b \in Seq(S)
      BY <1>1
    <3>4. Behind(a \o b, p) = Behind(b, p - Len(a))
      BY <3>1, <3>2, <3>3, CutBeyond
    <3> QED
      BY <1>1, <3>2, <3>4, Zenon DEF p
  <2>3. n <= m => First(s, n) = First(a, n)
    BY <1>1, <2>1, Cut
  <2> QED
    BY <2>2, <2>3 DEF a, b
<1>4. CASE ~(m <= Len(s))
  <2>1. a = s /\ b = <<>>
    BY <1>2, <1>4, CutEnds DEF a, b
  <2>2. Behind(s, m + n) = <<>>
    BY <1>2, <1>4, CutEnds
  <2>3. Behind(b, n) = <<>>
    <3>1. Len(b) = 0 /\ n >= 0
      BY <2>1, EmptySeq
    <3>2. b \in Seq(S) /\ n >= Len(b)
      BY <1>1, <3>1
    <3> QED
      BY <3>2, CutEnds
  <2> QED
    BY <2>1, <2>2, <2>3 DEF a, b
<1> QED
  BY <1>3, <1>4

----------------------------------------------------------------------------
(***************************************************************************)
(* FlattenSeq, by its equations: the recursive function in its definition  *)
(* exists, and what it is for a sequence does not depend on what follows.  *)
(***************************************************************************)
Flattens(F, s, n) ==
  F = [i \in 1..n |-> IF i = 1 THEN s[i] ELSE F[i - 1] \o s[i]]

LEMMA FlattensExists ==
  ASSUME NEW s, NEW n \in Nat
  PROVE  \E F : Flattens(F, s, n)
<1> DEFINE T == {m \in Nat : \E F : Flattens(F, s, m)}
<1>1. 0 \in T
  <2>1. Flattens([i \in 1..0 |-> 0], s, 0)
    <3>1. 1..0 = {}
      OBVIOUS
    <3> QED
      BY <3>1, Zenon DEF Flattens
  <2> QED
    BY <2>1
<1>2. ASSUME NEW m \in Nat, m \in T
      PROVE  m + 1 \in T
  <2>1. PICK F : Flattens(F, s, m)
    BY <1>2
  <2> DEFINE G == [i \in 1..m + 1 |-> IF i <= m THEN F[i]
                                     ELSE IF i = 1 THEN s[i] ELSE F[i - 1] \o s[i]]
  <2>a. \A j \in 1..m + 1 : j <= m => G[j] = F[j]
    OBVIOUS
  <2>2. ASSUME NEW i \in 1..m + 1
        PROVE  G[i] = IF i = 1 THEN s[i] ELSE G[i - 1] \o s[i]
    <3>1. CASE i = 1
      <4>1. G[i] = IF i <= m THEN F[i] ELSE s[i]
        BY <3>1
      <4>2. i <= m => F[i] = s[i]
        BY <2>1, <3>1 DEF Flattens
      <4> QED
        BY <3>1, <4>1, <4>2
    <3>2. CASE i # 1
      <4>1. i - 1 \in 1..m + 1 /\ i - 1 <= m
        BY <3>2
      <4>2. G[i - 1] = F[i - 1]
        <5> HIDE DEF G
        <5> QED
          BY <2>a, <4>1
      <4>3. i <= m => F[i] = F[i - 1] \o s[i]
        <5>1. ASSUME i \in 1..m
              PROVE  F[i] = IF i = 1 THEN s[i] ELSE F[i - 1] \o s[i]
          BY <2>1, <5>1, Zenon DEF Flattens
        <5>2. i <= m => i \in 1..m
          OBVIOUS
        <5> QED
          BY <3>2, <5>1, <5>2, Zenon
      <4>4. G[i] = IF i <= m THEN F[i] ELSE F[i - 1] \o s[i]
        BY <3>2
      <4> QED
        BY <3>2, <4>2, <4>3, <4>4
    <3> QED
      BY <3>1, <3>2
  <2>3. G = [i \in 1..m + 1 |-> G[i]]
    OBVIOUS
  <2>4. Flattens(G, s, m + 1)
    <3> HIDE DEF G
    <3> QED
      BY <2>2, <2>3, Zenon DEF Flattens
  <2> QED
    BY <2>4
<1>3. Nat \subseteq T
  <2> HIDE DEF T
  <2> QED
    BY <1>1, <1>2, EveryNat
<1> QED
  BY <1>3

LEMMA FlattensAgree ==
  ASSUME NEW s, NEW t, NEW m \in Nat, NEW n \in Nat, m <= n,
         \A i \in 1..m : s[i] = t[i],
         NEW F, NEW G, Flattens(F, s, m), Flattens(G, t, n)
  PROVE  \A i \in 1..m : F[i] = G[i]
<1> DEFINE T == {k \in Nat : k \in 1..m => F[k] = G[k]}
<1>1. 0 \in T
  OBVIOUS
<1>2. ASSUME NEW k \in Nat, k \in T
      PROVE  k + 1 \in T
  <2>1. SUFFICES ASSUME k + 1 \in 1..m  PROVE F[k + 1] = G[k + 1]
    OBVIOUS
  <2>2. /\ F[k + 1] = IF k + 1 = 1 THEN s[k + 1] ELSE F[(k + 1) - 1] \o s[k + 1]
        /\ G[k + 1] = IF k + 1 = 1 THEN t[k + 1] ELSE G[(k + 1) - 1] \o t[k + 1]
    <3>1. k + 1 \in 1..n
      BY <2>1
    <3>2. F[k + 1] = IF k + 1 = 1 THEN s[k + 1] ELSE F[(k + 1) - 1] \o s[k + 1]
      BY <2>1, Zenon DEF Flattens
    <3>3. G[k + 1] = IF k + 1 = 1 THEN t[k + 1] ELSE G[(k + 1) - 1] \o t[k + 1]
      BY <3>1, Zenon DEF Flattens
    <3> QED
      BY <3>2, <3>3
  <2>3. s[k + 1] = t[k + 1]
    BY <2>1
  <2>4. k + 1 # 1 => F[(k + 1) - 1] = G[(k + 1) - 1]
    BY <1>2, <2>1
  <2> QED
    BY <2>2, <2>3, <2>4
<1>3. Nat \subseteq T
  <2> HIDE DEF T
  <2> QED
    BY <1>1, <1>2, EveryNat
<1> QED
  BY <1>3

LEMMA FlattenSeqIs ==
  ASSUME NEW S, NEW s \in Seq(S), s # <<>>
  PROVE  \E F : Flattens(F, s, Len(s)) /\ FlattenSeq(s) = F[Len(s)]
<1>1. Len(s) \in Nat /\ Len(s) # 0
  BY EmptySeq, LenProperties
<1> DEFINE F == CHOOSE G : G = [i \in 1..Len(s) |->
                                 IF i = 1 THEN s[i] ELSE G[i - 1] \o s[i]]
<1>2. Flattens(F, s, Len(s))
  <2>1. \E G : Flattens(G, s, Len(s))
    BY <1>1, FlattensExists
  <2> QED
    BY <2>1, Zenon DEF Flattens
<1>3. FlattenSeq(s) = F[Len(s)]
  BY <1>1 DEF FlattenSeq
<1> HIDE DEF F
<1> QED
  BY <1>2, <1>3

LEMMA FlattenAppend ==
  ASSUME NEW S, NEW s \in Seq(S), NEW e \in S
  PROVE  FlattenSeq(Append(s, e)) = IF s = <<>> THEN e ELSE FlattenSeq(s) \o e
<1> DEFINE t == Append(s, e)
           n == Len(s)
<1>1. /\ t \in Seq(S) /\ t # <<>> /\ Len(t) = n + 1
      /\ \A i \in 1..n : t[i] = s[i]
      /\ t[n + 1] = e
  BY AppendProperties
<1>2. n \in Nat /\ n + 1 \in Nat /\ n <= n + 1 /\ n + 1 \in 1..n + 1
  BY LenProperties
<1> HIDE DEF t
<1>3. PICK G : Flattens(G, t, Len(t)) /\ FlattenSeq(t) = G[Len(t)]
  BY <1>1, FlattenSeqIs
<1>4. Flattens(G, t, n + 1) /\ FlattenSeq(t) = G[n + 1]
  <2> HIDE DEF n
  <2> QED
    BY <1>1, <1>3
<1>5. G[n + 1] = IF n + 1 = 1 THEN t[n + 1] ELSE G[(n + 1) - 1] \o t[n + 1]
  <2> HIDE DEF n
  <2> QED
    BY <1>2, <1>4, Zenon DEF Flattens
<1>6. CASE s = <<>>
  <2>1. n = 0
    BY <1>6, EmptySeq
  <2>2. n + 1 = 1
    BY <2>1
  <2> HIDE DEF n
  <2> QED
    BY <1>1, <1>4, <1>5, <1>6, <2>2, Zenon DEF t
<1>7. CASE s # <<>>
  <2>1. n # 0
    BY <1>7, EmptySeq
  <2>2. n + 1 # 1 /\ (n + 1) - 1 = n /\ n \in 1..n
    BY <1>2, <2>1
  <2>3. PICK F : Flattens(F, s, n) /\ FlattenSeq(s) = F[n]
    BY <1>7, FlattenSeqIs
  <2> HIDE DEF n
  <2>4. \A i \in 1..n : s[i] = t[i]
    BY <1>1
  <2>5. \A i \in 1..n : F[i] = G[i]
    BY <1>2, <1>4, <2>3, <2>4, FlattensAgree
  <2>6. F[n] = G[n]
    BY <2>2, <2>5
  <2> QED
    BY <1>1, <1>4, <1>5, <1>7, <2>2, <2>3, <2>6, Zenon DEF t
<1> QED
  BY <1>6, <1>7

----------------------------------------------------------------------------
(***************************************************************************)
(* The bytes of a queue of frames.                                         *)
(***************************************************************************)
Raws(q) == [k \in DOMAIN q |-> Raw(q[k])]
Flat(q) == FlattenSeq(Raws(q))

LEMMA Constants ==
  /\ LenBytes \in Nat /\ LenBytes > 0
  /\ MaxIov \in Nat /\ MaxIov > 0
  /\ SockBuf \in Nat /\ SockBuf > 0
  /\ MaxLen \in Nat /\ MaxPut \in Nat
  /\ \A f \in Frame : len[f] \in Nat /\ last[f] \in BOOLEAN
  /\ \A f \in Frame : raw_size(f) \in Nat /\ raw_size(f) >= LenBytes
<1>1. LenBytes \in Nat \ {0} /\ MaxIov \in Nat \ {0} /\ SockBuf \in Nat \ {0}
  BY MsgSockAssumption
<1>2. MaxLen \in Nat /\ MaxPut \in Nat
  BY MsgSockAssumption
<1>3. \A f \in Frame : len[f] \in Nat /\ last[f] \in BOOLEAN
  BY MsgSockAssumption
<1>4. \A f \in Frame : raw_size(f) \in Nat /\ raw_size(f) >= LenBytes
  BY <1>1, <1>3 DEF raw_size
<1> QED
  BY <1>1, <1>2, <1>3, <1>4

LEMMA RawBytes ==
  ASSUME NEW f \in Frame
  PROVE  /\ Raw(f) \in Seq(Byte) /\ Len(Raw(f)) = raw_size(f)
         /\ \A k \in 1..raw_size(f) : Raw(f)[k] = <<f, k>>
<1>1. raw_size(f) \in Nat
  BY Constants
<1>2. \A k \in 1..raw_size(f) : <<f, k>> \in Byte
  BY DEF Byte
<1>3. Raw(f) \in [1..raw_size(f) -> Byte]
  BY <1>2 DEF Raw
<1>4. Raw(f) \in Seq(Byte)
  BY <1>1, <1>3, SeqDef
<1>5. Len(Raw(f)) = raw_size(f)
  <2>1. DOMAIN Raw(f) = 1..raw_size(f)
    BY DEF Raw
  <2>2. DOMAIN Raw(f) = 1..Len(Raw(f)) /\ Len(Raw(f)) \in Nat
    BY <1>4, LenProperties
  <2> QED
    BY <1>1, <2>1, <2>2
<1> QED
  BY <1>4, <1>5 DEF Raw

LEMMA RawsAppend ==
  ASSUME NEW q \in Seq(Frame)
  PROVE  /\ Raws(q) \in Seq(Seq(Byte)) /\ Len(Raws(q)) = Len(q)
         /\ \A f \in Frame : Raws(Append(q, f)) = Append(Raws(q), Raw(f))
<1>1. ASSUME NEW r \in Seq(Frame)
      PROVE  /\ Raws(r) \in Seq(Seq(Byte)) /\ Len(Raws(r)) = Len(r)
             /\ \A k \in 1..Len(r) : Raws(r)[k] = Raw(r[k])
  <2>1. Len(r) \in Nat /\ DOMAIN r = 1..Len(r) /\ \A k \in 1..Len(r) : r[k] \in Frame
    BY LenProperties, ElementOfSeq
  <2>2. Raws(r) \in [1..Len(r) -> Seq(Byte)]
    BY <2>1, RawBytes DEF Raws
  <2>3. Raws(r) \in Seq(Seq(Byte))
    <3> DEFINE w == Raws(r)
               n == Len(r)
               S == Seq(Byte)
    <3>1. w \in [1..n -> S] /\ n \in Nat
      BY <2>1, <2>2
    <3> HIDE DEF w, n, S
    <3>2. w \in Seq(S)
      BY <3>1, SeqDef
    <3> QED
      BY <3>2 DEF w, S
  <2>4. DOMAIN Raws(r) = 1..Len(Raws(r)) /\ Len(Raws(r)) \in Nat
    BY <2>3, LenProperties
  <2>5. DOMAIN Raws(r) = 1..Len(r)
    BY <2>2
  <2>6. Len(Raws(r)) = Len(r)
    <3>1. \A a, b \in Nat : 1..a = 1..b => a = b
      OBVIOUS
    <3> QED
      BY <2>1, <2>4, <2>5, <3>1, Zenon
  <2> QED
    BY <2>1, <2>3, <2>6 DEF Raws
<1>2. ASSUME NEW f \in Frame
      PROVE  Raws(Append(q, f)) = Append(Raws(q), Raw(f))
  <2> DEFINE n == Len(q)
             s == Raws(Append(q, f))
             t == Append(Raws(q), Raw(f))
  <2>1. /\ Append(q, f) \in Seq(Frame)
        /\ Len(Append(q, f)) = n + 1
        /\ \A i \in 1..n : Append(q, f)[i] = q[i]
        /\ Append(q, f)[n + 1] = f
    BY AppendProperties
  <2>2. n \in Nat
    BY LenProperties
  <2>3. Raws(q) \in Seq(Seq(Byte)) /\ Len(Raws(q)) = n
        /\ \A k \in 1..n : Raws(q)[k] = Raw(q[k])
    BY <1>1
  <2>4. /\ s \in Seq(Seq(Byte)) /\ Len(s) = n + 1
        /\ \A k \in 1..n + 1 : s[k] = Raw(Append(q, f)[k])
    BY <1>1, <2>1
  <2>5. Raw(f) \in Seq(Byte)
    BY RawBytes
  <2> HIDE DEF n
  <2>6. /\ t \in Seq(Seq(Byte)) /\ Len(t) = n + 1
        /\ \A i \in 1..n : t[i] = Raws(q)[i]
        /\ t[n + 1] = Raw(f)
    BY <2>3, <2>5, AppendProperties
  <2> HIDE DEF s, t
  <2>7. ASSUME NEW i \in 1..n + 1
        PROVE  s[i] = t[i]
    <3>1. CASE i \in 1..n
      BY <2>1, <2>3, <2>4, <2>6, <3>1
    <3>2. CASE i = n + 1
      BY <2>1, <2>4, <2>6, <3>2
    <3> QED
      BY <2>2, <3>1, <3>2
  <2>8. s = t
    BY <2>4, <2>6, <2>7, SeqEqual
  <2> QED
    BY <2>8 DEF s, t
<1> QED
  BY <1>1, <1>2

\* The bytes of one frame more.
LEMMA FlatAppend ==
  /\ Flat(<<>>) = <<>>
  /\ \A q \in Seq(Frame) :
       /\ Flat(q) \in Seq(Byte)
       /\ \A f \in Frame : Flat(Append(q, f)) = Flat(q) \o Raw(f)
<1>1. Raws(<<>>) = <<>>
  <2>1. <<>> \in Seq(Frame) /\ Len(<<>>) = 0
    BY EmptySeq
  <2>2. Raws(<<>>) \in Seq(Seq(Byte)) /\ Len(Raws(<<>>)) = 0
    BY <2>1, RawsAppend
  <2> QED
    BY <2>2, EmptySeq
<1>2. Flat(<<>>) = <<>>
  <2>1. Len(<<>>) = 0
    BY EmptySeq
  <2> QED
    BY <1>1, <2>1, Zenon DEF Flat, FlattenSeq
<1>3. ASSUME NEW q \in Seq(Frame), Flat(q) \in Seq(Byte), NEW f \in Frame
      PROVE  Flat(Append(q, f)) = Flat(q) \o Raw(f)
  <2>1. Raws(q) \in Seq(Seq(Byte)) /\ Raw(f) \in Seq(Byte)
        /\ Raws(Append(q, f)) = Append(Raws(q), Raw(f))
    BY RawsAppend, RawBytes
  <2>2. Flat(Append(q, f)) = IF Raws(q) = <<>> THEN Raw(f) ELSE Flat(q) \o Raw(f)
    BY <2>1, FlattenAppend DEF Flat
  <2>3. Raws(q) = <<>> => Flat(q) \o Raw(f) = Raw(f)
    <3>1. <<>> \o Raw(f) = Raw(f)
      BY <2>1, ConcatEmptySeq
    <3>2. Raws(q) = <<>> => Flat(q) = <<>>
      BY <1>1, <1>2, Zenon DEF Flat
    <3> QED
      BY <3>1, <3>2
  <2> QED
    BY <2>2, <2>3
<1>4. \A q \in Seq(Frame) : Flat(q) \in Seq(Byte)
  <2> DEFINE T == {q \in Seq(Frame) : Flat(q) \in Seq(Byte)}
  <2>1. <<>> \in T
    BY <1>2, EmptySeq
  <2>2. ASSUME NEW q \in Seq(Frame), NEW f \in Frame, q \in T
        PROVE  Append(q, f) \in T
    <3>1. Flat(Append(q, f)) = Flat(q) \o Raw(f)
      BY <1>3, <2>2
    <3>2. Flat(q) \in Seq(Byte) /\ Raw(f) \in Seq(Byte)
      BY <2>2, RawBytes
    <3>3. Flat(q) \o Raw(f) \in Seq(Byte)
      BY <3>2, ConcatProperties
    <3> QED
      BY <3>1, <3>3, AppendProperties
  <2>3. Seq(Frame) \subseteq T
    <3> HIDE DEF T
    <3> QED
      BY <2>1, <2>2, EverySeq
  <2> QED
    BY <2>3
<1> QED
  BY <1>2, <1>3, <1>4

LEMMA Assoc ==
  \A a, b, c \in Seq(Byte) : (a \o b) \o c = a \o (b \o c)
  BY ConcatAssociative

LEMMA FlatConcat ==
  ASSUME NEW q \in Seq(Frame), NEW r \in Seq(Frame)
  PROVE  Flat(q \o r) = Flat(q) \o Flat(r)
<1> DEFINE T == {s \in Seq(Frame) : Flat(q \o s) = Flat(q) \o Flat(s)}
<1>1. <<>> \in T
  <2>1. q \o <<>> = q /\ <<>> \in Seq(Frame)
    BY ConcatEmptySeq, EmptySeq
  <2>2. Flat(q) \in Seq(Byte) /\ Flat(<<>>) = <<>>
    BY FlatAppend
  <2>3. Flat(q) \o <<>> = Flat(q)
    BY <2>2, ConcatEmptySeq
  <2> QED
    BY <2>1, <2>2, <2>3
<1>2. ASSUME NEW s \in Seq(Frame), NEW f \in Frame, s \in T
      PROVE  Append(s, f) \in T
  <2>1. q \o Append(s, f) = Append(q \o s, f)
    <3>1. <<f>> \in Seq(Frame) /\ q \o s \in Seq(Frame)
      BY ConcatProperties
    <3>2. Append(s, f) = s \o <<f>>
      BY AppendIsConcat
    <3>3. q \o (s \o <<f>>) = (q \o s) \o <<f>>
      BY <3>1, ConcatAssociative
    <3>4. Append(q \o s, f) = (q \o s) \o <<f>>
      BY <3>1, AppendIsConcat
    <3> QED
      BY <3>2, <3>3, <3>4, Zenon
  <2>2. q \o s \in Seq(Frame) /\ Append(s, f) \in Seq(Frame)
    BY ConcatProperties, AppendProperties
  <2>3. Flat(Append(q \o s, f)) = Flat(q \o s) \o Raw(f)
    BY <2>2, FlatAppend
  <2>4. Flat(Append(s, f)) = Flat(s) \o Raw(f)
    BY FlatAppend
  <2>5. Flat(q) \in Seq(Byte) /\ Flat(s) \in Seq(Byte) /\ Raw(f) \in Seq(Byte)
    BY FlatAppend, RawBytes
  <2>6. (Flat(q) \o Flat(s)) \o Raw(f) = Flat(q) \o (Flat(s) \o Raw(f))
    BY <2>5, Assoc, Zenon
  <2>7. Flat(q \o s) = Flat(q) \o Flat(s)
    BY <1>2
  <2>8. Flat(q \o Append(s, f)) = Flat(q) \o Flat(Append(s, f))
    BY <2>1, <2>3, <2>4, <2>6, <2>7, Zenon
  <2> QED
    BY <2>2, <2>8
<1>3. Seq(Frame) \subseteq T
  <2> HIDE DEF T
  <2> QED
    BY <1>1, <1>2, EverySeq
<1> QED
  BY <1>3

LEMMA FlatSplit ==
  ASSUME NEW q \in Seq(Frame), NEW k \in Nat
  PROVE  /\ Flat(q) = Flat(First(q, k)) \o Flat(Behind(q, k))
         /\ Flat(First(q, k)) \in Seq(Byte) /\ Flat(Behind(q, k)) \in Seq(Byte)
         /\ Len(Flat(q)) = Len(Flat(First(q, k))) + Len(Flat(Behind(q, k)))
         /\ Len(Flat(First(q, k))) \in Nat /\ Len(Flat(Behind(q, k))) \in Nat
<1> DEFINE a == First(q, k)  b == Behind(q, k)
<1>1. a \in Seq(Frame) /\ b \in Seq(Frame)
  BY Halves
<1>2. q = a \o b
  BY Joined
<1> HIDE DEF a, b
<1>3. Flat(q) = Flat(a) \o Flat(b)
  BY <1>1, <1>2, FlatConcat
<1>4. Flat(a) \in Seq(Byte) /\ Flat(b) \in Seq(Byte)
  BY <1>1, FlatAppend
<1>5. Len(Flat(a) \o Flat(b)) = Len(Flat(a)) + Len(Flat(b))
  BY <1>4, ConcatProperties
<1>6. Len(Flat(a)) \in Nat /\ Len(Flat(b)) \in Nat
  BY <1>4, LenProperties
<1> QED
  BY <1>3, <1>4, <1>5, <1>6 DEF a, b

LEMMA FlatStep ==
  ASSUME NEW q \in Seq(Frame), NEW k \in Nat, k < Len(q)
  PROVE  /\ q[k + 1] \in Frame
         /\ Flat(First(q, k + 1)) = Flat(First(q, k)) \o Raw(q[k + 1])
         /\ Len(Flat(First(q, k + 1))) = Len(Flat(First(q, k))) + raw_size(q[k + 1])
<1> DEFINE a == First(q, k)
           f == q[k + 1]
           b == First(q, k + 1)
<1>1. Len(q) \in Nat /\ k + 1 \in Nat /\ k + 1 \in 1..Len(q)
  BY LenProperties
<1>2. f \in Frame
  BY <1>1, ElementOfSeq
<1>3. a \in Seq(Frame) /\ Len(a) = k /\ \A i \in 1..k : a[i] = q[i]
  BY <1>1, Halves
<1>4. b \in Seq(Frame) /\ Len(b) = k + 1 /\ \A i \in 1..k + 1 : b[i] = q[i]
  <2> DEFINE p == k + 1
  <2>1. p \in Nat /\ p <= Len(q)
    BY <1>1
  <2> HIDE DEF p
  <2>2. /\ First(q, p) \in Seq(Frame)
        /\ Len(First(q, p)) = (IF p < Len(q) THEN p ELSE Len(q))
        /\ \A i \in 1..Len(First(q, p)) : First(q, p)[i] = q[i]
    BY <2>1, Halves
  <2>3. Len(First(q, p)) = p
    BY <1>1, <2>1, <2>2
  <2>4. \A i \in 1..p : First(q, p)[i] = q[i]
    BY <2>2, <2>3
  <2> QED
    BY <2>2, <2>3, <2>4 DEF p
<1> HIDE DEF a, b
<1>5. /\ Append(a, f) \in Seq(Frame)
      /\ Len(Append(a, f)) = k + 1
      /\ \A i \in 1..k : Append(a, f)[i] = a[i]
      /\ Append(a, f)[k + 1] = f
  BY <1>2, <1>3, AppendProperties
<1>6. b = Append(a, f)
  <2>1. ASSUME NEW i \in 1..k + 1
        PROVE  b[i] = Append(a, f)[i]
    <3>1. CASE i \in 1..k
      BY <1>3, <1>4, <1>5, <3>1
    <3>2. CASE i = k + 1
      BY <1>4, <1>5, <3>2
    <3>3. \A m \in Nat : \A j \in 1..m + 1 : j \in 1..m \/ j = m + 1
      OBVIOUS
    <3> QED
      BY <3>1, <3>2, <3>3, Zenon
  <2> QED
    BY <1>4, <1>5, <2>1, SeqEqual
<1>7. Flat(b) = Flat(a) \o Raw(f)
  BY <1>2, <1>3, <1>6, FlatAppend
<1>8. Flat(a) \in Seq(Byte) /\ Raw(f) \in Seq(Byte) /\ Len(Raw(f)) = raw_size(f)
  BY <1>2, <1>3, FlatAppend, RawBytes
<1>9. Len(Flat(a) \o Raw(f)) = Len(Flat(a)) + raw_size(f)
  BY <1>8, ConcatProperties
<1> QED
  BY <1>2, <1>7, <1>9 DEF a, b

LEMMA FlatHead ==
  ASSUME NEW q \in Seq(Frame), q # <<>>
  PROVE  /\ Len(q) > 0 /\ q[1] \in Frame /\ Head(q) = q[1]
         /\ Behind(q, 1) \in Seq(Frame)
         /\ Flat(q) = Raw(q[1]) \o Flat(Behind(q, 1))
         /\ Len(Flat(q)) >= raw_size(q[1])
<1>1. Len(q) \in Nat /\ Len(q) > 0
  BY EmptySeq, LenProperties
<1>2. q[1] \in Frame /\ Flat(First(q, 0 + 1)) = Flat(First(q, 0)) \o Raw(q[0 + 1])
  BY <1>1, FlatStep
<1>3. First(q, 0) = <<>> /\ Flat(<<>>) = <<>>
  BY CutEnds, FlatAppend
<1>4. Raw(q[1]) \in Seq(Byte) /\ Len(Raw(q[1])) = raw_size(q[1])
  BY <1>2, RawBytes
<1>5. <<>> \o Raw(q[1]) = Raw(q[1])
  BY <1>4, ConcatEmptySeq
<1>6. Flat(First(q, 1)) = Raw(q[1])
  <2>1. 0 + 1 = 1
    OBVIOUS
  <2> QED
    BY <1>2, <1>3, <1>5, <2>1, Zenon
<1>7. /\ Flat(q) = Flat(First(q, 1)) \o Flat(Behind(q, 1))
      /\ Len(Flat(q)) = Len(Flat(First(q, 1))) + Len(Flat(Behind(q, 1)))
      /\ Len(Flat(Behind(q, 1))) \in Nat
  BY FlatSplit
<1>8. Len(Flat(q)) >= raw_size(q[1])
  <2>1. raw_size(q[1]) \in Nat
    BY <1>2, Constants
  <2>2. Len(Flat(q)) = raw_size(q[1]) + Len(Flat(Behind(q, 1)))
    BY <1>4, <1>6, <1>7, Zenon
  <2> QED
    BY <1>7, <2>1, <2>2
<1>9. Behind(q, 1) \in Seq(Frame)
  BY Halves
<1>10. Head(q) = q[1]
  BY <1>1
<1> QED
  BY <1>1, <1>2, <1>6, <1>7, <1>8, <1>9, <1>10

LEMMA BytesAre ==
  ASSUME NEW q \in Seq(Frame), Len(q) <= MaxPut
  PROVE  Bytes[q] = Flat(q)
<1>1. Len(q) \in 0..MaxPut /\ q \in [1..Len(q) -> Frame]
  BY Constants, LenProperties
<1>2. q \in Queue
  BY <1>1, Zenon DEF Queue
<1> QED
  BY <1>2, Zenon DEF Bytes, Flat, Raws

----------------------------------------------------------------------------
(***************************************************************************)
(* The sender's queue.                                                     *)
(***************************************************************************)
\* wstart_ lies within the first message of the queue.
Within(q, w) ==
  /\ q = <<>> => w = 0
  /\ q # <<>> => w < raw_size(Head(q))

\* The number of messages of q that w bytes write.
Whole(q, w, k) ==
  /\ Len(Flat(First(q, k))) <= w
  /\ k < Len(q) => Len(Flat(First(q, k + 1))) > w

LEMMA WholeExists ==
  ASSUME NEW q \in Seq(Frame), NEW w \in Nat
  PROVE  \E k \in 0..Len(q) : Whole(q, w, k)
<1> SUFFICES ASSUME \A k \in 0..Len(q) : ~Whole(q, w, k)
             PROVE  FALSE
  OBVIOUS
<1> DEFINE L(k) == Len(Flat(First(q, k)))
           T == {k \in Nat : k <= Len(q) => L(k) <= w}
<1>1. Len(q) \in Nat /\ \A k \in Nat : L(k) \in Nat
  BY LenProperties, FlatSplit
<1>2. 0 \in T
  <2>1. First(q, 0) = <<>> /\ Flat(<<>>) = <<>> /\ Len(<<>>) = 0
    BY CutEnds, FlatAppend, EmptySeq
  <2>2. L(0) = 0
    BY <2>1
  <2> QED
    BY <2>2
<1>3. ASSUME NEW k \in Nat, k \in T
      PROVE  k + 1 \in T
  <2>1. SUFFICES ASSUME k + 1 <= Len(q)  PROVE L(k + 1) <= w
    OBVIOUS
  <2>2. k \in 0..Len(q) /\ k < Len(q)
    <3>1. \A m, j \in Nat : j + 1 <= m => j \in 0..m /\ j < m
      OBVIOUS
    <3> QED
      BY <1>1, <2>1, <3>1, Zenon
  <2>3. L(k) <= w
    BY <1>3, <2>2
  <2>4. ~(L(k + 1) > w)
    BY <2>2, <2>3 DEF Whole
  <2>5. L(k + 1) \in Nat
    BY <1>1
  <2> QED
    BY <2>4, <2>5
<1>4. Nat \subseteq T
  <2> HIDE DEF T
  <2> QED
    BY <1>2, <1>3, EveryNat
<1>5. L(Len(q)) <= w
  BY <1>1, <1>4
<1>6. Whole(q, w, Len(q))
  BY <1>1, <1>5 DEF Whole
<1> QED
  BY <1>1, <1>6

\* Whole messages leave the queue; the bytes that are left are those behind w.
Popped(q, w, r, u) ==
  /\ r \in Seq(Frame) /\ Len(r) <= Len(q) /\ u \in Nat
  /\ Behind(Flat(r), u) = Behind(Flat(q), w)
  /\ Len(Flat(r)) - u = Len(Flat(q)) - w
  /\ Within(r, u)

LEMMA PopWhole ==
  ASSUME NEW q \in Seq(Frame), NEW w \in Nat, w <= Len(Flat(q)),
         NEW k \in 0..Len(q), Whole(q, w, k)
  PROVE  Popped(q, w, Behind(q, k), w - Len(Flat(First(q, k))))
<1> DEFINE a == Flat(First(q, k))
           r == Behind(q, k)
           b == Flat(r)
           u == w - Len(a)
<1>1. k \in Nat /\ Len(q) \in Nat /\ k <= Len(q)
  BY LenProperties
<1>2. /\ Flat(q) = a \o b /\ a \in Seq(Byte) /\ b \in Seq(Byte)
      /\ Len(Flat(q)) = Len(a) + Len(b) /\ Len(a) \in Nat /\ Len(b) \in Nat
  BY <1>1, FlatSplit
<1>3. /\ r \in Seq(Frame) /\ Len(r) = (IF k < Len(q) THEN Len(q) - k ELSE 0)
      /\ \A i \in 1..Len(r) : r[i] = q[k + i]
  BY <1>1, Halves
<1>4. Len(a) <= w
  BY DEF Whole
<1>5. u \in Nat
  BY <1>2, <1>4
<1>6. Behind(b, u) = Behind(Flat(q), w)
  <2>1. w >= Len(a)
    BY <1>2, <1>4
  <2> HIDE DEF a, b
  <2>2. Behind(a \o b, w) = Behind(b, w - Len(a))
    BY <1>2, <2>1, CutBeyond
  <2> QED
    BY <1>2, <2>2
<1>7. Len(b) - u = Len(Flat(q)) - w
  <2> HIDE DEF a, b
  <2> QED
    BY <1>2
<1>8. r = <<>> => u = 0
  <2>1. ASSUME r = <<>>  PROVE Len(b) = 0
    <3>1. b = <<>>
      BY <2>1, FlatAppend
    <3> QED
      BY <3>1, EmptySeq
  <2> HIDE DEF a, b, r
  <2> QED
    BY <1>2, <1>4, <2>1
<1>9. r # <<>> => u < raw_size(Head(r))
  <2>1. SUFFICES ASSUME r # <<>>  PROVE u < raw_size(Head(r))
    OBVIOUS
  <2>2. Len(r) > 0 /\ Head(r) = r[1]
    <3> HIDE DEF r
    <3> QED
      BY <1>3, <2>1, FlatHead
  <2>3. k < Len(q)
    BY <1>1, <1>3, <2>2
  <2>4. Head(r) = q[k + 1]
    <3>1. 1 \in 1..Len(r)
      BY <1>1, <1>3, <2>2
    <3> HIDE DEF r
    <3> QED
      BY <1>3, <2>2, <3>1
  <2>5. /\ q[k + 1] \in Frame
        /\ Len(Flat(First(q, k + 1))) = Len(a) + raw_size(q[k + 1])
    BY <1>1, <2>3, FlatStep
  <2>6. Len(Flat(First(q, k + 1))) > w
    BY <2>3 DEF Whole
  <2>7. raw_size(q[k + 1]) \in Nat
    BY <2>5, Constants
  <2>8. Len(a) + raw_size(q[k + 1]) > w
    BY <2>5, <2>6
  <2>9. w - Len(a) < raw_size(q[k + 1])
    <3> HIDE DEF a
    <3> QED
      BY <1>2, <2>7, <2>8
  <2> QED
    BY <2>4, <2>9
<1>10. Len(r) <= Len(q)
  BY <1>1, <1>3
<1>11. Within(r, u)
  BY <1>8, <1>9 DEF Within
<1> QED
  <2> HIDE DEF a, b, r, u
  <2>1. Popped(q, w, r, u)
    BY <1>3, <1>5, <1>6, <1>7, <1>10, <1>11 DEF Popped, b
  <2> QED
    BY <2>1 DEF r, u, a

\* pop_wbytes takes what was written out of the queue.
LEMMA PopWritten ==
  ASSUME NEW q \in Seq(Frame), Len(q) <= MaxPut, wstart_ \in Nat, NEW n \in Nat,
         wstart_ + n <= Len(Flat(q)), pop_wbytes(q, n)
  PROVE  Popped(q, wstart_ + n, wqueue_', wstart_')
<1> DEFINE w == wstart_ + n
<1>1. w \in Nat /\ Len(q) \in Nat
  BY LenProperties
<1>2. \A j \in Nat : First(q, j) \in Seq(Frame) /\ Bytes[First(q, j)] = Flat(First(q, j))
  <2>1. ASSUME NEW j \in Nat
        PROVE  First(q, j) \in Seq(Frame) /\ Len(First(q, j)) <= MaxPut
    <3>1. First(q, j) \in Seq(Frame)
          /\ Len(First(q, j)) = (IF j < Len(q) THEN j ELSE Len(q))
      BY Halves
    <3> QED
      BY <1>1, <3>1, Constants
  <2> QED
    BY <2>1, BytesAre
<1> DEFINE k == CHOOSE j \in 0..Len(q) :
                  /\ Len(Bytes[First(q, j)]) <= wstart_ + n
                  /\ j < Len(q) => Len(Bytes[First(q, j + 1)]) > wstart_ + n
<1>3. \E j \in 0..Len(q) : /\ Len(Bytes[First(q, j)]) <= wstart_ + n
                           /\ j < Len(q) => Len(Bytes[First(q, j + 1)]) > wstart_ + n
  <2>1. PICK j \in 0..Len(q) : Whole(q, w, j)
    BY <1>1, WholeExists
  <2>2. j \in Nat /\ j + 1 \in Nat
    OBVIOUS
  <2>3. /\ Len(Bytes[First(q, j)]) <= wstart_ + n
        /\ j < Len(q) => Len(Bytes[First(q, j + 1)]) > wstart_ + n
    BY <1>2, <2>1, <2>2 DEF Whole
  <2> QED
    BY <2>3
<1>4. /\ k \in 0..Len(q)
      /\ Len(Bytes[First(q, k)]) <= wstart_ + n
      /\ k < Len(q) => Len(Bytes[First(q, k + 1)]) > wstart_ + n
  BY <1>3, Zenon
<1>5. wqueue_' = Behind(q, k) /\ wstart_' = wstart_ + n - Len(Bytes[First(q, k)])
  BY Zenon DEF pop_wbytes
<1> HIDE DEF k
<1>6. k \in Nat /\ k + 1 \in Nat
  BY <1>4
<1>7. Whole(q, w, k)
  BY <1>2, <1>4, <1>6 DEF Whole
<1>8. Popped(q, w, Behind(q, k), w - Len(Flat(First(q, k))))
  <2> HIDE DEF w
  <2>1. w <= Len(Flat(q))
    BY DEF w
  <2> QED
    BY <1>1, <1>4, <1>7, <2>1, PopWhole
<1>9. Bytes[First(q, k)] = Flat(First(q, k))
  BY <1>2, <1>6
<1>10. wqueue_' = Behind(q, k) /\ wstart_' = w - Len(Flat(First(q, k)))
  BY <1>5, <1>9
<1> HIDE DEF w
<1>11. Popped(q, w, wqueue_', wstart_')
  BY <1>8, <1>10
<1> QED
  BY <1>11 DEF w

\* One writev offers bytes from the front of what is queued.
LEMMA Offered ==
  ASSUME NEW q \in Seq(Frame), Len(q) <= MaxPut, NEW w \in Nat,
         NEW n \in 1..Len(Behind(Bytes[First(q, MaxIov)], w))
  PROVE  /\ n \in Nat /\ n > 0 /\ w + n <= Len(Flat(q))
         /\ First(Behind(Bytes[First(q, MaxIov)], w), n) = First(Behind(Flat(q), w), n)
<1> DEFINE a == Flat(First(q, MaxIov))
           b == Flat(Behind(q, MaxIov))
           c == Behind(a, w)
<1>1. MaxIov \in Nat /\ Len(q) \in Nat /\ MaxPut \in Nat
  BY Constants, LenProperties
<1>2. /\ Flat(q) = a \o b /\ a \in Seq(Byte) /\ b \in Seq(Byte)
      /\ Len(Flat(q)) = Len(a) + Len(b) /\ Len(a) \in Nat /\ Len(b) \in Nat
  BY <1>1, FlatSplit
<1>3. Bytes[First(q, MaxIov)] = a
  <2>1. First(q, MaxIov) \in Seq(Frame)
        /\ Len(First(q, MaxIov)) = (IF MaxIov < Len(q) THEN MaxIov ELSE Len(q))
    BY <1>1, Halves
  <2>2. Len(First(q, MaxIov)) <= MaxPut
    BY <1>1, <2>1
  <2> QED
    BY <2>1, <2>2, BytesAre
<1>4. n \in 1..Len(c)
  BY <1>3
<1> HIDE DEF a, b
<1>5. c \in Seq(Byte) /\ Len(c) = (IF w < Len(a) THEN Len(a) - w ELSE 0)
  BY <1>2, Halves
<1>6. n \in Nat /\ n > 0 /\ n <= Len(c) /\ w < Len(a) /\ w + n <= Len(a)
  BY <1>2, <1>4, <1>5
<1>7. Behind(Flat(q), w) = c \o b
  BY <1>2, <1>6, CutWithin, SMTT(30)
<1>8. First(c \o b, n) = First(c, n)
  <2> HIDE DEF c
  <2> QED
    BY <1>2, <1>5, <1>6, CutWithin
<1>9. w + n <= Len(Flat(q))
  BY <1>2, <1>6
<1> QED
  BY <1>3, <1>6, <1>7, <1>8, <1>9

----------------------------------------------------------------------------
(***************************************************************************)
(* The inductive invariant.                                                *)
(***************************************************************************)
\* The sender's variables: WsizeCounts, WriteArmed, and the queue's length.
SenderOK ==
  /\ wqueue_ \in Seq(Frame) /\ wsize_ \in Nat /\ wstart_ \in Nat
  /\ wfail_ \in BOOLEAN /\ wcb \in BOOLEAN /\ wopen \in BOOLEAN
  /\ put \in Seq(Frame) /\ Len(put) <= MaxPut /\ Len(wqueue_) <= Len(put)
  /\ wsize_ = Len(Flat(wqueue_)) - wstart_
  /\ Within(wqueue_, wstart_)
  /\ wcb => wsize_ # 0 \/ wfail_
  /\ wsize_ # 0 /\ ~wcb => wstart_ = 0

StreamOK ==
  /\ stream \in Seq(Byte) /\ Len(stream) <= SockBuf
  /\ rdmsg_ \in {NoMsg} \cup 1..MaxLen
  /\ got \in Seq(Byte)
  /\ Len(got) < (IF rdmsg_ = NoMsg THEN 0 ELSE rdmsg_) + LenBytes + 1
  /\ taken \in 0..Len(put)

\* input's loop; what is destroyed is not used, and only a write to a receiver that is
\* gone fails.
Control ==
  /\ rcb_ \in BOOLEAN /\ armed \in BOOLEAN /\ destroyed \in BOOLEAN
  /\ ended \in BOOLEAN /\ threw \in BOOLEAN
  /\ pc \in {"poll", "input", "length", "callback", "gone"}
  /\ round \in 0..3 /\ after \in {"length", "input", "poll"}
  /\ received \in Seq(Seq(Byte))
  /\ destroyed => pc \in {"callback", "gone"}
  /\ pc = "gone" => destroyed
  /\ wfail_ => pc = "gone"
  /\ pc = "length" => round < 3
  /\ pc = "callback" /\ after # "poll" => round < 3

\* The frames that have not arrived; the bytes that are still to be read for them.
Left == Behind(put, taken)
Due == IF rdmsg_ = NoMsg THEN Flat(Left) ELSE Behind(Flat(Left), LenBytes)

\* The message being read is the first that has not arrived.
Placed == ~destroyed /\ rdmsg_ # NoMsg => taken < Len(put) /\ rdmsg_ = len[put[taken + 1]]

\* What is read and what the kernel has are the next bytes; the queue has the rest
\* while the sender exists.
Pending == Behind(Flat(wqueue_), wstart_)
Continues(rest) == Due = (got \o stream) \o rest /\ (wopen => rest = Pending)
Intact == ~destroyed => \E rest \in Seq(Byte) : Continues(rest)

IInv == SenderOK /\ StreamOK /\ Control /\ Placed /\ Intact

LEMMA IInvInit == Init => IInv
<1> SUFFICES ASSUME Init  PROVE IInv
  OBVIOUS
<1>1. /\ <<>> \in Seq(Frame) /\ <<>> \in Seq(Byte) /\ <<>> \in Seq(Seq(Byte))
      /\ Len(<<>>) = 0 /\ Flat(<<>>) = <<>>
  BY EmptySeq, FlatAppend
<1>2. Behind(<<>>, 0) = <<>> /\ <<>> \o <<>> = <<>>
  <2>1. \A S : \A s \in Seq(S) : Behind(s, 0) = s /\ s \o <<>> = s
    BY CutEnds, ConcatEmptySeq
  <2> QED
    BY <1>1, <2>1, Zenon
<1>3. SenderOK
  <2>1. /\ wqueue_ = <<>> /\ wsize_ = 0 /\ wstart_ = 0 /\ put = <<>>
        /\ wfail_ = FALSE /\ wcb = FALSE /\ wopen = TRUE
    BY DEF Init
  <2>2. MaxPut \in Nat
    BY Constants
  <2>3. Len(Flat(wqueue_)) = 0 /\ Len(wqueue_) = 0 /\ Len(put) = 0
    BY <1>1, <2>1, Zenon
  <2>4. wqueue_ \in Seq(Frame) /\ put \in Seq(Frame)
    BY <1>1, <2>1, Zenon
  <2>5. Within(wqueue_, wstart_)
    BY <2>1, Zenon DEF Within
  <2>6. /\ wsize_ \in Nat /\ wstart_ \in Nat
        /\ wsize_ = Len(Flat(wqueue_)) - wstart_ /\ wsize_ = 0
        /\ Len(put) <= MaxPut /\ Len(wqueue_) <= Len(put)
    BY <2>1, <2>2, <2>3
  <2>7. wfail_ \in BOOLEAN /\ wcb \in BOOLEAN /\ wopen \in BOOLEAN /\ ~wcb
    BY <2>1
  <2> QED
    BY <2>4, <2>5, <2>6, <2>7, Zenon DEF SenderOK
<1>4. StreamOK
  <2>1. stream = <<>> /\ rdmsg_ = NoMsg /\ got = <<>> /\ taken = 0 /\ put = <<>>
    BY DEF Init
  <2>2. SockBuf \in Nat /\ LenBytes \in Nat
    BY Constants
  <2>3. Len(stream) = 0 /\ Len(got) = 0 /\ Len(put) = 0
    BY <1>1, <2>1, Zenon
  <2>4. stream \in Seq(Byte) /\ got \in Seq(Byte)
    BY <1>1, <2>1, Zenon
  <2> QED
    BY <2>1, <2>2, <2>3, <2>4 DEF StreamOK
<1>5. Control
  <2>1. rcb_ \in BOOLEAN /\ armed \in BOOLEAN
    BY Zenon DEF Init
  <2>2. /\ ~destroyed /\ ~wfail_ /\ destroyed \in BOOLEAN
        /\ ended \in BOOLEAN /\ threw \in BOOLEAN
        /\ pc = "poll" /\ round \in 0..3 /\ after \in {"length", "input", "poll"}
    <3>1. /\ destroyed = FALSE /\ wfail_ = FALSE /\ ended = FALSE /\ threw = FALSE
          /\ pc = "poll" /\ round = 0 /\ after = "poll"
      BY Zenon DEF Init
    <3>2. round \in 0..3
      BY <3>1
    <3>3. after \in {"length", "input", "poll"}
      BY <3>1, Zenon
    <3> QED
      BY <3>1, <3>2, <3>3, Zenon
  <2>3. received \in Seq(Seq(Byte))
    BY <1>1, Zenon DEF Init
  <2> QED
    BY <2>1, <2>2, <2>3 DEF Control
<1>6. Placed
  BY DEF Init, Placed, NoMsg
<1>7. Intact
  <2>1. Due = <<>> /\ got \o stream = <<>> /\ Pending = <<>>
    BY <1>1, <1>2, Zenon DEF Init, Due, Left, Pending, NoMsg
  <2>2. (got \o stream) \o <<>> = <<>>
    BY <1>2, <2>1, Zenon
  <2>3. Continues(<<>>)
    BY <2>1, <2>2, Zenon DEF Continues
  <2> QED
    BY <1>1, <2>3 DEF Intact
<1> QED
  BY <1>3, <1>4, <1>5, <1>6, <1>7 DEF IInv

LEMMA FlatLen ==
  ASSUME NEW q \in Seq(Frame)
  PROVE  Flat(q) \in Seq(Byte) /\ Len(Flat(q)) \in Nat
  BY FlatAppend, LenProperties

\* What output leaves of a queue q: every byte of it is in the kernel or queued.
Sent(q) ==
  /\ wqueue_' \in Seq(Frame) /\ Len(wqueue_') <= Len(q)
  /\ wsize_' \in Nat /\ wstart_' \in Nat
  /\ wsize_' = Len(Flat(wqueue_')) - wstart_'
  /\ Within(wqueue_', wstart_')
  /\ stream' \in Seq(Byte) /\ Len(stream') <= SockBuf
  /\ wfail_' \in BOOLEAN /\ wcb' \in BOOLEAN
  /\ wfail_' => pc = "gone"
  /\ wcb' => wsize_' # 0 \/ wfail_'
  /\ wsize_' # 0 /\ ~wcb' => wstart_' = 0
  /\ pc # "gone" =>
       stream' \o Behind(Flat(wqueue_'), wstart_') = stream \o Behind(Flat(q), wstart_)

LEMMA OutputDoes ==
  ASSUME NEW q \in Seq(Frame), Len(q) <= MaxPut, NEW size \in Nat, NEW cbset \in BOOLEAN,
         size = Len(Flat(q)) - wstart_, Within(q, wstart_), wstart_ \in Nat,
         stream \in Seq(Byte), Len(stream) <= SockBuf,
         wfail_ \in BOOLEAN, wfail_ => pc = "gone",
         wcb = cbset, ~cbset => wstart_ = 0, pc # "gone" => size # 0,
         output(q, size, cbset)
  PROVE  Sent(q)
<1>1. CASE Writes(q, size, cbset)
  <2> DEFINE offered == Behind(Bytes[First(q, MaxIov)], wstart_)
  <2>1. PICK n \in 1..Len(offered) :
          /\ Len(stream) + n <= SockBuf
          /\ stream' = stream \o First(offered, n)
          /\ wsize_' = size - n
          /\ pop_wbytes(q, n)
    BY <1>1, Zenon DEF Writes
  <2>2. /\ n \in Nat /\ n > 0 /\ wstart_ + n <= Len(Flat(q))
        /\ First(offered, n) = First(Behind(Flat(q), wstart_), n)
    BY Offered
  <2> HIDE DEF offered
  <2>3. Popped(q, wstart_ + n, wqueue_', wstart_')
    BY <2>1, <2>2, PopWritten
  <2>4. /\ wqueue_' \in Seq(Frame) /\ Len(wqueue_') <= Len(q) /\ wstart_' \in Nat
        /\ Behind(Flat(wqueue_'), wstart_') = Behind(Flat(q), wstart_ + n)
        /\ Len(Flat(wqueue_')) - wstart_' = Len(Flat(q)) - (wstart_ + n)
        /\ Within(wqueue_', wstart_')
    BY <2>3, Zenon DEF Popped
  <2> DEFINE a == Behind(Flat(q), wstart_)
  <2>5. Flat(q) \in Seq(Byte) /\ Len(Flat(q)) \in Nat
    BY FlatLen
  <2>6. /\ a \in Seq(Byte) /\ First(a, n) \in Seq(Byte) /\ Behind(a, n) \in Seq(Byte)
        /\ a = First(a, n) \o Behind(a, n)
        /\ Behind(a, n) = Behind(Flat(q), wstart_ + n)
    <3>1. a \in Seq(Byte) /\ Behind(a, n) = Behind(Flat(q), wstart_ + n)
      BY <2>2, <2>5, Halves, CutTwice
    <3> HIDE DEF a
    <3>2. First(a, n) \in Seq(Byte) /\ Behind(a, n) \in Seq(Byte)
      BY <2>2, <3>1, Halves
    <3>3. a = First(a, n) \o Behind(a, n)
      BY <2>2, <3>1, Joined
    <3> QED
      BY <3>1, <3>2, <3>3
  <2>7. Len(First(a, n)) = n
    <3>1. Len(a) = (IF wstart_ < Len(Flat(q)) THEN Len(Flat(q)) - wstart_ ELSE 0)
      BY <2>5, Halves
    <3>2. n <= Len(a) /\ Len(a) \in Nat
      BY <2>2, <2>5, <3>1
    <3>3. Len(First(a, n)) = (IF n < Len(a) THEN n ELSE Len(a))
      <4> HIDE DEF a
      <4> QED
        BY <2>2, <2>6, Halves
    <3> QED
      BY <2>2, <3>2, <3>3
  <2> HIDE DEF a
  <2>8. stream' \in Seq(Byte) /\ Len(stream') = Len(stream) + n
    <3>1. /\ stream \o First(a, n) \in Seq(Byte)
          /\ Len(stream \o First(a, n)) = Len(stream) + Len(First(a, n))
      BY <2>6, ConcatProperties
    <3> QED
      BY <2>1, <2>2, <2>7, <3>1 DEF a
  <2>9. stream' \o Behind(Flat(wqueue_'), wstart_') = stream \o Behind(Flat(q), wstart_)
    <3>1. stream' = stream \o First(a, n)
      BY <2>1, <2>2 DEF a
    <3>2. (stream \o First(a, n)) \o Behind(a, n) = stream \o (First(a, n) \o Behind(a, n))
      BY <2>6, Assoc, Zenon
    <3> QED
      BY <2>4, <2>6, <3>1, <3>2, Zenon DEF a
  <2>10. wsize_' \in Nat /\ wsize_' = Len(Flat(wqueue_')) - wstart_'
    BY <2>1, <2>2, <2>4, <2>5
  <2>11. ArmWrite(cbset) /\ wfail_' = wfail_
    BY <1>1, Zenon DEF Writes
  <2>12. /\ wcb' \in BOOLEAN /\ (wcb' => wsize_' # 0) /\ (wsize_' # 0 => wcb')
    BY <2>11 DEF ArmWrite
  <2>13. Len(stream') <= SockBuf
    BY <2>1, <2>8
  <2> QED
    BY <2>4, <2>8, <2>9, <2>10, <2>11, <2>12, <2>13, Zenon DEF Sent
<1>2. CASE Refused(q, size)
  <2>1. /\ pc # "gone" /\ wqueue_' = q /\ wsize_' = size /\ stream' = stream
        /\ wstart_' = wstart_ /\ wfail_' = wfail_ /\ wcb' = wcb
    BY <1>2 DEF Refused
  <2> QED
    BY <2>1, LenProperties DEF Sent
<1>3. CASE Fails
  <2>1. /\ wqueue_' = <<>> /\ wsize_' = 0 /\ wstart_' = 0 /\ wfail_' = TRUE
        /\ pc = "gone" /\ stream' = stream /\ wcb' = wcb
    BY <1>3 DEF Fails
  <2>2. <<>> \in Seq(Frame) /\ Len(<<>>) = 0 /\ Flat(<<>>) = <<>> /\ Len(q) \in Nat
    BY EmptySeq, FlatAppend, LenProperties
  <2> QED
    BY <2>1, <2>2 DEF Sent, Within
<1> QED
  BY <1>1, <1>2, <1>3 DEF output

----------------------------------------------------------------------------
(***************************************************************************)
(* The sender's steps.                                                     *)
(***************************************************************************)
\* What the frames that have not arrived are, and their bytes.
LEMMA LeftIs ==
  ASSUME put \in Seq(Frame), taken \in 0..Len(put)
  PROVE  /\ Left \in Seq(Frame) /\ Len(Left) = Len(put) - taken
         /\ Flat(Left) \in Seq(Byte) /\ Len(Flat(Left)) \in Nat
         /\ taken < Len(put) =>
              /\ put[taken + 1] \in Frame
              /\ Behind(put, taken + 1) \in Seq(Frame)
              /\ Flat(Left) = Raw(put[taken + 1]) \o Flat(Behind(put, taken + 1))
              /\ Len(Flat(Left)) >= LenBytes
         /\ taken = Len(put) => Flat(Left) = <<>>
<1>1. Len(put) \in Nat /\ taken \in Nat /\ taken <= Len(put)
  BY LenProperties
<1>2. /\ Left \in Seq(Frame) /\ Len(Left) = Len(put) - taken
      /\ \A i \in 1..Len(Left) : Left[i] = put[taken + i]
  <2>1. /\ Left \in Seq(Frame)
        /\ Len(Left) = (IF taken < Len(put) THEN Len(put) - taken ELSE 0)
        /\ \A i \in 1..Len(Left) : Left[i] = put[taken + i]
    BY <1>1, Halves DEF Left
  <2> QED
    BY <1>1, <2>1
<1>3. Flat(Left) \in Seq(Byte) /\ Len(Flat(Left)) \in Nat
  BY <1>2, FlatLen
<1>4. ASSUME taken < Len(put)
      PROVE  /\ put[taken + 1] \in Frame
             /\ Behind(put, taken + 1) \in Seq(Frame)
             /\ Flat(Left) = Raw(put[taken + 1]) \o Flat(Behind(put, taken + 1))
             /\ Len(Flat(Left)) >= LenBytes
  <2>1. Left # <<>> /\ 1 \in 1..Len(Left)
    BY <1>1, <1>2, <1>4, EmptySeq
  <2>2. Left[1] = put[taken + 1]
    BY <1>2, <2>1
  <2>3. /\ Left[1] \in Frame
        /\ Behind(Left, 1) \in Seq(Frame)
        /\ Flat(Left) = Raw(Left[1]) \o Flat(Behind(Left, 1))
        /\ Len(Flat(Left)) >= raw_size(Left[1])
    BY <1>2, <2>1, FlatHead
  <2>4. Behind(Left, 1) = Behind(put, taken + 1)
    BY <1>1, CutTwice DEF Left
  <2>5. Len(Flat(Left)) >= LenBytes
    <3>1. raw_size(Left[1]) \in Nat /\ raw_size(Left[1]) >= LenBytes /\ LenBytes \in Nat
      BY <2>3, Constants
    <3> QED
      BY <1>3, <2>3, <3>1
  <2> QED
    BY <2>2, <2>3, <2>4, <2>5
<1>5. ASSUME taken = Len(put)
      PROVE  Flat(Left) = <<>>
  <2>1. Len(Left) = 0
    BY <1>1, <1>2, <1>5
  <2>2. Left = <<>>
    BY <1>2, <2>1, EmptySeq
  <2> QED
    BY <2>2, FlatAppend
<1> QED
  BY <1>2, <1>3, <1>4, <1>5

\* A frame more is put.
LEMMA LeftGrows ==
  ASSUME put \in Seq(Frame), taken \in 0..Len(put), NEW f \in Frame
  PROVE  Flat(Behind(Append(put, f), taken)) = Flat(Left) \o Raw(f)
<1>1. Len(put) \in Nat /\ taken \in Nat /\ taken <= Len(put) /\ <<f>> \in Seq(Frame)
  BY LenProperties
<1>2. Left \in Seq(Frame)
  BY LeftIs
<1>3. Append(put, f) = put \o <<f>>
  BY AppendIsConcat
<1>4. Behind(put \o <<f>>, taken) = Left \o <<f>>
  BY <1>1, CutWithin DEF Left
<1>5. Left \o <<f>> = Append(Left, f)
  BY <1>2, AppendIsConcat
<1>6. Flat(Append(Left, f)) = Flat(Left) \o Raw(f)
  BY <1>2, FlatAppend
<1> QED
  BY <1>3, <1>4, <1>5, <1>6, Zenon

\* Bytes x behind those that were due, and behind those that were queued.
LEMMA IntactGrows ==
  ASSUME IInv, UNCHANGED <<object, buffer, taken>>, wopen,
         NEW x, NEW q, q \in Seq(Frame), Sent(q)
  PROVE  x \in Seq(Byte) /\ Behind(Flat(q), wstart_) = Pending \o x
         /\ (~destroyed => Due' = Due \o x)
         => Intact'
<1> SUFFICES (x \in Seq(Byte) /\ Behind(Flat(q), wstart_) = Pending \o x
              /\ (~destroyed => Due' = Due \o x))
             => (~destroyed' => (\E rest \in Seq(Byte) : Continues(rest))')
  BY DEF Intact
<1>1. ASSUME x \in Seq(Byte), Behind(Flat(q), wstart_) = Pending \o x,
             ~destroyed => Due' = Due \o x, ~destroyed'
      PROVE  (\E rest \in Seq(Byte) : Continues(rest))'
  <2>1. ~destroyed /\ got' = got
    BY <1>1 DEF object, buffer
  <2>2. pc # "gone"
    BY <2>1 DEF IInv, Control
  <2>3. PICK rest \in Seq(Byte) : Continues(rest)
    BY <2>1 DEF IInv, Intact
  <2>4. Due = (got \o stream) \o Pending /\ rest = Pending
    BY <2>3 DEF Continues
  <2> DEFINE p == Behind(Flat(wqueue_'), wstart_')
  <2>5. /\ got \in Seq(Byte) /\ stream \in Seq(Byte) /\ Pending \in Seq(Byte)
        /\ stream' \in Seq(Byte) /\ p \in Seq(Byte)
        /\ got \o stream \in Seq(Byte) /\ Pending \o x \in Seq(Byte)
    <3>1. got \in Seq(Byte) /\ stream \in Seq(Byte) /\ stream' \in Seq(Byte)
      BY DEF IInv, StreamOK, Sent
    <3>2. Pending \in Seq(Byte)
      BY <2>3, <2>4
    <3>3. p \in Seq(Byte)
      <4>1. Flat(wqueue_') \in Seq(Byte) /\ wstart_' \in Nat
        BY FlatLen DEF Sent
      <4> QED
        BY <4>1, Halves
    <3>4. got \o stream \in Seq(Byte) /\ Pending \o x \in Seq(Byte)
      BY <1>1, <3>1, <3>2, ConcatProperties
    <3> QED
      BY <3>1, <3>2, <3>3, <3>4
  <2>6. stream' \o p = stream \o (Pending \o x)
    BY <1>1, <2>2, Zenon DEF Sent
  <2> HIDE DEF p
  <2>7. Due' = ((got \o stream) \o Pending) \o x
    BY <1>1, <2>1, <2>4
  <2>8. ((got \o stream) \o Pending) \o x = (got \o stream') \o p
    <3>1. got \o stream \in Seq(Byte) /\ Pending \in Seq(Byte) /\ x \in Seq(Byte)
      BY <1>1, <2>5, Zenon
    <3>2. got \in Seq(Byte) /\ stream \in Seq(Byte) /\ Pending \o x \in Seq(Byte)
      BY <2>5, Zenon
    <3>3. got \in Seq(Byte) /\ stream' \in Seq(Byte) /\ p \in Seq(Byte)
      BY <2>5, Zenon
    <3>4. ((got \o stream) \o Pending) \o x = (got \o stream) \o (Pending \o x)
      BY <3>1, Assoc, ZenonT(40)
    <3>5. (got \o stream) \o (Pending \o x) = got \o (stream \o (Pending \o x))
      BY <3>2, Assoc, Zenon
    <3>6. (got \o stream') \o p = got \o (stream' \o p)
      BY <3>3, Assoc, ZenonT(40)
    <3> QED
      BY <2>6, <3>4, <3>5, <3>6, Zenon
  <2>9. Due' = (got' \o stream') \o p
    BY <2>1, <2>7, <2>8, Zenon
  <2>10. p = Pending'
    BY DEF p, Pending
  <2> QED
    BY <2>5, <2>9, <2>10 DEF Continues
<1> QED
  BY <1>1

\* What output leaves of a queue keeps the invariant.
LEMMA SentKeeps ==
  ASSUME IInv, NEW q \in Seq(Frame), Sent(q), wopen, wopen' = wopen,
         UNCHANGED <<object, buffer, pc, round, after, history>>,
         put' \in Seq(Frame), Len(put') <= MaxPut, Len(q) <= Len(put'),
         Len(put) <= Len(put'), \A i \in 1..Len(put) : put'[i] = put[i],
         Intact'
  PROVE  IInv'
<1>1. SenderOK'
  <2>1. Len(wqueue_') <= Len(put')
    <3>1. Len(wqueue_') \in Nat /\ Len(q) \in Nat /\ Len(put') \in Nat
      BY LenProperties DEF Sent
    <3> QED
      BY <3>1 DEF Sent
  <2> QED
    BY <2>1, Zenon DEF SenderOK, Sent, IInv
<1>2. StreamOK'
  <2>1. taken' = taken /\ rdmsg_' = rdmsg_ /\ got' = got
    BY DEF buffer, history
  <2>2. taken \in 0..Len(put')
    <3>1. Len(put) \in Nat /\ Len(put') \in Nat
      BY LenProperties DEF IInv, SenderOK
    <3> QED
      BY <3>1 DEF IInv, StreamOK
  <2> QED
    BY <2>1, <2>2, Zenon DEF StreamOK, Sent, IInv
<1>3. Control'
  <2>1. Control /\ wfail_' => pc = "gone"
    BY DEF IInv, Sent
  <2> QED
    BY <2>1, Zenon DEF IInv, Control, Sent, object, history
<1>4. Placed'
  <2>1. taken' = taken /\ rdmsg_' = rdmsg_ /\ destroyed' = destroyed
    BY DEF buffer, history, object
  <2>2. ASSUME ~destroyed, rdmsg_ # NoMsg
        PROVE  taken < Len(put') /\ rdmsg_ = len[put'[taken + 1]]
    <3>1. taken < Len(put) /\ rdmsg_ = len[put[taken + 1]]
      BY <2>2 DEF IInv, Placed
    <3>2. taken + 1 \in 1..Len(put) /\ taken < Len(put')
      <4>1. Len(put) \in Nat /\ Len(put') \in Nat /\ taken \in Nat
        BY LenProperties DEF IInv, SenderOK, StreamOK
      <4> QED
        BY <3>1, <4>1
    <3> QED
      BY <3>1, <3>2
  <2> QED
    BY <2>1, <2>2, Zenon DEF Placed
<1> QED
  BY <1>1, <1>2, <1>3, <1>4 DEF IInv

\* A queue with one frame more.
LEMMA QueueGrows ==
  ASSUME IInv, NEW f \in Frame
  PROVE  LET q == Append(wqueue_, f) IN
         /\ q \in Seq(Frame) /\ Len(q) = Len(wqueue_) + 1
         /\ Raw(f) \in Seq(Byte) /\ raw_size(f) \in Nat /\ raw_size(f) > 0
         /\ Len(Flat(q)) = Len(Flat(wqueue_)) + raw_size(f)
         /\ Behind(Flat(q), wstart_) = Pending \o Raw(f)
         /\ Within(q, wstart_)
         /\ (wsize_ = 0 => wqueue_ = <<>>)
<1> DEFINE q == Append(wqueue_, f)
<1>1. /\ wqueue_ \in Seq(Frame) /\ wsize_ \in Nat /\ wstart_ \in Nat
      /\ wsize_ = Len(Flat(wqueue_)) - wstart_ /\ Within(wqueue_, wstart_)
  BY DEF IInv, SenderOK
<1>2. /\ Raw(f) \in Seq(Byte) /\ Len(Raw(f)) = raw_size(f)
      /\ raw_size(f) \in Nat /\ raw_size(f) > 0
  BY RawBytes, Constants
<1>3. Flat(wqueue_) \in Seq(Byte) /\ Len(Flat(wqueue_)) \in Nat
  BY <1>1, FlatLen
<1>4. /\ q \in Seq(Frame) /\ Len(q) = Len(wqueue_) + 1 /\ q # <<>>
      /\ Flat(q) = Flat(wqueue_) \o Raw(f)
      /\ Head(q) = IF wqueue_ = <<>> THEN f ELSE Head(wqueue_)
  BY <1>1, AppendProperties, FlatAppend, HeadTailAppend
<1> HIDE DEF q
<1>5. Len(Flat(q)) = Len(Flat(wqueue_)) + raw_size(f)
  <2>1. Len(Flat(wqueue_) \o Raw(f)) = Len(Flat(wqueue_)) + Len(Raw(f))
    BY <1>2, <1>3, ConcatProperties
  <2> QED
    BY <1>2, <1>4, <2>1
<1>6. Behind(Flat(q), wstart_) = Pending \o Raw(f)
  <2>1. wstart_ <= Len(Flat(wqueue_))
    BY <1>1, <1>3
  <2>2. Behind(Flat(wqueue_) \o Raw(f), wstart_) = Behind(Flat(wqueue_), wstart_) \o Raw(f)
    BY <1>1, <1>2, <1>3, <2>1, CutWithin
  <2> QED
    BY <1>4, <2>2, Zenon DEF Pending
<1>7. Within(q, wstart_)
  <2>1. CASE wqueue_ = <<>>
    BY <1>1, <1>2, <1>4, <2>1 DEF Within
  <2>2. CASE wqueue_ # <<>>
    <3>1. Head(q) = Head(wqueue_) /\ wstart_ < raw_size(Head(wqueue_))
      BY <1>1, <1>4, <2>2 DEF Within
    <3> QED
      BY <1>4, <3>1 DEF Within
  <2> QED
    BY <2>1, <2>2
<1>8. ASSUME wsize_ = 0
      PROVE  wqueue_ = <<>>
  <2>1. SUFFICES ASSUME wqueue_ # <<>>  PROVE FALSE
    OBVIOUS
  <2>2. wstart_ < raw_size(Head(wqueue_))
    BY <1>1, <2>1 DEF Within
  <2>3. /\ Len(Flat(wqueue_)) >= raw_size(wqueue_[1])
        /\ Head(wqueue_) = wqueue_[1] /\ wqueue_[1] \in Frame
    BY <1>1, <2>1, FlatHead
  <2>4. raw_size(wqueue_[1]) \in Nat
    BY <2>3, Constants
  <2> QED
    BY <1>1, <1>3, <1>8, <2>2, <2>3, <2>4
<1> QED
  BY <1>2, <1>4, <1>5, <1>6, <1>7, <1>8, Zenon DEF q

LEMMA PutSent ==
  ASSUME IInv, NEW f \in Frame, putmsg(f)
  PROVE  Sent(Append(wqueue_, f))
<1> DEFINE q == Append(wqueue_, f)
           size == wsize_ + raw_size(f)
<1>1. /\ q \in Seq(Frame) /\ Len(q) = Len(wqueue_) + 1
      /\ raw_size(f) \in Nat /\ raw_size(f) > 0
      /\ Len(Flat(q)) = Len(Flat(wqueue_)) + raw_size(f)
      /\ Within(q, wstart_)
      /\ wsize_ = 0 => wqueue_ = <<>>
  BY QueueGrows
<1>2. /\ wqueue_ \in Seq(Frame) /\ wsize_ \in Nat /\ wstart_ \in Nat
      /\ wfail_ \in BOOLEAN /\ wcb \in BOOLEAN
      /\ Len(put) <= MaxPut /\ Len(wqueue_) <= Len(put)
      /\ wsize_ = Len(Flat(wqueue_)) - wstart_
      /\ wcb => wsize_ # 0 \/ wfail_
      /\ wsize_ # 0 /\ ~wcb => wstart_ = 0
      /\ Within(wqueue_, wstart_)
  BY Zenon DEF IInv, SenderOK
<1>3. stream \in Seq(Byte) /\ Len(stream) <= SockBuf /\ (wfail_ => pc = "gone")
  BY DEF IInv, StreamOK, Control
<1>4. /\ wopen /\ ~wfail_ /\ Len(put) < MaxPut
      /\ IF wsize_ = 0
         THEN output(q, size, FALSE)
         ELSE /\ wqueue_' = q /\ wsize_' = size
              /\ UNCHANGED <<stream, wstart_, wfail_, wcb>>
  BY Zenon DEF putmsg
<1>5. Len(Flat(wqueue_)) \in Nat /\ Len(wqueue_) \in Nat /\ Len(put) \in Nat /\ MaxPut \in Nat
  BY <1>2, FlatLen, LenProperties, Constants DEF IInv, SenderOK
<1>6. Len(q) <= MaxPut /\ size \in Nat /\ size = Len(Flat(q)) - wstart_ /\ size # 0
  BY <1>1, <1>2, <1>4, <1>5
<1> HIDE DEF q, size
<1>7. CASE wsize_ = 0
  <2>1. output(q, size, FALSE)
    BY <1>4, <1>7
  <2>2. wstart_ = 0 /\ wcb = FALSE
    BY <1>1, <1>2, <1>4, <1>7 DEF Within
  <2>3. Sent(q)
    BY <1>1, <1>2, <1>3, <1>6, <2>1, <2>2, OutputDoes
  <2> QED
    BY <2>3 DEF q
<1>8. CASE wsize_ # 0
  <2>1. /\ wqueue_' = q /\ wsize_' = size /\ stream' = stream /\ wstart_' = wstart_
        /\ wfail_' = wfail_ /\ wcb' = wcb
    BY <1>4, <1>8
  <2>2. Len(wqueue_') <= Len(q)
    BY <1>1, <1>5, <2>1
  <2>3. wsize_' # 0 /\ ~wcb' => wstart_' = 0
    BY <1>2, <1>8, <2>1
  <2>4. wsize_' \in Nat /\ wsize_' # 0 /\ wsize_' = Len(Flat(wqueue_')) - wstart_'
    BY <1>6, <2>1
  <2>5. Sent(q)
    BY <1>1, <1>2, <1>3, <2>1, <2>2, <2>3, <2>4, Zenon DEF Sent
  <2> QED
    BY <2>5 DEF q
<1> QED
  BY <1>7, <1>8

LEMMA PutStep ==
  ASSUME IInv, NEW f \in Frame, putmsg(f)
  PROVE  IInv'
<1> DEFINE q == Append(wqueue_, f)
<1>1. /\ q \in Seq(Frame) /\ Len(q) = Len(wqueue_) + 1
      /\ Raw(f) \in Seq(Byte)
      /\ Behind(Flat(q), wstart_) = Pending \o Raw(f)
  BY QueueGrows, Zenon
<1>2. Sent(q)
  BY PutSent
<1> HIDE DEF q
<1>3. /\ wopen /\ wopen' = wopen /\ Len(put) < MaxPut /\ put' = Append(put, f)
      /\ UNCHANGED <<object, buffer, pc, round, after, history>>
  BY DEF putmsg
<1>4. /\ put \in Seq(Frame) /\ Len(wqueue_) <= Len(put) /\ taken \in 0..Len(put)
  BY DEF IInv, SenderOK, StreamOK
<1>5. Len(put) \in Nat /\ Len(wqueue_) \in Nat /\ MaxPut \in Nat
  BY LenProperties, Constants DEF IInv, SenderOK
<1>6. /\ put' \in Seq(Frame) /\ Len(put') = Len(put) + 1
      /\ \A i \in 1..Len(put) : put'[i] = put[i]
  BY <1>3, <1>4, AppendProperties
<1>7. ASSUME ~destroyed
      PROVE  Due' = Due \o Raw(f)
  <2>1. taken' = taken /\ rdmsg_' = rdmsg_
    BY <1>3 DEF history, buffer
  <2>2. Flat(Left') = Flat(Left) \o Raw(f)
    <3>1. Left' = Behind(Append(put, f), taken)
      BY <1>3, <2>1, Zenon DEF Left
    <3> QED
      BY <1>4, <3>1, LeftGrows
  <2>3. CASE rdmsg_ = NoMsg
    BY <2>1, <2>2, <2>3, Zenon DEF Due
  <2>4. CASE rdmsg_ # NoMsg
    <3>1. taken < Len(put)
      BY <1>7, <2>4 DEF IInv, Placed
    <3>2. Flat(Left) \in Seq(Byte) /\ LenBytes <= Len(Flat(Left)) /\ LenBytes \in Nat
      BY <1>4, <3>1, LeftIs, Constants
    <3>3. Behind(Flat(Left) \o Raw(f), LenBytes) = Behind(Flat(Left), LenBytes) \o Raw(f)
      BY <1>1, <3>2, CutWithin
    <3> QED
      BY <2>1, <2>2, <2>4, <3>3, Zenon DEF Due
  <2> QED
    BY <2>3, <2>4
<1>8. Intact'
  <2>1. UNCHANGED <<object, buffer, taken>> /\ wopen
    BY <1>3 DEF history
  <2> QED
    BY <1>1, <1>2, <1>7, <2>1, IntactGrows
<1>9. Len(put') <= MaxPut /\ Len(q) <= Len(put') /\ Len(put) <= Len(put')
  BY <1>1, <1>3, <1>4, <1>5, <1>6
<1> QED
  BY <1>1, <1>2, <1>3, <1>6, <1>8, <1>9, SentKeeps

LEMMA WriteStep ==
  ASSUME IInv, WriteReady
  PROVE  IInv'
<1>1. /\ wopen /\ wopen' = wopen /\ wcb /\ output(wqueue_, wsize_, TRUE) /\ put' = put
      /\ UNCHANGED <<object, buffer, pc, round, after, history>>
  BY DEF WriteReady
<1>2. /\ wqueue_ \in Seq(Frame) /\ wsize_ \in Nat /\ wstart_ \in Nat
      /\ wfail_ \in BOOLEAN /\ wcb \in BOOLEAN
      /\ put \in Seq(Frame) /\ Len(put) <= MaxPut /\ Len(wqueue_) <= Len(put)
      /\ wsize_ = Len(Flat(wqueue_)) - wstart_
      /\ wcb => wsize_ # 0 \/ wfail_
      /\ Within(wqueue_, wstart_)
  BY Zenon DEF IInv, SenderOK
<1>3. stream \in Seq(Byte) /\ Len(stream) <= SockBuf /\ (wfail_ => pc = "gone")
  BY DEF IInv, StreamOK, Control
<1>4. Len(wqueue_) <= MaxPut
  <2>1. Len(wqueue_) \in Nat /\ Len(put) \in Nat /\ MaxPut \in Nat
    BY <1>2, LenProperties, Constants
  <2> QED
    BY <1>2, <2>1
<1>5. wcb = TRUE /\ (pc # "gone" => wsize_ # 0)
  BY <1>1, <1>2, <1>3
<1>6. Sent(wqueue_)
  BY <1>1, <1>2, <1>3, <1>4, <1>5, OutputDoes
<1>7. Intact'
  <2>1. Pending \in Seq(Byte)
    BY <1>2, FlatLen, Halves DEF Pending
  <2>2. <<>> \in Seq(Byte) /\ Pending \o <<>> = Pending
    BY <2>1, EmptySeq, ConcatEmptySeq
  <2>3. Due' = Due /\ Due \in Seq(Byte)
    <3>1. Due' = Due
      BY <1>1 DEF Due, Left, history, buffer
    <3>2. Flat(Left) \in Seq(Byte) /\ LenBytes \in Nat
      BY LeftIs, Constants DEF IInv, SenderOK, StreamOK
    <3>3. Behind(Flat(Left), LenBytes) \in Seq(Byte)
      BY <3>2, Halves
    <3> QED
      BY <3>1, <3>2, <3>3 DEF Due
  <2>4. Due' = Due \o <<>>
    BY <2>3, ConcatEmptySeq
  <2>5. UNCHANGED <<object, buffer, taken>>
    BY <1>1 DEF history
  <2>6. Behind(Flat(wqueue_), wstart_) = Pending \o <<>>
    BY <2>2 DEF Pending
  <2> QED
    BY <1>1, <1>2, <1>6, <2>2, <2>4, <2>5, <2>6, IntactGrows
<1>8. /\ put' \in Seq(Frame) /\ Len(put') <= MaxPut /\ Len(wqueue_) <= Len(put')
      /\ Len(put) <= Len(put') /\ \A i \in 1..Len(put) : put'[i] = put[i]
  <2>1. Len(put) \in Nat
    BY <1>2, LenProperties
  <2> QED
    BY <1>1, <1>2, <2>1
<1> QED
  BY <1>1, <1>2, <1>6, <1>7, <1>8, SentKeeps

LEMMA DestroySenderStep ==
  ASSUME IInv, DestroySender
  PROVE  IInv'
<1>1. /\ ~wopen' /\ wopen' \in BOOLEAN /\ ~wcb' /\ wcb' \in BOOLEAN
      /\ wqueue_' = <<>> /\ wsize_' = 0 /\ wstart_' = 0
      /\ wfail_' = wfail_ /\ put' = put /\ stream' = stream
      /\ UNCHANGED <<object, buffer, pc, round, after, history>>
  BY DEF DestroySender
<1>2. <<>> \in Seq(Frame) /\ Len(<<>>) = 0 /\ Flat(<<>>) = <<>>
  BY EmptySeq, FlatAppend
<1>3. SenderOK'
  <2>1. /\ put \in Seq(Frame) /\ Len(put) <= MaxPut /\ Len(put) \in Nat
        /\ wfail_ \in BOOLEAN
    BY LenProperties DEF IInv, SenderOK
  <2>2. wqueue_' \in Seq(Frame) /\ Len(wqueue_') = 0 /\ Len(Flat(wqueue_')) = 0
    BY <1>1, <1>2, Zenon
  <2>3. Within(wqueue_', wstart_')
    BY <1>1 DEF Within
  <2>4. /\ wsize_' \in Nat /\ wstart_' \in Nat /\ wsize_' = Len(Flat(wqueue_')) - wstart_'
        /\ Len(wqueue_') <= Len(put') /\ wsize_' = 0
    BY <1>1, <2>1, <2>2
  <2> QED
    BY <1>1, <2>1, <2>2, <2>3, <2>4, Zenon DEF SenderOK
<1>4. StreamOK'
  BY <1>1 DEF IInv, StreamOK, buffer, history
<1>5. Control'
  <2>1. Control
    BY DEF IInv
  <2> QED
    BY <1>1, <2>1, Zenon DEF Control, object, history
<1>6. Placed'
  BY <1>1, Zenon DEF IInv, Placed, object, buffer, history
<1>7. Intact'
  <2>1. SUFFICES ASSUME ~destroyed'
                 PROVE  (\E rest \in Seq(Byte) : Continues(rest))'
    BY DEF Intact
  <2>2. PICK rest \in Seq(Byte) : Continues(rest)
    BY <1>1, <2>1 DEF IInv, Intact, object
  <2>3. Due' = Due /\ (got \o stream)' = got \o stream
    BY <1>1 DEF Due, Left, buffer, history
  <2> QED
    BY <1>1, <2>2, <2>3, Zenon DEF Continues
<1> QED
  BY <1>3, <1>4, <1>5, <1>6, <1>7 DEF IInv

----------------------------------------------------------------------------
(***************************************************************************)
(* The receiver's steps.                                                   *)
(***************************************************************************)
\* A step that moves no byte.
LEMMA Steady ==
  ASSUME IInv, UNCHANGED <<sender, stream, buffer, taken, destroyed>>
  PROVE  SenderOK' /\ StreamOK' /\ Placed' /\ Intact'
<1>1. /\ wqueue_' = wqueue_ /\ wsize_' = wsize_ /\ wstart_' = wstart_ /\ wfail_' = wfail_
      /\ wcb' = wcb /\ wopen' = wopen /\ put' = put /\ stream' = stream
      /\ rdmsg_' = rdmsg_ /\ got' = got /\ taken' = taken /\ destroyed' = destroyed
  BY DEF sender, buffer
<1>2. SenderOK'
  <2>1. SenderOK
    BY DEF IInv
  <2> QED
    BY <1>1, <2>1, Zenon DEF SenderOK
<1>3. StreamOK'
  <2>1. StreamOK
    BY DEF IInv
  <2> QED
    BY <1>1, <2>1, Zenon DEF StreamOK
<1>4. Placed'
  <2>1. Placed
    BY DEF IInv
  <2>2. len[put'[taken' + 1]] = len[put[taken + 1]] /\ Len(put') = Len(put)
    BY <1>1
  <2> QED
    BY <1>1, <2>1, <2>2 DEF Placed
<1>5. Intact'
  <2>1. SUFFICES ASSUME ~destroyed
                 PROVE  (\E rest \in Seq(Byte) : Continues(rest))'
    BY <1>1 DEF Intact
  <2>2. PICK rest \in Seq(Byte) : Continues(rest)
    BY <2>1 DEF IInv, Intact
  <2>3. Due' = Due /\ Pending' = Pending
    BY <1>1 DEF Due, Left, Pending
  <2> QED
    BY <1>1, <2>2, <2>3, Zenon DEF Continues
<1> QED
  BY <1>2, <1>3, <1>4, <1>5

\* Where the program is, in the form that the steps need.
LEMMA Where ==
  ASSUME IInv
  PROVE  /\ rcb_ \in BOOLEAN /\ armed \in BOOLEAN /\ destroyed \in BOOLEAN
         /\ ended \in BOOLEAN /\ threw \in BOOLEAN /\ wfail_ \in BOOLEAN
         /\ round \in 0..3 /\ after \in {"length", "input", "poll"}
         /\ received \in Seq(Seq(Byte))
         /\ pc \in {"poll", "input", "length"} => ~destroyed /\ ~wfail_
         /\ pc = "callback" => ~wfail_ /\ (after # "poll" => round < 3)
         /\ pc = "length" => round < 3
<1>1. Control
  BY DEF IInv
<1>2. wfail_ \in BOOLEAN
  BY DEF IInv, SenderOK
<1> QED
  BY <1>1, <1>2 DEF Control

\* How a step leaves the program, if it was not gone.
Goes ==
  /\ rcb_' \in BOOLEAN /\ armed' \in BOOLEAN /\ destroyed' \in BOOLEAN
  /\ ended' \in BOOLEAN /\ threw' \in BOOLEAN
  /\ round' \in 0..3 /\ after' \in {"length", "input", "poll"}
  /\ received' \in Seq(Seq(Byte))
  /\ \/ pc' \in {"poll", "input"} /\ ~destroyed'
     \/ pc' = "length" /\ ~destroyed' /\ round' < 3
     \/ pc' = "callback" /\ (after' # "poll" => round' < 3)
     \/ pc' = "gone" /\ destroyed'

LEMMA GoesControl ==
  ASSUME ~wfail_', Goes
  PROVE  Control'
  BY DEF Goes, Control

\* Where rcb_ is called, or throws because it is empty.
LEMMA CallGoes ==
  ASSUME IInv, pc \in {"input", "length"}, UNCHANGED destroyed,
         rcb_' = rcb_, armed' \in BOOLEAN,
         NEW then \in {"length", "input", "poll"}, then # "poll" => round < 3,
         \/ CallRcbNull(then)
         \/ \E m \in Seq(Byte) : CallRcb(m, then)
  PROVE  Goes
<1>1. /\ rcb_ \in BOOLEAN /\ ended \in BOOLEAN /\ threw \in BOOLEAN /\ ~destroyed
      /\ destroyed' = destroyed /\ destroyed \in BOOLEAN /\ round \in 0..3 /\ received \in Seq(Seq(Byte))
  BY Where
<1>2. ended' \in BOOLEAN /\ threw' \in BOOLEAN /\ received' \in Seq(Seq(Byte))
  <2>1. CASE CallRcbNull(then)
    BY <1>1, <2>1 DEF CallRcbNull
  <2>2. CASE \E m \in Seq(Byte) : CallRcb(m, then)
    <3>1. PICK m \in Seq(Byte) : CallRcb(m, then)
      BY <2>2
    <3>2. Append(received, m) \in Seq(Seq(Byte))
      BY <1>1, AppendProperties
    <3> QED
      BY <1>1, <3>1, <3>2, Zenon DEF CallRcb
  <2> QED
    BY <2>1, <2>2
<1>3. Call(then) \/ Return
  <2>1. CASE CallRcbNull(then)
    BY <2>1, Zenon DEF CallRcbNull
  <2>2. CASE \E m \in Seq(Byte) : CallRcb(m, then)
    BY <2>2, Zenon DEF CallRcb
  <2> QED
    BY <2>1, <2>2, Zenon
<1>4. rcb_' \in BOOLEAN /\ destroyed' \in BOOLEAN /\ ~destroyed'
  <2>1. ~destroyed'
    BY <1>1
  <2> QED
    BY <1>1, <2>1
<1>5. CASE Call(then)
  BY <1>1, <1>2, <1>4, <1>5 DEF Goes, Call
<1>6. CASE Return
  BY <1>1, <1>2, <1>4, <1>6 DEF Goes, Return
<1> QED
  BY <1>3, <1>5, <1>6

\* The steps that leave every byte where it is.
Still ==
  \/ Input \/ LeaveInput \/ ReadNothing \/ WouldBlock \/ EndOfFile
  \/ LengthMissing \/ Fragment \/ NoMemory \/ TooLong
  \/ CallbackReturns \/ CallbackThrows \/ \E on \in BOOLEAN : setrcb(on)

LEMMA StillStep ==
  ASSUME IInv, Still
  PROVE  IInv'
<1>1. UNCHANGED <<sender, stream, buffer, taken, destroyed>>
  <2>1. CASE Input
    BY <2>1 DEF Input, receiver, object, history
  <2>2. CASE LeaveInput
    BY <2>2 DEF LeaveInput, receiver, object, history
  <2>3. CASE ReadNothing
    BY <2>3 DEF ReadNothing, receiver, object, history
  <2>4. CASE WouldBlock
    BY <2>4 DEF WouldBlock, receiver, object, history
  <2>5. CASE EndOfFile
    BY <2>5 DEF EndOfFile, CallRcbNull, object
  <2>6. CASE LengthMissing
    BY <2>6 DEF LengthMissing, receiver, object, history
  <2>7. CASE Fragment
    BY <2>7 DEF Fragment, CallRcbNull, object
  <2>8. CASE NoMemory
    BY <2>8 DEF NoMemory, CallRcbNull, object
  <2>9. CASE TooLong
    BY <2>9 DEF TooLong, CallRcbNull
  <2>10. CASE CallbackReturns
    BY <2>10 DEF CallbackReturns, receiver, object, history
  <2>11. CASE CallbackThrows
    BY <2>11 DEF CallbackThrows, object
  <2>12. CASE \E on \in BOOLEAN : setrcb(on)
    BY <2>12 DEF setrcb, history
  <2> QED
    BY <2>1, <2>2, <2>3, <2>4, <2>5, <2>6, <2>7, <2>8, <2>9, <2>10, <2>11, <2>12 DEF Still
<1>2. wfail_' = wfail_ /\ destroyed' = destroyed
  BY <1>1 DEF sender
<1> DEFINE Same == UNCHANGED <<rcb_, destroyed, received, ended, threw>>
<1>3. CASE pc = "gone"
  BY <1>3 DEF Still, Input, LeaveInput, ReadNothing, WouldBlock, EndOfFile, LengthMissing,
              Fragment, NoMemory, TooLong, CallbackReturns, CallbackThrows, setrcb
<1>4. CASE pc # "gone"
  <2> DEFINE Bools == /\ rcb_ \in BOOLEAN /\ armed \in BOOLEAN /\ destroyed \in BOOLEAN
                      /\ ended \in BOOLEAN /\ threw \in BOOLEAN
  <2>1. Bools /\ received \in Seq(Seq(Byte)) /\ round \in 0..3
        /\ after \in {"length", "input", "poll"}
    BY Where, Zenon
  <2>2. Goes
    <3>1. CASE Input
      <4>1. /\ pc = "poll" /\ pc' = "input" /\ round' = 0 /\ after' = after
            /\ UNCHANGED <<object, history>>
        BY <3>1 DEF Input, receiver
      <4>2. ~destroyed
        BY <4>1, Where
      <4>3. round' \in 0..3 /\ pc' \in {"poll", "input"}
        BY <4>1
      <4> QED
        BY <2>1, <4>1, <4>2, <4>3, Zenon DEF Goes, object, history
    <3>2. CASE LeaveInput \/ WouldBlock
      <4>1. pc = "input" /\ Return /\ UNCHANGED <<object, history>>
        BY <3>2 DEF LeaveInput, WouldBlock, receiver
      <4>2. ~destroyed
        BY <4>1, Where
      <4> QED
        BY <2>1, <4>1, <4>2 DEF Goes, object, history, Return
    <3>3. CASE LengthMissing
      <4>1. pc = "length" /\ Return /\ UNCHANGED <<object, history>>
        BY <3>3 DEF LengthMissing, receiver
      <4>2. ~destroyed
        BY <4>1, Where
      <4> QED
        BY <2>1, <4>1, <4>2 DEF Goes, object, history, Return
    <3>4. CASE ReadNothing
      <4>1. /\ pc = "input" /\ round < 3 /\ pc' = "length" /\ round' = round /\ after' = after
            /\ UNCHANGED <<object, history>>
        BY <3>4 DEF ReadNothing, receiver
      <4>2. ~destroyed
        BY <4>1, Where
      <4> QED
        BY <2>1, <4>1, <4>2 DEF Goes, object, history
    <3>5. CASE EndOfFile
      BY <1>2, <2>1, <3>5, CallGoes DEF EndOfFile, object
    <3>6. CASE Fragment
      BY <1>2, <2>1, <3>6, CallGoes DEF Fragment, object
    <3>7. CASE NoMemory
      <4>1. pc = "length" /\ rcb_' = rcb_ /\ armed' = armed /\ CallRcbNull("input")
        BY <3>7 DEF NoMemory, object
      <4>2. round < 3
        BY <4>1, Where
      <4> QED
        BY <1>2, <2>1, <4>1, <4>2, CallGoes
    <3>8. CASE TooLong
      <4>1. pc = "length" /\ rcb_' = rcb_ /\ armed' = FALSE /\ CallRcbNull("input")
        BY <3>8 DEF TooLong
      <4>2. round < 3
        BY <4>1, Where
      <4> QED
        BY <1>2, <4>1, <4>2, CallGoes
    <3>9. CASE CallbackReturns
      <4>1. /\ pc = "callback" /\ pc' = (IF destroyed THEN "gone" ELSE after)
            /\ round' = (CASE pc' = "input" -> round + 1 [] pc' = "length" -> round [] OTHER -> 0)
            /\ after' = "poll"
            /\ UNCHANGED <<object, history>>
        BY <3>9 DEF CallbackReturns, receiver
      <4>2. after # "poll" => round < 3
        BY <4>1, Where
      <4>3. round' \in 0..3 /\ (pc' = "length" => round' < 3)
        BY <2>1, <4>1, <4>2
      <4>4. \/ pc' \in {"poll", "input"} /\ ~destroyed
            \/ pc' = "length" /\ ~destroyed
            \/ pc' = "gone" /\ destroyed
        BY <2>1, <4>1
      <4>5. /\ rcb_' \in BOOLEAN /\ armed' \in BOOLEAN /\ destroyed' \in BOOLEAN
            /\ ended' \in BOOLEAN /\ threw' \in BOOLEAN /\ received' \in Seq(Seq(Byte))
        BY <2>1, <4>1, Zenon DEF object, history
      <4> QED
        BY <1>2, <4>1, <4>3, <4>4, <4>5, Zenon DEF Goes
    <3>10. CASE CallbackThrows
      <4>1. /\ pc' = (IF destroyed THEN "gone" ELSE "poll") /\ round' = 0 /\ after' = "poll"
            /\ threw' = TRUE /\ UNCHANGED <<object, received, ended>>
        BY <3>10 DEF CallbackThrows
      <4> QED
        BY <2>1, <4>1 DEF Goes, object
    <3>11. CASE \E on \in BOOLEAN : setrcb(on)
      <4>1. PICK on \in BOOLEAN : setrcb(on)
        BY <3>11
      <4>2. /\ pc \in {"poll", "callback"} /\ ~destroyed /\ rcb_' = on /\ armed' = on
            /\ UNCHANGED <<destroyed, pc, round, after, history>>
        BY <4>1 DEF setrcb
      <4>3. pc = "callback" => (after # "poll" => round < 3)
        BY Where
      <4>4. rcb_' \in BOOLEAN /\ armed' \in BOOLEAN
        BY <4>2, Zenon
      <4>5. \/ pc' \in {"poll", "input"} /\ ~destroyed'
            \/ pc' = "callback" /\ (after' # "poll" => round' < 3)
        BY <4>2, <4>3
      <4> QED
        BY <2>1, <4>2, <4>4, <4>5, Zenon DEF Goes, history
    <3> QED
      BY <3>1, <3>2, <3>3, <3>4, <3>5, <3>6, <3>7, <3>8, <3>9, <3>10, <3>11 DEF Still
  <2>3. ~wfail_
    BY <1>4 DEF IInv, Control
  <2> QED
    BY <1>1, <1>2, <2>2, <2>3, GoesControl, Steady DEF IInv
<1> QED
  BY <1>3, <1>4


\* The bytes of the body of a frame.
LEMMA BodyBytes ==
  ASSUME NEW f \in Frame
  PROVE  /\ Body(f) = Behind(Raw(f), LenBytes) /\ Body(f) \in Seq(Byte)
         /\ Len(Body(f)) = len[f] /\ LenBytes <= Len(Raw(f))
         /\ Head(First(Raw(f), LenBytes)) = <<f, 1>>
<1>1. /\ Raw(f) \in Seq(Byte) /\ Len(Raw(f)) = raw_size(f)
      /\ \A k \in 1..raw_size(f) : Raw(f)[k] = <<f, k>>
  BY RawBytes
<1>2. LenBytes \in Nat /\ LenBytes > 0 /\ len[f] \in Nat /\ raw_size(f) = LenBytes + len[f]
  BY Constants DEF raw_size
<1>3. Body(f) = Behind(Raw(f), LenBytes)
  BY <1>1, Zenon DEF Body, Behind
<1>4. /\ Behind(Raw(f), LenBytes) \in Seq(Byte)
      /\ Len(Behind(Raw(f), LenBytes)) = len[f]
  <2>1. /\ Behind(Raw(f), LenBytes) \in Seq(Byte)
        /\ Len(Behind(Raw(f), LenBytes)) =
             (IF LenBytes < Len(Raw(f)) THEN Len(Raw(f)) - LenBytes ELSE 0)
    BY <1>1, <1>2, Halves
  <2> QED
    BY <1>1, <1>2, <2>1
<1>5. Head(First(Raw(f), LenBytes)) = <<f, 1>>
  <2> DEFINE h == First(Raw(f), LenBytes)
  <2>1. /\ h \in Seq(Byte) /\ Len(h) = (IF LenBytes < Len(Raw(f)) THEN LenBytes ELSE Len(Raw(f)))
        /\ \A i \in 1..Len(h) : h[i] = Raw(f)[i]
    BY <1>1, <1>2, Halves
  <2>2. Len(h) = LenBytes /\ 1 \in 1..LenBytes /\ 1 \in 1..raw_size(f)
    BY <1>1, <1>2, <2>1
  <2>3. h[1] = <<f, 1>>
    BY <1>1, <2>1, <2>2, Zenon
  <2> HIDE DEF h
  <2>4. h # <<>>
    BY <1>2, <2>1, <2>2, EmptySeq
  <2>5. Head(h) = h[1]
    BY <2>1, <2>4, HeadTailProperties
  <2>6. Head(h) = <<f, 1>>
    BY <2>3, <2>5
  <2> QED
    BY <2>6 DEF h
<1>6. LenBytes <= Len(Raw(f))
  BY <1>1, <1>2
<1> QED
  BY <1>3, <1>4, <1>5, <1>6

\* What is left begins with the length word and the body of its first frame.
LEMMA LeftFront ==
  ASSUME IInv, taken < Len(put)
  PROVE  LET f == put[taken + 1]
             behind == Flat(Behind(put, taken + 1)) IN
         /\ f \in Frame /\ behind \in Seq(Byte)
         /\ Flat(Left) = Raw(f) \o behind
         /\ Behind(Flat(Left), LenBytes) = Body(f) \o behind
<1> DEFINE f == put[taken + 1]
           behind == Flat(Behind(put, taken + 1))
<1>1. put \in Seq(Frame) /\ taken \in 0..Len(put)
  BY DEF IInv, SenderOK, StreamOK
<1>2. f \in Frame /\ Flat(Left) = Raw(f) \o behind /\ behind \in Seq(Byte)
  BY <1>1, LeftIs, FlatLen
<1> HIDE DEF f, behind
<1>3. Behind(Raw(f) \o behind, LenBytes) = Behind(Raw(f), LenBytes) \o behind
  BY <1>2, RawBytes, BodyBytes, Constants, CutWithin
<1>4. Behind(Flat(Left), LenBytes) = Body(f) \o behind
  BY <1>2, <1>3, BodyBytes
<1> QED
  BY <1>2, <1>4 DEF f, behind

\* The length word that was read is that of the next frame; what was put behind it is
\* in the kernel and the queue.
LEMMA Announced ==
  ASSUME IInv, ~destroyed, LengthKnown
  PROVE  /\ taken < Len(put) /\ put[taken + 1] \in Frame /\ nextlen = put[taken + 1]
         /\ \E rest \in Seq(Byte) : /\ Behind(Flat(Left), LenBytes) = stream \o rest
                                    /\ wopen => rest = Pending
<1>1. PICK rest \in Seq(Byte) : Continues(rest)
  BY DEF IInv, Intact
<1>2. /\ got \in Seq(Byte) /\ stream \in Seq(Byte) /\ put \in Seq(Frame)
      /\ taken \in 0..Len(put)
  BY DEF IInv, SenderOK, StreamOK
<1>3. rdmsg_ = NoMsg /\ Len(got) = LenBytes /\ LenBytes \in Nat /\ LenBytes > 0
  BY Constants DEF LengthKnown
<1>4. Flat(Left) = got \o (stream \o rest) /\ stream \o rest \in Seq(Byte)
  <2>1. Flat(Left) = (got \o stream) \o rest
    BY <1>1, <1>3, Zenon DEF Continues, Due
  <2>2. (got \o stream) \o rest = got \o (stream \o rest)
    BY <1>1, <1>2, Assoc, Zenon
  <2>3. stream \o rest \in Seq(Byte)
    BY <1>1, <1>2, ConcatProperties
  <2> QED
    BY <2>1, <2>2, <2>3
<1>5. taken < Len(put)
  <2>1. Len(got \o (stream \o rest)) = Len(got) + Len(stream \o rest)
    BY <1>2, <1>4, ConcatProperties
  <2>2. Len(stream \o rest) \in Nat
    BY <1>4, LenProperties
  <2>3. Len(Flat(Left)) > 0
    BY <1>3, <1>4, <2>1, <2>2
  <2>4. Len(<<>>) = 0
    BY EmptySeq
  <2>5. taken # Len(put)
    BY <1>2, <2>3, <2>4, LeftIs
  <2>6. Len(put) \in Nat
    BY <1>2, LenProperties
  <2> QED
    BY <1>2, <2>5, <2>6
<1> DEFINE f == put[taken + 1]
           behind == Flat(Behind(put, taken + 1))
<1>6. /\ f \in Frame /\ behind \in Seq(Byte)
      /\ Flat(Left) = Raw(f) \o behind
      /\ Behind(Flat(Left), LenBytes) = Body(f) \o behind
  BY <1>5, LeftFront
<1>7. Raw(f) \in Seq(Byte) /\ LenBytes <= Len(Raw(f)) /\ Body(f) = Behind(Raw(f), LenBytes)
      /\ Head(First(Raw(f), LenBytes)) = <<f, 1>>
  BY <1>6, RawBytes, BodyBytes
<1> HIDE DEF f, behind
<1>8. got = First(Raw(f), LenBytes) /\ stream \o rest = Body(f) \o behind
  <2> DEFINE b == stream \o rest
  <2>1. got \o b = Raw(f) \o behind
    BY <1>4, <1>6, Zenon
  <2>2. got \in Seq(Byte) /\ b \in Seq(Byte) /\ Len(got) = LenBytes
    BY <1>2, <1>3, <1>4
  <2> HIDE DEF b
  <2>3. First(got \o b, LenBytes) = got /\ Behind(got \o b, LenBytes) = b
    BY <2>2, CutAt
  <2>4. /\ First(Raw(f) \o behind, LenBytes) = First(Raw(f), LenBytes)
        /\ Behind(Raw(f) \o behind, LenBytes) = Body(f) \o behind
    BY <1>3, <1>6, <1>7, CutWithin
  <2>5. got = First(Raw(f), LenBytes) /\ b = Body(f) \o behind
    BY <2>1, <2>3, <2>4, Zenon
  <2> QED
    BY <2>5 DEF b
<1>9. nextlen = f
  BY <1>7, <1>8 DEF nextlen
<1>10. Behind(Flat(Left), LenBytes) = stream \o rest /\ (wopen => rest = Pending)
  BY <1>1, <1>6, <1>8, Zenon DEF Continues
<1>11. \E r \in Seq(Byte) : /\ Behind(Flat(Left), LenBytes) = stream \o r
                            /\ wopen => r = Pending
  BY <1>1, <1>10
<1> QED
  BY <1>5, <1>6, <1>9, <1>11 DEF f

\* Both read a length word; a message begins, or an empty one arrives.
LEMMA LengthStep ==
  ASSUME IInv, StartMessage \/ EmptyMessage
  PROVE  IInv'
<1>1. pc = "length" /\ LengthKnown /\ sender' = sender /\ stream' = stream
      /\ object' = object /\ got' = <<>>
  BY DEF StartMessage, EmptyMessage
<1>2. /\ wqueue_' = wqueue_ /\ wsize_' = wsize_ /\ wstart_' = wstart_ /\ wfail_' = wfail_
      /\ wcb' = wcb /\ wopen' = wopen /\ put' = put
      /\ rcb_' = rcb_ /\ armed' = armed /\ destroyed' = destroyed
  BY <1>1 DEF sender, object
<1>3. /\ ~destroyed /\ ~wfail_ /\ round \in 0..3 /\ round < 3
      /\ rcb_ \in BOOLEAN /\ armed \in BOOLEAN /\ destroyed \in BOOLEAN
      /\ ended \in BOOLEAN /\ threw \in BOOLEAN /\ after \in {"length", "input", "poll"}
      /\ received \in Seq(Seq(Byte))
  BY <1>1, Where
<1> DEFINE f == put[taken + 1]
<1>4. taken < Len(put) /\ f \in Frame /\ nextlen = f
  BY <1>1, <1>3, Announced
<1>5. PICK rest \in Seq(Byte) : /\ Behind(Flat(Left), LenBytes) = stream \o rest
                                /\ wopen => rest = Pending
  BY <1>1, <1>3, Announced
<1>6. /\ stream \in Seq(Byte) /\ Len(stream) <= SockBuf /\ taken \in 0..Len(put)
      /\ LenBytes \in Nat /\ LenBytes > 0 /\ Len(put) \in Nat /\ MaxLen \in Nat
  BY Constants, LenProperties DEF IInv, SenderOK, StreamOK
<1>7. <<>> \in Seq(Byte) /\ Len(<<>>) = 0 /\ (got' \o stream') \o rest = stream \o rest
  <2>1. <<>> \in Seq(Byte) /\ Len(<<>>) = 0 /\ <<>> \o stream = stream
    BY <1>6, EmptySeq, ConcatEmptySeq
  <2> QED
    BY <1>1, <2>1, Zenon
<1>8. SenderOK'
  <2>1. SenderOK
    BY DEF IInv
  <2> QED
    BY <1>2, <2>1, Zenon DEF SenderOK
<1>9. Pending' = Pending
  BY <1>2 DEF Pending
<1>10. ASSUME Due' = stream \o rest
       PROVE  Intact'
  <2>1. Due' = (got' \o stream') \o rest /\ (wopen' => rest = Pending')
    BY <1>2, <1>5, <1>7, <1>9, <1>10, Zenon
  <2>2. \E r \in Seq(Byte) : Due' = (got' \o stream') \o r /\ (wopen' => r = Pending')
    BY <2>1
  <2> QED
    BY <2>2 DEF Intact, Continues
<1> HIDE DEF f
<1>11. CASE StartMessage
  <2>1. /\ rdmsg_' = len[f] /\ len[f] \in 1..MaxLen /\ taken' = taken
        /\ pc' = "input" /\ round' = round + 1 /\ after' = after
        /\ received' = received /\ ended' = ended /\ threw' = threw
    BY <1>4, <1>11 DEF StartMessage, history
  <2>2. StreamOK'
    <3>1. /\ rdmsg_' \in {NoMsg} \cup 1..MaxLen
          /\ 0 < (IF rdmsg_' = NoMsg THEN 0 ELSE rdmsg_') + LenBytes + 1
      BY <1>6, <2>1 DEF NoMsg
    <3>2. /\ stream' \in Seq(Byte) /\ Len(stream') <= SockBuf /\ taken' \in 0..Len(put')
          /\ got' \in Seq(Byte) /\ Len(got') = 0
      BY <1>1, <1>2, <1>6, <1>7, <2>1, Zenon
    <3> QED
      BY <3>1, <3>2 DEF StreamOK
  <2>3. Goes
    <3>1. round' \in 0..3
      BY <1>3, <2>1
    <3> QED
      BY <1>2, <1>3, <2>1, <3>1 DEF Goes
  <2>4. Control'
    <3>1. ~wfail_'
      BY <1>2, <1>3
    <3> QED
      BY <2>3, <3>1, GoesControl
  <2>5. Placed'
    <3>1. taken' < Len(put') /\ put'[taken' + 1] = f
      BY <1>2, <1>4, <2>1 DEF f
    <3> QED
      BY <2>1, <3>1, Zenon DEF Placed
  <2>6. Due' = stream \o rest
    <3>1. rdmsg_' # NoMsg
      BY <2>1 DEF NoMsg
    <3>2. Left' = Left
      BY <1>2, <2>1 DEF Left
    <3> QED
      BY <1>5, <3>1, <3>2, Zenon DEF Due
  <2> QED
    BY <1>8, <1>10, <2>2, <2>4, <2>5, <2>6 DEF IInv
<1>12. CASE EmptyMessage
  <2>1. /\ rdmsg_' = rdmsg_ /\ rdmsg_ = NoMsg /\ len[f] = 0 /\ CallRcb(<<>>, "input")
        /\ taken' = taken + 1
    BY <1>1, <1>4, <1>12 DEF EmptyMessage, LengthKnown, CallRcb
  <2>2. StreamOK'
    <3>1. taken' \in 0..Len(put')
      BY <1>2, <1>4, <1>6, <2>1
    <3>2. /\ stream' \in Seq(Byte) /\ Len(stream') <= SockBuf
          /\ got' \in Seq(Byte) /\ Len(got') = 0 /\ rdmsg_' = NoMsg
      BY <1>1, <1>6, <1>7, <2>1, Zenon
    <3> QED
      BY <1>6, <3>1, <3>2 DEF StreamOK
  <2>3. Goes
    <3>1. armed' \in BOOLEAN
      BY <1>2, <1>3
    <3>2. UNCHANGED destroyed
      BY <1>2
    <3>3. \E m \in Seq(Byte) : CallRcb(m, "input")
      BY <1>7, <2>1
    <3> QED
      BY <1>1, <1>2, <1>3, <3>1, <3>2, <3>3, CallGoes
  <2>4. Control'
    <3>1. ~wfail_'
      BY <1>2, <1>3
    <3> QED
      BY <2>3, <3>1, GoesControl
  <2>5. Placed'
    BY <2>1 DEF Placed
  <2>6. Due' = stream \o rest
    <3> DEFINE behind == Flat(Behind(put, taken + 1))
    <3>1. Due' = behind
      BY <1>2, <2>1 DEF Due, Left
    <3>2. behind \in Seq(Byte) /\ Behind(Flat(Left), LenBytes) = Body(f) \o behind
      BY <1>4, LeftFront DEF f
    <3> HIDE DEF behind
    <3>3. Body(f) \in Seq(Byte) /\ Len(Body(f)) = 0
      BY <1>4, <2>1, BodyBytes
    <3>4. Body(f) = <<>>
      BY <3>3, EmptySeq
    <3>5. <<>> \o behind = behind
      BY <3>2, ConcatEmptySeq
    <3> QED
      BY <1>5, <3>1, <3>2, <3>4, <3>5, Zenon
  <2> QED
    BY <1>8, <1>10, <2>2, <2>4, <2>5, <2>6 DEF IInv
<1> QED
  BY <1>11, <1>12

LEMMA DestroyStep ==
  ASSUME IInv, Destroy
  PROVE  IInv'
<1>1. /\ pc \in {"poll", "callback"} /\ ~destroyed /\ destroyed'
      /\ destroyed' \in BOOLEAN /\ rcb_' \in BOOLEAN /\ armed' \in BOOLEAN
      /\ rdmsg_' = NoMsg /\ got' = <<>> /\ stream' = <<>>
      /\ pc' = (IF pc = "poll" THEN "gone" ELSE pc)
      /\ UNCHANGED <<sender, round, after, history>>
  BY DEF Destroy
<1>2. /\ wqueue_' = wqueue_ /\ wsize_' = wsize_ /\ wstart_' = wstart_ /\ wfail_' = wfail_
      /\ wcb' = wcb /\ wopen' = wopen /\ put' = put /\ taken' = taken
      /\ round' = round /\ after' = after
      /\ received' = received /\ ended' = ended /\ threw' = threw
  BY <1>1 DEF sender, history
<1>3. SenderOK'
  <2>1. SenderOK
    BY DEF IInv
  <2> QED
    BY <1>2, <2>1, Zenon DEF SenderOK
<1>4. StreamOK'
  <2>1. <<>> \in Seq(Byte) /\ Len(<<>>) = 0 /\ LenBytes \in Nat /\ SockBuf \in Nat
    BY EmptySeq, Constants
  <2>2. /\ stream' \in Seq(Byte) /\ got' \in Seq(Byte) /\ Len(stream') = 0 /\ Len(got') = 0
    BY <1>1, <2>1, Zenon
  <2>3. taken' \in 0..Len(put')
    BY <1>2 DEF IInv, StreamOK
  <2> QED
    BY <1>1, <2>1, <2>2, <2>3 DEF StreamOK
<1>5. Control'
  <2>1. /\ ended \in BOOLEAN /\ threw \in BOOLEAN /\ ~wfail_
        /\ round \in 0..3 /\ after \in {"length", "input", "poll"}
        /\ received \in Seq(Seq(Byte))
        /\ pc = "callback" => (after # "poll" => round < 3)
    BY <1>1, Where
  <2>2. \/ pc' = "callback" /\ (after' # "poll" => round' < 3)
        \/ pc' = "gone" /\ destroyed'
    BY <1>1, <1>2, <2>1
  <2>3. Goes
    BY <1>1, <1>2, <2>1, <2>2, Zenon DEF Goes
  <2>4. ~wfail_'
    BY <1>2, <2>1
  <2> QED
    BY <2>3, <2>4, GoesControl
<1> QED
  BY <1>1, <1>3, <1>4, <1>5 DEF IInv, Placed, Intact

\* What a read adds to what was read before, and what stays in the kernel.
LEMMA Moved ==
  ASSUME NEW g \in Seq(Byte), NEW s \in Seq(Byte), NEW n \in Nat
  PROVE  /\ g \o First(s, n) \in Seq(Byte) /\ Behind(s, n) \in Seq(Byte)
         /\ (g \o First(s, n)) \o Behind(s, n) = g \o s
         /\ Len(g \o First(s, n)) <= Len(g) + n
         /\ Len(Behind(s, n)) <= Len(s)
         /\ Len(g) \in Nat /\ Len(g \o First(s, n)) \in Nat
<1> DEFINE a == First(s, n)  b == Behind(s, n)
<1>1. /\ a \in Seq(Byte) /\ b \in Seq(Byte) /\ s = a \o b
      /\ Len(a) = (IF n < Len(s) THEN n ELSE Len(s))
      /\ Len(b) = (IF n < Len(s) THEN Len(s) - n ELSE 0)
      /\ Len(s) \in Nat /\ Len(g) \in Nat
  BY Halves, Joined, LenProperties
<1> HIDE DEF a, b
<1>2. g \o a \in Seq(Byte) /\ Len(g \o a) = Len(g) + Len(a)
  BY <1>1, ConcatProperties
<1>3. (g \o a) \o b = g \o s
  <2>1. (g \o a) \o b = g \o (a \o b)
    BY <1>1, Assoc, ZenonT(40)
  <2> QED
    BY <1>1, <2>1, Zenon
<1>4. Len(g \o a) <= Len(g) + n /\ Len(b) <= Len(s) /\ Len(g \o a) \in Nat
  BY <1>1, <1>2
<1> QED
  BY <1>1, <1>2, <1>3, <1>4 DEF a, b

\* What input has after a read.
All == got \o First(stream, Wanted)

LEMMA ReadFacts ==
  ASSUME IInv, Read
  PROVE  /\ pc = "input" /\ round < 3 /\ ~destroyed /\ ~wfail_
         /\ wqueue_' = wqueue_ /\ wsize_' = wsize_ /\ wstart_' = wstart_ /\ wfail_' = wfail_
         /\ wcb' = wcb /\ wopen' = wopen /\ put' = put
         /\ rcb_' = rcb_ /\ armed' = armed /\ destroyed' = destroyed
         /\ All \in Seq(Byte) /\ stream' \in Seq(Byte)
         /\ All \o stream' = got \o stream
         /\ Len(All) \in Nat /\ Len(stream') <= SockBuf
         /\ rdmsg_ = NoMsg => Len(All) <= LenBytes
         /\ rdmsg_ # NoMsg => rdmsg_ \in Nat /\ Len(All) <= rdmsg_ + LenBytes
<1>1. /\ pc = "input" /\ round < 3 /\ Wanted > 0 /\ stream' = Behind(stream, Wanted)
      /\ sender' = sender /\ object' = object
  BY DEF Read
<1>2. /\ got \in Seq(Byte) /\ stream \in Seq(Byte) /\ Len(stream) <= SockBuf
      /\ rdmsg_ \in {NoMsg} \cup 1..MaxLen
      /\ LenBytes \in Nat /\ MaxLen \in Nat /\ SockBuf \in Nat
      /\ Len(got) \in Nat /\ Len(stream) \in Nat
  BY Constants, LenProperties DEF IInv, StreamOK
<1>3. /\ Wanted \in Nat
      /\ rdmsg_ = NoMsg => Len(got) + Wanted = LenBytes
      /\ rdmsg_ # NoMsg => rdmsg_ \in Nat /\ Len(got) + Wanted = rdmsg_ + LenBytes
  BY <1>1, <1>2 DEF Wanted
<1> DEFINE n == Wanted
<1>4. n \in Nat
  BY <1>3
<1> HIDE DEF n
<1>5. /\ got \o First(stream, n) \in Seq(Byte) /\ Behind(stream, n) \in Seq(Byte)
      /\ (got \o First(stream, n)) \o Behind(stream, n) = got \o stream
      /\ Len(got \o First(stream, n)) <= Len(got) + n
      /\ Len(Behind(stream, n)) <= Len(stream)
      /\ Len(got \o First(stream, n)) \in Nat
  BY <1>2, <1>4, Moved
<1>6. All = got \o First(stream, n) /\ stream' = Behind(stream, n)
  BY <1>1 DEF All, n
<1>7. /\ All \in Seq(Byte) /\ stream' \in Seq(Byte) /\ All \o stream' = got \o stream
      /\ Len(All) \in Nat
  BY <1>5, <1>6, Zenon
<1>8. Len(All) <= Len(got) + n /\ Len(stream') <= Len(stream)
  BY <1>5, <1>6, Zenon
<1>9. Len(stream') <= SockBuf
  <2>1. Len(stream') \in Nat
    BY <1>7, LenProperties
  <2> QED
    BY <1>2, <1>8, <2>1
<1>10. /\ rdmsg_ = NoMsg => Len(All) <= LenBytes
       /\ rdmsg_ # NoMsg => rdmsg_ \in Nat /\ Len(All) <= rdmsg_ + LenBytes
  BY <1>3, <1>8 DEF n
<1>11. /\ wqueue_' = wqueue_ /\ wsize_' = wsize_ /\ wstart_' = wstart_ /\ wfail_' = wfail_
       /\ wcb' = wcb /\ wopen' = wopen /\ put' = put
       /\ rcb_' = rcb_ /\ armed' = armed /\ destroyed' = destroyed
  BY <1>1 DEF sender, object
<1>12. ~destroyed /\ ~wfail_
  BY <1>1, Where
<1> QED
  BY <1>1, <1>7, <1>9, <1>10, <1>11, <1>12, Zenon

\* A message that is complete is the next one, and what is behind it stays.
LEMMA ReadWhole ==
  ASSUME IInv, Read, rdmsg_ # NoMsg, Len(All) >= rdmsg_
  PROVE  /\ taken < Len(put) /\ put[taken + 1] \in Frame
         /\ rdmsg_ = len[put[taken + 1]]
         /\ First(All, rdmsg_) = Body(put[taken + 1])
         /\ First(All, rdmsg_) \in Seq(Byte)
         /\ Behind(All, rdmsg_) \in Seq(Byte)
         /\ Len(Behind(All, rdmsg_)) <= LenBytes
         /\ \E rest \in Seq(Byte) :
              /\ Flat(Behind(put, taken + 1)) = (Behind(All, rdmsg_) \o stream') \o rest
              /\ wopen => rest = Pending
<1>1. /\ ~destroyed /\ All \in Seq(Byte) /\ stream' \in Seq(Byte)
      /\ All \o stream' = got \o stream /\ Len(All) \in Nat
      /\ rdmsg_ \in Nat /\ Len(All) <= rdmsg_ + LenBytes
  BY ReadFacts
<1> DEFINE f == put[taken + 1]
           behind == Flat(Behind(put, taken + 1))
<1>2. taken < Len(put) /\ rdmsg_ = len[f]
  BY <1>1 DEF IInv, Placed
<1>3. f \in Frame /\ behind \in Seq(Byte) /\ Behind(Flat(Left), LenBytes) = Body(f) \o behind
  BY <1>2, LeftFront
<1> HIDE DEF f, behind
<1>4. Body(f) \in Seq(Byte) /\ Len(Body(f)) = rdmsg_
  BY <1>2, <1>3, BodyBytes
<1>5. PICK rest \in Seq(Byte) : Continues(rest)
  BY <1>1 DEF IInv, Intact
<1>6. Body(f) \o behind = (All \o stream') \o rest /\ (wopen => rest = Pending)
  BY <1>1, <1>3, <1>5, Zenon DEF Continues, Due
<1> DEFINE z == stream' \o rest
<1>7. z \in Seq(Byte)
  BY <1>1, <1>5, ConcatProperties
<1>8. (All \o stream') \o rest = All \o z
  BY <1>1, <1>5, Assoc, Zenon
<1> HIDE DEF z
<1>9. First(Body(f) \o behind, rdmsg_) = Body(f) /\ Behind(Body(f) \o behind, rdmsg_) = behind
  BY <1>3, <1>4, CutAt
<1>10. /\ First(All \o z, rdmsg_) = First(All, rdmsg_)
       /\ Behind(All \o z, rdmsg_) = Behind(All, rdmsg_) \o z
  BY <1>1, <1>7, CutWithin
<1>11. First(All, rdmsg_) = Body(f) /\ behind = Behind(All, rdmsg_) \o z
  BY <1>6, <1>8, <1>9, <1>10, Zenon
<1>12. Behind(All, rdmsg_) \in Seq(Byte) /\ Len(Behind(All, rdmsg_)) <= LenBytes
  <2>1. /\ Behind(All, rdmsg_) \in Seq(Byte)
        /\ Len(Behind(All, rdmsg_)) = (IF rdmsg_ < Len(All) THEN Len(All) - rdmsg_ ELSE 0)
    BY <1>1, Halves
  <2> QED
    BY <1>1, <2>1, Constants
<1>13. behind = (Behind(All, rdmsg_) \o stream') \o rest
  <2>1. (Behind(All, rdmsg_) \o stream') \o rest = Behind(All, rdmsg_) \o (stream' \o rest)
    BY <1>1, <1>5, <1>12, Assoc, Zenon
  <2> QED
    BY <1>11, <2>1 DEF z
<1>14. \E r \in Seq(Byte) : /\ behind = (Behind(All, rdmsg_) \o stream') \o r
                            /\ wopen => r = Pending
  BY <1>6, <1>13
<1>15. First(All, rdmsg_) \in Seq(Byte)
  BY <1>4, <1>11
<1> QED
  BY <1>2, <1>3, <1>11, <1>12, <1>14, <1>15 DEF f, behind

LEMMA ReadStep ==
  ASSUME IInv, Read
  PROVE  IInv'
<1>1. /\ pc = "input" /\ round < 3 /\ ~destroyed /\ ~wfail_
      /\ wqueue_' = wqueue_ /\ wsize_' = wsize_ /\ wstart_' = wstart_ /\ wfail_' = wfail_
      /\ wcb' = wcb /\ wopen' = wopen /\ put' = put
      /\ rcb_' = rcb_ /\ armed' = armed /\ destroyed' = destroyed
  BY ReadFacts, Zenon
<1>2. /\ All \in Seq(Byte) /\ stream' \in Seq(Byte) /\ All \o stream' = got \o stream
      /\ Len(All) \in Nat /\ Len(stream') <= SockBuf
      /\ rdmsg_ = NoMsg => Len(All) <= LenBytes
      /\ rdmsg_ # NoMsg => rdmsg_ \in Nat /\ Len(All) <= rdmsg_ + LenBytes
  BY ReadFacts, Zenon
<1>3. SenderOK' /\ Pending' = Pending
  <2>1. SenderOK
    BY DEF IInv
  <2> QED
    BY <1>1, <2>1, Zenon DEF SenderOK, Pending
<1>4. /\ rdmsg_ \in {NoMsg} \cup 1..MaxLen /\ taken \in 0..Len(put)
      /\ LenBytes \in Nat /\ MaxLen \in Nat /\ Len(put) \in Nat
  BY Constants, LenProperties DEF IInv, SenderOK, StreamOK
<1>5. CASE ~(rdmsg_ # NoMsg /\ Len(All) >= rdmsg_)
  <2>1. /\ got' = All /\ pc' = "length" /\ rdmsg_' = rdmsg_ /\ round' = round /\ after' = after
        /\ taken' = taken /\ received' = received /\ ended' = ended /\ threw' = threw
    BY <1>5 DEF Read, All, history
  <2>2. StreamOK'
    <3>1. Len(All) < (IF rdmsg_ = NoMsg THEN 0 ELSE rdmsg_) + LenBytes + 1
      BY <1>2, <1>4
    <3> QED
      BY <1>1, <1>2, <1>4, <2>1, <3>1, Zenon DEF StreamOK
  <2>3. Control'
    <3>1. Goes
      <4>1. /\ rcb_ \in BOOLEAN /\ armed \in BOOLEAN /\ destroyed \in BOOLEAN
            /\ ended \in BOOLEAN /\ threw \in BOOLEAN
            /\ round \in 0..3 /\ after \in {"length", "input", "poll"}
            /\ received \in Seq(Seq(Byte))
        BY Where, Zenon
      <4>2. ~destroyed'
        BY <1>1
      <4>3. pc' = "length" /\ round' < 3
        BY <1>1, <2>1
      <4> QED
        BY <1>1, <2>1, <4>1, <4>2, <4>3, Zenon DEF Goes
    <3>2. ~wfail_'
      BY <1>1
    <3> QED
      BY <3>1, <3>2, GoesControl
  <2>4. Placed'
    <3>1. Placed /\ len[put'[taken' + 1]] = len[put[taken + 1]] /\ Len(put') = Len(put)
      BY <1>1, <2>1 DEF IInv
    <3> QED
      BY <1>1, <2>1, <3>1 DEF Placed
  <2>5. Intact'
    <3>1. PICK rest \in Seq(Byte) : Continues(rest)
      BY <1>1 DEF IInv, Intact
    <3>2. Due' = Due
      BY <1>1, <2>1 DEF Due, Left
    <3>3. got' \o stream' = got \o stream
      BY <1>2, <2>1
    <3>4. Due' = (got' \o stream') \o rest /\ (wopen' => rest = Pending')
      BY <1>1, <1>3, <3>1, <3>2, <3>3, Zenon DEF Continues
    <3>5. \E r \in Seq(Byte) : Due' = (got' \o stream') \o r /\ (wopen' => r = Pending')
      BY <3>4
    <3> QED
      BY <3>5 DEF Intact, Continues
  <2> QED
    BY <1>3, <2>2, <2>3, <2>4, <2>5 DEF IInv
<1>6. CASE rdmsg_ # NoMsg /\ Len(All) >= rdmsg_
  <2>1. /\ got' = Behind(All, rdmsg_) /\ rdmsg_' = NoMsg /\ taken' = taken + 1
        /\ CallRcb(First(All, rdmsg_), "length")
    BY <1>6 DEF Read, All, CallRcb
  <2>2. /\ taken < Len(put) /\ First(All, rdmsg_) \in Seq(Byte)
        /\ got' \in Seq(Byte) /\ Len(got') <= LenBytes
    BY <1>6, <2>1, ReadWhole
  <2>3. StreamOK'
    <3>1. Len(got') < 0 + LenBytes + 1
      <4>1. Len(got') \in Nat
        BY <2>2, LenProperties
      <4> QED
        BY <1>4, <2>2, <4>1
    <3>2. taken' \in 0..Len(put')
      BY <1>1, <1>4, <2>1, <2>2
    <3> QED
      BY <1>2, <2>1, <2>2, <3>1, <3>2 DEF StreamOK
  <2>4. Control'
    <3>1. Goes
      <4>1. UNCHANGED destroyed /\ armed' \in BOOLEAN
        BY <1>1, Where
      <4>2. \E m \in Seq(Byte) : CallRcb(m, "length")
        BY <2>1, <2>2
      <4> QED
        BY <1>1, <4>1, <4>2, CallGoes
    <3>2. ~wfail_'
      BY <1>1
    <3> QED
      BY <3>1, <3>2, GoesControl
  <2>5. Placed'
    BY <2>1 DEF Placed
  <2>6. Intact'
    <3>1. PICK rest \in Seq(Byte) :
            /\ Flat(Behind(put, taken + 1)) = (Behind(All, rdmsg_) \o stream') \o rest
            /\ wopen => rest = Pending
      BY <1>6, ReadWhole
    <3>2. Due' = Flat(Behind(put, taken + 1))
      BY <1>1, <2>1 DEF Due, Left
    <3>3. Due' = (got' \o stream') \o rest /\ (wopen' => rest = Pending')
      BY <1>1, <1>3, <2>1, <3>1, <3>2, Zenon
    <3>4. \E r \in Seq(Byte) : Due' = (got' \o stream') \o r /\ (wopen' => r = Pending')
      BY <3>3
    <3> QED
      BY <3>4 DEF Intact, Continues
  <2> QED
    BY <1>3, <2>3, <2>4, <2>5, <2>6 DEF IInv
<1> QED
  BY <1>5, <1>6

LEMMA IInvNext == IInv /\ [Next]_vars => IInv'
<1> SUFFICES ASSUME IInv, [Next]_vars  PROVE IInv'
  OBVIOUS
<1>1. CASE \E f \in Frame : putmsg(f)
  BY <1>1, PutStep
<1>2. CASE WriteReady
  BY <1>2, WriteStep
<1>3. CASE DestroySender
  BY <1>3, DestroySenderStep
<1>4. CASE Still
  BY <1>4, StillStep
<1>5. CASE Read
  BY <1>5, ReadStep
<1>6. CASE StartMessage \/ EmptyMessage
  BY <1>6, LengthStep
<1>7. CASE Destroy
  BY <1>7, DestroyStep
<1>8. CASE UNCHANGED vars
  <2>1. UNCHANGED <<sender, stream, object, buffer, pc, round, after, history>>
    BY <1>8 DEF vars
  <2>2. SenderOK' /\ StreamOK' /\ Placed' /\ Intact'
    <3>1. UNCHANGED <<sender, stream, buffer, taken, destroyed>>
      BY <2>1 DEF object, history
    <3> QED
      BY <3>1, Steady
  <2>3. Control'
    <3>1. Control
      BY DEF IInv
    <3>2. wfail_' = wfail_
      BY <2>1 DEF sender
    <3> QED
      BY <2>1, <3>1, <3>2, Zenon DEF Control, object, history
  <2> QED
    BY <2>2, <2>3 DEF IInv
<1> QED
  BY <1>1, <1>2, <1>3, <1>4, <1>5, <1>6, <1>7, <1>8
     DEF Next, Sender, Receives, Program, Still

----------------------------------------------------------------------------
(***************************************************************************)
(* The safety properties.                                                  *)
(***************************************************************************)
LEMMA Inductive == Spec => []IInv
<1>1. Init => IInv
  BY IInvInit
<1>2. IInv /\ [Next]_vars => IInv'
  BY IInvNext
<1> QED
  BY <1>1, <1>2, PTL DEF Spec

\* Queues are short enough for Bytes.
LEMMA QueuesAre ==
  ASSUME IInv
  PROVE  Bytes[wqueue_] = Flat(wqueue_) /\ Bytes[Left] = Flat(Left)
<1>1. /\ wqueue_ \in Seq(Frame) /\ put \in Seq(Frame) /\ taken \in 0..Len(put)
      /\ Len(put) <= MaxPut /\ Len(wqueue_) <= Len(put)
  BY DEF IInv, SenderOK, StreamOK
<1>2. Left \in Seq(Frame) /\ Len(Left) = Len(put) - taken
  BY <1>1, LeftIs
<1>3. Len(put) \in Nat /\ Len(wqueue_) \in Nat /\ MaxPut \in Nat
  BY <1>1, LenProperties, Constants
<1>4. Len(wqueue_) <= MaxPut /\ Len(Left) <= MaxPut
  BY <1>1, <1>2, <1>3
<1> QED
  BY <1>1, <1>2, <1>4, BytesAre

(***************************************************************************)
(* wsize_, by which output decides about the Write callback and putmsg     *)
(* whether the queue is empty, is what is queued and not written, however  *)
(* many messages a writev takes and wherever in a message it ends          *)
(* (msgsock.cc: pop_wbytes, output); and the state has its type.           *)
(***************************************************************************)
THEOREM WsizeIsRight == Spec => []WsizeCounts
<1>1. IInv => WsizeCounts
  <2> SUFFICES ASSUME IInv  PROVE WsizeCounts
    OBVIOUS
  <2>1. SenderOK /\ StreamOK /\ Control
    BY DEF IInv
  <2>2. TypeOK
    <3>1. {wfail_, wcb, wopen, rcb_, armed, destroyed, ended, threw} \subseteq BOOLEAN
      BY <2>1 DEF SenderOK, Control
    <3> QED
      BY <2>1, <3>1, Zenon DEF TypeOK, SenderOK, StreamOK, Control
  <2>3. wsize_ = Len(Bytes[wqueue_]) - wstart_
    BY <2>1, QueuesAre DEF SenderOK
  <2>4. Within(wqueue_, wstart_)
    BY <2>1 DEF SenderOK
  <2> QED
    BY <2>2, <2>3, <2>4 DEF WsizeCounts, Within
<1> QED
  BY <1>1, Inductive, PTL

(***************************************************************************)
(* No byte is lost, doubled or moved between putmsg and rcb_, whatever     *)
(* pieces writev and readv take and whenever input is left and entered     *)
(* again (msgsock.cc: input, output).                                      *)
(***************************************************************************)
THEOREM BytesStayInOrder == Spec => []StreamIntact
<1>1. IInv => StreamIntact
  <2> SUFFICES ASSUME IInv, wopen, ~destroyed
               PROVE  (got \o stream) \o Behind(Bytes[wqueue_], wstart_)
                        = IF rdmsg_ = NoMsg THEN Bytes[Behind(put, taken)]
                          ELSE Behind(Bytes[Behind(put, taken)], LenBytes)
    BY DEF StreamIntact
  <2>1. PICK rest \in Seq(Byte) : Continues(rest)
    BY DEF IInv, Intact
  <2>2. Due = (got \o stream) \o Pending
    BY <2>1, Zenon DEF Continues
  <2>3. Bytes[wqueue_] = Flat(wqueue_) /\ Bytes[Behind(put, taken)] = Flat(Left)
    BY QueuesAre DEF Left
  <2> QED
    BY <2>2, <2>3, Zenon DEF Due, Pending
<1> QED
  BY <1>1, Inductive, PTL

(***************************************************************************)
(* input returns without touching a member when its callback destroyed the *)
(* msg_sock (msgsock.cc: the destroyed_ flag kept on input's stack).       *)
(***************************************************************************)
THEOREM DestroyedIsLeft == Spec => []NoUseAfterDestroy
<1>1. IInv => NoUseAfterDestroy
  BY DEF IInv, Control, NoUseAfterDestroy
<1> QED
  BY <1>1, Inductive, PTL

(***************************************************************************)
(* poll does not spin on a Write callback with nothing to write, and what  *)
(* is queued without one has not been begun (msgsock.cc: output).          *)
(***************************************************************************)
THEOREM WriteCallbackFits == Spec => []WriteArmed
<1>1. IInv => WriteArmed
  BY DEF IInv, SenderOK, WriteArmed, Stalled
<1> QED
  BY <1>1, Inductive, PTL

----------------------------------------------------------------------------
(***************************************************************************)
(* A pair of msg_socks is a channel of whole messages.                     *)
(***************************************************************************)
\* The messages of p behind the first t.
Bodies(p, t) == [k \in 1..(Len(p) - t) |-> Body(p[t + k])]

LEMMA BodiesAre ==
  ASSUME NEW p \in Seq(Frame), NEW t \in 0..Len(p)
  PROVE  /\ Bodies(p, t) \in Seq(Seq(Byte)) /\ Len(Bodies(p, t)) = Len(p) - t
         /\ \A k \in 1..(Len(p) - t) : Bodies(p, t)[k] = Body(p[t + k])
<1>1. Len(p) \in Nat /\ Len(p) - t \in Nat /\ \A i \in 1..Len(p) : p[i] \in Frame
  BY LenProperties, ElementOfSeq
<1>2. \A k \in 1..(Len(p) - t) : p[t + k] \in Frame
  BY <1>1
<1>3. \A k \in 1..(Len(p) - t) : Body(p[t + k]) \in Seq(Byte)
  BY <1>2, BodyBytes
<1>4. Bodies(p, t) \in [1..(Len(p) - t) -> Seq(Byte)]
  BY <1>3 DEF Bodies
<1>5. Bodies(p, t) \in Seq(Seq(Byte)) /\ Len(Bodies(p, t)) = Len(p) - t
  <2> DEFINE n == Len(p) - t  b == Bodies(p, t)
  <2>1. n \in Nat /\ b \in [1..n -> Seq(Byte)]
    BY <1>1, <1>4
  <2> HIDE DEF n, b
  <2>2. b \in Seq(Seq(Byte)) /\ Len(b) = n
    BY <2>1, LenProperties
  <2> QED
    BY <2>2 DEF n, b
<1> QED
  BY <1>5 DEF Bodies

\* One more is put.
LEMMA BodiesGrow ==
  ASSUME NEW p \in Seq(Frame), NEW t \in 0..Len(p), NEW f \in Frame
  PROVE  Bodies(Append(p, f), t) = Append(Bodies(p, t), Body(f))
<1> DEFINE q == Append(p, f)
           b == Bodies(p, t)
           n == Len(p) - t
<1>1. /\ q \in Seq(Frame) /\ Len(q) = Len(p) + 1 /\ q[Len(p) + 1] = f
      /\ \A i \in 1..Len(p) : q[i] = p[i]
  BY AppendProperties
<1>2. Len(p) \in Nat /\ n \in Nat /\ t \in 0..Len(q) /\ Len(q) - t = n + 1
  <2>1. Len(p) \in Nat
    BY LenProperties
  <2> HIDE DEF q
  <2> QED
    BY <1>1, <2>1
<1>3. /\ b \in Seq(Seq(Byte)) /\ Len(b) = n
      /\ \A k \in 1..n : b[k] = Body(p[t + k])
  BY BodiesAre
<1> HIDE DEF q, b
<1>4. /\ Bodies(q, t) \in Seq(Seq(Byte)) /\ Len(Bodies(q, t)) = n + 1
      /\ \A k \in 1..(n + 1) : Bodies(q, t)[k] = Body(q[t + k])
  <2>1. /\ Bodies(q, t) \in Seq(Seq(Byte)) /\ Len(Bodies(q, t)) = Len(q) - t
        /\ \A k \in 1..(Len(q) - t) : Bodies(q, t)[k] = Body(q[t + k])
    BY <1>1, <1>2, BodiesAre
  <2> QED
    BY <1>2, <2>1
<1>5. /\ Append(b, Body(f)) \in Seq(Seq(Byte)) /\ Len(Append(b, Body(f))) = n + 1
      /\ Append(b, Body(f))[n + 1] = Body(f)
      /\ \A i \in 1..n : Append(b, Body(f))[i] = b[i]
  BY <1>3, BodyBytes, AppendProperties
<1>6. ASSUME NEW k \in 1..(n + 1)
      PROVE  Bodies(q, t)[k] = Append(b, Body(f))[k]
  <2>1. CASE k = n + 1
    <3>1. t + k = Len(p) + 1
      BY <1>2, <2>1
    <3> QED
      BY <1>1, <1>4, <1>5, <2>1, <3>1
  <2>2. CASE k # n + 1
    <3>1. k \in 1..n /\ t + k \in 1..Len(p)
      BY <1>2, <2>2
    <3> QED
      BY <1>1, <1>3, <1>4, <1>5, <3>1
  <2> QED
    BY <2>1, <2>2
<1>7. Bodies(q, t) = Append(b, Body(f))
  <2> DEFINE x == Bodies(q, t)  y == Append(b, Body(f))
  <2>1. x \in Seq(Seq(Byte)) /\ y \in Seq(Seq(Byte)) /\ Len(x) = Len(y)
        /\ \A k \in 1..Len(x) : x[k] = y[k]
    BY <1>4, <1>5, <1>6
  <2> HIDE DEF x, y
  <2>2. x = y
    BY <2>1, SeqEqual
  <2> QED
    BY <2>2 DEF x, y
<1> QED
  BY <1>7 DEF q, b

\* The first arrives.
LEMMA BodiesShrink ==
  ASSUME NEW p \in Seq(Frame), NEW t \in Nat, t < Len(p)
  PROVE  /\ Bodies(p, t) # <<>> /\ Head(Bodies(p, t)) = Body(p[t + 1])
         /\ Bodies(p, t + 1) = Tail(Bodies(p, t))
<1> DEFINE b == Bodies(p, t)
           n == Len(p) - t
<1>1. Len(p) \in Nat /\ n \in Nat /\ n > 0 /\ t \in 0..Len(p) /\ t + 1 \in 0..Len(p)
      /\ Len(p) - (t + 1) = n - 1
  BY LenProperties
<1>2. /\ b \in Seq(Seq(Byte)) /\ Len(b) = n
      /\ \A k \in 1..n : b[k] = Body(p[t + k])
  BY <1>1, BodiesAre
<1> HIDE DEF b
<1>3. b # <<>>
  BY <1>1, <1>2, EmptySeq
<1>4. /\ Head(b) = b[1] /\ Tail(b) \in Seq(Seq(Byte)) /\ Len(Tail(b)) = n - 1
      /\ \A i \in 1..(n - 1) : Tail(b)[i] = b[i + 1]
  BY <1>2, <1>3, HeadTailProperties
<1>5. /\ Bodies(p, t + 1) \in Seq(Seq(Byte)) /\ Len(Bodies(p, t + 1)) = n - 1
      /\ \A k \in 1..(n - 1) : Bodies(p, t + 1)[k] = Body(p[(t + 1) + k])
  BY <1>1, BodiesAre
<1>6. ASSUME NEW k \in 1..(n - 1)
      PROVE  Bodies(p, t + 1)[k] = Tail(b)[k]
  <2>1. k + 1 \in 1..n /\ (t + 1) + k = t + (k + 1)
    BY <1>1
  <2> QED
    BY <1>2, <1>4, <1>5, <2>1
<1>7. Bodies(p, t + 1) = Tail(b)
  <2> DEFINE x == Bodies(p, t + 1)  y == Tail(b)
  <2>1. x \in Seq(Seq(Byte)) /\ y \in Seq(Seq(Byte)) /\ Len(x) = Len(y)
        /\ \A k \in 1..Len(x) : x[k] = y[k]
    BY <1>4, <1>5, <1>6
  <2> HIDE DEF x, y
  <2>2. x = y
    BY <2>1, SeqEqual
  <2> QED
    BY <2>2 DEF x, y
<1>8. Head(b) = Body(p[t + 1])
  BY <1>1, <1>2, <1>4
<1> QED
  BY <1>3, <1>7, <1>8 DEF b

LEMMA InitRefines == Init => AbstractChannel!Init
<1> SUFFICES ASSUME Init  PROVE AbstractChannel!Init
  OBVIOUS
<1>1. put = <<>> /\ taken = 0 /\ received = <<>> /\ rcb_ \in BOOLEAN
  BY Zenon DEF Init
<1>2. Bodies(put, taken) = <<>>
  <2>1. <<>> \in Seq(Frame) /\ Len(<<>>) = 0 /\ 0 \in 0..0 /\ 0 - 0 = 0
    BY EmptySeq
  <2>2. Bodies(<<>>, 0) \in Seq(Seq(Byte)) /\ Len(Bodies(<<>>, 0)) = 0
    BY <2>1, BodiesAre
  <2>3. Bodies(<<>>, 0) = <<>>
    BY <2>2, EmptySeq
  <2> QED
    BY <1>1, <2>3
<1> QED
  BY <1>1, <1>2 DEF AbstractChannel!Init, Bodies

\* The first frame arrives and rcb_ gets its body, or it is lost because rcb_ is empty.
LEMMA ArrivalRefines ==
  ASSUME IInv, taken < Len(put), put' = put, rcb_' = rcb_,
         NEW then, CallRcb(Body(put[taken + 1]), then)
  PROVE  AbstractChannel!Next
<1>1. taken \in Nat /\ put \in Seq(Frame) /\ rcb_ \in BOOLEAN
  BY Where DEF IInv, SenderOK, StreamOK
<1>2. taken' = taken + 1
  BY DEF CallRcb
<1> DEFINE b == Bodies(put, taken)
<1>3. /\ b # <<>> /\ Head(b) = Body(put[taken + 1])
      /\ Bodies(put', taken') = Tail(b)
  BY <1>1, <1>2, BodiesShrink
<1>4. CASE rcb_
  <2>1. received' = Append(received, Body(put[taken + 1]))
    BY <1>4 DEF CallRcb
  <2>2. AbstractChannel!Deliver
    BY <1>3, <1>4, <2>1, Zenon DEF AbstractChannel!Deliver, Bodies
  <2> QED
    BY <2>2 DEF AbstractChannel!Next
<1>5. CASE ~rcb_
  <2>1. received' = received
    BY <1>5 DEF CallRcb
  <2>2. AbstractChannel!Skip
    BY <1>3, <1>5, <2>1, Zenon DEF AbstractChannel!Skip, Bodies
  <2> QED
    BY <2>2 DEF AbstractChannel!Next
<1> QED
  BY <1>1, <1>4, <1>5

\* A step that neither puts nor takes a frame, nor changes who listens.
LEMMA StutterRefines ==
  ASSUME UNCHANGED <<put, taken, received, rcb_>>
  PROVE  UNCHANGED AbstractChannel!vars
  BY DEF AbstractChannel!vars

LEMMA PutRefines ==
  ASSUME IInv, NEW f \in Frame, putmsg(f)
  PROVE  AbstractChannel!Next
<1>1. put \in Seq(Frame) /\ taken \in 0..Len(put)
  BY DEF IInv, SenderOK, StreamOK
<1>2. put' = Append(put, f) /\ taken' = taken /\ received' = received /\ rcb_' = rcb_
  BY DEF putmsg, history, object
<1>3. Bodies(put', taken') = Append(Bodies(put, taken), Body(f))
  BY <1>1, <1>2, BodiesGrow
<1>4. AbstractChannel!Put(Body(f))
  BY <1>2, <1>3, Zenon DEF AbstractChannel!Put, Bodies
<1>5. Body(f) \in {Body(g) : g \in Frame}
  OBVIOUS
<1> QED
  BY <1>4, <1>5 DEF AbstractChannel!Next

LEMMA ListenRefines ==
  ASSUME UNCHANGED <<put, taken, received>>, rcb_' \in BOOLEAN
  PROVE  AbstractChannel!Next
<1>1. AbstractChannel!Listen
  BY DEF AbstractChannel!Listen
<1> QED
  BY <1>1 DEF AbstractChannel!Next

LEMMA ReadRefines ==
  ASSUME IInv, Read
  PROVE  AbstractChannel!Next \/ UNCHANGED AbstractChannel!vars
<1>1. put' = put /\ rcb_' = rcb_
  BY ReadFacts, Zenon
<1>2. CASE rdmsg_ # NoMsg /\ Len(All) >= rdmsg_
  <2>1. CallRcb(First(All, rdmsg_), "length")
    BY <1>2 DEF Read, All
  <2>2. taken < Len(put) /\ First(All, rdmsg_) = Body(put[taken + 1])
    BY <1>2, ReadWhole
  <2> QED
    BY <1>1, <2>1, <2>2, ArrivalRefines
<1>3. CASE ~(rdmsg_ # NoMsg /\ Len(All) >= rdmsg_)
  <2>1. taken' = taken /\ received' = received
    BY <1>3 DEF Read, All, history
  <2> QED
    BY <1>1, <2>1, StutterRefines
<1> QED
  BY <1>2, <1>3

LEMMA EmptyRefines ==
  ASSUME IInv, EmptyMessage
  PROVE  AbstractChannel!Next
<1>1. pc = "length" /\ LengthKnown /\ len[nextlen] = 0 /\ CallRcb(<<>>, "input")
      /\ put' = put /\ rcb_' = rcb_
  BY DEF EmptyMessage, sender, object
<1>2. ~destroyed
  BY <1>1, Where
<1>3. taken < Len(put) /\ put[taken + 1] \in Frame /\ nextlen = put[taken + 1]
  BY <1>1, <1>2, Announced
<1>4. Body(put[taken + 1]) \in Seq(Byte) /\ Len(Body(put[taken + 1])) = 0
  BY <1>1, <1>3, BodyBytes
<1>5. Body(put[taken + 1]) = <<>>
  BY <1>4, EmptySeq
<1>6. CallRcb(Body(put[taken + 1]), "input")
  BY <1>1, <1>5
<1> QED
  BY <1>1, <1>3, <1>6, ArrivalRefines

LEMMA NextRefines ==
  ASSUME IInv, [Next]_vars
  PROVE  AbstractChannel!Next \/ UNCHANGED AbstractChannel!vars
<1>1. CASE \E f \in Frame : putmsg(f)
  BY <1>1, PutRefines
<1>2. CASE Read
  BY <1>2, ReadRefines
<1>3. CASE EmptyMessage
  BY <1>3, EmptyRefines
<1>4. CASE \E on \in BOOLEAN : setrcb(on)
  <2>1. UNCHANGED <<put, taken, received>> /\ rcb_' \in BOOLEAN
    BY <1>4, Zenon DEF setrcb, sender, history
  <2> QED
    BY <2>1, ListenRefines
<1>5. CASE Destroy
  <2>1. UNCHANGED <<put, taken, received>> /\ rcb_' \in BOOLEAN
    BY <1>5 DEF Destroy, sender, history
  <2> QED
    BY <2>1, ListenRefines
<1>6. CASE WriteReady \/ DestroySender
  <2>1. UNCHANGED <<put, taken, received, rcb_>>
    BY <1>6 DEF WriteReady, DestroySender, object, history
  <2> QED
    BY <2>1, StutterRefines
<1>7. CASE Input \/ LeaveInput \/ ReadNothing \/ WouldBlock \/ LengthMissing
           \/ CallbackReturns \/ CallbackThrows \/ StartMessage
  <2>1. UNCHANGED <<put, taken, received, rcb_>>
    BY <1>7 DEF Input, LeaveInput, ReadNothing, WouldBlock, LengthMissing, CallbackReturns,
                CallbackThrows, StartMessage, sender, receiver, object, history
  <2> QED
    BY <2>1, StutterRefines
<1>8. CASE EndOfFile \/ Fragment \/ NoMemory \/ TooLong
  <2>1. UNCHANGED <<put, taken, received, rcb_>>
    BY <1>8 DEF EndOfFile, Fragment, NoMemory, TooLong, CallRcbNull, sender, object
  <2> QED
    BY <2>1, StutterRefines
<1>9. CASE UNCHANGED vars
  <2>1. UNCHANGED <<put, taken, received, rcb_>>
    BY <1>9 DEF vars, sender, object, history
  <2> QED
    BY <2>1, StutterRefines
<1> QED
  BY <1>1, <1>2, <1>3, <1>4, <1>5, <1>6, <1>7, <1>8, <1>9
     DEF Next, Sender, Receives, Program

(***************************************************************************)
(* "Send and receive a series of delimited messages on a stream socket"    *)
(* (msgsock.h): what rcb_ is given are the contents of the messages that   *)
(* were put, each once and in that order, but for those that arrive while  *)
(* it is empty.                                                            *)
(***************************************************************************)
THEOREM MessagesArriveInOrder == Spec => InOrderIntact
<1>1. Init => AbstractChannel!Init
  BY InitRefines
<1>2. IInv /\ [Next]_vars => [AbstractChannel!Next]_(AbstractChannel!vars)
  BY NextRefines
<1> QED
  BY <1>1, <1>2, Inductive, PTL DEF Spec, InOrderIntact, AbstractChannel!Spec

----------------------------------------------------------------------------
(***************************************************************************)
(* Registrations with rpcbind.                                             *)
(***************************************************************************)
Noted(p) == ToSet(registered_services[p])

\* A key is being registered in state "registering" only; no notes outlive a program.
Stages ==
  \A p \in Process :
    /\ state[p] = "registering" => registering[p] \in Key
    /\ state[p] # "registering" => registering[p] = Nobody
    /\ state[p] = "gone" => registered_services[p] = << >>

\* Whoever has to do with a key has registered it.
Traces ==
  \A p \in Process, k \in Key :
    entry[k] = p \/ k \in Noted(p) \/ registering[p] = k => p \in users[k]

\* The two parts of NotesAgree.
EntriesNoted ==
  \A p \in Process \ careless, k \in Key : entry[k] = p => k \in Noted(p)
NotesEntered ==
  \A p \in Process \ careless, k \in Key :
    k \in Noted(p) /\ users[k] = {p} /\ state[p] # "exiting" =>
      entry[k] = p \/ registering[p] = k

\* The addresses that the search has passed had no server, or a call failed there;
\* the port that it connects to is that of the server, if there is one all along.
Passed(n) == \A i \in 1..n : Addresses[i] \in steady => Addresses[i] \in unreached
Progress ==
  /\ search = "none" => at = 1 /\ steady = {}
  /\ steady \subseteq ToSet(Addresses)
  /\ \A k \in steady : Serves(k)
  /\ search \in {"ask", "connect"} => Passed(at - 1)
  /\ search = "connect" /\ Here \in steady => port = entry[Here]
  /\ SearchFinds

Registrations == Stages /\ Traces /\ EntriesNoted /\ NotesEntered /\ OnlyRacesRefuse
BindInv == BindTypeOK /\ Registrations /\ Progress

----------------------------------------------------------------------------
\* The elements of a sequence to which one is added.
LEMMA ToSetAppend ==
  ASSUME NEW S, NEW s \in Seq(S), NEW e \in S
  PROVE  Append(s, e) \in Seq(S) /\ ToSet(Append(s, e)) = ToSet(s) \cup {e}
<1> DEFINE t == Append(s, e)
<1>1. /\ t \in Seq(S) /\ Len(t) = Len(s) + 1 /\ t[Len(s) + 1] = e
      /\ \A i \in 1..Len(s) : t[i] = s[i]
  BY AppendProperties
<1>2. Len(s) \in Nat /\ DOMAIN s = 1..Len(s) /\ DOMAIN t = 1..Len(t)
  BY <1>1, LenProperties
<1> HIDE DEF t
<1>3. ToSet(t) = ToSet(s) \cup {e}
  BY <1>1, <1>2 DEF ToSet
<1> QED
  BY <1>1, <1>3 DEF t

\* The elements of a sequence from which the first is taken.
LEMMA ToSetTail ==
  ASSUME NEW S, NEW s \in Seq(S), s # << >>
  PROVE  /\ Head(s) \in S /\ Tail(s) \in Seq(S)
         /\ ToSet(s) = {Head(s)} \cup ToSet(Tail(s))
<1> DEFINE t == Tail(s)
<1>1. /\ Head(s) \in S /\ t \in Seq(S) /\ Len(t) = Len(s) - 1
      /\ \A i \in 1..Len(t) : t[i] = s[i + 1]
  BY HeadTailProperties
<1>2. /\ Len(s) \in Nat /\ Len(s) > 0 /\ Head(s) = s[1]
      /\ DOMAIN s = 1..Len(s) /\ DOMAIN t = 1..Len(t)
  BY <1>1, LenProperties, EmptySeq
<1> HIDE DEF t
<1>3. ToSet(s) \subseteq {s[1]} \cup ToSet(t)
  <2> SUFFICES ASSUME NEW i \in 1..Len(s), i # 1
               PROVE  s[i] \in ToSet(t)
    BY <1>2 DEF ToSet
  <2>1. i - 1 \in 1..Len(t) /\ t[i - 1] = s[i]
    BY <1>1, <1>2
  <2> QED
    BY <1>2, <2>1 DEF ToSet
<1>4. {s[1]} \cup ToSet(t) \subseteq ToSet(s)
  BY <1>1, <1>2 DEF ToSet
<1> QED
  BY <1>1, <1>2, <1>3, <1>4 DEF t

\* Nothing is noted in an empty sequence.
LEMMA ToSetEmpty == ToSet(<< >>) = {}
  BY DEF ToSet

----------------------------------------------------------------------------
(***************************************************************************)
(* Types.                                                                  *)
(***************************************************************************)
LEMMA AddressKeys ==
  /\ Len(Addresses) \in Nat /\ Len(Addresses) >= 1
  /\ \A i \in 1..Len(Addresses) : Addresses[i] \in Key
  /\ ToSet(Addresses) = {Addresses[i] : i \in 1..Len(Addresses)}
<1>1. Addresses \in Seq(Key) /\ Addresses # << >>
  BY RpcbindAssumption
<1> QED
  BY <1>1, LenProperties, EmptySeq, ElementOfSeq DEF ToSet

LEMMA InitType == BindInit => BindTypeOK
  BY RpcbindAssumption, AddressKeys DEF BindInit, BindTypeOK

\* What steady becomes has its type.
LEMMA SteadyType ==
  ASSUME BindTypeOK, Stages, BindNext
  PROVE  steady' \subseteq Key
  BY AddressKeys DEF BindTypeOK, BindNext

\* A call of UNSET leaves the table one.
LEMMA UnsetType ==
  ASSUME BindTypeOK, NEW k, Unset(k) \/ UNCHANGED entry
  PROVE  entry' \in [Key -> Process \cup {Nobody}]
  BY DEF BindTypeOK, Unset, Enter

LEMMA ProgramType ==
  ASSUME BindTypeOK, Stages, BindNext, NEW p \in Process,
         \/ \E k \in Key : Register(p, k) \/ Close(p, k)
         \/ Set(p) \/ Exit(p) \/ CleanUp(p) \/ CleanUpFails(p) \/ CleanUpDone(p) \/ Crash(p)
  PROVE  BindTypeOK'
<1> USE SteadyType, RpcbindAssumption DEF BindTypeOK, searching, processes, witnesses
<1>1. ASSUME NEW k \in Key, Register(p, k)  PROVE BindTypeOK'
  <2>1. /\ entry' \in [Key -> Process \cup {Nobody}]
        /\ state' \in [Process -> {"up", "registering", "exiting", "gone"}]
        /\ registering' \in [Process -> Key \cup {Nobody}]
        /\ faults' \in 0..MaxFaults /\ careless' \subseteq Process
    <3>1. CASE /\ Unset(k) /\ Becomes(p, "registering")
               /\ registering' = [registering EXCEPT ![p] = k]
               /\ UNCHANGED <<faults, careless>>
      BY <3>1 DEF Unset, Enter, Becomes
    <3>2. CASE /\ Careless(p) /\ (Unset(k) \/ UNCHANGED entry)
               /\ UNCHANGED <<state, registering>>
      BY <3>2, UnsetType DEF Careless, Fault
    <3> QED
      BY <1>1, <3>1, <3>2 DEF Register, BeginSet
  <2>2. /\ listening' \in [Process -> SUBSET Key] /\ users' \in [Key -> SUBSET Process]
        /\ rounds' \in 0..MaxRounds /\ raced' \subseteq Process
    BY <1>1 DEF Register
  <2> QED
    BY <1>1, <2>1, <2>2 DEF Register
<1>2. ASSUME NEW k \in Key, Close(p, k)  PROVE BindTypeOK'
  BY <1>2 DEF Close
<1>3. ASSUME Set(p)  PROVE BindTypeOK'
  <2> DEFINE k == registering[p]
  <2>0. k \in Key
    BY <1>3 DEF Set, Stages
  <2>1. Registered(p, k) \/ InUse(p, k) \/ SetFails(p, k)
    BY <1>3 DEF Set
  <2> HIDE DEF k
  <2>2. registered_services' \in [Process -> Seq(Key)]
    <3>1. CASE Registered(p, k)
      <4>1. registered_services' = [registered_services EXCEPT
                                      ![p] = Append(registered_services[p], k)]
        BY <3>1 DEF Registered
      <4>2. k \in Key /\ registered_services[p] \in Seq(Key)
        BY <2>0
      <4>3. Append(registered_services[p], k) \in Seq(Key)
        BY <4>2, ToSetAppend
      <4> QED
        BY <4>1, <4>3
    <3>2. CASE InUse(p, k) \/ SetFails(p, k)
      BY <3>2 DEF InUse, SetFails
    <3> QED
      BY <2>1, <3>1, <3>2
  <2>3. entry' \in [Key -> Process \cup {Nobody}]
    BY <2>1, ZenonT(40) DEF Registered, InUse, SetFails, Enter
  <2>4. raced' \subseteq Process /\ faults' \in 0..MaxFaults /\ careless' \subseteq Process
    BY <2>1 DEF Registered, InUse, SetFails, Races, Careless, Fault
  <2> QED
    BY <1>3, <2>2, <2>3, <2>4 DEF Set, Becomes
<1>4. ASSUME Exit(p)  PROVE BindTypeOK'
  BY <1>4 DEF Exit, Becomes
<1>5. ASSUME CleanUp(p)  PROVE BindTypeOK'
  <2>1. Tail(registered_services[p]) \in Seq(Key)
    BY <1>5, ToSetTail DEF CleanUp
  <2> QED
    BY <1>5, <2>1 DEF CleanUp, Unset, Enter
<1>6. ASSUME CleanUpFails(p)  PROVE BindTypeOK'
  <2>1. << >> \in Seq(Key)
    BY EmptySeq
  <2>2. entry' \in [Key -> Process \cup {Nobody}]
    BY <1>6, UnsetType DEF CleanUpFails
  <2> QED
    BY <1>6, <2>1, <2>2 DEF CleanUpFails, Ends, Becomes, Careless, Fault
<1>7. ASSUME CleanUpDone(p)  PROVE BindTypeOK'
  <2>1. << >> \in Seq(Key)
    BY EmptySeq
  <2> QED
    BY <1>7, <2>1 DEF CleanUpDone, Ends, Becomes
<1>8. ASSUME Crash(p)  PROVE BindTypeOK'
  <2>1. << >> \in Seq(Key)
    BY EmptySeq
  <2> QED
    BY <1>8, <2>1 DEF Crash, Ends, Becomes, Careless, Fault
<1> QED
  BY <1>1, <1>2, <1>3, <1>4, <1>5, <1>6, <1>7, <1>8

LEMMA SearchType ==
  ASSUME BindTypeOK, Stages, BindNext, Search \/ Ask \/ Connect
  PROVE  BindTypeOK'
<1>1. Here \in Key
  BY AddressKeys DEF BindTypeOK, Here
<1>2. ASSUME NextAddress
      PROVE  /\ port' \in Process \cup {Nobody} /\ at' \in 1..Len(Addresses)
             /\ search' \in {"ask", "refused"}
  BY <1>2, AddressKeys DEF BindTypeOK, NextAddress
<1>3. /\ port' \in Process \cup {Nobody} /\ at' \in 1..Len(Addresses)
      /\ search' \in {"ask", "connect", "connected", "refused", "threw"}
      /\ faults' \in 0..MaxFaults /\ unreached' \subseteq Key
  <2>1. CASE Search
    BY <2>1 DEF BindTypeOK, Search, Look
  <2>2. CASE Ask
    BY <1>1, <1>2, <2>2, RpcbindAssumption DEF BindTypeOK, Ask, Look, GetAddr, AskFails, Fault
  <2>3. CASE Connect
    BY <1>1, <1>2, <2>3, RpcbindAssumption DEF BindTypeOK, Connect, Look, Fault
  <2> QED
    BY <2>1, <2>2, <2>3
<1> QED
  BY <1>3, SteadyType DEF BindTypeOK, Search, Ask, Connect, Look, processes, witnesses

LEMMA NextType == BindTypeOK /\ Stages /\ [BindNext]_bindvars => BindTypeOK'
<1>1. ASSUME BindTypeOK, Stages, BindNext  PROVE BindTypeOK'
  BY <1>1, ProgramType, SearchType DEF BindNext, Step
<1>2. ASSUME BindTypeOK, UNCHANGED bindvars  PROVE BindTypeOK'
  BY <1>2 DEF BindTypeOK, bindvars, processes, searching, witnesses
<1> QED
  BY <1>1, <1>2

----------------------------------------------------------------------------
(***************************************************************************)
(* Registrations, notes and the table.                                     *)
(***************************************************************************)
LEMMA InitRegistrations == BindInit => Registrations
<1> SUFFICES ASSUME BindInit  PROVE Registrations
  OBVIOUS
<1>1. Stages /\ OnlyRacesRefuse
  BY DEF BindInit, Stages, OnlyRacesRefuse
<1>2. \A p \in Process : Noted(p) = {}
  BY ToSetEmpty DEF BindInit, Noted
<1>3. Traces /\ EntriesNoted /\ NotesEntered
  BY <1>2, RpcbindAssumption DEF BindInit, Traces, EntriesNoted, NotesEntered
<1> QED
  BY <1>1, <1>3 DEF Registrations

LEMMA RegisterStep ==
  ASSUME BindTypeOK, Registrations, NEW p \in Process, NEW k \in Key, Register(p, k)
  PROVE  Registrations'
<1> DEFINE Unsets == /\ entry' = [entry EXCEPT ![k] = Nobody]
                     /\ state' = [state EXCEPT ![p] = "registering"]
                     /\ registering' = [registering EXCEPT ![p] = k]
                     /\ careless' = careless
           Refusals == /\ \/ entry' = [entry EXCEPT ![k] = Nobody]
                          \/ entry' = entry
                       /\ careless' = careless \cup {p}
                       /\ state' = state /\ registering' = registering
<1>1. /\ state[p] = "up" /\ registering[p] = Nobody
      /\ users' = [users EXCEPT ![k] = @ \cup {p}]
      /\ raced' = raced \ {p}
      /\ registered_services' = registered_services
      /\ Unsets \/ Refusals
  BY DEF Register, BeginSet, Unset, Enter, Becomes, Careless, Registrations, Stages
<1>2. \A q \in Process : Noted(q)' = Noted(q)
  BY <1>1 DEF Noted
<1>3. Stages'
  BY <1>1 DEF BindTypeOK, Registrations, Stages
<1>4. Traces'
  BY <1>1, <1>2, RpcbindAssumption DEF BindTypeOK, Registrations, Traces
<1>5. EntriesNoted'
  BY <1>1, <1>2, RpcbindAssumption DEF BindTypeOK, Registrations, EntriesNoted
<1>6. NotesEntered'
  <2> SUFFICES ASSUME NEW q \in Process, q \notin careless', NEW j \in Key,
                      j \in Noted(q), users'[j] = {q}, state'[q] # "exiting"
               PROVE  entry'[j] = q \/ registering'[q] = j
    BY <1>2 DEF NotesEntered
  <2>1. CASE j = k
    <3>1. q = p
      BY <1>1, <2>1 DEF BindTypeOK
    <3> QED
      BY <1>1, <2>1, <3>1 DEF BindTypeOK
  <2>2. CASE j # k
    <3>1. users[j] = {q} /\ state[q] # "exiting" /\ q \notin careless
      BY <1>1, <2>2 DEF BindTypeOK
    <3>2. entry[j] = q \/ registering[q] = j
      BY <3>1 DEF Registrations, NotesEntered
    <3> QED
      BY <1>1, <2>2, <3>2, RpcbindAssumption DEF BindTypeOK
  <2> QED
    BY <2>1, <2>2
<1>7. OnlyRacesRefuse'
  BY <1>1 DEF BindTypeOK, Registrations, Stages, OnlyRacesRefuse
<1> QED
  BY <1>3, <1>4, <1>5, <1>6, <1>7 DEF Registrations

LEMMA SetStep ==
  ASSUME BindTypeOK, Registrations, NEW p \in Process, Set(p)
  PROVE  Registrations'
<1> DEFINE k == registering[p]
           Enters == /\ entry[k] = Nobody
                     /\ entry' = [entry EXCEPT ![k] = p]
                     /\ raced' = raced \cup {q \in Process \ {p} : registering[q] = k}
           Stays == entry' = entry /\ raced' = raced
<1>1. /\ state[p] = "registering" /\ k \in Key
      /\ state' = [state EXCEPT ![p] = "up"]
      /\ registering' = [registering EXCEPT ![p] = Nobody]
      /\ users' = users
  BY DEF Set, Becomes, Registrations, Stages
<1>2. Registered(p, k) \/ InUse(p, k) \/ SetFails(p, k)
  BY DEF Set
<1> HIDE DEF k
<1>3. \/ Enters /\ careless' = careless /\ registered_services' =
                     [registered_services EXCEPT ![p] = Append(registered_services[p], k)]
      \/ Stays /\ entry[k] # Nobody /\ careless' = careless
               /\ registered_services' = registered_services
      \/ (Enters \/ Stays) /\ careless' = careless \cup {p}
               /\ registered_services' = registered_services
  BY <1>2 DEF Registered, InUse, SetFails, Races, Enter, Careless
<1>4. \A q \in Process : q # p => Noted(q)' = Noted(q)
  BY <1>3 DEF BindTypeOK, Noted
<1>5. /\ Noted(p) \subseteq Noted(p)' /\ Noted(p)' \subseteq Noted(p) \cup {k}
      /\ Enters /\ p \notin careless' => k \in Noted(p)'
  <2>1. Append(registered_services[p], k) \in Seq(Key)
        /\ ToSet(Append(registered_services[p], k)) = Noted(p) \cup {k}
    BY <1>1, ToSetAppend DEF BindTypeOK, Noted
  <2>2. CASE Stays /\ entry[k] # Nobody /\ registered_services' = registered_services
    BY <2>2 DEF Noted
  <2>3. CASE registered_services' = registered_services /\ careless' = careless \cup {p}
    BY <2>3 DEF Noted
  <2>4. CASE registered_services' =
               [registered_services EXCEPT ![p] = Append(registered_services[p], k)]
    BY <2>1, <2>4 DEF BindTypeOK, Noted
  <2> QED
    BY <1>3, <2>2, <2>3, <2>4
<1>6. (Enters \/ Stays) /\ (careless' = careless \/ careless' = careless \cup {p})
  BY <1>3
<1>7. p \in users[k] /\ p \in users'[k]
  BY <1>1 DEF Registrations, Traces, k
<1>8. Stages'
  <2>1. \A q \in Process : q # p => registered_services'[q] = registered_services[q]
    BY <1>3 DEF BindTypeOK
  <2> QED
    BY <1>1, <2>1 DEF BindTypeOK, Registrations, Stages
<1>9. Traces'
  <2> SUFFICES ASSUME NEW q \in Process, NEW j \in Key
               PROVE  entry'[j] = q \/ j \in Noted(q)' \/ registering'[q] = j => q \in users[j]
    BY <1>1 DEF Traces
  <2>1. entry[j] = q \/ j \in Noted(q) \/ registering[q] = j => q \in users[j]
    BY DEF Registrations, Traces
  <2>2. entry'[j] = q => entry[j] = q \/ (j = k /\ q = p)
    BY <1>1, <1>6 DEF BindTypeOK
  <2>3. j \in Noted(q)' => j \in Noted(q) \/ (j = k /\ q = p)
    BY <1>4, <1>5
  <2>4. registering'[q] = j => registering[q] = j
    BY <1>1, RpcbindAssumption DEF BindTypeOK
  <2> QED
    BY <1>7, <2>1, <2>2, <2>3, <2>4
<1>10. EntriesNoted'
  <2> SUFFICES ASSUME NEW q \in Process, q \notin careless', NEW j \in Key, entry'[j] = q
               PROVE  j \in Noted(q)'
    BY DEF EntriesNoted
  <2>1. CASE entry[j] = q
    BY <1>4, <1>5, <1>6, <2>1 DEF Registrations, EntriesNoted
  <2>2. CASE entry[j] # q
    <3>1. j = k /\ q = p /\ Enters
      BY <1>1, <1>6, <2>2 DEF BindTypeOK
    <3> QED
      BY <1>5, <3>1
  <2> QED
    BY <2>1, <2>2
<1>11. NotesEntered'
  <2> SUFFICES ASSUME NEW q \in Process, q \notin careless', NEW j \in Key,
                      j \in Noted(q)', users[j] = {q}, state'[q] # "exiting"
               PROVE  entry'[j] = q \/ registering'[q] = j
    BY <1>1 DEF NotesEntered
  <2>1. CASE j = k
    <3>1. q = p
      BY <1>7, <2>1
    <3>2. entry[k] = Nobody \/ entry[k] = p
      BY <1>1, <2>1, <3>1 DEF BindTypeOK, Registrations, Traces
    <3>3. entry'[k] = p
      BY <1>1, <1>3, <3>1, <3>2 DEF BindTypeOK
    <3> QED
      BY <2>1, <3>1, <3>3
  <2>2. CASE j # k
    <3>1. j \in Noted(q) /\ q \notin careless /\ state[q] # "exiting"
      BY <1>1, <1>4, <1>5, <1>6, <2>2 DEF BindTypeOK
    <3>2. entry[j] = q \/ registering[q] = j
      BY <3>1 DEF Registrations, NotesEntered
    <3>3. registering[q] = j => q # p
      BY <2>2 DEF k
    <3> QED
      BY <1>1, <1>6, <2>2, <3>2, <3>3 DEF BindTypeOK
  <2> QED
    BY <2>1, <2>2
<1>12. OnlyRacesRefuse'
  BY <1>1, <1>6, RpcbindAssumption DEF BindTypeOK, Registrations, Stages, OnlyRacesRefuse
<1> QED
  BY <1>8, <1>9, <1>10, <1>11, <1>12 DEF Registrations

\* A program on its way out: it removes at most keys that it noted, it keeps its
\* notes of what stays, and it registers nothing any more.
LEMMA WindingDown ==
  ASSUME BindTypeOK, Registrations, NEW p \in Process,
         users' = users, raced' = raced,
         careless' = careless \/ careless' = careless \cup {p},
         entry' = entry \/ \E k \in Noted(p) : entry' = [entry EXCEPT ![k] = Nobody],
         \A q \in Process \ {p} :
           /\ registered_services'[q] = registered_services[q]
           /\ state'[q] = state[q] /\ registering'[q] = registering[q],
         Noted(p)' \subseteq Noted(p),
         p \notin careless' => \A j \in Key : entry'[j] = p => j \in Noted(p)',
         p \notin careless' => state'[p] = "exiting" \/ Noted(p)' = {},
         state'[p] # "registering" /\ registering'[p] = Nobody,
         state'[p] = "gone" => registered_services'[p] = << >>
  PROVE  Registrations'
<1>1. \A q \in Process \ {p} : Noted(q)' = Noted(q)
  BY DEF Noted
<1>2. \A j \in Key : entry'[j] = entry[j] \/ (entry'[j] = Nobody /\ j \in Noted(p))
  BY DEF BindTypeOK
<1>3. Stages'
  BY DEF Registrations, Stages
<1>4. Traces'
  <2> SUFFICES ASSUME NEW q \in Process, NEW j \in Key
               PROVE  entry'[j] = q \/ j \in Noted(q)' \/ registering'[q] = j => q \in users[j]
    BY DEF Traces
  <2>1. entry[j] = q \/ j \in Noted(q) \/ registering[q] = j => q \in users[j]
    BY DEF Registrations, Traces
  <2>2. entry'[j] = q => entry[j] = q
    BY <1>2, RpcbindAssumption
  <2>3. j \in Noted(q)' => j \in Noted(q)
    BY <1>1
  <2>4. registering'[q] = j => registering[q] = j
    BY RpcbindAssumption
  <2> QED
    BY <2>1, <2>2, <2>3, <2>4
<1>5. EntriesNoted'
  <2> SUFFICES ASSUME NEW q \in Process, q \notin careless', NEW j \in Key, entry'[j] = q, q # p
               PROVE  j \in Noted(q)'
    BY DEF EntriesNoted
  <2>1. entry[j] = q /\ q \notin careless
    BY <1>2, RpcbindAssumption
  <2> QED
    BY <1>1, <2>1 DEF Registrations, EntriesNoted
<1>6. NotesEntered'
  <2> SUFFICES ASSUME NEW q \in Process, q \notin careless', NEW j \in Key,
                      j \in Noted(q)', users[j] = {q}, state'[q] # "exiting"
               PROVE  entry'[j] = q \/ registering'[q] = j
    BY DEF NotesEntered
  <2>1. q # p
    OBVIOUS
  <2>2. entry[j] = q \/ registering[q] = j
    BY <1>1, <2>1 DEF Registrations, NotesEntered
  <2>3. j \notin Noted(p)
    BY <2>1 DEF Registrations, Traces
  <2> QED
    BY <1>2, <2>1, <2>2, <2>3
<1>7. OnlyRacesRefuse'
  <2> SUFFICES ASSUME NEW q \in Process, state'[q] = "registering"
               PROVE  entry'[registering'[q]] = Nobody \/ q \in raced
    BY DEF OnlyRacesRefuse
  <2>1. q # p /\ state[q] = "registering" /\ registering'[q] = registering[q]
    OBVIOUS
  <2>2. registering[q] \in Key /\ (entry[registering[q]] = Nobody \/ q \in raced)
    BY <2>1 DEF Registrations, Stages, OnlyRacesRefuse
  <2> QED
    BY <1>2, <2>1, <2>2
<1> QED
  BY <1>3, <1>4, <1>5, <1>6, <1>7 DEF Registrations

\* What removing the first of a program's notes, with its entry, leaves.
LEMMA FirstNote ==
  ASSUME BindTypeOK, NEW p \in Process, registered_services[p] # << >>
  PROVE  LET k == Head(registered_services[p])
             rest == ToSet(Tail(registered_services[p]))
         IN  k \in Key /\ Noted(p) = {k} \cup rest
  BY ToSetTail DEF BindTypeOK, Noted

LEMMA LeavingStep ==
  ASSUME BindTypeOK, Registrations, NEW p \in Process,
         Exit(p) \/ CleanUp(p) \/ CleanUpFails(p) \/ CleanUpDone(p) \/ Crash(p)
  PROVE  Registrations'
<1> DEFINE k == Head(registered_services[p])
<1> USE DEF Becomes, Ends, witnesses
<1>1. ASSUME NEW q \in Process \ {p}
      PROVE  /\ registered_services'[q] = registered_services[q]
             /\ state'[q] = state[q] /\ registering'[q] = registering[q]
  BY DEF BindTypeOK, Exit, CleanUp, CleanUpFails, CleanUpDone, Crash
<1>2. CASE Exit(p)
  <2>1. Noted(p)' = Noted(p)
    BY <1>2 DEF Exit, Noted
  <2>2. state[p] = "up" /\ registering[p] = Nobody
    BY <1>2 DEF Exit, Registrations, Stages
  <2>3. state'[p] = "exiting" /\ registering'[p] = Nobody
    BY <1>2, <2>2 DEF Exit, BindTypeOK
  <2>4. entry' = entry /\ users' = users /\ raced' = raced /\ careless' = careless
    BY <1>2 DEF Exit
  <2>5. p \notin careless' => \A j \in Key : entry'[j] = p => j \in Noted(p)'
    BY <2>1, <2>4 DEF Registrations, EntriesNoted
  <2> QED
    BY <1>1, <2>1, <2>3, <2>4, <2>5, WindingDown
<1>3. CASE CleanUp(p)
  <2>1. /\ state[p] = "exiting" /\ registered_services[p] # << >>
        /\ entry' = [entry EXCEPT ![k] = Nobody]
        /\ registered_services'[p] = Tail(registered_services[p])
        /\ state' = state /\ registering' = registering
        /\ users' = users /\ raced' = raced /\ careless' = careless
    BY <1>3 DEF CleanUp, Unset, Enter, BindTypeOK
  <2>2. k \in Key /\ Noted(p) = {k} \cup Noted(p)'
    BY <2>1, FirstNote DEF Noted
  <2>3. state'[p] = "exiting" /\ registering'[p] = Nobody
    BY <2>1 DEF Registrations, Stages
  <2>4. ASSUME p \notin careless', NEW j \in Key, entry'[j] = p  PROVE j \in Noted(p)'
    <3>1. j # k /\ entry[j] = p
      BY <2>1, <2>4, RpcbindAssumption DEF BindTypeOK
    <3> QED
      BY <2>1, <2>2, <2>4, <3>1 DEF Registrations, EntriesNoted
  <2> HIDE DEF k
  <2> QED
    BY <1>1, <2>1, <2>2, <2>3, <2>4, WindingDown
<1>4. ASSUME Ends(p), p \in careless' \/ registered_services[p] = << >>,
             entry' = entry \/ \E j \in Noted(p) : entry' = [entry EXCEPT ![j] = Nobody],
             careless' = careless \/ careless' = careless \cup {p}
      PROVE  Registrations'
  <2>1. /\ state'[p] = "gone" /\ registering'[p] = Nobody /\ registered_services'[p] = << >>
        /\ users' = users /\ raced' = raced
    BY <1>4 DEF BindTypeOK
  <2>2. Noted(p)' = {}
    BY <2>1, ToSetEmpty DEF Noted
  <2>3. ASSUME p \notin careless', NEW j \in Key, entry'[j] = p  PROVE j \in Noted(p)'
    <3>1. Noted(p) = {}
      BY <1>4, <2>3, ToSetEmpty DEF Noted
    <3>2. entry[j] = p /\ p \notin careless
      BY <1>4, <2>3, <3>1
    <3> QED
      BY <3>1, <3>2 DEF Registrations, EntriesNoted
  <2> HIDE DEF Ends
  <2> QED
    BY <1>1, <1>4, <2>1, <2>2, <2>3, WindingDown
<1>5. CASE CleanUpFails(p)
  <2>1. registered_services[p] # << >> /\ Ends(p) /\ careless' = careless \cup {p}
        /\ (entry' = entry \/ entry' = [entry EXCEPT ![k] = Nobody])
    BY <1>5 DEF CleanUpFails, Careless, Unset, Enter
  <2>2. k \in Noted(p)
    BY <2>1, FirstNote
  <2> QED
    BY <1>4, <2>1, <2>2
<1>6. CASE CleanUpDone(p)
  BY <1>4, <1>6 DEF CleanUpDone
<1>7. CASE Crash(p)
  BY <1>4, <1>7 DEF Crash, Careless
<1> QED
  BY <1>2, <1>3, <1>5, <1>6, <1>7

LEMMA NextRegistrations ==
  BindTypeOK /\ Registrations /\ [BindNext]_bindvars => Registrations'
<1> SUFFICES ASSUME BindTypeOK, Registrations, [BindNext]_bindvars  PROVE Registrations'
  OBVIOUS
<1>1. ASSUME UNCHANGED <<entry, state, registering, registered_services, witnesses>>
      PROVE  Registrations'
  <2>1. \A p \in Process : Noted(p)' = Noted(p)
    BY <1>1 DEF Noted
  <2> QED
    BY <1>1, <2>1 DEF witnesses, Registrations, Stages, Traces, EntriesNoted, NotesEntered,
       OnlyRacesRefuse
<1>2. ASSUME NEW p \in Process, NEW k \in Key, Register(p, k) \/ Close(p, k)
      PROVE  Registrations'
  BY <1>1, <1>2, RegisterStep DEF Close
<1>3. CASE Search \/ Ask \/ Connect \/ UNCHANGED bindvars
  BY <1>1, <1>3 DEF Search, Ask, Connect, Look, bindvars, processes
<1> QED
  BY <1>2, <1>3, SetStep, LeavingStep DEF BindNext, Step

----------------------------------------------------------------------------
(***************************************************************************)
(* The search.                                                             *)
(***************************************************************************)
LEMMA InitProgress == BindInit => Progress
  BY DEF BindInit, Progress, Passed, SearchFinds

\* An entry that is there stays what it is until it is removed.
LEMMA EntryStays ==
  ASSUME BindTypeOK, Stages, [BindNext]_bindvars, NEW k \in Key, entry[k] # Nobody
  PROVE  entry'[k] = entry[k] \/ entry'[k] = Nobody
<1>1. ASSUME NEW p \in Process, NEW j \in Key, Register(p, j)
      PROVE  entry'[k] = entry[k] \/ entry'[k] = Nobody
  BY <1>1 DEF BindTypeOK, Register, BeginSet, Unset, Enter
<1>2. ASSUME NEW p \in Process, Set(p)
      PROVE  entry'[k] = entry[k] \/ entry'[k] = Nobody
  <2> DEFINE j == registering[p]
  <2>1. Registered(p, j) \/ InUse(p, j) \/ SetFails(p, j)
    BY <1>2 DEF Set
  <2> HIDE DEF j
  <2>2. entry' = entry \/ (entry[j] = Nobody /\ entry' = [entry EXCEPT ![j] = p])
    BY <2>1 DEF Registered, InUse, SetFails, Enter
  <2> QED
    BY <2>2 DEF BindTypeOK
<1>3. ASSUME NEW p \in Process, CleanUp(p) \/ CleanUpFails(p)
      PROVE  entry'[k] = entry[k] \/ entry'[k] = Nobody
  <2> DEFINE j == Head(registered_services[p])
  <2>1. entry' = entry \/ entry' = [entry EXCEPT ![j] = Nobody]
    BY <1>3 DEF CleanUp, CleanUpFails, Unset, Enter
  <2> HIDE DEF j
  <2> QED
    BY <2>1 DEF BindTypeOK
<1>4. ASSUME UNCHANGED entry  PROVE entry'[k] = entry[k]
  BY <1>4
<1> QED
  BY <1>1, <1>2, <1>3, <1>4 DEF BindNext, Step, Close, Exit, CleanUpDone, Crash, Search, Ask,
     Connect, Look, bindvars

\* What steady becomes: keys under which there is a server, and was one before.
LEMMA SteadyStep ==
  ASSUME BindTypeOK, Progress, BindNext
  PROVE  /\ search' = "none" => steady' = {}
         /\ steady' \subseteq ToSet(Addresses)
         /\ \A k \in steady' : Serves(k)'
         /\ search # "none" => steady' \subseteq steady
  BY DEF BindNext, Progress

\* A step that the search has no part in.
LEMMA OthersStep ==
  ASSUME BindTypeOK, Stages, Progress, BindNext, UNCHANGED searching
  PROVE  Progress'
<1>1. search' = search /\ at' = at /\ port' = port /\ unreached' = unreached
  BY DEF searching
<1>2. steady' \subseteq steady
  BY <1>1, SteadyStep DEF BindNext
<1>3. ASSUME search = "connect", Here \in steady'  PROVE port = entry'[Here]
  <2>1. Here \in Key /\ Here \in steady /\ port = entry[Here] /\ Serves(Here) /\ Serves(Here)'
    BY <1>1, <1>2, <1>3, SteadyStep, AddressKeys DEF BindTypeOK, Progress, Here
  <2>2. entry[Here] # Nobody /\ entry'[Here] # Nobody
    BY <1>1, <2>1 DEF Serves, Here
  <2> QED
    BY <2>1, <2>2, EntryStays
<1>4. SearchFinds'
  BY <1>1, <1>2 DEF Progress, SearchFinds
<1>5. search' \in {"ask", "connect"} => Passed(at - 1)'
  BY <1>1, <1>2 DEF Progress, Passed
<1> QED
  BY <1>1, <1>2, <1>3, <1>4, <1>5, SteadyStep DEF Progress, Here

\* Going on to the next address, from one with no server or where a call failed.
LEMMA NextAddressStep ==
  ASSUME BindTypeOK, Progress, BindNext, search \in {"ask", "connect"}, NextAddress,
         unreached \subseteq unreached',
         Here \in steady => Here \in unreached'
  PROVE  Progress'
<1>1. steady' \subseteq steady
  BY SteadyStep
<1>2. Passed(at - 1) /\ at \in 1..Len(Addresses) /\ Len(Addresses) \in Nat
  BY AddressKeys DEF Progress, BindTypeOK
<1>3. \A i \in 1..at : Addresses[i] \in steady' => Addresses[i] \in unreached'
  <2> SUFFICES ASSUME NEW i \in 1..at, Addresses[i] \in steady'
               PROVE  Addresses[i] \in unreached'
    OBVIOUS
  <2>1. i \in 1..at - 1 \/ i = at
    BY <1>2
  <2> QED
    BY <1>1, <1>2, <2>1 DEF Passed, Here
<1>4. CASE at < Len(Addresses)
  <2>1. at' = at + 1 /\ search' = "ask" /\ at' - 1 = at
    BY <1>2, <1>4 DEF NextAddress
  <2>2. Passed(at - 1)'
    BY <1>3, <2>1 DEF Passed
  <2> QED
    BY <2>1, <2>2, SteadyStep DEF Progress, SearchFinds
<1>5. CASE ~(at < Len(Addresses))
  <2>1. at = Len(Addresses) /\ search' = "refused"
    BY <1>2, <1>5 DEF NextAddress
  <2>2. steady' \subseteq unreached'
    BY <1>3, <2>1, SteadyStep, AddressKeys
  <2> QED
    BY <2>1, <2>2, SteadyStep DEF Progress, SearchFinds
<1> QED
  BY <1>4, <1>5

LEMMA SearchStep ==
  ASSUME BindTypeOK, Progress, BindNext, Search \/ Ask \/ Connect
  PROVE  Progress'
<1>1. entry' = entry /\ listening' = listening
  BY DEF Search, Ask, Connect, Look, processes
<1>2. CASE Search
  <2>1. search = "none" /\ search' = "ask" /\ at' = 1
    BY <1>2 DEF Search, Look, Progress
  <2>2. Passed(at - 1)'
    BY <2>1 DEF Passed
  <2> QED
    BY <2>1, <2>2, SteadyStep DEF Progress, SearchFinds
<1>3. CASE Ask
  <2>1. search = "ask" /\ steady' \subseteq steady
    BY <1>3, SteadyStep DEF Ask, Look
  <2>2. CASE GetAddr /\ entry[Here] = Nobody
    <3>1. Here \notin steady /\ NextAddress /\ unreached' = unreached
      BY <2>2 DEF GetAddr, Progress, Serves
    <3> QED
      BY <2>1, <3>1, NextAddressStep
  <2>3. CASE GetAddr /\ entry[Here] # Nobody
    <3>1. search' = "connect" /\ port' = entry[Here] /\ at' = at /\ unreached' = unreached
      BY <2>3 DEF GetAddr
    <3>2. Passed(at - 1)' /\ port' = entry'[Here']
      BY <1>1, <2>1, <3>1 DEF Progress, Passed, Here
    <3> QED
      BY <1>1, <3>1, <3>2, SteadyStep DEF Progress, SearchFinds, Here
  <2>4. CASE AskFails /\ NextAddress
    BY <2>1, <2>4, NextAddressStep DEF AskFails
  <2>5. CASE AskFails /\ search' = "threw"
    BY <2>5, SteadyStep DEF Progress, SearchFinds
  <2> QED
    BY <1>3, <2>2, <2>3, <2>4, <2>5 DEF Ask, AskFails
<1>4. CASE Connect
  <2>1. search = "connect"
    BY <1>4 DEF Connect, Look
  <2>2. CASE Here \in listening[port] /\ search' = "connected"
    BY <2>2, SteadyStep DEF Progress, SearchFinds
  <2>3. CASE Here \notin listening[port] /\ NextAddress /\ unreached' = unreached
    <3>1. Here \notin steady
      BY <2>1, <2>3 DEF Progress, Serves
    <3> QED
      BY <2>1, <2>3, <3>1, NextAddressStep
  <2>4. CASE NextAddress /\ unreached' = unreached \cup {Here}
    BY <2>1, <2>4, NextAddressStep
  <2> QED
    BY <1>4, <2>2, <2>3, <2>4 DEF Connect
<1> QED
  BY <1>2, <1>3, <1>4

LEMMA NextProgress ==
  BindTypeOK /\ Stages /\ Progress /\ [BindNext]_bindvars => Progress'
<1> SUFFICES ASSUME BindTypeOK, Stages, Progress, [BindNext]_bindvars  PROVE Progress'
  OBVIOUS
<1>1. CASE UNCHANGED bindvars
  BY <1>1 DEF bindvars, processes, searching, Progress, Passed, SearchFinds, Serves, Here
<1>2. CASE BindNext /\ UNCHANGED searching
  BY <1>2, OthersStep
<1>3. ASSUME NEW p \in Process, NEW k \in Key, Register(p, k) \/ Close(p, k)
      PROVE  UNCHANGED searching
  BY <1>3 DEF Register, Close
<1>4. ASSUME NEW p \in Process,
             Set(p) \/ Exit(p) \/ CleanUp(p) \/ CleanUpFails(p) \/ CleanUpDone(p) \/ Crash(p)
      PROVE  UNCHANGED searching
  BY <1>4 DEF Set, Exit, CleanUp, CleanUpFails, CleanUpDone, Crash, Ends
<1> QED
  BY <1>1, <1>2, <1>3, <1>4, SearchStep DEF BindNext, Step

----------------------------------------------------------------------------
LEMMA BindInvariant == BindSpec => []BindInv
<1>1. BindInit => BindInv
  BY InitType, InitRegistrations, InitProgress DEF BindInv
<1>2. BindInv /\ [BindNext]_bindvars => BindInv'
  BY NextType, NextRegistrations, NextProgress DEF BindInv, Registrations
<1> QED
  BY <1>1, <1>2, PTL DEF BindSpec

(***************************************************************************)
(* As long as no call fails, the table holds what the programs noted, and  *)
(* they noted all of it: what a program registered is removed when it      *)
(* exits, and stays there until then if nobody else registers it           *)
(* (rpcbind.cc:15, 195), for every number of programs and keys.            *)
(***************************************************************************)
THEOREM NotesAlwaysAgree == BindSpec => []NotesAgree
<1>1. BindInv => NotesAgree
  BY DEF BindInv, Registrations, EntriesNoted, NotesEntered, Noted, NotesAgree
<1> QED
  BY <1>1, BindInvariant, PTL

(***************************************************************************)
(* rpcbind refuses a registration (address_in_use) only to a program that  *)
(* another one raced (rpcbind.cc:190, UNSET before SET).                   *)
(***************************************************************************)
THEOREM OnlyRacesAreRefused == BindSpec => []OnlyRacesRefuse
<1>1. BindInv => OnlyRacesRefuse
  BY DEF BindInv, Registrations
<1> QED
  BY <1>1, BindInvariant, PTL

(***************************************************************************)
(* tcp_connect_rpc reports connection_refused only if at each address of   *)
(* the host the service was missing at some time since it was called, or a *)
(* call failed (rpcbind.cc:81), for every number of addresses.             *)
(***************************************************************************)
THEOREM SearchAlwaysFinds == BindSpec => []SearchFinds
<1>1. BindInv => SearchFinds
  BY DEF BindInv, Progress
<1> QED
  BY <1>1, BindInvariant, PTL
=============================================================================
