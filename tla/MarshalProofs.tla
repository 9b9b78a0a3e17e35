--------------------------- MODULE MarshalProofs ---------------------------
(***************************************************************************)
(* Messages, for any types: xdr_size is the number of bytes put, values    *)
(* come back out of the messages they are put into, and check_xdr_depth    *)
(* foretells which limits on the levels of a value are passed; a message   *)
(* that is accepted is the encoding of the value it gives.                 *)
(***************************************************************************)
EXTENDS XdrProofs

----------------------------------------------------------------------------
(***************************************************************************)
(* xdr_size, part by part.                                                 *)
(***************************************************************************)
LEMMA TotalIs ==
  ASSUME NEW s, Len(s) \in Nat, DOMAIN s = 1..Len(s),
         \A i \in 1..Len(s) : s[i] \in Nat \cup {Unsized}
  PROVE  /\ Total(s) \in Nat \cup {Unsized}
         /\ Total(s) # Unsized <=> \A i \in 1..Len(s) : s[i] # Unsized
         /\ Total(s) # Unsized => Total(s) = Sum(s)
<1>1. CASE \E i \in DOMAIN s : s[i] = Unsized
  <2>1. Total(s) = Unsized
    BY <1>1, Zenon DEF Total
  <2> QED
    BY <1>1, <2>1
<1>2. CASE ~\E i \in DOMAIN s : s[i] = Unsized
  <2>1. Total(s) = Sum(s)
    BY <1>2, Zenon DEF Total
  <2>2. \A i \in 1..Len(s) : s[i] # Unsized /\ s[i] \in Nat
    BY <1>2
  <2>3. Sum(s) \in Nat
    BY <2>2, SumIsNat
  <2>4. Sum(s) # Unsized
    BY <2>3 DEF Unsized
  <2> QED
    BY <2>1, <2>2, <2>3, <2>4
<1> QED
  BY <1>1, <1>2

LEMMA SumCons ==
  ASSUME NEW s \in Seq(Int), NEW k \in Int
  PROVE  Sum(<<k>> \o s) = k + Sum(s) /\ Sum(s) \in Int
<1> DEFINE n == Len(s)
           r == <<k>> \o s
<1>0. n \in Nat
  BY LenProperties
<1>1. <<k>> \in Seq(Int) /\ Len(<<k>>) = 1
  OBVIOUS
<1>2. Len(r) = n + 1 /\ r[1] = k /\ \A i \in 1..n : r[i + 1] = s[i]
  BY <1>0, <1>1, ConcatProperties
<1> HIDE DEF r, n
<1>3. PICK F : SumRun(F, s) /\ Sum(s) = F[n]
  BY <1>0, SumRuns DEF n
<1>4. PICK G : SumRun(G, r) /\ Sum(r) = G[n + 1]
  BY <1>0, <1>2, SumRuns
<1>5. F[0] = 0 /\ \A i \in 1..n : F[i] = F[i - 1] + s[i]
  BY <1>3, Zenon DEF SumRun, n
<1>6. G[0] = 0 /\ \A i \in 1..n + 1 : G[i] = G[i - 1] + r[i]
  BY <1>2, <1>4, Zenon DEF SumRun
<1> DEFINE T == {i \in Nat : i <= n => F[i] \in Int /\ G[i + 1] = k + F[i]}
<1>7. 0 \in T
  <2>1. 1 \in 1..n + 1
    BY <1>0
  <2>2. G[1] = G[1 - 1] + r[1]
    BY <1>6, <2>1
  <2> QED
    BY <1>2, <1>5, <1>6, <2>2
<1>8. \A i \in Nat : i \in T => i + 1 \in T
  <2> TAKE i \in Nat
  <2> HAVE i \in T
  <2>1. CASE ~(i + 1 <= n)
    BY <2>1
  <2>2. CASE i + 1 <= n
    <3>1. i + 1 \in 1..n /\ i + 1 + 1 \in 1..n + 1 /\ i <= n
      BY <1>0, <2>2
    <3>2. F[i + 1] = F[i + 1 - 1] + s[i + 1] /\ G[i + 1 + 1] = G[i + 1 + 1 - 1] + r[i + 1 + 1]
      BY <1>5, <1>6, <3>1
    <3>3. i + 1 - 1 = i /\ i + 1 + 1 - 1 = i + 1
      OBVIOUS
    <3>4. F[i + 1] = F[i] + s[i + 1] /\ G[i + 1 + 1] = G[i + 1] + s[i + 1]
      BY <1>2, <3>1, <3>2, <3>3
    <3>5. s[i + 1] \in Int
      BY <3>1, ElementOfSeq DEF n
    <3>6. F[i] \in Int /\ G[i + 1] = k + F[i]
      BY <3>1
    <3> QED
      BY <3>4, <3>5, <3>6
  <2> QED
    BY <2>1, <2>2
<1> HIDE DEF T
<1>9. n \in T
  BY <1>0, <1>7, <1>8, EveryNat
<1>10. F[n] \in Int /\ G[n + 1] = k + F[n]
  BY <1>0, <1>9 DEF T
<1> QED
  BY <1>3, <1>4, <1>10 DEF r

\* Types whose size the traits know do not look at the value.
LEMMA LeafSized ==
  ASSUME NEW t \in Type, Kind(t) \in Leaf, NEW v
  PROVE  SerialSize(t, v) = LeafSize(t, v)
<1>1. fixed_size[t] = FixedSize(t)
  BY DEF fixed_size, Type
<1>2. CASE Kind(t) = "bytes"
  <2>1. FixedSize(t) = Unsized
    BY <1>2 DEF FixedSize, Leaf, Variable, Scalar, is_bytes, Record
  <2> QED
    BY <1>1, <1>2, <2>1 DEF SerialSize
<1>3. CASE Kind(t) # "bytes"
  <2>1. FixedSize(t) = LeafSize(t, << >>)
    BY <1>3 DEF FixedSize, Leaf, Variable, Scalar, is_bytes, Record
  <2>2. LeafSize(t, << >>) = LeafSize(t, v)
    BY <1>3 DEF LeafSize, Leaf, Scalar, is_bytes
  <2>3. LeafSize(t, v) # Unsized
    <3>1. Kind(t) = "fixed" => Types[t].len \in Nat
      BY TypesAssumption DEF Type
    <3> QED
      BY <1>3, <3>1, PaddedBounds DEF LeafSize, Leaf, Scalar, is_bytes, Unsized
  <2> QED
    BY <1>1, <2>1, <2>2, <2>3 DEF SerialSize
<1> QED
  BY <1>2, <1>3

LEMMA SizesAre ==
  ASSUME RecursiveValues, NEW t \in Type, HasParts(t), NEW v \in Objects[t]
  PROVE  /\ Len(Sizes(t, v)) = Len(v) /\ Len(v) \in Nat /\ DOMAIN Sizes(t, v) = 1..Len(v)
         /\ Sizes(t, v) = [i \in 1..Len(v) |-> Sizes(t, v)[i]]
         /\ \A i \in 1..Len(v) : Sizes(t, v)[i] = SerialSize(Component(t, i), v[i])
<1>1. /\ Len(v) \in Nat /\ DOMAIN v = 1..Len(v)
      /\ \A i \in 1..Len(v) : Component(t, i) \in Type /\ v[i] \in Objects[Component(t, i)]
  BY ObjectParts
<1> DEFINE n == Len(v)
           f == Sizes(t, v)
<1>2. f = [i \in 1..n |-> SizePart(Component(t, i), v[i])]
  BY <1>1 DEF Sizes
<1>3. n \in Nat
  BY <1>1
<1>4. \A i \in 1..n : SizePart(Component(t, i), v[i]) = SerialSize(Component(t, i), v[i])
  BY <1>1 DEF RecursiveValues
<1> HIDE DEF n, f
<1>5. DOMAIN f = 1..n /\ f = [i \in 1..n |-> f[i]]
  BY <1>2
<1>6. Len(f) = n
  BY <1>3, <1>5, TupleIs
<1>7. \A i \in 1..n : f[i] = SerialSize(Component(t, i), v[i])
  BY <1>2, <1>4
<1> QED
  BY <1>3, <1>5, <1>6, <1>7 DEF n, f

LEMMA SizeOfParts ==
  ASSUME RecursiveTypes, RecursiveValues, NEW t \in Type, HasParts(t), NEW v \in Objects[t]
  PROVE  SerialSize(t, v) = IF Kind(t) \in {"vector", "pointer"} THEN Total(<<4>> \o Sizes(t, v))
                            ELSE Total(Sizes(t, v))
<1>1. fixed_size[t] = FixedSize(t)
  BY DEF fixed_size, Type
<1>2. CASE Kind(t) \in {"vector", "pointer"}
  <2>1. FixedSize(t) = Unsized
    BY <1>2 DEF FixedSize, Leaf, Variable, Scalar, is_bytes, Record
  <2> QED
    BY <1>1, <1>2, <2>1 DEF SerialSize
<1>3. CASE Kind(t) \notin {"vector", "pointer"} /\ fixed_size[t] = Unsized
  BY <1>3 DEF SerialSize, HasParts, Container, Record
<1>4. CASE Kind(t) \notin {"vector", "pointer"} /\ fixed_size[t] # Unsized
  <2> DEFINE n == Len(v)
             fs == [i \in 1..n |-> FixedSizePart(Component(t, i))]
  <2>0. Counts(t, n) /\ n \in Nat /\ \A i \in 1..n : Component(t, i) \in Type /\ v[i] \in Objects[Component(t, i)]
    BY ObjectParts
  <2>1. FixedSize(t) = Total(fs)
    <3>1. CASE Kind(t) = "array"
      <4>1. n = Types[t].len
        BY <2>0, <3>1 DEF Counts
      <4>2. \A i \in 1..n : Component(t, i) = Types[t].elem
        BY <3>1 DEF Component, Record
      <4>3. FixedSize(t) = Total([i \in 1..Types[t].len |-> FixedSizePart(Types[t].elem)])
        BY <3>1 DEF FixedSize, Leaf, Variable, Scalar, is_bytes, Record
      <4>4. [i \in 1..n |-> FixedSizePart(Types[t].elem)] = fs
        BY <4>2
      <4> QED
        BY <4>1, <4>3, <4>4
    <3>2. CASE Kind(t) \in Record
      <4>1. n = Len(Types[t].fields) /\ Types[t].fields \in Seq(DOMAIN Types)
        BY <2>0, <3>2, NestedAssumption DEF Counts, Type
      <4>2. DOMAIN Types[t].fields = 1..n
        BY <4>1, LenProperties
      <4>3. FixedSize(t) = Total([i \in DOMAIN Types[t].fields |-> FixedSizePart(Types[t].fields[i])])
        BY <3>2 DEF FixedSize, Leaf, Variable, Scalar, is_bytes, Record
      <4>4. \A i \in 1..n : Component(t, i) = Types[t].fields[i]
        BY <3>2 DEF Component
      <4>5. [i \in DOMAIN Types[t].fields |-> FixedSizePart(Types[t].fields[i])] = fs
        BY <4>2, <4>4
      <4> QED
        BY <4>3, <4>5
    <3> QED
      BY <1>4, <3>1, <3>2 DEF HasParts, Container
  <2>2. \A i \in 1..n : fs[i] # Unsized
    <3>1. Total(fs) # Unsized /\ DOMAIN fs = 1..n
      BY <1>1, <1>4, <2>1
    <3> HIDE DEF fs
    <3> QED
      BY <3>1, Zenon DEF Total
  <2>3. ASSUME NEW i \in 1..n
        PROVE  Sizes(t, v)[i] = fs[i]
    <3> DEFINE e == Component(t, i)
    <3>1. e \in Type /\ v[i] \in Objects[e]
      BY <2>0
    <3>2. fs[i] = FixedSizePart(e)
      OBVIOUS
    <3>3. FixedSizePart(e) = fixed_size[e] /\ fixed_size[e] # Unsized
      BY <2>2, <3>1, <3>2 DEF RecursiveTypes, fixed_size, Type
    <3>4. SerialSize(e, v[i]) = fixed_size[e]
      BY <3>3 DEF SerialSize
    <3>5. Sizes(t, v)[i] = SerialSize(e, v[i])
      BY SizesAre
    <3> QED
      BY <3>2, <3>3, <3>4, <3>5
  <2>4. Sizes(t, v) = [i \in 1..n |-> Sizes(t, v)[i]]
    BY SizesAre
  <2>5. Sizes(t, v) = fs
    BY <2>3, <2>4
  <2>6. SerialSize(t, v) = fixed_size[t]
    BY <1>4 DEF SerialSize
  <2> QED
    BY <1>1, <1>4, <2>1, <2>5, <2>6
<1> QED
  BY <1>2, <1>3, <1>4

LEMMA SizeOfUnion ==
  ASSUME RecursiveValues, NEW t \in Type, Kind(t) = "union", NEW u \in Objects[t]
  PROVE  /\ SerialSize(t, u) = UnionSize(t, u)
         /\ FieldNo(t, Disc(u)) = NoField => SerialSize(t, u) = Unsized
         /\ FieldNo(t, Disc(u)) = 0 => SerialSize(t, u) = 4
         /\ Selects(t, Disc(u)) => SerialSize(t, u) = Total(<<4, SerialSize(ArmOf(t, u), Member(u))>>)
<1>1. fixed_size[t] = Unsized
  BY DEF fixed_size, FixedSize, Type, Leaf, Variable, Scalar, is_bytes, Record
<1>2. SerialSize(t, u) = UnionSize(t, u)
  BY <1>1 DEF SerialSize
<1>3. FieldNo(t, Disc(u)) = NoField => UnionSize(t, u) = Unsized
  BY DEF UnionSize, NoField
<1>4. FieldNo(t, Disc(u)) = 0 => UnionSize(t, u) = 4
  BY DEF UnionSize, NoField
<1>5. Selects(t, Disc(u)) => UnionSize(t, u) = Total(<<4, SerialSize(ArmOf(t, u), Member(u))>>)
  <2> SUFFICES ASSUME Selects(t, Disc(u))
               PROVE  UnionSize(t, u) = Total(<<4, SerialSize(ArmOf(t, u), Member(u))>>)
    OBVIOUS
  <2>1. FieldNo(t, Disc(u)) > 0 /\ FieldNo(t, Disc(u)) # NoField /\ FieldNo(t, Disc(u)) # 0
    BY DEF Selects, NoField
  <2>2. ArmOf(t, u) \in Type /\ Member(u) \in Objects[ArmOf(t, u)]
    BY ObjectMember
  <2>3. SizePart(ArmOf(t, u), Member(u)) = SerialSize(ArmOf(t, u), Member(u))
    BY <2>2 DEF RecursiveValues
  <2>4. UnionSize(t, u) = Total(<<4, SizePart(ArmOf(t, u), Member(u))>>)
    BY <2>1 DEF UnionSize, ArmOf
  <2> QED
    BY <2>3, <2>4
<1> QED
  BY <1>2, <1>3, <1>4, <1>5

\* Two sizes, the first one that of a length word or a discriminant.
LEMMA TotalOfTwo ==
  ASSUME NEW k \in Nat \cup {Unsized}
  PROVE  Total(<<4, k>>) = IF k = Unsized THEN Unsized ELSE 4 + k
<1> DEFINE s == <<4, k>>
<1>1. Len(s) = 2 /\ DOMAIN s = 1..2 /\ s[1] = 4 /\ s[2] = k
  <2> DEFINE S == Nat \cup {Unsized}
  <2>1. 4 \in S /\ k \in S
    OBVIOUS
  <2> HIDE DEF S
  <2>2. s \in Seq(S) /\ Len(s) = 2
    BY <2>1
  <2> QED
    BY <2>2, LenProperties
<1> HIDE DEF s
<1>11. Len(s) \in Nat
  BY <1>1
<1>10. \E F : SumRun(F, s) /\ Sum(s) = F[Len(s)]
  BY <1>11, SumRuns
<1>2. PICK F : SumRun(F, s) /\ Sum(s) = F[2]
  BY <1>1, <1>10
<1>3. F[0] = 0 /\ \A i \in 1..2 : F[i] = F[i - 1] + s[i]
  BY <1>1, <1>2, Zenon DEF SumRun
<1>4. F[1] = F[1 - 1] + s[1] /\ F[2] = F[2 - 1] + s[2]
  BY <1>3
<1>5. k # Unsized => Sum(s) = 4 + k
  BY <1>1, <1>2, <1>3, <1>4
<1>6. \A i \in 1..2 : s[i] \in Nat \cup {Unsized}
  <2>1. 4 \in Nat
    OBVIOUS
  <2>2. \A i \in 1..2 : i = 1 \/ i = 2
    OBVIOUS
  <2> QED
    BY <1>1, <2>1, <2>2
<1>7. 4 # Unsized
  BY DEF Unsized
<1>8. /\ Total(s) # Unsized <=> \A i \in 1..2 : s[i] # Unsized
      /\ Total(s) # Unsized => Total(s) = Sum(s)
  BY <1>1, <1>6, TotalIs
<1>9. (\A i \in 1..2 : s[i] # Unsized) <=> k # Unsized
  BY <1>1, <1>7
<1> QED
  BY <1>5, <1>8, <1>9 DEF s

LEMMA SizeIsNat ==
  ASSUME RecursiveTypes, RecursiveValues
  PROVE  \A t \in Type : \A v \in Objects[t] : SerialSize(t, v) \in Nat \cup {Unsized}
<1> DEFINE P == [t \in Type |-> {v \in Objects[t] : SerialSize(t, v) \in Nat \cup {Unsized}}]
<1>1. ASSUME NEW t \in Type, NEW v \in Objects[t], PartsIn(P, t, v)
      PROVE  v \in P[t]
  <2>1. CASE Kind(t) \in Leaf
    <3>1. SerialSize(t, v) = LeafSize(t, v)
      BY <2>1, LeafSized
    <3>2. LeafSize(t, v) \in Nat
      <4>1. Kind(t) = "fixed" => Types[t].len \in Nat
        BY TypesAssumption DEF Type
      <4>2. Kind(t) = "bytes" => Len(v) \in Nat
        BY BytesObjects, LenProperties DEF is_bytes
      <4>3. Kind(t) = "bytes" => WithLength(Len(v)) \in Nat
        <5>1. CASE Kind(t) = "bytes"
          <6> DEFINE n == Len(v)
          <6>1. n \in Nat
            BY <4>2, <5>1
          <6> HIDE DEF n
          <6>2. WithLength(n) \in Nat
            BY <6>1 DEF WithLength
          <6> QED
            BY <6>2 DEF n
        <5> QED
          BY <5>1
      <4> QED
        BY <2>1, <4>1, <4>3, PaddedBounds DEF LeafSize, Leaf, Scalar, is_bytes
    <3> QED
      BY <3>1, <3>2
  <2>2. CASE HasParts(t)
    <3> DEFINE s == Sizes(t, v)
    <3>1. /\ Len(s) = Len(v) /\ Len(v) \in Nat /\ DOMAIN s = 1..Len(v)
          /\ s = [i \in 1..Len(v) |-> s[i]]
          /\ \A i \in 1..Len(v) : s[i] = SerialSize(Component(t, i), v[i])
      BY <2>2, SizesAre
    <3>2. \A i \in 1..Len(v) : Component(t, i) \in Type /\ v[i] \in P[Component(t, i)]
      BY <1>1, <2>2, ObjectParts DEF PartsIn
    <3>3. \A i \in 1..Len(s) : s[i] \in Nat \cup {Unsized}
      BY <3>1, <3>2
    <3> HIDE DEF s
    <3>4. Total(s) \in Nat \cup {Unsized}
      BY <3>1, <3>3, TotalIs
    <3>5. Total(<<4>> \o s) \in Nat \cup {Unsized}
      <4> DEFINE r == <<4>> \o s
                 S == Nat \cup {Unsized}
      <4>1. s \in Seq(S) /\ <<4>> \in Seq(S)
        <5>1. Tuple(s) /\ \A i \in 1..Len(s) : s[i] \in S
          BY <3>1, <3>3 DEF Tuple
        <5> QED
          BY <5>1, TupleSeq
      <4> HIDE DEF S
      <4>2. r \in Seq(S)
        BY <4>1, ConcatProperties
      <4> HIDE DEF r
      <4>3. Len(r) \in Nat /\ DOMAIN r = 1..Len(r) /\ \A i \in 1..Len(r) : r[i] \in S
        BY <4>2, LenProperties, ElementOfSeq
      <4> QED
        BY <4>3, TotalIs DEF S, r
    <3>6. SerialSize(t, v) = IF Kind(t) \in {"vector", "pointer"} THEN Total(<<4>> \o s)
                             ELSE Total(s)
      BY <2>2, SizeOfParts DEF s
    <3>7. SerialSize(t, v) \in Nat \cup {Unsized}
      BY <3>4, <3>5, <3>6
    <3> QED
      BY <3>7
  <2>3. CASE Kind(t) = "union"
    <3> DEFINE f == FieldNo(t, Disc(v))
               k == SerialSize(ArmOf(t, v), Member(v))
    <3>1. f \in {0, NoField} \/ Selects(t, Disc(v))
      BY <2>3, FieldsAre
    <3>2. CASE f = NoField
      <4>1. SerialSize(t, v) = Unsized
        BY <2>3, <3>2, SizeOfUnion
      <4> QED
        BY <4>1
    <3>3. CASE f = 0
      <4>1. SerialSize(t, v) = 4
        BY <2>3, <3>3, SizeOfUnion
      <4>2. SerialSize(t, v) \in Nat
        BY <4>1
      <4> QED
        BY <4>2
    <3>4. CASE Selects(t, Disc(v))
      <4>1. ArmOf(t, v) \in Type /\ Member(v) \in P[ArmOf(t, v)]
        BY <1>1, <2>3, <3>4, ObjectMember DEF PartsIn
      <4>2. k \in Nat \cup {Unsized}
        BY <4>1
      <4>3. SerialSize(t, v) = Total(<<4, k>>)
        BY <2>3, <3>4, SizeOfUnion
      <4> HIDE DEF k
      <4>4. Total(<<4, k>>) \in Nat \cup {Unsized}
        BY <4>2, TotalOfTwo
      <4> QED
        BY <4>3, <4>4
    <3> QED
      BY <3>1, <3>2, <3>3, <3>4
  <2> QED
    BY <2>1, <2>2, <2>3, Kinds
<1> HIDE DEF P
<1>2. \A t \in Type : \A v \in Objects[t] : v \in P[t]
  BY <1>1, ByParts
<1> QED
  BY <1>2 DEF P

----------------------------------------------------------------------------
(***************************************************************************)
(* The bytes b that a value is marshaled to, where they have room, and the *)
(* set K of the limits that its levels stay within.                        *)
(***************************************************************************)
ReadyPut(a, n) == PutsWords(a) /\ ~Failed(a) /\ Len(a.out) + n <= a.end
Out(a, b) == [a EXCEPT !.out = a.out \o b]
PutDone(a, q, b, K) ==
  IF a.limit \in K THEN q = Out(a, b) ELSE q \in Putters /\ q.err = "stack"

ReadyDepth(a) == a \in DepthCheckers /\ ~Failed(a) /\ a.within /\ a.current <= a.limit
DepthDone(a, q, K) ==
  IF a.limit - a.current \in K THEN q = a
  ELSE q \in DepthCheckers /\ ~Failed(q) /\ ~q.within /\ a.current <= q.current

IsBytes(b) == b \in Seq(Octet) /\ Len(b) % 4 = 0
PutsCode(t, v, b, K) == \A a : ReadyPut(a, Len(b)) => PutDone(a, ArchivePart(t, v, a), b, K)
ChecksCode(t, v, K) == \A a : ReadyDepth(a) => DepthDone(a, ArchivePart(t, v, a), K)
\* A value that get accepts comes back, any other is refused.
ReadyGet(a, b) == GetsWords(a) /\ ~Failed(a) /\ Shows(a, b)
GetDone(ok, v, a, r, b, K) ==
  /\ ok => IF a.limit \in K THEN r = Gives(v, Skip(a, Len(b))) ELSE r.a.err = "stack"
  /\ ~ok /\ a.limit \in K => Failed(r.a)
GetsCode(t, v, b, K) ==
  \A x \in Objects[t] : \A a :
    ReadyGet(a, b) => GetDone(IsValid(t, v), v, a, UnarchivePart(t, x, a), b, K)

IsCode(t, v, b, K) ==
  /\ IsBytes(b) /\ Len(b) = SerialSize(t, v) /\ K \subseteq Nat
  /\ PutsCode(t, v, b, K) /\ ChecksCode(t, v, K) /\ GetsCode(t, v, b, K)

LEMMA BytesJoined ==
  ASSUME NEW x, IsBytes(x), NEW y, IsBytes(y)
  PROVE  IsBytes(x \o y) /\ Len(x \o y) = Len(x) + Len(y) /\ Len(x) \in Nat /\ Len(y) \in Nat
<1>1. x \in Seq(Octet) /\ y \in Seq(Octet) /\ Len(x) % 4 = 0 /\ Len(y) % 4 = 0
  BY DEF IsBytes
<1>2. Len(x) \in Nat /\ Len(y) \in Nat
  BY <1>1, LenProperties
<1>3. x \o y \in Seq(Octet) /\ Len(x \o y) = Len(x) + Len(y)
  BY <1>1, OctetsJoined
<1> DEFINE m == Len(x)
           n == Len(y)
<1>4. m \in Int /\ n \in Int
  BY <1>2
<1>5. m % 4 = 0
  BY <1>1
<1>6. n % 4 = 0
  BY <1>1
<1> HIDE DEF m, n
<1>7. (m + n) % 4 = 0
  BY <1>4, <1>5, <1>6, WordSums
<1> QED
  BY <1>2, <1>3, <1>7 DEF IsBytes, m, n

LEMMA NoBytes == IsBytes(<< >>) /\ Len(<< >>) = 0
BY EmptySeq DEF IsBytes

\* Putting goes on behind what is put.
PutsOn(a, x, y) ==
  /\ ReadyPut(Out(a, x), Len(y)) /\ Out(a, x).limit = a.limit
  /\ Out(Out(a, x), y) = Out(a, x \o y)
LEMMA PutMore ==
  ASSUME NEW x, IsBytes(x), NEW y, IsBytes(y), NEW a, ReadyPut(a, Len(x) + Len(y))
  PROVE  PutsOn(a, x, y)
<1> DEFINE m == Len(y)
<1>0. m \in Nat
  BY LenProperties DEF IsBytes
<1>1. /\ a \in Putters /\ a.end % 4 = 0 /\ Len(a.out) % 4 = 0 /\ Len(a.out) <= a.end
      /\ a.out \in Seq(Octet) /\ a.end \in Nat /\ ~Failed(a) /\ Len(a.out) + (Len(x) + m) <= a.end
  BY DEF ReadyPut, PutsWords, Putters
<1> DEFINE o == a.out
           p == o \o x
           q == Out(a, x)
<1>2. IsBytes(o)
  BY <1>1 DEF IsBytes
<1>3. IsBytes(p) /\ Len(p) = Len(o) + Len(x) /\ Len(o) \in Nat /\ Len(x) \in Nat
  <2> HIDE DEF o
  <2> QED
    BY <1>2, BytesJoined
<1>4. p \in Seq(Octet) /\ Len(p) % 4 = 0
  BY <1>3 DEF IsBytes
<1>5. o = a.out
  OBVIOUS
<1> HIDE DEF p, o, m
<1>6. q = [a EXCEPT !.out = p]
  BY DEF p, o, Out
<1> HIDE DEF q
<1>7. q \in Putters /\ q.out = p /\ q.end = a.end /\ q.limit = a.limit /\ q.err = a.err
  BY <1>1, <1>4, <1>6 DEF Putters
<1>8. ReadyPut(q, m)
  <2> DEFINE i == Len(p)
             j == Len(o)
             k == Len(x)
             n == a.end
  <2>3. i = j + k /\ j + (k + m) <= n /\ j \in Nat /\ k \in Nat /\ n \in Nat
    BY <1>1, <1>3, <1>5
  <2> HIDE DEF i, j, k, n
  <2>4. i <= n /\ i + m <= n
    BY <1>0, <2>3
  <2>1. Len(p) <= a.end /\ Len(p) + m <= a.end
    BY <2>4 DEF i, n
  <2>2. PutsWords(q)
    BY <1>1, <1>4, <1>7, <2>1 DEF PutsWords
  <2> QED
    BY <1>1, <1>7, <2>1, <2>2 DEF ReadyPut, Failed
<1>9. Out(q, y) = Out(a, x \o y)
  <2>1. p \o y = o \o (x \o y)
    BY <1>2, OctetsAssociate DEF p, IsBytes
  <2> DEFINE z == p \o y
  <2>2. Out(q, y) = [q EXCEPT !.out = z]
    BY <1>7 DEF Out
  <2>3. Out(a, x \o y) = [a EXCEPT !.out = z]
    BY <1>5, <2>1 DEF Out
  <2> HIDE DEF z
  <2>4. [q EXCEPT !.out = z] = [a EXCEPT !.out = z]
    BY <1>1, <1>6 DEF Putters
  <2> QED
    BY <2>2, <2>3, <2>4
<1> QED
  BY <1>7, <1>8, <1>9 DEF q, m, PutsOn

LEMMA PutNothing ==
  ASSUME NEW a, ReadyPut(a, 0)
  PROVE  Out(a, << >>) = a
<1>1. a \in Putters /\ a.out \in Seq(Octet)
  BY DEF ReadyPut, PutsWords, Putters
<1>2. a.out \o << >> = a.out
  BY <1>1, ConcatEmptySeq
<1> QED
  BY <1>1, <1>2 DEF Putters, Out

----------------------------------------------------------------------------
(***************************************************************************)
(* Bytes joined one after the other.                                       *)
(***************************************************************************)
LEMMA JoinedBytes ==
  ASSUME NEW n \in Nat, NEW b, \A i \in 1..n : IsBytes(b[i]), NEW F, Joined(F, b, n)
  PROVE  /\ \A i \in 0..n : IsBytes(F[i]) /\ Len(F[i]) \in Nat /\ Len(F[i]) <= Len(F[n])
         /\ \A i \in 1..n : Len(F[i]) = Len(F[i - 1]) + Len(b[i]) /\ Len(b[i]) \in Nat
<1>1. F[0] = << >> /\ \A i \in 1..n : F[i] = F[i - 1] \o b[i]
  BY Zenon DEF Joined
<1> DEFINE D == [i \in Nat |-> {s \in Seq(Octet) : IsBytes(s)}]
<1>2. F[0] \in D[0]
  BY <1>1, NoBytes DEF IsBytes
<1>3. \A i \in 1..n : F[i - 1] \in D[i - 1] => F[i] \in D[i]
  <2> TAKE i \in 1..n
  <2> HAVE F[i - 1] \in D[i - 1]
  <2>1. i \in Nat /\ i - 1 \in Nat
    OBVIOUS
  <2>2. IsBytes(F[i - 1]) /\ IsBytes(b[i])
    BY <2>1
  <2>3. IsBytes(F[i - 1] \o b[i])
    BY <2>2, BytesJoined
  <2>4. IsBytes(F[i])
    BY <1>1, <2>3
  <2> QED
    BY <2>1, <2>4 DEF IsBytes
<1>4. \A i \in Nat : \A s \in D[i] : IsBytes(s)
  OBVIOUS
<1> HIDE DEF D
<1>5. \A i \in 0..n : F[i] \in D[i]
  BY <1>2, <1>3, RunKeeps
<1>6. \A i \in 0..n : IsBytes(F[i])
  BY <1>4, <1>5
<1>7. ASSUME NEW i \in 1..n
      PROVE  Len(F[i]) = Len(F[i - 1]) + Len(b[i]) /\ Len(b[i]) \in Nat
  <2> DEFINE x == F[i - 1]
             y == b[i]
  <2>1. i - 1 \in 0..n
    OBVIOUS
  <2>2. IsBytes(x) /\ IsBytes(y) /\ F[i] = x \o y
    BY <1>1, <1>6, <2>1
  <2> HIDE DEF x, y
  <2>3. Len(x \o y) = Len(x) + Len(y) /\ Len(y) \in Nat
    BY <2>2, BytesJoined
  <2> QED
    BY <2>2, <2>3 DEF x, y
<1>8. \A i \in 0..n : Len(F[i]) \in Nat
  BY <1>6, LenProperties DEF IsBytes
<1> DEFINE T == {k \in Nat : k <= n => Len(F[n - k]) <= Len(F[n])}
<1>9. 0 \in T
  BY <1>8
<1>10. \A k \in Nat : k \in T => k + 1 \in T
  <2> TAKE k \in Nat
  <2> HAVE k \in T
  <2>1. CASE ~(k + 1 <= n)
    BY <2>1
  <2>2. CASE k + 1 <= n
    <3> DEFINE i == n - k
    <3>1. i \in 1..n /\ i \in 0..n /\ i - 1 \in 0..n /\ n - (k + 1) = i - 1 /\ k <= n
      BY <2>2
    <3>2. Len(F[i]) <= Len(F[n])
      BY <3>1
    <3>3. Len(F[i]) = Len(F[i - 1]) + Len(b[i]) /\ Len(b[i]) \in Nat
      BY <1>7, <3>1
    <3>4. Len(F[i]) \in Nat /\ Len(F[i - 1]) \in Nat /\ Len(F[n]) \in Nat
      BY <1>8, <3>1
    <3> DEFINE w == Len(F[i])
               x == Len(F[i - 1])
               y == Len(b[i])
               z == Len(F[n])
    <3>6. w <= z /\ w = x + y /\ y \in Nat /\ w \in Nat /\ x \in Nat /\ z \in Nat
      BY <3>2, <3>3, <3>4
    <3> HIDE DEF i, w, x, y, z
    <3>7. x <= z
      BY <3>6
    <3>5. Len(F[i - 1]) <= Len(F[n])
      BY <3>7 DEF x, z
    <3> QED
      BY <3>1, <3>5
  <2> QED
    BY <2>1, <2>2
<1> HIDE DEF T
<1>11. \A k \in Nat : k \in T
  BY <1>9, <1>10, EveryNat
<1>12. ASSUME NEW i \in 0..n
       PROVE  Len(F[i]) <= Len(F[n])
  <2>1. n - i \in Nat /\ n - i <= n /\ n - (n - i) = i
    OBVIOUS
  <2> DEFINE k == n - i
  <2>2. k \in T /\ k <= n
    BY <1>11, <2>1
  <2> HIDE DEF k
  <2>3. Len(F[n - k]) <= Len(F[n])
    BY <2>2 DEF T
  <2> QED
    BY <2>1, <2>3 DEF k
<1> QED
  BY <1>6, <1>7, <1>8, <1>12

LEMMA JoinedSize ==
  ASSUME NEW n \in Nat, NEW b, \A i \in 1..n : IsBytes(b[i]), NEW F, Joined(F, b, n),
         NEW s, Len(s) = n, \A i \in 1..n : s[i] = Len(b[i])
  PROVE  Len(F[n]) = Sum(s)
<1>1. PICK G : SumRun(G, s) /\ Sum(s) = G[n]
  BY SumRuns
<1>2. G[0] = 0 /\ \A i \in 1..n : G[i] = G[i - 1] + s[i]
  BY <1>1, Zenon DEF SumRun
<1>3. /\ \A i \in 0..n : Len(F[i]) \in Nat
      /\ \A i \in 1..n : Len(F[i]) = Len(F[i - 1]) + s[i]
  <2>1. /\ \A i \in 0..n : IsBytes(F[i]) /\ Len(F[i]) \in Nat /\ Len(F[i]) <= Len(F[n])
        /\ \A i \in 1..n : Len(F[i]) = Len(F[i - 1]) + Len(b[i]) /\ Len(b[i]) \in Nat
    BY JoinedBytes, Zenon
  <2> QED
    BY <2>1, Zenon
<1>4. Len(F[0]) = 0
  BY NoBytes DEF Joined
<1> DEFINE T == {i \in Nat : i <= n => Len(F[i]) = G[i]}
<1>5. 0 \in T
  BY <1>2, <1>4
<1>6. \A i \in Nat : i \in T => i + 1 \in T
  <2> TAKE i \in Nat
  <2> HAVE i \in T
  <2>1. CASE ~(i + 1 <= n)
    BY <2>1
  <2>2. CASE i + 1 <= n
    <3>1. i + 1 \in 1..n /\ i + 1 - 1 = i /\ i <= n
      BY <2>2
    <3>2. Len(F[i + 1]) = Len(F[i + 1 - 1]) + s[i + 1] /\ G[i + 1] = G[i + 1 - 1] + s[i + 1]
      BY <1>2, <1>3, <3>1
    <3> QED
      BY <3>1, <3>2
  <2> QED
    BY <2>1, <2>2
<1> HIDE DEF T
<1>7. n \in T
  BY <1>5, <1>6, EveryNat
<1> QED
  BY <1>1, <1>7 DEF T

----------------------------------------------------------------------------
(***************************************************************************)
(* Components, one after the other.                                        *)
(***************************************************************************)
PartsCoded(t, v, b, K) ==
  \A i \in 1..Len(v) : IsCode(Component(t, i), v[i], b[i], K[i])
All(K, n) == {L \in Nat : \A i \in 1..n : L \in K[i]}

LEMMA FirstPuts ==
  ASSUME NEW t, NEW v, NEW n \in Nat, n = Len(v), NEW b, NEW K, PartsCoded(t, v, b, K),
         NEW F, Joined(F, b, n), NEW a, ReadyPut(a, Len(F[n]))
  PROVE  PutDone(a, SaveFirst(t, n, v, a), F[n], All(K, n))
<1> DEFINE L == a.limit
           o == a.out
           Reached(i) == {s \in Putters :
                            IF \A j \in 1..i : L \in K[j] THEN s = Out(a, F[i])
                            ELSE s.err = "stack"}
           D == [i \in Nat |-> Reached(i)]
<1>1. PICK S : SaveRun(S, t, n, v, a) /\ SaveFirst(t, n, v, a) = S[n]
  BY SaveRuns
<1>2. S[0] = a /\ \A i \in 1..n : S[i] = SaveTurn(t, v, S[i - 1], i)
  BY <1>1, Zenon DEF SaveRun
<1>3. \A i \in 1..n : IsBytes(b[i]) /\ PutsCode(Component(t, i), v[i], b[i], K[i])
  BY DEF PartsCoded, IsCode
<1>4. /\ \A i \in 0..n : IsBytes(F[i]) /\ Len(F[i]) \in Nat /\ Len(F[i]) <= Len(F[n])
      /\ \A i \in 1..n : Len(F[i]) = Len(F[i - 1]) + Len(b[i]) /\ Len(b[i]) \in Nat
  BY <1>3, JoinedBytes
<1>5. F[0] = << >> /\ \A i \in 1..n : F[i] = F[i - 1] \o b[i]
  BY Zenon DEF Joined
<1>6. /\ PutsWords(a) /\ ~Failed(a) /\ Len(a.out) + Len(F[n]) <= a.end
      /\ a \in Putters /\ a.end \in Nat /\ Len(a.out) \in Nat /\ L \in Nat
  BY LenProperties DEF ReadyPut, PutsWords, Putters
<1>7. \A i \in 0..n : ReadyPut(a, Len(F[i]))
  <2> TAKE i \in 0..n
  <2> DEFINE x == Len(a.out)
             y == Len(F[i])
             z == Len(F[n])
  <2>2. x + z <= a.end /\ y <= z /\ x \in Nat /\ y \in Nat /\ a.end \in Nat
    BY <1>4, <1>6
  <2>3. z \in Nat
    BY <1>4
  <2> HIDE DEF x, y, z
  <2>4. x + y <= a.end
    BY <2>2, <2>3
  <2>1. Len(a.out) + Len(F[i]) <= a.end
    BY <2>4 DEF x, y
  <2> QED
    BY <1>6, <2>1 DEF ReadyPut
<1>8. S[0] \in D[0]
  <2>1. ReadyPut(a, 0)
    BY <1>5, <1>7, NoBytes
  <2>2. a = Out(a, F[0])
    BY <1>5, <2>1, PutNothing
  <2>3. \A j \in 1..0 : FALSE
    OBVIOUS
  <2> QED
    BY <1>2, <1>6, <2>2, <2>3
<1>9. ASSUME NEW i \in 1..n, S[i - 1] \in D[i - 1]
      PROVE  S[i] \in D[i]
  <2> DEFINE s == S[i - 1]
             e == Component(t, i)
             q == ArchivePart(e, v[i], s)
             x == F[i - 1]
             y == b[i]
  <2>1. i \in Nat /\ i - 1 \in Nat /\ i - 1 \in 0..n /\ i \in 0..n
    OBVIOUS
  <2>2. s \in Reached(i - 1)
    BY <1>9, <2>1
  <2>3. S[i] = IF Failed(s) THEN s ELSE q
    BY <1>2, Zenon DEF SaveTurn
  <2>4. CASE ~\A j \in 1..i - 1 : L \in K[j]
    <3>1. s \in Putters /\ s.err = "stack"
      BY <2>2, <2>4
    <3>2. ~\A j \in 1..i : L \in K[j]
      BY <2>1, <2>4
    <3>3. S[i] = s
      BY <2>3, <3>1 DEF Failed
    <3>4. S[i] \in Reached(i)
      BY <3>1, <3>2, <3>3
    <3> QED
      BY <2>1, <3>4
  <2>5. CASE \A j \in 1..i - 1 : L \in K[j]
    <3>1. s = Out(a, x)
      BY <2>2, <2>5
    <3>2. IsBytes(x) /\ IsBytes(y) /\ F[i] = x \o y /\ Len(F[i]) = Len(x) + Len(y) /\ Len(y) \in Nat
      BY <1>3, <1>4, <1>5, <2>1
    <3>3. ReadyPut(a, Len(x) + Len(y))
      BY <1>7, <2>1, <3>2
    <3>8. PutsCode(e, v[i], y, K[i])
      BY <1>3
    <3> HIDE DEF s, x, y
    <3>4. /\ ReadyPut(s, Len(y)) /\ s.limit = L
          /\ Out(s, y) = Out(a, F[i])
      <4>1. PutsOn(a, x, y)
        BY <3>2, <3>3, PutMore
      <4>2. /\ ReadyPut(Out(a, x), Len(y)) /\ Out(a, x).limit = a.limit
            /\ Out(Out(a, x), y) = Out(a, x \o y)
        BY <4>1, Zenon DEF PutsOn
      <4> QED
        BY <3>1, <3>2, <4>2, Zenon
    <3>5. PutDone(s, q, y, K[i])
      BY <3>4, <3>8, Zenon DEF PutsCode
    <3>6. S[i] = q
      BY <2>3, <3>4 DEF ReadyPut
    <3> HIDE DEF q
    <3>7. CASE L \in K[i]
      <4>1. q = Out(a, F[i])
        BY <3>4, <3>5, <3>7, Zenon DEF PutDone
      <4>2. q \in Putters
        <5> DEFINE z == a.out \o F[i]
        <5>1. z \in Seq(Octet)
          BY <1>4, <1>6, <2>1, ConcatProperties DEF IsBytes, Putters
        <5> HIDE DEF z
        <5>2. q = [a EXCEPT !.out = z]
          BY <4>1 DEF z, Out
        <5> QED
          BY <1>6, <5>1, <5>2 DEF Putters
      <4>3. \A j \in 1..i : L \in K[j]
        BY <2>1, <2>5, <3>7
      <4>4. q \in Reached(i)
        BY <4>1, <4>2, <4>3
      <4> QED
        BY <2>1, <3>6, <4>4
    <3>9. CASE L \notin K[i]
      <4>1. q \in Putters /\ q.err = "stack"
        BY <3>4, <3>5, <3>9, Zenon DEF PutDone
      <4>2. ~\A j \in 1..i : L \in K[j]
        BY <2>1, <3>9
      <4>4. q \in Reached(i)
        BY <4>1, <4>2
      <4> QED
        BY <2>1, <3>6, <4>4
    <3> QED
      BY <3>7, <3>9
  <2> QED
    BY <2>4, <2>5
<1>10. D[n] = Reached(n)
  OBVIOUS
<1>11. \A i \in 1..n : S[i - 1] \in D[i - 1] => S[i] \in D[i]
  BY <1>9
<1> HIDE DEF D
<1>12. \A i \in 0..n : S[i] \in D[i]
  BY <1>8, <1>11, RunKeeps
<1>15. n \in 0..n
  OBVIOUS
<1>13. S[n] \in Reached(n)
  BY <1>10, <1>12, <1>15, Zenon
<1>14. L \in All(K, n) <=> \A j \in 1..n : L \in K[j]
  BY <1>6 DEF All
<1> QED
  BY <1>1, <1>13, <1>14 DEF PutDone

\* A checker that has given its verdict looks at nothing more.
LEMMA VerdictStays ==
  ASSUME RecursiveArchives, NEW t \in Type, NEW v \in Objects[t], NEW a \in DepthCheckers,
         ~Failed(a), ~a.within
  PROVE  ArchivePart(t, v, a) = a
<1>1. ArchivePart(t, v, a) = Archive(t, v, a)
  BY DEF RecursiveArchives
<1>2. Archive(t, v, a) = CheckDepth(t, v, a)
  BY DEF Archive, DepthCheckers
<1> QED
  BY <1>1, <1>2 DEF CheckDepth

LEMMA FirstChecks ==
  ASSUME RecursiveArchives, NEW t \in Type, HasParts(t), NEW v \in Objects[t],
         NEW n \in Nat, n = Len(v), NEW b, NEW K, PartsCoded(t, v, b, K),
         NEW a, ReadyDepth(a)
  PROVE  DepthDone(a, SaveFirst(t, n, v, a), All(K, n))
<1> DEFINE L == a.limit - a.current
           Reached(i) == {s \in DepthCheckers :
                            IF \A j \in 1..i : L \in K[j] THEN s = a
                            ELSE ~Failed(s) /\ ~s.within /\ a.current <= s.current}
           D == [i \in Nat |-> Reached(i)]
<1>1. PICK S : SaveRun(S, t, n, v, a) /\ SaveFirst(t, n, v, a) = S[n]
  BY SaveRuns
<1>2. S[0] = a /\ \A i \in 1..n : S[i] = SaveTurn(t, v, S[i - 1], i)
  BY <1>1, Zenon DEF SaveRun
<1>3. /\ \A i \in 1..n : ChecksCode(Component(t, i), v[i], K[i])
      /\ \A i \in 1..n : Component(t, i) \in Type /\ v[i] \in Objects[Component(t, i)]
  BY ObjectParts DEF PartsCoded, IsCode
<1>4. a \in DepthCheckers /\ ~Failed(a) /\ a.within /\ L \in Nat
  BY DEF ReadyDepth, DepthCheckers
<1>5. S[0] \in D[0]
  <2>1. \A j \in 1..0 : FALSE
    OBVIOUS
  <2> QED
    BY <1>2, <1>4, <2>1
<1>6. ASSUME NEW i \in 1..n, S[i - 1] \in D[i - 1]
      PROVE  S[i] \in D[i]
  <2> DEFINE s == S[i - 1]
             e == Component(t, i)
             q == ArchivePart(e, v[i], s)
  <2>1. i \in Nat /\ i - 1 \in Nat
    OBVIOUS
  <2>2. s \in Reached(i - 1)
    BY <1>6, <2>1
  <2>3. S[i] = IF Failed(s) THEN s ELSE q
    BY <1>2, Zenon DEF SaveTurn
  <2>4. CASE ~\A j \in 1..i - 1 : L \in K[j]
    <3>1. s \in DepthCheckers /\ ~Failed(s) /\ ~s.within /\ a.current <= s.current
      BY <2>2, <2>4
    <3>2. ~\A j \in 1..i : L \in K[j]
      BY <2>1, <2>4
    <3>3. q = s
      BY <1>3, <3>1, VerdictStays
    <3>4. S[i] \in Reached(i)
      BY <2>3, <3>1, <3>2, <3>3
    <3> QED
      BY <2>1, <3>4
  <2>5. CASE \A j \in 1..i - 1 : L \in K[j]
    <3>1. s = a
      BY <2>2, <2>5
    <3>2. DepthDone(a, q, K[i])
      BY <1>3, <3>1, Zenon DEF ChecksCode
    <3>3. S[i] = q
      BY <1>4, <2>3, <3>1
    <3> HIDE DEF q
    <3>4. CASE L \in K[i]
      <4>1. q = a /\ \A j \in 1..i : L \in K[j]
        BY <2>1, <2>5, <3>2, <3>4 DEF DepthDone
      <4>2. q \in Reached(i)
        BY <1>4, <4>1
      <4> QED
        BY <2>1, <3>3, <4>2
    <3>5. CASE L \notin K[i]
      <4>1. q \in DepthCheckers /\ ~Failed(q) /\ ~q.within /\ a.current <= q.current
        BY <3>2, <3>5 DEF DepthDone
      <4>2. ~\A j \in 1..i : L \in K[j]
        BY <2>1, <3>5
      <4>3. q \in Reached(i)
        BY <4>1, <4>2
      <4> QED
        BY <2>1, <3>3, <4>3
    <3> QED
      BY <3>4, <3>5
  <2> QED
    BY <2>4, <2>5
<1>10. D[n] = Reached(n)
  OBVIOUS
<1>11. \A i \in 1..n : S[i - 1] \in D[i - 1] => S[i] \in D[i]
  BY <1>6
<1> HIDE DEF D
<1>12. \A i \in 0..n : S[i] \in D[i]
  BY <1>5, <1>11, RunKeeps
<1>15. n \in 0..n
  OBVIOUS
<1>13. S[n] \in Reached(n)
  BY <1>10, <1>12, <1>15, Zenon
<1>14. L \in All(K, n) <=> \A j \in 1..n : L \in K[j]
  BY <1>4 DEF All
<1> QED
  BY <1>1, <1>13, <1>14 DEF DepthDone

----------------------------------------------------------------------------
(***************************************************************************)
(* Numbers and bytes.                                                      *)
(***************************************************************************)
LEMMA ObjectShape ==
  ASSUME NEW t \in Type, Kind(t) \in Leaf, NEW v \in Objects[t]
  PROVE  LeafShape(t, v)
<1>0. Objects[t] = LeafValues(t)
  BY LeafObjects
<1>1. CASE Kind(t) \in {"u32", "enum"}
  BY <1>0, <1>1 DEF LeafValues, LeafShape, Scalar
<1>2. CASE Kind(t) = "bool"
  <2>1. {0, 1} \subseteq U32
    BY SMT DEF U32
  <2>2. v \in {<<n>> : n \in {0, 1}}
    BY <1>0, <1>2 DEF LeafValues
  <2> QED
    BY <1>2, <2>1, <2>2 DEF LeafShape, Scalar
<1>3. CASE Kind(t) = "u64"
  <2>1. v \in {<<h, l>> : h \in U32, l \in U32}
    BY <1>0, <1>3 DEF LeafValues
  <2> QED
    BY <1>3, <2>1 DEF LeafShape
<1>4. CASE Kind(t) \in is_bytes
  BY <1>4, BytesObjects DEF LeafShape, is_bytes
<1> QED
  BY <1>1, <1>2, <1>3, <1>4 DEF Leaf, Scalar

LEMMA ValidLeaf ==
  ASSUME NEW t \in Type, Kind(t) \in Leaf, NEW v \in Objects[t]
  PROVE  IsValid(t, v) <=> LeafValue(t, v)
<1>0. LeafShape(t, v) /\ Objects[t] = LeafValues(t)
  BY ObjectShape, LeafObjects
<1>1. CASE Kind(t) = "u32"
  BY <1>0, <1>1 DEF IsValid, LeafShape, LeafValue, Scalar, Nested, Container, Record, is_bytes
<1>2. CASE Kind(t) = "bool"
  <2>2. v \in {<<n>> : n \in {0, 1}}
    BY <1>0, <1>2 DEF LeafValues
  <2> QED
    BY <1>2, <2>2 DEF IsValid, LeafValue, Scalar, Nested, Container, Record, is_bytes
<1>3. CASE Kind(t) = "enum"
  <2>1. PICK n \in U32 : v = <<n>>
    BY <1>0, <1>3 DEF LeafShape, Scalar, is_bytes
  <2>4. v[1] = n
    BY <2>1
  <2>2. IsValid(t, v) <=> validate_enum(t, n)
    BY <1>3, <2>4 DEF IsValid, Nested, Container, Record
  <2>3. LeafValue(t, v) <=> validate_enum(t, n)
    BY <1>3, <2>1 DEF LeafValue
  <2> QED
    BY <2>2, <2>3
<1>4. CASE Kind(t) = "u64"
  BY <1>0, <1>4 DEF IsValid, LeafShape, LeafValue, Scalar, Nested, Container, Record, is_bytes
<1>5. CASE Kind(t) = "fixed"
  BY <1>0, <1>5 DEF IsValid, LeafShape, LeafValue, Scalar, Nested, Container, Record, is_bytes
<1>6. CASE Kind(t) = "bytes"
  BY <1>0, <1>6 DEF IsValid, LeafShape, LeafValue, Scalar, Nested, Container, Record, is_bytes
<1> QED
  BY <1>1, <1>2, <1>3, <1>4, <1>5, <1>6 DEF Leaf, Scalar, is_bytes

\* A number that is no tag and bytes that are too many are refused.
LEMMA LeafRefused ==
  ASSUME NEW t \in Type, Kind(t) \in Leaf, NEW v \in Objects[t], ~LeafValue(t, v), NEW w,
         NEW a, ReadyGet(a, LeafBytes(t, v))
  PROVE  Failed(GetLeaf(t, w, a).a)
<1>0. LeafShape(t, v) /\ Objects[t] = LeafValues(t) /\ GetsWords(a) /\ a.at \in Nat
      /\ Shows(a, LeafBytes(t, v)) /\ ~Failed(a) /\ a \in Getters
  BY ObjectShape, LeafObjects, GetterTypes DEF ReadyGet
<1>1. CASE Kind(t) = "enum"
  <2>1. PICK n \in U32 : v = <<n>>
    BY <1>0, <1>1 DEF LeafShape, Scalar, is_bytes
  <2>2. ~validate_enum(t, n)
    BY <1>1, <2>1 DEF LeafValue
  <2>3. LeafBytes(t, v) = Word(n) /\ Len(Word(n)) = 4
    BY <1>1, <2>1, WordOfNumber DEF LeafBytes
  <2>4. a.at + 4 <= Len(a.in) /\ \A j \in 1..4 : a.in[a.at + j] = Word(n)[j]
    BY <1>0, <2>3 DEF Shows
  <2>5. a.at + 0 + 4 <= Len(a.in) /\ \A j \in 1..4 : a.in[a.at + 0 + j] = Word(n)[j]
    <3>1. a.at + 0 = a.at
      BY <1>0
    <3> QED
      BY <2>4, <3>1, Zenon
  <2>6. Number(WordAt(a, 0)) = n
    <3>1. 0 \in Nat
      OBVIOUS
    <3> QED
      BY <1>0, <2>1, <2>5, <3>1, WordBack, Zenon
  <2>7. HasRoom(a, 4)
    BY <1>0, <2>4, RoomFor
  <2>8. GetLeaf(t, w, a) = GetScalar(t, w, a)
    BY <1>1 DEF GetLeaf
  <2>9. GetScalar(t, w, a) = Scan(t, n, Skip(a, 4))
    BY <2>6, <2>7 DEF GetScalar
  <2>10. Scan(t, n, Skip(a, 4)) = Gives(<<from_uint(t, n)>>, Raise(Skip(a, 4), "invariant"))
    BY <2>2 DEF Scan
  <2>11. Failed(Raise(Skip(a, 4), "invariant"))
    <3>1. Skip(a, 4) \in Getters
      BY <1>0 DEF Skip, Getters
    <3> QED
      BY <3>1 DEF Failed, Raise, Getters
  <2>12. Gives(<<from_uint(t, n)>>, Raise(Skip(a, 4), "invariant")).a = Raise(Skip(a, 4), "invariant")
    BY GivesIs
  <2> QED
    BY <2>8, <2>9, <2>10, <2>11, <2>12
<1>2. CASE Kind(t) = "bytes"
  <2> DEFINE n == Len(v)
             b == Skip(a, 4)
  <2>1. v \in Seq(Octet) /\ n \in U32 /\ n \in Nat /\ MaxSize(t) \in Nat
    BY <1>0, <1>2, LenProperties, TypesAssumption DEF LeafShape, Scalar, MaxSize, Type
  <2>2. n > MaxSize(t)
    BY <1>2, <2>1 DEF LeafValue
  <2>3. LeafBytes(t, v) = Word(n) \o put_bytes(v)
    BY <1>2 DEF LeafBytes
  <2>4. Word(n) \in Seq(Octet) /\ Len(Word(n)) = 4 /\ put_bytes(v) \in Seq(Octet)
    BY <2>1, WordOfNumber, PutBytesPads
  <2>5. Len(put_bytes(v)) \in Nat
    BY <2>4, LenProperties
  <2> DEFINE p == Word(n)
             z == put_bytes(v)
  <2>6. p \in Seq(Octet) /\ z \in Seq(Octet) /\ Shows(a, p \o z) /\ Len(p) = 4 /\ Len(z) \in Nat
    BY <1>0, <2>3, <2>4, <2>5
  <2> HIDE DEF p, z, n
  <2>7. ShowsParts(a, p, z)
    BY <1>0, <2>6, ShownBoth
  <2>8. a.at + 4 <= Len(a.in) /\ \A j \in 1..4 : a.in[a.at + j] = p[j]
    <3>1. a.at + Len(p) + Len(z) <= Len(a.in) /\ \A k \in 1..Len(p) : a.in[a.at + k] = p[k]
      BY <2>7 DEF ShowsParts
    <3>2. Len(a.in) \in Nat
      BY <1>0, GetterTypes
    <3> DEFINE x == Len(p)
               y == Len(z)
               u == Len(a.in)
    <3>3. a.at + x + y <= u /\ x = 4 /\ y \in Nat /\ u \in Nat
      BY <2>6, <3>1, <3>2
    <3> HIDE DEF x, y, u
    <3>4. a.at + 4 <= u
      BY <1>0, <3>3
    <3> QED
      BY <2>6, <3>1, <3>4 DEF u
  <2>9. a.at + 0 + 4 <= Len(a.in) /\ \A j \in 1..4 : a.in[a.at + 0 + j] = p[j]
    <3>1. a.at + 0 = a.at
      BY <1>0
    <3> QED
      BY <2>8, <3>1, Zenon
  <2>16. n \in U32 /\ p = Word(n)
    BY <2>1 DEF n, p
  <2>10. Number(WordAt(a, 0)) = n
    <3>1. 0 \in Nat
      OBVIOUS
    <3>2. \A j \in 1..4 : a.in[a.at + 0 + j] = Word(n)[j]
      BY <2>9, <2>16, Zenon
    <3> QED
      BY <1>0, <2>9, <2>16, <3>1, <3>2, WordBack, Zenon
  <2>11. HasRoom(a, 4)
    BY <1>0, <2>8, RoomFor
  <2>12. GetLeaf(t, w, a) = GetCounted(t, n, w, b)
    BY <1>2, <2>10, <2>11 DEF GetLeaf, GetBytes
  <2>13. GetCounted(t, n, w, b) = Gives(w, Raise(b, "overflow"))
    BY <2>2 DEF GetCounted
  <2>14. Failed(Raise(b, "overflow"))
    <3>1. b \in Getters
      BY <1>0 DEF Skip, Getters
    <3> HIDE DEF b
    <3> QED
      BY <3>1 DEF Failed, Raise, Getters
  <2> HIDE DEF b
  <2>15. Gives(w, Raise(b, "overflow")).a = Raise(b, "overflow")
    BY GivesIs
  <2> QED
    BY <2>12, <2>13, <2>14, <2>15
<1>3. CASE Kind(t) \notin {"enum", "bytes"}
  <2>1. IsValid(t, v)
    BY <1>3 DEF IsValid, Leaf, Scalar, Nested, Container, Record, is_bytes
  <2> QED
    BY <2>1, ValidLeaf
<1> QED
  BY <1>1, <1>2, <1>3

LEMMA LeafBack ==
  ASSUME NEW t \in Type, Kind(t) \in Leaf, NEW v, LeafValue(t, v), NEW w \in Objects[t],
         NEW a, ReadyGet(a, LeafBytes(t, v))
  PROVE  GetLeaf(t, w, a) = Gives(v, Skip(a, LeafSize(t, v)))
<1>1. GetsWords(a) /\ Shows(a, LeafBytes(t, v)) /\ t \in DOMAIN Types
  BY DEF ReadyGet, Type
<1>2. CASE Kind(t) \in Scalar
  BY <1>1, <1>2, ScalarBack DEF GetLeaf, Scalar
<1>3. CASE Kind(t) = "u64"
  BY <1>1, <1>3, U64Back DEF GetLeaf
<1>4. CASE Kind(t) = "fixed"
  <2>1. Len(w) = Types[t].len
    BY <1>4, BytesObjects DEF is_bytes
  <2> QED
    BY <1>1, <1>4, <2>1, FixedBack DEF GetLeaf
<1>5. CASE Kind(t) = "bytes"
  BY <1>1, <1>5, BytesBack DEF GetLeaf
<1> QED
  BY <1>2, <1>3, <1>4, <1>5 DEF Leaf, is_bytes

LEMMA LeafIsCode ==
  ASSUME RecursiveArchives, NEW t \in Type, Kind(t) \in Leaf, NEW v \in Objects[t]
  PROVE  IsCode(t, v, LeafBytes(t, v), Nat)
<1> DEFINE b == LeafBytes(t, v)
           k == LeafSize(t, v)
<1>1. /\ LeafShape(t, v) /\ b \in Seq(Octet) /\ Len(b) = k /\ Len(b) = Padded(Checked(t, v))
      /\ Checked(t, v) \in Nat
  BY ObjectShape, LeafBytesFit
<1>2. Len(b) % 4 = 0
  <2>1. Padded(Checked(t, v)) % 4 = 0
    BY <1>1, PaddedBounds
  <2> QED
    BY <1>1, <2>1
<1>3. IsBytes(b) /\ Len(b) = SerialSize(t, v)
  BY <1>1, <1>2, LeafSized DEF IsBytes
<1>9. Kind(t) \notin Nested
  BY Kinds, Zenon
<1>4. ASSUME NEW a, ReadyPut(a, Len(b))
      PROVE  PutDone(a, ArchivePart(t, v, a), b, Nat)
  <2>1. PutsWords(a) /\ ~Failed(a) /\ a \in Putters /\ a.kind = "put" /\ a.limit \in Nat
        /\ Len(a.out) + Len(b) <= a.end /\ a.out \in Seq(Octet) /\ a.end \in Nat
    BY <1>4 DEF ReadyPut, PutsWords, Putters
  <2>2. ArchivePart(t, v, a) = PutLeaf(t, v, a)
    <3>1. ArchivePart(t, v, a) = Archive(t, v, a)
      BY <2>1 DEF RecursiveArchives
    <3> QED
      BY <2>1, <3>1 DEF Archive, Put
  <2>3. PutLeaf(t, v, a) = IF LeafSize(t, v) <= a.end - Len(a.out)
                           THEN [a EXCEPT !.out = a.out \o LeafBytes(t, v)]
                           ELSE [a EXCEPT !.err = "overflow"]
    BY <1>1, <2>1, PutFills
  <2>4. LeafSize(t, v) <= a.end - Len(a.out)
    <3> DEFINE x == Len(a.out)
               y == Len(b)
               z == a.end
    <3>1. x + y <= z /\ x \in Nat /\ y \in Nat /\ z \in Nat /\ y = LeafSize(t, v)
      BY <1>1, <2>1, LenProperties
    <3> HIDE DEF x, y, z
    <3>2. y <= z - x
      BY <3>1
    <3> QED
      BY <3>1, <3>2 DEF x, z
  <2>5. PutLeaf(t, v, a) = Out(a, b)
    BY <2>3, <2>4 DEF Out
  <2> QED
    BY <2>1, <2>2, <2>5 DEF PutDone
<1>5. ASSUME NEW a, ReadyDepth(a)
      PROVE  DepthDone(a, ArchivePart(t, v, a), Nat)
  <2>1. a \in DepthCheckers /\ ~Failed(a) /\ a.kind = "depth" /\ a.limit - a.current \in Nat
    BY <1>5 DEF ReadyDepth, DepthCheckers
  <2>2. ArchivePart(t, v, a) = Archive(t, v, a)
    BY <2>1 DEF RecursiveArchives
  <2>3. Archive(t, v, a) = a
    BY <1>9, <2>1 DEF Archive, CheckDepth
  <2> QED
    BY <2>1, <2>2, <2>3 DEF DepthDone
<1>6. ASSUME NEW x \in Objects[t], NEW a, ReadyGet(a, b)
      PROVE  GetDone(IsValid(t, v), v, a, UnarchivePart(t, x, a), b, Nat)
  <2>1. GetsWords(a) /\ ~Failed(a) /\ a \in Getters /\ a.kind = "get" /\ a.limit \in Nat
    BY <1>6 DEF ReadyGet, GetsWords, Getters
  <2>2. UnarchivePart(t, x, a) = GetLeaf(t, x, a)
    <3>1. UnarchivePart(t, x, a) = Unarchive(t, x, a)
      BY <2>1 DEF RecursiveArchives
    <3> QED
      BY <2>1, <3>1 DEF Unarchive, Get
  <2>3. LeafValue(t, v) => GetLeaf(t, x, a) = Gives(v, Skip(a, Len(b)))
    <3>1. LeafValue(t, v) => GetLeaf(t, x, a) = Gives(v, Skip(a, k))
      BY <1>6, LeafBack
    <3> QED
      BY <1>1, <3>1
  <2>4. ~LeafValue(t, v) => Failed(GetLeaf(t, x, a).a)
    BY <1>6, LeafRefused
  <2>5. IsValid(t, v) <=> LeafValue(t, v)
    BY ValidLeaf
  <2> HIDE DEF b
  <2> QED
    BY <2>1, <2>2, <2>3, <2>4, <2>5, Zenon DEF GetDone
<1> HIDE DEF b
<1>7. PutsCode(t, v, b, Nat) /\ ChecksCode(t, v, Nat) /\ GetsCode(t, v, b, Nat)
  BY <1>4, <1>5, <1>6, Zenon DEF PutsCode, ChecksCode, GetsCode
<1> QED
  BY <1>3, <1>7 DEF IsCode, b

----------------------------------------------------------------------------
(***************************************************************************)
(* Getting goes on behind what was read.                                   *)
(***************************************************************************)
GetsOn(a, p, q) ==
  /\ ReadyGet(a, p) /\ ReadyGet(Skip(a, Len(p)), q) /\ Skip(a, Len(p)).limit = a.limit
  /\ Skip(Skip(a, Len(p)), Len(q)) = Skip(a, Len(p \o q))
LEMMA GetMore ==
  ASSUME NEW p, IsBytes(p), NEW q, IsBytes(q), NEW a, ReadyGet(a, p \o q)
  PROVE  GetsOn(a, p, q)
<1> DEFINE m == Len(p)
           n == Len(q)
           x == a.at
           l == Len(a.in)
           b == Skip(a, m)
<1>0. GetsWords(a) /\ ~Failed(a) /\ Shows(a, p \o q) /\ a \in Getters
  BY GetterTypes DEF ReadyGet
<1>1. p \in Seq(Octet) /\ q \in Seq(Octet) /\ m % 4 = 0
  BY DEF IsBytes
<1>2. m \in Nat /\ n \in Nat /\ Len(p \o q) = m + n
  BY BytesJoined
<1>3. x \in Nat /\ l \in Nat
  BY <1>0, GetterTypes
<1>4. /\ x + m + n <= l
      /\ \A k \in 1..m : a.in[x + k] = p[k]
      /\ \A k \in 1..n : a.in[x + m + k] = q[k]
  <2>1. ShowsParts(a, p, q)
    BY <1>0, <1>1, ShownBoth
  <2> QED
    BY <2>1 DEF ShowsParts
<1> HIDE DEF m, n, x, l
<1>5. x + m <= l
  BY <1>2, <1>3, <1>4
<1>6. /\ GetsWords(b) /\ b.in = a.in /\ b.at = x + m /\ b.past = a.past /\ b.err = a.err
  BY <1>0, <1>1, <1>2, <1>5, SkipStays DEF m, n, x, l
<1>7. b.limit = a.limit
  BY <1>0 DEF Skip, Getters
<1>8. ReadyGet(a, p)
  BY <1>0, <1>4, <1>5 DEF ReadyGet, Shows, m, x, l
<1>9. ReadyGet(b, q)
  <2>1. b.at + n <= Len(b.in)
    BY <1>4, <1>6 DEF l
  <2>2. \A k \in 1..n : b.in[b.at + k] = q[k]
    BY <1>4, <1>6
  <2> HIDE DEF b
  <2>3. Shows(b, q)
    BY <2>1, <2>2 DEF Shows, n
  <2>4. ~Failed(b)
    BY <1>0, <1>6 DEF Failed
  <2> QED
    BY <1>6, <2>3, <2>4 DEF ReadyGet
<1>10. Skip(b, n) = Skip(a, m + n)
  <2>1. (x + m) + n = x + (m + n)
    BY <1>2, <1>3
  <2>2. Skip(b, n) = [b EXCEPT !.at = (x + m) + n]
    BY <1>6, Zenon DEF Skip
  <2>3. Skip(a, m + n) = [a EXCEPT !.at = x + (m + n)]
    BY Zenon DEF Skip, x
  <2>4. b = [a EXCEPT !.at = x + m]
    BY Zenon DEF Skip, x
  <2> DEFINE y == (x + m) + n
             z == x + m
  <2> HIDE DEF b, y, z
  <2>5. [b EXCEPT !.at = y] = [a EXCEPT !.at = y]
    <3>1. b = [a EXCEPT !.at = z]
      BY <2>4 DEF z
    <3> QED
      BY <1>0, <3>1 DEF Getters
  <2> QED
    BY <2>1, <2>2, <2>3, <2>5 DEF y
<1> QED
  BY <1>2, <1>7, <1>8, <1>9, <1>10 DEF GetsOn, m, n

LEMMA GetNothing ==
  ASSUME NEW a \in Getters
  PROVE  Skip(a, 0) = a
BY DEF Skip, Getters

\* What shows joined bytes shows the first of them.
LEMMA ShowsFirst ==
  ASSUME NEW n \in Nat, NEW b, \A i \in 1..n : IsBytes(b[i]), NEW F, Joined(F, b, n),
         NEW a, ReadyGet(a, F[n])
  PROVE  \A i \in 0..n : ReadyGet(a, F[i])
<1>1. \A i \in 0..n : IsBytes(F[i]) /\ Len(F[i]) \in Nat /\ Len(F[i]) <= Len(F[n])
  BY JoinedBytes
<1>2. \A i \in 1..n : F[i] = F[i - 1] \o b[i]
  BY Zenon DEF Joined
<1> DEFINE T == {k \in Nat : k <= n => ReadyGet(a, F[n - k])}
<1>3. 0 \in T
  OBVIOUS
<1>4. \A k \in Nat : k \in T => k + 1 \in T
  <2> TAKE k \in Nat
  <2> HAVE k \in T
  <2>1. CASE ~(k + 1 <= n)
    BY <2>1
  <2>2. CASE k + 1 <= n
    <3> DEFINE i == n - k
    <3>1. i \in 1..n /\ i \in 0..n /\ i - 1 \in 0..n /\ n - (k + 1) = i - 1 /\ k <= n
      BY <2>2
    <3>2. ReadyGet(a, F[i])
      BY <3>1
    <3> HIDE DEF i
    <3>3. F[i] = F[i - 1] \o b[i] /\ IsBytes(F[i - 1]) /\ IsBytes(b[i])
      BY <1>1, <1>2, <3>1
    <3> DEFINE p == F[i - 1]
               q == b[i]
    <3>4. IsBytes(p) /\ IsBytes(q) /\ ReadyGet(a, p \o q)
      BY <3>2, <3>3
    <3> HIDE DEF p, q
    <3>5. ReadyGet(a, p)
      BY <3>4, GetMore DEF GetsOn
    <3> QED
      BY <3>1, <3>5 DEF p
  <2> QED
    BY <2>1, <2>2
<1> HIDE DEF T
<1>5. \A k \in Nat : k \in T
  BY <1>3, <1>4, EveryNat
<1>6. ASSUME NEW i \in 0..n
      PROVE  ReadyGet(a, F[i])
  <2>1. n - i \in Nat /\ n - i <= n /\ n - (n - i) = i
    OBVIOUS
  <2> DEFINE k == n - i
  <2>2. k \in T /\ k <= n
    BY <1>5, <2>1
  <2> HIDE DEF k
  <2>3. ReadyGet(a, F[n - k])
    BY <2>2 DEF T
  <2> QED
    BY <2>1, <2>3 DEF k
<1> QED
  BY <1>6

----------------------------------------------------------------------------
(***************************************************************************)
(* Components come back one after the other.                               *)
(***************************************************************************)
PartsValid(t, v) == \A i \in 1..Len(v) : IsValid(Component(t, i), v[i])

LEMMA SameTuple ==
  ASSUME NEW v, Tuple(v), NEW w, Tuple(w), Len(v) = Len(w), \A i \in 1..Len(v) : v[i] = w[i]
  PROVE  v = w
BY DEF Tuple

LEMMA FirstGets ==
  ASSUME RecursiveTypes, RecursiveArchives, NEW t \in Type, HasParts(t), NEW v \in Objects[t],
         NEW n \in Nat, n = Len(v), NEW b, NEW K, PartsCoded(t, v, b, K),
         NEW F, Joined(F, b, n), NEW x \in Objects[t], Len(x) <= n,
         Kind(t) \notin Variable => Len(x) = n, NEW a, ReadyGet(a, F[n])
  PROVE  GetDone(PartsValid(t, v), v, a, LoadFirst(t, n, x, a), F[n], All(K, n))
<1> DEFINE L == a.limit
           A == GetArchives(L, a.in, a.past)
           Good(j) == L \in K[j] /\ IsValid(Component(t, j), v[j])
           Came(r, i) == /\ r.a = Skip(a, Len(F[i])) /\ Len(r.v) >= i
                         /\ \A j \in 1..i : r.v[j] = v[j]
           Reached(i) == {r \in [v : Objects[t], a : A] :
                            /\ Len(r.v) <= n /\ (Kind(t) \notin Variable => Len(r.v) = n)
                            /\ IF \A j \in 1..i : Good(j) THEN Came(r, i)
                               ELSE Failed(r.a) /\ (PartsValid(t, v) => r.a.err = "stack")}
           D == [i \in Nat |-> Reached(i)]
<1>0. CASE ~PartsValid(t, v) /\ L \notin All(K, n)
  BY <1>0 DEF GetDone
<1>30. CASE PartsValid(t, v) \/ L \in All(K, n)
  <2>1. PICK S : LoadRun(S, t, n, x, a) /\ LoadFirst(t, n, x, a) = S[n]
    BY LoadRuns
  <2>2. S[0] = Gives(x, a) /\ \A i \in 1..n : S[i] = LoadTurn(t, S[i - 1], i)
    BY <2>1, Zenon DEF LoadRun
  <2>3. \A i \in 1..n : /\ IsBytes(b[i]) /\ GetsCode(Component(t, i), v[i], b[i], K[i])
                        /\ Component(t, i) \in Type /\ v[i] \in Objects[Component(t, i)]
    BY ObjectParts DEF PartsCoded, IsCode
  <2>4. \A i \in 0..n : ReadyGet(a, F[i]) /\ IsBytes(F[i])
    BY <2>3, ShowsFirst, JoinedBytes
  <2>5. F[0] = << >> /\ \A i \in 1..n : F[i] = F[i - 1] \o b[i]
    BY Zenon DEF Joined
  <2>6. a \in Getters /\ GetsWords(a) /\ ~Failed(a) /\ L \in Nat /\ a \in A
    BY GetterTypes DEF ReadyGet, GetArchives, Getters
  <2>7. Turns(A, Type) /\ Needs(t, Type)
    BY <2>6, GetTurns, AllNeeded
  <2>8. Tuple(v) /\ Tuple(x) /\ Len(x) \in Nat /\ Counts(t, n)
    BY ObjectParts
  <2>9. L \in All(K, n) <=> \A j \in 1..n : L \in K[j]
    BY <2>6 DEF All
  <2>10. S[0] \in D[0]
    <3>1. \A j \in 1..0 : FALSE
      OBVIOUS
    <3>2. Skip(a, Len(F[0])) = a
      BY <2>5, <2>6, GetNothing, NoBytes
    <3> DEFINE r == Gives(x, a)
    <3>3. r.v = x /\ r.a = a /\ r \in [v : Objects[t], a : A]
      BY <2>6 DEF Gives
    <3> HIDE DEF A, r
    <3>4. r \in Reached(0)
      BY <2>8, <3>1, <3>2, <3>3
    <3> QED
      BY <2>2, <3>4 DEF r
  <2>11. ASSUME NEW i \in 1..n, S[i - 1] \in D[i - 1]
         PROVE  S[i] \in D[i]
    <3> DEFINE r == S[i - 1]
               e == Component(t, i)
               y == ExtendAt(t, r.v, i)
               p == UnarchivePart(e, y[i], r.a)
               z == [y EXCEPT ![i] = p.v]
    <3>1. i \in Nat /\ i - 1 \in Nat /\ i - 1 \in 0..n /\ i \in 0..n
      OBVIOUS
    <3>2. r \in Reached(i - 1)
      BY <2>11, <3>1
    <3>3. r.v \in Objects[t] /\ r.a \in A /\ Len(r.v) <= n /\ (Kind(t) \notin Variable => Len(r.v) = n)
          /\ r \in [v : Objects[t], a : A]
      BY <3>2
    <3>4. S[i] = IF Failed(r.a) THEN r ELSE LoadComponent(t, i, y, r.a)
      BY <2>2, Zenon DEF LoadTurn
    <3>5. LoadComponent(t, i, y, r.a) = Gives(z, p.a)
      BY Zenon DEF LoadComponent, ReadInto
    <3>6. CASE ~\A j \in 1..i - 1 : Good(j)
      <4>1. Failed(r.a) /\ (PartsValid(t, v) => r.a.err = "stack")
        BY <3>2, <3>6
      <4>2. ~\A j \in 1..i : Good(j)
        BY <3>1, <3>6
      <4>3. S[i] = r
        BY <3>4, <4>1
      <4> HIDE DEF r, A, Good
      <4>4. r \in Reached(i)
        BY <3>3, <4>1, <4>2
      <4> QED
        BY <3>1, <4>3, <4>4
    <3>7. CASE \A j \in 1..i - 1 : Good(j)
      <4> DEFINE f == F[i - 1]
                 g == b[i]
                 s == r.a
      <4>1. s = Skip(a, Len(f)) /\ Len(r.v) >= i - 1 /\ \A j \in 1..i - 1 : r.v[j] = v[j]
        BY <3>2, <3>7
      <4>2. IsBytes(f) /\ IsBytes(g) /\ F[i] = f \o g /\ ReadyGet(a, f \o g)
        BY <2>3, <2>4, <2>5, <3>1
      <4>3. Len(r.v) \in Nat
        BY <3>3, ObjectParts
      <4>4. GetsCode(e, v[i], g, K[i]) /\ e \in Type
        BY <2>3
      <4> HIDE DEF f, g
      <4>5. ReadyGet(s, g) /\ s.limit = L /\ Skip(s, Len(g)) = Skip(a, Len(F[i])) /\ ~Failed(s)
        <5>1. GetsOn(a, f, g)
          BY <4>2, GetMore
        <5> QED
          BY <4>1, <4>2, <5>1, Zenon DEF GetsOn, ReadyGet
      <4>6. /\ y \in Objects[t] /\ Len(y) \in Nat /\ Len(y) <= n /\ Len(y) >= i
            /\ Kind(t) \notin Variable => Len(y) = n
            /\ \A j \in 1..i - 1 : y[j] = v[j]
        <5>1. CASE i > Len(r.v)
          <6>1. Kind(t) \in {"vector", "pointer"}
            BY <3>3, <5>1 DEF Variable, HasParts, Container, Record
          <6>2. n \in U32
            BY <2>8, <6>1 DEF Counts
          <6>3. i \in U32
            BY <3>1, <6>2, SMT DEF U32
          <6>4. i = Len(r.v) + 1
            BY <4>1, <4>3, <5>1
          <6>5. y \in Objects[t] /\ Len(y) = i
            BY <3>3, <6>1, <6>3, <6>4, ExtendedObject
          <6>6. \A j \in 1..i - 1 : y[j] = r.v[j]
            <7> DEFINE w == r.v
                       d == Default(Types[t].elem)
            <7>1. y = Append(w, d)
              BY <5>1, Zenon DEF ExtendAt
            <7>2. Tuple(w)
              BY <3>3, ObjectParts
            <7> HIDE DEF w, d
            <7>3. PICK V : w \in Seq(V) /\ d \in V
              <8> DEFINE V == {w[j] : j \in 1..Len(w)} \cup {d}
              <8>1. \A j \in 1..Len(w) : w[j] \in V
                OBVIOUS
              <8>2. d \in V
                OBVIOUS
              <8> HIDE DEF V
              <8>3. w \in Seq(V)
                BY <7>2, <8>1, TupleSeq
              <8> QED
                BY <8>2, <8>3
            <7>4. \A j \in 1..Len(w) : Append(w, d)[j] = w[j]
              BY <7>3, AppendProperties
            <7>5. Len(w) = i - 1
              BY <3>1, <4>3, <6>4 DEF w
            <7> QED
              BY <7>1, <7>4, <7>5 DEF w
          <6> QED
            BY <4>1, <6>1, <6>5, <6>6 DEF Variable
        <5>2. CASE ~(i > Len(r.v))
          <6>1. y = r.v
            BY <5>2 DEF ExtendAt
          <6> QED
            BY <3>3, <4>1, <4>3, <5>2, <6>1
        <5> QED
          BY <5>1, <5>2
      <4>7. S[i] = Gives(z, p.a)
        BY <3>4, <3>5, <4>5
      <4> HIDE DEF y
      <4>8. i \in 1..Len(y)
        BY <3>1, <4>6
      <4>9. y[i] \in Objects[e]
        BY <4>6, <4>8, ObjectParts
      <4>10. GetDone(IsValid(e, v[i]), v[i], s, p, g, K[i])
        BY <4>4, <4>5, <4>9, Zenon DEF GetsCode
      <4>11. p.v \in Objects[e] /\ p.a \in A
        BY <2>7, <3>3, <4>4, <4>5, <4>9, Zenon DEF Turns
      <4> HIDE DEF p
      <4>12. /\ z \in Objects[t] /\ Len(z) = Len(y) /\ z[i] = p.v
             /\ \A j \in 1..Len(y) : j # i => z[j] = y[j]
        <5> DEFINE u == p.v
        <5>1. u \in Objects[Component(t, i)]
          BY <4>11
        <5> HIDE DEF u
        <5>2. /\ [y EXCEPT ![i] = u] \in Objects[t] /\ Len([y EXCEPT ![i] = u]) = Len(y)
              /\ [y EXCEPT ![i] = u][i] = u
              /\ \A j \in 1..Len(y) : j # i => [y EXCEPT ![i] = u][j] = y[j]
          BY <4>6, <4>8, <5>1, PartReplaced
        <5> QED
          BY <5>2 DEF u
      <4> HIDE DEF z, s, r, e
      <4> DEFINE q == S[i]
      <4>13. q \in [v : Objects[t], a : A] /\ q.v = z /\ q.a = p.a
        BY <4>7, <4>11, <4>12 DEF Gives
      <4>14. Len(q.v) <= n /\ (Kind(t) \notin Variable => Len(q.v) = n) /\ Len(q.v) >= i
        BY <4>6, <4>12, <4>13
      <4>15. CASE Good(i)
        <5>1. p = Gives(v[i], Skip(s, Len(g)))
          BY <4>5, <4>10, <4>15, Zenon DEF GetDone, e
        <5>2. p.v = v[i] /\ p.a = Skip(a, Len(F[i]))
          BY <4>5, <5>1, GivesIs
        <5>3. \A j \in 1..i : q.v[j] = v[j]
          <6> TAKE j \in 1..i
          <6>1. CASE j = i
            BY <4>12, <4>13, <5>2, <6>1
          <6>2. CASE j # i
            <7>1. j \in 1..i - 1 /\ j \in 1..Len(y)
              BY <3>1, <4>6, <6>2
            <7> QED
              BY <4>6, <4>12, <4>13, <6>2, <7>1
          <6> QED
            BY <6>1, <6>2
        <5>4. \A j \in 1..i : Good(j)
          <6> HIDE DEF Good
          <6> QED
            BY <3>1, <3>7, <4>15
        <5> HIDE DEF Good, A, q
        <5>5. q \in Reached(i)
          BY <4>13, <4>14, <5>2, <5>3, <5>4
        <5> QED
          BY <3>1, <5>5 DEF q
      <4>16. CASE ~Good(i)
        <5>1. Failed(p.a) /\ (PartsValid(t, v) => p.a.err = "stack")
          <6>1. CASE PartsValid(t, v)
            <7>1. IsValid(e, v[i])
              BY <6>1 DEF PartsValid, e
            <7>2. s.limit \notin K[i]
              BY <4>5, <4>16, <7>1 DEF e
            <7>3. p.a.err = "stack"
              BY <4>10, <7>1, <7>2, Zenon DEF GetDone
            <7> QED
              BY <7>3 DEF Failed
          <6>2. CASE ~PartsValid(t, v)
            <7>1. L \in K[i]
              BY <1>30, <2>9, <6>2
            <7>2. ~IsValid(e, v[i])
              BY <4>16, <7>1 DEF e
            <7>3. Failed(p.a)
              BY <4>5, <4>10, <7>1, <7>2, Zenon DEF GetDone
            <7> QED
              BY <6>2, <7>3
          <6> QED
            BY <6>1, <6>2
        <5>2. ~\A j \in 1..i : Good(j)
          <6> HIDE DEF Good
          <6> QED
            BY <3>1, <4>16
        <5> HIDE DEF Good, A, q
        <5>3. q \in Reached(i)
          BY <4>13, <4>14, <5>1, <5>2
        <5> QED
          BY <3>1, <5>3 DEF q
      <4> QED
        BY <4>15, <4>16
    <3> QED
      BY <3>6, <3>7
  <2>12. D[n] = Reached(n)
    OBVIOUS
  <2>13. \A i \in 1..n : S[i - 1] \in D[i - 1] => S[i] \in D[i]
    BY <2>11
  <2> HIDE DEF D
  <2>14. \A i \in 0..n : S[i] \in D[i]
    BY <2>10, <2>13, RunKeeps
  <2>15. n \in 0..n
    OBVIOUS
  <2>16. S[n] \in Reached(n)
    BY <2>12, <2>14, <2>15, Zenon
  <2> DEFINE r == S[n]
  <2>17. r \in [v : Objects[t], a : A] /\ Len(r.v) <= n
         /\ IF \A j \in 1..n : Good(j) THEN Came(r, n)
            ELSE Failed(r.a) /\ (PartsValid(t, v) => r.a.err = "stack")
    BY <2>16
  <2>18. r.v \in Objects[t] /\ r = Gives(r.v, r.a)
    BY <2>17 DEF Gives
  <2>19. Tuple(r.v) /\ Len(r.v) \in Nat
    BY <2>18, ObjectParts
  <2> HIDE DEF r, A
  <2>20. (\A j \in 1..n : Good(j)) <=> PartsValid(t, v) /\ L \in All(K, n)
    BY <2>9 DEF PartsValid
  <2>21. CASE \A j \in 1..n : Good(j)
    <3>1. r.a = Skip(a, Len(F[n])) /\ Len(r.v) >= n /\ \A j \in 1..n : r.v[j] = v[j]
      BY <2>17, <2>21
    <3> HIDE DEF Good
    <3>2. Len(r.v) = Len(v)
      BY <2>17, <2>19, <3>1
    <3> DEFINE w == r.v
    <3>3. Tuple(w) /\ Len(w) = Len(v) /\ \A j \in 1..Len(w) : w[j] = v[j]
      BY <2>19, <3>1, <3>2
    <3> HIDE DEF w
    <3>4. w = v
      BY <2>8, <3>3, SameTuple
    <3>5. r = Gives(v, Skip(a, Len(F[n])))
      BY <2>18, <3>1, <3>4, Zenon DEF w
    <3> QED
      BY <2>1, <2>20, <2>21, <3>5, Zenon DEF GetDone, r
  <2>22. CASE ~\A j \in 1..n : Good(j)
    <3>1. Failed(r.a) /\ (PartsValid(t, v) => r.a.err = "stack")
      BY <2>17, <2>22
    <3> HIDE DEF Good
    <3> QED
      BY <2>1, <2>20, <2>22, <3>1, Zenon DEF GetDone, r
  <2> QED
    BY <2>21, <2>22
<1> QED
  BY <1>0, <1>30

----------------------------------------------------------------------------
(***************************************************************************)
(* A level: what save and load do in it, within the limits M.              *)
(***************************************************************************)
SavesCode(t, v, b, M) ==
  /\ \A a : ReadyPut(a, Len(b)) => PutDone(a, Save(t, v, a), b, M)
  /\ \A a : ReadyDepth(a) => DepthDone(a, Save(t, v, a), M)
LoadsCode(t, v, b, M) ==
  \A x \in Objects[t] : \A a :
    ReadyGet(a, b) => GetDone(IsValid(t, v), v, a, Load(t, x, a), b, M)
InLevel(t, v, b, M) ==
  /\ IsBytes(b) /\ Len(b) = SerialSize(t, v) /\ M \subseteq Nat
  /\ SavesCode(t, v, b, M) /\ LoadsCode(t, v, b, M)
Entering(M) == {L \in Nat : L # 0 /\ L - 1 \in M}

LEMMA LevelPuts ==
  ASSUME RecursiveArchives, NEW t \in Type, Kind(t) \in Nested, NEW v \in Objects[t],
         NEW b, NEW M, InLevel(t, v, b, M), NEW a, ReadyPut(a, Len(b))
  PROVE  PutDone(a, ArchivePart(t, v, a), b, Entering(M))
<1> DEFINE L == a.limit
           c == [a EXCEPT !.limit = @ - 1]
           q == Save(t, v, c)
<1>1. /\ a \in Putters /\ PutsWords(a) /\ ~Failed(a) /\ a.kind = "put" /\ L \in Nat
      /\ Len(a.out) + Len(b) <= a.end /\ a.err = "none"
  BY DEF ReadyPut, PutsWords, Putters, Failed
<1>2. Kind(t) \notin Leaf
  BY Kinds, Zenon
<1>3. ArchivePart(t, v, a) = Put(t, v, a)
  <2>1. ArchivePart(t, v, a) = Archive(t, v, a)
    BY <1>1 DEF RecursiveArchives
  <2> QED
    BY <1>1, <2>1 DEF Archive
<1>4. CASE L = 0
  <2> DEFINE r == Raise(a, "stack")
  <2>1. Put(t, v, a) = r
    BY <1>2, <1>4 DEF Put
  <2>2. r \in Putters /\ r.err = "stack"
    BY <1>1 DEF Raise, Putters, Exception
  <2>3. L \notin Entering(M)
    BY <1>4 DEF Entering
  <2> HIDE DEF r
  <2> QED
    BY <1>3, <2>1, <2>2, <2>3 DEF PutDone
<1>5. CASE L # 0
  <2>1. Put(t, v, a) = Left(q)
    BY <1>2, <1>5 DEF Put
  <2>2. L - 1 \in Nat
    BY <1>1, <1>5
  <2>3. /\ c \in Putters /\ c.out = a.out /\ c.end = a.end /\ c.limit = L - 1 /\ c.err = "none"
        /\ c = [a EXCEPT !.limit = L - 1]
    BY <1>1, <2>2 DEF Putters
  <2> HIDE DEF c
  <2>4. ReadyPut(c, Len(b))
    BY <1>1, <2>3 DEF ReadyPut, PutsWords, Failed
  <2>5. PutDone(c, q, b, M)
    BY <2>4 DEF InLevel, SavesCode
  <2> HIDE DEF q
  <2>6. CASE L - 1 \in M
    <3> DEFINE o == a.out \o b
    <3>1. q = [c EXCEPT !.out = o]
      BY <2>3, <2>5, <2>6 DEF PutDone, Out
    <3>2. Out(a, b) = [a EXCEPT !.out = o]
      BY DEF Out
    <3>6. (L - 1) + 1 = L
      BY <1>1
    <3> HIDE DEF o
    <3>3. q.err = "none" /\ q.kind = "put" /\ q.limit = L - 1 /\ q = [a EXCEPT !.limit = L - 1, !.out = o]
      BY <1>1, <2>3, <3>1 DEF Putters
    <3>4. Left(q) = [q EXCEPT !.limit = L]
      BY <3>3, <3>6 DEF Left, Failed
    <3>5. [q EXCEPT !.limit = L] = [a EXCEPT !.out = o]
      BY <1>1, <3>3 DEF Putters
    <3> QED
      BY <1>1, <1>3, <1>5, <2>1, <2>6, <3>2, <3>4, <3>5 DEF PutDone, Entering
  <2>7. CASE L - 1 \notin M
    <3>1. q \in Putters /\ q.err = "stack"
      BY <2>3, <2>5, <2>7 DEF PutDone
    <3>2. Left(q) = q
      BY <3>1 DEF Left, Failed
    <3> QED
      BY <1>3, <2>1, <2>7, <3>1, <3>2 DEF PutDone, Entering
  <2> QED
    BY <2>6, <2>7
<1> QED
  BY <1>4, <1>5

LEMMA LevelChecks ==
  ASSUME RecursiveArchives, NEW t \in Type, Kind(t) \in Nested, NEW v \in Objects[t],
         NEW b, NEW M, InLevel(t, v, b, M), NEW a, ReadyDepth(a)
  PROVE  DepthDone(a, ArchivePart(t, v, a), Entering(M))
<1> DEFINE L == a.limit - a.current
           c == [a EXCEPT !.current = @ + 1]
           q == Save(t, v, c)
<1>1. /\ a \in DepthCheckers /\ ~Failed(a) /\ a.kind = "depth" /\ a.limit \in Nat
      /\ a.current \in Nat /\ a.within /\ a.current <= a.limit /\ a.err = "none" /\ a.within = TRUE
  BY DEF ReadyDepth, DepthCheckers, Failed
<1>2. L \in Nat
  BY <1>1
<1>3. ArchivePart(t, v, a) = CheckDepth(t, v, a)
  <2>1. ArchivePart(t, v, a) = Archive(t, v, a)
    BY <1>1 DEF RecursiveArchives
  <2> QED
    BY <1>1, <2>1 DEF Archive
<1>4. CASE a.current + 1 > a.limit
  <2> DEFINE r == [a EXCEPT !.current = @ + 1, !.within = FALSE]
             y == a.current + 1
  <2>1. CheckDepth(t, v, a) = r
    BY <1>1, <1>4 DEF CheckDepth
  <2>6. r = [a EXCEPT !.current = y, !.within = FALSE] /\ y \in Nat /\ FALSE \in BOOLEAN
    BY <1>1
  <2> HIDE DEF r, y
  <2>7. r \in DepthCheckers /\ r.err = "none" /\ r.within = FALSE /\ r.current = y
    BY <1>1, <2>6 DEF DepthCheckers
  <2>2. r \in DepthCheckers /\ r.err = "none" /\ r.within = FALSE /\ r.current = a.current + 1
    BY <2>7 DEF y
  <2>3. L = 0
    BY <1>1, <1>4
  <2>4. L \notin Entering(M)
    BY <2>3 DEF Entering
  <2>5. ~Failed(r) /\ ~r.within /\ a.current <= r.current
    BY <1>1, <2>2 DEF Failed
  <2> QED
    BY <1>3, <2>1, <2>2, <2>4, <2>5 DEF DepthDone
<1>5. CASE ~(a.current + 1 > a.limit)
  <2>1. CheckDepth(t, v, a) = Left(q)
    BY <1>1, <1>5 DEF CheckDepth
  <2> DEFINE x == a.current
             k == x + 1
  <2>2. k \in Nat /\ k <= a.limit /\ x \in Nat
    BY <1>1, <1>5
  <2>3. /\ c \in DepthCheckers /\ c.current = k /\ c.limit = a.limit /\ c.within = TRUE
        /\ c.err = "none" /\ c = [a EXCEPT !.current = k]
    BY <1>1, <2>2 DEF DepthCheckers
  <2>11. L - 1 = c.limit - c.current /\ L # 0 /\ k - 1 = x
    BY <1>1, <2>2, <2>3
  <2>12. L \in Entering(M) <=> c.limit - c.current \in M
    BY <1>2, <2>11 DEF Entering
  <2> HIDE DEF c, k, x
  <2>4. ReadyDepth(c)
    BY <2>2, <2>3 DEF ReadyDepth, Failed
  <2>5. DepthDone(c, q, M)
    BY <2>4 DEF InLevel, SavesCode
  <2> HIDE DEF q
  <2>6. CASE c.limit - c.current \in M
    <3>1. q = c
      BY <2>5, <2>6 DEF DepthDone
    <3>2. q.kind = "depth" /\ ~Failed(q)
      BY <2>3, <3>1 DEF DepthCheckers, Failed
    <3>3. Left(q) = [q EXCEPT !.current = x]
      BY <2>3, <2>11, <3>1, <3>2 DEF Left
    <3>4. [q EXCEPT !.current = x] = a
      BY <1>1, <2>3, <3>1 DEF DepthCheckers, x
    <3> QED
      BY <1>3, <2>1, <2>6, <2>12, <3>3, <3>4 DEF DepthDone
  <2>7. CASE c.limit - c.current \notin M
    <3>1. q \in DepthCheckers /\ ~Failed(q) /\ ~q.within /\ c.current <= q.current
      BY <2>5, <2>7 DEF DepthDone
    <3> DEFINE r == Left(q)
               y == q.current
    <3>2. q.kind = "depth" /\ y \in Nat
      BY <3>1 DEF DepthCheckers
    <3>3. y - 1 \in Nat /\ x <= y - 1
      BY <2>2, <2>3, <2>11, <3>1, <3>2
    <3>4. r = [q EXCEPT !.current = y - 1]
      BY <3>1, <3>2 DEF Left
    <3> HIDE DEF r
    <3>5. r \in DepthCheckers /\ r.err = q.err /\ r.within = q.within /\ r.current = y - 1
      BY <3>1, <3>3, <3>4 DEF DepthCheckers
    <3>6. ~Failed(r) /\ ~r.within /\ a.current <= r.current
      BY <3>1, <3>3, <3>5 DEF Failed, x
    <3> QED
      BY <1>3, <2>1, <2>7, <2>12, <3>5, <3>6 DEF DepthDone, r
  <2> QED
    BY <2>6, <2>7
<1> QED
  BY <1>4, <1>5

LEMMA LevelGets ==
  ASSUME RecursiveArchives, NEW t \in Type, Kind(t) \in Nested, NEW v \in Objects[t],
         NEW b, NEW M, InLevel(t, v, b, M), NEW x \in Objects[t], NEW a, ReadyGet(a, b)
  PROVE  GetDone(IsValid(t, v), v, a, UnarchivePart(t, x, a), b, Entering(M))
<1> DEFINE L == a.limit
           ok == IsValid(t, v)
           c == [a EXCEPT !.limit = @ - 1]
           r == Load(t, x, c)
<1>1. /\ a \in Getters /\ GetsWords(a) /\ ~Failed(a) /\ a.kind = "get" /\ L \in Nat
      /\ Shows(a, b) /\ a.err = "none" /\ a.at \in Nat
  BY GetterTypes DEF ReadyGet, Getters, Failed
<1>2. Kind(t) \notin Leaf
  BY Kinds, Zenon
<1>3. UnarchivePart(t, x, a) = Get(t, x, a)
  <2>1. UnarchivePart(t, x, a) = Unarchive(t, x, a)
    BY <1>1 DEF RecursiveArchives
  <2> QED
    BY <1>1, <2>1 DEF Unarchive
<1> HIDE DEF ok
<1>4. CASE L = 0
  <2> DEFINE s == Raise(a, "stack")
             w == Gives(x, s)
  <2>1. Get(t, x, a) = w
    BY <1>2, <1>4 DEF Get
  <2>2. s.err = "stack"
    BY <1>1 DEF Raise, Getters
  <2>3. L \notin Entering(M)
    BY <1>4 DEF Entering
  <2>4. w.a = s
    BY GivesIs
  <2> HIDE DEF s, w
  <2> QED
    BY <1>3, <2>1, <2>2, <2>3, <2>4 DEF GetDone, ok
<1>5. CASE L # 0
  <2>1. Get(t, x, a) = Gives(r.v, Left(r.a))
    BY <1>2, <1>5 DEF Get, LeftWith
  <2>2. L - 1 \in Nat /\ (L - 1) + 1 = L
    BY <1>1, <1>5
  <2>3. /\ c \in Getters /\ c.in = a.in /\ c.at = a.at /\ c.limit = L - 1 /\ c.err = "none"
        /\ c = [a EXCEPT !.limit = L - 1]
    BY <1>1, <2>2 DEF Getters
  <2> HIDE DEF c
  <2>4. ReadyGet(c, b)
    BY <1>1, <2>3 DEF ReadyGet, GetsWords, Shows, Failed
  <2>5. GetDone(ok, v, c, r, b, M)
    BY <2>4 DEF InLevel, LoadsCode, ok
  <2>6. L \in Entering(M) <=> L - 1 \in M
    BY <1>1, <1>5 DEF Entering
  <2> HIDE DEF r
  <2> DEFINE w == Gives(r.v, Left(r.a))
  <2>12. w.a = Left(r.a) /\ w.v = r.v
    BY GivesIs
  <2>7. CASE ok /\ L - 1 \in M
    <3> DEFINE q == Skip(c, Len(b))
    <3>1. r = Gives(v, q)
      BY <2>3, <2>5, <2>7 DEF GetDone
    <3>2. r.v = v /\ r.a = q
      BY <3>1, GivesIs
    <3> DEFINE k == a.at + Len(b)
    <3>3. q = [c EXCEPT !.at = k] /\ Skip(a, Len(b)) = [a EXCEPT !.at = k]
      BY <2>3 DEF Skip
    <3> HIDE DEF k, q
    <3>4. q.err = "none" /\ q.kind = "get" /\ q.limit = L - 1 /\ q = [a EXCEPT !.limit = L - 1, !.at = k]
      BY <1>1, <2>3, <3>3 DEF Getters
    <3>5. Left(q) = [q EXCEPT !.limit = L]
      BY <2>2, <3>4 DEF Left, Failed
    <3>6. [q EXCEPT !.limit = L] = [a EXCEPT !.at = k]
      BY <1>1, <3>4 DEF Getters
    <3>7. w = Gives(v, Skip(a, Len(b)))
      BY <3>2, <3>3, <3>5, <3>6, Zenon
    <3> HIDE DEF w
    <3> QED
      BY <1>3, <2>1, <2>6, <2>7, <3>7 DEF GetDone, ok, w
  <2>8. CASE ok /\ L - 1 \notin M
    <3>1. r.a.err = "stack"
      BY <2>3, <2>5, <2>8 DEF GetDone
    <3>2. Left(r.a) = r.a
      BY <3>1 DEF Left, Failed
    <3>3. w.a.err = "stack"
      BY <2>12, <3>1, <3>2
    <3> HIDE DEF w
    <3> QED
      BY <1>3, <2>1, <2>6, <2>8, <3>3 DEF GetDone, ok, w
  <2>9. CASE ~ok /\ L - 1 \in M
    <3>1. Failed(r.a)
      BY <2>3, <2>5, <2>9 DEF GetDone
    <3>2. Left(r.a) = r.a
      BY <3>1 DEF Left
    <3>3. Failed(w.a)
      BY <2>12, <3>1, <3>2
    <3> HIDE DEF w
    <3> QED
      BY <1>3, <2>1, <2>6, <2>9, <3>3 DEF GetDone, ok, w
  <2>10. CASE ~ok /\ L - 1 \notin M
    BY <2>6, <2>10 DEF GetDone, ok
  <2> QED
    BY <2>7, <2>8, <2>9, <2>10
<1> QED
  BY <1>4, <1>5

LEMMA LevelIsCode ==
  ASSUME RecursiveArchives, NEW t \in Type, Kind(t) \in Nested, NEW v \in Objects[t],
         NEW b, NEW M, InLevel(t, v, b, M)
  PROVE  IsCode(t, v, b, Entering(M))
<1>1. PutsCode(t, v, b, Entering(M))
  BY LevelPuts DEF PutsCode
<1>2. ChecksCode(t, v, Entering(M))
  BY LevelChecks DEF ChecksCode
<1>3. GetsCode(t, v, b, Entering(M))
  BY LevelGets DEF GetsCode
<1>4. Entering(M) \subseteq Nat
  BY DEF Entering
<1> QED
  BY <1>1, <1>2, <1>3, <1>4 DEF IsCode, InLevel

----------------------------------------------------------------------------
(***************************************************************************)
(* Containers, records and unions as code.                                 *)
(***************************************************************************)
LEMMA FailedStays ==
  ASSUME NEW t, NEW r, r = Gives(r.v, r.a), Failed(r.a)
  PROVE  Validate(t, r).a = r.a
<1> DEFINE x == r.v
           y == r.a
           b == Raise(y, "invariant")
<1>1. b = y
  BY DEF Raise, Failed
<1>2. r = [v |-> x, a |-> y]
  BY DEF Gives
<1>3. Validate(t, r) = IF r.v \in Types[t].refuse THEN [r EXCEPT !.a = b] ELSE r
  BY DEF Validate
<1> HIDE DEF x, y, b
<1>4. [r EXCEPT !.a = b].a = b
  BY <1>2
<1> QED
  BY <1>1, <1>3, <1>4 DEF y

LEMMA ValidatedDone ==
  ASSUME NEW t, NEW v, NEW a, ReadyGet(a, << >>), NEW b, NEW K, NEW ok,
         NEW r, r = Gives(r.v, r.a), GetDone(ok, v, a, r, b, K)
  PROVE  GetDone(ok /\ v \notin Types[t].refuse, v, a, Validate(t, r), b, K)
<1> DEFINE q == Validate(t, r)
           s == Skip(a, Len(b))
           good == ok /\ v \notin Types[t].refuse
<1>1. CASE ~Failed(r.a)
  <2>1. CASE a.limit \in K
    <3>1. ok /\ r = Gives(v, s)
      BY <1>1, <2>1 DEF GetDone
    <3>2. r.v = v /\ r.a = s
      BY <3>1, GivesIs
    <3>3. CASE v \in Types[t].refuse
      <4> DEFINE c == Raise(s, "invariant")
      <4>1. q = [r EXCEPT !.a = c]
        BY <3>2, <3>3 DEF Validate
      <4>3. s.err = "none"
        BY <1>1, <3>2 DEF Failed
      <4>4. c = [s EXCEPT !.err = "invariant"]
        BY <4>3 DEF Raise
      <4>5. s = [a EXCEPT !.at = a.at + Len(b)] /\ a \in Getters
        BY GetterTypes DEF Skip, ReadyGet
      <4>6. c.err = "invariant"
        <5> DEFINE y == a.at + Len(b)
        <5>1. s = [a EXCEPT !.at = y]
          BY <4>5
        <5> HIDE DEF y, s
        <5> QED
          BY <4>4, <4>5, <5>1 DEF Getters
      <4> DEFINE x == r.v
                 y == r.a
      <4>7. r = [v |-> x, a |-> y]
        BY DEF Gives
      <4> HIDE DEF q, c, x, y
      <4>8. q.a = c
        BY <4>1, <4>7
      <4>9. Failed(q.a)
        BY <4>6, <4>8 DEF Failed
      <4> QED
        BY <3>3, <4>9 DEF GetDone, q
    <3>4. CASE v \notin Types[t].refuse
      <4>1. q = r
        BY <3>2, <3>4 DEF Validate
      <4> HIDE DEF q
      <4> QED
        BY <2>1, <3>1, <3>4, <4>1 DEF GetDone, q
    <3> QED
      BY <3>3, <3>4
  <2>2. CASE a.limit \notin K
    <3>1. ~ok
      BY <1>1, <2>2 DEF GetDone, Failed
    <3> QED
      BY <2>2, <3>1 DEF GetDone
  <2> QED
    BY <2>1, <2>2
<1>2. CASE Failed(r.a)
  <2>1. q.a = r.a
    BY <1>2, FailedStays
  <2> HIDE DEF q
  <2>2. CASE ok /\ a.limit \in K
    <3>1. ReadyGet(a, << >>) /\ a \in Getters /\ a.err = "none"
      BY GetterTypes DEF ReadyGet, Failed
    <3>2. r.a = s
      <4>1. r = Gives(v, s)
        BY <2>2 DEF GetDone
      <4> QED
        BY <4>1, GivesIs
    <3> DEFINE y == a.at + Len(b)
    <3>3. s = [a EXCEPT !.at = y]
      BY DEF Skip
    <3> HIDE DEF s, y
    <3>4. s.err = "none"
      BY <3>1, <3>3 DEF Getters
    <3> QED
      BY <1>2, <3>2, <3>4 DEF Failed
  <2>3. CASE ok /\ a.limit \notin K
    BY <2>1, <2>3 DEF GetDone, q
  <2>4. CASE ~ok
    BY <1>2, <2>1, <2>4 DEF GetDone, q
  <2> QED
    BY <2>2, <2>3, <2>4
<1> QED
  BY <1>1, <1>2

LEMMA ValidParts ==
  ASSUME RecursiveValues, NEW t \in Type, HasParts(t), NEW v \in Objects[t]
  PROVE  IsValid(t, v) <=> /\ Kind(t) \in Variable => Len(v) <= MaxSize(t)
                           /\ Kind(t) \in Record => v \notin Types[t].refuse
                           /\ PartsValid(t, v)
<1>1. /\ DOMAIN v = 1..Len(v)
      /\ \A i \in 1..Len(v) : Component(t, i) \in Type /\ v[i] \in Objects[Component(t, i)]
  BY ObjectParts
<1>2. PartsValid(t, v) <=> \A i \in DOMAIN v : ValidPart(Component(t, i), v[i])
  BY <1>1 DEF RecursiveValues, PartsValid
<1>3. Kind(t) \in Container \cup Record /\ Kind(t) \notin {"enum", "bytes", "union"}
  BY DEF HasParts, Nested, Container, Record
<1>4. IsValid(t, v) <=> /\ Kind(t) \in Variable => Len(v) <= MaxSize(t)
                        /\ Kind(t) \in Record => v \notin Types[t].refuse
                        /\ \A i \in DOMAIN v : ValidPart(Component(t, i), v[i])
  BY <1>3 DEF IsValid
<1> QED
  BY <1>2, <1>4

\* The bytes of all components are as many as their sizes tell.
LEMMA PartsSize ==
  ASSUME RecursiveTypes, RecursiveValues, NEW t \in Type, HasParts(t), NEW v \in Objects[t],
         NEW n \in Nat, n = Len(v), NEW b, NEW K, PartsCoded(t, v, b, K), NEW F, Joined(F, b, n)
  PROVE  /\ IsBytes(F[n]) /\ Len(F[n]) \in Nat /\ All(K, n) \subseteq Nat
         /\ SerialSize(t, v) = IF Kind(t) \in {"vector", "pointer"} THEN 4 + Len(F[n]) ELSE Len(F[n])
<1> DEFINE s == Sizes(t, v)
<1>1. /\ Len(s) = n /\ DOMAIN s = 1..n /\ s = [i \in 1..n |-> s[i]]
      /\ \A i \in 1..n : s[i] = SerialSize(Component(t, i), v[i])
  BY SizesAre
<1>2. \A i \in 1..n : IsBytes(b[i]) /\ s[i] = Len(b[i])
  BY <1>1 DEF PartsCoded, IsCode
<1>3. \A i \in 1..n : Len(b[i]) \in Nat
  BY <1>2, LenProperties DEF IsBytes
<1> HIDE DEF s
<1>4. Len(F[n]) = Sum(s)
  BY <1>1, <1>2, JoinedSize
<1>5. IsBytes(F[n]) /\ Len(F[n]) \in Nat
  <2>1. \A i \in 0..n : IsBytes(F[i]) /\ Len(F[i]) \in Nat /\ Len(F[i]) <= Len(F[n])
    BY <1>2, JoinedBytes
  <2>2. n \in 0..n
    OBVIOUS
  <2> QED
    BY <2>1, <2>2
<1>6. \A i \in 1..n : s[i] \in Nat /\ s[i] # Unsized /\ s[i] \in Nat \cup {Unsized}
  BY <1>2, <1>3 DEF Unsized
<1>7. Total(s) = Sum(s)
  BY <1>1, <1>6, TotalIs
<1>8. Total(<<4>> \o s) = 4 + Sum(s)
  <2> DEFINE S == Nat
             r == <<4>> \o s
  <2>1. Tuple(s) /\ \A i \in 1..Len(s) : s[i] \in S /\ s[i] \in Int
    BY <1>1, <1>6 DEF Tuple
  <2>2. s \in Seq(Int)
    BY <2>1, TupleSeq
  <2>3. 4 \in Int /\ 4 \in S
    OBVIOUS
  <2>4. Sum(r) = 4 + Sum(s)
    BY <2>2, <2>3, SumCons
  <2> HIDE DEF S
  <2>5. s \in Seq(S)
    BY <2>1, TupleSeq
  <2>6. r \in Seq(S)
    <3>1. <<4>> \in Seq(S)
      BY <2>3
    <3> QED
      BY <2>5, <3>1, ConcatProperties
  <2> HIDE DEF r
  <2>7. Len(r) \in Nat /\ DOMAIN r = 1..Len(r) /\ \A i \in 1..Len(r) : r[i] \in S
    BY <2>6, LenProperties, ElementOfSeq
  <2>8. \A i \in 1..Len(r) : r[i] # Unsized /\ r[i] \in Nat \cup {Unsized}
    BY <2>7 DEF S, Unsized
  <2>9. Total(r) = Sum(r)
    BY <2>7, <2>8, TotalIs
  <2> QED
    BY <2>4, <2>9 DEF r
<1>9. SerialSize(t, v) = IF Kind(t) \in {"vector", "pointer"} THEN Total(<<4>> \o s) ELSE Total(s)
  BY SizeOfParts DEF s
<1>10. All(K, n) \subseteq Nat
  BY DEF All
<1> QED
  BY <1>4, <1>5, <1>7, <1>8, <1>9, <1>10

LEMMA LoadFirstGives ==
  ASSUME RecursiveTypes, RecursiveArchives, NEW t \in Type, HasParts(t), NEW x \in Objects[t],
         NEW n \in Nat, Counts(t, n), Len(x) <= n, Kind(t) \notin Variable => Len(x) = n,
         NEW a, ReadyGet(a, << >>)
  PROVE  LoadFirst(t, n, x, a) = Gives(LoadFirst(t, n, x, a).v, LoadFirst(t, n, x, a).a)
<1> DEFINE A == GetArchives(a.limit, a.in, a.past)
<1>1. a \in A /\ a.limit \in Nat
  BY GetterTypes DEF ReadyGet, GetArchives, Getters
<1>2. Turns(A, Type) /\ Needs(t, Type)
  BY <1>1, GetTurns, AllNeeded
<1> HIDE DEF A
<1>3. LET r == LoadFirst(t, n, x, a) IN
         /\ r.v \in Objects[t] /\ r.a \in A /\ (~Failed(r.a) => Len(r.v) = n)
         /\ r = Gives(r.v, r.a)
  BY <1>1, <1>2, LoadLeaves
<1> QED
  BY <1>3

\* What shows some bytes shows no bytes.
LEMMA ShowsNone ==
  ASSUME NEW a, NEW b, IsBytes(b), ReadyGet(a, b)
  PROVE  ReadyGet(a, << >>)
<1>1. a.at + Len(b) <= Len(a.in) /\ Len(b) \in Nat /\ a.at \in Nat /\ Len(a.in) \in Nat
  BY GetterTypes, LenProperties DEF ReadyGet, Shows, IsBytes
<1> DEFINE m == Len(b)
           n == Len(a.in)
<1>2. a.at + m <= n /\ m \in Nat /\ n \in Nat /\ a.at \in Nat
  BY <1>1
<1> HIDE DEF m, n
<1>3. a.at + 0 <= n
  BY <1>2
<1>4. Len(<< >>) = 0 /\ \A k \in 1..0 : FALSE
  BY NoBytes
<1> QED
  BY <1>3, <1>4 DEF ReadyGet, Shows, n

LEMMA PlainLevel ==
  ASSUME RecursiveTypes, RecursiveValues, RecursiveArchives, NEW t \in Type,
         Kind(t) = "array" \/ Kind(t) \in Record, NEW v \in Objects[t],
         NEW n \in Nat, n = Len(v), NEW b, NEW K, PartsCoded(t, v, b, K), NEW F, Joined(F, b, n)
  PROVE  InLevel(t, v, F[n], All(K, n))
<1> DEFINE y == F[n]
           M == All(K, n)
<1>1. HasParts(t) /\ Kind(t) \notin Variable /\ Kind(t) \notin {"vector", "pointer", "union"}
  BY DEF HasParts, Container, Variable, Record
<1>2. IsBytes(y) /\ Len(y) \in Nat /\ SerialSize(t, v) = Len(y) /\ M \subseteq Nat
  BY <1>1, PartsSize
<1>3. \A a : Save(t, v, a) = SaveFirst(t, n, v, a)
  BY <1>1 DEF Save
<1>4. \A a : ReadyPut(a, Len(y)) => PutDone(a, Save(t, v, a), y, M)
  BY <1>3, FirstPuts
<1>5. \A a : ReadyDepth(a) => DepthDone(a, Save(t, v, a), M)
  BY <1>1, <1>3, FirstChecks
<1>6. ASSUME NEW x \in Objects[t], NEW a, ReadyGet(a, y)
      PROVE  GetDone(IsValid(t, v), v, a, Load(t, x, a), y, M)
  <2>1. Counts(t, Len(x)) /\ Counts(t, n)
    BY <1>1, ObjectParts
  <2>2. Len(x) = n
    BY <2>1, <1>1 DEF Counts, HasParts, Container
  <2> DEFINE r == LoadFirst(t, n, x, a)
  <2>3. GetDone(PartsValid(t, v), v, a, r, y, M)
    <3>1. Len(x) <= n
      BY <2>2
    <3> QED
      BY <1>1, <1>6, <2>2, <3>1, FirstGets
  <2>4. ReadyGet(a, << >>)
    BY <1>2, <1>6, ShowsNone
  <2>5. r = Gives(r.v, r.a)
    <3>1. Len(x) <= n
      BY <2>2
    <3> QED
      BY <1>1, <2>1, <2>2, <2>4, <3>1, LoadFirstGives
  <2> HIDE DEF r, y, M
  <2>6. CASE Kind(t) = "array"
    <3>1. Load(t, x, a) = r
      BY <2>2, <2>6 DEF Load, Variable, r
    <3>2. IsValid(t, v) <=> PartsValid(t, v)
      BY <1>1, <2>6, ValidParts DEF Record, Variable
    <3> QED
      BY <2>3, <3>1, <3>2, Zenon DEF GetDone
  <2>7. CASE Kind(t) \in Record
    <3>1. Load(t, x, a) = Validate(t, r)
      BY <2>2, <2>7 DEF Load, Variable, Record, r
    <3>2. IsValid(t, v) <=> PartsValid(t, v) /\ v \notin Types[t].refuse
      BY <1>1, <2>7, ValidParts
    <3> DEFINE ok == PartsValid(t, v)
    <3>3. ok \in BOOLEAN
      BY DEF PartsValid
    <3>4. GetDone(ok, v, a, r, y, M)
      BY <2>3
    <3> HIDE DEF ok
    <3>5. GetDone(ok /\ v \notin Types[t].refuse, v, a, Validate(t, r), y, M)
      BY <2>4, <2>5, <3>3, <3>4, ValidatedDone
    <3> QED
      BY <3>1, <3>2, <3>5, Zenon DEF GetDone, ok
  <2> QED
    BY <2>6, <2>7
<1> HIDE DEF y, M
<1>7. SavesCode(t, v, y, M) /\ LoadsCode(t, v, y, M)
  BY <1>4, <1>5, <1>6 DEF SavesCode, LoadsCode
<1> QED
  BY <1>2, <1>7 DEF InLevel, y, M

----------------------------------------------------------------------------
LEMMA GetsBehind ==
  ASSUME NEW a, NEW p, NEW y, GetsOn(a, p, y), NEW ok, NEW v, NEW r, NEW M,
         GetDone(ok, v, Skip(a, Len(p)), r, y, M)
  PROVE  GetDone(ok, v, a, r, p \o y, M)
BY Zenon DEF GetsOn, GetDone

LEMMA PutsBehind ==
  ASSUME NEW a, NEW p, NEW y, PutsOn(a, p, y), NEW q, NEW M, PutDone(Out(a, p), q, y, M)
  PROVE  PutDone(a, q, p \o y, M)
BY Zenon DEF PutsOn, PutDone

\* A length word or a discriminant.
LEMMA NumberIsCode ==
  ASSUME RecursiveArchives, NEW t \in Type, Kind(t) \in {"u32", "enum"}, NEW n \in U32
  PROVE  /\ <<n>> \in Objects[t] /\ <<0>> \in Objects[t]
         /\ IsCode(t, <<n>>, Word(n), Nat) /\ IsBytes(Word(n)) /\ Len(Word(n)) = 4
<1>1. 0 \in U32
  BY SMT DEF U32
<1>2. <<n>> \in Objects[t] /\ <<0>> \in Objects[t]
  BY <1>1, NumberObjects
<1>3. Kind(t) \in Leaf
  BY DEF Leaf, Scalar
<1> DEFINE v == <<n>>
<1>4. LeafBytes(t, v) = Word(n)
  <2>1. v[1] = n
    OBVIOUS
  <2> HIDE DEF v
  <2> QED
    BY <2>1 DEF LeafBytes
<1>5. IsCode(t, v, LeafBytes(t, v), Nat)
  BY <1>2, <1>3, LeafIsCode
<1> HIDE DEF v
<1>6. IsCode(t, v, Word(n), Nat)
  BY <1>4, <1>5
<1> QED
  BY <1>2, <1>6, WordOfNumber DEF IsCode, v

LEMMA CountedLevel ==
  ASSUME RecursiveTypes, RecursiveValues, RecursiveArchives, NEW t \in Type,
         Kind(t) \in {"vector", "pointer"}, NEW v \in Objects[t],
         NEW n \in Nat, n = Len(v), NEW b, NEW K, PartsCoded(t, v, b, K), NEW F, Joined(F, b, n)
  PROVE  InLevel(t, v, Word(n) \o F[n], All(K, n))
<1> DEFINE y == F[n]
           M == All(K, n)
           p == Word(n)
           c == p \o y
<1>1. HasParts(t) /\ Kind(t) \in Variable /\ Kind(t) \notin Record /\ Kind(t) \notin {"union", "array"}
  BY DEF HasParts, Container, Variable, Record
<1>2. IsBytes(y) /\ Len(y) \in Nat /\ SerialSize(t, v) = 4 + Len(y) /\ M \subseteq Nat
  BY <1>1, PartsSize
<1>3. n \in U32
  <2>1. Counts(t, Len(v))
    BY <1>1, ObjectParts
  <2> QED
    BY <2>1 DEF Counts
<1>4. "u32" \in Type /\ Kind("u32") = "u32"
  BY TypesAssumption DEF Type
<1>5. /\ <<n>> \in Objects["u32"] /\ <<0>> \in Objects["u32"]
      /\ IsCode("u32", <<n>>, p, Nat) /\ IsBytes(p) /\ Len(p) = 4
  <2> DEFINE e == "u32"
  <2>1. e \in Type /\ Kind(e) \in {"u32", "enum"}
    BY <1>4
  <2> HIDE DEF e
  <2>2. /\ <<n>> \in Objects[e] /\ <<0>> \in Objects[e]
        /\ IsCode(e, <<n>>, p, Nat) /\ IsBytes(p) /\ Len(p) = 4
    BY <1>3, <2>1, NumberIsCode
  <2> QED
    BY <2>2 DEF e
<1>6. IsBytes(c) /\ Len(c) = 4 + Len(y) /\ Len(c) = Len(p) + Len(y)
  <2> HIDE DEF p, y
  <2>1. IsBytes(p \o y) /\ Len(p \o y) = Len(p) + Len(y)
    BY <1>2, <1>5, BytesJoined
  <2> QED
    BY <1>5, <2>1
<1>7. /\ PutsCode("u32", <<n>>, p, Nat) /\ ChecksCode("u32", <<n>>, Nat)
      /\ GetsCode("u32", <<n>>, p, Nat)
  BY <1>5 DEF IsCode
<1>8. \A a : Save(t, v, a) = SaveFirst(t, n, v, ArchivePart("u32", <<n>>, a))
  BY <1>1 DEF Save
<1>9. ASSUME NEW a, ReadyPut(a, Len(c))
      PROVE  PutDone(a, Save(t, v, a), c, M)
  <2> DEFINE s == ArchivePart("u32", <<n>>, a)
             q == SaveFirst(t, n, v, s)
  <2>1. ReadyPut(a, Len(p) + Len(y)) /\ a.limit \in Nat
    BY <1>6, <1>9 DEF ReadyPut, PutsWords, Putters
  <2>2. PutsOn(a, p, y)
    <3> HIDE DEF p, y
    <3> QED
      BY <1>2, <1>5, <2>1, PutMore
  <2>3. ReadyPut(a, Len(p))
    <3> DEFINE i == Len(a.out)
               j == Len(p)
               k == Len(y)
               m == a.end
    <3>1. a \in Putters /\ PutsWords(a) /\ ~Failed(a)
      BY <2>1 DEF ReadyPut, PutsWords
    <3>2. i + (j + k) <= m
      BY <2>1 DEF ReadyPut
    <3>3. i \in Nat /\ j \in Nat /\ k \in Nat /\ m \in Nat
      BY <1>2, <1>5, <3>1, LenProperties DEF Putters
    <3> HIDE DEF i, j, k, m
    <3>4. i + j <= m
      BY <3>2, <3>3
    <3> QED
      BY <3>1, <3>4 DEF ReadyPut, i, j, m
  <2>4. s = Out(a, p)
    BY <1>7, <2>1, <2>3 DEF PutsCode, PutDone
  <2> HIDE DEF s
  <2>5. PutDone(s, q, y, M)
    <3>1. ReadyPut(s, Len(y))
      BY <2>2, <2>4 DEF PutsOn
    <3> QED
      BY <3>1, FirstPuts
  <2> HIDE DEF q, p, y, M
  <2>6. PutDone(a, q, c, M)
    BY <2>2, <2>4, <2>5, PutsBehind
  <2> QED
    BY <1>8, <2>6 DEF q, s
<1>10. ASSUME NEW a, ReadyDepth(a)
       PROVE  DepthDone(a, Save(t, v, a), M)
  <2>1. a.limit - a.current \in Nat
    BY <1>10 DEF ReadyDepth, DepthCheckers
  <2>2. ArchivePart("u32", <<n>>, a) = a
    BY <1>7, <1>10, <2>1 DEF ChecksCode, DepthDone
  <2>3. Save(t, v, a) = SaveFirst(t, n, v, a)
    BY <1>8, <2>2
  <2> QED
    BY <1>1, <1>10, <2>3, FirstChecks
<1>11. ASSUME NEW x \in Objects[t], NEW a, ReadyGet(a, c)
       PROVE  GetDone(IsValid(t, v), v, a, Load(t, x, a), c, M)
  <2> DEFINE g == UnarchivePart("u32", <<0>>, a)
             s == Skip(a, Len(p))
             w == ResizeDown(x, n)
             r == LoadFirst(t, n, w, s)
  <2>1. GetsOn(a, p, y)
    <3> HIDE DEF p, y
    <3> QED
      BY <1>2, <1>5, <1>11, GetMore
  <2>2. ReadyGet(a, p) /\ ReadyGet(s, y) /\ a.limit \in Nat /\ ~Failed(s)
    BY <2>1, GetterTypes DEF GetsOn, ReadyGet, Getters
  <2>3. g = Gives(<<n>>, s)
    <3>1. GetDone(IsValid("u32", <<n>>), <<n>>, a, g, p, Nat)
      BY <1>5, <1>7, <2>2 DEF GetsCode
    <3>2. IsValid("u32", <<n>>)
      BY <1>4 DEF IsValid, Nested, Container, Record
    <3> QED
      BY <2>2, <3>1, <3>2 DEF GetDone
  <2>4. Load(t, x, a) = LoadElements(t, x, g)
    BY <1>1 DEF Load
  <2>5. g.v[1] = n /\ g.a = s
    <3>1. g.v = <<n>> /\ g.a = s
      BY <2>3, GivesIs
    <3> QED
      BY <3>1
  <2> HIDE DEF g, s
  <2>6. IsValid(t, v) <=> n <= MaxSize(t) /\ PartsValid(t, v)
    BY <1>1, ValidParts
  <2>7. MaxSize(t) \in Int
    BY NestedAssumption DEF MaxSize, Type
  <2>8. CASE n > MaxSize(t)
    <3> DEFINE e == Raise(s, "overflow")
               z == Gives(x, e)
    <3>1. LoadElements(t, x, g) = z
      BY <2>2, <2>5, <2>8, Zenon DEF LoadElements
    <3>2. ~IsValid(t, v)
      BY <2>6, <2>7, <2>8
    <3>3. e.err = "overflow"
      <4>1. s \in Getters /\ s.err = "none"
        BY <2>2, GetterTypes DEF ReadyGet, Failed
      <4> QED
        BY <4>1 DEF Raise, Getters
    <3>4. z.a = e
      BY GivesIs
    <3> HIDE DEF z, e
    <3>5. Failed(z.a)
      BY <3>3, <3>4 DEF Failed
    <3> QED
      BY <2>4, <3>1, <3>2, <3>5 DEF GetDone
  <2>9. CASE ~(n > MaxSize(t))
    <3>1. LoadElements(t, x, g) = r
      BY <2>2, <2>5, <2>9, Zenon DEF LoadElements
    <3>2. w \in Objects[t] /\ Len(w) <= n
      BY <1>3, CutObject
    <3>3. IsValid(t, v) <=> PartsValid(t, v)
      BY <2>6, <2>7, <2>9
    <3> HIDE DEF w
    <3>4. GetDone(PartsValid(t, v), v, s, r, y, M)
      BY <1>1, <2>2, <3>2, FirstGets
    <3> DEFINE ok == PartsValid(t, v)
    <3> HIDE DEF r, p, y, M, ok
    <3>5. GetDone(ok, v, Skip(a, Len(p)), r, y, M)
      BY <3>4 DEF s, ok
    <3>6. GetDone(ok, v, a, r, p \o y, M)
      BY <2>1, <3>5, GetsBehind
    <3> QED
      BY <2>4, <3>1, <3>3, <3>6, Zenon DEF GetDone, ok
  <2> QED
    BY <2>8, <2>9
<1>12. SerialSize(t, v) = Len(c)
  BY <1>2, <1>6
<1> HIDE DEF y, M, p, c
<1>13. SavesCode(t, v, c, M) /\ LoadsCode(t, v, c, M)
  BY <1>9, <1>10, <1>11 DEF SavesCode, LoadsCode
<1>14. InLevel(t, v, c, M)
  BY <1>2, <1>6, <1>12, <1>13 DEF InLevel
<1> QED
  BY <1>14 DEF c, p, y, M

----------------------------------------------------------------------------
LEMMA ValidUnion ==
  ASSUME RecursiveValues, NEW t \in Type, Kind(t) = "union", NEW v \in Objects[t],
         NEW w, w = Disc(v)
  PROVE  /\ IsValid(t, v) => FieldNo(t, w) # NoField
         /\ FieldNo(t, w) = 0 =>
              (IsValid(t, v) <=> v \notin Types[t].refuse /\ IsValid(Types[t].tag, <<w>>))
         /\ Selects(t, w) =>
              (IsValid(t, v) <=> /\ v \notin Types[t].refuse /\ IsValid(Types[t].tag, <<w>>)
                                 /\ IsValid(ArmOf(t, v), Member(v)))
<1> DEFINE f == FieldNo(t, w)
           e == Types[t].tag
<1>1. w \in U32 /\ v[1] = <<w>>
  BY ObjectMember
<1>2. e \in Type /\ Kind(e) \in {"u32", "enum"}
  BY NestedAssumption DEF Type
<1>3. <<w>> \in Objects[e]
  BY <1>1, <1>2, NumberObjects
<1>4. ValidPart(e, v[1]) <=> IsValid(e, <<w>>)
  BY <1>1, <1>2, <1>3 DEF RecursiveValues
<1>5. IsValid(t, v) <=> /\ f # NoField /\ v \notin Types[t].refuse /\ ValidPart(e, v[1])
                        /\ f > 0 => ValidPart(Arm(t, f), Member(v))
  BY DEF IsValid, Container, Record
<1>6. f = 0 => ~(f > 0) /\ f # NoField
  BY DEF NoField
<1>7. Selects(t, w) => f > 0 /\ f # NoField
  BY DEF Selects, NoField
<1>8. Selects(t, w) => (ValidPart(Arm(t, f), Member(v)) <=> IsValid(ArmOf(t, v), Member(v)))
  <2>1. Selects(t, w) => ArmOf(t, v) \in Type /\ Member(v) \in Objects[ArmOf(t, v)]
    BY ObjectMember
  <2> QED
    BY <2>1 DEF RecursiveValues, ArmOf
<1> HIDE DEF f
<1> QED
  BY <1>4, <1>5, <1>6, <1>7, <1>8, Zenon DEF f

\* What comes behind the discriminant w, when it is put, checked and got.
LEMMA TagFirst ==
  ASSUME RecursiveArchives, NEW t \in Type, Kind(t) = "union", NEW v \in Objects[t],
         NEW w, w = Disc(v), NEW y, IsBytes(y), NEW M, M \subseteq Nat,
         \A a : ReadyPut(a, Len(y)) => PutDone(a, SaveMember(t, v, a), y, M),
         \A a : ReadyDepth(a) => DepthDone(a, SaveMember(t, v, a), M)
  PROVE  SavesCode(t, v, Word(w) \o y, M)
<1> DEFINE e == Types[t].tag
           p == Word(w)
           c == p \o y
<1>1. w \in U32 /\ v[1] = <<w>>
  BY ObjectMember
<1>2. e \in Type /\ Kind(e) \in {"u32", "enum"}
  BY NestedAssumption DEF Type
<1>3. IsCode(e, <<w>>, p, Nat) /\ IsBytes(p) /\ Len(p) = 4
  BY <1>1, <1>2, NumberIsCode
<1>4. PutsCode(e, <<w>>, p, Nat) /\ ChecksCode(e, <<w>>, Nat)
  BY <1>3 DEF IsCode
<1>5. IsBytes(c) /\ Len(c) = Len(p) + Len(y) /\ Len(y) \in Nat
  <2> HIDE DEF p
  <2>1. IsBytes(p \o y) /\ Len(p \o y) = Len(p) + Len(y) /\ Len(y) \in Nat
    BY <1>3, BytesJoined
  <2> QED
    BY <2>1
<1>6. \A a : Save(t, v, a) = SaveMember(t, v, ArchivePart(e, <<w>>, a))
  BY <1>1 DEF Save, Variable
<1>9. ASSUME NEW a, ReadyPut(a, Len(c))
      PROVE  PutDone(a, Save(t, v, a), c, M)
  <2> DEFINE s == ArchivePart(e, <<w>>, a)
             q == SaveMember(t, v, s)
  <2>1. ReadyPut(a, Len(p) + Len(y)) /\ a.limit \in Nat
    BY <1>5, <1>9 DEF ReadyPut, PutsWords, Putters
  <2>2. PutsOn(a, p, y)
    <3> HIDE DEF p
    <3> QED
      BY <1>3, <2>1, PutMore
  <2>3. ReadyPut(a, Len(p))
    <3> DEFINE i == Len(a.out)
               j == Len(p)
               k == Len(y)
               m == a.end
    <3>1. a \in Putters /\ PutsWords(a) /\ ~Failed(a)
      BY <2>1 DEF ReadyPut, PutsWords
    <3>2. i + (j + k) <= m
      BY <2>1 DEF ReadyPut
    <3>3. i \in Nat /\ j \in Nat /\ k \in Nat /\ m \in Nat
      BY <1>3, <1>5, <3>1, LenProperties DEF Putters
    <3> HIDE DEF i, j, k, m
    <3>4. i + j <= m
      BY <3>2, <3>3
    <3> QED
      BY <3>1, <3>4 DEF ReadyPut, i, j, m
  <2>4. s = Out(a, p)
    BY <1>4, <2>1, <2>3 DEF PutsCode, PutDone
  <2> HIDE DEF s
  <2>5. PutDone(s, q, y, M)
    <3>1. ReadyPut(s, Len(y))
      BY <2>2, <2>4 DEF PutsOn
    <3> QED
      BY <3>1
  <2> HIDE DEF q, p
  <2>6. PutDone(a, q, c, M)
    BY <2>2, <2>4, <2>5, PutsBehind
  <2> QED
    BY <1>6, <2>6 DEF q, s
<1>10. ASSUME NEW a, ReadyDepth(a)
       PROVE  DepthDone(a, Save(t, v, a), M)
  <2>1. a.limit - a.current \in Nat
    BY <1>10 DEF ReadyDepth, DepthCheckers
  <2>2. ArchivePart(e, <<w>>, a) = a
    BY <1>4, <1>10, <2>1 DEF ChecksCode, DepthDone
  <2>3. Save(t, v, a) = SaveMember(t, v, a)
    BY <1>6, <2>2
  <2> QED
    BY <1>10, <2>3
<1> HIDE DEF c
<1>11. SavesCode(t, v, c, M)
  BY <1>9, <1>10 DEF SavesCode
<1> QED
  BY <1>11 DEF c

\* ok: the value behind the discriminant is one that validates.
LEMMA TagBack ==
  ASSUME RecursiveArchives, NEW t \in Type, Kind(t) = "union", NEW v \in Objects[t],
         NEW w, w = Disc(v), FieldNo(t, w) # NoField, NEW y, IsBytes(y), NEW M, M \subseteq Nat,
         NEW ok \in BOOLEAN,
         IsValid(t, v) <=> ok /\ IsValid(Types[t].tag, <<w>>),
         NEW x \in Objects[t], NEW a, ReadyGet(a, Word(w) \o y),
         \A s : ReadyGet(s, y) => GetDone(ok, v, s, LoadMember(t, x, Gives(<<w>>, s)), y, M)
  PROVE  GetDone(IsValid(t, v), v, a, Load(t, x, a), Word(w) \o y, M)
<1> DEFINE e == Types[t].tag
           p == Word(w)
           g == UnarchivePart(e, <<0>>, a)
           s == Skip(a, Len(p))
<1>1. w \in U32
  BY ObjectMember
<1>2. e \in Type /\ Kind(e) \in {"u32", "enum"}
  BY NestedAssumption DEF Type
<1>3. IsCode(e, <<w>>, p, Nat) /\ IsBytes(p) /\ <<0>> \in Objects[e]
  BY <1>1, <1>2, NumberIsCode
<1>4. GetsOn(a, p, y)
  <2> HIDE DEF p
  <2>1. ReadyGet(a, p \o y)
    BY DEF p
  <2> QED
    BY <1>3, <2>1, GetMore
<1>5. ReadyGet(a, p) /\ ReadyGet(s, y) /\ a.limit \in Nat
  BY <1>4, GetterTypes DEF GetsOn, ReadyGet, Getters
<1>6. GetDone(IsValid(e, <<w>>), <<w>>, a, g, p, Nat)
  BY <1>3, <1>5 DEF GetsCode, IsCode
<1>7. Load(t, x, a) = LoadMember(t, x, g)
  BY DEF Load, Variable
<1>8. CASE IsValid(e, <<w>>)
  <2>1. g = Gives(<<w>>, s)
    BY <1>5, <1>6, <1>8 DEF GetDone
  <2> DEFINE r == LoadMember(t, x, g)
  <2>2. GetDone(ok, v, s, r, y, M)
    BY <1>5, <2>1, Zenon
  <2> HIDE DEF r, p
  <2>3. GetDone(ok, v, Skip(a, Len(p)), r, y, M)
    BY <2>2
  <2>4. GetDone(ok, v, a, r, p \o y, M)
    BY <1>4, <2>3, GetsBehind
  <2>5. IsValid(t, v) <=> ok
    BY <1>8
  <2> QED
    BY <1>7, <2>4, <2>5, Zenon DEF GetDone, r, p
<1>9. CASE ~IsValid(e, <<w>>)
  <2>1. Failed(g.a)
    BY <1>5, <1>6, <1>9 DEF GetDone
  <2> HIDE DEF g
  <2> DEFINE z == Gives(x, g.a)
  <2>2. LoadMember(t, x, g) = z
    BY <2>1, Zenon DEF LoadMember
  <2>3. Failed(z.a)
    BY <2>1, GivesIs
  <2> HIDE DEF z
  <2>4. Failed(Load(t, x, a).a)
    BY <1>7, <2>2, <2>3, Zenon
  <2> QED
    BY <1>9, <2>4, Zenon DEF GetDone
<1> QED
  BY <1>8, <1>9

LEMMA VoidLevel ==
  ASSUME RecursiveTypes, RecursiveValues, RecursiveArchives, NEW t \in Type, Kind(t) = "union",
         NEW v \in Objects[t], FieldNo(t, Disc(v)) = 0
  PROVE  InLevel(t, v, Word(Disc(v)) \o << >>, Nat)
<1> DEFINE w == Disc(v)
           y == << >>
           c == Word(w) \o y
<1>1. w \in U32 /\ ~Selects(t, w) /\ FieldNo(t, w) # NoField /\ v = NoMember(w)
  <2>1. w \in U32 /\ ~Selects(t, w) /\ FieldNo(t, w) # NoField
    BY ObjectMember, FieldsAre DEF NoField
  <2>2. v = NoMember(w)
    BY <2>1, ObjectMember
  <2> QED
    BY <2>1, <2>2
<1>2. IsBytes(y) /\ Len(y) = 0
  BY NoBytes
<1>3. Types[t].tag \in Type /\ Kind(Types[t].tag) \in {"u32", "enum"}
  BY NestedAssumption DEF Type
<1>4. IsBytes(Word(w)) /\ Len(Word(w)) = 4
  BY <1>1, <1>3, NumberIsCode
<1>5. IsBytes(c) /\ Len(c) = 4
  <2> DEFINE p == Word(w)
  <2> HIDE DEF p, y
  <2>1. IsBytes(p) /\ Len(p) = 4
    BY <1>4 DEF p
  <2>2. IsBytes(p \o y) /\ Len(p \o y) = Len(p) + Len(y)
    BY <1>2, <2>1, BytesJoined
  <2>3. Len(p) + Len(y) = 4
    BY <1>2, <2>1
  <2> QED
    BY <2>2, <2>3 DEF p
<1>6. SerialSize(t, v) = Len(c)
  BY <1>5, SizeOfUnion
<1>7. \A a : SaveMember(t, v, a) = a
  BY <1>1 DEF SaveMember
<1> HIDE DEF y, w
<1>8. \A a : ReadyPut(a, Len(y)) => PutDone(a, SaveMember(t, v, a), y, Nat)
  <2> SUFFICES ASSUME NEW a, ReadyPut(a, Len(y))
               PROVE  PutDone(a, SaveMember(t, v, a), y, Nat)
    OBVIOUS
  <2>1. ReadyPut(a, 0) /\ a.limit \in Nat
    BY <1>2 DEF ReadyPut, PutsWords, Putters
  <2>2. Out(a, y) = a
    BY <2>1, PutNothing DEF y
  <2> QED
    BY <1>7, <2>1, <2>2 DEF PutDone
<1>9. \A a : ReadyDepth(a) => DepthDone(a, SaveMember(t, v, a), Nat)
  <2> SUFFICES ASSUME NEW a, ReadyDepth(a)
               PROVE  DepthDone(a, SaveMember(t, v, a), Nat)
    OBVIOUS
  <2>1. a.limit - a.current \in Nat
    BY DEF ReadyDepth, DepthCheckers
  <2> QED
    BY <1>7, <2>1 DEF DepthDone
<1>10. SavesCode(t, v, Word(w) \o y, Nat)
  BY <1>2, <1>8, <1>9, TagFirst DEF w
<1> DEFINE ok == v \notin Types[t].refuse
<1>11. IsValid(t, v) <=> ok /\ IsValid(Types[t].tag, <<w>>)
  BY ValidUnion DEF w
<1>12. ASSUME NEW x \in Objects[t], NEW s, ReadyGet(s, y)
       PROVE  GetDone(ok, v, s, LoadMember(t, x, Gives(<<w>>, s)), y, Nat)
  <2> DEFINE g == Gives(<<w>>, s)
             z == WithDisc(t, x, w)
             r == Gives(z, s)
  <2>1. g.v[1] = w /\ g.a = s
    <3>1. g.v = <<w>> /\ g.a = s
      BY GivesIs
    <3> HIDE DEF g
    <3> QED
      BY <3>1
  <2>2. ~Failed(s) /\ s \in Getters
    BY <1>12, GetterTypes DEF ReadyGet
  <2>3. z \in Objects[t] /\ Disc(z) = w
    BY <1>1, WithDiscObject DEF w
  <2>4. z = NoMember(w)
    <3> HIDE DEF z
    <3> QED
      BY <1>1, <2>3, ObjectMember
  <2>5. z = v
    BY <1>1, <2>4
  <2> HIDE DEF g, z
  <2>6. LoadMember(t, x, g) = Validate(t, r)
    <3>1. FieldNo(t, w) = 0 /\ FieldNo(t, w) # NoField
      BY <1>1 DEF w
    <3> QED
      BY <2>1, <2>2, <3>1 DEF LoadMember, z
  <2>7. Skip(s, Len(y)) = s
    BY <1>2, <2>2, GetNothing
  <2>8. r = Gives(v, s) /\ r.v = v /\ r.a = s
    BY <2>5, GivesIs
  <2> HIDE DEF r
  <2>9. GetDone(TRUE, v, s, r, y, Nat)
    <3>1. s.limit \in Nat
      BY <2>2 DEF Getters
    <3> QED
      BY <2>7, <2>8, <3>1 DEF GetDone
  <2>10. GetDone(TRUE /\ v \notin Types[t].refuse, v, s, Validate(t, r), y, Nat)
    <3> DEFINE true == TRUE
    <3>1. true \in BOOLEAN /\ GetDone(true, v, s, r, y, Nat) /\ r = Gives(r.v, r.a) /\ ReadyGet(s, << >>)
      BY <1>12, <2>8, <2>9 DEF y
    <3> HIDE DEF true
    <3>2. GetDone(true /\ v \notin Types[t].refuse, v, s, Validate(t, r), y, Nat)
      BY <3>1, ValidatedDone
    <3> QED
      BY <3>2 DEF true
  <2> QED
    BY <2>6, <2>10, Zenon DEF GetDone, g
<1>13. ASSUME NEW x \in Objects[t], NEW a, ReadyGet(a, c)
       PROVE  GetDone(IsValid(t, v), v, a, Load(t, x, a), c, Nat)
  <2>1. w = Disc(v) /\ FieldNo(t, w) # NoField /\ ok \in BOOLEAN /\ ReadyGet(a, Word(w) \o y)
    BY <1>1, <1>13 DEF w
  <2>2. \A s : ReadyGet(s, y) => GetDone(ok, v, s, LoadMember(t, x, Gives(<<w>>, s)), y, Nat)
    BY <1>12
  <2> HIDE DEF ok
  <2>3. GetDone(IsValid(t, v), v, a, Load(t, x, a), Word(w) \o y, Nat)
    BY <1>2, <1>11, <2>1, <2>2, TagBack
  <2> QED
    BY <2>3
<1> HIDE DEF c
<1>14. InLevel(t, v, c, Nat)
  BY <1>5, <1>6, <1>10, <1>13 DEF InLevel, LoadsCode, c
<1> QED
  BY <1>14 DEF c, w, y

----------------------------------------------------------------------------
LEMMA MemberBack ==
  ASSUME RecursiveTypes, NEW t \in Type, Kind(t) = "union", NEW v \in Objects[t],
         NEW w, w = Disc(v), Selects(t, w), NEW y, NEW M, GetsCode(ArmOf(t, v), Member(v), y, M),
         NEW x \in Objects[t], NEW s, ReadyGet(s, y), NEW z, z = LoadArm(t, WithDisc(t, x, w), s)
  PROVE  GetDone(IsValid(ArmOf(t, v), Member(v)), v, s, z, y, M) /\ z = Gives(z.v, z.a)
<1> DEFINE e == ArmOf(t, v)
           m == Member(v)
           u == WithDisc(t, x, w)
           p == UnarchivePart(Arm(t, Live(u)), Member(u), s)
           ok == IsValid(e, m)
<1>1. w \in U32 /\ Live(v) = FieldNo(t, w) /\ m \in Objects[e] /\ e = Arm(t, Live(v))
      /\ v = Union(w, Live(v), m)
  BY ObjectMember
<1>2. u \in Objects[t] /\ Disc(u) = w
  BY <1>1, WithDiscObject
<1> HIDE DEF u
<1>3. Live(u) = FieldNo(t, w) /\ Live(u) > 0 /\ Member(u) \in Objects[ArmOf(t, u)]
      /\ ArmOf(t, u) = Arm(t, Live(u))
  BY <1>2, ObjectMember
<1>4. Live(u) = Live(v) /\ Arm(t, Live(u)) = e
  BY <1>1, <1>3
<1>5. GetDone(ok, m, s, p, y, M)
  BY <1>3, <1>4 DEF GetsCode
<1> DEFINE q == p.v
<1>6. z = Gives([u EXCEPT ![3] = q], p.a)
  BY Zenon DEF LoadArm, ReadInto, u
<1> HIDE DEF p
<1>7. z.a = p.a /\ z = Gives(z.v, z.a)
  <2> DEFINE r == [u EXCEPT ![3] = q]
  <2>1. z = Gives(r, p.a)
    BY <1>6
  <2> DEFINE d == p.a
  <2> HIDE DEF r, d
  <2>2. z = Gives(r, d)
    BY <2>1 DEF d
  <2>3. z.v = r /\ z.a = d
    BY <2>2, GivesIs
  <2>4. z = Gives(z.v, z.a)
    BY <2>2, <2>3
  <2> QED
    BY <2>3, <2>4 DEF d
<1> HIDE DEF ok, e
<1>8. CASE ok /\ s.limit \in M
  <2>1. p = Gives(m, Skip(s, Len(y)))
    BY <1>5, <1>8 DEF GetDone
  <2>2. q = m /\ p.a = Skip(s, Len(y))
    BY <2>1, GivesIs
  <2>3. [u EXCEPT ![3] = m] = v
    <3>1. m \in Objects[Arm(t, Live(u))]
      BY <1>1, <1>4
    <3> HIDE DEF m
    <3>2. [u EXCEPT ![3] = m] = Union(Disc(u), Live(u), m)
      BY <1>2, <1>3, <3>1, MemberReplaced
    <3>3. v = Union(w, Live(v), m)
      BY <1>1
    <3> QED
      BY <1>2, <1>4, <3>2, <3>3
  <2>4. z = Gives(v, Skip(s, Len(y)))
    BY <1>6, <2>2, <2>3
  <2> QED
    BY <1>7, <1>8, <2>4, Zenon DEF GetDone, ok, e
<1>9. CASE ok /\ s.limit \notin M
  <2>1. p.a.err = "stack"
    BY <1>5, <1>9 DEF GetDone
  <2>2. z.a.err = "stack"
    BY <1>7, <2>1
  <2> QED
    BY <1>7, <1>9, <2>2, Zenon DEF GetDone, ok, e
<1>10. CASE ~ok
  <2>1. s.limit \in M => Failed(p.a)
    BY <1>5, <1>10 DEF GetDone
  <2>2. s.limit \in M => Failed(z.a)
    BY <1>7, <2>1
  <2> QED
    BY <1>7, <1>10, <2>2, Zenon DEF GetDone, ok, e
<1> QED
  BY <1>8, <1>9, <1>10

LEMMA MemberLevel ==
  ASSUME RecursiveTypes, RecursiveValues, RecursiveArchives, NEW t \in Type, Kind(t) = "union",
         NEW v \in Objects[t], Selects(t, Disc(v)),
         NEW y, NEW M, IsCode(ArmOf(t, v), Member(v), y, M)
  PROVE  InLevel(t, v, Word(Disc(v)) \o y, M)
<1> DEFINE w == Disc(v)
           e == ArmOf(t, v)
           m == Member(v)
           c == Word(w) \o y
           ok == IsValid(e, m)
<1>1. w \in U32 /\ FieldNo(t, w) # NoField /\ FieldNo(t, w) # 0
      /\ m \in Objects[e] /\ e \in Type /\ e = Arm(t, FieldNo(t, w))
  BY ObjectMember, FieldsAre DEF ArmOf
<1>2. /\ IsBytes(y) /\ Len(y) = SerialSize(e, m) /\ M \subseteq Nat /\ PutsCode(e, m, y, M)
      /\ ChecksCode(e, m, M) /\ GetsCode(e, m, y, M)
  BY DEF IsCode
<1>3. Types[t].tag \in Type /\ Kind(Types[t].tag) \in {"u32", "enum"}
  BY NestedAssumption DEF Type
<1>4. IsBytes(Word(w)) /\ Len(Word(w)) = 4
  BY <1>1, <1>3, NumberIsCode
<1>5. IsBytes(c) /\ Len(c) = 4 + Len(y) /\ Len(y) \in Nat
  <2> DEFINE p == Word(w)
  <2> HIDE DEF p
  <2>1. IsBytes(p) /\ Len(p) = 4
    BY <1>4 DEF p
  <2>2. IsBytes(p \o y) /\ Len(p \o y) = Len(p) + Len(y) /\ Len(y) \in Nat
    BY <1>2, <2>1, BytesJoined
  <2> QED
    BY <2>1, <2>2 DEF p
<1>6. SerialSize(t, v) = Len(c)
  <2> DEFINE k == Len(y)
  <2>1. SerialSize(t, v) = Total(<<4, SerialSize(e, m)>>)
    BY SizeOfUnion
  <2>2. k \in Nat \cup {Unsized} /\ k # Unsized /\ SerialSize(e, m) = k
    BY <1>2, <1>5 DEF Unsized
  <2> HIDE DEF k
  <2>3. Total(<<4, k>>) = 4 + k
    BY <2>2, TotalOfTwo
  <2> QED
    BY <1>5, <2>1, <2>2, <2>3 DEF k
<1>7. \A a : SaveMember(t, v, a) = ArchivePart(e, m, a)
  BY <1>1 DEF SaveMember
<1>8. \A a : ReadyPut(a, Len(y)) => PutDone(a, SaveMember(t, v, a), y, M)
  BY <1>2, <1>7 DEF PutsCode
<1>9. \A a : ReadyDepth(a) => DepthDone(a, SaveMember(t, v, a), M)
  BY <1>2, <1>7 DEF ChecksCode
<1> HIDE DEF w
<1>10. SavesCode(t, v, Word(w) \o y, M)
  BY <1>2, <1>8, <1>9, TagFirst DEF w
<1> DEFINE okay == ok /\ v \notin Types[t].refuse
<1>11. IsValid(t, v) <=> okay /\ IsValid(Types[t].tag, <<w>>)
  BY ValidUnion DEF w
<1>12. ASSUME NEW x \in Objects[t], NEW s, ReadyGet(s, y)
       PROVE  GetDone(okay, v, s, LoadMember(t, x, Gives(<<w>>, s)), y, M)
  <2> DEFINE g == Gives(<<w>>, s)
             z == LoadArm(t, WithDisc(t, x, w), s)
  <2>1. g.v[1] = w /\ g.a = s
    <3>1. g.v = <<w>> /\ g.a = s
      BY GivesIs
    <3> HIDE DEF g
    <3> QED
      BY <3>1
  <2>2. ~Failed(s) /\ ReadyGet(s, << >>)
    BY <1>2, <1>12, ShowsNone DEF ReadyGet
  <2>3. w = Disc(v) /\ Selects(t, w)
    BY DEF w
  <2> HIDE DEF g
  <2>4. LoadMember(t, x, g) = Validate(t, z)
    BY <1>1, <2>1, <2>2, Zenon DEF LoadMember
  <2> HIDE DEF z
  <2>5. GetDone(ok, v, s, z, y, M) /\ z = Gives(z.v, z.a)
    BY <1>2, <1>12, <2>3, MemberBack DEF z
  <2>7. GetDone(okay, v, s, Validate(t, z), y, M)
    <3> HIDE DEF ok
    <3>1. GetDone(ok /\ v \notin Types[t].refuse, v, s, Validate(t, z), y, M)
      BY <2>2, <2>5, ValidatedDone
    <3> QED
      BY <3>1
  <2> QED
    BY <2>4, <2>7, Zenon DEF g
<1>13. ASSUME NEW x \in Objects[t], NEW a, ReadyGet(a, c)
       PROVE  GetDone(IsValid(t, v), v, a, Load(t, x, a), c, M)
  <2>1. w = Disc(v) /\ FieldNo(t, w) # NoField /\ okay \in BOOLEAN /\ ReadyGet(a, Word(w) \o y)
    BY <1>1, <1>13 DEF w
  <2>2. \A s : ReadyGet(s, y) => GetDone(okay, v, s, LoadMember(t, x, Gives(<<w>>, s)), y, M)
    BY <1>12
  <2> HIDE DEF okay
  <2>3. GetDone(IsValid(t, v), v, a, Load(t, x, a), Word(w) \o y, M)
    BY <1>2, <1>11, <2>1, <2>2, TagBack
  <2> QED
    BY <2>3
<1> HIDE DEF c
<1>14. InLevel(t, v, c, M)
  BY <1>2, <1>5, <1>6, <1>10, <1>13 DEF InLevel, LoadsCode, c
<1> QED
  BY <1>14 DEF c, w

----------------------------------------------------------------------------
(***************************************************************************)
(* Every value whose size can be told has its bytes and its limits.        *)
(***************************************************************************)
\* There is a limit that suffices, and then any higher one does.
Enough(K) == K # {} /\ \A k \in K : \A l \in Nat : k <= l => l \in K
CodedParts(t, v, b, K) == PartsCoded(t, v, b, K) /\ \A i \in 1..Len(v) : Enough(K[i])

\* The bytes of a value, made of those of its parts.
Heading(t, v) == IF Kind(t) \in {"vector", "pointer"} THEN Word(Len(v)) ELSE << >>
PartsJoined(t, v, b) ==
  \E p, M, F : CodedParts(t, v, p, M) /\ Joined(F, p, Len(v)) /\ b = Heading(t, v) \o F[Len(v)]
MemberBehind(t, v, b) ==
  \E y : /\ b = Word(Disc(v)) \o y /\ IsBytes(y)
         /\ Selects(t, Disc(v)) => \E M : IsCode(ArmOf(t, v), Member(v), y, M) /\ Enough(M)
Consists(t, v, b) ==
  /\ Kind(t) \in Leaf => b = LeafBytes(t, v)
  /\ HasParts(t) => PartsJoined(t, v, b)
  /\ Kind(t) = "union" => MemberBehind(t, v, b)
Coded(t, v, b, K) == IsCode(t, v, b, K) /\ Enough(K) /\ Consists(t, v, b)
HasCode(t, v) == \E b, K : Coded(t, v, b, K)

LEMMA EnoughNat == Enough(Nat)
BY DEF Enough

LEMMA EnoughEntering ==
  ASSUME NEW K, K \subseteq Nat, Enough(K)
  PROVE  Enough(Entering(K))
<1>1. PICK k : k \in K
  BY DEF Enough
<1>2. k + 1 \in Entering(K)
  <2>1. k \in Nat /\ (k + 1) - 1 = k
    BY <1>1
  <2> QED
    BY <1>1, <2>1 DEF Entering
<1>3. ASSUME NEW j \in Entering(K), NEW l \in Nat, j <= l
      PROVE  l \in Entering(K)
  <2>1. j \in Nat /\ j # 0 /\ j - 1 \in K
    BY DEF Entering
  <2>2. l # 0 /\ l - 1 \in Nat /\ j - 1 <= l - 1
    BY <1>3, <2>1
  <2>3. l - 1 \in K
    BY <2>1, <2>2 DEF Enough
  <2> QED
    BY <2>2, <2>3 DEF Entering
<1> QED
  BY <1>2, <1>3 DEF Enough

LEMMA EnoughAll ==
  ASSUME NEW n \in Nat, NEW K, \A i \in 1..n : K[i] \subseteq Nat /\ Enough(K[i])
  PROVE  Enough(All(K, n))
<1> DEFINE f == [i \in 1..n |-> CHOOSE k : k \in K[i]]
<1>1. ASSUME NEW i \in 1..n
      PROVE  f[i] \in K[i] /\ f[i] \in Nat
  <2>1. \E k : k \in K[i]
    BY DEF Enough
  <2>2. (CHOOSE k : k \in K[i]) \in K[i]
    BY <2>1, Zenon
  <2> QED
    BY <2>2
<1> HIDE DEF f
<1>2. PICK m \in Nat : \A i \in 1..n : f[i] <= m
  BY <1>1, Bounded
<1>3. m \in All(K, n)
  <2>1. \A i \in 1..n : m \in K[i]
    BY <1>1, <1>2 DEF Enough
  <2> QED
    BY <2>1 DEF All
<1>4. ASSUME NEW k \in All(K, n), NEW l \in Nat, k <= l
      PROVE  l \in All(K, n)
  <2>1. \A i \in 1..n : k \in K[i]
    BY DEF All
  <2>2. \A i \in 1..n : l \in K[i]
    BY <1>4, <2>1 DEF Enough
  <2> QED
    BY <2>2 DEF All
<1> QED
  BY <1>3, <1>4 DEF Enough

\* The sizes of the parts can be told if that of the whole can.
LEMMA PartsSized ==
  ASSUME RecursiveTypes, RecursiveValues, NEW t \in Type, HasParts(t), NEW v \in Objects[t],
         SerialSize(t, v) # Unsized
  PROVE  \A i \in 1..Len(v) : SerialSize(Component(t, i), v[i]) # Unsized
<1> DEFINE s == Sizes(t, v)
           S == Nat \cup {Unsized}
<1>1. /\ Len(s) = Len(v) /\ Len(v) \in Nat /\ DOMAIN s = 1..Len(v)
      /\ s = [i \in 1..Len(v) |-> s[i]]
      /\ \A i \in 1..Len(v) : s[i] = SerialSize(Component(t, i), v[i])
  BY SizesAre
<1>2. \A i \in 1..Len(v) : Component(t, i) \in Type /\ v[i] \in Objects[Component(t, i)]
  BY ObjectParts
<1>3. \A i \in 1..Len(s) : s[i] \in S
  BY <1>1, <1>2, SizeIsNat
<1>4. SerialSize(t, v) = IF Kind(t) \in {"vector", "pointer"} THEN Total(<<4>> \o s) ELSE Total(s)
  BY SizeOfParts
<1> HIDE DEF s
<1>5. \A i \in 1..Len(s) : s[i] # Unsized
  <2>1. CASE Kind(t) \notin {"vector", "pointer"}
    <3>1. Total(s) # Unsized
      BY <1>4, <2>1
    <3> QED
      BY <1>1, <1>3, <3>1, TotalIs
  <2>2. CASE Kind(t) \in {"vector", "pointer"}
    <3> DEFINE r == <<4>> \o s
    <3>1. Total(r) # Unsized
      BY <1>4, <2>2
    <3>2. s \in Seq(S) /\ <<4>> \in Seq(S)
      <4>1. Tuple(s) /\ \A i \in 1..Len(s) : s[i] \in S
        BY <1>1, <1>3 DEF Tuple
      <4> HIDE DEF S
      <4>2. s \in Seq(S)
        BY <4>1, TupleSeq
      <4> QED
        BY <4>2 DEF S
    <3> HIDE DEF S
    <3>3. r \in Seq(S) /\ Len(r) = 1 + Len(s) /\ \A i \in 1..Len(s) : r[1 + i] = s[i]
      <4>1. Len(<<4>>) = 1 /\ Len(s) \in Nat
        BY <1>1
      <4>2. r \in Seq(S) /\ Len(r) = Len(<<4>>) + Len(s)
        BY <3>2, ConcatProperties
      <4>3. \A j \in 1 .. Len(<<4>>) + Len(s) :
              r[j] = IF j <= Len(<<4>>) THEN <<4>>[j] ELSE s[j - Len(<<4>>)]
        BY <3>2, ConcatProperties
      <4> HIDE DEF r
      <4>4. ASSUME NEW i \in 1..Len(s)
            PROVE  r[1 + i] = s[i]
        <5>1. 1 + i \in 1 .. 1 + Len(s) /\ ~(1 + i <= 1) /\ (1 + i) - 1 = i
          BY <4>1
        <5> QED
          BY <4>1, <4>3, <5>1
      <4> QED
        BY <4>1, <4>2, <4>4
    <3> HIDE DEF r
    <3>4. Len(r) \in Nat /\ DOMAIN r = 1..Len(r) /\ \A i \in 1..Len(r) : r[i] \in S
      BY <3>3, LenProperties, ElementOfSeq
    <3>5. \A i \in 1..Len(r) : r[i] # Unsized
      BY <3>1, <3>4, TotalIs DEF S
    <3>6. ASSUME NEW i \in 1..Len(s)
          PROVE  s[i] # Unsized
      <4>1. 1 + i \in 1..Len(r)
        BY <1>1, <3>3
      <4> QED
        BY <3>3, <3>5, <4>1
    <3> QED
      BY <3>6
  <2> QED
    BY <2>1, <2>2
<1> QED
  BY <1>1, <1>5

LEMMA PartsHaveCodes ==
  ASSUME NEW t, NEW v, \A i \in 1..Len(v) : HasCode(Component(t, i), v[i])
  PROVE  \E b, K : CodedParts(t, v, b, K)
<1> DEFINE n == Len(v)
           Codes(i, c) == \E M : Coded(Component(t, i), v[i], c, M)
           b == [i \in 1..n |-> CHOOSE c : Codes(i, c)]
           K == [i \in 1..n |-> CHOOSE M : Coded(Component(t, i), v[i], b[i], M)]
<1>1. ASSUME NEW i \in 1..n
      PROVE  Coded(Component(t, i), v[i], b[i], K[i])
  <2>1. \E c : Codes(i, c)
    BY DEF HasCode
  <2>2. Codes(i, CHOOSE c : Codes(i, c))
    <3> HIDE DEF Codes
    <3> QED
      BY <2>1, Zenon
  <2>3. b[i] = CHOOSE c : Codes(i, c)
    BY Zenon
  <2>4. Codes(i, b[i])
    BY <2>2, <2>3
  <2>5. \E M : Coded(Component(t, i), v[i], b[i], M)
    BY <2>4
  <2>6. K[i] = CHOOSE M : Coded(Component(t, i), v[i], b[i], M)
    BY Zenon
  <2> HIDE DEF b, K
  <2> QED
    BY <2>5, <2>6, Zenon
<1> HIDE DEF b, K
<1>2. CodedParts(t, v, b, K)
  BY <1>1, Zenon DEF CodedParts, PartsCoded, Coded
<1> QED
  BY <1>2

LEMMA CodesExist ==
  ASSUME RecursiveTypes, RecursiveValues, RecursiveArchives
  PROVE  \A t \in Type : \A v \in Objects[t] : SerialSize(t, v) # Unsized => HasCode(t, v)
<1> DEFINE P == [t \in Type |-> {v \in Objects[t] : SerialSize(t, v) # Unsized => HasCode(t, v)}]
<1>1. ASSUME NEW t \in Type, NEW v \in Objects[t], PartsIn(P, t, v), SerialSize(t, v) # Unsized
      PROVE  HasCode(t, v)
  <2>1. CASE Kind(t) \in Leaf
    <3>1. IsCode(t, v, LeafBytes(t, v), Nat)
      BY <2>1, LeafIsCode
    <3>2. ~HasParts(t) /\ Kind(t) # "union"
      BY <2>1, Kinds
    <3>3. Consists(t, v, LeafBytes(t, v))
      BY <3>2, Zenon DEF Consists
    <3>4. Coded(t, v, LeafBytes(t, v), Nat)
      BY <3>1, <3>3, EnoughNat, Zenon DEF Coded
    <3> QED
      BY <3>4, Zenon DEF HasCode
  <2>2. CASE HasParts(t)
    <3> DEFINE n == Len(v)
    <3>1. n \in Nat /\ \A i \in 1..n : Component(t, i) \in Type /\ v[i] \in P[Component(t, i)]
      BY <1>1, <2>2, ObjectParts DEF PartsIn
    <3>2. \A i \in 1..n : SerialSize(Component(t, i), v[i]) # Unsized
      BY <1>1, <2>2, PartsSized
    <3>3. \A i \in 1..n : HasCode(Component(t, i), v[i])
      BY <3>1, <3>2
    <3> HIDE DEF P
    <3>4. PICK b, K : CodedParts(t, v, b, K)
      BY <3>3, PartsHaveCodes
    <3> HIDE DEF n
    <3>5. n \in Nat /\ n = Len(v)
      BY <3>1 DEF n
    <3>6. PICK F : Joined(F, b, n)
      BY <3>5, JoinRuns
    <3>7. Kind(t) \in Nested /\ PartsCoded(t, v, b, K) /\ \A i \in 1..n : Enough(K[i])
      BY <2>2, <3>4, <3>5, Kinds DEF CodedParts
    <3> DEFINE c == Heading(t, v) \o F[n]
               M == Entering(All(K, n))
    <3>8. IsCode(t, v, c, M)
      <4>1. CASE Kind(t) \in {"vector", "pointer"}
        <5>1. InLevel(t, v, Word(n) \o F[n], All(K, n))
          BY <3>5, <3>6, <3>7, <4>1, CountedLevel
        <5>2. IsCode(t, v, Word(n) \o F[n], M)
          BY <3>7, <5>1, LevelIsCode
        <5> QED
          BY <3>5, <4>1, <5>2, Zenon DEF Heading
      <4>2. CASE Kind(t) = "array" \/ Kind(t) \in Record
        <5>1. InLevel(t, v, F[n], All(K, n))
          BY <3>5, <3>6, <3>7, <4>2, PlainLevel
        <5>2. IsCode(t, v, F[n], M)
          BY <3>7, <5>1, LevelIsCode
        <5>3. Heading(t, v) = << >>
          BY <4>2 DEF Heading, Record
        <5>4. F[n] \in Seq(Octet)
          BY <5>1 DEF InLevel, IsBytes
        <5>5. c = F[n]
          BY <5>3, <5>4, ConcatEmptySeq
        <5> QED
          BY <5>2, <5>5, Zenon
      <4> QED
        BY <2>2, <4>1, <4>2 DEF HasParts, Container
    <3>9. Enough(M)
      <4>1. \A i \in 1..n : K[i] \subseteq Nat /\ Enough(K[i])
        BY <3>5, <3>7 DEF PartsCoded, IsCode
      <4>2. Enough(All(K, n)) /\ All(K, n) \subseteq Nat
        BY <3>5, <4>1, EnoughAll DEF All
      <4> QED
        BY <4>2, EnoughEntering
    <3>10. Consists(t, v, c)
      <4>1. Kind(t) \notin Leaf /\ Kind(t) # "union"
        BY <2>2, Kinds
      <4>2. PartsJoined(t, v, c)
        BY <3>4, <3>5, <3>6, Zenon DEF PartsJoined
      <4> QED
        BY <4>1, <4>2, Zenon DEF Consists
    <3> HIDE DEF c, M
    <3> QED
      BY <3>8, <3>9, <3>10, Zenon DEF HasCode, Coded
  <2>3. CASE Kind(t) = "union"
    <3>0. Kind(t) \in Nested
      BY <2>3, Kinds
    <3>1. FieldNo(t, Disc(v)) \in {0, NoField} \/ Selects(t, Disc(v))
      BY <2>3, FieldsAre
    <3>2. FieldNo(t, Disc(v)) # NoField
      BY <1>1, <2>3, SizeOfUnion
    <3>3. CASE FieldNo(t, Disc(v)) = 0
      <4>1. InLevel(t, v, Word(Disc(v)) \o << >>, Nat)
        BY <2>3, <3>3, VoidLevel
      <4>2. IsCode(t, v, Word(Disc(v)) \o << >>, Entering(Nat))
        BY <3>0, <4>1, LevelIsCode
      <4>3. Enough(Entering(Nat))
        BY EnoughNat, EnoughEntering
      <4>4. ~Selects(t, Disc(v)) /\ IsBytes(<< >>)
        BY <3>3, NoBytes DEF Selects
      <4>5. Consists(t, v, Word(Disc(v)) \o << >>)
        BY <2>3, <4>4, Kinds, Zenon DEF Consists, MemberBehind
      <4> QED
        BY <4>2, <4>3, <4>5, Zenon DEF HasCode, Coded
    <3>4. CASE Selects(t, Disc(v))
      <4> DEFINE e == ArmOf(t, v)
                 k == SerialSize(e, Member(v))
      <4>1. e \in Type /\ Member(v) \in P[e]
        BY <1>1, <2>3, <3>4, ObjectMember DEF PartsIn
      <4>2. k # Unsized
        <5>1. SerialSize(t, v) = Total(<<4, k>>)
          BY <2>3, <3>4, SizeOfUnion
        <5>2. Unsized \in Nat \cup {Unsized}
          OBVIOUS
        <5>3. Total(<<4, Unsized>>) = Unsized
          BY <5>2, TotalOfTwo
        <5> QED
          BY <1>1, <5>1, <5>3
      <4>3. HasCode(e, Member(v))
        BY <4>1, <4>2
      <4>4. PICK y, M : IsCode(e, Member(v), y, M) /\ Enough(M)
        BY <4>3 DEF HasCode, Coded
      <4>5. InLevel(t, v, Word(Disc(v)) \o y, M)
        BY <2>3, <3>4, <4>4, MemberLevel
      <4>6. IsCode(t, v, Word(Disc(v)) \o y, Entering(M))
        BY <3>0, <4>5, LevelIsCode
      <4>7. Enough(Entering(M)) /\ IsBytes(y)
        BY <4>4, EnoughEntering DEF IsCode
      <4>8. MemberBehind(t, v, Word(Disc(v)) \o y)
        BY <4>4, <4>7, Zenon DEF MemberBehind
      <4>9. Consists(t, v, Word(Disc(v)) \o y)
        BY <2>3, <4>8, Kinds, Zenon DEF Consists
      <4> QED
        BY <4>6, <4>7, <4>9, Zenon DEF HasCode, Coded
    <3> QED
      BY <3>1, <3>2, <3>3, <3>4
  <2> QED
    BY <2>1, <2>2, <2>3, Kinds
<1>2. ASSUME NEW t \in Type, NEW v \in Objects[t], PartsIn(P, t, v)
      PROVE  v \in P[t]
  BY <1>1, <1>2
<1> HIDE DEF P
<1>3. \A t \in Type : \A v \in Objects[t] : v \in P[t]
  BY <1>2, ByParts
<1> QED
  BY <1>3 DEF P

----------------------------------------------------------------------------
(***************************************************************************)
(* Messages: the bytes c of an argument pack's value, and the set M of the *)
(* limits that its levels stay within.                                     *)
(***************************************************************************)
Within(t, v, limit) ==
  \A i \in DOMAIN Types[t].fields : check_xdr_depth(Types[t].fields[i], v[i], limit).within
\* The archive after xdr_to_msg; what xdr_from_msg gives.
Marshaled(e, c, fits) == IF fits THEN ~Failed(e) /\ e.out = c ELSE e.err = "stack"
Unmarshaled(r, v, valid, fits) ==
  /\ valid => IF fits THEN ~Failed(r.a) /\ r.v = v ELSE r.a.err = "stack"
  /\ ~valid /\ fits => Failed(r.a)
Comes(t, v, c, M) ==
  \A x \in Objects[t] : \A limit \in Nat :
    Unmarshaled(xdr_from_msg(t, x, c, limit), v, PartsValid(t, v), limit \in M)
Goes(t, v, c, M) ==
  \A limit \in Nat : /\ Marshaled(xdr_to_msg(t, v, limit), c, limit \in M)
                     /\ Within(t, v, limit) <=> limit \in M
IsMessage(t, v, c, M) ==
  /\ IsBytes(c) /\ Len(c) = xdr_argpack_size(t, v) /\ M \subseteq Nat
  /\ Goes(t, v, c, M) /\ Comes(t, v, c, M)

LEMMA ArgpackSize ==
  ASSUME RecursiveTypes, RecursiveValues, UsesObjects, NEW t \in Roots, NEW v \in Objects[t]
  PROVE  xdr_argpack_size(t, v) = SerialSize(t, v) /\ SerialSize(t, v) \in Nat \cup {Unsized}
<1>1. t \in Type /\ HasParts(t) /\ Kind(t) \notin {"vector", "pointer"}
  BY RootsAre
<1>2. SerialSize(t, v) = Total(Sizes(t, v))
  BY <1>1, SizeOfParts
<1> QED
  BY <1>1, <1>2, SizeIsNat DEF xdr_argpack_size

\* What check_xdr_depth says of the fields.
LEMMA FieldsWithin ==
  ASSUME RecursiveArchives, UsesObjects, NEW t \in Roots, NEW v \in Objects[t],
         NEW b, NEW K, PartsCoded(t, v, b, K), NEW limit \in Nat
  PROVE  Within(t, v, limit) <=> limit \in All(K, Len(v))
<1> DEFINE n == Len(v)
           d == DepthChecker(limit)
<1>1. t \in Type /\ HasParts(t) /\ Kind(t) \in Record
  BY RootsAre DEF Record
<1>2. DOMAIN Types[t].fields = 1..n /\ n \in Nat
  <2>1. Types[t].fields \in Seq(DOMAIN Types)
    BY <1>1, NestedAssumption DEF Type
  <2>2. n = Len(Types[t].fields) /\ n \in Nat
    BY <1>1, ObjectParts DEF Counts
  <2> QED
    BY <2>1, <2>2, LenProperties
<1>3. /\ d \in DepthCheckers /\ ~Failed(d) /\ d.within = TRUE /\ d.limit = limit /\ d.current = 0
      /\ ReadyDepth(d)
  BY DEF DepthChecker, DepthCheckers, Exception, Failed, ReadyDepth
<1>4. ASSUME NEW i \in 1..n
      PROVE  check_xdr_depth(Types[t].fields[i], v[i], limit).within <=> limit \in K[i]
  <2> DEFINE e == Types[t].fields[i]
             q == ArchivePart(e, v[i], d)
  <2>1. e \in Type /\ v[i] \in Objects[e]
    BY <1>2, FieldObjects
  <2>2. Component(t, i) = e
    BY <1>1 DEF Component
  <2>3. check_xdr_depth(e, v[i], limit) = q
    BY <1>3, <2>1 DEF check_xdr_depth, RecursiveArchives
  <2>4. DepthDone(d, q, K[i])
    BY <1>3, <2>2 DEF PartsCoded, IsCode, ChecksCode
  <2> HIDE DEF d, q
  <2>5. d.limit - d.current = limit
    BY <1>3
  <2>6. q.within <=> limit \in K[i]
    BY <1>3, <2>4, <2>5 DEF DepthDone
  <2> QED
    BY <2>3, <2>6
<1>5. Within(t, v, limit) <=> \A i \in 1..n : limit \in K[i]
  BY <1>2, <1>4, Zenon DEF Within
<1> QED
  BY <1>5 DEF All

LEMMA RootPuts ==
  ASSUME UsesObjects, NEW t \in Roots, NEW v \in Objects[t],
         NEW n \in Nat, n = Len(v), NEW b, NEW K, PartsCoded(t, v, b, K), NEW F, Joined(F, b, n),
         IsBytes(F[n]), Len(F[n]) \in Nat, Len(F[n]) = xdr_argpack_size(t, v), NEW limit \in Nat
  PROVE  Marshaled(xdr_to_msg(t, v, limit), F[n], limit \in All(K, n))
<1> DEFINE c == F[n]
           size == Len(c)
           a == Putter(size, limit)
           q == xdr_to_msg(t, v, limit)
<1>1. size \in Nat /\ size % 4 = 0 /\ size # Unsized /\ c \in Seq(Octet)
  BY DEF IsBytes, Unsized
<1>2. << >> \in Seq(Octet) /\ Len(<< >>) = 0 /\ 0 % 4 = 0
  BY EmptySeq
<1>3. q = SaveFirst(t, n, v, a)
  BY <1>1 DEF xdr_to_msg, ToBuffer
<1>4. a.limit = limit /\ a.end = size /\ a.err = "none" /\ a.out = << >>
  BY DEF Putter
<1> HIDE DEF size
<1>5. PutsWords(a) /\ ~Failed(a)
  BY <1>1, <1>2, Fresh
<1>6. ReadyPut(a, size)
  <2>1. Len(a.out) + size <= a.end
    BY <1>1, <1>2, <1>4
  <2> QED
    BY <1>5, <2>1 DEF ReadyPut
<1> HIDE DEF a, q
<1>7. PutDone(a, q, c, All(K, n))
  BY <1>3, <1>6, FirstPuts DEF size
<1>8. CASE limit \in All(K, n)
  <2>1. q = Out(a, c)
    BY <1>4, <1>7, <1>8 DEF PutDone
  <2>2. a \in Putters
    BY <1>5 DEF PutsWords
  <2>3. << >> \o c = c
    BY <1>1, ConcatEmptySeq
  <2> HIDE DEF c
  <2>4. q.out = c /\ q.err = "none"
    BY <1>4, <2>1, <2>2, <2>3 DEF Out, Putters
  <2> QED
    BY <1>8, <2>4 DEF Marshaled, Failed, q, c
<1>9. CASE limit \notin All(K, n)
  BY <1>4, <1>7, <1>9 DEF PutDone, Marshaled, q
<1> QED
  BY <1>8, <1>9

LEMMA DoneFails ==
  ASSUME NEW r, r = Gives(r.v, r.a), Failed(r.a)
  PROVE  done(r).a = r.a
<1> DEFINE m == "message size"
<1>1. Raise(r.a, m) = r.a
  BY DEF Raise, Failed
<1>2. CASE r.a.at = Len(r.a.in)
  BY <1>2 DEF done
<1>3. CASE r.a.at # Len(r.a.in)
  <2>1. done(r) = [r EXCEPT !.a = Raise(r.a, m)]
    BY <1>3 DEF done
  <2>2. done(r) = [r EXCEPT !.a = r.a]
    BY <1>1, <2>1
  <2> DEFINE x == r.v
             a == r.a
  <2>3. r = Gives(x, a) /\ done(r) = [r EXCEPT !.a = a]
    BY <2>2
  <2> HIDE DEF x, a
  <2>4. done(r) = Gives(x, a)
    BY <2>3 DEF Gives
  <2>5. done(r).a = a
    BY <2>4, GivesIs
  <2> QED
    BY <2>5 DEF a
<1> QED
  BY <1>2, <1>3

LEMMA FreshGetter ==
  ASSUME NEW c \in Seq(Octet), Len(c) % 4 = 0, NEW limit \in Nat
  PROVE  /\ GetsWords(Getter(c, limit)) /\ ~Failed(Getter(c, limit))
         /\ Getter(c, limit).in = c /\ Getter(c, limit).at = 0
<1>1. 0 \in Nat /\ 0 % 4 = 0
  OBVIOUS
<1>2. /\ PutsWords(Putter(0, limit)) /\ ~Failed(Putter(0, limit))
      /\ Putter(0, limit).out = << >>
      /\ GetsWords(Getter(c, limit)) /\ ~Failed(Getter(c, limit))
      /\ Getter(c, limit).in = c /\ Getter(c, limit).at = 0 /\ Getter(c, limit).past = FALSE
  BY <1>1, Fresh
<1> QED
  BY <1>2

LEMMA RootGets ==
  ASSUME RecursiveTypes, RecursiveArchives, UsesObjects, NEW t \in Roots, NEW v \in Objects[t],
         NEW n \in Nat, n = Len(v), NEW b, NEW K, PartsCoded(t, v, b, K), NEW F, Joined(F, b, n),
         NEW c, c = F[n], IsBytes(c), Len(c) \in Nat, NEW x \in Objects[t], NEW limit \in Nat
  PROVE  Unmarshaled(xdr_from_msg(t, x, c, limit), v, PartsValid(t, v), limit \in All(K, n))
<1> DEFINE a == Getter(c, limit)
           l == LoadFirst(t, n, x, a)
           r == xdr_from_msg(t, x, c, limit)
           M == All(K, n)
<1>1. t \in Type /\ HasParts(t) /\ Kind(t) \notin Variable /\ Kind(t) \in Record
  BY RootsAre DEF Record
<1>2. Counts(t, n) /\ Len(x) = n /\ Len(x) <= n
  <2>1. Counts(t, Len(x)) /\ Counts(t, Len(v))
    BY <1>1, ObjectParts
  <2> QED
    BY <1>1, <2>1 DEF Counts
<1>3. c \in Seq(Octet) /\ Len(c) % 4 = 0
  BY DEF IsBytes
<1>4. r = done(l)
  BY <1>2, <1>3 DEF xdr_from_msg
<1>5. GetsWords(a) /\ ~Failed(a) /\ a.in = c /\ a.at = 0
  BY <1>3, FreshGetter
<1>6. a.limit = limit
  BY DEF Getter
<1> HIDE DEF a, r
<1>7. ReadyGet(a, c)
  <2>1. a.at + Len(c) <= Len(a.in)
    BY <1>5
  <2>2. ASSUME NEW k \in 1..Len(c)
        PROVE  a.in[a.at + k] = c[k]
    <3>1. a.at + k = k
      BY <1>5
    <3> QED
      BY <1>5, <3>1
  <2> QED
    BY <1>5, <2>1, <2>2 DEF ReadyGet, Shows
<1>8. GetDone(PartsValid(t, v), v, a, l, c, M)
  BY <1>1, <1>2, <1>7, FirstGets
<1>9. l = Gives(l.v, l.a)
  <2>1. ReadyGet(a, << >>)
    BY <1>7, ShowsNone
  <2> QED
    BY <1>1, <1>2, <2>1, LoadFirstGives
<1> HIDE DEF l, M
<1>10. Failed(l.a) => r.a = l.a
  BY <1>4, <1>9, DoneFails
<1>11. ASSUME PartsValid(t, v), limit \in M
       PROVE  ~Failed(r.a) /\ r.v = v
  <2> DEFINE z == Skip(a, Len(c))
  <2>1. l = Gives(v, z)
    BY <1>6, <1>8, <1>11 DEF GetDone
  <2>2. z.at = Len(c) /\ z.in = c /\ z.err = "none"
    BY <1>5 DEF Skip, GetsWords, Getters, Failed
  <2> HIDE DEF z
  <2>3. l.v = v /\ l.a = z
    BY <2>1, GivesIs
  <2>4. r = l
    BY <1>4, <2>2, <2>3 DEF done
  <2> QED
    BY <2>2, <2>3, <2>4 DEF Failed
<1>12. ASSUME PartsValid(t, v), limit \notin M
       PROVE  r.a.err = "stack"
  <2>1. l.a.err = "stack"
    BY <1>6, <1>8, <1>12 DEF GetDone
  <2> QED
    BY <1>10, <2>1 DEF Failed
<1>13. ASSUME ~PartsValid(t, v), limit \in M
       PROVE  Failed(r.a)
  <2>1. Failed(l.a)
    BY <1>6, <1>8, <1>13 DEF GetDone
  <2> QED
    BY <1>10, <2>1
<1> QED
  BY <1>11, <1>12, <1>13 DEF Unmarshaled, r, M

LEMMA MessageOfParts ==
  ASSUME RecursiveTypes, RecursiveValues, RecursiveArchives, UsesObjects,
         NEW t \in Roots, NEW v \in Objects[t], NEW n \in Nat, n = Len(v),
         NEW b, NEW K, CodedParts(t, v, b, K), NEW F, Joined(F, b, n)
  PROVE  /\ IsMessage(t, v, F[n], All(K, n)) /\ Enough(All(K, n))
         /\ IsCode(t, v, F[n], Entering(All(K, n)))
<1>1. t \in Type /\ HasParts(t) /\ Kind(t) \notin {"vector", "pointer"}
  BY RootsAre
<1>2. PartsCoded(t, v, b, K) /\ \A i \in 1..n : K[i] \subseteq Nat /\ Enough(K[i])
  BY DEF CodedParts, PartsCoded, IsCode
<1>3. /\ IsBytes(F[n]) /\ Len(F[n]) \in Nat /\ All(K, n) \subseteq Nat
      /\ SerialSize(t, v) = IF Kind(t) \in {"vector", "pointer"} THEN 4 + Len(F[n]) ELSE Len(F[n])
  BY <1>1, <1>2, PartsSize
<1>4. xdr_argpack_size(t, v) = Len(F[n])
  BY <1>1, <1>3, ArgpackSize
<1>5. \A limit \in Nat : Marshaled(xdr_to_msg(t, v, limit), F[n], limit \in All(K, n))
  BY <1>2, <1>3, <1>4, RootPuts
<1>6. \A limit \in Nat : Within(t, v, limit) <=> limit \in All(K, n)
  BY <1>2, FieldsWithin
<1> DEFINE c == F[n]
           M == All(K, n)
<1>7. Enough(M)
  BY <1>2, EnoughAll
<1>8. IsCode(t, v, F[n], Entering(M))
  <2>1. Kind(t) \in Nested /\ (Kind(t) = "array" \/ Kind(t) \in Record)
    BY <1>1, Kinds DEF HasParts, Container
  <2>2. InLevel(t, v, F[n], M)
    BY <1>1, <1>2, <2>1, PlainLevel
  <2> QED
    BY <1>1, <2>1, <2>2, LevelIsCode
<1> HIDE DEF c, M
<1>9. Goes(t, v, c, M)
  BY <1>5, <1>6, Zenon DEF Goes, c, M
<1>10. Comes(t, v, c, M)
  <2> SUFFICES ASSUME NEW x \in Objects[t], NEW limit \in Nat
               PROVE  Unmarshaled(xdr_from_msg(t, x, c, limit), v, PartsValid(t, v), limit \in M)
    BY DEF Comes
  <2>1. c = F[n] /\ IsBytes(c) /\ Len(c) \in Nat
    BY <1>3 DEF c
  <2> QED
    BY <1>2, <2>1, RootGets DEF M
<1>11. IsMessage(t, v, c, M)
  BY <1>3, <1>4, <1>9, <1>10 DEF IsMessage, c, M
<1> QED
  BY <1>7, <1>8, <1>11 DEF c, M

LEMMA MessagesExist ==
  ASSUME RecursiveTypes, RecursiveValues, RecursiveArchives, UsesObjects,
         NEW t \in Roots, NEW v \in Objects[t], SerialSize(t, v) # Unsized
  PROVE  \E c, M : IsMessage(t, v, c, M) /\ Enough(M) /\ IsCode(t, v, c, Entering(M))
<1> DEFINE n == Len(v)
<1>1. t \in Type /\ HasParts(t)
  BY RootsAre
<1>2. n \in Nat /\ \A i \in 1..n : Component(t, i) \in Type /\ v[i] \in Objects[Component(t, i)]
  BY <1>1, ObjectParts
<1>3. \A i \in 1..n : HasCode(Component(t, i), v[i])
  BY <1>1, <1>2, PartsSized, CodesExist
<1>4. PICK b, K : CodedParts(t, v, b, K)
  BY <1>3, PartsHaveCodes
<1>5. PICK F : Joined(F, b, n)
  BY <1>2, JoinRuns
<1> HIDE DEF n
<1>6. n \in Nat /\ n = Len(v)
  BY <1>2 DEF n
<1>7. /\ IsMessage(t, v, F[n], All(K, n)) /\ Enough(All(K, n))
      /\ IsCode(t, v, F[n], Entering(All(K, n)))
  BY <1>4, <1>5, <1>6, MessageOfParts
<1> QED
  BY <1>7, Zenon

----------------------------------------------------------------------------
\* The size of a value that its type allows can be told.
LEMMA ValidSized ==
  ASSUME RecursiveTypes, RecursiveValues, RecursiveArchives
  PROVE  \A t \in Type : \A v \in Objects[t] : IsValid(t, v) => SerialSize(t, v) # Unsized
<1> DEFINE P == [t \in Type |-> {v \in Objects[t] : IsValid(t, v) => SerialSize(t, v) # Unsized}]
<1>1. ASSUME NEW t \in Type, NEW v \in Objects[t], PartsIn(P, t, v), IsValid(t, v)
      PROVE  SerialSize(t, v) # Unsized
  <2>1. CASE Kind(t) \in Leaf
    <3> DEFINE b == LeafBytes(t, v)
    <3>1. IsCode(t, v, b, Nat)
      BY <2>1, LeafIsCode
    <3> HIDE DEF b
    <3>2. Len(b) \in Nat /\ Len(b) = SerialSize(t, v)
      BY <3>1, LenProperties DEF IsCode, IsBytes
    <3> QED
      BY <3>2 DEF Unsized
  <2>2. CASE HasParts(t)
    <3> DEFINE n == Len(v)
    <3>1. n \in Nat /\ \A i \in 1..n : Component(t, i) \in Type /\ v[i] \in P[Component(t, i)]
      BY <1>1, <2>2, ObjectParts DEF PartsIn
    <3>2. \A i \in 1..n : IsValid(Component(t, i), v[i])
      BY <1>1, <2>2, ValidParts DEF PartsValid
    <3>3. \A i \in 1..n : /\ v[i] \in Objects[Component(t, i)]
                          /\ SerialSize(Component(t, i), v[i]) # Unsized
      BY <3>1, <3>2
    <3> HIDE DEF P
    <3>4. \A i \in 1..n : HasCode(Component(t, i), v[i])
      BY <3>1, <3>3, CodesExist
    <3>5. PICK b, K : CodedParts(t, v, b, K)
      BY <3>4, PartsHaveCodes
    <3> HIDE DEF n
    <3>6. n \in Nat /\ n = Len(v)
      BY <3>1 DEF n
    <3>7. PICK F : Joined(F, b, n)
      BY <3>6, JoinRuns
    <3>8. Len(F[n]) \in Nat /\ SerialSize(t, v) = IF Kind(t) \in {"vector", "pointer"}
                                                  THEN 4 + Len(F[n]) ELSE Len(F[n])
      BY <2>2, <3>5, <3>6, <3>7, PartsSize DEF CodedParts
    <3>9. SerialSize(t, v) \in Nat
      BY <3>8
    <3> QED
      BY <3>9 DEF Unsized
  <2>3. CASE Kind(t) = "union"
    <3> DEFINE w == Disc(v)
    <3>1. FieldNo(t, w) \in {0, NoField} \/ Selects(t, w)
      BY <2>3, FieldsAre
    <3>2. FieldNo(t, w) # NoField
      BY <1>1, <2>3, ValidUnion
    <3>3. CASE FieldNo(t, w) = 0
      <4>1. SerialSize(t, v) = 4
        BY <2>3, <3>3, SizeOfUnion
      <4> QED
        BY <4>1 DEF Unsized
    <3>4. CASE Selects(t, w)
      <4> DEFINE e == ArmOf(t, v)
                 k == SerialSize(e, Member(v))
      <4>1. e \in Type /\ Member(v) \in P[e]
        BY <1>1, <2>3, <3>4, ObjectMember DEF PartsIn
      <4>2. IsValid(e, Member(v))
        BY <1>1, <2>3, <3>4, ValidUnion
      <4>3. k # Unsized /\ Member(v) \in Objects[e]
        BY <4>1, <4>2
      <4>4. k \in Nat \cup {Unsized}
        BY <4>1, <4>3, SizeIsNat
      <4>5. SerialSize(t, v) = Total(<<4, k>>)
        BY <2>3, <3>4, SizeOfUnion
      <4> HIDE DEF k
      <4>6. Total(<<4, k>>) = 4 + k /\ k \in Nat
        BY <4>3, <4>4, TotalOfTwo
      <4>7. SerialSize(t, v) \in Nat
        BY <4>5, <4>6
      <4> QED
        BY <4>7 DEF Unsized
    <3> QED
      BY <3>1, <3>2, <3>3, <3>4
  <2> QED
    BY <2>1, <2>2, <2>3, Kinds
<1>2. ASSUME NEW t \in Type, NEW v \in Objects[t], PartsIn(P, t, v)
      PROVE  v \in P[t]
  BY <1>1, <1>2
<1> HIDE DEF P
<1>3. \A t \in Type : \A v \in Objects[t] : v \in P[t]
  BY <1>2, ByParts
<1> QED
  BY <1>3 DEF P

----------------------------------------------------------------------------
(***************************************************************************)
(* What the messages say of the program's objects.                         *)
(***************************************************************************)
LEMMA ObjectsAreRoots ==
  ASSUME Recursive, UsesObjects, HoldValues, NEW o \in Object
  PROVE  /\ RecursiveTypes /\ RecursiveValues /\ RecursiveArchives /\ Unlimited \in Nat
         /\ root \in Roots /\ root \in Type /\ obj[o] \in Objects[root]
         /\ 3 - o \in Object /\ obj[3 - o] \in Objects[root]
         /\ Types[root].refuse = {}
         /\ IsValid(root, obj[o]) <=> PartsValid(root, obj[o])
<1>1. root \in Roots /\ obj[o] \in Objects[root]
  BY DEF HoldValues
<1>2. 3 - o \in Object
  BY DEF Object
<1>3. obj[3 - o] \in Objects[root]
  BY <1>2 DEF HoldValues
<1>4. Unlimited \in Nat
  BY XdrObjectsAssumption, SMT DEF Unlimited
<1>5. root \in Type /\ HasParts(root) /\ Kind(root) \notin Variable /\ Types[root].refuse = {}
  BY <1>1, RootsAre, XdrObjectsAssumption
<1>6. IsValid(root, obj[o]) <=> PartsValid(root, obj[o])
  BY <1>1, <1>5, ValidParts DEF Recursive
<1> QED
  BY <1>1, <1>2, <1>3, <1>4, <1>5, <1>6 DEF Recursive

\* A value whose size cannot be told does not become a message.
LEMMA UnsizedFails ==
  ASSUME Recursive, UsesObjects, HoldValues, NEW o \in Object,
         SerialSize(root, obj[o]) = Unsized
  PROVE  Encoding(obj[o]).err = "discriminant"
<1>1. root \in Roots /\ obj[o] \in Objects[root]
  BY DEF HoldValues
<1>2. xdr_argpack_size(root, obj[o]) = Unsized
  BY <1>1, ArgpackSize DEF Recursive
<1>3. Encoding(obj[o]) = Raise(Putter(0, Unlimited), "discriminant")
  BY <1>2 DEF Encoding, xdr_to_msg, ToBuffer
<1> QED
  BY <1>3, Zenon DEF Raise, Putter

(***************************************************************************)
(* SizeExact: for any types and any object, valid or not, xdr_size is the  *)
(* number of bytes that xdr_to_msg puts, and its buffer is never too small *)
(* for them (marshal.h:258, xdr_argpack_size).                             *)
(***************************************************************************)
THEOREM SizesExact ==
  ASSUME Recursive, UsesObjects
  PROVE  ObjSpec => []SizeExact
<1>1. HoldValues => SizeExact
  <2> SUFFICES ASSUME HoldValues, NEW o \in Object
               PROVE  LET e == Encoding(obj[o]) IN
                      /\ ~Failed(e) => Len(e.out) = xdr_argpack_size(root, obj[o])
                      /\ e.err # "overflow"
    BY DEF SizeExact
  <2> DEFINE e == Encoding(obj[o])
  <2>1. CASE SerialSize(root, obj[o]) = Unsized
    <3>1. e.err = "discriminant"
      BY <2>1, UnsizedFails
    <3> HIDE DEF e
    <3>2. Failed(e) /\ e.err # "overflow"
      BY <3>1 DEF Failed
    <3> QED
      BY <3>2 DEF e
  <2>2. CASE SerialSize(root, obj[o]) # Unsized
    <3>1. PICK c, M : IsMessage(root, obj[o], c, M)
      BY <2>2, ObjectsAreRoots, MessagesExist
    <3>2. Marshaled(e, c, Unlimited \in M) /\ Len(c) = xdr_argpack_size(root, obj[o])
      BY <3>1, ObjectsAreRoots DEF IsMessage, Goes, Encoding
    <3> HIDE DEF e
    <3>3. (~Failed(e) /\ e.out = c) \/ e.err = "stack"
      BY <3>2, Zenon DEF Marshaled
    <3>4. (~Failed(e) => e.out = c) /\ e.err # "overflow"
      BY <3>3 DEF Failed
    <3> QED
      BY <3>2, <3>4 DEF e
  <2> QED
    BY <2>1, <2>2
<1>2. ~Usable => SizeExact
  BY Zenon DEF SizeExact
<1>3. ObjInv => SizeExact
  BY <1>1, <1>2 DEF ObjInv
<1> QED
  BY <1>3, ObjectsHold, PTL

(***************************************************************************)
(* DepthAgrees: for any types and any limit, check_xdr_depth says yes just *)
(* when neither xdr_to_msg nor xdr_from_msg throws xdr_stack_overflow with *)
(* that limit (depth_checker.h:50, marshal.h:130).                         *)
(***************************************************************************)
THEOREM DepthsAgree ==
  ASSUME Recursive, UsesObjects
  PROVE  ObjSpec => []DepthAgrees
<1>1. HoldValues => DepthAgrees
  <2> SUFFICES ASSUME HoldValues, ~Failed(Encoding(obj[1])), NEW limit \in 0..StackLimit
               PROVE  LET within == \A i \in DOMAIN Fields :
                                      check_xdr_depth(Fields[i], obj[1][i], limit).within
                      IN  /\ within <=> xdr_to_msg(root, obj[1], limit).err # "stack"
                          /\ IsValid(root, obj[1]) =>
                               (within <=> xdr_from_msg(root, obj[2], Encoding(obj[1]).out, limit).a.err
                                             # "stack")
    BY DEF DepthAgrees
  <2> DEFINE e == Encoding(obj[1])
             p == xdr_to_msg(root, obj[1], limit)
             r == xdr_from_msg(root, obj[2], e.out, limit)
  <2>1. 1 \in Object /\ 2 = 3 - 1 /\ limit \in Nat
    BY XdrObjectsAssumption DEF Object
  <2>2. /\ RecursiveTypes /\ RecursiveValues /\ RecursiveArchives /\ Unlimited \in Nat
        /\ root \in Roots /\ obj[1] \in Objects[root] /\ obj[2] \in Objects[root]
        /\ IsValid(root, obj[1]) => PartsValid(root, obj[1])
    BY <2>1, ObjectsAreRoots
  <2>3. SerialSize(root, obj[1]) # Unsized
    BY <2>1, UnsizedFails DEF Failed
  <2>4. PICK c, M : IsMessage(root, obj[1], c, M)
    BY <2>2, <2>3, MessagesExist
  <2>5. Marshaled(e, c, Unlimited \in M)
    BY <2>2, <2>4 DEF IsMessage, Goes, Encoding
  <2>6. Marshaled(p, c, limit \in M) /\ (Within(root, obj[1], limit) <=> limit \in M)
    BY <2>1, <2>4 DEF IsMessage, Goes
  <2>7. Unmarshaled(xdr_from_msg(root, obj[2], c, limit), obj[1], PartsValid(root, obj[1]), limit \in M)
    BY <2>1, <2>2, <2>4 DEF IsMessage, Comes
  <2>8. Within(root, obj[1], limit) <=>
          \A i \in DOMAIN Fields : check_xdr_depth(Fields[i], obj[1][i], limit).within
    BY Zenon DEF Within, Fields
  <2>9. ~Failed(e)
    OBVIOUS
  <2> HIDE DEF e, p
  <2>10. e.out = c
    BY <2>5, <2>9 DEF Marshaled, Failed
  <2>11. limit \in M <=> p.err # "stack"
    BY <2>6 DEF Marshaled, Failed
  <2>12. Unmarshaled(r, obj[1], PartsValid(root, obj[1]), limit \in M)
    BY <2>7, <2>10
  <2> HIDE DEF r
  <2>13. PartsValid(root, obj[1]) => (limit \in M <=> r.a.err # "stack")
    BY <2>12 DEF Unmarshaled, Failed
  <2> QED
    BY <2>2, <2>6, <2>8, <2>11, <2>13 DEF e, p, r
<1>2. ~Usable => DepthAgrees
  BY Zenon DEF DepthAgrees
<1>3. ObjInv => DepthAgrees
  BY <1>1, <1>2 DEF ObjInv
<1> QED
  BY <1>3, ObjectsHold, PTL

\* Neither object is nested deeper than any message may be.
LevelsSuffice == \A o \in Object : Within(root, obj[o], Unlimited)

(***************************************************************************)
(* RoundTrip, for any types, as long as the objects are not nested deeper  *)
(* than the limit the messages are made with: a value its type allows      *)
(* comes back out of its message, whatever the object held that it is read *)
(* into, and any other value is refused by xdr_to_msg or by xdr_from_msg   *)
(* (marshal.h:240-280, types.h, load and save).                            *)
(***************************************************************************)
THEOREM ValuesComeBack ==
  ASSUME Recursive, UsesObjects
  PROVE  ObjSpec => [](LevelsSuffice => RoundTrip)
<1>1. HoldValues => (LevelsSuffice => RoundTrip)
  <2> SUFFICES ASSUME HoldValues, LevelsSuffice, NEW o \in Object
               PROVE  LET e == Encoding(obj[o]) IN
                      ComesBack(obj[o], e, xdr_from_msg(root, obj[3 - o], e.out, Unlimited))
    BY DEF RoundTrip
  <2> DEFINE e == Encoding(obj[o])
             r == xdr_from_msg(root, obj[3 - o], e.out, Unlimited)
  <2>1. /\ RecursiveTypes /\ RecursiveValues /\ RecursiveArchives /\ Unlimited \in Nat
        /\ root \in Roots /\ root \in Type
        /\ obj[o] \in Objects[root] /\ obj[3 - o] \in Objects[root]
        /\ IsValid(root, obj[o]) <=> PartsValid(root, obj[o])
    BY ObjectsAreRoots
  <2>2. CASE SerialSize(root, obj[o]) = Unsized
    <3>1. e.err = "discriminant"
      BY <2>2, UnsizedFails
    <3>2. ~IsValid(root, obj[o])
      BY <2>1, <2>2, ValidSized
    <3> HIDE DEF e, r
    <3>3. ComesBack(obj[o], e, r)
      BY <3>1, <3>2 DEF ComesBack, Failed
    <3> QED
      BY <3>3 DEF e, r
  <2>3. CASE SerialSize(root, obj[o]) # Unsized
    <3>1. PICK c, M : IsMessage(root, obj[o], c, M)
      BY <2>1, <2>3, MessagesExist
    <3>2. Marshaled(e, c, Unlimited \in M) /\ (Within(root, obj[o], Unlimited) <=> Unlimited \in M)
      BY <2>1, <3>1 DEF IsMessage, Goes, Encoding
    <3>3. Unlimited \in M
      BY <3>2 DEF LevelsSuffice
    <3>4. Unmarshaled(xdr_from_msg(root, obj[3 - o], c, Unlimited), obj[o],
                      PartsValid(root, obj[o]), Unlimited \in M)
      BY <2>1, <3>1 DEF IsMessage, Comes
    <3> HIDE DEF e
    <3>5. ~Failed(e) /\ e.out = c
      BY <3>2, <3>3, Zenon DEF Marshaled
    <3>6. Unmarshaled(r, obj[o], PartsValid(root, obj[o]), Unlimited \in M)
      BY <3>4, <3>5
    <3> HIDE DEF r
    <3>7. ComesBack(obj[o], e, r)
      BY <2>1, <3>3, <3>5, <3>6 DEF Unmarshaled, ComesBack
    <3> QED
      BY <3>7 DEF e, r
  <2> QED
    BY <2>2, <2>3
<1>2. ~Usable => RoundTrip
  BY Zenon DEF RoundTrip
<1>3. ObjInv => (LevelsSuffice => RoundTrip)
  BY <1>1, <1>2 DEF ObjInv
<1> QED
  BY <1>3, ObjectsHold, PTL

----------------------------------------------------------------------------
(***************************************************************************)
(* The order of two sequences by the signs of their components.            *)
(***************************************************************************)
Signs == {-1, 0, 1}

LEMMA SignIs ==
  ASSUME NEW n \in Int
  PROVE  /\ Sign(n) \in Signs /\ (Sign(n) = 0 <=> n = 0) /\ (Sign(n) <= 0 <=> n <= 0)
         /\ (Sign(n) = -1 <=> n < 0)
         /\ Sign(-n) = -Sign(n)
BY DEF Sign, Signs

\* The first k for which f is not 0.
FirstAt(f, m, k) == k \in 1..m /\ f[k] # 0 /\ \A j \in 1..m : f[j] # 0 => k <= j

LEMMA FirstExists ==
  ASSUME NEW m \in Nat, NEW f, NEW i \in 1..m, f[i] # 0
  PROVE  \E k : FirstAt(f, m, k)
<1> DEFINE T == {n \in Nat : \A j \in 1..m : j <= n => f[j] = 0}
<1>1. SUFFICES ASSUME ~ \E k : FirstAt(f, m, k)
               PROVE  FALSE
  OBVIOUS
<1>2. 0 \in T
  OBVIOUS
<1>3. ASSUME NEW n \in Nat, n \in T
      PROVE  n + 1 \in T
  <2>1. \A j \in 1..m : j <= n => f[j] = 0
    BY <1>3
  <2>2. ASSUME n + 1 \in 1..m, f[n + 1] # 0
        PROVE  FirstAt(f, m, n + 1)
    <3>1. \A j \in 1..m : f[j] # 0 => n + 1 <= j
      BY <2>1
    <3> QED
      BY <2>2, <3>1 DEF FirstAt
  <2>3. n + 1 \in 1..m => f[n + 1] = 0
    BY <1>1, <2>2
  <2>4. ASSUME NEW j \in 1..m, j <= n + 1
        PROVE  f[j] = 0
    <3>1. j <= n \/ j = n + 1
      BY <2>4
    <3> QED
      BY <2>1, <2>3, <3>1
  <2> QED
    BY <2>4
<1> HIDE DEF T
<1>4. Nat \subseteq T
  BY <1>2, <1>3, EveryNat
<1>5. i \in T
  BY <1>4
<1> QED
  BY <1>5 DEF T

LEMMA FirstIsUnique ==
  ASSUME NEW m \in Nat, NEW f, NEW k, FirstAt(f, m, k), NEW l, FirstAt(f, m, l)
  PROVE  k = l
<1>1. k \in Nat /\ l \in Nat /\ k <= l /\ l <= k
  BY DEF FirstAt
<1> QED
  BY <1>1

LEMMA LexicographicIs ==
  ASSUME NEW m \in Nat, NEW f, DOMAIN f = 1..m, NEW e
  PROVE  /\ (\A j \in 1..m : f[j] = 0) => Lexicographic(f, e) = Sign(e)
         /\ \A k : FirstAt(f, m, k) => Lexicographic(f, e) = f[k]
<1>1. ASSUME \A j \in 1..m : f[j] = 0
      PROVE  Lexicographic(f, e) = Sign(e)
  <2>1. Differ(f) = {}
    BY <1>1 DEF Differ
  <2> QED
    BY <2>1 DEF Lexicographic
<1>2. ASSUME NEW k, FirstAt(f, m, k)
      PROVE  Lexicographic(f, e) = f[k]
  <2> DEFINE Least(i) == i \in Differ(f) /\ \A j \in Differ(f) : i <= j
             l == CHOOSE i \in Differ(f) : \A j \in Differ(f) : i <= j
  <2>1. k \in Differ(f) /\ \A j \in Differ(f) : k <= j
    BY <1>2 DEF FirstAt, Differ
  <2>2. l \in Differ(f) /\ \A j \in Differ(f) : l <= j
    BY <2>1, Zenon
  <2> HIDE DEF l
  <2>3. FirstAt(f, m, l)
    BY <2>2 DEF FirstAt, Differ
  <2>4. l = k
    BY <1>2, <2>3, FirstIsUnique
  <2>5. Differ(f) # {}
    BY <2>1
  <2>6. Lexicographic(f, e) = f[l]
    BY <2>5, Zenon DEF Lexicographic, l
  <2> QED
    BY <2>4, <2>6
<1> QED
  BY <1>1, <1>2

\* f has the sign of every pair of components.
Tells(f, a, b) ==
  /\ Tuple(a) /\ Tuple(b) /\ DOMAIN f = Common(a, b)
  /\ \A i \in Common(a, b) : f[i] \in Signs /\ (f[i] = 0 <=> a[i] = b[i])
Lex(f, a, b) == Lexicographic(f, Len(a) - Len(b))

LEMMA CommonIs ==
  ASSUME NEW a, NEW b, Tuple(a), Tuple(b)
  PROVE  \E m \in Nat : /\ Common(a, b) = 1..m /\ m <= Len(a) /\ m <= Len(b)
                        /\ m = Len(a) \/ m = Len(b)
<1>1. /\ Len(a) \in Nat /\ Len(b) \in Nat
      /\ DOMAIN a = 1..Len(a) /\ DOMAIN b = 1..Len(b)
  BY DEF Tuple
<1> DEFINE m == IF Len(a) <= Len(b) THEN Len(a) ELSE Len(b)
<1>2. (1..Len(a)) \cap (1..Len(b)) = 1..m
  BY <1>1
<1>3. Common(a, b) = 1..m
  BY <1>1, <1>2 DEF Common
<1>4. m \in Nat /\ m <= Len(a) /\ m <= Len(b) /\ (m = Len(a) \/ m = Len(b))
  BY <1>1
<1> QED
  BY <1>3, <1>4

\* Where two sequences differ: the place, or the end of the shorter one.
DiffersAt(a, b, k) == k \in Common(a, b) /\ a[k] # b[k] /\ \A j \in Common(a, b) : a[j] # b[j] => k <= j
Agree(a, b) == \A j \in Common(a, b) : a[j] = b[j]

LEMMA LexIs ==
  ASSUME NEW a, NEW b, NEW f, Tells(f, a, b)
  PROVE  /\ Agree(a, b) => Lex(f, a, b) = Sign(Len(a) - Len(b))
         /\ \A k : DiffersAt(a, b, k) => Lex(f, a, b) = f[k] /\ f[k] \in {-1, 1}
         /\ Agree(a, b) \/ \E k : DiffersAt(a, b, k)
<1>0. Tuple(a) /\ Tuple(b) /\ Len(a) \in Nat /\ Len(b) \in Nat
  BY DEF Tells, Tuple
<1>1. PICK m \in Nat : Common(a, b) = 1..m
  BY <1>0, CommonIs
<1>2. /\ DOMAIN f = 1..m
      /\ \A i \in 1..m : f[i] \in Signs /\ (f[i] = 0 <=> a[i] = b[i])
  BY <1>1 DEF Tells
<1> DEFINE e == Len(a) - Len(b)
<1> HIDE DEF e
<1>3. /\ (\A j \in 1..m : f[j] = 0) => Lexicographic(f, e) = Sign(e)
      /\ \A k : FirstAt(f, m, k) => Lexicographic(f, e) = f[k]
  BY <1>2, LexicographicIs
<1>4. \A k : DiffersAt(a, b, k) <=> FirstAt(f, m, k)
  BY <1>1, <1>2 DEF DiffersAt, FirstAt
<1>5. Agree(a, b) <=> \A j \in 1..m : f[j] = 0
  BY <1>1, <1>2 DEF Agree
<1>6. ASSUME ~Agree(a, b)
      PROVE  \E k : DiffersAt(a, b, k)
  <2>1. PICK i \in 1..m : f[i] # 0
    BY <1>5, <1>6
  <2>2. \E k : FirstAt(f, m, k)
    BY <2>1, FirstExists
  <2> QED
    BY <1>4, <2>2
<1>7. ASSUME NEW k, DiffersAt(a, b, k)
      PROVE  Lexicographic(f, e) = f[k] /\ f[k] \in {-1, 1}
  <2>1. FirstAt(f, m, k)
    BY <1>4, <1>7
  <2>2. f[k] \in Signs /\ f[k] # 0
    BY <1>2, <2>1 DEF FirstAt
  <2> QED
    BY <1>3, <2>1, <2>2 DEF Signs
<1>8. Lex(f, a, b) = Lexicographic(f, e)
  BY DEF Lex, e
<1>9. Agree(a, b) => Lexicographic(f, e) = Sign(e)
  BY <1>3, <1>5
<1> QED
  BY <1>6, <1>7, <1>8, <1>9 DEF e

LEMMA LexSigns ==
  ASSUME NEW a, NEW b, NEW f, Tells(f, a, b)
  PROVE  Lex(f, a, b) \in Signs /\ (Lex(f, a, b) = 0 <=> a = b)
<1>1. Tuple(a) /\ Tuple(b) /\ Len(a) \in Nat /\ Len(b) \in Nat
  BY DEF Tells, Tuple
<1>2. CASE Agree(a, b)
  <2> DEFINE e == Len(a) - Len(b)
  <2>1. Lex(f, a, b) = Sign(e)
    BY <1>2, LexIs
  <2>2. e \in Int
    BY <1>1
  <2>3. Sign(e) \in Signs /\ (Sign(e) = 0 <=> e = 0)
    <3> HIDE DEF e
    <3> QED
      BY <2>2, SignIs
  <2>4. ASSUME e = 0
        PROVE  a = b
    <3>1. Len(a) = Len(b)
      BY <1>1, <2>4
    <3>2. Common(a, b) = 1..Len(a)
      BY <1>1, <3>1 DEF Common, Tuple
    <3>3. \A i \in 1..Len(a) : a[i] = b[i]
      BY <1>2, <3>2 DEF Agree
    <3> QED
      BY <1>1, <3>1, <3>3, TuplesEqual
  <2>5. a = b => e = 0
    BY <1>1
  <2> QED
    BY <2>1, <2>3, <2>4, <2>5
<1>3. CASE ~Agree(a, b)
  <2>1. PICK k : DiffersAt(a, b, k)
    BY <1>3, LexIs
  <2>2. Lex(f, a, b) = f[k] /\ f[k] \in {-1, 1}
    BY <2>1, LexIs
  <2>3. a # b
    BY <2>1 DEF DiffersAt
  <2> QED
    BY <2>2, <2>3 DEF Signs
<1> QED
  BY <1>2, <1>3

LEMMA LexTurns ==
  ASSUME NEW a, NEW b, NEW f, Tells(f, a, b), NEW g, Tells(g, b, a),
         \A i \in Common(a, b) : g[i] = -f[i]
  PROVE  Lex(g, b, a) = -Lex(f, a, b)
<1>1. Len(a) \in Nat /\ Len(b) \in Nat
  BY DEF Tells, Tuple
<1>2. Common(a, b) = Common(b, a)
  BY DEF Common
<1>3. CASE Agree(a, b)
  <2> DEFINE e == Len(a) - Len(b)
             d == Len(b) - Len(a)
  <2>1. Agree(b, a)
    BY <1>2, <1>3 DEF Agree
  <2>2. Lex(f, a, b) = Sign(e) /\ Lex(g, b, a) = Sign(d)
    BY <1>3, <2>1, LexIs
  <2>3. e \in Int /\ d = -e
    BY <1>1
  <2>4. Sign(-e) = -Sign(e)
    <3> HIDE DEF e
    <3> QED
      BY <2>3, SignIs
  <2> HIDE DEF d, e
  <2> QED
    BY <2>2, <2>3, <2>4
<1>4. CASE ~Agree(a, b)
  <2>1. PICK k : DiffersAt(a, b, k)
    BY <1>4, LexIs
  <2>2. DiffersAt(b, a, k) /\ k \in Common(a, b)
    BY <1>2, <2>1 DEF DiffersAt
  <2>3. Lex(f, a, b) = f[k] /\ Lex(g, b, a) = g[k]
    BY <2>1, <2>2, LexIs
  <2> QED
    BY <2>2, <2>3
<1> QED
  BY <1>3, <1>4

\* The sign is -1 or 0.
AtMost(f, a, b) ==
  \/ Agree(a, b) /\ Len(a) <= Len(b)
  \/ \E k : DiffersAt(a, b, k) /\ f[k] = -1

LEMMA LexAtMost ==
  ASSUME NEW a, NEW b, NEW f, Tells(f, a, b)
  PROVE  Lex(f, a, b) <= 0 <=> AtMost(f, a, b)
<1>1. Len(a) \in Nat /\ Len(b) \in Nat
  BY DEF Tells, Tuple
<1>2. CASE Agree(a, b)
  <2> DEFINE e == Len(a) - Len(b)
  <2>1. Lex(f, a, b) = Sign(e)
    BY <1>2, LexIs
  <2>2. e \in Int /\ (e <= 0 <=> Len(a) <= Len(b))
    BY <1>1
  <2>3. Sign(e) <= 0 <=> e <= 0
    <3> HIDE DEF e
    <3> QED
      BY <2>2, SignIs
  <2>4. ~ \E k : DiffersAt(a, b, k)
    BY <1>2 DEF DiffersAt, Agree
  <2> HIDE DEF e
  <2> QED
    BY <1>2, <2>1, <2>2, <2>3, <2>4 DEF AtMost
<1>3. CASE ~Agree(a, b)
  <2>1. PICK k : DiffersAt(a, b, k)
    BY <1>3, LexIs
  <2>2. Lex(f, a, b) = f[k] /\ f[k] \in {-1, 1}
    BY <2>1, LexIs
  <2>3. ASSUME NEW l, DiffersAt(a, b, l)
        PROVE  Lex(f, a, b) = f[l]
    BY <2>3, LexIs
  <2>4. Lex(f, a, b) <= 0 => f[k] = -1
    BY <2>2
  <2>5. AtMost(f, a, b) => Lex(f, a, b) = -1
    BY <1>3, <2>3 DEF AtMost
  <2> QED
    BY <2>1, <2>4, <2>5 DEF AtMost
<1> QED
  BY <1>2, <1>3

\* What the components' signs must have for the order to be passed on.
PassesOn(f, g, h, a, b, c) ==
  \A i \in Common(a, b) \cap Common(b, c) :
    /\ a[i] = b[i] => h[i] = g[i]
    /\ b[i] = c[i] => h[i] = f[i]
    /\ f[i] = -1 /\ g[i] = -1 => h[i] = -1

LEMMA LexPasses ==
  ASSUME NEW a, NEW b, NEW c, NEW f, Tells(f, a, b), NEW g, Tells(g, b, c), NEW h, Tells(h, a, c),
         PassesOn(f, g, h, a, b, c), AtMost(f, a, b), AtMost(g, b, c)
  PROVE  AtMost(h, a, c)
<1> DEFINE x == Len(a)
           y == Len(b)
           z == Len(c)
<1>1. /\ x \in Nat /\ y \in Nat /\ z \in Nat
      /\ DOMAIN a = 1..x /\ DOMAIN b = 1..y /\ DOMAIN c = 1..z
  BY DEF Tells, Tuple
<1> HIDE DEF x, y, z
<1>2. \A i : /\ i \in Common(a, b) <=> i \in 1..x /\ i \in 1..y
             /\ i \in Common(b, c) <=> i \in 1..y /\ i \in 1..z
             /\ i \in Common(a, c) <=> i \in 1..x /\ i \in 1..z
  BY <1>1 DEF Common
<1>3. ASSUME NEW k, k \in 1..x, k \in 1..y, k \in 1..z, h[k] = -1,
             \A j \in 1..(k - 1) : a[j] = b[j] /\ b[j] = c[j], a[k] # c[k]
      PROVE  AtMost(h, a, c)
  <2>1. k \in Nat /\ k \in Common(a, c)
    BY <1>1, <1>2, <1>3
  <2>2. ASSUME NEW j \in Common(a, c), a[j] # c[j]
        PROVE  k <= j
    <3>1. j \in 1..x /\ j \in Nat
      BY <1>1, <1>2
    <3>2. j \notin 1..(k - 1)
      BY <1>3, <2>2
    <3> QED
      BY <1>1, <2>1, <3>1, <3>2
  <2>3. DiffersAt(a, c, k)
    BY <1>3, <2>1, <2>2 DEF DiffersAt
  <2> QED
    BY <1>3, <2>3 DEF AtMost
<1>4. ASSUME Agree(a, b), Agree(b, c), x <= y, y <= z
      PROVE  AtMost(h, a, c)
  <2>1. ASSUME NEW j \in Common(a, c)
        PROVE  a[j] = c[j]
    <3>1. j \in Common(a, b) /\ j \in Common(b, c)
      BY <1>1, <1>2, <1>4
    <3> QED
      BY <1>4, <3>1 DEF Agree
  <2>2. x <= z
    BY <1>1, <1>4
  <2> QED
    BY <2>1, <2>2 DEF AtMost, Agree, x, z
<1>5. ASSUME Agree(a, b), x <= y, NEW k, DiffersAt(b, c, k), g[k] = -1
      PROVE  AtMost(h, a, c)
  <2>1. k \in 1..y /\ k \in 1..z /\ k \in Nat /\ b[k] # c[k]
    BY <1>1, <1>2, <1>5 DEF DiffersAt
  <2>2. \A j \in 1..x : a[j] = b[j]
    BY <1>1, <1>2, <1>5 DEF Agree
  <2>3. ASSUME NEW j \in 1..(k - 1)
        PROVE  b[j] = c[j]
    <3>1. j \in Common(b, c) /\ ~(k <= j)
      BY <1>1, <1>2, <2>1
    <3> QED
      BY <1>5, <3>1 DEF DiffersAt
  <2>4. CASE k <= x
    <3>1. k \in 1..x /\ a[k] = b[k]
      BY <1>1, <2>1, <2>2, <2>4
    <3>2. k \in Common(a, b) \cap Common(b, c)
      BY <1>2, <2>1, <3>1
    <3>3. h[k] = g[k]
      BY <3>1, <3>2 DEF PassesOn
    <3>4. \A j \in 1..(k - 1) : a[j] = b[j]
      BY <1>1, <2>1, <2>2, <2>4
    <3> QED
      BY <1>3, <1>5, <2>1, <2>3, <3>1, <3>3, <3>4
  <2>5. CASE x < k
    <3>1. ASSUME NEW j \in Common(a, c)
          PROVE  a[j] = c[j]
      <4>1. j \in 1..x /\ j \in 1..(k - 1)
        BY <1>1, <1>2, <2>1, <2>5
      <4> QED
        BY <2>2, <2>3, <4>1
    <3>2. x <= z
      BY <1>1, <2>1, <2>5
    <3> QED
      BY <3>1, <3>2 DEF AtMost, Agree, x, z
  <2> QED
    BY <1>1, <2>1, <2>4, <2>5
<1>6. ASSUME Agree(b, c), y <= z, NEW k, DiffersAt(a, b, k), f[k] = -1
      PROVE  AtMost(h, a, c)
  <2>1. k \in 1..x /\ k \in 1..y /\ k \in 1..z /\ k \in Nat /\ a[k] # b[k]
    BY <1>1, <1>2, <1>6 DEF DiffersAt
  <2>2. \A j \in 1..y : b[j] = c[j]
    BY <1>1, <1>2, <1>6 DEF Agree
  <2>3. ASSUME NEW j \in 1..(k - 1)
        PROVE  a[j] = b[j]
    <3>1. j \in Common(a, b) /\ ~(k <= j)
      BY <1>1, <1>2, <2>1
    <3> QED
      BY <1>6, <3>1 DEF DiffersAt
  <2>4. k \in Common(a, b) \cap Common(b, c) /\ b[k] = c[k]
    BY <1>2, <2>1, <2>2
  <2>5. h[k] = f[k]
    BY <2>4 DEF PassesOn
  <2>6. \A j \in 1..(k - 1) : b[j] = c[j]
    BY <1>1, <2>1, <2>2
  <2> QED
    BY <1>3, <1>6, <2>1, <2>3, <2>4, <2>5, <2>6
<1>7. ASSUME NEW k, DiffersAt(a, b, k), f[k] = -1, NEW l, DiffersAt(b, c, l), g[l] = -1
      PROVE  AtMost(h, a, c)
  <2>1. k \in 1..x /\ k \in 1..y /\ k \in Nat /\ a[k] # b[k]
    BY <1>1, <1>2, <1>7 DEF DiffersAt
  <2>2. l \in 1..y /\ l \in 1..z /\ l \in Nat /\ b[l] # c[l]
    BY <1>1, <1>2, <1>7 DEF DiffersAt
  <2>3. ASSUME NEW j \in 1..y, j < k
        PROVE  a[j] = b[j]
    <3>1. j \in Common(a, b) /\ ~(k <= j)
      BY <1>1, <1>2, <2>1, <2>3
    <3> QED
      BY <1>7, <3>1 DEF DiffersAt
  <2>4. ASSUME NEW j \in 1..y, j < l
        PROVE  b[j] = c[j]
    <3>1. j \in Common(b, c) /\ ~(l <= j)
      BY <1>1, <1>2, <2>2, <2>4
    <3> QED
      BY <1>7, <3>1 DEF DiffersAt
  <2>5. CASE k < l
    <3>1. k \in 1..z /\ b[k] = c[k] /\ k \in Common(a, b) \cap Common(b, c)
      BY <1>1, <1>2, <2>1, <2>2, <2>4, <2>5
    <3>2. h[k] = f[k] /\ a[k] # c[k]
      BY <2>1, <3>1 DEF PassesOn
    <3>3. \A j \in 1..(k - 1) : a[j] = b[j] /\ b[j] = c[j]
      BY <1>1, <2>1, <2>2, <2>3, <2>4, <2>5
    <3> QED
      BY <1>3, <1>7, <2>1, <3>1, <3>2, <3>3
  <2>6. CASE l < k
    <3>1. l \in 1..x /\ a[l] = b[l] /\ l \in Common(a, b) \cap Common(b, c)
      BY <1>1, <1>2, <2>1, <2>2, <2>3, <2>6
    <3>2. h[l] = g[l] /\ a[l] # c[l]
      BY <2>2, <3>1 DEF PassesOn
    <3>3. \A j \in 1..(l - 1) : a[j] = b[j] /\ b[j] = c[j]
      BY <1>1, <2>1, <2>2, <2>3, <2>4, <2>6
    <3> QED
      BY <1>3, <1>7, <2>2, <3>1, <3>2, <3>3
  <2>7. CASE k = l
    <3>1. k \in Common(a, b) \cap Common(b, c) /\ k \in 1..z /\ g[k] = -1
      BY <1>2, <1>7, <2>1, <2>2, <2>7
    <3>2. h[k] = -1
      BY <1>7, <3>1 DEF PassesOn
    <3>3. a[k] # c[k]
      <4>1. k \in Common(a, c)
        BY <1>2, <2>1, <3>1
      <4>2. h[k] = 0 <=> a[k] = c[k]
        BY <4>1 DEF Tells
      <4> QED
        BY <3>2, <4>2
    <3>4. \A j \in 1..(k - 1) : a[j] = b[j] /\ b[j] = c[j]
      BY <1>1, <2>1, <2>2, <2>3, <2>4, <2>7
    <3> QED
      BY <1>3, <2>1, <3>1, <3>2, <3>3, <3>4
  <2> QED
    BY <2>1, <2>2, <2>5, <2>6, <2>7
<1> QED
  BY <1>4, <1>5, <1>6, <1>7 DEF AtMost, x, y, z

----------------------------------------------------------------------------
(***************************************************************************)
(* operator<=> is an order of each type's values, and operator== says      *)
(* which are the same.                                                     *)
(***************************************************************************)
Ordered(t, a, b) ==
  /\ Compare(t, a, b) \in Signs
  /\ Compare(t, a, b) = 0 <=> a = b
  /\ Equal(t, a, b) <=> a = b
  /\ Compare(t, b, a) = -Compare(t, a, b)

\* The signs of the components that both values have.
SignsOf(t, a, b) ==
  IF Kind(t) \in Leaf THEN [i \in Common(a, b) |-> Sign(a[i] - b[i])]
  ELSE [i \in Common(a, b) |-> Compare(Component(t, i), a[i], b[i])]

LEMMA LeafNumbers ==
  ASSUME NEW t \in Type, Kind(t) \in Leaf, NEW v \in Objects[t]
  PROVE  Tuple(v) /\ \A i \in 1..Len(v) : v[i] \in Nat
<1>1. LeafShape(t, v)
  BY ObjectShape
<1>2. U32 \subseteq Nat /\ Octet \subseteq Nat
  BY SMT DEF U32, Octet
<1>3. v \in Seq(Nat)
  <2>1. CASE \E n \in U32 : v = <<n>>
    <3>1. PICK n \in U32 : v = <<n>>
      BY <2>1
    <3>2. n \in Nat
      BY <1>2
    <3> QED
      BY <3>1, <3>2
  <2>2. CASE \E h \in U32, l \in U32 : v = <<h, l>>
    <3>1. PICK h \in U32, l \in U32 : v = <<h, l>>
      BY <2>2
    <3>2. h \in Nat /\ l \in Nat
      BY <1>2
    <3> QED
      BY <3>1, <3>2
  <2>3. CASE v \in Seq(Octet)
    <3>1. Tuple(v) /\ \A i \in 1..Len(v) : v[i] \in Octet
      BY <2>3, SeqTuple
    <3>2. \A i \in 1..Len(v) : v[i] \in Nat
      BY <1>2, <3>1
    <3> QED
      BY <3>1, <3>2, TupleSeq
  <2> QED
    BY <1>1, <2>1, <2>2, <2>3 DEF LeafShape
<1> QED
  BY <1>3, SeqTuple

LEMMA Sequences ==
  ASSUME NEW t \in Type, Kind(t) # "union", NEW v \in Objects[t]
  PROVE  Tuple(v) /\ Len(v) \in Nat /\ DOMAIN v = 1..Len(v)
<1>1. CASE Kind(t) \in Leaf
  BY <1>1, LeafNumbers, Zenon DEF Tuple
<1>2. CASE HasParts(t)
  BY <1>2, ObjectParts, Zenon
<1> QED
  BY <1>1, <1>2, Kinds

LEMMA ComparesSequences ==
  ASSUME RecursivePairs, NEW t \in Type, Kind(t) # "union", NEW a \in Objects[t], NEW b \in Objects[t]
  PROVE  Compare(t, a, b) = Lex(SignsOf(t, a, b), a, b)
<1>1. CASE Kind(t) \in Leaf
  <2>1. Kind(t) \notin Nested
    BY <1>1, Kinds, Zenon
  <2> QED
    BY <1>1, <2>1, Zenon DEF Compare, Lex, SignsOf
<1>2. CASE HasParts(t)
  <2>1. Kind(t) \in Nested /\ Kind(t) \notin Leaf
    BY <1>2, Kinds, Zenon
  <2>2. DOMAIN a = 1..Len(a) /\ DOMAIN b = 1..Len(b)
    BY <1>2, ObjectParts, Zenon
  <2>3. ASSUME NEW i \in Common(a, b)
        PROVE  ComparePart(Component(t, i), a[i], b[i]) = Compare(Component(t, i), a[i], b[i])
    <3>1. i \in 1..Len(a) /\ i \in 1..Len(b)
      BY <2>2 DEF Common
    <3>2. Component(t, i) \in Type /\ a[i] \in Objects[Component(t, i)]
                                   /\ b[i] \in Objects[Component(t, i)]
      BY <1>2, <3>1, ObjectParts, Zenon
    <3> QED
      BY <3>2, Zenon DEF RecursivePairs
  <2> DEFINE f == [i \in Common(a, b) |-> ComparePart(Component(t, i), a[i], b[i])]
             g == [i \in Common(a, b) |-> Compare(Component(t, i), a[i], b[i])]
  <2>4. f = g
    BY <2>3, Zenon
  <2>5. Compare(t, a, b) = Lexicographic(f, Len(a) - Len(b))
    BY <2>1, Zenon DEF Compare
  <2>6. SignsOf(t, a, b) = g
    BY <2>1, Zenon DEF SignsOf
  <2> HIDE DEF f, g
  <2> QED
    BY <2>4, <2>5, <2>6, Zenon DEF Lex
<1> QED
  BY <1>1, <1>2, Kinds

\* The order of two sequences from that of their components.
SignsTell(t, a, b) ==
  /\ Tells(SignsOf(t, a, b), a, b) /\ Tells(SignsOf(t, b, a), b, a)
  /\ \A i \in Common(a, b) : SignsOf(t, b, a)[i] = -SignsOf(t, a, b)[i]

LEMMA SequencesOrdered ==
  ASSUME RecursivePairs, NEW t \in Type, Kind(t) # "union", NEW a \in Objects[t], NEW b \in Objects[t],
         SignsTell(t, a, b)
  PROVE  /\ Compare(t, a, b) \in Signs /\ (Compare(t, a, b) = 0 <=> a = b)
         /\ Compare(t, b, a) = -Compare(t, a, b)
<1> DEFINE f == SignsOf(t, a, b)
           g == SignsOf(t, b, a)
<1>1. Compare(t, a, b) = Lex(f, a, b) /\ Compare(t, b, a) = Lex(g, b, a)
  BY ComparesSequences
<1>2. Tells(f, a, b) /\ Tells(g, b, a) /\ \A i \in Common(a, b) : g[i] = -f[i]
  BY DEF SignsTell
<1> HIDE DEF f, g
<1>3. Lex(f, a, b) \in Signs /\ (Lex(f, a, b) = 0 <=> a = b)
  BY <1>2, LexSigns
<1>4. Lex(g, b, a) = -Lex(f, a, b)
  BY <1>2, LexTurns
<1> QED
  BY <1>1, <1>3, <1>4

LEMMA LeafOrdered ==
  ASSUME RecursivePairs, NEW t \in Type, Kind(t) \in Leaf, NEW a \in Objects[t], NEW b \in Objects[t]
  PROVE  SignsTell(t, a, b) /\ Ordered(t, a, b)
<1>1. /\ Tuple(a) /\ Tuple(b) /\ DOMAIN a = 1..Len(a) /\ DOMAIN b = 1..Len(b)
      /\ \A i \in 1..Len(a) : a[i] \in Nat
      /\ \A i \in 1..Len(b) : b[i] \in Nat
  BY LeafNumbers DEF Tuple
<1>2. Kind(t) # "union" /\ Kind(t) \notin Nested
  BY Kinds
<1>3. Common(b, a) = Common(a, b) /\ \A i \in Common(a, b) : a[i] \in Nat /\ b[i] \in Nat
  BY <1>1 DEF Common
<1> DEFINE f == SignsOf(t, a, b)
           g == SignsOf(t, b, a)
<1>4. /\ DOMAIN f = Common(a, b) /\ DOMAIN g = Common(a, b)
      /\ \A i \in Common(a, b) : f[i] = Sign(a[i] - b[i])
      /\ \A i \in Common(a, b) : g[i] = Sign(b[i] - a[i])
  BY <1>3, Zenon DEF SignsOf
<1> HIDE DEF f, g
<1>5. ASSUME NEW i \in Common(a, b)
      PROVE  /\ f[i] \in Signs /\ (f[i] = 0 <=> a[i] = b[i]) /\ g[i] = -f[i]
             /\ g[i] \in Signs /\ (g[i] = 0 <=> b[i] = a[i])
  <2> DEFINE d == a[i] - b[i]
             e == b[i] - a[i]
  <2>1. d \in Int /\ e = -d /\ e \in Int /\ (d = 0 <=> a[i] = b[i]) /\ (e = 0 <=> b[i] = a[i])
    BY <1>3
  <2>2. f[i] = Sign(d) /\ g[i] = Sign(e)
    BY <1>4
  <2> HIDE DEF d, e
  <2>3. Sign(d) \in Signs /\ (Sign(d) = 0 <=> d = 0) /\ Sign(-d) = -Sign(d)
    BY <2>1, SignIs
  <2>4. Sign(e) \in Signs /\ (Sign(e) = 0 <=> e = 0)
    BY <2>1, SignIs
  <2> QED
    BY <2>1, <2>2, <2>3, <2>4
<1>6. Tells(f, a, b)
  BY <1>1, <1>4, <1>5 DEF Tells
<1>7. Tells(g, b, a)
  BY <1>1, <1>3, <1>4, <1>5 DEF Tells
<1>8. SignsTell(t, a, b)
  BY <1>5, <1>6, <1>7 DEF SignsTell, f, g
<1>9. /\ Compare(t, a, b) \in Signs /\ (Compare(t, a, b) = 0 <=> a = b)
      /\ Compare(t, b, a) = -Compare(t, a, b)
  BY <1>2, <1>8, SequencesOrdered
<1>10. Equal(t, a, b) <=> a = b
  BY <1>2, Zenon DEF Equal
<1> QED
  BY <1>8, <1>9, <1>10 DEF Ordered

LEMMA PartsOrdered ==
  ASSUME RecursivePairs, NEW t \in Type, HasParts(t), NEW a \in Objects[t], NEW b \in Objects[t],
         \A i \in Common(a, b) : Ordered(Component(t, i), a[i], b[i])
  PROVE  SignsTell(t, a, b) /\ Ordered(t, a, b)
<1>1. /\ Tuple(a) /\ Tuple(b) /\ DOMAIN a = 1..Len(a) /\ DOMAIN b = 1..Len(b)
      /\ Len(a) \in Nat /\ Len(b) \in Nat
      /\ \A i \in 1..Len(a) : Component(t, i) \in Type /\ a[i] \in Objects[Component(t, i)]
      /\ \A i \in 1..Len(b) : b[i] \in Objects[Component(t, i)]
  BY ObjectParts, Zenon
<1>2. Kind(t) # "union" /\ Kind(t) \in Nested /\ Kind(t) \notin Leaf
  BY Kinds
<1>3. Common(b, a) = Common(a, b)
  BY DEF Common
<1> DEFINE f == SignsOf(t, a, b)
           g == SignsOf(t, b, a)
<1>4. /\ DOMAIN f = Common(a, b) /\ DOMAIN g = Common(a, b)
      /\ \A i \in Common(a, b) : f[i] = Compare(Component(t, i), a[i], b[i])
      /\ \A i \in Common(a, b) : g[i] = Compare(Component(t, i), b[i], a[i])
  BY <1>2, <1>3, Zenon DEF SignsOf
<1> HIDE DEF f, g
<1>5. ASSUME NEW i \in Common(a, b)
      PROVE  /\ f[i] \in Signs /\ (f[i] = 0 <=> a[i] = b[i]) /\ g[i] = -f[i]
             /\ g[i] \in Signs /\ (g[i] = 0 <=> b[i] = a[i])
  <2>1. f[i] \in Signs /\ (f[i] = 0 <=> a[i] = b[i]) /\ g[i] = -f[i]
    BY <1>4 DEF Ordered
  <2> QED
    BY <2>1 DEF Signs
<1>6. Tells(f, a, b)
  BY <1>1, <1>4, <1>5 DEF Tells
<1>7. Tells(g, b, a)
  BY <1>1, <1>3, <1>4, <1>5 DEF Tells
<1>8. SignsTell(t, a, b)
  BY <1>5, <1>6, <1>7 DEF SignsTell, f, g
<1>9. /\ Compare(t, a, b) \in Signs /\ (Compare(t, a, b) = 0 <=> a = b)
      /\ Compare(t, b, a) = -Compare(t, a, b)
  BY <1>2, <1>8, SequencesOrdered
<1>10. Equal(t, a, b) <=> a = b
  <2>1. Equal(t, a, b) <=> /\ Len(a) = Len(b)
                           /\ \A i \in 1..Len(a) : EqualPart(Component(t, i), a[i], b[i])
    BY <1>1, <1>2, Zenon DEF Equal
  <2>2. ASSUME Len(a) = Len(b), NEW i \in 1..Len(a)
        PROVE  EqualPart(Component(t, i), a[i], b[i]) <=> a[i] = b[i]
    <3>1. i \in Common(a, b) /\ i \in 1..Len(b)
      BY <1>1, <2>2 DEF Common
    <3>2. EqualPart(Component(t, i), a[i], b[i]) <=> Equal(Component(t, i), a[i], b[i])
      BY <1>1, <3>1, Zenon DEF RecursivePairs
    <3> QED
      BY <3>1, <3>2, Zenon DEF Ordered
  <2>3. ASSUME Equal(t, a, b)
        PROVE  a = b
    <3>1. Len(a) = Len(b) /\ \A i \in 1..Len(a) : a[i] = b[i]
      BY <2>1, <2>2, <2>3, Zenon
    <3> QED
      BY <1>1, <3>1, TuplesEqual
  <2>4. ASSUME a = b
        PROVE  Equal(t, a, b)
    <3>1. Len(a) = Len(b) /\ \A i \in 1..Len(a) : a[i] = b[i]
      BY <2>4, Zenon
    <3> QED
      BY <2>1, <2>2, <3>1, Zenon
  <2> QED
    BY <2>3, <2>4
<1> QED
  BY <1>8, <1>9, <1>10 DEF Ordered

LEMMA UnionsCompared ==
  ASSUME RecursivePairs, NEW t \in Type, Kind(t) = "union", NEW a \in Objects[t], NEW b \in Objects[t]
  PROVE  /\ Disc(a) \in Nat /\ Disc(b) \in Nat
         /\ Disc(a) # Disc(b) => /\ Compare(t, a, b) = Sign(Disc(a) - Disc(b))
                                 /\ ~Equal(t, a, b) /\ a # b
         /\ Disc(a) = Disc(b) /\ ~Selects(t, Disc(a)) => /\ Compare(t, a, b) = 0 /\ Equal(t, a, b)
                                                         /\ a = b
         /\ Disc(a) = Disc(b) /\ Selects(t, Disc(a)) =>
              /\ ArmOf(t, a) = ArmOf(t, b) /\ ArmOf(t, a) \in Type
              /\ Member(a) \in Objects[ArmOf(t, a)] /\ Member(b) \in Objects[ArmOf(t, a)]
              /\ Compare(t, a, b) = Compare(ArmOf(t, a), Member(a), Member(b))
              /\ Equal(t, a, b) <=> Equal(ArmOf(t, a), Member(a), Member(b))
              /\ a = b <=> Member(a) = Member(b)
<1>1. Disc(a) \in Nat /\ Disc(b) \in Nat
  <2>1. U32 \subseteq Nat
    BY SMT DEF U32
  <2> QED
    BY <2>1, ObjectMember
<1>2. ASSUME Disc(a) # Disc(b)
      PROVE  /\ Compare(t, a, b) = Sign(Disc(a) - Disc(b))
             /\ ~Equal(t, a, b) /\ a # b
  <2>1. Compare(t, a, b) = Sign(Disc(a) - Disc(b))
    BY <1>2, Zenon DEF Compare, CompareUnions
  <2>2. ~Equal(t, a, b)
    BY <1>2, Zenon DEF Equal, EqualUnions
  <2> QED
    BY <1>2, <2>1, <2>2
<1>3. ASSUME Disc(a) = Disc(b), ~Selects(t, Disc(a))
      PROVE  Compare(t, a, b) = 0 /\ Equal(t, a, b) /\ a = b
  <2>1. ~(FieldNo(t, Disc(a)) > 0)
    BY <1>3 DEF Selects
  <2>2. Compare(t, a, b) = 0
    BY <1>3, <2>1, Zenon DEF Compare, CompareUnions
  <2>3. Equal(t, a, b)
    BY <1>3, <2>1, Zenon DEF Equal, EqualUnions
  <2>4. a = NoMember(Disc(a)) /\ b = NoMember(Disc(b))
    BY <1>3, ObjectMember
  <2>5. a = b
    BY <1>3, <2>4, Zenon
  <2> QED
    BY <2>2, <2>3, <2>5
<1>4. ASSUME Disc(a) = Disc(b), Selects(t, Disc(a))
      PROVE  /\ ArmOf(t, a) = ArmOf(t, b) /\ ArmOf(t, a) \in Type
             /\ Member(a) \in Objects[ArmOf(t, a)] /\ Member(b) \in Objects[ArmOf(t, a)]
             /\ Compare(t, a, b) = Compare(ArmOf(t, a), Member(a), Member(b))
             /\ Equal(t, a, b) <=> Equal(ArmOf(t, a), Member(a), Member(b))
             /\ a = b <=> Member(a) = Member(b)
  <2>1. FieldNo(t, Disc(a)) > 0
    BY <1>4 DEF Selects
  <2>2. ArmOf(t, a) = ArmOf(t, b) /\ ArmOf(t, a) = Arm(t, FieldNo(t, Disc(a)))
    BY <1>4, Zenon DEF ArmOf
  <2>3. /\ Live(a) = FieldNo(t, Disc(a)) /\ ArmOf(t, a) \in Type
        /\ Member(a) \in Objects[ArmOf(t, a)] /\ a = Union(Disc(a), Live(a), Member(a))
    BY <1>4, ObjectMember, Zenon
  <2>4. /\ Live(b) = FieldNo(t, Disc(b))
        /\ Member(b) \in Objects[ArmOf(t, b)] /\ b = Union(Disc(b), Live(b), Member(b))
    BY <1>4, ObjectMember, Zenon
  <2>5. Compare(t, a, b) = ComparePart(Arm(t, FieldNo(t, Disc(a))), Member(a), Member(b))
    BY <1>4, <2>1, Zenon DEF Compare, CompareUnions
  <2>6. Equal(t, a, b) <=> EqualPart(Arm(t, FieldNo(t, Disc(a))), Member(a), Member(b))
    BY <1>4, <2>1, Zenon DEF Equal, EqualUnions
  <2>7. /\ ComparePart(ArmOf(t, a), Member(a), Member(b)) = Compare(ArmOf(t, a), Member(a), Member(b))
        /\ EqualPart(ArmOf(t, a), Member(a), Member(b)) <=> Equal(ArmOf(t, a), Member(a), Member(b))
    BY <2>2, <2>3, <2>4, Zenon DEF RecursivePairs
  <2>8. a = b <=> Member(a) = Member(b)
    BY <1>4, <2>3, <2>4, Zenon
  <2> QED
    BY <2>2, <2>3, <2>4, <2>5, <2>6, <2>7, <2>8, Zenon
<1> QED
  BY <1>1, <1>2, <1>3, <1>4, Zenon

LEMMA UnionOrdered ==
  ASSUME RecursivePairs, NEW t \in Type, Kind(t) = "union", NEW a \in Objects[t], NEW b \in Objects[t],
         Disc(a) = Disc(b) /\ Selects(t, Disc(a)) => Ordered(ArmOf(t, a), Member(a), Member(b))
  PROVE  Ordered(t, a, b)
<1>1. CASE Disc(a) # Disc(b)
  <2> DEFINE d == Disc(a) - Disc(b)
             e == Disc(b) - Disc(a)
  <2>1. Compare(t, a, b) = Sign(d) /\ Compare(t, b, a) = Sign(e) /\ ~Equal(t, a, b) /\ a # b
    BY <1>1, UnionsCompared
  <2>2. Disc(a) \in Nat /\ Disc(b) \in Nat
    BY UnionsCompared
  <2>3. d \in Int /\ d # 0 /\ e = -d
    BY <1>1, <2>2
  <2> HIDE DEF d, e
  <2>4. Sign(d) \in Signs /\ (Sign(d) = 0 <=> d = 0) /\ Sign(-d) = -Sign(d)
    BY <2>3, SignIs
  <2> QED
    BY <2>1, <2>3, <2>4 DEF Ordered
<1>2. CASE Disc(a) = Disc(b) /\ ~Selects(t, Disc(a))
  <2>1. Compare(t, a, b) = 0 /\ Equal(t, a, b) /\ a = b
    BY <1>2, UnionsCompared
  <2>2. Compare(t, b, a) = 0
    BY <2>1
  <2>3. 0 \in Signs /\ \A n \in Int : n = 0 => n = -n
    BY SMT DEF Signs
  <2>4. Compare(t, b, a) = -Compare(t, a, b)
    <3> DEFINE n == Compare(t, a, b)
               m == Compare(t, b, a)
    <3>1. n = 0 /\ m = 0 /\ n \in Int
      BY <2>1, <2>2
    <3> HIDE DEF n, m
    <3>2. n = -n
      BY <2>3, <3>1
    <3>3. m = -n
      BY <3>1, <3>2
    <3> QED
      BY <3>3 DEF n, m
  <2> QED
    BY <2>1, <2>3, <2>4, Zenon DEF Ordered
<1>3. CASE Disc(a) = Disc(b) /\ Selects(t, Disc(a))
  <2>1. /\ Compare(t, a, b) = Compare(ArmOf(t, a), Member(a), Member(b))
        /\ Equal(t, a, b) <=> Equal(ArmOf(t, a), Member(a), Member(b))
        /\ a = b <=> Member(a) = Member(b)
        /\ ArmOf(t, a) = ArmOf(t, b)
    BY <1>3, UnionsCompared
  <2>2. Compare(t, b, a) = Compare(ArmOf(t, b), Member(b), Member(a))
    <3>1. Disc(b) = Disc(a) /\ Selects(t, Disc(b))
      BY <1>3, Zenon
    <3> QED
      BY <3>1, UnionsCompared
  <2>3. Ordered(ArmOf(t, a), Member(a), Member(b))
    BY <1>3
  <2> QED
    BY <2>1, <2>2, <2>3 DEF Ordered
<1> QED
  BY <1>1, <1>2, <1>3

LEMMA ObjectsOrdered ==
  ASSUME RecursivePairs
  PROVE  \A t \in Type : \A a \in Objects[t] : \A b \in Objects[t] : Ordered(t, a, b)
<1> DEFINE P == [t \in Type |-> {a \in Objects[t] : \A b \in Objects[t] : Ordered(t, a, b)}]
<1>1. ASSUME NEW t \in Type, NEW v \in Objects[t], PartsIn(P, t, v)
      PROVE  v \in P[t]
  <2>0. \A e \in Type : \A x \in P[e] : \A y \in Objects[e] : Ordered(e, x, y)
    OBVIOUS
  <2>1. ASSUME NEW b \in Objects[t]
        PROVE  Ordered(t, v, b)
    <3> HIDE DEF P
    <3>1. CASE Kind(t) = "union"
      <4>1. ASSUME Disc(v) = Disc(b), Selects(t, Disc(v))
            PROVE  Ordered(ArmOf(t, v), Member(v), Member(b))
        <5>1. ArmOf(t, v) \in Type /\ Member(b) \in Objects[ArmOf(t, v)]
          BY <3>1, <4>1, UnionsCompared
        <5>2. Member(v) \in P[ArmOf(t, v)]
          BY <1>1, <3>1, <4>1, Zenon DEF PartsIn
        <5> QED
          BY <2>0, <5>1, <5>2, Zenon
      <4> QED
        BY <3>1, <4>1, UnionOrdered
    <3>2. CASE HasParts(t)
      <4>1. ASSUME NEW i \in Common(v, b)
            PROVE  Ordered(Component(t, i), v[i], b[i])
        <5>1. i \in 1..Len(v) /\ i \in 1..Len(b)
          BY <3>2, ObjectParts DEF Common
        <5>2. Component(t, i) \in Type /\ b[i] \in Objects[Component(t, i)]
          BY <3>2, <5>1, ObjectParts, Zenon
        <5>3. v[i] \in P[Component(t, i)]
          BY <1>1, <3>2, <5>1, Zenon DEF PartsIn
        <5> QED
          BY <2>0, <5>2, <5>3, Zenon
      <4> QED
        BY <3>2, <4>1, PartsOrdered
    <3>3. CASE Kind(t) \in Leaf
      BY <3>3, LeafOrdered
    <3> QED
      BY <3>1, <3>2, <3>3, Kinds
  <2> QED
    BY <2>1
<1>2. \A t \in Type : \A v \in Objects[t] : v \in P[t]
  <2> HIDE DEF P
  <2> QED
    BY <1>1, ByParts
<1> QED
  BY <1>2

\* What is at most b, and b at most c, is at most c.
Passes(t, a, b, c) ==
  Compare(t, a, b) <= 0 /\ Compare(t, b, c) <= 0 => Compare(t, a, c) <= 0

LEMMA LeafPasses ==
  ASSUME NEW t, Kind(t) \in Leaf, NEW a, NEW b, NEW c,
         \A i \in Common(a, b) : a[i] \in Nat /\ b[i] \in Nat,
         \A i \in Common(b, c) : b[i] \in Nat /\ c[i] \in Nat
  PROVE  PassesOn(SignsOf(t, a, b), SignsOf(t, b, c), SignsOf(t, a, c), a, b, c)
<1> DEFINE f == SignsOf(t, a, b)
           g == SignsOf(t, b, c)
           h == SignsOf(t, a, c)
<1>1. Common(a, b) \cap Common(b, c) \subseteq Common(a, c)
  BY DEF Common
<1>2. /\ \A i \in Common(a, b) : f[i] = Sign(a[i] - b[i])
      /\ \A i \in Common(b, c) : g[i] = Sign(b[i] - c[i])
      /\ \A i \in Common(a, c) : h[i] = Sign(a[i] - c[i])
  BY Zenon DEF SignsOf
<1> HIDE DEF f, g, h
<1>3. ASSUME NEW i \in Common(a, b) \cap Common(b, c)
      PROVE  /\ a[i] = b[i] => h[i] = g[i]
             /\ b[i] = c[i] => h[i] = f[i]
             /\ f[i] = -1 /\ g[i] = -1 => h[i] = -1
  <2> DEFINE d == a[i] - b[i]
             e == b[i] - c[i]
             k == a[i] - c[i]
  <2>1. f[i] = Sign(d) /\ g[i] = Sign(e) /\ h[i] = Sign(k)
    BY <1>1, <1>2
  <2>2. /\ d \in Int /\ e \in Int /\ k \in Int
        /\ d < 0 /\ e < 0 => k < 0
        /\ a[i] = b[i] => k = e
        /\ b[i] = c[i] => k = d
    OBVIOUS
  <2> HIDE DEF d, e, k
  <2>3. (Sign(d) = -1 <=> d < 0) /\ (Sign(e) = -1 <=> e < 0) /\ (Sign(k) = -1 <=> k < 0)
    BY <2>2, SignIs
  <2> QED
    BY <2>1, <2>2, <2>3
<1>4. PassesOn(f, g, h, a, b, c)
  BY <1>3 DEF PassesOn
<1> QED
  BY <1>4 DEF f, g, h

LEMMA PartsPass ==
  ASSUME NEW t \in Type, HasParts(t), NEW a \in Objects[t], NEW b \in Objects[t], NEW c \in Objects[t],
         \A i \in Common(a, b) : Ordered(Component(t, i), a[i], b[i]),
         \A i \in Common(a, c) : Ordered(Component(t, i), a[i], c[i]),
         \A i \in Common(a, b) \cap Common(b, c) : Passes(Component(t, i), a[i], b[i], c[i])
  PROVE  PassesOn(SignsOf(t, a, b), SignsOf(t, b, c), SignsOf(t, a, c), a, b, c)
<1> DEFINE f == SignsOf(t, a, b)
           g == SignsOf(t, b, c)
           h == SignsOf(t, a, c)
<1>0. Kind(t) \notin Leaf
  BY Kinds
<1>1. Common(a, b) \cap Common(b, c) \subseteq Common(a, c)
  BY DEF Common
<1>2. /\ \A i \in Common(a, b) : f[i] = Compare(Component(t, i), a[i], b[i])
      /\ \A i \in Common(b, c) : g[i] = Compare(Component(t, i), b[i], c[i])
      /\ \A i \in Common(a, c) : h[i] = Compare(Component(t, i), a[i], c[i])
  BY <1>0, Zenon DEF SignsOf
<1> HIDE DEF f, g, h
<1>3. ASSUME NEW i \in Common(a, b) \cap Common(b, c)
      PROVE  /\ a[i] = b[i] => h[i] = g[i]
             /\ b[i] = c[i] => h[i] = f[i]
             /\ f[i] = -1 /\ g[i] = -1 => h[i] = -1
  <2>0. i \in Common(a, b) /\ i \in Common(b, c) /\ i \in Common(a, c)
    BY <1>1
  <2>1. /\ f[i] = Compare(Component(t, i), a[i], b[i])
        /\ g[i] = Compare(Component(t, i), b[i], c[i])
        /\ h[i] = Compare(Component(t, i), a[i], c[i])
    BY <1>2, <2>0, Zenon
  <2>2. a[i] = b[i] => h[i] = g[i]
    BY <2>1, Zenon
  <2>3. b[i] = c[i] => h[i] = f[i]
    BY <2>1, Zenon
  <2>4. ASSUME f[i] = -1, g[i] = -1
        PROVE  h[i] = -1
    <3>1. Compare(Component(t, i), b[i], a[i]) = -f[i]
      BY <2>0, <2>1 DEF Ordered
    <3>2. h[i] \in Signs /\ (h[i] = 0 <=> a[i] = c[i])
      BY <2>0, <2>1 DEF Ordered
    <3>3. h[i] <= 0
      <4>1. Compare(Component(t, i), a[i], b[i]) <= 0 /\ Compare(Component(t, i), b[i], c[i]) <= 0
        BY <2>1, <2>4
      <4> QED
        BY <2>1, <4>1 DEF Passes
    <3>4. h[i] # 0
      <4>1. SUFFICES ASSUME h[i] = 0  PROVE FALSE
        OBVIOUS
      <4>2. g[i] = -f[i]
        BY <2>1, <3>1, <3>2, <4>1
      <4> QED
        BY <2>4, <4>2
    <3> QED
      BY <3>2, <3>3, <3>4 DEF Signs
  <2> QED
    BY <2>2, <2>3, <2>4
<1>4. PassesOn(f, g, h, a, b, c)
  BY <1>3 DEF PassesOn
<1> QED
  BY <1>4 DEF f, g, h

LEMMA SequencesPass ==
  ASSUME RecursivePairs, NEW t \in Type, Kind(t) # "union",
         NEW a \in Objects[t], NEW b \in Objects[t], NEW c \in Objects[t],
         SignsTell(t, a, b), SignsTell(t, b, c), SignsTell(t, a, c),
         PassesOn(SignsOf(t, a, b), SignsOf(t, b, c), SignsOf(t, a, c), a, b, c)
  PROVE  Passes(t, a, b, c)
<1> DEFINE f == SignsOf(t, a, b)
           g == SignsOf(t, b, c)
           h == SignsOf(t, a, c)
<1>1. Compare(t, a, b) = Lex(f, a, b) /\ Compare(t, b, c) = Lex(g, b, c) /\ Compare(t, a, c) = Lex(h, a, c)
  BY ComparesSequences
<1>2. Tells(f, a, b) /\ Tells(g, b, c) /\ Tells(h, a, c) /\ PassesOn(f, g, h, a, b, c)
  BY DEF SignsTell
<1> HIDE DEF f, g, h
<1>3. /\ Lex(f, a, b) <= 0 <=> AtMost(f, a, b)
      /\ Lex(g, b, c) <= 0 <=> AtMost(g, b, c)
      /\ Lex(h, a, c) <= 0 <=> AtMost(h, a, c)
  BY <1>2, LexAtMost
<1>4. AtMost(f, a, b) /\ AtMost(g, b, c) => AtMost(h, a, c)
  BY <1>2, LexPasses
<1> QED
  BY <1>1, <1>3, <1>4 DEF Passes

LEMMA UnionsApart ==
  ASSUME RecursivePairs, NEW t \in Type, Kind(t) = "union", NEW a \in Objects[t], NEW b \in Objects[t],
         Disc(a) # Disc(b)
  PROVE  Compare(t, a, b) <= 0 <=> Disc(a) <= Disc(b)
<1> DEFINE d == Disc(a) - Disc(b)
<1>1. Disc(a) \in Nat /\ Disc(b) \in Nat /\ Compare(t, a, b) = Sign(d)
  BY UnionsCompared
<1>2. d \in Int /\ (d <= 0 <=> Disc(a) <= Disc(b))
  BY <1>1
<1> HIDE DEF d
<1>3. Sign(d) <= 0 <=> d <= 0
  BY <1>2, SignIs
<1> QED
  BY <1>1, <1>2, <1>3

LEMMA UnionsAlike ==
  ASSUME RecursivePairs, NEW t \in Type, Kind(t) = "union", NEW a \in Objects[t], NEW b \in Objects[t],
         Disc(a) = Disc(b)
  PROVE  /\ ~Selects(t, Disc(a)) => Compare(t, a, b) = 0
         /\ Selects(t, Disc(a)) => /\ ArmOf(t, a) = ArmOf(t, b)
                                   /\ Compare(t, a, b) = Compare(ArmOf(t, a), Member(a), Member(b))
<1>1. ASSUME ~Selects(t, Disc(a))
      PROVE  Compare(t, a, b) = 0
  BY <1>1, UnionsCompared
<1>2. ASSUME Selects(t, Disc(a))
      PROVE  /\ ArmOf(t, a) = ArmOf(t, b)
             /\ Compare(t, a, b) = Compare(ArmOf(t, a), Member(a), Member(b))
  BY <1>2, UnionsCompared
<1> QED
  BY <1>1, <1>2

LEMMA UnionPasses ==
  ASSUME RecursivePairs, NEW t \in Type, Kind(t) = "union",
         NEW a \in Objects[t], NEW b \in Objects[t], NEW c \in Objects[t],
         Disc(a) = Disc(b) /\ Disc(b) = Disc(c) /\ Selects(t, Disc(a)) =>
           Passes(ArmOf(t, a), Member(a), Member(b), Member(c))
  PROVE  Passes(t, a, b, c)
<1>1. Disc(a) \in Nat /\ Disc(b) \in Nat /\ Disc(c) \in Nat
  BY UnionsCompared
<1>2. /\ Disc(a) # Disc(b) => (Compare(t, a, b) <= 0 <=> Disc(a) <= Disc(b))
      /\ Disc(b) # Disc(c) => (Compare(t, b, c) <= 0 <=> Disc(b) <= Disc(c))
      /\ Disc(a) # Disc(c) => (Compare(t, a, c) <= 0 <=> Disc(a) <= Disc(c))
  BY UnionsApart
<1>3. CASE Disc(a) = Disc(b) /\ Disc(b) = Disc(c)
  <2>1. Disc(a) = Disc(c)
    BY <1>3, Zenon
  <2>2. CASE ~Selects(t, Disc(a))
    <3>1. Compare(t, a, c) = 0
      BY <2>1, <2>2, UnionsAlike
    <3> QED
      BY <3>1 DEF Passes
  <2>3. CASE Selects(t, Disc(a))
    <3>1. /\ Compare(t, a, b) = Compare(ArmOf(t, a), Member(a), Member(b))
          /\ ArmOf(t, a) = ArmOf(t, b)
      BY <1>3, <2>3, UnionsAlike
    <3>2. Selects(t, Disc(b))
      BY <1>3, <2>3, Zenon
    <3>3. Compare(t, b, c) = Compare(ArmOf(t, b), Member(b), Member(c))
      BY <1>3, <3>2, UnionsAlike
    <3>4. Compare(t, a, c) = Compare(ArmOf(t, a), Member(a), Member(c))
      BY <2>1, <2>3, UnionsAlike
    <3>5. Passes(ArmOf(t, a), Member(a), Member(b), Member(c))
      BY <1>3, <2>3
    <3> QED
      BY <3>1, <3>3, <3>4, <3>5, Zenon DEF Passes
  <2> QED
    BY <2>2, <2>3
<1>4. CASE ~(Disc(a) = Disc(b) /\ Disc(b) = Disc(c))
  <2> DEFINE x == Disc(a)
             y == Disc(b)
             z == Disc(c)
             p == Compare(t, a, b) <= 0
             q == Compare(t, b, c) <= 0
             r == Compare(t, a, c) <= 0
  <2>1. /\ x \in Nat /\ y \in Nat /\ z \in Nat
        /\ x # y => (p <=> x <= y)
        /\ y # z => (q <=> y <= z)
        /\ x # z => (r <=> x <= z)
        /\ ~(x = y /\ y = z)
    BY <1>1, <1>2, <1>4
  <2> HIDE DEF x, y, z, p, q, r
  <2>2. p /\ q => r
    <3>1. ASSUME p, q
          PROVE  x <= y /\ y <= z
      BY <2>1, <3>1
    <3>2. ASSUME x <= y, y <= z
          PROVE  x # z /\ x <= z
      BY <2>1, <3>2
    <3> QED
      BY <2>1, <3>1, <3>2
  <2> QED
    BY <2>2 DEF Passes, p, q, r
<1> QED
  BY <1>3, <1>4

LEMMA OrderPasses ==
  ASSUME RecursivePairs
  PROVE  \A t \in Type : \A a \in Objects[t] : \A b \in Objects[t] : \A c \in Objects[t] :
           Passes(t, a, b, c)
<1> DEFINE P == [t \in Type |-> {a \in Objects[t] :
                   \A b \in Objects[t] : \A c \in Objects[t] : Passes(t, a, b, c)}]
<1>1. ASSUME NEW t \in Type, NEW a \in Objects[t], PartsIn(P, t, a)
      PROVE  a \in P[t]
  <2>0. \A e \in Type : \A x \in P[e] : \A y \in Objects[e] : \A z \in Objects[e] : Passes(e, x, y, z)
    OBVIOUS
  <2>1. ASSUME NEW b \in Objects[t], NEW c \in Objects[t]
        PROVE  Passes(t, a, b, c)
    <3> HIDE DEF P
    <3>1. CASE Kind(t) = "union"
      <4>1. ASSUME Disc(a) = Disc(b), Disc(b) = Disc(c), Selects(t, Disc(a))
            PROVE  Passes(ArmOf(t, a), Member(a), Member(b), Member(c))
        <5>1. ArmOf(t, a) \in Type /\ Member(b) \in Objects[ArmOf(t, a)]
          BY <3>1, <4>1, UnionsCompared
        <5>2. Disc(a) = Disc(c) /\ Member(c) \in Objects[ArmOf(t, a)]
          BY <3>1, <4>1, UnionsCompared
        <5>3. Member(a) \in P[ArmOf(t, a)]
          BY <1>1, <3>1, <4>1, Zenon DEF PartsIn
        <5> QED
          BY <2>0, <5>1, <5>2, <5>3, Zenon
      <4> QED
        BY <3>1, <4>1, UnionPasses
    <3>2. CASE HasParts(t)
      <4>1. /\ DOMAIN a = 1..Len(a) /\ DOMAIN b = 1..Len(b) /\ DOMAIN c = 1..Len(c)
            /\ \A i \in 1..Len(a) : Component(t, i) \in Type /\ a[i] \in Objects[Component(t, i)]
            /\ \A i \in 1..Len(b) : Component(t, i) \in Type /\ b[i] \in Objects[Component(t, i)]
            /\ \A i \in 1..Len(c) : c[i] \in Objects[Component(t, i)]
        BY <3>2, ObjectParts, Zenon
      <4>2. \A e \in Type : \A x \in Objects[e] : \A y \in Objects[e] : Ordered(e, x, y)
        BY ObjectsOrdered
      <4>3. /\ \A i \in Common(a, b) : Ordered(Component(t, i), a[i], b[i])
            /\ \A i \in Common(b, c) : Ordered(Component(t, i), b[i], c[i])
            /\ \A i \in Common(a, c) : Ordered(Component(t, i), a[i], c[i])
        BY <4>1, <4>2 DEF Common
      <4>4. ASSUME NEW i \in Common(a, b) \cap Common(b, c)
            PROVE  Passes(Component(t, i), a[i], b[i], c[i])
        <5>1. i \in 1..Len(a) /\ i \in 1..Len(b) /\ i \in 1..Len(c)
          BY <4>1 DEF Common
        <5>2. a[i] \in P[Component(t, i)]
          BY <1>1, <3>2, <5>1, Zenon DEF PartsIn
        <5> QED
          BY <2>0, <4>1, <5>1, <5>2, Zenon
      <4>5. PassesOn(SignsOf(t, a, b), SignsOf(t, b, c), SignsOf(t, a, c), a, b, c)
        BY <3>2, <4>3, <4>4, PartsPass
      <4>6. SignsTell(t, a, b) /\ SignsTell(t, b, c) /\ SignsTell(t, a, c)
        BY <3>2, <4>3, PartsOrdered
      <4>7. Kind(t) # "union"
        BY <3>2, Kinds
      <4> QED
        BY <4>5, <4>6, <4>7, SequencesPass
    <3>3. CASE Kind(t) \in Leaf
      <4>1. /\ DOMAIN a = 1..Len(a) /\ DOMAIN b = 1..Len(b) /\ DOMAIN c = 1..Len(c)
            /\ \A i \in 1..Len(a) : a[i] \in Nat
            /\ \A i \in 1..Len(b) : b[i] \in Nat
            /\ \A i \in 1..Len(c) : c[i] \in Nat
        BY <3>3, LeafNumbers DEF Tuple
      <4>2. /\ \A i \in Common(a, b) : a[i] \in Nat /\ b[i] \in Nat
            /\ \A i \in Common(b, c) : b[i] \in Nat /\ c[i] \in Nat
        BY <4>1 DEF Common
      <4>3. PassesOn(SignsOf(t, a, b), SignsOf(t, b, c), SignsOf(t, a, c), a, b, c)
        BY <3>3, <4>2, LeafPasses
      <4>4. SignsTell(t, a, b) /\ SignsTell(t, b, c) /\ SignsTell(t, a, c)
        BY <3>3, LeafOrdered
      <4>5. Kind(t) # "union"
        BY <3>3, Kinds
      <4> QED
        BY <4>3, <4>4, <4>5, SequencesPass
    <3> QED
      BY <3>1, <3>2, <3>3, Kinds
  <2> QED
    BY <2>1
<1>2. \A t \in Type : \A v \in Objects[t] : v \in P[t]
  <2> HIDE DEF P
  <2> QED
    BY <1>1, ByParts
<1> QED
  BY <1>2

----------------------------------------------------------------------------
(***************************************************************************)
(* A value's bytes are its own: no other value of its type has the same,   *)
(* or the same with anything behind them.                                  *)
(***************************************************************************)
LEMMA CodeIsUnique ==
  ASSUME RecursiveTypes, RecursiveValues, NEW t \in Type, NEW v \in Objects[t],
         NEW b, NEW K, IsCode(t, v, b, K), K # {}, NEW c, NEW L, IsCode(t, v, c, L)
  PROVE  b = c
<1>1. PICK limit : limit \in K
  OBVIOUS
<1>2. /\ limit \in Nat /\ IsBytes(b) /\ IsBytes(c) /\ Len(b) \in Nat /\ Len(c) = Len(b)
      /\ Len(b) % 4 = 0
  BY <1>1, LenProperties DEF IsCode, IsBytes
<1> DEFINE a == Putter(Len(b), limit)
           q == ArchivePart(t, v, a)
<1>3. PutsWords(a) /\ ~Failed(a) /\ a.out = << >>
  BY <1>2, NoBytes, Fresh DEF IsBytes
<1>4. a.limit = limit /\ a.end = Len(b)
  BY DEF Putter
<1> HIDE DEF a
<1>5. ReadyPut(a, Len(b)) /\ ReadyPut(a, Len(c))
  BY <1>2, <1>3, <1>4, NoBytes DEF ReadyPut
<1>6. PutDone(a, q, b, K) /\ PutDone(a, q, c, L)
  BY <1>5 DEF IsCode, PutsCode
<1> HIDE DEF q
<1>7. q = Out(a, b)
  BY <1>1, <1>4, <1>6 DEF PutDone
<1>8. a \in Putters /\ a.err = "none"
  BY <1>3 DEF PutsWords, Failed
<1>9. Out(a, b).err = "none" /\ Out(a, b).out = a.out \o b /\ Out(a, c).out = a.out \o c
  BY <1>8 DEF Out, Putters
<1>10. q = Out(a, c)
  BY <1>6, <1>7, <1>9 DEF PutDone
<1>11. << >> \o b = << >> \o c
  BY <1>3, <1>7, <1>9, <1>10
<1>12. << >> \o b = b /\ << >> \o c = c
  BY <1>2, ConcatEmptySeq DEF IsBytes
<1> QED
  BY <1>11, <1>12

LEMMA CodeConsists ==
  ASSUME RecursiveTypes, RecursiveValues, RecursiveArchives, NEW t \in Type, NEW v \in Objects[t],
         NEW b, NEW K, IsCode(t, v, b, K), K # {}
  PROVE  Consists(t, v, b)
<1>1. SerialSize(t, v) # Unsized
  <2>1. Len(b) \in Nat
    BY LenProperties DEF IsCode, IsBytes
  <2> QED
    BY <2>1 DEF IsCode, Unsized
<1>2. PICK c, L : Coded(t, v, c, L)
  BY <1>1, CodesExist DEF HasCode
<1>3. c = b
  BY <1>2, CodeIsUnique DEF Coded
<1> QED
  BY <1>2, <1>3 DEF Coded

\* Sequences that begin with parts of the same length.
LEMMA Unjoined ==
  ASSUME NEW a \in Seq(Octet), NEW b \in Seq(Octet), NEW x \in Seq(Octet), NEW y \in Seq(Octet),
         Len(a) = Len(b), a \o x = b \o y
  PROVE  a = b /\ x = y
<1> DEFINE n == Len(a)
           s == a \o x
           r == b \o y
<1>1. n \in Nat /\ Len(b) = n /\ Len(x) \in Nat /\ Len(y) \in Nat /\ s = r
  BY LenProperties
<1>2. /\ Len(s) = n + Len(x)
      /\ \A k \in 1..n : s[k] = a[k]
      /\ \A k \in n + 1 .. n + Len(x) : s[k] = x[k - n]
  BY OctetsJoined
<1>3. /\ Len(r) = n + Len(y)
      /\ \A k \in 1..n : r[k] = b[k]
      /\ \A k \in n + 1 .. n + Len(y) : r[k] = y[k - n]
  BY OctetsJoined
<1> HIDE DEF s, r
<1>4. a = b
  <2>1. \A k \in 1..n : a[k] = b[k]
    BY <1>1, <1>2, <1>3
  <2> QED
    BY <2>1, SeqEqual
<1> HIDE DEF n
<1>5. Len(x) = Len(y)
  BY <1>1, <1>2, <1>3
<1>6. ASSUME NEW k \in 1..Len(x)
      PROVE  x[k] = y[k]
  <2> DEFINE j == n + k
  <2>1. j \in n + 1 .. n + Len(x) /\ j \in n + 1 .. n + Len(y) /\ j - n = k
    BY <1>1, <1>5
  <2> HIDE DEF j
  <2>2. s[j] = x[k]
    BY <1>2, <2>1
  <2>3. r[j] = y[k]
    BY <1>3, <2>1
  <2> QED
    BY <1>1, <2>2, <2>3
<1>7. x = y
  BY <1>5, <1>6, SeqEqual
<1> QED
  BY <1>4, <1>7

\* ... with words.
BothSame(m, n, x, y) == m = n /\ x = y
LEMMA WordsUnjoined ==
  ASSUME NEW m \in U32, NEW n \in U32, NEW x \in Seq(Octet), NEW y \in Seq(Octet),
         Word(m) \o x = Word(n) \o y
  PROVE  BothSame(m, n, x, y)
<1>1. /\ Word(m) \in Seq(Octet) /\ Len(Word(m)) = 4 /\ Number(Word(m)) = m
      /\ Word(n) \in Seq(Octet) /\ Len(Word(n)) = 4 /\ Number(Word(n)) = n
  BY WordOfNumber
<1>2. Len(Word(m)) = Len(Word(n))
  BY <1>1
<1>3. Word(m) = Word(n) /\ x = y
  BY <1>1, <1>2, Unjoined
<1> QED
  BY <1>1, <1>3 DEF BothSame

\* What is put for v, whatever is behind it, is not the beginning of what is put for another value.
Own(t, v) ==
  \A w \in Objects[t] : \A b, K, c, L :
    IsCode(t, v, b, K) /\ K # {} /\ IsCode(t, w, c, L) /\ L # {} =>
      \A x \in Seq(Octet) : \A y \in Seq(Octet) : b \o x = c \o y => v = w

LEMMA PutBytesUnjoined ==
  ASSUME NEW v \in Seq(Octet), NEW w \in Seq(Octet), NEW x \in Seq(Octet), NEW y \in Seq(Octet),
         Len(v) = Len(w), put_bytes(v) \o x = put_bytes(w) \o y
  PROVE  v = w
<1> DEFINE p == put_bytes(v)
           q == put_bytes(w)
<1>1. /\ p \in Seq(Octet) /\ Len(p) = Padded(Len(v)) /\ \A k \in 1..Len(v) : p[k] = v[k]
      /\ q \in Seq(Octet) /\ Len(q) = Padded(Len(w)) /\ \A k \in 1..Len(w) : q[k] = w[k]
  BY PutBytesPads
<1>2. Len(p) = Len(q) /\ p \o x = q \o y
  BY <1>1
<1> HIDE DEF p, q
<1>3. p = q
  BY <1>1, <1>2, Unjoined
<1>4. \A k \in 1..Len(v) : v[k] = w[k]
  BY <1>1, <1>3
<1> QED
  BY <1>4, SeqEqual

\* Where three byte sequences are joined does not matter.
Associate(a, b, c) == (a \o b) \o c = a \o (b \o c)
LEMMA BytesAssociate ==
  ASSUME NEW a \in Seq(Octet), NEW b \in Seq(Octet), NEW c \in Seq(Octet)
  PROVE  Associate(a, b, c)
BY OctetsAssociate DEF Associate

LEMMA HeadingUnjoined ==
  ASSUME NEW m \in U32, NEW n \in U32, NEW p \in Seq(Octet), NEW q \in Seq(Octet),
         NEW x \in Seq(Octet), NEW y \in Seq(Octet),
         (Word(m) \o p) \o x = (Word(n) \o q) \o y
  PROVE  BothSame(m, n, p \o x, q \o y)
<1>1. Word(m) \in Seq(Octet) /\ Word(n) \in Seq(Octet)
  BY WordOfNumber
<1>2. Associate(Word(m), p, x)
  BY <1>1, BytesAssociate
<1>3. Associate(Word(n), q, y)
  BY <1>1, BytesAssociate
<1>4. (p \o x) \in Seq(Octet) /\ (q \o y) \in Seq(Octet)
  BY OctetsJoined
<1>5. Word(m) \o (p \o x) = Word(n) \o (q \o y)
  BY <1>2, <1>3, Zenon DEF Associate
<1> QED
  BY <1>4, <1>5, WordsUnjoined

LEMMA LeafOwn ==
  ASSUME NEW t \in Type, Kind(t) \in Leaf, NEW v \in Objects[t], NEW w \in Objects[t],
         NEW x \in Seq(Octet), NEW y \in Seq(Octet), LeafBytes(t, v) \o x = LeafBytes(t, w) \o y
  PROVE  v = w
<1>0. LeafShape(t, v) /\ LeafShape(t, w)
  BY ObjectShape
<1>1. CASE Kind(t) \in Scalar
  <2>1. PICK m \in U32 : v = <<m>>
    BY <1>0, <1>1 DEF LeafShape, Scalar
  <2>2. PICK n \in U32 : w = <<n>>
    BY <1>0, <1>1 DEF LeafShape, Scalar
  <2>3. LeafBytes(t, v) = Word(m) /\ LeafBytes(t, w) = Word(n)
    BY <1>1, <2>1, <2>2 DEF LeafBytes, Scalar
  <2>4. Word(m) \o x = Word(n) \o y
    BY <2>3
  <2>5. BothSame(m, n, x, y)
    BY <2>4, WordsUnjoined
  <2> QED
    BY <2>1, <2>2, <2>5 DEF BothSame
<1>2. CASE Kind(t) = "u64"
  <2>1. PICK h \in U32, l \in U32 : v = <<h, l>>
    BY <1>0, <1>2 DEF LeafShape, Scalar
  <2>2. PICK i \in U32, j \in U32 : w = <<i, j>>
    BY <1>0, <1>2 DEF LeafShape, Scalar
  <2>3. LeafBytes(t, v) = Word(h) \o Word(l) /\ LeafBytes(t, w) = Word(i) \o Word(j)
    BY <1>2, <2>1, <2>2 DEF LeafBytes
  <2>4. /\ Word(h) \in Seq(Octet) /\ Word(l) \in Seq(Octet)
        /\ Word(i) \in Seq(Octet) /\ Word(j) \in Seq(Octet)
    BY WordOfNumber
  <2>5. (Word(h) \o Word(l)) \o x = (Word(i) \o Word(j)) \o y
    BY <2>3
  <2>6. BothSame(h, i, Word(l) \o x, Word(j) \o y)
    BY <2>4, <2>5, HeadingUnjoined
  <2>7. BothSame(l, j, x, y)
    <3>1. Word(l) \o x = Word(j) \o y
      BY <2>6 DEF BothSame
    <3> QED
      BY <3>1, WordsUnjoined
  <2> QED
    BY <2>1, <2>2, <2>6, <2>7 DEF BothSame
<1>3. CASE Kind(t) = "fixed"
  <2>1. v \in Seq(Octet) /\ w \in Seq(Octet) /\ Len(v) = Len(w)
    BY <1>0, <1>3 DEF LeafShape, Scalar
  <2>2. put_bytes(v) \o x = put_bytes(w) \o y
    BY <1>3 DEF LeafBytes
  <2> QED
    BY <2>1, <2>2, PutBytesUnjoined
<1>4. CASE Kind(t) = "bytes"
  <2>1. v \in Seq(Octet) /\ w \in Seq(Octet) /\ Len(v) \in U32 /\ Len(w) \in U32
    BY <1>0, <1>4 DEF LeafShape, Scalar
  <2>2. (Word(Len(v)) \o put_bytes(v)) \o x = (Word(Len(w)) \o put_bytes(w)) \o y
    BY <1>4 DEF LeafBytes
  <2>3. put_bytes(v) \in Seq(Octet) /\ put_bytes(w) \in Seq(Octet)
    BY <2>1, PutBytesPads
  <2>4. BothSame(Len(v), Len(w), put_bytes(v) \o x, put_bytes(w) \o y)
    BY <2>1, <2>2, <2>3, HeadingUnjoined
  <2> QED
    BY <2>1, <2>4, PutBytesUnjoined DEF BothSame
<1> QED
  BY <1>1, <1>2, <1>3, <1>4 DEF Leaf, is_bytes

\* Two parts behind the same bytes.
SameBytes(b, c) == b = c
LEMMA NextUnjoined ==
  ASSUME NEW o \in Seq(Octet), NEW a \in Seq(Octet), NEW b \in Seq(Octet),
         NEW r \in Seq(Octet), NEW s \in Seq(Octet), (o \o a) \o r = (o \o b) \o s
  PROVE  SameBytes(a \o r, b \o s)
<1> DEFINE x == a \o r
           y == b \o s
<1>1. Associate(o, a, r)
  BY BytesAssociate
<1>2. Associate(o, b, s)
  BY BytesAssociate
<1>3. o \o x = o \o y
  BY <1>1, <1>2, Zenon DEF Associate
<1>4. x \in Seq(Octet) /\ y \in Seq(Octet)
  BY OctetsJoined
<1> HIDE DEF x, y
<1>5. o = o /\ x = y
  BY <1>3, <1>4, Unjoined
<1> QED
  BY <1>5 DEF SameBytes, x, y

\* Joined bytes with x behind them begin with the first i of the parts.
BeginsAt(F, n, x, i) == \E r \in Seq(Octet) : F[n] \o x = F[i] \o r
LEMMA BeginsWith ==
  ASSUME NEW n \in Nat, NEW p, \A i \in 1..n : IsBytes(p[i]), NEW F, Joined(F, p, n),
         NEW x \in Seq(Octet), NEW i \in 0..n
  PROVE  BeginsAt(F, n, x, i)
<1> DEFINE Begins(k) == \E r \in Seq(Octet) : F[n] \o x = F[n - k] \o r
           T == {k \in Nat : k <= n => Begins(k)}
<1>1. \A j \in 0..n : F[j] \in Seq(Octet)
  BY JoinedBytes DEF IsBytes
<1>2. \A j \in 1..n : F[j] = F[j - 1] \o p[j] /\ p[j] \in Seq(Octet)
  BY Zenon DEF Joined, IsBytes
<1>3. Begins(0)
  <2>1. n - 0 = n
    OBVIOUS
  <2>2. F[n] \o x = F[n - 0] \o x
    BY <2>1, Zenon
  <2> QED
    BY <2>2, Zenon
<1>4. ASSUME NEW k \in Nat, k + 1 <= n, Begins(k)
      PROVE  Begins(k + 1)
  <2> DEFINE j == n - k
  <2>1. j \in 1..n /\ n - (k + 1) = j - 1 /\ j - 1 \in 0..n
    BY <1>4
  <2>2. PICK r \in Seq(Octet) : F[n] \o x = F[j] \o r
    BY <1>4
  <2> HIDE DEF j
  <2>3. F[j] = F[j - 1] \o p[j] /\ p[j] \in Seq(Octet)
    BY <1>2, <2>1, Zenon
  <2>7. F[j - 1] \in Seq(Octet)
    BY <1>1, <2>1, Zenon
  <2>8. Associate(F[j - 1], p[j], r)
    BY <2>3, <2>7, BytesAssociate
  <2>4. F[j] \o r = F[j - 1] \o (p[j] \o r)
    BY <2>3, <2>8, Zenon DEF Associate
  <2>5. p[j] \o r \in Seq(Octet)
    BY <2>3, OctetsJoined, Zenon
  <2>6. F[n] \o x = F[j - 1] \o (p[j] \o r)
    BY <2>2, <2>4, Zenon
  <2> QED
    BY <2>1, <2>5, <2>6, Zenon
<1> HIDE DEF Begins
<1>5. 0 \in T
  BY <1>3
<1>6. \A k \in Nat : k \in T => k + 1 \in T
  BY <1>4
<1>7. Nat \subseteq T
  <2> HIDE DEF T
  <2> QED
    BY <1>5, <1>6, EveryNat
<1> DEFINE l == n - i
<1>8. l \in Nat /\ l <= n /\ n - l = i
  OBVIOUS
<1> HIDE DEF l
<1>9. Begins(l)
  BY <1>7, <1>8
<1>10. \E r \in Seq(Octet) : F[n] \o x = F[n - l] \o r
  BY <1>9, Zenon DEF Begins
<1> QED
  BY <1>8, <1>10, Zenon DEF BeginsAt

LEMMA PartsOwn ==
  ASSUME RecursiveTypes, RecursiveValues, NEW t \in Type, HasParts(t), NEW v \in Objects[t], NEW w \in Objects[t],
         \A i \in 1..Len(v) : Own(Component(t, i), v[i]),
         NEW n \in Nat, n = Len(v), n = Len(w),
         NEW p, NEW M, CodedParts(t, v, p, M), NEW F, Joined(F, p, n),
         NEW q, NEW N, CodedParts(t, w, q, N), NEW G, Joined(G, q, n),
         NEW x \in Seq(Octet), NEW y \in Seq(Octet), F[n] \o x = G[n] \o y
  PROVE  v = w
<1>1. /\ Tuple(v) /\ Tuple(w)
      /\ \A i \in 1..n : Component(t, i) \in Type /\ v[i] \in Objects[Component(t, i)]
      /\ \A i \in 1..n : w[i] \in Objects[Component(t, i)]
  BY ObjectParts
<1>2. \A i \in 1..n : /\ IsCode(Component(t, i), v[i], p[i], M[i]) /\ M[i] # {}
                       /\ IsCode(Component(t, i), w[i], q[i], N[i]) /\ N[i] # {}
  BY DEF CodedParts, PartsCoded, Enough
<1>3. \A i \in 1..n : IsBytes(p[i]) /\ IsBytes(q[i])
  BY <1>2 DEF IsCode
<1>4. /\ F[0] = << >> /\ \A i \in 1..n : F[i] = F[i - 1] \o p[i]
      /\ G[0] = << >> /\ \A i \in 1..n : G[i] = G[i - 1] \o q[i]
  BY Zenon DEF Joined
<1>5. \A i \in 0..n : F[i] \in Seq(Octet)
  BY <1>3, JoinedBytes DEF IsBytes
<1> DEFINE T == {k \in Nat : k <= n => F[k] = G[k] /\ \A j \in 1..k : v[j] = w[j]}
<1>6. 0 \in T
  BY <1>4
<1>7. ASSUME NEW k \in Nat, k + 1 <= n, F[k] = G[k]
      PROVE  v[k + 1] = w[k + 1] /\ F[k + 1] = G[k + 1]
  <2> DEFINE i == k + 1
             e == Component(t, i)
  <2>1. i \in 1..n /\ i \in 0..n /\ k \in 0..n /\ i - 1 = k
    BY <1>7
  <2> HIDE DEF i
  <2>2. F[i] = F[k] \o p[i] /\ G[i] = F[k] \o q[i]
    BY <1>4, <1>7, <2>1
  <2>3. p[i] \in Seq(Octet) /\ q[i] \in Seq(Octet) /\ F[k] \in Seq(Octet)
    <3>1. IsBytes(p[i]) /\ IsBytes(q[i])
      BY <1>3, <2>1, Zenon
    <3> QED
      BY <1>5, <2>1, <3>1 DEF IsBytes
  <2>4. BeginsAt(F, n, x, i) /\ BeginsAt(G, n, y, i)
    BY <1>3, <2>1, BeginsWith
  <2>5. PICK r \in Seq(Octet) : F[n] \o x = F[i] \o r
    BY <2>4, Zenon DEF BeginsAt
  <2>6. PICK s \in Seq(Octet) : G[n] \o y = G[i] \o s
    BY <2>4, Zenon DEF BeginsAt
  <2>7. (F[k] \o p[i]) \o r = (F[k] \o q[i]) \o s
    BY <2>2, <2>5, <2>6, Zenon
  <2> DEFINE f == F[k]
             a == p[i]
             b == q[i]
  <2>8. (f \o a) \o r = (f \o b) \o s /\ f \in Seq(Octet) /\ a \in Seq(Octet) /\ b \in Seq(Octet)
    BY <2>3, <2>7
  <2> HIDE DEF f, a, b
  <2>9. SameBytes(a \o r, b \o s)
    BY <2>8, NextUnjoined
  <2>10. p[i] \o r = q[i] \o s
    BY <2>9 DEF SameBytes, a, b
  <2>11. Own(e, v[i]) /\ w[i] \in Objects[e] /\ v[i] \in Objects[e] /\ e \in Type
    BY <1>1, <2>1
  <2>12. IsCode(e, v[i], p[i], M[i]) /\ M[i] # {} /\ IsCode(e, w[i], q[i], N[i]) /\ N[i] # {}
    BY <1>2, <2>1
  <2> HIDE DEF e
  <2>13. v[i] = w[i]
    <3> DEFINE d == v[i]
               g == w[i]
               K == M[i]
               L == N[i]
    <3>1. Own(e, d) /\ g \in Objects[e] /\ IsCode(e, d, a, K) /\ K # {} /\ IsCode(e, g, b, L) /\ L # {}
      BY <2>11, <2>12 DEF a, b
    <3> HIDE DEF d, g, K, L
    <3>2. \A z \in Seq(Octet) : \A u \in Seq(Octet) : a \o z = b \o u => d = g
      BY <3>1, Zenon DEF Own
    <3>3. a \o r = b \o s
      BY <2>10, Zenon DEF a, b
    <3>4. d = g
      BY <3>2, <3>3, Zenon
    <3> QED
      BY <3>4 DEF d, g
  <2>14. IsCode(e, v[i], q[i], N[i])
    BY <2>12, <2>13
  <2>15. p[i] = q[i]
    BY <2>11, <2>12, <2>14, CodeIsUnique
  <2> QED
    BY <2>2, <2>13, <2>15 DEF i
<1>8. ASSUME NEW k \in Nat, k \in T
      PROVE  k + 1 \in T
  <2>1. CASE ~(k + 1 <= n)
    BY <2>1
  <2>2. CASE k + 1 <= n
    <3>1. F[k] = G[k] /\ \A j \in 1..k : v[j] = w[j]
      BY <1>8, <2>2
    <3>2. v[k + 1] = w[k + 1] /\ F[k + 1] = G[k + 1]
      BY <1>7, <2>2, <3>1
    <3>3. \A j \in 1..k + 1 : j = k + 1 \/ j \in 1..k
      OBVIOUS
    <3> QED
      BY <3>1, <3>2, <3>3
  <2> QED
    BY <2>1, <2>2
<1>9. Nat \subseteq T
  <2> HIDE DEF T
  <2> QED
    BY <1>6, <1>8, EveryNat
<1>10. \A j \in 1..n : v[j] = w[j]
  BY <1>9
<1> QED
  BY <1>1, <1>10, TuplesEqual

LEMMA UnionOwn ==
  ASSUME NEW t \in Type, Kind(t) = "union", NEW v \in Objects[t], NEW w \in Objects[t],
         Selects(t, Disc(v)) => Own(ArmOf(t, v), Member(v)),
         NEW b, MemberBehind(t, v, b), NEW c, MemberBehind(t, w, c),
         NEW x \in Seq(Octet), NEW y \in Seq(Octet), b \o x = c \o y
  PROVE  v = w
<1>1. PICK p : /\ b = Word(Disc(v)) \o p /\ IsBytes(p)
               /\ Selects(t, Disc(v)) => \E M : IsCode(ArmOf(t, v), Member(v), p, M) /\ Enough(M)
  BY DEF MemberBehind
<1>2. PICK q : /\ c = Word(Disc(w)) \o q /\ IsBytes(q)
               /\ Selects(t, Disc(w)) => \E M : IsCode(ArmOf(t, w), Member(w), q, M) /\ Enough(M)
  BY DEF MemberBehind
<1>3. Disc(v) \in U32 /\ Disc(w) \in U32 /\ p \in Seq(Octet) /\ q \in Seq(Octet)
  BY <1>1, <1>2, ObjectMember DEF IsBytes
<1>4. (Word(Disc(v)) \o p) \o x = (Word(Disc(w)) \o q) \o y
  BY <1>1, <1>2, Zenon
<1>5. BothSame(Disc(v), Disc(w), p \o x, q \o y)
  BY <1>3, <1>4, HeadingUnjoined
<1>6. Disc(v) = Disc(w) /\ p \o x = q \o y
  BY <1>5, Zenon DEF BothSame
<1>7. CASE ~Selects(t, Disc(v))
  <2>1. v = NoMember(Disc(v)) /\ w = NoMember(Disc(w))
    BY <1>6, <1>7, ObjectMember
  <2> QED
    BY <1>6, <2>1, Zenon
<1>8. CASE Selects(t, Disc(v))
  <2> DEFINE e == ArmOf(t, v)
             m == Member(v)
             n == Member(w)
  <2>1. Selects(t, Disc(w)) /\ ArmOf(t, w) = e
    BY <1>6, <1>8, Zenon DEF ArmOf
  <2>2. n \in Objects[e] /\ Own(e, m)
    BY <1>8, <2>1, ObjectMember
  <2>3. PICK M : IsCode(e, m, p, M) /\ M # {}
    BY <1>1, <1>8 DEF Enough
  <2>4. PICK N : IsCode(e, n, q, N) /\ N # {}
    BY <1>2, <2>1 DEF Enough
  <2>5. v = Union(Disc(v), FieldNo(t, Disc(v)), m) /\ w = Union(Disc(w), FieldNo(t, Disc(w)), n)
    BY <1>8, <2>1, ObjectMember
  <2> HIDE DEF e, m, n
  <2>6. \A z \in Seq(Octet) : \A u \in Seq(Octet) : p \o z = q \o u => m = n
    BY <2>2, <2>3, <2>4, Zenon DEF Own
  <2>7. m = n
    BY <1>6, <2>6, Zenon
  <2> QED
    BY <1>6, <2>5, <2>7, Zenon
<1> QED
  BY <1>7, <1>8

LEMMA CodesOwn ==
  ASSUME RecursiveTypes, RecursiveValues, RecursiveArchives
  PROVE  \A t \in Type : \A v \in Objects[t] : Own(t, v)
<1> DEFINE P == [t \in Type |-> {v \in Objects[t] : Own(t, v)}]
<1>1. ASSUME NEW t \in Type, NEW v \in Objects[t], PartsIn(P, t, v)
      PROVE  Own(t, v)
  <2>0. \A e \in Type : \A z \in P[e] : Own(e, z)
    OBVIOUS
  <2> HIDE DEF P
  <2>1. ASSUME NEW w \in Objects[t], NEW b, NEW K, NEW c, NEW L,
               IsCode(t, v, b, K), K # {}, IsCode(t, w, c, L), L # {},
               NEW x \in Seq(Octet), NEW y \in Seq(Octet), b \o x = c \o y
        PROVE  v = w
    <3>1. Consists(t, v, b) /\ Consists(t, w, c)
      BY <2>1, CodeConsists
    <3>2. CASE Kind(t) \in Leaf
      <4>1. LeafBytes(t, v) \o x = LeafBytes(t, w) \o y
        BY <2>1, <3>1, <3>2, Zenon DEF Consists
      <4> QED
        BY <3>2, <4>1, LeafOwn
    <3>3. CASE HasParts(t)
      <4> DEFINE n == Len(v)
                 m == Len(w)
      <4>1. PICK p, M, F : CodedParts(t, v, p, M) /\ Joined(F, p, n) /\ b = Heading(t, v) \o F[n]
        BY <3>1, <3>3, Zenon DEF Consists, PartsJoined
      <4>2. PICK q, N, G : CodedParts(t, w, q, N) /\ Joined(G, q, m) /\ c = Heading(t, w) \o G[m]
        BY <3>1, <3>3, Zenon DEF Consists, PartsJoined
      <4>3. Counts(t, n) /\ Counts(t, m) /\ n \in Nat /\ m \in Nat
        BY <3>3, ObjectParts
      <4>4. F[n] \in Seq(Octet) /\ G[m] \in Seq(Octet)
        <5>1. (\A i \in 1..n : IsBytes(p[i])) /\ \A i \in 1..m : IsBytes(q[i])
          BY <4>1, <4>2 DEF CodedParts, PartsCoded, IsCode
        <5> HIDE DEF n, m
        <5>2. IsBytes(F[n]) /\ IsBytes(G[m])
          <6>1. n \in 0..n /\ m \in 0..m
            BY <4>3
          <6> QED
            BY <4>1, <4>2, <4>3, <5>1, <6>1, JoinedBytes
        <5> QED
          BY <5>2 DEF IsBytes
      <4>5. n = m /\ F[n] \o x = G[m] \o y
        <5>1. CASE Kind(t) \in {"vector", "pointer"}
          <6>1. n \in U32 /\ m \in U32
            BY <4>3, <5>1 DEF Counts
          <6>2. Heading(t, v) = Word(n) /\ Heading(t, w) = Word(m)
            BY <5>1, Zenon DEF Heading
          <6>3. (Word(n) \o F[n]) \o x = (Word(m) \o G[m]) \o y
            BY <2>1, <4>1, <4>2, <6>2, Zenon
          <6> DEFINE f == F[n]
                     g == G[m]
          <6>4. (Word(n) \o f) \o x = (Word(m) \o g) \o y /\ f \in Seq(Octet) /\ g \in Seq(Octet)
            BY <4>4, <6>3
          <6> HIDE DEF n, m, f, g
          <6>5. BothSame(n, m, f \o x, g \o y)
            BY <6>1, <6>4, HeadingUnjoined
          <6> QED
            BY <6>5, Zenon DEF BothSame, f, g
        <5>2. CASE Kind(t) \notin {"vector", "pointer"}
          <6>1. n = m
            BY <3>3, <4>3, <5>2 DEF Counts, HasParts, Container
          <6>2. Heading(t, v) = << >> /\ Heading(t, w) = << >>
            BY <5>2, Zenon DEF Heading
          <6>3. b = F[n] /\ c = G[m]
            <7> HIDE DEF n, m
            <7>1. << >> \o F[n] = F[n] /\ << >> \o G[m] = G[m]
              BY <4>4, ConcatEmptySeq
            <7> QED
              BY <4>1, <4>2, <6>2, <7>1, Zenon DEF n, m
          <6> QED
            BY <2>1, <6>1, <6>3, Zenon
        <5> QED
          BY <5>1, <5>2
      <4>6. \A i \in 1..n : Own(Component(t, i), v[i])
        BY <1>1, <2>0, <3>3, ObjectParts DEF PartsIn
      <4> HIDE DEF n, m
      <4>7. n = Len(v) /\ n = Len(w) /\ F[n] \o x = G[n] \o y /\ Joined(G, q, n)
        BY <4>2, <4>5, Zenon DEF n, m
      <4>8. \A i \in 1..Len(v) : Own(Component(t, i), v[i])
        BY <4>6 DEF n
      <4> QED
        BY <3>3, <4>1, <4>2, <4>3, <4>7, <4>8, PartsOwn
    <3>4. CASE Kind(t) = "union"
      <4>1. MemberBehind(t, v, b) /\ MemberBehind(t, w, c)
        BY <3>1, <3>4, Zenon DEF Consists
      <4>2. Selects(t, Disc(v)) => Own(ArmOf(t, v), Member(v))
        <5>1. SUFFICES ASSUME Selects(t, Disc(v))  PROVE Own(ArmOf(t, v), Member(v))
          OBVIOUS
        <5>2. ArmOf(t, v) \in Type /\ Member(v) \in P[ArmOf(t, v)]
          BY <1>1, <3>4, <5>1, ObjectMember DEF PartsIn
        <5> QED
          BY <2>0, <5>2
      <4> QED
        BY <2>1, <3>4, <4>1, <4>2, UnionOwn
    <3> QED
      BY <3>2, <3>3, <3>4, Kinds
  <2> QED
    BY <2>1, Zenon DEF Own
<1>2. ASSUME NEW t \in Type, NEW v \in Objects[t], PartsIn(P, t, v)
      PROVE  v \in P[t]
  BY <1>1, <1>2
<1> HIDE DEF P
<1>3. \A t \in Type : \A v \in Objects[t] : v \in P[t]
  BY <1>2, ByParts
<1> QED
  BY <1>3 DEF P

----------------------------------------------------------------------------
\* Two values of a root's type have the same message just when they are the same.
LEMMA MessagesApart ==
  ASSUME RecursiveTypes, RecursiveValues, RecursiveArchives, UsesObjects,
         NEW t \in Roots, NEW v \in Objects[t], NEW w \in Objects[t],
         NEW b, NEW K, IsCode(t, v, b, K), K # {}, NEW c, NEW L, IsCode(t, w, c, L), L # {},
         b = c
  PROVE  v = w
<1>1. t \in Type
  BY RootsAre
<1>2. Own(t, v)
  BY <1>1, CodesOwn
<1>3. << >> \in Seq(Octet)
  BY EmptySeq
<1>4. \A x \in Seq(Octet) : \A y \in Seq(Octet) : b \o x = c \o y => v = w
  BY <1>2, Zenon DEF Own
<1>5. b \o << >> = c \o << >>
  OBVIOUS
<1> QED
  BY <1>3, <1>4, <1>5, Zenon

\* What xdr_to_msg that does not throw has put is the object's code.
LEMMA EncodingIsCode ==
  ASSUME Recursive, UsesObjects, HoldValues, NEW o \in Object, ~Failed(Encoding(obj[o]))
  PROVE  \E K : IsCode(root, obj[o], Encoding(obj[o]).out, K) /\ K # {}
<1> DEFINE e == Encoding(obj[o])
           v == obj[o]
<1>1. /\ RecursiveTypes /\ RecursiveValues /\ RecursiveArchives /\ Unlimited \in Nat
      /\ root \in Roots /\ v \in Objects[root]
  BY ObjectsAreRoots
<1>2. SerialSize(root, v) # Unsized
  BY UnsizedFails DEF Failed
<1>3. PICK c, M : IsMessage(root, v, c, M) /\ Enough(M) /\ IsCode(root, v, c, Entering(M))
  BY <1>1, <1>2, MessagesExist
<1>4. Marshaled(e, c, Unlimited \in M)
  BY <1>1, <1>3 DEF IsMessage, Goes, Encoding
<1>5. ~Failed(e)
  OBVIOUS
<1> HIDE DEF e, v
<1>6. e.out = c
  BY <1>4, <1>5 DEF Marshaled, Failed
<1>7. Entering(M) # {}
  <2>1. M \subseteq Nat
    BY <1>3 DEF IsMessage
  <2>2. Enough(Entering(M))
    BY <1>3, <2>1, EnoughEntering
  <2> QED
    BY <2>2 DEF Enough
<1>8. IsCode(root, v, e.out, Entering(M)) /\ Entering(M) # {}
  BY <1>3, <1>6, <1>7
<1> QED
  BY <1>8, Zenon DEF e, v

(***************************************************************************)
(* OrderAgrees: for any types, operator<=> of the objects' values is a     *)
(* total order (two values stand in one of three ways, turned round when   *)
(* they are swapped, and the order is passed on to a third value),         *)
(* operator== says which are the same, and these are just those that       *)
(* xdr_to_msg gives the same message (types.h:648 pointers, 979 structs,   *)
(* 1018 unions).                                                           *)
(***************************************************************************)
THEOREM ObjectsCompared ==
  ASSUME Recursive, UsesObjects
  PROVE  ObjSpec => []OrderAgrees
<1>1. HoldValues => OrderAgrees
  <2> SUFFICES ASSUME HoldValues
               PROVE  OrderAgrees
    OBVIOUS
  <2> DEFINE a == obj[1]
             b == obj[2]
             c == Compare(root, a, b)
             d == Compare(root, b, a)
             e == Equal(root, a, b)
             p == Encoding(a)
             q == Encoding(b)
  <2>1. /\ RecursiveTypes /\ RecursiveValues /\ RecursiveArchives /\ RecursivePairs
        /\ 1 \in Object /\ 2 \in Object /\ root \in Roots /\ root \in Type
        /\ a \in Objects[root] /\ b \in Objects[root] /\ Samples[root] \subseteq Objects[root]
    <3>1. 1 \in Object /\ 2 \in Object
      BY DEF Object
    <3>2. root \in Roots /\ root \in Type /\ a \in Objects[root] /\ b \in Objects[root]
      BY <3>1, ObjectsAreRoots
    <3> QED
      BY <3>1, <3>2, RootsAre DEF Recursive
  <2>2. Ordered(root, a, b)
    BY <2>1, ObjectsOrdered
  <2>3. c \in Signs /\ (c = 0 <=> a = b) /\ (e <=> a = b) /\ d = -c
    BY <2>2, Zenon DEF Ordered
  <2>4. \A s \in Samples[root] : Passes(root, a, b, s)
    BY <2>1, OrderPasses
  <2>5. ASSUME ~Failed(p), ~Failed(q)
        PROVE  e <=> p.out = q.out
    <3>1. PICK K : IsCode(root, a, p.out, K) /\ K # {}
      BY <2>1, <2>5, EncodingIsCode
    <3>2. PICK L : IsCode(root, b, q.out, L) /\ L # {}
      BY <2>1, <2>5, EncodingIsCode
    <3>3. a = b => p.out = q.out
      BY Zenon
    <3>4. p.out = q.out => a = b
      BY <2>1, <3>1, <3>2, MessagesApart
    <3> QED
      BY <2>3, <3>3, <3>4
  <2> HIDE DEF c, d, e, p, q
  <2>6. /\ d = -c
        /\ e <=> c = 0
        /\ ~Failed(p) /\ ~Failed(q) => (e <=> p.out = q.out)
    BY <2>3, <2>5
  <2>7. \A s \in Samples[root] :
          Compare(root, a, b) <= 0 /\ Compare(root, b, s) <= 0 => Compare(root, a, s) <= 0
    BY <2>4, Zenon DEF Passes
  <2> QED
    BY <2>6, <2>7, Zenon DEF OrderAgrees, c, d, e, p, q
<1>2. ~Usable => OrderAgrees
  BY Zenon DEF OrderAgrees
<1>3. ObjInv => OrderAgrees
  BY <1>1, <1>2 DEF ObjInv
<1> QED
  BY <1>3, ObjectsHold, PTL

----------------------------------------------------------------------------
(***************************************************************************)
(* What a message that is accepted was read as: its bytes are the value's, *)
(* but for words whose last byte is to be 1, as that of TRUE is.           *)
(***************************************************************************)
\* The last byte of the word that byte k is in.
LastByte(k) == ((k - 1) \div 4) * 4 + 4
Alike(a, b) ==
  /\ a.at + Len(b) <= Len(a.in)
  /\ \A k \in 1..Len(b) : a.in[a.at + k] = b[k] \/ b[LastByte(k)] = 1
\* z: the archive that has read b from a.
Took(a, z, b) == z = Skip(a, Len(b)) /\ Alike(a, b)

LEMMA LastByteIs ==
  ASSUME NEW m \in Nat, m % 4 = 0, NEW k \in Nat, k # 0
  PROVE  /\ LastByte(k) \in Nat /\ k <= LastByte(k)
         /\ k <= m => LastByte(k) <= m
         /\ LastByte(m + k) = m + LastByte(k)
<1> DEFINE j == m \div 4
           i == (k - 1) \div 4
<1>1. j \in Nat /\ i \in Nat /\ m = 4 * j /\ 4 * i <= k - 1 /\ k - 1 < 4 * i + 4
  BY SMT
<1>2. ((m + k) - 1) \div 4 = j + i
  BY <1>1, SMT
<1> HIDE DEF i, j
<1>3. LastByte(k) = 4 * i + 4 /\ LastByte(m + k) = 4 * (j + i) + 4
  <2>1. LastByte(k) = i * 4 + 4 /\ LastByte(m + k) = (((m + k) - 1) \div 4) * 4 + 4
    BY Zenon DEF LastByte, i
  <2> QED
    BY <1>1, <1>2, <2>1
<1> QED
  BY <1>1, <1>3

LEMMA SkipTwice ==
  ASSUME NEW a \in Getters, NEW m \in Nat, NEW n \in Nat
  PROVE  Skip(Skip(a, m), n) = Skip(a, m + n)
<1> DEFINE x == a.at
           b == Skip(a, m)
           y == x + (m + n)
           z == x + m
<1>1. x \in Nat
  BY DEF Getters
<1>2. b = [a EXCEPT !.at = z] /\ Skip(a, m + n) = [a EXCEPT !.at = y]
  BY Zenon DEF Skip
<1>3. Skip(b, n) = [b EXCEPT !.at = y]
  <2>1. b.at = z
    <3> HIDE DEF z, b
    <3> QED
      BY <1>2 DEF Getters
  <2>2. z + n = y
    BY <1>1
  <2>3. Skip(b, n) = [b EXCEPT !.at = b.at + n]
    BY Zenon DEF Skip
  <2> QED
    BY <2>1, <2>2, <2>3, Zenon
<1> HIDE DEF y, z, b
<1>4. [b EXCEPT !.at = y] = [a EXCEPT !.at = y]
  BY <1>2 DEF Getters
<1> QED
  BY <1>2, <1>3, <1>4 DEF b

\* Reading goes on.
LEMMA AlikeBoth ==
  ASSUME NEW p, IsBytes(p), NEW q, IsBytes(q), NEW a, GetsWords(a),
         Alike(a, p), Alike(Skip(a, Len(p)), q)
  PROVE  Alike(a, p \o q)
<1> DEFINE m == Len(p)
           n == Len(q)
           x == a.at
           l == Len(a.in)
           c == p \o q
           s == Skip(a, m)
<1>1. p \in Seq(Octet) /\ q \in Seq(Octet) /\ m % 4 = 0
  BY DEF IsBytes
<1>2. m \in Nat /\ n \in Nat /\ Len(c) = m + n
  BY BytesJoined
<1>3. x \in Nat /\ l \in Nat
  BY GetterTypes
<1>4. (\A k \in 1..m : c[k] = p[k]) /\ (\A k \in m + 1 .. m + n : c[k] = q[k - m])
  BY <1>1, OctetsJoined
<1>5. x + m <= l /\ \A k \in 1..m : a.in[x + k] = p[k] \/ p[LastByte(k)] = 1
  BY DEF Alike
<1>6. s.in = a.in /\ s.at = x + m
  BY <1>1, <1>2, <1>5, SkipStays
<1>7. (x + m) + n <= l /\ \A k \in 1..n : a.in[(x + m) + k] = q[k] \/ q[LastByte(k)] = 1
  BY <1>6 DEF Alike
<1> HIDE DEF m, n, x, l, c, s
<1>8. ASSUME NEW k \in 1..m + n
      PROVE  a.in[x + k] = c[k] \/ c[LastByte(k)] = 1
  <2>1. CASE k <= m
    <3>1. k \in 1..m /\ k \in Nat /\ k # 0
      BY <1>2, <2>1
    <3>2. LastByte(k) \in 1..m
      <4>1. /\ LastByte(k) \in Nat /\ k <= LastByte(k)
            /\ k <= m => LastByte(k) <= m
        BY <1>1, <1>2, <3>1, LastByteIs, Zenon
      <4> QED
        BY <1>2, <2>1, <3>1, <4>1
    <3> QED
      BY <1>4, <1>5, <3>1, <3>2
  <2>2. CASE k > m
    <3> DEFINE i == k - m
    <3>1. i \in 1..n /\ i \in Nat /\ i # 0 /\ k = m + i /\ k \in m + 1 .. m + n
          /\ x + k = (x + m) + i
      BY <1>2, <1>3, <2>2
    <3>2. n % 4 = 0
      BY DEF IsBytes, n
    <3>3. LastByte(k) = m + LastByte(i) /\ LastByte(i) \in 1..n
      <4>1. LastByte(i) \in Nat /\ i <= LastByte(i) /\ LastByte(i) <= n
        <5> HIDE DEF i
        <5>1. /\ LastByte(i) \in Nat /\ i <= LastByte(i)
              /\ i <= n => LastByte(i) <= n
          BY <1>2, <3>1, <3>2, LastByteIs, Zenon
        <5> QED
          BY <3>1, <5>1
      <4>2. LastByte(m + i) = m + LastByte(i)
        <5> HIDE DEF i
        <5> QED
          BY <1>1, <1>2, <3>1, LastByteIs, Zenon
      <4> QED
        BY <3>1, <4>1, <4>2
    <3> DEFINE j == LastByte(i)
    <3> HIDE DEF i, j
    <3>4. j \in 1..n /\ m + j \in m + 1 .. m + n /\ (m + j) - m = j /\ k - m = i
      BY <1>2, <3>1, <3>3 DEF i, j
    <3>5. c[k] = q[i] /\ c[LastByte(k)] = q[j]
      <4>1. c[k] = q[k - m] /\ c[m + j] = q[(m + j) - m]
        BY <1>4, <3>1, <3>4
      <4> QED
        BY <3>3, <3>4, <4>1 DEF j
    <3>6. a.in[(x + m) + i] = q[i] \/ q[j] = 1
      BY <1>7, <3>1 DEF j
    <3> QED
      BY <3>1, <3>5, <3>6
  <2> QED
    BY <1>2, <2>1, <2>2
<1>9. x + (m + n) <= l
  BY <1>2, <1>3, <1>7
<1> QED
  BY <1>2, <1>8, <1>9 DEF Alike, x, l, c, m, n

LEMMA TookBoth ==
  ASSUME NEW p, IsBytes(p), NEW q, IsBytes(q), NEW a, GetsWords(a), NEW y, NEW z,
         Took(a, y, p), Took(y, z, q)
  PROVE  Took(a, z, p \o q)
<1> DEFINE m == Len(p)
           n == Len(q)
<1>1. a \in Getters /\ m \in Nat /\ n \in Nat /\ Len(p \o q) = m + n
  BY BytesJoined, GetterTypes
<1>2. y = Skip(a, m) /\ z = Skip(y, n) /\ Alike(a, p) /\ Alike(y, q)
  BY DEF Took
<1>3. Alike(a, p \o q)
  BY <1>2, AlikeBoth
<1>4. z = Skip(a, m + n)
  BY <1>1, <1>2, SkipTwice
<1> QED
  BY <1>1, <1>3, <1>4 DEF Took

LEMMA TookNothing ==
  ASSUME NEW a, GetsWords(a)
  PROVE  Took(a, a, << >>)
<1>1. Len(<< >>) = 0 /\ \A k \in 1..0 : FALSE
  BY NoBytes
<1>2. a \in Getters /\ a.at \in Nat /\ a.at <= Len(a.in)
  BY GetterTypes
<1>3. Skip(a, 0) = a
  BY <1>2, GetNothing
<1>4. Alike(a, << >>)
  BY <1>1, <1>2 DEF Alike
<1> QED
  BY <1>1, <1>3, <1>4 DEF Took

----------------------------------------------------------------------------
\* What was read is the code of the value that it gives, for some limits and for this one.
CodeFor(L, t, v, b) == \E K : IsCode(t, v, b, K) /\ Enough(K) /\ L \in K
ReadAs(t, a, r) ==
  ~Failed(r.a) => \E b : CodeFor(a.limit, t, r.v, b) /\ Took(a, r.a, b)
ReadsCode(L, e) ==
  \A x \in Objects[e] : \A a :
    GetsWords(a) /\ ~Failed(a) /\ a.limit = L => ReadAs(e, a, UnarchivePart(e, x, a))

LEMMA ShownAlike ==
  ASSUME NEW a, NEW b, Shows(a, b)
  PROVE  Alike(a, b)
BY DEF Shows, Alike

\* Any number but 0 is read as TRUE.
LEMMA BoolAlike ==
  ASSUME NEW t \in Type, Kind(t) = "bool", NEW x \in Objects[t], NEW a, GetsWords(a), ~Failed(a),
         ~Failed(GetLeaf(t, x, a).a)
  PROVE  Alike(a, LeafBytes(t, GetLeaf(t, x, a).v))
<1> DEFINE n == Number(WordAt(a, 0))
           s == Skip(a, 4)
           u == from_uint(t, n)
           r == GetLeaf(t, x, a)
           b == LeafBytes(t, r.v)
<1>1. r = GetScalar(t, x, a)
  BY DEF GetLeaf
<1>2. HasRoom(a, 4)
  <2>1. CASE ~HasRoom(a, 4)
    <3> DEFINE z == Raise(a, "overflow")
    <3>1. GetScalar(t, x, a) = Gives(x, z)
      BY <2>1 DEF GetScalar
    <3>2. Failed(z)
      <4>1. "overflow" \in Exception /\ "overflow" # "none"
        BY DEF Exception
      <4> QED
        BY <4>1, RaiseStays
    <3> HIDE DEF z
    <3>3. r.a = z
      BY <1>1, <3>1, GivesIs
    <3> QED
      BY <3>2, <3>3
  <2> QED
    BY <2>1
<1>3. a.at + 0 + 4 <= Len(a.in) /\ a.at + 4 <= Len(a.in) /\ a.at \in Nat /\ Len(a.in) \in Nat
  BY <1>2, RoomFor, GetterTypes
<1>4. /\ n \in U32 /\ Word(n) = WordAt(a, 0)
      /\ \A j \in 1..4 : WordAt(a, 0)[j] = a.in[a.at + 0 + j]
  BY <1>3, WordThere
<1>5. \A j \in 1..4 : a.in[a.at + j] = Word(n)[j]
  <2>1. \A j \in 1..4 : a.at + 0 + j = a.at + j
    BY <1>3
  <2> QED
    BY <1>4, <2>1
<1>6. r.v = <<u>>
  <2>1. r = Scan(t, n, s)
    BY <1>1, <1>2 DEF GetScalar
  <2> HIDE DEF n, s
  <2> QED
    BY <2>1 DEF Scan, Gives
<1>7. u = IF n # 0 THEN 1 ELSE n
  BY DEF from_uint
<1> HIDE DEF n, u, r
<1>8. b = Word(u)
  <2>1. r.v[1] = u
    BY <1>6
  <2> QED
    BY <2>1 DEF LeafBytes
<1>9. u \in U32
  BY <1>4, <1>7, SMT DEF U32
<1>10. Len(b) = 4
  BY <1>8, <1>9, WordOfNumber
<1> HIDE DEF b
<1>11. ASSUME NEW k \in 1..4
       PROVE  a.in[a.at + k] = b[k] \/ b[LastByte(k)] = 1
  <2>1. CASE n = 0
    BY <1>5, <1>7, <1>8, <2>1
  <2>2. CASE n # 0
    <3>1. LastByte(k) = 4
      <4>1. (k - 1) \div 4 = 0
        BY SMT
      <4> QED
        BY <4>1 DEF LastByte
    <3>2. b = Word(1)
      BY <1>7, <1>8, <2>2
    <3>3. Word(1)[4] = 1
      BY SMT DEF Word
    <3> QED
      BY <3>1, <3>2, <3>3
  <2> QED
    BY <2>1, <2>2
<1> QED
  BY <1>3, <1>10, <1>11 DEF Alike, b, r

LEMMA LeafRead ==
  ASSUME RecursiveArchives, NEW t \in Type, Kind(t) \in Leaf, NEW x \in Objects[t],
         NEW a, GetsWords(a), ~Failed(a)
  PROVE  LET r == GetLeaf(t, x, a) IN
         ~Failed(r.a) => r.v \in Objects[t] /\ Took(a, r.a, LeafBytes(t, r.v))
<1> DEFINE r == GetLeaf(t, x, a)
           b == LeafBytes(t, r.v)
<1> SUFFICES ASSUME ~Failed(r.a)
             PROVE  r.v \in Objects[t] /\ Took(a, r.a, b)
  OBVIOUS
<1>1. r.v \in Objects[t]
  BY LeafGot
<1>2. Kind(t) = "fixed" => x \in Seq(Octet) /\ Len(x) = Types[t].len
  BY BytesObjects DEF is_bytes
<1>3. Reads(t, a, r)
  BY <1>2, GetStaysWithin DEF Type
<1>4. LeafShape(t, r.v)
  BY <1>1, ObjectShape
<1>5. Alike(a, b)
  <2>1. CASE Kind(t) = "bool"
    BY <2>1, BoolAlike
  <2>2. CASE Kind(t) # "bool"
    <3>1. Shows(a, b)
      BY <1>3, <2>2 DEF Reads
    <3> QED
      BY <3>1, ShownAlike
  <2> QED
    BY <2>1, <2>2
<1> HIDE DEF r
<1>6. r.a = Skip(a, LeafSize(t, r.v)) /\ Len(b) = LeafSize(t, r.v)
  BY <1>3, <1>4, LeafBytesFit DEF Reads
<1> QED
  BY <1>1, <1>5, <1>6, Zenon DEF Took

\* A length word or a discriminant.
LEMMA NumberRead ==
  ASSUME RecursiveArchives, NEW t \in Type, Kind(t) \in {"u32", "enum"}, NEW a, GetsWords(a), ~Failed(a),
         NEW r, r = UnarchivePart(t, << 0 >>, a), ~Failed(r.a)
  PROVE  \E n \in U32 : r.v = <<n>> /\ Took(a, r.a, Word(n))
<1>1. Kind(t) \in Leaf /\ a \in Getters /\ a.kind = "get"
  BY GetterTypes DEF Leaf, Scalar, Getters
<1>2. Objects[t] = {<<k>> : k \in U32} /\ <<0>> \in Objects[t]
  <2>1. 0 \in U32
    BY SMT DEF U32
  <2> QED
    BY <2>1, NumberObjects
<1>3. r = GetLeaf(t, <<0>>, a)
  <2> DEFINE z == <<0>>
  <2> HIDE DEF z
  <2>1. UnarchivePart(t, z, a) = Unarchive(t, z, a)
    BY <1>1, <1>2 DEF RecursiveArchives, z
  <2>2. Unarchive(t, z, a) = GetLeaf(t, z, a)
    BY <1>1 DEF Unarchive, Get
  <2> QED
    BY <2>1, <2>2 DEF z
<1>4. r.v \in Objects[t] /\ Took(a, r.a, LeafBytes(t, r.v))
  BY <1>1, <1>2, <1>3, LeafRead
<1>5. PICK n \in U32 : r.v = <<n>>
  BY <1>2, <1>4
<1>6. LeafBytes(t, r.v) = Word(n)
  <2>1. r.v[1] = n
    BY <1>5
  <2> QED
    BY <2>1 DEF LeafBytes
<1> QED
  BY <1>4, <1>5, <1>6, Zenon

LEMMA LeafReadAs ==
  ASSUME RecursiveArchives, NEW t \in Type, Kind(t) \in Leaf, NEW L \in Nat
  PROVE  ReadsCode(L, t)
<1> SUFFICES ASSUME NEW x \in Objects[t], NEW a, GetsWords(a), ~Failed(a), a.limit = L,
                    ~Failed(UnarchivePart(t, x, a).a)
             PROVE  LET r == UnarchivePart(t, x, a) IN
                    \E b : CodeFor(a.limit, t, r.v, b) /\ Took(a, r.a, b)
  BY Zenon DEF ReadsCode, ReadAs
<1> DEFINE r == UnarchivePart(t, x, a)
<1>1. a \in Getters /\ a.kind = "get"
  BY GetterTypes DEF Getters
<1>2. r = GetLeaf(t, x, a)
  <2>1. r = Unarchive(t, x, a)
    BY <1>1 DEF RecursiveArchives
  <2> QED
    BY <1>1, <2>1 DEF Unarchive, Get
<1> HIDE DEF r
<1>3. ~Failed(r.a)
  BY DEF r
<1>4. r.v \in Objects[t] /\ Took(a, r.a, LeafBytes(t, r.v))
  BY <1>2, <1>3, LeafRead
<1>5. IsCode(t, r.v, LeafBytes(t, r.v), Nat)
  BY <1>4, LeafIsCode
<1> QED
  BY <1>4, <1>5, EnoughNat, Zenon DEF r, CodeFor

----------------------------------------------------------------------------
(***************************************************************************)
(* One turn of the loop over components: the next one is read, and those   *)
(* before it stay.                                                         *)
(***************************************************************************)
\* r, the value and the archive, with i components read.
Came(t, A, n, i, r) ==
  /\ r \in [v : Objects[t], a : A] /\ Len(r.v) <= n /\ Len(r.v) >= i
  /\ Kind(t) \notin Variable => Len(r.v) = n
TurnReads(t, i, r, q, p) ==
  q.a = p.a /\ q.v[i] = p.v /\ \A j \in 1..i - 1 : q.v[j] = r.v[j]

LEMMA TurnCame ==
  ASSUME RecursiveTypes, NEW t \in Type, HasParts(t), NEW n \in Nat, Counts(t, n),
         NEW A, Turns(A, Type), NEW i \in 1..n, NEW r, Came(t, A, n, i - 1, r), ~Failed(r.a),
         NEW q, q = LoadTurn(t, r, i)
  PROVE  /\ Came(t, A, n, i, q)
         /\ \E x \in Objects[Component(t, i)] :
              TurnReads(t, i, r, q, UnarchivePart(Component(t, i), x, r.a))
<1> DEFINE e == Component(t, i)
           y == ExtendAt(t, r.v, i)
           p == UnarchivePart(e, y[i], r.a)
           z == [y EXCEPT ![i] = p.v]
<1>1. i \in Nat /\ i - 1 \in Nat /\ e \in Type
  BY PartTypes
<1>2. /\ r.v \in Objects[t] /\ r.a \in A /\ Len(r.v) <= n /\ Len(r.v) >= i - 1
      /\ Kind(t) \notin Variable => Len(r.v) = n
  BY DEF Came
<1>3. Len(r.v) \in Nat /\ Tuple(r.v)
  BY <1>2, ObjectParts
<1>4. /\ y \in Objects[t] /\ Len(y) \in Nat /\ Len(y) <= n /\ Len(y) >= i
      /\ Kind(t) \notin Variable => Len(y) = n
      /\ \A j \in 1..i - 1 : y[j] = r.v[j]
  <2>1. CASE i > Len(r.v)
    <3>1. Kind(t) \in {"vector", "pointer"}
      BY <1>2, <2>1 DEF Variable, HasParts, Container, Record
    <3>2. n \in U32
      BY <3>1 DEF Counts
    <3>3. i \in U32
      BY <1>1, <3>2, SMT DEF U32
    <3>4. i = Len(r.v) + 1
      BY <1>2, <1>3, <2>1
    <3>5. y \in Objects[t] /\ Len(y) = i
      BY <1>2, <3>1, <3>3, <3>4, ExtendedObject
    <3>6. \A j \in 1..i - 1 : y[j] = r.v[j]
      <4> DEFINE w == r.v
                 d == Default(Types[t].elem)
                 V == {w[j] : j \in 1..Len(w)} \cup {d}
      <4>1. y = Append(w, d)
        BY <2>1, Zenon DEF ExtendAt
      <4>2. Tuple(w) /\ Len(w) = i - 1
        BY <1>1, <1>3, <3>4
      <4>3. d \in V /\ \A j \in 1..Len(w) : w[j] \in V
        OBVIOUS
      <4> HIDE DEF w, d, V
      <4>4. w \in Seq(V)
        BY <4>2, <4>3, TupleSeq
      <4>5. \A j \in 1..Len(w) : Append(w, d)[j] = w[j]
        BY <4>3, <4>4, AppendProperties
      <4> QED
        BY <4>1, <4>2, <4>5 DEF w
    <3> QED
      BY <1>1, <3>1, <3>5, <3>6 DEF Variable
  <2>2. CASE ~(i > Len(r.v))
    <3>1. y = r.v
      BY <2>2 DEF ExtendAt
    <3> QED
      BY <1>2, <1>3, <2>2, <3>1
  <2> QED
    BY <2>1, <2>2
<1>5. q = Gives(z, p.a)
  <2>1. q = LoadComponent(t, i, y, r.a)
    BY Zenon DEF LoadTurn
  <2>2. LoadComponent(t, i, y, r.a) = Gives(z, p.a)
    BY Zenon DEF LoadComponent, ReadInto
  <2> QED
    BY <2>1, <2>2, Zenon
<1> HIDE DEF y
<1>6. i \in 1..Len(y)
  BY <1>1, <1>4
<1>7. y[i] \in Objects[e]
  BY <1>4, <1>6, ObjectParts
<1>8. p.v \in Objects[e] /\ p.a \in A
  BY <1>1, <1>2, <1>7, Zenon DEF Turns
<1>9. /\ z \in Objects[t] /\ Len(z) = Len(y) /\ z[i] = p.v
      /\ \A j \in 1..Len(y) : j # i => z[j] = y[j]
  <2> DEFINE u == p.v
  <2>1. u \in Objects[Component(t, i)]
    BY <1>8
  <2> HIDE DEF u
  <2>2. /\ [y EXCEPT ![i] = u] \in Objects[t] /\ Len([y EXCEPT ![i] = u]) = Len(y)
        /\ [y EXCEPT ![i] = u][i] = u
        /\ \A j \in 1..Len(y) : j # i => [y EXCEPT ![i] = u][j] = y[j]
    BY <1>4, <1>6, <2>1, PartReplaced
  <2> QED
    BY <2>2 DEF u
<1> HIDE DEF z, p
<1>10. q \in [v : Objects[t], a : A] /\ q.v = z /\ q.a = p.a
  BY <1>5, <1>8, <1>9 DEF Gives
<1>11. Came(t, A, n, i, q)
  BY <1>4, <1>9, <1>10 DEF Came
<1>12. \A j \in 1..i - 1 : q.v[j] = r.v[j]
  <2> TAKE j \in 1..i - 1
  <2>1. j \in 1..Len(y) /\ j # i
    BY <1>1, <1>4
  <2> QED
    BY <1>4, <1>9, <1>10, <2>1
<1>13. TurnReads(t, i, r, q, p)
  BY <1>9, <1>10, <1>12 DEF TurnReads
<1> QED
  BY <1>7, <1>11, <1>13 DEF p

----------------------------------------------------------------------------
\* Codes of the components, each good for the limit L.
LEMMA PartsFor ==
  ASSUME NEW t, NEW v, NEW n \in Nat, n = Len(v), NEW b, NEW L \in Nat,
         \A i \in 1..n : CodeFor(L, Component(t, i), v[i], b[i])
  PROVE  \E K : CodedParts(t, v, b, K) /\ L \in All(K, n)
<1> DEFINE Good(i, M) == IsCode(Component(t, i), v[i], b[i], M) /\ Enough(M) /\ L \in M
           K == [i \in 1..n |-> CHOOSE M : Good(i, M)]
<1>1. ASSUME NEW i \in 1..n
      PROVE  Good(i, K[i])
  <2>1. \E M : Good(i, M)
    BY DEF CodeFor
  <2>2. K[i] = CHOOSE M : Good(i, M)
    BY Zenon
  <2> HIDE DEF K, Good
  <2> QED
    BY <2>1, <2>2, Zenon
<1> HIDE DEF K
<1>2. CodedParts(t, v, b, K)
  BY <1>1, Zenon DEF CodedParts, PartsCoded
<1>3. L \in All(K, n)
  BY <1>1 DEF All
<1> QED
  BY <1>2, <1>3

\* What the loop over components read is their codes, joined.
PartsRead(t, L, n, a, r) ==
  /\ r.v \in Objects[t] /\ Len(r.v) = n
  /\ \E b, K, F : /\ CodedParts(t, r.v, b, K) /\ L \in All(K, n)
                  /\ Joined(F, b, n) /\ Took(a, r.a, F[n])

LEMMA FirstRead ==
  ASSUME RecursiveTypes, RecursiveArchives, NEW t \in Type, HasParts(t),
         NEW L \in Nat, \A e \in Type : ReadsCode(L, e), NEW x \in Objects[t],
         NEW n \in Nat, Counts(t, n), Len(x) <= n, Kind(t) \notin Variable => Len(x) = n,
         NEW a, GetsWords(a), ~Failed(a), a.limit = L,
         NEW r, r = LoadFirst(t, n, x, a), ~Failed(r.a)
  PROVE  PartsRead(t, L, n, a, r)
<1> DEFINE A == GetArchives(L, a.in, a.past)
<1>1. PICK S : LoadRun(S, t, n, x, a) /\ r = S[n]
  BY LoadRuns
<1>2. S[0] = Gives(x, a) /\ \A i \in 1..n : S[i] = LoadTurn(t, S[i - 1], i)
  BY <1>1, Zenon DEF LoadRun
<1>3. a \in Getters /\ a \in A
  BY GetterTypes DEF GetArchives
<1>4. Turns(A, Type)
  BY GetTurns
<1>5. \A s \in A : GetsWords(s) /\ (~Failed(s) => s.limit = L)
  BY DEF GetArchives
<1> HIDE DEF A
<1> DEFINE ReadAt(i, c) == CodeFor(L, Component(t, i), S[i].v[i], c) /\ Took(S[i - 1].a, S[i].a, c)
           b == [i \in 1..n |-> CHOOSE c : ReadAt(i, c)]
<1>6. PICK F : Joined(F, b, n)
  BY JoinRuns
<1>7. F[0] = << >> /\ \A i \in 1..n : F[i] = F[i - 1] \o b[i]
  BY <1>6, Zenon DEF Joined
<1> DEFINE Sofar(s, i) == /\ Came(t, A, n, i, s) /\ IsBytes(F[i]) /\ Took(a, s.a, F[i])
                          /\ \A j \in 1..i : CodeFor(L, Component(t, j), s.v[j], b[j])
           D == [i \in Nat |-> {s \in {S[j] : j \in 0..n} : ~Failed(s.a) => Sofar(s, i)}]
<1>8. S[0] \in D[0]
  <2> DEFINE s == S[0]
  <2>1. s \in {S[j] : j \in 0..n}
    OBVIOUS
  <2>2. s.v = x /\ s.a = a /\ s \in [v : Objects[t], a : A]
    BY <1>2, <1>3 DEF Gives
  <2>3. Len(x) \in Nat
    BY ObjectParts
  <2> HIDE DEF s
  <2>4. Came(t, A, n, 0, s)
    BY <2>2, <2>3 DEF Came
  <2>5. IsBytes(F[0]) /\ Took(a, s.a, F[0])
    BY <1>7, <2>2, NoBytes, TookNothing
  <2>6. \A j \in 1..0 : FALSE
    OBVIOUS
  <2>7. Sofar(s, 0)
    BY <2>4, <2>5, <2>6
  <2> HIDE DEF Sofar
  <2> QED
    BY <2>1, <2>7 DEF s
<1>9. ASSUME NEW i \in 1..n, S[i - 1] \in D[i - 1]
      PROVE  S[i] \in D[i]
  <2> DEFINE s == S[i - 1]
             q == S[i]
             e == Component(t, i)
             g == b[i]
             f == F[i - 1]
  <2>1. i \in Nat /\ i - 1 \in Nat /\ i \in 0..n
    OBVIOUS
  <2>2. ~Failed(s.a) => Sofar(s, i - 1)
    <3> HIDE DEF Sofar
    <3> QED
      BY <1>9, <2>1
  <2>3. q = LoadTurn(t, s, i) /\ F[i] = f \o g
    BY <1>2, <1>7, Zenon
  <2> SUFFICES ASSUME ~Failed(q.a)
               PROVE  Sofar(q, i)
    <3> HIDE DEF Sofar
    <3> QED
      BY <2>1
  <2>4. ~Failed(s.a)
    <3>1. CASE Failed(s.a)
      <4>1. q = s
        BY <2>3, <3>1, Zenon DEF LoadTurn
      <4> QED
        BY <3>1, <4>1
    <3> QED
      BY <3>1
  <2>5. /\ Came(t, A, n, i - 1, s) /\ IsBytes(f) /\ Took(a, s.a, f)
        /\ \A j \in 1..i - 1 : CodeFor(L, Component(t, j), s.v[j], b[j])
    <3>1. Sofar(s, i - 1)
      BY <2>2, <2>4
    <3> QED
      BY <3>1
  <2> HIDE DEF s, q
  <2>6. /\ Came(t, A, n, i, q)
        /\ \E y \in Objects[e] : TurnReads(t, i, s, q, UnarchivePart(e, y, s.a))
    BY <1>4, <2>3, <2>4, <2>5, TurnCame
  <2>7. PICK y \in Objects[e] : TurnReads(t, i, s, q, UnarchivePart(e, y, s.a))
    BY <2>6
  <2> DEFINE p == UnarchivePart(e, y, s.a)
  <2>8. q.a = p.a /\ q.v[i] = p.v /\ \A j \in 1..i - 1 : q.v[j] = s.v[j]
    BY <2>7, Zenon DEF TurnReads
  <2>9. e \in Type /\ s.a \in A
    BY <2>5, PartTypes DEF Came
  <2>10. GetsWords(s.a) /\ s.a.limit = L
    BY <1>5, <2>4, <2>9
  <2>11. ReadAs(e, s.a, p)
    BY <2>4, <2>9, <2>10, Zenon DEF ReadsCode
  <2> HIDE DEF p
  <2>12. \E c : CodeFor(L, e, q.v[i], c) /\ Took(s.a, q.a, c)
    <3>1. ~Failed(p.a)
      BY <2>8
    <3>2. \E c : CodeFor(L, e, p.v, c) /\ Took(s.a, p.a, c)
      BY <2>10, <2>11, <3>1 DEF ReadAs
    <3> QED
      BY <2>8, <3>2
  <2>13. CodeFor(L, e, q.v[i], g) /\ Took(s.a, q.a, g)
    <3>1. \E c : ReadAt(i, c)
      BY <2>12 DEF s, q
    <3>2. g = CHOOSE c : ReadAt(i, c)
      BY Zenon
    <3>3. ReadAt(i, g)
      <4> HIDE DEF ReadAt, g
      <4> QED
        BY <3>1, <3>2, Zenon
    <3> QED
      BY <3>3 DEF s, q
  <2> HIDE DEF b
  <2>14. IsBytes(g)
    BY <2>13 DEF CodeFor, IsCode
  <2> HIDE DEF f, g, e
  <2>15. IsBytes(f \o g) /\ Took(a, q.a, f \o g)
    BY <2>5, <2>13, <2>14, BytesJoined, TookBoth
  <2>16. \A j \in 1..i : CodeFor(L, Component(t, j), q.v[j], b[j])
    <3> TAKE j \in 1..i
    <3>1. CASE j = i
      BY <2>13, <3>1 DEF e, g
    <3>2. CASE j # i
      <4>1. j \in 1..i - 1
        BY <2>1, <3>2
      <4> QED
        BY <2>5, <2>8, <4>1
    <3> QED
      BY <3>1, <3>2
  <2> QED
    BY <2>3, <2>6, <2>15, <2>16
<1>10. \A i \in 1..n : S[i - 1] \in D[i - 1] => S[i] \in D[i]
  BY <1>9
<1>11. n \in Nat /\ n \in 0..n
  OBVIOUS
<1>12. Sofar(r, n)
  <2> HIDE DEF D
  <2>1. \A i \in 0..n : S[i] \in D[i]
    BY <1>8, <1>10, RunKeeps
  <2>2. r \in D[n]
    BY <1>1, <1>11, <2>1
  <2> HIDE DEF Sofar
  <2>3. ~Failed(r.a) => Sofar(r, n)
    BY <2>2 DEF D
  <2> QED
    BY <2>3
<1> HIDE DEF b, D
<1>13. r.v \in Objects[t] /\ Len(r.v) = n
  <2>1. Came(t, A, n, n, r)
    BY <1>12
  <2>2. r.v \in Objects[t] /\ Len(r.v) <= n /\ Len(r.v) >= n
    BY <2>1 DEF Came
  <2>3. Len(r.v) \in Nat
    BY <2>2, ObjectParts
  <2> QED
    BY <2>2, <2>3
<1> DEFINE v == r.v
<1>14. n = Len(v) /\ \A i \in 1..n : CodeFor(L, Component(t, i), v[i], b[i])
  BY <1>12, <1>13
<1> HIDE DEF v
<1>15. \E K : CodedParts(t, v, b, K) /\ L \in All(K, n)
  BY <1>14, PartsFor
<1> QED
  BY <1>6, <1>12, <1>13, <1>15, Zenon DEF PartsRead, v

----------------------------------------------------------------------------
(***************************************************************************)
(* What load of a container, a record or a union reads.                    *)
(***************************************************************************)
LevelReadAs(t, L, a, r) ==
  \E b, M : InLevel(t, r.v, b, M) /\ Enough(M) /\ L \in M /\ Took(a, r.a, b)
\* An archive that can read a value of any type whose levels L suffices for.
ReadsParts(L, a) ==
  /\ L \in Nat /\ \A e \in Type : ReadsCode(L, e)
  /\ GetsWords(a) /\ ~Failed(a) /\ a.limit = L
  /\ Turns(GetArchives(L, a.in, a.past), Type)

\* A part that is read, and the archive then.
LEMMA PartRead ==
  ASSUME RecursiveTypes, NEW L, NEW a, ReadsParts(L, a), NEW e \in Type, NEW x \in Objects[e],
         NEW r, r = UnarchivePart(e, x, a), ~Failed(r.a)
  PROVE  /\ r.v \in Objects[e] /\ ReadsParts(L, r.a)
         /\ \E b : CodeFor(L, e, r.v, b) /\ Took(a, r.a, b)
<1> DEFINE A == GetArchives(L, a.in, a.past)
<1>1. a \in A
  BY GetterTypes DEF ReadsParts, GetArchives
<1>2. r.v \in Objects[e] /\ r.a \in A
  BY <1>1, Zenon DEF ReadsParts, Turns
<1>3. GetsWords(r.a) /\ r.a.in = a.in /\ r.a.past = a.past /\ r.a.limit = L
  BY <1>2 DEF GetArchives
<1>4. ReadsParts(L, r.a)
  BY <1>3 DEF ReadsParts
<1>5. \E b : CodeFor(L, e, r.v, b) /\ Took(a, r.a, b)
  BY Zenon DEF ReadsParts, ReadsCode, ReadAs
<1> QED
  BY <1>2, <1>4, <1>5

\* What validate passes is what was read.
LEMMA ValidatedIs ==
  ASSUME NEW t, NEW v, NEW a, a \in Getters, GetsWords(a), NEW r, r = Validate(t, Gives(v, a)), ~Failed(r.a)
  PROVE  r = Gives(v, a) /\ r.v = v /\ r.a = a
<1> DEFINE z == Gives(v, a)
           A == GetArchives(a.limit, a.in, a.past)
<1>1. z.v = v /\ z.a = a
  BY GivesIs
<1>2. a \in A
  BY DEF GetArchives
<1>5. Raises(A)
  BY GetRaises
<1> HIDE DEF A
<1>3. z = Gives(z.v, z.a) /\ z.a \in A
  BY <1>1, <1>2
<1> HIDE DEF z
<1>4. ~Failed(r.a) => r = z
  BY <1>3, <1>5, ValidateLeaves DEF z
<1> QED
  BY <1>1, <1>4 DEF z

LEMMA PlainRead ==
  ASSUME RecursiveTypes, RecursiveValues, RecursiveArchives, NEW t \in Type,
         Kind(t) = "array" \/ Kind(t) \in Record, NEW x \in Objects[t],
         NEW L, NEW a, ReadsParts(L, a), NEW r, r = Load(t, x, a), ~Failed(r.a)
  PROVE  LevelReadAs(t, L, a, r)
<1> DEFINE n == Len(x)
           z == LoadFirst(t, n, x, a)
           A == GetArchives(L, a.in, a.past)
<1>1. HasParts(t) /\ Kind(t) \notin Variable /\ Kind(t) # "union"
  BY DEF HasParts, Container, Variable, Record
<1>2. n \in Nat /\ Counts(t, n)
  BY <1>1, ObjectParts
<1>3. /\ L \in Nat /\ GetsWords(a) /\ ~Failed(a) /\ a.limit = L /\ a \in A
      /\ Turns(A, Type) /\ Needs(t, Type) /\ Raises(A)
      /\ \A e \in Type : ReadsCode(L, e)
  <2>1. Raises(A) /\ Needs(t, Type)
    BY AllNeeded, GetRaises
  <2>2. a \in A
    BY GetterTypes DEF ReadsParts, GetArchives
  <2> HIDE DEF A
  <2> QED
    BY <2>1, <2>2 DEF ReadsParts, A
<1>4. r = z \/ r = Validate(t, z)
  BY <1>1 DEF Load, Record
<1> HIDE DEF A, n
<1>5. z.a \in A /\ z = Gives(z.v, z.a)
  <2>1. n = Len(x) /\ n <= n
    BY <1>2 DEF n
  <2>2. LET w == LoadFirst(t, n, x, a) IN
           /\ w.v \in Objects[t] /\ w.a \in A /\ (~Failed(w.a) => Len(w.v) = n)
           /\ w = Gives(w.v, w.a)
    BY <1>1, <1>2, <1>3, <2>1, LoadLeaves
  <2> QED
    BY <2>2
<1> HIDE DEF z
<1>6. r = z
  <2>1. CASE r = Validate(t, z)
    <3>1. ~Failed(r.a) => r = z
      BY <1>3, <1>5, <2>1, ValidateLeaves
    <3> QED
      BY <3>1
  <2> QED
    BY <1>4, <2>1
<1>7. PartsRead(t, L, n, a, r)
  <2>1. n = Len(x) /\ n <= n
    BY <1>2 DEF n
  <2>2. r = LoadFirst(t, n, x, a)
    BY <1>6 DEF z
  <2> QED
    BY <1>1, <1>2, <1>3, <2>1, <2>2, FirstRead
<1>8. PICK b, K, F : /\ CodedParts(t, r.v, b, K) /\ L \in All(K, n)
                     /\ Joined(F, b, n) /\ Took(a, r.a, F[n])
  BY <1>7, Zenon DEF PartsRead
<1> DEFINE v == r.v
<1>9. v \in Objects[t] /\ n = Len(v) /\ CodedParts(t, v, b, K)
  BY <1>7, <1>8 DEF PartsRead
<1> HIDE DEF v
<1>10. PartsCoded(t, v, b, K) /\ \A i \in 1..n : K[i] \subseteq Nat /\ Enough(K[i])
  BY <1>9 DEF CodedParts, PartsCoded, IsCode
<1>11. InLevel(t, v, F[n], All(K, n))
  BY <1>2, <1>8, <1>9, <1>10, PlainLevel
<1>12. Enough(All(K, n))
  BY <1>2, <1>10, EnoughAll
<1> QED
  BY <1>8, <1>11, <1>12, Zenon DEF LevelReadAs, v

LEMMA CountedRead ==
  ASSUME RecursiveTypes, RecursiveValues, RecursiveArchives, NEW t \in Type,
         Kind(t) \in {"vector", "pointer"}, NEW x \in Objects[t],
         NEW L, NEW a, ReadsParts(L, a), NEW r, r = Load(t, x, a), ~Failed(r.a)
  PROVE  LevelReadAs(t, L, a, r)
<1> DEFINE g == UnarchivePart("u32", <<0>>, a)
<1>1. HasParts(t) /\ Kind(t) \in Variable /\ Kind(t) # "union"
  BY DEF HasParts, Container, Variable, Record
<1>2. r = LoadElements(t, x, g)
  BY <1>1 DEF Load
<1> DEFINE e == "u32"
<1>3. e \in Type /\ Kind(e) \in {"u32", "enum"}
  BY TypesAssumption DEF Type
<1>4. <<0>> \in Objects[e]
  <2>1. 0 \in U32
    BY SMT DEF U32
  <2> HIDE DEF e
  <2> QED
    BY <1>3, <2>1, NumberObjects
<1>5. GetsWords(a) /\ ~Failed(a) /\ L \in Nat
  BY DEF ReadsParts
<1>6. g = UnarchivePart(e, <<0>>, a)
  OBVIOUS
<1> HIDE DEF g, e
<1>7. ~Failed(g.a)
  <2>1. CASE Failed(g.a)
    <3> DEFINE z == g.a
    <3>1. r = Gives(x, z)
      BY <1>2, <2>1, Zenon DEF LoadElements
    <3> HIDE DEF z
    <3>2. r.a = z
      BY <3>1, GivesIs
    <3> QED
      BY <2>1, <3>2 DEF z
  <2> QED
    BY <2>1
<1>8. PICK n \in U32 : g.v = <<n>> /\ Took(a, g.a, Word(n))
  BY <1>3, <1>5, <1>6, <1>7, NumberRead
<1> DEFINE s == g.a
           w == ResizeDown(x, n)
<1>9. ReadsParts(L, s) /\ ~Failed(s)
  BY <1>3, <1>4, <1>6, <1>7, PartRead
<1>10. g.v[1] = n /\ n \in Nat
  BY <1>8, SMT DEF U32
<1>11. ~(n > MaxSize(t))
  <2>1. CASE n > MaxSize(t)
    <3> DEFINE z == Raise(s, "overflow")
    <3>1. r = Gives(x, z)
      BY <1>2, <1>7, <1>10, <2>1, Zenon DEF LoadElements
    <3>2. Failed(z)
      <4>1. "overflow" \in Exception /\ "overflow" # "none" /\ GetsWords(s)
        BY <1>9 DEF Exception, ReadsParts
      <4> HIDE DEF s
      <4> QED
        BY <4>1, RaiseStays
    <3> HIDE DEF z
    <3>3. r.a = z
      BY <3>1, GivesIs
    <3> QED
      BY <3>2, <3>3
  <2> QED
    BY <2>1
<1>12. r = LoadFirst(t, n, w, s)
  BY <1>2, <1>7, <1>10, <1>11, Zenon DEF LoadElements
<1>13. w \in Objects[t] /\ Len(w) <= n
  BY CutObject
<1>14. Counts(t, n)
  BY <1>10 DEF Counts, Record
<1> HIDE DEF s, w
<1>15. PartsRead(t, L, n, s, r)
  <2>1. /\ GetsWords(s) /\ ~Failed(s) /\ s.limit = L /\ \A d \in Type : ReadsCode(L, d)
    BY <1>9 DEF ReadsParts
  <2> QED
    BY <1>1, <1>5, <1>10, <1>12, <1>13, <1>14, <2>1, FirstRead
<1>16. PICK b, K, F : /\ CodedParts(t, r.v, b, K) /\ L \in All(K, n)
                      /\ Joined(F, b, n) /\ Took(s, r.a, F[n])
  BY <1>15, Zenon DEF PartsRead
<1> DEFINE v == r.v
<1>17. v \in Objects[t] /\ n = Len(v) /\ CodedParts(t, v, b, K)
  BY <1>15, <1>16 DEF PartsRead
<1> HIDE DEF v
<1>18. PartsCoded(t, v, b, K) /\ \A i \in 1..n : K[i] \subseteq Nat /\ Enough(K[i])
  BY <1>17 DEF CodedParts, PartsCoded, IsCode
<1> DEFINE y == F[n]
           p == Word(n)
<1>19. InLevel(t, v, p \o y, All(K, n))
  BY <1>10, <1>16, <1>17, <1>18, CountedLevel
<1>20. Enough(All(K, n))
  BY <1>10, <1>18, EnoughAll
<1>21. IsBytes(p)
  BY <1>3, <1>8, NumberIsCode
<1>22. IsBytes(y)
  BY <1>1, <1>10, <1>16, <1>17, <1>18, PartsSize
<1>23. Took(a, s, p) /\ Took(s, r.a, y)
  BY <1>8, <1>16 DEF s
<1> HIDE DEF p, y
<1>24. Took(a, r.a, p \o y)
  BY <1>5, <1>21, <1>22, <1>23, TookBoth
<1> QED
  BY <1>16, <1>19, <1>20, <1>24, Zenon DEF LevelReadAs, v

----------------------------------------------------------------------------
\* Without a member.
LEMMA VoidRead ==
  ASSUME RecursiveTypes, RecursiveValues, RecursiveArchives, NEW t \in Type, Kind(t) = "union",
         NEW x \in Objects[t], NEW L \in Nat, NEW a, GetsWords(a), NEW s, GetsWords(s), ~Failed(s),
         NEW w \in U32, FieldNo(t, w) = 0, Took(a, s, Word(w)),
         NEW r, r = LoadMember(t, x, Gives(<<w>>, s)), ~Failed(r.a)
  PROVE  LevelReadAs(t, L, a, r)
<1> DEFINE g == Gives(<<w>>, s)
           u == WithDisc(t, x, w)
           p == Word(w)
<1>1. g.v[1] = w /\ g.a = s
  <2>1. g.v = <<w>> /\ g.a = s
    BY GivesIs
  <2> HIDE DEF g
  <2> QED
    BY <2>1
<1>2. FieldNo(t, w) # NoField
  BY DEF NoField
<1> HIDE DEF g
<1>3. r = Validate(t, Gives(u, s))
  BY <1>1, <1>2, Zenon DEF LoadMember, g
<1>4. u \in Objects[t] /\ Disc(u) = w
  BY WithDiscObject
<1>5. r.v = u /\ r.a = s
  <2> HIDE DEF u
  <2> QED
    BY <1>3, GetterTypes, ValidatedIs
<1> HIDE DEF u
<1>6. InLevel(t, u, p \o << >>, Nat)
  BY <1>4, VoidLevel
<1>7. IsBytes(p)
  <2>1. Types[t].tag \in Type /\ Kind(Types[t].tag) \in {"u32", "enum"}
    BY NestedAssumption DEF Type
  <2> QED
    BY <2>1, NumberIsCode
<1> HIDE DEF p
<1>8. Took(a, s, p) /\ Took(s, s, << >>) /\ IsBytes(<< >>)
  BY TookNothing, NoBytes DEF p
<1>9. Took(a, s, p \o << >>)
  BY <1>7, <1>8, TookBoth
<1> QED
  BY <1>5, <1>6, <1>9, EnoughNat, Zenon DEF LevelReadAs

\* With one.
LEMMA MemberRead ==
  ASSUME RecursiveTypes, RecursiveValues, RecursiveArchives, NEW t \in Type, Kind(t) = "union",
         NEW x \in Objects[t], NEW L, NEW a, GetsWords(a), NEW s, ReadsParts(L, s),
         NEW w \in U32, Selects(t, w), Took(a, s, Word(w)),
         NEW r, r = LoadMember(t, x, Gives(<<w>>, s)), ~Failed(r.a)
  PROVE  LevelReadAs(t, L, a, r)
<1> DEFINE g == Gives(<<w>>, s)
           u == WithDisc(t, x, w)
           e == Arm(t, Live(u))
           p == UnarchivePart(e, Member(u), s)
           m == p.v
           v == [u EXCEPT ![3] = m]
           h == Word(w)
<1>1. g.v[1] = w /\ g.a = s
  <2>1. g.v = <<w>> /\ g.a = s
    BY GivesIs
  <2> HIDE DEF g
  <2> QED
    BY <2>1
<1>2. FieldNo(t, w) # NoField /\ FieldNo(t, w) # 0 /\ ~Failed(s) /\ s \in Getters /\ GetsWords(s)
  BY FieldsAre, GetterTypes DEF ReadsParts, Selects
<1>3. u \in Objects[t] /\ Disc(u) = w
  BY WithDiscObject
<1> HIDE DEF g, u
<1>4. Live(u) = FieldNo(t, w) /\ Live(u) > 0 /\ e \in Type /\ Member(u) \in Objects[e]
  BY <1>3, ObjectMember
<1>5. r = Validate(t, Gives(v, p.a))
  <2>1. r = Validate(t, LoadArm(t, u, s))
    BY <1>1, <1>2, Zenon DEF LoadMember, g, u
  <2>2. LoadArm(t, u, s) = Gives(v, p.a)
    BY Zenon DEF LoadArm, ReadInto
  <2> QED
    BY <2>1, <2>2, Zenon
<1> DEFINE q == p.a
<1> HIDE DEF e, p, v
<1>6. q \in GetArchives(L, s.in, s.past)
  <2>1. s \in GetArchives(L, s.in, s.past)
    BY <1>2 DEF GetArchives, ReadsParts
  <2> QED
    BY <1>2, <1>4, <2>1, Zenon DEF ReadsParts, Turns, p
<1>7. q \in Getters /\ GetsWords(q)
  BY <1>6 DEF GetArchives
<1>8. r.v = v /\ r.a = q
  <2>1. r = Validate(t, Gives(v, q))
    BY <1>5
  <2> HIDE DEF q
  <2> QED
    BY <1>7, <2>1, ValidatedIs
<1>9. m \in Objects[e] /\ \E y : CodeFor(L, e, m, y) /\ Took(s, q, y)
  <2>1. p = UnarchivePart(e, Member(u), s) /\ ~Failed(p.a)
    BY <1>8 DEF p
  <2> QED
    BY <1>4, <2>1, PartRead
<1> HIDE DEF m, q
<1>10. v = Union(w, Live(u), m) /\ v \in Objects[t]
  <2>1. m \in Objects[Arm(t, Live(u))]
    BY <1>9 DEF e
  <2> QED
    BY <1>3, <1>4, <2>1, MemberReplaced DEF v
<1>11. Disc(v) = w /\ Member(v) = m /\ ArmOf(t, v) = e
  BY <1>4, <1>10, UnionIs DEF ArmOf, e
<1>12. PICK y, M : IsCode(e, m, y, M) /\ Enough(M) /\ L \in M /\ Took(s, q, y)
  BY <1>9 DEF CodeFor
<1>13. InLevel(t, v, h \o y, M)
  BY <1>10, <1>11, <1>12, MemberLevel
<1>14. IsBytes(h)
  <2>1. Types[t].tag \in Type /\ Kind(Types[t].tag) \in {"u32", "enum"}
    BY NestedAssumption DEF Type
  <2> QED
    BY <2>1, NumberIsCode
<1>15. IsBytes(y)
  BY <1>12 DEF IsCode
<1> HIDE DEF h
<1>16. Took(a, s, h)
  BY DEF h
<1>17. Took(a, q, h \o y)
  BY <1>12, <1>14, <1>15, <1>16, TookBoth
<1> QED
  BY <1>8, <1>12, <1>13, <1>17, Zenon DEF LevelReadAs

LEMMA UnionRead ==
  ASSUME RecursiveTypes, RecursiveValues, RecursiveArchives, NEW t \in Type, Kind(t) = "union",
         NEW x \in Objects[t], NEW L, NEW a, ReadsParts(L, a), NEW r, r = Load(t, x, a), ~Failed(r.a)
  PROVE  LevelReadAs(t, L, a, r)
<1> DEFINE e == Types[t].tag
           g == UnarchivePart(e, <<0>>, a)
           s == g.a
<1>1. r = LoadMember(t, x, g)
  BY DEF Load, Variable
<1>2. e \in Type /\ Kind(e) \in {"u32", "enum"}
  BY NestedAssumption DEF Type
<1>3. <<0>> \in Objects[e]
  <2>1. 0 \in U32
    BY SMT DEF U32
  <2> HIDE DEF e
  <2> QED
    BY <1>2, <2>1, NumberObjects
<1>4. GetsWords(a) /\ ~Failed(a) /\ L \in Nat /\ a \in Getters
  BY GetterTypes DEF ReadsParts
<1>5. g = UnarchivePart(e, <<0>>, a)
  OBVIOUS
<1> HIDE DEF g, e
<1>6. ~Failed(s)
  <2>1. CASE Failed(s)
    <3>1. r = Gives(x, s)
      BY <1>1, <2>1, Zenon DEF LoadMember
    <3> HIDE DEF s
    <3>2. r.a = s
      BY <3>1, GivesIs
    <3> QED
      BY <2>1, <3>2
  <2> QED
    BY <2>1
<1>7. PICK w \in U32 : g.v = <<w>> /\ Took(a, s, Word(w))
  BY <1>2, <1>4, <1>5, <1>6, NumberRead
<1>8. ReadsParts(L, s) /\ GetsWords(s)
  BY <1>2, <1>3, <1>5, <1>6, PartRead DEF ReadsParts
<1>9. LoadMember(t, x, g) = LoadMember(t, x, Gives(<<w>>, s))
  <2> DEFINE h == Gives(<<w>>, s)
  <2>1. h.v = g.v /\ h.a = g.a
    <3>1. h.v = <<w>> /\ h.a = s
      BY GivesIs
    <3> HIDE DEF h
    <3> QED
      BY <1>7, <3>1
  <2> HIDE DEF h
  <2>2. LoadMember(t, x, g) = LoadMember(t, x, h)
    BY <2>1, Zenon DEF LoadMember
  <2> QED
    BY <2>2 DEF h
<1>10. r = LoadMember(t, x, Gives(<<w>>, s))
  BY <1>1, <1>9
<1> HIDE DEF s
<1>11. FieldNo(t, w) # NoField
  <2>1. CASE FieldNo(t, w) = NoField
    <3> DEFINE h == Gives(<<w>>, s)
               z == Raise(s, "discriminant")
    <3>1. h.v[1] = w /\ h.a = s
      <4>1. h.v = <<w>> /\ h.a = s
        BY GivesIs
      <4> HIDE DEF h
      <4> QED
        BY <4>1
    <3>2. r = LoadMember(t, x, h)
      BY <1>10
    <3> HIDE DEF h
    <3>3. r = Gives(x, z)
      BY <1>6, <2>1, <3>1, <3>2, Zenon DEF LoadMember
    <3>4. Failed(z)
      <4>1. "discriminant" \in Exception /\ "discriminant" # "none"
        BY DEF Exception
      <4> QED
        BY <1>8, <4>1, RaiseStays
    <3> HIDE DEF z
    <3>5. r.a = z
      BY <3>3, GivesIs
    <3> QED
      BY <3>4, <3>5
  <2> QED
    BY <2>1
<1>12. CASE FieldNo(t, w) = 0
  BY <1>4, <1>6, <1>7, <1>8, <1>10, <1>12, VoidRead
<1>13. CASE Selects(t, w)
  BY <1>4, <1>7, <1>8, <1>10, <1>13, MemberRead
<1>14. FieldNo(t, w) \in {0, NoField} \/ Selects(t, w)
  BY FieldsAre
<1> QED
  BY <1>11, <1>12, <1>13, <1>14

----------------------------------------------------------------------------
\* Leaving a level with what was read in it.
LEMMA LeftTook ==
  ASSUME NEW a \in Getters, NEW k \in Nat, a.limit = k, k # 0,
         NEW c, c = [a EXCEPT !.limit = k - 1], NEW z, NEW b, Took(c, z, b), ~Failed(z), Len(b) \in Nat
  PROVE  Took(a, Left(z), b)
<1> DEFINE m == a.at + Len(b)
<1>1. z = Skip(c, Len(b)) /\ Alike(c, b)
  BY DEF Took
<1>2. c.at = a.at /\ c.in = a.in /\ c.limit = k - 1 /\ c.kind = "get"
  BY DEF Getters
<1>3. Alike(a, b)
  BY <1>1, <1>2 DEF Alike
<1>4. z = [c EXCEPT !.at = m]
  BY <1>1, <1>2 DEF Skip
<1>5. Skip(a, Len(b)) = [a EXCEPT !.at = m]
  BY DEF Skip
<1> HIDE DEF m
<1>6. z.limit = k - 1 /\ z.kind = "get"
  BY <1>4 DEF Getters
<1>7. Left(z) = [z EXCEPT !.limit = k]
  <2>1. Left(z) = [z EXCEPT !.limit = z.limit + 1]
    BY <1>6 DEF Left
  <2>2. z.limit + 1 = k
    BY <1>6
  <2> QED
    BY <2>1, <2>2
<1>8. [z EXCEPT !.limit = k] = [a EXCEPT !.at = m]
  BY <1>4 DEF Getters
<1> QED
  BY <1>3, <1>5, <1>7, <1>8 DEF Took

LEMMA NestedReadAs ==
  ASSUME RecursiveTypes, RecursiveValues, RecursiveArchives, NEW t \in Type, Kind(t) \in Nested,
         NEW L \in Nat, L # 0 => \A e \in Type : ReadsCode(L - 1, e)
  PROVE  ReadsCode(L, t)
<1> SUFFICES ASSUME NEW x \in Objects[t], NEW a, GetsWords(a), ~Failed(a), a.limit = L,
                    ~Failed(UnarchivePart(t, x, a).a)
             PROVE  LET r == UnarchivePart(t, x, a) IN
                    \E b : CodeFor(a.limit, t, r.v, b) /\ Took(a, r.a, b)
  BY Zenon DEF ReadsCode, ReadAs
<1> DEFINE c == [a EXCEPT !.limit = L - 1]
           r == Load(t, x, c)
<1>1. a \in Getters /\ a.kind = "get" /\ Kind(t) \notin Leaf
  <2>1. a \in Getters
    BY GetterTypes
  <2> QED
    BY <2>1, Kinds DEF Getters
<1>2. UnarchivePart(t, x, a) = Get(t, x, a)
  <2>1. UnarchivePart(t, x, a) = Unarchive(t, x, a)
    BY <1>1 DEF RecursiveArchives
  <2> QED
    BY <1>1, <2>1 DEF Unarchive
<1>3. L # 0
  <2>1. CASE L = 0
    <3> DEFINE z == Raise(a, "stack")
    <3>1. Get(t, x, a) = Gives(x, z)
      BY <1>1, <2>1 DEF Get
    <3>2. Failed(z)
      <4>1. "stack" \in Exception /\ "stack" # "none"
        BY DEF Exception
      <4> QED
        BY <4>1, RaiseStays
    <3> HIDE DEF z
    <3>3. Get(t, x, a).a = z
      BY <3>1, GivesIs
    <3> QED
      BY <1>2, <3>2, <3>3
  <2> QED
    BY <2>1
<1>4. Get(t, x, a) = Gives(r.v, Left(r.a))
  <2>1. [a EXCEPT !.limit = @ - 1] = c
    OBVIOUS
  <2> QED
    BY <1>1, <1>3, <2>1, Zenon DEF Get, LeftWith
<1>5. c \in GetArchives(L - 1, a.in, a.past) /\ ~Failed(c) /\ L - 1 \in Nat
  <2>1. a \in GetArchives(L, a.in, a.past)
    BY <1>1 DEF GetArchives
  <2>2. [a EXCEPT !.limit = @ - 1] = c
    OBVIOUS
  <2>3. /\ [a EXCEPT !.limit = @ - 1] \in GetArchives(L - 1, a.in, a.past)
        /\ ~Failed([a EXCEPT !.limit = @ - 1])
    BY <1>3, <2>1, GetEnters
  <2> HIDE DEF c
  <2> QED
    BY <1>3, <2>2, <2>3
<1>6. c = [a EXCEPT !.limit = L - 1]
  OBVIOUS
<1> HIDE DEF c
<1>7. ReadsParts(L - 1, c)
  <2>1. c.in = a.in /\ c.past = a.past /\ c.limit = L - 1 /\ GetsWords(c)
    BY <1>5 DEF GetArchives
  <2>2. Turns(GetArchives(L - 1, a.in, a.past), Type)
    BY <1>5, GetTurns
  <2> QED
    BY <1>3, <1>5, <2>1, <2>2 DEF ReadsParts
<1> DEFINE g == UnarchivePart(t, x, a)
           q == r.a
           v == r.v
<1>8. g.v = v /\ g.a = Left(q) /\ ~Failed(g.a)
  <2>1. g = Gives(v, Left(q))
    BY <1>2, <1>4
  <2> HIDE DEF g, v, q
  <2>2. g.v = v /\ g.a = Left(q)
    BY <2>1, GivesIs
  <2> QED
    BY <2>2 DEF g
<1>9. ~Failed(q)
  <2> HIDE DEF g, q
  <2> QED
    BY <1>8, Zenon DEF Left
<1>10. LevelReadAs(t, L - 1, c, r)
  <2>1. ~Failed(r.a) /\ r = Load(t, x, c)
    BY <1>9
  <2> DEFINE K == L - 1
  <2>2. ReadsParts(K, c)
    BY <1>7
  <2> HIDE DEF r, K
  <2>3. CASE Kind(t) = "array" \/ Kind(t) \in Record
    BY <2>1, <2>2, <2>3, PlainRead DEF K
  <2>4. CASE Kind(t) \in {"vector", "pointer"}
    BY <2>1, <2>2, <2>4, CountedRead DEF K
  <2>5. CASE Kind(t) = "union"
    BY <2>1, <2>2, <2>5, UnionRead DEF K
  <2>6. Kind(t) = "array" \/ Kind(t) \in Record \/ Kind(t) \in {"vector", "pointer"} \/ Kind(t) = "union"
    BY DEF Nested, Container, Record
  <2> QED
    BY <2>3, <2>4, <2>5, <2>6
<1>11. v \in Objects[t]
  <2>1. Yields(t, GetArchives(L, a.in, a.past), g)
    <3>1. a \in GetArchives(L, a.in, a.past)
      BY <1>1 DEF GetArchives
    <3>2. Turns(GetArchives(L, a.in, a.past), Type)
      BY GetTurns
    <3> QED
      BY <3>1, <3>2, Zenon DEF Turns, Yields
  <2> HIDE DEF g, v
  <2> QED
    BY <1>8, <2>1 DEF Yields
<1>12. PICK b, M : InLevel(t, v, b, M) /\ Enough(M) /\ L - 1 \in M /\ Took(c, q, b)
  BY <1>10, Zenon DEF LevelReadAs
<1> HIDE DEF v, q
<1>13. IsCode(t, v, b, Entering(M))
  BY <1>11, <1>12, LevelIsCode
<1>14. M \subseteq Nat /\ IsBytes(b)
  BY <1>12 DEF InLevel
<1>15. Enough(Entering(M)) /\ L \in Entering(M)
  BY <1>3, <1>12, <1>14, EnoughEntering DEF Entering
<1>16. Took(a, Left(q), b)
  <2>1. Len(b) \in Nat
    BY <1>14 DEF IsBytes
  <2> QED
    BY <1>1, <1>3, <1>6, <1>9, <1>12, <2>1, LeftTook
<1>17. CodeFor(a.limit, t, v, b)
  BY <1>13, <1>15, Zenon DEF CodeFor
<1> QED
  BY <1>8, <1>16, <1>17

LEMMA AllReadCode ==
  ASSUME RecursiveTypes, RecursiveValues, RecursiveArchives
  PROVE  \A L \in Nat : \A e \in Type : ReadsCode(L, e)
<1> DEFINE T == {L \in Nat : \A e \in Type : ReadsCode(L, e)}
<1>1. ASSUME NEW L \in Nat, L # 0 => \A e \in Type : ReadsCode(L - 1, e)
      PROVE  L \in T
  <2>1. ASSUME NEW e \in Type
        PROVE  ReadsCode(L, e)
    <3>1. CASE Kind(e) \in Leaf
      BY <3>1, LeafReadAs
    <3>2. CASE Kind(e) \in Nested
      BY <1>1, <3>2, NestedReadAs
    <3> QED
      BY <3>1, <3>2, Kinds
  <2> QED
    BY <2>1
<1>2. 0 \in T
  BY <1>1
<1>3. ASSUME NEW L \in Nat, L \in T
      PROVE  L + 1 \in T
  <2>1. L + 1 \in Nat /\ (L + 1) - 1 = L
    OBVIOUS
  <2> DEFINE k == L + 1
  <2>2. k - 1 = L /\ k \in Nat /\ \A e \in Type : ReadsCode(L, e)
    BY <1>3, <2>1
  <2> HIDE DEF k, T
  <2> QED
    BY <1>1, <2>2 DEF k
<1> HIDE DEF T
<1>4. Nat \subseteq T
  BY <1>2, <1>3, EveryNat
<1> QED
  BY <1>4 DEF T

----------------------------------------------------------------------------
(***************************************************************************)
(* Messages that the program accepts.  CameFrom: in reads as the message   *)
(* of v, words of that which end in 1 aside (TRUE is read from any number  *)
(* but 0), and the limit of an unlimited program suffices for v.           *)
(***************************************************************************)
MessageFrom(c, in) ==
  /\ Len(c) = Len(in)
  /\ \A k \in 1..Len(c) : in[k] = c[k] \/ c[LastByte(k)] = 1
CameFrom(t, v, in) == \E c, M : IsMessage(t, v, c, M) /\ Unlimited \in M /\ MessageFrom(c, in)
Canonical == accepted # << >> => CameFrom(root, obj[1], accepted)

\* What the constructor or done refuses has not been accepted.
LEMMA LengthAccepted ==
  ASSUME NEW t, NEW x, NEW in \in Seq(Octet), NEW limit \in Nat,
         NEW r, r = xdr_from_msg(t, x, in, limit), ~Failed(r.a)
  PROVE  Len(in) % 4 = 0 /\ r = done(LoadFirst(t, Len(x), x, Getter(in, limit)))
<1>1. CASE Len(in) % 4 # 0
  <2> DEFINE a == Getter(in, limit)
             z == Raise(a, "message size")
  <2>1. r = Gives(x, z)
    BY <1>1, Zenon DEF xdr_from_msg
  <2>2. Failed(z)
    BY DEF Getter, Raise, Failed
  <2> HIDE DEF z
  <2>3. r.a = z
    BY <2>1, GivesIs
  <2> QED
    BY <2>2, <2>3
<1>2. CASE Len(in) % 4 = 0
  BY <1>2, Zenon DEF xdr_from_msg
<1> QED
  BY <1>1, <1>2

LEMMA DoneKeeps ==
  ASSUME NEW l, l = Gives(l.v, l.a), l.a \in Getters, GetsWords(l.a), ~Failed(done(l).a)
  PROVE  done(l) = l /\ ~Failed(l.a) /\ l.a.at = Len(l.a.in)
<1> DEFINE m == "message size"
<1>1. ~Failed(l.a)
  BY DoneFails
<1>2. CASE l.a.at # Len(l.a.in)
  <2> DEFINE z == Raise(l.a, m)
             v == l.v
             a == l.a
  <2>1. done(l) = [l EXCEPT !.a = z]
    BY <1>2 DEF done
  <2>2. Failed(z)
    <3>1. m \in Exception /\ m # "none"
      BY DEF Exception
    <3> HIDE DEF m
    <3> QED
      BY <3>1, RaiseStays
  <2>3. l = Gives(v, a)
    OBVIOUS
  <2> HIDE DEF z, v, a
  <2>4. done(l) = Gives(v, z)
    BY <2>1, <2>3 DEF Gives
  <2>5. done(l).a = z
    BY <2>4, GivesIs
  <2> QED
    BY <2>2, <2>5
<1>3. CASE l.a.at = Len(l.a.in)
  BY <1>1, <1>3 DEF done
<1> QED
  BY <1>2, <1>3

LEMMA AcceptedMessage ==
  ASSUME RecursiveTypes, RecursiveValues, RecursiveArchives, UsesObjects,
         NEW t \in Roots, NEW x \in Objects[t], NEW in \in Seq(Octet), NEW L \in Nat,
         NEW H \in Nat, L <= H,
         NEW r, r = xdr_from_msg(t, x, in, L), ~Failed(r.a)
  PROVE  \E c, M : IsMessage(t, r.v, c, M) /\ H \in M /\ MessageFrom(c, in)
<1> DEFINE n == Len(x)
           a == Getter(in, L)
           l == LoadFirst(t, n, x, a)
<1>1. t \in Type /\ HasParts(t) /\ Kind(t) \notin Variable /\ n \in Nat /\ Counts(t, n)
  BY RootsAre, ObjectParts
<1>2. n = Len(x) /\ n <= n /\ a = Getter(in, L) /\ l = LoadFirst(t, n, x, a)
  BY <1>1
<1>3. Len(in) % 4 = 0 /\ r = done(l)
  BY <1>2, LengthAccepted
<1>4. GetsWords(a) /\ ~Failed(a) /\ a.in = in /\ a.at = 0
  BY <1>3, FreshGetter
<1>5. a.limit = L
  BY DEF Getter
<1> HIDE DEF a, n
<1>6. l = Gives(l.v, l.a) /\ l.a \in Getters /\ GetsWords(l.a)
  <2> DEFINE A == GetArchives(L, a.in, a.past)
  <2>1. a \in A
    BY <1>4, <1>5, GetterTypes DEF GetArchives
  <2>2. Turns(A, Type) /\ Needs(t, Type)
    <3>1. \A k \in Nat : Turns(GetArchives(k, a.in, a.past), Type)
      BY GetTurns
    <3> QED
      BY <1>1, <3>1, AllNeeded
  <2>3. A = GetArchives(L, a.in, a.past)
    OBVIOUS
  <2> HIDE DEF A
  <2>4. LET w == LoadFirst(t, n, x, a) IN
        /\ w.v \in Objects[t] /\ w.a \in A /\ (~Failed(w.a) => Len(w.v) = n)
        /\ w = Gives(w.v, w.a)
    BY <1>1, <1>2, <2>1, <2>2, LoadLeaves
  <2> QED
    BY <1>2, <2>3, <2>4, Zenon DEF GetArchives
<1> HIDE DEF l
<1>7. r = l /\ ~Failed(l.a) /\ l.a.at = Len(l.a.in)
  BY <1>3, <1>6, DoneKeeps
<1>8. PartsRead(t, L, n, a, l)
  <2>1. \A e \in Type : ReadsCode(L, e)
    BY AllReadCode
  <2> QED
    BY <1>1, <1>2, <1>4, <1>5, <1>7, <2>1, FirstRead
<1> DEFINE v == l.v
<1>9. PICK b, K, F : /\ CodedParts(t, v, b, K) /\ L \in All(K, n)
                     /\ Joined(F, b, n) /\ Took(a, l.a, F[n])
  BY <1>8, Zenon DEF PartsRead
<1>10. v \in Objects[t] /\ n = Len(v)
  BY <1>8 DEF PartsRead
<1> HIDE DEF v
<1> DEFINE c == F[n]
           M == All(K, n)
<1>11. IsMessage(t, v, c, M) /\ Enough(M)
  BY <1>1, <1>9, <1>10, MessageOfParts
<1>12. Took(a, l.a, c) /\ L \in M
  BY <1>9
<1> HIDE DEF c, M
<1>13. H \in M
  BY <1>11, <1>12 DEF Enough
<1>14. Len(c) \in Nat
  BY <1>11 DEF IsMessage, IsBytes
<1>15. Len(c) = Len(in)
  <2>1. l.a = Skip(a, Len(c))
    BY <1>12 DEF Took
  <2>2. l.a.at = Len(c) /\ l.a.in = in
    BY <1>4, <1>14, <2>1, GetterTypes DEF Skip, Getters
  <2> QED
    BY <1>7, <2>2
<1>16. MessageFrom(c, in)
  <2>1. ASSUME NEW k \in 1..Len(c)
        PROVE  in[k] = c[k] \/ c[LastByte(k)] = 1
    <3>1. a.in[a.at + k] = c[k] \/ c[LastByte(k)] = 1
      BY <1>12 DEF Took, Alike
    <3>2. a.at + k = k
      BY <1>4
    <3> QED
      BY <1>4, <3>1, <3>2
  <2> QED
    BY <1>15, <2>1 DEF MessageFrom
<1>17. IsMessage(t, r.v, c, M)
  BY <1>7, <1>11 DEF v
<1> QED
  BY <1>13, <1>16, <1>17, Zenon

\* A message that is accepted stays the first object's until it changes again.
LEMMA BecomesCanonical ==
  ASSUME HoldValues, Canonical, NEW o \in Object, NEW v, Becomes(o, v)
  PROVE  Canonical'
<1>1. root' = root /\ obj' = [obj EXCEPT ![o] = v] /\ accepted' = IF o = 1 THEN << >> ELSE accepted
  BY DEF Becomes, Step
<1>2. CASE o = 1
  BY <1>1, <1>2 DEF Canonical
<1>3. CASE o # 1
  <2>1. obj'[1] = obj[1] /\ accepted' = accepted
    BY <1>1, <1>3 DEF HoldValues, Object
  <2> QED
    BY <1>1, <2>1, Zenon DEF Canonical
<1> QED
  BY <1>2, <1>3

LEMMA DecodeCanonical ==
  ASSUME Recursive, UsesObjects, HoldValues,
         NEW in \in Messages[root], Decode(in)
  PROVE  Canonical'
<1> DEFINE x == obj[1]
           r == xdr_from_msg(root, x, in, StackLimit)
           y == accepted'
<1>1. root \in Roots /\ in \in Seq(Octet) /\ x \in Objects[root] /\ 1 \in Object
  BY RootsAre DEF HoldValues, Object
<1>2. root' = root /\ obj' = [obj EXCEPT ![1] = r.v] /\ y = IF Failed(r.a) THEN << >> ELSE in
  BY DEF Decode, Decoded, Step
<1>3. StackLimit \in Nat /\ Unlimited \in Nat /\ StackLimit <= Unlimited
  BY XdrObjectsAssumption, SMT DEF Unlimited
<1>4. r = xdr_from_msg(root, x, in, StackLimit)
  OBVIOUS
<1> HIDE DEF r, x
<1>5. obj'[1] = r.v
  BY <1>1, <1>2 DEF HoldValues
<1>6. CASE Failed(r.a)
  BY <1>2, <1>6 DEF Canonical
<1>7. CASE ~Failed(r.a)
  <2>1. \E c, M : IsMessage(root, r.v, c, M) /\ Unlimited \in M /\ MessageFrom(c, in)
    BY <1>1, <1>3, <1>4, <1>7, AcceptedMessage DEF Recursive
  <2>2. CameFrom(root, r.v, in)
    BY <2>1, Zenon DEF CameFrom
  <2> QED
    BY <1>2, <1>5, <1>7, <2>2, Zenon DEF Canonical
<1> QED
  BY <1>6, <1>7

(***************************************************************************)
(* NeverReadsPast: for any types and any bytes, a decoding stays within    *)
(* the message (marshal.h:185), and a message that is accepted is the      *)
(* encoding of the value that it gave, but for the number read as TRUE.    *)
(***************************************************************************)
THEOREM AcceptedIsCanonical ==
  ASSUME Recursive, UsesObjects
  PROVE  ObjSpec => []NeverReadsPast
<1>1. ObjInit => Canonical
  BY DEF ObjInit, Canonical
<1>2. ObjInv /\ Canonical /\ [ObjNext]_objvars => Canonical'
  <2> SUFFICES ASSUME ObjInv, Canonical, [ObjNext]_objvars
               PROVE  Canonical'
    OBVIOUS
  <2>1. CASE UNCHANGED objvars
    BY <2>1 DEF objvars, Canonical
  <2>2. ASSUME NEW in \in Messages[root], Decode(in)
        PROVE  Canonical'
    <3>1. HoldValues
      BY <2>2 DEF Decode, Decoded, Step, ObjInv
    <3> QED
      BY <2>2, <3>1, DecodeCanonical
  <2>3. ASSUME NEW o \in Object, Operation(o)
        PROVE  Canonical'
    <3>0. HoldValues
      BY <2>3, OperationUsable DEF ObjInv
    <3>1. ASSUME NEW v, Becomes(o, v)
          PROVE  Canonical'
      BY <3>0, <3>1, BecomesCanonical
    <3>2. CASE Move(o)
      BY <3>2 DEF Move, Canonical
    <3>3. ASSUME NEW source, NEW spare, Assign(o, source, spare)
          PROVE  Canonical'
      BY <3>1, <3>3 DEF Assign
    <3>4. CASE ClearObject(o)
      BY <3>1, <3>4 DEF ClearObject
    <3>5. ASSUME NEW i, NEW w, NEW validate, SetTag(o, i, w, validate)
          PROVE  Canonical'
      BY <3>1, <3>5 DEF SetTag
    <3>6. ASSUME NEW i, NEW f, NEW x, SetMember(o, i, f, x)
          PROVE  Canonical'
      BY <3>1, <3>6 DEF SetMember
    <3> QED
      BY <2>3, <3>2, <3>3, <3>4, <3>5, <3>6, Zenon DEF Operation
  <2> QED
    BY <2>1, <2>2, <2>3, Zenon DEF ObjNext
<1>3. ObjInv /\ Canonical => NeverReadsPast
  <2> SUFFICES ASSUME ObjInv, Canonical, accepted # << >>
               PROVE  LET e == Encoding(obj[1]) IN
                      /\ ~Failed(e) /\ Len(e.out) = Len(accepted)
                      /\ \A k \in DOMAIN e.out :
                           e.out[k] = accepted[k] \/ e.out[((k - 1) \div 4) * 4 + 4] = 1
    BY Zenon DEF NeverReadsPast, ObjInv
  <2> DEFINE e == Encoding(obj[1])
  <2>1. PICK c, M : IsMessage(root, obj[1], c, M) /\ Unlimited \in M /\ MessageFrom(c, accepted)
    BY Zenon DEF Canonical, CameFrom
  <2>2. Unlimited \in Nat /\ IsBytes(c)
    BY <2>1 DEF IsMessage
  <2>3. Marshaled(e, c, Unlimited \in M)
    BY <2>1, <2>2 DEF IsMessage, Goes, Encoding
  <2> HIDE DEF e
  <2>4. ~Failed(e) /\ e.out = c
    BY <2>1, <2>3 DEF Marshaled
  <2>5. DOMAIN c = 1..Len(c)
    BY <2>2, LenProperties DEF IsBytes
  <2>6. Len(c) = Len(accepted) /\ \A k \in DOMAIN c : c[k] = accepted[k] \/ c[LastByte(k)] = 1
    BY <2>1, <2>5, Zenon DEF MessageFrom
  <2> QED
    BY <2>4, <2>6, Zenon DEF LastByte, e
<1> QED
  BY <1>1, <1>2, <1>3, ObjectsHold, PTL DEF ObjSpec
=============================================================================
