----------------------------- MODULE XdrProofs -----------------------------
(***************************************************************************)
(* XDR values and what the program does with them, for any types: numbers  *)
(* and bytes that are put into a message come back out of it, and are      *)
(* never read or written past its end; whatever is decoded into an object, *)
(* assigned to it, moved out of it or cleared, and wherever an exception   *)
(* ends it, every union in it holds the member its discriminant selects,   *)
(* but for one whose assignment ran out of memory, which holds none.       *)
(***************************************************************************)
EXTENDS XdrObjects, SequenceTheorems, WellFoundedInduction, TLAPS

----------------------------------------------------------------------------
(***************************************************************************)
(* Induction over the naturals and over sequences, with a set in the place *)
(* of the predicate.                                                       *)
(***************************************************************************)
LEMMA EveryNat ==
  ASSUME NEW T, 0 \in T, \A n \in Nat : n \in T => n + 1 \in T
  PROVE  Nat \subseteq T
<1> DEFINE Out == Nat \ T
<1>1. SUFFICES ASSUME Out # {}  PROVE FALSE
  OBVIOUS
<1>2. PICK k \in Out : \A j \in Out : ~(j < k)
  <2>1. Out \subseteq Nat
    OBVIOUS
  <2>2. \E k \in Out : \A j \in Out : ~(<< j, k >> \in OpToRel(<, Nat))
    <3> HIDE DEF Out
    <3> QED
      BY <1>1, <2>1, WFMin, NatLessThanWellFounded, Zenon
  <2> HIDE DEF Out
  <2> QED
    BY <2>1, <2>2, Zenon DEF OpToRel
<1>3. k \in Nat /\ k # 0
  OBVIOUS
<1>4. k - 1 \in Nat /\ k - 1 < k /\ (k - 1) + 1 = k
  BY <1>3
<1>5. k - 1 \in T
  BY <1>2, <1>4
<1>6. k \in T
  BY <1>4, <1>5
<1> QED
  BY <1>6
----------------------------------------------------------------------------
(***************************************************************************)
(* Padding: what xdr_put and xdr_get rely on when they check the room for  *)
(* opaque data without its padding, for every length and room.             *)
(***************************************************************************)
\* Maximum length of vectors.
XDR_MAX_LEN == 4294967292

(***************************************************************************)
(* Padded(n) is the least multiple of 4 that is not below n.               *)
(***************************************************************************)
LEMMA PaddedBounds ==
  ASSUME NEW n \in Nat
  PROVE  /\ Padded(n) \in Nat /\ Padded(n) % 4 = 0
         /\ n <= Padded(n) /\ Padded(n) < n + 4
  BY DEF Padded

(***************************************************************************)
(* get_bytes and put_bytes read and write the padding of n bytes though    *)
(* only check(n) was called (marshal.h:119-126, 186-195): in a buffer      *)
(* whose remaining room is a multiple of 4, which the constructors see to  *)
(* and every operation keeps, room for the bytes is room for the padding.  *)
(***************************************************************************)
THEOREM CheckCoversPadding ==
  ASSUME NEW n \in Nat, NEW room \in Nat, room % 4 = 0, Fits(n, room)
  PROVE  Fits(Padded(n), room) /\ (room - Padded(n)) % 4 = 0
<1>1. PICK k \in Nat : room = 4 * k
  BY SMT
<1>2. PICK m \in Nat : Padded(n) = 4 * m /\ 4 * m < n + 4
  <2>1. Padded(n) = 4 * ((n + 3) \div 4) /\ (n + 3) \div 4 \in Nat
    BY DEF Padded
  <2>2. QED
    BY <2>1, PaddedBounds
<1>3. m <= k
  BY <1>1, <1>2 DEF Fits
<1>4. room - Padded(n) = 4 * (k - m) /\ k - m \in Nat
  BY <1>1, <1>2, <1>3
<1>5. QED
  BY <1>2, <1>4, PaddedBounds DEF Fits

(***************************************************************************)
(* serial_size of strings and opaque vectors, (n + 7) & ~3 (types.h:520),  *)
(* is what put writes: the length word and the padded bytes.               *)
(***************************************************************************)
THEOREM SizeOfBytes ==
  ASSUME NEW n \in Nat
  PROVE  WithLength(n) = 4 + Padded(n)
  BY DEF WithLength, Padded

(***************************************************************************)
(* XDR_MAX_LEN is the largest length that "still fits in 32 bits when      *)
(* rounded up to a multiple of four" (types.h:357-360): it and all below   *)
(* it do, and none above it does.                                          *)
(***************************************************************************)
THEOREM MaxLenFits ==
  ASSUME NEW n \in Nat
  PROVE  n <= XDR_MAX_LEN <=> Padded(n) <= 4294967295
<1>1. 4294967292 % 4 = 0 /\ 4294967292 \in Nat
  BY SMT
<1>2. ASSUME n <= XDR_MAX_LEN
      PROVE  Padded(n) <= 4294967295
  <2>1. Padded(n) <= 4294967292
    BY <1>1, <1>2, CheckCoversPadding DEF Fits, XDR_MAX_LEN
  <2>2. QED
    BY <2>1, PaddedBounds
<1>3. ASSUME ~(n <= XDR_MAX_LEN)
      PROVE  ~(Padded(n) <= 4294967295)
  <2>1. PICK m \in Nat : Padded(n) = 4 * m
    <3>1. Padded(n) = 4 * ((n + 3) \div 4) /\ (n + 3) \div 4 \in Nat
      BY DEF Padded
    <3>2. QED
      BY <3>1
  <2>2. n > 4294967292 /\ n <= 4 * m
    BY <1>3, <2>1, PaddedBounds, SMT DEF XDR_MAX_LEN
  <2>3. QED
    BY <2>1, <2>2, SMT
<1>4. QED
  BY <1>2, <1>3

----------------------------------------------------------------------------
(***************************************************************************)
(* Numbers and bytes in a buffer (XdrBuffer).                              *)
(***************************************************************************)
Octet == 0..255
U32 == {n \in Nat : n < 4294967296}

\* The four bytes of a number are its own, and every four bytes are a number's.
LEMMA WordOfNumber ==
  ASSUME NEW n \in U32
  PROVE  Word(n) \in Seq(Octet) /\ Len(Word(n)) = 4 /\ Number(Word(n)) = n
<1> DEFINE x == n \div 256
           y == n \div 65536
           z == n \div 16777216
<1>1. n \in Int /\ 0 <= n /\ n < 4294967296
  BY SMT DEF U32
<1>2. /\ x \in Int /\ n = 256 * x + (n % 256) /\ (n % 256) \in Octet
      /\ 0 <= x /\ x <= 16777215
  BY SMT, <1>1 DEF Octet
<1>3. /\ y \in Int /\ x = 256 * y + (x % 256) /\ (x % 256) \in Octet
      /\ 0 <= y /\ y <= 65535
  BY SMT, <1>1 DEF Octet
<1>4. /\ z \in Int /\ y = 256 * z + (y % 256) /\ (y % 256) \in Octet
      /\ z \in Octet
  BY SMT, <1>1 DEF Octet
<1>5. Word(n) = <<z, (y % 256), (x % 256), (n % 256)>>
  BY SMT DEF Word
<1> HIDE DEF x, y, z
<1>6. Word(n) \in Seq(Octet) /\ Len(Word(n)) = 4
  BY SMT, <1>2, <1>3, <1>4, <1>5
<1>7. Number(Word(n)) = ((z * 256 + (y % 256)) * 256 + (x % 256)) * 256 + (n % 256)
  BY SMT, <1>5 DEF Number
<1>8. (z * 256 + (y % 256)) * 256 + (x % 256) = x
  BY SMT, <1>3, <1>4
<1> QED
  BY SMT, <1>2, <1>6, <1>7, <1>8

LEMMA NumberOfWord ==
  ASSUME NEW a \in Octet, NEW b \in Octet, NEW c \in Octet, NEW d \in Octet
  PROVE  /\ Number(<<a, b, c, d>>) \in U32
         /\ Word(Number(<<a, b, c, d>>)) = <<a, b, c, d>>
<1> DEFINE y == a * 256 + b
           x == y * 256 + c
           n == x * 256 + d
<1>1. a \in Int /\ b \in Int /\ c \in Int /\ d \in Int
      /\ 0 <= a /\ a <= 255 /\ 0 <= b /\ b <= 255 /\ 0 <= c /\ c <= 255 /\ 0 <= d /\ d <= 255
  BY SMT DEF Octet
<1>2. Number(<<a, b, c, d>>) = n
  BY SMT DEF Number
<1>3. y \in Int /\ 0 <= y /\ y <= 65535
  BY SMT, <1>1
<1>4. x \in Int /\ 0 <= x /\ x <= 16777215
  BY SMT, <1>1, <1>3
<1>5. n \in U32
  BY SMT, <1>1, <1>4 DEF U32
<1>6. (n % 256) = d /\ n \div 256 = x
  BY SMT, <1>1, <1>4
<1>7. (x % 256) = c /\ n \div 65536 = y
  BY SMT, <1>1, <1>3
<1>8. (y % 256) = b /\ n \div 16777216 = a
  BY SMT, <1>1
<1> HIDE DEF n, x, y
<1> QED
  BY SMT, <1>2, <1>5, <1>6, <1>7, <1>8 DEF Word

LEMMA WordSums ==
  ASSUME NEW x \in Int, NEW y \in Int, x % 4 = 0, y % 4 = 0
  PROVE  (x + y) % 4 = 0 /\ (x - y) % 4 = 0
<1>1. PICK j \in Int : x = 4 * j
  BY SMT
<1>2. PICK k \in Int : y = 4 * k
  BY SMT
<1>3. x + y = 4 * (j + k) /\ x - y = 4 * (j - k) /\ j + k \in Int /\ j - k \in Int
  BY <1>1, <1>2
<1> QED
  BY <1>3

\* Joining two sequences of bytes.
LEMMA OctetsJoined ==
  ASSUME NEW p \in Seq(Octet), NEW q \in Seq(Octet)
  PROVE  /\ p \o q \in Seq(Octet) /\ Len(p \o q) = Len(p) + Len(q)
         /\ \A k \in 1..Len(p) : (p \o q)[k] = p[k]
         /\ \A k \in Len(p) + 1 .. Len(p) + Len(q) : (p \o q)[k] = q[k - Len(p)]
<1>1. /\ p \o q \in Seq(Octet) /\ Len(p \o q) = Len(p) + Len(q)
      /\ \A k \in 1..Len(p) + Len(q) : (p \o q)[k] = IF k <= Len(p) THEN p[k] ELSE q[k - Len(p)]
  BY ConcatProperties
<1>2. Len(p) \in Nat /\ Len(q) \in Nat
  BY LenProperties
<1> QED
  BY <1>1, <1>2

\* put_bytes: the bytes, then as many zeros as make the length a multiple of 4.
LEMMA PutBytesPads ==
  ASSUME NEW v \in Seq(Octet)
  PROVE  /\ put_bytes(v) \in Seq(Octet) /\ Len(put_bytes(v)) = Padded(Len(v))
         /\ \A k \in 1..Len(v) : put_bytes(v)[k] = v[k]
         /\ \A k \in Len(v) + 1 .. Padded(Len(v)) : put_bytes(v)[k] = 0
<1> DEFINE n == Len(v)
           z == Zeros(Padded(n) - n)
<1>1. n \in Nat /\ Padded(n) \in Nat /\ n <= Padded(n)
  BY PaddedBounds, LenProperties
<1>2. Padded(n) - n \in Nat
  BY <1>1
<1>3. z \in Seq(Octet) /\ Len(z) = Padded(n) - n /\ \A k \in 1..Padded(n) - n : z[k] = 0
  <2>1. z \in [1..Padded(n) - n -> Octet]
    BY DEF Zeros, Octet
  <2>2. z \in Seq(Octet)
    BY <1>2, <2>1, SeqDef
  <2>3. Len(z) = Padded(n) - n
    BY <1>2, <2>1, <2>2, LenProperties
  <2> QED
    BY <2>2, <2>3 DEF Zeros
<1>4. put_bytes(v) = v \o z
  BY DEF put_bytes
<1> HIDE DEF z
<1>5. /\ v \o z \in Seq(Octet) /\ Len(v \o z) = n + Len(z)
      /\ \A k \in 1..n + Len(z) : (v \o z)[k] = IF k <= n THEN v[k] ELSE z[k - n]
  BY <1>3, ConcatProperties
<1> HIDE DEF n
<1>6. \A k \in 1..n : (v \o z)[k] = v[k]
  BY <1>1, <1>3, <1>5
<1>7. \A k \in n + 1 .. Padded(n) : (v \o z)[k] = 0
  BY <1>1, <1>3, <1>5
<1> QED
  BY <1>1, <1>3, <1>4, <1>5, <1>6, <1>7 DEF n

\* The values of type t that are numbers or bytes.
LeafValue(t, v) ==
  \/ Kind(t) = "u32" /\ \E n \in U32 : v = <<n>>
  \/ Kind(t) = "bool" /\ \E n \in {0, 1} : v = <<n>>
  \/ Kind(t) = "enum" /\ \E n \in U32 : v = <<n>> /\ validate_enum(t, n)
  \/ Kind(t) = "u64" /\ \E h \in U32, l \in U32 : v = <<h, l>>
  \/ Kind(t) = "fixed" /\ v \in Seq(Octet) /\ Len(v) = Types[t].len
  \/ Kind(t) = "bytes" /\ v \in Seq(Octet) /\ Len(v) <= MaxSize(t) /\ Len(v) \in U32

\* The same whether or not get accepts them: a number that is no tag, too many bytes.
LeafShape(t, v) ==
  \/ Kind(t) \in Scalar /\ \E n \in U32 : v = <<n>>
  \/ Kind(t) = "u64" /\ \E h \in U32, l \in U32 : v = <<h, l>>
  \/ Kind(t) = "fixed" /\ v \in Seq(Octet) /\ Len(v) = Types[t].len
  \/ Kind(t) = "bytes" /\ v \in Seq(Octet) /\ Len(v) \in U32

\* Their encoding, and the number that check is called with.
LeafBytes(t, v) ==
  IF Kind(t) = "bytes" THEN Word(Len(v)) \o put_bytes(v)
  ELSE IF Kind(t) = "fixed" THEN put_bytes(v)
  ELSE IF Kind(t) = "u64" THEN Word(v[1]) \o Word(v[2])
  ELSE Word(v[1])
Checked(t, v) ==
  IF Kind(t) = "bytes" THEN 4 + Len(v)
  ELSE IF Kind(t) = "fixed" THEN Len(v)
  ELSE IF Kind(t) = "u64" THEN 8
  ELSE 4

LEMMA PutLeafWrites ==
  ASSUME NEW t, NEW v, NEW a, Kind(t) \in Leaf
  PROVE  PutLeaf(t, v, a) = Write(a, Checked(t, v), LeafBytes(t, v))
BY DEF PutLeaf, PutBytes, Checked, LeafBytes, Leaf, Scalar, is_bytes

LEMMA ValueShape ==
  ASSUME NEW t, NEW v, LeafValue(t, v)
  PROVE  LeafShape(t, v)
BY DEF LeafValue, LeafShape, Scalar, U32

LEMMA LeafBytesFit ==
  ASSUME NEW t, NEW v, LeafShape(t, v)
  PROVE  /\ Kind(t) \in Leaf
         /\ LeafBytes(t, v) \in Seq(Octet)
         /\ Checked(t, v) \in Nat
         /\ Len(LeafBytes(t, v)) = Padded(Checked(t, v))
         /\ Len(LeafBytes(t, v)) = LeafSize(t, v)
<1>1. CASE Kind(t) \in Scalar
  <2>1. PICK n \in U32 : v = <<n>>
    BY <1>1 DEF LeafShape, Scalar, is_bytes
  <2>2. Kind(t) \in Leaf /\ LeafBytes(t, v) = Word(n) /\ Checked(t, v) = 4 /\ LeafSize(t, v) = 4
    BY <1>1, <2>1 DEF Leaf, LeafBytes, Checked, LeafSize, Scalar
  <2>3. Padded(4) = 4
    BY DEF Padded
  <2>4. Word(n) \in Seq(Octet) /\ Len(Word(n)) = 4
    BY WordOfNumber
  <2> QED
    BY <2>2, <2>3, <2>4
<1>2. CASE Kind(t) = "u64"
  <2>1. PICK h \in U32, l \in U32 : v = <<h, l>>
    BY <1>2 DEF LeafShape, Scalar
  <2>2. Kind(t) \in Leaf /\ LeafBytes(t, v) = Word(h) \o Word(l) /\ Checked(t, v) = 8 /\ LeafSize(t, v) = 8
    BY <1>2, <2>1 DEF Leaf, LeafBytes, Checked, LeafSize, Scalar
  <2>3. Padded(8) = 8
    BY DEF Padded
  <2>4. Word(h) \in Seq(Octet) /\ Word(l) \in Seq(Octet) /\ Len(Word(h)) = 4 /\ Len(Word(l)) = 4
    BY WordOfNumber
  <2>6. /\ Word(h) \o Word(l) \in Seq(Octet)
        /\ Len(Word(h) \o Word(l)) = Len(Word(h)) + Len(Word(l))
    BY <2>4, OctetsJoined
  <2>5. Word(h) \o Word(l) \in Seq(Octet) /\ Len(Word(h) \o Word(l)) = 8
    BY <2>4, <2>6
  <2> QED
    BY <2>2, <2>3, <2>5
<1>3. CASE Kind(t) = "fixed"
  <2>1. v \in Seq(Octet) /\ Len(v) = Types[t].len
    BY <1>3 DEF LeafShape, Scalar
  <2>2. /\ Kind(t) \in Leaf /\ LeafBytes(t, v) = put_bytes(v) /\ Checked(t, v) = Len(v)
        /\ LeafSize(t, v) = Padded(Len(v))
    BY <1>3, <2>1 DEF Leaf, LeafBytes, Checked, LeafSize, Scalar, is_bytes
  <2>3. Len(v) \in Nat
    BY <2>1, LenProperties
  <2> QED
    BY <2>1, <2>2, <2>3, PutBytesPads
<1>4. CASE Kind(t) = "bytes"
  <2>1. v \in Seq(Octet) /\ Len(v) \in U32 /\ Len(v) \in Nat
    BY <1>4, LenProperties DEF LeafShape, Scalar
  <2>2. /\ Kind(t) \in Leaf /\ LeafBytes(t, v) = Word(Len(v)) \o put_bytes(v)
        /\ Checked(t, v) = 4 + Len(v) /\ LeafSize(t, v) = WithLength(Len(v))
    BY <1>4 DEF Leaf, LeafBytes, Checked, LeafSize, Scalar, is_bytes
  <2>3. Word(Len(v)) \in Seq(Octet) /\ Len(Word(Len(v))) = 4
    BY <2>1, WordOfNumber
  <2>4. put_bytes(v) \in Seq(Octet) /\ Len(put_bytes(v)) = Padded(Len(v))
    BY <2>1, PutBytesPads
  <2>5. /\ Word(Len(v)) \o put_bytes(v) \in Seq(Octet)
        /\ Len(Word(Len(v)) \o put_bytes(v)) = Len(Word(Len(v))) + Len(put_bytes(v))
    BY <2>3, <2>4, OctetsJoined
  <2>6. 4 + Padded(Len(v)) = Padded(4 + Len(v)) /\ 4 + Padded(Len(v)) = WithLength(Len(v))
    BY <2>1 DEF Padded, WithLength
  <2> QED
    BY <2>1, <2>2, <2>3, <2>4, <2>5, <2>6
<1> QED
  BY <1>1, <1>2, <1>3, <1>4 DEF LeafShape, Scalar

\* An archive that puts, at a word of its buffer.
Exception == {"none", "overflow", "invariant", "should be zero", "stack", "discriminant",
              "message size"}
Putters == [kind : {"put"}, out : Seq(Octet), end : Nat, limit : Nat, err : Exception]
PutsWords(a) == /\ a \in Putters /\ a.end % 4 = 0
                /\ Len(a.out) % 4 = 0 /\ Len(a.out) <= a.end

(***************************************************************************)
(* put writes a number or bytes just where they fit, padding included,     *)
(* though it asks only for the room of the bytes (marshal.h:118-127), and  *)
(* as many bytes as serial_size said; otherwise it throws and leaves the   *)
(* buffer as it is.  So it never passes the buffer's end.                  *)
(***************************************************************************)
THEOREM PutFills ==
  ASSUME NEW t, NEW v, LeafShape(t, v), NEW a, PutsWords(a), ~Failed(a)
  PROVE  /\ Len(LeafBytes(t, v)) = LeafSize(t, v)
         /\ PutLeaf(t, v, a) = IF LeafSize(t, v) <= a.end - Len(a.out)
                               THEN [a EXCEPT !.out = a.out \o LeafBytes(t, v)]
                               ELSE [a EXCEPT !.err = "overflow"]
         /\ PutsWords(PutLeaf(t, v, a))
<1> DEFINE b == LeafBytes(t, v)
           n == Checked(t, v)
           room == a.end - Len(a.out)
<1>1. /\ Kind(t) \in Leaf /\ b \in Seq(Octet) /\ n \in Nat
      /\ Len(b) = Padded(n) /\ Len(b) = LeafSize(t, v)
  BY LeafBytesFit
<1>2. PutLeaf(t, v, a) = Write(a, n, b)
  BY <1>1, PutLeafWrites
<1>3. a.out \in Seq(Octet) /\ a.end \in Nat /\ Len(a.out) \in Nat /\ a \in Putters
  BY LenProperties DEF PutsWords, Putters
<1>4. room \in Nat /\ room % 4 = 0
  <2>1. a.end % 4 = 0 /\ Len(a.out) % 4 = 0 /\ Len(a.out) <= a.end
    BY DEF PutsWords
  <2>2. room \in Nat
    BY <1>3, <2>1
  <2> DEFINE x == a.end
             y == Len(a.out)
  <2>3. x \in Int /\ y \in Int
    BY <1>3, <2>1
  <2>5. x % 4 = 0
    BY <2>1
  <2>6. y % 4 = 0
    BY <2>1
  <2> HIDE DEF x, y
  <2>4. (x - y) % 4 = 0
    BY <2>3, <2>5, <2>6, WordSums
  <2> QED
    BY <2>2, <2>4 DEF x, y
<1>5. Fits(n, room) <=> LeafSize(t, v) <= room
  <2>1. n <= Padded(n) /\ Padded(n) \in Nat
    BY <1>1, PaddedBounds
  <2>2. Fits(n, room) => Fits(Padded(n), room)
    BY <1>1, <1>4, CheckCoversPadding
  <2> HIDE DEF n, room
  <2> QED
    BY <1>1, <1>4, <2>1, <2>2 DEF Fits
<1>6. PutLeaf(t, v, a) = IF LeafSize(t, v) <= room THEN [a EXCEPT !.out = a.out \o b]
                         ELSE [a EXCEPT !.err = "overflow"]
  BY <1>2, <1>5 DEF Write, Raise, Failed
<1> HIDE DEF b, n
<1>7. CASE LeafSize(t, v) <= room
  <2>1. a.out \o b \in Seq(Octet) /\ Len(a.out \o b) = Len(a.out) + Len(b)
    BY <1>1, <1>3, ConcatProperties
  <2>2. Len(b) % 4 = 0 /\ Len(b) \in Nat
    BY <1>1, PaddedBounds
  <2>3. Len(a.out \o b) <= a.end
    BY <1>1, <1>3, <1>7, <2>1, <2>2
  <2>7. Len(a.out) % 4 = 0 /\ a.end % 4 = 0
    BY DEF PutsWords
  <2> DEFINE x == Len(a.out)
             y == Len(b)
  <2>8. x \in Int /\ y \in Int
    BY <1>3, <2>2
  <2>10. x % 4 = 0
    BY <2>7
  <2>11. y % 4 = 0
    BY <2>2
  <2> HIDE DEF x, y
  <2>9. (x + y) % 4 = 0
    BY <2>8, <2>10, <2>11, WordSums
  <2>6. Len(a.out \o b) % 4 = 0
    BY <2>1, <2>9 DEF x, y
  <2> USE DEF x, y
  <2>4. PutLeaf(t, v, a) = [a EXCEPT !.out = a.out \o b]
    BY <1>6, <1>7
  <2>5. PutsWords(PutLeaf(t, v, a))
    BY <1>3, <2>1, <2>3, <2>4, <2>6, <2>7 DEF PutsWords, Putters
  <2> QED
    BY <1>1, <1>6, <2>5 DEF b
<1>8. CASE ~(LeafSize(t, v) <= room)
  <2>1. PutLeaf(t, v, a) = [a EXCEPT !.err = "overflow"]
    BY <1>6, <1>8
  <2>3. [a EXCEPT !.err = "overflow"] \in Putters
    BY <1>3 DEF Putters, Exception
  <2> DEFINE q == [a EXCEPT !.err = "overflow"]
  <2>4. q.out = a.out /\ q.end = a.end
    BY <1>3 DEF Putters
  <2>5. PutsWords(q)
    BY <2>3, <2>4 DEF PutsWords
  <2>2. PutsWords(PutLeaf(t, v, a))
    BY <2>1, <2>5
  <2> QED
    BY <1>1, <1>6, <2>2 DEF b
<1> QED
  BY <1>7, <1>8

\* An archive that gets, at a word of its message.
Getters == [kind : {"get"}, in : Seq(Octet), at : Nat, limit : Nat, past : BOOLEAN,
            err : Exception]
GetsWords(a) == /\ a \in Getters /\ Len(a.in) % 4 = 0
                /\ a.at % 4 = 0 /\ a.at <= Len(a.in)

\* What it is going to read is b.
Shows(a, b) == /\ a.at + Len(b) <= Len(a.in)
               /\ \A k \in 1..Len(b) : a.in[a.at + k] = b[k]

LEMMA GetterTypes ==
  ASSUME NEW a, GetsWords(a)
  PROVE  /\ a \in Getters /\ a.in \in Seq(Octet) /\ a.at \in Nat /\ a.past \in BOOLEAN
         /\ Len(a.in) \in Nat /\ a.at <= Len(a.in)
BY LenProperties DEF GetsWords, Getters

\* Going on by whole words, as far as there is room.
LEMMA SkipStays ==
  ASSUME NEW a, GetsWords(a), NEW n \in Nat, n % 4 = 0, a.at + n <= Len(a.in)
  PROVE  /\ GetsWords(Skip(a, n))
         /\ Skip(a, n).in = a.in /\ Skip(a, n).at = a.at + n
         /\ Skip(a, n).past = a.past /\ Skip(a, n).err = a.err
<1> DEFINE q == Skip(a, n)
           x == a.at
<1>1. a \in Getters /\ x \in Nat /\ x \in Int /\ n \in Int
  BY GetterTypes
<1>2. q \in Getters /\ q.in = a.in /\ q.at = x + n /\ q.past = a.past /\ q.err = a.err
  BY <1>1, SMTT(30) DEF Skip, Getters
<1>3. x % 4 = 0 /\ Len(a.in) % 4 = 0
  BY DEF GetsWords
<1> HIDE DEF x
<1>4. (x + n) % 4 = 0
  BY <1>1, <1>3, WordSums
<1>5. x + n <= Len(a.in)
  BY DEF x
<1> HIDE DEF q
<1> QED
  BY <1>2, <1>3, <1>4, <1>5 DEF GetsWords, q, x

LEMMA RaiseStays ==
  ASSUME NEW a, GetsWords(a), NEW e \in Exception
  PROVE  /\ GetsWords(Raise(a, e))
         /\ Raise(a, e).in = a.in /\ Raise(a, e).at = a.at /\ Raise(a, e).past = a.past
         /\ e # "none" => Failed(Raise(a, e))
<1> DEFINE q == Raise(a, e)
<1>1. a \in Getters
  BY GetterTypes
<1>2. /\ q \in Getters /\ q.in = a.in /\ q.at = a.at /\ q.past = a.past
      /\ e # "none" => q.err # "none"
  BY <1>1 DEF Raise, Getters
<1> HIDE DEF q
<1>3. GetsWords(q)
  BY <1>2 DEF GetsWords
<1> QED
  BY <1>2, <1>3 DEF q, Failed

\* The word at some place of the message.
LEMMA WordThere ==
  ASSUME NEW a, GetsWords(a), NEW k \in Nat, a.at + k + 4 <= Len(a.in)
  PROVE  /\ Len(WordAt(a, k)) = 4
         /\ \A j \in 1..4 : WordAt(a, k)[j] = a.in[a.at + k + j]
         /\ Number(WordAt(a, k)) \in U32
         /\ Word(Number(WordAt(a, k))) = WordAt(a, k)
<1> DEFINE s == a.in
           m == a.at + k
           w == WordAt(a, k)
<1>1. s \in Seq(Octet) /\ m \in Nat /\ m + 4 <= Len(s) /\ Len(s) \in Nat
  BY GetterTypes
<1>2. w = SubSeq(s, m + 1, m + 4)
  BY DEF WordAt
<1> HIDE DEF s, m, w
<1>3. \A j \in m + 1 .. m + 4 : s[j] \in Octet
  <2> TAKE j \in m + 1 .. m + 4
  <2>1. j \in 1..Len(s)
    BY <1>1
  <2> QED
    BY <1>1, <2>1, ElementOfSeq
<1>4. /\ SubSeq(s, m + 1, m + 4) \in Seq(Octet)
      /\ Len(SubSeq(s, m + 1, m + 4)) = IF m + 1 <= m + 4 THEN (m + 4) - (m + 1) + 1 ELSE 0
      /\ \A j \in 1 .. (m + 4) - (m + 1) + 1 : SubSeq(s, m + 1, m + 4)[j] = s[(m + 1) + j - 1]
  BY <1>1, <1>3, SubSeqProperties
<1>5. w \in Seq(Octet) /\ Len(w) = 4 /\ \A j \in 1..4 : w[j] = s[m + j]
  BY <1>1, <1>2, <1>4
<1>6. w[1] \in Octet /\ w[2] \in Octet /\ w[3] \in Octet /\ w[4] \in Octet
  <2>1. 1 \in 1..Len(w) /\ 2 \in 1..Len(w) /\ 3 \in 1..Len(w) /\ 4 \in 1..Len(w)
    BY <1>5
  <2> QED
    BY <1>5, <2>1, ElementOfSeq
<1>7. w = <<w[1], w[2], w[3], w[4]>>
  BY <1>5
<1>8. Number(w) \in U32 /\ Word(Number(w)) = w
  <2> DEFINE b1 == w[1]
             b2 == w[2]
             b3 == w[3]
             b4 == w[4]
  <2>1. w = <<b1, b2, b3, b4>> /\ b1 \in Octet /\ b2 \in Octet /\ b3 \in Octet /\ b4 \in Octet
    BY <1>6, <1>7
  <2> HIDE DEF b1, b2, b3, b4
  <2> QED
    BY <2>1, NumberOfWord
<1> QED
  BY <1>5, <1>8 DEF s, m, w

LEMMA RoomForPadding ==
  ASSUME NEW a, GetsWords(a), NEW n \in Nat, HasRoom(a, n)
  PROVE  a.at + Padded(n) <= Len(a.in) /\ Padded(n) \in Nat /\ Padded(n) % 4 = 0 /\ n <= Padded(n)
<1> DEFINE x == Len(a.in)
           y == a.at
<1>1. x \in Int /\ y \in Int /\ x - y \in Nat
  BY GetterTypes
<1>2. x % 4 = 0 /\ y % 4 = 0
  BY DEF GetsWords
<1>3. Fits(n, x - y)
  BY DEF HasRoom
<1> HIDE DEF x, y
<1>4. (x - y) % 4 = 0
  BY <1>1, <1>2, WordSums
<1>5. Fits(Padded(n), x - y)
  BY <1>1, <1>3, <1>4, CheckCoversPadding
<1>6. Padded(n) \in Nat /\ Padded(n) % 4 = 0 /\ n <= Padded(n)
  BY PaddedBounds
<1>7. y + Padded(n) <= x
  BY <1>1, <1>5, <1>6 DEF Fits
<1> QED
  BY <1>6, <1>7 DEF x, y

\* Bytes that are copied out of a message.
LEMMA Piece ==
  ASSUME NEW s \in Seq(Octet), NEW x \in Nat, NEW n \in Nat, x + n <= Len(s)
  PROVE  /\ SubSeq(s, x + 1, x + n) \in Seq(Octet) /\ Len(SubSeq(s, x + 1, x + n)) = n
         /\ \A k \in 1..n : SubSeq(s, x + 1, x + n)[k] = s[x + k]
<1> DEFINE m == x + 1
           l == x + n
<1>1. Len(s) \in Nat /\ m \in Int /\ l \in Int
  BY LenProperties
<1>2. \A k \in m..l : s[k] \in Octet
  <2> TAKE k \in m..l
  <2>1. k \in 1..Len(s)
    BY <1>1
  <2> QED
    BY <2>1, ElementOfSeq
<1> HIDE DEF m, l
<1>3. /\ SubSeq(s, m, l) \in Seq(Octet)
      /\ Len(SubSeq(s, m, l)) = IF m <= l THEN l - m + 1 ELSE 0
      /\ \A k \in 1 .. l - m + 1 : SubSeq(s, m, l)[k] = s[m + k - 1]
  BY <1>1, <1>2, SubSeqProperties
<1>4. (m <= l => l - m + 1 = n) /\ (~(m <= l) => n = 0) /\ l - m + 1 = n
  BY DEF m, l
<1>5. \A k \in 1..n : m + k - 1 = x + k
  BY DEF m
<1>6. Len(SubSeq(s, m, l)) = n /\ \A k \in 1..n : SubSeq(s, m, l)[k] = s[x + k]
  BY <1>3, <1>4, <1>5
<1> QED
  BY <1>3, <1>6 DEF m, l

\* get_bytes with room for the bytes never passes the end, and what it accepts is
\* what put_bytes makes of the bytes that it copied.
LEMMA CopyReads ==
  ASSUME NEW a, GetsWords(a), ~Failed(a), NEW n \in Nat, HasRoom(a, n),
         NEW r, r = CopyBytes(n, a)
  PROVE  /\ GetsWords(r.a) /\ r.a.in = a.in /\ r.a.past = a.past
         /\ ~Failed(r.a) => /\ r.v \in Seq(Octet) /\ Len(r.v) = n
                            /\ r.a = Skip(a, Padded(n)) /\ Shows(a, put_bytes(r.v))
<1>1. a.at + Padded(n) <= Len(a.in) /\ Padded(n) \in Nat /\ Padded(n) % 4 = 0 /\ n <= Padded(n)
  BY RoomForPadding
<1>2. /\ a \in Getters /\ a.in \in Seq(Octet) /\ a.at \in Nat
      /\ Len(a.in) \in Nat /\ a.at <= Len(a.in)
  BY GetterTypes
<1>3. CASE n = 0
  <2>1. r = Gives(<< >>, a) /\ Padded(0) = 0
    BY <1>3 DEF CopyBytes, Padded
  <2>2. r.v = << >> /\ r.a = a
    BY <2>1 DEF Gives
  <2>3. << >> \in Seq(Octet) /\ Len(<< >>) = 0
    BY EmptySeq
  <2>4. Len(put_bytes(<< >>)) = 0
    BY <2>1, <2>3, PutBytesPads
  <2>5. Shows(a, put_bytes(<< >>))
    BY <1>2, <2>4 DEF Shows
  <2>6. Skip(a, 0) = a
    BY <1>2 DEF Skip, Getters
  <2> QED
    BY <1>3, <2>1, <2>2, <2>3, <2>5, <2>6
<1>4. CASE n # 0
  <2> DEFINE v == SubSeq(a.in, a.at + 1, a.at + n)
             b == IF \E k \in a.at + n + 1 .. a.at + Padded(n) : a.in[k] # 0
                  THEN Raise(a, "should be zero") ELSE Skip(a, Padded(n))
  <2>6. ~(n > Len(a.in)) /\ ~(a.at + Padded(n) > Len(a.in))
    BY <1>1, <1>2
  <2>1. r = Gives(v, b)
    BY <1>4, <2>6, Zenon DEF CopyBytes
  <2> HIDE DEF v, b
  <2>2. r.v = v /\ r.a = b
    BY <2>1 DEF Gives
  <2> USE DEF v, b
  <2>3. v \in Seq(Octet) /\ Len(v) = n /\ \A k \in 1..n : v[k] = a.in[a.at + k]
    <3> DEFINE s == a.in
               x == a.at
    <3>1. s \in Seq(Octet) /\ x \in Nat /\ x + n <= Len(s)
      BY <1>1, <1>2
    <3> HIDE DEF s, x
    <3>2. /\ SubSeq(s, x + 1, x + n) \in Seq(Octet) /\ Len(SubSeq(s, x + 1, x + n)) = n
          /\ \A k \in 1..n : SubSeq(s, x + 1, x + n)[k] = s[x + k]
      BY <3>1, Piece
    <3> QED
      BY <3>2 DEF s, x
  <2> HIDE DEF v
  <2>4. CASE \E k \in a.at + n + 1 .. a.at + Padded(n) : a.in[k] # 0
    <3>1. r.a = Raise(a, "should be zero")
      BY <2>2, <2>4
    <3>2. "should be zero" \in Exception /\ "should be zero" # "none"
      BY DEF Exception
    <3> QED
      BY <3>1, <3>2, RaiseStays
  <2>5. CASE ~\E k \in a.at + n + 1 .. a.at + Padded(n) : a.in[k] # 0
    <3>1. r.a = Skip(a, Padded(n))
      BY <2>2, <2>5
    <3>2. GetsWords(r.a) /\ r.a.in = a.in /\ r.a.past = a.past
      BY <1>1, <3>1, SkipStays
    <3>3. /\ Len(put_bytes(v)) = Padded(n)
          /\ \A k \in 1..n : put_bytes(v)[k] = v[k]
          /\ \A k \in n + 1 .. Padded(n) : put_bytes(v)[k] = 0
      BY <2>3, PutBytesPads
    <3>4. \A k \in 1..Padded(n) : a.in[a.at + k] = put_bytes(v)[k]
      <4> TAKE k \in 1..Padded(n)
      <4>1. CASE k <= n
        <5>1. k \in 1..n
          BY <1>1, <4>1
        <5> QED
          BY <2>3, <3>3, <5>1
      <4>2. CASE ~(k <= n)
        <5>1. k \in n + 1 .. Padded(n) /\ a.at + k \in a.at + n + 1 .. a.at + Padded(n)
          BY <1>1, <1>2, <4>2
        <5> QED
          BY <2>5, <3>3, <5>1
      <4> QED
        BY <4>1, <4>2
    <3>5. Shows(a, put_bytes(v))
      BY <1>1, <3>3, <3>4 DEF Shows
    <3> QED
      BY <2>2, <2>3, <3>1, <3>2, <3>5
  <2> QED
    BY <2>4, <2>5
<1> QED
  BY <1>3, <1>4

\* What put_bytes has written, get_bytes gives back.
LEMMA CopyBack ==
  ASSUME NEW a, GetsWords(a), NEW v \in Seq(Octet), Shows(a, put_bytes(v))
  PROVE  /\ HasRoom(a, Len(v))
         /\ CopyBytes(Len(v), a) = Gives(v, Skip(a, Padded(Len(v))))
<1> DEFINE n == Len(v)
<1>1. n \in Nat /\ Padded(n) \in Nat /\ n <= Padded(n)
  BY LenProperties, PaddedBounds
<1>2. /\ a \in Getters /\ a.in \in Seq(Octet) /\ a.at \in Nat
      /\ Len(a.in) \in Nat /\ a.at <= Len(a.in)
  BY GetterTypes
<1>3. /\ Len(put_bytes(v)) = Padded(n)
      /\ \A k \in 1..n : put_bytes(v)[k] = v[k]
      /\ \A k \in n + 1 .. Padded(n) : put_bytes(v)[k] = 0
  BY PutBytesPads
<1>4. a.at + Padded(n) <= Len(a.in) /\ \A k \in 1..Padded(n) : a.in[a.at + k] = put_bytes(v)[k]
  BY <1>3 DEF Shows
<1>5. HasRoom(a, n)
  BY <1>1, <1>2, <1>4 DEF HasRoom, Fits
<1>6. CASE n = 0
  <2>1. v = << >>
    BY <1>6, EmptySeq
  <2>2. CopyBytes(n, a) = Gives(<< >>, a) /\ Padded(0) = 0
    BY <1>6 DEF CopyBytes, Padded
  <2>3. Skip(a, 0) = a
    BY <1>2 DEF Skip, Getters
  <2> QED
    BY <1>5, <1>6, <2>1, <2>2, <2>3
<1>7. CASE n # 0
  <2> DEFINE s == a.in
             x == a.at
             w == SubSeq(s, x + 1, x + n)
  <2>1. s \in Seq(Octet) /\ x \in Nat /\ x + n <= Len(s)
    BY <1>1, <1>2, <1>4
  <2>2. \A k \in 1..n : s[x + k] = v[k]
    BY <1>1, <1>3, <1>4
  <2>3. ~\E k \in a.at + n + 1 .. a.at + Padded(n) : a.in[k] # 0
    <3> SUFFICES ASSUME NEW k \in a.at + n + 1 .. a.at + Padded(n) PROVE a.in[k] = 0
      OBVIOUS
    <3> DEFINE j == k - a.at
    <3>1. j \in n + 1 .. Padded(n) /\ j \in 1..Padded(n) /\ a.at + j = k
      BY <1>1, <1>2
    <3> HIDE DEF j
    <3> QED
      BY <1>3, <1>4, <3>1
  <2>4. CopyBytes(n, a) = Gives(w, Skip(a, Padded(n)))
    BY <1>1, <1>2, <1>4, <1>7, <2>3 DEF CopyBytes
  <2> HIDE DEF s, x, n
  <2>5. w \in Seq(Octet) /\ Len(w) = n /\ \A k \in 1..n : w[k] = s[x + k]
    BY <1>1, <2>1, Piece
  <2> HIDE DEF w
  <2>6. w = v
    BY <2>2, <2>5, SeqEqual DEF n
  <2> QED
    BY <1>5, <2>4, <2>6 DEF n
<1> QED
  BY <1>6, <1>7

\* A number whose word stands in the message is read back.
LEMMA WordBack ==
  ASSUME NEW a, GetsWords(a), NEW n \in U32, NEW k \in Nat, a.at + k + 4 <= Len(a.in),
         \A j \in 1..4 : a.in[a.at + k + j] = Word(n)[j]
  PROVE  Number(WordAt(a, k)) = n
<1> DEFINE w == WordAt(a, k)
           u == Word(n)
<1>1. u \in Seq(Octet) /\ Len(u) = 4 /\ Number(u) = n
  BY WordOfNumber
<1>2. Number(w) \in U32 /\ Word(Number(w)) = w /\ Len(w) = 4
      /\ \A j \in 1..4 : w[j] = a.in[a.at + k + j]
  BY WordThere
<1>3. w \in Seq(Octet)
  <2> DEFINE m == Number(w)
  <2>1. m \in U32 /\ Word(m) = w
    BY <1>2
  <2> HIDE DEF m
  <2> QED
    BY <2>1, WordOfNumber
<1>4. \A j \in 1..4 : w[j] = u[j]
  BY <1>2
<1> HIDE DEF w, u
<1>5. w = u
  BY <1>1, <1>2, <1>3, <1>4, SeqEqual
<1> QED
  BY <1>1, <1>5 DEF w

\* check(n) for whole words.
LEMMA RoomFor ==
  ASSUME NEW a, GetsWords(a), NEW n \in Nat
  PROVE  HasRoom(a, n) <=> a.at + n <= Len(a.in)
BY GetterTypes DEF HasRoom, Fits

\* What a call of operator() on a number or on bytes may do.
Reads(t, a, r) ==
  /\ GetsWords(r.a) /\ r.a.in = a.in /\ r.a.past = a.past
  /\ ~Failed(r.a) => /\ LeafValue(t, r.v)
                     /\ r.a = Skip(a, LeafSize(t, r.v))
                     /\ Kind(t) # "bool" => Shows(a, LeafBytes(t, r.v))

\* check throws: nothing is read.
LEMMA NoRoom ==
  ASSUME NEW t, NEW a, GetsWords(a), NEW v, NEW b, GetsWords(b), b.in = a.in, b.past = a.past
  PROVE  Reads(t, a, Gives(v, Raise(b, "overflow")))
<1> DEFINE e == "overflow"
           q == Raise(b, e)
           r == Gives(v, q)
<1>1. e \in Exception /\ e # "none"
  BY DEF Exception
<1> HIDE DEF e
<1>2. GetsWords(q) /\ q.in = b.in /\ q.past = b.past /\ Failed(q)
  BY <1>1, RaiseStays
<1> HIDE DEF q
<1>3. r.a = q
  BY DEF Gives
<1> HIDE DEF r
<1>4. Reads(t, a, r)
  BY <1>2, <1>3 DEF Reads
<1> QED
  BY <1>4 DEF r, q, e

LEMMA ScalarReads ==
  ASSUME NEW t, Kind(t) \in Scalar, NEW v, NEW a, GetsWords(a)
  PROVE  Reads(t, a, GetScalar(t, v, a))
<1>1. CASE ~HasRoom(a, 4)
  <2>1. GetScalar(t, v, a) = Gives(v, Raise(a, "overflow"))
    BY <1>1 DEF GetScalar
  <2> QED
    BY <2>1, NoRoom
<1>2. CASE HasRoom(a, 4)
  <2> DEFINE n == Number(WordAt(a, 0))
             b == Skip(a, 4)
             r == Scan(t, n, b)
             u == from_uint(t, n)
  <2>1. GetScalar(t, v, a) = r
    BY <1>2 DEF GetScalar
  <2>2. a.at + 0 + 4 <= Len(a.in) /\ a.at + 4 <= Len(a.in) /\ a.at \in Nat
    BY <1>2, RoomFor, GetterTypes
  <2>3. /\ n \in U32 /\ Word(n) = WordAt(a, 0)
        /\ \A j \in 1..4 : WordAt(a, 0)[j] = a.in[a.at + 0 + j]
    BY <2>2, WordThere
  <2>4. 4 \in Nat /\ 4 % 4 = 0
    OBVIOUS
  <2>5. GetsWords(b) /\ b.in = a.in /\ b.past = a.past
    BY <2>2, <2>4, SkipStays
  <2>6. Len(Word(n)) = 4 /\ \A j \in 1..4 : a.in[a.at + j] = Word(n)[j]
    <3>1. Len(Word(n)) = 4
      BY <2>3, WordOfNumber
    <3>2. \A j \in 1..4 : a.at + 0 + j = a.at + j
      BY <2>2
    <3>3. \A j \in 1..4 : a.in[a.at + j] = Word(n)[j]
      BY <2>3, <3>2
    <3> QED
      BY <3>1, <3>3
  <2> HIDE DEF n, b
  <2>7. r.v = <<u>> /\ r.a = IF validate_enum(t, n) THEN b ELSE Raise(b, "invariant")
    BY DEF Scan, Gives
  <2>8. u = IF Kind(t) = "bool" /\ n # 0 THEN 1 ELSE n
    BY DEF from_uint
  <2> HIDE DEF r, u
  <2>9. CASE ~validate_enum(t, n)
    <3>1. r.a = Raise(b, "invariant")
      BY <2>7, <2>9
    <3>2. "invariant" \in Exception /\ "invariant" # "none"
      BY DEF Exception
    <3>3. GetsWords(r.a) /\ r.a.in = b.in /\ r.a.past = b.past /\ Failed(r.a)
      BY <2>5, <3>1, <3>2, RaiseStays
    <3>4. Reads(t, a, r)
      BY <2>5, <3>3 DEF Reads
    <3> QED
      BY <2>1, <3>4
  <2>10. CASE validate_enum(t, n)
    <3>1. r.a = b
      BY <2>7, <2>10
    <3>2. LeafValue(t, r.v)
      <4>1. CASE Kind(t) = "bool"
        <5>1. u \in {0, 1}
          BY <2>8, <4>1
        <5> QED
          BY <2>7, <4>1, <5>1 DEF LeafValue
      <4>2. CASE Kind(t) \in {"u32", "enum"}
        <5>1. u = n
          BY <2>8, <4>2
        <5> QED
          BY <2>3, <2>7, <2>10, <4>2, <5>1 DEF LeafValue
      <4> QED
        BY <4>1, <4>2 DEF Scalar
    <3>3. LeafSize(t, r.v) = 4
      BY DEF LeafSize, Scalar
    <3>4. Kind(t) # "bool" => Shows(a, LeafBytes(t, r.v))
      <4> HAVE Kind(t) # "bool"
      <4>1. LeafBytes(t, r.v) = Word(n)
        BY <2>7, <2>8 DEF LeafBytes, Scalar
      <4> QED
        BY <2>2, <2>6, <4>1 DEF Shows
    <3>5. Reads(t, a, r)
      BY <2>5, <3>1, <3>2, <3>3, <3>4 DEF Reads, b
    <3> QED
      BY <2>1, <3>5
  <2> QED
    BY <2>9, <2>10
<1> QED
  BY <1>1, <1>2

\* Two encodings, one behind the other.
LEMMA ShowsBoth ==
  ASSUME NEW a, GetsWords(a), NEW p \in Seq(Octet), NEW q \in Seq(Octet)
  PROVE  Shows(a, p \o q) <=>
           /\ a.at + Len(p) + Len(q) <= Len(a.in)
           /\ \A k \in 1..Len(p) : a.in[a.at + k] = p[k]
           /\ \A k \in 1..Len(q) : a.in[a.at + Len(p) + k] = q[k]
<1> DEFINE b == p \o q
           m == Len(p)
           n == Len(q)
           x == a.at
           s == a.in
<1>1. m \in Nat /\ n \in Nat /\ x \in Nat /\ Len(s) \in Nat
  BY GetterTypes, LenProperties
<1>2. /\ Len(b) = m + n
      /\ \A k \in 1..m : b[k] = p[k]
      /\ \A k \in m + 1 .. m + n : b[k] = q[k - m]
  BY OctetsJoined
<1>3. Shows(a, b) <=> /\ x + Len(b) <= Len(s)
                      /\ \A k \in 1..Len(b) : s[x + k] = b[k]
  BY DEF Shows
<1> HIDE DEF b, m, n, x, s
<1>4. ASSUME x + m + n <= Len(s),
             \A k \in 1..m : s[x + k] = p[k],
             \A k \in 1..n : s[x + m + k] = q[k]
      PROVE  Shows(a, b)
  <2>1. ASSUME NEW k \in 1..m + n PROVE s[x + k] = b[k]
    <3>1. CASE k <= m
      <4>1. k \in 1..m
        BY <1>1, <3>1
      <4> QED
        BY <1>2, <1>4, <4>1
    <3>2. CASE ~(k <= m)
      <4> DEFINE j == k - m
      <4>1. k \in m + 1 .. m + n /\ j \in 1..n /\ x + m + j = x + k
        BY <1>1, <3>2
      <4>2. b[k] = q[j]
        BY <1>2, <4>1
      <4> HIDE DEF j
      <4>3. s[x + m + j] = q[j]
        BY <1>4, <4>1
      <4> QED
        BY <4>1, <4>2, <4>3
    <3> QED
      BY <3>1, <3>2
  <2>2. x + Len(b) <= Len(s)
    BY <1>1, <1>2, <1>4
  <2>3. \A k \in 1..Len(b) : s[x + k] = b[k]
    BY <1>2, <2>1
  <2> QED
    BY <1>3, <2>2, <2>3
<1>5. ASSUME Shows(a, b)
      PROVE  /\ x + m + n <= Len(s)
             /\ \A k \in 1..m : s[x + k] = p[k]
             /\ \A k \in 1..n : s[x + m + k] = q[k]
  <2>1. x + Len(b) <= Len(s) /\ \A k \in 1..m + n : s[x + k] = b[k]
    BY <1>2, <1>3, <1>5
  <2>2. x + m + n <= Len(s)
    BY <1>1, <1>2, <2>1
  <2>3. ASSUME NEW k \in 1..m PROVE s[x + k] = p[k]
    <3>1. k \in 1..m + n
      BY <1>1
    <3> QED
      BY <1>2, <2>1, <3>1
  <2>4. ASSUME NEW k \in 1..n PROVE s[x + m + k] = q[k]
    <3> DEFINE j == m + k
    <3>1. j \in 1..m + n /\ j \in m + 1 .. m + n /\ j - m = k /\ x + j = x + m + k
      BY <1>1
    <3> HIDE DEF j
    <3>2. s[x + j] = b[j] /\ b[j] = q[j - m]
      BY <1>2, <2>1, <3>1
    <3> QED
      BY <3>1, <3>2
  <2> QED
    BY <2>2, <2>3, <2>4
<1> QED
  BY <1>4, <1>5 DEF b, m, n, x, s

\* p is going to be read, and q behind it.
ShowsParts(a, p, q) ==
  /\ a.at + Len(p) + Len(q) <= Len(a.in)
  /\ \A k \in 1..Len(p) : a.in[a.at + k] = p[k]
  /\ \A k \in 1..Len(q) : a.in[a.at + Len(p) + k] = q[k]

LEMMA ShownBoth ==
  ASSUME NEW a, GetsWords(a), NEW p \in Seq(Octet), NEW q \in Seq(Octet), Shows(a, p \o q)
  PROVE  ShowsParts(a, p, q)
BY ShowsBoth DEF ShowsParts

LEMMA U64Reads ==
  ASSUME NEW t, Kind(t) = "u64", NEW v, NEW a, GetsWords(a)
  PROVE  Reads(t, a, GetU64(v, a))
<1>1. CASE ~HasRoom(a, 8)
  <2>1. GetU64(v, a) = Gives(v, Raise(a, "overflow"))
    BY <1>1 DEF GetU64
  <2> QED
    BY <2>1, NoRoom
<1>2. CASE HasRoom(a, 8)
  <2> DEFINE h == Number(WordAt(a, 0))
             l == Number(WordAt(a, 4))
             b == Skip(a, 8)
             r == Gives(<<h, l>>, b)
  <2>1. GetU64(v, a) = r
    BY <1>2 DEF GetU64
  <2>2. /\ a.at + 0 + 4 <= Len(a.in) /\ a.at + 4 + 4 <= Len(a.in) /\ a.at + 8 <= Len(a.in)
        /\ a.at \in Nat /\ Len(a.in) \in Nat
    <3> DEFINE x == a.at
               y == Len(a.in)
    <3>1. x \in Nat /\ y \in Nat
      BY GetterTypes
    <3>2. x + 8 <= y
      BY <1>2, RoomFor
    <3> HIDE DEF x, y
    <3>3. x + 0 + 4 <= y /\ x + 4 + 4 <= y /\ x + 8 <= y
      BY <3>1, <3>2
    <3> QED
      BY <3>1, <3>3 DEF x, y
  <2>3. /\ h \in U32 /\ Word(h) = WordAt(a, 0)
        /\ \A j \in 1..4 : WordAt(a, 0)[j] = a.in[a.at + 0 + j]
    BY <2>2, WordThere
  <2>4. /\ l \in U32 /\ Word(l) = WordAt(a, 4)
        /\ \A j \in 1..4 : WordAt(a, 4)[j] = a.in[a.at + 4 + j]
    BY <2>2, WordThere
  <2>5. 8 \in Nat /\ 8 % 4 = 0
    OBVIOUS
  <2>6. GetsWords(b) /\ b.in = a.in /\ b.past = a.past
    BY <2>2, <2>5, SkipStays
  <2> HIDE DEF h, l, b
  <2>7. r.v = <<h, l>> /\ r.a = b
    BY DEF Gives
  <2> HIDE DEF r
  <2>8. /\ Word(h) \in Seq(Octet) /\ Word(l) \in Seq(Octet)
        /\ Len(Word(h)) = 4 /\ Len(Word(l)) = 4
    BY <2>3, <2>4, WordOfNumber
  <2>9. \A j \in 1..4 : a.at + 0 + j = a.at + j
    BY <2>2
  <2>10. /\ \A j \in 1..4 : a.in[a.at + j] = Word(h)[j]
         /\ \A j \in 1..4 : a.in[a.at + 4 + j] = Word(l)[j]
    BY <2>3, <2>4, <2>9
  <2>11. a.at + 4 + 4 <= Len(a.in)
    BY <2>2
  <2>12. Shows(a, Word(h) \o Word(l))
    <3> DEFINE p == Word(h)
               q == Word(l)
    <3>1. p \in Seq(Octet) /\ q \in Seq(Octet) /\ Len(p) = 4 /\ Len(q) = 4
      BY <2>8
    <3>2. a.at + Len(p) + Len(q) <= Len(a.in)
      BY <2>11, <3>1
    <3>3. /\ \A k \in 1..Len(p) : a.in[a.at + k] = p[k]
          /\ \A k \in 1..Len(q) : a.in[a.at + Len(p) + k] = q[k]
      BY <2>10, <3>1
    <3> HIDE DEF p, q
    <3>4. Shows(a, p \o q)
      BY <3>1, <3>2, <3>3, ShowsBoth
    <3> QED
      BY <3>4 DEF p, q
  <2>13. LeafBytes(t, r.v) = Word(h) \o Word(l) /\ LeafSize(t, r.v) = 8
    BY <2>7 DEF LeafBytes, LeafSize, Scalar
  <2>14. LeafValue(t, r.v)
    BY <2>3, <2>4, <2>7 DEF LeafValue
  <2>15. Reads(t, a, r)
    BY <2>6, <2>7, <2>12, <2>13, <2>14 DEF Reads, b
  <2> QED
    BY <2>1, <2>15
<1> QED
  BY <1>1, <1>2

LEMMA FixedReads ==
  ASSUME NEW t, Kind(t) = "fixed", NEW v, v \in Seq(Octet), Len(v) = Types[t].len,
         NEW a, GetsWords(a), ~Failed(a)
  PROVE  Reads(t, a, GetFixed(t, v, a))
<1>1. CASE ~HasRoom(a, Len(v))
  <2>1. GetFixed(t, v, a) = Gives(v, Raise(a, "overflow"))
    BY <1>1 DEF GetFixed
  <2> QED
    BY <2>1, NoRoom
<1>2. CASE HasRoom(a, Len(v))
  <2> DEFINE n == Len(v)
             r == CopyBytes(n, a)
  <2>1. GetFixed(t, v, a) = r
    BY <1>2 DEF GetFixed
  <2>2. n \in Nat
    BY LenProperties
  <2>3. n = Types[t].len
    OBVIOUS
  <2>7. HasRoom(a, n)
    BY <1>2
  <2> HIDE DEF n, r
  <2>4. /\ GetsWords(r.a) /\ r.a.in = a.in /\ r.a.past = a.past
        /\ ~Failed(r.a) => /\ r.v \in Seq(Octet) /\ Len(r.v) = n
                           /\ r.a = Skip(a, Padded(n)) /\ Shows(a, put_bytes(r.v))
    BY <2>2, <2>7, CopyReads DEF r
  <2>5. ASSUME ~Failed(r.a)
        PROVE  /\ LeafValue(t, r.v) /\ LeafSize(t, r.v) = Padded(n)
               /\ LeafBytes(t, r.v) = put_bytes(r.v)
    BY <2>3, <2>4, <2>5 DEF LeafValue, LeafSize, LeafBytes, Scalar
  <2>6. Reads(t, a, r)
    BY <2>4, <2>5 DEF Reads
  <2> QED
    BY <2>1, <2>6
<1> QED
  BY <1>1, <1>2

LEMMA BytesReads ==
  ASSUME NEW t \in DOMAIN Types, Kind(t) = "bytes", NEW v, NEW a, GetsWords(a), ~Failed(a)
  PROVE  Reads(t, a, GetBytes(t, v, a))
<1>1. CASE ~HasRoom(a, 4)
  <2>1. GetBytes(t, v, a) = Gives(v, Raise(a, "overflow"))
    BY <1>1 DEF GetBytes
  <2> QED
    BY <2>1, NoRoom
<1>2. CASE HasRoom(a, 4)
  <2> DEFINE n == Number(WordAt(a, 0))
             b == Skip(a, 4)
             c == GetCounted(t, n, v, b)
  <2>1. GetBytes(t, v, a) = c
    BY <1>2 DEF GetBytes
  <2>2. a.at + 0 + 4 <= Len(a.in) /\ a.at + 4 <= Len(a.in) /\ a.at \in Nat
    BY <1>2, RoomFor, GetterTypes
  <2>3. /\ n \in U32 /\ Word(n) = WordAt(a, 0)
        /\ \A j \in 1..4 : WordAt(a, 0)[j] = a.in[a.at + 0 + j]
    BY <2>2, WordThere
  <2>4. 4 \in Nat /\ 4 % 4 = 0
    OBVIOUS
  <2>5. /\ GetsWords(b) /\ b.in = a.in /\ b.past = a.past /\ b.at = a.at + 4
        /\ b.err = a.err
    BY <2>2, <2>4, SkipStays
  <2>6. \A j \in 1..4 : a.at + 0 + j = a.at + j
    BY <2>2
  <2>7. \A j \in 1..4 : a.in[a.at + j] = Word(n)[j]
    BY <2>3, <2>6
  <2>8. n \in Nat
    BY <2>3, SMT DEF U32
  <2>9. MaxSize(t) \in Nat
    BY TypesAssumption DEF MaxSize
  <2>10. ~Failed(b)
    BY <2>5 DEF Failed
  <2>20. a \in Getters
    BY GetterTypes
  <2>21. \A k : Skip(b, k) = [a EXCEPT !.at = (a.at + 4) + k]
    BY <2>20 DEF Skip, Getters
  <2> HIDE DEF n, b
  <2>11. CASE ~HasRoom(b, n) \/ n > MaxSize(t)
    <3>1. c = Gives(v, Raise(b, "overflow"))
      BY <2>11 DEF GetCounted
    <3>2. Reads(t, a, Gives(v, Raise(b, "overflow")))
      BY <2>5, NoRoom
    <3> QED
      BY <2>1, <3>1, <3>2
  <2>12. CASE HasRoom(b, n) /\ ~(n > MaxSize(t))
    <3> DEFINE r == CopyBytes(n, b)
    <3>1. c = r
      BY <2>12 DEF GetCounted
    <3> HIDE DEF r
    <3>2. /\ GetsWords(r.a) /\ r.a.in = b.in /\ r.a.past = b.past
          /\ ~Failed(r.a) => /\ r.v \in Seq(Octet) /\ Len(r.v) = n
                             /\ r.a = Skip(b, Padded(n)) /\ Shows(b, put_bytes(r.v))
      BY <2>5, <2>8, <2>10, <2>12, CopyReads DEF r
    <3>3. ASSUME ~Failed(r.a)
          PROVE  /\ LeafValue(t, r.v) /\ r.a = Skip(a, LeafSize(t, r.v))
                 /\ Shows(a, LeafBytes(t, r.v))
      <4> DEFINE u == r.v
                 z == put_bytes(u)
      <4>1. u \in Seq(Octet) /\ Len(u) = n /\ r.a = Skip(b, Padded(n)) /\ Shows(b, z)
        BY <3>2, <3>3
      <4> HIDE DEF u
      <4>2. n <= MaxSize(t)
        BY <2>8, <2>9, <2>12
      <4>3. LeafValue(t, u)
        BY <2>3, <4>1, <4>2 DEF LeafValue
      <4>4. LeafSize(t, u) = WithLength(n) /\ LeafBytes(t, u) = Word(n) \o z
        BY <4>1 DEF LeafSize, Scalar, LeafBytes
      <4>5. z \in Seq(Octet) /\ Len(z) = Padded(n)
        BY <4>1, PutBytesPads
      <4>6. Word(n) \in Seq(Octet) /\ Len(Word(n)) = 4
        BY <2>3, WordOfNumber
      <4> HIDE DEF z
      <4>7. b.at + Len(z) <= Len(a.in) /\ \A k \in 1..Len(z) : a.in[b.at + k] = z[k]
        BY <2>5, <4>1 DEF Shows
      <4>8. /\ a.at + 4 + Len(z) <= Len(a.in)
            /\ \A k \in 1..Len(z) : a.in[a.at + 4 + k] = z[k]
        BY <2>5, <4>7
      <4>9. Shows(a, Word(n) \o z)
        <5> DEFINE p == Word(n)
        <5>1. p \in Seq(Octet) /\ Len(p) = 4
          BY <4>6
        <5>2. \A k \in 1..Len(p) : a.in[a.at + k] = p[k]
          BY <2>7, <5>1
        <5>3. /\ a.at + Len(p) + Len(z) <= Len(a.in)
              /\ \A k \in 1..Len(z) : a.in[a.at + Len(p) + k] = z[k]
          BY <4>8, <5>1
        <5> HIDE DEF p
        <5>4. Shows(a, p \o z)
          BY <4>5, <5>1, <5>2, <5>3, ShowsBoth
        <5> QED
          BY <5>4 DEF p
      <4>10. (a.at + 4) + Padded(n) = a.at + WithLength(n)
        BY <2>2, <2>8 DEF Padded, WithLength
      <4>11. Skip(b, Padded(n)) = Skip(a, WithLength(n))
        BY <2>21, <4>10 DEF Skip
      <4> QED
        BY <4>1, <4>3, <4>4, <4>9, <4>11 DEF u
    <3>4. Reads(t, a, r)
      BY <2>5, <3>2, <3>3 DEF Reads
    <3> QED
      BY <2>1, <3>1, <3>4
  <2> QED
    BY <2>11, <2>12
<1> QED
  BY <1>1, <1>2

(***************************************************************************)
(* get never looks past the end of the message, however far the length     *)
(* word of the bytes would take it, and stays at a word's start; what it   *)
(* accepts is a value of the type, that is within its maximum and its tags,*)
(* and the bytes it consumed are that value's encoding, zeros in the       *)
(* padding included (marshal.h:172-196, marshal.cc:43-57).  Only a bool has*)
(* more encodings than one: any number but 0 is read as true.  w is the    *)
(* value that is overwritten, the len bytes of an opaque_array.            *)
(***************************************************************************)
THEOREM GetStaysWithin ==
  ASSUME NEW t \in DOMAIN Types, Kind(t) \in Leaf, NEW w,
         Kind(t) = "fixed" => w \in Seq(Octet) /\ Len(w) = Types[t].len,
         NEW a, GetsWords(a), ~Failed(a)
  PROVE  Reads(t, a, GetLeaf(t, w, a))
<1>1. CASE Kind(t) \in Scalar
  <2>1. GetLeaf(t, w, a) = GetScalar(t, w, a)
    BY <1>1 DEF GetLeaf, Scalar
  <2> QED
    BY <1>1, <2>1, ScalarReads
<1>2. CASE Kind(t) = "u64"
  <2>1. GetLeaf(t, w, a) = GetU64(w, a)
    BY <1>2 DEF GetLeaf
  <2> QED
    BY <1>2, <2>1, U64Reads
<1>3. CASE Kind(t) = "fixed"
  <2>1. GetLeaf(t, w, a) = GetFixed(t, w, a)
    BY <1>3 DEF GetLeaf
  <2> QED
    BY <1>3, <2>1, FixedReads
<1>4. CASE Kind(t) = "bytes"
  <2>1. GetLeaf(t, w, a) = GetBytes(t, w, a)
    BY <1>4 DEF GetLeaf
  <2> QED
    BY <1>4, <2>1, BytesReads
<1> QED
  BY <1>1, <1>2, <1>3, <1>4 DEF Leaf, is_bytes

LEMMA ScalarBack ==
  ASSUME NEW t, Kind(t) \in Scalar, NEW v, LeafValue(t, v), NEW w,
         NEW a, GetsWords(a), Shows(a, LeafBytes(t, v))
  PROVE  GetScalar(t, w, a) = Gives(v, Skip(a, LeafSize(t, v)))
<1>1. PICK n \in U32 : /\ v = <<n>>
                       /\ Kind(t) = "bool" => n \in {0, 1}
                       /\ validate_enum(t, n)
  BY DEF LeafValue, Scalar, U32, validate_enum
<1>2. LeafBytes(t, v) = Word(n) /\ LeafSize(t, v) = 4
  BY <1>1 DEF LeafBytes, LeafSize, Scalar
<1>3. Len(Word(n)) = 4
  BY WordOfNumber
<1>4. a.at + 4 <= Len(a.in) /\ \A j \in 1..4 : a.in[a.at + j] = Word(n)[j]
  BY <1>2, <1>3 DEF Shows
<1>5. a.at \in Nat
  BY GetterTypes
<1>6. a.at + 0 + 4 <= Len(a.in) /\ \A j \in 1..4 : a.at + 0 + j = a.at + j
  BY <1>4, <1>5
<1>7. Number(WordAt(a, 0)) = n
  BY <1>4, <1>6, WordBack
<1>8. HasRoom(a, 4)
  BY <1>4, RoomFor
<1>9. GetScalar(t, w, a) = Scan(t, n, Skip(a, 4))
  BY <1>7, <1>8 DEF GetScalar
<1>10. from_uint(t, n) = n
  BY <1>1 DEF from_uint
<1>11. Scan(t, n, Skip(a, 4)) = Gives(v, Skip(a, 4))
  BY <1>1, <1>10 DEF Scan
<1> QED
  BY <1>2, <1>9, <1>11

LEMMA U64Back ==
  ASSUME NEW t, Kind(t) = "u64", NEW v, LeafValue(t, v), NEW w,
         NEW a, GetsWords(a), Shows(a, LeafBytes(t, v))
  PROVE  GetU64(w, a) = Gives(v, Skip(a, LeafSize(t, v)))
<1>1. PICK h \in U32, l \in U32 : v = <<h, l>>
  BY DEF LeafValue, Scalar
<1> DEFINE p == Word(h)
           q == Word(l)
<1>2. LeafBytes(t, v) = p \o q /\ LeafSize(t, v) = 8
  BY <1>1 DEF LeafBytes, LeafSize, Scalar
<1>3. p \in Seq(Octet) /\ q \in Seq(Octet) /\ Len(p) = 4 /\ Len(q) = 4
  BY WordOfNumber
<1>4. a.at \in Nat /\ Len(a.in) \in Nat
  BY GetterTypes
<1> HIDE DEF p, q
<1>13. Shows(a, p \o q)
  BY <1>2
<1>14. p \in Seq(Octet) /\ q \in Seq(Octet)
  BY <1>3
<1>5. /\ a.at + Len(p) + Len(q) <= Len(a.in)
      /\ \A k \in 1..Len(p) : a.in[a.at + k] = p[k]
      /\ \A k \in 1..Len(q) : a.in[a.at + Len(p) + k] = q[k]
  <2>1. ShowsParts(a, p, q)
    BY <1>13, <1>14, ShownBoth
  <2> QED
    BY <2>1 DEF ShowsParts
<1>6. /\ a.at + 0 + 4 <= Len(a.in) /\ a.at + 4 + 4 <= Len(a.in) /\ a.at + 8 <= Len(a.in)
      /\ \A j \in 1..4 : a.at + 0 + j = a.at + j
  <2> DEFINE x == a.at
             y == Len(a.in)
             m == Len(p)
             k == Len(q)
  <2>1. x \in Nat /\ y \in Nat /\ m = 4 /\ k = 4 /\ x + m + k <= y
    BY <1>3, <1>4, <1>5
  <2> HIDE DEF x, y, m, k
  <2>2. /\ x + 0 + 4 <= y /\ x + 4 + 4 <= y /\ x + 8 <= y
        /\ \A j \in 1..4 : x + 0 + j = x + j
    BY <2>1
  <2> QED
    BY <2>2 DEF x, y
<1>7. /\ \A j \in 1..4 : a.in[a.at + j] = p[j]
      /\ \A j \in 1..4 : a.in[a.at + 4 + j] = q[j]
  BY <1>3, <1>5
<1>8. \A j \in 1..4 : a.in[a.at + 0 + j] = p[j]
  BY <1>6, <1>7
<1>9. Number(WordAt(a, 0)) = h
  BY <1>6, <1>8, WordBack DEF p
<1>10. Number(WordAt(a, 4)) = l
  BY <1>6, <1>7, WordBack DEF q
<1>11. HasRoom(a, 8)
  BY <1>6, RoomFor
<1>12. GetU64(w, a) = Gives(<<h, l>>, Skip(a, 8))
  BY <1>9, <1>10, <1>11 DEF GetU64
<1> QED
  BY <1>1, <1>2, <1>12

LEMMA FixedBack ==
  ASSUME NEW t, Kind(t) = "fixed", NEW v, LeafValue(t, v), NEW w, Len(w) = Types[t].len,
         NEW a, GetsWords(a), Shows(a, LeafBytes(t, v))
  PROVE  GetFixed(t, w, a) = Gives(v, Skip(a, LeafSize(t, v)))
<1>1. v \in Seq(Octet) /\ Len(v) = Len(w)
  BY DEF LeafValue, Scalar
<1>2. LeafBytes(t, v) = put_bytes(v) /\ LeafSize(t, v) = Padded(Len(v))
  BY <1>1 DEF LeafBytes, LeafSize, Scalar
<1>3. Shows(a, put_bytes(v))
  BY <1>2
<1>4. /\ HasRoom(a, Len(v))
      /\ CopyBytes(Len(v), a) = Gives(v, Skip(a, Padded(Len(v))))
  BY <1>1, <1>3, CopyBack
<1> QED
  BY <1>1, <1>2, <1>4 DEF GetFixed

LEMMA BytesBack ==
  ASSUME NEW t \in DOMAIN Types, Kind(t) = "bytes", NEW v, LeafValue(t, v), NEW w,
         NEW a, GetsWords(a), Shows(a, LeafBytes(t, v))
  PROVE  GetBytes(t, w, a) = Gives(v, Skip(a, LeafSize(t, v)))
<1> DEFINE n == Len(v)
           p == Word(n)
           z == put_bytes(v)
           b == Skip(a, 4)
<1>1. v \in Seq(Octet) /\ n <= MaxSize(t) /\ n \in U32
  BY DEF LeafValue, Scalar
<1>2. n \in Nat /\ MaxSize(t) \in Nat
  BY <1>1, LenProperties, TypesAssumption DEF MaxSize
<1>3. LeafBytes(t, v) = p \o z /\ LeafSize(t, v) = WithLength(n)
  BY DEF LeafBytes, LeafSize, Scalar
<1>4. p \in Seq(Octet) /\ Len(p) = 4
  BY <1>1, WordOfNumber
<1>5. z \in Seq(Octet) /\ Len(z) = Padded(n)
  BY <1>1, PutBytesPads
<1>6. a.at \in Nat /\ Len(a.in) \in Nat /\ a \in Getters
  BY GetterTypes
<1>7. \A k : Skip(b, k) = [a EXCEPT !.at = (a.at + 4) + k]
  BY <1>6 DEF Skip, Getters
<1> HIDE DEF n, p, z
<1>24. Shows(a, p \o z)
  BY <1>3
<1>25. p \in Seq(Octet) /\ z \in Seq(Octet)
  BY <1>4, <1>5
<1>8. /\ a.at + Len(p) + Len(z) <= Len(a.in)
      /\ \A k \in 1..Len(p) : a.in[a.at + k] = p[k]
      /\ \A k \in 1..Len(z) : a.in[a.at + Len(p) + k] = z[k]
  <2>1. ShowsParts(a, p, z)
    BY <1>24, <1>25, ShownBoth
  <2> QED
    BY <2>1 DEF ShowsParts
<1>9. Padded(n) \in Nat
  BY <1>2, PaddedBounds
<1>10. /\ a.at + 4 <= Len(a.in) /\ a.at + 0 + 4 <= Len(a.in) /\ (a.at + 4) + Len(z) <= Len(a.in)
       /\ \A j \in 1..4 : a.at + 0 + j = a.at + j
  BY <1>4, <1>5, <1>6, <1>8, <1>9, SMTT(30)
<1>11. /\ \A j \in 1..4 : a.in[a.at + 0 + j] = p[j]
       /\ \A k \in 1..Len(z) : a.in[(a.at + 4) + k] = z[k]
  BY <1>4, <1>8, <1>10
<1>12. 4 \in Nat /\ 4 % 4 = 0
  OBVIOUS
<1>13. GetsWords(b) /\ b.in = a.in /\ b.at = a.at + 4
  BY <1>10, <1>12, SkipStays
<1>14. Number(WordAt(a, 0)) = n
  BY <1>1, <1>10, <1>11, WordBack DEF p
<1>15. HasRoom(a, 4)
  BY <1>10, RoomFor
<1> HIDE DEF b
<1>16. Shows(b, z)
  BY <1>10, <1>11, <1>13 DEF Shows
<1>17. HasRoom(b, n) /\ CopyBytes(n, b) = Gives(v, Skip(b, Padded(n)))
  BY <1>1, <1>13, <1>16, CopyBack DEF z, n
<1>18. GetBytes(t, w, a) = GetCounted(t, n, w, b)
  BY <1>14, <1>15 DEF GetBytes, b
<1>19. ~(n > MaxSize(t))
  BY <1>1, <1>2
<1>20. GetCounted(t, n, w, b) = Gives(v, Skip(b, Padded(n)))
  BY <1>17, <1>19 DEF GetCounted
<1>21. (a.at + 4) + Padded(n) = a.at + WithLength(n)
  BY <1>2, <1>6 DEF Padded, WithLength
<1>22. Skip(b, Padded(n)) = Skip(a, WithLength(n))
  BY <1>7, <1>21 DEF Skip
<1> QED
  BY <1>3, <1>18, <1>20, <1>22

\* What put that did not throw has written.
LEMMA LeafPut ==
  ASSUME NEW t, NEW v, LeafValue(t, v), NEW p, PutsWords(p), ~Failed(p),
         NEW q, q = PutLeaf(t, v, p), ~Failed(q)
  PROVE  /\ PutsWords(q) /\ q.out = p.out \o LeafBytes(t, v)
         /\ p.out \in Seq(Octet) /\ q.out \in Seq(Octet) /\ LeafBytes(t, v) \in Seq(Octet)
         /\ Len(LeafBytes(t, v)) = LeafSize(t, v)
         /\ LeafSize(t, v) \in Nat /\ LeafSize(t, v) % 4 = 0
         /\ Len(q.out) = Len(p.out) + LeafSize(t, v)
<1> DEFINE b == LeafBytes(t, v)
           k == LeafSize(t, v)
           o == p.out
<1>1. b \in Seq(Octet) /\ Len(b) = k /\ k = Padded(Checked(t, v)) /\ Checked(t, v) \in Nat
  BY ValueShape, LeafBytesFit
<1>2. o \in Seq(Octet) /\ p \in Putters
  BY DEF PutsWords, Putters
<1>3. k \in Nat /\ k % 4 = 0
  BY <1>1, PaddedBounds
<1>4. /\ q = IF k <= p.end - Len(o) THEN [p EXCEPT !.out = o \o b]
              ELSE [p EXCEPT !.err = "overflow"]
      /\ PutsWords(q)
  BY ValueShape, PutFills
<1> HIDE DEF b, k, o
<1>5. q.out = o \o b
  <2>1. CASE k <= p.end - Len(o)
    <3>1. q = [p EXCEPT !.out = o \o b]
      BY <1>4, <2>1
    <3> QED
      BY <1>2, <3>1 DEF Putters
  <2>2. CASE ~(k <= p.end - Len(o))
    <3>1. q = [p EXCEPT !.err = "overflow"]
      BY <1>4, <2>2
    <3>2. q.err = "overflow"
      BY <1>2, <3>1 DEF Putters
    <3> QED
      BY <3>2 DEF Failed
  <2> QED
    BY <2>1, <2>2
<1>6. o \o b \in Seq(Octet) /\ Len(o \o b) = Len(o) + Len(b)
  BY <1>1, <1>2, OctetsJoined
<1>7. q.out \in Seq(Octet) /\ Len(q.out) = Len(o) + k
  BY <1>1, <1>5, <1>6
<1> QED
  BY <1>1, <1>2, <1>3, <1>4, <1>5, <1>7 DEF b, k, o

(***************************************************************************)
(* What put wrote into a buffer, get reads from the same place, whatever   *)
(* follows it there: the same value, and just the bytes that were put.  So *)
(* the next operator() finds what the next one put (marshal.h:110-127,     *)
(* 172-196).                                                               *)
(***************************************************************************)
THEOREM LeafComesBack ==
  ASSUME NEW t \in DOMAIN Types, NEW v, LeafValue(t, v), NEW w,
         Kind(t) = "fixed" => Len(w) = Types[t].len,
         NEW p, PutsWords(p), ~Failed(p), ~Failed(PutLeaf(t, v, p)),
         NEW rest \in Seq(Octet),
         NEW a, GetsWords(a), a.in = PutLeaf(t, v, p).out \o rest, a.at = Len(p.out)
  PROVE  /\ GetLeaf(t, w, a) = Gives(v, Skip(a, LeafSize(t, v)))
         /\ Skip(a, LeafSize(t, v)).at = Len(PutLeaf(t, v, p).out)
<1> DEFINE b == LeafBytes(t, v)
           o == p.out
           q == PutLeaf(t, v, p)
<1>1. Kind(t) \in Leaf
  BY ValueShape, LeafBytesFit
<1>2. /\ q.out = o \o b /\ o \in Seq(Octet) /\ b \in Seq(Octet) /\ Len(b) = LeafSize(t, v)
      /\ Len(q.out) = Len(o) + LeafSize(t, v)
  BY LeafPut
<1>3. Len(o) \in Nat /\ Len(b) \in Nat
  BY <1>2, LenProperties
<1>7. a.in = (o \o b) \o rest /\ a.at = Len(o)
  BY <1>2
<1>14. a \in Getters
  BY GetterTypes
<1> HIDE DEF b, o, q
<1>8. /\ o \o b \in Seq(Octet) /\ Len(o \o b) = Len(o) + Len(b)
      /\ \A k \in 1..Len(o) : (o \o b)[k] = o[k]
      /\ \A k \in Len(o) + 1 .. Len(o) + Len(b) : (o \o b)[k] = b[k - Len(o)]
  BY <1>2, OctetsJoined
<1> DEFINE s == o \o b
<1>15. s \in Seq(Octet)
  BY <1>8
<1> HIDE DEF s
<1>9. /\ Len(s \o rest) = Len(s) + Len(rest)
      /\ \A k \in 1..Len(s) : (s \o rest)[k] = s[k]
  BY <1>15, OctetsJoined
<1>10. Len(rest) \in Nat
  BY LenProperties
<1>16. Len(s) = Len(o) + Len(b) /\ a.in = s \o rest
       /\ \A k \in Len(o) + 1 .. Len(o) + Len(b) : s[k] = b[k - Len(o)]
  BY <1>7, <1>8 DEF s
<1>11. Shows(a, b)
  <2>1. a.at + Len(b) <= Len(a.in)
    BY <1>3, <1>7, <1>9, <1>10, <1>16
  <2>2. ASSUME NEW k \in 1..Len(b) PROVE a.in[a.at + k] = b[k]
    <3> DEFINE j == Len(o) + k
    <3>1. j \in Len(o) + 1 .. Len(o) + Len(b) /\ j \in 1..Len(s) /\ j - Len(o) = k
      BY <1>3, <1>16
    <3>2. a.at + k = j
      BY <1>7
    <3> HIDE DEF j
    <3>3. (s \o rest)[j] = s[j] /\ s[j] = b[j - Len(o)]
      BY <1>9, <1>16, <3>1
    <3> QED
      BY <1>16, <3>1, <3>2, <3>3
  <2> QED
    BY <2>1, <2>2 DEF Shows
<1>12. GetLeaf(t, w, a) = Gives(v, Skip(a, LeafSize(t, v)))
  <2>1. CASE Kind(t) \in Scalar
    <3>1. GetLeaf(t, w, a) = GetScalar(t, w, a)
      BY <2>1 DEF GetLeaf, Scalar
    <3> QED
      BY <1>11, <2>1, <3>1, ScalarBack DEF b
  <2>2. CASE Kind(t) = "u64"
    <3>1. GetLeaf(t, w, a) = GetU64(w, a)
      BY <2>2 DEF GetLeaf
    <3> QED
      BY <1>11, <2>2, <3>1, U64Back DEF b
  <2>3. CASE Kind(t) = "fixed"
    <3>1. GetLeaf(t, w, a) = GetFixed(t, w, a)
      BY <2>3 DEF GetLeaf
    <3> QED
      BY <1>11, <2>3, <3>1, FixedBack DEF b
  <2>4. CASE Kind(t) = "bytes"
    <3>1. GetLeaf(t, w, a) = GetBytes(t, w, a)
      BY <2>4 DEF GetLeaf
    <3> QED
      BY <1>11, <2>4, <3>1, BytesBack DEF b
  <2> QED
    BY <1>1, <2>1, <2>2, <2>3, <2>4 DEF Leaf, is_bytes
<1>13. Skip(a, LeafSize(t, v)).at = Len(q.out)
  <2>1. Skip(a, LeafSize(t, v)).at = a.at + LeafSize(t, v)
    BY <1>14 DEF Skip, Getters
  <2> QED
    BY <1>2, <1>7, <2>1
<1> QED
  BY <1>12, <1>13 DEF q

LEMMA OctetsAssociate ==
  ASSUME NEW x \in Seq(Octet), NEW y \in Seq(Octet), NEW z \in Seq(Octet)
  PROVE  (x \o y) \o z = x \o (y \o z)
BY ConcatAssociative

\* Archives begin at a word.
LEMMA Fresh ==
  ASSUME NEW end \in Nat, end % 4 = 0, NEW limit \in Nat, NEW s \in Seq(Octet), Len(s) % 4 = 0
  PROVE  /\ PutsWords(Putter(end, limit)) /\ ~Failed(Putter(end, limit))
         /\ Putter(end, limit).out = << >>
         /\ GetsWords(Getter(s, limit)) /\ ~Failed(Getter(s, limit))
         /\ Getter(s, limit).in = s /\ Getter(s, limit).at = 0 /\ Getter(s, limit).past = FALSE
<1> DEFINE p == Putter(end, limit)
           a == Getter(s, limit)
<1>1. << >> \in Seq(Octet) /\ Len(<< >>) = 0 /\ 0 % 4 = 0 /\ Len(s) \in Nat
  BY EmptySeq, LenProperties
<1>2. p \in Putters /\ p.out = << >> /\ p.end = end /\ p.err = "none"
  BY <1>1 DEF Putter, Putters, Exception
<1>3. a \in Getters /\ a.in = s /\ a.at = 0 /\ a.past = FALSE /\ a.err = "none"
  BY DEF Getter, Getters, Exception
<1> HIDE DEF p, a
<1>4. PutsWords(p) /\ ~Failed(p)
  BY <1>1, <1>2 DEF PutsWords, Failed
<1>5. GetsWords(a) /\ ~Failed(a)
  BY <1>1, <1>3 DEF GetsWords, Failed
<1> QED
  BY <1>2, <1>3, <1>4, <1>5 DEF p, a

(***************************************************************************)
(* Numbers and bytes put one after another, as xdr_argpack and the fields  *)
(* of a struct are, come back one after another: when no put threw, get of *)
(* the same types gives every value back, throws nowhere and ends where    *)
(* the message does, so done() is content (marshal.h:110-127, 172-196,     *)
(* 207-211).                                                               *)
(***************************************************************************)
THEOREM LeavesComeBack ==
  ASSUME NEW n \in Nat, NEW t, NEW v, NEW w,
         \A i \in 1..n : /\ t[i] \in DOMAIN Types /\ LeafValue(t[i], v[i])
                         /\ Kind(t[i]) = "fixed" => Len(w[i]) = Types[t[i]].len,
         NEW end \in Nat, end % 4 = 0, NEW limit \in Nat,
         NEW p, p[0] = Putter(end, limit),
         \A i \in 1..n : p[i] = PutLeaf(t[i], v[i], p[i - 1]) /\ ~Failed(p[i]),
         NEW a, a[0] = Getter(p[n].out, limit),
         \A i \in 1..n : a[i] = GetLeaf(t[i], w[i], a[i - 1]).a
  PROVE  /\ \A i \in 1..n : GetLeaf(t[i], w[i], a[i - 1]).v = v[i]
         /\ ~Failed(a[n]) /\ a[n].past = FALSE
         /\ a[n].at = Len(a[n].in) /\ a[n].in = p[n].out
<1> DEFINE m == p[n].out
           Written == {i \in Nat : i <= n => PutsWords(p[i]) /\ ~Failed(p[i])}
           Splits == {j \in Nat : j <= n => \E r \in Seq(Octet) : m = p[n - j].out \o r}
           Reached == {i \in Nat : i <= n => /\ GetsWords(a[i]) /\ ~Failed(a[i])
                                             /\ a[i].past = FALSE /\ a[i].in = m
                                             /\ a[i].at = Len(p[i].out)}
<1>1. 0 \in Written
  <2>1. Len(<< >>) = 0 /\ << >> \in Seq(Octet) /\ 0 % 4 = 0
    BY EmptySeq
  <2> QED
    BY <2>1, Fresh, ZenonT(40)
<1>2. ASSUME NEW i \in Nat, i \in Written
      PROVE  i + 1 \in Written
  <2>1. ASSUME i + 1 <= n
        PROVE  PutsWords(p[i + 1]) /\ ~Failed(p[i + 1])
    <3> DEFINE j == i + 1
    <3>1. j \in 1..n /\ j - 1 = i /\ i <= n
      BY <2>1
    <3> HIDE DEF j
    <3>2. /\ p[j] = PutLeaf(t[j], v[j], p[i]) /\ ~Failed(p[j]) /\ LeafValue(t[j], v[j])
          /\ PutsWords(p[i]) /\ ~Failed(p[i])
      BY <1>2, <3>1
    <3>3. PutsWords(p[j])
      BY <3>2, LeafPut
    <3> QED
      BY <3>2, <3>3 DEF j
  <2>2. i + 1 \in Nat
    OBVIOUS
  <2> QED
    BY <2>1, <2>2
<1>3. \A i \in 0..n : PutsWords(p[i]) /\ ~Failed(p[i])
  <2>1. Nat \subseteq Written
    <3> HIDE DEF Written
    <3> QED
      BY <1>1, <1>2, EveryNat
  <2> QED
    BY <2>1
\* What step i + 1 writes.
<1>4. ASSUME NEW i \in Nat, i + 1 <= n
      PROVE  /\ p[i + 1].out = p[i].out \o LeafBytes(t[i + 1], v[i + 1])
             /\ p[i].out \in Seq(Octet) /\ p[i + 1].out \in Seq(Octet)
             /\ LeafBytes(t[i + 1], v[i + 1]) \in Seq(Octet)
             /\ LeafSize(t[i + 1], v[i + 1]) \in Nat /\ LeafSize(t[i + 1], v[i + 1]) % 4 = 0
             /\ Len(p[i + 1].out) = Len(p[i].out) + LeafSize(t[i + 1], v[i + 1])
  <2> DEFINE j == i + 1
  <2>1. j \in 1..n /\ j \in 0..n /\ i \in 0..n /\ j - 1 = i
    BY <1>4
  <2> HIDE DEF j
  <2>2. /\ p[j] = PutLeaf(t[j], v[j], p[i]) /\ ~Failed(p[j]) /\ LeafValue(t[j], v[j])
        /\ PutsWords(p[i]) /\ ~Failed(p[i])
    BY <1>3, <2>1
  <2>3. /\ p[j].out = p[i].out \o LeafBytes(t[j], v[j])
        /\ p[i].out \in Seq(Octet) /\ p[j].out \in Seq(Octet)
        /\ LeafBytes(t[j], v[j]) \in Seq(Octet)
        /\ LeafSize(t[j], v[j]) \in Nat /\ LeafSize(t[j], v[j]) % 4 = 0
        /\ Len(p[j].out) = Len(p[i].out) + LeafSize(t[j], v[j])
    <3> DEFINE x == p[i]
               q == p[j]
               e == t[j]
               f == v[j]
    <3>1. q = PutLeaf(e, f, x) /\ ~Failed(q) /\ LeafValue(e, f) /\ PutsWords(x) /\ ~Failed(x)
      BY <2>2
    <3> HIDE DEF x, q, e, f
    <3>2. /\ q.out = x.out \o LeafBytes(e, f)
          /\ x.out \in Seq(Octet) /\ q.out \in Seq(Octet) /\ LeafBytes(e, f) \in Seq(Octet)
          /\ LeafSize(e, f) \in Nat /\ LeafSize(e, f) % 4 = 0
          /\ Len(q.out) = Len(x.out) + LeafSize(e, f)
      BY <3>1, LeafPut, SMTT(30)
    <3> QED
      BY <3>2 DEF x, q, e, f
  <2> QED
    BY <2>3 DEF j
<1>5. m \in Seq(Octet) /\ Len(m) % 4 = 0 /\ Len(m) \in Nat
  <2>1. PutsWords(p[n])
    BY <1>3
  <2> QED
    BY <2>1, LenProperties DEF PutsWords, Putters
<1> HIDE DEF m
<1>6. 0 \in Splits
  <2>1. n - 0 = n /\ m = m \o << >> /\ << >> \in Seq(Octet)
    BY <1>5, ConcatEmptySeq, EmptySeq
  <2>2. p[n - 0].out = m
    BY <2>1 DEF m
  <2> QED
    BY <2>1, <2>2
<1>7. ASSUME NEW j \in Nat, j \in Splits
      PROVE  j + 1 \in Splits
  <2>1. ASSUME j + 1 <= n
        PROVE  \E r \in Seq(Octet) : m = p[n - (j + 1)].out \o r
    <3> DEFINE i == n - (j + 1)
               k == i + 1
               b == LeafBytes(t[k], v[k])
               x == p[i].out
               y == p[k].out
    <3>1. i \in Nat /\ i + 1 <= n /\ n - j = k /\ j <= n
      BY <2>1
    <3>2. PICK r \in Seq(Octet) : m = y \o r
      BY <1>7, <3>1
    <3> HIDE DEF i
    <3>3. y = x \o b /\ x \in Seq(Octet) /\ b \in Seq(Octet)
      BY <1>4, <3>1
    <3> HIDE DEF b, x, y
    <3>6. (x \o b) \o r = x \o (b \o r)
      BY <3>3, OctetsAssociate
    <3>4. m = x \o (b \o r)
      BY <3>2, <3>3, <3>6
    <3>5. b \o r \in Seq(Octet)
      BY <3>3, ConcatProperties
    <3> QED
      BY <3>4, <3>5 DEF i, x
  <2>2. j + 1 \in Nat
    OBVIOUS
  <2> QED
    BY <2>1, <2>2
<1>8. ASSUME NEW i \in Nat, i <= n
      PROVE  \E r \in Seq(Octet) : m = p[i].out \o r
  <2>1. Nat \subseteq Splits
    <3> HIDE DEF Splits
    <3> QED
      BY <1>6, <1>7, EveryNat
  <2> DEFINE j == n - i
  <2>2. j \in Nat /\ j <= n /\ n - j = i
    BY <1>8
  <2> HIDE DEF j
  <2>3. \E r \in Seq(Octet) : m = p[n - j].out \o r
    BY <2>1, <2>2
  <2> QED
    BY <2>2, <2>3
<1>9. 0 \in Reached
  <2>1. Len(<< >>) = 0 /\ << >> \in Seq(Octet) /\ 0 % 4 = 0
    BY EmptySeq
  <2>2. a[0] = Getter(m, limit)
    BY DEF m
  <2> DEFINE x == Getter(m, limit)
             y == Putter(end, limit)
  <2>5. /\ GetsWords(x) /\ ~Failed(x) /\ x.past = FALSE /\ x.in = m /\ x.at = 0
        /\ y.out = << >>
    BY <1>5, Fresh, ZenonT(40)
  <2>6. a[0] = x /\ p[0] = y
    BY <2>2
  <2> HIDE DEF x, y
  <2>3. /\ GetsWords(a[0]) /\ ~Failed(a[0]) /\ a[0].past = FALSE /\ a[0].in = m
        /\ a[0].at = 0
    BY <2>5, <2>6
  <2>4. p[0].out = << >>
    BY <2>5, <2>6
  <2> QED
    BY <2>1, <2>3, <2>4
\* One more value read.
<1>10. ASSUME NEW i \in Nat, i \in Reached, i + 1 <= n
       PROVE  /\ GetLeaf(t[i + 1], w[i + 1], a[i]).v = v[i + 1]
              /\ GetsWords(a[i + 1]) /\ ~Failed(a[i + 1])
              /\ a[i + 1].past = FALSE /\ a[i + 1].in = m
              /\ a[i + 1].at = Len(p[i + 1].out)
  <2> DEFINE j == i + 1
             x == a[i]
             k == LeafSize(t[j], v[j])
  <2>1. j \in Nat /\ j \in 1..n /\ j \in 0..n /\ i \in 0..n /\ j - 1 = i /\ j <= n /\ i <= n
    BY <1>10
  <2>2. GetsWords(x) /\ ~Failed(x) /\ x.past = FALSE /\ x.in = m /\ x.at = Len(p[i].out)
    BY <1>10, <2>1
  <2>3. k \in Nat /\ k % 4 = 0 /\ Len(p[j].out) = Len(p[i].out) + k /\ p[j].out \in Seq(Octet)
    BY <1>4, <1>10
  <2> HIDE DEF j, x, k
  <2>4. PICK r \in Seq(Octet) : m = p[j].out \o r
    BY <1>8, <2>1
  <2>5. /\ p[j] = PutLeaf(t[j], v[j], p[i]) /\ ~Failed(p[j]) /\ LeafValue(t[j], v[j])
        /\ t[j] \in DOMAIN Types
        /\ Kind(t[j]) = "fixed" => Len(w[j]) = Types[t[j]].len
    BY <2>1
  <2>6. PutsWords(p[i]) /\ ~Failed(p[i])
    BY <1>3, <2>1
  <2>7. GetLeaf(t[j], w[j], x) = Gives(v[j], Skip(x, k))
    <3> DEFINE q == p[i]
               e == t[j]
               f == v[j]
               u == w[j]
    <3>1. /\ e \in DOMAIN Types /\ LeafValue(e, f) /\ PutsWords(q) /\ ~Failed(q)
          /\ ~Failed(PutLeaf(e, f, q)) /\ GetsWords(x) /\ x.at = Len(q.out)
          /\ x.in = PutLeaf(e, f, q).out \o r
      BY <2>2, <2>4, <2>5, <2>6
    <3>2. Kind(e) = "fixed" => Len(u) = Types[e].len
      BY <2>5
    <3> HIDE DEF q, e, f, u
    <3>3. GetLeaf(e, u, x) = Gives(f, Skip(x, LeafSize(e, f)))
      BY <3>1, <3>2, LeafComesBack
    <3> QED
      BY <3>3 DEF e, f, u, k
  <2>8. a[j] = GetLeaf(t[j], w[j], x).a
    BY <2>1 DEF x
  <2>9. GetLeaf(t[j], w[j], x).v = v[j] /\ a[j] = Skip(x, k)
    BY <2>7, <2>8 DEF Gives
  <2>10. x.at + k <= Len(x.in)
    <3>1. Len(m) = Len(p[j].out) + Len(r) /\ Len(r) \in Nat
      BY <2>3, <2>4, ConcatProperties, LenProperties
    <3> QED
      BY <1>5, <2>2, <2>3, <3>1
  <2>11. /\ GetsWords(Skip(x, k)) /\ Skip(x, k).in = x.in /\ Skip(x, k).at = x.at + k
         /\ Skip(x, k).past = x.past /\ Skip(x, k).err = x.err
    BY <2>2, <2>3, <2>10, SkipStays
  <2>12. /\ GetsWords(a[j]) /\ ~Failed(a[j]) /\ a[j].past = FALSE /\ a[j].in = m
         /\ a[j].at = Len(p[j].out)
    BY <2>2, <2>3, <2>9, <2>11 DEF Failed
  <2> QED
    BY <2>9, <2>12 DEF j, x
<1>11. ASSUME NEW i \in Nat, i \in Reached
       PROVE  i + 1 \in Reached
  <2>1. i + 1 \in Nat
    OBVIOUS
  <2>2. ASSUME i + 1 <= n
        PROVE  /\ GetsWords(a[i + 1]) /\ ~Failed(a[i + 1]) /\ a[i + 1].past = FALSE
               /\ a[i + 1].in = m /\ a[i + 1].at = Len(p[i + 1].out)
    <3> HIDE DEF Reached
    <3> QED
      BY <1>10, <1>11, <2>2
  <2> QED
    BY <2>1, <2>2
<1>12. Nat \subseteq Reached
  <2> HIDE DEF Reached
  <2> QED
    BY <1>9, <1>11, EveryNat
<1>13. \A i \in 1..n : GetLeaf(t[i], w[i], a[i - 1]).v = v[i]
  <2> TAKE i \in 1..n
  <2> DEFINE k == i - 1
  <2>1. k \in Nat /\ k + 1 <= n /\ k + 1 = i /\ k \in Reached
    BY <1>12
  <2> HIDE DEF k, Reached
  <2>2. GetLeaf(t[k + 1], w[k + 1], a[k]).v = v[k + 1]
    BY <1>10, <2>1
  <2> QED
    BY <2>1, <2>2 DEF k
<1>14. ~Failed(a[n]) /\ a[n].past = FALSE /\ a[n].in = m /\ a[n].at = Len(p[n].out)
  BY <1>12
<1> QED
  BY <1>13, <1>14 DEF m

----------------------------------------------------------------------------
(***************************************************************************)
(* The values of each type, as a program builds them: numbers of 32 bits,  *)
(* bytes, containers that a length word can count, unions with the member  *)
(* that the discriminant selects.  A value's parts are one level down.     *)
(***************************************************************************)
Type == DOMAIN Types
Selects(t, w) == FieldNo(t, w) > 0

LeafValues(t) ==
  CASE Kind(t) = "bool" -> {<<n>> : n \in {0, 1}}
    [] Kind(t) \in {"u32", "enum"} -> {<<n>> : n \in U32}
    [] Kind(t) = "u64" -> {<<h, l>> : h \in U32, l \in U32}
    [] Kind(t) = "fixed" -> [1..Types[t].len -> Octet]
    [] Kind(t) = "bytes" -> {b \in Seq(Octet) : Len(b) \in U32}

\* The values of a nested type whose parts are in V.
RecordShapes(V, t) ==
  {s \in [DOMAIN Types[t].fields -> UNION {V[e] : e \in Type}] :
     \A i \in DOMAIN Types[t].fields : s[i] \in V[Types[t].fields[i]]}
WithMember(V, t, w) == {Union(w, FieldNo(t, w), m) : m \in V[Arm(t, FieldNo(t, w))]}
UnionShapes(V, t) ==
  (UNION {WithMember(V, t, w) : w \in {x \in U32 : Selects(t, x)}})
  \cup {NoMember(w) : w \in {x \in U32 : ~Selects(t, x)}}
Shapes(V, t) ==
  IF Kind(t) \in Leaf THEN LeafValues(t)
  ELSE IF Kind(t) = "array" THEN [1..Types[t].len -> V[Types[t].elem]]
  ELSE IF Kind(t) \in {"vector", "pointer"} THEN {s \in Seq(V[Types[t].elem]) : Len(s) \in U32}
  ELSE IF Kind(t) \in Record THEN RecordShapes(V, t)
  ELSE UnionShapes(V, t)

\* F gives the values of 0 to n levels.
AreLevels(F, n) ==
  F = [i \in 0..n |-> IF i = 0 THEN [t \in Type |-> {}] ELSE [t \in Type |-> Shapes(F[i - 1], t)]]
Level(n) == (CHOOSE F : AreLevels(F, n))[n]
Objects == [t \in Type |-> UNION {Level(n)[t] : n \in Nat}]

LEMMA LevelsExist ==
  ASSUME NEW n \in Nat
  PROVE  \E F : AreLevels(F, n)
<1> DEFINE T == {m \in Nat : \E F : AreLevels(F, m)}
<1>1. 0 \in T
  <2> DEFINE F == [i \in 0..0 |-> [t \in Type |-> {}]]
  <2>1. F = [i \in 0..0 |-> IF i = 0 THEN [t \in Type |-> {}] ELSE [t \in Type |-> Shapes(F[i - 1], t)]]
    <3>1. \A i \in 0..0 : i = 0
      OBVIOUS
    <3> QED
      BY <3>1
  <2> QED
    BY <2>1, Zenon DEF AreLevels
<1>2. ASSUME NEW m \in Nat, m \in T
      PROVE  m + 1 \in T
  <2>1. PICK F : AreLevels(F, m)
    BY <1>2
  <2> DEFINE Next(V) == [t \in Type |-> Shapes(V, t)]
             G == [i \in 0..m + 1 |-> IF i <= m THEN F[i] ELSE Next(F[m])]
  <2>2. \A i \in 0..m : F[i] = IF i = 0 THEN [t \in Type |-> {}] ELSE Next(F[i - 1])
    BY <2>1, Zenon DEF AreLevels
  <2> HIDE DEF Next
  <2>3. \A i \in 0..m : G[i] = F[i]
    OBVIOUS
  <2>4. G[m + 1] = Next(F[m])
    OBVIOUS
  <2> HIDE DEF G
  <2>5. ASSUME NEW i \in 0..m + 1
        PROVE  G[i] = IF i = 0 THEN [t \in Type |-> {}] ELSE Next(G[i - 1])
    <3>1. CASE i = 0
      <4>1. 0 \in 0..m
        OBVIOUS
      <4>2. G[0] = F[0] /\ F[0] = [t \in Type |-> {}]
        BY <2>2, <2>3, <4>1, Zenon
      <4> QED
        BY <3>1, <4>2, Zenon
    <3>2. CASE i # 0 /\ i <= m
      <4>1. i \in 0..m /\ i - 1 \in 0..m
        BY <3>2
      <4> QED
        BY <2>2, <2>3, <3>2, <4>1, Zenon
    <3>3. CASE ~(i <= m)
      <4>1. i = m + 1 /\ i - 1 = m /\ m \in 0..m /\ i # 0
        BY <3>3
      <4> QED
        BY <2>3, <2>4, <4>1, Zenon
    <3> QED
      BY <3>1, <3>2, <3>3
  <2>6. G = [i \in 0..m + 1 |-> G[i]]
    BY DEF G
  <2>7. G = [i \in 0..m + 1 |-> IF i = 0 THEN [t \in Type |-> {}] ELSE Next(G[i - 1])]
    BY <2>5, <2>6, Zenon
  <2>8. AreLevels(G, m + 1)
    BY <2>7, Zenon DEF AreLevels, Next
  <2> QED
    BY <2>8
<1>3. Nat \subseteq T
  <2> HIDE DEF T
  <2> QED
    BY <1>1, <1>2, EveryNat
<1> QED
  BY <1>3

LEMMA LevelsAgree ==
  ASSUME NEW m \in Nat, NEW n \in Nat, m <= n,
         NEW F, AreLevels(F, m), NEW G, AreLevels(G, n)
  PROVE  F[m] = G[m]
<1> DEFINE T == {k \in Nat : k <= m => F[k] = G[k]}
           Next(V) == [t \in Type |-> Shapes(V, t)]
<1>1. \A i \in 0..m : F[i] = IF i = 0 THEN [t \in Type |-> {}] ELSE Next(F[i - 1])
  BY Zenon DEF AreLevels
<1>2. \A i \in 0..n : G[i] = IF i = 0 THEN [t \in Type |-> {}] ELSE Next(G[i - 1])
  BY Zenon DEF AreLevels
<1> HIDE DEF Next
<1>3. 0 \in T
  <2>1. 0 \in 0..m /\ 0 \in 0..n
    OBVIOUS
  <2>2. F[0] = G[0]
    BY <1>1, <1>2, <2>1, Zenon
  <2> QED
    BY <2>2
<1>4. ASSUME NEW k \in Nat, k \in T
      PROVE  k + 1 \in T
  <2>1. ASSUME k + 1 <= m
        PROVE  F[k + 1] = G[k + 1]
    <3> DEFINE j == k + 1
    <3>1. j \in 0..m /\ j \in 0..n /\ j # 0 /\ j - 1 = k /\ F[k] = G[k]
      BY <1>4, <2>1
    <3> HIDE DEF j
    <3>2. F[j] = Next(F[k]) /\ G[j] = Next(G[k])
      BY <1>1, <1>2, <3>1, Zenon
    <3> QED
      BY <3>1, <3>2, Zenon DEF j
  <2> QED
    BY <2>1
<1>5. Nat \subseteq T
  <2> HIDE DEF T
  <2> QED
    BY <1>3, <1>4, EveryNat
<1> QED
  BY <1>5

\* The levels, by their equations.
LEMMA LevelZero == Level(0) = [t \in Type |-> {}]
<1> DEFINE F == CHOOSE F : AreLevels(F, 0)
<1>1. AreLevels(F, 0)
  BY LevelsExist, Zenon
<1>2. 0 \in 0..0
  OBVIOUS
<1> HIDE DEF F
<1>3. F[0] = [t \in Type |-> {}]
  BY <1>1, <1>2, Zenon DEF AreLevels
<1> QED
  BY <1>3, Zenon DEF Level, F

LEMMA LevelNext ==
  ASSUME NEW n \in Nat
  PROVE  Level(n + 1) = [t \in Type |-> Shapes(Level(n), t)]
<1> DEFINE m == n + 1
           F == CHOOSE F : AreLevels(F, n)
           G == CHOOSE G : AreLevels(G, m)
<1>0. m \in Nat /\ n <= m /\ m \in 0..m /\ m # 0 /\ m - 1 = n
  OBVIOUS
<1>1. AreLevels(F, n)
  BY LevelsExist, Zenon
<1>9. Level(n) = F[n]
  BY Zenon DEF Level
<1> HIDE DEF F, m
<1>2. AreLevels(G, m)
  BY <1>0, LevelsExist, Zenon
<1>8. Level(m) = G[m]
  BY Zenon DEF Level
<1> HIDE DEF G
<1>3. F[n] = G[n]
  BY <1>0, <1>1, <1>2, LevelsAgree
<1>4. G[m] = [t \in Type |-> Shapes(G[n], t)]
  BY <1>0, <1>2, Zenon DEF AreLevels
<1> QED
  BY <1>3, <1>4, <1>8, <1>9, Zenon DEF m

----------------------------------------------------------------------------
\* How many parts a container or a record may have, and what it consists of.
HasParts(t) == Kind(t) \in Container \cup Record
Counts(t, n) ==
  /\ n \in Nat
  /\ Kind(t) = "array" => n = Types[t].len
  /\ Kind(t) \in Record => n = Len(Types[t].fields)
  /\ Kind(t) \in {"vector", "pointer"} => n \in U32
Tuple(v) == Len(v) \in Nat /\ DOMAIN v = 1..Len(v) /\ v = [i \in 1..Len(v) |-> v[i]]
Parts(V, t, v) ==
  Tuple(v) /\ Counts(t, Len(v)) /\ \A i \in 1..Len(v) : v[i] \in V[Component(t, i)]
Selected(V, t, u) ==
  \/ \E w \in U32 : /\ Selects(t, w)
                    /\ \E m \in V[Arm(t, FieldNo(t, w))] : u = Union(w, FieldNo(t, w), m)
  \/ \E w \in U32 : ~Selects(t, w) /\ u = NoMember(w)

LEMMA Kinds ==
  ASSUME NEW t \in Type
  PROVE  /\ Kind(t) \in Leaf \/ HasParts(t) \/ Kind(t) = "union"
         /\ ~(Kind(t) \in Leaf /\ HasParts(t))
         /\ ~(Kind(t) \in Leaf /\ Kind(t) = "union") /\ ~(HasParts(t) /\ Kind(t) = "union")
         /\ Kind(t) \in Nested <=> HasParts(t) \/ Kind(t) = "union"
BY NestedAssumption DEF Type, Leaf, Nested, HasParts, Container, Record, Scalar, is_bytes

LEMMA TupleIs ==
  ASSUME NEW n \in Nat, NEW f, DOMAIN f = 1..n, f = [i \in 1..n |-> f[i]]
  PROVE  Tuple(f) /\ Len(f) = n
<1> DEFINE S == {f[i] : i \in 1..n}
<1>1. f \in [1..n -> S]
  BY Zenon
<1> HIDE DEF S
<1>2. f \in Seq(S)
  BY <1>1, SeqDef
<1>3. Len(f) = n
  BY <1>1, <1>2, LenProperties
<1> QED
  BY <1>3, Zenon DEF Tuple

LEMMA TupleSeq ==
  ASSUME NEW v, Tuple(v), NEW S, \A i \in 1..Len(v) : v[i] \in S
  PROVE  v \in Seq(S)
<1>1. v \in [1..Len(v) -> S]
  BY Zenon DEF Tuple
<1> QED
  BY <1>1, SeqDef DEF Tuple

LEMMA SeqTuple ==
  ASSUME NEW S, NEW v \in Seq(S)
  PROVE  Tuple(v) /\ \A i \in 1..Len(v) : v[i] \in S
<1>1. Len(v) \in Nat /\ v \in [1..Len(v) -> S]
  BY LenProperties
<1> QED
  BY <1>1, Zenon DEF Tuple

LEMMA TuplesEqual ==
  ASSUME NEW v, NEW w, Tuple(v), Tuple(w), Len(v) = Len(w), \A i \in 1..Len(v) : v[i] = w[i]
  PROVE  v = w
BY Zenon DEF Tuple

LEMMA ArrayParts ==
  ASSUME NEW t \in Type, Kind(t) = "array", NEW V, NEW v
  PROVE  v \in [1..Types[t].len -> V[Types[t].elem]] <=> Parts(V, t, v)
<1> DEFINE n == Types[t].len
           S == V[Types[t].elem]
<1>1. n \in Nat /\ \A i : Component(t, i) = Types[t].elem
  BY NestedAssumption DEF Type, Component, Record
<1>2. Kind(t) \notin Record /\ Kind(t) \notin {"vector", "pointer"}
  BY DEF Record
<1>3. ASSUME v \in [1..n -> S]
      PROVE  Parts(V, t, v)
  <2>1. DOMAIN v = 1..n /\ v = [i \in 1..n |-> v[i]] /\ \A i \in 1..n : v[i] \in S
    BY <1>3, Zenon
  <2> HIDE DEF n
  <2>2. Tuple(v) /\ Len(v) = n
    BY <1>1, <2>1, TupleIs, Zenon
  <2> USE DEF n
  <2>3. Counts(t, Len(v))
    BY <1>1, <1>2, <2>2, Zenon DEF Counts
  <2> QED
    BY <1>1, <2>1, <2>2, <2>3, Zenon DEF Parts
<1>4. ASSUME Parts(V, t, v)
      PROVE  v \in [1..n -> S]
  <2>1. Tuple(v) /\ Len(v) = n /\ \A i \in 1..Len(v) : v[i] \in S
    BY <1>1, <1>4, Zenon DEF Parts, Counts
  <2> QED
    BY <2>1, Zenon DEF Tuple
<1> QED
  BY <1>3, <1>4

LEMMA SeqParts ==
  ASSUME NEW t \in Type, Kind(t) \in {"vector", "pointer"}, NEW V, NEW v
  PROVE  v \in {s \in Seq(V[Types[t].elem]) : Len(s) \in U32} <=> Parts(V, t, v)
<1> DEFINE S == V[Types[t].elem]
<1>1. \A i : Component(t, i) = Types[t].elem
  BY DEF Component, Record
<1>2. Kind(t) \notin Record /\ Kind(t) # "array"
  BY DEF Record
<1> HIDE DEF S
<1>3. ASSUME v \in Seq(S), Len(v) \in U32
      PROVE  Parts(V, t, v)
  <2>1. Tuple(v) /\ \A i \in 1..Len(v) : v[i] \in S
    BY <1>3, SeqTuple
  <2>2. Counts(t, Len(v))
    BY <1>2, <1>3, <2>1 DEF Counts, U32
  <2> QED
    BY <1>1, <2>1, <2>2, Zenon DEF Parts, S
<1>4. ASSUME Parts(V, t, v)
      PROVE  v \in Seq(S) /\ Len(v) \in U32
  <2>1. Tuple(v) /\ Len(v) \in U32 /\ \A i \in 1..Len(v) : v[i] \in S
    BY <1>1, <1>4, Zenon DEF Parts, Counts, S
  <2> QED
    BY <2>1, TupleSeq
<1> QED
  BY <1>3, <1>4 DEF S

LEMMA RecordParts ==
  ASSUME NEW t \in Type, Kind(t) \in Record, NEW V, NEW v
  PROVE  v \in RecordShapes(V, t) <=> Parts(V, t, v)
<1> DEFINE fs == Types[t].fields
           n == Len(fs)
           All == UNION {V[e] : e \in Type}
<1>1. n \in Nat /\ DOMAIN fs = 1..n /\ \A i \in 1..n : fs[i] \in Type
  <2>1. fs \in Seq(Type)
    BY NestedAssumption DEF Type
  <2> QED
    BY <2>1, LenProperties, ElementOfSeq
<1>2. \A i : Component(t, i) = fs[i]
  BY DEF Component, Record
<1>3. Kind(t) # "array" /\ Kind(t) \notin {"vector", "pointer"}
  BY DEF Record
<1> HIDE DEF n
<1>4. ASSUME v \in RecordShapes(V, t)
      PROVE  Parts(V, t, v)
  <2>1. v \in [1..n -> All] /\ \A i \in 1..n : v[i] \in V[fs[i]]
    BY <1>1, <1>4, Zenon DEF RecordShapes
  <2> HIDE DEF All
  <2>2. DOMAIN v = 1..n /\ v = [i \in 1..n |-> v[i]]
    BY <2>1, Zenon
  <2>3. Tuple(v) /\ Len(v) = n
    BY <1>1, <2>2, TupleIs, Zenon
  <2>4. Counts(t, Len(v))
    BY <1>1, <1>3, <2>3, Zenon DEF Counts, n
  <2> QED
    BY <1>2, <2>1, <2>3, <2>4, Zenon DEF Parts
<1>5. ASSUME Parts(V, t, v)
      PROVE  v \in RecordShapes(V, t)
  <2>1. Tuple(v) /\ Len(v) = n /\ \A i \in 1..n : v[i] \in V[fs[i]]
    BY <1>2, <1>5, Zenon DEF Parts, Counts, n
  <2>2. \A i \in 1..n : v[i] \in All
    BY <1>1, <2>1, Zenon
  <2> HIDE DEF All
  <2>3. v \in [1..n -> All]
    BY <2>1, <2>2, Zenon DEF Tuple
  <2> QED
    BY <1>1, <2>1, <2>3, Zenon DEF RecordShapes, All
<1> QED
  BY <1>4, <1>5

LEMMA UnionSelected ==
  ASSUME NEW t, NEW V, NEW u
  PROVE  u \in UnionShapes(V, t) <=> Selected(V, t, u)
<1> DEFINE A == UNION {WithMember(V, t, w) : w \in {x \in U32 : Selects(t, x)}}
           B == {NoMember(w) : w \in {x \in U32 : ~Selects(t, x)}}
<1>1. UnionShapes(V, t) = A \cup B
  BY DEF UnionShapes
<1>2. u \in A <=> \E w \in U32 : Selects(t, w) /\ u \in WithMember(V, t, w)
  OBVIOUS
<1>3. u \in B <=> \E w \in U32 : ~Selects(t, w) /\ u = NoMember(w)
  OBVIOUS
<1>4. \A w : u \in WithMember(V, t, w)
             <=> \E m \in V[Arm(t, FieldNo(t, w))] : u = Union(w, FieldNo(t, w), m)
  BY Zenon DEF WithMember
<1> HIDE DEF A, B
<1> QED
  BY <1>1, <1>2, <1>3, <1>4, Zenon DEF Selected

LEMMA ShapeIs ==
  ASSUME NEW t \in Type, NEW V, NEW v
  PROVE  /\ Kind(t) \in Leaf => Shapes(V, t) = LeafValues(t)
         /\ HasParts(t) => (v \in Shapes(V, t) <=> Parts(V, t, v))
         /\ Kind(t) = "union" => (v \in Shapes(V, t) <=> Selected(V, t, v))
<1>1. Kind(t) \in Leaf => Shapes(V, t) = LeafValues(t)
  BY DEF Shapes
<1>2. ASSUME HasParts(t)
      PROVE  v \in Shapes(V, t) <=> Parts(V, t, v)
  <2>0. Kind(t) \notin Leaf
    BY <1>2, Kinds
  <2>1. CASE Kind(t) = "array"
    <3>1. Shapes(V, t) = [1..Types[t].len -> V[Types[t].elem]]
      BY <2>0, <2>1, Zenon DEF Shapes
    <3> QED
      BY <2>1, <3>1, ArrayParts, Zenon
  <2>2. CASE Kind(t) \in {"vector", "pointer"}
    <3>1. Kind(t) # "array"
      BY <2>2
    <3>2. Shapes(V, t) = {s \in Seq(V[Types[t].elem]) : Len(s) \in U32}
      BY <2>0, <2>2, <3>1, Zenon DEF Shapes
    <3>3. v \in {s \in Seq(V[Types[t].elem]) : Len(s) \in U32} <=> Parts(V, t, v)
      BY <2>2, SeqParts
    <3> QED
      BY <3>2, <3>3
  <2>3. CASE Kind(t) \in Record
    <3>1. Kind(t) # "array" /\ Kind(t) \notin {"vector", "pointer"}
      BY <2>3 DEF Record
    <3>2. Shapes(V, t) = RecordShapes(V, t)
      BY <2>0, <2>3, <3>1, Zenon DEF Shapes
    <3> QED
      BY <2>3, <3>2, RecordParts, Zenon
  <2> QED
    BY <1>2, <2>1, <2>2, <2>3 DEF HasParts, Container
<1>3. ASSUME Kind(t) = "union"
      PROVE  v \in Shapes(V, t) <=> Selected(V, t, v)
  <2>1. Shapes(V, t) = UnionShapes(V, t)
    BY <1>3 DEF Shapes, Leaf, Scalar, is_bytes, Record
  <2> QED
    BY <2>1, UnionSelected
<1> QED
  BY <1>1, <1>2, <1>3

----------------------------------------------------------------------------
\* The types of parts are types.
LEMMA PartTypes ==
  ASSUME NEW t \in Type, HasParts(t), NEW n, Counts(t, n), NEW i \in 1..n
  PROVE  Component(t, i) \in Type
<1>1. CASE Kind(t) \in Record
  <2>1. Types[t].fields \in Seq(Type) /\ n = Len(Types[t].fields)
    BY <1>1, NestedAssumption DEF Type, Counts
  <2>2. Types[t].fields[i] \in Type
    BY <2>1, ElementOfSeq, LenProperties
  <2> QED
    BY <1>1, <2>2 DEF Component
<1>2. CASE Kind(t) \in Container
  <2>1. Kind(t) \notin Record
    BY <1>2 DEF Container, Record
  <2> QED
    BY <1>2, <2>1, NestedAssumption DEF Component, Type
<1> QED
  BY <1>1, <1>2 DEF HasParts

LEMMA FieldsAre ==
  ASSUME NEW t \in Type, Kind(t) = "union", NEW w
  PROVE  /\ FieldNo(t, w) \in Int /\ NoField <= FieldNo(t, w) /\ FieldNo(t, w) <= Len(Types[t].arms)
         /\ Len(Types[t].arms) \in Nat
         /\ Selects(t, w) => Arm(t, FieldNo(t, w)) \in Type /\ Arm(t, FieldNo(t, w)) \in Inside(t)
         /\ ~Selects(t, w) <=> FieldNo(t, w) \in {0, NoField}
<1> DEFINE f == FieldNo(t, w)
           as == Types[t].arms
<1>1. as \in Seq(Type) /\ f \in NoField .. Len(as)
  <2>1. Types[t].arms \in Seq(Type) /\ Types[t].default \in NoField .. Len(as)
    BY NestedAssumption DEF Type
  <2>2. \A x \in DOMAIN Types[t].cases : Types[t].cases[x] \in NoField .. Len(as)
    BY NestedAssumption DEF Type
  <2> QED
    BY <2>1, <2>2 DEF FieldNo
<1>2. Len(as) \in Nat /\ DOMAIN as = 1..Len(as)
  BY <1>1, LenProperties
<1>3. f \in Int /\ NoField <= f /\ f <= Len(as)
  BY <1>1, <1>2 DEF NoField
<1>4. ASSUME f > 0
      PROVE  Arm(t, f) \in Type /\ Arm(t, f) \in Inside(t)
  <2>1. f \in 1..Len(as)
    BY <1>2, <1>3, <1>4
  <2>2. as[f] \in Type
    BY <1>1, <2>1, ElementOfSeq
  <2>3. Inside(t) = {as[i] : i \in DOMAIN as}
    BY DEF Inside, Record
  <2> HIDE DEF as
  <2>4. as[f] \in Inside(t)
    BY <1>2, <2>1, <2>3
  <2> QED
    BY <2>2, <2>4 DEF Arm, as
<1>5. ~(f > 0) <=> f \in {0, NoField}
  BY <1>3 DEF NoField
<1>6. Selects(t, w) <=> f > 0
  BY DEF Selects
<1> HIDE DEF f
<1>7. /\ f \in Int /\ NoField <= f /\ f <= Len(as) /\ Len(as) \in Nat
      /\ Selects(t, w) => Arm(t, f) \in Type /\ Arm(t, f) \in Inside(t)
      /\ ~Selects(t, w) <=> f \in {0, NoField}
  BY <1>2, <1>3, <1>4, <1>5, <1>6, Zenon
<1> QED
  BY <1>7 DEF f

\* Parts of a value that lie inside it.
LEMMA InsideParts ==
  ASSUME NEW t \in Type, Kind(t) = "array" \/ Kind(t) \in Record, NEW n, Counts(t, n), NEW i \in 1..n
  PROVE  Component(t, i) \in Inside(t)
<1>1. CASE Kind(t) \in Record
  <2>1. Types[t].fields \in Seq(Type) /\ n = Len(Types[t].fields)
    BY <1>1, NestedAssumption DEF Type, Counts
  <2>2. i \in DOMAIN Types[t].fields
    BY <2>1, LenProperties
  <2>3. Inside(t) = {Types[t].fields[j] : j \in DOMAIN Types[t].fields}
    BY <1>1 DEF Inside, Record
  <2> QED
    BY <1>1, <2>2, <2>3 DEF Component
<1>2. CASE Kind(t) = "array"
  BY <1>2 DEF Component, Record, Inside
<1> QED
  BY <1>1, <1>2

\* Larger sets of parts make larger sets of values.
LEMMA ShapesGrow ==
  ASSUME NEW t \in Type, NEW V, NEW W, \A e \in Type : V[e] \subseteq W[e]
  PROVE  Shapes(V, t) \subseteq Shapes(W, t)
<1> SUFFICES ASSUME NEW v \in Shapes(V, t)
             PROVE  v \in Shapes(W, t)
  OBVIOUS
<1>1. CASE Kind(t) \in Leaf
  BY <1>1, ShapeIs, Zenon
<1>2. CASE HasParts(t)
  <2>1. Parts(V, t, v)
    BY <1>2, ShapeIs, Zenon
  <2>2. \A i \in 1..Len(v) : v[i] \in W[Component(t, i)]
    BY <1>2, <2>1, PartTypes, Zenon DEF Parts
  <2>3. Parts(W, t, v)
    BY <2>1, <2>2, Zenon DEF Parts
  <2> QED
    BY <1>2, <2>3, ShapeIs, Zenon
<1>3. CASE Kind(t) = "union"
  <2>1. Selected(V, t, v)
    BY <1>3, ShapeIs, Zenon
  <2>2. \A w : Selects(t, w) => V[Arm(t, FieldNo(t, w))] \subseteq W[Arm(t, FieldNo(t, w))]
    <3> TAKE w
    <3>1. Selects(t, w) => Arm(t, FieldNo(t, w)) \in Type
      BY <1>3, FieldsAre
    <3> QED
      BY <3>1
  <2>3. Selected(W, t, v)
    BY <2>1, <2>2, Zenon DEF Selected
  <2> QED
    BY <1>3, <2>3, ShapeIs, Zenon
<1> QED
  BY <1>1, <1>2, <1>3, Kinds

LEMMA LevelIs ==
  ASSUME NEW n \in Nat, NEW t \in Type
  PROVE  Level(0)[t] = {} /\ Level(n + 1)[t] = Shapes(Level(n), t)
BY LevelZero, LevelNext, Zenon

LEMMA LevelGrows ==
  ASSUME NEW n \in Nat, NEW t \in Type
  PROVE  Level(n)[t] \subseteq Level(n + 1)[t]
<1> DEFINE T == {k \in Nat : \A e \in Type : Level(k)[e] \subseteq Level(k + 1)[e]}
<1>1. 0 \in T
  <2>1. \A e \in Type : Level(0)[e] = {}
    BY LevelZero, Zenon
  <2> QED
    BY <2>1
<1>2. ASSUME NEW k \in Nat, k \in T
      PROVE  k + 1 \in T
  <2> DEFINE j == k + 1
  <2>1. j \in Nat
    OBVIOUS
  <2>2. \A e \in Type : Level(k)[e] \subseteq Level(j)[e]
    BY <1>2
  <2>3. \A e \in Type : Level(j)[e] = Shapes(Level(k), e)
    BY LevelIs, Zenon
  <2> HIDE DEF j
  <2>4. \A e \in Type : Level(j + 1)[e] = Shapes(Level(j), e)
    BY <2>1, LevelIs, Zenon
  <2>5. \A e \in Type : Shapes(Level(k), e) \subseteq Shapes(Level(j), e)
    BY <2>2, ShapesGrow, Zenon
  <2>6. \A e \in Type : Level(j)[e] \subseteq Level(j + 1)[e]
    BY <2>3, <2>4, <2>5, Zenon
  <2> QED
    BY <2>1, <2>6 DEF j
<1>3. Nat \subseteq T
  <2> HIDE DEF T
  <2> QED
    BY <1>1, <1>2, EveryNat
<1> QED
  BY <1>3

LEMMA LevelsGrow ==
  ASSUME NEW m \in Nat, NEW n \in Nat, m <= n, NEW t \in Type
  PROVE  Level(m)[t] \subseteq Level(n)[t]
<1> DEFINE T == {k \in Nat : Level(m)[t] \subseteq Level(m + k)[t]}
<1>1. 0 \in T
  OBVIOUS
<1>2. ASSUME NEW k \in Nat, k \in T
      PROVE  k + 1 \in T
  <2> DEFINE j == m + k
  <2>1. j \in Nat /\ j + 1 = m + (k + 1)
    OBVIOUS
  <2>2. Level(m)[t] \subseteq Level(j)[t]
    BY <1>2
  <2> HIDE DEF j
  <2>3. Level(j)[t] \subseteq Level(j + 1)[t]
    BY <2>1, LevelGrows
  <2> QED
    BY <2>1, <2>2, <2>3
<1>3. Nat \subseteq T
  <2> HIDE DEF T
  <2> QED
    BY <1>1, <1>2, EveryNat
<1>4. n - m \in Nat /\ m + (n - m) = n
  OBVIOUS
<1> QED
  BY <1>3, <1>4

\* Finitely many numbers have a bound.
LEMMA Bounded ==
  ASSUME NEW n \in Nat, NEW f, \A i \in 1..n : f[i] \in Nat
  PROVE  \E b \in Nat : \A i \in 1..n : f[i] <= b
<1> DEFINE T == {k \in Nat : k <= n => \E b \in Nat : \A i \in 1..k : f[i] <= b}
<1>1. 0 \in T
  OBVIOUS
<1>2. ASSUME NEW k \in Nat, k \in T
      PROVE  k + 1 \in T
  <2>1. ASSUME k + 1 <= n
        PROVE  \E b \in Nat : \A i \in 1..k + 1 : f[i] <= b
    <3>1. k <= n
      BY <2>1
    <3>2. PICK b \in Nat : \A i \in 1..k : f[i] <= b
      BY <1>2, <3>1
    <3>3. f[k + 1] \in Nat
      BY <2>1
    <3> DEFINE c == IF b < f[k + 1] THEN f[k + 1] ELSE b
    <3>4. c \in Nat /\ b <= c /\ f[k + 1] <= c
      BY <3>3
    <3> HIDE DEF c
    <3>5. ASSUME NEW i \in 1..k + 1 PROVE f[i] <= c
      <4>1. CASE i = k + 1
        BY <3>4, <4>1
      <4>2. CASE i # k + 1
        <5>1. i \in 1..k /\ i \in 1..n
          BY <3>1, <4>2
        <5>2. f[i] \in Nat /\ f[i] <= b
          BY <3>2, <5>1
        <5> QED
          BY <3>4, <5>2
      <4> QED
        BY <4>1, <4>2
    <3> QED
      BY <3>4, <3>5
  <2> QED
    BY <2>1
<1>3. Nat \subseteq T
  <2> HIDE DEF T
  <2> QED
    BY <1>1, <1>2, EveryNat
<1>4. n \in T
  BY <1>3
<1>5. n <= n
  OBVIOUS
<1> QED
  BY <1>4, <1>5

\* A value's parts are values, and what is made of values is a value.
LEMMA ObjectsAre ==
  ASSUME NEW t \in Type
  PROVE  Objects[t] = Shapes(Objects, t)
<1>0. \A e \in Type : \A v : v \in Objects[e] <=> \E n \in Nat : v \in Level(n)[e]
  BY Zenon DEF Objects
<1>1. ASSUME NEW v \in Objects[t]
      PROVE  v \in Shapes(Objects, t)
  <2>1. PICK n \in Nat : v \in Level(n)[t]
    BY <1>0
  <2>2. v \in Level(n + 1)[t]
    BY <2>1, LevelGrows
  <2>3. v \in Shapes(Level(n), t)
    BY <2>2, LevelIs
  <2>4. \A e \in Type : Level(n)[e] \subseteq Objects[e]
    BY <1>0
  <2>5. Shapes(Level(n), t) \subseteq Shapes(Objects, t)
    BY <2>4, ShapesGrow
  <2> QED
    BY <2>3, <2>5
<1>2. ASSUME NEW v \in Shapes(Objects, t)
      PROVE  v \in Objects[t]
  <2>1. CASE Kind(t) \in Leaf
    <3>1. v \in Shapes(Level(0), t)
      BY <2>1, ShapeIs, Zenon
    <3>2. v \in Level(0 + 1)[t]
      BY <3>1, LevelIs
    <3>3. 0 + 1 \in Nat
      OBVIOUS
    <3> QED
      BY <1>0, <3>2, <3>3
  <2>2. CASE HasParts(t)
    <3>1. Parts(Objects, t, v)
      BY <2>2, ShapeIs, Zenon
    <3> DEFINE n == Len(v)
               k == [i \in 1..n |-> CHOOSE j \in Nat : v[i] \in Level(j)[Component(t, i)]]
    <3>2. n \in Nat /\ \A i \in 1..n : Component(t, i) \in Type /\ v[i] \in Objects[Component(t, i)]
      BY <2>2, <3>1, PartTypes, Zenon DEF Parts, Tuple
    <3>3. \A i \in 1..n : k[i] \in Nat /\ v[i] \in Level(k[i])[Component(t, i)]
      <4> TAKE i \in 1..n
      <4>1. \E j \in Nat : v[i] \in Level(j)[Component(t, i)]
        BY <1>0, <3>2, Zenon
      <4>2. k[i] = CHOOSE j \in Nat : v[i] \in Level(j)[Component(t, i)]
        BY Zenon
      <4> HIDE DEF k
      <4> QED
        BY <4>1, <4>2, Zenon
    <3> HIDE DEF n, k
    <3>4. PICK b \in Nat : \A i \in 1..n : k[i] <= b
      BY <3>2, <3>3, Bounded
    <3>5. \A i \in 1..n : v[i] \in Level(b)[Component(t, i)]
      <4> TAKE i \in 1..n
      <4> DEFINE e == Component(t, i)
                 j == k[i]
      <4>1. e \in Type /\ j \in Nat /\ j <= b /\ v[i] \in Level(j)[e]
        BY <3>2, <3>3, <3>4
      <4> HIDE DEF e, j
      <4>2. Level(j)[e] \subseteq Level(b)[e]
        BY <4>1, LevelsGrow
      <4> QED
        BY <4>1, <4>2 DEF e
    <3>6. Parts(Level(b), t, v)
      BY <3>1, <3>5, Zenon DEF Parts, n
    <3>7. v \in Shapes(Level(b), t)
      BY <2>2, <3>6, ShapeIs, Zenon
    <3>8. v \in Level(b + 1)[t]
      BY <3>7, LevelIs
    <3>9. b + 1 \in Nat
      OBVIOUS
    <3> QED
      BY <1>0, <3>8, <3>9
  <2>3. CASE Kind(t) = "union"
    <3>1. Selected(Objects, t, v)
      BY <2>3, ShapeIs, Zenon
    <3>2. \E b \in Nat : Selected(Level(b), t, v)
      <4>1. CASE \E w \in U32 : ~Selects(t, w) /\ v = NoMember(w)
        <5>1. Selected(Level(0), t, v)
          BY <4>1, Zenon DEF Selected
        <5> QED
          BY <5>1
      <4>2. CASE \E w \in U32 : /\ Selects(t, w)
                                /\ \E m \in Objects[Arm(t, FieldNo(t, w))] :
                                     v = Union(w, FieldNo(t, w), m)
        <5>1. PICK w \in U32 : /\ Selects(t, w)
                               /\ \E m \in Objects[Arm(t, FieldNo(t, w))] :
                                    v = Union(w, FieldNo(t, w), m)
          BY <4>2
        <5>2. PICK m \in Objects[Arm(t, FieldNo(t, w))] : v = Union(w, FieldNo(t, w), m)
          BY <5>1
        <5>3. Arm(t, FieldNo(t, w)) \in Type
          BY <2>3, <5>1, FieldsAre, Zenon
        <5>4. PICK b \in Nat : m \in Level(b)[Arm(t, FieldNo(t, w))]
          BY <1>0, <5>2, <5>3, Zenon
        <5>5. Selected(Level(b), t, v)
          BY <5>1, <5>2, <5>4, Zenon DEF Selected
        <5> QED
          BY <5>5
      <4> QED
        BY <3>1, <4>1, <4>2, Zenon DEF Selected
    <3>3. PICK b \in Nat : Selected(Level(b), t, v)
      BY <3>2
    <3>4. v \in Shapes(Level(b), t)
      BY <2>3, <3>3, ShapeIs, Zenon
    <3>5. v \in Level(b + 1)[t]
      BY <3>4, LevelIs
    <3>6. b + 1 \in Nat
      OBVIOUS
    <3> QED
      BY <1>0, <3>5, <3>6
  <2> QED
    BY <2>1, <2>2, <2>3, Kinds
<1> QED
  BY <1>1, <1>2

\* Induction over values: what holds of a value when it does of its parts.
LEMMA EveryObject ==
  ASSUME NEW P,
         \A t \in Type : Shapes([e \in Type |-> Objects[e] \cap P[e]], t) \subseteq P[t]
  PROVE  \A t \in Type : Objects[t] \subseteq P[t]
<1> DEFINE V == [e \in Type |-> Objects[e] \cap P[e]]
           T == {n \in Nat : \A e \in Type : Level(n)[e] \subseteq P[e]}
<1>0. \A e \in Type : \A v : v \in Objects[e] <=> \E n \in Nat : v \in Level(n)[e]
  BY Zenon DEF Objects
<1>1. 0 \in T
  <2>1. \A e \in Type : Level(0)[e] = {}
    BY LevelZero, Zenon
  <2> QED
    BY <2>1
<1>2. ASSUME NEW n \in Nat, n \in T
      PROVE  n + 1 \in T
  <2>1. \A e \in Type : Level(n)[e] \subseteq V[e]
    BY <1>0, <1>2
  <2>2. \A e \in Type : Shapes(V, e) \subseteq P[e]
    OBVIOUS
  <2> HIDE DEF V
  <2>3. \A e \in Type : Shapes(Level(n), e) \subseteq Shapes(V, e)
    BY <2>1, ShapesGrow, Zenon
  <2>4. \A e \in Type : Level(n + 1)[e] = Shapes(Level(n), e)
    BY LevelIs, Zenon
  <2>5. \A e \in Type : Level(n + 1)[e] \subseteq P[e]
    BY <2>2, <2>3, <2>4
  <2> QED
    BY <2>5
<1>3. Nat \subseteq T
  <2> HIDE DEF T
  <2> QED
    BY <1>1, <1>2, EveryNat
<1> QED
  BY <1>0, <1>3

----------------------------------------------------------------------------
(***************************************************************************)
(* Loops over components: the recursive functions that the definitions use *)
(* exist, and give way to a run of single turns.                           *)
(***************************************************************************)
SaveTurn(t, v, b, i) == IF Failed(b) THEN b ELSE ArchivePart(Component(t, i), v[i], b)
LoadTurn(t, r, i) ==
  IF Failed(r.a) THEN r ELSE LoadComponent(t, i, ExtendAt(t, r.v, i), r.a)
CopyTurn(t, source, c, i) == IF c.ok THEN CopyComponent(t, i, c, source) ELSE c

Turn(loop, x, b, i) ==
  CASE loop = "sum" -> b + x[i]
    [] loop = "save" -> SaveTurn(x[1], x[2], b, i)
    [] loop = "load" -> LoadTurn(x, b, i)
    [] loop = "copy" -> CopyTurn(x[1], x[2], b, i)
    [] loop = "join" -> b \o x[i]
IsRun(F, loop, x, base, n) ==
  F = [i \in 0..n |-> IF i = 0 THEN base ELSE Turn(loop, x, F[i - 1], i)]

LEMMA RunsExist ==
  ASSUME NEW loop, NEW x, NEW base, NEW n \in Nat
  PROVE  \E F : IsRun(F, loop, x, base, n)
<1> DEFINE T == {m \in Nat : \E F : IsRun(F, loop, x, base, m)}
<1>1. 0 \in T
  <2> DEFINE F == [i \in 0..0 |-> base]
  <2>1. F = [i \in 0..0 |-> IF i = 0 THEN base ELSE Turn(loop, x, F[i - 1], i)]
    <3>1. \A i \in 0..0 : i = 0
      OBVIOUS
    <3> QED
      BY <3>1
  <2> QED
    BY <2>1, Zenon DEF IsRun
<1>2. ASSUME NEW m \in Nat, m \in T
      PROVE  m + 1 \in T
  <2>1. PICK F : IsRun(F, loop, x, base, m)
    BY <1>2
  <2> DEFINE G == [i \in 0..m + 1 |-> IF i <= m THEN F[i] ELSE Turn(loop, x, F[m], i)]
  <2>2. \A i \in 0..m : F[i] = IF i = 0 THEN base ELSE Turn(loop, x, F[i - 1], i)
    BY <2>1, Zenon DEF IsRun
  <2>3. \A i \in 0..m : G[i] = F[i]
    OBVIOUS
  <2>4. G[m + 1] = Turn(loop, x, F[m], m + 1)
    OBVIOUS
  <2> HIDE DEF G
  <2>5. ASSUME NEW i \in 0..m + 1
        PROVE  G[i] = IF i = 0 THEN base ELSE Turn(loop, x, G[i - 1], i)
    <3>1. CASE i = 0
      <4>1. 0 \in 0..m
        OBVIOUS
      <4>2. G[0] = F[0] /\ F[0] = base
        BY <2>2, <2>3, <4>1, Zenon
      <4> QED
        BY <3>1, <4>2, Zenon
    <3>2. CASE i # 0 /\ i <= m
      <4>1. i \in 0..m /\ i - 1 \in 0..m
        BY <3>2
      <4> QED
        BY <2>2, <2>3, <3>2, <4>1, Zenon
    <3>3. CASE ~(i <= m)
      <4>1. i = m + 1 /\ i - 1 = m /\ m \in 0..m /\ i # 0
        BY <3>3
      <4> QED
        BY <2>3, <2>4, <4>1, Zenon
    <3> QED
      BY <3>1, <3>2, <3>3
  <2>6. G = [i \in 0..m + 1 |-> G[i]]
    BY DEF G
  <2>7. IsRun(G, loop, x, base, m + 1)
    BY <2>5, <2>6, Zenon DEF IsRun
  <2> QED
    BY <2>7
<1>3. Nat \subseteq T
  <2> HIDE DEF T
  <2> QED
    BY <1>1, <1>2, EveryNat
<1> QED
  BY <1>3

\* A run, turn by turn.
TakesTurns(F, loop, x, base, n) ==
  F[0] = base /\ \A i \in 1..n : F[i] = Turn(loop, x, F[i - 1], i)
LEMMA RunTurns ==
  ASSUME NEW loop, NEW x, NEW base, NEW n \in Nat, NEW F, IsRun(F, loop, x, base, n)
  PROVE  TakesTurns(F, loop, x, base, n)
<1>1. 0 \in 0..n /\ \A i \in 1..n : i \in 0..n /\ i # 0
  OBVIOUS
<1> QED
  BY <1>1, Zenon DEF IsRun, TakesTurns

SumRun(F, s) == F[0] = 0 /\ \A i \in 1..Len(s) : F[i] = F[i - 1] + s[i]
SaveRun(F, t, n, v, a) == F[0] = a /\ \A i \in 1..n : F[i] = SaveTurn(t, v, F[i - 1], i)
LoadRun(F, t, n, v, a) == F[0] = Gives(v, a) /\ \A i \in 1..n : F[i] = LoadTurn(t, F[i - 1], i)
Joined(F, b, n) == F[0] = << >> /\ \A i \in 1..n : F[i] = F[i - 1] \o b[i]
CopyRun(F, t, v, source, spare) ==
  F[0] = Copied(v, spare) /\ \A i \in 1..Len(source) : F[i] = CopyTurn(t, source, F[i - 1], i)

LEMMA SumRuns ==
  ASSUME NEW s, Len(s) \in Nat
  PROVE  \E F : SumRun(F, s) /\ Sum(s) = F[Len(s)]
<1> DEFINE n == Len(s)
           F == CHOOSE G : G = [i \in 0..n |-> IF i = 0 THEN 0 ELSE G[i - 1] + s[i]]
<1>1. \A G : IsRun(G, "sum", s, 0, n) <=> G = [i \in 0..n |-> IF i = 0 THEN 0 ELSE G[i - 1] + s[i]]
  BY Zenon DEF IsRun, Turn
<1>2. \E G : IsRun(G, "sum", s, 0, n)
  BY RunsExist, Zenon
<1>3. IsRun(F, "sum", s, 0, n)
  BY <1>1, <1>2, Zenon
<1>4. Sum(s) = F[n]
  BY DEF Sum
<1> HIDE DEF F
<1>5. TakesTurns(F, "sum", s, 0, n)
  <2>1. n \in Nat
    OBVIOUS
  <2> HIDE DEF n
  <2> QED
    BY <1>3, <2>1, RunTurns, Zenon
<1>6. \A i \in 1..n : F[i] = F[i - 1] + s[i]
  BY <1>5, Zenon DEF Turn, TakesTurns
<1> QED
  BY <1>4, <1>5, <1>6, Zenon DEF SumRun, TakesTurns

LEMMA JoinRuns ==
  ASSUME NEW b, NEW n \in Nat
  PROVE  \E F : Joined(F, b, n)
<1>1. PICK F : IsRun(F, "join", b, << >>, n)
  BY RunsExist, Zenon
<1>2. TakesTurns(F, "join", b, << >>, n)
  BY <1>1, RunTurns, Zenon
<1>3. \A i \in 1..n : F[i] = F[i - 1] \o b[i]
  BY <1>2, Zenon DEF Turn, TakesTurns
<1> QED
  BY <1>2, <1>3, Zenon DEF Joined, TakesTurns

LEMMA SaveRuns ==
  ASSUME NEW t, NEW n \in Nat, NEW v, NEW a
  PROVE  \E F : SaveRun(F, t, n, v, a) /\ SaveFirst(t, n, v, a) = F[n]
<1> DEFINE x == <<t, v>>
           F == CHOOSE G : G = [i \in 0..n |-> IF i = 0 THEN a
                                ELSE LET b == G[i - 1] IN
                                     IF Failed(b) THEN b ELSE ArchivePart(Component(t, i), v[i], b)]
<1>0. x[1] = t /\ x[2] = v
  OBVIOUS
<1> HIDE DEF x
<1>7. \A b, i : Turn("save", x, b, i) = SaveTurn(t, v, b, i)
  BY <1>0, Zenon DEF Turn
<1>1. \A G : IsRun(G, "save", x, a, n)
             <=> G = [i \in 0..n |-> IF i = 0 THEN a
                                ELSE LET b == G[i - 1] IN
                                     IF Failed(b) THEN b ELSE ArchivePart(Component(t, i), v[i], b)]
  BY <1>7, Zenon DEF IsRun, SaveTurn
<1>2. \E G : IsRun(G, "save", x, a, n)
  BY RunsExist, Zenon
<1>3. IsRun(F, "save", x, a, n)
  BY <1>1, <1>2, Zenon
<1>4. SaveFirst(t, n, v, a) = F[n]
  BY DEF SaveFirst
<1> HIDE DEF F
<1>5. TakesTurns(F, "save", x, a, n)
  BY <1>3, RunTurns, Zenon
<1> QED
  BY <1>4, <1>5, <1>7, Zenon DEF SaveRun, TakesTurns

LEMMA LoadRuns ==
  ASSUME NEW t, NEW n \in Nat, NEW v, NEW a
  PROVE  \E F : LoadRun(F, t, n, v, a) /\ LoadFirst(t, n, v, a) = F[n]
<1> DEFINE F == CHOOSE G : G = [i \in 0..n |-> IF i = 0 THEN Gives(v, a)
                                ELSE LET r == G[i - 1] IN
                                     IF Failed(r.a) THEN r
                                     ELSE LoadComponent(t, i, ExtendAt(t, r.v, i), r.a)]
<1>7. \A b, i : Turn("load", t, b, i) = LoadTurn(t, b, i)
  BY Zenon DEF Turn
<1>1. \A G : IsRun(G, "load", t, Gives(v, a), n)
             <=> G = [i \in 0..n |-> IF i = 0 THEN Gives(v, a)
                                ELSE LET r == G[i - 1] IN
                                     IF Failed(r.a) THEN r
                                     ELSE LoadComponent(t, i, ExtendAt(t, r.v, i), r.a)]
  BY <1>7, Zenon DEF IsRun, LoadTurn
<1>2. \E G : IsRun(G, "load", t, Gives(v, a), n)
  BY RunsExist, Zenon
<1>3. IsRun(F, "load", t, Gives(v, a), n)
  BY <1>1, <1>2, Zenon
<1>4. LoadFirst(t, n, v, a) = F[n]
  BY DEF LoadFirst
<1> HIDE DEF F
<1>5. TakesTurns(F, "load", t, Gives(v, a), n)
  BY <1>3, RunTurns, Zenon
<1> QED
  BY <1>4, <1>5, <1>7, Zenon DEF LoadRun, TakesTurns

LEMMA CopyRuns ==
  ASSUME NEW t, NEW v, NEW source, Len(source) \in Nat, NEW spare
  PROVE  \E F : /\ CopyRun(F, t, v, source, spare)
                /\ CopyComponents(t, v, source, spare)
                     = IF F[Len(source)].ok
                       THEN [F[Len(source)] EXCEPT !.v = SubSeq(F[Len(source)].v, 1, Len(source))]
                       ELSE F[Len(source)]
<1> DEFINE n == Len(source)
           x == <<t, source>>
           F == CHOOSE G : G = [i \in 0..n |-> IF i = 0 THEN Copied(v, spare)
                                ELSE LET c == G[i - 1] IN
                                     IF c.ok THEN CopyComponent(t, i, c, source) ELSE c]
<1>0. x[1] = t /\ x[2] = source
  OBVIOUS
<1> HIDE DEF x
<1>7. \A b, i : Turn("copy", x, b, i) = CopyTurn(t, source, b, i)
  BY <1>0, Zenon DEF Turn
<1>1. \A G : IsRun(G, "copy", x, Copied(v, spare), n)
             <=> G = [i \in 0..n |-> IF i = 0 THEN Copied(v, spare)
                                ELSE LET c == G[i - 1] IN
                                     IF c.ok THEN CopyComponent(t, i, c, source) ELSE c]
  BY <1>7, Zenon DEF IsRun, CopyTurn
<1>2. \E G : IsRun(G, "copy", x, Copied(v, spare), n)
  BY RunsExist, Zenon
<1>3. IsRun(F, "copy", x, Copied(v, spare), n)
  BY <1>1, <1>2, Zenon
<1>4. CopyComponents(t, v, source, spare)
        = IF F[n].ok THEN [F[n] EXCEPT !.v = SubSeq(F[n].v, 1, n)] ELSE F[n]
  BY DEF CopyComponents
<1> HIDE DEF F
<1>5. TakesTurns(F, "copy", x, Copied(v, spare), n)
  <2>1. n \in Nat
    OBVIOUS
  <2> HIDE DEF n
  <2> QED
    BY <1>3, <2>1, RunTurns, Zenon
<1>6. CopyRun(F, t, v, source, spare)
  BY <1>5, <1>7, Zenon DEF CopyRun, TakesTurns
<1> QED
  BY <1>4, <1>6, Zenon

\* What holds at the start and is kept by every turn, D[i] of what i turns made.
LEMMA RunKeeps ==
  ASSUME NEW n \in Nat, NEW F, NEW D, F[0] \in D[0],
         \A i \in 1..n : F[i - 1] \in D[i - 1] => F[i] \in D[i]
  PROVE  \A i \in 0..n : F[i] \in D[i]
<1> DEFINE T == {i \in Nat : i <= n => F[i] \in D[i]}
<1>1. 0 \in T
  OBVIOUS
<1>2. ASSUME NEW i \in Nat, i \in T
      PROVE  i + 1 \in T
  <2>1. ASSUME i + 1 <= n
        PROVE  F[i + 1] \in D[i + 1]
    <3> DEFINE j == i + 1
    <3>1. j \in 1..n /\ j - 1 = i /\ F[i] \in D[i]
      BY <1>2, <2>1
    <3> HIDE DEF j
    <3>2. F[j] \in D[j]
      BY <3>1
    <3> QED
      BY <3>2 DEF j
  <2> QED
    BY <2>1
<1>3. Nat \subseteq T
  <2> HIDE DEF T
  <2> QED
    BY <1>1, <1>2, EveryNat
<1> QED
  BY <1>3

----------------------------------------------------------------------------
(***************************************************************************)
(* The calls for the parts of a value are calls of the same templates.     *)
(* Values have finitely many levels, decoding counts its levels down, and  *)
(* no type lies inside itself: there is just one such family of operators. *)
(***************************************************************************)
Clearers == [kind : {"clear"}, err : Exception]
DepthCheckers == [kind : {"depth"}, limit : Nat, current : Nat, within : BOOLEAN, err : Exception]
RecursiveTypes ==
  \A t \in Type : DefaultPart(t) = Default(t) /\ FixedSizePart(t) = FixedSize(t)
RecursiveValues ==
  \A t \in Type : \A v \in Objects[t] :
    /\ SizePart(t, v) = SerialSize(t, v) /\ AllocationsPart(t, v) = Allocations(t, v)
    /\ MovedPart(t, v) = MovedFrom(t, v)
    /\ ValidPart(t, v) <=> IsValid(t, v)
RecursivePairs ==
  \A t \in Type : \A v \in Objects[t] : \A w \in Objects[t] :
    /\ ComparePart(t, v, w) = Compare(t, v, w)
    /\ EqualPart(t, v, w) <=> Equal(t, v, w)
    /\ \A spare \in Nat : CopyPart(t, v, w, spare) = CopyTo(t, v, w, spare)
RecursiveArchives ==
  \A t \in Type : \A v \in Objects[t] :
    /\ \A a \in Putters \cup DepthCheckers : ArchivePart(t, v, a) = Archive(t, v, a)
    /\ \A a \in Getters \cup Clearers : UnarchivePart(t, v, a) = Unarchive(t, v, a)
\* IsAlive is also asked about objects that a copy left torn.
RecursiveAlive ==
  \A t \in Type : \A v : \A torn \in BOOLEAN : AlivePart(t, v, torn) <=> IsAlive(t, v, torn)
Recursive ==
  RecursiveTypes /\ RecursiveValues /\ RecursivePairs /\ RecursiveArchives /\ RecursiveAlive

\* Values, by what they consist of.
LEMMA ObjectIs ==
  ASSUME NEW t \in Type, NEW v
  PROVE  /\ Kind(t) \in Leaf => Objects[t] = LeafValues(t)
         /\ HasParts(t) => (v \in Objects[t] <=> Parts(Objects, t, v))
         /\ Kind(t) = "union" => (v \in Objects[t] <=> Selected(Objects, t, v))
<1>1. Objects[t] = Shapes(Objects, t)
  BY ObjectsAre
<1>2. /\ Kind(t) \in Leaf => Shapes(Objects, t) = LeafValues(t)
      /\ HasParts(t) => (v \in Shapes(Objects, t) <=> Parts(Objects, t, v))
      /\ Kind(t) = "union" => (v \in Shapes(Objects, t) <=> Selected(Objects, t, v))
  BY ShapeIs
<1> QED
  BY <1>1, <1>2, Zenon

\* Induction over types: none lies inside itself.
LEMMA InsideTypes ==
  ASSUME NEW t \in Type
  PROVE  Inside(t) \subseteq Type
<1>1. CASE Kind(t) = "array"
  <2>1. Types[t].elem \in Type
    BY <1>1, NestedAssumption DEF Type, Container
  <2> QED
    BY <1>1, <2>1 DEF Inside, Record
<1>2. CASE Kind(t) \in Record
  <2>1. Types[t].fields \in Seq(Type) /\ Kind(t) # "array"
    BY <1>2, NestedAssumption DEF Type, Record
  <2>2. \A i \in DOMAIN Types[t].fields : Types[t].fields[i] \in Type
    BY <2>1, ElementOfSeq, LenProperties
  <2>3. Inside(t) = {Types[t].fields[i] : i \in DOMAIN Types[t].fields}
    BY <1>2, <2>1 DEF Inside, Record
  <2> QED
    BY <2>2, <2>3
<1>3. CASE Kind(t) = "union"
  <2>1. Types[t].arms \in Seq(Type)
    BY <1>3, NestedAssumption DEF Type
  <2>2. \A i \in DOMAIN Types[t].arms : Types[t].arms[i] \in Type
    BY <2>1, ElementOfSeq, LenProperties
  <2>3. Inside(t) = {Types[t].arms[i] : i \in DOMAIN Types[t].arms}
    BY <1>3 DEF Inside, Record
  <2> QED
    BY <2>2, <2>3
<1>4. CASE Kind(t) # "array" /\ Kind(t) \notin Record /\ Kind(t) # "union"
  BY <1>4 DEF Inside, Record
<1> QED
  BY <1>1, <1>2, <1>3, <1>4

LEMMA EveryType ==
  ASSUME NEW S, \A t \in Type : Inside(t) \subseteq S => t \in S
  PROVE  \A t \in Type : t \in S
<1> DEFINE T == {t \in Type : t \notin S}
<1>1. ASSUME T # {}
      PROVE  FALSE
  <2>1. T \in SUBSET DOMAIN Types
    BY DEF Type
  <2>2. PICK t \in T : Inside(t) \cap T = {}
    BY <1>1, <2>1, NestedAssumption
  <2>3. Inside(t) \subseteq Type /\ t \in Type /\ t \notin S
    BY <2>2, InsideTypes
  <2>4. Inside(t) \subseteq S
    BY <2>2, <2>3
  <2> QED
    BY <2>3, <2>4
<1> QED
  BY <1>1

\* Unions: the discriminant, what is live, the member.
LEMMA UnionIs ==
  ASSUME NEW w, NEW f, NEW m
  PROVE  Disc(Union(w, f, m)) = w /\ Live(Union(w, f, m)) = f /\ Member(Union(w, f, m)) = m
BY DEF Union, Disc, Live, Member

LEMMA NoMemberIs ==
  ASSUME NEW w
  PROVE  Disc(NoMember(w)) = w /\ Live(NoMember(w)) = 0 /\ Member(NoMember(w)) = << >>
BY DEF Union, NoMember, Disc, Live, Member

LEMMA UnionExcept ==
  ASSUME NEW w, NEW f, NEW m, NEW x
  PROVE  [Union(w, f, m) EXCEPT ![1] = <<x>>] = Union(x, f, m)
BY DEF Union

LEMMA MemberExcept ==
  ASSUME NEW w, NEW f, NEW m, NEW x
  PROVE  [Union(w, f, m) EXCEPT ![3] = x] = Union(w, f, x)
BY DEF Union

LEMMA NoMemberExcept ==
  ASSUME NEW w, NEW x
  PROVE  [NoMember(w) EXCEPT ![1] = <<x>>] = NoMember(x)
BY DEF Union, NoMember

\* A union, with the member that w selects or without one.
UnionObject(t, u, w) ==
  /\ w \in U32 /\ Disc(u) = w
  /\ \/ /\ Selects(t, w) /\ Live(u) = FieldNo(t, w) /\ Live(u) > 0
        /\ Member(u) \in Objects[Arm(t, FieldNo(t, w))]
        /\ u = Union(w, FieldNo(t, w), Member(u))
     \/ ~Selects(t, w) /\ Live(u) = 0 /\ Member(u) = << >> /\ u = NoMember(w)

LEMMA UnionObjects ==
  ASSUME NEW t \in Type, Kind(t) = "union", NEW u
  PROVE  u \in Objects[t] <=> UnionObject(t, u, Disc(u))
<1>1. ASSUME u \in Objects[t]
      PROVE  UnionObject(t, u, Disc(u))
  <2>1. Selected(Objects, t, u)
    BY <1>1, ObjectIs
  <2>2. CASE \E w \in U32 : /\ Selects(t, w)
                            /\ \E m \in Objects[Arm(t, FieldNo(t, w))] : u = Union(w, FieldNo(t, w), m)
    <3>1. PICK w \in U32 : /\ Selects(t, w)
                           /\ \E m \in Objects[Arm(t, FieldNo(t, w))] : u = Union(w, FieldNo(t, w), m)
      BY <2>2
    <3>2. PICK m \in Objects[Arm(t, FieldNo(t, w))] : u = Union(w, FieldNo(t, w), m)
      BY <3>1
    <3>3. Disc(u) = w /\ Live(u) = FieldNo(t, w) /\ Member(u) = m
      BY <3>2, UnionIs, Zenon
    <3>4. FieldNo(t, w) > 0
      BY <3>1 DEF Selects
    <3> QED
      BY <3>1, <3>2, <3>3, <3>4, Zenon DEF UnionObject
  <2>3. CASE \E w \in U32 : ~Selects(t, w) /\ u = NoMember(w)
    <3>1. PICK w \in U32 : ~Selects(t, w) /\ u = NoMember(w)
      BY <2>3
    <3>2. Disc(u) = w /\ Live(u) = 0 /\ Member(u) = << >>
      BY <3>1, NoMemberIs, Zenon
    <3> QED
      BY <3>1, <3>2, Zenon DEF UnionObject
  <2> QED
    BY <2>1, <2>2, <2>3, Zenon DEF Selected
<1>2. ASSUME UnionObject(t, u, Disc(u))
      PROVE  u \in Objects[t]
  <2>1. Selected(Objects, t, u)
    BY <1>2, Zenon DEF UnionObject, Selected
  <2> QED
    BY <2>1, ObjectIs
<1> QED
  BY <1>1, <1>2

\* The constructor, and the change of the discriminant.
LEMMA UnionOfObject ==
  ASSUME NEW t \in Type, Kind(t) = "union", NEW w \in U32,
         Selects(t, w) => DefaultPart(Arm(t, FieldNo(t, w))) \in Objects[Arm(t, FieldNo(t, w))]
  PROVE  UnionOf(t, w) \in Objects[t] /\ Disc(UnionOf(t, w)) = w
<1>1. CASE Selects(t, w)
  <2> DEFINE m == DefaultPart(Arm(t, FieldNo(t, w)))
  <2>1. UnionOf(t, w) = Union(w, FieldNo(t, w), m) /\ FieldNo(t, w) > 0
    BY <1>1 DEF UnionOf, Selects
  <2>2. m \in Objects[Arm(t, FieldNo(t, w))]
    BY <1>1
  <2> HIDE DEF m
  <2>3. /\ Disc(UnionOf(t, w)) = w /\ Live(UnionOf(t, w)) = FieldNo(t, w)
        /\ Member(UnionOf(t, w)) = m
    BY <2>1, UnionIs
  <2>4. UnionObject(t, UnionOf(t, w), w)
    BY <1>1, <2>1, <2>2, <2>3, Zenon DEF UnionObject
  <2> QED
    BY <2>3, <2>4, UnionObjects, Zenon
<1>2. CASE ~Selects(t, w)
  <2>1. UnionOf(t, w) = NoMember(w)
    BY <1>2 DEF UnionOf, Selects
  <2>3. /\ Disc(UnionOf(t, w)) = w /\ Live(UnionOf(t, w)) = 0 /\ Member(UnionOf(t, w)) = << >>
    BY <2>1, NoMemberIs, Zenon
  <2>4. UnionObject(t, UnionOf(t, w), w)
    BY <1>2, <2>1, <2>3, Zenon DEF UnionObject
  <2> QED
    BY <2>3, <2>4, UnionObjects, Zenon
<1> QED
  BY <1>1, <1>2

LEMMA DefaultLeaf ==
  ASSUME NEW t \in Type, Kind(t) \in Leaf
  PROVE  Default(t) \in LeafValues(t)
<1>1. CASE Kind(t) = "bool"
  BY <1>1 DEF Default, LeafValues, Variable, Record
<1>2. CASE Kind(t) \in {"u32", "enum"}
  <2>1. 0 \in U32
    BY SMT DEF U32
  <2> QED
    BY <1>2, <2>1 DEF Default, LeafValues, Variable, Record
<1>3. CASE Kind(t) = "u64"
  <2>1. 0 \in U32
    BY SMT DEF U32
  <2> QED
    BY <1>3, <2>1 DEF Default, LeafValues, Variable, Record
<1>4. CASE Kind(t) = "fixed"
  <2>1. Default(t) = Zeros(Types[t].len)
    BY <1>4 DEF Default, Variable, Record
  <2> QED
    BY <1>4, <2>1 DEF LeafValues, Zeros, Octet
<1>5. CASE Kind(t) = "bytes"
  <2>1. Default(t) = << >>
    BY <1>5 DEF Default, Variable, Record
  <2>2. << >> \in Seq(Octet) /\ Len(<< >>) = 0 /\ 0 \in U32
    BY EmptySeq, SMT DEF U32
  <2>3. LeafValues(t) = {b \in Seq(Octet) : Len(b) \in U32}
    BY <1>5 DEF LeafValues
  <2> QED
    BY <2>1, <2>2, <2>3
<1> QED
  BY <1>1, <1>2, <1>3, <1>4, <1>5 DEF Leaf, Scalar, is_bytes

LEMMA DefaultParts ==
  ASSUME NEW t \in Type, Kind(t) = "array" \/ Kind(t) \in Record
  PROVE  /\ Tuple(Default(t)) /\ Counts(t, Len(Default(t)))
         /\ \A i \in 1..Len(Default(t)) : Default(t)[i] = DefaultPart(Component(t, i))
<1> DEFINE n == IF Kind(t) = "array" THEN Types[t].len ELSE Len(Types[t].fields)
           d == [i \in 1..n |-> DefaultPart(Component(t, i))]
<1>2. Counts(t, n) /\ n \in Nat
  <2>1. Kind(t) \in Record => Types[t].fields \in Seq(Type) /\ Kind(t) # "array"
    BY NestedAssumption DEF Type, Record
  <2>2. Kind(t) \in Record => Len(Types[t].fields) \in Nat
    BY <2>1, LenProperties
  <2>3. Kind(t) = "array" => Types[t].len \in Nat /\ Kind(t) \notin Record
    BY NestedAssumption DEF Type, Record
  <2> QED
    BY <2>1, <2>2, <2>3 DEF Counts, Record
<1>3. Default(t) = d
  <2>1. CASE Kind(t) = "array"
    <3>1. \A i : Component(t, i) = Types[t].elem
      BY <2>1 DEF Component, Record
    <3>2. Default(t) = [i \in 1..Types[t].len |-> DefaultPart(Types[t].elem)]
      BY <2>1 DEF Default, Variable, Record
    <3> QED
      BY <2>1, <3>1, <3>2, Zenon
  <2>2. CASE Kind(t) \in Record
    <3>1. \A i : Component(t, i) = Types[t].fields[i]
      BY <2>2 DEF Component
    <3>2. Default(t) = [i \in DOMAIN Types[t].fields |-> DefaultPart(Types[t].fields[i])]
      BY <2>2 DEF Default, Variable, Record
    <3>3. Types[t].fields \in Seq(Type) /\ Kind(t) # "array"
      BY <2>2, NestedAssumption DEF Type, Record
    <3>4. DOMAIN Types[t].fields = 1..n
      BY <3>3, LenProperties
    <3> QED
      BY <3>1, <3>2, <3>4, Zenon
  <2> QED
    BY <2>1, <2>2
<1> HIDE DEF n
<1>4. DOMAIN d = 1..n /\ \A i \in 1..n : d[i] = DefaultPart(Component(t, i))
  OBVIOUS
<1>5. d = [i \in 1..n |-> d[i]]
  OBVIOUS
<1> HIDE DEF d
<1>6. Tuple(d) /\ Len(d) = n
  BY <1>2, <1>4, <1>5, TupleIs
<1> QED
  BY <1>2, <1>3, <1>4, <1>6, Zenon

\* What is default constructed is a value.
LEMMA DefaultObjects ==
  ASSUME RecursiveTypes
  PROVE  \A t \in Type : Default(t) \in Objects[t]
<1> DEFINE S == {t \in Type : Default(t) \in Objects[t]}
<1>1. ASSUME NEW t \in Type, Inside(t) \subseteq S
      PROVE  t \in S
  <2>0. \A e \in Inside(t) : DefaultPart(e) \in Objects[e]
    <3> TAKE e \in Inside(t)
    <3>1. e \in Type /\ Default(e) \in Objects[e]
      BY <1>1
    <3> QED
      BY <3>1, Zenon DEF RecursiveTypes
  <2> HIDE DEF S
  <2>1. CASE Kind(t) \in Leaf
    <3>1. Default(t) \in LeafValues(t)
      BY <2>1, DefaultLeaf
    <3>2. Objects[t] = LeafValues(t)
      BY <2>1, ObjectIs
    <3> QED
      BY <3>1, <3>2 DEF S
  <2>2. CASE Kind(t) \in {"vector", "pointer"}
    <3>1. Default(t) = << >>
      BY <2>2 DEF Default, Variable, Record
    <3>2. HasParts(t)
      BY <2>2 DEF HasParts, Container
    <3>3. Tuple(<< >>) /\ Len(<< >>) = 0
      BY EmptySeq, SeqTuple
    <3>4. Counts(t, 0)
      BY <2>2, SMT DEF Counts, Record, U32
    <3>5. \A i \in 1..0 : FALSE
      OBVIOUS
    <3>6. Parts(Objects, t, << >>)
      BY <3>3, <3>4, <3>5, Zenon DEF Parts
    <3> QED
      BY <3>1, <3>2, <3>6, ObjectIs, Zenon DEF S
  <2>3. CASE Kind(t) = "array" \/ Kind(t) \in Record
    <3> DEFINE d == Default(t)
               n == Len(d)
    <3>1. HasParts(t)
      BY <2>3 DEF HasParts, Container
    <3>2. Tuple(d) /\ Counts(t, n) /\ \A i \in 1..n : d[i] = DefaultPart(Component(t, i))
      BY <2>3, DefaultParts
    <3> HIDE DEF d
    <3>7. \A i \in 1..n : d[i] \in Objects[Component(t, i)]
      <4> TAKE i \in 1..n
      <4>1. Component(t, i) \in Inside(t)
        BY <2>3, <3>2, InsideParts
      <4> QED
        BY <2>0, <3>2, <4>1, Zenon
    <3>8. Parts(Objects, t, d)
      BY <3>2, <3>7, Zenon DEF Parts
    <3> QED
      BY <3>1, <3>8, ObjectIs, Zenon DEF S, d
  <2>4. CASE Kind(t) = "union"
    <3>1. Default(t) = UnionOf(t, 0)
      BY <2>4 DEF Default, Variable, Record
    <3>2. 0 \in U32
      BY SMT DEF U32
    <3>3. Selects(t, 0) => DefaultPart(Arm(t, FieldNo(t, 0))) \in Objects[Arm(t, FieldNo(t, 0))]
      BY <2>0, <2>4, FieldsAre, Zenon
    <3> QED
      BY <2>4, <3>1, <3>2, <3>3, UnionOfObject, Zenon DEF S
  <2> QED
    BY <2>1, <2>2, <2>3, <2>4, Kinds DEF HasParts, Container
<1>2. \A t \in Type : t \in S
  <2> HIDE DEF S
  <2> QED
    BY <1>1, EveryType
<1> QED
  BY <1>2

LEMMA WithDiscObject ==
  ASSUME RecursiveTypes, NEW t \in Type, Kind(t) = "union", NEW u \in Objects[t], NEW w \in U32
  PROVE  WithDisc(t, u, w) \in Objects[t] /\ Disc(WithDisc(t, u, w)) = w
<1>1. UnionObject(t, u, Disc(u))
  BY UnionObjects
<1>2. CASE FieldNo(t, w) = FieldNo(t, Disc(u)) /\ Selects(t, w)
  <2>1. Selects(t, Disc(u))
    BY <1>2, Zenon DEF Selects
  <2> DEFINE m == Member(u)
             f == FieldNo(t, w)
             x == Union(w, f, m)
  <2>2. u = Union(Disc(u), f, m) /\ m \in Objects[Arm(t, f)]
    BY <1>1, <1>2, <2>1, Zenon DEF UnionObject
  <2>3. WithDisc(t, u, w) = [u EXCEPT ![1] = <<w>>]
    BY <1>2, Zenon DEF WithDisc
  <2> HIDE DEF m
  <2>4. WithDisc(t, u, w) = Union(w, f, m)
    <3> DEFINE d == Disc(u)
               g == f
    <3>1. u = Union(d, g, m) /\ WithDisc(t, u, w) = [u EXCEPT ![1] = <<w>>]
      BY <2>2, <2>3
    <3> HIDE DEF d, g
    <3>2. WithDisc(t, u, w) = Union(w, g, m)
      BY <3>1, UnionExcept
    <3> QED
      BY <3>2 DEF g
  <2>5. Disc(x) = w /\ Live(x) = f /\ Member(x) = m
    BY UnionIs, Zenon
  <2>6. f > 0
    BY <1>2 DEF Selects
  <2> HIDE DEF x
  <2>7. x = Union(w, f, Member(x))
    BY <2>5, Zenon DEF x
  <2>8. UnionObject(t, x, w)
    BY <1>2, <2>2, <2>5, <2>6, <2>7, Zenon DEF UnionObject
  <2> QED
    BY <2>4, <2>5, <2>8, UnionObjects, Zenon DEF x
<1>3. CASE FieldNo(t, w) = FieldNo(t, Disc(u)) /\ ~Selects(t, w)
  <2>1. ~Selects(t, Disc(u))
    BY <1>3, Zenon DEF Selects
  <2>2. u = NoMember(Disc(u))
    BY <1>1, <2>1, Zenon DEF UnionObject
  <2>3. WithDisc(t, u, w) = [u EXCEPT ![1] = <<w>>]
    BY <1>3, Zenon DEF WithDisc
  <2>4. WithDisc(t, u, w) = NoMember(w)
    BY <2>2, <2>3, NoMemberExcept, Zenon
  <2>5. /\ Disc(NoMember(w)) = w /\ Live(NoMember(w)) = 0 /\ Member(NoMember(w)) = << >>
    BY NoMemberIs, Zenon
  <2>6. UnionObject(t, NoMember(w), w)
    BY <1>3, <2>5, Zenon DEF UnionObject
  <2> QED
    BY <2>4, <2>5, <2>6, UnionObjects, Zenon
<1>4. CASE FieldNo(t, w) # FieldNo(t, Disc(u))
  <2>1. WithDisc(t, u, w) = UnionOf(t, w)
    BY <1>4, Zenon DEF WithDisc
  <2> DEFINE e == Arm(t, FieldNo(t, w))
  <2>2. Selects(t, w) => e \in Type
    BY FieldsAre
  <2>3. Selects(t, w) => DefaultPart(e) = Default(e) /\ Default(e) \in Objects[e]
    BY <2>2, DefaultObjects, Zenon DEF RecursiveTypes
  <2> QED
    BY <2>1, <2>3, UnionOfObject, Zenon
<1> QED
  BY <1>2, <1>3, <1>4

----------------------------------------------------------------------------
(***************************************************************************)
(* Values, part by part.                                                   *)
(***************************************************************************)
ArmOf(t, u) == Arm(t, FieldNo(t, Disc(u)))

LEMMA ObjectParts ==
  ASSUME NEW t \in Type, HasParts(t), NEW v \in Objects[t]
  PROVE  /\ Tuple(v) /\ Len(v) \in Nat /\ DOMAIN v = 1..Len(v) /\ Counts(t, Len(v))
         /\ \A i \in 1..Len(v) : Component(t, i) \in Type /\ v[i] \in Objects[Component(t, i)]
<1>1. Parts(Objects, t, v)
  BY ObjectIs
<1>2. /\ Tuple(v) /\ Counts(t, Len(v))
      /\ \A i \in 1..Len(v) : v[i] \in Objects[Component(t, i)]
  BY <1>1, Zenon DEF Parts
<1>3. Len(v) \in Nat /\ DOMAIN v = 1..Len(v)
  BY <1>2, Zenon DEF Tuple
<1>4. \A i \in 1..Len(v) : Component(t, i) \in Type
  BY <1>2, PartTypes, Zenon
<1> QED
  BY <1>2, <1>3, <1>4, Zenon

\* A tuple of values is a value.
LEMMA MadeOfParts ==
  ASSUME NEW t \in Type, HasParts(t), NEW n, Counts(t, n), NEW d, DOMAIN d = 1..n,
         d = [i \in 1..n |-> d[i]], \A i \in 1..n : d[i] \in Objects[Component(t, i)]
  PROVE  d \in Objects[t] /\ Tuple(d) /\ Len(d) = n
<1>1. n \in Nat
  BY DEF Counts
<1>2. Tuple(d) /\ Len(d) = n
  BY <1>1, TupleIs
<1>3. Parts(Objects, t, d)
  BY <1>2, Zenon DEF Parts
<1> QED
  BY <1>2, <1>3, ObjectIs, Zenon

LEMMA EmptyObject ==
  ASSUME NEW t \in Type, Kind(t) \in Variable
  PROVE  << >> \in Objects[t] /\ Len(<< >>) = 0
<1>1. << >> \in Seq(Octet) /\ Len(<< >>) = 0 /\ 0 \in U32
  BY EmptySeq, SMT DEF U32
<1>2. CASE Kind(t) = "bytes"
  <2>1. Objects[t] = LeafValues(t)
    BY <1>2, ObjectIs DEF Leaf, is_bytes
  <2>2. LeafValues(t) = {b \in Seq(Octet) : Len(b) \in U32}
    BY <1>2 DEF LeafValues
  <2> QED
    BY <1>1, <2>1, <2>2
<1>3. CASE Kind(t) \in {"vector", "pointer"}
  <2>1. HasParts(t)
    BY <1>3 DEF HasParts, Container
  <2>2. Tuple(<< >>)
    BY <1>1, SeqTuple
  <2>3. Counts(t, 0)
    BY <1>1, <1>3, SMT DEF Counts, Record
  <2>4. \A i \in 1..0 : FALSE
    OBVIOUS
  <2>5. Parts(Objects, t, << >>)
    BY <1>1, <2>2, <2>3, <2>4, Zenon DEF Parts
  <2> QED
    BY <1>1, <2>1, <2>5, ObjectIs, Zenon
<1> QED
  BY <1>2, <1>3 DEF Variable

LEMMA PartReplaced ==
  ASSUME NEW t \in Type, HasParts(t), NEW v \in Objects[t], NEW i \in 1..Len(v),
         NEW x \in Objects[Component(t, i)]
  PROVE  /\ [v EXCEPT ![i] = x] \in Objects[t] /\ Len([v EXCEPT ![i] = x]) = Len(v)
         /\ [v EXCEPT ![i] = x][i] = x
         /\ \A j \in 1..Len(v) : j # i => [v EXCEPT ![i] = x][j] = v[j]
<1> DEFINE n == Len(v)
           d == [v EXCEPT ![i] = x]
<1>1. /\ DOMAIN v = 1..n /\ Counts(t, n) /\ v = [j \in 1..n |-> v[j]]
      /\ \A j \in 1..n : v[j] \in Objects[Component(t, j)]
  BY ObjectParts, Zenon DEF Tuple
<1> HIDE DEF n
<1>2. i \in 1..n
  BY DEF n
<1>3. /\ DOMAIN d = 1..n /\ d[i] = x /\ d = [j \in 1..n |-> d[j]]
      /\ \A j \in 1..n : j # i => d[j] = v[j]
  BY <1>1, <1>2
<1> HIDE DEF d
<1>4. \A j \in 1..n : d[j] \in Objects[Component(t, j)]
  <2> TAKE j \in 1..n
  <2>1. CASE j = i
    BY <1>3, <2>1, Zenon
  <2>2. CASE j # i
    BY <1>1, <1>3, <2>2, Zenon
  <2> QED
    BY <2>1, <2>2
<1>5. d \in Objects[t] /\ Len(d) = n
  BY <1>1, <1>3, <1>4, MadeOfParts
<1> QED
  BY <1>3, <1>5 DEF d, n

\* A union, part by part.
LEMMA ObjectMember ==
  ASSUME NEW t \in Type, Kind(t) = "union", NEW u \in Objects[t]
  PROVE  /\ Disc(u) \in U32 /\ u[1] = <<Disc(u)>>
         /\ Selects(t, Disc(u)) <=> Live(u) > 0
         /\ Selects(t, Disc(u)) => /\ Live(u) = FieldNo(t, Disc(u)) /\ ArmOf(t, u) \in Type
                                   /\ ArmOf(t, u) = Arm(t, Live(u))
                                   /\ Member(u) \in Objects[ArmOf(t, u)]
                                   /\ u = Union(Disc(u), Live(u), Member(u))
         /\ ~Selects(t, Disc(u)) => Live(u) = 0 /\ Member(u) = << >> /\ u = NoMember(Disc(u))
<1> DEFINE w == Disc(u)
<1>1. UnionObject(t, u, w)
  BY UnionObjects
<1>2. Selects(t, w) => Arm(t, FieldNo(t, w)) \in Type
  BY FieldsAre
<1>3. CASE Selects(t, w)
  <2>1. /\ w \in U32 /\ Live(u) = FieldNo(t, w) /\ Live(u) > 0
        /\ Member(u) \in Objects[Arm(t, FieldNo(t, w))]
        /\ u = Union(w, FieldNo(t, w), Member(u))
    BY <1>1, <1>3, Zenon DEF UnionObject
  <2>2. Union(w, FieldNo(t, w), Member(u))[1] = <<w>>
    BY DEF Union
  <2>3. u[1] = <<w>>
    BY <2>1, <2>2, Zenon
  <2> QED
    BY <1>2, <1>3, <2>1, <2>3, Zenon DEF ArmOf
<1>4. CASE ~Selects(t, w)
  <2>1. w \in U32 /\ Live(u) = 0 /\ Member(u) = << >> /\ u = NoMember(w)
    BY <1>1, <1>4, Zenon DEF UnionObject
  <2>2. NoMember(w)[1] = <<w>>
    BY DEF NoMember, Union
  <2>3. u[1] = <<w>> /\ ~(Live(u) > 0)
    BY <2>1, <2>2
  <2> QED
    BY <1>4, <2>1, <2>3, Zenon
<1> QED
  BY <1>3, <1>4

LEMMA MadeUnion ==
  ASSUME NEW t \in Type, Kind(t) = "union", NEW w \in U32, Selects(t, w),
         NEW m \in Objects[Arm(t, FieldNo(t, w))]
  PROVE  Union(w, FieldNo(t, w), m) \in Objects[t]
<1> DEFINE f == FieldNo(t, w)
           u == Union(w, f, m)
<1>1. Disc(u) = w /\ Live(u) = f /\ Member(u) = m
  BY UnionIs
<1>2. f > 0
  BY DEF Selects
<1> HIDE DEF f
<1>3. u = Union(w, f, Member(u)) /\ m \in Objects[Arm(t, f)]
  BY <1>1, Zenon DEF f
<1> HIDE DEF u
<1>4. UnionObject(t, u, Disc(u))
  BY <1>1, <1>2, <1>3, Zenon DEF UnionObject, f
<1>5. u \in Objects[t]
  BY <1>4, UnionObjects
<1> QED
  BY <1>5 DEF u, f

LEMMA MadeNoMember ==
  ASSUME NEW t \in Type, Kind(t) = "union", NEW w \in U32, ~Selects(t, w)
  PROVE  NoMember(w) \in Objects[t]
<1>1. UnionObject(t, NoMember(w), Disc(NoMember(w)))
  BY NoMemberIs, Zenon DEF UnionObject
<1> QED
  BY <1>1, UnionObjects

\* Another member.
LEMMA MemberReplaced ==
  ASSUME NEW t \in Type, Kind(t) = "union", NEW u \in Objects[t], Live(u) > 0,
         NEW x \in Objects[Arm(t, Live(u))]
  PROVE  /\ [u EXCEPT ![3] = x] = Union(Disc(u), Live(u), x)
         /\ Union(Disc(u), Live(u), x) \in Objects[t]
         /\ [u EXCEPT ![3] = x] \in Objects[t]
<1>1. /\ Disc(u) \in U32 /\ Selects(t, Disc(u)) /\ Live(u) = FieldNo(t, Disc(u))
      /\ u = Union(Disc(u), Live(u), Member(u))
  BY ObjectMember, Zenon
<1>2. Union(Disc(u), Live(u), x) \in Objects[t]
  BY <1>1, MadeUnion, Zenon
<1> DEFINE w == Disc(u)
           f == Live(u)
           m == Member(u)
<1>3. u = Union(w, f, m)
  BY <1>1
<1> HIDE DEF w, f, m
<1>4. [u EXCEPT ![3] = x] = Union(w, f, x)
  BY <1>3, MemberExcept
<1> QED
  BY <1>2, <1>4 DEF w, f

\* Induction over values: what is true of a value when it is true of its parts.
PartsIn(P, t, v) ==
  /\ HasParts(t) => \A i \in 1..Len(v) : v[i] \in P[Component(t, i)]
  /\ Kind(t) = "union" /\ Selects(t, Disc(v)) => Member(v) \in P[ArmOf(t, v)]

LEMMA ByParts ==
  ASSUME NEW P, \A t \in Type : \A v \in Objects[t] : PartsIn(P, t, v) => v \in P[t]
  PROVE  \A t \in Type : \A v \in Objects[t] : v \in P[t]
<1> DEFINE Q == [t \in Type |-> Objects[t] \cap P[t]]
<1>1. ASSUME NEW t \in Type, NEW v \in Shapes(Q, t)
      PROVE  v \in P[t]
  <2>1. \A e \in Type : Q[e] \subseteq Objects[e]
    OBVIOUS
  <2>2. Shapes(Q, t) \subseteq Shapes(Objects, t)
    <3> HIDE DEF Q
    <3> QED
      BY <2>1, ShapesGrow
  <2>3. v \in Objects[t]
    BY <2>2, ObjectsAre
  <2>4. \A e \in Type : \A x \in Q[e] : x \in P[e]
    OBVIOUS
  <2> HIDE DEF Q
  <2>5. ASSUME HasParts(t)
        PROVE  \A i \in 1..Len(v) : v[i] \in P[Component(t, i)]
    <3>1. Parts(Q, t, v)
      BY <2>5, ShapeIs, Zenon
    <3>2. \A i \in 1..Len(v) : v[i] \in Q[Component(t, i)]
      BY <3>1, Zenon DEF Parts
    <3>3. \A i \in 1..Len(v) : Component(t, i) \in Type
      BY <2>3, <2>5, ObjectParts, Zenon
    <3> QED
      BY <2>4, <3>2, <3>3, Zenon
  <2>6. ASSUME Kind(t) = "union", Selects(t, Disc(v))
        PROVE  Member(v) \in P[ArmOf(t, v)]
    <3>1. Selected(Q, t, v)
      BY <2>6, ShapeIs, Zenon
    <3>2. ASSUME NEW w \in U32, Selects(t, w), NEW m \in Q[Arm(t, FieldNo(t, w))],
                 v = Union(w, FieldNo(t, w), m)
          PROVE  Member(v) \in P[ArmOf(t, v)]
      <4>1. Disc(v) = w /\ Member(v) = m
        BY <3>2, UnionIs
      <4>2. Arm(t, FieldNo(t, w)) \in Type
        BY <2>6, <3>2, FieldsAre
      <4> QED
        BY <2>4, <4>1, <4>2, Zenon DEF ArmOf
    <3>3. ASSUME NEW w \in U32, ~Selects(t, w), v = NoMember(w)
          PROVE  FALSE
      <4>1. Disc(v) = w
        BY <3>3, NoMemberIs
      <4> QED
        BY <2>6, <3>3, <4>1, Zenon
    <3> QED
      BY <3>1, <3>2, <3>3, Zenon DEF Selected
  <2>7. PartsIn(P, t, v)
    BY <2>5, <2>6, Zenon DEF PartsIn
  <2> QED
    BY <2>3, <2>7
<1>2. \A t \in Type : Shapes([e \in Type |-> Objects[e] \cap P[e]], t) \subseteq P[t]
  BY <1>1
<1>3. \A t \in Type : Objects[t] \subseteq P[t]
  BY <1>2, EveryObject
<1> QED
  BY <1>3

\* In a value, every member that a discriminant selects is the one that is live.
LEMMA AliveObjects ==
  ASSUME RecursiveAlive, NEW torn \in BOOLEAN
  PROVE  \A t \in Type : \A v \in Objects[t] : IsAlive(t, v, torn)
<1> DEFINE P == [t \in Type |-> {v \in Objects[t] : IsAlive(t, v, torn)}]
<1>1. ASSUME NEW t \in Type, NEW v \in Objects[t], PartsIn(P, t, v)
      PROVE  v \in P[t]
  <2>0. \A e \in Type : \A x \in P[e] : AlivePart(e, x, torn)
    BY Zenon DEF RecursiveAlive
  <2>1. CASE Kind(t) = "union"
    <3> DEFINE f == FieldNo(t, Disc(v))
    <3>1. CASE Selects(t, Disc(v))
      <4>1. Live(v) = f /\ ArmOf(t, v) \in Type /\ f > 0
        BY <2>1, <3>1, ObjectMember, Zenon DEF Selects
      <4>2. Member(v) \in P[ArmOf(t, v)]
        BY <1>1, <2>1, <3>1, Zenon DEF PartsIn
      <4>3. AlivePart(Arm(t, f), Member(v), torn)
        BY <2>0, <4>1, <4>2, Zenon DEF ArmOf
      <4>4. IsAlive(t, v, torn)
        BY <2>1, <4>1, <4>3, Zenon DEF IsAlive
      <4> QED
        BY <4>4
    <3>2. CASE ~Selects(t, Disc(v))
      <4>1. Live(v) = 0 /\ Member(v) = << >> /\ ~(f > 0)
        BY <2>1, <3>2, ObjectMember, Zenon DEF Selects
      <4>2. IsAlive(t, v, torn)
        BY <2>1, <4>1, Zenon DEF IsAlive
      <4> QED
        BY <4>2
    <3> QED
      BY <3>1, <3>2
  <2>2. CASE HasParts(t)
    <3>1. Kind(t) \in Nested /\ Kind(t) # "union"
      BY <2>2, Kinds, Zenon
    <3>2. DOMAIN v = 1..Len(v) /\ \A i \in 1..Len(v) : Component(t, i) \in Type
      BY <2>2, ObjectParts, Zenon
    <3>3. \A i \in 1..Len(v) : v[i] \in P[Component(t, i)]
      BY <1>1, <2>2, Zenon DEF PartsIn
    <3> HIDE DEF P
    <3>4. \A i \in DOMAIN v : AlivePart(Component(t, i), v[i], torn)
      BY <2>0, <3>2, <3>3, Zenon
    <3>5. IsAlive(t, v, torn)
      BY <3>1, <3>4, Zenon DEF IsAlive
    <3> QED
      BY <3>5 DEF P
  <2>3. CASE Kind(t) \in Leaf
    <3>1. Kind(t) # "union" /\ Kind(t) \notin Nested
      BY <2>3, Kinds, Zenon
    <3>2. v \in LeafValues(t)
      BY <2>3, ObjectIs
    <3>3. CASE Kind(t) = "fixed"
      <4>1. v \in [1..Types[t].len -> Octet] /\ Types[t].len \in Nat
        BY <3>2, <3>3, TypesAssumption DEF LeafValues, Type
      <4>2. Len(v) = Types[t].len
        BY <4>1, TupleIs
      <4> QED
        BY <3>1, <3>3, <4>2 DEF IsAlive
    <3>4. CASE Kind(t) # "fixed"
      <4>1. \A i \in DOMAIN v : v[i] \in Nat
        <5>1. CASE Kind(t) = "bytes"
          <6>1. v \in Seq(Octet)
            BY <3>2, <5>1 DEF LeafValues
          <6>2. \A i \in DOMAIN v : v[i] \in Octet
            BY <6>1, ElementOfSeq, LenProperties
          <6> QED
            BY <6>2 DEF Octet
        <5>2. CASE Kind(t) = "u64"
          <6>1. PICK h \in U32, l \in U32 : v = <<h, l>>
            BY <3>2, <5>2 DEF LeafValues
          <6>2. h \in Nat /\ l \in Nat
            BY SMT DEF U32
          <6> QED
            BY <6>1, <6>2
        <5>3. CASE Kind(t) = "bool"
          BY <3>2, <5>3 DEF LeafValues
        <5>4. CASE Kind(t) \in {"u32", "enum"}
          <6>1. PICK n \in U32 : v = <<n>>
            BY <3>2, <5>4 DEF LeafValues
          <6>2. n \in Nat
            BY SMT DEF U32
          <6> QED
            BY <6>1, <6>2
        <5> QED
          BY <2>3, <3>4, <5>1, <5>2, <5>3, <5>4 DEF Leaf, Scalar, is_bytes
      <4> QED
        BY <3>1, <3>4, <4>1 DEF IsAlive
    <3> QED
      BY <3>3, <3>4
  <2> QED
    BY <2>1, <2>2, <2>3, Kinds
<1>2. \A t \in Type : \A v \in Objects[t] : v \in P[t]
  <2> HIDE DEF P
  <2> QED
    BY <1>1, ByParts
<1> QED
  BY <1>2

\* What a move leaves behind is a value.
LEMMA MovedObjects ==
  ASSUME RecursiveValues
  PROVE  \A t \in Type : \A v \in Objects[t] : MovedFrom(t, v) \in Objects[t]
<1> DEFINE P == [t \in Type |-> {v \in Objects[t] : MovedFrom(t, v) \in Objects[t]}]
<1>1. ASSUME NEW t \in Type, NEW v \in Objects[t], PartsIn(P, t, v)
      PROVE  v \in P[t]
  <2>0. \A e \in Type : \A x \in P[e] : MovedPart(e, x) \in Objects[e]
    BY Zenon DEF RecursiveValues
  <2>1. CASE Kind(t) \in Variable
    <3>1. MovedFrom(t, v) = << >>
      BY <2>1 DEF MovedFrom
    <3> QED
      BY <2>1, <3>1, EmptyObject
  <2>2. CASE Kind(t) = "union"
    <3>0. Kind(t) \notin Variable
      BY <2>2 DEF Variable
    <3>1. CASE Selects(t, Disc(v))
      <4>1. Live(v) > 0 /\ ArmOf(t, v) \in Type /\ ArmOf(t, v) = Arm(t, Live(v))
        BY <2>2, <3>1, ObjectMember, Zenon
      <4>2. Member(v) \in P[ArmOf(t, v)]
        BY <1>1, <2>2, <3>1, Zenon DEF PartsIn
      <4> DEFINE x == MovedPart(Arm(t, Live(v)), Member(v))
      <4>3. x \in Objects[Arm(t, Live(v))]
        BY <2>0, <4>1, <4>2, Zenon
      <4>4. MovedFrom(t, v) = [v EXCEPT ![3] = x]
        BY <2>2, <3>0, <4>1 DEF MovedFrom, Member
      <4> HIDE DEF x
      <4>5. [v EXCEPT ![3] = x] \in Objects[t]
        BY <2>2, <4>1, <4>3, MemberReplaced, Zenon
      <4> QED
        BY <4>4, <4>5
    <3>2. CASE ~Selects(t, Disc(v))
      <4>1. ~(Live(v) > 0)
        BY <2>2, <3>2, ObjectMember, Zenon
      <4>2. MovedFrom(t, v) = v
        BY <2>2, <3>0, <4>1 DEF MovedFrom
      <4> QED
        BY <4>2
    <3> QED
      BY <3>1, <3>2
  <2>3. CASE Kind(t) \in Record
    <3>1. Kind(t) \notin Variable /\ Kind(t) # "union" /\ HasParts(t)
      BY <2>3 DEF Record, Variable, HasParts
    <3>2. DOMAIN v = 1..Len(v) /\ Counts(t, Len(v)) /\ \A i \in 1..Len(v) : Component(t, i) \in Type
      BY <3>1, ObjectParts, Zenon
    <3>3. \A i \in 1..Len(v) : v[i] \in P[Component(t, i)]
      BY <1>1, <3>1, Zenon DEF PartsIn
    <3> HIDE DEF P
    <3> DEFINE n == Len(v)
               d == [i \in DOMAIN v |-> MovedPart(Component(t, i), v[i])]
    <3>4. \A i \in 1..n : MovedPart(Component(t, i), v[i]) \in Objects[Component(t, i)]
      BY <2>0, <3>2, <3>3, Zenon
    <3>5. MovedFrom(t, v) = d
      BY <2>3, <3>1, Zenon DEF MovedFrom
    <3>6. DOMAIN d = 1..n /\ \A i \in 1..n : d[i] = MovedPart(Component(t, i), v[i])
      BY <3>2
    <3>7. d = [i \in 1..n |-> d[i]]
      BY <3>2
    <3> HIDE DEF d
    <3>8. \A i \in 1..n : d[i] \in Objects[Component(t, i)]
      BY <3>4, <3>6, Zenon
    <3>9. d \in Objects[t]
      BY <3>1, <3>2, <3>6, <3>7, <3>8, MadeOfParts
    <3> QED
      BY <3>5, <3>9 DEF P
  <2>4. CASE (Kind(t) \in Leaf \/ Kind(t) = "array") /\ Kind(t) \notin Variable
    <3>1. Kind(t) # "union" /\ Kind(t) \notin Record
      BY <2>4 DEF Leaf, Scalar, is_bytes, Record
    <3>2. MovedFrom(t, v) = v
      BY <2>4, <3>1 DEF MovedFrom
    <3> QED
      BY <3>2
  <2>5. HasParts(t) => Kind(t) \in Variable \cup Record \/ Kind(t) = "array"
    BY DEF HasParts, Container, Record, Variable
  <2> QED
    BY <2>1, <2>2, <2>3, <2>4, <2>5, Kinds
<1>2. \A t \in Type : \A v \in Objects[t] : v \in P[t]
  <2> HIDE DEF P
  <2> QED
    BY <1>1, ByParts
<1> QED
  BY <1>2

----------------------------------------------------------------------------
(***************************************************************************)
(* Copies: a copy that finishes is equal to its source, and one that throws*)
(* leaves a value of the type, or one in which a union lost its member.    *)
(***************************************************************************)
LEMMA SumIsNat ==
  ASSUME NEW s, Len(s) \in Nat, \A i \in 1..Len(s) : s[i] \in Nat
  PROVE  Sum(s) \in Nat
<1> DEFINE n == Len(s)
           D == [i \in Nat |-> Nat]
<1>1. PICK F : SumRun(F, s) /\ Sum(s) = F[n]
  BY SumRuns
<1>2. F[0] = 0 /\ \A i \in 1..n : F[i] = F[i - 1] + s[i]
  BY <1>1, Zenon DEF SumRun
<1>3. n \in Nat
  OBVIOUS
<1> HIDE DEF n
<1>4. \A i \in 1..n : F[i - 1] \in D[i - 1] => F[i] \in D[i]
  <2> TAKE i \in 1..n
  <2>1. i \in Nat /\ i - 1 \in Nat
    BY <1>3
  <2>2. s[i] \in Nat /\ F[i] = F[i - 1] + s[i]
    BY <1>2 DEF n
  <2> QED
    BY <2>1, <2>2
<1>5. F[0] \in D[0]
  BY <1>2
<1>6. D[n] = Nat
  BY <1>3
<1> HIDE DEF D
<1>7. \A i \in 0..n : F[i] \in D[i]
  BY <1>3, <1>4, <1>5, RunKeeps
<1>8. F[n] \in D[n]
  BY <1>3, <1>7
<1> QED
  BY <1>1, <1>6, <1>8

LEMMA AllocationsNat ==
  ASSUME RecursiveValues
  PROVE  \A t \in Type : \A v \in Objects[t] : Allocations(t, v) \in Nat
<1> DEFINE P == [t \in Type |-> {v \in Objects[t] : Allocations(t, v) \in Nat}]
<1>0. \A n \in Nat : Sign(n) \in Nat
  BY DEF Sign
<1>1. ASSUME NEW t \in Type, NEW v \in Objects[t], PartsIn(P, t, v)
      PROVE  v \in P[t]
  <2>0. \A e \in Type : \A x \in P[e] : AllocationsPart(e, x) \in Nat
    BY Zenon DEF RecursiveValues
  <2>1. CASE Kind(t) = "bytes"
    <3>1. v \in Seq(Octet)
      <4>1. Objects[t] = LeafValues(t)
        BY <2>1, ObjectIs DEF Leaf, is_bytes
      <4>2. LeafValues(t) = {b \in Seq(Octet) : Len(b) \in U32}
        BY <2>1 DEF LeafValues
      <4> QED
        BY <4>1, <4>2
    <3>2. Allocations(t, v) = Sign(Len(v)) /\ Len(v) \in Nat
      BY <2>1, <3>1, LenProperties DEF Allocations
    <3> QED
      BY <1>0, <3>2
  <2>2. CASE Kind(t) = "union"
    <3>1. CASE Selects(t, Disc(v))
      <4>1. Live(v) > 0 /\ ArmOf(t, v) \in Type /\ ArmOf(t, v) = Arm(t, Live(v))
        BY <2>2, <3>1, ObjectMember, Zenon
      <4>2. Member(v) \in P[ArmOf(t, v)]
        BY <1>1, <2>2, <3>1, Zenon DEF PartsIn
      <4>4. Allocations(t, v) = AllocationsPart(Arm(t, Live(v)), Member(v))
        BY <2>2, <4>1 DEF Allocations
      <4> HIDE DEF P
      <4>5. Allocations(t, v) \in Nat
        BY <2>0, <4>1, <4>2, <4>4, Zenon
      <4> QED
        BY <4>5 DEF P
    <3>2. CASE ~Selects(t, Disc(v))
      <4>1. ~(Live(v) > 0)
        BY <2>2, <3>2, ObjectMember, Zenon
      <4>2. Allocations(t, v) = 0
        BY <2>2, <4>1 DEF Allocations
      <4> QED
        BY <4>2
    <3> QED
      BY <3>1, <3>2
  <2>3. CASE HasParts(t)
    <3>1. Kind(t) \in Nested /\ Kind(t) # "union" /\ Kind(t) # "bytes"
      BY <2>3, Kinds DEF HasParts, Container, Record
    <3>2. DOMAIN v = 1..Len(v) /\ Len(v) \in Nat /\ \A i \in 1..Len(v) : Component(t, i) \in Type
      BY <2>3, ObjectParts, Zenon
    <3>3. \A i \in 1..Len(v) : v[i] \in P[Component(t, i)]
      BY <1>1, <2>3, Zenon DEF PartsIn
    <3> HIDE DEF P
    <3> DEFINE n == Len(v)
               d == [i \in DOMAIN v |-> AllocationsPart(Component(t, i), v[i])]
               own == IF Kind(t) \in Variable THEN Sign(Len(v)) ELSE 0
    <3>4. \A i \in 1..n : AllocationsPart(Component(t, i), v[i]) \in Nat
      BY <2>0, <3>2, <3>3, Zenon
    <3>5. Allocations(t, v) = own + Sum(d)
      BY <3>1, Zenon DEF Allocations
    <3>6. DOMAIN d = 1..n /\ \A i \in 1..n : d[i] = AllocationsPart(Component(t, i), v[i])
      BY <3>2
    <3>7. d = [i \in 1..n |-> d[i]]
      BY <3>2
    <3>8. n \in Nat
      BY <3>2
    <3>9. own \in Nat
      BY <1>0, <3>8
    <3> HIDE DEF d, n, own
    <3>10. Len(d) = n
      BY <3>6, <3>7, <3>8, TupleIs
    <3>11. Sum(d) \in Nat
      BY <3>4, <3>6, <3>8, <3>10, SumIsNat
    <3>12. Allocations(t, v) \in Nat
      BY <3>5, <3>9, <3>11
    <3> QED
      BY <3>12 DEF P
  <2>4. CASE Kind(t) \in Leaf /\ Kind(t) # "bytes"
    <3>1. Kind(t) # "union" /\ Kind(t) \notin Nested
      BY <2>4, Kinds, Zenon
    <3>2. Allocations(t, v) = 0
      BY <2>4, <3>1 DEF Allocations
    <3> QED
      BY <3>2
  <2> QED
    BY <2>1, <2>2, <2>3, <2>4, Kinds
<1>2. \A t \in Type : \A v \in Objects[t] : v \in P[t]
  <2> HIDE DEF P
  <2> QED
    BY <1>1, ByParts
<1> QED
  BY <1>2

\* What a copy that ran out of memory may leave: a union that torn allows, at any depth.
Wreck(t, v) == IsAlive(t, v, TRUE) /\ ~IsAlive(t, v, FALSE)
Remains(t, v) == v \in Objects[t] \/ Wreck(t, v)

CopyShape(c) ==
  c = [v |-> c.v, spare |-> c.spare, ok |-> c.ok] /\ c.spare \in Nat /\ c.ok \in BOOLEAN
CopiesTo(t, source, c) ==
  CopyShape(c) /\ (c.ok => c.v = source) /\ (~c.ok => Remains(t, c.v))

LEMMA WreckedMember ==
  ASSUME RecursiveAlive, NEW t \in Type, Kind(t) = "union", NEW w \in U32, Selects(t, w),
         NEW m, Wreck(Arm(t, FieldNo(t, w)), m)
  PROVE  Wreck(t, Union(w, FieldNo(t, w), m))
<1> DEFINE f == FieldNo(t, w)
           e == Arm(t, f)
           u == Union(w, f, m)
<1>1. Disc(u) = w /\ Live(u) = f /\ Member(u) = m
  BY UnionIs, Zenon
<1>2. f > 0 /\ e \in Type
  BY FieldsAre DEF Selects
<1>3. AlivePart(e, m, TRUE) /\ ~AlivePart(e, m, FALSE)
  BY <1>2, Zenon DEF RecursiveAlive, Wreck
<1>4. FieldNo(t, Disc(u)) = f
  BY <1>1, Zenon
<1> HIDE DEF u, e, f
<1>5. Arm(t, f) = e
  BY DEF e
<1>6. IsAlive(t, u, TRUE)
  BY <1>1, <1>2, <1>3, <1>4, <1>5, Zenon DEF IsAlive
<1>7. ~IsAlive(t, u, FALSE)
  BY <1>1, <1>2, <1>3, <1>4, <1>5, Zenon DEF IsAlive
<1> QED
  BY <1>6, <1>7 DEF Wreck, u, f

LEMMA WreckedUnion ==
  ASSUME MaxCase \in U32, NEW t \in Type, Kind(t) = "union"
  PROVE  Remains(t, NoMember(MaxCase))
<1> DEFINE u == NoMember(MaxCase)
<1>1. CASE ~Selects(t, MaxCase)
  BY <1>1, MadeNoMember, Zenon DEF Remains
<1>2. CASE Selects(t, MaxCase)
  <2>1. Disc(u) = MaxCase /\ Live(u) = 0
    BY NoMemberIs, Zenon
  <2> DEFINE f == FieldNo(t, Disc(u))
  <2>2. f > 0 /\ Live(u) # f
    BY <1>2, <2>1 DEF Selects
  <2> HIDE DEF f
  <2>3. IsAlive(t, u, TRUE)
    BY Zenon DEF IsAlive
  <2> HIDE DEF u
  <2>4. ~IsAlive(t, u, FALSE)
    BY <2>2, Zenon DEF IsAlive, f
  <2> QED
    BY <2>3, <2>4 DEF Remains, Wreck, u
<1> QED
  BY <1>1, <1>2

LEMMA WreckedPart ==
  ASSUME RecursiveAlive, NEW t \in Type, HasParts(t), NEW v \in Objects[t], NEW i \in 1..Len(v),
         NEW x, Wreck(Component(t, i), x)
  PROVE  Wreck(t, [v EXCEPT ![i] = x])
<1> DEFINE n == Len(v)
           d == [v EXCEPT ![i] = x]
<1>1. /\ DOMAIN v = 1..n
      /\ \A j \in 1..n : Component(t, j) \in Type /\ v[j] \in Objects[Component(t, j)]
  BY ObjectParts, Zenon
<1>2. Kind(t) \in Nested /\ Kind(t) # "union"
  BY Kinds, Zenon
<1> HIDE DEF n
<1>3. i \in 1..n
  BY DEF n
<1>4. DOMAIN d = 1..n /\ d[i] = x /\ \A j \in 1..n : j # i => d[j] = v[j]
  BY <1>1, <1>3
<1> HIDE DEF d
<1>5. AlivePart(Component(t, i), x, TRUE) /\ ~AlivePart(Component(t, i), x, FALSE)
  BY <1>1, <1>3, Zenon DEF RecursiveAlive, Wreck
<1>6. ASSUME NEW j \in 1..n
      PROVE  AlivePart(Component(t, j), d[j], TRUE)
  <2>1. CASE j = i
    BY <1>4, <1>5, <2>1, Zenon
  <2>2. CASE j # i
    <3>1. d[j] \in Objects[Component(t, j)] /\ Component(t, j) \in Type
      BY <1>1, <1>4, <2>2, Zenon
    <3>2. TRUE \in BOOLEAN
      OBVIOUS
    <3>3. IsAlive(Component(t, j), d[j], TRUE)
      BY <3>1, <3>2, AliveObjects, Zenon
    <3> QED
      BY <3>1, <3>2, <3>3, Zenon DEF RecursiveAlive
  <2> QED
    BY <2>1, <2>2
<1>7. IsAlive(t, d, TRUE)
  BY <1>2, <1>4, <1>6, Zenon DEF IsAlive
<1>8. ~IsAlive(t, d, FALSE)
  BY <1>2, <1>3, <1>4, <1>5, Zenon DEF IsAlive
<1> QED
  BY <1>7, <1>8 DEF Wreck, d

LEMMA CopyIs ==
  ASSUME NEW v, NEW spare
  PROVE  /\ Copied(v, spare).v = v /\ Copied(v, spare).spare = spare /\ Copied(v, spare).ok
         /\ Thrown(v).v = v /\ Thrown(v).spare = 0 /\ ~Thrown(v).ok
BY DEF Copied, Thrown

LEMMA CopiedIs ==
  ASSUME NEW t, NEW v, NEW spare \in Nat
  PROVE  CopiesTo(t, v, Copied(v, spare))
BY DEF CopiesTo, CopyShape, Copied

LEMMA ThrownIs ==
  ASSUME NEW t, NEW v, Remains(t, v), NEW source
  PROVE  CopiesTo(t, source, Thrown(v))
BY DEF CopiesTo, CopyShape, Thrown

\* Another value in a copy.
LEMMA CopySet ==
  ASSUME NEW c, CopyShape(c), NEW x
  PROVE  LET d == [c EXCEPT !.v = x] IN CopyShape(d) /\ d.v = x /\ d.ok = c.ok
<1> DEFINE a == c.v
           k == c.spare
           b == c.ok
<1>1. c = [v |-> a, spare |-> k, ok |-> b] /\ k \in Nat /\ b \in BOOLEAN
  BY Zenon DEF CopyShape
<1> HIDE DEF a, k, b
<1>2. [c EXCEPT !.v = x] = [v |-> x, spare |-> k, ok |-> b] /\ c.ok = b
  BY <1>1
<1> QED
  BY <1>1, <1>2 DEF CopyShape

LEMMA CopyMoved ==
  ASSUME NEW t, NEW source, NEW c, CopyShape(c), NEW x,
         c.ok => x = source, ~c.ok => Remains(t, x)
  PROVE  CopiesTo(t, source, [c EXCEPT !.v = x])
<1> DEFINE d == [c EXCEPT !.v = x]
<1>1. CopyShape(d) /\ d.v = x /\ d.ok = c.ok
  BY CopySet
<1> HIDE DEF d
<1>2. CopiesTo(t, source, d)
  BY <1>1, Zenon DEF CopiesTo
<1> QED
  BY <1>2 DEF d

LEMMA CopyOverCopies ==
  ASSUME RecursiveValues, NEW t \in Type, NEW v \in Objects[t], NEW source \in Objects[t],
         NEW spare \in Nat
  PROVE  CopiesTo(t, source, CopyOver(t, v, source, spare))
<1> DEFINE n == Allocations(t, source)
<1>1. n \in Nat
  BY AllocationsNat
<1>2. CopyOver(t, v, source, spare)
        = IF n <= spare THEN Copied(source, spare - n) ELSE Thrown(v)
  BY DEF CopyOver
<1> HIDE DEF n
<1>3. CASE n <= spare
  <2>1. spare - n \in Nat
    BY <1>1, <1>3
  <2> QED
    BY <1>2, <1>3, <2>1, CopiedIs
<1>4. CASE ~(n <= spare)
  BY <1>2, <1>4, ThrownIs DEF Remains
<1> QED
  BY <1>3, <1>4

\* The copy of a selected member into a place where nothing is.
LEMMA CopyOverNothing ==
  ASSUME RecursiveValues, NEW t \in Type, NEW v, NEW source \in Objects[t], NEW spare \in Nat,
         NEW c, c = CopyOver(t, v, source, spare)
  PROVE  c.ok \in BOOLEAN /\ c.spare \in Nat /\ (c.ok => c.v = source)
<1> DEFINE n == Allocations(t, source)
<1>1. n \in Nat
  BY AllocationsNat
<1>2. c = IF n <= spare THEN Copied(source, spare - n) ELSE Thrown(v)
  BY DEF CopyOver
<1> HIDE DEF n
<1>3. CASE n <= spare
  BY <1>1, <1>2, <1>3 DEF Copied
<1>4. CASE ~(n <= spare)
  BY <1>2, <1>4 DEF Thrown
<1> QED
  BY <1>3, <1>4

LEMMA ReplaceCopies ==
  ASSUME RecursiveValues, MaxCase \in U32, NEW t \in Type, Kind(t) = "union",
         NEW u \in Objects[t], NEW source \in Objects[t], NEW spare \in Nat
  PROVE  CopiesTo(t, source, ReplaceMember(t, u, source, spare))
<1> DEFINE f == FieldNo(t, Disc(source))
           c == IF f > 0 THEN CopyOver(Arm(t, f), << >>, Member(source), spare)
                ELSE Copied(<< >>, spare)
           x == Union(Disc(source), IF f > 0 THEN f ELSE 0, c.v)
<1>1. ReplaceMember(t, u, source, spare) = IF c.ok THEN Copied(x, c.spare) ELSE Thrown(NoMember(MaxCase))
  BY Zenon DEF ReplaceMember
<1>2. c.ok \in BOOLEAN /\ c.spare \in Nat /\ (c.ok => x = source)
  <2>1. CASE Selects(t, Disc(source))
    <3>1. /\ f > 0 /\ Live(source) = f /\ ArmOf(t, source) \in Type
          /\ Member(source) \in Objects[ArmOf(t, source)]
          /\ source = Union(Disc(source), Live(source), Member(source))
      BY <2>1, ObjectMember, Zenon DEF Selects
    <3>2. ArmOf(t, source) = Arm(t, f)
      BY DEF ArmOf
    <3>3. c = CopyOver(Arm(t, f), << >>, Member(source), spare)
      BY <3>1
    <3> HIDE DEF f, c
    <3>4. c.ok \in BOOLEAN /\ c.spare \in Nat /\ (c.ok => c.v = Member(source))
      <4> DEFINE e == Arm(t, f)
                 m == Member(source)
      <4>1. e \in Type /\ m \in Objects[e] /\ c = CopyOver(e, << >>, m, spare)
        BY <3>1, <3>2, <3>3, Zenon
      <4> HIDE DEF e, m
      <4>2. c.ok \in BOOLEAN /\ c.spare \in Nat /\ (c.ok => c.v = m)
        BY <4>1, CopyOverNothing
      <4> QED
        BY <4>2 DEF m
    <3>5. x = Union(Disc(source), f, c.v)
      BY <3>1
    <3> HIDE DEF x
    <3> QED
      BY <3>1, <3>4, <3>5, Zenon
  <2>2. CASE ~Selects(t, Disc(source))
    <3>1. ~(f > 0) /\ source = NoMember(Disc(source))
      BY <2>2, ObjectMember, Zenon DEF Selects
    <3>2. c = Copied(<< >>, spare)
      BY <3>1
    <3> HIDE DEF c
    <3>3. c.ok = TRUE /\ c.spare = spare /\ c.v = << >>
      BY <3>2 DEF Copied
    <3>4. x = Union(Disc(source), 0, << >>)
      BY <3>1, <3>3
    <3>5. x = source
      BY <3>1, <3>4, Zenon DEF NoMember
    <3> QED
      BY <3>3, <3>5
  <2> QED
    BY <2>1, <2>2
<1> HIDE DEF c, x
<1>3. CASE c.ok
  <2>1. ReplaceMember(t, u, source, spare) = Copied(source, c.spare)
    BY <1>1, <1>2, <1>3, Zenon
  <2> QED
    BY <1>2, <2>1, CopiedIs
<1>4. CASE ~c.ok
  <2>1. ReplaceMember(t, u, source, spare) = Thrown(NoMember(MaxCase))
    BY <1>1, <1>4, Zenon
  <2>2. Remains(t, NoMember(MaxCase))
    BY WreckedUnion
  <2> QED
    BY <2>1, <2>2, ThrownIs
<1> QED
  BY <1>2, <1>3, <1>4

LEMMA MemberCopies ==
  ASSUME RecursiveAlive, NEW t \in Type, Kind(t) = "union",
         NEW u \in Objects[t], NEW source \in Objects[t], NEW spare \in Nat,
         FieldNo(t, Disc(u)) = FieldNo(t, Disc(source)),
         Selects(t, Disc(u)) =>
           CopiesTo(ArmOf(t, u), Member(source),
                    CopyPart(ArmOf(t, u), Member(u), Member(source), spare))
  PROVE  CopiesTo(t, source, CopyMember(t, u, source, spare))
<1> DEFINE c == IF Live(u) > 0 THEN CopyPart(Arm(t, Live(u)), Member(u), Member(source), spare)
                ELSE Copied(<< >>, spare)
           w == IF c.ok THEN Disc(source) ELSE Disc(u)
           x == Union(w, Live(u), c.v)
<1>0. Disc(u) \in U32 /\ Disc(source) \in U32
  BY ObjectMember
<1>1. CopyMember(t, u, source, spare) = [c EXCEPT !.v = x]
  BY Zenon DEF CopyMember
<1>2. CopyShape(c) /\ (~c.ok => Remains(t, x)) /\ (c.ok => x = source)
  <2>1. CASE Selects(t, Disc(u))
    <3>1. Selects(t, Disc(source))
      BY <2>1, Zenon DEF Selects
    <3>2. /\ Live(u) > 0 /\ Live(u) = FieldNo(t, Disc(u)) /\ ArmOf(t, u) = Arm(t, Live(u))
      BY <2>1, ObjectMember, Zenon
    <3>3. Live(source) = Live(u) /\ source = Union(Disc(source), Live(source), Member(source))
      BY <3>1, <3>2, ObjectMember, Zenon
    <3>4. c = CopyPart(ArmOf(t, u), Member(u), Member(source), spare)
      BY <3>2
    <3>5. CopiesTo(ArmOf(t, u), Member(source), c)
      BY <2>1, <3>4
    <3> HIDE DEF c
    <3>6. CopyShape(c) /\ (c.ok => c.v = Member(source)) /\ (~c.ok => Remains(Arm(t, FieldNo(t, Disc(u))), c.v))
      BY <3>5, Zenon DEF CopiesTo, ArmOf
    <3>7. ASSUME ~c.ok
          PROVE  Remains(t, x)
      <4> DEFINE f == FieldNo(t, Disc(u))
                 m == c.v
                 y == Union(Disc(u), f, m)
      <4>1. x = y
        BY <3>2, <3>7
      <4>2. Remains(Arm(t, f), m)
        BY <3>6, <3>7
      <4> HIDE DEF m
      <4>3. CASE m \in Objects[Arm(t, f)]
        <5>1. y \in Objects[t]
          BY <1>0, <2>1, <4>3, MadeUnion
        <5> QED
          BY <4>1, <5>1 DEF Remains
      <4>4. CASE Wreck(Arm(t, f), m)
        <5>1. Wreck(t, y)
          BY <1>0, <2>1, <4>4, WreckedMember
        <5> QED
          BY <4>1, <5>1 DEF Remains
      <4> QED
        BY <4>2, <4>3, <4>4 DEF Remains
    <3>8. c.ok => x = source
      BY <3>3, <3>6
    <3> QED
      BY <3>6, <3>7, <3>8
  <2>2. CASE ~Selects(t, Disc(u))
    <3>1. ~Selects(t, Disc(source))
      BY <2>2, Zenon DEF Selects
    <3>2. ~(Live(u) > 0) /\ Live(u) = 0
      BY <2>2, ObjectMember, Zenon
    <3>3. source = NoMember(Disc(source))
      BY <3>1, ObjectMember, Zenon
    <3>4. c = Copied(<< >>, spare)
      BY <3>2
    <3> HIDE DEF c
    <3>5. c.ok = TRUE /\ c.v = << >> /\ CopyShape(c)
      BY <3>4 DEF Copied, CopyShape
    <3>6. x = NoMember(Disc(source))
      BY <3>2, <3>5 DEF NoMember
    <3>7. x = source
      BY <3>3, <3>6, Zenon
    <3> QED
      BY <3>5, <3>7
  <2> QED
    BY <2>1, <2>2
<1> HIDE DEF c, x, w
<1>3. CopiesTo(t, source, [c EXCEPT !.v = x])
  BY <1>2, CopyMoved
<1> QED
  BY <1>1, <1>3

LEMMA ComponentsCopied ==
  ASSUME RecursiveAlive, NEW t \in Type, HasParts(t),
         NEW v \in Objects[t], NEW source \in Objects[t],
         NEW spare \in Nat, Len(source) <= Len(v),
         \A i \in 1..Len(source) : \A x \in Objects[Component(t, i)] : \A k \in Nat :
           CopiesTo(Component(t, i), source[i], CopyPart(Component(t, i), x, source[i], k))
  PROVE  CopiesTo(t, source, CopyComponents(t, v, source, spare))
<1> DEFINE n == Len(source)
           Came(c, i) ==
             /\ CopyShape(c)
             /\ c.ok => /\ c.v \in Objects[t] /\ Len(c.v) = Len(v)
                        /\ \A j \in 1..i : c.v[j] = source[j]
             /\ ~c.ok => Remains(t, c.v)
<1>0. /\ n \in Nat /\ Len(v) \in Nat /\ Tuple(source) /\ Counts(t, n)
      /\ \A i \in 1..n : Component(t, i) \in Type /\ source[i] \in Objects[Component(t, i)]
  BY ObjectParts
<1>1. PICK F : /\ CopyRun(F, t, v, source, spare)
               /\ CopyComponents(t, v, source, spare)
                    = IF F[n].ok THEN [F[n] EXCEPT !.v = SubSeq(F[n].v, 1, n)] ELSE F[n]
  BY <1>0, CopyRuns
<1> DEFINE D == [i \in Nat |-> {c \in {F[k] : k \in 0..n} : Came(c, i)}]
<1>2. F[0] = Copied(v, spare) /\ \A i \in 1..n : F[i] = CopyTurn(t, source, F[i - 1], i)
  BY <1>1, Zenon DEF CopyRun
<1>3. F[0] \in D[0]
  <2>1. CopyShape(Copied(v, spare)) /\ Copied(v, spare).v = v /\ Copied(v, spare).ok = TRUE
    BY DEF Copied, CopyShape
  <2>2. \A j \in 1..0 : FALSE
    OBVIOUS
  <2>3. Came(F[0], 0)
    BY <1>2, <2>1, <2>2
  <2> HIDE DEF Came
  <2> QED
    BY <1>0, <2>3
<1>4. ASSUME NEW i \in 1..n, F[i - 1] \in D[i - 1]
      PROVE  F[i] \in D[i]
  <2> DEFINE c == F[i - 1]
             e == Component(t, i)
             part == CopyPart(e, c.v[i], source[i], c.spare)
             y == [c.v EXCEPT ![i] = part.v]
  <2>1. i \in Nat /\ i - 1 \in Nat /\ i \in 1..Len(v) /\ i \in 0..n
    BY <1>0
  <2>2. Came(c, i - 1)
    <3> HIDE DEF Came
    <3> QED
      BY <1>4, <2>1
  <2>3. F[i] = IF c.ok THEN CopyComponent(t, i, c, source) ELSE c
    BY <1>2, Zenon DEF CopyTurn
  <2>4. CopyComponent(t, i, c, source) = [part EXCEPT !.v = y]
    BY Zenon DEF CopyComponent
  <2>5. /\ CopyShape(c)
        /\ c.ok => /\ c.v \in Objects[t] /\ Len(c.v) = Len(v)
                   /\ \A j \in 1..i - 1 : c.v[j] = source[j]
    BY <2>2
  <2> HIDE DEF c
  <2>6. CASE ~c.ok
    <3>1. F[i] = c
      BY <2>3, <2>6
    <3>2. Came(c, i)
      BY <2>2, <2>6
    <3> HIDE DEF Came
    <3> QED
      BY <2>1, <3>1, <3>2
  <2>7. CASE c.ok
    <3>0. c.spare \in Nat
      BY <2>5 DEF CopyShape
    <3>1. c.v[i] \in Objects[e]
      BY <2>1, <2>5, <2>7, ObjectParts, Zenon
    <3>2. CopiesTo(e, source[i], part)
      BY <3>0, <3>1
    <3> HIDE DEF part
    <3>3. CopyShape(part) /\ (part.ok => part.v = source[i]) /\ (~part.ok => Remains(e, part.v))
      BY <3>2, Zenon DEF CopiesTo
    <3>4. ASSUME part.v \in Objects[e]
          PROVE  /\ y \in Objects[t] /\ Len(y) = Len(v) /\ y[i] = part.v
                 /\ \A j \in 1..Len(v) : j # i => y[j] = c.v[j]
      <4> DEFINE z == c.v
                 p == part.v
      <4>1. z \in Objects[t] /\ i \in 1..Len(z) /\ p \in Objects[Component(t, i)] /\ Len(z) = Len(v)
        BY <2>1, <2>5, <2>7, <3>4
      <4>2. y = [z EXCEPT ![i] = p]
        OBVIOUS
      <4> HIDE DEF z, p, y
      <4>3. /\ [z EXCEPT ![i] = p] \in Objects[t] /\ Len([z EXCEPT ![i] = p]) = Len(z)
            /\ [z EXCEPT ![i] = p][i] = p
            /\ \A j \in 1..Len(z) : j # i => [z EXCEPT ![i] = p][j] = z[j]
        BY <4>1, PartReplaced
      <4>4. /\ y \in Objects[t] /\ Len(y) = Len(v) /\ y[i] = p
            /\ \A j \in 1..Len(v) : j # i => y[j] = z[j]
        BY <4>1, <4>2, <4>3, Zenon
      <4> QED
        BY <4>4 DEF z, p
    <3>5. ASSUME Wreck(e, part.v)
          PROVE  Remains(t, y)
      <4> DEFINE z == c.v
                 p == part.v
      <4>1. z \in Objects[t] /\ i \in 1..Len(z) /\ Wreck(Component(t, i), p)
        BY <2>1, <2>5, <2>7, <3>5
      <4> HIDE DEF z, p
      <4>2. Wreck(t, [z EXCEPT ![i] = p])
        BY <4>1, WreckedPart
      <4> QED
        BY <4>2 DEF Remains, z, p
    <3> HIDE DEF y
    <3>6. ~part.ok => Remains(t, y)
      BY <3>3, <3>4, <3>5, Zenon DEF Remains
    <3>7. source[i] \in Objects[e]
      BY <1>0
    <3> HIDE DEF e
    <3>8. F[i] = [part EXCEPT !.v = y]
      BY <2>3, <2>4, <2>7, Zenon DEF e
    <3>9. CopyShape(F[i]) /\ F[i].v = y /\ F[i].ok = part.ok
      <4>1. LET d == [part EXCEPT !.v = y] IN CopyShape(d) /\ d.v = y /\ d.ok = part.ok
        BY <3>3, CopySet
      <4> QED
        BY <3>8, <4>1, Zenon
    <3>10. ASSUME part.ok
           PROVE  y \in Objects[t] /\ Len(y) = Len(v) /\ \A j \in 1..i : y[j] = source[j]
      <4>0. /\ y \in Objects[t] /\ Len(y) = Len(v) /\ y[i] = source[i]
            /\ \A j \in 1..Len(v) : j # i => y[j] = c.v[j]
        BY <3>3, <3>4, <3>7, <3>10, Zenon
      <4>1. ASSUME NEW j \in 1..i
            PROVE  y[j] = source[j]
        <5>1. CASE j = i
          BY <4>0, <5>1
        <5>2. CASE j # i
          <6>1. j \in 1..i - 1 /\ j \in 1..Len(v)
            BY <1>0, <2>1, <5>2
          <6> QED
            BY <2>5, <2>7, <4>0, <5>2, <6>1
        <5> QED
          BY <5>1, <5>2
      <4> QED
        BY <4>0, <4>1
    <3>11. Came(F[i], i)
      BY <3>6, <3>9, <3>10
    <3> HIDE DEF Came
    <3> QED
      BY <2>1, <3>11
  <2> QED
    BY <2>6, <2>7
<1>5. D[n] = {c \in {F[k] : k \in 0..n} : Came(c, n)}
  BY <1>0
<1> HIDE DEF D
<1>6. \A i \in 1..n : F[i - 1] \in D[i - 1] => F[i] \in D[i]
  BY <1>4
<1> HIDE DEF n
<1>7. \A i \in 0..n : F[i] \in D[i]
  BY <1>0, <1>3, <1>6, RunKeeps
<1> DEFINE c == F[n]
<1>8. Came(c, n)
  <2> HIDE DEF Came
  <2>1. F[n] \in D[n]
    BY <1>0, <1>7
  <2> QED
    BY <1>5, <2>1
<1>9. /\ CopyShape(c) /\ (~c.ok => Remains(t, c.v))
      /\ c.ok => /\ c.v \in Objects[t] /\ Len(c.v) = Len(v)
                 /\ \A j \in 1..n : c.v[j] = source[j]
  BY <1>8
<1>10. CopyComponents(t, v, source, spare) = IF c.ok THEN [c EXCEPT !.v = SubSeq(c.v, 1, n)] ELSE c
  BY <1>1
<1> HIDE DEF c, Came
<1>11. CASE ~c.ok
  BY <1>9, <1>10, <1>11 DEF CopiesTo
<1>12. CASE c.ok
  <2> DEFINE z == c.v
             S == UNION {Objects[e] : e \in Type}
  <2>1. Tuple(z) /\ Len(z) = Len(v) /\ \A i \in 1..Len(z) : z[i] \in S
    <3>1. Tuple(z) /\ Len(z) = Len(v) /\ \A i \in 1..Len(z) : Component(t, i) \in Type /\ z[i] \in Objects[Component(t, i)]
      BY <1>9, <1>12, ObjectParts
    <3> QED
      BY <3>1
  <2> HIDE DEF S
  <2>2. z \in Seq(S)
    BY <2>1, TupleSeq
  <2>3. n <= Len(z) /\ \A j \in 1..n : z[j] = source[j]
    BY <1>9, <1>12, <2>1 DEF n
  <2> HIDE DEF z
  <2>4. \A j \in 1..n : z[j] \in S
    BY <1>0, <2>1, <2>3
  <2>5. /\ SubSeq(z, 1, n) \in Seq(S)
        /\ Len(SubSeq(z, 1, n)) = IF 1 <= n THEN n - 1 + 1 ELSE 0
        /\ \A j \in 1..n - 1 + 1 : SubSeq(z, 1, n)[j] = z[1 + j - 1]
    BY <1>0, <2>2, <2>4, SubSeqProperties
  <2>6. Len(SubSeq(z, 1, n)) = n /\ \A j \in 1..n : SubSeq(z, 1, n)[j] = z[j]
    BY <1>0, <2>5
  <2>7. Tuple(SubSeq(z, 1, n))
    BY <2>5, SeqTuple
  <2>8. SubSeq(z, 1, n) = source
    <3> DEFINE q == SubSeq(z, 1, n)
    <3>1. Tuple(q) /\ Len(q) = Len(source) /\ \A j \in 1..Len(q) : q[j] = source[j]
      BY <2>3, <2>6, <2>7 DEF n
    <3> HIDE DEF q
    <3>2. q = source
      BY <1>0, <3>1, TuplesEqual
    <3> QED
      BY <3>2 DEF q
  <2>9. CopyComponents(t, v, source, spare) = [c EXCEPT !.v = source]
    BY <1>10, <1>12, <2>8 DEF z
  <2>10. CopiesTo(t, source, [c EXCEPT !.v = source])
    BY <1>9, <1>12, CopyMoved
  <2> QED
    BY <2>9, <2>10
<1> QED
  BY <1>11, <1>12, <1>9 DEF CopyShape

LEMMA CopyObjects ==
  ASSUME RecursiveValues, RecursiveAlive, RecursivePairs, MaxCase \in U32
  PROVE  \A t \in Type : \A source \in Objects[t] : \A v \in Objects[t] : \A spare \in Nat :
           CopiesTo(t, source, CopyTo(t, v, source, spare))
<1> DEFINE P == [t \in Type |-> {source \in Objects[t] : \A v \in Objects[t] : \A spare \in Nat :
                                   CopiesTo(t, source, CopyTo(t, v, source, spare))}]
<1>1. ASSUME NEW t \in Type, NEW source \in Objects[t], PartsIn(P, t, source)
      PROVE  source \in P[t]
  <2>0. ASSUME NEW e \in Type, NEW s \in P[e], NEW x \in Objects[e], NEW k \in Nat
        PROVE  CopiesTo(e, s, CopyPart(e, x, s, k))
    <3>1. s \in Objects[e] /\ CopiesTo(e, s, CopyTo(e, x, s, k))
      BY <2>0
    <3>2. CopyPart(e, x, s, k) = CopyTo(e, x, s, k)
      BY <3>1, Zenon DEF RecursivePairs
    <3> QED
      BY <3>1, <3>2
  <2>1. ASSUME NEW v \in Objects[t], NEW spare \in Nat
        PROVE  CopiesTo(t, source, CopyTo(t, v, source, spare))
    <3> HIDE DEF P
    <3>1. CASE Kind(t) = "union" /\ FieldNo(t, Disc(v)) # FieldNo(t, Disc(source))
      <4>1. CopyTo(t, v, source, spare) = ReplaceMember(t, v, source, spare)
        BY <3>1, Zenon DEF CopyTo
      <4> QED
        BY <3>1, <4>1, ReplaceCopies
    <3>2. CASE Kind(t) = "union" /\ FieldNo(t, Disc(v)) = FieldNo(t, Disc(source))
      <4>1. CopyTo(t, v, source, spare) = CopyMember(t, v, source, spare)
        BY <3>2, Zenon DEF CopyTo
      <4>2. ASSUME Selects(t, Disc(v))
            PROVE  CopiesTo(ArmOf(t, v), Member(source),
                            CopyPart(ArmOf(t, v), Member(v), Member(source), spare))
        <5>1. Selects(t, Disc(source))
          BY <3>2, <4>2, Zenon DEF Selects
        <5>2. Member(source) \in P[ArmOf(t, source)]
          BY <1>1, <3>2, <5>1, Zenon DEF PartsIn
        <5>3. ArmOf(t, v) = ArmOf(t, source)
          BY <3>2, Zenon DEF ArmOf
        <5>4. ArmOf(t, v) \in Type /\ Member(v) \in Objects[ArmOf(t, v)]
          BY <3>2, <4>2, ObjectMember, Zenon
        <5> QED
          BY <2>0, <5>2, <5>3, <5>4, Zenon
      <4>3. CopiesTo(t, source, CopyMember(t, v, source, spare))
        BY <3>2, <4>2, MemberCopies
      <4> QED
        BY <4>1, <4>3
    <3>3. CASE Kind(t) \in Variable /\ Len(source) > Len(v)
      <4>1. CopyTo(t, v, source, spare) = CopyOver(t, v, source, spare)
        BY <3>3 DEF CopyTo, Variable
      <4> QED
        BY <4>1, CopyOverCopies
    <3>4. CASE HasParts(t) /\ ~(Kind(t) \in Variable /\ Len(source) > Len(v))
      <4>1. Kind(t) \in Nested /\ Kind(t) # "union"
        BY <3>4, Kinds, Zenon
      <4>2. CopyTo(t, v, source, spare) = CopyComponents(t, v, source, spare)
        BY <3>4, <4>1, Zenon DEF CopyTo
      <4>3. Len(source) <= Len(v)
        <5>1. /\ Counts(t, Len(source)) /\ Counts(t, Len(v))
              /\ Len(source) \in Nat /\ Len(v) \in Nat
          BY <3>4, ObjectParts
        <5> QED
          BY <3>4, <5>1 DEF Counts, HasParts, Container, Variable
      <4>4. ASSUME NEW i \in 1..Len(source), NEW x \in Objects[Component(t, i)], NEW k \in Nat
            PROVE  CopiesTo(Component(t, i), source[i], CopyPart(Component(t, i), x, source[i], k))
        <5>1. source[i] \in P[Component(t, i)]
          BY <1>1, <3>4, Zenon DEF PartsIn
        <5>2. Component(t, i) \in Type
          BY <3>4, ObjectParts
        <5> QED
          BY <2>0, <5>1, <5>2, Zenon
      <4>5. CopiesTo(t, source, CopyComponents(t, v, source, spare))
        BY <3>4, <4>3, <4>4, ComponentsCopied
      <4> QED
        BY <4>2, <4>5
    <3>5. CASE Kind(t) \in Leaf /\ ~(Kind(t) \in Variable /\ Len(source) > Len(v))
      <4>1. Kind(t) # "union" /\ Kind(t) \notin Nested
        BY <3>5, Kinds, Zenon
      <4>2. CopyTo(t, v, source, spare) = Copied(source, spare)
        BY <3>5, <4>1, Zenon DEF CopyTo
      <4> QED
        BY <4>2, CopiedIs
    <3> QED
      BY <3>1, <3>2, <3>3, <3>4, <3>5, Kinds
  <2> QED
    BY <2>1
<1>2. \A t \in Type : \A v \in Objects[t] : v \in P[t]
  <2> HIDE DEF P
  <2> QED
    BY <1>1, ByParts
<1> QED
  BY <1>2

----------------------------------------------------------------------------
(***************************************************************************)
(* Traversals that write: whatever happens on the way, what they leave is  *)
(* a value of its type.  A is a set of archives that parts are read with,  *)
(* E the types of these parts.                                             *)
(***************************************************************************)
Turns(A, E) ==
  \A e \in E : \A x \in Objects[e] : \A b \in A :
    ~Failed(b) => UnarchivePart(e, x, b).v \in Objects[e] /\ UnarchivePart(e, x, b).a \in A
Raises(A) ==
  \A b \in A : \A e \in Exception \ {"none"} : Raise(b, e) \in A /\ Failed(Raise(b, e))
Needs(t, E) ==
  /\ E \subseteq Type /\ Inside(t) \subseteq E
  /\ Kind(t) \in {"vector", "pointer"} => Types[t].elem \in E /\ "u32" \in E
  /\ Kind(t) = "union" => Types[t].tag \in E
Yields(t, A, r) == r.v \in Objects[t] /\ r.a \in A

LEMMA GivesIs ==
  ASSUME NEW v, NEW a
  PROVE  Gives(v, a).v = v /\ Gives(v, a).a = a
BY DEF Gives

LEMMA GivesYields ==
  ASSUME NEW t, NEW A, NEW v \in Objects[t], NEW a \in A
  PROVE  Yields(t, A, Gives(v, a))
BY GivesIs DEF Yields

LEMMA NumberObjects ==
  ASSUME NEW t \in Type, Kind(t) \in {"u32", "enum"}
  PROVE  Objects[t] = {<<k>> : k \in U32}
<1>1. Kind(t) \in Leaf
  BY DEF Leaf, Scalar
<1>2. Objects[t] = LeafValues(t)
  BY <1>1, ObjectsAre DEF Shapes
<1> QED
  BY <1>2 DEF LeafValues

LEMMA PartsNeeded ==
  ASSUME NEW t \in Type, HasParts(t), NEW E, Needs(t, E), NEW n, Counts(t, n), NEW i \in 1..n
  PROVE  Component(t, i) \in E
<1>1. CASE Kind(t) = "array" \/ Kind(t) \in Record
  <2>1. Component(t, i) \in Inside(t)
    BY <1>1, InsideParts
  <2> QED
    BY <2>1 DEF Needs
<1>2. CASE Kind(t) \in {"vector", "pointer"}
  BY <1>2 DEF Needs, Component, Record
<1> QED
  BY <1>1, <1>2 DEF HasParts, Container

\* A container grows by a default element.
LEMMA ExtendedObject ==
  ASSUME RecursiveTypes, NEW t \in Type, Kind(t) \in {"vector", "pointer"}, NEW v \in Objects[t],
         NEW i \in U32, i = Len(v) + 1
  PROVE  ExtendAt(t, v, i) \in Objects[t] /\ Len(ExtendAt(t, v, i)) = i
<1> DEFINE n == Len(v)
           e == Types[t].elem
           d == Default(e)
           q == Append(v, d)
           S == Objects[e]
<1>1. HasParts(t) /\ \A j : Component(t, j) = e
  BY DEF HasParts, Container, Component, Record
<1>2. Tuple(v) /\ n \in Nat /\ \A j \in 1..n : v[j] \in S
  BY <1>1, ObjectParts
<1>3. e \in Type
  BY NestedAssumption DEF Type, Container
<1>4. d \in S
  BY <1>3, DefaultObjects
<1>5. v \in Seq(S)
  BY <1>2, TupleSeq
<1>6. ExtendAt(t, v, i) = q
  BY <1>2 DEF ExtendAt
<1> HIDE DEF S, d
<1>7. q \in Seq(S) /\ Len(q) = n + 1
  BY <1>4, <1>5, AppendProperties
<1> HIDE DEF q
<1>8. Tuple(q) /\ \A j \in 1..Len(q) : q[j] \in S
  BY <1>7, SeqTuple
<1>9. Counts(t, i)
  BY SMT DEF Counts, Record, U32
<1>10. Parts(Objects, t, q)
  BY <1>1, <1>7, <1>8, <1>9, Zenon DEF Parts, S
<1> QED
  BY <1>1, <1>6, <1>7, <1>10, ObjectIs, Zenon

LEMMA CutObject ==
  ASSUME NEW t \in Type, Kind(t) \in {"vector", "pointer"}, NEW v \in Objects[t], NEW n \in U32
  PROVE  /\ ResizeDown(v, n) \in Objects[t] /\ Len(ResizeDown(v, n)) <= n
         /\ Len(ResizeDown(v, n)) \in Nat
<1> DEFINE S == Objects[Types[t].elem]
           q == SubSeq(v, 1, n)
<1>0. HasParts(t) /\ (\A j : Component(t, j) = Types[t].elem) /\ n \in Nat
  BY SMT DEF HasParts, Container, Component, Record, U32
<1>1. Tuple(v) /\ Len(v) \in Nat /\ \A j \in 1..Len(v) : v[j] \in S
  BY <1>0, ObjectParts
<1>2. CASE Len(v) > n
  <2>1. v \in Seq(S)
    BY <1>1, TupleSeq
  <2>2. \A j \in 1..n : v[j] \in S
    BY <1>0, <1>1, <1>2
  <2> HIDE DEF S
  <2>3. q \in Seq(S) /\ Len(q) = IF 1 <= n THEN n - 1 + 1 ELSE 0
    BY <1>0, <2>1, <2>2, SubSeqProperties
  <2>4. Len(q) = n
    BY <1>0, <2>3
  <2> HIDE DEF q
  <2>5. Tuple(q) /\ \A j \in 1..Len(q) : q[j] \in S
    BY <2>3, SeqTuple
  <2>6. Counts(t, n)
    BY SMT DEF Counts, Record, U32
  <2>7. Parts(Objects, t, q)
    BY <1>0, <2>4, <2>5, <2>6, Zenon DEF Parts, S
  <2>8. q \in Objects[t]
    BY <1>0, <2>7, ObjectIs, Zenon
  <2>9. ResizeDown(v, n) = q
    BY <1>2 DEF ResizeDown, q
  <2> QED
    BY <1>0, <2>4, <2>8, <2>9
<1>3. CASE ~(Len(v) > n)
  <2>1. ResizeDown(v, n) = v
    BY <1>3 DEF ResizeDown
  <2> QED
    BY <1>0, <1>1, <1>3, <2>1
<1> QED
  BY <1>2, <1>3

\* The loop over components: n of them are there in the end if nothing failed.
LEMMA LoadLeaves ==
  ASSUME RecursiveTypes, NEW t \in Type, HasParts(t), NEW E, Needs(t, E), NEW A, Turns(A, E),
         NEW v \in Objects[t], NEW n \in Nat, Counts(t, n), Len(v) <= n,
         Kind(t) \notin Variable => Len(v) = n, NEW a \in A
  PROVE  LET r == LoadFirst(t, n, v, a) IN
         /\ r.v \in Objects[t] /\ r.a \in A /\ (~Failed(r.a) => Len(r.v) = n)
         /\ r = Gives(r.v, r.a)
<1> DEFINE Upto(i) == {r \in [v : Objects[t], a : A] :
                         Len(r.v) <= n /\ (~Failed(r.a) => Len(r.v) >= i)
                         /\ (Kind(t) \notin Variable => Len(r.v) = n)}
           D == [i \in Nat |-> Upto(i)]
<1>1. PICK F : LoadRun(F, t, n, v, a) /\ LoadFirst(t, n, v, a) = F[n]
  BY LoadRuns
<1>2. F[0] = Gives(v, a) /\ \A i \in 1..n : F[i] = LoadTurn(t, F[i - 1], i)
  BY <1>1, Zenon DEF LoadRun
<1>3. Len(v) \in Nat
  BY ObjectParts
<1>4. F[0] \in D[0]
  <2>1. Gives(v, a) \in [v : Objects[t], a : A]
    BY DEF Gives
  <2> QED
    BY <1>2, <1>3, <2>1, GivesIs
<1>5. ASSUME NEW i \in 1..n, F[i - 1] \in D[i - 1]
      PROVE  F[i] \in D[i]
  <2> DEFINE r == F[i - 1]
             e == Component(t, i)
             x == ExtendAt(t, r.v, i)
             p == UnarchivePart(e, x[i], r.a)
             y == [x EXCEPT ![i] = p.v]
  <2>1. i \in Nat /\ i - 1 \in Nat
    OBVIOUS
  <2>2. r \in Upto(i - 1)
    BY <1>5, <2>1
  <2>3. /\ r.v \in Objects[t] /\ r.a \in A /\ Len(r.v) <= n /\ r \in [v : Objects[t], a : A]
        /\ ~Failed(r.a) => Len(r.v) >= i - 1
        /\ Kind(t) \notin Variable => Len(r.v) = n
    BY <2>2
  <2>4. F[i] = IF Failed(r.a) THEN r ELSE LoadComponent(t, i, x, r.a)
    BY <1>2, Zenon DEF LoadTurn
  <2>5. LoadComponent(t, i, x, r.a) = Gives(y, p.a)
    BY Zenon DEF LoadComponent, ReadInto
  <2>13. Len(r.v) \in Nat
    BY <2>3, ObjectParts
  <2> HIDE DEF r
  <2>6. CASE Failed(r.a)
    <3>1. r \in Upto(i)
      BY <2>3, <2>6
    <3> QED
      BY <2>1, <2>4, <2>6, <3>1
  <2>7. CASE ~Failed(r.a)
    <3>1. /\ x \in Objects[t] /\ Len(x) \in Nat /\ Len(x) <= n /\ Len(x) >= i
          /\ Kind(t) \notin Variable => Len(x) = n
      <4>1. CASE i > Len(r.v)
        <5>1. Kind(t) \in {"vector", "pointer"}
          BY <2>3, <4>1 DEF Variable, HasParts, Container, Record
        <5>2. n \in U32
          BY <5>1 DEF Counts
        <5>3. i \in U32
          BY <2>1, <5>2, SMT DEF U32
        <5>4. i = Len(r.v) + 1
          BY <2>3, <2>7, <2>13, <4>1
        <5>5. x \in Objects[t] /\ Len(x) = i
          BY <2>3, <5>1, <5>3, <5>4, ExtendedObject
        <5> QED
          BY <5>1, <5>5 DEF Variable
      <4>2. CASE ~(i > Len(r.v))
        <5>1. x = r.v
          BY <4>2 DEF ExtendAt
        <5> QED
          BY <2>3, <2>13, <4>2, <5>1
      <4> QED
        BY <4>1, <4>2
    <3> HIDE DEF x
    <3>2. i \in 1..Len(x) /\ e \in E
      BY <3>1, PartsNeeded
    <3>3. x[i] \in Objects[e]
      BY <3>1, <3>2, ObjectParts
    <3>4. p.v \in Objects[e] /\ p.a \in A
      BY <2>3, <2>7, <3>2, <3>3, Zenon DEF Turns
    <3> HIDE DEF p
    <3>5. y \in Objects[t] /\ Len(y) = Len(x)
      <4> DEFINE z == p.v
      <4>1. z \in Objects[Component(t, i)]
        BY <3>4
      <4> HIDE DEF z
      <4>2. [x EXCEPT ![i] = z] \in Objects[t] /\ Len([x EXCEPT ![i] = z]) = Len(x)
        BY <3>1, <3>2, <4>1, PartReplaced
      <4> QED
        BY <4>2 DEF z
    <3> HIDE DEF y
    <3>6. F[i] = Gives(y, p.a)
      BY <2>4, <2>5, <2>7, Zenon
    <3>7. F[i] \in [v : Objects[t], a : A] /\ F[i].v = y
      BY <3>4, <3>5, <3>6 DEF Gives
    <3>8. F[i] \in Upto(i)
      BY <3>1, <3>5, <3>7
    <3> QED
      BY <2>1, <3>8
  <2> QED
    BY <2>6, <2>7
<1>6. D[n] = Upto(n)
  OBVIOUS
<1> HIDE DEF D
<1>7. \A i \in 1..n : F[i - 1] \in D[i - 1] => F[i] \in D[i]
  BY <1>5
<1>8. \A i \in 0..n : F[i] \in D[i]
  BY <1>4, <1>7, RunKeeps
<1>9. F[n] \in Upto(n)
  BY <1>6, <1>8
<1> DEFINE r == F[n]
<1>10. /\ r.v \in Objects[t] /\ r.a \in A /\ Len(r.v) <= n /\ (~Failed(r.a) => Len(r.v) >= n)
       /\ r \in [v : Objects[t], a : A]
  BY <1>9
<1> HIDE DEF r
<1>11. Len(r.v) \in Nat
  BY <1>10, ObjectParts
<1>12. ~Failed(r.a) => Len(r.v) = n
  BY <1>10, <1>11
<1>13. r = Gives(r.v, r.a)
  BY <1>10 DEF Gives
<1> QED
  BY <1>1, <1>10, <1>12, <1>13 DEF r

LEMMA ValidateLeaves ==
  ASSUME NEW t, NEW A, Raises(A), NEW r, r = Gives(r.v, r.a), r.a \in A, NEW q, q = Validate(t, r)
  PROVE  q.v = r.v /\ q.a \in A /\ q = Gives(q.v, q.a) /\ (~Failed(q.a) => q = r)
<1>1. CASE r.v \in Types[t].refuse
  <2> DEFINE b == Raise(r.a, "invariant")
             x == r.v
             y == r.a
  <2>1. q = [r EXCEPT !.a = b]
    BY <1>1 DEF Validate
  <2>2. r = [v |-> x, a |-> y]
    BY DEF Gives
  <2>3. b \in A /\ Failed(b)
    BY DEF Raises, Exception
  <2> HIDE DEF b, x, y
  <2>4. q = [v |-> x, a |-> b]
    BY <2>1, <2>2
  <2> QED
    BY <2>3, <2>4 DEF Gives, x
<1>2. CASE r.v \notin Types[t].refuse
  BY <1>2 DEF Validate
<1> QED
  BY <1>1, <1>2

\* load leaves a value; E as above.
LEMMA LoadElementsLeaves ==
  ASSUME RecursiveTypes, NEW t \in Type, Kind(t) \in {"vector", "pointer"}, NEW E, Needs(t, E),
         NEW A, Turns(A, E), Raises(A), NEW v \in Objects[t], NEW r, r.v \in Objects["u32"], r.a \in A
  PROVE  Yields(t, A, LoadElements(t, v, r))
<1> DEFINE n == r.v[1]
           w == ResizeDown(v, n)
<1>1. "u32" \in Type /\ Kind("u32") = "u32"
  BY TypesAssumption DEF Type
<1>2. r.v \in {<<k>> : k \in U32}
  BY <1>1, NumberObjects
<1>3. n \in U32
  BY <1>2
<1> HIDE DEF n
<1>4. n \in Nat /\ HasParts(t) /\ Kind(t) \in Variable
  BY <1>3, SMT DEF U32, HasParts, Container, Variable
<1>5. CASE Failed(r.a)
  <2>1. LoadElements(t, v, r) = Gives(v, r.a)
    BY <1>5, Zenon DEF LoadElements
  <2> QED
    BY <2>1, GivesYields
<1>6. CASE ~Failed(r.a) /\ n > MaxSize(t)
  <2> DEFINE b == Raise(r.a, "overflow")
  <2>1. LoadElements(t, v, r) = Gives(v, b)
    BY <1>6, Zenon DEF LoadElements, n
  <2>2. b \in A
    BY DEF Raises, Exception
  <2> HIDE DEF b
  <2> QED
    BY <2>1, <2>2, GivesYields
<1>7. CASE ~Failed(r.a) /\ ~(n > MaxSize(t))
  <2>1. LoadElements(t, v, r) = LoadFirst(t, n, w, r.a)
    BY <1>7, Zenon DEF LoadElements, n
  <2>2. w \in Objects[t] /\ Len(w) <= n
    BY <1>3, CutObject
  <2> HIDE DEF w
  <2>3. Counts(t, n)
    BY <1>3, <1>4 DEF Counts, Record, Variable
  <2> DEFINE q == LoadFirst(t, n, w, r.a)
             a == r.a
  <2>5. a \in A
    OBVIOUS
  <2> HIDE DEF a
  <2>4. LET q1 == LoadFirst(t, n, w, a) IN
        /\ q1.v \in Objects[t] /\ q1.a \in A /\ (~Failed(q1.a) => Len(q1.v) = n)
        /\ q1 = Gives(q1.v, q1.a)
    BY <1>4, <2>2, <2>3, <2>5, LoadLeaves
  <2> QED
    BY <2>1, <2>4 DEF Yields, a
<1> QED
  BY <1>5, <1>6, <1>7

LEMMA LoadMemberLeaves ==
  ASSUME RecursiveTypes, NEW t \in Type, Kind(t) = "union", NEW E, Needs(t, E),
         NEW A, Turns(A, E), Raises(A), NEW u \in Objects[t], NEW r,
         r.v \in Objects[Types[t].tag], r.a \in A
  PROVE  Yields(t, A, LoadMember(t, u, r))
<1> DEFINE w == r.v[1]
           x == WithDisc(t, u, w)
<1>1. Types[t].tag \in Type /\ Kind(Types[t].tag) \in {"u32", "enum"}
  BY NestedAssumption DEF Type
<1>2. r.v \in {<<k>> : k \in U32}
  BY <1>1, NumberObjects
<1>3. w \in U32
  BY <1>2
<1> HIDE DEF w
<1>4. x \in Objects[t] /\ Disc(x) = w
  BY <1>3, WithDiscObject
<1>9. LoadMember(t, u, r)
        = IF Failed(r.a) THEN Gives(u, r.a)
          ELSE IF FieldNo(t, w) = NoField THEN Gives(u, Raise(r.a, "discriminant"))
          ELSE IF FieldNo(t, w) = 0 THEN Validate(t, Gives(x, r.a))
          ELSE Validate(t, LoadArm(t, x, r.a))
  BY Zenon DEF LoadMember, w
<1> HIDE DEF x
<1>5. CASE Failed(r.a)
  <2>1. LoadMember(t, u, r) = Gives(u, r.a)
    BY <1>5, <1>9, Zenon
  <2> QED
    BY <2>1, GivesYields
<1>6. CASE ~Failed(r.a) /\ FieldNo(t, w) = NoField
  <2> DEFINE b == Raise(r.a, "discriminant")
  <2>1. LoadMember(t, u, r) = Gives(u, b)
    BY <1>6, <1>9, Zenon
  <2>2. b \in A
    BY DEF Raises, Exception
  <2> HIDE DEF b
  <2> QED
    BY <2>1, <2>2, GivesYields
<1>7. CASE ~Failed(r.a) /\ FieldNo(t, w) = 0
  <2> DEFINE a == r.a
             g == Gives(x, a)
             q == Validate(t, g)
  <2>1. FieldNo(t, w) # NoField
    BY <1>7 DEF NoField
  <2>2. LoadMember(t, u, r) = q
    BY <1>7, <1>9, <2>1, Zenon
  <2>3. g.v = x /\ g.a = a /\ a \in A
    BY GivesIs
  <2>4. g = Gives(g.v, g.a)
    BY <2>3, Zenon
  <2> HIDE DEF g, a
  <2>5. q.v = g.v /\ q.a \in A
    <3> HIDE DEF q
    <3>1. q = Validate(t, g)
      BY DEF q
    <3> QED
      BY <2>3, <2>4, <3>1, ValidateLeaves
  <2> QED
    BY <1>4, <2>2, <2>3, <2>5, Zenon DEF Yields
<1>8. CASE ~Failed(r.a) /\ FieldNo(t, w) # NoField /\ FieldNo(t, w) # 0
  <2> DEFINE a == r.a
             f == Live(x)
             p == UnarchivePart(Arm(t, f), Member(x), a)
             y == [x EXCEPT ![3] = p.v]
             g == LoadArm(t, x, a)
             q == Validate(t, g)
  <2>1. LoadMember(t, u, r) = q
    BY <1>8, <1>9, Zenon
  <2>2. Selects(t, w)
    BY <1>8, FieldsAre
  <2>3. /\ f > 0 /\ f = FieldNo(t, w) /\ Member(x) \in Objects[Arm(t, f)]
    BY <1>4, <2>2, ObjectMember, Zenon
  <2>4. Arm(t, f) \in E
    BY <1>3, <2>2, <2>3, FieldsAre DEF Needs
  <2>5. a \in A /\ ~Failed(a)
    BY <1>8
  <2> HIDE DEF a
  <2>6. p.v \in Objects[Arm(t, f)] /\ p.a \in A
    BY <2>3, <2>4, <2>5, Zenon DEF Turns
  <2>7. g = Gives(y, p.a)
    BY Zenon DEF LoadArm, ReadInto
  <2> HIDE DEF p
  <2>8. y \in Objects[t]
    <3> DEFINE z == p.v
    <3>1. z \in Objects[Arm(t, Live(x))] /\ Live(x) > 0
      BY <2>3, <2>6
    <3> HIDE DEF z
    <3>2. [x EXCEPT ![3] = z] \in Objects[t]
      BY <1>4, <3>1, MemberReplaced
    <3> QED
      BY <3>2 DEF z
  <2> HIDE DEF y, g
  <2>9. g.v = y /\ g.a = p.a
    BY <2>7, GivesIs, Zenon
  <2>10. g = Gives(g.v, g.a)
    BY <2>7, <2>9, Zenon
  <2>11. q.v = g.v /\ q.a \in A
    <3> HIDE DEF q
    <3>1. q = Validate(t, g)
      BY DEF q
    <3> QED
      BY <2>6, <2>9, <2>10, <3>1, ValidateLeaves
  <2> QED
    BY <2>1, <2>8, <2>9, <2>11, Zenon DEF Yields
<1> QED
  BY <1>5, <1>6, <1>7, <1>8

LEMMA LoadYields ==
  ASSUME RecursiveTypes, NEW t \in Type, Kind(t) \in Nested, NEW E, Needs(t, E),
         NEW A, Turns(A, E), Raises(A), NEW v \in Objects[t], NEW a \in A, ~Failed(a)
  PROVE  Yields(t, A, Load(t, v, a))
<1>0. <<0>> \in {<<k>> : k \in U32}
  <2>1. 0 \in U32
    BY SMT DEF U32
  <2> QED
    BY <2>1
<1>1. CASE Kind(t) = "union"
  <2> DEFINE e == Types[t].tag
             r == UnarchivePart(e, <<0>>, a)
  <2>1. e \in Type /\ Kind(e) \in {"u32", "enum"} /\ e \in E
    BY <1>1, NestedAssumption DEF Type, Needs
  <2>2. <<0>> \in Objects[e]
    BY <1>0, <2>1, NumberObjects
  <2>3. r.v \in Objects[e] /\ r.a \in A
    BY <2>1, <2>2, Zenon DEF Turns
  <2>4. Load(t, v, a) = LoadMember(t, v, r)
    BY <1>1 DEF Load, Variable
  <2> HIDE DEF r
  <2> QED
    BY <1>1, <2>3, <2>4, LoadMemberLeaves
<1>2. CASE Kind(t) \in {"vector", "pointer"}
  <2> DEFINE r == UnarchivePart("u32", <<0>>, a)
  <2>1. "u32" \in Type /\ Kind("u32") = "u32" /\ "u32" \in E
    BY <1>2, TypesAssumption DEF Type, Needs
  <2>2. <<0>> \in Objects["u32"]
    BY <1>0, <2>1, NumberObjects
  <2>3. r.v \in Objects["u32"] /\ r.a \in A
    BY <2>1, <2>2, Zenon DEF Turns
  <2>4. Load(t, v, a) = LoadElements(t, v, r)
    BY <1>2 DEF Load, Variable
  <2> HIDE DEF r
  <2> QED
    BY <1>2, <2>3, <2>4, LoadElementsLeaves
<1>3. CASE Kind(t) = "array" \/ Kind(t) \in Record
  <2> DEFINE n == Len(v)
             g == LoadFirst(t, n, v, a)
  <2>1. HasParts(t) /\ Kind(t) \notin Variable
    BY <1>3 DEF HasParts, Container, Variable, Record
  <2>2. n \in Nat /\ Counts(t, n)
    BY <2>1, ObjectParts
  <2>3. n = Len(v) /\ Len(v) <= n
    BY <2>2
  <2> HIDE DEF n
  <2>4. g.v \in Objects[t] /\ g.a \in A /\ g = Gives(g.v, g.a)
    BY <2>1, <2>2, <2>3, LoadLeaves
  <2>5. CASE Kind(t) = "array"
    <3>1. Load(t, v, a) = g
      BY <2>5 DEF Load, Variable, n
    <3> QED
      BY <2>4, <3>1, Zenon DEF Yields
  <2>6. CASE Kind(t) \in Record
    <3> DEFINE q == Validate(t, g)
    <3>1. Load(t, v, a) = q
      BY <2>6 DEF Load, Variable, Record, n
    <3> HIDE DEF g
    <3>3. q.v = g.v /\ q.a \in A
      <4> HIDE DEF q
      <4>1. q = Validate(t, g)
        BY DEF q
      <4> QED
        BY <2>4, <4>1, ValidateLeaves
    <3> QED
      BY <2>4, <3>1, <3>3, Zenon DEF Yields
  <2> QED
    BY <1>3, <2>5, <2>6
<1> QED
  BY <1>1, <1>2, <1>3 DEF Nested, Container

----------------------------------------------------------------------------
(***************************************************************************)
(* Decoding, of any message: what it leaves is a value, even where it      *)
(* throws, and it does not look behind the message.                        *)
(***************************************************************************)
LEMMA LeafObjects ==
  ASSUME NEW t \in Type, Kind(t) \in Leaf
  PROVE  Objects[t] = LeafValues(t)
BY ObjectsAre DEF Shapes

LEMMA BytesObjects ==
  ASSUME NEW t \in Type, Kind(t) \in is_bytes, NEW v
  PROVE  /\ Kind(t) = "fixed" => Types[t].len \in Nat
         /\ Kind(t) = "fixed" => (v \in Objects[t] <=> v \in Seq(Octet) /\ Len(v) = Types[t].len)
         /\ Kind(t) = "bytes" => (v \in Objects[t] <=> v \in Seq(Octet) /\ Len(v) \in U32)
<1>1. Objects[t] = LeafValues(t)
  BY LeafObjects DEF Leaf
<1>2. CASE Kind(t) = "fixed"
  <2> DEFINE n == Types[t].len
  <2>1. n \in Nat /\ Objects[t] = [1..n -> Octet]
    BY <1>1, <1>2, TypesAssumption DEF LeafValues, Type
  <2> HIDE DEF n
  <2>2. ASSUME v \in [1..n -> Octet]
        PROVE  v \in Seq(Octet) /\ Len(v) = n
    <3>1. v \in Seq(Octet)
      BY <2>1, <2>2, SeqDef
    <3> QED
      BY <2>1, <2>2, <3>1, LenProperties
  <2>3. ASSUME v \in Seq(Octet), Len(v) = n
        PROVE  v \in [1..n -> Octet]
    BY <2>3, LenProperties
  <2>4. n = Types[t].len
    BY DEF n
  <2> QED
    BY <1>2, <2>1, <2>2, <2>3, <2>4
<1>3. CASE Kind(t) = "bytes"
  BY <1>1, <1>3 DEF LeafValues
<1> QED
  BY <1>2, <1>3 DEF is_bytes

LEMMA CopyPiece ==
  ASSUME NEW a, GetsWords(a), NEW n \in Nat, HasRoom(a, n)
  PROVE  CopyBytes(n, a).v \in Seq(Octet) /\ Len(CopyBytes(n, a).v) = n
<1>1. /\ a.in \in Seq(Octet) /\ a.at \in Nat /\ Len(a.in) \in Nat
  BY GetterTypes
<1>2. a.at + Padded(n) <= Len(a.in) /\ n <= Padded(n) /\ Padded(n) \in Nat
  BY RoomForPadding
<1>3. CASE n = 0
  <2>1. CopyBytes(n, a).v = << >>
    BY <1>3 DEF CopyBytes, Gives
  <2> QED
    BY <1>3, <2>1, EmptySeq
<1>4. CASE n # 0
  <2>1. ~(n > Len(a.in) \/ a.at + Padded(n) > Len(a.in)) /\ a.at + n <= Len(a.in)
    BY <1>1, <1>2
  <2>2. CopyBytes(n, a).v = SubSeq(a.in, a.at + 1, a.at + n)
    BY <1>4, <2>1 DEF CopyBytes, Gives
  <2>3. /\ SubSeq(a.in, a.at + 1, a.at + n) \in Seq(Octet)
        /\ Len(SubSeq(a.in, a.at + 1, a.at + n)) = n
    BY <1>1, <2>1, Piece
  <2> QED
    BY <2>2, <2>3
<1> QED
  BY <1>3, <1>4

LEMMA WordGot ==
  ASSUME NEW a, GetsWords(a), NEW k \in Nat, NEW n \in Nat, HasRoom(a, n), k + 4 <= n
  PROVE  Number(WordAt(a, k)) \in U32
<1>1. a.at + n <= Len(a.in) /\ a.at \in Nat /\ Len(a.in) \in Nat
  BY RoomFor, GetterTypes
<1>2. a.at + k + 4 <= Len(a.in)
  BY <1>1
<1> QED
  BY <1>2, WordThere

LEMMA LeafGot ==
  ASSUME NEW t \in Type, Kind(t) \in Leaf, NEW w \in Objects[t], NEW a, GetsWords(a), ~Failed(a)
  PROVE  GetLeaf(t, w, a).v \in Objects[t]
<1>1. CASE Kind(t) \in Scalar
  <2>1. GetLeaf(t, w, a) = GetScalar(t, w, a)
    BY <1>1 DEF GetLeaf, Scalar
  <2>2. CASE ~HasRoom(a, 4)
    <3>1. GetScalar(t, w, a).v = w
      BY <2>2 DEF GetScalar, Gives
    <3> QED
      BY <2>1, <3>1
  <2>3. CASE HasRoom(a, 4)
    <3> DEFINE n == Number(WordAt(a, 0))
    <3>1. GetScalar(t, w, a).v = <<from_uint(t, n)>>
      BY <2>3 DEF GetScalar, Scan, Gives
    <3>2. n \in U32
      BY <2>3, WordGot
    <3> HIDE DEF n
    <3>3. CASE Kind(t) = "bool"
      <4>1. from_uint(t, n) \in {0, 1}
        BY <3>3 DEF from_uint
      <4>2. Objects[t] = {<<k>> : k \in {0, 1}}
        <5>1. Objects[t] = LeafValues(t)
          BY <3>3, LeafObjects DEF Leaf, Scalar
        <5>2. LeafValues(t) = {<<k>> : k \in {0, 1}}
          BY <3>3 DEF LeafValues
        <5> QED
          BY <5>1, <5>2
      <4> QED
        BY <2>1, <3>1, <4>1, <4>2
    <3>4. CASE Kind(t) # "bool"
      <4>1. from_uint(t, n) = n
        BY <3>4 DEF from_uint
      <4>2. Objects[t] = {<<k>> : k \in U32}
        BY <1>1, <3>4, NumberObjects DEF Scalar
      <4> QED
        BY <2>1, <3>1, <3>2, <4>1, <4>2
    <3> QED
      BY <3>3, <3>4
  <2> QED
    BY <2>2, <2>3
<1>2. CASE Kind(t) = "u64"
  <2>1. GetLeaf(t, w, a) = GetU64(w, a)
    BY <1>2 DEF GetLeaf
  <2>2. CASE ~HasRoom(a, 8)
    <3>1. GetU64(w, a).v = w
      BY <2>2 DEF GetU64, Gives
    <3> QED
      BY <2>1, <3>1
  <2>3. CASE HasRoom(a, 8)
    <3> DEFINE h == Number(WordAt(a, 0))
               l == Number(WordAt(a, 4))
    <3>1. GetU64(w, a).v = <<h, l>>
      BY <2>3 DEF GetU64, Gives
    <3>2. h \in U32 /\ l \in U32
      BY <2>3, WordGot
    <3> HIDE DEF h, l
    <3>3. Objects[t] = {<<x, y>> : x \in U32, y \in U32}
      <4>1. Objects[t] = LeafValues(t)
        BY <1>2, LeafObjects DEF Leaf
      <4>2. LeafValues(t) = {<<x, y>> : x \in U32, y \in U32}
        BY <1>2 DEF LeafValues
      <4> QED
        BY <4>1, <4>2
    <3> QED
      BY <2>1, <3>1, <3>2, <3>3
  <2> QED
    BY <2>2, <2>3
<1>3. CASE Kind(t) = "fixed"
  <2>0. w \in Seq(Octet) /\ Len(w) = Types[t].len /\ Len(w) \in Nat
    BY <1>3, BytesObjects DEF is_bytes
  <2>1. GetLeaf(t, w, a) = GetFixed(t, w, a)
    BY <1>3 DEF GetLeaf
  <2>2. CASE ~HasRoom(a, Len(w))
    <3>1. GetFixed(t, w, a).v = w
      BY <2>2 DEF GetFixed, Gives
    <3> QED
      BY <2>1, <3>1
  <2>3. CASE HasRoom(a, Len(w))
    <3>1. GetFixed(t, w, a) = CopyBytes(Len(w), a)
      BY <2>3 DEF GetFixed
    <3> DEFINE q == CopyBytes(Len(w), a).v
    <3>2. q \in Seq(Octet) /\ Len(q) = Len(w)
      BY <2>0, <2>3, CopyPiece
    <3> HIDE DEF q
    <3>3. q \in Objects[t]
      BY <1>3, <2>0, <3>2, BytesObjects DEF is_bytes
    <3> QED
      BY <2>1, <3>1, <3>3 DEF q
  <2> QED
    BY <2>2, <2>3
<1>4. CASE Kind(t) = "bytes"
  <2>1. GetLeaf(t, w, a) = GetBytes(t, w, a)
    BY <1>4 DEF GetLeaf
  <2>2. CASE ~HasRoom(a, 4)
    <3>1. GetBytes(t, w, a).v = w
      BY <2>2 DEF GetBytes, Gives
    <3> QED
      BY <2>1, <3>1
  <2>3. CASE HasRoom(a, 4)
    <3> DEFINE n == Number(WordAt(a, 0))
               b == Skip(a, 4)
    <3>1. GetBytes(t, w, a) = GetCounted(t, n, w, b)
      BY <2>3 DEF GetBytes
    <3>2. n \in U32
      BY <2>3, WordGot
    <3>3. a.at + 4 <= Len(a.in)
      BY <2>3, RoomFor
    <3>4. GetsWords(b)
      BY <3>3, SkipStays
    <3> HIDE DEF n, b
    <3>5. n \in Nat
      BY <3>2, SMT DEF U32
    <3>6. CASE ~HasRoom(b, n) \/ n > MaxSize(t)
      <4>1. GetCounted(t, n, w, b).v = w
        BY <3>6 DEF GetCounted, Gives
      <4> QED
        BY <2>1, <3>1, <4>1
    <3>7. CASE ~(~HasRoom(b, n) \/ n > MaxSize(t))
      <4>1. GetCounted(t, n, w, b) = CopyBytes(n, b)
        BY <3>7 DEF GetCounted
      <4> DEFINE q == CopyBytes(n, b).v
      <4>2. q \in Seq(Octet) /\ Len(q) = n
        BY <3>4, <3>5, <3>7, CopyPiece
      <4> HIDE DEF q
      <4>3. q \in Objects[t]
        BY <1>4, <3>2, <4>2, BytesObjects DEF is_bytes
      <4> QED
        BY <2>1, <3>1, <4>1, <4>3 DEF q
    <3> QED
      BY <3>6, <3>7
  <2> QED
    BY <2>2, <2>3
<1> QED
  BY <1>1, <1>2, <1>3, <1>4 DEF Leaf, is_bytes

\* Archives that read the message in, with L levels left unless they failed.
GetArchives(L, in, behind) ==
  {b \in Getters : /\ GetsWords(b) /\ b.in = in /\ b.past = behind
                   /\ ~Failed(b) => b.limit = L}

LEMMA GetRaises ==
  ASSUME NEW L, NEW in, NEW behind
  PROVE  Raises(GetArchives(L, in, behind))
<1> DEFINE A == GetArchives(L, in, behind)
<1>1. ASSUME NEW b \in A, NEW e \in Exception \ {"none"}
      PROVE  Raise(b, e) \in A /\ Failed(Raise(b, e))
  <2>1. GetsWords(b) /\ b.in = in /\ b.past = behind
    BY DEF GetArchives
  <2> DEFINE q == Raise(b, e)
  <2>2. /\ GetsWords(q) /\ q.in = b.in /\ q.past = b.past /\ Failed(q)
    BY <2>1, RaiseStays
  <2> HIDE DEF q
  <2>3. q \in Getters
    BY <2>2, GetterTypes
  <2>4. q \in A /\ Failed(q)
    BY <2>1, <2>2, <2>3 DEF GetArchives
  <2> QED
    BY <2>4 DEF q
<1> QED
  BY <1>1 DEF Raises

\* A leaf is read within the message, and no level is left or entered.
LEMMA LeafTurns ==
  ASSUME NEW L, NEW in, NEW behind, NEW b \in GetArchives(L, in, behind), ~Failed(b),
         NEW t \in Type, Kind(t) \in Leaf, NEW v \in Objects[t]
  PROVE  Yields(t, GetArchives(L, in, behind), GetLeaf(t, v, b))
<1> DEFINE r == GetLeaf(t, v, b)
<1>1. b \in Getters /\ GetsWords(b) /\ b.in = in /\ b.past = behind /\ b.limit = L
  BY DEF GetArchives
<1>2. r.v \in Objects[t]
  BY <1>1, LeafGot
<1>3. Kind(t) = "fixed" => v \in Seq(Octet) /\ Len(v) = Types[t].len
  BY BytesObjects DEF is_bytes
<1>4. Reads(t, b, r)
  BY <1>1, <1>3, GetStaysWithin DEF Type
<1> HIDE DEF r
<1>5. /\ GetsWords(r.a) /\ r.a.in = in /\ r.a.past = behind
      /\ ~Failed(r.a) => r.a = Skip(b, LeafSize(t, r.v))
  BY <1>1, <1>4 DEF Reads
<1>6. r.a \in Getters
  BY <1>5, GetterTypes
<1>7. \A k : Skip(b, k).limit = L
  BY <1>1 DEF Skip, Getters
<1>8. ~Failed(r.a) => r.a.limit = L
  BY <1>5, <1>7, Zenon
<1>9. r.a \in GetArchives(L, in, behind)
  BY <1>5, <1>6, <1>8 DEF GetArchives
<1> QED
  BY <1>2, <1>9, Zenon DEF Yields, r

LEMMA GetEnters ==
  ASSUME NEW L \in Nat, L # 0, NEW in, NEW behind, NEW b \in GetArchives(L, in, behind), ~Failed(b)
  PROVE  /\ [b EXCEPT !.limit = @ - 1] \in GetArchives(L - 1, in, behind)
         /\ ~Failed([b EXCEPT !.limit = @ - 1])
<1> DEFINE q == [b EXCEPT !.limit = @ - 1]
<1>1. b \in Getters /\ GetsWords(b) /\ b.in = in /\ b.past = behind /\ b.limit = L /\ b.err = "none"
  BY DEF GetArchives, Failed
<1>2. L - 1 \in Nat
  OBVIOUS
<1>3. /\ q \in Getters /\ q.in = in /\ q.past = behind /\ q.limit = L - 1 /\ q.err = "none"
      /\ q.at = b.at
  BY <1>1, <1>2 DEF Getters
<1> HIDE DEF q
<1>4. GetsWords(q)
  BY <1>1, <1>3 DEF GetsWords
<1> QED
  BY <1>3, <1>4 DEF GetArchives, Failed, q

LEMMA GetLeft ==
  ASSUME NEW L \in Nat, NEW in, NEW behind, NEW b \in GetArchives(L - 1, in, behind)
  PROVE  Left(b) \in GetArchives(L, in, behind)
<1> DEFINE q == Left(b)
<1>1. b \in Getters /\ GetsWords(b) /\ b.in = in /\ b.past = behind /\ (~Failed(b) => b.limit = L - 1)
  BY DEF GetArchives
<1>2. CASE Failed(b)
  <2>1. q = b
    BY <1>2 DEF Left
  <2> HIDE DEF q
  <2> QED
    BY <1>1, <1>2, <2>1 DEF GetArchives, q
<1>3. CASE ~Failed(b)
  <2>1. b.kind # "depth"
    BY <1>1 DEF Getters
  <2>2. q = [b EXCEPT !.limit = @ + 1]
    BY <1>3, <2>1 DEF Left
  <2> HIDE DEF q
  <2>3. (L - 1) + 1 = L
    OBVIOUS
  <2>4. /\ q \in Getters /\ q.in = in /\ q.past = behind /\ q.limit = L /\ q.at = b.at
    BY <1>1, <1>3, <2>2, <2>3 DEF Getters
  <2>5. GetsWords(q)
    BY <1>1, <2>4 DEF GetsWords
  <2> QED
    BY <2>4, <2>5 DEF GetArchives, q
<1> QED
  BY <1>2, <1>3

LEMMA AllNeeded ==
  ASSUME NEW t \in Type
  PROVE  Needs(t, Type)
BY InsideTypes, NestedAssumption, TypesAssumption DEF Needs, Type, Container

LEMMA GetTurns ==
  ASSUME RecursiveTypes, RecursiveArchives, NEW in, NEW behind
  PROVE  \A L \in Nat : Turns(GetArchives(L, in, behind), Type)
<1> DEFINE A(L) == GetArchives(L, in, behind)
           T == {L \in Nat : Turns(A(L), Type)}
<1>1. ASSUME NEW L \in Nat, L # 0 => L - 1 \in T
      PROVE  L \in T
  <2>1. ASSUME NEW t \in Type, NEW v \in Objects[t], NEW b \in A(L), ~Failed(b)
        PROVE  Yields(t, A(L), UnarchivePart(t, v, b))
    <3>1. b \in Getters /\ b.kind = "get" /\ b.limit = L
      BY <2>1 DEF GetArchives, Getters
    <3>2. UnarchivePart(t, v, b) = Get(t, v, b)
      <4>1. UnarchivePart(t, v, b) = Unarchive(t, v, b)
        BY <3>1 DEF RecursiveArchives
      <4> QED
        BY <2>1, <3>1, <4>1 DEF Unarchive
    <3>3. CASE Kind(t) \in Leaf
      <4>1. Get(t, v, b) = GetLeaf(t, v, b)
        BY <3>3 DEF Get
      <4>2. Yields(t, A(L), GetLeaf(t, v, b))
        BY <2>1, <3>3, LeafTurns
      <4> QED
        BY <3>2, <4>1, <4>2
    <3>4. CASE Kind(t) \notin Leaf /\ L = 0
      <4> DEFINE c == Raise(b, "stack")
      <4>1. Get(t, v, b) = Gives(v, c)
        BY <3>1, <3>4 DEF Get
      <4>2. c \in A(L)
        BY GetRaises DEF Raises, Exception
      <4> HIDE DEF c
      <4>3. Yields(t, A(L), Gives(v, c))
        BY <4>2, GivesYields
      <4> QED
        BY <3>2, <4>1, <4>3
    <3>5. CASE Kind(t) \notin Leaf /\ L # 0
      <4> DEFINE c == [b EXCEPT !.limit = @ - 1]
                 r == Load(t, v, c)
      <4>1. Get(t, v, b) = Gives(r.v, Left(r.a))
        BY <3>1, <3>5 DEF Get, LeftWith
      <4>2. c \in A(L - 1) /\ ~Failed(c)
        BY <2>1, <3>5, GetEnters
      <4> HIDE DEF c
      <4>3. Turns(A(L - 1), Type) /\ L - 1 \in Nat
        BY <1>1, <3>5
      <4>4. Kind(t) \in Nested
        BY <3>5, Kinds, Zenon
      <4>5. Raises(A(L - 1)) /\ Needs(t, Type)
        BY GetRaises, AllNeeded
      <4> DEFINE B == A(L - 1)
      <4>6. Yields(t, B, r)
        <5> HIDE DEF A
        <5>1. /\ Turns(B, Type) /\ Raises(B) /\ c \in B /\ ~Failed(c)
              /\ r = Load(t, v, c)
          BY <4>2, <4>3, <4>5
        <5> HIDE DEF B, r
        <5> QED
          BY <4>4, <4>5, <5>1, LoadYields
      <4> HIDE DEF r
      <4>7. r.v \in Objects[t] /\ Left(r.a) \in A(L)
        BY <4>6, GetLeft DEF Yields
      <4>8. Yields(t, A(L), Gives(r.v, Left(r.a)))
        <5> DEFINE x == r.v
                   y == Left(r.a)
        <5>1. x \in Objects[t] /\ y \in A(L)
          BY <4>7
        <5> HIDE DEF x, y
        <5>2. Yields(t, A(L), Gives(x, y))
          BY <5>1, GivesYields
        <5> QED
          BY <5>2 DEF x, y
      <4> QED
        BY <3>2, <4>1, <4>8
    <3> QED
      BY <3>3, <3>4, <3>5
  <2>2. Turns(A(L), Type)
    <3> HIDE DEF A
    <3> QED
      BY <2>1, Zenon DEF Turns, Yields
  <2> QED
    BY <2>2
<1>2. 0 \in T
  BY <1>1
<1>3. ASSUME NEW L \in Nat, L \in T
      PROVE  L + 1 \in T
  <2>1. L + 1 \in Nat /\ (L + 1) - 1 = L
    OBVIOUS
  <2> HIDE DEF T
  <2> QED
    BY <1>1, <1>3, <2>1
<1>4. Nat \subseteq T
  <2> HIDE DEF T
  <2> QED
    BY <1>2, <1>3, EveryNat
<1> QED
  BY <1>4

----------------------------------------------------------------------------
(***************************************************************************)
(* xdr_clear.                                                              *)
(***************************************************************************)
Cleared(t, r) == Yields(t, Clearers, r) /\ (~Failed(r.a) => r.v = Default(t))
ClearsPart(t) ==
  \A v \in Objects[t] : \A c \in Clearers : ~Failed(c) => Cleared(t, UnarchivePart(t, v, c))

LEMMA ClearRaises == Raises(Clearers)
BY DEF Raises, Clearers, Raise, Failed, Exception

LEMMA GivesDefault ==
  ASSUME NEW t, NEW c \in Clearers, Default(t) \in Objects[t]
  PROVE  Cleared(t, Gives(Default(t), c))
BY GivesIs DEF Cleared, Yields

LEMMA ClearLeaf ==
  ASSUME RecursiveTypes, RecursiveArchives, NEW t \in Type, Kind(t) \in Leaf,
         NEW v \in Objects[t], NEW c \in Clearers, ~Failed(c)
  PROVE  UnarchivePart(t, v, c) = Gives(Default(t), c)
<1>1. UnarchivePart(t, v, c) = Unarchive(t, v, c)
  BY DEF RecursiveArchives
<1>2. Unarchive(t, v, c) = Clear(t, v, c)
  BY DEF Unarchive, Clearers
<1>3. Kind(t) # "union" /\ Kind(t) \notin Nested
  BY Kinds, Zenon
<1>4. Kind(t) \in Variable => Default(t) = << >>
  BY DEF Default, Variable, Record
<1> QED
  BY <1>1, <1>2, <1>3, <1>4, Zenon DEF Clear

\* Components, one after the other.
LEMMA ClearComponents ==
  ASSUME RecursiveTypes, NEW t \in Type, Kind(t) = "array" \/ Kind(t) \in Record,
         \A e \in Inside(t) : ClearsPart(e),
         NEW v \in Objects[t], NEW a \in Clearers, ~Failed(a)
  PROVE  /\ Cleared(t, LoadFirst(t, Len(v), v, a))
         /\ LET r == LoadFirst(t, Len(v), v, a) IN r = Gives(r.v, r.a)
<1> DEFINE n == Len(v)
           A == Clearers
           Upto(i) == {r \in [v : Objects[t], a : A] :
                         Len(r.v) = n /\ (~Failed(r.a) => \A j \in 1..i : r.v[j] = Default(Component(t, j)))}
           D == [i \in Nat |-> Upto(i)]
<1>0. HasParts(t)
  BY DEF HasParts, Container
<1>3. n \in Nat /\ Counts(t, n) /\ Tuple(v)
  BY <1>0, ObjectParts
<1>1. PICK F : LoadRun(F, t, n, v, a) /\ LoadFirst(t, n, v, a) = F[n]
  BY <1>3, LoadRuns
<1>2. F[0] = Gives(v, a) /\ \A i \in 1..n : F[i] = LoadTurn(t, F[i - 1], i)
  BY <1>1, Zenon DEF LoadRun
<1>4. F[0] \in D[0]
  <2>1. Gives(v, a) \in [v : Objects[t], a : A]
    BY DEF Gives
  <2>2. \A j \in 1..0 : FALSE
    OBVIOUS
  <2> QED
    BY <1>2, <1>3, <2>1, <2>2, GivesIs
<1>5. ASSUME NEW i \in 1..n, F[i - 1] \in D[i - 1]
      PROVE  F[i] \in D[i]
  <2> DEFINE r == F[i - 1]
             e == Component(t, i)
             x == r.v
             p == UnarchivePart(e, x[i], r.a)
             y == [x EXCEPT ![i] = p.v]
  <2>1. i \in Nat /\ i - 1 \in Nat
    BY <1>3
  <2>2. r \in Upto(i - 1)
    BY <1>5, <2>1
  <2>3. /\ x \in Objects[t] /\ r.a \in A /\ Len(x) = n /\ r \in [v : Objects[t], a : A]
        /\ ~Failed(r.a) => \A j \in 1..i - 1 : x[j] = Default(Component(t, j))
    BY <2>2
  <2>5. F[i] = IF Failed(r.a) THEN r ELSE Gives(y, p.a)
    <3>1. F[i] = IF Failed(r.a) THEN r ELSE LoadComponent(t, i, ExtendAt(t, x, i), r.a)
      BY <1>2, Zenon DEF LoadTurn
    <3>2. ExtendAt(t, x, i) = x
      <4>1. ~(i > Len(x))
        BY <1>3, <2>3
      <4> QED
        BY <4>1, Zenon DEF ExtendAt
    <3> QED
      BY <3>1, <3>2, Zenon DEF LoadComponent, ReadInto
  <2>4. i \in 1..Len(x) /\ e \in Inside(t)
    BY <1>3, <2>3, InsideParts
  <2> HIDE DEF r
  <2>6. CASE Failed(r.a)
    <3>1. r \in Upto(i)
      BY <2>3, <2>6
    <3> QED
      BY <2>1, <2>5, <2>6, <3>1
  <2>7. CASE ~Failed(r.a)
    <3> HIDE DEF x
    <3>3. x[i] \in Objects[e]
      BY <1>0, <2>3, <2>4, ObjectParts
    <3>4. Cleared(e, p)
      BY <2>3, <2>4, <2>7, <3>3, Zenon DEF ClearsPart
    <3> HIDE DEF p
    <3>5. p.v \in Objects[e] /\ p.a \in A /\ (~Failed(p.a) => p.v = Default(e))
      BY <3>4, Zenon DEF Cleared, Yields
    <3>6. /\ y \in Objects[t] /\ Len(y) = n /\ y[i] = p.v
          /\ \A j \in 1..n : j # i => y[j] = x[j]
      <4> DEFINE z == p.v
      <4>1. z \in Objects[Component(t, i)]
        BY <3>5
      <4>3. x \in Objects[t] /\ i \in 1..Len(x) /\ HasParts(t)
        BY <1>0, <2>3, <2>4
      <4>4. t \in Type
        OBVIOUS
      <4> HIDE DEF z
      <4>2. /\ [x EXCEPT ![i] = z] \in Objects[t] /\ Len([x EXCEPT ![i] = z]) = Len(x)
            /\ [x EXCEPT ![i] = z][i] = z
            /\ \A j \in 1..Len(x) : j # i => [x EXCEPT ![i] = z][j] = x[j]
        BY <4>1, <4>3, <4>4, PartReplaced
      <4> QED
        BY <2>3, <4>2 DEF z
    <3> HIDE DEF y
    <3>7. F[i] = Gives(y, p.a)
      BY <2>5, <2>7, Zenon
    <3>8. F[i] \in [v : Objects[t], a : A] /\ F[i].v = y /\ F[i].a = p.a
      BY <3>5, <3>6, <3>7 DEF Gives
    <3>9. ASSUME ~Failed(p.a)
          PROVE  \A j \in 1..i : y[j] = Default(Component(t, j))
      <4> TAKE j \in 1..i
      <4>1. CASE j = i
        BY <3>5, <3>6, <3>9, <4>1
      <4>2. CASE j # i
        <5>1. j \in 1..i - 1 /\ j \in 1..n
          BY <1>3, <2>1, <4>2
        <5> QED
          BY <2>3, <2>7, <3>6, <4>2, <5>1
      <4> QED
        BY <4>1, <4>2
    <3>10. F[i] \in Upto(i)
      BY <3>6, <3>8, <3>9
    <3> QED
      BY <2>1, <3>10
  <2> QED
    BY <2>6, <2>7
<1>6. D[n] = Upto(n)
  BY <1>3
<1> HIDE DEF D
<1>7. \A i \in 1..n : F[i - 1] \in D[i - 1] => F[i] \in D[i]
  BY <1>5
<1>12. n = Len(v)
  OBVIOUS
<1> HIDE DEF n
<1>8. \A i \in 0..n : F[i] \in D[i]
  BY <1>3, <1>4, <1>7, RunKeeps
<1>9. F[n] \in Upto(n)
  BY <1>3, <1>6, <1>8
<1> DEFINE r == F[n]
<1>10. /\ r.v \in Objects[t] /\ r.a \in A /\ Len(r.v) = n
       /\ ~Failed(r.a) => \A j \in 1..n : r.v[j] = Default(Component(t, j))
       /\ r = Gives(r.v, r.a)
  BY <1>9 DEF Gives
<1> HIDE DEF r
<1>11. ASSUME ~Failed(r.a)
       PROVE  r.v = Default(t)
  <2> DEFINE x == r.v
             d == Default(t)
  <2>1. /\ Tuple(d) /\ Counts(t, Len(d))
        /\ \A i \in 1..Len(d) : d[i] = DefaultPart(Component(t, i))
    BY DefaultParts
  <2>2. Tuple(x) /\ Counts(t, Len(x)) /\ \A i \in 1..Len(x) : Component(t, i) \in Type
    BY <1>0, <1>10, ObjectParts
  <2>3. Len(x) = Len(d)
    BY <2>1, <2>2 DEF Counts
  <2>4. \A i \in 1..Len(x) : x[i] = Default(Component(t, i))
    BY <1>10, <1>11
  <2> HIDE DEF x, d
  <2>5. \A i \in 1..Len(x) : x[i] = d[i]
    BY <2>1, <2>2, <2>3, <2>4, Zenon DEF RecursiveTypes
  <2>6. x = d
    BY <2>1, <2>2, <2>3, <2>5, TuplesEqual
  <2> QED
    BY <2>6 DEF x, d
<1> QED
  BY <1>1, <1>10, <1>11, <1>12, Zenon DEF r, Cleared, Yields

LEMMA ClearMember ==
  ASSUME RecursiveTypes, RecursiveArchives, NEW t \in Type, Kind(t) = "union", Selects(t, 0),
         \A e \in Inside(t) : ClearsPart(e),
         NEW v \in Objects[t], NEW a \in Clearers, ~Failed(a)
  PROVE  Cleared(t, Load(t, v, a))
<1> DEFINE e == Types[t].tag
           x == WithDisc(t, v, 0)
           f == FieldNo(t, 0)
           p == UnarchivePart(Arm(t, Live(x)), Member(x), a)
           y == [x EXCEPT ![3] = p.v]
           g == LoadArm(t, x, a)
           q == Validate(t, g)
<1>1. e \in Type /\ Kind(e) \in {"u32", "enum"} /\ 0 \in U32
  BY NestedAssumption, SMT DEF Type, U32
<1>2. Default(e) = <<0>> /\ Kind(e) \in Leaf
  BY <1>1 DEF Default, Variable, Record, Leaf, Scalar
<1>3. <<0>> \in Objects[e]
  BY <1>1, NumberObjects
<1>4. UnarchivePart(e, <<0>>, a) = Gives(<<0>>, a)
  BY <1>1, <1>2, <1>3, ClearLeaf
<1>5. Load(t, v, a) = LoadMember(t, v, Gives(<<0>>, a))
  BY <1>4 DEF Load, Variable
<1>6. f > 0 /\ f # NoField /\ f # 0
  BY DEF Selects, NoField
<1>7. LoadMember(t, v, Gives(<<0>>, a)) = q
  <2> DEFINE r == Gives(<<0>>, a)
  <2>1. r.a = a /\ r.v[1] = 0
    BY GivesIs
  <2>2. ~Failed(r.a) /\ FieldNo(t, r.v[1]) = f /\ WithDisc(t, v, r.v[1]) = x
    BY <2>1
  <2> HIDE DEF r, f, x
  <2>3. LoadMember(t, v, r) =
          IF Failed(r.a) THEN Gives(v, r.a)
          ELSE IF f = NoField THEN Gives(v, Raise(r.a, "discriminant"))
          ELSE IF f = 0 THEN Validate(t, Gives(x, r.a))
          ELSE Validate(t, LoadArm(t, x, r.a))
    BY <2>2, Zenon DEF LoadMember
  <2>4. LoadMember(t, v, r) = Validate(t, LoadArm(t, x, a))
    BY <1>6, <2>1, <2>2, <2>3, Zenon
  <2> QED
    BY <2>4 DEF r
<1>8. x \in Objects[t] /\ Disc(x) = 0
  BY <1>1, WithDiscObject
<1> HIDE DEF x
<1>9. Live(x) = f /\ Member(x) \in Objects[Arm(t, f)] /\ Arm(t, f) \in Inside(t) /\ Arm(t, f) \in Type
  BY <1>8, ObjectMember, FieldsAre, Zenon DEF ArmOf
<1>10. Cleared(Arm(t, f), p)
  BY <1>9, Zenon DEF ClearsPart
<1> HIDE DEF p
<1>11. p.v \in Objects[Arm(t, f)] /\ p.a \in Clearers /\ (~Failed(p.a) => p.v = Default(Arm(t, f)))
  BY <1>10, Zenon DEF Cleared, Yields
<1>12. g = Gives(y, p.a)
  BY Zenon DEF LoadArm, ReadInto, p
<1>13. y = Union(0, f, p.v) /\ y \in Objects[t]
  <2> DEFINE z == p.v
  <2>1. z \in Objects[Arm(t, Live(x))] /\ Live(x) > 0
    BY <1>6, <1>9, <1>11
  <2> HIDE DEF z
  <2>2. /\ [x EXCEPT ![3] = z] = Union(Disc(x), Live(x), z)
        /\ Union(Disc(x), Live(x), z) \in Objects[t]
    BY <1>8, <2>1, MemberReplaced
  <2> QED
    BY <1>8, <1>9, <2>2 DEF z
<1> HIDE DEF y, g
<1>14. g.v = y /\ g.a = p.a
  BY <1>12, GivesIs, Zenon
<1>15. g = Gives(g.v, g.a)
  BY <1>12, <1>14, Zenon
<1>16. q.v = g.v /\ q.a \in Clearers /\ (~Failed(q.a) => q = g)
  <2> HIDE DEF q
  <2>1. q = Validate(t, g)
    BY DEF q
  <2> QED
    BY <1>11, <1>14, <1>15, <2>1, ClearRaises, ValidateLeaves
<1> HIDE DEF q
<1>17. ASSUME ~Failed(q.a)
       PROVE  q.v = Default(t)
  <2>1. p.v = Default(Arm(t, f))
    BY <1>11, <1>14, <1>16, <1>17
  <2>2. DefaultPart(Arm(t, f)) = Default(Arm(t, f))
    BY <1>9 DEF RecursiveTypes
  <2>3. UnionOf(t, 0) = Union(0, f, DefaultPart(Arm(t, f)))
    BY <1>6 DEF UnionOf
  <2>4. Default(t) = UnionOf(t, 0)
    BY DEF Default, Variable, Record
  <2> QED
    BY <1>13, <1>14, <1>16, <2>1, <2>2, <2>3, <2>4, Zenon
<1> QED
  BY <1>5, <1>7, <1>13, <1>14, <1>16, <1>17, Zenon DEF Cleared, Yields

LEMMA ClearParts ==
  ASSUME RecursiveTypes, RecursiveArchives
  PROVE  \A t \in Type : ClearsPart(t)
<1> DEFINE S == {t \in Type : ClearsPart(t)}
<1>1. ASSUME NEW t \in Type, Inside(t) \subseteq S
      PROVE  t \in S
  <2>0. \A e \in Inside(t) : ClearsPart(e)
    BY <1>1
  <2>1. ASSUME NEW v \in Objects[t], NEW c \in Clearers, ~Failed(c)
        PROVE  Cleared(t, UnarchivePart(t, v, c))
    <3>0. Default(t) \in Objects[t]
      BY DefaultObjects
    <3>1. UnarchivePart(t, v, c) = Clear(t, v, c)
      <4>1. UnarchivePart(t, v, c) = Unarchive(t, v, c)
        BY DEF RecursiveArchives
      <4>2. Unarchive(t, v, c) = Clear(t, v, c)
        BY <2>1 DEF Unarchive, Clearers
      <4> QED
        BY <4>1, <4>2
    <3>2. CASE Kind(t) \in Leaf
      <4>1. UnarchivePart(t, v, c) = Gives(Default(t), c)
        BY <2>1, <3>2, ClearLeaf
      <4> QED
        BY <3>0, <4>1, GivesDefault
    <3>3. CASE Kind(t) \in {"vector", "pointer"}
      <4>1. Clear(t, v, c) = Gives(<< >>, c) /\ Default(t) = << >>
        BY <3>3 DEF Clear, Variable, Default, Record
      <4>2. Clear(t, v, c) = Gives(Default(t), c)
        BY <4>1
      <4> QED
        BY <3>0, <3>1, <4>2, GivesDefault
    <3>4. CASE Kind(t) = "union" /\ ~Selects(t, 0)
      <4>0. ~(FieldNo(t, 0) > 0) /\ FieldNo(t, 0) <= 0
        BY <3>4, FieldsAre DEF Selects
      <4>1. Clear(t, v, c) = Gives(WithDisc(t, v, 0), c)
        BY <3>4, <4>0 DEF Clear, Variable
      <4>2. Default(t) = NoMember(0)
        BY <3>4, <4>0 DEF Default, Variable, Record, UnionOf
      <4>3. WithDisc(t, v, 0) = NoMember(0)
        <5>1. 0 \in U32
          BY SMT DEF U32
        <5>2. WithDisc(t, v, 0) \in Objects[t] /\ Disc(WithDisc(t, v, 0)) = 0
          BY <3>4, <5>1, WithDiscObject
        <5> QED
          BY <3>4, <5>2, ObjectMember, Zenon
      <4>4. Clear(t, v, c) = Gives(Default(t), c)
        BY <4>1, <4>2, <4>3
      <4> QED
        BY <3>0, <3>1, <4>4, GivesDefault
    <3>5. CASE Kind(t) = "union" /\ Selects(t, 0)
      <4>1. FieldNo(t, 0) > 0 /\ ~(FieldNo(t, 0) <= 0)
        BY <3>5, FieldsAre DEF Selects
      <4>2. Clear(t, v, c) = Load(t, v, c)
        BY <3>5, <4>1 DEF Clear, Variable, Nested
      <4> QED
        BY <2>0, <2>1, <3>1, <3>5, <4>2, ClearMember
    <3>6. CASE Kind(t) = "array"
      <4>1. Clear(t, v, c) = Load(t, v, c)
        BY <3>6 DEF Clear, Variable, Nested, Container
      <4>2. Load(t, v, c) = LoadFirst(t, Len(v), v, c)
        BY <3>6 DEF Load, Variable
      <4>3. Cleared(t, LoadFirst(t, Len(v), v, c))
        BY <2>0, <2>1, <3>6, ClearComponents
      <4> QED
        BY <3>1, <4>1, <4>2, <4>3
    <3>7. CASE Kind(t) \in Record
      <4> DEFINE g == LoadFirst(t, Len(v), v, c)
                 q == Validate(t, g)
      <4>1. Clear(t, v, c) = Load(t, v, c)
        BY <3>7 DEF Clear, Variable, Nested, Record
      <4>2. Load(t, v, c) = q
        BY <3>7 DEF Load, Variable, Record
      <4>3. Cleared(t, g) /\ g = Gives(g.v, g.a)
        BY <2>0, <2>1, <3>7, ClearComponents
      <4> HIDE DEF g
      <4>4. g.v \in Objects[t] /\ g.a \in Clearers /\ (~Failed(g.a) => g.v = Default(t))
        BY <4>3, Zenon DEF Cleared, Yields
      <4>5. q.v = g.v /\ q.a \in Clearers /\ (~Failed(q.a) => q = g)
        <5> HIDE DEF q
        <5>1. q = Validate(t, g)
          BY DEF q
        <5> QED
          BY <4>3, <4>4, <5>1, ClearRaises, ValidateLeaves
      <4>6. Cleared(t, q)
        BY <4>4, <4>5, Zenon DEF Cleared, Yields
      <4> QED
        BY <3>1, <4>1, <4>2, <4>6
    <3> QED
      BY <3>2, <3>3, <3>4, <3>5, <3>6, <3>7, Kinds DEF HasParts, Container
  <2> QED
    BY <2>1, Zenon DEF ClearsPart, S
<1>2. \A t \in Type : t \in S
  <2> HIDE DEF S
  <2> QED
    BY <1>1, EveryType
<1> QED
  BY <1>2

----------------------------------------------------------------------------
(***************************************************************************)
(* The program's objects (XdrObjects).                                     *)
(***************************************************************************)
\* The program's own part: what it assigns are values, what it decodes are bytes.
UsesObjects ==
  /\ Roots \subseteq Type /\ Numbers \subseteq U32 /\ MaxCase \in U32
  /\ \A r \in Roots : Samples[r] \subseteq Objects[r] /\ Messages[r] \subseteq Seq(Octet)

\* Both objects hold values.
HoldValues ==
  /\ root \in Roots /\ past = FALSE
  /\ obj \in [Object -> Objects[root]]

(***************************************************************************)
(* The inductive invariant: the objects hold values, whatever was done to  *)
(* them, unless a copy that threw has just left a union without the member *)
(* that its discriminant selects; then the program does nothing with them. *)
(***************************************************************************)
ObjInv ==
  /\ root \in Roots /\ past = FALSE
  /\ MembersAlive
  /\ Usable => HoldValues

LEMMA RootsAre ==
  ASSUME UsesObjects, NEW r \in Roots
  PROVE  /\ r \in Type /\ Kind(r) = "tuple" /\ HasParts(r) /\ Kind(r) \notin Variable
         /\ Spares[r] \subseteq Nat /\ Samples[r] \subseteq Objects[r]
         /\ Messages[r] \subseteq Seq(Octet)
BY XdrObjectsAssumption DEF UsesObjects, HasParts, Record, Variable

\* xdr_from_msg, of any bytes.
LEMMA FromMsgYields ==
  ASSUME RecursiveTypes, RecursiveArchives, UsesObjects, NEW t \in Roots,
         NEW v \in Objects[t], NEW in \in Seq(Octet)
  PROVE  LET r == xdr_from_msg(t, v, in, StackLimit) IN r.v \in Objects[t] /\ r.a.past = FALSE
<1> DEFINE A == GetArchives(StackLimit, in, FALSE)
           g == Getter(in, StackLimit)
           l == LoadFirst(t, Len(v), v, g)
           r == xdr_from_msg(t, v, in, StackLimit)
<1>0. StackLimit \in Nat /\ Len(in) \in Nat
  BY XdrObjectsAssumption, LenProperties
<1>1. CASE Len(in) % 4 # 0
  <2>1. r = Gives(v, Raise(g, "message size"))
    BY <1>1 DEF xdr_from_msg
  <2>2. Raise(g, "message size").past = FALSE
    BY DEF Raise, Getter
  <2> HIDE DEF r, g
  <2>3. r.v = v /\ r.a = Raise(g, "message size")
    BY <2>1, GivesIs
  <2> QED
    BY <2>2, <2>3 DEF r
<1>2. CASE Len(in) % 4 = 0
  <2>1. GetsWords(g) /\ ~Failed(g) /\ g.in = in /\ g.past = FALSE
    <3>1. 0 \in Nat /\ 0 % 4 = 0 /\ StackLimit \in Nat /\ in \in Seq(Octet) /\ Len(in) % 4 = 0
      BY <1>0, <1>2
    <3>2. /\ PutsWords(Putter(0, StackLimit)) /\ ~Failed(Putter(0, StackLimit))
          /\ Putter(0, StackLimit).out = << >>
          /\ GetsWords(Getter(in, StackLimit)) /\ ~Failed(Getter(in, StackLimit))
          /\ Getter(in, StackLimit).in = in /\ Getter(in, StackLimit).at = 0
          /\ Getter(in, StackLimit).past = FALSE
      BY <3>1, Fresh
    <3> QED
      BY <3>2
  <2>2. g.limit = StackLimit
    BY DEF Getter
  <2>3. g \in A
    <3> HIDE DEF g
    <3> QED
      BY <2>1, <2>2 DEF GetArchives, GetsWords
  <2>4. Turns(A, Type) /\ Raises(A)
    BY <1>0, GetTurns, GetRaises
  <2>5. t \in Type /\ HasParts(t) /\ Needs(t, Type)
    BY RootsAre, AllNeeded
  <2>6. Len(v) \in Nat /\ Counts(t, Len(v)) /\ Len(v) <= Len(v)
    BY <2>5, ObjectParts
  <2> HIDE DEF A, g
  <2>7. l.v \in Objects[t] /\ l.a \in A /\ l = Gives(l.v, l.a)
    <3> DEFINE n == Len(v)
    <3>1. n \in Nat /\ Counts(t, n) /\ Len(v) <= n /\ Len(v) = n
      BY <2>6
    <3> HIDE DEF n
    <3>2. LET q == LoadFirst(t, n, v, g) IN
            q.v \in Objects[t] /\ q.a \in A /\ q = Gives(q.v, q.a)
      BY <2>3, <2>4, <2>5, <3>1, LoadLeaves
    <3> QED
      BY <3>1, <3>2
  <2>8. r = done(l)
    BY <1>2 DEF xdr_from_msg, g
  <2> HIDE DEF l, r
  <2>9. r.v = l.v /\ r.a \in A
    <3>1. CASE l.a.at = Len(l.a.in)
      BY <2>7, <2>8, <3>1 DEF done
    <3>2. CASE l.a.at # Len(l.a.in)
      <4>1. r = [l EXCEPT !.a = Raise(l.a, "message size")]
        BY <2>8, <3>2 DEF done
      <4>2. r = Gives(l.v, Raise(l.a, "message size"))
        <5> DEFINE x == l.v
                   b == l.a
                   c == Raise(b, "message size")
        <5>1. l = Gives(x, b) /\ r = [l EXCEPT !.a = c]
          BY <2>7, <4>1
        <5> HIDE DEF x, b, c
        <5>2. r = Gives(x, c)
          BY <5>1 DEF Gives
        <5> QED
          BY <5>2 DEF x, b, c
      <4>3. Raise(l.a, "message size") \in A
        BY <2>4, <2>7 DEF Raises, Exception
      <4> DEFINE x == l.v
                 c == Raise(l.a, "message size")
      <4>4. r = Gives(x, c) /\ c \in A
        BY <4>2, <4>3
      <4> HIDE DEF x, c
      <4>5. r.v = x /\ r.a = c
        BY <4>4, GivesIs, Zenon
      <4> QED
        BY <4>4, <4>5 DEF x
    <3> QED
      BY <3>1, <3>2
  <2>10. r.a.past = FALSE
    BY <2>9 DEF A, GetArchives
  <2> QED
    BY <2>7, <2>9, <2>10 DEF r
<1> QED
  BY <1>1, <1>2

LEMMA ClearYields ==
  ASSUME RecursiveTypes, RecursiveArchives, NEW t \in Type, NEW v \in Objects[t]
  PROVE  Cleared(t, xdr_clear(t, v))
<1>1. Clearer \in Clearers /\ ~Failed(Clearer)
  BY DEF Clearer, Clearers, Exception, Failed
<1>2. xdr_clear(t, v) = UnarchivePart(t, v, Clearer)
  BY <1>1 DEF xdr_clear, RecursiveArchives
<1> QED
  BY <1>1, <1>2, ClearParts DEF ClearsPart

(***************************************************************************)
(* An operation gives every object a value again, or leaves it as a copy   *)
(* that ran out of memory does.                                            *)
(***************************************************************************)
LEMMA HoldInv ==
  ASSUME RecursiveAlive, UsesObjects, HoldValues
  PROVE  ObjInv
<1>1. root \in Type /\ \A o \in Object : obj[o] \in Objects[root]
  BY RootsAre DEF HoldValues
<1>2. TRUE \in BOOLEAN
  OBVIOUS
<1>3. \A o \in Object : IsAlive(root, obj[o], TRUE)
  BY <1>1, <1>2, AliveObjects, Zenon
<1> QED
  BY <1>3 DEF HoldValues, ObjInv, MembersAlive

LEMMA HoldAlive ==
  ASSUME RecursiveAlive, UsesObjects, HoldValues'
  PROVE  ObjInv'
<1>1. root' \in Type /\ \A o \in Object : obj'[o] \in Objects[root']
  BY RootsAre DEF HoldValues, Object
<1>2. TRUE \in BOOLEAN
  OBVIOUS
<1>3. \A o \in Object : IsAlive(root', obj'[o], TRUE)
  BY <1>1, <1>2, AliveObjects, Zenon
<1> QED
  BY <1>3 DEF HoldValues, ObjInv, MembersAlive, Object

LEMMA BecomesInv ==
  ASSUME RecursiveAlive, UsesObjects, HoldValues, NEW o \in Object,
         NEW v, Remains(root, v), Becomes(o, v)
  PROVE  ObjInv'
<1>1. root' = root /\ past' = past /\ obj' = [obj EXCEPT ![o] = v]
  BY DEF Becomes, Step
<1>2. root \in Roots /\ past = FALSE /\ obj \in [Object -> Objects[root]] /\ root \in Type
  BY RootsAre DEF HoldValues
<1>3. DOMAIN obj' = Object /\ obj'[o] = v /\ \A p \in Object : p # o => obj'[p] = obj[p]
  BY <1>1, <1>2
<1>4. CASE v \in Objects[root]
  <2>1. obj' \in [Object -> Objects[root]]
    BY <1>1, <1>2, <1>4
  <2>2. HoldValues'
    BY <1>1, <1>2, <2>1 DEF HoldValues, Object
  <2> QED
    BY <2>2, HoldAlive
<1>5. CASE Wreck(root, v)
  <2>1. IsAlive(root, v, TRUE) /\ ~IsAlive(root, v, FALSE)
    BY <1>5 DEF Wreck
  <2>2. ~(\A p \in Object : IsAlive(root', obj'[p], FALSE))
    BY <1>1, <1>3, <2>1, Zenon
  <2>3. TRUE \in BOOLEAN
    OBVIOUS
  <2>4. ASSUME NEW p \in Object
        PROVE  IsAlive(root', obj'[p], TRUE)
    <3>1. CASE p = o
      BY <1>1, <1>3, <2>1, <3>1, Zenon
    <3>2. CASE p # o
      <4>1. obj'[p] \in Objects[root]
        BY <1>2, <1>3, <3>2
      <4> QED
        BY <1>1, <1>2, <2>3, <4>1, AliveObjects, Zenon
    <3> QED
      BY <3>1, <3>2
  <2>5. MembersAlive'
    BY <2>4 DEF MembersAlive, Object
  <2>6. ~Usable'
    BY <2>2 DEF Usable, Object
  <2> QED
    BY <1>1, <1>2, <2>5, <2>6 DEF ObjInv
<1> QED
  BY <1>4, <1>5 DEF Remains

LEMMA BecomesHolds ==
  ASSUME RecursiveAlive, UsesObjects, HoldValues, NEW o \in Object,
         NEW v \in Objects[root], Becomes(o, v)
  PROVE  ObjInv'
BY BecomesInv DEF Remains

LEMMA DecodeHolds ==
  ASSUME Recursive, UsesObjects, HoldValues, NEW in \in Messages[root], Decode(in)
  PROVE  ObjInv'
<1> DEFINE r == xdr_from_msg(root, obj[1], in, StackLimit)
<1>1. root \in Roots /\ in \in Seq(Octet) /\ obj[1] \in Objects[root] /\ 1 \in Object
  BY RootsAre DEF HoldValues, Object
<1>2. r.v \in Objects[root] /\ r.a.past = FALSE
  BY <1>1, FromMsgYields DEF Recursive
<1>3. root' = root /\ obj' = [obj EXCEPT ![1] = r.v] /\ past' = r.a.past
  BY DEF Decode, Decoded, Step
<1> HIDE DEF r
<1>4. [obj EXCEPT ![1] = r.v] \in [Object -> Objects[root]]
  BY <1>1, <1>2 DEF HoldValues
<1>5. HoldValues'
  BY <1>2, <1>3, <1>4 DEF HoldValues
<1> QED
  BY <1>5, HoldAlive DEF Recursive

LEMMA AssignHolds ==
  ASSUME Recursive, UsesObjects, HoldValues, NEW o \in Object,
         NEW source \in {obj[3 - o]} \cup Samples[root], NEW spare \in Spares[root],
         Assign(o, source, spare)
  PROVE  ObjInv'
<1> DEFINE c == CopyTo(root, obj[o], source, spare)
<1>1. 3 - o \in Object
  BY DEF Object
<1>2. root \in Type /\ obj[o] \in Objects[root] /\ source \in Objects[root] /\ spare \in Nat
  BY <1>1, RootsAre DEF HoldValues
<1>3. CopiesTo(root, source, c)
  BY <1>2, CopyObjects DEF Recursive, UsesObjects
<1>4. Becomes(o, c.v)
  BY DEF Assign
<1> HIDE DEF c
<1>5. Remains(root, c.v)
  BY <1>2, <1>3, Zenon DEF CopiesTo, CopyShape, Remains
<1> QED
  BY <1>4, <1>5, BecomesInv DEF Recursive

LEMMA MoveHolds ==
  ASSUME Recursive, UsesObjects, HoldValues, NEW o \in Object, Move(o)
  PROVE  ObjInv'
<1>1. root' = root /\ past' = past
      /\ obj' = [p \in Object |-> IF p = o THEN obj[3 - o] ELSE MovedFrom(root, obj[p])]
  BY DEF Move, Step
<1>2. root \in Type /\ \A p \in Object : obj[p] \in Objects[root]
  BY RootsAre DEF HoldValues
<1>3. \A p \in Object : MovedFrom(root, obj[p]) \in Objects[root]
  BY <1>2, MovedObjects DEF Recursive
<1>4. 3 - o \in Object
  BY DEF Object
<1>5. obj' \in [Object -> Objects[root]]
  BY <1>1, <1>2, <1>3, <1>4
<1>6. HoldValues'
  BY <1>1, <1>5 DEF HoldValues
<1> QED
  BY <1>6, HoldAlive DEF Recursive

\* Another member or discriminant of a union that is a field of an object.
LEMMA FieldReplaced ==
  ASSUME RecursiveAlive, UsesObjects, HoldValues, NEW o \in Object, NEW i \in DOMAIN Fields,
         NEW u \in Objects[Fields[i]], Becomes(o, [obj[o] EXCEPT ![i] = u])
  PROVE  ObjInv'
<1> DEFINE x == obj[o]
           y == [x EXCEPT ![i] = u]
<1>1. root \in Type /\ HasParts(root) /\ x \in Objects[root] /\ Kind(root) \in Record
  BY RootsAre DEF HoldValues, Record
<1>2. Component(root, i) = Fields[i] /\ i \in 1..Len(x)
  <2>1. Len(x) = Len(Types[root].fields) /\ Len(x) \in Nat
    BY <1>1, ObjectParts DEF Counts
  <2>2. Types[root].fields \in Seq(DOMAIN Types)
    BY <1>1, NestedAssumption DEF Type
  <2> QED
    BY <1>1, <2>1, <2>2, LenProperties DEF Component, Fields
<1> HIDE DEF x
<1>3. u \in Objects[Component(root, i)]
  BY <1>2
<1>4. y \in Objects[root]
  BY <1>1, <1>2, <1>3, PartReplaced
<1>5. Becomes(o, y)
  BY DEF x
<1> HIDE DEF y
<1> QED
  BY <1>4, <1>5, BecomesHolds

LEMMA FieldObjects ==
  ASSUME UsesObjects, NEW r \in Roots, NEW v \in Objects[r], NEW i \in DOMAIN Types[r].fields
  PROVE  Types[r].fields[i] \in Type /\ v[i] \in Objects[Types[r].fields[i]]
<1>1. r \in Type /\ HasParts(r) /\ Kind(r) \in Record
  BY RootsAre DEF Record
<1>2. Types[r].fields \in Seq(DOMAIN Types)
  BY <1>1, NestedAssumption DEF Type
<1>3. Len(v) = Len(Types[r].fields) /\ Len(v) \in Nat
  BY <1>1, ObjectParts DEF Counts
<1>4. i \in 1..Len(v) /\ Component(r, i) = Types[r].fields[i]
  BY <1>1, <1>2, <1>3, LenProperties DEF Component
<1> QED
  BY <1>1, <1>4, ObjectParts

LEMMA SetTagHolds ==
  ASSUME Recursive, UsesObjects, HoldValues, NEW o \in Object, NEW i \in DOMAIN Fields,
         NEW w \in Numbers, NEW validate, SetTag(o, i, w, validate)
  PROVE  ObjInv'
<1> DEFINE t == Fields[i]
           u == WithDisc(t, obj[o][i], w)
<1>1. t \in Type /\ obj[o][i] \in Objects[t]
  BY FieldObjects DEF HoldValues, Fields
<1>2. Kind(t) = "union" /\ Becomes(o, [obj[o] EXCEPT ![i] = u])
  BY DEF SetTag
<1>3. w \in U32
  BY DEF UsesObjects
<1>4. u \in Objects[t]
  BY <1>1, <1>2, <1>3, WithDiscObject DEF Recursive
<1> HIDE DEF u
<1> QED
  BY <1>2, <1>4, FieldReplaced DEF Recursive

LEMMA SetMemberHolds ==
  ASSUME RecursiveAlive, UsesObjects, HoldValues, NEW o \in Object, NEW i \in DOMAIN Fields,
         NEW s \in Samples[root], Kind(Fields[i]) = "union",
         SetMember(o, i, Live(s[i]), Member(s[i]))
  PROVE  ObjInv'
<1> DEFINE t == Fields[i]
           b == s[i]
           x == Member(b)
           v == obj[o][i]
           u == [v EXCEPT ![3] = x]
<1>1. t \in Type /\ v \in Objects[t] /\ b \in Objects[t]
  BY RootsAre, FieldObjects DEF HoldValues, Fields
<1>2. Live(b) > 0 /\ FieldNo(t, Disc(v)) = Live(b) /\ Becomes(o, [obj[o] EXCEPT ![i] = u])
  BY DEF SetMember
<1> HIDE DEF t, b, v
<1>3. x \in Objects[Arm(t, Live(b))]
  BY <1>1, <1>2, ObjectMember DEF t
<1>4. Live(v) = Live(b)
  BY <1>1, <1>2, ObjectMember DEF t, Selects
<1> HIDE DEF x
<1>5. u \in Objects[t]
  BY <1>1, <1>2, <1>3, <1>4, MemberReplaced DEF t
<1> HIDE DEF u
<1> QED
  BY <1>2, <1>5, FieldReplaced DEF t

LEMMA ClearHolds ==
  ASSUME Recursive, UsesObjects, HoldValues, NEW o \in Object, ClearObject(o)
  PROVE  ObjInv'
<1> DEFINE r == xdr_clear(root, obj[o])
<1>1. root \in Type /\ obj[o] \in Objects[root]
  BY RootsAre DEF HoldValues
<1>2. Cleared(root, r)
  BY <1>1, ClearYields DEF Recursive
<1>3. r.v \in Objects[root]
  BY <1>2 DEF Cleared, Yields
<1>4. Becomes(o, r.v)
  BY DEF ClearObject
<1> HIDE DEF r
<1> QED
  BY <1>3, <1>4, BecomesHolds DEF Recursive

\* An operation is done with objects that can be used.
LEMMA OperationUsable ==
  ASSUME NEW o \in Object, Operation(o)
  PROVE  Usable
BY DEF Operation, Assign, Move, ClearObject, SetTag, SetMember, Becomes, Step

LEMMA ObjectsHold ==
  ASSUME Recursive, UsesObjects
  PROVE  ObjSpec => []ObjInv
<1>0. RecursiveAlive
  BY DEF Recursive
<1>1. ObjInit => ObjInv
  <2> SUFFICES ASSUME ObjInit
               PROVE  ObjInv
    OBVIOUS
  <2>1. root \in Roots /\ past = FALSE /\ obj = [o \in Object |-> Default(root)]
    BY DEF ObjInit
  <2>2. Default(root) \in Objects[root]
    BY <2>1, RootsAre, DefaultObjects DEF Recursive
  <2>3. HoldValues
    BY <2>1, <2>2 DEF HoldValues
  <2> QED
    BY <1>0, <2>3, HoldInv
<1>2. ObjInv /\ [ObjNext]_objvars => ObjInv'
  <2> SUFFICES ASSUME ObjInv, [ObjNext]_objvars
               PROVE  ObjInv'
    OBVIOUS
  <2>1. CASE UNCHANGED objvars
    BY <2>1 DEF objvars, ObjInv, HoldValues, MembersAlive, Usable
  <2>2. ASSUME NEW in \in Messages[root], Decode(in)
        PROVE  ObjInv'
    <3>1. HoldValues
      BY <2>2 DEF Decode, Decoded, Step, ObjInv
    <3> QED
      BY <2>2, <3>1, DecodeHolds
  <2>3. ASSUME NEW o \in Object, Operation(o)
        PROVE  ObjInv'
    <3>0. HoldValues
      BY <2>3, OperationUsable DEF ObjInv
    <3>1. ASSUME NEW source \in {obj[3 - o]} \cup Samples[root], NEW spare \in Spares[root],
                 Assign(o, source, spare)
          PROVE  ObjInv'
      BY <3>0, <3>1, AssignHolds
    <3>2. CASE Move(o)
      BY <3>0, <3>2, MoveHolds
    <3>3. CASE ClearObject(o)
      BY <3>0, <3>3, ClearHolds
    <3>4. ASSUME NEW i \in DOMAIN Fields, NEW w \in Numbers, NEW validate \in BOOLEAN,
                 SetTag(o, i, w, validate)
          PROVE  ObjInv'
      BY <3>0, <3>4, SetTagHolds
    <3>5. ASSUME NEW i \in DOMAIN Fields, NEW s \in Samples[root], Kind(Fields[i]) = "union",
                 SetMember(o, i, Live(s[i]), Member(s[i]))
          PROVE  ObjInv'
      BY <1>0, <3>0, <3>5, SetMemberHolds
    <3> QED
      BY <2>3, <3>1, <3>2, <3>3, <3>4, <3>5, Zenon DEF Operation
  <2> QED
    BY <2>1, <2>2, <2>3, Zenon DEF ObjNext
<1> QED
  BY <1>1, <1>2, PTL DEF ObjSpec

(***************************************************************************)
(* MembersAlive, for any types, messages and operations: whatever was      *)
(* decoded, assigned, moved, cleared or set, and wherever an exception or  *)
(* the end of memory cut that short, every union holds just the member     *)
(* that its discriminant selects, at any depth, or is one whose assignment *)
(* ran out of memory: it has no member, and the largest number as its      *)
(* discriminant, whether or not that selects one (gen_hh.cc:519-531).      *)
(***************************************************************************)
THEOREM ObjectsAlive ==
  ASSUME Recursive, UsesObjects
  PROVE  ObjSpec => []MembersAlive
<1>1. ObjInv => MembersAlive
  BY DEF ObjInv
<1> QED
  BY <1>1, ObjectsHold, PTL

(***************************************************************************)
(* ClearsToDefault: xdr_clear brings any object that the program can have  *)
(* made back to its type's default contents (clear.h:49).                  *)
(***************************************************************************)
THEOREM ObjectsClear ==
  ASSUME Recursive, UsesObjects
  PROVE  ObjSpec => []ClearsToDefault
<1>1. ObjInv => ClearsToDefault
  <2> SUFFICES ASSUME HoldValues, NEW o \in Object
               PROVE  LET r == xdr_clear(root, obj[o]) IN ~Failed(r.a) => r.v = Default(root)
    BY DEF ClearsToDefault, ObjInv
  <2>1. root \in Type /\ obj[o] \in Objects[root]
    BY RootsAre DEF HoldValues
  <2>2. Cleared(root, xdr_clear(root, obj[o]))
    BY <2>1, ClearYields DEF Recursive
  <2> QED
    BY <2>2 DEF Cleared
<1> QED
  BY <1>1, ObjectsHold, PTL

(***************************************************************************)
(* xdr_from_msg never looks behind the end of a message, for any types and *)
(* any bytes in the message, valid or not (marshal.h:163-196).             *)
(***************************************************************************)
THEOREM DecodingStays ==
  ASSUME Recursive, UsesObjects
  PROVE  ObjSpec => [](~past)
<1>1. ObjInv => ~past
  BY DEF ObjInv
<1> QED
  BY <1>1, ObjectsHold, PTL
=============================================================================
