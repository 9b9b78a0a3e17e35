------------------------------ MODULE XdrTypes ------------------------------
(***************************************************************************)
(* XDR values in memory (types.h) and the unions xdrc generates for them   *)
(* (gen_hh.cc): default values, marshaled sizes, comparison, assignment.   *)
(*                                                                         *)
(* A value is a tuple: <<n>>, <<high, low>> for u64, the bytes, or the     *)
(* components.  That of a union is <<discriminant, live, member>>, where   *)
(* live = <<f>> when the member numbered f is constructed, <<0>> for none: *)
(* the program has no such variable, it goes by the discriminant.          *)
(*                                                                         *)
(* What the code does with a value it does with each part of it by calling *)
(* the same function template for the part's type.  The constants ...Part  *)
(* stand for these calls: MCXdr gives them the operators themselves        *)
(* (SizePart is SerialSize), and so ties the recursion.                    *)
(***************************************************************************)
EXTENDS XdrKinds

CONSTANTS
  MaxCase,  \* numeric_limits<_xdr_case_type>::max()
  DefaultPart(_), FixedSizePart(_), SizePart(_, _),
  ComparePart(_, _, _), EqualPart(_, _, _),
  AllocationsPart(_, _), CopyPart(_, _, _, _), MovedPart(_, _)

NoField == -1

\* The types of the objects that lie inside an object of type t.
Inside(t) ==
  CASE Kind(t) = "array" -> {Types[t].elem}
    [] Kind(t) \in Record -> {Types[t].fields[i] : i \in DOMAIN Types[t].fields}
    [] Kind(t) = "union" -> {Types[t].arms[i] : i \in DOMAIN Types[t].arms}
    [] OTHER -> {}

\* What a C++ program's types are like: none lies inside itself.
ASSUME NestedAssumption ==
  /\ MaxCase \in Nat
  /\ \A t \in DOMAIN Types :
       /\ Kind(t) \in Leaf \cup Nested
       /\ Kind(t) \in Container => Types[t].elem \in DOMAIN Types
       /\ Kind(t) = "array" => Types[t].len \in Nat
       /\ Kind(t) = "vector" => Types[t].max \in Nat
       /\ Kind(t) \in Record => Types[t].fields \in Seq(DOMAIN Types)
       /\ Kind(t) = "union" =>
            LET Field == NoField .. Len(Types[t].arms) IN
            /\ Types[t].tag \in DOMAIN Types /\ Kind(Types[t].tag) \in {"u32", "enum"}
            /\ Types[t].arms \in Seq(DOMAIN Types) /\ Types[t].default \in Field
            /\ \A w \in DOMAIN Types[t].cases : Types[t].cases[w] \in Field
  /\ \A S \in SUBSET DOMAIN Types : S # {} => \E t \in S : Inside(t) \cap S = {}

----------------------------------------------------------------------------
(***************************************************************************)
(* Unions: which member a discriminant selects, and the change of it.      *)
(***************************************************************************)
FieldNo(t, w) == IF w \in DOMAIN Types[t].cases THEN Types[t].cases[w] ELSE Types[t].default
Arm(t, f) == Types[t].arms[f]
Disc(u) == u[1][1]
Live(u) == u[2][1]
Member(u) == u[3]
Union(w, f, m) == << <<w>>, <<f>>, m>>
NoMember(w) == Union(w, 0, << >>)

\* The union's constructor: with the member of w, if it has one.
UnionOf(t, w) ==
  IF FieldNo(t, w) > 0 THEN Union(w, FieldNo(t, w), DefaultPart(Arm(t, FieldNo(t, w))))
  ELSE NoMember(w)

Default(t) ==
  CASE Kind(t) = "u64" -> <<0, 0>>
    [] Kind(t) = "fixed" -> Zeros(Types[t].len)
    [] Kind(t) \in Variable -> << >>
    [] Kind(t) = "array" -> [i \in 1..Types[t].len |-> DefaultPart(Types[t].elem)]
    [] Kind(t) \in Record -> [i \in DOMAIN Types[t].fields |-> DefaultPart(Types[t].fields[i])]
    [] Kind(t) = "union" -> UnionOf(t, 0)
    [] OTHER -> <<0>>

\* _xdr_discriminant(w, ...) of a w it accepts.
WithDisc(t, u, w) ==
  IF FieldNo(t, w) = FieldNo(t, Disc(u)) THEN [u EXCEPT ![1] = <<w>>] ELSE UnionOf(t, w)

----------------------------------------------------------------------------
(***************************************************************************)
(* xdr_size.  Unsized: the type has no fixed size, or the size cannot be   *)
(* told since a discriminant selects nothing (xdr_bad_discriminant).       *)
(***************************************************************************)
Unsized == -1
Sum(ns) == LET sum[i \in 0..Len(ns)] == IF i = 0 THEN 0 ELSE sum[i - 1] + ns[i] IN sum[Len(ns)]
Total(sizes) == IF \E i \in DOMAIN sizes : sizes[i] = Unsized THEN Unsized ELSE Sum(sizes)

FixedSize(t) ==
  CASE Kind(t) \in Leaf \ Variable -> LeafSize(t, << >>)
    [] Kind(t) = "array" -> Total([i \in 1..Types[t].len |-> FixedSizePart(Types[t].elem)])
    [] Kind(t) \in Record ->
         Total([i \in DOMAIN Types[t].fields |-> FixedSizePart(Types[t].fields[i])])
    [] OTHER -> Unsized
fixed_size == [t \in DOMAIN Types |-> FixedSize(t)]

\* The sizes of the components of a container or a record.
Sizes(t, v) == [i \in DOMAIN v |-> SizePart(Component(t, i), v[i])]

UnionSize(t, u) ==
  CASE FieldNo(t, Disc(u)) = NoField -> Unsized
    [] FieldNo(t, Disc(u)) = 0 -> 4
    [] OTHER -> Total(<<4, SizePart(Arm(t, FieldNo(t, Disc(u))), Member(u))>>)

SerialSize(t, v) ==
  IF fixed_size[t] # Unsized THEN fixed_size[t]
  ELSE IF Kind(t) = "bytes" THEN LeafSize(t, v)
  ELSE IF Kind(t) \in {"vector", "pointer"} THEN Total(<<4>> \o Sizes(t, v))
  ELSE IF Kind(t) = "union" THEN UnionSize(t, v)
  ELSE Total(Sizes(t, v))

----------------------------------------------------------------------------
(***************************************************************************)
(* operator== and operator<=>.                                             *)
(***************************************************************************)
Sign(n) == CASE n < 0 -> -1 [] n = 0 -> 0 [] OTHER -> 1

\* The sign of the first component that tells two sequences apart, or that of the
\* excess of the first one's length.
Differ(signs) == {i \in DOMAIN signs : signs[i] # 0}
Lexicographic(signs, excess) ==
  IF Differ(signs) = {} THEN Sign(excess)
  ELSE signs[CHOOSE i \in Differ(signs) : \A j \in Differ(signs) : i <= j]

Common(a, b) == DOMAIN a \cap DOMAIN b

\* Variant: the members are compared, the discriminants are not.
ComparesMembersOnly(t, a, b) ==
  LET f == FieldNo(t, Disc(a)) IN
  IF f # FieldNo(t, Disc(b)) THEN Sign(Disc(a) - Disc(b))
  ELSE IF f > 0 THEN ComparePart(Arm(t, f), Member(a), Member(b)) ELSE 0

CompareUnions(t, a, b) ==
  LET f == FieldNo(t, Disc(a)) IN
  IF Disc(a) # Disc(b) THEN Sign(Disc(a) - Disc(b))
  ELSE IF f > 0 THEN ComparePart(Arm(t, f), Member(a), Member(b)) ELSE 0

Compare(t, a, b) ==
  IF Kind(t) = "union" THEN CompareUnions(t, a, b)
  ELSE IF Kind(t) \in Nested THEN
         Lexicographic([i \in Common(a, b) |-> ComparePart(Component(t, i), a[i], b[i])],
                       Len(a) - Len(b))
  ELSE Lexicographic([i \in Common(a, b) |-> Sign(a[i] - b[i])], Len(a) - Len(b))

EqualUnions(t, a, b) ==
  /\ Disc(a) = Disc(b)
  /\ LET f == FieldNo(t, Disc(a)) IN f > 0 => EqualPart(Arm(t, f), Member(a), Member(b))

Equal(t, a, b) ==
  IF Kind(t) = "union" THEN EqualUnions(t, a, b)
  ELSE IF Kind(t) \in Nested THEN
         Len(a) = Len(b) /\ \A i \in DOMAIN a : EqualPart(Component(t, i), a[i], b[i])
  ELSE a = b

----------------------------------------------------------------------------
(***************************************************************************)
(* Copying.  spare allocations succeed, the next one throws.  A copy is    *)
(* [v, spare, ok]: the destination afterwards, the allocations left, and   *)
(* whether it came to its end; without ok, a new copy is no object.        *)
(***************************************************************************)
Copied(v, spare) == [v |-> v, spare |-> spare, ok |-> TRUE]
Thrown(v) == [v |-> v, spare |-> 0, ok |-> FALSE]

\* Blocks of memory a new copy of v takes, apart from v's own.
Allocations(t, v) ==
  IF Kind(t) = "bytes" THEN Sign(Len(v))
  ELSE IF Kind(t) = "union" THEN
         IF Live(v) > 0 THEN AllocationsPart(Arm(t, Live(v)), Member(v)) ELSE 0
  ELSE IF Kind(t) \in Nested THEN
         (IF Kind(t) \in Variable THEN Sign(Len(v)) ELSE 0)
           + Sum([i \in DOMAIN v |-> AllocationsPart(Component(t, i), v[i])])
  ELSE 0

\* The copy constructor into a place where nothing is; v stays there if it throws.
CopyOver(t, v, source, spare) ==
  IF Allocations(t, source) <= spare
  THEN Copied(source, spare - Allocations(t, source)) ELSE Thrown(v)

\* Component i of a copy that came that far.
CopyComponent(t, i, c, source) ==
  LET part == CopyPart(Component(t, i), c.v[i], source[i], c.spare)
  IN  [part EXCEPT !.v = [c.v EXCEPT ![i] = part.v]]

\* Component by component, up to one that throws; then the surplus goes.
CopyComponents(t, v, source, spare) ==
  LET copy[i \in 0..Len(source)] ==
        IF i = 0 THEN Copied(v, spare)
        ELSE LET c == copy[i - 1] IN IF c.ok THEN CopyComponent(t, i, c, source) ELSE c
      all == copy[Len(source)]
  IN  IF all.ok THEN [all EXCEPT !.v = SubSeq(@, 1, Len(source))] ELSE all

\* Variant: the old discriminant stays until the copy is made.
KeepsOldDisc(t, u, source, spare) ==
  LET f == FieldNo(t, Disc(source))
      c == IF f > 0 THEN CopyOver(Arm(t, f), << >>, Member(source), spare)
           ELSE Copied(<< >>, spare)
  IN  IF c.ok THEN Copied(Union(Disc(source), IF f > 0 THEN f ELSE 0, c.v), c.spare)
      ELSE Thrown(NoMember(Disc(u)))

\* A copy of another member: the old one is destroyed first, and while the
\* new one is made the discriminant is MaxCase.
ReplaceMember(t, u, source, spare) ==
  LET f == FieldNo(t, Disc(source))
      c == IF f > 0 THEN CopyOver(Arm(t, f), << >>, Member(source), spare)
           ELSE Copied(<< >>, spare)
  IN  IF c.ok THEN Copied(Union(Disc(source), IF f > 0 THEN f ELSE 0, c.v), c.spare)
      ELSE Thrown(NoMember(MaxCase))

\* A copy of the same member is assigned; the discriminant follows.
CopyMember(t, u, source, spare) ==
  LET c == IF Live(u) > 0 THEN CopyPart(Arm(t, Live(u)), Member(u), Member(source), spare)
           ELSE Copied(<< >>, spare)
  IN  [c EXCEPT !.v = Union(IF c.ok THEN Disc(source) ELSE Disc(u), Live(u), c.v)]

\* operator=(const T &).  A sequence that grows is copied whole (its capacity
\* is taken to be its size), one that does not is assigned in place.
CopyTo(t, v, source, spare) ==
  IF Kind(t) = "union" THEN
         IF FieldNo(t, Disc(v)) = FieldNo(t, Disc(source))
         THEN CopyMember(t, v, source, spare) ELSE ReplaceMember(t, v, source, spare)
  ELSE IF Kind(t) \in Variable /\ Len(source) > Len(v) THEN CopyOver(t, v, source, spare)
  ELSE IF Kind(t) \in Nested THEN CopyComponents(t, v, source, spare)
  ELSE Copied(source, spare)

\* What operator=(T &&) leaves in its source: sequences and pointers are
\* empty, a union keeps its discriminant and its member.  An xarray declares a
\* copy assignment and no move: it is copied, and so keeps what it holds.
MovedFrom(t, v) ==
  IF Kind(t) \in Variable THEN << >>
  ELSE IF Kind(t) = "union" THEN
         IF Live(v) > 0 THEN [v EXCEPT ![3] = MovedPart(Arm(t, Live(v)), @)] ELSE v
  ELSE IF Kind(t) \in Record THEN [i \in DOMAIN v |-> MovedPart(Component(t, i), v[i])]
  ELSE v
=============================================================================
