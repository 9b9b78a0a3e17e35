------------------------------- MODULE MCXdr -------------------------------
EXTENDS XdrObjects, TLC

Simple(k) == [kind |-> k]
\* The constants' values are definitions of their own, so that TLC evaluates them once.
TypeTable ==
  [u32 |-> Simple("u32"), u64 |-> Simple("u64"), bool |-> Simple("bool"),
   color |-> [kind |-> "enum", tags |-> {0, 1, 4}, checked |-> TRUE],
   name |-> [kind |-> "bytes", max |-> 5],
   blob |-> [kind |-> "fixed", len |-> 3],
   pair |-> [kind |-> "array", elem |-> "color", len |-> 2],
   arm |-> [kind |-> "union", tag |-> "u32", cases |-> 1 :> 1 @@ 2 :> 2 @@ 3 :> 0 @@ 5 :> 2,
            default |-> NoField, arms |-> <<"bool", "name">>,
            refuse |-> {Union(2, 2, <<9>>)}],
   arms |-> [kind |-> "vector", elem |-> "arm", max |-> 2],
   opt |-> [kind |-> "union", tag |-> "color", cases |-> 0 :> 1 @@ 1 :> 2,
            default |-> 0, arms |-> <<"list", "pair">>, refuse |-> {}],
   node |-> [kind |-> "struct", fields |-> <<"bool", "list">>, refuse |-> {<< <<1>>, <<>> >>}],
   list |-> [kind |-> "pointer", elem |-> "node"],
   call |-> [kind |-> "tuple", fields |-> <<"u32", "arm">>, refuse |-> {}],
   tree |-> [kind |-> "tuple", fields |-> <<"opt", "blob">>, refuse |-> {}],
   many |-> [kind |-> "tuple", fields |-> <<"u64", "arms">>, refuse |-> {}],
   pick |-> [kind |-> "union", tag |-> "u32", cases |-> 0 :> 1, default |-> 2,
             arms |-> <<"bool", "names">>, refuse |-> {}],
   names |-> [kind |-> "array", elem |-> "name", len |-> 2],
   picks |-> [kind |-> "tuple", fields |-> <<"u32", "pick">>, refuse |-> {}]]

RootsUsed == {"call", "tree", "many", "picks"}

PickRoots == {"picks"}

SparesUsed == [r \in RootsUsed |-> 0..2]

Flag(b) == Union(1, 1, <<b>>)
Flag0 == Union(0, 1, <<1>>)
Name(w, bytes) == Union(w, 2, bytes)
Nothing == NoMember(3)
Single == << << <<0>>, << >> >> >>
Double == << << <<1>>, Single>> >>

SampleTable ==
  [call |-> {<< <<7>>, a>> : a \in {Flag(1), Name(2, <<8, 8>>), Name(5, <<1, 2, 3, 4, 5, 6>>), Nothing}},
   tree |-> {<<u, <<1, 2, 3>> >> : u \in {Union(0, 1, Single), Union(0, 1, Double),
                                         Union(1, 2, << <<4>>, <<1>> >>), NoMember(4)}},
   many |-> {<< <<1, 2>>, v>> : v \in {<<Flag(0)>>, <<Name(2, <<3>>), Name(5, <<4, 5>>)>>,
                                      <<Nothing, Name(2, <<6>>)>>, <<Flag(1), Flag(0), Flag(0)>>}},
   picks |-> {<< <<7>>, Flag0>>, << <<7>>, Name(1, << <<1, 2>>, <<3>> >>)>>}]

Encodings(r) ==
  {xdr_to_msg(r, s, Unlimited).out : s \in SampleTable[r]}
HostileWords == {Word(n) : n \in {0, 1, 2, 5, 2147483647}}
Replaced(e, k, w) == [i \in DOMAIN e |-> IF (i - 1) \div 4 = k THEN w[i - 4 * k] ELSE e[i]]
\* The encodings of the samples, cut off after any word and inside the last,
\* with another word in each place, and with one word too many.
MessageTable ==
  [r \in DOMAIN SampleTable |->
     UNION {{SubSeq(e, 1, n) : n \in {4 * k : k \in 0 .. Len(e) \div 4} \cup {Len(e) - 1}}
            \cup {Replaced(e, k, w) : k \in 0 .. Len(e) \div 4 - 1, w \in HostileWords}
            \cup {e \o Word(0)} : e \in Encodings(r)}]

TypesUsed == TypeTable
SamplesUsed == SampleTable
MessagesUsed == MessageTable

\* The operators applied to parts: themselves.  (Each is a LET because TLC, when it
\* counts what is evaluated, would unfold any other body without end; and one that
\* occurs in a guard is compared with TRUE, so that it is no conjunct.)
DefaultPartUsed(t) == LET r == Default(t) IN r
FixedSizePartUsed(t) == LET r == FixedSize(t) IN r
SizePartUsed(t, v) == LET r == SerialSize(t, v) IN r
ComparePartUsed(t, v, w) == LET r == Compare(t, v, w) IN r
EqualPartUsed(t, v, w) == LET r == Equal(t, v, w) IN r
AllocationsPartUsed(t, v) == LET r == Allocations(t, v) IN r
CopyPartUsed(t, v, w, x) == LET r == CopyTo(t, v, w, x) IN r
MovedPartUsed(t, v) == LET r == MovedFrom(t, v) IN r
ArchivePartUsed(t, v, a) == LET r == Archive(t, v, a) IN r
UnarchivePartUsed(t, v, a) == LET r == Unarchive(t, v, a) IN r
AlivePartUsed(t, v, b) == LET r == IsAlive(t, v, b) IN r = TRUE
ValidPartUsed(t, v) == LET r == IsValid(t, v) IN r
=============================================================================
