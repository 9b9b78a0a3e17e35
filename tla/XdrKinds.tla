------------------------------ MODULE XdrKinds ------------------------------
(***************************************************************************)
(* The XDR types of a program, as xdr_traits tells them apart (types.h).   *)
(* Types describes each type by its kind and                               *)
(*   enum [tags, checked]   fixed [len]          bytes [max]               *)
(*   array [elem, len]      vector [elem, max]   pointer [elem]            *)
(*   struct, tuple [fields, refuse]                                        *)
(*   union [tag, cases, default, arms, refuse]                             *)
(* "fixed" is opaque_array, "bytes" xstring or opaque_vec; refuse holds    *)
(* the values the type's validate throws for; cases and default give       *)
(* _xdr_field_number, 0 for void and NoField for none.                     *)
(***************************************************************************)
EXTENDS Sequences, Padding

CONSTANT Types  \* the descriptions, by the types' names

Kind(t) == Types[t].kind
Scalar == {"u32", "bool", "enum"}
is_bytes == {"fixed", "bytes"}
Leaf == Scalar \cup {"u64"} \cup is_bytes
Record == {"struct", "tuple"}
Container == {"array", "vector", "pointer"}
Nested == Container \cup Record \cup {"union"}  \* is_class or is_container
Variable == {"bytes", "vector", "pointer"}      \* variable_nelem

enum_values(t) == Types[t].tags

\* The type of component i; how many components check_size admits.
Component(t, i) == IF Kind(t) \in Record THEN Types[t].fields[i] ELSE Types[t].elem
MaxSize(t) == IF Kind(t) = "pointer" THEN 1 ELSE Types[t].max
Zeros(n) == [i \in 1..n |-> 0]

\* serial_size of a number or of bytes; only the type "bytes" looks at the value.
LeafSize(t, v) ==
  CASE Kind(t) \in Scalar -> 4
    [] Kind(t) = "u64" -> 8
    [] Kind(t) = "fixed" -> Padded(Types[t].len)
    [] Kind(t) = "bytes" -> WithLength(Len(v))

ASSUME TypesAssumption ==
  /\ "u32" \in DOMAIN Types /\ Kind("u32") = "u32"
  /\ \A t \in DOMAIN Types : /\ Kind(t) = "bytes" => Types[t].max \in Nat
                             /\ Kind(t) = "fixed" => Types[t].len \in Nat
=============================================================================
