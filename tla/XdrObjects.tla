---------------------------- MODULE XdrObjects ----------------------------
(***************************************************************************)
(* A program that uses two XDR objects of one type: it decodes messages    *)
(* into the first, right and wrong ones, and assigns, moves, clears and    *)
(* changes both.  Memory may run out in the middle of a copy assignment    *)
(* (that it does so in a move, which copies arrays, or while decoding is   *)
(* left out).  A copy that throws may leave a union without the member     *)
(* that its discriminant selects: nothing is said of what is done then.    *)
(* The objects' type is a tuple: its components are what xdr_to_msg and    *)
(* xdr_from_msg are called with, as a call's header and argument are.      *)
(***************************************************************************)
EXTENDS Marshal

CONSTANTS
  Roots,       \* the types of the objects
  Samples,     \* per root, the values the program assigns
  Messages,    \* per root, the messages that are decoded
  Numbers,     \* the discriminants the program sets
  StackLimit,  \* marshaling_stack_limit
  Spares,      \* bound: per root, how many allocations succeed before memory runs out
  MaxOps,      \* bound: operations on the objects
  AlivePart(_, _, _), ValidPart(_, _)  \* IsAlive, IsValid of a part

ASSUME XdrObjectsAssumption ==
  /\ {StackLimit, MaxOps} \subseteq Nat /\ Numbers \subseteq Nat
  /\ \A r \in Roots : /\ Kind(r) = "tuple" /\ Types[r].refuse = {}
                      /\ Spares[r] \subseteq Nat

VARIABLES
  root,      \* the objects' type
  obj,       \* the two objects
  accepted,  \* the message the first object was decoded from, or no bytes
  past,      \* a decoding looked behind the end of its message
  ops        \* operations so far

objvars == <<root, obj, accepted, past, ops>>

Fields == Types[root].fields
Object == 1..2

ObjInit ==
  /\ root \in Roots
  /\ obj = [o \in Object |-> Default(root)]
  /\ accepted = << >> /\ past = FALSE /\ ops = 0

(***************************************************************************)
(* In every union in v, at any depth, the member that the discriminant     *)
(* selects is the one that is constructed; or, if torn, the discriminant   *)
(* is the one that operator= leaves when the copy of a member throws.      *)
(***************************************************************************)
IsAlive(t, v, torn) ==
  IF Kind(t) = "union" THEN
         \/ torn /\ v = NoMember(MaxCase)
         \/ LET f == FieldNo(t, Disc(v)) IN
            /\ Live(v) = IF f > 0 THEN f ELSE 0
            /\ IF f > 0 THEN AlivePart(Arm(t, f), Member(v), torn) ELSE Member(v) = << >>
  ELSE IF Kind(t) \in Nested THEN \A i \in DOMAIN v : AlivePart(Component(t, i), v[i], torn)
  ELSE IF Kind(t) = "fixed" THEN Len(v) = Types[t].len
  ELSE \A i \in DOMAIN v : v[i] \in Nat

(***************************************************************************)
(* The objects can be used and destroyed, whatever was done with them: the *)
(* line that sets the discriminant to the largest number before a member   *)
(* is copied "might help with exceptions" (gen_hh.cc:523).                 *)
(***************************************************************************)
Usable == \A o \in Object : IsAlive(root, obj[o], FALSE)

\* An operation of the program on object o.
Step(o) == ops < MaxOps /\ ops' = ops + 1 /\ Usable /\ UNCHANGED root
Becomes(o, v) ==
  /\ Step(o) /\ obj' = [obj EXCEPT ![o] = v]
  /\ accepted' = IF o = 1 THEN << >> ELSE accepted
  /\ UNCHANGED past

\* xdr_from_msg(in, ...), r being what it gives.
Decoded(in, r) ==
  /\ Step(1) /\ obj' = [obj EXCEPT ![1] = r.v]
  /\ accepted' = IF Failed(r.a) THEN << >> ELSE in
  /\ past' = r.a.past
Decode(in) == Decoded(in, xdr_from_msg(root, obj[1], in, StackLimit))

\* a = b, where b is the other object or a value of the program.
Assign(o, source, spare) ==
  Becomes(o, CopyTo(root, obj[o], source, spare).v)

\* a = std::move(b).
Move(o) ==
  /\ Step(o) /\ obj' = [p \in Object |-> IF p = o THEN obj[3 - o] ELSE MovedFrom(root, obj[p])]
  /\ accepted' = << >> /\ UNCHANGED past

ClearObject(o) == Becomes(o, xdr_clear(root, obj[o]).v)

\* u.tag(w, validate): without validate, w may select nothing.
SetTag(o, i, w, validate) ==
  /\ Kind(Fields[i]) = "union"
  /\ validate => FieldNo(Fields[i], w) # NoField
  /\ Becomes(o, [obj[o] EXCEPT ![i] = WithDisc(Fields[i], @, w)])

\* u.f() = x: any other member throws xdr_wrong_union.
SetMember(o, i, f, x) ==
  /\ Kind(Fields[i]) = "union"
  /\ f > 0 /\ FieldNo(Fields[i], Disc(obj[o][i])) = f
  /\ Becomes(o, [obj[o] EXCEPT ![i] = [@ EXCEPT ![3] = x]])

Operation(o) ==
  \/ \E source \in {obj[3 - o]} \cup Samples[root], spare \in Spares[root] :
       Assign(o, source, spare)
  \/ Move(o)
  \/ ClearObject(o)
  \/ \E i \in DOMAIN Fields, w \in Numbers, validate \in BOOLEAN : SetTag(o, i, w, validate)
  \/ \E i \in DOMAIN Fields, s \in Samples[root] :
       Kind(Fields[i]) = "union" /\ SetMember(o, i, Live(s[i]), Member(s[i]))

ObjNext ==
  \/ \E in \in Messages[root] : Decode(in)
  \/ \E o \in Object : Operation(o)

ObjSpec == ObjInit /\ [][ObjNext]_objvars

----------------------------------------------------------------------------
(***************************************************************************)
(* In every union, at any depth, the member that the discriminant selects  *)
(* is the one that is constructed, what accessors, destructors and saves   *)
(* rely on, after decoding that failed half-way, after moves, and after an *)
(* assignment that ran out of memory (gen_hh.cc, _xdr_discriminant and     *)
(* operator=): but for a union in which that assignment destroyed a member *)
(* and could not make the other, which has none and the largest number as  *)
(* its discriminant.                                                       *)
(***************************************************************************)
MembersAlive == \A o \in Object : IsAlive(root, obj[o], TRUE)

\* A value the type's definition allows.
IsValid(t, v) ==
  CASE Kind(t) = "enum" -> validate_enum(t, v[1])
    [] Kind(t) = "bytes" -> Len(v) <= MaxSize(t)
    [] Kind(t) = "union" ->
         LET f == FieldNo(t, Disc(v)) IN
         /\ f # NoField /\ v \notin Types[t].refuse /\ ValidPart(Types[t].tag, v[1])
         /\ f > 0 => ValidPart(Arm(t, f), Member(v))
    [] Kind(t) \in Container \cup Record ->
         /\ Kind(t) \in Variable => Len(v) <= MaxSize(t)
         /\ Kind(t) \in Record => v \notin Types[t].refuse
         /\ \A i \in DOMAIN v : ValidPart(Component(t, i), v[i])
    [] OTHER -> TRUE

\* A limit above the program's own, that its values stay within.
Unlimited == StackLimit + 1000
Encoding(v) == xdr_to_msg(root, v, Unlimited)

(***************************************************************************)
(* A value its type allows comes back whatever the object it is decoded    *)
(* into held before; any other is refused, when it is marshaled or when it *)
(* is unmarshaled (types.h:473, xvector; marshal.h, xdr_from_msg).         *)
(***************************************************************************)
ComesBack(v, e, r) ==
  IF IsValid(root, v) THEN ~Failed(e) /\ ~Failed(r.a) /\ r.v = v ELSE Failed(e) \/ Failed(r.a)
RoundTrip ==
  Usable => \A o \in Object :
    LET e == Encoding(obj[o]) IN
    ComesBack(obj[o], e, xdr_from_msg(root, obj[3 - o], e.out, Unlimited))

(***************************************************************************)
(* xdr_size is the number of bytes put: the buffer xdr_to_msg allocates is *)
(* filled to its end (marshal.h:258), never overrun, and always enough.    *)
(***************************************************************************)
SizeExact ==
  Usable => \A o \in Object :
    LET e == Encoding(obj[o]) IN
    /\ ~Failed(e) => Len(e.out) = xdr_argpack_size(root, obj[o])
    /\ e.err # "overflow"

(***************************************************************************)
(* No message makes a decoding look behind its end, whatever lengths and   *)
(* discriminants it holds and wherever it is cut off (marshal.h:185).  A   *)
(* message that is accepted says nothing more than the value does: it is   *)
(* the value's encoding, words of that which end in 1 aside, since TRUE is *)
(* read from any number but 0.                                             *)
(***************************************************************************)
NeverReadsPast ==
  /\ ~past
  /\ accepted # << >> =>
       LET e == Encoding(obj[1]) IN
       /\ ~Failed(e) /\ Len(e.out) = Len(accepted)
       /\ \A k \in DOMAIN e.out :
            e.out[k] = accepted[k] \/ e.out[((k - 1) \div 4) * 4 + 4] = 1

(***************************************************************************)
(* check_xdr_depth foretells, for every limit, whether marshaling and      *)
(* unmarshaling with that marshaling_stack_limit throw xdr_stack_overflow  *)
(* (depth_checker.h:50, marshal.h:130).                                    *)
(***************************************************************************)
DepthAgrees ==
  Usable =>
  LET e == Encoding(obj[1]) IN
  ~Failed(e) =>
    \A limit \in 0..StackLimit :
      LET within == \A i \in DOMAIN Fields : check_xdr_depth(Fields[i], obj[1][i], limit).within
      IN  /\ within <=> xdr_to_msg(root, obj[1], limit).err # "stack"
          /\ IsValid(root, obj[1]) =>
               (within <=> xdr_from_msg(root, obj[2], e.out, limit).a.err # "stack")

(***************************************************************************)
(* operator<=> is an order that agrees with operator==, and two objects    *)
(* are equal just when they have the same encoding (types.h, comparison of *)
(* structs, unions and pointers).                                          *)
(***************************************************************************)
OrderAgrees ==
  Usable =>
  LET c == Compare(root, obj[1], obj[2])
      e == Equal(root, obj[1], obj[2])
  IN  /\ Compare(root, obj[2], obj[1]) = -c
      /\ e <=> c = 0
      /\ LET p == Encoding(obj[1])  q == Encoding(obj[2]) IN
         ~Failed(p) /\ ~Failed(q) => (e <=> p.out = q.out)
      /\ \A s \in Samples[root] :
           c <= 0 /\ Compare(root, obj[2], s) <= 0 => Compare(root, obj[1], s) <= 0

(***************************************************************************)
(* xdr_clear resets an object, whatever was done with it before, to its    *)
(* default contents (clear.h:49), unless the type's validate refuses them. *)
(***************************************************************************)
ClearsToDefault ==
  Usable => \A o \in Object :
    LET r == xdr_clear(root, obj[o]) IN ~Failed(r.a) => r.v = Default(root)
=============================================================================
