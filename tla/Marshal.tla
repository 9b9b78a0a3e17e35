------------------------------ MODULE Marshal ------------------------------
(***************************************************************************)
(* Traversals of XDR values (archives): xdr_put and xdr_get (marshal.h),   *)
(* the depth checker (depth_checker.h) and xdr_clear (clear.h).  save and  *)
(* load of the traits (types.h, gen_hh.cc) know only that an archive can   *)
(* be applied to a value; each archive is a record whose kind says what it *)
(* does then.                                                              *)
(***************************************************************************)
EXTENDS XdrTypes, XdrBuffer

CONSTANTS ArchivePart(_, _, _), UnarchivePart(_, _, _)  \* archive(a, v) of a part

----------------------------------------------------------------------------
(***************************************************************************)
(* Archives that only look at a value.                                     *)
(***************************************************************************)
DepthChecker(limit) ==
  [kind |-> "depth", limit |-> limit, current |-> 0, within |-> TRUE, err |-> "none"]

\* The first n components, up to one that fails.
SaveFirst(t, n, v, a) ==
  LET save[i \in 0..n] ==
        IF i = 0 THEN a
        ELSE LET b == save[i - 1] IN IF Failed(b) THEN b ELSE ArchivePart(Component(t, i), v[i], b)
  IN  save[n]

\* a has put the discriminant.
SaveMember(t, u, a) ==
  CASE FieldNo(t, Disc(u)) = NoField -> Raise(a, "discriminant")
    [] FieldNo(t, Disc(u)) = 0 -> a
    [] OTHER -> ArchivePart(Arm(t, FieldNo(t, Disc(u))), Member(u), a)

\* xdr_traits<T>::save.
Save(t, v, a) ==
  CASE Kind(t) = "union" -> SaveMember(t, v, ArchivePart(Types[t].tag, v[1], a))
    [] Kind(t) \in Variable -> SaveFirst(t, Len(v), v, ArchivePart("u32", <<Len(v)>>, a))
    [] OTHER -> SaveFirst(t, Len(v), v, a)

\* Leaving a level: with an exception, nothing is counted back.
Left(a) ==
  IF Failed(a) THEN a
  ELSE IF a.kind = "depth" THEN [a EXCEPT !.current = @ - 1]
  ELSE [a EXCEPT !.limit = @ + 1]

\* xdr_generic_put::operator().
Put(t, v, a) ==
  IF Kind(t) \in Leaf THEN PutLeaf(t, v, a)
  ELSE IF a.limit = 0 THEN Raise(a, "stack")
  ELSE Left(Save(t, v, [a EXCEPT !.limit = @ - 1]))

\* Variant: a level once entered is never left.
NeverLeaves(t, v, a) ==
  IF Kind(t) \notin Nested \/ ~a.within THEN a
  ELSE IF a.current + 1 > a.limit THEN [a EXCEPT !.within = FALSE]
  ELSE Save(t, v, [a EXCEPT !.current = @ + 1])

\* depth_checker::operator().
CheckDepth(t, v, a) ==
  IF Kind(t) \notin Nested \/ ~a.within THEN a
  ELSE IF a.current + 1 > a.limit THEN [a EXCEPT !.current = @ + 1, !.within = FALSE]
  ELSE Left(Save(t, v, [a EXCEPT !.current = @ + 1]))

\* archive(a, v).
Archive(t, v, a) ==
  IF Failed(a) THEN a
  ELSE IF a.kind = "put" THEN Put(t, v, a)
  ELSE CheckDepth(t, v, a)

check_xdr_depth(t, v, limit) == Archive(t, v, DepthChecker(limit))

----------------------------------------------------------------------------
(***************************************************************************)
(* Archives that write to a value.  A result is [v, a], as with GetLeaf.   *)
(***************************************************************************)
Clearer == [kind |-> "clear", err |-> "none"]

\* extend_at(i): a container grows by one default element.
ExtendAt(t, v, i) == IF i > Len(v) THEN Append(v, Default(Types[t].elem)) ELSE v

\* A component of v gives way to what r read.
ReadInto(v, i, r) == Gives([v EXCEPT ![i] = r.v], r.a)
LoadComponent(t, i, v, a) == ReadInto(v, i, UnarchivePart(Component(t, i), v[i], a))

\* The first n components, up to one that fails.
LoadFirst(t, n, v, a) ==
  LET load[i \in 0..n] ==
        IF i = 0 THEN Gives(v, a)
        ELSE LET r == load[i - 1]
             IN  IF Failed(r.a) THEN r ELSE LoadComponent(t, i, ExtendAt(t, r.v, i), r.a)
  IN  load[n]

\* Variant: what the container held before stays behind what is read.
KeepsRest(t, v, r) ==
  IF Failed(r.a) THEN Gives(v, r.a)
  ELSE IF r.v[1] > MaxSize(t) THEN Gives(v, Raise(r.a, "overflow"))
  ELSE LoadFirst(t, r.v[1], v, r.a)

ResizeDown(v, n) == IF Len(v) > n THEN SubSeq(v, 1, n) ELSE v

\* load of a vector or a pointer, r being its length: surplus elements go, the
\* others are reused.
LoadElements(t, v, r) ==
  IF Failed(r.a) THEN Gives(v, r.a)
  ELSE IF r.v[1] > MaxSize(t) THEN Gives(v, Raise(r.a, "overflow"))
  ELSE LoadFirst(t, r.v[1], ResizeDown(v, r.v[1]), r.a)

Validate(t, r) == IF r.v \in Types[t].refuse THEN [r EXCEPT !.a = Raise(@, "invariant")] ELSE r

\* load of a union, r being its discriminant: the change to it, then the member.
LoadArm(t, u, a) == ReadInto(u, 3, UnarchivePart(Arm(t, Live(u)), Member(u), a))
LoadMember(t, u, r) ==
  IF Failed(r.a) THEN Gives(u, r.a)
  ELSE IF FieldNo(t, r.v[1]) = NoField THEN Gives(u, Raise(r.a, "discriminant"))
  ELSE IF FieldNo(t, r.v[1]) = 0 THEN Validate(t, Gives(WithDisc(t, u, r.v[1]), r.a))
  ELSE Validate(t, LoadArm(t, WithDisc(t, u, r.v[1]), r.a))

\* xdr_traits<T>::load.
Load(t, v, a) ==
  CASE Kind(t) = "union" -> LoadMember(t, v, UnarchivePart(Types[t].tag, <<0>>, a))
    [] Kind(t) \in Variable -> LoadElements(t, v, UnarchivePart("u32", <<0>>, a))
    [] Kind(t) = "array" -> LoadFirst(t, Len(v), v, a)
    [] OTHER -> Validate(t, LoadFirst(t, Len(v), v, a))

LeftWith(r) == Gives(r.v, Left(r.a))

\* xdr_generic_get::operator().
Get(t, v, a) ==
  IF Kind(t) \in Leaf THEN GetLeaf(t, v, a)
  ELSE IF a.limit = 0 THEN Gives(v, Raise(a, "stack"))
  ELSE LeftWith(Load(t, v, [a EXCEPT !.limit = @ - 1]))

\* Variant: a union whose discriminant is zero already is left as it is.
LeavesUnion(t, v, a) ==
  IF Kind(t) \in Variable THEN Gives(<< >>, a)
  ELSE IF Kind(t) = "union" /\ Disc(v) = 0 THEN Gives(v, a)
  ELSE IF Kind(t) = "union" THEN Gives(WithDisc(t, v, 0), a)
  ELSE IF Kind(t) \in Nested THEN Load(t, v, a)
  ELSE Gives(Default(t), a)

\* xdr_clear_t::operator().
Clear(t, v, a) ==
  IF Kind(t) \in Variable THEN Gives(<< >>, a)
  ELSE IF Kind(t) = "union" /\ FieldNo(t, 0) <= 0 THEN Gives(WithDisc(t, v, 0), a)
  ELSE IF Kind(t) \in Nested THEN Load(t, v, a)
  ELSE Gives(Default(t), a)

\* archive(a, v) of an archive that writes.
Unarchive(t, v, a) ==
  IF Failed(a) THEN Gives(v, a)
  ELSE IF a.kind = "get" THEN Get(t, v, a)
  ELSE Clear(t, v, a)

xdr_clear(t, v) == Unarchive(t, v, Clearer)

----------------------------------------------------------------------------
(***************************************************************************)
(* Messages: a series of values, marshaled one after the other.            *)
(***************************************************************************)
\* The messages' values are given as the components of a tuple of type args.
xdr_argpack_size(args, vs) == Total(Sizes(args, vs))

\* The archive after xdr_to_msg; a size that cannot be told throws at once.
ToBuffer(args, vs, size, limit) ==
  IF size = Unsized THEN Raise(Putter(0, limit), "discriminant")
  ELSE SaveFirst(args, Len(vs), vs, Putter(size, limit))
xdr_to_msg(args, vs, limit) == ToBuffer(args, vs, xdr_argpack_size(args, vs), limit)

\* xdr_from_msg: the constructor's test, the values in turn, done().
done(r) == IF r.a.at # Len(r.a.in) THEN [r EXCEPT !.a = Raise(@, "message size")] ELSE r
xdr_from_msg(args, vs, in, limit) ==
  IF Len(in) % 4 # 0 THEN Gives(vs, Raise(Getter(in, limit), "message size"))
  ELSE done(LoadFirst(args, Len(vs), vs, Getter(in, limit)))
=============================================================================
