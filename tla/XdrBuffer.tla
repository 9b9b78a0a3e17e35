----------------------------- MODULE XdrBuffer -----------------------------
(***************************************************************************)
(* The archives that marshal to and from a buffer, xdr_put and xdr_get     *)
(* (marshal.h, marshal.cc): what they do with numbers and bytes, the only  *)
(* values they put into the buffer or take from it.  An archive's err is   *)
(* the exception that is on its way, or "none".                            *)
(***************************************************************************)
EXTENDS XdrKinds

Raise(a, e) == IF a.err = "none" THEN [a EXCEPT !.err = e] ELSE a
Failed(a) == a.err # "none"

\* The 4 bytes of a number, the most significant first, and back.
Word(n) == <<n \div 16777216, (n \div 65536) % 256, (n \div 256) % 256, n % 256>>
Number(w) == ((w[1] * 256 + w[2]) * 256 + w[3]) * 256 + w[4]

----------------------------------------------------------------------------
(***************************************************************************)
(* xdr_put.  out: the bytes put so far; end: the size of the buffer; limit:*)
(* stack_limit.                                                            *)
(***************************************************************************)
Putter(end, limit) == [kind |-> "put", out |-> << >>, end |-> end, limit |-> limit, err |-> "none"]

Write(a, n, bytes) ==
  IF Fits(n, a.end - Len(a.out)) THEN [a EXCEPT !.out = @ \o bytes] ELSE Raise(a, "overflow")

put_bytes(v) == v \o Zeros(Padded(Len(v)) - Len(v))

\* check(4 + size), the length word, the bytes.
PutBytes(t, v, a) ==
  IF Kind(t) = "bytes" THEN Write(a, 4 + Len(v), Word(Len(v)) \o put_bytes(v))
  ELSE Write(a, Len(v), put_bytes(v))

\* xdr_generic_put::operator() of a number or of bytes.
PutLeaf(t, v, a) ==
  IF Kind(t) \in is_bytes THEN PutBytes(t, v, a)
  ELSE IF Kind(t) = "u64" THEN Write(a, 8, Word(v[1]) \o Word(v[2]))
  ELSE Write(a, 4, Word(v[1]))

----------------------------------------------------------------------------
(***************************************************************************)
(* xdr_get.  A result is [v, a]: the value and the archive afterwards.     *)
(* in: the message; at: the bytes consumed; past: a byte behind the        *)
(* message was looked at.                                                  *)
(***************************************************************************)
Getter(in, limit) ==
  [kind |-> "get", in |-> in, at |-> 0, limit |-> limit, past |-> FALSE, err |-> "none"]

Gives(v, a) == [v |-> v, a |-> a]
HasRoom(a, n) == Fits(n, Len(a.in) - a.at)
Skip(a, n) == [a EXCEPT !.at = @ + n]
WordAt(a, k) == SubSeq(a.in, a.at + k + 1, a.at + k + 4)

from_uint(t, n) == IF Kind(t) = "bool" /\ n # 0 THEN 1 ELSE n
validate_enum(t, n) == Kind(t) = "enum" /\ Types[t].checked => n \in enum_values(t)

\* The value is assigned, then looked at.
Scan(t, n, a) ==
  Gives(<<from_uint(t, n)>>, IF validate_enum(t, n) THEN a ELSE Raise(a, "invariant"))
GetScalar(t, v, a) ==
  IF HasRoom(a, 4) THEN Scan(t, Number(WordAt(a, 0)), Skip(a, 4))
  ELSE Gives(v, Raise(a, "overflow"))

GetU64(v, a) ==
  IF HasRoom(a, 8)
  THEN Gives(<<Number(WordAt(a, 0)), Number(WordAt(a, 4))>>, Skip(a, 8))
  ELSE Gives(v, Raise(a, "overflow"))

\* get_bytes: n bytes, then the padding, which is to be zero.
CopyBytes(n, a) ==
  IF n = 0 THEN Gives(<< >>, a)
  ELSE IF n > Len(a.in) \/ a.at + Padded(n) > Len(a.in) THEN Gives(<< >>, [a EXCEPT !.past = TRUE])
  ELSE Gives(SubSeq(a.in, a.at + 1, a.at + n),
                      IF \E k \in a.at + n + 1 .. a.at + Padded(n) : a.in[k] # 0
                      THEN Raise(a, "should be zero") ELSE Skip(a, Padded(n)))

\* Variant: the length is not held against what is left of the message.
TrustsLength(t, n, v, a) ==
  IF n > MaxSize(t) THEN Gives(v, Raise(a, "overflow")) ELSE CopyBytes(n, a)

\* The length n has been read: check(size), check_size, resize, get_bytes.
GetCounted(t, n, v, a) ==
  IF ~HasRoom(a, n) \/ n > MaxSize(t) THEN Gives(v, Raise(a, "overflow")) ELSE CopyBytes(n, a)
GetBytes(t, v, a) ==
  IF HasRoom(a, 4) THEN GetCounted(t, Number(WordAt(a, 0)), v, Skip(a, 4))
  ELSE Gives(v, Raise(a, "overflow"))
GetFixed(t, v, a) ==
  IF HasRoom(a, Len(v)) THEN CopyBytes(Len(v), a) ELSE Gives(v, Raise(a, "overflow"))

\* xdr_generic_get::operator() of a number or of bytes.
GetLeaf(t, v, a) ==
  IF Kind(t) = "bytes" THEN GetBytes(t, v, a)
  ELSE IF Kind(t) = "fixed" THEN GetFixed(t, v, a)
  ELSE IF Kind(t) = "u64" THEN GetU64(v, a)
  ELSE GetScalar(t, v, a)
=============================================================================
