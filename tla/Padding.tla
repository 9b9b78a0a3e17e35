------------------------------ MODULE Padding ------------------------------
(***************************************************************************)
(* The arithmetic of XDR's units of 4 bytes (types.h, marshal.h).          *)
(***************************************************************************)
EXTENDS Integers

\* Bytes that n bytes of opaque data take: (n + 3) & ~3.
Padded(n) == ((n + 3) \div 4) * 4

\* Variant: the length word is not counted.
WithoutLength(n) == Padded(n)

\* The same with the length word in front: (n + 7) & ~3.
WithLength(n) == ((n + 7) \div 4) * 4

\* check(n): n more bytes are within the room that is left.
Fits(n, room) == n <= room
=============================================================================
