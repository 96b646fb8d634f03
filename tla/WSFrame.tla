-------------------------------- MODULE WSFrame --------------------------------
(***************************************************************************)
(* The frame headers of cmd/server/ws.go: wsWriteFrame encodes a length,   *)
(* wsReadFrame decodes one.  Bytes are numbers below 256.                  *)
(*                                                                         *)
(* wsReadFrame asks the reader once for a field of several bytes and does  *)
(* not look at how many it was given; here the field has arrived whole.    *)
(***************************************************************************)
EXTENDS Naturals, Sequences

MaxFrame == 1048576

\* byte(n >> 8*k): byte k of a number, from the low end.
Byte(n, k) == (n \div (256 ^ k)) % 256

\* Lengths fit in 31 bits, so the upper half of the eight bytes is zero.
EightBytes(n) == <<0, 0, 0, 0, Byte(n, 3), Byte(n, 2), Byte(n, 1), Byte(n, 0)>>

\* Faulty variant: 65536 is given the form of two bytes, where it is zero.
LengthBytes_OffByOne(n) ==
  IF n < 126 THEN <<n>>
  ELSE IF n <= 65536 THEN <<126, Byte(n, 1), Byte(n, 0)>>
  ELSE <<127>> \o EightBytes(n)

\* wsWriteFrame: the bytes after the first.
LengthBytes(n) ==
  IF n < 126 THEN <<n>>
  ELSE IF n < 65536 THEN <<126, Byte(n, 1), Byte(n, 0)>>
  ELSE <<127>> \o EightBytes(n)

\* A client sets the mask bit and appends a mask of four bytes.
Masked(h) == [h EXCEPT ![1] = @ + 128] \o <<7, 7, 7, 7>>

\* The number in the w bytes of h after the first, high end first.
Field(h, w) ==
  LET prefix[k \in 0..w] == IF k = 0 THEN 0 ELSE prefix[k - 1] * 256 + h[k + 1]
  IN  prefix[w]

\* How many bytes of a length follow one whose low seven bits are short.
WideField(short) == IF short = 126 THEN 2 ELSE IF short = 127 THEN 8 ELSE 0

\* The answer for a header h with the length n in a field of w bytes: how many
\* bytes of h it takes, or an error if the length is above the limit.
Answer(h, w, n) ==
  IF n > MaxFrame THEN [error |-> TRUE]
  ELSE [error |-> FALSE, length |-> n,
        used |-> 1 + w + (IF h[1] >= 128 THEN 4 ELSE 0)]

\* wsReadFrame on the bytes h after the opcode.
ReadLength(h) ==
  LET short == h[1] % 128
      w == WideField(short)
  IN  Answer(h, w, IF w = 0 THEN short ELSE Field(h, w))
===============================================================================
