----------------------------- MODULE RibsuUtil -----------------------------
(***************************************************************************)
(* The byte buffers of ribsu-util.c.  A buffer is the sequence of its len  *)
(* bytes; its capacity max is an argument where the code compares with it. *)
(***************************************************************************)
EXTENDS Integers, Sequences

Byte == 0 .. 255

\* buf_append leaves dst alone when the sum does not fit.
BufAppend(dst, src, max) ==
    IF Len(dst) + Len(src) > max THEN dst ELSE dst \o src

\* buf_slide drops the first k bytes.
BufSlide(buf, k) ==
    IF k >= Len(buf) THEN <<>> ELSE SubSeq(buf, k + 1, Len(buf))

\* The bcopy of k zero bytes over the front of a buffer that holds them.
ZeroFront(buf, k) ==
    [i \in 1 .. Len(buf) |-> IF i <= k THEN 0 ELSE buf[i]]
=============================================================================
