------------------------------- MODULE Bytes -------------------------------
(***************************************************************************)
(* Byte buffers as sequences of 0..255, with the code's offsets, which      *)
(* count from 0.  A read outside a buffer has no value here and would stop  *)
(* TLC: it is the code's index panic.                                       *)
(***************************************************************************)
EXTENDS Integers, Sequences

At(b, i)       == b[i + 1]
U16(b, i)      == 256 * At(b, i) + At(b, i + 1)
Slice(b, i, j) == SubSeq(b, i + 1, j)
BE16(v)        == <<v \div 256, v % 256>>

\* b with the bytes of s written at offset i
Patched(b, i, s) ==
    [k \in DOMAIN b |-> IF k - i \in DOMAIN s THEN s[k - i] ELSE b[k]]
=============================================================================
