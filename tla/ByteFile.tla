------------------------------ MODULE ByteFile ------------------------------
(***************************************************************************)
(* What a regular file promises its users: it is a sequence of bytes.  A   *)
(* write puts its bytes at an offset, and a gap before them reads as       *)
(* zeros; a truncation cuts the sequence or extends it with zeros.         *)
(***************************************************************************)
EXTENDS Naturals, Sequences

CONSTANT Zero      \* what was never written reads as

VARIABLE content

At(k) == IF k <= Len(content) THEN content[k] ELSE Zero

Init == content = <<>>

Write(off, src) ==
    LET end == off + Len(src)
    IN content' = [k \in 1..(IF end > Len(content) THEN end ELSE Len(content))
                     |-> IF k \in (off + 1)..end THEN src[k - off] ELSE At(k)]

Truncate(n) == content' = [k \in 1..n |-> At(k)]

Replace(src) == content' = src
=============================================================================
