-------------------------- MODULE ChunkedFileProofs --------------------------
(***************************************************************************)
(* Proofs about the rows of a regular file, for any chunk size, any bytes  *)
(* and any bound on the size.                                              *)
(*                                                                         *)
(* Rows are compared with the bytes promised place by place: a place of a  *)
(* chunk is one offset of the file, and a row that is missing or too short *)
(* reads as zeros there (ByteAt).  The first parts say where chunks begin, *)
(* which of them a write is about, and how the sequences the model is      *)
(* built from read; then each way to change rows is shown to change the    *)
(* places it is about and no other.                                        *)
(***************************************************************************)
EXTENDS MCChunkedFile, SequenceTheorems, TLAPS

-----------------------------------------------------------------------------
(* Offsets and chunks *)

(* Where a chunk begins. *)
Base(i) == i * ChunkSize

(* An offset is in one chunk, at one place.                                *)
LEMMA Chunking ==
    ASSUME NEW k \in Nat
    PROVE  /\ k \div ChunkSize \in Nat /\ k % ChunkSize \in 0..(ChunkSize - 1)
           /\ k = Base(k \div ChunkSize) + (k % ChunkSize)
BY ChunkAssumption DEF Base

(* Chunks begin at offsets.                                                *)
LEMMA BaseIsNumber ==
    ASSUME NEW i \in Nat
    PROVE  Base(i) \in Nat
<1>1. ChunkSize \in Nat
    BY ChunkAssumption
<1> QED
    BY <1>1 DEF Base

(* The places of a chunk are numbers.                                      *)
LEMMA PlaceIsNumber ==
    ASSUME NEW j \in 1..ChunkSize
    PROVE  j \in Nat \ {0}
<1>1. ChunkSize \in Nat
    BY ChunkAssumption
<1> QED
    BY <1>1

(* The next chunk begins where one ends.                                   *)
LEMMA BasesGrow ==
    ASSUME NEW i \in Nat
    PROVE  /\ Base(i) \in Nat /\ Base(i + 1) = Base(i) + ChunkSize
           /\ \A j \in Nat : i < j => Base(i) + ChunkSize <= Base(j)
<1>1. Base(i) \in Nat
    BY BaseIsNumber
<1>2. Base(i + 1) = Base(i) + ChunkSize
    BY ChunkAssumption DEF Base
<1>3. ASSUME NEW j \in Nat, i < j PROVE Base(i) + ChunkSize <= Base(j)
  <2>1. PICK d \in Nat : j = i + 1 + d
    <3>1. j - i - 1 \in Nat
        BY <1>3
    <3> QED
        BY <3>1
  <2>2. Base(j) = Base(i) + ChunkSize + d * ChunkSize
      BY <2>1, ChunkAssumption DEF Base
  <2>3. d * ChunkSize \in Nat
      BY ChunkAssumption
  <2>4. Base(j) \in Nat
      BY <2>2, <2>3, <1>1, ChunkAssumption
  <2> QED
      BY <2>2, <2>3, <2>4, <1>1, ChunkAssumption
<1> QED
    BY <1>1, <1>2, <1>3

(* A place of a chunk is an offset.                                        *)
LEMMA Places ==
    ASSUME NEW i \in Nat, NEW j \in 1..ChunkSize
    PROVE  j \in Nat \ {0} /\ Base(i) \in Nat /\ Base(i) + j \in Nat \ {0}
<1>1. j \in Nat \ {0} /\ Base(i) \in Nat
    BY BaseIsNumber, PlaceIsNumber
<1> QED
    BY <1>1

(* The chunk of an offset is the one around it.                            *)
LEMMA ChunkOf ==
    ASSUME NEW i \in Nat, NEW k \in Nat, Base(i) <= k, k < Base(i) + ChunkSize
    PROVE  k \div ChunkSize = i /\ k % ChunkSize = k - Base(i)
<1> DEFINE q == k \div ChunkSize
           r == k % ChunkSize
<1>1. /\ q \in Nat /\ r \in Int /\ 0 <= r /\ r < ChunkSize /\ k = Base(q) + r
      /\ ChunkSize \in Nat
    BY Chunking, ChunkAssumption
<1>2. Base(i) \in Nat /\ Base(q) \in Nat
    BY <1>1, BasesGrow
<1> HIDE DEF q, r
<1>3. ~(i < q)
  <2> SUFFICES ASSUME i < q PROVE FALSE
      OBVIOUS
  <2>1. Base(i) + ChunkSize <= Base(q)
      BY <1>1, BasesGrow
  <2> QED
      BY <1>1, <1>2, <2>1
<1>4. ~(q < i)
  <2> SUFFICES ASSUME q < i PROVE FALSE
      OBVIOUS
  <2>1. Base(q) + ChunkSize <= Base(i)
      BY <1>1, BasesGrow
  <2> QED
      BY <1>1, <1>2, <2>1
<1>5. q = i
    BY <1>1, <1>3, <1>4
<1>6. r = k - Base(i)
    BY <1>1, <1>2, <1>5
<1> QED
    BY <1>5, <1>6 DEF q, r

(* The chunks up to the last of n bytes are those that begin before n.     *)
LEMMA UpToLast ==
    ASSUME NEW n \in Nat \ {0}
    PROVE  /\ LastChunk(n) \in Nat
           /\ \A i \in Nat : i <= LastChunk(n) <=> Base(i) < n
           /\ Base(LastChunk(n)) < n /\ n <= Base(LastChunk(n)) + ChunkSize
<1> DEFINE q == LastChunk(n)
<1>1. n - 1 \in Nat
    OBVIOUS
<1>2. /\ q \in Nat /\ Base(q) <= n - 1 /\ n - 1 < Base(q) + ChunkSize
      /\ ChunkSize \in Nat /\ Base(q) \in Nat
  <2> DEFINE r == (n - 1) % ChunkSize
  <2>1. /\ q \in Nat /\ r \in Int /\ 0 <= r /\ r < ChunkSize /\ n - 1 = Base(q) + r
        /\ ChunkSize \in Nat
      BY <1>1, Chunking, ChunkAssumption DEF LastChunk
  <2>2. Base(q) \in Nat
      BY <2>1, BasesGrow
  <2> HIDE DEF q, r
  <2> QED
      BY <2>1, <2>2
<1> HIDE DEF q
<1>3. ASSUME NEW i \in Nat PROVE i <= q <=> Base(i) < n
  <2>1. Base(i) \in Nat
      BY BasesGrow
  <2>2. CASE i < q
    <3>1. Base(i) + ChunkSize <= Base(q)
        BY <1>2, <2>2, BasesGrow
    <3> QED
        BY <1>2, <2>1, <2>2, <3>1
  <2>3. CASE i = q
      BY <1>2, <2>3
  <2>4. CASE q < i
    <3>1. Base(q) + ChunkSize <= Base(i)
        BY <1>2, <2>4, BasesGrow
    <3> QED
        BY <1>2, <2>1, <2>4, <3>1
  <2> QED
      BY <1>2, <2>2, <2>3, <2>4
<1>4. Base(q) < n /\ n <= Base(q) + ChunkSize
    BY <1>2
<1> QED
    BY <1>2, <1>3, <1>4 DEF q

-----------------------------------------------------------------------------
(* Sequences of bytes, read as if zeros followed *)

(* Zeros are the bytes that are read where there are none.                 *)
LEMMA ZerosRead ==
    ASSUME NEW n \in Nat
    PROVE  /\ Zeros(n) \in Seq(Byte) /\ Len(Zeros(n)) = n
           /\ \A j \in Nat : ByteAt(Zeros(n), j) = Zero
<1>1. Zeros(n) \in [1..n -> Byte]
    BY ChunkAssumption DEF Zeros
<1>2. Zeros(n) \in Seq(Byte) /\ Len(Zeros(n)) = n
    BY <1>1
<1>3. \A j \in 1..n : Zeros(n)[j] = Zero
    BY DEF Zeros
<1> QED
    BY <1>2, <1>3 DEF ByteAt

(* Two sequences, one after the other.                                     *)
LEMMA ConcatReads ==
    ASSUME NEW s \in Seq(Byte), NEW t \in Seq(Byte)
    PROVE  /\ s \o t \in Seq(Byte) /\ Len(s \o t) = Len(s) + Len(t)
           /\ \A j \in Nat \ {0} :
                 ByteAt(s \o t, j) = IF j <= Len(s) THEN ByteAt(s, j)
                                    ELSE ByteAt(t, j - Len(s))
<1> DEFINE u == s \o t
           m == Len(s)
           n == Len(t)
<1>1. m \in Nat /\ n \in Nat
    BY LenProperties
<1>2. u \in Seq(Byte) /\ Len(u) = m + n
    BY ConcatProperties
<1>3. \A j \in 1..(m + n) : u[j] = IF j <= m THEN s[j] ELSE t[j - m]
    BY ConcatProperties
<1>4. ASSUME NEW j \in Nat \ {0}
      PROVE  ByteAt(u, j) = IF j <= m THEN ByteAt(s, j) ELSE ByteAt(t, j - m)
  <2> HIDE DEF u, m, n
  <2>1. CASE j <= m
      BY <1>1, <1>2, <1>3, <2>1 DEF ByteAt, m
  <2>2. CASE m < j /\ j <= m + n
    <3>1. j - m \in 1..n /\ j \in 1..(m + n)
        BY <1>1, <2>2
    <3>2. u[j] = t[j - m]
        BY <1>1, <1>3, <2>2, <3>1
    <3> QED
        BY <1>1, <1>2, <2>2, <3>1, <3>2 DEF ByteAt, n
  <2>3. CASE m + n < j
    <3>1. j - m \notin 1..n /\ j \notin 1..(m + n) /\ ~(j <= m)
        BY <1>1, <2>3
    <3> QED
        BY <1>2, <3>1 DEF ByteAt, n
  <2> QED
      BY <1>1, <2>1, <2>2, <2>3
<1> QED
    BY <1>2, <1>4

(* A sequence from m to n.                                                 *)
LEMMA SubSeqReads ==
    ASSUME NEW s \in Seq(Byte), NEW m \in Nat \ {0}, NEW n \in Int, n <= Len(s)
    PROVE  /\ SubSeq(s, m, n) \in Seq(Byte)
           /\ Len(SubSeq(s, m, n)) = IF m <= n THEN n - m + 1 ELSE 0
           /\ \A j \in Nat \ {0} :
                 ByteAt(SubSeq(s, m, n), j) =
                     IF m + j - 1 <= n THEN ByteAt(s, m + j - 1) ELSE Zero
<1> DEFINE u == SubSeq(s, m, n)
           w == Len(s)
<1>1. w \in Nat
    BY LenProperties
<1>2. \A i \in m..n : s[i] \in Byte
    BY <1>1, ElementOfSeq
<1>3. /\ u \in Seq(Byte) /\ Len(u) = IF m <= n THEN n - m + 1 ELSE 0
      /\ \A i \in 1..(n - m + 1) : u[i] = s[m + i - 1]
    BY <1>2, SubSeqProperties
<1>4. ASSUME NEW j \in Nat \ {0}
      PROVE  ByteAt(u, j) = IF m + j - 1 <= n THEN ByteAt(s, m + j - 1) ELSE Zero
  <2> HIDE DEF u, w
  <2>1. CASE m + j - 1 <= n
    <3>1. j \in 1..(n - m + 1) /\ m <= n /\ m + j - 1 \in 1..w
        BY <1>1, <2>1 DEF w
    <3> QED
        BY <1>3, <2>1, <3>1 DEF ByteAt, w
  <2>2. CASE ~(m + j - 1 <= n)
    <3>1. j \notin 1..Len(u)
        BY <1>3, <2>2
    <3> QED
        BY <2>2, <3>1 DEF ByteAt
  <2> QED
      BY <2>1, <2>2
<1> QED
    BY <1>3, <1>4

(* Padding changes no byte that is read.                                   *)
LEMMA PaddedReads ==
    ASSUME NEW s \in Seq(Byte), NEW n \in Nat
    PROVE  /\ Padded(s, n) \in Seq(Byte) /\ Len(Padded(s, n)) = Larger(Len(s), n)
           /\ \A j \in Nat \ {0} : ByteAt(Padded(s, n), j) = ByteAt(s, j)
<1> DEFINE z == Zeros(Over(n, Len(s)))
<1>1. Len(s) \in Nat
    BY LenProperties
<1>2. Over(n, Len(s)) \in Nat /\ Len(s) + Over(n, Len(s)) = Larger(Len(s), n)
    BY <1>1 DEF Over, Larger
<1>3. /\ z \in Seq(Byte) /\ Len(z) = Over(n, Len(s))
      /\ \A j \in Nat : ByteAt(z, j) = Zero
    BY <1>2, ZerosRead
<1> HIDE DEF z
<1>4. /\ s \o z \in Seq(Byte) /\ Len(s \o z) = Len(s) + Len(z)
      /\ \A j \in Nat \ {0} :
            ByteAt(s \o z, j) = IF j <= Len(s) THEN ByteAt(s, j) ELSE ByteAt(z, j - Len(s))
    BY <1>3, ConcatReads
<1>5. ASSUME NEW j \in Nat \ {0} PROVE ByteAt(s \o z, j) = ByteAt(s, j)
  <2>1. CASE j <= Len(s)
      BY <1>4, <2>1
  <2>2. CASE ~(j <= Len(s))
    <3>1. j - Len(s) \in Nat /\ j \notin 1..Len(s)
        BY <1>1, <2>2
    <3> QED
        BY <1>3, <1>4, <2>2, <3>1 DEF ByteAt
  <2> QED
      BY <2>1, <2>2
<1> QED
    BY <1>2, <1>3, <1>4, <1>5 DEF Padded, z

(* A part, cut where the sequence ends.                                    *)
LEMMA PartReads ==
    ASSUME NEW s \in Seq(Byte), NEW m \in Nat \ {0}, NEW n \in Int
    PROVE  /\ Part(s, m, n) \in Seq(Byte)
           /\ Len(Part(s, m, n)) = LET e == Smaller(n, Len(s))
                                   IN  IF m <= e THEN e - m + 1 ELSE 0
           /\ \A j \in Nat \ {0} :
                 ByteAt(Part(s, m, n), j) =
                     IF m + j - 1 <= n THEN ByteAt(s, m + j - 1) ELSE Zero
<1> DEFINE e == Smaller(n, Len(s))
<1>1. Len(s) \in Nat
    BY LenProperties
<1>2. e \in Int /\ e <= Len(s) /\ e <= n /\ (e = n \/ e = Len(s))
    BY <1>1 DEF Smaller
<1> HIDE DEF e
<1>3. /\ SubSeq(s, m, e) \in Seq(Byte)
      /\ Len(SubSeq(s, m, e)) = IF m <= e THEN e - m + 1 ELSE 0
      /\ \A j \in Nat \ {0} :
            ByteAt(SubSeq(s, m, e), j) =
                IF m + j - 1 <= e THEN ByteAt(s, m + j - 1) ELSE Zero
    BY <1>2, SubSeqReads
<1>4. ASSUME NEW j \in Nat \ {0}, m + j - 1 <= n, ~(m + j - 1 <= e)
      PROVE  ByteAt(s, m + j - 1) = Zero
  <2>1. m + j - 1 \notin 1..Len(s)
      BY <1>1, <1>2, <1>4
  <2> QED
      BY <2>1 DEF ByteAt
<1>5. ASSUME NEW j \in Nat \ {0}
      PROVE  ByteAt(SubSeq(s, m, e), j) =
                 IF m + j - 1 <= n THEN ByteAt(s, m + j - 1) ELSE Zero
  <2>1. m + j - 1 <= e => m + j - 1 <= n
      BY <1>2
  <2> QED
      BY <1>3, <1>4, <2>1
<1> QED
    BY <1>3, <1>5 DEF Part, e

(* A chunk with src put at a position.                                     *)
LEMMA PatchedReads ==
    ASSUME NEW chunk \in Seq(Byte), NEW at \in Nat, NEW src \in Seq(Byte)
    PROVE  /\ Patched(chunk, at, src) \in Seq(Byte)
           /\ Len(Patched(chunk, at, src)) = Larger(Len(chunk), at + Len(src))
           /\ \A j \in Nat \ {0} :
                 ByteAt(Patched(chunk, at, src), j) =
                     IF at < j /\ j <= at + Len(src) THEN ByteAt(src, j - at)
                     ELSE ByteAt(chunk, j)
<1> DEFINE pad == Padded(chunk, at)
           head == SubSeq(pad, 1, at)
           tail == SubSeq(chunk, at + Len(src) + 1, Len(chunk))
           c == Len(chunk)
           n == Len(src)
<1>1. c \in Nat /\ n \in Nat
    BY LenProperties
<1>2. /\ pad \in Seq(Byte) /\ Len(pad) = Larger(c, at)
      /\ \A j \in Nat \ {0} : ByteAt(pad, j) = ByteAt(chunk, j)
    BY PaddedReads
<1>3. at <= Len(pad)
    BY <1>1, <1>2 DEF Larger
<1>4. /\ head \in Seq(Byte) /\ Len(head) = at
      /\ \A j \in Nat \ {0} : j <= at => ByteAt(head, j) = ByteAt(chunk, j)
  <2> HIDE DEF pad, c, n
  <2>1. /\ head \in Seq(Byte) /\ Len(head) = IF 1 <= at THEN at - 1 + 1 ELSE 0
        /\ \A j \in Nat \ {0} :
              ByteAt(head, j) = IF 1 + j - 1 <= at THEN ByteAt(pad, 1 + j - 1) ELSE Zero
      BY <1>2, <1>3, SubSeqReads
  <2>2. Len(head) = at
      BY <2>1
  <2>3. ASSUME NEW j \in Nat \ {0}, j <= at PROVE ByteAt(head, j) = ByteAt(chunk, j)
    <3>1. 1 + j - 1 = j
        OBVIOUS
    <3> QED
        BY <1>2, <2>1, <2>3, <3>1
  <2> QED
      BY <2>1, <2>2, <2>3
<1>5. /\ tail \in Seq(Byte)
      /\ Len(tail) = IF at + n + 1 <= c THEN c - (at + n) ELSE 0
      /\ \A j \in Nat \ {0} : ByteAt(tail, j) = ByteAt(chunk, at + n + j)
  <2> HIDE DEF n
  <2>1. at + n + 1 \in Nat \ {0} /\ c \in Int /\ c <= Len(chunk)
      BY <1>1
  <2>2. /\ tail \in Seq(Byte)
        /\ Len(tail) = IF at + n + 1 <= c THEN c - (at + n + 1) + 1 ELSE 0
        /\ \A j \in Nat \ {0} :
              ByteAt(tail, j) = IF (at + n + 1) + j - 1 <= c
                                THEN ByteAt(chunk, (at + n + 1) + j - 1) ELSE Zero
      BY <2>1, SubSeqReads DEF n
  <2>3. ASSUME NEW j \in Nat \ {0} PROVE ByteAt(tail, j) = ByteAt(chunk, at + n + j)
    <3>1. (at + n + 1) + j - 1 = at + n + j
        BY <1>1
    <3>2. ~(at + n + j <= c) => ByteAt(chunk, at + n + j) = Zero
        BY <1>1 DEF ByteAt
    <3> QED
        BY <2>2, <3>1, <3>2
  <2> QED
      BY <1>1, <2>2, <2>3
<1> HIDE DEF head, tail, c, n
<1> DEFINE front == head \o src
<1>6. /\ front \in Seq(Byte) /\ Len(front) = at + n
      /\ \A j \in Nat \ {0} :
            ByteAt(front, j) = IF j <= at THEN ByteAt(head, j) ELSE ByteAt(src, j - at)
    BY <1>4, ConcatReads DEF n
<1> HIDE DEF front
<1>7. /\ front \o tail \in Seq(Byte)
      /\ Len(front \o tail) = at + n + Len(tail)
      /\ \A j \in Nat \ {0} :
            ByteAt(front \o tail, j) =
                IF j <= at + n THEN ByteAt(front, j) ELSE ByteAt(tail, j - (at + n))
  <2>1. front \in Seq(Byte) /\ tail \in Seq(Byte)
      BY <1>5, <1>6
  <2>2. /\ front \o tail \in Seq(Byte)
        /\ Len(front \o tail) = Len(front) + Len(tail)
        /\ \A j \in Nat \ {0} :
              ByteAt(front \o tail, j) = IF j <= Len(front) THEN ByteAt(front, j)
                                        ELSE ByteAt(tail, j - Len(front))
      BY <2>1, ConcatReads
  <2>3. Len(front) = at + n
      BY <1>6
  <2> QED
      BY <2>2, <2>3
<1>8. at + n + Len(tail) = Larger(c, at + n)
    BY <1>1, <1>5 DEF Larger
<1>9. ASSUME NEW j \in Nat \ {0}
      PROVE  ByteAt(front \o tail, j) =
                 IF at < j /\ j <= at + n THEN ByteAt(src, j - at) ELSE ByteAt(chunk, j)
  <2>1. CASE j <= at
      BY <1>1, <1>4, <1>6, <1>7, <2>1
  <2>2. CASE at < j /\ j <= at + n
      BY <1>6, <1>7, <2>2
  <2>3. CASE at + n < j
    <3>1. j - (at + n) \in Nat \ {0} /\ at + n + (j - (at + n)) = j
        BY <1>1, <2>3
    <3>2. ByteAt(tail, j - (at + n)) = ByteAt(chunk, j)
        BY <1>5, <3>1
    <3> QED
        BY <1>1, <1>7, <2>3, <3>2
  <2> QED
      BY <1>1, <2>1, <2>2, <2>3
<1> QED
    BY <1>7, <1>8, <1>9 DEF Patched, front, head, pad, tail, c, n

-----------------------------------------------------------------------------
(* Rows *)

(* The rows are chunks, none of which reaches behind n bytes.              *)
RowsFit(rows, n) ==
    /\ DOMAIN rows \subseteq Nat
    /\ \A i \in DOMAIN rows :
          /\ rows[i] \in Seq(Byte) /\ Len(rows[i]) <= ChunkSize
          /\ Base(i) + Len(rows[i]) <= n

(* A missing row reads as one without bytes.                               *)
LEMMA RowFits ==
    ASSUME NEW rows, NEW n \in Nat, RowsFit(rows, n), NEW i \in Nat
    PROVE  /\ Row(rows, i) \in Seq(Byte) /\ Len(Row(rows, i)) \in Nat
           /\ Len(Row(rows, i)) <= ChunkSize
           /\ Len(Row(rows, i)) > 0 => Base(i) + Len(Row(rows, i)) <= n
           /\ \A j \in Nat \ {0} : Base(i) + j > n => ByteAt(Row(rows, i), j) = Zero
<1>1. Row(rows, i) \in Seq(Byte) /\ Len(Row(rows, i)) \in Nat
  <2>1. CASE i \in DOMAIN rows
      BY <2>1, LenProperties DEF RowsFit, Row
  <2>2. CASE i \notin DOMAIN rows
      BY <2>2, EmptySeq DEF Row
  <2> QED
      BY <2>1, <2>2
<1>2. /\ Len(Row(rows, i)) <= ChunkSize
      /\ Len(Row(rows, i)) > 0 => Base(i) + Len(Row(rows, i)) <= n
  <2>1. CASE i \in DOMAIN rows
      BY <2>1 DEF RowsFit, Row
  <2>2. CASE i \notin DOMAIN rows
    <3>1. Len(Row(rows, i)) = 0
        BY <2>2, EmptySeq DEF Row
    <3> QED
        BY <3>1, ChunkAssumption
  <2> QED
      BY <2>1, <2>2
<1>3. ASSUME NEW j \in Nat \ {0}, Base(i) + j > n PROVE ByteAt(Row(rows, i), j) = Zero
  <2>1. Base(i) \in Nat
      BY BasesGrow
  <2>2. j \notin 1..Len(Row(rows, i))
      BY <1>1, <1>2, <1>3, <2>1
  <2> QED
      BY <2>2 DEF ByteAt
<1> QED
    BY <1>1, <1>2, <1>3

(* The chunks a write is about are those it shares an offset with.         *)
LEMMA SpanIs ==
    ASSUME NEW off \in Nat, NEW n \in Nat \ {0}, NEW i \in Nat
    PROVE  i \in Span(off, n) <=> Base(i) < off + n /\ off < Base(i) + ChunkSize
<1> DEFINE first == off \div ChunkSize
           last == LastChunk(off + n)
<1>1. off + n \in Nat \ {0} /\ ChunkSize \in Nat
    BY ChunkAssumption
<1>2. last \in Nat /\ (i <= last <=> Base(i) < off + n)
    BY <1>1, UpToLast
<1>3. LastChunk(off + 1) = first
    BY DEF LastChunk
<1>4. first \in Nat /\ (i <= first <=> Base(i) < off + 1)
      /\ Base(first) < off + 1 /\ off + 1 <= Base(first) + ChunkSize
  <2>1. off + 1 \in Nat \ {0}
      OBVIOUS
  <2> HIDE DEF first
  <2> QED
      BY <1>3, <2>1, UpToLast
<1>5. Base(i) \in Nat /\ Base(first) \in Nat
    BY <1>4, BasesGrow
<1>6. first <= i <=> off < Base(i) + ChunkSize
  <2> HIDE DEF first
  <2>1. CASE i < first
    <3>1. Base(i) + ChunkSize <= Base(first)
        BY <1>4, <2>1, BasesGrow
    <3> QED
        BY <1>1, <1>4, <1>5, <2>1, <3>1
  <2>2. CASE i = first
      BY <1>1, <1>4, <1>5, <2>2
  <2>3. CASE first < i
    <3>1. Base(first) + ChunkSize <= Base(i)
        BY <1>4, <2>3, BasesGrow
    <3> QED
        BY <1>1, <1>4, <1>5, <2>3, <3>1
  <2> QED
      BY <1>4, <2>1, <2>2, <2>3
<1> HIDE DEF first, last
<1>7. i \in first..last <=> first <= i /\ i <= last
    BY <1>2, <1>4
<1> QED
    BY <1>2, <1>6, <1>7 DEF Span, first, last

(* What a write makes of one of its chunks.                                *)
LEMMA ChunkWritten ==
    ASSUME NEW off \in Nat, NEW src \in Seq(Byte), NEW i \in Nat,
           Base(i) < off + Len(src), off < Base(i) + ChunkSize,
           NEW row \in Seq(Byte), Len(row) <= ChunkSize,
           NEW new, new = Patched(row, Over(off, i * ChunkSize), Piece(i, off, src))
    PROVE  /\ new \in Seq(Byte)
           /\ Len(new) = Larger(Len(row), Smaller(ChunkSize, off + Len(src) - Base(i)))
           /\ \A j \in 1..ChunkSize :
                 ByteAt(new, j) = IF off < Base(i) + j /\ Base(i) + j <= off + Len(src)
                                  THEN ByteAt(src, Base(i) + j - off)
                                  ELSE ByteAt(row, j)
<1> DEFINE b == Base(i)
           n == Len(src)
           at == Over(off, b)
           a == Over(b, off)
           piece == Part(src, a + 1, b + ChunkSize - off)
<1>1. b \in Nat /\ n \in Nat /\ ChunkSize \in Nat \ {0} /\ Len(row) \in Nat
    BY BasesGrow, LenProperties, ChunkAssumption
<1>2. Piece(i, off, src) = piece /\ Over(off, i * ChunkSize) = at
  <2> DEFINE begin == i * ChunkSize
             end == (i + 1) * ChunkSize
  <2>1. end = b + ChunkSize /\ begin = b
      BY BasesGrow DEF Base
  <2>2. /\ Piece(i, off, src) = Part(src, Over(begin, off) + 1, end - off)
        /\ Over(off, i * ChunkSize) = Over(off, begin)
      BY DEF Piece
  <2> HIDE DEF b, begin, end
  <2>3. begin = b /\ end - off = b + ChunkSize - off
      BY <1>1, <2>1
  <2> QED
      BY <1>1, <2>2, <2>3, Zenon
<1>3. /\ at \in Nat /\ a \in Nat /\ a - at = b - off
      /\ b < off + n /\ off < b + ChunkSize
  <2> HIDE DEF b, n
  <2>1. at \in Nat /\ a \in Nat /\ a - at = b - off
      BY <1>1 DEF Over
  <2> QED
      BY <2>1 DEF b, n
<1> HIDE DEF b, n
<1>4. /\ piece \in Seq(Byte)
      /\ Len(piece) = LET e == Smaller(b + ChunkSize - off, n)
                      IN  IF a + 1 <= e THEN e - (a + 1) + 1 ELSE 0
      /\ \A j \in Nat \ {0} :
            ByteAt(piece, j) = IF (a + 1) + j - 1 <= b + ChunkSize - off
                               THEN ByteAt(src, (a + 1) + j - 1) ELSE Zero
  <2>1. a + 1 \in Nat \ {0} /\ b + ChunkSize - off \in Int
      BY <1>1, <1>3
  <2> QED
      BY <2>1, PartReads DEF n
<1>5. Len(piece) \in Nat /\ at + Len(piece) = Smaller(ChunkSize, off + n - b)
  <2> DEFINE e == Smaller(b + ChunkSize - off, n)
  <2>1. /\ e \in Int /\ e = IF b + ChunkSize - off < n THEN b + ChunkSize - off ELSE n
        /\ Len(piece) = IF a + 1 <= e THEN e - (a + 1) + 1 ELSE 0
      BY <1>1, <1>4 DEF Smaller
  <2> HIDE DEF e, piece
  <2>2. CASE off <= b
    <3>1. a = b - off /\ at = 0
        BY <1>1, <2>2 DEF Over
    <3> HIDE DEF a, at
    <3>2. Len(piece) = e - a /\ e - a > 0
        BY <1>1, <1>3, <2>1, <2>2, <3>1
    <3>3. e - a = Smaller(ChunkSize, off + n - b)
        BY <1>1, <1>3, <2>1, <2>2, <3>1 DEF Smaller
    <3> QED
        BY <1>3, <2>1, <3>1, <3>2, <3>3
  <2>3. CASE b < off
    <3>1. a = 0 /\ at = off - b
        BY <1>1, <2>3 DEF Over
    <3> HIDE DEF a, at
    <3>2. e >= 0
        BY <1>1, <1>3, <2>1, <3>1
    <3>3. Len(piece) = e
      <4>1. Len(piece) = IF 1 <= e THEN e ELSE 0
          BY <2>1, <3>1
      <4> QED
          BY <2>1, <3>2, <4>1
    <3>4. at + e = Smaller(ChunkSize, off + n - b)
      <4>1. off \in Nat
          OBVIOUS
      <4>2. CASE b + ChunkSize - off < n
        <5>1. e = b + ChunkSize - off /\ ChunkSize < off + n - b
            BY <1>1, <2>1, <4>1, <4>2
        <5> QED
            BY <1>1, <3>1, <4>1, <5>1 DEF Smaller
      <4>3. CASE ~(b + ChunkSize - off < n)
        <5>1. e = n /\ ~(ChunkSize < off + n - b)
            BY <1>1, <2>1, <4>1, <4>3
        <5>2. Smaller(ChunkSize, off + n - b) = off + n - b
            BY <1>1, <4>1, <5>1 DEF Smaller
        <5> QED
            BY <1>1, <3>1, <4>1, <5>1, <5>2
      <4> QED
          BY <4>2, <4>3
    <3>5. e \in Nat
        BY <2>1, <3>2
    <3> QED
        BY <3>3, <3>4, <3>5
  <2> QED
      BY <1>1, <2>2, <2>3
<1> HIDE DEF at, a, piece
<1>6. /\ new \in Seq(Byte) /\ Len(new) = Larger(Len(row), at + Len(piece))
      /\ \A j \in Nat \ {0} :
            ByteAt(new, j) = IF at < j /\ j <= at + Len(piece) THEN ByteAt(piece, j - at)
                             ELSE ByteAt(row, j)
  <2> DEFINE patched == Patched(row, at, piece)
  <2>1. new = patched
      BY <1>2
  <2>2. at \in Nat /\ piece \in Seq(Byte)
      BY <1>3, <1>4
  <2>3. /\ patched \in Seq(Byte) /\ Len(patched) = Larger(Len(row), at + Len(piece))
        /\ \A j \in Nat \ {0} :
              ByteAt(patched, j) = IF at < j /\ j <= at + Len(piece)
                                   THEN ByteAt(piece, j - at) ELSE ByteAt(row, j)
      BY <2>2, PatchedReads
  <2> HIDE DEF patched
  <2> QED
      BY <2>1, <2>3
<1>7. ASSUME NEW j \in 1..ChunkSize
      PROVE  ByteAt(new, j) = IF off < b + j /\ b + j <= off + n
                              THEN ByteAt(src, b + j - off) ELSE ByteAt(row, j)
  <2>1. j \in Nat \ {0} /\ j <= ChunkSize
      BY <1>1
  <2>2. (at < j /\ j <= at + Len(piece)) <=> (off < b + j /\ b + j <= off + n)
    <3>1. at < j <=> off < b + j
        BY <1>1, <2>1 DEF at, Over
    <3>2. j <= at + Len(piece) <=> b + j <= off + n
        BY <1>1, <1>5, <2>1 DEF Smaller
    <3> QED
        BY <3>1, <3>2
  <2>3. ASSUME at < j, j <= at + Len(piece)
        PROVE  ByteAt(piece, j - at) = ByteAt(src, b + j - off)
    <3>1. j - at \in Nat \ {0}
        BY <1>3, <2>1, <2>3
    <3>2. (a + 1) + (j - at) - 1 = b + j - off /\ b + j - off <= b + ChunkSize - off
        BY <1>1, <1>3, <2>1
    <3> QED
        BY <1>4, <3>1, <3>2
  <2> QED
      BY <1>6, <2>1, <2>2, <2>3
<1> QED
    BY <1>5, <1>6, <1>7 DEF b, n

(* A byte that a write of src at off gives, and one it leaves.             *)
Overwritten(off, src, k) == off < k /\ k <= off + Len(src)

LEMMA SpanOfNumbers ==
    ASSUME NEW off \in Nat, NEW n \in Nat \ {0}
    PROVE  Span(off, n) \subseteq Nat
<1>1. LastChunk(off + n) \in Nat
    BY UpToLast
<1>2. off \div ChunkSize \in Nat
    BY Chunking
<1> QED
    BY <1>1, <1>2 DEF Span

(* Writing by chunks writes the bytes, and only them.                      *)
LEMMA WriteAtWrites ==
    ASSUME NEW rows, NEW n \in Nat, RowsFit(rows, n),
           NEW off \in Nat, NEW src \in Seq(Byte), src # <<>>
    PROVE  /\ RowsFit(WriteAt(rows, off, src), Larger(n, off + Len(src)))
           /\ \A i \in Nat, j \in 1..ChunkSize :
                 ByteAt(Row(WriteAt(rows, off, src), i), j) =
                     IF Overwritten(off, src, Base(i) + j)
                     THEN ByteAt(src, Base(i) + j - off)
                     ELSE ByteAt(Row(rows, i), j)
<1> DEFINE new(i) == Patched(Row(rows, i), Over(off, i * ChunkSize), Piece(i, off, src))
           span == Span(off, Len(src))
           all == WriteAt(rows, off, src)
<1>1. Len(src) \in Nat \ {0} /\ ChunkSize \in Nat \ {0}
    BY EmptySeq, ChunkAssumption
<1>2. span \subseteq Nat
    BY <1>1, SpanOfNumbers
<1>3. /\ DOMAIN all = span \cup DOMAIN rows
      /\ \A i \in span : all[i] = new(i)
      /\ \A i \in DOMAIN rows \ span : all[i] = rows[i]
    BY DEF WriteAt, Put
<1>4. ASSUME NEW i \in span
      PROVE  /\ i \in Nat /\ Base(i) \in Nat
             /\ Base(i) < off + Len(src) /\ off < Base(i) + ChunkSize
             /\ Row(rows, i) \in Seq(Byte) /\ Len(Row(rows, i)) \in Nat
             /\ Len(Row(rows, i)) <= ChunkSize
             /\ Len(Row(rows, i)) > 0 => Base(i) + Len(Row(rows, i)) <= n
             /\ new(i) \in Seq(Byte)
             /\ Len(new(i)) = Larger(Len(Row(rows, i)),
                                     Smaller(ChunkSize, off + Len(src) - Base(i)))
             /\ \A j \in 1..ChunkSize :
                   ByteAt(new(i), j) = IF off < Base(i) + j /\ Base(i) + j <= off + Len(src)
                                       THEN ByteAt(src, Base(i) + j - off)
                                       ELSE ByteAt(Row(rows, i), j)
  <2>1. i \in Nat /\ Base(i) \in Nat
      BY <1>2, BasesGrow
  <2>2. Base(i) < off + Len(src) /\ off < Base(i) + ChunkSize
      BY <1>1, <2>1, SpanIs
  <2>3. /\ Row(rows, i) \in Seq(Byte) /\ Len(Row(rows, i)) \in Nat
        /\ Len(Row(rows, i)) <= ChunkSize
        /\ Len(Row(rows, i)) > 0 => Base(i) + Len(Row(rows, i)) <= n
      BY <2>1, RowFits
  <2> QED
      BY <2>1, <2>2, <2>3, ChunkWritten
<1> HIDE DEF new, span, all
<1>5. RowsFit(all, Larger(n, off + Len(src)))
  <2>1. DOMAIN all \subseteq Nat
      BY <1>2, <1>3 DEF RowsFit
  <2>2. ASSUME NEW i \in DOMAIN all
        PROVE  /\ all[i] \in Seq(Byte) /\ Len(all[i]) <= ChunkSize
               /\ Base(i) + Len(all[i]) <= Larger(n, off + Len(src))
    <3>1. CASE i \in span
      <4> DEFINE have == Len(Row(rows, i))
                 b == Base(i)
                 e == off + Len(src)
      <4>1. /\ have \in Nat /\ b \in Nat /\ e \in Nat /\ b < e
            /\ have <= ChunkSize /\ (have > 0 => b + have <= n)
            /\ Len(all[i]) = Larger(have, Smaller(ChunkSize, e - b))
            /\ all[i] \in Seq(Byte)
          BY <1>1, <1>3, <1>4, <3>1
      <4> HIDE DEF have, b, e
      <4>2. /\ Larger(have, Smaller(ChunkSize, e - b)) <= ChunkSize
            /\ b + Larger(have, Smaller(ChunkSize, e - b)) <= Larger(n, e)
          BY <1>1, <4>1 DEF Larger, Smaller
      <4> QED
          BY <4>1, <4>2 DEF b, e
    <3>2. CASE i \notin span
      <4>1. i \in DOMAIN rows /\ all[i] = rows[i] /\ i \in Nat
          BY <1>3, <2>1, <3>2
      <4>2. /\ rows[i] \in Seq(Byte) /\ Len(rows[i]) <= ChunkSize
            /\ Base(i) + Len(rows[i]) <= n
          BY <4>1 DEF RowsFit
      <4>3. Base(i) \in Nat /\ Len(rows[i]) \in Nat
          BY <4>1, <4>2, BasesGrow, LenProperties
      <4>4. n <= Larger(n, off + Len(src)) /\ Larger(n, off + Len(src)) \in Nat
          BY <1>1 DEF Larger
      <4> QED
          BY <4>1, <4>2, <4>3, <4>4
    <3> QED
        BY <3>1, <3>2
  <2> QED
      BY <2>1, <2>2 DEF RowsFit
<1>6. ASSUME NEW i \in Nat, NEW j \in 1..ChunkSize
      PROVE  ByteAt(Row(all, i), j) =
                 IF Overwritten(off, src, Base(i) + j)
                 THEN ByteAt(src, Base(i) + j - off) ELSE ByteAt(Row(rows, i), j)
  <2>1. CASE i \in span
    <3>1. Row(all, i) = new(i)
        BY <1>3, <2>1 DEF Row
    <3> QED
        BY <1>4, <2>1, <3>1 DEF Overwritten
  <2>2. CASE i \notin span
    <3>1. Row(all, i) = Row(rows, i)
        BY <1>3, <2>2 DEF Row
    <3>2. ~(Base(i) < off + Len(src) /\ off < Base(i) + ChunkSize) /\ Base(i) \in Nat
        BY <1>1, <2>2, SpanIs, BasesGrow DEF span
    <3>3. ~Overwritten(off, src, Base(i) + j)
        BY <1>1, <3>2 DEF Overwritten
    <3> QED
        BY <3>1, <3>3
  <2> QED
      BY <2>1, <2>2
<1> QED
    BY <1>5, <1>6 DEF all

(* Where a file of n bytes ends in its last chunk.                         *)
LEMMA LastOffset ==
    ASSUME NEW n \in Nat \ {0}
    PROVE  /\ Base(LastChunk(n)) \in Nat
           /\ n % ChunkSize > 0 => n % ChunkSize = n - Base(LastChunk(n))
           /\ ~(n % ChunkSize > 0) => n = Base(LastChunk(n)) + ChunkSize
           /\ ((n - 1) % ChunkSize) + 1 = n - Base(LastChunk(n))
<1> DEFINE last == LastChunk(n)
           b == Base(last)
<1>1. last \in Nat /\ b < n /\ n <= b + ChunkSize
    BY UpToLast
<1> HIDE DEF last
<1>2. /\ b \in Nat /\ ChunkSize \in Nat \ {0} /\ last + 1 \in Nat
      /\ Base(last + 1) = b + ChunkSize
    BY <1>1, BasesGrow, ChunkAssumption
<1>3. CASE n < b + ChunkSize
  <2>1. n \in Nat /\ b <= n
      BY <1>1, <1>2
  <2>2. n % ChunkSize = n - b /\ n - b > 0
      BY <1>1, <1>2, <1>3, <2>1, ChunkOf
  <2>3. n - 1 \in Nat /\ b <= n - 1 /\ n - 1 < b + ChunkSize
      BY <1>1, <1>2, <1>3
  <2>4. (n - 1) % ChunkSize = (n - 1) - b
      BY <1>1, <2>3, ChunkOf
  <2>5. ((n - 1) % ChunkSize) + 1 = n - b
      BY <1>2, <2>4
  <2> QED
      BY <1>2, <2>2, <2>5 DEF last
<1>4. CASE n = b + ChunkSize
  <2>1. n \in Nat /\ Base(last + 1) <= n /\ n < Base(last + 1) + ChunkSize
      BY <1>2, <1>4
  <2>2. n % ChunkSize = n - Base(last + 1)
      BY <1>2, <2>1, ChunkOf
  <2>3. n - 1 \in Nat /\ b <= n - 1 /\ n - 1 < b + ChunkSize
      BY <1>1, <1>2, <1>4
  <2>4. (n - 1) % ChunkSize = (n - 1) - b
      BY <1>1, <2>3, ChunkOf
  <2>5. ~(n % ChunkSize > 0)
      BY <1>2, <1>4, <2>2
  <2>6. ((n - 1) % ChunkSize) + 1 = n - b
      BY <1>2, <2>4
  <2> QED
      BY <1>2, <1>4, <2>5, <2>6 DEF last
<1> QED
    BY <1>1, <1>2, <1>3, <1>4

(* Cutting leaves the bytes before the new end, and none behind it.        *)
LEMMA CutCuts ==
    ASSUME NEW rows, NEW m \in Nat, RowsFit(rows, m), NEW n \in Nat
    PROVE  /\ RowsFit(Cut(rows, n), n)
           /\ \A i \in Nat, j \in 1..ChunkSize :
                 ByteAt(Row(Cut(rows, n), i), j) =
                     IF Base(i) + j <= n THEN ByteAt(Row(rows, i), j) ELSE Zero
<1> DEFINE all == Cut(rows, n)
           last == LastChunk(n)
           kept == {j \in DOMAIN rows : n > 0 /\ j <= last}
<1>1. DOMAIN all = kept /\ kept \subseteq Nat
    BY DEF Cut, RowsFit
<1>2. ASSUME NEW i \in kept
      PROVE  /\ i \in Nat /\ Base(i) \in Nat /\ Base(i) < n
             /\ rows[i] \in Seq(Byte) /\ Len(rows[i]) \in Nat /\ Len(rows[i]) <= ChunkSize
             /\ Row(rows, i) = rows[i] /\ n \in Nat \ {0}
  <2>1. i \in Nat /\ i \in DOMAIN rows /\ n \in Nat \ {0} /\ i <= last
      BY <1>1
  <2>2. Base(i) \in Nat /\ Base(i) < n
    <3> HIDE DEF last
    <3> QED
        BY <2>1, BasesGrow, UpToLast DEF last
  <2>3. rows[i] \in Seq(Byte) /\ Len(rows[i]) \in Nat /\ Len(rows[i]) <= ChunkSize
      BY <2>1, LenProperties DEF RowsFit
  <2> QED
      BY <2>1, <2>2, <2>3 DEF Row
<1>3. ASSUME NEW i \in kept
      PROVE  /\ all[i] \in Seq(Byte) /\ Len(all[i]) <= ChunkSize
             /\ Base(i) + Len(all[i]) <= n
             /\ \A j \in 1..ChunkSize :
                   ByteAt(all[i], j) = IF Base(i) + j <= n THEN ByteAt(rows[i], j) ELSE Zero
  <2> DEFINE b == Base(i)
             e == n % ChunkSize
  <2>1. /\ i \in Nat /\ b \in Nat /\ b < n /\ ChunkSize \in Nat \ {0}
        /\ rows[i] \in Seq(Byte) /\ Len(rows[i]) \in Nat /\ Len(rows[i]) <= ChunkSize
        /\ n \in Nat \ {0} /\ e \in Nat
      BY <1>2, ChunkAssumption, Chunking
  <2>2. all[i] = IF i = last /\ e > 0 THEN Part(rows[i], 1, e) ELSE rows[i]
      BY DEF Cut
  <2>3. CASE i = last /\ e > 0
    <3>1. e = n - b
        BY <2>1, <2>3, LastOffset
    <3> HIDE DEF b, e, last, all
    <3>2. all[i] = Part(rows[i], 1, e)
        BY <2>2, <2>3
    <3>3. /\ all[i] \in Seq(Byte)
          /\ Len(all[i]) = IF 1 <= Smaller(e, Len(rows[i]))
                           THEN Smaller(e, Len(rows[i])) - 1 + 1 ELSE 0
          /\ \A j \in Nat \ {0} :
                ByteAt(all[i], j) = IF 1 + j - 1 <= e THEN ByteAt(rows[i], 1 + j - 1) ELSE Zero
      <4> DEFINE row == rows[i]
      <4>1. row \in Seq(Byte) /\ 1 \in Nat \ {0} /\ e \in Int
          BY <2>1
      <4> HIDE DEF row
      <4>2. /\ Part(row, 1, e) \in Seq(Byte)
            /\ Len(Part(row, 1, e)) = LET z == Smaller(e, Len(row))
                                      IN  IF 1 <= z THEN z - 1 + 1 ELSE 0
            /\ \A j \in Nat \ {0} :
                  ByteAt(Part(row, 1, e), j) =
                      IF 1 + j - 1 <= e THEN ByteAt(row, 1 + j - 1) ELSE Zero
          BY <4>1, PartReads
      <4>3. all[i] = Part(row, 1, e)
          BY <3>2 DEF row
      <4> QED
          BY <4>2, <4>3 DEF row
    <3>4. Len(all[i]) <= ChunkSize /\ b + Len(all[i]) <= n
        BY <2>1, <3>1, <3>3 DEF Smaller
    <3>5. ASSUME NEW j \in 1..ChunkSize
          PROVE  ByteAt(all[i], j) = IF b + j <= n THEN ByteAt(rows[i], j) ELSE Zero
      <4>1. j \in Nat \ {0} /\ 1 + j - 1 = j /\ (j <= e <=> b + j <= n)
          BY <2>1, <3>1
      <4> QED
          BY <3>3, <4>1
    <3> QED
        BY <3>3, <3>4, <3>5 DEF b
  <2>4. CASE ~(i = last /\ e > 0)
    <3>1. b + ChunkSize <= n
      <4>1. CASE i = last
          BY <2>1, <2>4, <4>1, LastOffset
      <4>2. CASE i # last
        <5> HIDE DEF b, last
        <5>1. /\ last \in Nat /\ i <= last /\ Base(last) \in Nat /\ Base(last) < n
            BY <2>1, UpToLast, BasesGrow DEF last
        <5>2. b + ChunkSize <= Base(last)
            BY <2>1, <4>2, <5>1, BasesGrow DEF b
        <5> QED
            BY <2>1, <5>1, <5>2
      <4> QED
          BY <4>1, <4>2
    <3> HIDE DEF b, e, last, all
    <3>2. all[i] = rows[i]
        BY <2>2, <2>4
    <3>3. \A j \in 1..ChunkSize : b + j <= n
        BY <2>1, <3>1
    <3>4. b + Len(rows[i]) <= n
        BY <2>1, <3>1
    <3> QED
        BY <2>1, <3>2, <3>3, <3>4 DEF b
  <2> QED
      BY <2>3, <2>4
<1> HIDE DEF all, last
<1>4. RowsFit(all, n)
    BY <1>1, <1>3 DEF RowsFit
<1>5. ASSUME NEW i \in Nat, NEW j \in 1..ChunkSize
      PROVE  ByteAt(Row(all, i), j) =
                 IF Base(i) + j <= n THEN ByteAt(Row(rows, i), j) ELSE Zero
  <2>1. CASE i \in kept
      BY <1>1, <1>2, <1>3, <2>1 DEF Row
  <2>2. CASE i \notin kept
    <3>1. ByteAt(Row(all, i), j) = Zero
      <4>1. Row(all, i) = <<>>
          BY <1>1, <2>2 DEF Row
      <4>2. j \notin 1..Len(<<>>)
          BY EmptySeq
      <4> QED
          BY <4>1, <4>2 DEF ByteAt
    <3>2. CASE i \notin DOMAIN rows
      <4>1. Row(rows, i) = <<>>
          BY <3>2 DEF Row
      <4>2. j \notin 1..Len(<<>>)
          BY EmptySeq
      <4> QED
          BY <3>1, <4>1, <4>2 DEF ByteAt
    <3>3. CASE ~(n > 0 /\ i <= last)
      <4>1. ~(Base(i) + j <= n)
        <5>1. Base(i) \in Nat /\ j \in Nat \ {0}
            BY Places
        <5>2. CASE n = 0
            BY <5>1, <5>2
        <5>3. CASE n # 0
          <6>1. ~(Base(i) < n)
              BY <3>3, <5>3, UpToLast DEF last
          <6> QED
              BY <5>1, <6>1
        <5> QED
            BY <5>2, <5>3
      <4> QED
          BY <3>1, <4>1
    <3> QED
        BY <2>2, <3>1, <3>2, <3>3
  <2> QED
      BY <2>1, <2>2
<1> QED
    BY <1>4, <1>5 DEF all

(* Where a chunk that begins before the end of n bytes ends.               *)
LEMMA EndsIs ==
    ASSUME NEW n \in Nat \ {0}, NEW i \in Nat, Base(i) < n
    PROVE  Ends(i, n) \in Nat /\ Ends(i, n) = Smaller(ChunkSize, n - Base(i))
<1> DEFINE last == LastChunk(n)
           b == Base(i)
<1>1. /\ last \in Nat /\ i <= last /\ Base(last) \in Nat /\ Base(last) < n
      /\ n <= Base(last) + ChunkSize /\ ((n - 1) % ChunkSize) + 1 = n - Base(last)
    BY UpToLast, LastOffset
<1> HIDE DEF last
<1>2. b \in Nat /\ ChunkSize \in Nat \ {0}
    BY BasesGrow, ChunkAssumption
<1>3. CASE i = last
  <2>1. Ends(i, n) = n - b
      BY <1>1, <1>3 DEF Ends, last
  <2>2. n - b <= ChunkSize /\ b < n
    <3>1. b = Base(last)
        BY <1>3
    <3> HIDE DEF b
    <3> QED
        BY <1>1, <1>2, <3>1
  <2> HIDE DEF b
  <2>3. n - b = Smaller(ChunkSize, n - b) /\ n - b \in Nat
      BY <1>2, <2>2 DEF Smaller
  <2> QED
      BY <2>1, <2>3 DEF b
<1>4. CASE i # last
  <2>1. Ends(i, n) = ChunkSize
      BY <1>4 DEF Ends, last
  <2>2. b + ChunkSize <= Base(last)
      BY <1>1, <1>4, BasesGrow
  <2> HIDE DEF b
  <2>3. ChunkSize = Smaller(ChunkSize, n - b)
      BY <1>1, <1>2, <2>2 DEF Smaller
  <2> QED
      BY <1>2, <2>1, <2>3 DEF b
<1> QED
    BY <1>3, <1>4

(* An extension is about the chunks that begin between the two ends.       *)
LEMMA NewChunksAre ==
    ASSUME NEW cur \in Nat, NEW n \in Nat, cur < n
    PROVE  /\ NewChunks(cur, n) \subseteq Nat
           /\ \A i \in Nat : i \in NewChunks(cur, n) <=> cur <= Base(i) /\ Base(i) < n
<1> DEFINE last == LastChunk(n)
           first == IF cur = 0 THEN 0 ELSE LastChunk(cur) + 1
<1>1. n \in Nat \ {0}
    OBVIOUS
<1>2. last \in Nat /\ \A i \in Nat : i <= last <=> Base(i) < n
    BY <1>1, UpToLast
<1>3. first \in Nat /\ \A i \in Nat : first <= i <=> cur <= Base(i)
  <2>1. CASE cur = 0
    <3>1. \A i \in Nat : Base(i) \in Nat
        BY BasesGrow
    <3> QED
        BY <2>1, <3>1
  <2>2. CASE cur # 0
    <3> DEFINE end == LastChunk(cur)
    <3>1. end \in Nat /\ \A i \in Nat : i <= end <=> Base(i) < cur
        BY <2>2, UpToLast
    <3>2. \A i \in Nat : Base(i) \in Nat
        BY BasesGrow
    <3>3. first = end + 1
        BY <2>2
    <3> HIDE DEF end, first
    <3> QED
        BY <3>1, <3>2, <3>3
  <2> QED
      BY <2>1, <2>2
<1> HIDE DEF last, first
<1>4. NewChunks(cur, n) = first..last
    BY DEF NewChunks, first, last
<1> QED
    BY <1>2, <1>3, <1>4

(* An extension that stores its zeros changes no byte that is read.        *)
LEMMA MaterializedReads ==
    ASSUME NEW rows, NEW cur \in Nat, RowsFit(rows, cur), NEW n \in Nat, cur < n
    PROVE  /\ RowsFit(Materialized(rows, cur, n), n)
           /\ \A i \in Nat, j \in 1..ChunkSize :
                 ByteAt(Row(Materialized(rows, cur, n), i), j) = ByteAt(Row(rows, i), j)
<1> DEFINE all == Materialized(rows, cur, n)
           new == NewChunks(cur, n)
           ends(i) == cur > 0 /\ i = LastChunk(cur)
<1>1. /\ DOMAIN all = new \cup DOMAIN rows
      /\ \A i \in new : all[i] = Zeros(Ends(i, n))
      /\ \A i \in DOMAIN rows \ new :
            all[i] = IF ends(i) THEN Padded(rows[i], Ends(i, n)) ELSE rows[i]
    BY DEF Materialized, Put
<1>2. new \subseteq Nat /\ \A i \in Nat : i \in new <=> cur <= Base(i) /\ Base(i) < n
    BY NewChunksAre
<1>3. n \in Nat \ {0} /\ ChunkSize \in Nat \ {0} /\ DOMAIN rows \subseteq Nat
    BY ChunkAssumption DEF RowsFit
<1> HIDE DEF all, new, ends
<1>4. ASSUME NEW i \in DOMAIN all
      PROVE  /\ i \in Nat /\ all[i] \in Seq(Byte) /\ Len(all[i]) <= ChunkSize
             /\ Base(i) + Len(all[i]) <= n
             /\ \A j \in 1..ChunkSize : ByteAt(all[i], j) = ByteAt(Row(rows, i), j)
  <2>1. i \in Nat /\ Base(i) \in Nat
      BY <1>1, <1>2, <1>3, BasesGrow
  <2>2. CASE i \in new
    <3>1. /\ Base(i) < n /\ cur <= Base(i) /\ Ends(i, n) \in Nat
          /\ Ends(i, n) = Smaller(ChunkSize, n - Base(i))
        BY <1>2, <1>3, <2>1, <2>2, EndsIs
    <3>2. /\ all[i] \in Seq(Byte) /\ Len(all[i]) = Ends(i, n)
          /\ \A j \in Nat : ByteAt(all[i], j) = Zero
        BY <1>1, <2>2, <3>1, ZerosRead
    <3>3. Ends(i, n) <= ChunkSize /\ Base(i) + Ends(i, n) <= n
        BY <1>3, <2>1, <3>1 DEF Smaller
    <3>4. ASSUME NEW j \in 1..ChunkSize PROVE ByteAt(Row(rows, i), j) = Zero
      <4>1. j \in Nat \ {0} /\ Base(i) + j > cur
          BY <1>3, <2>1, <3>1
      <4> QED
          BY <2>1, <4>1, RowFits
    <3> QED
        BY <1>3, <2>1, <3>2, <3>3, <3>4
  <2>3. CASE i \notin new /\ ends(i)
    <3>1. cur \in Nat \ {0} /\ i = LastChunk(cur) /\ i \in DOMAIN rows
        BY <1>1, <2>3 DEF ends
    <3>2. Base(i) < n
        BY <1>3, <2>1, <3>1, UpToLast
    <3>3. Ends(i, n) \in Nat /\ Ends(i, n) = Smaller(ChunkSize, n - Base(i))
        BY <1>3, <2>1, <3>2, EndsIs
    <3> DEFINE row == rows[i]
    <3>4. /\ row \in Seq(Byte) /\ Len(row) \in Nat /\ Len(row) <= ChunkSize
          /\ Base(i) + Len(row) <= cur /\ Row(rows, i) = row
        BY <3>1, LenProperties DEF RowsFit, Row
    <3>5. all[i] = Padded(row, Ends(i, n))
        BY <1>1, <2>3, <3>1
    <3> HIDE DEF row
    <3>6. /\ all[i] \in Seq(Byte) /\ Len(all[i]) = Larger(Len(row), Ends(i, n))
          /\ \A j \in Nat \ {0} : ByteAt(all[i], j) = ByteAt(row, j)
      <4>1. PICK e : e = Ends(i, n)
          OBVIOUS
      <4>2. e \in Nat /\ all[i] = Padded(row, e)
          BY <3>3, <3>5, <4>1
      <4>3. /\ Padded(row, e) \in Seq(Byte) /\ Len(Padded(row, e)) = Larger(Len(row), e)
            /\ \A j \in Nat \ {0} : ByteAt(Padded(row, e), j) = ByteAt(row, j)
          BY <3>4, <4>2, PaddedReads
      <4> QED
          BY <4>1, <4>2, <4>3
    <3>7. /\ Larger(Len(row), Ends(i, n)) <= ChunkSize
          /\ Base(i) + Larger(Len(row), Ends(i, n)) <= n
        BY <1>3, <2>1, <3>3, <3>4 DEF Larger, Smaller
    <3>8. 1..ChunkSize \subseteq Nat \ {0}
        BY <1>3
    <3> QED
        BY <2>1, <3>4, <3>6, <3>7, <3>8
  <2>4. CASE i \notin new /\ ~ends(i)
    <3>1. i \in DOMAIN rows /\ all[i] = rows[i] /\ Row(rows, i) = rows[i]
        BY <1>1, <2>4 DEF Row
    <3>2. rows[i] \in Seq(Byte) /\ Len(rows[i]) <= ChunkSize /\ Len(rows[i]) \in Nat
          /\ Base(i) + Len(rows[i]) <= cur
        BY <3>1, LenProperties DEF RowsFit
    <3> QED
        BY <2>1, <3>1, <3>2
  <2> QED
      BY <2>2, <2>3, <2>4
<1>5. RowsFit(all, n)
    BY <1>4 DEF RowsFit
<1>6. ASSUME NEW i \in Nat, NEW j \in 1..ChunkSize
      PROVE  ByteAt(Row(all, i), j) = ByteAt(Row(rows, i), j)
  <2>1. CASE i \in DOMAIN all
      BY <1>4, <2>1 DEF Row
  <2>2. CASE i \notin DOMAIN all
      BY <1>1, <2>2 DEF Row
  <2> QED
      BY <2>1, <2>2
<1> QED
    BY <1>5, <1>6 DEF all

(* How much of chunk i a write through a path keeps in a file of n bytes.  *)
Upto(n, off, src, i) ==
    IF i < LastChunk(off + Len(src)) THEN ChunkSize
    ELSE Larger(off + Len(src) - i * ChunkSize,
                Smaller(Over(n, i * ChunkSize), ChunkSize))

(* A write through a path cuts its chunks where no byte is lost.           *)
LEMMA PathWriteWrites ==
    ASSUME NEW rows, NEW n \in Nat, RowsFit(rows, n),
           NEW off \in Nat, NEW src \in Seq(Byte), src # <<>>,
           NEW all,
           all = Put([i \in Span(off, Len(src)) |->
                         SubSeq(Patched(Padded(Row(rows, i), ChunkSize),
                                        Over(off, i * ChunkSize),
                                        Piece(i, off, src)),
                                1, Upto(n, off, src, i))], rows)
    PROVE  /\ RowsFit(all, Larger(n, off + Len(src)))
           /\ \A i \in Nat, j \in 1..ChunkSize :
                 ByteAt(Row(all, i), j) =
                     IF Overwritten(off, src, Base(i) + j)
                     THEN ByteAt(src, Base(i) + j - off)
                     ELSE ByteAt(Row(rows, i), j)
<1> DEFINE span == Span(off, Len(src))
           end == off + Len(src)
           last == LastChunk(end)
           whole(i) == Patched(Padded(Row(rows, i), ChunkSize),
                               Over(off, i * ChunkSize), Piece(i, off, src))
           new(i) == SubSeq(whole(i), 1, Upto(n, off, src, i))
<1>1. Len(src) \in Nat \ {0} /\ end \in Nat \ {0} /\ ChunkSize \in Nat \ {0}
    BY EmptySeq, ChunkAssumption
<1>2. span \subseteq Nat
    BY <1>1, SpanOfNumbers
<1>3. /\ DOMAIN all = span \cup DOMAIN rows
      /\ \A i \in span : all[i] = new(i)
      /\ \A i \in DOMAIN rows \ span : all[i] = rows[i]
    BY DEF Put
<1>4. ASSUME NEW i \in span
      PROVE  /\ i \in Nat /\ all[i] \in Seq(Byte) /\ Len(all[i]) <= ChunkSize
             /\ Base(i) + Len(all[i]) <= Larger(n, end)
             /\ \A j \in 1..ChunkSize :
                   ByteAt(all[i], j) = IF off < Base(i) + j /\ Base(i) + j <= end
                                       THEN ByteAt(src, Base(i) + j - off)
                                       ELSE ByteAt(Row(rows, i), j)
  <2> DEFINE b == Base(i)
             row == Row(rows, i)
             pad == Padded(row, ChunkSize)
             w == whole(i)
             u == Upto(n, off, src, i)
  <2>1. i \in Nat /\ b \in Nat
      BY <1>2, BasesGrow
  <2>2. b < end /\ off < b + ChunkSize
      BY <1>1, <2>1, SpanIs
  <2>3. /\ row \in Seq(Byte) /\ Len(row) \in Nat /\ Len(row) <= ChunkSize
        /\ \A j \in Nat \ {0} : b + j > n => ByteAt(row, j) = Zero
      BY <2>1, RowFits
  <2>4. /\ pad \in Seq(Byte) /\ Len(pad) = ChunkSize
        /\ \A j \in Nat \ {0} : ByteAt(pad, j) = ByteAt(row, j)
    <3> HIDE DEF row
    <3>1. /\ pad \in Seq(Byte) /\ Len(pad) = Larger(Len(row), ChunkSize)
          /\ \A j \in Nat \ {0} : ByteAt(pad, j) = ByteAt(row, j)
        BY <1>1, <2>3, PaddedReads
    <3>2. Larger(Len(row), ChunkSize) = ChunkSize
        BY <1>1, <2>3 DEF Larger
    <3> QED
        BY <3>1, <3>2
  <2>5. /\ w \in Seq(Byte) /\ Len(w) = ChunkSize
        /\ \A j \in 1..ChunkSize :
              ByteAt(w, j) = IF off < b + j /\ b + j <= end
                             THEN ByteAt(src, b + j - off) ELSE ByteAt(row, j)
    <3>1. w = Patched(pad, Over(off, i * ChunkSize), Piece(i, off, src))
        OBVIOUS
    <3> HIDE DEF pad, w, row
    <3>2. /\ w \in Seq(Byte)
          /\ Len(w) = Larger(Len(pad), Smaller(ChunkSize, off + Len(src) - Base(i)))
          /\ \A j \in 1..ChunkSize :
                ByteAt(w, j) = IF off < Base(i) + j /\ Base(i) + j <= off + Len(src)
                               THEN ByteAt(src, Base(i) + j - off) ELSE ByteAt(pad, j)
      <4>1. Len(pad) <= ChunkSize
          BY <1>1, <2>4
      <4> QED
          BY <2>1, <2>2, <2>4, <3>1, <4>1, ChunkWritten
    <3>3. Larger(Len(pad), Smaller(ChunkSize, off + Len(src) - Base(i))) = ChunkSize
        BY <1>1, <2>1, <2>4 DEF Larger, Smaller
    <3>4. 1..ChunkSize \subseteq Nat \ {0}
        BY <1>1
    <3> QED
        BY <2>4, <3>2, <3>3, <3>4
  <2>6. u = IF i < last THEN ChunkSize
            ELSE Larger(end - b, Smaller(Over(n, b), ChunkSize))
      BY <2>1 DEF Base, Upto
  <2>7. all[i] = SubSeq(w, 1, u)
      BY <1>3
  <2>8. last \in Nat /\ (i < last => b + ChunkSize < end) /\ end <= Base(last) + ChunkSize
    <3> HIDE DEF last, end, b
    <3>1. /\ last \in Nat /\ Base(last) < end /\ end <= Base(last) + ChunkSize
          /\ Base(last) \in Nat
        BY <1>1, UpToLast, BasesGrow DEF last
    <3>2. i < last => b + ChunkSize <= Base(last)
        BY <2>1, <3>1, BasesGrow DEF b
    <3> QED
        BY <1>1, <2>1, <3>1, <3>2
  <2>9. ~(i < last) => i = last
    <3> HIDE DEF last, end, b
    <3> QED
        BY <1>1, <2>1, <2>2, <2>8, UpToLast DEF last, b
  <2> HIDE DEF b, row, pad, w, u, last, end
  <2>10. /\ u \in Int /\ 0 <= u /\ u <= ChunkSize /\ b + u <= Larger(n, end)
         /\ \A j \in 1..ChunkSize : ~(j <= u) => b + j > end /\ b + j > n
    <3>1. CASE i < last
        BY <1>1, <2>1, <2>6, <2>8, <3>1 DEF Larger
    <3>2. CASE ~(i < last)
      <4>1. end <= b + ChunkSize
          BY <2>8, <2>9, <3>2 DEF b
      <4>2. u = Larger(end - b, Smaller(Over(n, b), ChunkSize))
          BY <2>6, <3>2
      <4> QED
          BY <1>1, <2>1, <2>2, <4>1, <4>2 DEF Larger, Smaller, Over
    <3> QED
        BY <3>1, <3>2
  <2>11. /\ all[i] \in Seq(Byte) /\ Len(all[i]) = u
         /\ \A j \in Nat \ {0} :
               ByteAt(all[i], j) = IF j <= u THEN ByteAt(w, j) ELSE Zero
    <3>1. /\ SubSeq(w, 1, u) \in Seq(Byte)
          /\ Len(SubSeq(w, 1, u)) = IF 1 <= u THEN u - 1 + 1 ELSE 0
          /\ \A j \in Nat \ {0} :
                ByteAt(SubSeq(w, 1, u), j) =
                    IF 1 + j - 1 <= u THEN ByteAt(w, 1 + j - 1) ELSE Zero
        BY <2>5, <2>10, SubSeqReads
    <3>2. (IF 1 <= u THEN u - 1 + 1 ELSE 0) = u
        BY <2>10
    <3>3. \A j \in Nat \ {0} : 1 + j - 1 = j
        OBVIOUS
    <3> QED
        BY <2>7, <3>1, <3>2, <3>3
  <2>12. ASSUME NEW j \in 1..ChunkSize
         PROVE  ByteAt(all[i], j) = IF off < b + j /\ b + j <= end
                                    THEN ByteAt(src, b + j - off) ELSE ByteAt(row, j)
    <3>1. j \in Nat \ {0}
        BY <1>1
    <3>2. CASE j <= u
        BY <2>5, <2>11, <3>1, <3>2
    <3>3. CASE ~(j <= u)
      <4>1. b + j > end /\ b + j > n
          BY <2>10, <3>3
      <4>2. ~(b + j <= end)
          BY <1>1, <2>1, <3>1, <4>1
      <4> QED
          BY <2>3, <2>11, <3>1, <3>3, <4>1, <4>2
    <3> QED
        BY <3>2, <3>3
  <2> QED
      BY <2>1, <2>10, <2>11, <2>12 DEF b, row
<1> HIDE DEF span, end, last, whole, new
<1>5. RowsFit(all, Larger(n, end))
  <2>1. DOMAIN all \subseteq Nat
      BY <1>2, <1>3 DEF RowsFit
  <2>2. ASSUME NEW i \in DOMAIN all, i \notin span
        PROVE  /\ all[i] \in Seq(Byte) /\ Len(all[i]) <= ChunkSize
               /\ Base(i) + Len(all[i]) <= Larger(n, end)
    <3>1. i \in DOMAIN rows /\ all[i] = rows[i] /\ i \in Nat
        BY <1>3, <2>1, <2>2
    <3>2. /\ rows[i] \in Seq(Byte) /\ Len(rows[i]) <= ChunkSize
          /\ Base(i) + Len(rows[i]) <= n
        BY <3>1 DEF RowsFit
    <3>3. Base(i) \in Nat /\ Len(rows[i]) \in Nat
        BY <3>1, <3>2, BasesGrow, LenProperties
    <3>4. n <= Larger(n, end) /\ Larger(n, end) \in Nat
        BY <1>1 DEF Larger
    <3> QED
        BY <3>1, <3>2, <3>3, <3>4
  <2> QED
      BY <1>4, <2>1, <2>2 DEF RowsFit
<1>6. ASSUME NEW i \in Nat, NEW j \in 1..ChunkSize
      PROVE  ByteAt(Row(all, i), j) =
                 IF Overwritten(off, src, Base(i) + j)
                 THEN ByteAt(src, Base(i) + j - off) ELSE ByteAt(Row(rows, i), j)
  <2>1. CASE i \in span
    <3>1. Row(all, i) = all[i]
        BY <1>3, <2>1 DEF Row
    <3> QED
        BY <1>4, <2>1, <3>1 DEF Overwritten, end
  <2>2. CASE i \notin span
    <3>1. Row(all, i) = Row(rows, i)
        BY <1>3, <2>2 DEF Row
    <3>2. ~(Base(i) < end /\ off < Base(i) + ChunkSize) /\ Base(i) \in Nat
        BY <1>1, <2>2, SpanIs, BasesGrow DEF span, end
    <3>3. ~Overwritten(off, src, Base(i) + j)
        BY <1>1, <3>2 DEF Overwritten, end
    <3> QED
        BY <3>1, <3>3
  <2> QED
      BY <2>1, <2>2
<1> QED
    BY <1>5, <1>6 DEF end

(* The zeros that fill a gap behind the end change no byte that is read.   *)
LEMMA GapFilled ==
    ASSUME NEW rows, NEW n \in Nat, RowsFit(rows, n), NEW off \in Nat, n < off
    PROVE  /\ RowsFit(WriteAt(rows, n, Zeros(off - n)), off)
           /\ \A i \in Nat, j \in 1..ChunkSize :
                 ByteAt(Row(WriteAt(rows, n, Zeros(off - n)), i), j) = ByteAt(Row(rows, i), j)
<1> DEFINE z == Zeros(off - n)
           all == WriteAt(rows, n, z)
<1>1. off - n \in Nat \ {0} /\ ChunkSize \in Nat \ {0}
    BY ChunkAssumption
<1>2. z \in Seq(Byte) /\ Len(z) = off - n /\ \A j \in Nat : ByteAt(z, j) = Zero
    BY <1>1, ZerosRead
<1> HIDE DEF z
<1>3. z # <<>>
    BY <1>1, <1>2, EmptySeq
<1>4. /\ RowsFit(all, Larger(n, n + Len(z)))
      /\ \A i \in Nat, j \in 1..ChunkSize :
            ByteAt(Row(all, i), j) =
                IF Overwritten(n, z, Base(i) + j) THEN ByteAt(z, Base(i) + j - n)
                ELSE ByteAt(Row(rows, i), j)
    BY <1>2, <1>3, WriteAtWrites
<1>5. Larger(n, n + Len(z)) = off
    BY <1>1, <1>2 DEF Larger
<1> HIDE DEF all
<1>6. ASSUME NEW i \in Nat, NEW j \in 1..ChunkSize
      PROVE  ByteAt(Row(all, i), j) = ByteAt(Row(rows, i), j)
  <2>1. CASE Overwritten(n, z, Base(i) + j)
    <3>1. j \in Nat \ {0} /\ Base(i) \in Nat
        BY Places
    <3>2. Base(i) + j > n /\ Base(i) + j - n \in Nat
        BY <2>1, <3>1 DEF Overwritten
    <3>3. ByteAt(Row(rows, i), j) = Zero
        BY <3>1, <3>2, RowFits
    <3> QED
        BY <1>2, <1>4, <2>1, <3>2, <3>3
  <2>2. CASE ~Overwritten(n, z, Base(i) + j)
      BY <1>4, <2>2
  <2> QED
      BY <2>1, <2>2
<1> QED
    BY <1>4, <1>5, <1>6 DEF all, z

-----------------------------------------------------------------------------
(* The file as a sequence of bytes *)

(* What a write promises.                                                  *)
LEMMA WritePromises ==
    ASSUME content \in Seq(Byte), NEW off \in Nat, NEW src \in Seq(Byte),
           File!Write(off, src)
    PROVE  /\ content' \in Seq(Byte)
           /\ Len(content') = Larger(Len(content), off + Len(src))
           /\ \A k \in Nat \ {0} :
                 ByteAt(content', k) = IF Overwritten(off, src, k) THEN ByteAt(src, k - off)
                                      ELSE ByteAt(content, k)
<1> DEFINE n == Len(content)
           m == Len(src)
           end == Larger(n, off + m)
<1>1. n \in Nat /\ m \in Nat /\ end \in Nat
    BY LenProperties DEF Larger
<1>2. content' = [k \in 1..end |-> IF k \in (off + 1)..(off + m) THEN src[k - off]
                                  ELSE File!At(k)]
  <2>1. end = IF off + m > n THEN off + m ELSE n
      BY <1>1 DEF Larger
  <2> HIDE DEF end
  <2> QED
      BY <2>1 DEF File!Write
<1>3. ASSUME NEW k \in 1..end
      PROVE  /\ content'[k] \in Byte
             /\ content'[k] = IF Overwritten(off, src, k) THEN ByteAt(src, k - off)
                              ELSE ByteAt(content, k)
  <2> HIDE DEF n, m, end
  <2>1. CASE k \in (off + 1)..(off + m)
    <3>1. k - off \in 1..m /\ Overwritten(off, src, k)
        BY <1>1, <2>1 DEF Overwritten, m
    <3>2. content'[k] = src[k - off] /\ src[k - off] \in Byte
        BY <1>2, <2>1, <3>1, ElementOfSeq DEF m
    <3> QED
        BY <3>1, <3>2 DEF ByteAt, m
  <2>2. CASE k \notin (off + 1)..(off + m)
    <3>1. ~Overwritten(off, src, k) /\ k \in Nat \ {0}
        BY <1>1, <2>2 DEF Overwritten, m
    <3>2. content'[k] = ByteAt(content, k)
        BY <1>1, <1>2, <2>2, <3>1 DEF File!At, ByteAt, n
    <3>3. ByteAt(content, k) \in Byte
        BY ElementOfSeq, ChunkAssumption DEF ByteAt
    <3> QED
        BY <3>1, <3>2, <3>3
  <2> QED
      BY <2>1, <2>2
<1>4. content' \in [1..end -> Byte]
  <2> HIDE DEF end
  <2> QED
      BY <1>2, <1>3
<1>5. content' \in Seq(Byte) /\ Len(content') = end
  <2> HIDE DEF end
  <2> QED
      BY <1>1, <1>4
<1>6. ASSUME NEW k \in Nat \ {0}, k \notin 1..end
      PROVE  ~Overwritten(off, src, k) /\ ByteAt(content, k) = Zero /\ ByteAt(content', k) = Zero
  <2>1. k \notin 1..n /\ ~(k <= off + m)
      BY <1>1, <1>6 DEF Larger
  <2> HIDE DEF end
  <2> QED
      BY <1>5, <1>6, <2>1 DEF Overwritten, ByteAt
<1>7. \A k \in 1..end : ByteAt(content', k) = content'[k]
    BY <1>5 DEF ByteAt
<1> HIDE DEF end
<1> QED
    BY <1>3, <1>5, <1>6, <1>7 DEF end

(* What a truncation promises.                                             *)
LEMMA TruncatePromises ==
    ASSUME content \in Seq(Byte), NEW n \in Nat, File!Truncate(n)
    PROVE  /\ content' \in Seq(Byte) /\ Len(content') = n
           /\ \A k \in Nat \ {0} :
                 ByteAt(content', k) = IF k <= n THEN ByteAt(content, k) ELSE Zero
<1>1. Len(content) \in Nat
    BY LenProperties
<1>2. content' = [k \in 1..n |-> File!At(k)]
    BY DEF File!Truncate
<1>3. ASSUME NEW k \in 1..n
      PROVE  File!At(k) = ByteAt(content, k) /\ File!At(k) \in Byte
  <2>1. File!At(k) = ByteAt(content, k)
      BY <1>1 DEF File!At, ByteAt
  <2>2. ByteAt(content, k) \in Byte
      BY ElementOfSeq, ChunkAssumption DEF ByteAt
  <2> QED
      BY <2>1, <2>2
<1>4. content' \in [1..n -> Byte]
    BY <1>2, <1>3
<1>5. content' \in Seq(Byte) /\ Len(content') = n
    BY <1>4
<1> QED
    BY <1>2, <1>3, <1>5 DEF ByteAt

-----------------------------------------------------------------------------
(* The rows store the file *)

(* The inductive invariant: no row reaches behind the end, and each place  *)
(* of each chunk reads as the byte the users were promised there.          *)
FileInv ==
    /\ size \in Nat /\ content \in Seq(Byte) /\ Len(content) = size
    /\ RowsFit(data, size)
    /\ \A i \in Nat, j \in 1..ChunkSize :
          ByteAt(Row(data, i), j) = ByteAt(content, Base(i) + j)

(* A write of rows that puts its bytes and leaves the others keeps FileInv. *)
LEMMA WriteKeeps ==
    ASSUME FileInv, NEW off \in Nat, NEW src \in Seq(Byte),
           RowsFit(data', Larger(size, off + Len(src))),
           \A i \in Nat, j \in 1..ChunkSize :
               ByteAt(Row(data', i), j) =
                   IF Overwritten(off, src, Base(i) + j)
                   THEN ByteAt(src, Base(i) + j - off) ELSE ByteAt(Row(data, i), j),
           Grow(off, src), File!Write(off, src)
    PROVE  FileInv'
<1>1. /\ content' \in Seq(Byte)
      /\ Len(content') = Larger(size, off + Len(src))
      /\ \A k \in Nat \ {0} :
            ByteAt(content', k) = IF Overwritten(off, src, k) THEN ByteAt(src, k - off)
                                 ELSE ByteAt(content, k)
    BY WritePromises DEF FileInv
<1>2. size' = Larger(size, off + Len(src)) /\ size' \in Nat
    BY LenProperties DEF Grow, Larger, FileInv
<1>3. ASSUME NEW i \in Nat, NEW j \in 1..ChunkSize
      PROVE  ByteAt(Row(data', i), j) = ByteAt(content', Base(i) + j)
  <2>1. Base(i) + j \in Nat \ {0} /\ Base(i) \in Nat /\ j \in Nat
      BY Places
  <2>2. ByteAt(Row(data, i), j) = ByteAt(content, Base(i) + j)
      BY DEF FileInv
  <2>3. ByteAt(Row(data', i), j) = IF Overwritten(off, src, Base(i) + j)
                                   THEN ByteAt(src, Base(i) + j - off)
                                   ELSE ByteAt(Row(data, i), j)
      OBVIOUS
  <2>4. PICK k \in Nat \ {0} : k = Base(i) + j
      BY <2>1
  <2>5. ByteAt(content', k) = IF Overwritten(off, src, k) THEN ByteAt(src, k - off)
                              ELSE ByteAt(content, k)
      BY <1>1
  <2> QED
      BY <2>1, <2>2, <2>3, <2>4, <2>5
<1> QED
    BY <1>1, <1>2, <1>3 DEF FileInv, RowsFit, Row, ByteAt

(* A truncation of rows that cuts them, or leaves the bytes of a file that *)
(* becomes no shorter, keeps FileInv.                                      *)
LEMMA TruncateKeeps ==
    ASSUME FileInv, NEW n \in Nat, RowsFit(data', n),
           \A i \in Nat, j \in 1..ChunkSize :
               Base(i) + j <= n => ByteAt(Row(data', i), j) = ByteAt(Row(data, i), j),
           size' = n, File!Truncate(n)
    PROVE  FileInv'
<1>1. /\ content' \in Seq(Byte) /\ Len(content') = n
      /\ \A k \in Nat \ {0} :
            ByteAt(content', k) = IF k <= n THEN ByteAt(content, k) ELSE Zero
    BY TruncatePromises DEF FileInv
<1>2. ASSUME NEW i \in Nat, NEW j \in 1..ChunkSize
      PROVE  ByteAt(Row(data', i), j) = ByteAt(content', Base(i) + j)
  <2>1. Base(i) + j \in Nat \ {0} /\ j \in Nat \ {0}
      BY Places
  <2>2. CASE Base(i) + j <= n
      BY <1>1, <2>1, <2>2 DEF FileInv
  <2>3. CASE ~(Base(i) + j <= n)
    <3>1. Base(i) + j > n
        BY <2>1, <2>3
    <3>2. ByteAt(Row(data', i), j) = Zero
        BY <2>1, <3>1, RowFits
    <3> QED
        BY <1>1, <2>1, <2>3, <3>2
  <2> QED
      BY <2>2, <2>3
<1> QED
    BY <1>1, <1>2 DEF FileInv, RowsFit, Row, ByteAt

LEMMA GuestWriteKeeps ==
    ASSUME FileInv, NEW c \in Client, NEW off \in Nat, NEW src \in Seq(Byte), src # <<>>,
           GuestWrite(c, off, src)
    PROVE  FileInv'
<1>1. /\ RowsFit(data', Larger(size, off + Len(src)))
      /\ \A i \in Nat, j \in 1..ChunkSize :
            ByteAt(Row(data', i), j) =
                IF Overwritten(off, src, Base(i) + j)
                THEN ByteAt(src, Base(i) + j - off) ELSE ByteAt(Row(data, i), j)
    BY WriteAtWrites DEF GuestWrite, FileInv
<1> QED
    BY <1>1, WriteKeeps DEF GuestWrite

LEMMA WorkerWriteKeeps ==
    ASSUME FileInv, NEW c \in Client, NEW off \in Nat, NEW src \in Seq(Byte), src # <<>>,
           WorkerWrite(c, off, src)
    PROVE  FileInv'
<1> DEFINE rows == IF off > size THEN WriteAt(data, size, Zeros(off - size)) ELSE data
           n == Larger(size, off)
<1>1. size \in Nat /\ n \in Nat /\ Len(src) \in Nat /\ RowsFit(data, size)
    BY LenProperties DEF FileInv, Larger
<1>2. /\ RowsFit(rows, n)
      /\ \A i \in Nat, j \in 1..ChunkSize : ByteAt(Row(rows, i), j) = ByteAt(Row(data, i), j)
  <2>1. CASE off > size
    <3>1. n = off /\ size < off /\ rows = WriteAt(data, size, Zeros(off - size))
        BY <1>1, <2>1 DEF Larger
    <3> HIDE DEF n, rows
    <3> QED
        BY <1>1, <3>1, GapFilled
  <2>2. CASE ~(off > size)
    <3>1. n = size /\ rows = data
        BY <1>1, <2>2 DEF Larger
    <3> HIDE DEF n, rows
    <3> QED
        BY <1>1, <3>1
  <2> QED
      BY <2>1, <2>2
<1>3. data' = WriteAt(rows, off, src)
    BY DEF WorkerWrite
<1>4. Larger(n, off + Len(src)) = Larger(size, off + Len(src))
    BY <1>1 DEF Larger
<1> HIDE DEF rows, n
<1>5. /\ RowsFit(data', Larger(n, off + Len(src)))
      /\ \A i \in Nat, j \in 1..ChunkSize :
            ByteAt(Row(data', i), j) =
                IF Overwritten(off, src, Base(i) + j)
                THEN ByteAt(src, Base(i) + j - off) ELSE ByteAt(Row(rows, i), j)
  <2> DEFINE all == WriteAt(rows, off, src)
  <2>1. /\ RowsFit(all, Larger(n, off + Len(src)))
        /\ \A i \in Nat, j \in 1..ChunkSize :
              ByteAt(Row(all, i), j) =
                  IF Overwritten(off, src, Base(i) + j)
                  THEN ByteAt(src, Base(i) + j - off) ELSE ByteAt(Row(rows, i), j)
      BY <1>1, <1>2, WriteAtWrites
  <2>2. data' = all
      BY <1>3
  <2> HIDE DEF all
  <2> QED
      BY <2>1, <2>2
<1>6. /\ RowsFit(data', Larger(size, off + Len(src)))
      /\ \A i \in Nat, j \in 1..ChunkSize :
            ByteAt(Row(data', i), j) =
                IF Overwritten(off, src, Base(i) + j)
                THEN ByteAt(src, Base(i) + j - off) ELSE ByteAt(Row(data, i), j)
    BY <1>2, <1>4, <1>5
<1> QED
    BY <1>6, WriteKeeps DEF WorkerWrite

LEMMA PathWriteKeeps ==
    ASSUME FileInv, NEW c \in Client, NEW off \in Nat, NEW src \in Seq(Byte), src # <<>>,
           PathWrite(c, off, src)
    PROVE  FileInv'
<1>1. data' = Put([i \in Span(off, Len(src)) |->
                      SubSeq(Patched(Padded(Row(data, i), ChunkSize),
                                     Over(off, i * ChunkSize),
                                     Piece(i, off, src)),
                             1, Upto(size, off, src, i))], data)
    BY DEF PathWrite, Upto
<1>2. size \in Nat /\ RowsFit(data, size)
    BY DEF FileInv
<1>3. /\ RowsFit(data', Larger(size, off + Len(src)))
      /\ \A i \in Nat, j \in 1..ChunkSize :
            ByteAt(Row(data', i), j) =
                IF Overwritten(off, src, Base(i) + j)
                THEN ByteAt(src, Base(i) + j - off) ELSE ByteAt(Row(data, i), j)
    BY <1>1, <1>2, PathWriteWrites
<1> QED
    BY <1>3, WriteKeeps DEF PathWrite

LEMMA EmptyFits ==
    /\ RowsFit(<<>>, 0)
    /\ \A i \in Nat, j \in Nat : ByteAt(Row(<<>>, i), j) = Zero
<1>1. DOMAIN <<>> = {} /\ Len(<<>>) = 0
    OBVIOUS
<1> QED
    BY <1>1 DEF RowsFit, Row, ByteAt

LEMMA WriteFileKeeps ==
    ASSUME NEW c \in Client, NEW src \in Seq(Byte), WriteFile(c, src)
    PROVE  FileInv'
<1>1. data' = WriteAt(<<>>, 0, src) /\ size' = Len(src) /\ content' = src
    BY DEF WriteFile, File!Replace
<1>2. Len(src) \in Nat /\ ChunkSize \in Nat \ {0}
    BY LenProperties, ChunkAssumption
<1>3. /\ RowsFit(data', Len(src))
      /\ \A i \in Nat, j \in 1..ChunkSize :
            ByteAt(Row(data', i), j) = ByteAt(src, Base(i) + j)
  <2>1. CASE src = <<>>
    <3>1. Span(0, Len(src)) = {}
      <4>1. Len(src) = 0
          BY <2>1
      <4> DEFINE first == 0 \div ChunkSize
                 last == (0 - 1) \div ChunkSize
      <4>2. first \in Nat
          BY Chunking
      <4>3. last \in Int /\ last < 0
          BY <1>2
      <4>4. Span(0, Len(src)) = first..last
          BY <4>1 DEF Span, LastChunk
      <4> HIDE DEF first, last
      <4> QED
          BY <4>2, <4>3, <4>4
    <3>2. DOMAIN data' = {}
        BY <1>1, <3>1 DEF WriteAt, Put
    <3>3. ASSUME NEW i \in Nat, NEW j \in 1..ChunkSize
          PROVE  ByteAt(Row(data', i), j) = ByteAt(src, Base(i) + j)
      <4>1. Row(data', i) = <<>>
          BY <3>2 DEF Row
      <4> QED
          BY <2>1, <4>1 DEF ByteAt
    <3> QED
        BY <3>2, <3>3 DEF RowsFit
  <2>2. CASE src # <<>>
    <3>1. /\ RowsFit(data', Larger(0, 0 + Len(src)))
          /\ \A i \in Nat, j \in 1..ChunkSize :
                ByteAt(Row(data', i), j) =
                    IF Overwritten(0, src, Base(i) + j)
                    THEN ByteAt(src, Base(i) + j - 0) ELSE ByteAt(Row(<<>>, i), j)
      <4> DEFINE rows == <<>>
                 all == WriteAt(rows, 0, src)
      <4>1. RowsFit(rows, 0) /\ 0 \in Nat
          BY EmptyFits
      <4> HIDE DEF rows
      <4>2. /\ RowsFit(all, Larger(0, 0 + Len(src)))
            /\ \A i \in Nat, j \in 1..ChunkSize :
                  ByteAt(Row(all, i), j) =
                      IF Overwritten(0, src, Base(i) + j)
                      THEN ByteAt(src, Base(i) + j - 0) ELSE ByteAt(Row(rows, i), j)
          BY <2>2, <4>1, WriteAtWrites
      <4>3. data' = all
          BY <1>1 DEF rows
      <4> HIDE DEF all
      <4> QED
          BY <4>2, <4>3 DEF rows
    <3>2. Larger(0, 0 + Len(src)) = Len(src)
        BY <1>2 DEF Larger
    <3>3. ASSUME NEW i \in Nat, NEW j \in 1..ChunkSize
          PROVE  ByteAt(Row(data', i), j) = ByteAt(src, Base(i) + j)
      <4>1. j \in Nat \ {0} /\ Base(i) \in Nat /\ Base(i) + j \in Nat \ {0}
          BY Places
      <4>2. CASE Overwritten(0, src, Base(i) + j)
        <5>1. ByteAt(Row(data', i), j) = ByteAt(src, Base(i) + j - 0)
            BY <3>1, <4>2
        <5>2. Base(i) + j - 0 = Base(i) + j
            BY <4>1
        <5> QED
            BY <5>1, <5>2
      <4>3. CASE ~Overwritten(0, src, Base(i) + j)
        <5>1. ByteAt(Row(data', i), j) = Zero
            BY <3>1, <4>1, <4>3, EmptyFits
        <5>2. Base(i) + j \notin 1..Len(src)
            BY <1>2, <4>1, <4>3 DEF Overwritten
        <5> QED
            BY <5>1, <5>2 DEF ByteAt
      <4> QED
          BY <4>2, <4>3
    <3> QED
        BY <3>1, <3>2, <3>3
  <2> QED
      BY <2>1, <2>2
<1> QED
    BY <1>1, <1>2, <1>3 DEF FileInv, RowsFit, Row, ByteAt

(* Rows that fit a file fit a longer one.                                  *)
LEMMA FitLonger ==
    ASSUME NEW rows, NEW n \in Nat, RowsFit(rows, n), NEW m \in Nat, n <= m
    PROVE  RowsFit(rows, m)
<1>1. ASSUME NEW i \in DOMAIN rows PROVE Base(i) + Len(rows[i]) <= m
  <2>1. /\ i \in Nat /\ rows[i] \in Seq(Byte) /\ Base(i) + Len(rows[i]) <= n
      BY DEF RowsFit
  <2>2. Base(i) \in Nat /\ Len(rows[i]) \in Nat
      BY <2>1, BasesGrow, LenProperties
  <2> QED
      BY <2>1, <2>2
<1> QED
    BY <1>1 DEF RowsFit

(* Each way to truncate: rows that are cut, extended or left alone.        *)
LEMMA CutKeeps ==
    ASSUME FileInv, NEW n \in Nat, data' = Cut(data, n), size' = n, File!Truncate(n)
    PROVE  FileInv'
<1>1. /\ RowsFit(data', n)
      /\ \A i \in Nat, j \in 1..ChunkSize :
            Base(i) + j <= n => ByteAt(Row(data', i), j) = ByteAt(Row(data, i), j)
    BY CutCuts DEF FileInv
<1> QED
    BY <1>1, TruncateKeeps

LEMMA MaterializedKeeps ==
    ASSUME FileInv, NEW n \in Nat, n > size, data' = Materialized(data, size, n),
           size' = n, File!Truncate(n)
    PROVE  FileInv'
<1>1. size \in Nat /\ RowsFit(data, size) /\ size < n
    BY DEF FileInv
<1>2. /\ RowsFit(data', n)
      /\ \A i \in Nat, j \in 1..ChunkSize :
            Base(i) + j <= n => ByteAt(Row(data', i), j) = ByteAt(Row(data, i), j)
    BY <1>1, MaterializedReads
<1> QED
    BY <1>2, TruncateKeeps

LEMMA LeftKeeps ==
    ASSUME FileInv, NEW n \in Nat, ~(n < size), data' = data, size' = n, File!Truncate(n)
    PROVE  FileInv'
<1>1. size \in Nat /\ RowsFit(data, size) /\ size <= n
    BY DEF FileInv
<1>2. RowsFit(data', n)
    BY <1>1, FitLonger
<1>3. \A i \in Nat, j \in 1..ChunkSize :
         Base(i) + j <= n => ByteAt(Row(data', i), j) = ByteAt(Row(data, i), j)
    OBVIOUS
<1> QED
    BY <1>2, <1>3, TruncateKeeps

(* No truncation is under way whose size is no longer the file's.          *)
NothingStale == \A c \in Client : seen[c] \in {Unread, size}

LEMMA GuestTruncateKeeps ==
    ASSUME FileInv, NEW c \in Client, NEW n \in Nat, GuestTruncate(c, n)
    PROVE  FileInv'
<1>1. size' = n /\ File!Truncate(n) /\ size \in Nat
    BY DEF GuestTruncate, FileInv
<1>2. CASE n < size
    BY <1>1, <1>2, CutKeeps DEF GuestTruncate
<1>3. CASE n > size
  <2>1. data' = Materialized(data, size, n)
      BY <1>1, <1>3 DEF GuestTruncate
  <2> QED
      BY <1>1, <1>3, <2>1, MaterializedKeeps
<1>4. CASE ~(n < size) /\ ~(n > size)
    BY <1>1, <1>4, LeftKeeps DEF GuestTruncate
<1> QED
    BY <1>2, <1>3, <1>4

LEMMA WorkerTruncateKeeps ==
    ASSUME FileInv, NEW c \in Client, NEW n \in Nat, WorkerTruncate(c, n)
    PROVE  FileInv'
<1>1. size' = n /\ File!Truncate(n)
    BY DEF WorkerTruncate
<1>2. CASE n < size
    BY <1>1, <1>2, CutKeeps DEF WorkerTruncate
<1>3. CASE ~(n < size)
    BY <1>1, <1>3, LeftKeeps DEF WorkerTruncate
<1> QED
    BY <1>2, <1>3

LEMMA HandleTruncateKeeps ==
    ASSUME FileInv, NothingStale, NEW c \in Client, NEW n \in Nat, HandleTruncate(c, n)
    PROVE  FileInv'
<1>1. size' = n /\ File!Truncate(n) /\ seen[c] = size
    BY DEF HandleTruncate, NothingStale, Idle
<1>2. CASE n = 0 \/ n < size
    BY <1>1, <1>2, CutKeeps DEF HandleTruncate
<1>3. CASE ~(n = 0 \/ n < size)
    BY <1>1, <1>3, LeftKeeps DEF HandleTruncate
<1> QED
    BY <1>2, <1>3

LEMMA PathTruncateKeeps ==
    ASSUME FileInv, NothingStale, NEW c \in Client, NEW n \in Nat, PathTruncate(c, n)
    PROVE  FileInv'
<1>1. size' = n /\ File!Truncate(n) /\ seen[c] = size /\ size \in Nat
    BY DEF PathTruncate, NothingStale, Idle, FileInv
<1>2. CASE n = 0 \/ n < size
    BY <1>1, <1>2, CutKeeps DEF PathTruncate
<1>3. CASE n > size
  <2>1. data' = Materialized(data, size, n)
      BY <1>1, <1>3 DEF PathTruncate
  <2> QED
      BY <1>1, <1>3, <2>1, MaterializedKeeps
<1>4. CASE ~(n = 0 \/ n < size) /\ ~(n > size)
    BY <1>1, <1>4, LeftKeeps DEF PathTruncate
<1> QED
    BY <1>2, <1>3, <1>4

(* The data of a write are bytes, at least one.                            *)
LEMMA DataAreBytes ==
    ASSUME NEW src \in Datum
    PROVE  src \in Seq(Byte) /\ src # <<>>
<1>1. PICK n \in 1..MaxSize : src \in [1..n -> Byte]
    BY DEF Datum
<1>2. n \in Nat \ {0}
    BY <1>1, ChunkAssumption
<1>3. src \in Seq(Byte) /\ Len(src) = n
    BY <1>1, <1>2
<1> QED
    BY <1>2, <1>3, EmptySeq

LEMMA StepKeepsFile ==
    ASSUME FileInv, NothingStale, [Next]_vars
    PROVE  FileInv'
<1>1. CASE Next
  <2>1. PICK c \in Client :
            \/ \E off \in 0..(MaxSize - 1), src \in Datum :
                  GuestWrite(c, off, src) \/ WorkerWrite(c, off, src) \/ PathWrite(c, off, src)
            \/ \E src \in Datum \cup {<<>>} : WriteFile(c, src)
            \/ LocalTruncateReads(c)
            \/ \E n \in 0..MaxSize :
                  \/ GuestTruncate(c, n) \/ WorkerTruncate(c, n)
                  \/ HandleTruncate(c, n) \/ PathTruncate(c, n)
      BY <1>1 DEF Next
  <2>2. ASSUME NEW off \in 0..(MaxSize - 1), NEW src \in Datum,
               GuestWrite(c, off, src) \/ WorkerWrite(c, off, src) \/ PathWrite(c, off, src)
        PROVE  FileInv'
    <3>1. off \in Nat /\ src \in Seq(Byte) /\ src # <<>>
        BY DataAreBytes
    <3> QED
        BY <2>2, <3>1, GuestWriteKeeps, WorkerWriteKeeps, PathWriteKeeps
  <2>3. ASSUME NEW src \in Datum \cup {<<>>}, WriteFile(c, src) PROVE FileInv'
    <3>1. src \in Seq(Byte)
        BY DataAreBytes, EmptySeq
    <3> QED
        BY <2>3, <3>1, WriteFileKeeps
  <2>4. ASSUME LocalTruncateReads(c) PROVE FileInv'
      BY <2>4 DEF LocalTruncateReads, FileInv, RowsFit, Row, ByteAt
  <2>5. ASSUME NEW n \in 0..MaxSize,
               \/ GuestTruncate(c, n) \/ WorkerTruncate(c, n)
               \/ HandleTruncate(c, n) \/ PathTruncate(c, n)
        PROVE  FileInv'
    <3>1. n \in Nat
        BY ChunkAssumption
    <3> QED
        BY <2>5, <3>1, GuestTruncateKeeps, WorkerTruncateKeeps, HandleTruncateKeeps,
           PathTruncateKeeps
  <2> QED
      BY <2>1, <2>2, <2>3, <2>4, <2>5
<1>2. CASE UNCHANGED vars
    BY <1>2 DEF vars, FileInv, RowsFit, Row, ByteAt
<1> QED
    BY <1>1, <1>2

LEMMA FileStarts == Init => FileInv
<1> SUFFICES ASSUME Init PROVE FileInv
    OBVIOUS
<1>1. size = 0 /\ data = <<>> /\ content = <<>>
    BY DEF Init, File!Init
<1>2. \A k \in Nat : ByteAt(<<>>, k) = Zero
    BY DEF ByteAt
<1>3. \A i \in Nat, j \in 1..ChunkSize : Base(i) + j \in Nat /\ j \in Nat
    BY Places
<1> QED
    BY <1>1, <1>2, <1>3, EmptyFits, EmptySeq DEF FileInv

LEMMA FileSpells ==
    ASSUME FileInv
    PROVE  NothingBehindEnd /\ RowsSpellContent
<1>1. NothingBehindEnd
    BY DEF NothingBehindEnd, FileInv, RowsFit, Base
<1>2. ASSUME NEW k \in 0..(size - 1)
      PROVE  ByteAt(Row(data, k \div ChunkSize), (k % ChunkSize) + 1) = content[k + 1]
  <2> DEFINE i == k \div ChunkSize
             r == k % ChunkSize
  <2>1. k \in Nat /\ k + 1 \in 1..Len(content)
      BY DEF FileInv
  <2>2. i \in Nat /\ r \in 0..(ChunkSize - 1) /\ k = Base(i) + r
      BY <2>1, Chunking
  <2> HIDE DEF i, r
  <2>3. r + 1 \in 1..ChunkSize /\ Base(i) + (r + 1) = k + 1
      BY <2>2, BasesGrow, ChunkAssumption
  <2>4. PICK j \in 1..ChunkSize : j = r + 1
      BY <2>3
  <2>5. ByteAt(Row(data, i), j) = ByteAt(content, Base(i) + j)
      BY <2>2 DEF FileInv
  <2>6. Base(i) + j = k + 1
      BY <2>3, <2>4
  <2>7. ByteAt(content, k + 1) = content[k + 1]
      BY <2>1 DEF ByteAt
  <2> QED
      BY <2>4, <2>5, <2>6, <2>7 DEF i, r
<1> QED
    BY <1>1, <1>2 DEF RowsSpellContent, FileInv

(* Rust and TypeScript writers in any mixture, writes behind the end and   *)
(* truncations: as long as the size that a truncation of the Rust SDK has  *)
(* read before its transaction is the file's, the rows spell the file and  *)
(* hold nothing behind its end.                                            *)
THEOREM RowsSpellUnlessStale ==
    Spec /\ []NothingStale => [](NothingBehindEnd /\ RowsSpellContent)
<1>1. Init => FileInv
    BY FileStarts
<1>2. FileInv /\ NothingStale /\ [Next]_vars => FileInv'
    BY StepKeepsFile
<1>3. FileInv => NothingBehindEnd /\ RowsSpellContent
    BY FileSpells
<1> QED
    BY <1>1, <1>2, <1>3, PTL DEF Spec

-----------------------------------------------------------------------------
(* Where no size is stale *)

SeenFunction == seen \in [Client -> Nat \cup {Unread}]

(* A client with a truncation under way does nothing else, so that alone   *)
(* it changes the file only when it ends the truncation.                   *)
LEMMA AloneNothingStale ==
    ASSUME \A c, d \in Client : c = d,
           FileInv, SeenFunction, NothingStale, [Next]_vars
    PROVE  SeenFunction' /\ NothingStale'
<1>1. CASE Next
  <2>1. PICK c \in Client :
            \/ Idle(c) /\ UNCHANGED seen
            \/ LocalTruncateReads(c)
            \/ seen' = [seen EXCEPT ![c] = Unread]
      BY <1>1 DEF Next, GuestWrite, WorkerWrite, PathWrite, WriteFile,
                  GuestTruncate, WorkerTruncate, HandleTruncate, PathTruncate
  <2>2. CASE Idle(c) /\ UNCHANGED seen
      BY <2>2 DEF Idle, NothingStale, SeenFunction
  <2>3. CASE LocalTruncateReads(c)
      BY <2>3 DEF LocalTruncateReads, NothingStale, SeenFunction, FileInv
  <2>4. CASE seen' = [seen EXCEPT ![c] = Unread]
      BY <2>4 DEF NothingStale, SeenFunction
  <2> QED
      BY <2>1, <2>2, <2>3, <2>4
<1>2. CASE UNCHANGED vars
    BY <1>2 DEF vars, NothingStale, SeenFunction
<1> QED
    BY <1>1, <1>2

LEMMA StartsUnseen == Init => SeenFunction /\ NothingStale
BY DEF Init, SeenFunction, NothingStale

(* One client at a time: all the operations of both implementations.       *)
THEOREM RowsSpellAlone ==
    ASSUME \A c, d \in Client : c = d
    PROVE  Spec => [](NothingBehindEnd /\ RowsSpellContent)
<1> DEFINE Inv == FileInv /\ SeenFunction /\ NothingStale
<1>1. Init => Inv
    BY FileStarts, StartsUnseen
<1>2. Inv /\ [Next]_vars => Inv'
    BY StepKeepsFile, AloneNothingStale
<1>3. Inv => NothingBehindEnd /\ RowsSpellContent
    BY FileSpells
<1> HIDE DEF Inv
<1> QED
    BY <1>1, <1>2, <1>3, PTL DEF Spec

(* AiryFS itself truncates in one transaction: any number of mounts and    *)
(* Worker requests at the same time.                                       *)
THEOREM RowsSpellRemote ==
    SpecRemote => [](NothingBehindEnd /\ RowsSpellContent)
<1> DEFINE Unseen == \A c \in Client : seen[c] = Unread
           Inv == FileInv /\ Unseen
<1>1. Init => Inv
    BY FileStarts DEF Init
<1>2. Inv /\ [NextRemote]_vars => Inv'
  <2> SUFFICES ASSUME Inv, [NextRemote]_vars PROVE Inv'
      OBVIOUS
  <2>1. UNCHANGED seen
      BY DEF NextRemote, GuestWrite, WorkerWrite, WriteFile, GuestTruncate,
             WorkerTruncate, vars
  <2>2. [Next]_vars
      BY DEF NextRemote, Next
  <2>3. NothingStale
      BY DEF NothingStale
  <2> QED
      BY <2>1, <2>2, <2>3, StepKeepsFile
<1>3. Inv => NothingBehindEnd /\ RowsSpellContent
    BY FileSpells
<1> HIDE DEF Inv
<1> QED
    BY <1>1, <1>2, <1>3, PTL DEF SpecRemote
=============================================================================
