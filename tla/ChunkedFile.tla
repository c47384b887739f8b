---------------------------- MODULE ChunkedFile -----------------------------
(***************************************************************************)
(* The contents of one regular file: `size` in fs_inode and the rows of    *)
(* fs_data, each a chunk of at most ChunkSize bytes under its index.  Two  *)
(* implementations write the same rows: the Rust one of the mounts (through *)
(* handles, through the compound functions of the object, and through      *)
(* paths) and the TypeScript one of the Worker.  They agree on the rows of *)
(* a file without holes only: a Rust read fills what is missing with       *)
(* zeros, a TypeScript read returns the rows one after another.            *)
(*                                                                         *)
(* Every operation is one transaction, except truncation through a local   *)
(* handle or path, which reads the size before its transaction begins.     *)
(* Creation of the file by a path write and the times are left out.        *)
(***************************************************************************)
EXTENDS Integers, Sequences, SequencesExt

CONSTANTS Client,      \* requests served at the same time
          ChunkSize,
          Byte, Zero, MaxSize,
          Unread       \* a client with no truncation under way

ASSUME ChunkAssumption ==
    /\ ChunkSize \in Nat \ {0}
    /\ Zero \in Byte /\ MaxSize \in Nat
    /\ Unread \notin Nat

VARIABLES size,      \* fs_inode.size
          data,      \* chunk_index -> data, the rows of fs_data
          seen,      \* the size a client's truncation has read
          content    \* history: the bytes the users were promised

vars == <<size, data, seen, content>>

File == INSTANCE ByteFile

Datum == UNION {[1..n -> Byte] : n \in 1..MaxSize}

Larger(m, n) == IF m > n THEN m ELSE n
Smaller(m, n) == IF m < n THEN m ELSE n
Over(m, n) == IF m > n THEN m - n ELSE 0     \* a saturating subtraction

Zeros(n) == [k \in 1..n |-> Zero]
Padded(s, n) == s \o Zeros(Over(n, Len(s)))

Part(s, m, n) == SubSeq(s, m, Smaller(n, Len(s)))

Row(rows, i) == IF i \in DOMAIN rows THEN rows[i] ELSE <<>>

(* Rows inserted, or put in the place of those with the same index. *)
Put(new, rows) ==
    [i \in DOMAIN new \cup DOMAIN rows |->
        IF i \in DOMAIN new THEN new[i] ELSE rows[i]]

LastChunk(n) == (n - 1) \div ChunkSize       \* of a file of n > 0 bytes

Span(off, n) == (off \div ChunkSize)..LastChunk(off + n)

Idle(c) == seen[c] = Unread

-----------------------------------------------------------------------------
(* Writing *)

(* src put at position `at` of a chunk. *)
Patched(chunk, at, src) ==
    SubSeq(Padded(chunk, at), 1, at) \o src
        \o SubSeq(chunk, at + Len(src) + 1, Len(chunk))

(* The part of src, written at offset off, that lies in chunk i. *)
Piece(i, off, src) ==
    Part(src, Over(i * ChunkSize, off) + 1, (i + 1) * ChunkSize - off)

(* Variant of WriteAt with a mistake: what the chunk held is dropped. *)
WriteAtFresh(rows, off, src) ==
    Put([i \in Span(off, Len(src)) |->
            Patched(<<>>, Over(off, i * ChunkSize), Piece(i, off, src))], rows)

(* write_data_at_offset_with_conn, writeDataAtOffset and the loop of       *)
(* airyfs_pwrite_v1: a chunk grows only as far as the data reaches.        *)
WriteAt(rows, off, src) ==
    Put([i \in Span(off, Len(src)) |->
            Patched(Row(rows, i), Over(off, i * ChunkSize), Piece(i, off, src))],
        rows)

Grow(off, src) == size' = Larger(size, off + Len(src))

(* A write of a mount: AgentFSFile::pwrite or airyfs_pwrite_v1. *)
GuestWrite(c, off, src) ==
    /\ Idle(c)
    /\ data' = WriteAt(data, off, src)
    /\ Grow(off, src)
    /\ UNCHANGED seen
    /\ File!Write(off, src)

(* A write of the Worker fills a gap behind the end with zeros first. *)
WorkerWrite(c, off, src) ==
    /\ Idle(c)
    /\ data' = WriteAt(IF off > size
                       THEN WriteAt(data, size, Zeros(off - size)) ELSE data,
                       off, src)
    /\ Grow(off, src)
    /\ UNCHANGED seen
    /\ File!Write(off, src)

(* A write through a path of the Rust SDK: whole chunks, the last one cut  *)
(* at the end of the data or of the file.                                  *)
PathWrite(c, off, src) ==
    LET last == LastChunk(off + Len(src))
        Upto(i) == IF i < last THEN ChunkSize
                   ELSE Larger(off + Len(src) - i * ChunkSize,
                               Smaller(Over(size, i * ChunkSize), ChunkSize))
    IN /\ Idle(c)
       /\ data' = Put([i \in Span(off, Len(src)) |->
                          SubSeq(Patched(Padded(Row(data, i), ChunkSize),
                                         Over(off, i * ChunkSize),
                                         Piece(i, off, src)),
                                 1, Upto(i))], data)
       /\ Grow(off, src)
       /\ UNCHANGED seen
       /\ File!Write(off, src)

(* writeFile of the Worker: updateFileContent. *)
WriteFile(c, src) ==
    /\ Idle(c)
    /\ data' = WriteAt(<<>>, 0, src)
    /\ size' = Len(src)
    /\ UNCHANGED seen
    /\ File!Replace(src)

-----------------------------------------------------------------------------
(* Truncation *)

(* Variant of Cut with a mistake: the new last chunk is kept whole. *)
CutWhole(rows, n) ==
    [i \in {j \in DOMAIN rows : n > 0 /\ j <= LastChunk(n)} |-> rows[i]]

(* Shrinking deletes the chunks behind the new last one and cuts that one. *)
Cut(rows, n) ==
    [i \in {j \in DOMAIN rows : n > 0 /\ j <= LastChunk(n)} |->
        IF i = LastChunk(n) /\ n % ChunkSize > 0
        THEN Part(rows[i], 1, n % ChunkSize)
        ELSE rows[i]]

(* The chunks behind the last one of a file of cur bytes, up to n. *)
NewChunks(cur, n) == (IF cur = 0 THEN 0 ELSE LastChunk(cur) + 1)..LastChunk(n)

Ends(i, n) == IF i = LastChunk(n) THEN ((n - 1) % ChunkSize) + 1 ELSE ChunkSize

(* Extension that stores its zeros: the last chunk is filled if there is   *)
(* one, and new chunks of zeros replace what has their index.              *)
Materialized(rows, cur, n) ==
    Put([i \in NewChunks(cur, n) |-> Zeros(Ends(i, n))],
        [i \in DOMAIN rows |->
            IF cur > 0 /\ i = LastChunk(cur) THEN Padded(rows[i], Ends(i, n))
            ELSE rows[i]])

(* airyfs_truncate_v1, one transaction. *)
GuestTruncate(c, n) ==
    /\ Idle(c)
    /\ data' = IF n < size THEN Cut(data, n)
               ELSE IF n > size THEN Materialized(data, size, n) ELSE data
    /\ size' = n
    /\ UNCHANGED seen
    /\ File!Truncate(n)

(* truncate of the TypeScript handle, one transaction: an extension stores *)
(* nothing.                                                                *)
WorkerTruncate(c, n) ==
    /\ Idle(c)
    /\ data' = IF n < size THEN Cut(data, n) ELSE data
    /\ size' = n
    /\ UNCHANGED seen
    /\ File!Truncate(n)

(* Truncation through a local handle or path of the Rust SDK reads the     *)
(* size and only then begins its transaction.                              *)
LocalTruncateReads(c) ==
    /\ Idle(c)
    /\ seen' = [seen EXCEPT ![c] = size]
    /\ UNCHANGED <<size, data, content>>

HandleTruncate(c, n) ==
    /\ ~Idle(c)
    /\ data' = IF n = 0 \/ n < seen[c] THEN Cut(data, n) ELSE data
    /\ size' = n
    /\ seen' = [seen EXCEPT ![c] = Unread]
    /\ File!Truncate(n)

(* The path form stores its zeros with plain INSERTs: where a row is in    *)
(* the way the transaction fails and is rolled back, which is no step.     *)
PathTruncate(c, n) ==
    /\ ~Idle(c)
    /\ n > seen[c] => NewChunks(seen[c], n) \cap DOMAIN data = {}
    /\ data' = IF n = 0 \/ n < seen[c] THEN Cut(data, n)
               ELSE IF n > seen[c] THEN Materialized(data, seen[c], n)
               ELSE data
    /\ size' = n
    /\ seen' = [seen EXCEPT ![c] = Unread]
    /\ File!Truncate(n)

-----------------------------------------------------------------------------
(* Reading: the rows of the range in order, folded as the loops do *)

RowsIn(off, n) == SetToSortSeq(Span(off, n) \cap DOMAIN data, <)

(* Variant of HandleRead with a mistake: a gap is counted from its chunk's *)
(* start, not from the offset.                                             *)
HandleReadUnskipped(off, n) ==
    LET want  == Smaller(n, Over(size, off))
        first == off \div ChunkSize
        Skip(i) == IF i = first THEN off % ChunkSize ELSE 0
        Reach(i) == Smaller(want, Over(i, first) * ChunkSize)
        Step(acc, i) ==
            LET gap == Padded(acc, Reach(i))
            IN gap \o Part(data[i], Skip(i) + 1, Skip(i) + (want - Len(gap)))
    IN IF want = 0 THEN <<>>
       ELSE Padded(FoldLeft(Step, <<>>, RowsIn(off, want)), want)

(* AgentFSFile::pread: bounded by the size; acc is what was collected and  *)
(* the chunk expected next; missing chunks, short chunks and the tail are  *)
(* zeros.                                                                  *)
HandleRead(off, n) ==
    LET want  == Smaller(n, Over(size, off))
        first == off \div ChunkSize
        Skip(i) == IF i = first THEN off % ChunkSize ELSE 0
        Reach(i) == Smaller(want, Over(i * ChunkSize, off))
        Step(acc, i) ==
            LET gap  == Padded(acc, Reach(i))
                have == Part(data[i], Skip(i) + 1,
                             Skip(i) + (want - Len(gap)))
            IN Padded(gap \o have, Reach(i + 1))
    IN IF want = 0 THEN <<>>
       ELSE Padded(FoldLeft(Step, <<>>, RowsIn(off, want)), want)

(* pread of the TypeScript handle and of the SDK's path form: the rows of  *)
(* the range one after another; the offset applies to the first that has   *)
(* bytes.                                                                  *)
PlainRead(off, n) ==
    LET Step(acc, i) ==
            LET skip == IF acc = <<>> THEN off % ChunkSize ELSE 0
            IN acc \o Part(data[i], skip + 1, skip + (n - Len(acc)))
    IN FoldLeft(Step, <<>>, RowsIn(off, n))

(* readFile of the Worker and read_file of the SDK: all rows. *)
WholeRead ==
    LET Step(acc, i) == acc \o data[i]
    IN FoldLeft(Step, <<>>, SetToSortSeq(DOMAIN data, <))

-----------------------------------------------------------------------------
Init == /\ size = 0 /\ data = <<>>
        /\ seen = [c \in Client |-> Unread]
        /\ File!Init

Fits(off, src) == off + Len(src) <= MaxSize

Next == \E c \in Client :
    \/ \E off \in 0..(MaxSize - 1), src \in Datum :
          /\ Fits(off, src)
          /\ \/ GuestWrite(c, off, src)
             \/ WorkerWrite(c, off, src)
             \/ PathWrite(c, off, src)
    \/ \E src \in Datum \cup {<<>>} : WriteFile(c, src)
    \/ LocalTruncateReads(c)
    \/ \E n \in 0..MaxSize :
          \/ GuestTruncate(c, n)
          \/ WorkerTruncate(c, n)
          \/ HandleTruncate(c, n)
          \/ PathTruncate(c, n)

Spec == Init /\ [][Next]_vars

-----------------------------------------------------------------------------
(* Properties *)

(* No stored byte lies at or behind the end of the file: an extension that *)
(* stores nothing (HandleTruncate, WorkerTruncate) would bring it back.    *)
NothingBehindEnd ==
    \A i \in DOMAIN data : i * ChunkSize + Len(data[i]) <= size

(* The byte a reader that pads with zeros finds at a place of a chunk. *)
ByteAt(s, j) == IF j \in 1..Len(s) THEN s[j] ELSE Zero

(* The rows spell the file: whatever mixture of the writers made them, the *)
(* chunk around each offset holds the byte written there last, or none     *)
(* where a zero is due, and the size is where the bytes end.               *)
RowsSpellContent ==
    /\ size = Len(content)
    /\ \A k \in 0..(size - 1) :
          ByteAt(Row(data, k \div ChunkSize), (k % ChunkSize) + 1) = content[k + 1]

(* What a mount reads of any part, aligned to chunks or not, across        *)
(* missing and short chunks and across the end, is what was written last   *)
(* at each offset, and zeros where nothing was or where the end has been   *)
(* since.                                                                  *)
PartsAgree ==
    \A off, n \in 0..MaxSize :
        HandleRead(off, n) = Part(content, off + 1, off + n)

(* PERFORMANCE_OPTIMIZATIONS.md: the object materializes extensions so     *)
(* that the Rust and the TypeScript readers observe the same bytes.        *)
ReadersAgree ==
    /\ WholeRead = content
    /\ \A off \in 0..MaxSize, n \in 1..MaxSize :
          PlainRead(off, n) = Part(content, off + 1, off + n)
=============================================================================
