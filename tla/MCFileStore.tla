---------------------------- MODULE MCFileStore -----------------------------
(***************************************************************************)
(* Instances of FileStore for TLC, with chunks of three bytes and buckets  *)
(* of three chunks.  Each file is there for a length at which the code     *)
(* branches, or to share reads with another one.                           *)
(***************************************************************************)
EXTENDS FileStore

CONSTANTS short, full, long, split, huge, w1, w2

Bytes == [f \in File |->
    CASE f = short -> <<1>>                      \* one short read
      [] f = full  -> <<1, 0, 0>>                \* a chunk, hashed like short
      [] f = long  -> <<1, 2, 3, 4, 5, 6, 7>>    \* more than a window
      [] f = split -> <<1, 2, 3, 4>>             \* read byte by byte
      [] f = huge  -> <<1, 2, 3, 8, 5, 6, 7, 8, 9, 10>>]  \* over a bucket

\* Two commits with the long file in common.
Commits == [w \in Worker |->
    IF w = w1 THEN {short, long, huge} ELSE {full, long, split}]

\* One read() fills the buffer, or takes a byte.
ReadLens == [f \in File |-> IF f \in {short, split} THEN 1 ELSE ChunkLen]

\* Also has TLC evaluate the checksums once and for all.
ASSUME ChecksumType == Checksum \in [File -> Checksums]
=============================================================================
