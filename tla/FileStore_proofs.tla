-------------------------- MODULE FileStore_proofs --------------------------
(***************************************************************************)
(* Proofs about FileStore: a file that counts as stored has all its rows,  *)
(* and they never change; and a body that ends in good order has sent the  *)
(* file that was asked for.                                                *)
(***************************************************************************)
EXTENDS FileStore, FiniteSetTheorems, TLAPS

\* Multiples of a positive number lie at least that number apart.
LEMMA MultiplesApart ==
    ASSUME NEW n \in Nat \ {0}, NEW a \in Nat, NEW b \in Nat,
           a % n = 0, b % n = 0, b < a + n
    PROVE  b <= a
<1>1. a = n * (a \div n) /\ b = n * (b \div n)
  OBVIOUS
<1>2. QED BY <1>1

\* The next multiple of a positive number.
LEMMA NextMultiple ==
    ASSUME NEW n \in Nat \ {0}, NEW a \in Nat, a % n = 0
    PROVE  (a + n) % n = 0
<1> DEFINE q == a \div n
           d == (a + n) \div n
           r == (a + n) % n
<1>1. a = n * q /\ q \in Int
  OBVIOUS
<1>2. a + n = n * d + r /\ r \in 0..n - 1 /\ d \in Int
  OBVIOUS
<1>3. r = n * (q + 1 - d)
  BY <1>1, <1>2
<1>4. q + 1 - d = 0
  <2> DEFINE k == q + 1 - d
  <2>1. k \in Int /\ n * k \in 0..n - 1
    BY <1>1, <1>2, <1>3
  <2>2. k = 0
    <3> HIDE DEF k
    <3>1. CASE k >= 1
      BY <2>1, <3>1
    <3>2. CASE k <= -1
      BY <2>1, <3>2
    <3>3. QED BY <2>1, <3>1, <3>2
  <2>3. QED BY <2>2
<1>5. QED BY <1>3, <1>4, <1>2

\* What division by a positive number leaves.
LEMMA Division ==
    ASSUME NEW n \in Nat \ {0}, NEW a \in Nat
    PROVE  /\ a = n * (a \div n) + (a % n)
           /\ a \div n \in Nat
           /\ a % n \in Nat /\ a % n < n /\ a % n <= a
           /\ a \div n = 0 <=> a < n
<1> DEFINE q == a \div n
           r == a % n
<1>1. a = n * q + r /\ r \in 0..n - 1 /\ q \in Int
  OBVIOUS
<1>2. q >= 0
  <2> HIDE DEF q, r
  <2>1. CASE q <= -1
    <3>1. n * q <= -n
      BY <1>1, <2>1
    <3>2. QED BY <1>1, <3>1
  <2>2. QED BY <1>1, <2>1
<1>3. n * q \in Nat /\ (q >= 1 => n * q >= n) /\ (q = 0 => n * q = 0)
  <2> HIDE DEF q
  <2>1. n * q \in Int
    BY <1>1
  <2>2. QED BY <1>1, <1>2, <2>1
<1>4. r <= a /\ (q = 0 <=> a < n)
  <2> HIDE DEF q, r
  <2>1. PICK m \in Nat : m = n * q
    BY <1>3
  <2>2. QED BY <1>1, <1>2, <1>3, <2>1
<1>5. QED BY <1>1, <1>2, <1>4

-----------------------------------------------------------------------------
\* The constants that are lengths are numbers.
LEMMA Lengths ==
    /\ ChunkLen \in Nat \ {0}
    /\ NoLength \notin Nat
    /\ \A f \in File : Length(f) \in Nat /\ ReadLen[f] \in Nat \ {0} /\ ReadLen[f] <= ChunkLen
BY LengthAssumption, ContentAssumption DEF Length

\* Every file has one of the checksums.
LEMMA KnownChecksums == \A f \in File : Checksum[f] \in Checksums
BY DEF Checksums

\* The files that are alone with their checksum are files.
LEMMA UniqueIsFile == Unique \subseteq File
BY DEF Unique

\* A read returns nothing at the end of the file and nowhere else.
LEMMA ReadBounds ==
    ASSUME NEW f \in File, NEW p \in Nat, p <= Length(f)
    PROVE  /\ ReadFrom(f, p) \in Nat
           /\ p + ReadFrom(f, p) <= Length(f)
           /\ ReadFrom(f, p) = 0 => p = Length(f)
BY Lengths DEF ReadFrom

\* A chunk from a position that is a multiple of ChunkLen, as long as it may
\* be, is the next row of the file.
LEMMA NextRow ==
    ASSUME NEW f \in File, NEW o \in Nat, NEW len \in 1..ChunkLen,
           o % ChunkLen = 0, o + len <= Length(f),
           len = ChunkLen \/ o + len = Length(f)
    PROVE  /\ RowsTo(f, o + len) \subseteq RowsTo(f, o) \cup {ChunkRow(f, o, len)}
           /\ ChunkRow(f, o, len) \in RowsTo(f, Length(f))
<1>1. ChunkRow(f, o, len) = ChunkAt(f, o)
  BY Lengths DEF ChunkAt
<1>2. o \in ChunkStarts(f, Length(f))
  BY Lengths DEF ChunkStarts
<1>3. ASSUME NEW b \in ChunkStarts(f, o + len)
      PROVE  b \in ChunkStarts(f, o) \/ b = o
  <2>1. b \in Nat /\ b < o + ChunkLen /\ b % ChunkLen = 0 /\ b \in 0..Length(f)
    BY Lengths DEF ChunkStarts
  <2>2. b <= o
    BY <2>1, Lengths, MultiplesApart
  <2>3. QED BY <2>1, <2>2 DEF ChunkStarts
<1>4. QED BY <1>1, <1>2, <1>3 DEF RowsTo

\* A file has one row at an offset.
LEMMA OneRowPerOffset ==
    ASSUME NEW f, NEW p, NEW r \in RowsTo(f, p), NEW o, NEW len,
           NEW q \in Nat, ChunkRow(f, o, len) \in RowsTo(f, q), r.offset = o
    PROVE  r = ChunkRow(f, o, len)
<1>1. PICK b \in ChunkStarts(f, p) : r = ChunkAt(f, b)
  BY DEF RowsTo
<1>2. PICK c \in ChunkStarts(f, q) : ChunkRow(f, o, len) = ChunkAt(f, c)
  BY DEF RowsTo
<1>3. b = o
  BY <1>1 DEF ChunkAt, ChunkRow
<1>4. c = o
  BY <1>2 DEF ChunkAt, ChunkRow
<1>5. QED BY <1>1, <1>2, <1>3, <1>4

\* Inserting a row of a file adds it, and takes away no row of any file; it
\* changes nothing when all rows of the file are there.
LEMMA InsertRow ==
    ASSUME StoreTypes, OwnRows, NEW f \in File, NEW o, NEW len,
           CreateChunk(f, o, len), ChunkRow(f, o, len) \in RowsTo(f, Length(f))
    PROVE  /\ rows' = [c \in Checksums |-> rows'[c]]
           /\ ChunkRow(f, o, len) \in rows'[Checksum[f]]
           /\ \A g \in Unique :
                 /\ rows[Checksum[g]] \subseteq rows'[Checksum[g]]
                 /\ rows'[Checksum[g]] \subseteq RowsTo(g, Length(g))
                 /\ RowsTo(g, Length(g)) \subseteq rows[Checksum[g]] =>
                       rows'[Checksum[g]] = rows[Checksum[g]]
<1> DEFINE row == ChunkRow(f, o, len)
           c == Checksum[f]
<1>1. c \in Checksums
  BY KnownChecksums
<1>2. rows' = [rows EXCEPT ![c] =
                  {r \in @ : r.bucket # row.bucket \/ r.offset # o} \cup {row}]
  BY DEF CreateChunk
<1>3. rows' = [d \in Checksums |-> rows'[d]] /\ row \in rows'[c]
  BY <1>1, <1>2 DEF StoreTypes
<1>4. ASSUME NEW g \in Unique
      PROVE  /\ rows[Checksum[g]] \subseteq rows'[Checksum[g]]
             /\ rows'[Checksum[g]] \subseteq RowsTo(g, Length(g))
             /\ RowsTo(g, Length(g)) \subseteq rows[Checksum[g]] =>
                   rows'[Checksum[g]] = rows[Checksum[g]]
  <2>1. CASE g = f
    <3>1. ASSUME NEW r \in rows[c], r.offset = o
          PROVE  r = row
      <4>1. r \in RowsTo(f, Length(f)) /\ Length(f) \in Nat
        BY <2>1, Lengths DEF OwnRows
      <4>2. QED BY <3>1, <4>1, OneRowPerOffset
    <3>2. rows'[c] = {r \in rows[c] : r.bucket # row.bucket \/ r.offset # o} \cup {row}
      BY <1>1, <1>2 DEF StoreTypes
    <3> HIDE DEF row
    <3>3. rows'[c] = rows[c] \cup {row}
      BY <3>1, <3>2
    <3>4. row \in RowsTo(g, Length(g)) /\ rows[c] \subseteq RowsTo(g, Length(g))
      BY <2>1 DEF OwnRows, row
    <3>5. QED BY <2>1, <3>3, <3>4
  <2>2. CASE g # f
    <3>1. Checksum[g] # c /\ Checksum[g] \in Checksums
      BY <2>2, KnownChecksums, UniqueIsFile DEF Unique
    <3>2. rows'[Checksum[g]] = rows[Checksum[g]]
      BY <1>2, <3>1 DEF StoreTypes
    <3>3. QED BY <3>2 DEF OwnRows
  <2>3. QED BY <2>1, <2>2
<1>5. QED BY <1>3, <1>4

-----------------------------------------------------------------------------
\* An empty store satisfies the invariant.
LEMMA InitStore == Init => StoreInv
<1> SUFFICES ASSUME Init PROVE StoreInv
  OBVIOUS
<1>1. StoreTypes
  BY Lengths DEF Init, StoreTypes
<1>2. UploadKept
  BY DEF Init, UploadKept
<1>3. OwnRows /\ FinishedIsStored
  BY KnownChecksums, UniqueIsFile DEF Init, OwnRows, FinishedIsStored
<1>4. QED BY <1>1, <1>2, <1>3 DEF StoreInv

\* A step that leaves the rows, and the worker's place in its file, as they are.
LEMMA QuietStep ==
    ASSUME StoreInv, UNCHANGED <<length, rows>>, NEW w \in Worker,
           pc' \in [Worker -> {"walk", "upload", "finish", "dead"}],
           file' \in [Worker -> File \cup {NoFile}],
           fileOffset' \in [Worker -> Nat],
           bufferLen' \in [Worker -> 0..ChunkLen - 1],
           \A v \in Worker \ {w} :
               /\ pc'[v] = pc[v] /\ file'[v] = file[v]
               /\ fileOffset'[v] = fileOffset[v] /\ bufferLen'[v] = bufferLen[v],
           pc'[w] \in {"upload", "finish"} =>
               /\ file'[w] \in File
               /\ fileOffset'[w] % ChunkLen = 0
               /\ Position(w)' <= Length(file'[w])
               /\ file'[w] \in Unique =>
                     RowsTo(file'[w], Uploaded(w)') \subseteq rows[Checksum[file'[w]]]
    PROVE  StoreInv'
<1>1. StoreTypes'
  BY DEF StoreInv, StoreTypes
<1>2. OwnRows' /\ FinishedIsStored'
  BY DEF StoreInv, OwnRows, FinishedIsStored
<1>3. UploadKept'
  BY DEF StoreInv, UploadKept, Position, Uploaded
<1>4. QED BY <1>1, <1>2, <1>3 DEF StoreInv

\* Looking a file up keeps the invariant.
LEMMA GetFileStore ==
    ASSUME StoreInv, NEW w \in Worker, NEW f \in File, GetFile(w, f)
    PROVE  StoreInv'
<1>1. CASE IsStored(f)
  BY <1>1, QuietStep DEF GetFile, StoreInv, StoreTypes, UploadKept, storeVars, Position, Uploaded
<1>2. CASE ~IsStored(f)
  <2>1. /\ pc' = [pc EXCEPT ![w] = "upload"]
        /\ file' = [file EXCEPT ![w] = f]
        /\ fileOffset' = [fileOffset EXCEPT ![w] = 0]
        /\ bufferLen' = [bufferLen EXCEPT ![w] = 0]
        /\ UNCHANGED <<length, rows>>
    BY <1>2 DEF GetFile, Rewound, storeVars
  <2>2. RowsTo(f, 0) = {}
    BY DEF RowsTo, ChunkStarts
  <2>3. 0 % ChunkLen = 0 /\ 0 \in 0..ChunkLen - 1 /\ 0 <= Length(f)
    BY Lengths
  <2>4. Position(w)' = 0 /\ Uploaded(w)' = 0
    BY <2>1 DEF Position, Uploaded, StoreInv, StoreTypes
  <2>5. QED BY <2>1, <2>2, <2>3, <2>4, QuietStep DEF StoreInv, StoreTypes
<1>3. QED BY <1>1, <1>2

\* Where a read leads.
LEMMA NextReadBounds ==
    ASSUME StoreInv, NEW w \in Worker, pc[w] = "upload"
    PROVE  /\ file[w] \in File
           /\ Position(w) \in Nat
           /\ NextRead(w) \in Nat
           /\ Position(w) + NextRead(w) <= Length(file[w])
           /\ NextRead(w) = 0 => Position(w) = Length(file[w])
<1>1. file[w] \in File /\ Position(w) \in Nat /\ Position(w) <= Length(file[w])
  BY Lengths DEF StoreInv, StoreTypes, UploadKept, Position
<1>2. QED BY <1>1, ReadBounds DEF NextRead

\* A read that does not fill the buffer keeps the invariant.
LEMMA ReadPartStore ==
    ASSUME StoreInv, NEW w \in Worker, ReadPart(w)
    PROVE  StoreInv'
<1>1. /\ bufferLen' = [bufferLen EXCEPT ![w] = @ + NextRead(w)]
      /\ UNCHANGED <<length, rows, pc, file, fileOffset>>
  BY DEF ReadPart, storeVars
<1>2. bufferLen'[w] = bufferLen[w] + NextRead(w) /\ bufferLen'[w] \in 0..ChunkLen - 1
  BY <1>1, NextReadBounds, Lengths DEF ReadPart, StoreInv, StoreTypes
<1>3. Position(w)' = Position(w) + NextRead(w)
  BY <1>1, <1>2, NextReadBounds, Lengths DEF ReadPart, Position, StoreInv, StoreTypes
<1>4. Position(w)' <= Length(file[w])
  BY <1>3, NextReadBounds DEF ReadPart
<1>5. Uploaded(w)' = Uploaded(w)
  BY <1>1 DEF Uploaded
<1>6. bufferLen' \in [Worker -> 0..ChunkLen - 1]
  BY <1>1, <1>2 DEF StoreInv, StoreTypes
<1>7. QED
  BY <1>1, <1>4, <1>5, <1>6, QuietStep DEF StoreInv, StoreTypes, UploadKept

\* A worker inserts a chunk of its file and goes on behind it.
LEMMA ChunkStep ==
    ASSUME StoreInv, NEW w \in Worker, pc[w] = "upload", NEW len \in 1..ChunkLen,
           fileOffset[w] + len <= Length(file[w]),
           len = ChunkLen \/ fileOffset[w] + len = Length(file[w]),
           CreateChunk(file[w], fileOffset[w], len),
           file' = file,
           pc' \in [Worker -> {"walk", "upload", "finish", "dead"}],
           fileOffset' \in [Worker -> Nat],
           bufferLen' \in [Worker -> 0..ChunkLen - 1],
           \A v \in Worker \ {w} :
               /\ pc'[v] = pc[v]
               /\ fileOffset'[v] = fileOffset[v] /\ bufferLen'[v] = bufferLen[v],
           pc'[w] \in {"upload", "finish"},
           fileOffset'[w] % ChunkLen = 0,
           Position(w)' <= Length(file[w]),
           Uploaded(w)' = fileOffset[w] + len
    PROVE  StoreInv'
<1> DEFINE f == file[w]
           o == fileOffset[w]
<1>1. f \in File /\ o \in Nat /\ o % ChunkLen = 0
  BY DEF StoreInv, StoreTypes, UploadKept
<1>2. /\ RowsTo(f, o + len) \subseteq RowsTo(f, o) \cup {ChunkRow(f, o, len)}
      /\ ChunkRow(f, o, len) \in RowsTo(f, Length(f))
  BY <1>1, NextRow
<1>3. /\ rows' = [c \in Checksums |-> rows'[c]]
      /\ ChunkRow(f, o, len) \in rows'[Checksum[f]]
      /\ \A g \in Unique :
            /\ rows[Checksum[g]] \subseteq rows'[Checksum[g]]
            /\ rows'[Checksum[g]] \subseteq RowsTo(g, Length(g))
  BY <1>1, <1>2, InsertRow DEF StoreInv
<1>4. length' = length
  BY DEF CreateChunk
<1>5. StoreTypes'
  BY <1>3, <1>4 DEF StoreInv, StoreTypes
<1>6. OwnRows' /\ FinishedIsStored'
  BY <1>3, <1>4 DEF StoreInv, OwnRows, FinishedIsStored
<1>7. UploadKept'
  <2>1. ASSUME NEW v \in Worker \ {w}, pc'[v] \in {"upload", "finish"}
        PROVE  /\ file'[v] \in File
               /\ fileOffset'[v] % ChunkLen = 0
               /\ Position(v)' <= Length(file'[v])
               /\ file'[v] \in Unique =>
                     RowsTo(file'[v], Uploaded(v)') \subseteq rows'[Checksum[file'[v]]]
    <3>1. /\ file[v] \in File
          /\ fileOffset[v] % ChunkLen = 0
          /\ Position(v) <= Length(file[v])
          /\ file[v] \in Unique =>
                RowsTo(file[v], Uploaded(v)) \subseteq rows[Checksum[file[v]]]
      BY <2>1 DEF StoreInv, UploadKept
    <3>2. Position(v)' = Position(v) /\ Uploaded(v)' = Uploaded(v)
      BY DEF Position, Uploaded
    <3>3. QED BY <3>1, <3>2, <1>3
  <2>2. f \in Unique => RowsTo(f, o) \subseteq rows[Checksum[f]]
    BY DEF StoreInv, UploadKept, Uploaded
  <2>3. f \in Unique => RowsTo(f, o + len) \subseteq rows'[Checksum[f]]
    BY <1>2, <1>3, <2>2
  <2>4. QED BY <1>1, <2>1, <2>3 DEF UploadKept
<1>8. QED BY <1>5, <1>6, <1>7 DEF StoreInv

\* The insert of a full chunk keeps the invariant.
LEMMA FullChunkStore ==
    ASSUME StoreInv, NEW w \in Worker, CreateFullChunk(w)
    PROVE  StoreInv'
<1>1. /\ pc[w] = "upload"
      /\ CreateChunk(file[w], fileOffset[w], ChunkLen)
      /\ fileOffset' = [fileOffset EXCEPT ![w] = @ + ChunkLen]
      /\ bufferLen' = [bufferLen EXCEPT ![w] = 0]
      /\ UNCHANGED <<pc, file>>
  BY DEF CreateFullChunk, NextChunk
<1>2. fileOffset[w] \in Nat /\ fileOffset[w] % ChunkLen = 0
  BY <1>1 DEF StoreInv, StoreTypes, UploadKept
<1>3. fileOffset[w] + ChunkLen <= Length(file[w])
  <2>1. Position(w) = fileOffset[w] + bufferLen[w] /\ bufferLen[w] \in Nat
    BY Lengths DEF Position, StoreInv, StoreTypes
  <2>2. bufferLen[w] + NextRead(w) = ChunkLen
    BY DEF CreateFullChunk
  <2>3. QED BY <1>1, <1>2, <2>1, <2>2, NextReadBounds, Lengths
<1>4. fileOffset'[w] = fileOffset[w] + ChunkLen /\ bufferLen'[w] = 0
  BY <1>1 DEF StoreInv, StoreTypes
<1>5. fileOffset'[w] % ChunkLen = 0
  BY <1>2, <1>4, NextMultiple, Lengths
<1>6. Position(w)' = fileOffset[w] + ChunkLen /\ Uploaded(w)' = fileOffset[w] + ChunkLen
  BY <1>1, <1>2, <1>4, Lengths DEF Position, Uploaded
<1>7. fileOffset' \in [Worker -> Nat] /\ bufferLen' \in [Worker -> 0..ChunkLen - 1]
  BY <1>1, Lengths DEF StoreInv, StoreTypes
<1>8. ChunkLen \in 1..ChunkLen
  BY Lengths
<1>9. QED
  BY <1>1, <1>3, <1>5, <1>6, <1>7, <1>8, ChunkStep DEF StoreInv, StoreTypes

\* The insert of the last chunk keeps the invariant.
LEMMA LastChunkStore ==
    ASSUME StoreInv, NEW w \in Worker, CreateLastChunk(w)
    PROVE  StoreInv'
<1>1. /\ pc[w] = "upload" /\ NextRead(w) = 0 /\ bufferLen[w] > 0
      /\ CreateChunk(file[w], fileOffset[w], bufferLen[w])
      /\ pc' = [pc EXCEPT ![w] = "finish"]
      /\ UNCHANGED <<file, fileOffset, bufferLen>>
  BY DEF CreateLastChunk
<1>2. bufferLen[w] \in 1..ChunkLen /\ fileOffset[w] % ChunkLen = 0
  BY <1>1, Lengths DEF StoreInv, StoreTypes, UploadKept
<1>3. fileOffset[w] + bufferLen[w] = Length(file[w])
  BY <1>1, NextReadBounds DEF Position
<1>4. Position(w)' <= Length(file[w])
  BY <1>1, NextReadBounds DEF Position
<1>5. pc'[w] = "finish" /\ Uploaded(w)' = Length(file[w])
  BY <1>1 DEF Uploaded, StoreInv, StoreTypes
<1>6. pc' \in [Worker -> {"walk", "upload", "finish", "dead"}]
  BY <1>1 DEF StoreInv, StoreTypes
<1>7. fileOffset[w] + bufferLen[w] <= Length(file[w])
  BY <1>1, NextReadBounds DEF Position
<1>8. QED
  BY <1>1, <1>2, <1>3, <1>4, <1>5, <1>6, <1>7, ChunkStep DEF StoreInv, StoreTypes

\* finish_file keeps the invariant.
LEMMA FinishStore ==
    ASSUME StoreInv, NEW w \in Worker, FinishFile(w)
    PROVE  StoreInv'
<1> DEFINE f == file[w]
           c == Checksum[f]
<1>1. /\ pc[w] = "finish" /\ f \in File /\ c \in Checksums
      /\ length' = [length EXCEPT ![c] = Length(f)]
      /\ pc' = [pc EXCEPT ![w] = "walk"]
      /\ file' = [file EXCEPT ![w] = NoFile]
      /\ UNCHANGED <<rows, fileOffset, bufferLen>>
  BY KnownChecksums DEF FinishFile, StoreInv, UploadKept
<1>2. StoreTypes'
  BY <1>1, Lengths DEF StoreInv, StoreTypes
<1>3. f \in Unique => RowsTo(f, Length(f)) \subseteq rows[c]
  BY <1>1 DEF StoreInv, UploadKept, Uploaded
<1>4. \A g \in Unique : g = f \/ (Checksum[g] # c /\ Checksum[g] \in Checksums)
  BY <1>1, KnownChecksums, UniqueIsFile DEF Unique
<1>5. OwnRows'
  BY <1>1, <1>4 DEF StoreInv, StoreTypes, OwnRows
<1>6. FinishedIsStored'
  <2>1. ASSUME NEW g \in Unique, length'[Checksum[g]] # NoLength
        PROVE  RowsTo(g, Length(g)) \subseteq rows[Checksum[g]]
    <3>1. CASE g = f
      BY <1>3, <3>1
    <3>2. CASE g # f
      <4>1. length'[Checksum[g]] = length[Checksum[g]]
        BY <1>1, <1>4, <3>2 DEF StoreInv, StoreTypes
      <4>2. QED BY <2>1, <4>1, UniqueIsFile DEF StoreInv, FinishedIsStored
    <3>3. QED BY <3>1, <3>2
  <2>2. QED BY <1>1, <2>1 DEF FinishedIsStored
<1>7. UploadKept'
  <2>1. ASSUME NEW v \in Worker, pc'[v] \in {"upload", "finish"}
        PROVE  v # w /\ pc'[v] = pc[v] /\ file'[v] = file[v]
    BY <1>1, <2>1 DEF StoreInv, StoreTypes
  <2>2. QED BY <1>1, <2>1 DEF StoreInv, UploadKept, Position, Uploaded
<1>8. QED BY <1>2, <1>5, <1>6, <1>7 DEF StoreInv

\* A worker that fails leaves the invariant as it is.
LEMMA FailStore ==
    ASSUME StoreInv, NEW w \in Worker, Fail(w)
    PROVE  StoreInv'
<1>1. pc' = [pc EXCEPT ![w] = "dead"] /\ UNCHANGED <<length, rows, file, fileOffset, bufferLen>>
  BY DEF Fail, storeVars
<1>2. QED BY <1>1, QuietStep DEF StoreInv, StoreTypes

\* Steps that touch neither the partitions nor the uploads.
LEMMA IdleStore ==
    ASSUME StoreInv, UNCHANGED <<length, rows, pc, file, fileOffset, bufferLen>>
    PROVE  StoreInv'
BY DEF StoreInv, StoreTypes, UploadKept, OwnRows, FinishedIsStored, Position, Uploaded

\* A download touches neither the partitions nor the uploads.
LEMMA DownloadIsIdle ==
    ASSUME Download
    PROVE  UNCHANGED <<length, rows, pc, file, fileOffset, bufferLen>>
BY DEF Download, StartDownload, EndBody, SendBuffered, FetchWindow, storeVars

\* Every step keeps the invariant.
LEMMA NextStore == StoreInv /\ [Next]_vars => StoreInv'
<1> SUFFICES ASSUME StoreInv, [Next]_vars PROVE StoreInv'
  OBVIOUS
<1>1. ASSUME NEW w \in Worker, Upload(w) PROVE StoreInv'
  <2>1. CASE \E f \in File : GetFile(w, f)
    BY <2>1, GetFileStore
  <2>2. CASE ReadPart(w)
    BY <2>2, ReadPartStore
  <2>3. CASE CreateFullChunk(w)
    BY <2>3, FullChunkStore
  <2>4. CASE CreateLastChunk(w)
    BY <2>4, LastChunkStore
  <2>5. CASE ReadNothing(w)
    BY <2>5, IdleStore DEF ReadNothing, vars
  <2>6. CASE FinishFile(w)
    BY <2>6, FinishStore
  <2>7. CASE ListChanges(w)
    BY <2>7, IdleStore DEF ListChanges
  <2>8. QED BY <1>1, <2>1, <2>2, <2>3, <2>4, <2>5, <2>6, <2>7 DEF Upload
<1>2. ASSUME NEW w \in Worker, Fail(w) PROVE StoreInv'
  BY <1>2, FailStore
<1>3. CASE Download
  BY <1>3, DownloadIsIdle, IdleStore
<1>4. CASE UNCHANGED vars
  BY <1>4, IdleStore DEF vars
<1>5. QED BY <1>1, <1>2, <1>3, <1>4 DEF Next

\* The partitions and the uploads in progress fit together in every state.
THEOREM StoreInvariant == Spec => []StoreInv
<1>1. QED BY InitStore, NextStore, PTL DEF Spec

\* A file that get_file reports has all its rows, for any number of workers and
\* files and for all lengths of chunks, reads and buckets.
THEOREM StoredIsComplete == Spec => []FinishedIsStored
<1>1. StoreInv => FinishedIsStored
  BY DEF StoreInv
<1>2. QED BY <1>1, StoreInvariant, PTL

-----------------------------------------------------------------------------
\* A chunk that a worker inserts.
LEMMA ChunkInserted ==
    ASSUME StoreInv, NEW w \in Worker, CreateFullChunk(w) \/ CreateLastChunk(w)
    PROVE  \E len \in 1..ChunkLen :
              /\ CreateChunk(file[w], fileOffset[w], len)
              /\ ChunkRow(file[w], fileOffset[w], len) \in RowsTo(file[w], Length(file[w]))
              /\ RowsTo(file[w], Uploaded(w)')
                    \subseteq RowsTo(file[w], Uploaded(w)) \cup {ChunkRow(file[w], fileOffset[w], len)}
<1> DEFINE f == file[w]
           o == fileOffset[w]
<1>1. /\ pc[w] = "upload" /\ f \in File /\ o \in Nat /\ o % ChunkLen = 0
      /\ bufferLen[w] \in 0..ChunkLen - 1 /\ file' = file
  BY DEF CreateFullChunk, CreateLastChunk, StoreInv, StoreTypes, UploadKept
<1>2. /\ Position(w) = o + bufferLen[w] /\ NextRead(w) \in Nat
      /\ Position(w) + NextRead(w) <= Length(f)
      /\ NextRead(w) = 0 => Position(w) = Length(f)
  BY <1>1, NextReadBounds DEF Position
<1>3. PICK len \in 1..ChunkLen :
         /\ CreateChunk(f, o, len)
         /\ o + len <= Length(f)
         /\ len = ChunkLen \/ o + len = Length(f)
         /\ Uploaded(w)' = o + len
  <2>1. CASE CreateFullChunk(w)
    <3>1. /\ CreateChunk(f, o, ChunkLen) /\ bufferLen[w] + NextRead(w) = ChunkLen
          /\ fileOffset' = [fileOffset EXCEPT ![w] = @ + ChunkLen] /\ pc' = pc
      BY <2>1 DEF CreateFullChunk, NextChunk
    <3>2. ChunkLen \in 1..ChunkLen /\ o + ChunkLen <= Length(f)
      BY <1>1, <1>2, <3>1, Lengths
    <3>3. Uploaded(w)' = o + ChunkLen
      BY <1>1, <3>1 DEF Uploaded, StoreInv, StoreTypes
    <3>4. QED BY <3>1, <3>2, <3>3
  <2>2. CASE CreateLastChunk(w)
    <3>1. /\ CreateChunk(f, o, bufferLen[w]) /\ bufferLen[w] > 0 /\ NextRead(w) = 0
          /\ pc' = [pc EXCEPT ![w] = "finish"]
      BY <2>2 DEF CreateLastChunk
    <3>2. bufferLen[w] \in 1..ChunkLen /\ o + bufferLen[w] = Length(f)
      BY <1>1, <1>2, <3>1, Lengths
    <3>3. Uploaded(w)' = Length(f)
      BY <1>1, <3>1 DEF Uploaded, StoreInv, StoreTypes
    <3>4. QED BY <1>1, <3>1, <3>2, <3>3, Lengths
  <2>3. QED BY <2>1, <2>2
<1>4. /\ RowsTo(f, o + len) \subseteq RowsTo(f, o) \cup {ChunkRow(f, o, len)}
      /\ ChunkRow(f, o, len) \in RowsTo(f, Length(f))
  BY <1>1, <1>3, NextRow
<1>5. Uploaded(w) = o
  BY <1>1 DEF Uploaded
<1>6. QED BY <1>3, <1>4, <1>5

\* The rows of a file that has all of them are left as they are by its inserts.
LEMMA InsertsOwnRow ==
    ASSUME StoreInv, NEW w \in Worker,
           CreateFullChunk(w) \/ CreateLastChunk(w)
    PROVE  \A g \in Unique : RowsTo(g, Length(g)) \subseteq rows[Checksum[g]] =>
               rows'[Checksum[g]] = rows[Checksum[g]]
<1>1. PICK f, o : f = file[w] /\ o = fileOffset[w]
  OBVIOUS
<1>2. f \in File
  BY <1>1 DEF CreateFullChunk, CreateLastChunk, StoreInv, UploadKept
<1>3. PICK len : CreateChunk(f, o, len) /\ ChunkRow(f, o, len) \in RowsTo(f, Length(f))
  BY <1>1, ChunkInserted
<1>4. QED BY <1>2, <1>3, InsertRow DEF StoreInv

\* A step leaves the rows of a stored file as they are.
LEMMA StableStep ==
    StoreInv /\ [Next]_vars =>
        [\A f \in File :
            f \in Unique /\ length[Checksum[f]] # NoLength =>
                /\ length'[Checksum[f]] = length[Checksum[f]]
                /\ rows'[Checksum[f]] = rows[Checksum[f]]]_vars
<1> SUFFICES ASSUME StoreInv, Next, NEW f \in Unique, length[Checksum[f]] # NoLength
             PROVE  /\ length'[Checksum[f]] = length[Checksum[f]]
                    /\ rows'[Checksum[f]] = rows[Checksum[f]]
  OBVIOUS
<1>1. RowsTo(f, Length(f)) \subseteq rows[Checksum[f]] /\ length[Checksum[f]] = Length(f)
  BY UniqueIsFile DEF StoreInv, FinishedIsStored, OwnRows
<1>2. ASSUME NEW w \in Worker, CreateFullChunk(w) \/ CreateLastChunk(w)
      PROVE  /\ length'[Checksum[f]] = length[Checksum[f]]
             /\ rows'[Checksum[f]] = rows[Checksum[f]]
  <2>1. length' = length
    BY <1>2 DEF CreateFullChunk, CreateLastChunk, CreateChunk
  <2>2. QED BY <1>1, <1>2, <2>1, InsertsOwnRow
<1>3. ASSUME NEW w \in Worker, FinishFile(w)
      PROVE  /\ length'[Checksum[f]] = length[Checksum[f]]
             /\ rows'[Checksum[f]] = rows[Checksum[f]]
  <2>1. /\ length' = [length EXCEPT ![Checksum[file[w]]] = Length(file[w])]
        /\ rows' = rows /\ file[w] \in File
    BY <1>3 DEF FinishFile, StoreInv, UploadKept
  <2>2. Checksum[f] = Checksum[file[w]] => file[w] = f
    BY <2>1 DEF Unique
  <2>3. length'[Checksum[f]] = length[Checksum[f]]
    BY <1>1, <2>1, <2>2 DEF StoreInv, StoreTypes
  <2>4. QED BY <2>1, <2>3
<1>4. ASSUME UNCHANGED <<length, rows>>
      PROVE  /\ length'[Checksum[f]] = length[Checksum[f]]
             /\ rows'[Checksum[f]] = rows[Checksum[f]]
  BY <1>4
<1>5. ASSUME NEW w \in Worker, Upload(w)
      PROVE  \/ CreateFullChunk(w) \/ CreateLastChunk(w)
             \/ FinishFile(w)
             \/ UNCHANGED <<length, rows>>
  BY <1>5 DEF Upload, GetFile, ReadPart, ReadNothing, ListChanges, storeVars, vars
<1>6. ASSUME NEW w \in Worker, Fail(w)
      PROVE  UNCHANGED <<length, rows>>
  BY <1>6 DEF Fail, storeVars
<1>7. QED BY <1>2, <1>3, <1>4, <1>5, <1>6, DownloadIsIdle DEF Next

\* What is stored of a file never changes any more.
THEOREM StoredStays == Spec => StoredIsStable
<1>1. QED BY StoreInvariant, StableStep, PTL DEF Spec, StoredIsStable
-----------------------------------------------------------------------------
(***************************************************************************)
(* Rows of files that share a checksum.                                    *)
(***************************************************************************)

\* The insert of a row replaces the one that was in its place.
LEMMA InsertReplaces ==
    ASSUME StoreTypes, SlotInv, NEW f \in File, NEW o, NEW len,
           CreateChunk(f, o, len), ChunkRow(f, o, len) \in RowsTo(f, Length(f))
    PROVE  /\ \A c \in Checksums : \A q, r \in rows'[c] :
                 q.bucket = r.bucket /\ q.offset = r.offset => q = r
           /\ \A g \in File : \A q \in rows'[Checksum[g]] :
                 \E h \in Alike(g) : q \in RowsTo(h, Length(h))
           /\ \A c \in Checksums : \A r : HasRowLike(c, r) => HasRowLike(c, r)'
           /\ HasRowLike(Checksum[f], ChunkRow(f, o, len))'
<1>0. PICK row : row = ChunkRow(f, o, len)
  OBVIOUS
<1> DEFINE c == Checksum[f]
<1>1. c \in Checksums /\ row.offset = o
  BY <1>0, KnownChecksums DEF ChunkRow
<1>2. /\ rows'[c] = {r \in rows[c] : r.bucket # row.bucket \/ r.offset # o} \cup {row}
      /\ \A d \in Checksums : d # c => rows'[d] = rows[d]
  BY <1>0, <1>1 DEF CreateChunk, StoreTypes
<1>3. ASSUME NEW d \in Checksums, NEW q \in rows'[d], NEW r \in rows'[d],
             q.bucket = r.bucket, q.offset = r.offset
      PROVE  q = r
  BY <1>1, <1>2, <1>3 DEF SlotInv
<1>4. ASSUME NEW g \in File, NEW q \in rows'[Checksum[g]]
      PROVE  \E h \in Alike(g) : q \in RowsTo(h, Length(h))
  <2>1. CASE Checksum[g] = c /\ q = row
    BY <1>0, <2>1 DEF Alike
  <2>2. CASE ~(Checksum[g] = c /\ q = row)
    <3>1. q \in rows[Checksum[g]]
      BY <1>2, <1>4, <2>2, KnownChecksums
    <3>2. QED BY <3>1 DEF SlotInv
  <2>3. QED BY <2>1, <2>2
<1>5. ASSUME NEW d \in Checksums, NEW r, HasRowLike(d, r)
      PROVE  HasRowLike(d, r)'
  <2>1. PICK q \in rows[d] : q.bucket = r.bucket /\ q.offset = r.offset
    BY <1>5 DEF HasRowLike
  <2>2. CASE d = c /\ q.bucket = row.bucket /\ q.offset = o
    BY <1>1, <1>2, <2>1, <2>2 DEF HasRowLike
  <2>3. CASE ~(d = c /\ q.bucket = row.bucket /\ q.offset = o)
    <3>1. q \in rows'[d]
      BY <1>2, <2>1, <2>3
    <3>2. QED BY <2>1, <3>1 DEF HasRowLike
  <2>4. QED BY <2>2, <2>3
<1>6. HasRowLike(c, row)'
  BY <1>2 DEF HasRowLike
<1>7. QED BY <1>0, <1>3, <1>4, <1>5, <1>6

\* Steps that leave the partitions alone.
LEMMA QuietSlots ==
    ASSUME SlotInv, UNCHANGED <<length, rows>>,
           \A w \in Worker : pc'[w] \in {"upload", "finish"} =>
               \/ /\ pc[w] \in {"upload", "finish"}
                  /\ file'[w] = file[w] /\ Uploaded(w)' = Uploaded(w)
               \/ Uploaded(w)' = 0
    PROVE  SlotInv'
<1>1. \A c, r : HasRowLike(c, r)' <=> HasRowLike(c, r)
  BY DEF HasRowLike
<1>2. \A f : RowsTo(f, 0) = {}
  BY DEF RowsTo, ChunkStarts
<1>3. ASSUME NEW w \in Worker, pc'[w] \in {"upload", "finish"}
      PROVE  \A r \in RowsTo(file'[w], Uploaded(w)') : HasRowLike(Checksum[file'[w]], r)
  BY <1>2, <1>3 DEF SlotInv
<1>4. QED BY <1>1, <1>3 DEF SlotInv

\* The insert of a chunk keeps the places of the partitions.
LEMMA ChunkSlots ==
    ASSUME StoreInv, SlotInv, NEW w \in Worker, CreateFullChunk(w) \/ CreateLastChunk(w)
    PROVE  SlotInv'
<1>1. PICK f, o : f = file[w] /\ o = fileOffset[w]
  OBVIOUS
<1>2. PICK len \in 1..ChunkLen :
        /\ CreateChunk(f, o, len)
        /\ ChunkRow(f, o, len) \in RowsTo(f, Length(f))
        /\ RowsTo(f, Uploaded(w)')
              \subseteq RowsTo(f, Uploaded(w)) \cup {ChunkRow(f, o, len)}
  BY <1>1, ChunkInserted
<1>3. /\ pc[w] = "upload" /\ f \in File /\ file' = file /\ length' = length
      /\ \A v \in Worker : v # w => pc'[v] = pc[v] /\ Uploaded(v)' = Uploaded(v)
  <2>1. pc[w] = "upload" /\ file' = file /\ length' = length
    BY DEF CreateFullChunk, CreateLastChunk, CreateChunk
  <2>2. \A v \in Worker : v # w => pc'[v] = pc[v] /\ fileOffset'[v] = fileOffset[v]
    BY DEF CreateFullChunk, NextChunk, CreateLastChunk, StoreInv, StoreTypes
  <2>3. QED BY <1>1, <2>1, <2>2 DEF Uploaded, StoreInv, UploadKept
<1>4. StoreTypes
  BY DEF StoreInv
<1>5. /\ \A c \in Checksums : \A q, r \in rows'[c] :
            q.bucket = r.bucket /\ q.offset = r.offset => q = r
      /\ \A g \in File : \A q \in rows'[Checksum[g]] :
            \E h \in Alike(g) : q \in RowsTo(h, Length(h))
      /\ \A c \in Checksums : \A r : HasRowLike(c, r) => HasRowLike(c, r)'
      /\ HasRowLike(Checksum[f], ChunkRow(f, o, len))'
  BY <1>2, <1>3, <1>4, InsertReplaces
<1>6. ASSUME NEW v \in Worker, pc'[v] \in {"upload", "finish"},
             NEW g, g = file[v], NEW r \in RowsTo(g, Uploaded(v)')
      PROVE  HasRowLike(Checksum[g], r)'
  <2>1. r \in RowsTo(g, Uploaded(v)) => g \in File /\ HasRowLike(Checksum[g], r)
    BY <1>3, <1>6 DEF SlotInv, StoreInv, UploadKept
  <2>2. CASE v = w /\ r = ChunkRow(f, o, len)
    BY <1>1, <1>5, <1>6, <2>2
  <2>3. CASE r \in RowsTo(g, Uploaded(v))
    BY <1>5, <2>1, <2>3, KnownChecksums
  <2>4. QED BY <1>1, <1>2, <1>3, <1>6, <2>2, <2>3
<1>7. \A v \in Worker : pc'[v] \in {"upload", "finish"} =>
        \A r \in RowsTo(file'[v], Uploaded(v)') : HasRowLike(Checksum[file[v]], r)'
  <2> SUFFICES ASSUME NEW v \in Worker, pc'[v] \in {"upload", "finish"},
                      NEW r \in RowsTo(file[v], Uploaded(v)')
               PROVE  HasRowLike(Checksum[file[v]], r)'
    BY <1>3
  <2>1. PICK g : g = file[v]
    OBVIOUS
  <2>2. HasRowLike(Checksum[g], r)'
    BY <1>6, <2>1
  <2>3. QED BY <1>3, <2>1, <2>2
<1>8. ASSUME NEW g \in File, length[Checksum[g]] # NoLength
      PROVE  \E h \in Alike(g) : \A r \in RowsTo(h, Length(h)) : HasRowLike(Checksum[g], r)'
  BY <1>5, <1>8, KnownChecksums DEF SlotInv
<1>9. QED BY <1>3, <1>5, <1>7, <1>8 DEF SlotInv

\* A file that is finished has a row in each place.
LEMMA FinishSlots ==
    ASSUME StoreInv, SlotInv, NEW w \in Worker, FinishFile(w)
    PROVE  SlotInv'
<1> DEFINE f == file[w]
           c == Checksum[f]
<1>1. /\ pc[w] = "finish" /\ f \in File /\ c \in Checksums
      /\ length' = [length EXCEPT ![c] = Length(f)]
      /\ pc' = [pc EXCEPT ![w] = "walk"]
      /\ file' = [file EXCEPT ![w] = NoFile]
      /\ UNCHANGED <<rows, fileOffset, bufferLen>>
  BY KnownChecksums DEF FinishFile, StoreInv, UploadKept
<1>2. \A d, r : HasRowLike(d, r)' <=> HasRowLike(d, r)
  BY <1>1 DEF HasRowLike
<1>3. ASSUME NEW v \in Worker, pc'[v] \in {"upload", "finish"}
      PROVE  \A r \in RowsTo(file'[v], Uploaded(v)') : HasRowLike(Checksum[file'[v]], r)
  <2>1. v # w /\ pc'[v] = pc[v] /\ file'[v] = file[v]
    BY <1>1, <1>3 DEF StoreInv, StoreTypes
  <2>2. Uploaded(v)' = Uploaded(v)
    BY <1>1, <2>1 DEF Uploaded
  <2>3. QED BY <1>3, <2>1, <2>2 DEF SlotInv
<1>4. ASSUME NEW g \in File, length'[Checksum[g]] # NoLength
      PROVE  \E h \in Alike(g) : \A r \in RowsTo(h, Length(h)) : HasRowLike(Checksum[g], r)
  <2>1. CASE Checksum[g] = c
    <3>1. \A r \in RowsTo(f, Length(f)) : HasRowLike(c, r)
      BY <1>1 DEF SlotInv, Uploaded
    <3>2. QED BY <1>1, <2>1, <3>1 DEF Alike
  <2>2. CASE Checksum[g] # c
    <3>1. length'[Checksum[g]] = length[Checksum[g]]
      BY <1>1, <2>2, KnownChecksums DEF StoreInv, StoreTypes
    <3>2. QED BY <1>4, <3>1 DEF SlotInv
  <2>3. QED BY <2>1, <2>2
<1>5. QED BY <1>1, <1>2, <1>3, <1>4 DEF SlotInv

\* Empty partitions have no rows at all.
LEMMA InitSlots == Init => SlotInv
<1>1. \A f \in File : Checksum[f] \in Checksums
  BY KnownChecksums
<1>2. QED BY <1>1 DEF Init, SlotInv

\* Every step keeps the places of the partitions.
LEMMA NextSlots == StoreInv /\ SlotInv /\ [Next]_vars => SlotInv'
<1> SUFFICES ASSUME StoreInv, SlotInv, [Next]_vars PROVE SlotInv'
  OBVIOUS
<1>1. ASSUME NEW w \in Worker, NEW f \in File, GetFile(w, f) PROVE SlotInv'
  <2>1. /\ UNCHANGED <<length, rows>>
        /\ \A v \in Worker : v # w =>
              pc'[v] = pc[v] /\ file'[v] = file[v] /\ fileOffset'[v] = fileOffset[v]
    BY <1>1 DEF GetFile, storeVars, StoreInv, StoreTypes
  <2>2. pc'[w] = "walk" \/ (pc'[w] = "upload" /\ fileOffset'[w] = 0)
    BY <1>1 DEF GetFile, Rewound, StoreInv, StoreTypes
  <2>3. QED BY <2>1, <2>2, QuietSlots DEF Uploaded
<1>2. ASSUME NEW w \in Worker, ReadPart(w) \/ ReadNothing(w) \/ ListChanges(w) PROVE SlotInv'
  BY <1>2, QuietSlots DEF ReadPart, ReadNothing, ListChanges, storeVars, vars, Uploaded
<1>3. ASSUME NEW w \in Worker, Fail(w) PROVE SlotInv'
  <2>1. pc' = [pc EXCEPT ![w] = "dead"] /\ UNCHANGED <<length, rows, file, fileOffset>>
    BY <1>3 DEF Fail, storeVars
  <2>2. \A v \in Worker : (v = w /\ pc'[v] = "dead") \/ pc'[v] = pc[v]
    BY <2>1 DEF StoreInv, StoreTypes
  <2>3. QED BY <2>1, <2>2, QuietSlots DEF Uploaded
<1>4. CASE Download
  BY <1>4, DownloadIsIdle, QuietSlots DEF Uploaded
<1>5. CASE UNCHANGED vars
  BY <1>5, QuietSlots DEF Uploaded, vars
<1>6. QED BY <1>1, <1>2, <1>3, <1>4, <1>5, ChunkSlots, FinishSlots DEF Next, Upload
-----------------------------------------------------------------------------
(***************************************************************************)
(* What a row holds, and what a checksum tells.                            *)
(***************************************************************************)

\* The length of the chunk at an offset.
LengthAt(f, o) == IF Length(f) - o < ChunkLen THEN Length(f) - o ELSE ChunkLen

\* The buffer is full of bytes, of the file or zero.
LEMMA BufferBytes ==
    ASSUME NEW f \in File, NEW end \in 0..Length(f)
    PROVE  BufferAt(f, end) \in [1..ChunkLen -> Byte]
<1> DEFINE Stale(i) == i > ReadLen[f] \/ i > end
           at(i) == Content[f][end - ((end - i) % ReadLen[f])]
<1>1. /\ Content[f] \in Seq(Byte) /\ Len(Content[f]) \in Nat
      /\ ReadLen[f] \in Nat \ {0} /\ end \in Nat /\ end <= Len(Content[f])
  BY Lengths, ContentAssumption DEF Length
<1>2. ASSUME NEW i \in 1..ChunkLen, ~Stale(i)
      PROVE  at(i) \in Byte
  <2>1. PICK d \in Nat, n \in Nat \ {0} : d = end - i /\ n = ReadLen[f]
    <3>1. i \in Nat /\ end \in Nat /\ i <= end
      BY <1>1, <1>2, Lengths
    <3>2. end - i \in Nat
      BY <3>1
    <3>3. QED BY <1>1, <3>2
  <2>2. PICK m \in Nat : m = d % n /\ m <= d
    BY Division
  <2>3. end - m \in 1..Len(Content[f])
    <3>1. i \in Nat /\ i >= 1 /\ d = end - i /\ m \in Nat /\ m <= d
      BY <2>1, <2>2, Lengths
    <3>2. end \in Nat /\ end <= Len(Content[f]) /\ Len(Content[f]) \in Nat
      BY <1>1
    <3>3. QED BY <3>1, <3>2
  <2>4. QED BY <1>1, <2>1, <2>2, <2>3
<1>3. BufferAt(f, end) = [i \in 1..ChunkLen |-> IF Stale(i) THEN 0 ELSE at(i)]
  BY DEF BufferAt
<1>4. 0 \in Byte
  BY DEF Byte
<1> HIDE DEF Stale, at
<1>5. \A i \in 1..ChunkLen : (IF Stale(i) THEN 0 ELSE at(i)) \in Byte
  BY <1>2, <1>4
<1>6. QED BY <1>3, <1>5

\* A chunk of a file is a row, at its offset, of the bytes that are left or of a
\* full buffer.
LEMMA ChunkFacts ==
    ASSUME NEW f \in File, NEW p, NEW o \in ChunkStarts(f, p), o < Length(f)
    PROVE  /\ o \in Nat /\ o % ChunkLen = 0
           /\ LengthAt(f, o) \in 1..ChunkLen /\ o + LengthAt(f, o) <= Length(f)
           /\ ChunkAt(f, o) \in Row
           /\ ChunkAt(f, o).offset = o
           /\ Len(ChunkAt(f, o).data) = LengthAt(f, o)
           /\ \A i \in 1..LengthAt(f, o) :
                 ChunkAt(f, o).data[i] = BufferAt(f, o + LengthAt(f, o))[i]
           /\ ChunkAt(f, o).bucket = 0 <=> o + LengthAt(f, o) < BucketLen
<1> DEFINE len == LengthAt(f, o)
<1>1. o \in Nat /\ o % ChunkLen = 0 /\ Length(f) \in Nat
  BY Lengths DEF ChunkStarts
<1>2. len \in 1..ChunkLen /\ o + len <= Length(f) /\ len \in Nat
  BY <1>1, Lengths DEF LengthAt
<1>3. ChunkAt(f, o) = [bucket |-> (o + len) \div BucketLen,
                       offset |-> o,
                       data |-> SubSeq(BufferAt(f, o + len), 1, len)]
  BY DEF ChunkAt, ChunkRow, LengthAt
<1> HIDE DEF len
<1>4. PICK b \in Seq(Byte) : b = BufferAt(f, o + len) /\ Len(b) = ChunkLen
  <2>1. BufferAt(f, o + len) \in [1..ChunkLen -> Byte]
    BY <1>1, <1>2, BufferBytes
  <2>2. QED BY <2>1, Lengths
<1>5. /\ SubSeq(b, 1, len) \in Seq(Byte) /\ Len(SubSeq(b, 1, len)) = len
      /\ \A i \in 1..len : SubSeq(b, 1, len)[i] = b[i]
  BY <1>2, <1>4, Lengths
<1>6. PICK e \in Nat : e = o + len
  BY <1>1, <1>2
<1>7. e \div BucketLen \in Nat /\ (e \div BucketLen = 0 <=> e < BucketLen)
  <2>1. PICK n \in Nat \ {0} : n = BucketLen
    BY LengthAssumption
  <2>2. e \div n \in Nat /\ (e \div n = 0 <=> e < n)
    BY Division
  <2>3. QED BY <2>1, <2>2
<1>8. ChunkAt(f, o) \in Row
  BY <1>1, <1>3, <1>4, <1>5, <1>6, <1>7 DEF Row
<1>9. QED BY <1>1, <1>2, <1>3, <1>4, <1>5, <1>6, <1>7, <1>8 DEF len

\* The remainder of what is added to a multiple.
LEMMA Remainder ==
    ASSUME NEW n \in Nat \ {0}, NEW a \in Nat, a % n = 0, NEW b \in 0..n - 1
    PROVE  (a + b) % n = b
<1> DEFINE q == a \div n
           d == (a + b) \div n
           r == (a + b) % n
<1>1. a = n * q /\ q \in Int
  OBVIOUS
<1>2. a + b = n * d + r /\ r \in 0..n - 1 /\ d \in Int
  OBVIOUS
<1>3. r - b = n * (q - d)
  BY <1>1, <1>2
<1>4. q - d = 0
  <2> DEFINE k == q - d
  <2>1. k \in Int /\ n * k < n /\ n * k > -n
    BY <1>1, <1>2, <1>3
  <2>2. k = 0
    <3> HIDE DEF k
    <3>1. CASE k >= 1
      BY <2>1, <3>1
    <3>2. CASE k <= -1
      BY <2>1, <3>2
    <3>3. QED BY <2>1, <3>1, <3>2
  <2>3. QED BY <2>2
<1>5. QED BY <1>3, <1>4, <1>2

\* The buffer at the end of a chunk of a file whose reads fill it from the front.
LEMMA IntactBuffer ==
    ASSUME NEW f \in File, Intact(f), NEW o \in ChunkStarts(f, Length(f)),
           NEW i \in 1..LengthAt(f, o)
    PROVE  BufferAt(f, o + LengthAt(f, o))[i] = Content[f][o + i]
<1>1. PICK len \in 1..ChunkLen, n \in Nat \ {0} :
         /\ len = LengthAt(f, o) /\ n = ReadLen[f] /\ n <= ChunkLen
         /\ o \in Nat /\ o < Length(f) /\ o % ChunkLen = 0 /\ o + len <= Length(f)
         /\ Length(f) - o < ChunkLen => o + len = Length(f)
         /\ ~(Length(f) - o < ChunkLen) => len = ChunkLen
  BY Lengths DEF ChunkStarts, LengthAt
<1>2. o % n = 0 /\ len <= n
  <2>1. CASE n = ChunkLen
    BY <1>1, <2>1
  <2>2. CASE n # ChunkLen
    <3>1. Length(f) <= n
      BY <1>1, <2>2 DEF Intact
    <3>2. o < 0 + ChunkLen /\ 0 % ChunkLen = 0
      BY <1>1, <3>1, Lengths
    <3>3. o <= 0
      BY <1>1, <3>2, MultiplesApart, Lengths
    <3>4. 0 % n = 0
      BY <1>1
    <3>5. QED BY <1>1, <3>1, <3>3, <3>4, Lengths
  <2>3. QED BY <2>1, <2>2
<1>3. (o + len - i) % n = len - i
  <2>1. len - i \in 0..n - 1
    BY <1>1, <1>2
  <2>2. PICK b \in 0..n - 1 : b = len - i
    BY <2>1
  <2>3. (o + b) % n = b
    BY <1>1, <1>2, Remainder
  <2>4. o + b = o + len - i
    BY <1>1, <2>2
  <2>5. QED BY <2>2, <2>3, <2>4
<1>4. i \in 1..ChunkLen /\ ~(i > n) /\ ~(i > o + len)
  BY <1>1, <1>2, Lengths
<1>5. BufferAt(f, o + len)[i] = Content[f][(o + len) - ((o + len - i) % n)]
  BY <1>1, <1>4 DEF BufferAt
<1>6. (o + len) - (len - i) = o + i
  BY <1>1, <1>4
<1>7. QED BY <1>1, <1>3, <1>5, <1>6

\* What is read to the end of each chunk of such a file is in its checksum.
LEMMA IntactReads ==
    ASSUME NEW f \in File, Intact(f), NEW o \in Nat, o % ChunkLen = 0
    PROVE  /\ Reads(f) \in Nat
           /\ o \in ChunkStarts(f, Length(f)) <=> (o \div ChunkLen) + 1 \in 1..Reads(f)
           /\ o \in ChunkStarts(f, Length(f)) =>
                 ReadEnd(f, (o \div ChunkLen) + 1) = o + LengthAt(f, o)
<1>1. PICK n \in Nat \ {0}, c \in Nat \ {0}, l \in Nat :
         n = ReadLen[f] /\ c = ChunkLen /\ l = Length(f) /\ n <= c
  BY Lengths
<1>2. PICK k \in Nat : k = o \div c /\ o = c * k
  <2>1. o = c * (o \div c) + (o % c) /\ o \div c \in Nat
    BY Division
  <2>2. PICK k \in Nat : k = o \div c
    BY <2>1
  <2>3. c * k \in Nat
    OBVIOUS
  <2>4. QED BY <1>1, <2>1, <2>2, <2>3
<1>3. PICK q \in Nat, r \in 0..n - 1 : q = Reads(f) /\ l + n - 1 = n * q + r
  <2>1. PICK a \in Nat : a = l + n - 1
    BY <1>1
  <2>2. a = n * (a \div n) + (a % n) /\ a \div n \in Nat /\ a % n \in 0..n - 1
    BY Division
  <2>3. QED BY <1>1, <2>1, <2>2 DEF Reads
<1>4. o \in ChunkStarts(f, Length(f)) <=> o < l
  BY <1>1 DEF ChunkStarts
<1>5. CASE n = c
  <2>1. o < l <=> k + 1 <= q
    <3>1. PICK m \in Nat : m = c * q
      OBVIOUS
    <3>2. l = m + r - c + 1
      BY <1>3, <1>5, <3>1
    <3>3. CASE k + 1 <= q
      <4>1. PICK d \in Nat : q = k + 1 + d
        BY <3>3
      <4>2. c * q = c * k + c + c * d /\ c * d \in Nat
        BY <4>1
      <4>3. QED BY <1>2, <1>3, <1>5, <3>1, <3>2, <3>3, <4>2
    <3>4. CASE ~(k + 1 <= q)
      <4>1. PICK d \in Nat : k = q + d
        BY <3>4
      <4>2. c * k = c * q + c * d /\ c * d \in Nat
        BY <4>1
      <4>3. QED BY <1>2, <1>3, <1>5, <3>1, <3>2, <3>4, <4>2
    <3>5. QED BY <3>3, <3>4
  <2>2. ReadEnd(f, k + 1) = o + LengthAt(f, o)
    <3>1. (k + 1 - 1) * n = o
      BY <1>2, <1>5
    <3>2. QED BY <1>1, <1>5, <3>1 DEF ReadEnd, ReadFrom, LengthAt
  <2>3. QED BY <1>1, <1>2, <1>3, <1>4, <2>1, <2>2
<1>6. CASE n # c
  <2>1. l <= n
    BY <1>1, <1>6 DEF Intact
  <2>2. q = (IF l = 0 THEN 0 ELSE 1)
    <3>1. q <= 1
      <4>1. CASE q >= 2
        <5>1. n * q >= n + n
          BY <4>1
        <5>2. QED BY <1>3, <2>1, <5>1
      <4>2. QED BY <4>1
    <3>2. q = 0 \/ q = 1
      BY <3>1
    <3>3. (q = 0 => n * q = 0) /\ (q = 1 => n * q = n)
      OBVIOUS
    <3>4. QED BY <1>3, <3>2, <3>3
  <2>3. o < l <=> k + 1 <= q
    <3>1. CASE k = 0
      <4>1. o = 0
        BY <1>2, <3>1
      <4>2. QED BY <2>2, <3>1, <4>1
    <3>2. CASE k >= 1
      <4>1. c * k >= c
        BY <3>2
      <4>2. QED BY <1>1, <1>2, <2>1, <2>2, <3>2, <4>1
    <3>3. QED BY <3>1, <3>2
  <2>4. o < l => ReadEnd(f, k + 1) = o + LengthAt(f, o)
    <3> SUFFICES ASSUME o < l PROVE ReadEnd(f, k + 1) = o + LengthAt(f, o)
      OBVIOUS
    <3>1. k = 0 /\ o = 0
      <4>1. k + 1 <= 1
        BY <2>2, <2>3
      <4>2. QED BY <1>2, <4>1
    <3>2. (k + 1 - 1) * n = 0
      BY <3>1
    <3>3. QED BY <1>1, <2>1, <3>1, <3>2 DEF ReadEnd, ReadFrom, LengthAt
  <2>5. QED BY <1>1, <1>2, <1>3, <1>4, <2>3, <2>4
<1>7. QED BY <1>5, <1>6

\* The files of a checksum have their chunks at the same places, if the reads of
\* all of them fill the buffer from the front.
LEMMA IntactStarts ==
    ASSUME NEW f \in File, \A g \in Alike(f) : Intact(g)
    PROVE  SameStarts(f)
<1> SUFFICES ASSUME NEW g \in Alike(f), NEW h \in Alike(f), NEW o \in ChunkStarts(g, Length(g))
             PROVE  o \in ChunkStarts(h, Length(h))
  BY DEF SameStarts
<1>1. g \in File /\ h \in File /\ Checksum[g] = Checksum[h] /\ Intact(g) /\ Intact(h)
  BY DEF Alike
<1>2. o \in Nat /\ o % ChunkLen = 0
  BY Lengths DEF ChunkStarts
<1>3. Reads(g) \in Nat /\ Reads(h) \in Nat
  BY <1>1, <1>2, IntactReads
<1>4. DOMAIN Checksum[g] = 1..Reads(g) /\ DOMAIN Checksum[h] = 1..Reads(h)
  BY <1>1 DEF Checksum
<1>5. 1..Reads(g) = 1..Reads(h)
  BY <1>1, <1>4
<1>6. QED BY <1>1, <1>2, <1>5, IntactReads

\* Such files have the same bytes, as far as both have any.
LEMMA IntactBytes ==
    ASSUME NEW g \in File, NEW h \in File, Intact(g), Intact(h), Checksum[g] = Checksum[h],
           NEW i \in 1..Length(g), i \in 1..Length(h)
    PROVE  Content[g][i] = Content[h][i]
<1>1. PICK c \in Nat \ {0}, j \in Nat : c = ChunkLen /\ j = i - 1
  BY Lengths
<1>2. PICK k \in 0..c - 1, o \in Nat : k = j % c /\ o = c * (j \div c) /\ j = o + k
  <2>1. j = c * (j \div c) + (j % c) /\ j \div c \in Nat /\ j % c \in Nat /\ j % c < c
    BY Division
  <2>2. PICK d \in Nat, r \in Nat : d = j \div c /\ r = j % c
    BY <2>1
  <2>3. c * d \in Nat
    OBVIOUS
  <2>4. r \in 0..c - 1
    BY <2>1, <2>2
  <2>5. QED BY <2>1, <2>2, <2>3, <2>4
<1>3. o % c = 0
  <2>1. PICK d \in Nat : o = c * d
    BY <1>2, Division
  <2>2. o % c = 0
    BY <2>1
  <2>3. QED BY <2>2
<1>4. PICK n \in Nat : n = (o \div c) + 1
  <2>1. o \div c \in Nat
    BY Division
  <2>2. QED BY <2>1
<1>5. ASSUME NEW f \in File, Intact(f), i \in 1..Length(f)
      PROVE  Checksum[f][n][k + 1] = Content[f][i]
  <2>1. o \in ChunkStarts(f, Length(f))
    <3>1. o \in 0..Length(f) /\ o < Length(f)
      BY <1>1, <1>2, <1>5, Lengths
    <3>2. QED BY <1>1, <1>3, <3>1 DEF ChunkStarts
  <2>2. n \in 1..Reads(f) /\ ReadEnd(f, n) = o + LengthAt(f, o)
    BY <1>1, <1>3, <1>4, <1>5, <2>1, IntactReads
  <2>3. k + 1 \in 1..LengthAt(f, o)
    BY <1>1, <1>2, <1>5, Lengths DEF LengthAt
  <2>4. Checksum[f][n] = BufferAt(f, o + LengthAt(f, o))
    BY <1>5, <2>2 DEF Checksum
  <2>5. BufferAt(f, o + LengthAt(f, o))[k + 1] = Content[f][o + (k + 1)]
    BY <1>5, <2>1, <2>3, IntactBuffer
  <2>6. o + (k + 1) = i
    BY <1>1, <1>2
  <2>7. QED BY <2>4, <2>5, <2>6
<1>6. QED BY <1>5

-----------------------------------------------------------------------------
(***************************************************************************)
(* What a query returns.                                                   *)
(***************************************************************************)

\* The rows of a file's partition that a query is for.
InWindow(c, first, end) == {r \in rows[c] : r.bucket = 0 /\ r.offset \in first..end - 1}

\* The rows of a partition are rows of the files that share the checksum.
LEMMA RowsAreRows ==
    ASSUME SlotInv, NEW f \in File, NEW q \in rows[Checksum[f]]
    PROVE  /\ q \in Row
           /\ \E g \in Alike(f) : q.offset \in ChunkStarts(g, Length(g)) /\ q = ChunkAt(g, q.offset)
<1>1. PICK g \in Alike(f) : q \in RowsTo(g, Length(g))
  BY DEF SlotInv
<1>2. PICK o \in ChunkStarts(g, Length(g)) : q = ChunkAt(g, o)
  BY <1>1 DEF RowsTo
<1>3. g \in File /\ o < Length(g)
  BY DEF Alike, ChunkStarts
<1>4. QED BY <1>2, <1>3, ChunkFacts

\* They are finitely many, no two in one place.
LEMMA WindowIsFinite ==
    ASSUME SlotInv, NEW f \in File, NEW first \in Nat, NEW end \in Nat
    PROVE  IsFiniteSet(InWindow(Checksum[f], first, end))
<1> DEFINE chunks == InWindow(Checksum[f], first, end)
           at == [r \in chunks |-> r.offset]
<1>1. at \in [chunks -> first..end - 1]
  BY DEF InWindow
<1>2. ASSUME NEW q \in chunks, NEW r \in chunks, at[q] = at[r] PROVE q = r
  BY <1>2, KnownChecksums DEF InWindow, SlotInv
<1>3. at \in Injection(chunks, first..end - 1)
  BY <1>1, <1>2 DEF Injection, IsInjective
<1>4. IsFiniteSet(first..end - 1)
  BY FS_Interval
<1> HIDE DEF at
<1>5. QED BY <1>3, <1>4, FS_Injection

\* A query returns all of them, each once, by their offsets.
LEMMA ChunksReturned ==
    ASSUME SlotInv, NEW f \in File, NEW first \in Nat, NEW end \in Nat,
           NEW s \in FileChunks(Checksum[f], first, end)
    PROVE  /\ s \in Seq(Row)
           /\ DOMAIN s = 1..Len(s)
           /\ \A i \in DOMAIN s : s[i] \in InWindow(Checksum[f], first, end)
           /\ \A r \in InWindow(Checksum[f], first, end) : \E i \in DOMAIN s : s[i] = r
           /\ \A i, j \in DOMAIN s : i < j => s[i].offset < s[j].offset
<1>1. PICK chunks : chunks = InWindow(Checksum[f], first, end)
  OBVIOUS
<1>2. /\ s \in Bijection(1..Cardinality(chunks), chunks)
      /\ \A i, j \in DOMAIN s : i < j => s[i].offset <= s[j].offset
  BY <1>1 DEF FileChunks, InWindow
<1>3. PICK n \in Nat : n = Cardinality(chunks)
  BY <1>1, WindowIsFinite, FS_CardinalityType
<1>4. /\ s \in [1..n -> chunks]
      /\ \A i, j \in 1..n : s[i] = s[j] => i = j
      /\ \A r \in chunks : \E i \in 1..n : s[i] = r
  BY <1>2, <1>3 DEF Bijection, Injection, Surjection, IsInjective
<1>5. \A r \in chunks : r \in Row
  BY <1>1, RowsAreRows DEF InWindow
<1>6. s \in Seq(Row) /\ DOMAIN s = 1..n /\ Len(s) = n
  <2>1. s \in [1..n -> Row]
    BY <1>4, <1>5
  <2>2. QED BY <2>1
<1>7. ASSUME NEW i \in 1..n, NEW j \in 1..n, i < j
      PROVE  s[i].offset < s[j].offset
  <2>1. s[i] # s[j] /\ s[i] \in chunks /\ s[j] \in chunks
    BY <1>4, <1>7
  <2>2. s[i].offset # s[j].offset
    BY <1>1, <2>1, KnownChecksums DEF InWindow, SlotInv
  <2>3. s[i].offset \in Nat /\ s[j].offset \in Nat /\ s[i].offset <= s[j].offset
    BY <1>2, <1>5, <1>6, <1>7, <2>1 DEF Row
  <2>4. QED BY <2>2, <2>3
<1>8. QED BY <1>1, <1>4, <1>6, <1>7

\* A stored file has a row in every place that lies before the end of the bucket.
LEMMA PlaceTaken ==
    ASSUME SlotInv, NEW f \in File, IsStored(f), SameStarts(f),
           NEW g \in Alike(f), NEW o \in ChunkStarts(g, Length(g)), o + ChunkLen < BucketLen
    PROVE  \E q \in rows[Checksum[f]] : q.bucket = 0 /\ q.offset = o
<1>1. PICK h \in Alike(f) : \A r \in RowsTo(h, Length(h)) : HasRowLike(Checksum[f], r)
  BY DEF SlotInv, IsStored
<1>2. h \in File /\ o \in ChunkStarts(h, Length(h))
  BY DEF SameStarts, Alike
<1>3. o < Length(h)
  BY <1>2 DEF ChunkStarts
<1>4. ChunkAt(h, o).offset = o /\ ChunkAt(h, o).bucket = 0
  <2>1. o \in Nat /\ LengthAt(h, o) \in 1..ChunkLen
    BY <1>2, <1>3, ChunkFacts
  <2>2. o + LengthAt(h, o) < BucketLen
    BY <2>1, LengthAssumption
  <2>3. QED BY <1>2, <1>3, <2>2, ChunkFacts
<1>5. ChunkAt(h, o) \in RowsTo(h, Length(h))
  BY <1>2 DEF RowsTo
<1>6. QED BY <1>1, <1>4, <1>5 DEF HasRowLike

\* What a query from a place of the file returns starts there and has no gaps.
LEMMA ChunksFollow ==
    ASSUME SlotInv, NEW f \in File, IsStored(f), SameStarts(f),
           NEW first \in Nat, NEW end \in Nat,
           \E g \in Alike(f) : first = Length(g) \/ first \in ChunkStarts(g, Length(g)),
           NEW s \in FileChunks(Checksum[f], first, end)
    PROVE  /\ s # <<>> => s[1].offset = first
           /\ \A i, j \in DOMAIN s : j = i + 1 => s[j].offset = s[i].offset + ChunkLen
<1>1. /\ s \in Seq(Row) /\ DOMAIN s = 1..Len(s) /\ Len(s) \in Nat
      /\ \A r \in InWindow(Checksum[f], first, end) : \E i \in DOMAIN s : s[i] = r
      /\ \A i, j \in DOMAIN s : i < j => s[i].offset < s[j].offset
  <2>1. /\ s \in Seq(Row) /\ DOMAIN s = 1..Len(s)
        /\ \A r \in InWindow(Checksum[f], first, end) : \E i \in DOMAIN s : s[i] = r
        /\ \A i, j \in DOMAIN s : i < j => s[i].offset < s[j].offset
    BY ChunksReturned, ZenonT(60)
  <2>2. QED BY <2>1
<1>2. ASSUME NEW i \in DOMAIN s
      PROVE  /\ s[i].offset \in Nat /\ s[i].offset % ChunkLen = 0
             /\ first <= s[i].offset /\ s[i].offset < end
             /\ s[i].offset + 1 <= BucketLen
             /\ \A g \in Alike(f) : s[i].offset < Length(g)
             /\ s[i].offset < BucketLen
  <2>1. /\ s[i] \in rows[Checksum[f]] /\ s[i].bucket = 0
        /\ s[i].offset \in first..end - 1
    BY ChunksReturned DEF InWindow
  <2>2. PICK o : o = s[i].offset
    OBVIOUS
  <2>3. PICK g \in Alike(f) : o \in ChunkStarts(g, Length(g)) /\ s[i] = ChunkAt(g, o)
    BY <2>1, <2>2, RowsAreRows
  <2>4. g \in File /\ o < Length(g) /\ o \in Nat
    BY <2>3 DEF Alike, ChunkStarts
  <2>5. o % ChunkLen = 0 /\ LengthAt(g, o) \in 1..ChunkLen /\ o + LengthAt(g, o) < BucketLen
    BY <2>1, <2>3, <2>4, ChunkFacts
  <2>6. \A h \in Alike(f) : o < Length(h)
    BY <2>3 DEF SameStarts, ChunkStarts
  <2>7. o < BucketLen
    BY <2>4, <2>5, LengthAssumption
  <2>8. o \in first..end - 1
    BY <2>1, <2>2
  <2>9. QED BY <2>2, <2>4, <2>5, <2>6, <2>7, <2>8, LengthAssumption
<1>3. ASSUME NEW i \in DOMAIN s, NEW o \in Nat, o % ChunkLen = 0, first <= o, o < s[i].offset
      PROVE  \E k \in DOMAIN s : s[k].offset = o
  <2>1. o + ChunkLen <= s[i].offset
    <3>1. PICK p \in Nat : p = s[i].offset /\ p % ChunkLen = 0
      BY <1>2
    <3>2. o + ChunkLen > p => p <= o
      BY <1>3, <3>1, MultiplesApart, Lengths
    <3>3. QED BY <1>3, <3>1, <3>2, Lengths
  <2>2. PICK g \in Alike(f) : o < Length(g)
    <3>1. f \in Alike(f) /\ s[i].offset < Length(f) /\ Length(f) \in Nat /\ s[i].offset \in Nat
      BY <1>2, Lengths DEF Alike
    <3>2. QED BY <1>3, <3>1
  <2>3. o \in ChunkStarts(g, Length(g))
    <3>1. Length(g) \in Nat
      BY <2>2, Lengths DEF Alike
    <3>2. QED BY <1>3, <2>2, <3>1 DEF ChunkStarts
  <2>4. o + ChunkLen < BucketLen
    BY <1>2, <1>3, <2>1, LengthAssumption
  <2>5. PICK q \in rows[Checksum[f]] : q.bucket = 0 /\ q.offset = o
    BY <2>3, <2>4, PlaceTaken
  <2>6. o \in first..end - 1
    BY <1>2, <1>3
  <2>7. q \in InWindow(Checksum[f], first, end)
    BY <2>5, <2>6 DEF InWindow
  <2>8. QED BY <1>1, <2>5, <2>7
<1>4. ASSUME s # <<>> PROVE s[1].offset = first
  <2>1. 1 \in DOMAIN s
    BY <1>1, <1>4
  <2>2. first % ChunkLen = 0
    <3>1. PICK g \in Alike(f) : first = Length(g) \/ first \in ChunkStarts(g, Length(g))
      OBVIOUS
    <3>2. first # Length(g)
      <4>1. s[1].offset \in Nat /\ first <= s[1].offset /\ s[1].offset < Length(g) /\ Length(g) \in Nat
        BY <1>2, <2>1, <3>1, Lengths DEF Alike
      <4>2. QED BY <4>1
    <3>3. QED BY <3>1, <3>2 DEF ChunkStarts
  <2>3. ~(first < s[1].offset)
    <3>1. SUFFICES ASSUME first < s[1].offset PROVE FALSE
      OBVIOUS
    <3>2. PICK k \in DOMAIN s : s[k].offset = first
      BY <1>3, <2>1, <2>2, <3>1
    <3>3. k = 1 \/ 1 < k
      BY <1>1
    <3>4. k # 1
      BY <3>1, <3>2
    <3>5. s[1].offset < s[k].offset
      BY <1>1, <2>1, <3>3, <3>4
    <3>6. s[1].offset \in Nat
      BY <1>2, <2>1
    <3>7. QED BY <3>1, <3>2, <3>5, <3>6
  <2>4. QED BY <1>2, <2>1, <2>3
<1>5. ASSUME NEW i \in DOMAIN s, NEW j \in DOMAIN s, j = i + 1
      PROVE  s[j].offset = s[i].offset + ChunkLen
  <2>1. PICK a \in Nat, b \in Nat :
          a = s[i].offset /\ b = s[j].offset /\ a % ChunkLen = 0 /\ b % ChunkLen = 0 /\ first <= a
    BY <1>2
  <2>2. a < b
    BY <1>1, <1>5, <2>1
  <2>3. a + ChunkLen <= b
    <3>1. a + ChunkLen > b => b <= a
      BY <2>1, MultiplesApart, Lengths
    <3>2. QED BY <2>1, <2>2, <3>1, Lengths
  <2>4. ~(a + ChunkLen < b)
    <3>1. SUFFICES ASSUME a + ChunkLen < b PROVE FALSE
      OBVIOUS
    <3>2. PICK c \in Nat : c = a + ChunkLen
      BY <2>1, Lengths
    <3>3. c % ChunkLen = 0 /\ first <= c /\ a < c /\ c < b
      <4>1. PICK l \in Nat \ {0} : l = ChunkLen
        BY Lengths
      <4>2. (a + l) % l = 0
        BY <2>1, <4>1, NextMultiple
      <4>3. QED BY <2>1, <3>1, <3>2, <4>1, <4>2
    <3>4. PICK k \in DOMAIN s : s[k].offset = c
      BY <1>3, <2>1, <3>3
    <3>5. i < k /\ k < j
      <4>1. ~(k < i)
        BY <1>1, <2>1, <3>3, <3>4
      <4>2. k # i /\ k # j
        BY <2>1, <3>3, <3>4
      <4>3. ~(j < k)
        BY <1>1, <2>1, <3>3, <3>4
      <4>4. QED BY <1>1, <4>1, <4>2, <4>3
    <3>6. QED BY <1>1, <1>5, <3>5
  <2>5. QED BY <2>1, <2>3, <2>4, Lengths
<1>6. QED BY <1>4, <1>5

-----------------------------------------------------------------------------
(***************************************************************************)
(* What is listed is stored.                                               *)
(***************************************************************************)

\* At first nothing is listed.
LEMMA InitListed == Init => ListedInv
BY DEF Init, ListedInv

\* Nothing counts as stored and then no longer.
LEMMA StoredStaysSo ==
    ASSUME StoreInv, [Next]_vars, NEW f \in File, IsStored(f)
    PROVE  IsStored(f)'
<1>1. ASSUME NEW w \in Worker, FinishFile(w) PROVE IsStored(f)'
  <2>1. /\ length' = [length EXCEPT ![Checksum[file[w]]] = Length(file[w])]
        /\ file[w] \in File
    BY <1>1 DEF FinishFile, StoreInv, UploadKept
  <2>2. Length(file[w]) # NoLength
    BY <2>1, Lengths
  <2>3. QED BY <2>1, <2>2, KnownChecksums DEF IsStored, StoreInv, StoreTypes
<1>2. ASSUME NEW w \in Worker, Upload(w), ~FinishFile(w) PROVE UNCHANGED length
  BY <1>2 DEF Upload, GetFile, ReadPart, CreateFullChunk, CreateLastChunk, CreateChunk, ReadNothing,
              ListChanges, storeVars, vars
<1>3. ASSUME NEW w \in Worker, Fail(w) PROVE UNCHANGED length
  BY <1>3 DEF Fail, storeVars
<1>4. Download \/ UNCHANGED vars => UNCHANGED length
  BY DownloadIsIdle DEF vars
<1>5. UNCHANGED length => IsStored(f)'
  BY DEF IsStored
<1>6. QED BY <1>1, <1>2, <1>3, <1>4, <1>5 DEF Next

\* A worker's changes grow by a file that is stored, or the worker loses them.
LEMMA ChangesAreStored ==
    ASSUME StoreInv, ListedInv, [Next]_vars
    PROVE  /\ changes' \in [Worker -> SUBSET File]
           /\ \A w \in Worker : \A f \in changes'[w] : f \in changes[w] \/ IsStored(f)'
<1> USE DEF ListedInv
<1>1. ASSUME NEW w \in Worker, NEW f \in File, GetFile(w, f)
      PROVE  /\ changes' \in [Worker -> SUBSET File]
             /\ \A v \in Worker : \A g \in changes'[v] : g \in changes[v] \/ IsStored(g)'
  <2>1. UNCHANGED length
    BY <1>1 DEF GetFile, storeVars
  <2>2. CASE changes' = changes
    BY <2>2
  <2>3. CASE IsStored(f) /\ changes' = [changes EXCEPT ![w] = @ \cup {f}]
    <3>1. \A v \in Worker : \A g \in changes'[v] : g \in changes[v] \/ g = f
      BY <2>3
    <3>2. IsStored(f)'
      BY <2>1, <2>3 DEF IsStored
    <3>3. QED BY <2>3, <3>1, <3>2
  <2>4. QED BY <1>1, <2>2, <2>3 DEF GetFile
<1>2. ASSUME NEW w \in Worker, FinishFile(w)
      PROVE  /\ changes' \in [Worker -> SUBSET File]
             /\ \A v \in Worker : \A g \in changes'[v] : g \in changes[v] \/ IsStored(g)'
  <2>1. PICK f \in File :
          /\ length' = [length EXCEPT ![Checksum[f]] = Length(f)]
          /\ changes' = [changes EXCEPT ![w] = @ \cup {f}]
    BY <1>2 DEF FinishFile, StoreInv, UploadKept
  <2>2. IsStored(f)'
    BY <2>1, Lengths, KnownChecksums DEF IsStored, StoreInv, StoreTypes
  <2>3. \A v \in Worker : \A g \in changes'[v] : g \in changes[v] \/ g = f
    BY <2>1
  <2>4. QED BY <2>1, <2>2, <2>3
<1>3. ASSUME NEW w \in Worker, changes' = [changes EXCEPT ![w] = {}]
      PROVE  /\ changes' \in [Worker -> SUBSET File]
             /\ \A v \in Worker : \A g \in changes'[v] : g \in changes[v]
  BY <1>3
<1>4. ASSUME NEW w \in Worker, Upload(w)
      PROVE  \/ \E f \in File : GetFile(w, f)
             \/ FinishFile(w)
             \/ changes' = [changes EXCEPT ![w] = {}]
             \/ UNCHANGED changes
  BY <1>4 DEF Upload, ReadPart, CreateFullChunk, CreateLastChunk, ReadNothing, ListChanges, vars
<1>5. ASSUME NEW w \in Worker, Fail(w) PROVE changes' = [changes EXCEPT ![w] = {}]
  BY <1>5 DEF Fail
<1>6. Download \/ UNCHANGED vars => UNCHANGED changes
  BY DEF Download, StartDownload, EndBody, SendBuffered, FetchWindow, vars
<1>7. QED BY <1>1, <1>2, <1>3, <1>4, <1>5, <1>6 DEF Next

\* What is listed grows by a worker's changes.
LEMMA ListedGrows ==
    ASSUME StoreInv, ListedInv, [Next]_vars
    PROVE  listed \subseteq listed' /\ \A f \in listed' : f \in listed \/ \E w \in Worker : f \in changes[w]
<1>1. ASSUME NEW w \in Worker, ListChanges(w)
      PROVE  listed' = listed \cup changes[w]
  BY <1>1 DEF ListChanges
<1>2. ASSUME NEW w \in Worker, Upload(w), ~ListChanges(w) PROVE UNCHANGED listed
  BY <1>2 DEF Upload, GetFile, ReadPart, CreateFullChunk, CreateLastChunk, ReadNothing, FinishFile,
              storeVars, vars
<1>3. ASSUME NEW w \in Worker, Fail(w) PROVE UNCHANGED listed
  BY <1>3 DEF Fail, storeVars
<1>4. Download \/ UNCHANGED vars => UNCHANGED listed
  BY DEF Download, StartDownload, EndBody, SendBuffered, FetchWindow, storeVars, vars
<1>5. QED BY <1>1, <1>2, <1>3, <1>4 DEF Next

\* Every step lists only what is stored.
LEMMA NextListed == StoreInv /\ ListedInv /\ [Next]_vars => ListedInv'
<1> SUFFICES ASSUME StoreInv, ListedInv, [Next]_vars PROVE ListedInv'
  OBVIOUS
<1>1. \A f \in File : IsStored(f) => IsStored(f)'
  BY StoredStaysSo
<1>2. /\ changes' \in [Worker -> SUBSET File]
      /\ \A w \in Worker : \A f \in changes'[w] : f \in changes[w] \/ IsStored(f)'
  BY ChangesAreStored
<1>3. \A f \in listed' : f \in listed \/ \E w \in Worker : f \in changes[w]
  BY ListedGrows
<1>4. QED BY <1>1, <1>2, <1>3 DEF ListedInv

-----------------------------------------------------------------------------
(***************************************************************************)
(* The body of a response.                                                 *)
(***************************************************************************)

\* What is sent of the first chunk ends where the next one starts, or the file ends.
LEMMA HeadInPlace ==
    ASSUME NEW f \in File, NEW s \in Seq(Byte), NEW b \in Seq(Row), b # <<>>,
           \A i \in DOMAIN b : \E g \in Alike(f) : b[i] \in RowsTo(g, Length(g)),
           SameStarts(f), InPlace(f, s, b)
    PROVE  InPlace(f, s \o Head(b).data, Tail(b))
<1>1. /\ Len(b) \in Nat \ {0} /\ DOMAIN b = 1..Len(b) /\ Head(b) = b[1] /\ 1 \in DOMAIN b
      /\ Len(Tail(b)) = Len(b) - 1 /\ DOMAIN Tail(b) = 1..Len(b) - 1
      /\ \A i \in 1..Len(b) - 1 : Tail(b)[i] = b[i + 1]
  OBVIOUS
<1>2. PICK g, o : g \in Alike(f) /\ o \in ChunkStarts(g, Length(g)) /\ b[1] = ChunkAt(g, o)
  BY <1>1 DEF RowsTo
<1>3. g \in File /\ o \in Nat /\ o < Length(g) /\ Length(g) \in Nat
  BY <1>2, Lengths DEF Alike, ChunkStarts
<1>4. /\ b[1].data \in Seq(Byte) /\ Len(b[1].data) = LengthAt(g, o) /\ b[1].offset = o
      /\ LengthAt(g, o) \in 1..ChunkLen /\ o + LengthAt(g, o) <= Length(g) /\ o % ChunkLen = 0
  BY <1>2, <1>3, ChunkFacts DEF Row
<1>5. Len(s) = o
  BY <1>1, <1>4 DEF InPlace
<1>6. PICK e \in Nat : e = Len(s \o Head(b).data) /\ e = o + LengthAt(g, o)
  <2>1. PICK d \in Seq(Byte), len \in Nat : d = Head(b).data /\ len = LengthAt(g, o) /\ Len(d) = len
    BY <1>1, <1>4, Lengths
  <2>2. Len(s \o d) = Len(s) + Len(d)
    OBVIOUS
  <2>3. Len(s \o d) = o + len
    BY <1>5, <2>1, <2>2
  <2>4. QED BY <1>3, <2>1, <2>3
<1>7. e = Length(g) \/ (e = o + ChunkLen /\ e < Length(g))
  BY <1>3, <1>4, <1>6, Lengths DEF LengthAt
<1>8. e = Length(g) \/ e \in ChunkStarts(g, Length(g))
  <2>1. e = o + ChunkLen => e % ChunkLen = 0
    BY <1>3, <1>4, NextMultiple, Lengths
  <2>2. QED BY <1>3, <1>7, <2>1 DEF ChunkStarts
<1>9. ASSUME Tail(b) # <<>> PROVE Tail(b)[1].offset = e
  <2>1. Len(b) >= 2 /\ Tail(b)[1] = b[2] /\ 2 \in DOMAIN b
    BY <1>1, <1>9
  <2>2. b[2].offset = o + ChunkLen
    BY <1>1, <1>4, <2>1 DEF InPlace
  <2>3. PICK h, p : h \in Alike(f) /\ p \in ChunkStarts(h, Length(h)) /\ b[2] = ChunkAt(h, p)
    BY <2>1 DEF RowsTo
  <2>4. b[2].offset = p
    BY <2>3 DEF ChunkAt, ChunkRow
  <2>5. p \in ChunkStarts(g, Length(g))
    BY <2>3, <1>2 DEF SameStarts
  <2>6. o + ChunkLen < Length(g)
    BY <2>2, <2>4, <2>5 DEF ChunkStarts
  <2>7. LengthAt(g, o) = ChunkLen
    BY <1>3, <2>6, Lengths DEF LengthAt
  <2>8. QED BY <1>6, <2>1, <2>2, <2>7
<1>10. ASSUME NEW i \in DOMAIN Tail(b), NEW j \in DOMAIN Tail(b), j = i + 1
       PROVE  Tail(b)[j].offset = Tail(b)[i].offset + ChunkLen
  <2>1. i + 1 \in DOMAIN b /\ j + 1 \in DOMAIN b /\ j + 1 = (i + 1) + 1
    BY <1>1, <1>10
  <2>2. b[j + 1].offset = b[i + 1].offset + ChunkLen
    BY <2>1 DEF InPlace
  <2>3. QED BY <1>1, <1>10, <2>2
<1>11. PICK bytes, rest : bytes = s \o Head(b).data /\ rest = Tail(b)
  OBVIOUS
<1>12. InPlace(f, bytes, rest)
  BY <1>2, <1>6, <1>8, <1>9, <1>10, <1>11 DEF InPlace
<1>13. QED BY <1>11, <1>12

\* The bytes of the first chunk are bytes of a file at their places.
LEMMA HeadInFiles ==
    ASSUME NEW f \in File, NEW s \in Seq(Byte), NEW b \in Seq(Row), b # <<>>,
           \A i \in DOMAIN b : \E g \in Alike(f) : b[i] \in RowsTo(g, Length(g)),
           \A g \in Alike(f) : Intact(g),
           b[1].offset = Len(s), InFiles(f, s)
    PROVE  InFiles(f, s \o Head(b).data)
<1>1. Head(b) = b[1] /\ 1 \in DOMAIN b
  OBVIOUS
<1>2. PICK g, o : g \in Alike(f) /\ o \in ChunkStarts(g, Length(g)) /\ b[1] = ChunkAt(g, o)
  BY <1>1 DEF RowsTo
<1>3. g \in File /\ o \in Nat /\ o < Length(g) /\ Length(g) \in Nat /\ Intact(g)
  BY <1>2, Lengths DEF Alike, ChunkStarts
<1>4. PICK d \in Seq(Byte), len \in 1..ChunkLen :
         /\ d = b[1].data /\ len = LengthAt(g, o) /\ Len(d) = len
         /\ b[1].offset = o /\ o + len <= Length(g)
  BY <1>2, <1>3, ChunkFacts DEF Row
<1>5. \A i \in 1..len : d[i] = Content[g][o + i]
  BY <1>2, <1>3, <1>4, ChunkFacts, IntactBuffer
<1>6. Len(s) = o /\ len \in Nat
  BY <1>4, Lengths
<1>7. ASSUME NEW i \in DOMAIN (s \o d)
      PROVE  \E h \in Alike(f) : i \in 1..Length(h) /\ (s \o d)[i] = Content[h][i]
  <2>1. i \in 1..o + len
    BY <1>4, <1>6, <1>7
  <2>2. CASE i <= o
    <3>1. i \in DOMAIN s /\ (s \o d)[i] = s[i]
      BY <1>6, <2>1, <2>2
    <3>2. QED BY <3>1 DEF InFiles
  <2>3. CASE i > o
    <3>1. PICK k \in 1..len : i = o + k
      <4>1. i - o \in 1..len /\ i = o + (i - o)
        BY <1>3, <1>6, <2>1, <2>3
      <4>2. QED BY <4>1
    <3>2. (s \o d)[i] = d[k]
      BY <1>4, <1>6, <3>1
    <3>3. i \in 1..Length(g)
      BY <1>3, <1>4, <1>6, <2>1
    <3>4. QED BY <1>2, <1>5, <3>1, <3>2, <3>3
  <2>4. QED BY <1>3, <2>1, <2>2, <2>3
<1>8. QED BY <1>1, <1>4, <1>7 DEF InFiles

\* Sending the first chunk.
LEMMA SendsHead ==
    ASSUME NEW f \in File, NEW s, NEW b, BodyOf(f, s, b), b # <<>>
    PROVE  BodyOf(f, s \o Head(b).data, Tail(b))
<1>1. /\ s \in Seq(Byte) /\ b \in Seq(Row)
      /\ \A i \in DOMAIN b : \E g \in Alike(f) : b[i] \in RowsTo(g, Length(g))
  BY DEF BodyOf
<1>2. s \o Head(b).data \in Seq(Byte) /\ Tail(b) \in Seq(Row)
  <2>1. Head(b) \in Row
    BY <1>1
  <2>2. Head(b).data \in Seq(Byte)
    BY <2>1 DEF Row
  <2>3. QED BY <1>1, <2>2
<1>3. ASSUME NEW i \in DOMAIN Tail(b)
      PROVE  \E g \in Alike(f) : Tail(b)[i] \in RowsTo(g, Length(g))
  <2>1. i + 1 \in DOMAIN b /\ Tail(b)[i] = b[i + 1]
    BY <1>1
  <2>2. QED BY <1>1, <2>1
<1>4. SameStarts(f) => InPlace(f, s \o Head(b).data, Tail(b))
  BY <1>1, HeadInPlace DEF BodyOf
<1>5. (\A g \in Alike(f) : Intact(g)) => InFiles(f, s \o Head(b).data)
  BY <1>1, HeadInFiles, IntactStarts DEF BodyOf, InPlace
<1>6. QED BY <1>2, <1>3, <1>4, <1>5 DEF BodyOf

\* What a query returns for the place a body has come to.
LEMMA Fetched ==
    ASSUME SlotInv, NEW f \in File, IsStored(f), NEW s, BodyOf(f, s, <<>>), NEW end \in Nat,
           NEW chunks \in FileChunks(Checksum[f], Len(s), end)
    PROVE  BodyOf(f, s, chunks)
<1>1. s \in Seq(Byte) /\ Len(s) \in Nat
  BY DEF BodyOf
<1>2. chunks \in Seq(Row) /\ \A i \in DOMAIN chunks : chunks[i] \in rows[Checksum[f]]
  BY <1>1, ChunksReturned DEF InWindow
<1>3. \A i \in DOMAIN chunks : \E g \in Alike(f) : chunks[i] \in RowsTo(g, Length(g))
  BY <1>2 DEF SlotInv
<1>4. ASSUME SameStarts(f) PROVE InPlace(f, s, chunks)
  <2>1. \E g \in Alike(f) : Len(s) = Length(g) \/ Len(s) \in ChunkStarts(g, Length(g))
    BY <1>4 DEF BodyOf, InPlace
  <2>2. QED BY <1>1, <1>4, <2>1, ChunksFollow DEF InPlace
<1>5. QED BY <1>1, <1>2, <1>3, <1>4 DEF BodyOf

\* A file that is alone with its checksum has what is asked for in its first row.
LEMMA TotalIsLength ==
    ASSUME StoreInv, SlotInv, NEW f \in File, f \in Unique, IsStored(f),
           NEW chunks \in FileChunks(Checksum[f], 0, 1)
    PROVE  (IF chunks = <<>> THEN 0 ELSE length[Checksum[f]]) = Length(f)
<1>1. f \in File /\ length[Checksum[f]] = Length(f) /\ Length(f) \in Nat
  BY UniqueIsFile, Lengths DEF StoreInv, OwnRows, IsStored
<1>2. ASSUME Length(f) # 0 PROVE chunks # <<>>
  <2>1. 0 \in ChunkStarts(f, Length(f)) /\ 0 < Length(f)
    BY <1>1, <1>2, Lengths DEF ChunkStarts
  <2>2. ChunkAt(f, 0).offset = 0 /\ ChunkAt(f, 0).bucket = 0
    <3>1. LengthAt(f, 0) \in 1..ChunkLen
      BY <1>1, <2>1, ChunkFacts
    <3>2. 0 + LengthAt(f, 0) < BucketLen
      BY <3>1, LengthAssumption
    <3>3. QED BY <1>1, <2>1, <3>2, ChunkFacts
  <2>3. ChunkAt(f, 0) \in rows[Checksum[f]]
    BY <1>1, <2>1 DEF StoreInv, FinishedIsStored, IsStored, RowsTo
  <2>4. ChunkAt(f, 0) \in InWindow(Checksum[f], 0, 1)
    BY <2>2, <2>3 DEF InWindow
  <2>5. \E i \in DOMAIN chunks : chunks[i] = ChunkAt(f, 0)
    <3>1. PICK first \in Nat, end \in Nat : first = 0 /\ end = 1
      OBVIOUS
    <3>2. PICK s \in FileChunks(Checksum[f], first, end) : s = chunks
      BY <3>1
    <3>3. \A r \in InWindow(Checksum[f], first, end) : \E i \in DOMAIN s : s[i] = r
      BY ChunksReturned, ZenonT(60)
    <3>4. QED BY <2>4, <3>1, <3>2, <3>3
  <2>6. QED BY <2>5
<1>3. QED BY <1>1, <1>2

\* A query for a place of such a file finds nothing only behind the first bucket.
LEMMA NothingFetched ==
    ASSUME StoreInv, SlotInv, NEW f \in Unique, IsStored(f), NEW s, BodyOf(f, s, <<>>),
           Len(s) # Length(f), <<>> \in FileChunks(Checksum[f], Len(s), Len(s) + WindowLen)
    PROVE  Length(f) >= BucketLen
<1>1. f \in File /\ Length(f) \in Nat /\ Alike(f) = {f}
  BY UniqueIsFile, Lengths DEF Unique, Alike
<1>2. PICK o \in Nat : o = Len(s)
  BY DEF BodyOf
<1>3. o \in ChunkStarts(f, Length(f)) /\ o < Length(f)
  <2>1. SameStarts(f)
    BY <1>1 DEF SameStarts
  <2>2. QED BY <1>1, <1>2, <2>1 DEF BodyOf, InPlace, ChunkStarts
<1>4. ChunkAt(f, o) \in rows[Checksum[f]]
  BY <1>1, <1>3 DEF StoreInv, FinishedIsStored, IsStored, RowsTo
<1>5. PICK end \in Nat : end = o + WindowLen /\ ChunkAt(f, o) \notin InWindow(Checksum[f], o, end)
  <2>1. PICK end \in Nat : end = o + WindowLen
    BY LengthAssumption
  <2>2. PICK chunks : chunks = <<>> /\ chunks \in FileChunks(Checksum[f], o, end)
    BY <1>2, <2>1
  <2>3. DOMAIN chunks = {}
    BY <2>2
  <2>4. QED BY <1>1, <2>1, <2>2, <2>3, ChunksReturned
<1>6. ChunkAt(f, o).offset = o /\ (ChunkAt(f, o).bucket = 0 <=> o + LengthAt(f, o) < BucketLen)
      /\ LengthAt(f, o) \in 1..ChunkLen /\ o + LengthAt(f, o) <= Length(f)
  BY <1>1, <1>3, ChunkFacts
<1>7. o \in o..end - 1
  BY <1>5, Lengths, LengthAssumption
<1>8. ~(o + LengthAt(f, o) < BucketLen)
  <2>1. PICK r : r = ChunkAt(f, o)
    OBVIOUS
  <2>2. r \in rows[Checksum[f]] /\ r.offset \in o..end - 1
    BY <1>4, <1>6, <1>7, <2>1
  <2>3. r.bucket # 0
    BY <1>5, <2>1, <2>2 DEF InWindow
  <2>4. QED BY <1>6, <2>1, <2>3
<1>9. QED BY <1>1, <1>6, <1>8, Lengths, LengthAssumption

\* At first there is no body.
LEMMA InitBody == Init => BodyInv
BY DEF Init, BodyInv, DownloadCompletes

\* A body that nothing has been sent of.
LEMMA EmptyBody ==
    ASSUME NEW f \in File
    PROVE  BodyOf(f, <<>>, <<>>)
<1>1. f \in Alike(f) /\ Length(f) \in Nat /\ Len(<<>>) = 0
  BY Lengths DEF Alike
<1>2. 0 = Length(f) \/ 0 \in ChunkStarts(f, Length(f))
  BY <1>1, Lengths DEF ChunkStarts
<1>3. QED BY <1>1, <1>2 DEF BodyOf, InPlace, InFiles

\* The first query of a download sets up a body.
LEMMA StartBody ==
    ASSUME StoreInv, SlotInv, ListedInv, BodyInv, NEW f \in File, StartDownload(f)
    PROVE  BodyInv'
<1>1. PICK chunks \in FileChunks(Checksum[f], 0, 1) :
         total' = (IF chunks = <<>> THEN 0 ELSE length[Checksum[f]]) /\ buffer' = chunks
  BY DEF StartDownload
<1>2. /\ sent = <<>> /\ sent' = sent /\ reading' = f /\ outcome' = "open"
      /\ f \in listed /\ listed' = listed /\ IsStored(f)
  BY DEF StartDownload, BodyInv, ListedInv, storeVars
<1>3. BodyOf(f, sent, chunks)
  <2>1. Len(<<>>) = 0 /\ 1 \in Nat
    OBVIOUS
  <2>2. BodyOf(f, <<>>, chunks)
    BY <1>2, <2>1, EmptyBody, Fetched
  <2>3. QED BY <1>2, <2>2
<1>4. f \in Unique => total' = Length(f)
  BY <1>1, <1>2, TotalIsLength
<1>5. QED BY <1>1, <1>2, <1>3, <1>4 DEF BodyInv, DownloadCompletes

\* A body sends a chunk it has.
LEMMA SendBody ==
    ASSUME ListedInv, BodyInv, SendBuffered
    PROVE  BodyInv'
<1>1. /\ outcome = "open" /\ buffer # <<>> /\ sent' = sent \o Head(buffer).data
      /\ buffer' = Tail(buffer) /\ UNCHANGED <<listed, reading, total, outcome>>
  BY DEF SendBuffered, storeVars
<1>2. reading \in listed /\ reading \in File /\ BodyOf(reading, sent, buffer)
  BY <1>1 DEF BodyInv, ListedInv
<1>3. BodyOf(reading, sent \o Head(buffer).data, Tail(buffer))
  <2>1. PICK f, s, b : f = reading /\ s = sent /\ b = buffer
    OBVIOUS
  <2>2. BodyOf(f, s \o Head(b).data, Tail(b))
    BY <1>1, <1>2, <2>1, SendsHead
  <2>3. QED BY <2>1, <2>2
<1>4. BodyOf(reading, sent, buffer)'
  BY <1>1, <1>3
<1>5. QED BY <1>1, <1>2, <1>4 DEF BodyInv, DownloadCompletes

\* A body asks for more and sends the first chunk, or fails.
LEMMA FetchBody ==
    ASSUME StoreInv, SlotInv, ListedInv, BodyInv, FetchWindow
    PROVE  BodyInv'
<1>1. PICK f, s, e : f = reading /\ s = sent /\ e = Len(s) + WindowLen
  OBVIOUS
<1>2. /\ outcome = "open" /\ buffer = <<>> /\ total # Len(s)
      /\ f \in listed /\ f \in File /\ IsStored(f) /\ BodyOf(f, s, <<>>)
      /\ f \in Unique => total = Length(f)
      /\ UNCHANGED <<listed, reading, total>>
  BY <1>1 DEF FetchWindow, BodyInv, ListedInv, storeVars
<1>3. e \in Nat
  BY <1>1, <1>2, LengthAssumption DEF BodyOf
<1>4. PICK chunks \in FileChunks(Checksum[f], Len(s), e) :
        \/ chunks = <<>> /\ outcome' = "failed" /\ UNCHANGED <<sent, buffer>>
        \/ /\ chunks # <<>>
           /\ sent' = s \o Head(chunks).data /\ buffer' = Tail(chunks) /\ outcome' = outcome
  BY <1>1 DEF FetchWindow
<1>5. CASE chunks = <<>>
  <2>1. f \in Unique => Length(f) >= BucketLen
    BY <1>1, <1>2, <1>4, <1>5, NothingFetched
  <2>2. outcome' = "failed" /\ UNCHANGED <<sent, buffer>>
    BY <1>4, <1>5
  <2>3. QED BY <1>1, <1>2, <2>1, <2>2 DEF BodyInv, DownloadCompletes
<1>6. CASE chunks # <<>>
  <2>1. BodyOf(f, s, chunks)
    BY <1>2, <1>3, Fetched
  <2>2. BodyOf(f, s \o Head(chunks).data, Tail(chunks))
    BY <1>2, <1>6, <2>1, SendsHead
  <2>3. BodyOf(f, sent', buffer')
    BY <1>4, <1>6, <2>2
  <2>4. QED BY <1>1, <1>2, <1>4, <1>6, <2>3 DEF BodyInv, DownloadCompletes
<1>7. QED BY <1>5, <1>6

\* Every step keeps what is known of the body.
LEMMA NextBody == StoreInv /\ SlotInv /\ ListedInv /\ BodyInv /\ [Next]_vars => BodyInv'
<1> SUFFICES ASSUME StoreInv, SlotInv, ListedInv, BodyInv, [Next]_vars PROVE BodyInv'
  OBVIOUS
<1>1. ASSUME UNCHANGED bodyVars PROVE BodyInv'
  BY <1>1, ListedGrows DEF BodyInv, DownloadCompletes, bodyVars
<1>2. ASSUME NEW w \in Worker, Upload(w) PROVE UNCHANGED bodyVars
  BY <1>2 DEF Upload, GetFile, ReadPart, CreateFullChunk, CreateLastChunk, ReadNothing, FinishFile,
              ListChanges, bodyVars, vars
<1>3. ASSUME NEW w \in Worker, Fail(w) PROVE UNCHANGED bodyVars
  BY <1>3 DEF Fail
<1>4. CASE EndBody
  BY <1>4 DEF EndBody, BodyInv, DownloadCompletes, storeVars
<1>5. CASE UNCHANGED vars
  BY <1>1, <1>5 DEF vars, bodyVars
<1>6. QED BY <1>1, <1>2, <1>3, <1>4, <1>5, StartBody, SendBody, FetchBody DEF Next, Download

-----------------------------------------------------------------------------
\* The inductive invariant holds.
LEMMA DownloadInvariant == Spec => []DownloadInv
<1>1. Init => DownloadInv
  BY InitStore, InitSlots, InitListed, InitBody DEF DownloadInv
<1>2. DownloadInv /\ [Next]_vars => DownloadInv'
  BY NextStore, NextSlots, NextListed, NextBody DEF DownloadInv
<1>3. QED BY <1>1, <1>2, PTL DEF Spec

\* A download of a file that is alone with its checksum fails only if the file
\* reaches beyond the first bucket, whatever the lengths are and however many
\* builds upload it at once.
THEOREM DownloadsComplete == Spec => []DownloadCompletes
<1>1. DownloadInv => DownloadCompletes
  BY DEF DownloadInv, BodyInv
<1>2. QED BY <1>1, DownloadInvariant, PTL

\* A body that ends in good order has sent the bytes of the file it is asked for.
LEMMA CompleteIsExact == DownloadInv => DownloadIsExact
<1> SUFFICES ASSUME BodyInv, ListedInv, outcome = "complete",
                    \A g \in Alike(reading) : Intact(g),
                    reading \in Unique \/ Len(sent) = Length(reading)
             PROVE  sent = Content[reading]
  BY DEF DownloadInv, DownloadIsExact
<1>1. PICK f, s : f = reading /\ s = sent
  OBVIOUS
<1>2. f \in File /\ BodyOf(f, s, buffer) /\ Len(s) = Length(f)
  BY <1>1 DEF BodyInv, ListedInv
<1>3. s \in Seq(Byte) /\ Content[f] \in Seq(Byte) /\ Len(s) = Len(Content[f]) /\ InFiles(f, s)
  BY <1>1, <1>2, ContentAssumption DEF BodyOf, Length
<1>4. ASSUME NEW i \in 1..Len(s) PROVE s[i] = Content[f][i]
  <2>1. PICK g \in Alike(f) : i \in 1..Length(g) /\ s[i] = Content[g][i]
    BY <1>3 DEF InFiles
  <2>2. g \in File /\ Checksum[g] = Checksum[f] /\ Intact(g) /\ f \in Alike(f) /\ Intact(f)
    BY <1>1, <1>2 DEF Alike
  <2>3. Content[g][i] = Content[f][i]
    BY <1>2, <2>1, <2>2, IntactBytes
  <2>4. QED BY <2>1, <2>3
<1>5. s = Content[f]
  BY <1>3, <1>4
<1>6. QED BY <1>1, <1>5

\* A body that ends in good order has sent the file that was asked for, if the
\* reads of the files of its checksum filled the buffer, and, where there is
\* more than one of them, the length is that of the file.
THEOREM DownloadsAreExact == Spec => []DownloadIsExact
<1>1. QED BY DownloadInvariant, CompleteIsExact, PTL
=============================================================================
