----------------------------- MODULE FileStore ------------------------------
(***************************************************************************)
(* The files of a project, stored under their checksums: how build_single  *)
(* uploads the files of a commit in chunks                                 *)
(* (crates/fairing-core/src/services/build.rs), the rows this leaves in    *)
(* the table files (crates/scylla-repositories/src/files.rs), and the body *)
(* stream that reads them for a response                                   *)
(* (crates/fairing-core/src/services/web.rs).                              *)
(*                                                                         *)
(* Every query is one step.  Reading a local file shares nothing with      *)
(* other processes and is part of the step that uses what was read.        *)
(***************************************************************************)
EXTENDS Naturals, Sequences, FiniteSets, Functions

CONSTANTS
    File,        \* the files that occur in commits of the project
    Content,     \* their bytes
    Worker,      \* the processes that build, one layer each
    Tree,        \* the files of the commit each worker builds
    ChunkLen,    \* length of the buffer a file is read into, 1 MiB
    ReadLen,     \* bytes one read() of each file returns at most
    BucketLen,   \* bytes of a file kept in one partition, 64 MiB
    WindowLen,   \* bytes a body asks for at once, 4 MiB
    BatchLen,    \* changes kept at most when a directory is done, 128
    NoFile,      \* the file of a worker between two files
    NoLength     \* a null length column

Byte == 0..255

ASSUME ContentAssumption == Content \in [File -> Seq(Byte)]
ASSUME TreeAssumption == Tree \in [Worker -> SUBSET File]
ASSUME NoFileAssumption == NoFile \notin File
ASSUME LengthAssumption ==
    /\ ChunkLen \in Nat \ {0}
    /\ ReadLen \in [File -> 1..ChunkLen]
    /\ \A f \in File : ChunkLen % ReadLen[f] = 0
    /\ BucketLen \in Nat /\ BucketLen > ChunkLen
    /\ WindowLen \in Nat /\ WindowLen >= ChunkLen
    /\ BatchLen \in Nat
    /\ NoLength \notin Nat

Length(f) == Len(Content[f])

\* What read() returns at a position: the rest of the file, or as many bytes
\* as tokio asks the system for at once, 16 KiB up to 1.24, 2 MiB from 1.25.
ReadFrom(f, position) ==
    IF Length(f) - position < ReadLen[f] THEN Length(f) - position ELSE ReadLen[f]

(***************************************************************************)
(* The buffer once the file has been read as far as end.  Every read()     *)
(* starts at the front of the buffer, also when the one before has not     *)
(* filled it; what a read does not reach stays from an earlier one, or     *)
(* from vec![0u8; 1 << 20].                                                *)
(***************************************************************************)
BufferAt(f, end) ==
    [i \in 1..ChunkLen |->
        IF i > ReadLen[f] \/ i > end THEN 0
        ELSE Content[f][end - ((end - i) % ReadLen[f])]]

\* The reads of a file until one returns nothing, and where each of them ends.
Reads(f) == (Length(f) + ReadLen[f] - 1) \div ReadLen[f]
ReadEnd(f, n) == (n - 1) * ReadLen[f] + ReadFrom(f, (n - 1) * ReadLen[f])

\* Mutant: only one read is hashed.
ChecksumOfHead ==
    [f \in File |->
        [n \in {m \in 1..Reads(f) : m = 1} |-> BufferAt(f, ReadEnd(f, n))]]

\* What blake2b is fed stands for the digest: different inputs, different
\* digests.  After each read() the whole buffer is fed, not what was read.
Checksum ==
    [f \in File |-> [n \in 1..Reads(f) |-> BufferAt(f, ReadEnd(f, n))]]

Checksums == {Checksum[f] : f \in File}

VARIABLES
    length,      \* static column length of bucket 0, by checksum
    rows,        \* rows of the table files, by checksum
    listed,      \* files that changes of layers refer to
    pc,          \* where each worker stands
    todo,        \* the files it has still to come to
    file,        \* the file it uploads
    fileOffset,  \* where the next chunk starts
    bufferLen,   \* bytes the worker takes the buffer to hold
    changes,     \* files whose changes it has not yet written
    reading,     \* the file a client asks for
    total,       \* total_length of the body
    sent,        \* the bytes it has sent
    buffer,      \* chunks it has fetched and not yet sent
    outcome      \* of the download

storeVars == <<length, rows, listed>>
bodyVars == <<reading, total, sent, buffer, outcome>>
vars == <<length, rows, listed, pc, todo, file, fileOffset, bufferLen, changes,
          reading, total, sent, buffer, outcome>>

Row == [bucket : Nat, offset : Nat, data : Seq(Byte)]

TypeOK ==
    /\ length \in [Checksums -> Nat \cup {NoLength}]
    /\ rows \in [Checksums -> SUBSET Row]
    /\ listed \in SUBSET File
    /\ pc \in [Worker -> {"walk", "upload", "finish", "dead"}]
    /\ todo \in [Worker -> SUBSET File]
    /\ file \in [Worker -> File \cup {NoFile}]
    /\ fileOffset \in [Worker -> Nat]
    /\ bufferLen \in [Worker -> 0..ChunkLen - 1]
    /\ changes \in [Worker -> SUBSET File]
    /\ reading \in File \cup {NoFile}
    /\ total \in Nat
    /\ sent \in Seq(Byte)
    /\ buffer \in Seq(Row)
    /\ outcome \in {"none", "open", "complete", "failed"}
    /\ \A w \in Worker : pc[w] \in {"upload", "finish"} =>
          file[w] \in File /\ fileOffset[w] + bufferLen[w] <= Length(file[w])

Init ==
    /\ length = [c \in Checksums |-> NoLength]
    /\ rows = [c \in Checksums |-> {}]
    /\ listed = {}
    /\ pc = [w \in Worker |-> "walk"]
    /\ todo = Tree
    /\ file = [w \in Worker |-> NoFile]
    /\ fileOffset = [w \in Worker |-> 0]
    /\ bufferLen = [w \in Worker |-> 0]
    /\ changes = [w \in Worker |-> {}]
    /\ reading = NoFile
    /\ total = 0
    /\ sent = <<>>
    /\ buffer = <<>>
    /\ outcome = "none"

-----------------------------------------------------------------------------
(***************************************************************************)
(* Uploading.  A file is hashed and looked up, and if it is not there read *)
(* a second time, a chunk of it going into a row when the buffer is full.  *)
(***************************************************************************)

\* Mutant: the second pass goes on from the end of the first.
NotRewound(f) == Length(f)

Rewound(f) == 0

\* Mutant: a file counts as stored as soon as it has a row.
HasRow(f) == rows[Checksum[f]] # {}

\* A file counts as stored once finish_file has set its length.
IsStored(f) == length[Checksum[f]] # NoLength

GetFile(w, f) ==
    /\ pc[w] = "walk"
    /\ f \in todo[w]
    /\ todo' = [todo EXCEPT ![w] = @ \ {f}]
    /\ \/ /\ IsStored(f)
          /\ changes' = [changes EXCEPT ![w] = @ \cup {f}]
          /\ UNCHANGED <<pc, file, fileOffset, bufferLen>>
       \/ /\ ~IsStored(f)
          /\ pc' = [pc EXCEPT ![w] = "upload"]
          /\ file' = [file EXCEPT ![w] = f]
          /\ fileOffset' = [fileOffset EXCEPT ![w] = Rewound(f)]
          /\ bufferLen' = [bufferLen EXCEPT ![w] = 0]
          /\ UNCHANGED changes
    /\ UNCHANGED <<storeVars, bodyVars>>

Position(w) == fileOffset[w] + bufferLen[w]
NextRead(w) == ReadFrom(file[w], Position(w))

\* The row of len bytes at an offset; the bucket is that of their end.
ChunkRow(f, offset, len) ==
    [bucket |-> (offset + len) \div BucketLen,
     offset |-> offset,
     data |-> SubSeq(BufferAt(f, offset + len), 1, len)]

\* Mutant: the length of bucket 0 is set as well.
CreateChunkWithLength(f, offset, len) ==
    LET c == Checksum[f]
        row == ChunkRow(f, offset, len) IN
    /\ rows' = [rows EXCEPT ![c] =
                  {r \in @ : r.bucket # row.bucket \/ r.offset # offset} \cup {row}]
    /\ length' = [length EXCEPT ![c] = IF row.bucket = 0 THEN Length(f) ELSE @]

\* The length of bucket 0 is unset in the insert; that of other buckets, which
\* nothing reads, is left out.
CreateChunk(f, offset, len) ==
    LET c == Checksum[f]
        row == ChunkRow(f, offset, len) IN
    /\ rows' = [rows EXCEPT ![c] =
                  {r \in @ : r.bucket # row.bucket \/ r.offset # offset} \cup {row}]
    /\ UNCHANGED length

ReadPart(w) ==
    /\ pc[w] = "upload"
    /\ NextRead(w) > 0
    /\ bufferLen[w] + NextRead(w) < ChunkLen
    /\ bufferLen' = [bufferLen EXCEPT ![w] = @ + NextRead(w)]
    /\ UNCHANGED <<storeVars, pc, todo, file, fileOffset, changes, bodyVars>>

\* Mutant: the buffer still counts as full afterwards.
KeepsBuffer(w) ==
    /\ fileOffset' = [fileOffset EXCEPT ![w] = @ + ChunkLen]
    /\ bufferLen' = [bufferLen EXCEPT ![w] = ChunkLen]

NextChunk(w) ==
    /\ fileOffset' = [fileOffset EXCEPT ![w] = @ + ChunkLen]
    /\ bufferLen' = [bufferLen EXCEPT ![w] = 0]

CreateFullChunk(w) ==
    /\ pc[w] = "upload"
    /\ bufferLen[w] + NextRead(w) = ChunkLen
    /\ CreateChunk(file[w], fileOffset[w], ChunkLen)
    /\ NextChunk(w)
    /\ UNCHANGED <<listed, pc, todo, file, changes, bodyVars>>

\* At the end of the file the loop is left, if the buffer holds anything.
CreateLastChunk(w) ==
    /\ pc[w] = "upload"
    /\ NextRead(w) = 0
    /\ bufferLen[w] > 0
    /\ CreateChunk(file[w], fileOffset[w], bufferLen[w])
    /\ pc' = [pc EXCEPT ![w] = "finish"]
    /\ UNCHANGED <<listed, todo, file, fileOffset, bufferLen, changes, bodyVars>>

\* If not, the file is read again, to no end.
ReadNothing(w) ==
    /\ pc[w] = "upload"
    /\ NextRead(w) = 0
    /\ bufferLen[w] = 0
    /\ UNCHANGED vars

FinishFile(w) ==
    LET f == file[w] IN
    /\ pc[w] = "finish"
    /\ length' = [length EXCEPT ![Checksum[f]] = Length(f)]
    /\ changes' = [changes EXCEPT ![w] = @ \cup {f}]
    /\ pc' = [pc EXCEPT ![w] = "walk"]
    /\ file' = [file EXCEPT ![w] = NoFile]
    /\ UNCHANGED <<rows, listed, todo, fileOffset, bufferLen, bodyVars>>

\* create_layer_changes, after a directory that makes the changes too many or at
\* the end of the walk; how they become members is a matter of LayerBuild.
ListChanges(w) ==
    /\ pc[w] = "walk"
    /\ changes[w] # {}
    /\ Cardinality(changes[w]) > BatchLen \/ todo[w] = {}
    /\ listed' = listed \cup changes[w]
    /\ changes' = [changes EXCEPT ![w] = {}]
    /\ UNCHANGED <<length, rows, pc, todo, file, fileOffset, bufferLen, bodyVars>>

\* An error of a query or of the file system ends build_single, as a crash
\* does; what was stored stays in the table.
Fail(w) ==
    /\ pc[w] # "dead"
    /\ pc' = [pc EXCEPT ![w] = "dead"]
    /\ todo' = [todo EXCEPT ![w] = {}]
    /\ changes' = [changes EXCEPT ![w] = {}]
    /\ UNCHANGED <<storeVars, file, fileOffset, bufferLen, bodyVars>>

-----------------------------------------------------------------------------
(***************************************************************************)
(* Reading.  The first query is for the first byte, and its static column  *)
(* tells the length; then the body asks for a window of chunks at a time,  *)
(* from where it has come to.  All queries are for bucket 0.               *)
(***************************************************************************)

\* The chunks of a window, in the order of their offsets, in which a partition is
\* kept.
FileChunks(c, first, end) ==
    LET chunks == {r \in rows[c] : r.bucket = 0 /\ r.offset \in first..end - 1} IN
    {s \in Bijection(1..Cardinality(chunks), chunks) :
        \A i, j \in DOMAIN s : i < j => s[i].offset <= s[j].offset}

\* handle_inner, once it has found the member of a layer.  No chunk at all would
\* count as an empty file; a null length would be an error of the query, but a
\* member of a layer has been finished.
StartDownload(f) ==
    /\ outcome = "none"
    /\ f \in listed
    /\ reading' = f
    /\ \E chunks \in FileChunks(Checksum[f], 0, 1) :
        /\ total' = IF chunks = <<>> THEN 0 ELSE length[Checksum[f]]
        /\ buffer' = chunks
    /\ outcome' = "open"
    /\ UNCHANGED <<storeVars, pc, todo, file, fileOffset, bufferLen, changes, sent>>

EndBody ==
    /\ outcome = "open"
    /\ total = Len(sent)
    /\ outcome' = "complete"
    /\ UNCHANGED <<storeVars, pc, todo, file, fileOffset, bufferLen, changes,
                   reading, total, sent, buffer>>

SendBuffered ==
    /\ outcome = "open"
    /\ total # Len(sent)
    /\ buffer # <<>>
    /\ sent' = sent \o Head(buffer).data
    /\ buffer' = Tail(buffer)
    /\ UNCHANGED <<storeVars, pc, todo, file, fileOffset, bufferLen, changes,
                   reading, total, outcome>>

\* "expected more chunks" when the window is empty.
FetchWindow ==
    /\ outcome = "open"
    /\ total # Len(sent)
    /\ buffer = <<>>
    /\ \E chunks \in FileChunks(Checksum[reading], Len(sent), Len(sent) + WindowLen) :
       \/ /\ chunks = <<>>
          /\ outcome' = "failed"
          /\ UNCHANGED <<sent, buffer>>
       \/ /\ chunks # <<>>
          /\ sent' = sent \o Head(chunks).data
          /\ buffer' = Tail(chunks)
          /\ UNCHANGED outcome
    /\ UNCHANGED <<storeVars, pc, todo, file, fileOffset, bufferLen, changes,
                   reading, total>>

-----------------------------------------------------------------------------
Upload(w) ==
    \/ \E f \in File : GetFile(w, f)
    \/ ReadPart(w)
    \/ CreateFullChunk(w)
    \/ CreateLastChunk(w)
    \/ ReadNothing(w)
    \/ FinishFile(w)
    \/ ListChanges(w)

Download ==
    \/ \E f \in File : StartDownload(f)
    \/ EndBody
    \/ SendBuffered
    \/ FetchWindow

Next ==
    \/ \E w \in Worker : Upload(w) \/ Fail(w)
    \/ Download

Spec == Init /\ [][Next]_vars
FairSpec == Spec /\ \A w \in Worker : WF_vars(Upload(w))

-----------------------------------------------------------------------------
(***************************************************************************)
(* Properties.                                                             *)
(***************************************************************************)

\* Files that share their checksum with no other one, and those that share one.
Unique == {f \in File : \A g \in File : Checksum[g] = Checksum[f] => g = f}
Alike(f) == {g \in File : Checksum[g] = Checksum[f]}

\* The reads of f fill the buffer from the front to the end of each chunk.
Intact(f) == ReadLen[f] = ChunkLen \/ Length(f) <= ReadLen[f]

\* The chunks of f that start before a position, and their rows.
ChunkStarts(f, position) ==
    {offset \in 0..Length(f) : offset < position /\ offset % ChunkLen = 0}
ChunkAt(f, offset) ==
    ChunkRow(f, offset, IF Length(f) - offset < ChunkLen
                        THEN Length(f) - offset ELSE ChunkLen)
RowsTo(f, position) == {ChunkAt(f, offset) : offset \in ChunkStarts(f, position)}

\* A file that get_file reports has all its rows, whichever of the workers
\* that upload it at once has failed, or is still at work.
FinishedIsStored ==
    \A f \in File :
        f \in Unique /\ length[Checksum[f]] # NoLength =>
            RowsTo(f, Length(f)) \subseteq rows[Checksum[f]]

\* What is stored is never changed, although a worker that looked the file up
\* too early writes all of it again.
StoredIsStable ==
    [][\A f \in File :
          f \in Unique /\ length[Checksum[f]] # NoLength =>
              /\ length'[Checksum[f]] = length[Checksum[f]]
              /\ rows'[Checksum[f]] = rows[Checksum[f]]]_vars

\* A body that ends in good order has sent the file that was asked for; if the
\* file shares its checksum with another, at least when the length is its own.
DownloadIsExact ==
    /\ outcome = "complete"
    /\ \A f \in Alike(reading) : Intact(f)
    /\ reading \in Unique \/ Len(sent) = Length(reading)
    => sent = Content[reading]

\* Only files that reach into a second bucket cannot be read.
DownloadCompletes ==
    outcome = "failed" /\ reading \in Unique => Length(reading) >= BucketLen

\* The loop over the chunks is left, except in files that fill their last
\* chunk to its end, and in empty ones.
UploadEnds ==
    \A w \in Worker :
        pc[w] = "upload" /\ Length(file[w]) % ChunkLen # 0 ~> pc[w] # "upload"
-----------------------------------------------------------------------------
(***************************************************************************)
(* The inductive invariant behind FinishedIsStored and StoredIsStable.     *)
(***************************************************************************)

StoreTypes ==
    /\ length \in [Checksums -> Nat \cup {NoLength}]
    /\ rows = [c \in Checksums |-> rows[c]]
    /\ pc \in [Worker -> {"walk", "upload", "finish", "dead"}]
    /\ file \in [Worker -> File \cup {NoFile}]
    /\ fileOffset \in [Worker -> Nat]
    /\ bufferLen \in [Worker -> 0..ChunkLen - 1]

\* What a worker has uploaded of its file.
Uploaded(w) ==
    IF pc[w] = "upload" THEN fileOffset[w] ELSE Length(file[w])

\* A worker's own rows stay, whatever others do meanwhile.
UploadKept ==
    \A w \in Worker : pc[w] \in {"upload", "finish"} =>
        /\ file[w] \in File
        /\ fileOffset[w] % ChunkLen = 0
        /\ Position(w) <= Length(file[w])
        /\ file[w] \in Unique =>
              RowsTo(file[w], Uploaded(w)) \subseteq rows[Checksum[file[w]]]

\* The partition of a file holds nothing but what belongs to the file.
OwnRows ==
    \A f \in Unique :
        /\ length[Checksum[f]] \in {NoLength, Length(f)}
        /\ rows[Checksum[f]] \subseteq RowsTo(f, Length(f))

StoreInv == StoreTypes /\ UploadKept /\ OwnRows /\ FinishedIsStored
-----------------------------------------------------------------------------
(***************************************************************************)
(* The inductive invariant behind DownloadIsExact and DownloadCompletes.   *)
(* It is about all files of a checksum, whose workers replace each other's *)
(* rows: what stays is that there is a row.                                *)
(***************************************************************************)

HasRowLike(c, r) == \E q \in rows[c] : q.bucket = r.bucket /\ q.offset = r.offset

SlotInv ==
    /\ \A c \in Checksums : \A q, r \in rows[c] :
          q.bucket = r.bucket /\ q.offset = r.offset => q = r
    /\ \A f \in File : \A q \in rows[Checksum[f]] :
          \E g \in Alike(f) : q \in RowsTo(g, Length(g))
    /\ \A w \in Worker : pc[w] \in {"upload", "finish"} =>
          \A r \in RowsTo(file[w], Uploaded(w)) : HasRowLike(Checksum[file[w]], r)
    /\ \A f \in File : length[Checksum[f]] # NoLength =>
          \E g \in Alike(f) : \A r \in RowsTo(g, Length(g)) : HasRowLike(Checksum[f], r)

\* Only what is stored is listed.
ListedInv ==
    /\ changes \in [Worker -> SUBSET File]
    /\ listed \subseteq File
    /\ \A f \in listed : IsStored(f)
    /\ \A w \in Worker : \A f \in changes[w] : IsStored(f)

\* The files of a checksum have their chunks at the same offsets.
SameStarts(f) ==
    \A g, h \in Alike(f) : ChunkStarts(g, Length(g)) = ChunkStarts(h, Length(h))

\* What is sent ends where a chunk starts or a file ends, and what is buffered
\* goes on from there.
InPlace(f, bytes, chunks) ==
    /\ \E g \in Alike(f) : Len(bytes) = Length(g) \/ Len(bytes) \in ChunkStarts(g, Length(g))
    /\ chunks # <<>> => chunks[1].offset = Len(bytes)
    /\ \A i, j \in DOMAIN chunks : j = i + 1 => chunks[j].offset = chunks[i].offset + ChunkLen

\* Each byte sent stands at its place in one of the files.
InFiles(f, bytes) ==
    \A i \in DOMAIN bytes : \E g \in Alike(f) : i \in 1..Length(g) /\ bytes[i] = Content[g][i]

BodyOf(f, bytes, chunks) ==
    /\ bytes \in Seq(Byte) /\ chunks \in Seq(Row)
    /\ \A i \in DOMAIN chunks : \E g \in Alike(f) : chunks[i] \in RowsTo(g, Length(g))
    /\ SameStarts(f) => InPlace(f, bytes, chunks)
    /\ (\A g \in Alike(f) : Intact(g)) => InFiles(f, bytes)

BodyInv ==
    /\ outcome = "none" => sent = <<>>
    /\ outcome # "none" =>
        /\ reading \in listed
        /\ BodyOf(reading, sent, buffer)
        /\ reading \in Unique => total = Length(reading)
    /\ outcome = "complete" => total = Len(sent)
    /\ DownloadCompletes

DownloadInv == StoreInv /\ SlotInv /\ ListedInv /\ BodyInv

=============================================================================
