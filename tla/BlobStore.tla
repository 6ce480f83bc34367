----------------------------- MODULE BlobStore -----------------------------
(***************************************************************************)
(* The files of a PostgreSQL installation: store_file and store_blob       *)
(* (fairing-core/src/services/storage.rs), the blobs on disk               *)
(* (fairing/src/backends/file_storage/local.rs), the rows of files, chunks *)
(* and blobs (fairing/src/backends/file_metadata/postgres.rs), and the     *)
(* loop of a response that loads them (fairing/src/server/web.rs).         *)
(*                                                                         *)
(* A file is known by its checksum.  Where it is cut into chunks depends   *)
(* on how its stream has come, so that two uploads of one file need not    *)
(* have the same chunks.  A query and a call of the file system are one    *)
(* step each.                                                              *)
(***************************************************************************)
EXTENDS Naturals, Sequences, Functions

CONSTANTS
    Upload,   \* calls of store_file, each with a random id for its file
    File,     \* files, by checksum
    Blob,     \* chunks, by checksum
    FileOf,   \* the file of an upload
    Cut,      \* the chunks its stream is cut into
    None

ASSUME UploadAssumption ==
    /\ FileOf \in [Upload -> File]
    /\ Cut \in [Upload -> Seq(Blob)]
    /\ Upload \cap File = {}
ASSUME NoneAssumption == None \notin File

VARIABLES
    disk,     \* what stands under the name of a blob
    overlooked, \* blobs an upload has passed over though they were not there
    blobs,    \* rows of blobs
    files,    \* rows of files: an upload's id until it is finalized
    chunks,   \* rows of file_chunks
    pc,       \* where an upload stands
    next,     \* the chunk it is at
    reading,  \* the file a response is about
    rest,     \* chunks it has still to load
    body,     \* blobs it has loaded
    outcome   \* of the response

rowVars == <<blobs, files, chunks>>
uploadVars == <<pc, next>>
readVars == <<reading, rest, body, outcome>>
vars == <<disk, overlooked, rowVars, uploadVars, readVars>>

Chunk == [file : Upload \cup File, at : Nat, blob : Blob]

TypeOK ==
    /\ disk \in [Blob -> {"none", "part", "whole"}]
    /\ overlooked \subseteq Blob
    /\ blobs \subseteq Blob
    /\ files \subseteq Upload \cup File
    /\ chunks \subseteq Chunk
    /\ pc \in [Upload -> {"create", "check", "write", "rename", "blobs", "chunks",
                          "finalize", "done", "failed"}]
    /\ next \in [Upload -> Nat]
    /\ reading \in File \cup {None}
    /\ rest \subseteq Chunk
    /\ body \in Seq(Blob)
    /\ outcome \in {"none", "open", "served", "missing", "error"}

Init ==
    /\ disk = [b \in Blob |-> "none"]
    /\ overlooked = {}
    /\ blobs = {}
    /\ files = {}
    /\ chunks = {}
    /\ pc = [u \in Upload |-> "create"]
    /\ next = [u \in Upload |-> 1]
    /\ reading = None
    /\ rest = {}
    /\ body = <<>>
    /\ outcome = "none"

At(u) == Cut[u][next[u]]
Goes(u, from, to) == pc[u] = from /\ pc' = [pc EXCEPT ![u] = to]
-----------------------------------------------------------------------------
(***************************************************************************)
(* store_file.                                                             *)
(***************************************************************************)

CreateFile(u) ==
    /\ Goes(u, "create", "check")
    /\ files' = files \cup {u}
    /\ UNCHANGED <<disk, overlooked, blobs, chunks, next, readVars>>

\* store_blob of the next chunk looks for its name.  Only a name that is said
\* not to exist is written: one that is taken is taken for the blob, and so is
\* one that could not be looked at, because the call fails in another way.
CheckBlob(u) ==
    /\ next[u] <= Len(Cut[u])
    /\ \/ /\ disk[At(u)] = "none"
          /\ Goes(u, "check", "write")
          /\ UNCHANGED <<overlooked, next>>
       \/ /\ Goes(u, "check", "check")
          /\ next' = [next EXCEPT ![u] = @ + 1]
          /\ overlooked' = overlooked \cup {b \in {At(u)} : disk[b] = "none"}
    /\ UNCHANGED <<disk, rowVars, readVars>>

\* Mutant: the blob is written under its own name.
WriteInPlace(u) ==
    /\ Goes(u, "write", "rename")
    /\ disk' = [disk EXCEPT ![At(u)] = "part"]
    /\ UNCHANGED <<overlooked, rowVars, next, readVars>>

\* The blob is written under a random name that nobody else looks at.
WriteBlob(u) ==
    /\ Goes(u, "write", "rename")
    /\ UNCHANGED <<disk, overlooked, rowVars, next, readVars>>

RenameBlob(u) ==
    /\ Goes(u, "rename", "check")
    /\ disk' = [disk EXCEPT ![At(u)] = "whole"]
    /\ next' = [next EXCEPT ![u] = @ + 1]
    /\ UNCHANGED <<overlooked, rowVars, readVars>>

\* The stream has ended, and has the length the file was said to have.
EndStream(u) ==
    /\ next[u] > Len(Cut[u])
    /\ Goes(u, "check", "blobs")
    /\ next' = [next EXCEPT ![u] = 1]
    /\ UNCHANGED <<disk, overlooked, rowVars, readVars>>

\* One insert for each blob; one that has a row is left as it is.
CreateBlob(u) ==
    \/ /\ next[u] <= Len(Cut[u])
       /\ Goes(u, "blobs", "blobs")
       /\ blobs' = blobs \cup {At(u)}
       /\ next' = [next EXCEPT ![u] = @ + 1]
       /\ UNCHANGED <<disk, overlooked, files, chunks, readVars>>
    \/ /\ next[u] > Len(Cut[u])
       /\ Goes(u, "blobs", "chunks")
       /\ next' = [next EXCEPT ![u] = 1]
       /\ UNCHANGED <<disk, overlooked, rowVars, readVars>>

\* One insert for each chunk, which refers to its blob and its file.
CreateFileChunk(u) ==
    \/ /\ next[u] <= Len(Cut[u])
       /\ Goes(u, "chunks", "chunks")
       /\ At(u) \in blobs /\ u \in files
       /\ chunks' = chunks \cup {[file |-> u, at |-> next[u], blob |-> At(u)]}
       /\ next' = [next EXCEPT ![u] = @ + 1]
       /\ UNCHANGED <<disk, overlooked, blobs, files, readVars>>
    \/ /\ next[u] > Len(Cut[u])
       /\ Goes(u, "chunks", "finalize")
       /\ UNCHANGED <<disk, overlooked, rowVars, next, readVars>>

ChunksOf(id) == {c \in chunks : c.file = id}

\* The chunks of an upload, under the checksum of its file.
Moved(u) == {[c EXCEPT !.file = FileOf[u]] : c \in ChunksOf(u)}

Others(u) == {c \in chunks : c.file # u}

\* Mutant: the chunks are moved also to a file that is there already.
FinalizeMixed(u) ==
    /\ Goes(u, "finalize", "done")
    /\ files' = (files \ {u}) \cup {FileOf[u]}
    /\ chunks' = Others(u) \cup Moved(u)
    /\ UNCHANGED <<disk, overlooked, blobs, next, readVars>>

\* Mutant: the row of the file is committed before the chunks are moved.
FinalizeTwice(u) ==
    /\ files' = files \cup {FileOf[u]}
    /\ \/ /\ FileOf[u] \notin files
          /\ Goes(u, "finalize", "finalize")
          /\ UNCHANGED chunks
       \/ /\ FileOf[u] \in files
          /\ Goes(u, "finalize", "done")
          /\ chunks' = Others(u) \cup Moved(u)
    /\ UNCHANGED <<disk, overlooked, blobs, next, readVars>>

\* A transaction.  The insert waits for a transaction that has inserted the
\* same file.  If it inserts, the chunks are moved to it; the row of the
\* upload is deleted, and with it the chunks that still refer to it.
FinalizeFile(u) ==
    /\ Goes(u, "finalize", "done")
    /\ files' = (files \ {u}) \cup {FileOf[u]}
    /\ chunks' = IF FileOf[u] \in files THEN Others(u) ELSE Others(u) \cup Moved(u)
    /\ UNCHANGED <<disk, overlooked, blobs, next, readVars>>

\* The stream, a query or a call other than the look of CheckBlob fails, a
\* check of the length does not hold, or the process ends; or the answer to
\* the last commit is lost.  Rows and temporary files of the upload stay.
Fail(u) ==
    /\ pc[u] # "failed"
    /\ pc' = [pc EXCEPT ![u] = "failed"]
    /\ UNCHANGED <<disk, overlooked, rowVars, next, readVars>>
-----------------------------------------------------------------------------
(***************************************************************************)
(* A response.                                                             *)
(***************************************************************************)

\* get_file_chunks of a file that has a row, without ORDER BY.
GetFileChunks(f) ==
    /\ reading = None
    /\ f \in files
    /\ reading' = f
    /\ rest' = ChunksOf(f)
    /\ outcome' = "open"
    /\ UNCHANGED <<disk, overlooked, rowVars, uploadVars, body>>

\* load_blob and decode_all of the next one.  A blob that is not there, or is
\* not written to its end, ends the response; so does a read that fails.
LoadBlob ==
    /\ outcome = "open"
    /\ \E c \in rest :
        /\ rest' = rest \ {c}
        /\ body' = Append(body, c.blob)
        /\ outcome' \in {IF disk[c.blob] = "whole" THEN "open" ELSE "missing", "error"}
    /\ UNCHANGED <<disk, overlooked, rowVars, uploadVars, reading>>

EndResponse ==
    /\ outcome = "open"
    /\ rest = {}
    /\ outcome' = "served"
    /\ UNCHANGED <<disk, overlooked, rowVars, uploadVars, reading, rest, body>>

\* The next response.
Close ==
    /\ outcome \in {"served", "missing", "error"}
    /\ outcome' = "none"
    /\ reading' = None
    /\ rest' = {}
    /\ body' = <<>>
    /\ UNCHANGED <<disk, overlooked, rowVars, uploadVars>>

StoreBlob(u) == CheckBlob(u) \/ WriteBlob(u) \/ RenameBlob(u)

StoreFile(u) ==
    \/ CreateFile(u) \/ StoreBlob(u) \/ EndStream(u) \/ CreateBlob(u)
    \/ CreateFileChunk(u) \/ FinalizeFile(u)

Next ==
    \/ \E u \in Upload : StoreFile(u) \/ Fail(u)
    \/ \E f \in File : GetFileChunks(f)
    \/ LoadBlob \/ EndResponse \/ Close

Spec == Init /\ [][Next]_vars
-----------------------------------------------------------------------------
(***************************************************************************)
(* Properties.                                                             *)
(***************************************************************************)

\* The chunks of an upload as rows of a file.
RowsOf(u, id) ==
    {[file |-> id, at |-> i, blob |-> Cut[u][i]] : i \in 1..Len(Cut[u])}

\* A file has a row, and its chunks are those of one upload of it, all of them.
HasItsChunks(f) ==
    /\ f \in files
    /\ \E u \in Upload : FileOf[u] = f /\ ChunksOf(f) = RowsOf(u, f)

\* A blob is there to its end, or it is not there at all and some upload has
\* gone on without knowing.
Accounted(b) == disk[b] = "whole" \/ (disk[b] = "none" /\ b \in overlooked)

Stored(f) == HasItsChunks(f) /\ \A c \in ChunksOf(f) : Accounted(c.blob)

\* A file that has a row has the chunks of one upload, whichever uploads
\* failed or raced, and store_file returns only ids of such files.  No blob of
\* it is ever a part, and one is missing only where store_blob has taken a
\* look that failed for a blob that is there: no other failure is hidden.
FileIsWhole ==
    /\ \A f \in File : f \in files => Stored(f)
    /\ \A u \in Upload : pc[u] = "done" => FileOf[u] \in files

\* A response that ends well has the chunks of one upload of its file, each
\* once; one that finds a blob missing has come to a blob that an upload has
\* passed over.  The order of chunks is left to the database: only a file of
\* one chunk is sure to be served as it is.
ServedIsWhole ==
    /\ outcome = "missing" => body[Len(body)] \in overlooked
    /\ outcome = "served" =>
        \E u \in Upload :
            /\ FileOf[u] = reading
            /\ \E order \in Bijection(1..Len(body), 1..Len(Cut[u])) :
                 \A i \in 1..Len(body) : body[i] = Cut[u][order[i]]

Readable(f) == HasItsChunks(f) /\ \A c \in ChunksOf(f) : disk[c.blob] = "whole"

\* A file of which some upload has passed over a blob.
Doubtful(f) == \E u \in Upload :
    FileOf[u] = f /\ \E i \in 1..Len(Cut[u]) : Cut[u][i] \in overlooked

StoredFiles == File \cap files
ReadableFiles == {f \in File : Readable(f)}
DoubtfulFiles == {f \in File : Doubtful(f)}

Catalog == INSTANCE FileCatalog WITH
    stored <- StoredFiles, readable <- ReadableFiles, doubtful <- DoubtfulFiles

\* A file is stored in one step, and can be read from then on and for ever,
\* unless a blob of it was passed over; then another upload may repair it.
ImplementsCatalog == Catalog!Spec
-----------------------------------------------------------------------------
(***************************************************************************)
(* The inductive invariant behind FileIsWhole and ImplementsCatalog.       *)
(***************************************************************************)

\* What an upload has written when it comes to a stage.
Stage(u) ==
    /\ next[u] \in 1..Len(Cut[u]) + 1
    /\ pc[u] = "create" => next[u] = 1
    /\ pc[u] \in {"write", "rename"} => next[u] <= Len(Cut[u])
    /\ pc[u] \in {"check", "write", "rename"} =>
         \A i \in 1..next[u] - 1 : Accounted(Cut[u][i])
    /\ pc[u] \in {"blobs", "chunks", "finalize"} =>
         \A i \in 1..Len(Cut[u]) : Accounted(Cut[u][i])
    /\ pc[u] \in {"create", "check", "write", "rename", "blobs"} => ChunksOf(u) = {}
    /\ pc[u] = "chunks" =>
         ChunksOf(u) = {[file |-> u, at |-> i, blob |-> Cut[u][i]] : i \in 1..next[u] - 1}
    /\ pc[u] = "finalize" => ChunksOf(u) = RowsOf(u, u)

UploadInv == \A u \in Upload : Stage(u)

\* There is no half a blob, and no chunk of a file that has no row.
RowsInv ==
    /\ \A b \in Blob : disk[b] # "part"
    /\ \A c \in chunks : c.file \in files

BlobInv == TypeOK /\ UploadInv /\ RowsInv /\ FileIsWhole
-----------------------------------------------------------------------------
(***************************************************************************)
(* The inductive invariant behind ServedIsWhole.                           *)
(***************************************************************************)

\* The response has loaded chunks of the upload, each once, in some order,
\* and has the others still to load.
Loaded(u) ==
    /\ FileOf[u] = reading
    /\ \E order \in Injection(1..Len(body), 1..Len(Cut[u])) :
        /\ \A i \in 1..Len(body) : body[i] = Cut[u][order[i]]
        /\ rest = {c \in RowsOf(u, reading) : \A i \in 1..Len(body) : order[i] # c.at}

ResponseInv ==
    /\ outcome = "missing" => body # <<>> /\ body[Len(body)] \in overlooked
    /\ reading = None => body = <<>> /\ outcome = "none"
    /\ outcome \in {"open", "served"} => \E u \in Upload : Loaded(u)
    /\ \A c \in rest : Accounted(c.blob)
    /\ outcome = "served" => rest = {}
=============================================================================
