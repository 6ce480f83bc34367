------------------------- MODULE BlobStore_proofs ---------------------------
(***************************************************************************)
(* Proofs about BlobStore: for any uploads of any files, however they race *)
(* and wherever they fail, a file that has a row has the chunks of one     *)
(* upload, and lacks a blob only where store_blob took a look that failed  *)
(* for a blob; and a response that ends well has all chunks, each once.    *)
(***************************************************************************)
EXTENDS BlobStore, TLAPS

-----------------------------------------------------------------------------
(***************************************************************************)
(* What the steps of others leave as it is.                                *)
(***************************************************************************)

\* A blob that is on disk stays there, and one that was passed over stays so.
DiskGrows ==
    /\ \A b \in Blob : disk[b] = "whole" => disk'[b] = "whole"
    /\ \A b \in Blob : Accounted(b) => Accounted(b)'
    /\ overlooked \subseteq overlooked'

LEMMA DiskStays ==
    ASSUME UNCHANGED <<disk, overlooked>>
    PROVE  DiskGrows
BY DEF DiskGrows, Accounted

LEMMA CutTypes ==
    ASSUME NEW u \in Upload
    PROVE  /\ Len(Cut[u]) \in Nat
           /\ \A i \in 1..Len(Cut[u]) : Cut[u][i] \in Blob
           /\ FileOf[u] \in File /\ FileOf[u] # u
BY UploadAssumption

\* The chunk an upload is at.
LEMMA AtBlob ==
    ASSUME NEW u \in Upload, next[u] \in 1..Len(Cut[u]) + 1, next[u] <= Len(Cut[u])
    PROVE  At(u) \in Blob /\ At(u) = Cut[u][next[u]] /\ next[u] \in 1..Len(Cut[u])
BY CutTypes DEF At

LEMMA StageStays ==
    ASSUME NEW u \in Upload, Stage(u), DiskGrows,
           pc'[u] = pc[u], next'[u] = next[u], ChunksOf(u)' = ChunksOf(u)
    PROVE  Stage(u)'
<1>1. /\ next[u] \in 1..Len(Cut[u]) + 1
      /\ pc[u] = "create" => next[u] = 1
      /\ pc[u] \in {"write", "rename"} => next[u] <= Len(Cut[u])
  BY DEF Stage
<1>2. \A i \in 1..next[u] - 1 : Cut[u][i] \in Blob
  BY <1>1, CutTypes
<1>3. pc[u] \in {"check", "write", "rename"} => \A i \in 1..next[u] - 1 : Accounted(Cut[u][i])'
  BY <1>2 DEF Stage, DiskGrows
<1>4. pc[u] \in {"blobs", "chunks", "finalize"} => \A i \in 1..Len(Cut[u]) : Accounted(Cut[u][i])'
  BY CutTypes DEF Stage, DiskGrows
<1>5. QED BY <1>1, <1>3, <1>4 DEF Stage, RowsOf

\* A step of one upload leaves the others where they are.
LEMMA OneUpload ==
    ASSUME UploadInv, DiskGrows, NEW u \in Upload, Stage(u)',
           \A v \in Upload : v # u => pc'[v] = pc[v] /\ next'[v] = next[v] /\ ChunksOf(v)' = ChunksOf(v)
    PROVE  UploadInv'
<1>1. \A v \in Upload : v # u => Stage(v)'
  BY StageStays DEF UploadInv
<1>2. QED BY <1>1 DEF UploadInv

LEMMA HasItsChunksStays ==
    ASSUME NEW f \in File, HasItsChunks(f), f \in files', ChunksOf(f)' = ChunksOf(f)
    PROVE  HasItsChunks(f)'
<1>1. PICK u \in Upload : FileOf[u] = f /\ ChunksOf(f) = RowsOf(u, f)
  BY DEF HasItsChunks
<1>2. ChunksOf(f)' = RowsOf(u, f)
  BY <1>1
<1>3. QED BY <1>1, <1>2 DEF HasItsChunks, RowsOf

LEMMA ChunkBlobs ==
    ASSUME BlobInv, NEW f
    PROVE  \A c \in ChunksOf(f) : c.blob \in Blob
BY DEF BlobInv, TypeOK, Chunk, ChunksOf

LEMMA StoredStays ==
    ASSUME BlobInv, NEW f \in File, Stored(f), f \in files', DiskGrows, ChunksOf(f)' = ChunksOf(f)
    PROVE  Stored(f)'
<1>1. HasItsChunks(f)'
  BY HasItsChunksStays DEF Stored
<1>2. \A c \in ChunksOf(f) : Accounted(c.blob)'
  BY ChunkBlobs DEF Stored, DiskGrows
<1>3. QED BY <1>1, <1>2 DEF Stored

-----------------------------------------------------------------------------
(***************************************************************************)
(* The steps of an upload.                                                 *)
(***************************************************************************)

LEMMA InitBlob == Init => BlobInv
<1> SUFFICES ASSUME Init PROVE BlobInv
  OBVIOUS
<1>1. TypeOK
  BY DEF Init, TypeOK
<1>2. UploadInv
  <2> SUFFICES ASSUME NEW u \in Upload PROVE Stage(u)
    BY DEF UploadInv
  <2>1. 1 \in 1..Len(Cut[u]) + 1
    BY CutTypes
  <2>2. QED BY <2>1 DEF Init, Stage, ChunksOf
<1>3. RowsInv /\ FileIsWhole
  BY DEF Init, RowsInv, FileIsWhole
<1>4. QED BY <1>1, <1>2, <1>3 DEF BlobInv

\* Steps that leave disk and rows alone.
LEMMA LookBlob ==
    ASSUME BlobInv, UNCHANGED <<disk, rowVars, readVars>>, NEW u \in Upload,
           DiskGrows, overlooked' \subseteq Blob,
           NEW x \in {"check", "write", "rename", "blobs", "chunks", "finalize", "failed"},
           NEW n \in Nat,
           pc' = [pc EXCEPT ![u] = x], next' = [next EXCEPT ![u] = n], Stage(u)'
    PROVE  BlobInv'
<1>1. TypeOK'
  BY DEF BlobInv, TypeOK, rowVars, readVars
<1>2. /\ \A v \in Upload : v # u => pc'[v] = pc[v] /\ next'[v] = next[v]
      /\ pc'[u] = x
  BY DEF BlobInv, TypeOK
<1>rows. \A id : ChunksOf(id)' = ChunksOf(id)
  BY DEF ChunksOf, rowVars
<1>3. DiskGrows
  OBVIOUS
<1>4. UploadInv'
  <2>1. ASSUME NEW v \in Upload, v # u PROVE Stage(v)'
    <3>1. Stage(v)
      BY DEF BlobInv, UploadInv
    <3>2. QED BY <1>2, <1>rows, <1>3, <2>1, <3>1, StageStays
  <2>2. QED BY <2>1 DEF UploadInv
<1>5. RowsInv'
  BY DEF BlobInv, RowsInv, rowVars
<1>6. FileIsWhole'
  <2>1. ASSUME NEW f \in File, f \in files' PROVE Stored(f)'
    <3>1. f \in files /\ Stored(f)
      BY <2>1 DEF rowVars, BlobInv, FileIsWhole
    <3>2. QED BY <1>rows, <1>3, <2>1, <3>1, StoredStays
  <2>2. \A v \in Upload : pc'[v] = "done" => FileOf[v] \in files'
    <3>1. pc'[u] # "done"
      BY <1>2
    <3>2. QED BY <1>2, <3>1 DEF BlobInv, FileIsWhole, rowVars
  <2>3. QED BY <2>1, <2>2 DEF FileIsWhole
<1>7. QED BY <1>1, <1>4, <1>5, <1>6 DEF BlobInv

LEMMA QuietBlob ==
    ASSUME BlobInv, UNCHANGED <<disk, overlooked, rowVars, readVars>>, NEW u \in Upload,
           NEW x \in {"check", "write", "rename", "blobs", "chunks", "finalize", "failed"},
           NEW n \in Nat,
           pc' = [pc EXCEPT ![u] = x], next' = [next EXCEPT ![u] = n], Stage(u)'
    PROVE  BlobInv'
<1>1. DiskGrows /\ UNCHANGED <<disk, rowVars, readVars>>
  BY DiskStays
<1>2. overlooked' \subseteq Blob
  BY DEF BlobInv, TypeOK
<1>3. QED BY <1>1, <1>2, LookBlob

LEMMA CreateFileBlob ==
    ASSUME BlobInv, NEW u \in Upload, CreateFile(u)
    PROVE  BlobInv'
<1>1. /\ pc[u] = "create" /\ pc' = [pc EXCEPT ![u] = "check"] /\ files' = files \cup {u}
      /\ UNCHANGED <<disk, overlooked, blobs, chunks, next, readVars>>
  BY DEF CreateFile, Goes
<1>2. TypeOK'
  BY <1>1 DEF BlobInv, TypeOK, readVars
<1>3. DiskGrows
  BY <1>1, DiskStays
<1>4. \A v \in Upload : ChunksOf(v)' = ChunksOf(v) /\ (v # u => pc'[v] = pc[v])
  BY <1>1 DEF BlobInv, TypeOK, ChunksOf
<1>5. Stage(u)'
  <2>1. Stage(u) /\ pc'[u] = "check" /\ next'[u] = next[u] /\ ChunksOf(u)' = ChunksOf(u)
    BY <1>1, <1>4 DEF BlobInv, UploadInv, TypeOK
  <2>2. next[u] = 1
    BY <1>1, <2>1 DEF Stage
  <2>3. QED BY <1>1, <2>1, <2>2 DEF Stage
<1>6. UploadInv'
  BY <1>1, <1>3, <1>4, <1>5, OneUpload DEF BlobInv
<1>7. RowsInv'
  BY <1>1 DEF BlobInv, RowsInv
<1>8. FileIsWhole'
  <2>1. \A f \in File : f \in files' => f \in files
    BY <1>1, UploadAssumption
  <2>2. ASSUME NEW f \in File, f \in files' PROVE Stored(f)'
    <3>1. Stored(f) /\ ChunksOf(f)' = ChunksOf(f)
      BY <1>1, <2>1, <2>2 DEF BlobInv, FileIsWhole, ChunksOf
    <3>2. QED BY <1>3, <2>2, <3>1, StoredStays
  <2>3. \A v \in Upload : pc'[v] = "done" => FileOf[v] \in files'
    BY <1>1 DEF BlobInv, TypeOK, FileIsWhole
  <2>4. QED BY <2>2, <2>3 DEF FileIsWhole
<1>9. QED BY <1>2, <1>6, <1>7, <1>8 DEF BlobInv

LEMMA CheckBlobInv ==
    ASSUME BlobInv, NEW u \in Upload, CheckBlob(u)
    PROVE  BlobInv'
<1>1. pc[u] = "check" /\ next[u] <= Len(Cut[u]) /\ UNCHANGED <<disk, rowVars, readVars>>
  BY DEF CheckBlob, Goes
<1>2. Stage(u) /\ next[u] \in Nat /\ ChunksOf(u)' = ChunksOf(u)
  BY <1>1 DEF BlobInv, UploadInv, TypeOK, ChunksOf, rowVars
<1>3. At(u) \in Blob /\ At(u) = Cut[u][next[u]] /\ next[u] \in 1..Len(Cut[u])
  BY <1>1, <1>2, AtBlob DEF Stage
<1>4. CASE pc' = [pc EXCEPT ![u] = "write"] /\ UNCHANGED <<overlooked, next>>
  <2>1. next' = [next EXCEPT ![u] = next[u]]
    BY <1>4 DEF BlobInv, TypeOK
  <2>2. pc'[u] = "write" /\ next'[u] = next[u]
    BY <1>4 DEF BlobInv, TypeOK
  <2>3. \A i \in 1..next[u] - 1 : Accounted(Cut[u][i])'
    BY <1>1, <1>2, <1>4 DEF Stage, Accounted
  <2>4. Stage(u)'
    BY <1>1, <1>2, <2>2, <2>3 DEF Stage
  <2>5. QED BY <1>1, <1>2, <1>4, <2>1, <2>4, QuietBlob
<1>5. CASE /\ pc' = [pc EXCEPT ![u] = "check"]
           /\ next' = [next EXCEPT ![u] = next[u] + 1]
           /\ overlooked' = overlooked \cup {b \in {At(u)} : disk[b] = "none"}
  <2>1. pc'[u] = "check" /\ next'[u] = next[u] + 1
    BY <1>5 DEF BlobInv, TypeOK
  <2>2. overlooked \subseteq overlooked' /\ overlooked' \subseteq Blob
    BY <1>3, <1>5 DEF BlobInv, TypeOK
  <2>3. DiskGrows
    BY <1>1, <2>2 DEF DiskGrows, Accounted
  <2>4. PICK b \in Blob : b = At(u) /\ Accounted(b)'
    <3>1. PICK b \in Blob : b = At(u)
      BY <1>3
    <3>2. disk'[b] = "whole" \/ (disk'[b] = "none" /\ b \in overlooked')
      BY <1>1, <1>5, <3>1 DEF BlobInv, TypeOK, RowsInv
    <3>3. QED BY <3>1, <3>2 DEF Accounted
  <2>5. \A i \in 1..next[u] : Accounted(Cut[u][i])'
    <3> SUFFICES ASSUME NEW i \in 1..next[u] PROVE Accounted(Cut[u][i])'
      OBVIOUS
    <3>1. i = next[u] \/ (i \in 1..next[u] - 1 /\ i \in 1..Len(Cut[u]))
      BY <1>2, <1>3, CutTypes
    <3>2. CASE i = next[u]
      <4>1. Cut[u][i] = b
        BY <1>3, <2>4, <3>2
      <4>2. QED BY <2>4, <4>1 DEF Accounted
    <3>3. CASE i \in 1..next[u] - 1 /\ i \in 1..Len(Cut[u])
      <4>1. Accounted(Cut[u][i]) /\ Cut[u][i] \in Blob
        BY <1>1, <1>2, <3>3, CutTypes DEF Stage
      <4>2. QED BY <2>3, <4>1 DEF DiskGrows
    <3>4. QED BY <3>1, <3>2, <3>3
  <2>6. (next[u] + 1) - 1 = next[u] /\ next[u] + 1 \in 1..Len(Cut[u]) + 1
    BY <1>2, <1>3, CutTypes
  <2>7. \A i \in 1..next'[u] - 1 : Accounted(Cut[u][i])'
    BY <2>1, <2>5, <2>6
  <2>8. Stage(u)'
    BY <1>1, <1>2, <2>1, <2>6, <2>7 DEF Stage
  <2>9. next[u] + 1 \in Nat
    BY <1>2
  <2>10. QED BY <1>1, <1>5, <2>2, <2>3, <2>8, <2>9, LookBlob
<1>6. QED BY <1>4, <1>5 DEF CheckBlob, Goes

LEMMA WriteBlobInv ==
    ASSUME BlobInv, NEW u \in Upload, WriteBlob(u)
    PROVE  BlobInv'
<1>1. pc[u] = "write" /\ UNCHANGED <<disk, overlooked, rowVars, readVars>>
  BY DEF WriteBlob, Goes
<1>2. Stage(u) /\ next[u] \in Nat /\ ChunksOf(u)' = ChunksOf(u)
  BY <1>1 DEF BlobInv, UploadInv, TypeOK, ChunksOf, rowVars
<1>3. pc' = [pc EXCEPT ![u] = "rename"] /\ next' = [next EXCEPT ![u] = next[u]]
  BY DEF WriteBlob, Goes, BlobInv, TypeOK
<1>4. pc'[u] = "rename" /\ next'[u] = next[u]
  BY <1>3 DEF BlobInv, TypeOK
<1>5. Stage(u)'
  BY <1>1, <1>2, <1>4 DEF Stage, Accounted
<1>6. QED BY <1>1, <1>2, <1>3, <1>5, QuietBlob

LEMMA EndStreamInv ==
    ASSUME BlobInv, NEW u \in Upload, EndStream(u)
    PROVE  BlobInv'
<1>1. pc[u] = "check" /\ next[u] > Len(Cut[u]) /\ UNCHANGED <<disk, overlooked, rowVars, readVars>>
  BY DEF EndStream, Goes
<1>2. Stage(u) /\ next[u] \in Nat /\ ChunksOf(u)' = ChunksOf(u)
  BY <1>1 DEF BlobInv, UploadInv, TypeOK, ChunksOf, rowVars
<1>3. pc' = [pc EXCEPT ![u] = "blobs"] /\ next' = [next EXCEPT ![u] = 1]
  BY DEF EndStream, Goes
<1>4. pc'[u] = "blobs" /\ next'[u] = 1 /\ 1 \in 1..Len(Cut[u]) + 1
  BY <1>3, CutTypes DEF BlobInv, TypeOK
<1>5. next[u] - 1 = Len(Cut[u])
  BY <1>1, <1>2, CutTypes DEF Stage
<1>6. \A i \in 1..Len(Cut[u]) : Accounted(Cut[u][i])
  BY <1>1, <1>2, <1>5 DEF Stage
<1>7. Stage(u)'
  BY <1>1, <1>2, <1>4, <1>6 DEF Stage, Accounted
<1>8. QED BY <1>1, <1>3, <1>7, QuietBlob

LEMMA RenameBlobInv ==
    ASSUME BlobInv, NEW u \in Upload, RenameBlob(u)
    PROVE  BlobInv'
<1>1. /\ pc[u] = "rename" /\ pc' = [pc EXCEPT ![u] = "check"]
      /\ disk' = [disk EXCEPT ![At(u)] = "whole"]
      /\ next' = [next EXCEPT ![u] = next[u] + 1]
      /\ UNCHANGED <<overlooked, rowVars, readVars>>
  BY DEF RenameBlob, Goes
<1>2. Stage(u) /\ next[u] \in Nat
  BY DEF BlobInv, UploadInv, TypeOK
<1>3. At(u) \in Blob /\ At(u) = Cut[u][next[u]] /\ next[u] \in 1..Len(Cut[u])
  BY <1>1, <1>2, AtBlob DEF Stage
<1>4. PICK b \in Blob : b = At(u)
  BY <1>3
<1>5. disk'[b] = "whole" /\ \A c \in Blob : c # b => disk'[c] = disk[c]
  BY <1>1, <1>4 DEF BlobInv, TypeOK
<1>6. DiskGrows
  BY <1>1, <1>5 DEF DiskGrows, Accounted
<1>7. TypeOK'
  <2>1. disk' = [disk EXCEPT ![b] = "whole"]
    BY <1>1, <1>4
  <2>2. next[u] + 1 \in Nat
    BY <1>2
  <2>3. QED BY <1>1, <2>1, <2>2 DEF BlobInv, TypeOK, rowVars, readVars
<1>8. \A id : ChunksOf(id)' = ChunksOf(id)
  BY <1>1 DEF ChunksOf, rowVars
<1>9. /\ pc'[u] = "check" /\ next'[u] = next[u] + 1
      /\ \A v \in Upload : v # u => pc'[v] = pc[v] /\ next'[v] = next[v]
  BY <1>1 DEF BlobInv, TypeOK
<1>10. Stage(u)'
  <2>1. \A i \in 1..next[u] : Accounted(Cut[u][i])'
    <3> SUFFICES ASSUME NEW i \in 1..next[u] PROVE Accounted(Cut[u][i])'
      OBVIOUS
    <3>1. i = next[u] \/ i \in 1..next[u] - 1
      BY <1>2
    <3>2. CASE i = next[u]
      BY <1>3, <1>4, <1>5, <3>2 DEF Accounted
    <3>3. CASE i \in 1..next[u] - 1
      <4>1. i \in 1..Len(Cut[u]) /\ Accounted(Cut[u][i])
        BY <1>1, <1>2, <1>3, <3>3, CutTypes DEF Stage
      <4>2. QED BY <1>6, <4>1, CutTypes DEF DiskGrows
    <3>4. QED BY <3>1, <3>2, <3>3
  <2>2. (next[u] + 1) - 1 = next[u] /\ next[u] + 1 \in 1..Len(Cut[u]) + 1
    BY <1>2, <1>3, CutTypes
  <2>3. \A i \in 1..next'[u] - 1 : Accounted(Cut[u][i])'
    BY <1>9, <2>1, <2>2
  <2>4. ChunksOf(u)' = {}
    BY <1>1, <1>2, <1>8 DEF Stage
  <2>5. QED BY <1>9, <2>2, <2>3, <2>4 DEF Stage
<1>11. UploadInv'
  BY <1>6, <1>8, <1>9, <1>10, OneUpload DEF BlobInv
<1>12. RowsInv'
  BY <1>1, <1>4, <1>5 DEF BlobInv, RowsInv, rowVars
<1>13. FileIsWhole'
  <2>1. ASSUME NEW f \in File, f \in files' PROVE Stored(f)'
    <3>1. Stored(f)
      BY <1>1, <2>1 DEF rowVars, BlobInv, FileIsWhole
    <3>2. QED BY <1>6, <1>8, <2>1, <3>1, StoredStays
  <2>2. \A v \in Upload : pc'[v] = "done" => FileOf[v] \in files'
    BY <1>1, <1>9 DEF BlobInv, FileIsWhole, rowVars
  <2>3. QED BY <2>1, <2>2 DEF FileIsWhole
<1>14. QED BY <1>7, <1>11, <1>12, <1>13 DEF BlobInv

LEMMA FailInv ==
    ASSUME BlobInv, NEW u \in Upload, Fail(u)
    PROVE  BlobInv'
<1>1. pc' = [pc EXCEPT ![u] = "failed"] /\ UNCHANGED <<disk, overlooked, rowVars, readVars>>
  BY DEF Fail
<1>2. next' = [next EXCEPT ![u] = next[u]] /\ next[u] \in Nat
  BY DEF Fail, BlobInv, TypeOK
<1>3. Stage(u)'
  <2>1. Stage(u) /\ pc'[u] = "failed" /\ next'[u] = next[u]
    BY <1>1, <1>2 DEF BlobInv, UploadInv, TypeOK
  <2>2. QED BY <2>1 DEF Stage
<1>4. QED BY <1>1, <1>2, <1>3, QuietBlob

LEMMA CreateBlobInv ==
    ASSUME BlobInv, NEW u \in Upload, CreateBlob(u)
    PROVE  BlobInv'
<1>1. pc[u] = "blobs" /\ UNCHANGED <<disk, overlooked, readVars>>
  BY DEF CreateBlob, Goes
<1>2. Stage(u) /\ next[u] \in Nat
  BY DEF BlobInv, UploadInv, TypeOK
<1>3. CASE next[u] <= Len(Cut[u])
  <2>1. /\ pc' = [pc EXCEPT ![u] = "blobs"] /\ blobs' = blobs \cup {At(u)}
        /\ next' = [next EXCEPT ![u] = next[u] + 1]
        /\ UNCHANGED <<disk, overlooked, files, chunks, readVars>>
    BY <1>2, <1>3, CutTypes DEF CreateBlob, Goes
  <2>2. At(u) \in Blob /\ next[u] \in 1..Len(Cut[u])
    BY <1>2, <1>3, AtBlob DEF Stage
  <2>3. next[u] + 1 \in Nat /\ next[u] + 1 \in 1..Len(Cut[u]) + 1
    BY <2>2, CutTypes
  <2>4. TypeOK'
    BY <2>1, <2>2, <2>3 DEF BlobInv, TypeOK, readVars
  <2>5. /\ pc'[u] = "blobs" /\ next'[u] = next[u] + 1
        /\ \A v \in Upload : v # u => pc'[v] = pc[v] /\ next'[v] = next[v]
        /\ \A id : ChunksOf(id)' = ChunksOf(id)
    BY <2>1 DEF BlobInv, TypeOK, ChunksOf
  <2>6. Stage(u)'
    BY <1>1, <1>2, <2>1, <2>3, <2>5 DEF Stage, Accounted
  <2>7. DiskGrows
    BY <2>1, DiskStays
  <2>8. UploadInv'
    BY <2>5, <2>6, <2>7, OneUpload DEF BlobInv
  <2>9. RowsInv'
    BY <2>1 DEF BlobInv, RowsInv
  <2>10. FileIsWhole'
    <3>1. ASSUME NEW f \in File, f \in files' PROVE Stored(f)'
      <4>1. Stored(f)
        BY <2>1, <3>1 DEF BlobInv, FileIsWhole
      <4>2. QED BY <2>5, <2>7, <3>1, <4>1, StoredStays
    <3>2. \A v \in Upload : pc'[v] = "done" => FileOf[v] \in files'
      BY <1>1, <2>1, <2>5 DEF BlobInv, FileIsWhole
    <3>3. QED BY <3>1, <3>2 DEF FileIsWhole
  <2>11. QED BY <2>4, <2>8, <2>9, <2>10 DEF BlobInv
<1>4. CASE ~(next[u] <= Len(Cut[u]))
  <2>1. /\ pc' = [pc EXCEPT ![u] = "chunks"] /\ next' = [next EXCEPT ![u] = 1]
        /\ UNCHANGED <<disk, overlooked, rowVars, readVars>>
    BY <1>4 DEF CreateBlob, Goes
  <2>2. pc'[u] = "chunks" /\ next'[u] = 1 /\ 1 \in 1..Len(Cut[u]) + 1 /\ ChunksOf(u)' = ChunksOf(u)
    BY <2>1, CutTypes DEF BlobInv, TypeOK, ChunksOf, rowVars
  <2>3. ChunksOf(u)' = {[file |-> u, at |-> i, blob |-> Cut[u][i]] : i \in 1..next'[u] - 1}
    <3>1. 1..next'[u] - 1 = {}
      BY <2>2
    <3>2. ChunksOf(u) = {}
      BY <1>1, <1>2 DEF Stage
    <3>3. QED BY <2>2, <3>1, <3>2
  <2>4. Stage(u)'
    BY <1>1, <1>2, <2>1, <2>2, <2>3 DEF Stage, Accounted
  <2>5. QED BY <2>1, <2>4, QuietBlob
<1>5. QED BY <1>3, <1>4

LEMMA CreateFileChunkInv ==
    ASSUME BlobInv, NEW u \in Upload, CreateFileChunk(u)
    PROVE  BlobInv'
<1>1. pc[u] = "chunks" /\ UNCHANGED <<disk, overlooked, readVars>>
  BY DEF CreateFileChunk, Goes
<1>2. Stage(u) /\ next[u] \in Nat
  BY DEF BlobInv, UploadInv, TypeOK
<1>3. ChunksOf(u) = {[file |-> u, at |-> i, blob |-> Cut[u][i]] : i \in 1..next[u] - 1}
  BY <1>1, <1>2 DEF Stage
<1>4. CASE next[u] <= Len(Cut[u])
  <2> DEFINE new == [file |-> u, at |-> next[u], blob |-> Cut[u][next[u]]]
  <2>1. At(u) \in Blob /\ At(u) = Cut[u][next[u]] /\ next[u] \in 1..Len(Cut[u])
    BY <1>2, <1>4, AtBlob DEF Stage
  <2>2. PICK c \in Chunk : c = new
    BY <1>2, <2>1 DEF Chunk
  <2>3. c.file = u
    BY <2>2
  <2>4. /\ pc' = [pc EXCEPT ![u] = "chunks"] /\ chunks' = chunks \cup {c}
        /\ next' = [next EXCEPT ![u] = next[u] + 1]
        /\ u \in files /\ UNCHANGED <<disk, overlooked, blobs, files, readVars>>
    BY <1>2, <1>4, <2>1, <2>2, CutTypes DEF CreateFileChunk, Goes
  <2> HIDE DEF new
  <2>5. next[u] + 1 \in Nat /\ next[u] + 1 \in 1..Len(Cut[u]) + 1 /\ (next[u] + 1) - 1 = next[u]
    BY <1>2, <2>1, CutTypes
  <2>6. TypeOK'
    BY <2>2, <2>4, <2>5 DEF BlobInv, TypeOK, readVars
  <2>7. /\ pc'[u] = "chunks" /\ next'[u] = next[u] + 1
        /\ \A v \in Upload : v # u => pc'[v] = pc[v] /\ next'[v] = next[v]
    BY <2>4 DEF BlobInv, TypeOK
  <2>8. ChunksOf(u)' = ChunksOf(u) \cup {c} /\ \A id : id # u => ChunksOf(id)' = ChunksOf(id)
    BY <2>3, <2>4 DEF ChunksOf
  <2>9. ChunksOf(u)' = {[file |-> u, at |-> i, blob |-> Cut[u][i]] : i \in 1..next'[u] - 1}
    <3>1. 1..next'[u] - 1 = (1..next[u] - 1) \cup {next[u]}
      BY <1>2, <2>1, <2>5, <2>7
    <3>2. QED BY <1>3, <2>2, <2>8, <3>1 DEF new
  <2>10. Stage(u)'
    BY <1>1, <1>2, <2>4, <2>5, <2>7, <2>9 DEF Stage, Accounted
  <2>11. DiskGrows
    BY <2>4, DiskStays
  <2>12. UploadInv'
    BY <2>7, <2>8, <2>10, <2>11, OneUpload DEF BlobInv
  <2>13. RowsInv'
    BY <2>3, <2>4 DEF BlobInv, RowsInv
  <2>14. FileIsWhole'
    <3>1. ASSUME NEW f \in File, f \in files' PROVE Stored(f)'
      <4>1. Stored(f) /\ f # u
        BY <2>4, <3>1, UploadAssumption DEF BlobInv, FileIsWhole
      <4>2. QED BY <2>8, <2>11, <3>1, <4>1, StoredStays
    <3>2. \A v \in Upload : pc'[v] = "done" => FileOf[v] \in files'
      BY <2>4, <2>7 DEF BlobInv, FileIsWhole
    <3>3. QED BY <3>1, <3>2 DEF FileIsWhole
  <2>15. QED BY <2>6, <2>12, <2>13, <2>14 DEF BlobInv
<1>5. CASE ~(next[u] <= Len(Cut[u]))
  <2>1. /\ pc' = [pc EXCEPT ![u] = "finalize"] /\ next' = [next EXCEPT ![u] = next[u]]
        /\ UNCHANGED <<disk, overlooked, rowVars, readVars>>
    BY <1>5 DEF CreateFileChunk, Goes, BlobInv, TypeOK
  <2>2. pc'[u] = "finalize" /\ next'[u] = next[u] /\ ChunksOf(u)' = ChunksOf(u)
    BY <2>1 DEF BlobInv, TypeOK, ChunksOf, rowVars
  <2>3. next[u] - 1 = Len(Cut[u])
    BY <1>2, <1>5, CutTypes DEF Stage
  <2>4. ChunksOf(u)' = RowsOf(u, u)
    BY <1>3, <2>2, <2>3 DEF RowsOf
  <2>5. Stage(u)'
    BY <1>1, <1>2, <2>1, <2>2, <2>4 DEF Stage, RowsOf, Accounted
  <2>6. QED BY <1>2, <2>1, <2>5, QuietBlob
<1>6. QED BY <1>4, <1>5

LEMMA FinalizeFileInv ==
    ASSUME BlobInv, NEW u \in Upload, FinalizeFile(u)
    PROVE  BlobInv'
<1>1. /\ pc[u] = "finalize" /\ pc' = [pc EXCEPT ![u] = "done"]
      /\ files' = (files \ {u}) \cup {FileOf[u]}
      /\ chunks' = IF FileOf[u] \in files THEN Others(u) ELSE Others(u) \cup Moved(u)
      /\ UNCHANGED <<disk, overlooked, blobs, next, readVars>>
  BY DEF FinalizeFile, Goes
<1>2. Stage(u) /\ chunks \subseteq Chunk /\ (\A c \in chunks : c.file \in files)
  BY DEF BlobInv, UploadInv, TypeOK, RowsInv
<1>3. PICK f \in File : f = FileOf[u] /\ f # u /\ f \notin Upload
  BY CutTypes, UploadAssumption
<1>4. ChunksOf(u) = RowsOf(u, u) /\ \A i \in 1..Len(Cut[u]) : Accounted(Cut[u][i])
  BY <1>1, <1>2 DEF Stage
<1>5. Moved(u) = RowsOf(u, f)
  <2>1. \A i \in 1..Len(Cut[u]) :
          [[file |-> u, at |-> i, blob |-> Cut[u][i]] EXCEPT !.file = f]
            = [file |-> f, at |-> i, blob |-> Cut[u][i]]
    OBVIOUS
  <2>2. Moved(u) = {[c EXCEPT !.file = f] : c \in RowsOf(u, u)}
    BY <1>3, <1>4 DEF Moved
  <2>3. ASSUME NEW c \in Moved(u) PROVE c \in RowsOf(u, f)
    <3>1. PICK d \in RowsOf(u, u) : c = [d EXCEPT !.file = f]
      BY <2>2, <2>3
    <3>2. PICK i \in 1..Len(Cut[u]) : d = [file |-> u, at |-> i, blob |-> Cut[u][i]]
      BY <3>1 DEF RowsOf
    <3>3. c = [file |-> f, at |-> i, blob |-> Cut[u][i]]
      BY <2>1, <3>1, <3>2
    <3>4. QED BY <3>3 DEF RowsOf
  <2>4. ASSUME NEW c \in RowsOf(u, f) PROVE c \in Moved(u)
    <3>1. PICK i \in 1..Len(Cut[u]) : c = [file |-> f, at |-> i, blob |-> Cut[u][i]]
      BY DEF RowsOf
    <3>2. [file |-> u, at |-> i, blob |-> Cut[u][i]] \in RowsOf(u, u)
      BY DEF RowsOf
    <3>3. c = [[file |-> u, at |-> i, blob |-> Cut[u][i]] EXCEPT !.file = f]
      BY <2>1, <3>1
    <3>4. QED BY <2>2, <3>2, <3>3
  <2>5. QED BY <2>3, <2>4
<1>6. \A c \in RowsOf(u, f) : c.file = f /\ c \in Chunk
  BY <1>3, CutTypes DEF RowsOf, Chunk
<1>7. \A c \in Others(u) : c \in chunks /\ c.file # u
  BY DEF Others
<1>8. chunks' = IF f \in files THEN Others(u) ELSE Others(u) \cup RowsOf(u, f)
  BY <1>1, <1>3, <1>5
<1>9. \A id : id # u /\ id # f => ChunksOf(id)' = ChunksOf(id)
  BY <1>6, <1>7, <1>8 DEF ChunksOf, Others
<1>10. ChunksOf(f)' = IF f \in files THEN ChunksOf(f) ELSE RowsOf(u, f)
  <2>1. CASE f \in files
    BY <1>3, <1>8, <2>1 DEF ChunksOf, Others
  <2>2. CASE f \notin files
    <3>1. \A c \in Others(u) : c.file # f
      BY <1>2, <1>7, <2>2
    <3>2. QED BY <1>6, <1>8, <2>2, <3>1 DEF ChunksOf
  <2>3. QED BY <2>1, <2>2
<1>11. TypeOK'
  <2>1. chunks' \subseteq Chunk
    BY <1>2, <1>6, <1>7, <1>8
  <2>2. files' \subseteq Upload \cup File
    BY <1>1, <1>3 DEF BlobInv, TypeOK
  <2>3. QED BY <1>1, <2>1, <2>2 DEF BlobInv, TypeOK, readVars
<1>12. pc'[u] = "done" /\ \A v \in Upload : v # u => pc'[v] = pc[v]
  BY <1>1 DEF BlobInv, TypeOK
<1>13. DiskGrows
  BY <1>1, DiskStays
<1>14. Stage(u)'
  BY <1>1, <1>2, <1>12 DEF Stage
<1>15. UploadInv'
  BY <1>1, <1>3, <1>9, <1>12, <1>13, <1>14, OneUpload DEF BlobInv
<1>16. RowsInv'
  <2>1. \A c \in Others(u) : c.file \in files'
    BY <1>1, <1>2, <1>7
  <2>2. \A c \in chunks' : c.file \in files'
    BY <1>1, <1>3, <1>6, <1>8, <2>1
  <2>3. QED BY <1>1, <2>2 DEF BlobInv, RowsInv
<1>17. FileIsWhole'
  <2>1. ASSUME NEW g \in File, g \in files' PROVE Stored(g)'
    <3>1. g \notin Upload
      BY UploadAssumption
    <3>2. CASE g \in files
      <4>1. Stored(g)
        BY <3>2 DEF BlobInv, FileIsWhole
      <4>2. ChunksOf(g)' = ChunksOf(g)
        BY <1>9, <1>10, <3>1, <3>2
      <4>3. QED BY <1>13, <2>1, <4>1, <4>2, StoredStays
    <3>3. CASE g \notin files
      <4>1. g = f
        BY <1>1, <1>3, <2>1, <3>3
      <4>2. ChunksOf(g)' = RowsOf(u, g)
        BY <1>10, <3>3, <4>1
      <4>3. HasItsChunks(g)'
        BY <1>3, <2>1, <4>1, <4>2 DEF HasItsChunks, RowsOf
      <4>4. \A c \in RowsOf(u, g) : Accounted(c.blob)'
        BY <1>1, <1>4 DEF RowsOf, Accounted
      <4>5. QED BY <4>2, <4>3, <4>4 DEF Stored
    <3>4. QED BY <3>2, <3>3
  <2>2. \A v \in Upload : pc'[v] = "done" => FileOf[v] \in files'
    <3> SUFFICES ASSUME NEW v \in Upload, pc'[v] = "done" PROVE FileOf[v] \in files'
      OBVIOUS
    <3>1. CASE v = u
      BY <1>1, <3>1
    <3>2. CASE v # u
      <4>1. FileOf[v] \in files /\ FileOf[v] # u
        BY <1>12, <3>2, CutTypes, UploadAssumption DEF BlobInv, FileIsWhole
      <4>2. QED BY <1>1, <4>1
    <3>3. QED BY <3>1, <3>2
  <2>3. QED BY <2>1, <2>2 DEF FileIsWhole
<1>18. QED BY <1>11, <1>15, <1>16, <1>17 DEF BlobInv

-----------------------------------------------------------------------------
(***************************************************************************)
(* The steps together.                                                     *)
(***************************************************************************)

\* A response changes nothing that is stored.
LEMMA ReadBlob ==
    ASSUME BlobInv, (\E f \in File : GetFileChunks(f)) \/ LoadBlob \/ EndResponse \/ Close
    PROVE  BlobInv'
<1>1. UNCHANGED <<disk, overlooked, blobs, files, chunks, pc, next>>
  BY DEF GetFileChunks, LoadBlob, EndResponse, Close, rowVars, uploadVars
<1>2. TypeOK'
  <2>1. CASE \E f \in File : GetFileChunks(f)
    BY <1>1, <2>1 DEF GetFileChunks, ChunksOf, BlobInv, TypeOK
  <2>2. CASE LoadBlob
    <3>1. PICK c \in rest : rest' = rest \ {c} /\ body' = Append(body, c.blob)
                            /\ outcome' \in {"open", "missing", "error"} /\ reading' = reading
      BY <2>2 DEF LoadBlob
    <3>2. c.blob \in Blob
      BY <3>1 DEF BlobInv, TypeOK, Chunk
    <3>3. body' \in Seq(Blob)
      BY <3>1, <3>2 DEF BlobInv, TypeOK
    <3>4. QED BY <1>1, <3>1, <3>3 DEF BlobInv, TypeOK
  <2>3. CASE EndResponse
    BY <1>1, <2>3 DEF EndResponse, BlobInv, TypeOK
  <2>4. CASE Close
    BY <1>1, <2>4 DEF Close, BlobInv, TypeOK
  <2>5. QED BY <2>1, <2>2, <2>3, <2>4
<1>3. UploadInv'
  BY <1>1 DEF BlobInv, UploadInv, Stage, ChunksOf, RowsOf, Accounted
<1>4. RowsInv' /\ FileIsWhole'
  BY <1>1 DEF BlobInv, RowsInv, FileIsWhole, Stored, HasItsChunks, ChunksOf, RowsOf, Accounted
<1>5. QED BY <1>2, <1>3, <1>4 DEF BlobInv

LEMMA NextBlob == BlobInv /\ [Next]_vars => BlobInv'
<1> SUFFICES ASSUME BlobInv, [Next]_vars PROVE BlobInv'
  OBVIOUS
<1>1. CASE \E u \in Upload : StoreFile(u) \/ Fail(u)
  <2>1. PICK u \in Upload : StoreFile(u) \/ Fail(u)
    BY <1>1
  <2>2. QED BY <2>1, CreateFileBlob, CheckBlobInv, WriteBlobInv, RenameBlobInv, EndStreamInv,
               CreateBlobInv, CreateFileChunkInv, FinalizeFileInv, FailInv DEF StoreFile, StoreBlob
<1>2. CASE (\E f \in File : GetFileChunks(f)) \/ LoadBlob \/ EndResponse \/ Close
  BY <1>2, ReadBlob
<1>3. CASE UNCHANGED vars
  <2>1. UNCHANGED <<disk, overlooked, blobs, files, chunks, pc, next, reading, rest, body, outcome>>
    BY <1>3 DEF vars, rowVars, uploadVars, readVars
  <2>2. TypeOK' /\ RowsInv'
    BY <2>1 DEF BlobInv, TypeOK, RowsInv
  <2>3. UploadInv'
    BY <2>1 DEF BlobInv, UploadInv, Stage, ChunksOf, RowsOf, Accounted
  <2>4. FileIsWhole'
    BY <2>1 DEF BlobInv, FileIsWhole, Stored, HasItsChunks, ChunksOf, RowsOf, Accounted
  <2>5. QED BY <2>2, <2>3, <2>4 DEF BlobInv
<1>4. QED BY <1>1, <1>2, <1>3 DEF Next

\* What an upload does to disk and to what is recorded of it.
LEMMA StoreDiskGrows ==
    ASSUME BlobInv, NEW u \in Upload, StoreFile(u) \/ Fail(u)
    PROVE  DiskGrows /\ UNCHANGED readVars
<1>1. CASE RenameBlob(u)
  <2>1. /\ disk' = [disk EXCEPT ![At(u)] = "whole"]
        /\ UNCHANGED readVars /\ overlooked' = overlooked
    BY <1>1 DEF RenameBlob
  <2>2. \A b \in Blob : disk'[b] = "whole" \/ disk'[b] = disk[b]
    BY <2>1 DEF BlobInv, TypeOK
  <2>3. QED BY <2>1, <2>2 DEF DiskGrows, Accounted
<1>2. CASE CheckBlob(u)
  <2>1. disk' = disk /\ overlooked \subseteq overlooked' /\ UNCHANGED readVars
    BY <1>2 DEF CheckBlob
  <2>2. QED BY <2>1 DEF DiskGrows, Accounted
<1>3. CASE ~RenameBlob(u) /\ ~CheckBlob(u)
  <2>1. UNCHANGED <<disk, overlooked, readVars>>
    BY <1>3 DEF StoreFile, StoreBlob, CreateFile, WriteBlob, EndStream, CreateBlob,
                CreateFileChunk, FinalizeFile, Fail
  <2>2. QED BY <2>1, DiskStays
<1>4. QED BY <1>1, <1>2, <1>3

LEMMA NextDiskGrows ==
    ASSUME BlobInv, [Next]_vars
    PROVE  DiskGrows
<1>1. CASE \E u \in Upload : StoreFile(u) \/ Fail(u)
  BY <1>1, StoreDiskGrows
<1>2. CASE ~\E u \in Upload : StoreFile(u) \/ Fail(u)
  <2>1. UNCHANGED <<disk, overlooked>>
    BY <1>2 DEF Next, GetFileChunks, LoadBlob, EndResponse, Close, vars
  <2>2. QED BY <2>1, DiskStays
<1>3. QED BY <1>1, <1>2

\* A step that stores no file leaves the rows of those that are stored.
LEMMA StoredRows ==
    ASSUME BlobInv, [Next]_vars, ~\E u \in Upload : FinalizeFile(u)
    PROVE  File \cap files' = File \cap files /\ \A f \in File : ChunksOf(f)' = ChunksOf(f)
<1>1. CASE \E u \in Upload : CreateFile(u)
  BY <1>1, UploadAssumption DEF CreateFile, ChunksOf
<1>2. CASE \E u \in Upload : CreateFileChunk(u)
  <2>1. PICK u \in Upload : CreateFileChunk(u)
    BY <1>2
  <2>2. files' = files
    BY <2>1 DEF CreateFileChunk, rowVars
  <2>3. u \notin File
    BY UploadAssumption
  <2>4. CASE chunks' = chunks
    BY <2>2, <2>4 DEF ChunksOf
  <2>5. CASE chunks' = chunks \cup {[file |-> u, at |-> next[u], blob |-> At(u)]}
    <3>1. PICK c : c = [file |-> u, at |-> next[u], blob |-> At(u)]
      OBVIOUS
    <3>2. c.file = u /\ chunks' = chunks \cup {c}
      BY <2>5, <3>1
    <3>3. QED BY <2>2, <2>3, <3>2 DEF ChunksOf
  <2>6. QED BY <2>1, <2>4, <2>5 DEF CreateFileChunk, rowVars
<1>3. CASE UNCHANGED <<files, chunks>>
  BY <1>3 DEF ChunksOf
<1>4. (\E u \in Upload : CreateFile(u) \/ CreateFileChunk(u)) \/ UNCHANGED <<files, chunks>>
  BY DEF Next, StoreFile, StoreBlob, CheckBlob, WriteBlob, RenameBlob, EndStream, CreateBlob,
         Fail, GetFileChunks, LoadBlob, EndResponse, Close, vars, rowVars
<1>5. QED BY <1>1, <1>2, <1>3, <1>4

\* A file that can be read stays so.
LEMMA ReadableStays ==
    ASSUME BlobInv, DiskGrows, NEW f \in File, Readable(f), f \in files',
           ChunksOf(f)' = ChunksOf(f)
    PROVE  Readable(f)'
<1>1. HasItsChunks(f)'
  BY HasItsChunksStays DEF Readable
<1>2. \A c \in ChunksOf(f) : disk'[c.blob] = "whole"
  BY ChunkBlobs DEF Readable, DiskGrows
<1>3. QED BY <1>1, <1>2 DEF Readable

LEMMA DoubtfulStays ==
    ASSUME DiskGrows
    PROVE  DoubtfulFiles \subseteq DoubtfulFiles'
BY DEF DiskGrows, DoubtfulFiles, Doubtful

\* A file that is stored and cannot be read is in doubt.
LEMMA Unreadable ==
    ASSUME NEW f \in File, Stored(f), ~Readable(f)
    PROVE  Doubtful(f)
<1>1. PICK c \in ChunksOf(f) : c.blob \in overlooked
  BY DEF Stored, Readable, Accounted
<1>2. PICK u \in Upload : FileOf[u] = f /\ ChunksOf(f) = RowsOf(u, f)
  BY DEF Stored, HasItsChunks
<1>3. PICK i \in 1..Len(Cut[u]) : c = [file |-> f, at |-> i, blob |-> Cut[u][i]]
  BY <1>1, <1>2 DEF RowsOf
<1>4. Cut[u][i] \in overlooked
  BY <1>1, <1>3
<1>5. QED BY <1>2, <1>4 DEF Doubtful

LEMMA FinalizeStep ==
    ASSUME BlobInv, BlobInv', NEW u \in Upload, FinalizeFile(u)
    PROVE  [Catalog!Next]_<<StoredFiles, ReadableFiles, DoubtfulFiles>>
<1>1. PICK f \in File : f = FileOf[u]
  BY CutTypes
<1>2. files' = (files \ {u}) \cup {f} /\ UNCHANGED <<disk, overlooked>>
  BY <1>1 DEF FinalizeFile
<1>3. u \notin File
  BY UploadAssumption
<1>4. StoredFiles' = StoredFiles \cup {f} /\ DoubtfulFiles' = DoubtfulFiles
  BY <1>2, <1>3 DEF StoredFiles, DoubtfulFiles, Doubtful
<1>5. \A g \in File : g # f => ChunksOf(g)' = ChunksOf(g)
  <2>1. \A c \in Moved(u) : c.file = f
    <3>1. ASSUME NEW c \in Moved(u) PROVE c.file = f
      <4>1. PICK d \in ChunksOf(u) : c = [d EXCEPT !.file = f]
        BY <1>1 DEF Moved
      <4>2. d \in Chunk
        BY DEF ChunksOf, BlobInv, TypeOK
      <4>3. QED BY <4>1, <4>2 DEF Chunk
    <3>2. QED BY <3>1
  <2>2. \A g \in File : {c \in Others(u) : c.file = g} = ChunksOf(g)
    BY <1>3 DEF Others, ChunksOf
  <2>3. chunks' = Others(u) \/ chunks' = Others(u) \cup Moved(u)
    BY DEF FinalizeFile
  <2>4. QED BY <2>1, <2>2, <2>3 DEF ChunksOf
<1>6. ASSUME NEW g \in File, g # f PROVE Readable(g)' <=> Readable(g)
  BY <1>2, <1>3, <1>5, <1>6 DEF Readable, HasItsChunks, RowsOf
<1>7. CASE f \in files
  <2>1. ChunksOf(f)' = ChunksOf(f)
    BY <1>1, <1>3, <1>7 DEF FinalizeFile, ChunksOf, Others
  <2>2. Readable(f)' <=> Readable(f)
    BY <1>2, <1>7, <2>1 DEF Readable, HasItsChunks, RowsOf
  <2>3. ReadableFiles' = ReadableFiles
    BY <1>6, <2>2 DEF ReadableFiles
  <2>4. StoredFiles' = StoredFiles
    BY <1>4, <1>7 DEF StoredFiles
  <2>5. QED BY <1>4, <2>3, <2>4
<1>8. CASE f \notin files
  <2>1. ~Readable(f) /\ f \notin StoredFiles
    BY <1>8 DEF Readable, HasItsChunks, StoredFiles
  <2>2. CASE Readable(f)'
    <3>1. ReadableFiles' = ReadableFiles \cup {f}
      BY <1>6, <2>2 DEF ReadableFiles
    <3>2. QED BY <1>4, <2>1, <3>1 DEF Catalog!Next, Catalog!Store
  <2>3. CASE ~Readable(f)'
    <3>1. ReadableFiles' = ReadableFiles
      BY <1>6, <2>1, <2>3 DEF ReadableFiles
    <3>2. Stored(f)'
      BY <1>2 DEF BlobInv, FileIsWhole
    <3>3. PICK c \in ChunksOf(f)' : c.blob \in overlooked
      BY <1>2, <2>3, <3>2 DEF Stored, Readable, Accounted
    <3>4. f \in DoubtfulFiles
      <4>1. PICK v \in Upload : FileOf[v] = f /\ ChunksOf(f)' = RowsOf(v, f)
        BY <3>2 DEF Stored, HasItsChunks, RowsOf
      <4>2. PICK i \in 1..Len(Cut[v]) : c = [file |-> f, at |-> i, blob |-> Cut[v][i]]
        BY <3>3, <4>1 DEF RowsOf
      <4>3. Cut[v][i] \in overlooked
        BY <3>3, <4>2
      <4>4. QED BY <4>1, <4>3 DEF DoubtfulFiles, Doubtful
    <3>5. QED BY <1>4, <2>1, <3>1, <3>4 DEF Catalog!Next, Catalog!Store
  <2>4. QED BY <2>2, <2>3
<1>9. QED BY <1>7, <1>8

\* Any other step stores no file; one that writes a blob may repair some, and
\* one that passes over a blob puts some in doubt.
LEMMA OtherStep ==
    ASSUME BlobInv, [Next]_vars, ~\E u \in Upload : FinalizeFile(u)
    PROVE  [Catalog!Next]_<<StoredFiles, ReadableFiles, DoubtfulFiles>>
<1>1. DiskGrows /\ DoubtfulFiles \subseteq DoubtfulFiles'
  BY NextDiskGrows, DoubtfulStays
<1>2. /\ StoredFiles' = StoredFiles
      /\ \A f \in File : ChunksOf(f)' = ChunksOf(f)
  BY StoredRows DEF StoredFiles
<1>3. \A f \in File : f \in files' <=> f \in files
  BY <1>2 DEF StoredFiles
<1>4. ReadableFiles \subseteq ReadableFiles'
  <2> SUFFICES ASSUME NEW f \in File, Readable(f) PROVE Readable(f)'
    BY DEF ReadableFiles
  <2>1. f \in files'
    BY <1>3 DEF Readable, HasItsChunks
  <2>2. QED BY <1>1, <1>2, <2>1, ReadableStays
<1>5. CASE disk' = disk
  <2>1. \A f \in File : Readable(f)' <=> Readable(f)
    BY <1>2, <1>3, <1>5 DEF Readable, HasItsChunks, RowsOf
  <2>2. ReadableFiles' = ReadableFiles
    BY <2>1 DEF ReadableFiles
  <2>3. DoubtfulFiles' \in SUBSET File
    BY DEF DoubtfulFiles
  <2>4. QED BY <1>1, <1>2, <2>2, <2>3 DEF Catalog!Next, Catalog!Doubt
<1>6. CASE disk' # disk
  <2>1. \E u \in Upload : RenameBlob(u)
    BY <1>6 DEF Next, StoreFile, StoreBlob, CreateFile, CheckBlob, WriteBlob, EndStream,
                CreateBlob, CreateFileChunk, FinalizeFile, Fail, GetFileChunks, LoadBlob,
                EndResponse, Close, vars
  <2>2. DoubtfulFiles' = DoubtfulFiles
    BY <2>1 DEF RenameBlob, DoubtfulFiles, Doubtful
  <2>3. ReadableFiles' \subseteq StoredFiles
    BY <1>3 DEF ReadableFiles, Readable, HasItsChunks, StoredFiles
  <2>4. ReadableFiles' \subseteq ReadableFiles \cup DoubtfulFiles
    <3> SUFFICES ASSUME NEW f \in File, f \in files, ~Readable(f) PROVE Doubtful(f)
      BY <2>3 DEF ReadableFiles, DoubtfulFiles, StoredFiles
    <3>1. QED BY Unreadable DEF BlobInv, FileIsWhole
  <2>5. QED BY <1>2, <1>4, <2>2, <2>3, <2>4 DEF Catalog!Next, Catalog!Repair
<1>7. QED BY <1>5, <1>6

LEMMA StoreStep ==
    ASSUME BlobInv, BlobInv', [Next]_vars
    PROVE  [Catalog!Next]_<<StoredFiles, ReadableFiles, DoubtfulFiles>>
BY FinalizeStep, OtherStep

-----------------------------------------------------------------------------
(***************************************************************************)
(* The response.                                                           *)
(***************************************************************************)

\* What a response has and has still to load stays, whatever uploads do.
LEMMA ResponseStays ==
    ASSUME BlobInv, ResponseInv, DiskGrows, UNCHANGED readVars
    PROVE  ResponseInv'
<1>1. UNCHANGED <<reading, rest, body, outcome>>
  BY DEF readVars
<1>2. \A c \in rest : c.blob \in Blob
  BY DEF BlobInv, TypeOK, Chunk
<1>3. \A c \in rest' : Accounted(c.blob)'
  BY <1>1, <1>2 DEF ResponseInv, DiskGrows
<1>miss. outcome' = "missing" => body' # <<>> /\ body'[Len(body')] \in overlooked'
  BY <1>1 DEF ResponseInv, DiskGrows
<1>4. \A u \in Upload : Loaded(u)' = Loaded(u)
  BY <1>1 DEF Loaded, RowsOf
<1>5. QED BY <1>1, <1>3, <1>4, <1>miss DEF ResponseInv

LEMMA GetFileChunksResponse ==
    ASSUME BlobInv, ResponseInv, NEW f \in File, GetFileChunks(f)
    PROVE  ResponseInv'
<1>1. /\ f \in files /\ reading' = f /\ rest' = ChunksOf(f) /\ outcome' = "open"
      /\ body' = <<>> /\ disk' = disk /\ overlooked' = overlooked /\ f # None
  BY NoneAssumption DEF GetFileChunks, ResponseInv
<1>2. PICK u \in Upload :
        /\ FileOf[u] = f /\ ChunksOf(f) = RowsOf(u, f)
        /\ \A c \in ChunksOf(f) : Accounted(c.blob)
  BY <1>1 DEF BlobInv, FileIsWhole, Stored, HasItsChunks
<1>3. 1..Len(body') = {} /\ [i \in {} |-> 0] \in Injection({}, 1..Len(Cut[u]))
  BY <1>1 DEF Injection, IsInjective
<1>4. PICK order \in Injection(1..Len(body'), 1..Len(Cut[u])) : TRUE
  BY <1>3
<1>5. rest' = RowsOf(u, reading')
  BY <1>1, <1>2
<1>6. Loaded(u)'
  BY <1>1, <1>2, <1>3, <1>4, <1>5 DEF Loaded, RowsOf
<1>7. \A c \in rest' : Accounted(c.blob)'
  BY <1>1, <1>2 DEF Accounted
<1>8. QED BY <1>1, <1>6, <1>7 DEF ResponseInv

LEMMA LoadBlobResponse ==
    ASSUME BlobInv, ResponseInv, LoadBlob
    PROVE  ResponseInv'
<1>1. PICK c \in rest :
        /\ rest' = rest \ {c} /\ body' = Append(body, c.blob)
        /\ outcome' \in {IF disk[c.blob] = "whole" THEN "open" ELSE "missing", "error"}
        /\ outcome = "open" /\ UNCHANGED <<disk, overlooked, reading>>
  BY DEF LoadBlob
<1>2. /\ outcome' \in {"open", "missing", "error"}
      /\ \A d \in rest' : Accounted(d.blob)'
      /\ outcome' = "missing" => c.blob \in overlooked'
  BY <1>1 DEF ResponseInv, Accounted
<1>3. PICK u \in Upload : Loaded(u)
  BY <1>1 DEF ResponseInv
<1>4. PICK order \in Injection(1..Len(body), 1..Len(Cut[u])) :
        /\ \A i \in 1..Len(body) : body[i] = Cut[u][order[i]]
        /\ rest = {d \in RowsOf(u, reading) : \A i \in 1..Len(body) : order[i] # d.at}
  BY <1>3 DEF Loaded
<1>5. /\ order \in [1..Len(body) -> 1..Len(Cut[u])]
      /\ \A a, b \in 1..Len(body) : order[a] = order[b] => a = b
  BY DEF Injection, IsInjective
<1>6. PICK at \in 1..Len(Cut[u]) : c = [file |-> reading, at |-> at, blob |-> Cut[u][at]]
  BY <1>4 DEF RowsOf
<1>7. /\ c.at = at /\ c.blob = Cut[u][at]
      /\ \A i \in 1..Len(body) : order[i] # at
  BY <1>1, <1>4, <1>6
<1>8. /\ Len(body) \in Nat /\ Len(body') = Len(body) + 1 /\ body'[Len(body) + 1] = c.blob
      /\ \A i \in 1..Len(body) : body'[i] = body[i]
  BY <1>1 DEF BlobInv, TypeOK
<1> DEFINE k == Len(body) + 1
<1> DEFINE new == [i \in 1..k |-> IF i = k THEN at ELSE order[i]]
<1>9. /\ \A i \in 1..k : i = k \/ (i \in 1..Len(body) /\ i # k)
      /\ \A i \in 1..Len(body) : i \in 1..k /\ i # k
      /\ k \in 1..k
  BY <1>8
<1>10. Len(body') = k
  BY <1>8
<1> HIDE DEF k
<1>11. new \in [1..k -> 1..Len(Cut[u])]
  BY <1>5, <1>9
<1>12. \A a, b \in 1..k : new[a] = new[b] => a = b
  BY <1>5, <1>7, <1>9
<1>13. new \in Injection(1..k, 1..Len(Cut[u]))
  BY <1>11, <1>12 DEF Injection, IsInjective
<1>14. PICK next_order \in Injection(1..k, 1..Len(Cut[u])) :
         \A i \in 1..k : next_order[i] = IF i = k THEN at ELSE order[i]
  BY <1>13
<1>15. \A i \in 1..k : body'[i] = Cut[u][next_order[i]]
  BY <1>4, <1>7, <1>8, <1>9, <1>14 DEF k
<1>16. rest' = {d \in RowsOf(u, reading) : \A i \in 1..k : next_order[i] # d.at}
  <2>1. ASSUME NEW d \in RowsOf(u, reading)
        PROVE  d # c <=> d.at # at
    <3>1. PICK i \in 1..Len(Cut[u]) : d = [file |-> reading, at |-> i, blob |-> Cut[u][i]]
      BY DEF RowsOf
    <3>2. QED BY <1>6, <3>1
  <2>2. ASSUME NEW d \in RowsOf(u, reading)
        PROVE  (\A i \in 1..k : next_order[i] # d.at)
                 <=> d.at # at /\ \A i \in 1..Len(body) : order[i] # d.at
    BY <1>9, <1>14
  <2>3. QED BY <1>1, <1>4, <2>1, <2>2
<1>17. Loaded(u)'
  BY <1>1, <1>3, <1>10, <1>14, <1>15, <1>16 DEF Loaded, RowsOf
<1>18. reading' # None
  BY <1>1 DEF ResponseInv
<1>19. body' # <<>> /\ body'[Len(body')] = c.blob
  BY <1>8, <1>10 DEF k
<1>20. QED BY <1>2, <1>17, <1>18, <1>19 DEF ResponseInv

LEMMA NextResponse == BlobInv /\ ResponseInv /\ [Next]_vars => ResponseInv'
<1> SUFFICES ASSUME BlobInv, ResponseInv, [Next]_vars PROVE ResponseInv'
  OBVIOUS
<1>1. ASSUME NEW u \in Upload, StoreFile(u) \/ Fail(u) PROVE ResponseInv'
  BY <1>1, StoreDiskGrows, ResponseStays
<1>2. ASSUME NEW f \in File, GetFileChunks(f) PROVE ResponseInv'
  BY <1>2, GetFileChunksResponse
<1>3. CASE LoadBlob
  BY <1>3, LoadBlobResponse
<1>4. CASE EndResponse
  <2>1. /\ outcome = "open" /\ rest = {} /\ outcome' = "served"
        /\ UNCHANGED <<disk, overlooked, reading, rest, body>>
    BY <1>4 DEF EndResponse
  <2>2. \A u \in Upload : Loaded(u)' = Loaded(u)
    BY <2>1 DEF Loaded, RowsOf
  <2>3. QED BY <2>1, <2>2 DEF ResponseInv
<1>5. CASE Close
  BY <1>5 DEF Close, ResponseInv
<1>6. CASE UNCHANGED vars
  BY <1>6, ResponseStays, DiskStays DEF vars
<1>7. QED BY <1>1, <1>2, <1>3, <1>4, <1>5, <1>6 DEF Next

\* Nothing is left to load: the order in which chunks have come is one of all
\* the chunks of the upload.
LEMMA ServedResponse ==
    ASSUME BlobInv, ResponseInv
    PROVE  ServedIsWhole
<1> SUFFICES ASSUME outcome = "served"
             PROVE \E u \in Upload :
                     /\ FileOf[u] = reading
                     /\ \E order \in Bijection(1..Len(body), 1..Len(Cut[u])) :
                          \A i \in 1..Len(body) : body[i] = Cut[u][order[i]]
  BY DEF ServedIsWhole, ResponseInv
<1>1. PICK u \in Upload : Loaded(u) /\ rest = {}
  BY DEF ResponseInv
<1>2. PICK order \in Injection(1..Len(body), 1..Len(Cut[u])) :
        /\ \A i \in 1..Len(body) : body[i] = Cut[u][order[i]]
        /\ rest = {c \in RowsOf(u, reading) : \A i \in 1..Len(body) : order[i] # c.at}
  BY <1>1 DEF Loaded
<1>3. ASSUME NEW at \in 1..Len(Cut[u]) PROVE \E i \in 1..Len(body) : order[i] = at
  <2>1. PICK c \in RowsOf(u, reading) : c.at = at
    <3>1. [file |-> reading, at |-> at, blob |-> Cut[u][at]] \in RowsOf(u, reading)
      BY DEF RowsOf
    <3>2. QED BY <3>1
  <2>2. c \notin rest
    BY <1>1
  <2>3. QED BY <1>2, <2>1, <2>2
<1>4. order \in Bijection(1..Len(body), 1..Len(Cut[u]))
  BY <1>3 DEF Bijection, Injection, Surjection
<1>5. FileOf[u] = reading
  BY <1>1 DEF Loaded
<1>6. QED BY <1>2, <1>4, <1>5

-----------------------------------------------------------------------------
(***************************************************************************)
(* The theorems.                                                           *)
(***************************************************************************)

\* The inductive invariant: what uploads have written at each stage of
\* store_file and store_blob.
THEOREM BlobInvariant == Spec => []BlobInv
BY InitBlob, NextBlob, PTL DEF Spec

\* finalize_file and store_blob: a file that has a row has the chunks of one
\* upload, all of them, whichever uploads failed or raced; a blob of it is on
\* disk to the end, or an upload has passed over it after a look that failed.
THEOREM FilesAreWhole == Spec => []FileIsWhole
<1>1. BlobInv => FileIsWhole
  BY DEF BlobInv
<1>2. QED BY <1>1, BlobInvariant, PTL

\* The store implements the catalog of files that deployments rely on: a
\* file is stored in one step and stays, what can be read stays readable, and
\* only a file in doubt may be stored before it can be read.
THEOREM StoreImplementsCatalog == Spec => ImplementsCatalog
<1>1. Init => Catalog!Init
  BY DEF Init, Catalog!Init, StoredFiles, Readable, HasItsChunks, ReadableFiles, Doubtful,
         DoubtfulFiles
<1>2. BlobInv /\ BlobInv' /\ [Next]_vars => [Catalog!Next]_Catalog!vars
  BY StoreStep DEF Catalog!vars
<1>3. QED BY <1>1, <1>2, BlobInvariant, PTL DEF Spec, ImplementsCatalog, Catalog!Spec

\* get_file_chunks and load_blob: a response that ends well has sent the
\* chunks of one upload of its file, each once, and the blob that one misses
\* is one that an upload has passed over, whatever uploads run beside it.
THEOREM ServedFilesAreWhole == Spec => []ServedIsWhole
<1>1. Init => ResponseInv
  BY DEF Init, ResponseInv
<1>2. BlobInv /\ ResponseInv => ServedIsWhole
  BY ServedResponse
<1>3. QED BY <1>1, <1>2, NextResponse, BlobInvariant, PTL DEF Spec

=============================================================================
