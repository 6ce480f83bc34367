# Verification of fairing

Fairing builds static sites from git repositories and serves them. These
modules model its core logic in TLA+. There are two generations of it in the
repository. The newer, over ScyllaDB (`crates/`): the protocol by which
processes build and publish *layers* through shared database rows, the refresh
that creates layers, the content-addressed store of files, the fetching of a
commit over git with its large files. The older, over PostgreSQL
(`fairing-core`, `fairing`, `fairing-acme`): a queue of builds that are deployed
to sites, files made of blobs, and the service that orders certificates. TLC
checks the modules on small instances, TLAPS proves all of their safety properties for
all instances.

Paths below are relative to the repository. The commit modelled is work in
progress: `main()` returns at `fairing/src/main.rs:270`, so that everything that
needs PostgreSQL is compiled but not reached; several functions of
`crates/scylla-repositories` end in `todo!()`; and `services/domains.rs:300`
(`Ok()`) does not compile. What is unreachable is marked so.

## 1. Inventory

| component | state | operations | what is hard | correct when |
|---|---|---|---|---|
| **Layer builds and publication** `crates/fairing-core/src/services/build.rs`, `crates/scylla-repositories/src/layers.rs` | rows `layer_sets`, `layers`, `layer_changes`, `layer_members`, written by lightweight transactions; two locks with a time to live | `create_layer`, `build()`, `build_single`, `finalize_single`, `cancel_layer` | several processes, old lists, crashes between two updates, locks that expire | one layer of a set at a time; published in order and complete; never wedged |
| **Source refresh** `services/sources.rs`, `crates/scylla-repositories/src/sources.rs`, `layers.rs:344-478` | sources, layer sets and their `last_layer_id`, new layers | `create_source`, `create_layer_set`, `refresh_source` | concurrent refreshes, reads before conditional writes, ids drawn in any order | an answer without an error means that all that was listed is done; no layer is hidden from a later refresh |
| **File store and HTTP body** `services/build.rs:173-243`, `crates/scylla-repositories/src/files.rs`, `services/web.rs` | table `files`: chunks by checksum, static column `length` | `get_file`, `create_chunk`, `finish_file`, `get_file_chunks`, the body stream | concurrent uploads of one file, failures in the middle, lengths at the edges of chunks and buckets | what counts as stored is complete and stable, a download is exact |
| **Git transport and pack files** `crates/git-repositories/src/git/` | buffer of the SSH client, what the readers have noted, pack, index, mapping | `git_list_latest`, `git_clone`, `extract` | input split at any byte, end of stream, chains of deltas, a pack that grows while it is mapped | nothing is lost between messages; an incomplete pack is refused; the tree on disk is the commit |
| **Git LFS** `git/lfs.rs` | a task, a bounded channel, batches of downloads | `download`, `list_files`, `fetch` | two tasks that wait for each other, errors in the middle of a batch | tracked files have their contents, the call ends |
| **PostgreSQL: builds, deployments, sites** `fairing-core/src/services/build.rs`, `fairing/src/backends/build_queue/postgres.rs`, `fairing/src/backends/database/postgres.rs` (unreachable) | builds, layers, sites, deployments, domains; a pool of tasks | claim a build, run it, deploy it, answer a request | a crash or an error around a commit, two servers that poll, deployments between two queries | a build is run once; what is deployed is complete; an answer is one of the deployment |
| **PostgreSQL: blobs and files** `fairing-core/src/services/storage.rs`, `file_metadata/postgres.rs`, `file_storage/local.rs` (unreachable) | files, chunks, blobs on disk | store, finalize, load | concurrent uploads of one file, failures anywhere | a file that has a row has all its chunks, and a blob of it is missing only where that was overlooked |
| **PostgreSQL: certificates** `fairing-core/src/services/acme.rs`, `database/postgres.rs` (unreachable) | domains, orders, challenges, certificates | `process_domain` | an external server, restarts, several processes | a challenge is there in time; no flood of orders; a certificate is never lost |
| **ACME client** `fairing-acme/src/lib.rs` | nonce, account | `connect`, orders, challenges, `retry_post` | `badNonce` retries | a nonce is spent once; a retry does not spoil the next call |
| **Server start-up** `fairing/src/main.rs` | none | two calls of `build()`, exit on error | an error ends the process | - |
| **HTTP and gRPC servers** `fairing/src/server/` | none | mostly one backend call each | - | - |
| **Projects, authentication** `services/auth.rs`, `services/projects.rs` | permission table | checks, inserts | - | - |
| **Git transport, older copy** `fairing/src/backends/remote_source/git/` (unreachable) | as above | as above | as above | as above |
| **Certificates (Scylla)** `services/domains.rs`, `crates/scylla-repositories/src/domains.rs` | `certificates`, `certificate_queue` | `process_certificates` | unfinished: does not compile | - |
| **Build queue messages** `crates/scylla-repositories/src/queue.rs` | table of messages | `queue_build`, `assign_build` (`todo!()`) | never called | - |
| **Version 7 uuids** `models/uuid_v7.rs` | clock | `next` | ids of one millisecond have no order | newer ids are greater |
| **DNS server** `fairing/src/dns.rs` | none | answer a query | - | - |
| **TLS certificate resolver** `fairing/src/server/certificate_resolver.rs` | cache | `accept` | commented out of the build | - |
| **Resource names** `fairing-core/src/models/resource_name/` | none | parse, validate | characters | unit tests |
| **Command line client** `fairingctl/` | configuration file | single requests | - | - |

How they interact. A gRPC handler or start-up calls `refresh_source`, which
lists branches over git, and for each layer set whose branch is listed and that has no
layer yet reserves an id with `set_last_layer_id` and inserts a layer with `create_layer`
(for a layer set that has one it fails, see `SourceRefresh`). Each server
process calls `build()` twice with a worker id of its own
(`main.rs:192`, `main.rs:239`): it lists pending layers, and for each of them
locks the layer set, clones the commit, uploads the files under their checksums,
records changes, copies the changes into members, marks the layer ready and
clears the lock. Processes share nothing but the database; there is no message
between them. A request finds the layer and the member of a path and streams the
chunks of the checksum.

In the PostgreSQL generation a gRPC `refresh_source` inserts builds, which every
server polls for. The server that has locked and marked one runs it as a task
of its pool: it fetches the commit, stores the files, makes them members of a
layer, and deploys the layer to every site of the source. A request goes from its
host name to the current deployment and to the file of a path. Independently,
every server looks every 30 seconds for a domain that needs a certificate.

## 2. Modules

| module | models | run by |
|---|---|---|
| `LayerBuild` | the build protocol: all conditional updates of `layers.rs` that `build()` makes, in program order, by any number of processes | `MCLayerBuild` |
| `LayerPublish` | what the protocol promises: layers are submitted, and published in order or dropped once superseded | refined by `LayerBuild` |
| `SourceRefresh` | `create_source`, `create_layer_set` and `refresh_source`, query by query, by concurrent callers | `MCSourceRefresh` |
| `FileStore` | hashing, uploading, finishing and downloading of files | `MCFileStore` |
| `GitFetch` | `git_list_latest` and `git_clone` up to the index of the pack, over a channel whose messages end anywhere | `MCGitFetch` |
| `GitExtract` | `extract()`: deltas batch by batch, the mapping of the pack, the walk of the trees | by way of `GitClone` |
| `GitClone` | composes `GitExtract` with the LFS downloads and the task that lists files for them | `MCGitClone` |
| `PackObject` | the header of an object and the instructions of a delta, byte by byte | `MCPackObject` |
| `SiteDeploy` | builds, deployments, sites and requests over PostgreSQL, with servers that crash | `MCSiteDeploy` |
| `BlobStore` | `store_file` and the loop that loads a response | `MCBlobStore` |
| `FileCatalog` | what `store_file` promises: a file is stored at once, stays, and can be read unless it is in doubt | refined by `BlobStore` |
| `AcmeClient` | the nonce of the ACME client and `retry_post` | by way of `AcmeOrders` |
| `AcmeOrders` | composes `AcmeClient` with `process_domain`, the rows and an external ACME server | `MCAcmeOrders` |
| `<module>_proofs` | the theorems about `LayerBuild`, `SourceRefresh`, `FileStore`, `GitFetch` (with those about `PackObject`), `GitClone`, `SiteDeploy`, `BlobStore`, `AcmeOrders` | - |

The modules meet where the parts do: `SourceRefresh` ends with the rows from
which `LayerBuild` starts; `LayerBuild` takes the upload of a file (`FileStore`)
and the clone of a commit (`GitFetch`, then `GitClone`) as steps of their own
that succeed or fail, and `SiteDeploy` does so with `BlobStore`, of which it asks the rows of a
file and not whether all its blobs are there. `PackObject` looks into
the units that `GitFetch` and `GitExtract` take as given.

### LayerBuild

One step per query, since a process may be interrupted, crash, or meet another
one between any two queries; a lightweight transaction (`IF ...`) is one step
with its applied and its refused outcome.

| variable | code |
|---|---|
| `lastLayerId`, `buildCurrent`, `buildLast` | columns `last_layer_id`, `build_current_layer_id`, `build_last_layer_id` of `layer_sets` |
| `reserved` | ids between `set_last_layer_id` and `create_layer` |
| `status`, `buildWorker`, `finalizeWorker` | columns of `layers`; the last two with a time to live of 300 and 60 seconds |
| `changes`, `members` | tables `layer_changes` (by layer and worker) and `layer_members` |
| `cloned` | machines that have a directory `source` of the layer |
| `pc`, `round`, `phase`, `todo`, `job`, `batch` | where a process stands in `build()`, the list it works on, the layer it holds, the changes it has read |

| actions | code |
|---|---|
| `SetLastLayerId`, `CreateLayer` | `layers.rs:344`, `433` |
| `StartRound`, `TakeStale`, `TakeBlocked`, `TakeBuildable`, `StartFinalizing`, `TakeFinalizing`, `EndRound` | the two loops of `build()`, `build.rs:40-110` |
| `CancelStatus`, `CancelCurrent` | the two updates of `cancel_layer` |
| `BuildSetCurrent`, `BuildLayer`, `GitClone`, `CreateLayerChanges`, `FinishBuild` | `build_single` |
| `FinalizeSetCurrent`, `FinalizeLayer`, `ListLayerChanges`, `CreateLayerMember`, `FinishLayer`, `FinishLayerSet` | `finalize_single` |
| `BuildError`, `FinalizeError`, `Crash`, `ExpireBuildLock`, `ExpireFinalizeLock` | an error of any query, the end of a process, a time to live that runs out |

A restarted process has a fresh worker id, so that it is another member of
`Worker`; an id that has crashed does not come back.

### FileStore

| variable | code |
|---|---|
| `length`, `rows` | static column `length` of bucket 0 and the rows of table `files`, by checksum |
| `listed` | the files whose `layer_changes` have been written |
| `pc`, `todo`, `file`, `fileOffset`, `bufferLen`, `changes` | a process inside the walk of `build_single`, `build.rs:173-245` |
| `reading`, `total`, `sent`, `buffer`, `outcome` | the body stream of `web.rs:173-327` |

The bytes of a file are data of the model because the code's behaviour depends
on where they stand in the buffer: `BufferAt` is what the 1 MiB buffer holds after
the reads so far, stale tail included, and `Checksum` is what blake2b is fed, the
digest being taken as injective on its input. `GetFile`, `ReadPart`,
`CreateFullChunk`, `CreateLastChunk`, `ReadNothing`, `FinishFile` and
`ListChanges` are the steps of an upload, `StartDownload`, `EndBody`,
`SendBuffered` and `FetchWindow` those of a body; `Fail` ends a process at any of
its steps. `handle_inner` answers 404 before it comes to the body
(`web.rs:149-171`), so that the download is compiled, and not reached today.

### GitFetch

| variable | code |
|---|---|
| `mode`, `target`, `pc` | which call reads, the ref it is to find, and the loop it is in: `mod.rs:52`, `91`, `131`, `flush()` |
| `received`, `channel` | how much of the answer has come, and whether Eof or an exit status has |
| `buffer`, `waiting` | `SshClient::buffer`; whether `read()` is in its second part, `ssh.rs:106` |
| `head`, `revisions`, `found` | `head_hash` of the reader, the results of the two calls |
| `header`, `current`, `fed`, `next`, `index` | `header`, `current_object`, how far the decoder is, `next_object_index` and the index of `GitPackFileReader` |
| `headerCut` | history: a message has ended behind the header of the pack |

The answer of the server is a row of units (a line, the flush, the NAK, the pack's
header, an object's header, a piece of its zlib stream, the checksum), each known by
its position, so that losing one, repeating one or taking one out of its turn shows.
A message brings any number of units; a part of a unit is as good as none, since
every parser is streaming and leaves an incomplete unit to the buffer. How long the
stream of an object is in pieces is a constant, and so is where it stands.

`ReadBuffered` and `Receive` are the two halves of `SshClient::read`, which hand
`Parse` what is buffered, with or without a message behind it. `Parse` is whichever
reader the call has given: `ReadLine` and `ReadFlush` (`pkt_line_reader.rs` and what
the two loops do with the result), `ReadHeader`, `ReadObjectHeader`, `Inflate` and
`ParseError` (`git_pack_file_reader.rs`). `EndOfChannel` is `None` or an error from
`read()`, `Flush` the comparison of the number of objects, `Close` the server.

### SourceRefresh

| variable | code |
|---|---|
| `head` | the branches of the repository, which someone pushes to at any time |
| `source`, `sets`, `last`, `layers` | rows of `sources`, `layer_sets` with `source_git_ref` and `last_layer_id`, `layers` |
| `drawn` | ids that some caller has drawn; another server's clock may be behind |
| `call` | for each caller: where it stands, the layer sets and heads it has listed, what it has left, what it has read |

`Push`; `CreateSource`, `CreateLayerSet` with their permission (`Can`); then
`BeginRefresh`, `GitListLatest`, `GetLastLayerId`, `GetLastLayer`,
`SetLastLayerId`, `CreateLayer`, `EndRefresh` are `refresh_source` query by query,
and `RefreshError` its failure at any of them. What is listed (`Listing`) are the branches
at the commit of HEAD, up to the limit, as `GitFetch` has it line by line: a layer set that
follows another branch is passed over, and nobody is told. `get_last_layer` selects six columns
for a struct of seven (`layers.rs:381`) and so fails whenever the layer set has a
layer: a refresh only ever creates the first layers of a layer set. The model has this.
`RefreshIsComplete` says what a refresh that ends well has done all the same, and
`LastLayerIdCovers` that none is hidden from the next one: ids are drawn, compared and
inserted in three steps, by callers whose clocks differ.

### GitExtract and GitClone

| variable | code |
|---|---|
| `pack`, `root` | the pack as `GitFetch` has left it, the tree of the commit |
| `place`, `deltas` | the index: objects with their offsets, and the deltas not yet reconstructed |
| `size`, `mapped` | objects in the pack file, and how many of them the mapping covers |
| `batch` | what one `list_ref_deltas` has returned, with the offsets the parents had |
| `stack`, `dirs`, `files` | the trees still to be walked, the directories and files on disk |
| `lister`, `attrs`, `found`, `channel`, `closed` | the task `list_files` and its channel |
| `buffer`, `todo`, `bad` | files collected, contents to download, contents that did not come |

`ListRefDeltas`, `Reconstruct`, `RefreshPackFile`, `OpenCommit`, `WalkItem`,
`EndWalk` are `extract()`. `Detect` to `EndFetch` are `download()`,
`ListDirectory`, `SendFile`, `SendNone`, `ListError` its task. An object is known by
its hash, a delta by the hash of its instructions too, since the index keys deltas
by it (`git_pack_file_reader.rs:191`) and keeps the later of two that are alike.
Instructions and items can be parsed: the pack is well formed. Links are not made, as
the arguments of `symlink` are exchanged in the code.

### PackObject

| variable | code |
|---|---|
| `object`, `script`, `coded`, `parent`, `base` | what git has sent: an object, the pieces a delta stands for and how they are coded, the parent it is meant for and the one there is |
| `came`, `read` | how many bytes of the object have come, the header read from them |
| `kept`, `rest` | how much of the delta was stored, what is left of it |
| `announced`, `written`, `pieces` | `reconstructed_length` and `written_bytes` of `reconstruct`, and what it has written |
| `stage` | where the object stands: its header is read, its stream inflated, the lengths of the delta or its instructions are read, or how it has ended |

`ReceiveHeader` is `read()` with whatever has come, `Store` the stored delta, which may be
cut off; `ReadLengths`, `Apply` and `EndDelta` are `reconstruct()`. How git
writes the bytes is given by operators of its own (`VarCode`, `HeaderCode`, `CopyCode`, `DeltaCode`),
which the parsers never see. What is recursive is a recursive function with one equation: a row
of pieces is coded and added up from its end (`LastCodes`, `LastLengths`), and a number is read from
its last byte (`LastBytes`), as the parser's shifts amount to. A bit operation of the parsers is arithmetic here: shifts
and masks of disjoint bits are sums of multiples. Numbers are unbounded here and have 64 bits in the
code, so that the module is about objects of less than 2^64 bytes, which all of git's are.

### SiteDeploy

| variable | code |
|---|---|
| `queue`, `locks` | column `status` of builds, and the rows a server's transaction has locked |
| `poll`, `claim`, `pool` | the stream of builds, the build of the open transaction, `build_tasks` |
| `task`, `todo`, `taken` | where `BuildTask::run` stands, what is left of its walk or of its sites, the file or site it is at |
| `dirs`, `files`, `members` | work directories, stored files, `layer_members` |
| `sites`, `deployments`, `current`, `domainSite` | sites, deployments with projection and modules, `current_deployment_id`, the site of the domain |
| `req` | one request between its queries |

`SelectBuild`, `ClaimBuild`, `CollectTask`, `QueueError` and `Crash` are the queue and
the pool, `MakeDirectory` to `EndTask` and `TaskError` a task, `CreateSite`,
`SetDomainSite` and `RefreshSource` the gRPC calls (`OthersSetDomainSite` the one of
another team, which `set_domain_site` does not tell apart: `postgres.rs:791` has the
name of a domain and not its team), `GetProjections` to
`RequestError` the web handler, whose two queries are not in a transaction.
`SELECT ... FOR UPDATE SKIP LOCKED` has no `LIMIT`, so that a server may lock one row or
all. A commit may fail for the server and not for the database. A crashed server
does not come back under its identity; a restarted one is another member of `Server`.

### BlobStore

| variable | code |
|---|---|
| `disk` | what stands under the name of a blob: nothing, a part, all |
| `overlooked` | history: blobs that some upload has passed over though they were not there |
| `blobs`, `files`, `chunks` | the tables; a file has the random id of its upload until it is finalized |
| `pc`, `next` | where `store_file` stands, and at which chunk |
| `reading`, `rest`, `body`, `outcome` | a response that loads blobs one by one, and whether it is served, meets a missing blob, or fails otherwise |

Where a file is cut depends on how its stream came, so that two uploads of one
file need not have the same chunks; which of two `finalize_file` finds the other's
row is what the module is about. An upload may fail at each step and leaves its
rows. One failure does not fail the upload: when `fs::metadata` of a blob fails otherwise than with
NotFound, `store_blob` takes the blob for present (`local.rs:46`), and so `CheckBlob` may pass over
any blob and notes in `overlooked` those that were not there. The properties say that this is
the only way to a file that cannot be read.

### AcmeOrders and AcmeClient

| variable | code |
|---|---|
| `nonce`, `retry` | the client's nonce; whether the call goes on with that of a `badNonce` answer |
| `pc`, `domain`, `order` | where `process_domain` stands, its domain, its order as the server has it |
| `made` | orders that the ACME server has made |
| `orders`, `recent` | rows of `acme_orders` and `acme_challenges`, and which are less than a day old |
| `domains`, `certificate`, `validated` | rows of domains, the newest certificate, `is_validated` |

`Poll`, `Record` (one transaction), `StoreCertificate` (another) and the requests
between them, each of which is answered, refused, answered with `badNonce`, or fails
(`Answered`, `Refused`, `BadNonce`, `CallError`), or, in `download`, answered without a certificate,
which is a panic and ends the service's task (`NoCertificate`, `acme.rs:172`); `Restart` at any point. `Validate`,
`Issue`, `DayPasses`, `FallsDue` are the outside. There is no clock: a day may
have passed whenever it can. A request and its answer are one step, since
nothing else sees the request in between.

## 3. Runs

| run | instance | distinct states | properties |
|---|---|---|---|
| `layer_build_faults` | 2 workers, 3 layers of one set, 1 path, one call of `build()` each, all faults | 252,947 | `OneLayerInFlight`, `CancelledIsSuperseded`, `FinishHoldsLock`, `ReadyIsComplete`, `IInv`, `PublishedInOrder`, `LastBuildAdvances`, `ImplementsPublish` |
| `layer_build_faultfree` | 2 workers, 4 layers, two of them without a source and one in a set of its own, no faults, two calls each | 1,057,277 | `LockIsRecoverable`, `SoloWorkerSettles` |
| `layer_build_returns` | 2 workers on one machine, 2 layers, two calls, all faults, fairness | 212,238 | `BuildReturns` |
| `layer_build_blocked` | 2 workers, 3 layers of one set, 1 path, no faults, one call each | - | `BlockedByABuild`, violated |
| `source_refresh` | 2 callers, 2 layer sets, 2 branches of which one is listed at most, 2 commits, 3 ids, symmetry | 3,246,594 | `RefreshIsComplete`, `LastLayerIdCovers` |
| `file_store` | 2 workers, 5 files, one download, failures, fairness | 105,407 | `FinishedIsStored`, `DownloadIsExact`, `DownloadCompletes`, `StoreInv`, `StoredIsStable`, `UploadEnds` |
| `git_fetch` | a listing of six lines, a pack of three objects, both calls, every cut, fairness | 1,944 | `NothingLost`, `FetchIsComplete`, `CutDoesNotMatter`, `LatestAreBranchesAtHead`, `FetchEnds` |
| `git_clone` | 4 packs, 3 commits, batches of 2 deltas, a channel of 1, fetches of 2, failures, fairness | 10,541 | `BatchIsMapped`, `CloneIsExact`, `CloneEnds` |
| `pack_object` | objects of 8 lengths; deltas of one and two pieces, parents of 2 lengths, messages that end at any byte, deltas cut at any byte | 586,498 | `HeaderIsExact`, `DeltaIsExact` |
| `site_deploy` | 2 servers with room for one task each, 2 builds, 1 site, crashes and errors at every step, fairness | 300,445 | `ClaimedOnce`, `DeployedIsComplete`, `ServedIsDeployed`, `BuildsEnd` |
| `blob_store` | 3 uploads, 2 of them of one file cut differently, the third shares a blob, failures, a response | 165,756 | `FileIsWhole`, `ServedIsWhole`, `ImplementsCatalog` |
| `acme_orders` | 2 processes, 2 domains of one name, 2 orders, restarts, lost nonces, fairness | 199,614 | `ChallengeIsStored`, `OrdersApart`, `CertificateStays`, `ProcessingEnds` |

Types are part of the inductive invariants (`IInv`, `StoreInv`, `FetchInv`,
`DeployInv`, `BlobInv`, `RefreshInv`, `AcmeInv`, `CloneInv`, `ObjectInv`) and are proved with them.

**Bounds.** Three layers are the fewest that give a stale one, a built one and a
blocked one at once; two workers the fewest that can hold different lists; two
calls let a process meet what it left behind itself. A crashed worker stays dead,
so errors and expiries need no counter. In `file_store` a chunk has 3 bytes, a
window 6, a bucket 9; the files are a byte (`short`), exactly a chunk (`full`,
with the checksum of `short`), more than a window (`long`, in both commits), a
file read one byte at a time (`split`), and one that reaches the second bucket
(`huge`). In `git_fetch` the branches at HEAD are one more than the limit lets
through, and the objects have streams of one and of two pieces, so that a stream is
read in one call or in several. Two servers with pools for one task each are the
fewest that can claim the same build and the fewest whose pool is full; the two
builds of `site_deploy` share a file and differ in what `/a` and `/a/` stand for, one
has a module. Three ids let two callers overtake each other and one of them try again;
the listing of `source_refresh` lets one branch through, so that the branch HEAD stands for, the second, is
listed only while the first is elsewhere.
The packs of `git_clone` have a chain of two deltas behind another batch, an object
that is there plain and as a delta, two deltas with the same instructions, an orphan
and no root; a channel of one place is full and empty as soon as possible, and
a fetch of two files is followed by one of the rest. The lengths
and offsets of `pack_object` stand on both sides of the places where a coding needs one more byte,
and a parent is just long enough for some pieces and too short for others; two
pieces show that an instruction ends where the next begins. `MaxOrders` and
`MaxLayerId` are bounds in guards: behind them no order is made, no id drawn.
Deadlock checking is off where a system that has done all its calls
rightly stops.

**Fairness.** Weak fairness of each worker's steps: the task of a live process
goes on running under tokio, and every query returns or fails. Nothing is assumed
of other workers, of locks expiring or of faults. `FetchEnds` assumes weak fairness
of the client only: the server need not close the channel, and a call waits as long
as it does not. `BuildsEnd` assumes weak fairness of each live server and of nothing
outside it; a crash is always possible and never required. `CloneEnds` assumes it of
the call and of its task, separately: they are two tokio tasks. `ProcessingEnds` assumes in
addition that a request repeated for ever is one day answered otherwise than by
`badNonce` (strong fairness: `retry_post` has no bound, so that the code relies on it),
and that the ACME server gets on with an order it has been told to look at.

**What they show.**

- The row of a layer set excludes: two layers of a set are never on their way at
  once, a layer never replaces a newer one, a cancelled layer is superseded and
  unlocked, whatever expires, fails or crashes.
- A layer finalized by its builder has every file of its commit. One that
  *another* worker finalizes is published without members, since
  `list_layer_changes` is asked for the finalizer's own id (`build.rs:352`). This
  needs no fault, and is why `ReadyIsComplete` names the builder.
- Without faults a locked set always has a layer that a later `build()` takes
  up, and while only one process has called `build()` (`Alone`) it passes no layer over. With them it need not: a crash or an error between the two updates of
  `finish_finalizing` (`layers.rs:682-740`) leaves the lock on a ready layer,
  which no list of pending layers contains.
- Two workers that find the same stale layer: the second `cancel_layer` fails,
  and `main.rs:192` or `239` ends the process. `BuildReturns` counts this as an end.
- A slow worker past the time to live of its lock goes on adding members to a
  layer that is ready already; they are files of the same commit.
- A clone that failed, or was made by another process of the machine, leaves
  `source` behind and every later clone there fails (`local.rs:30`).
- `layer_build_blocked`: the comment at `build.rs:72` explains a layer that is
  passed over by "Another layer is being built". TLC finds a run without faults in
  which nobody builds: `finalize_single` is called although `build_single` was
  refused (`build.rs:86`), and takes the lock of the set for a layer that it
  then cannot finalize.
- The file store: concurrent uploads of a file never harm each other, a
  failed upload is never taken for a stored file, and a stored file never changes.
  Four limits of the code bound these statements. An empty file, and one whose
  length is a multiple of 1 MiB, is read for ever (`build.rs:213-237`), so
  `UploadEnds` leaves them out and `BuildReturns` is about calls whose
  uploads end. The checksum covers the whole buffer and not what was read, so
  different files may share one (`Unique` names those that do not). A `read()`
  that returns less than the buffer before the end of a file makes a wrong chunk
  (`Intact`); tokio's file reads at most 16 KiB at a time in the locked version
  1.22. A file that reaches 64 MiB cannot be read back, as `get_file_chunks`
  asks for bucket 0 only.
- Fetching: how the server cuts its answer does not matter, except at one place. The
  reader notes the pack's header before it has the first object's
  (`git_pack_file_reader.rs:89`). If a message ends between them, it returns
  `Incomplete`, `read()` hands it NAK and header once more, and it reads "0008NAK" as
  the header of an empty blob: the clone of a complete pack fails. `headerCut` records
  this, `CutDoesNotMatter` and `NothingLost` say that nothing else does harm. A
  channel that ends early is noticed by `flush()`, or, before the pack's header, leaves
  an empty pack and index, on which `extract` fails.
- Refreshing: a refresh that ends well has left a layer on each set it listed, and no
  layer is ever above `last_layer_id`, though layers may be inserted in another order than that of
  their ids. Refreshes that find no layer at the same time may each make one. One that is
  overtaken fails in the middle of its sets, and the next one fails on the first set
  that has a layer.
- Cloning: a clone that ends well has the files of the commit and no others, but for links
  and for contents that the LFS server left out or answered with an error page
  (`lfs.rs:326` does not look at the status). It fails, if no call does, only for
  commits that cannot be cloned: a submodule, an empty tree, a missing object,
  or two deltas with the same instructions of which the index has lost one; or for a tracked
  file of 1024 bytes and more, such as one that two `.gitattributes` match. No
  batch needs an object behind the mapping, and the task and the call never
  wait for each other.
- Bytes of a pack: a header is read at its last byte, whatever a message ends on, and
  takes nothing of the stream behind it, which is what `GitFetch` assumes of its units. A delta
  makes the pieces it stands for or nothing: one that is cut off, or reaches
  behind its parent, is noticed, mostly as a panic (`local_pack_file_reader.rs:309`, `330`, `343`).
- Builds over PostgreSQL: a build is handed to one task at most. Its deployments
  are complete, since a deployment is committed last. What a crash leaves stays: the
  build is 'building' for good, and so is a build that ends well, as no statement
  sets it to 'complete'. An older build that takes longer may replace a newer current
  deployment (the TODO at `services/build.rs:321`), so that nothing is stated
  about which deployment wins. The file of an answer is one of the deployment
  that the first query found; the modules may be those of another that came
  in between (`postgres.rs:707`).
- Files over PostgreSQL: whichever upload is finalized first, the file has the chunks of one
  upload, all of them, and a response gets each of them once. Their order is left to
  PostgreSQL, as `get_file_chunks` has no `ORDER BY`. Failed uploads leave
  rows and temporary files behind. A blob of a stored file is missing only where
  a look at it failed in a way that `store_blob` takes for its presence; a response that comes to
  it fails, until another upload writes the blob.
- Certificates: the challenge is committed before the ACME server is told to look, also if the
  process is restarted; a process orders for a domain at most once a day once an order is
  recorded; a name never loses its certificate while another team takes it over. With
  two processes the DNS server answers with the newest challenge only, so that the
  older order may fail. `process_domain` ends, if only in the panic of an answer without a
  certificate, after which the process goes on without the service.

Each property has a mutant of the code (operators marked *Mutant* before the
definition they replace, listed in `PROJECT.json`) under which TLC finds it
violated.

## 4. Proofs

Assumptions are the named `ASSUME`s of the modules: sets of ids
are numbers, functions have their domains, lengths are positive, a bucket is
longer than a chunk, a read divides a chunk, a fetched pack has at least one object,
each with at least one piece, one behind the other; HEAD is listed once; the packs of
`GitExtract` are sequences of objects and deltas; the items of a tree have different
names, and what a pointer stands for is no pointer itself, which git and git-lfs guarantee;
the pieces of a delta fit into the bytes that its format has for them (`Piece`: an offset of four, a
length of three that is not 0, data of 1 to 127 bytes), which any delta that git writes does;
branches are numbered; pools have at least one place. Nothing is assumed of the number
of workers, callers, servers, layers, layer sets, builds, sites, paths, files, uploads,
domains, lines or objects.

An invariant that a proof rests on is in the module of its component, behind the
properties, and was checked by TLC on the instance of the run before it was proved; to do so
again, name it under `INVARIANTS` of the `.cfg`.

**LayerBuild.** The inductive invariant `IInv` has three parts. `TypeOK`.
`LockInv`: workers only know layers that have a row (`KnownLayers`); the lock of a
set is on a layer newer than the last built one, which is ready (`SetRow`); a
layer in flight holds the lock, a ready one is the last built, older, or holds the
lock, a cancelled one is older (`LayerRow`); and a worker between the two
updates of a pair keeps what the first one found (`BetweenUpdates`). `FilesInv`:
changes of the builder are complete once the build is finished, and a member is
copied or still to be copied. The safety properties are not inductive: that two
layers are not in flight together rests on every writer of `buildCurrent`
comparing it first, and on a lock never pointing behind `buildLast`. A lemma for
steps that write no row (`QuietStep`) carries the many steps of the loops. From
`IInv` follow `LayersExclude`, `CancelIsSafe`, `FinishIsLocked`, `ReadyComplete`,
`PublishOrder`, `LastBuildOrder`, and `Refinement`: the layers that are pending,
ready and cancelled implement `LayerPublish`; the four queries that write a
status are its steps, all else stutters.
The two properties of the fault-free specification have invariants of their own.
`LocksAreRecoverable`: the layer in a lock is pending, because it leaves that state only when it
is made ready, and then its worker clears the lock next. `SoloWorkersSettle` needs `SoloInv`:
`FaultFreeInv` holds of all workers (without faults and expiries a column names a worker
only if one has passed there), and a worker that is alone has found each layer of its list
untouched and finds each of its own updates applied, from the first to the clearing of the lock
(`SoloJob`), so that no update is refused and no clone finds a directory.

**FileStore.** `StoreInv`: a worker has written all the rows before its offset and
they are still there (`UploadKept`), the partition of a file with a checksum of its
own has only rows of that file (`OwnRows`), and a length is set only when all
rows are there (`FinishedIsStored`). The insert of a row is harmless because
a file has one row at each offset (`OneRowPerOffset`), so that a late worker
writes what is there; that the offsets of a worker are the multiples of the chunk
length is arithmetic (`MultiplesApart`, `NextMultiple`, `NextRow`).
`StoredIsComplete` and `StoredStays` follow.

The downloads need more, as they may be of files that share their checksum, and whose
workers replace each other's rows. `SlotInv`: the rows of a partition belong to files of its
checksum, no two are in one place, and of a stored file there is a row in every place, if
not this file's. `ListedInv`: only what is stored is listed. `BodyInv`: what is sent ends
where a chunk starts or a file ends, what is buffered goes on from there without gaps
(`InPlace`), and every byte sent stands at its place in one of the files (`InFiles`). What a query
returns has no gaps because a row in the first bucket has all places before it in the first
bucket too (`ChunksFollow`). That files of one checksum have the same bytes is a lemma
about what blake2b is fed (`IntactBytes`), and so it needs that the reads of *all* of them
filled the buffer (`Intact`); a checksum also tells how many chunks a file has (`IntactStarts`), but
not its length, which `DownloadIsExact` therefore asks for. `DownloadsAreExact` and
`DownloadsComplete` follow.

**GitFetch.** `FetchInv`: the buffer holds what came last without gaps
(`Contiguous`), so that what is parsed is a prefix of the answer; where that prefix
ends agrees with what the reader of the pack has noted (`Place`): it ends before the
next object's header, or inside the object it decodes, or the header is there
once more because of a cut; and what a cut can do (`Cuts`). It is needed because
`NothingLost` alone forgets where the reader stands when the buffer is empty. A parser
is given the buffer or the buffer with a message, and both are an `Input` that
continues what is parsed; one lemma for each parser shows that it keeps `FetchInv`
from any `Input`. `NothingIsLost`, `FetchCompletes` and `CutsDoNotMatter` follow.
`LatestInv`: after each line the revisions are those of the branches at HEAD among the lines
so far, in their order (`Returns`, a bijection that keeps it), and `head` is the first line's
hash; a line either adds one at the end (`ReturnsMore`) or none (`ReturnsNone`). From it
follows `LatestAreAtHead`.

**SourceRefresh.** `RefreshInv`: the types, and for each call that what it has
listed are rows that follow a ref, and that every listed layer set that is not among
what it has left to do has a layer of the listed commit (`CallInv`). Layers only grow
and a layer set never changes its ref, which is why one caller's step leaves the statement about another
one's true (`RefreshesAreComplete`). `LastLayerIdCovers` is inductive
together with the types: it speaks of the layer that a call is about to insert as well as of those that are
there, because `last_layer_id` is raised first (`SetLastLayerIdCovers`) and the insert only uses up what was
raised (`CreateLayerCovers`); that others raise it further does no harm (`LastLayerIdsCover`).

**GitClone.** `MappedInv`: everything the index names is in the pack file, and outside of
a batch in the mapping; inside one, the listed delta and the place *its parent had when it was
listed* are mapped. `BatchIsMapped` alone is not inductive because reconstruction
replaces places of the index by ones behind the mapping while the batch is still at
work. That the place of a plain object exists (the last of its offsets) needs that a
bounded set of numbers has a maximum, which is proved from the well-foundedness of
strict inclusion (`LastOne`).
`CloneInv` has one part for each thing that a clone does. `DirInv` and `StackInv`: every
directory is the root's or an item's of another, and every item of one has been walked or is
on the stack, so that nothing is left out once the stack is empty. `FileInv`: what is on disk is the commit's, or what
the server gave for a pointer. `ListInv`, `HandledInv`, `OnceInv`: the task and the call pass
each tracked file on from one place to the next, so that at the end it has been fetched, and
one that only one directory matches is fetched while it is still a pointer, which is why only
two matches can make it `TooLarge`. `StageInv` ties the parts to the program counters.
`ClonesAreExact` follows.

**PackObject.** These theorems are about data: what recursive functions make of every number
and every row of pieces. The library's induction takes an operator as its parameter, which the
provers cannot instantiate. It is stated for a set instead: one that has 0, and the successor of each number it
has, has all numbers (`Induct`, from the well-foundedness of `<`). From it follows
that there is a function with given steps (`Recursion`), hence that `VarCode`,
`LastBytes`, `LastCodes` and `LastLengths` satisfy the equations that define them (`VarCodes`,
`BytesFollow`, `CodesFollow`, `LengthsFollow`), without which nothing can be said of them.

A parser is then compared with the code it reads, on whatever has come: bytes that agree with the code as far as both go
(`Agrees`). A number is read from its code as soon as its last byte is there
(`VarRead`, by induction on the number, one byte at a time: `ShortRead`, `LongRead`), and so is a header (`HeadersRead`).
The first byte of a copy gives the set of the bytes that follow (`FirstByteSays`), each of
which has its place (`Ranks`), so that an instruction is read as it was written whether git
leaves out the bytes that are 0 or not (`PieceRead`).

`ObjectInv` adds to the two properties what `reconstruct()` relies on: after k pieces what is
left is the codes of the others, cut off where the delta was, and `written` is short of the
announced length by what the others make (`HasMade`). Since each piece makes at least one
byte and has a code of at least one, the lengths agree at the end just when all pieces were made
(`LeftOver`); that is why the check of `written_bytes` catches a delta that is cut off between two instructions.
`HeadersAreExact` and `DeltasAreExact` follow. The theorems are in
`GitFetch_proofs`, whose units they are about.

**SiteDeploy.** `DeployInv`: a transaction holds the lock of the build it is about,
locks are disjoint and on queued rows (`ClaimInv`); the running tasks are in the pool, which
has room whenever the stream is asked (`PoolInv`); a task at a stage has stored all
that is not among its `todo` (`Progress`); a request is about the layer of a complete deployment
and has not found the candidates before the one it tries (`RequestInv`). From it
`BuildsAreClaimedOnce`, `TasksAreBounded`, `DeploymentsAreComplete` and `AnswersAreDeployed`.
`ServedIsDeployed` needs that files and members are never taken away and that the
walk of a build is done when its deployment is committed.

**BlobStore.** `BlobInv`: before it is finalized an upload owns the chunks under its
id, as many as its stage says, and each blob it has passed is whole on disk, or is not there and
has been overlooked (`Stage`, `Accounted`); no blob is there in part, and no chunk of a file
without a row (`RowsInv`); a file has the chunks of one of its uploads, whose blobs are accounted
for (`FileIsWhole`). `FilesAreWhole` follows, and `StoreImplementsCatalog`: `FinalizeFile` is the
`Store` of `FileCatalog`, `RenameBlob` its `Repair`, `CheckBlob` its `Doubt`, each of which may stutter
as every other step does; a file without doubt is readable from its first moment because its blobs
are accounted for and none of them is overlooked. `ResponseInv`: what a response
has loaded and has still to load are together the chunks of one upload (`Loaded`, an injection
that each blob extends by one place); at the end the injection is a bijection, and a
blob that it does not find is one of an upload of the file and so accounted for
(`ServedFilesAreWhole`).

**AcmeOrders.** `AcmeInv`: a process that is past `Record` has its row (`StageInv`), a
recent row of it is the only one for its domain (`OrdersApart`), and a validated domain is
the only one of its name and has a certificate (`OneOwner`). `CertificatesStay` is an action
property: from `OneOwner` it follows that the domain that loses its validation does so to one
that has just got a certificate.

**Only model-checked.** `BuildReturns`, `UploadEnds`, `FetchEnds`, `CloneEnds`, `BuildsEnd`
and `ProcessingEnds`, which are liveness: they rest on fairness and so on `ENABLED`, which the
prover cannot reason about. Every other property that a passing run checks is proved.

## 5. Not modelled

- Certificates over Scylla, and its build queue: `update_certificate_renewal`,
  `create_domain` and `assign_build` are `todo!()`, `process_certificate` does not
  compile. There is no behaviour to translate, and no hazard of it is listed.
- The TLS certificate resolver is commented out at `fairing/src/server/mod.rs:40`. The DNS
  server is a function of a request and one query, and part of `Validate`.
- The older copy of the git client (`fairing/src/backends/remote_source/git/`) differs from
  the newer one in its types, in naming layer sets while it lists refs, and in when it
  disconnects; `SiteDeploy` has its result.
- Encodings: the bytes of lines, commits and the items of trees, signatures of
  the ACME client, version 7 uuids, resource names. `GitFetch`'s units and `GitExtract`'s items are
  what their parsers return.
- Teams, users and their deletion; keyspaces; the content of `Fairing.toml`; what WebAssembly
  modules make of an answer. The handlers of the gRPC server that read, or call one backend operation
  each, have no state between two steps. None of them checks the membership of a
  team (their FIXMEs), so that there is no permission to state beyond `Can`.
- An order of the ACME server that no process asks for any longer is not followed.
- The command line client, configuration, logging.

## 6. Plan

What is left: `LayerBuild` started by `SourceRefresh` instead of by `SetLastLayerId` and
`CreateLayer` of its own.
