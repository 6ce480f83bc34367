----------------------------- MODULE LayerBuild -----------------------------
(***************************************************************************)
(* How layers are created, built and published: the rows of layer_sets,    *)
(* layers, layer_changes and layer_members that server processes share in  *)
(* ScyllaDB (crates/scylla-repositories/src/layers.rs), and the build      *)
(* worker of each process (crates/fairing-core/src/services/build.rs).     *)
(*                                                                         *)
(* Every query is one step, because a worker awaits it and other processes *)
(* run in between.  A conditional update (UPDATE .. IF ..) is atomic, the  *)
(* two updates of cancel_layer and of finish_finalizing are not.           *)
(***************************************************************************)
EXTENDS Naturals

CONSTANTS
    LayerSet,   \* layer sets, numbered in the order a table scan meets them
    LayerId,    \* ids LayerId::new may draw, in the order of their uuids
    SetOf,      \* the layer set each of these ids is drawn for
    Worker,     \* ids of BuildService::new: a restarted process has a new one
    NoWorker,   \* a null worker id column
    Host,       \* machines, each with its own .data/builds directory
    HostOf,     \* the machine a worker's process runs on
    Path,       \* paths of files
    Content,    \* the files of a layer's commit, none when it has no source
    Rounds      \* how often a process calls build() before it only serves

\* Uuid::nil(), which the rows hold for "none".
Nil == 0

ASSUME LayerSetAssumption == LayerSet \subseteq Nat
ASSUME LayerIdAssumption == LayerId \subseteq Nat \ {Nil}
ASSUME SetOfAssumption == SetOf \in [LayerId -> LayerSet]
ASSUME WorkerAssumption == NoWorker \notin Worker
ASSUME HostAssumption == HostOf \in [Worker -> Host]
ASSUME ContentAssumption == Content \in [LayerId -> SUBSET Path]
ASSUME RoundsAssumption == Rounds \in Nat

VARIABLES
    lastLayerId,     \* layer_sets.last_layer_id
    buildCurrent,    \* layer_sets.build_current_layer_id
    buildLast,       \* layer_sets.build_last_layer_id
    reserved,        \* ids in last_layer_id whose layers row is still to come
    status,          \* layers.status, "absent" before the insert
    buildWorker,     \* layers.build_worker_id
    finalizeWorker,  \* layers.finalize_worker_id
    changes,         \* layer_changes: paths by layer and by worker
    members,         \* layer_members: paths by layer
    cloned,          \* <<host, layer>> whose source directory exists
    pc,              \* the query each worker runs next
    round,           \* calls of build() each worker has begun
    phase,           \* which list of pending layers it goes through
    todo,            \* the rest of that list
    job,             \* the layer it works on
    batch            \* changes it has read and not yet copied to members

tableVars == <<lastLayerId, buildCurrent, buildLast, reserved, status,
               buildWorker, finalizeWorker, changes, members, cloned>>
workerVars == <<pc, round, phase, todo, job, batch>>
vars == <<lastLayerId, buildCurrent, buildLast, reserved, status, buildWorker,
          finalizeWorker, changes, members, cloned,
          pc, round, phase, todo, job, batch>>

LayerIdOrNil == LayerId \cup {Nil}
WorkerOrNone == Worker \cup {NoWorker}
LayerStatus == {"building", "finalizing", "ready", "cancelled"}

\* Where build_single and finalize_single stand.
BuildLabel == {"buildSetCurrent", "buildLock", "buildClone", "buildWrite"}
FinalizeLabel == {"finalizeSetCurrent", "finalizeLock", "finalizeList",
                  "finalizeMembers", "finalizeClear"}
CancelLabel == {"cancelStatus", "cancelCurrent"}
JobLabel == BuildLabel \cup FinalizeLabel \cup CancelLabel
Label == JobLabel \cup {"idle", "pick", "dead"}

TypeOK ==
    /\ lastLayerId \in [LayerSet -> LayerIdOrNil]
    /\ buildCurrent \in [LayerSet -> LayerIdOrNil]
    /\ buildLast \in [LayerSet -> LayerIdOrNil]
    /\ reserved \in SUBSET LayerId
    /\ status \in [LayerId -> LayerStatus \cup {"absent"}]
    /\ buildWorker \in [LayerId -> WorkerOrNone]
    /\ finalizeWorker \in [LayerId -> WorkerOrNone]
    /\ changes \in [LayerId -> [Worker -> SUBSET Path]]
    /\ members \in [LayerId -> SUBSET Path]
    /\ cloned \in SUBSET (Host \X LayerId)
    /\ pc \in [Worker -> Label]
    /\ round \in [Worker -> 0..Rounds]
    /\ phase \in [Worker -> {"building", "finalizing"}]
    /\ todo \in [Worker -> SUBSET LayerId]
    /\ job \in [Worker -> LayerIdOrNil]
    /\ batch \in [Worker -> SUBSET Path]
    /\ \A w \in Worker : pc[w] \in JobLabel => job[w] \in LayerId

Init ==
    /\ lastLayerId = [s \in LayerSet |-> Nil]
    /\ buildCurrent = [s \in LayerSet |-> Nil]
    /\ buildLast = [s \in LayerSet |-> Nil]
    /\ reserved = {}
    /\ status = [l \in LayerId |-> "absent"]
    /\ buildWorker = [l \in LayerId |-> NoWorker]
    /\ finalizeWorker = [l \in LayerId |-> NoWorker]
    /\ changes = [l \in LayerId |-> [w \in Worker |-> {}]]
    /\ members = [l \in LayerId |-> {}]
    /\ cloned = {}
    /\ pc = [w \in Worker |-> "idle"]
    /\ round = [w \in Worker |-> 0]
    /\ phase = [w \in Worker |-> "building"]
    /\ todo = [w \in Worker |-> {}]
    /\ job = [w \in Worker |-> Nil]
    /\ batch = [w \in Worker |-> {}]

-----------------------------------------------------------------------------
(***************************************************************************)
(* Creating a layer.  The id is recorded first, by a conditional update    *)
(* that refuses an id older than the recorded one, and the row inserted    *)
(* afterwards; the caller may fail in between and leave the id unused.     *)
(***************************************************************************)

SetLastLayerId(l) ==
    /\ status[l] = "absent"
    /\ l \notin reserved
    /\ lastLayerId[SetOf[l]] < l
    /\ lastLayerId' = [lastLayerId EXCEPT ![SetOf[l]] = l]
    /\ reserved' = reserved \cup {l}
    /\ UNCHANGED <<buildCurrent, buildLast, status, buildWorker,
                   finalizeWorker, changes, members, cloned, workerVars>>

CreateLayer(l) ==
    /\ l \in reserved
    /\ reserved' = reserved \ {l}
    /\ status' = [status EXCEPT ![l] = "building"]
    /\ UNCHANGED <<lastLayerId, buildCurrent, buildLast, buildWorker,
                   finalizeWorker, changes, members, cloned, workerVars>>

-----------------------------------------------------------------------------
(***************************************************************************)
(* The loops of build().  A list of pending layers is a snapshot, in the   *)
(* order of the scan: by layer set, in a layer set the newest first.       *)
(***************************************************************************)

PendingBuilding == {l \in LayerId : status[l] = "building" /\ buildWorker[l] = NoWorker}
PendingFinalizing == {l \in LayerId : status[l] = "finalizing" /\ finalizeWorker[l] = NoWorker}

ScannedBefore(l, m) ==
    SetOf[l] < SetOf[m] \/ (SetOf[l] = SetOf[m] /\ l > m)

Goto(w, label) ==
    /\ pc' = [pc EXCEPT ![w] = label]
    /\ job' = IF label \in JobLabel THEN job ELSE [job EXCEPT ![w] = Nil]

StartRound(w) ==
    /\ pc[w] = "idle"
    /\ round[w] < Rounds
    /\ round' = [round EXCEPT ![w] = @ + 1]
    /\ phase' = [phase EXCEPT ![w] = "building"]
    /\ todo' = [todo EXCEPT ![w] = PendingBuilding]
    /\ Goto(w, "pick")
    /\ UNCHANGED <<tableVars, batch>>

StartFinalizing(w) ==
    /\ pc[w] = "pick"
    /\ phase[w] = "building"
    /\ todo[w] = {}
    /\ phase' = [phase EXCEPT ![w] = "finalizing"]
    /\ todo' = [todo EXCEPT ![w] = PendingFinalizing]
    /\ UNCHANGED <<tableVars, pc, round, job, batch>>

EndRound(w) ==
    /\ pc[w] = "pick"
    /\ phase[w] = "finalizing"
    /\ todo[w] = {}
    /\ Goto(w, "idle")
    /\ UNCHANGED <<tableVars, round, phase, todo, batch>>

\* The next layer of the list, and the label its layer set's row leads to.
Take(w, l, label) ==
    /\ pc[w] = "pick"
    /\ l \in todo[w]
    /\ \A m \in todo[w] \ {l} : ScannedBefore(l, m)
    /\ todo' = [todo EXCEPT ![w] = @ \ {l}]
    /\ pc' = [pc EXCEPT ![w] = label]
    /\ job' = [job EXCEPT ![w] = IF label = "pick" THEN Nil ELSE l]
    /\ UNCHANGED <<tableVars, round, phase, batch>>

\* Mutant: a layer is stale as soon as a newer one is created.
StaleOnceSuperseded(l) == lastLayerId[SetOf[l]] > l

IsStale(l) == buildLast[SetOf[l]] > l
IsBlocked(l) == buildCurrent[SetOf[l]] \notin {Nil, l}

TakeStale(w, l) ==
    /\ phase[w] = "building"
    /\ IsStale(l)
    /\ Take(w, l, "cancelStatus")

\* Mutant: the worker waits for the lock instead of passing the layer over.
TakeBlockedWaits(w, l) ==
    /\ phase[w] = "building"
    /\ ~IsStale(l)
    /\ IsBlocked(l)
    /\ pc[w] = "pick"
    /\ l \in todo[w]
    /\ UNCHANGED vars

TakeBlocked(w, l) ==
    /\ phase[w] = "building"
    /\ ~IsStale(l)
    /\ IsBlocked(l)
    /\ Take(w, l, "pick")

TakeBuildable(w, l) ==
    /\ phase[w] = "building"
    /\ ~IsStale(l)
    /\ ~IsBlocked(l)
    /\ Take(w, l, "buildSetCurrent")

TakeFinalizing(w, l) ==
    /\ phase[w] = "finalizing"
    /\ Take(w, l, "finalizeSetCurrent")

-----------------------------------------------------------------------------
(***************************************************************************)
(* cancel_layer.  When the layer is no longer building, build() returns    *)
(* the error and the server process exits.                                 *)
(***************************************************************************)

Exit(w) ==
    /\ Goto(w, "dead")
    /\ todo' = [todo EXCEPT ![w] = {}]
    /\ batch' = [batch EXCEPT ![w] = {}]
    /\ UNCHANGED <<round, phase>>

\* Mutant: the update has no condition on the status.
CanCancelAlways(l) == status[l] # "absent"

CanCancel(l) == status[l] = "building"

\* Mutant: the second update has no condition on the current build.
ClearsAnyCurrent(l) == [buildCurrent EXCEPT ![SetOf[l]] = Nil]

ClearsCurrent(l) ==
    [buildCurrent EXCEPT ![SetOf[l]] = IF @ = l THEN Nil ELSE @]

CancelStatus(w) ==
    /\ pc[w] = "cancelStatus"
    /\ \/ /\ CanCancel(job[w])
          /\ status' = [status EXCEPT ![job[w]] = "cancelled"]
          /\ Goto(w, "cancelCurrent")
          /\ UNCHANGED <<round, phase, todo, batch>>
       \/ /\ ~CanCancel(job[w])
          /\ Exit(w)
          /\ UNCHANGED status
    /\ UNCHANGED <<lastLayerId, buildCurrent, buildLast, reserved, buildWorker,
                   finalizeWorker, changes, members, cloned>>

CancelCurrent(w) ==
    /\ pc[w] = "cancelCurrent"
    /\ buildCurrent' = ClearsCurrent(job[w])
    /\ Goto(w, "pick")
    /\ UNCHANGED <<lastLayerId, buildLast, reserved, status, buildWorker,
                   finalizeWorker, changes, members, cloned,
                   round, phase, todo, batch>>

-----------------------------------------------------------------------------
(***************************************************************************)
(* build_single and finalize_single.  Whatever comes of build_single,      *)
(* finalize_single follows; an error of either is logged and no more.      *)
(***************************************************************************)

\* Mutants: the update forgets one of its two conditions.
CanSetWhileCurrent(s, l) == buildLast[s] < l
CanSetOlder(s, l) == buildCurrent[s] = Nil

CanSetCurrent(s, l) == buildCurrent[s] = Nil /\ buildLast[s] < l

TrySetCurrentBuild(w, here, applied, refused) ==
    LET l == job[w]
        s == SetOf[l] IN
    /\ pc[w] = here
    /\ \/ /\ CanSetCurrent(s, l)
          /\ buildCurrent' = [buildCurrent EXCEPT ![s] = l]
          /\ Goto(w, applied)
       \/ /\ buildCurrent[s] = l
          /\ Goto(w, applied)
          /\ UNCHANGED buildCurrent
       \/ /\ buildCurrent[s] # l
          /\ ~CanSetCurrent(s, l)
          /\ Goto(w, refused)
          /\ UNCHANGED buildCurrent
    /\ UNCHANGED <<lastLayerId, buildLast, reserved, status, buildWorker,
                   finalizeWorker, changes, members, cloned,
                   round, phase, todo, batch>>

BuildSetCurrent(w) ==
    TrySetCurrentBuild(w, "buildSetCurrent", "buildLock", "finalizeSetCurrent")

FinalizeSetCurrent(w) ==
    TrySetCurrentBuild(w, "finalizeSetCurrent", "finalizeLock", "pick")

BuildLayer(w) ==
    LET l == job[w] IN
    /\ pc[w] = "buildLock"
    /\ \/ /\ status[l] = "building" /\ buildWorker[l] = NoWorker
          /\ buildWorker' = [buildWorker EXCEPT ![l] = w]
          /\ Goto(w, "buildClone")
       \/ /\ status[l] # "building" \/ buildWorker[l] # NoWorker
          /\ Goto(w, "finalizeSetCurrent")
          /\ UNCHANGED buildWorker
    /\ UNCHANGED <<lastLayerId, buildCurrent, buildLast, reserved, status,
                   finalizeWorker, changes, members, cloned,
                   round, phase, todo, batch>>

\* git_clone creates the directory "source" and fails when an earlier attempt
\* on this machine has left one.
GitClone(w) ==
    LET l == job[w]
        dir == <<HostOf[w], l>> IN
    /\ pc[w] = "buildClone"
    /\ \/ /\ Content[l] = {}
          /\ Goto(w, "buildWrite")
          /\ UNCHANGED cloned
       \/ /\ Content[l] # {}
          /\ dir \notin cloned
          /\ cloned' = cloned \cup {dir}
          /\ Goto(w, "buildWrite")
       \/ /\ Content[l] # {}
          /\ dir \in cloned
          /\ Goto(w, "finalizeSetCurrent")
          /\ UNCHANGED cloned
    /\ UNCHANGED <<lastLayerId, buildCurrent, buildLast, reserved, status,
                   buildWorker, finalizeWorker, changes, members,
                   round, phase, todo, batch>>

\* One call of create_layer_changes; how the walk over the directories splits
\* the files into batches is left open.
CreateLayerChanges(w) ==
    LET l == job[w] IN
    /\ pc[w] = "buildWrite"
    /\ \E files \in SUBSET (Content[l] \ changes[l][w]) :
          /\ files # {}
          /\ changes' = [changes EXCEPT ![l][w] = @ \cup files]
    /\ UNCHANGED <<lastLayerId, buildCurrent, buildLast, reserved, status,
                   buildWorker, finalizeWorker, members, cloned, workerVars>>

\* Mutant: the update forgets who holds the lock of the layer.
CanFinishAnyBuild(w, l) == status[l] = "building"

CanFinishBuild(w, l) == status[l] = "building" /\ buildWorker[l] = w

FinishBuild(w) ==
    LET l == job[w] IN
    /\ pc[w] = "buildWrite"
    /\ changes[l][w] = Content[l]
    /\ status' = IF CanFinishBuild(w, l)
                 THEN [status EXCEPT ![l] = "finalizing"]
                 ELSE status
    /\ Goto(w, "finalizeSetCurrent")
    /\ UNCHANGED <<lastLayerId, buildCurrent, buildLast, reserved, buildWorker,
                   finalizeWorker, changes, members, cloned,
                   round, phase, todo, batch>>

FinalizeLayer(w) ==
    LET l == job[w] IN
    /\ pc[w] = "finalizeLock"
    /\ \/ /\ status[l] = "finalizing" /\ finalizeWorker[l] = NoWorker
          /\ finalizeWorker' = [finalizeWorker EXCEPT ![l] = w]
          /\ Goto(w, "finalizeList")
       \/ /\ status[l] # "finalizing" \/ finalizeWorker[l] # NoWorker
          /\ Goto(w, "pick")
          /\ UNCHANGED finalizeWorker
    /\ UNCHANGED <<lastLayerId, buildCurrent, buildLast, reserved, status,
                   buildWorker, changes, members, cloned,
                   round, phase, todo, batch>>

\* The changes recorded under the id of the worker that finalizes.
ListLayerChanges(w) ==
    /\ pc[w] = "finalizeList"
    /\ batch' = [batch EXCEPT ![w] = changes[job[w]][w]]
    /\ Goto(w, "finalizeMembers")
    /\ UNCHANGED <<tableVars, round, phase, todo>>

CreateLayerMember(w) ==
    /\ pc[w] = "finalizeMembers"
    /\ \E file \in batch[w] :
          /\ members' = [members EXCEPT ![job[w]] = @ \cup {file}]
          /\ batch' = [batch EXCEPT ![w] = @ \ {file}]
    /\ UNCHANGED <<lastLayerId, buildCurrent, buildLast, reserved, status,
                   buildWorker, finalizeWorker, changes, cloned,
                   pc, round, phase, todo, job>>

\* The first update of finish_finalizing.
FinishLayer(w) ==
    LET l == job[w] IN
    /\ pc[w] = "finalizeMembers"
    /\ batch[w] = {}
    /\ \/ /\ status[l] = "finalizing" /\ finalizeWorker[l] = w
          /\ status' = [status EXCEPT ![l] = "ready"]
          /\ Goto(w, "finalizeClear")
       \/ /\ status[l] # "finalizing" \/ finalizeWorker[l] # w
          /\ Goto(w, "pick")
          /\ UNCHANGED status
    /\ UNCHANGED <<lastLayerId, buildCurrent, buildLast, reserved, buildWorker,
                   finalizeWorker, changes, members, cloned,
                   round, phase, todo, batch>>

\* Mutants: the update keeps the lock, or records the newest layer as built.
UnlockKeepsCurrent(s, l) ==
    /\ buildLast' = [buildLast EXCEPT ![s] = l]
    /\ UNCHANGED buildCurrent
UnlockToNewest(s, l) ==
    /\ buildCurrent' = [buildCurrent EXCEPT ![s] = Nil]
    /\ buildLast' = [buildLast EXCEPT ![s] = lastLayerId[s]]

Unlock(s, l) ==
    /\ buildCurrent' = [buildCurrent EXCEPT ![s] = Nil]
    /\ buildLast' = [buildLast EXCEPT ![s] = l]

\* The second update of finish_finalizing.
FinishLayerSet(w) ==
    LET l == job[w]
        s == SetOf[l] IN
    /\ pc[w] = "finalizeClear"
    /\ IF buildCurrent[s] = l
       THEN Unlock(s, l)
       ELSE UNCHANGED <<buildCurrent, buildLast>>
    /\ Goto(w, "pick")
    /\ UNCHANGED <<lastLayerId, reserved, status, buildWorker, finalizeWorker,
                   changes, members, cloned, round, phase, todo, batch>>

-----------------------------------------------------------------------------
(***************************************************************************)
(* Faults.  An error of a query, or of the file system, ends build_single  *)
(* or finalize_single at any of its steps; elsewhere it ends the process,  *)
(* as a crash does.  The time to live of a lock may run out at any moment, *)
(* until finish_build or finish_finalizing writes the column without one.  *)
(***************************************************************************)

BuildError(w) ==
    /\ pc[w] \in BuildLabel
    /\ Goto(w, "finalizeSetCurrent")
    /\ UNCHANGED <<tableVars, round, phase, todo, batch>>

FinalizeError(w) ==
    /\ pc[w] \in FinalizeLabel
    /\ Goto(w, "pick")
    /\ batch' = [batch EXCEPT ![w] = {}]
    /\ UNCHANGED <<tableVars, round, phase, todo>>

Crash(w) ==
    /\ pc[w] # "dead"
    /\ Exit(w)
    /\ UNCHANGED tableVars

ExpireBuildLock(l) ==
    /\ buildWorker[l] # NoWorker
    /\ status[l] \in {"building", "cancelled"}
    /\ buildWorker' = [buildWorker EXCEPT ![l] = NoWorker]
    /\ UNCHANGED <<lastLayerId, buildCurrent, buildLast, reserved, status,
                   finalizeWorker, changes, members, cloned, workerVars>>

ExpireFinalizeLock(l) ==
    /\ finalizeWorker[l] # NoWorker
    /\ status[l] = "finalizing"
    /\ finalizeWorker' = [finalizeWorker EXCEPT ![l] = NoWorker]
    /\ UNCHANGED <<lastLayerId, buildCurrent, buildLast, reserved, status,
                   buildWorker, changes, members, cloned, workerVars>>

-----------------------------------------------------------------------------
Create == \E l \in LayerId : SetLastLayerId(l) \/ CreateLayer(l)

Loop(w) ==
    \/ StartRound(w)
    \/ StartFinalizing(w)
    \/ EndRound(w)
    \/ \E l \in LayerId : \/ TakeStale(w, l)
                          \/ TakeBlocked(w, l)
                          \/ TakeBuildable(w, l)
                          \/ TakeFinalizing(w, l)

CancelStep(w) == CancelStatus(w) \/ CancelCurrent(w)

BuildStep(w) ==
    \/ BuildSetCurrent(w)
    \/ BuildLayer(w)
    \/ GitClone(w)
    \/ CreateLayerChanges(w)
    \/ FinishBuild(w)

FinalizeStep(w) ==
    \/ FinalizeSetCurrent(w)
    \/ FinalizeLayer(w)
    \/ ListLayerChanges(w)
    \/ CreateLayerMember(w)
    \/ FinishLayer(w)
    \/ FinishLayerSet(w)

WorkerStep(w) == Loop(w) \/ CancelStep(w) \/ BuildStep(w) \/ FinalizeStep(w)

Fault ==
    \/ \E w \in Worker : BuildError(w) \/ FinalizeError(w) \/ Crash(w)
    \/ \E l \in LayerId : ExpireBuildLock(l) \/ ExpireFinalizeLock(l)

Normal == Create \/ \E w \in Worker : WorkerStep(w)
Next == Normal \/ Fault

Fairness == \A w \in Worker : WF_vars(WorkerStep(w))

Spec == Init /\ [][Next]_vars
FaultFreeSpec == Init /\ [][Normal]_vars
FairSpec == Spec /\ Fairness

-----------------------------------------------------------------------------
(***************************************************************************)
(* Properties.                                                             *)
(***************************************************************************)

SameSet(l, m) == SetOf[l] = SetOf[m]

\* Worker w is past try_set_current_build in build_single of l.
Building(w, l) == job[w] = l /\ pc[w] \in BuildLabel \ {"buildSetCurrent"}

\* Work on l can still lead to a published layer.
InFlight(l) ==
    \/ status[l] = "finalizing"
    \/ status[l] = "building" /\ \E w \in Worker : Building(w, l)

\* build_current_layer_id is a lock on the layer set: two layers of a set are
\* never in flight together, although workers act on old lists and old reads
\* of the row, lose their locks to the time to live, and crash.
OneLayerInFlight ==
    \A l, m \in LayerId :
        SameSet(l, m) /\ InFlight(l) /\ InFlight(m) => l = m

\* A layer becomes ready only while every ready layer of its set is older, so
\* a slow build never replaces the result of a newer one.
PublishedInOrder ==
    [][\A l, m \in LayerId :
          /\ status[l] # "ready" /\ status'[l] = "ready"
          /\ status[m] = "ready" /\ SameSet(l, m)
          => m < l]_vars

\* build_last_layer_id, by which build() calls a layer stale and by which
\* try_set_current_build refuses it, only grows, and to layers that are ready.
LastBuildAdvances ==
    [][\A s \in LayerSet : buildLast'[s] # buildLast[s] =>
          /\ buildLast'[s] > buildLast[s]
          /\ status'[buildLast'[s]] = "ready"]_vars

\* cancel_layer loses nothing and leaves nothing locked: a newer layer of the
\* set is ready, and the cancelled layer is not the current build, even when
\* the process ends between the two updates of cancel_layer.
CancelledIsSuperseded ==
    \A l \in LayerId : status[l] = "cancelled" =>
        /\ \E m \in LayerId : SameSet(l, m) /\ l < m /\ status[m] = "ready"
        /\ buildCurrent[SetOf[l]] # l

\* The second ensure!(applied) of finish_finalizing never fails: between its
\* two updates no other worker takes or clears the lock of the layer set.
FinishHoldsLock ==
    \A w \in Worker : pc[w] = "finalizeClear" =>
        buildCurrent[SetOf[job[w]]] = job[w]

\* A layer made ready by the worker that built it has all the files of its
\* commit, whatever other workers attempted on it before or meanwhile.
ReadyIsComplete ==
    \A l \in LayerId :
        status[l] = "ready" /\ buildWorker[l] = finalizeWorker[l]
        => members[l] = Content[l]

\* Without faults a locked layer set can always be worked on: its layer is
\* pending, so that a later build() takes it up, or a worker is about to
\* clear the lock.
LockIsRecoverable ==
    \A s \in LayerSet : buildCurrent[s] # Nil =>
        \/ status[buildCurrent[s]] \in {"building", "finalizing"}
        \/ \E w \in Worker : pc[w] = "finalizeClear" /\ job[w] = buildCurrent[s]

\* While no other process calls build(), a worker without faults leaves every
\* layer it takes up ready or cancelled, and passes none over because of a lock.
Alone(w) == \A v \in Worker \ {w} : round[v] = 0

SoloWorkerSettles ==
    [][\A w \in Worker, l \in LayerId :
          /\ Alone(w)
          /\ l \in todo[w] \/ job[w] = l
          /\ l \notin todo'[w] /\ job'[w] # l
          => status'[l] \in {"ready", "cancelled"}]_vars

\* What build.rs:72 says of a layer that is passed over, "Another layer is
\* being built": some worker is at work on the layer that holds the lock.
BlockedByABuild ==
    [][\A w \in Worker, l \in LayerId : TakeBlocked(w, l) =>
          \E v \in Worker :
              pc[v] \in JobLabel /\ job[v] = buildCurrent[SetOf[l]]]_vars

\* A call of build() returns or ends its process, if its uploads end, which is
\* a matter of FileStore: no worker waits for another one, alive or crashed, and
\* no list keeps a worker busy for ever.
BuildReturns ==
    \A w \in Worker : round[w] > 0 /\ pc[w] = "pick" ~> pc[w] \in {"idle", "dead"}

-----------------------------------------------------------------------------
(***************************************************************************)
(* The inductive invariant behind these properties.                        *)
(***************************************************************************)

\* A layer has no row while its id is reserved, and workers only know of
\* layers that have one.
KnownLayers ==
    /\ \A l \in reserved : status[l] = "absent"
    /\ \A w \in Worker :
          /\ pc[w] \in JobLabel => status[job[w]] # "absent"
          /\ \A l \in todo[w] : status[l] # "absent"

\* The row of a layer set: the lock is on a layer newer than the last built
\* one, and the last built one is ready.
SetRow ==
    \A s \in LayerSet :
        /\ buildCurrent[s] # Nil =>
              SetOf[buildCurrent[s]] = s /\ buildLast[s] < buildCurrent[s]
        /\ buildLast[s] # Nil =>
              SetOf[buildLast[s]] = s /\ status[buildLast[s]] = "ready"

\* How the status of a layer binds the row of its set.
LayerRow ==
    \A l \in LayerId :
        /\ InFlight(l) => buildCurrent[SetOf[l]] = l
        /\ status[l] = "ready" =>
              l <= buildLast[SetOf[l]] \/ buildCurrent[SetOf[l]] = l
        /\ status[l] = "cancelled" => l < buildLast[SetOf[l]]

\* What a worker between the two updates of cancel_layer, or of
\* finish_finalizing, may rely on.
BetweenUpdates ==
    /\ \A w \in Worker :
          /\ pc[w] = "cancelStatus" => IsStale(job[w])
          /\ pc[w] = "cancelCurrent" => status[job[w]] = "cancelled"
          /\ pc[w] = "finalizeClear" =>
                /\ status[job[w]] = "ready"
                /\ buildCurrent[SetOf[job[w]]] = job[w]
    /\ \A v, w \in Worker :
          pc[v] = "finalizeClear" /\ pc[w] = "finalizeClear" /\ job[v] = job[w]
          => v = w

LockInv == KnownLayers /\ SetRow /\ LayerRow /\ BetweenUpdates

\* How files pass from the commit through layer_changes to layer_members.
FilesInv ==
    /\ \A l \in LayerId :
          /\ members[l] \subseteq Content[l]
          /\ \A w \in Worker : changes[l][w] \subseteq Content[l]
          /\ status[l] \in {"finalizing", "ready"} =>
                /\ buildWorker[l] # NoWorker
                /\ changes[l][buildWorker[l]] = Content[l]
          /\ status[l] = "ready" /\ buildWorker[l] = finalizeWorker[l] =>
                members[l] = Content[l]
    /\ \A w \in Worker : pc[w] = "finalizeMembers" =>
          /\ batch[w] \subseteq Content[job[w]]
          /\ changes[job[w]][w] \subseteq members[job[w]] \cup batch[w]

IInv == TypeOK /\ LockInv /\ FilesInv

-----------------------------------------------------------------------------
(***************************************************************************)
(* The inductive invariant behind SoloWorkerSettles, without faults.       *)
(***************************************************************************)

\* A lock that is taken is never lost, and a process that has not called
\* build() does nothing.
FaultFreeInv ==
    /\ \A l \in LayerId :
          /\ status[l] \in {"absent", "building"} => finalizeWorker[l] = NoWorker
          /\ status[l] = "absent" => buildWorker[l] = NoWorker
          /\ \A h \in Host : <<h, l>> \in cloned => buildWorker[l] # NoWorker
    /\ \A w \in Worker :
          /\ pc[w] \notin JobLabel => job[w] = Nil
          /\ pc[w] \in {"buildClone", "buildWrite"} => buildWorker[job[w]] = w
          /\ round[w] = 0 => pc[w] = "idle" /\ todo[w] = {}

\* Nobody is at work on the layer, and nobody has been.
Untouched(l) == status[l] = "building" /\ buildWorker[l] = NoWorker

\* The steps between the two updates of build_current_layer_id.
LockedLabel == (BuildLabel \cup FinalizeLabel) \ {"buildSetCurrent"}
HoldsLock(w) == buildCurrent[SetOf[job[w]]] = job[w]

\* How far a worker that is alone has come with its layer.
SoloJob(w) ==
    LET l == job[w] IN
    /\ pc[w] # "dead"
    /\ pc[w] \in {"cancelStatus", "buildSetCurrent", "buildLock"} => Untouched(l)
    /\ pc[w] = "cancelCurrent" => status[l] = "cancelled"
    /\ pc[w] = "buildSetCurrent" => ~IsStale(l)
    /\ pc[w] = "buildClone" => <<HostOf[w], l>> \notin cloned
    /\ pc[w] \in {"buildClone", "buildWrite"} => status[l] = "building"
    /\ pc[w] \in {"finalizeSetCurrent", "finalizeLock"} =>
          status[l] = "finalizing" /\ finalizeWorker[l] = NoWorker
    /\ pc[w] \in {"finalizeList", "finalizeMembers"} =>
          status[l] = "finalizing" /\ finalizeWorker[l] = w
    /\ pc[w] \in LockedLabel => HoldsLock(w)

\* No layer but its own is half done, and no other lock is held.
Solo(w) ==
    /\ SoloJob(w)
    /\ \A l \in todo[w] : Untouched(l) /\ l # job[w]
    /\ phase[w] = "finalizing" \/ pc[w] = "idle" => todo[w] = {}
    /\ \A l \in LayerId \ {job[w]} :
          /\ status[l] \notin {"absent", "ready", "cancelled"} => Untouched(l)
          /\ buildCurrent[SetOf[l]] # l
    /\ pc[w] \notin LockedLabel => \A s \in LayerSet : buildCurrent[s] = Nil

SoloInv == FaultFreeInv /\ \A w \in Worker : Alone(w) => Solo(w)

-----------------------------------------------------------------------------
\* The rows of layers, seen as the decisions of LayerPublish.
Publish == INSTANCE LayerPublish WITH
    pending <- {l \in LayerId : status[l] \in {"building", "finalizing"}},
    published <- {l \in LayerId : status[l] = "ready"},
    dropped <- {l \in LayerId : status[l] = "cancelled"}

\* The build protocol keeps the promise of LayerPublish.
ImplementsPublish == Publish!Spec
=============================================================================
