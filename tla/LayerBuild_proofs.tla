-------------------------- MODULE LayerBuild_proofs --------------------------
(***************************************************************************)
(* Proofs about LayerBuild, for any layer sets, layers, workers, machines  *)
(* and files.                                                              *)
(***************************************************************************)
EXTENDS LayerBuild, TLAPS

Assumptions ==
    /\ LayerSet \subseteq Nat
    /\ LayerId \subseteq Nat \ {Nil}
    /\ SetOf \in [LayerId -> LayerSet]
    /\ NoWorker \notin Worker
    /\ HostOf \in [Worker -> Host]
    /\ Content \in [LayerId -> SUBSET Path]
    /\ Rounds \in Nat

\* The assumptions on the constants, gathered under one name.
LEMMA Constants == Assumptions
BY LayerSetAssumption, LayerIdAssumption, SetOfAssumption, WorkerAssumption,
   HostAssumption, ContentAssumption, RoundsAssumption DEF Assumptions

\* Ids of layers, and the null id, are numbers.
LEMMA IdsAreNat == LayerIdOrNil \subseteq Nat
BY Constants DEF Assumptions, LayerIdOrNil, Nil

-----------------------------------------------------------------------------
\* The tables and the workers start with values of their types.
LEMMA InitType == Init => TypeOK
BY Constants DEF Assumptions, Init, TypeOK, LayerIdOrNil, WorkerOrNone, Label,
   JobLabel, BuildLabel, FinalizeLabel, CancelLabel, LayerStatus, Nil

\* create_layer keeps the types of the columns.
LEMMA CreateType ==
    ASSUME TypeOK, NEW l \in LayerId, SetLastLayerId(l) \/ CreateLayer(l)
    PROVE  TypeOK'
<1>1. CASE SetLastLayerId(l)
  BY <1>1, Constants DEF Assumptions, TypeOK, SetLastLayerId, workerVars, LayerIdOrNil
<1>2. CASE CreateLayer(l)
  BY <1>2, Constants DEF Assumptions, TypeOK, CreateLayer, workerVars, LayerStatus
<1>3. QED BY <1>1, <1>2

\* Taking a layer from the list gives the worker a layer as its job.
LEMMA TakeType ==
    ASSUME TypeOK, NEW w \in Worker, NEW l \in LayerId, NEW label \in Label,
           Take(w, l, label)
    PROVE  TypeOK'
<1>1. /\ todo' \in [Worker -> SUBSET LayerId]
      /\ pc' \in [Worker -> Label]
      /\ job' \in [Worker -> LayerIdOrNil]
  BY DEF TypeOK, Take, LayerIdOrNil
<1>2. ASSUME NEW v \in Worker, pc'[v] \in JobLabel
      PROVE  job'[v] \in LayerId
  <2>1. CASE v = w
    <3>1. label # "pick"
      BY <1>2, <2>1 DEF TypeOK, Take, JobLabel, BuildLabel, FinalizeLabel, CancelLabel
    <3>2. QED BY <2>1, <3>1 DEF TypeOK, Take
  <2>2. CASE v # w
    BY <1>2, <2>2 DEF TypeOK, Take
  <2>3. QED BY <2>1, <2>2
<1>3. QED BY <1>1, <1>2 DEF TypeOK, Take, tableVars

\* The loops of build() keep the types.
LEMMA LoopType ==
    ASSUME TypeOK, NEW w \in Worker, Loop(w)
    PROVE  TypeOK'
<1>1. CASE StartRound(w)
  BY <1>1, Constants DEF Assumptions, TypeOK, StartRound, Goto, PendingBuilding,
     LayerIdOrNil, Label, JobLabel, BuildLabel, FinalizeLabel, CancelLabel, tableVars
<1>2. CASE StartFinalizing(w)
  BY <1>2 DEF TypeOK, StartFinalizing, PendingFinalizing, tableVars
<1>3. CASE EndRound(w)
  BY <1>3 DEF TypeOK, EndRound, Goto, LayerIdOrNil, Label, JobLabel, BuildLabel,
     FinalizeLabel, CancelLabel, tableVars
<1>4. ASSUME NEW l \in LayerId,
             \/ TakeStale(w, l) \/ TakeBlocked(w, l)
             \/ TakeBuildable(w, l) \/ TakeFinalizing(w, l)
      PROVE  TypeOK'
  <2>1. {"cancelStatus", "pick", "buildSetCurrent", "finalizeSetCurrent"} \subseteq Label
    BY DEF Label, JobLabel, BuildLabel, FinalizeLabel, CancelLabel
  <2>2. QED
    BY <1>4, <2>1, TakeType DEF TakeStale, TakeBlocked, TakeBuildable, TakeFinalizing
<1>5. QED BY <1>1, <1>2, <1>3, <1>4 DEF Loop

\* Where Goto leads, a worker has the job it needs.
LEMMA GotoType ==
    ASSUME TypeOK, NEW w \in Worker, NEW label \in Label, Goto(w, label),
           label \in JobLabel => pc[w] \in JobLabel
    PROVE  /\ pc' \in [Worker -> Label]
           /\ job' \in [Worker -> LayerIdOrNil]
           /\ \A v \in Worker : pc'[v] \in JobLabel => job'[v] \in LayerId
BY DEF TypeOK, Goto, LayerIdOrNil

\* cancel_layer keeps the types.
LEMMA CancelType ==
    ASSUME TypeOK, NEW w \in Worker, CancelStep(w)
    PROVE  TypeOK'
<1> USE DEF Label, JobLabel, BuildLabel, FinalizeLabel, CancelLabel
<1>1. CASE CancelStatus(w)
  <2>1. CASE Goto(w, "cancelCurrent") /\ UNCHANGED <<round, phase, todo, batch>>
    BY <1>1, <2>1, GotoType DEF TypeOK, CancelStatus, CanCancel, LayerStatus
  <2>2. CASE Exit(w)
    BY <1>1, <2>2, GotoType DEF TypeOK, CancelStatus, CanCancel, Exit, LayerStatus
  <2>3. QED BY <1>1, <2>1, <2>2 DEF CancelStatus, CanCancel
<1>2. CASE CancelCurrent(w)
  BY <1>2, GotoType, Constants DEF Assumptions, TypeOK, CancelCurrent, ClearsCurrent, LayerIdOrNil
<1>3. QED BY <1>1, <1>2 DEF CancelStep

\* create_layer_changes only adds paths to the changes of a layer.
LEMMA ChangesType ==
    ASSUME TypeOK, NEW w \in Worker, CreateLayerChanges(w)
    PROVE  TypeOK'
<1>1. job[w] \in LayerId
  BY DEF TypeOK, CreateLayerChanges, JobLabel, BuildLabel
<1>2. PICK files \in SUBSET Content[job[w]] :
         changes' = [changes EXCEPT ![job[w]][w] = changes[job[w]][w] \cup files]
  BY DEF CreateLayerChanges
<1>3. changes[job[w]][w] \cup files \in SUBSET Path
  <2>1. changes[job[w]][w] \in SUBSET Path
    BY <1>1 DEF TypeOK
  <2>2. Content[job[w]] \in SUBSET Path
    BY <1>1, Constants DEF Assumptions
  <2>3. QED BY <2>1, <2>2
<1>4. changes' \in [LayerId -> [Worker -> SUBSET Path]]
  BY <1>1, <1>2, <1>3 DEF TypeOK
<1>5. UNCHANGED <<lastLayerId, buildCurrent, buildLast, reserved, status, buildWorker,
                  finalizeWorker, members, cloned, pc, round, phase, todo, job, batch>>
  BY DEF CreateLayerChanges, workerVars
<1>6. QED BY <1>4, <1>5 DEF TypeOK

\* A worker lists paths, and nothing but paths, as changes to copy.
LEMMA ListType ==
    ASSUME TypeOK, NEW w \in Worker, ListLayerChanges(w)
    PROVE  TypeOK'
<1>1. job[w] \in LayerId
  BY DEF TypeOK, ListLayerChanges, JobLabel, FinalizeLabel
<1>2. changes[job[w]][w] \in SUBSET Path
  BY <1>1 DEF TypeOK
<1>3. batch' \in [Worker -> SUBSET Path]
  BY <1>2 DEF TypeOK, ListLayerChanges
<1>4. /\ pc' \in [Worker -> Label]
      /\ job' \in [Worker -> LayerIdOrNil]
      /\ \A v \in Worker : pc'[v] \in JobLabel => job'[v] \in LayerId
  BY GotoType DEF ListLayerChanges, Label, JobLabel, FinalizeLabel
<1>5. UNCHANGED <<tableVars, round, phase, todo>>
  BY DEF ListLayerChanges
<1>6. QED BY <1>3, <1>4, <1>5 DEF TypeOK, tableVars

\* Copying a member only adds a path to the members of a layer.
LEMMA MemberType ==
    ASSUME TypeOK, NEW w \in Worker, CreateLayerMember(w)
    PROVE  TypeOK'
<1>1. job[w] \in LayerId
  BY DEF TypeOK, CreateLayerMember, JobLabel, FinalizeLabel
<1>2. PICK file \in batch[w] :
         /\ members' = [members EXCEPT ![job[w]] = members[job[w]] \cup {file}]
         /\ batch' = [batch EXCEPT ![w] = batch[w] \ {file}]
  BY DEF CreateLayerMember
<1>3. members[job[w]] \cup {file} \in SUBSET Path /\ batch[w] \ {file} \in SUBSET Path
  <2>1. members[job[w]] \in SUBSET Path /\ batch[w] \in SUBSET Path
    BY <1>1 DEF TypeOK
  <2>2. QED BY <2>1
<1>4. members' \in [LayerId -> SUBSET Path] /\ batch' \in [Worker -> SUBSET Path]
  BY <1>1, <1>2, <1>3 DEF TypeOK
<1>5. UNCHANGED <<lastLayerId, buildCurrent, buildLast, reserved, status, buildWorker,
                  finalizeWorker, changes, cloned, pc, round, phase, todo, job>>
  BY DEF CreateLayerMember
<1>6. QED BY <1>4, <1>5 DEF TypeOK

\* The steps of build_single keep the types.
LEMMA BuildType ==
    ASSUME TypeOK, NEW w \in Worker, BuildStep(w)
    PROVE  TypeOK'
<1> USE Constants DEF Assumptions, TypeOK, Label, JobLabel, BuildLabel, FinalizeLabel, CancelLabel
<1>1. CASE BuildSetCurrent(w)
  BY <1>1, GotoType DEF BuildSetCurrent, TrySetCurrentBuild, CanSetCurrent, LayerIdOrNil
<1>2. CASE BuildLayer(w)
  BY <1>2, GotoType DEF BuildLayer, WorkerOrNone
<1>3. CASE GitClone(w)
  BY <1>3, GotoType DEF GitClone
<1>4. CASE CreateLayerChanges(w)
  BY <1>4, ChangesType
<1>5. CASE FinishBuild(w)
  BY <1>5, GotoType DEF FinishBuild, CanFinishBuild, LayerStatus
<1>6. QED BY <1>1, <1>2, <1>3, <1>4, <1>5 DEF BuildStep

\* The steps of finalize_single keep the types.
LEMMA FinalizeType ==
    ASSUME TypeOK, NEW w \in Worker, FinalizeStep(w)
    PROVE  TypeOK'
<1> USE Constants DEF Assumptions, TypeOK, Label, JobLabel, BuildLabel, FinalizeLabel, CancelLabel
<1>1. CASE FinalizeSetCurrent(w)
  BY <1>1, GotoType DEF FinalizeSetCurrent, TrySetCurrentBuild, CanSetCurrent, LayerIdOrNil
<1>2. CASE FinalizeLayer(w)
  BY <1>2, GotoType DEF FinalizeLayer, WorkerOrNone
<1>3. CASE ListLayerChanges(w)
  BY <1>3, ListType
<1>4. CASE CreateLayerMember(w)
  BY <1>4, MemberType
<1>5. CASE FinishLayer(w)
  BY <1>5, GotoType DEF FinishLayer, LayerStatus
<1>6. CASE FinishLayerSet(w)
  BY <1>6, GotoType DEF FinishLayerSet, Unlock, LayerIdOrNil
<1>7. QED BY <1>1, <1>2, <1>3, <1>4, <1>5, <1>6 DEF FinalizeStep

\* Errors, crashes and the expiry of locks keep the types.
LEMMA FaultType ==
    ASSUME TypeOK, Fault
    PROVE  TypeOK'
<1> USE DEF TypeOK, Label, JobLabel, BuildLabel, FinalizeLabel, CancelLabel
<1>1. ASSUME NEW w \in Worker, BuildError(w)
      PROVE  TypeOK'
  BY <1>1, GotoType DEF BuildError, tableVars
<1>2. ASSUME NEW w \in Worker, FinalizeError(w)
      PROVE  TypeOK'
  BY <1>2, GotoType DEF FinalizeError, tableVars
<1>3. ASSUME NEW w \in Worker, Crash(w)
      PROVE  TypeOK'
  BY <1>3, GotoType DEF Crash, Exit, tableVars
<1>4. ASSUME NEW l \in LayerId, ExpireBuildLock(l) \/ ExpireFinalizeLock(l)
      PROVE  TypeOK'
  BY <1>4 DEF ExpireBuildLock, ExpireFinalizeLock, workerVars, WorkerOrNone
<1>5. QED BY <1>1, <1>2, <1>3, <1>4 DEF Fault

\* Every step keeps the types.
LEMMA NextType == TypeOK /\ [Next]_vars => TypeOK'
<1> SUFFICES ASSUME TypeOK, [Next]_vars PROVE TypeOK'
  OBVIOUS
<1>1. CASE UNCHANGED vars
  BY <1>1 DEF TypeOK, vars
<1>2. CASE Next
  BY <1>2, CreateType, LoopType, CancelType, BuildType, FinalizeType, FaultType
  DEF Next, Normal, Create, WorkerStep
<1>3. QED BY <1>1, <1>2

\* The columns and the workers' states keep their types.
THEOREM TypeCorrect == Spec => []TypeOK
BY InitType, NextType, PTL DEF Spec

-----------------------------------------------------------------------------
(***************************************************************************)
(* The lock of a layer set.  Most steps leave the rows alone and move one  *)
(* worker; the lemma QuietStep says what such a move must respect.         *)
(***************************************************************************)

rowVars == <<reserved, status, buildCurrent, buildLast>>

OthersStay(w) ==
    \A v \in Worker \ {w} :
        pc'[v] = pc[v] /\ job'[v] = job[v] /\ todo'[v] = todo[v]

\* Empty tables satisfy the invariant of the locks.
LEMMA InitLock == Init => LockInv
BY Constants DEF Assumptions, Init, LockInv, KnownLayers, SetRow, LayerRow, BetweenUpdates,
   InFlight, Building, JobLabel, BuildLabel, FinalizeLabel, CancelLabel, Nil

\* A step of one worker that writes no status and no row of a layer set.
LEMMA QuietStep ==
    ASSUME TypeOK, LockInv, NEW w \in Worker, UNCHANGED rowVars, OthersStay(w),
           \A l \in todo'[w] : status[l] # "absent",
           pc'[w] \in JobLabel => status[job'[w]] # "absent",
           pc'[w] = "cancelStatus" => IsStale(job'[w]),
           pc'[w] \notin {"cancelCurrent", "finalizeClear"},
           \A l \in LayerId : Building(w, l)' =>
              Building(w, l) \/ status[l] # "building" \/ buildCurrent[SetOf[l]] = l
    PROVE  LockInv'
<1>1. KnownLayers'
  BY DEF LockInv, KnownLayers, OthersStay, rowVars
<1>2. SetRow'
  BY DEF LockInv, SetRow, rowVars
<1>3. LayerRow'
  <2> SUFFICES ASSUME NEW l \in LayerId
               PROVE  InFlight(l)' => buildCurrent[SetOf[l]] = l
    BY DEF LockInv, LayerRow, rowVars
  <2>1. \A v \in Worker \ {w} : Building(v, l)' => Building(v, l)
    BY DEF Building, OthersStay
  <2>2. QED BY <2>1 DEF LockInv, LayerRow, InFlight, rowVars
<1>4. BetweenUpdates'
  BY DEF LockInv, BetweenUpdates, OthersStay, rowVars, IsStale
<1>5. QED BY <1>1, <1>2, <1>3, <1>4 DEF LockInv

\* The loops of build() keep the invariant of the locks.
LEMMA LoopLock ==
    ASSUME TypeOK, LockInv, NEW w \in Worker, Loop(w)
    PROVE  LockInv'
<1>1. CASE StartRound(w)
  BY <1>1, QuietStep DEF TypeOK, StartRound, Goto, PendingBuilding, tableVars, rowVars,
     OthersStay, Building, JobLabel, BuildLabel, FinalizeLabel, CancelLabel
<1>2. CASE StartFinalizing(w)
  BY <1>2, QuietStep DEF TypeOK, StartFinalizing, PendingFinalizing, tableVars, rowVars,
     OthersStay, Building, JobLabel, BuildLabel, FinalizeLabel, CancelLabel
<1>3. CASE EndRound(w)
  BY <1>3, QuietStep DEF TypeOK, EndRound, Goto, tableVars, rowVars,
     OthersStay, Building, JobLabel, BuildLabel, FinalizeLabel, CancelLabel
<1>4. ASSUME NEW l \in LayerId,
             \/ TakeStale(w, l) \/ TakeBlocked(w, l)
             \/ TakeBuildable(w, l) \/ TakeFinalizing(w, l)
      PROVE  LockInv'
  <2>1. PICK label \in {"cancelStatus", "pick", "buildSetCurrent", "finalizeSetCurrent"} :
           Take(w, l, label) /\ (label = "cancelStatus" => IsStale(l))
    BY <1>4 DEF TakeStale, TakeBlocked, TakeBuildable, TakeFinalizing
  <2>2. UNCHANGED rowVars /\ OthersStay(w)
    BY <2>1 DEF TypeOK, Take, tableVars, rowVars, OthersStay
  <2>3. /\ pc'[w] = label
        /\ label # "pick" => job'[w] = l
        /\ status[l] # "absent"
        /\ \A m \in todo'[w] : status[m] # "absent"
    BY <2>1 DEF TypeOK, Take, LockInv, KnownLayers
  <2>4. QED
    BY <2>1, <2>2, <2>3, QuietStep
    DEF Building, JobLabel, BuildLabel, FinalizeLabel, CancelLabel
<1>5. QED BY <1>1, <1>2, <1>3, <1>4 DEF Loop

\* A step that leaves the rows alone and sends w to a label of build_single or
\* finalize_single, or out of them; only BuildSetCurrent enters the part of
\* build_single that counts as building.
LEMMA QuietGoto ==
    ASSUME TypeOK, LockInv, NEW w \in Worker, NEW label \in Label, Goto(w, label),
           UNCHANGED rowVars, todo' = todo \/ todo' = [todo EXCEPT ![w] = {}],
           label \notin CancelLabel \cup {"finalizeClear"},
           label \in JobLabel => pc[w] \in JobLabel,
           label \in BuildLabel \ {"buildSetCurrent"} =>
              \/ Building(w, job[w])
              \/ buildCurrent[SetOf[job[w]]] = job[w]
    PROVE  LockInv'
<1>1. OthersStay(w) /\ pc'[w] = label
  BY DEF TypeOK, Goto, OthersStay
<1>2. label \in JobLabel => job'[w] = job[w]
  BY DEF Goto
<1>3. \A l \in todo'[w] : status[l] # "absent"
  BY DEF TypeOK, LockInv, KnownLayers
<1>4. label \in JobLabel => status[job'[w]] # "absent"
  BY <1>2 DEF LockInv, KnownLayers
<1>5. \A l \in LayerId : Building(w, l)' =>
         Building(w, l) \/ buildCurrent[SetOf[l]] = l
  BY <1>1, <1>2 DEF Building, JobLabel
<1>6. QED BY <1>1, <1>3, <1>4, <1>5, QuietStep DEF CancelLabel

\* Both updates of cancel_layer keep the invariant of the locks.
LEMMA CancelLock ==
    ASSUME TypeOK, LockInv, NEW w \in Worker, CancelStep(w)
    PROVE  LockInv'
<1>1. CASE CancelStatus(w) /\ Exit(w) /\ UNCHANGED status
  BY <1>1, QuietGoto DEF CancelStatus, CanCancel, Exit, rowVars,
     Label, JobLabel, BuildLabel, FinalizeLabel, CancelLabel
<1>2. CASE CancelStatus(w) /\ Goto(w, "cancelCurrent") /\ status[job[w]] = "building"
  <2> DEFINE l == job[w]
  <2>1. /\ l \in LayerId
        /\ pc[w] = "cancelStatus"
        /\ status' = [status EXCEPT ![l] = "cancelled"]
        /\ UNCHANGED <<reserved, buildCurrent, buildLast, todo, job>>
        /\ pc' = [pc EXCEPT ![w] = "cancelCurrent"]
        /\ status[l] = "building"
    BY <1>2 DEF TypeOK, CancelStatus, CanCancel, Goto, Exit, JobLabel, CancelLabel
  <2>2. KnownLayers'
    BY <2>1 DEF TypeOK, LockInv, KnownLayers, JobLabel, CancelLabel
  <2>3. SetRow'
    BY <2>1 DEF TypeOK, LockInv, SetRow, LayerIdOrNil
  <2>4. l < buildLast[SetOf[l]]
    BY <2>1, Constants DEF Assumptions, TypeOK, LockInv, BetweenUpdates, IsStale, LayerIdOrNil
  <2>5. LayerRow'
    <3>1. \A m \in LayerId : InFlight(m)' => InFlight(m)
      BY <2>1 DEF TypeOK, InFlight, Building, BuildLabel
    <3>2. QED BY <2>1, <2>4, <3>1 DEF TypeOK, LockInv, LayerRow
  <2>6. BetweenUpdates'
    BY <2>1 DEF TypeOK, LockInv, BetweenUpdates, IsStale
  <2>7. QED BY <2>2, <2>3, <2>5, <2>6 DEF LockInv
<1>3. CASE CancelCurrent(w)
  <2>1. buildCurrent[SetOf[job[w]]] # job[w]
    <3> DEFINE l == job[w]
               s == SetOf[l]
    <3>1. l \in LayerId /\ s \in LayerSet /\ status[l] = "cancelled"
      BY <1>3, Constants DEF Assumptions, TypeOK, CancelCurrent, ClearsCurrent, LockInv, BetweenUpdates,
         JobLabel, CancelLabel
    <3>2. l \in Nat /\ l # Nil /\ buildLast[s] \in Nat
      BY <3>1, Constants, IdsAreNat DEF Assumptions, TypeOK
    <3>3. l < buildLast[s]
      BY <3>1 DEF LockInv, LayerRow
    <3>4. buildCurrent[s] = l => buildLast[s] < l
      BY <3>1, <3>2 DEF LockInv, SetRow
    <3>5. QED BY <3>2, <3>3, <3>4
  <2>2. UNCHANGED rowVars
    BY <1>3, <2>1 DEF TypeOK, CancelCurrent, ClearsCurrent, rowVars
  <2>3. QED
    BY <1>3, <2>2, QuietGoto
    DEF CancelCurrent, ClearsCurrent, Label, JobLabel, BuildLabel, FinalizeLabel, CancelLabel
<1>4. QED BY <1>1, <1>2, <1>3 DEF CancelStep, CancelStatus, CanCancel

\* try_set_current_build keeps the invariant of the locks, applied or refused.
LEMMA SetCurrentLock ==
    ASSUME TypeOK, LockInv, NEW w \in Worker,
           NEW here \in {"buildSetCurrent", "finalizeSetCurrent"},
           NEW applied \in {"buildLock", "finalizeLock"},
           NEW refused \in {"finalizeSetCurrent", "pick"},
           TrySetCurrentBuild(w, here, applied, refused)
    PROVE  LockInv'
<1> DEFINE l == job[w]
           s == SetOf[l]
<1>1. l \in LayerId /\ s \in LayerSet /\ pc[w] \in JobLabel
  BY Constants DEF Assumptions, TypeOK, TrySetCurrentBuild, CanSetCurrent, JobLabel, BuildLabel, FinalizeLabel
<1>2. CASE buildCurrent[s] = l /\ Goto(w, applied) /\ UNCHANGED buildCurrent
  BY <1>1, <1>2, QuietGoto
  DEF TrySetCurrentBuild, CanSetCurrent, rowVars, Label, JobLabel, BuildLabel, FinalizeLabel, CancelLabel
<1>3. CASE Goto(w, refused) /\ UNCHANGED buildCurrent
  BY <1>1, <1>3, QuietGoto
  DEF TrySetCurrentBuild, CanSetCurrent, rowVars, Label, JobLabel, BuildLabel, FinalizeLabel, CancelLabel
<1>4. CASE /\ buildCurrent[s] = Nil
           /\ buildLast[s] < l
           /\ buildCurrent' = [buildCurrent EXCEPT ![s] = l]
           /\ Goto(w, applied)
  <2>1. /\ UNCHANGED <<reserved, status, buildLast, todo, job>>
        /\ pc' = [pc EXCEPT ![w] = applied]
    BY <1>4 DEF TrySetCurrentBuild, CanSetCurrent, Goto, JobLabel, BuildLabel, FinalizeLabel
  <2>2. KnownLayers'
    BY <1>1, <2>1 DEF TypeOK, LockInv, KnownLayers
  <2>3. SetRow'
    BY <1>1, <1>4, <2>1 DEF TypeOK, LockInv, SetRow
  <2>4. LayerRow'
    <3> SUFFICES ASSUME NEW m \in LayerId
                 PROVE  /\ InFlight(m)' => buildCurrent'[SetOf[m]] = m
                        /\ status[m] = "ready" =>
                              m <= buildLast[SetOf[m]] \/ buildCurrent'[SetOf[m]] = m
                        /\ status[m] = "cancelled" => m < buildLast[SetOf[m]]
      BY <2>1 DEF LayerRow
    <3>1. CASE m = l
      BY <1>1, <1>4, <2>1, <3>1 DEF TypeOK, LockInv, LayerRow
    <3>2. CASE m # l
      <4>1. InFlight(m)' => InFlight(m)
        BY <2>1, <3>2 DEF TypeOK, InFlight, Building
      <4>2. QED
        BY <1>1, <1>4, <2>1, <3>2, <4>1, Constants
        DEF Assumptions, TypeOK, LockInv, LayerRow, Nil
    <3>3. QED BY <3>1, <3>2
  <2>5. BetweenUpdates'
    BY <1>1, <1>4, <2>1, Constants
    DEF Assumptions, TypeOK, LockInv, BetweenUpdates, IsStale, Nil, JobLabel, FinalizeLabel
  <2>6. QED BY <2>2, <2>3, <2>4, <2>5 DEF LockInv
<1>5. QED BY <1>2, <1>3, <1>4 DEF TrySetCurrentBuild, CanSetCurrent

\* The steps of build_single keep the invariant of the locks.
LEMMA BuildLock ==
    ASSUME TypeOK, LockInv, NEW w \in Worker, BuildStep(w)
    PROVE  LockInv'
<1>1. CASE BuildSetCurrent(w)
  BY <1>1, SetCurrentLock DEF BuildSetCurrent
<1>2. CASE BuildLayer(w)
  BY <1>2, QuietGoto
  DEF BuildLayer, rowVars, Building, Label, JobLabel, BuildLabel, FinalizeLabel, CancelLabel
<1>3. CASE GitClone(w)
  BY <1>3, QuietGoto
  DEF GitClone, rowVars, Building, Label, JobLabel, BuildLabel, FinalizeLabel, CancelLabel
<1>4. CASE CreateLayerChanges(w)
  <2>1. UNCHANGED rowVars /\ OthersStay(w) /\ UNCHANGED <<pc, job, todo>>
    BY <1>4 DEF CreateLayerChanges, rowVars, OthersStay, workerVars
  <2>2. pc[w] = "buildWrite"
    BY <1>4 DEF CreateLayerChanges
  <2>3. QED
    BY <2>1, <2>2, QuietStep
    DEF TypeOK, LockInv, KnownLayers, Building, JobLabel, BuildLabel
<1>5. CASE FinishBuild(w) /\ UNCHANGED status
  BY <1>5, QuietGoto
  DEF FinishBuild, CanFinishBuild, rowVars, Label, JobLabel, BuildLabel, FinalizeLabel, CancelLabel
<1>6. CASE FinishBuild(w) /\ status[job[w]] = "building"
           /\ status' = [status EXCEPT ![job[w]] = "finalizing"]
  <2> DEFINE l == job[w]
  <2>1. /\ l \in LayerId
        /\ pc[w] = "buildWrite"
        /\ UNCHANGED <<reserved, buildCurrent, buildLast, todo, job>>
        /\ pc' = [pc EXCEPT ![w] = "finalizeSetCurrent"]
    BY <1>6 DEF TypeOK, FinishBuild, CanFinishBuild, Goto, JobLabel, BuildLabel, FinalizeLabel
  <2>2. buildCurrent[SetOf[l]] = l
    BY <1>6, <2>1 DEF LockInv, LayerRow, InFlight, Building, BuildLabel
  <2>3. KnownLayers'
    BY <1>6, <2>1 DEF TypeOK, LockInv, KnownLayers, JobLabel, BuildLabel
  <2>4. SetRow'
    BY <1>6, <2>1 DEF TypeOK, LockInv, SetRow, LayerIdOrNil
  <2>5. LayerRow'
    <3>1. \A m \in LayerId : m # l => (InFlight(m)' => InFlight(m))
      BY <1>6, <2>1 DEF TypeOK, InFlight, Building, BuildLabel
    <3>2. QED BY <1>6, <2>1, <2>2, <3>1 DEF TypeOK, LockInv, LayerRow
  <2>6. BetweenUpdates'
    BY <1>6, <2>1 DEF TypeOK, LockInv, BetweenUpdates, IsStale
  <2>7. QED BY <2>3, <2>4, <2>5, <2>6 DEF LockInv
<1>7. QED BY <1>1, <1>2, <1>3, <1>4, <1>5, <1>6 DEF BuildStep, FinishBuild, CanFinishBuild

\* The first update of finish_finalizing keeps the invariant of the locks.
LEMMA FinishLayerLock ==
    ASSUME TypeOK, LockInv, NEW w \in Worker, FinishLayer(w)
    PROVE  LockInv'
<1> DEFINE l == job[w]
<1>1. CASE Goto(w, "pick") /\ UNCHANGED status
  BY <1>1, QuietGoto
  DEF FinishLayer, rowVars, Label, JobLabel, BuildLabel, FinalizeLabel, CancelLabel
<1>2. CASE /\ status[l] = "finalizing"
           /\ status' = [status EXCEPT ![l] = "ready"]
           /\ Goto(w, "finalizeClear")
  <2>1. /\ l \in LayerId
        /\ pc[w] = "finalizeMembers"
        /\ UNCHANGED <<reserved, buildCurrent, buildLast, todo, job>>
        /\ pc' = [pc EXCEPT ![w] = "finalizeClear"]
    BY <1>2 DEF TypeOK, FinishLayer, Goto, JobLabel, FinalizeLabel
  <2>2. buildCurrent[SetOf[l]] = l
    BY <1>2, <2>1 DEF LockInv, LayerRow, InFlight
  <2>3. KnownLayers'
    BY <1>2, <2>1 DEF TypeOK, LockInv, KnownLayers, JobLabel, FinalizeLabel
  <2>4. SetRow'
    BY <1>2, <2>1 DEF TypeOK, LockInv, SetRow, LayerIdOrNil
  <2>5. LayerRow'
    <3>1. \A m \in LayerId : InFlight(m)' => InFlight(m)
      BY <1>2, <2>1 DEF TypeOK, InFlight, Building, BuildLabel
    <3>2. QED BY <1>2, <2>1, <2>2, <3>1 DEF TypeOK, LockInv, LayerRow
  <2>6. BetweenUpdates'
    BY <1>2, <2>1, <2>2 DEF TypeOK, LockInv, BetweenUpdates, IsStale
  <2>7. QED BY <2>3, <2>4, <2>5, <2>6 DEF LockInv
<1>3. QED BY <1>1, <1>2 DEF FinishLayer

\* The second update of finish_finalizing keeps the invariant of the locks.
LEMMA FinishLayerSetLock ==
    ASSUME TypeOK, LockInv, NEW w \in Worker, FinishLayerSet(w)
    PROVE  LockInv'
<1> DEFINE l == job[w]
           s == SetOf[l]
<1>1. /\ l \in LayerId
      /\ l \in Nat \ {Nil}
      /\ s \in LayerSet
      /\ pc[w] = "finalizeClear"
      /\ status[l] = "ready"
      /\ buildCurrent[s] = l
      /\ buildLast[s] < l
  <2>1. l \in LayerId /\ pc[w] = "finalizeClear"
    BY DEF TypeOK, FinishLayerSet, Unlock, JobLabel, FinalizeLabel
  <2>2. l \in Nat \ {Nil} /\ s \in LayerSet
    BY <2>1, Constants DEF Assumptions
  <2>3. status[l] = "ready" /\ buildCurrent[s] = l
    BY <2>1 DEF LockInv, BetweenUpdates
  <2>4. buildLast[s] < l
    BY <2>2, <2>3 DEF LockInv, SetRow
  <2>5. QED BY <2>1, <2>2, <2>3, <2>4
<1>2. /\ UNCHANGED <<reserved, status, todo>>
      /\ buildCurrent' = [buildCurrent EXCEPT ![s] = Nil]
      /\ buildLast' = [buildLast EXCEPT ![s] = l]
      /\ pc' = [pc EXCEPT ![w] = "pick"]
      /\ \A v \in Worker \ {w} : job'[v] = job[v]
  BY <1>1 DEF TypeOK, FinishLayerSet, Unlock, Goto, JobLabel, BuildLabel, FinalizeLabel, CancelLabel
<1>3. KnownLayers'
  BY <1>2 DEF TypeOK, LockInv, KnownLayers, JobLabel, BuildLabel, FinalizeLabel, CancelLabel
<1>4. SetRow'
  BY <1>1, <1>2 DEF TypeOK, LockInv, SetRow
<1>5. LayerRow'
  <2> SUFFICES ASSUME NEW m \in LayerId
               PROVE  /\ InFlight(m)' => buildCurrent'[SetOf[m]] = m
                      /\ status[m] = "ready" =>
                            m <= buildLast'[SetOf[m]] \/ buildCurrent'[SetOf[m]] = m
                      /\ status[m] = "cancelled" => m < buildLast'[SetOf[m]]
    BY <1>2 DEF LayerRow
  <2>1. InFlight(m)' => InFlight(m)
    BY <1>2 DEF TypeOK, InFlight, Building, BuildLabel
  <2>2. CASE SetOf[m] # s
    BY <1>2, <2>1, <2>2, Constants DEF Assumptions, TypeOK, LockInv, LayerRow
  <2>3. CASE SetOf[m] = s
    <3>1. ~InFlight(m)'
      BY <1>1, <2>1, <2>3 DEF LockInv, LayerRow, InFlight
    <3>2. m \in Nat /\ buildLast[s] \in Nat /\ buildLast'[s] = l
      BY <1>1, <1>2, Constants, IdsAreNat DEF Assumptions, TypeOK
    <3>3. /\ status[m] = "ready" => m <= buildLast[s] \/ m = l
          /\ status[m] = "cancelled" => m < buildLast[s]
      BY <1>1, <2>3 DEF LockInv, LayerRow
    <3>4. QED BY <1>1, <2>3, <3>1, <3>2, <3>3
  <2>4. QED BY <2>2, <2>3
<1>6. BetweenUpdates'
  <2>1. ASSUME NEW v \in Worker, pc'[v] = "finalizeClear"
        PROVE  /\ status'[job'[v]] = "ready"
               /\ buildCurrent'[SetOf[job'[v]]] = job'[v]
    <3>1. v # w /\ pc[v] = "finalizeClear" /\ job'[v] = job[v] /\ job[v] \in LayerId
      BY <1>2, <2>1 DEF TypeOK, JobLabel, FinalizeLabel
    <3>2. status[job[v]] = "ready" /\ buildCurrent[SetOf[job[v]]] = job[v]
      BY <3>1 DEF LockInv, BetweenUpdates
    <3>3. job[v] # l
      BY <1>1, <3>1 DEF LockInv, BetweenUpdates
    <3>4. SetOf[job[v]] # s
      BY <1>1, <3>2, <3>3
    <3>5. QED BY <1>2, <3>1, <3>2, <3>4, Constants DEF Assumptions, TypeOK
  <2>2. ASSUME NEW v \in Worker, pc'[v] = "cancelStatus"
        PROVE  IsStale(job[v])'
    <3>1. v # w /\ pc[v] = "cancelStatus" /\ job'[v] = job[v] /\ job[v] \in LayerId
      BY <1>2, <2>2 DEF TypeOK, JobLabel, CancelLabel
    <3>2. buildLast[SetOf[job[v]]] > job[v] /\ SetOf[job[v]] \in LayerSet
      BY <3>1, Constants DEF Assumptions, LockInv, BetweenUpdates, IsStale
    <3>3. job[v] \in Nat /\ buildLast[SetOf[job[v]]] \in Nat /\ buildLast[s] \in Nat
      BY <1>1, <3>1, <3>2, Constants, IdsAreNat DEF Assumptions, TypeOK
    <3>4. QED BY <1>1, <1>2, <3>1, <3>2, <3>3 DEF TypeOK, IsStale
  <2>3. ASSUME NEW v \in Worker, pc'[v] = "cancelCurrent"
        PROVE  status'[job'[v]] = "cancelled"
    BY <1>2, <2>3 DEF TypeOK, LockInv, BetweenUpdates
  <2>4. ASSUME NEW u \in Worker, NEW v \in Worker, pc'[u] = "finalizeClear",
               pc'[v] = "finalizeClear", job'[u] = job'[v]
        PROVE  u = v
    BY <1>2, <2>4 DEF TypeOK, LockInv, BetweenUpdates
  <2>5. QED BY <2>1, <2>2, <2>3, <2>4 DEF BetweenUpdates
<1>7. QED BY <1>3, <1>4, <1>5, <1>6 DEF LockInv

\* The steps of finalize_single keep the invariant of the locks.
LEMMA FinalizeLock ==
    ASSUME TypeOK, LockInv, NEW w \in Worker, FinalizeStep(w)
    PROVE  LockInv'
<1>1. CASE FinalizeSetCurrent(w)
  BY <1>1, SetCurrentLock DEF FinalizeSetCurrent
<1>2. CASE FinalizeLayer(w)
  BY <1>2, QuietGoto
  DEF FinalizeLayer, rowVars, Label, JobLabel, BuildLabel, FinalizeLabel, CancelLabel
<1>3. CASE ListLayerChanges(w)
  BY <1>3, QuietGoto
  DEF ListLayerChanges, tableVars, rowVars, Label, JobLabel, BuildLabel, FinalizeLabel, CancelLabel
<1>4. CASE CreateLayerMember(w)
  <2>1. UNCHANGED rowVars /\ OthersStay(w) /\ UNCHANGED <<pc, job, todo>>
    BY <1>4 DEF CreateLayerMember, rowVars, OthersStay
  <2>2. pc[w] = "finalizeMembers"
    BY <1>4 DEF CreateLayerMember
  <2>3. QED
    BY <2>1, <2>2, QuietStep
    DEF TypeOK, LockInv, KnownLayers, Building, JobLabel, FinalizeLabel
<1>5. CASE FinishLayer(w)
  BY <1>5, FinishLayerLock
<1>6. CASE FinishLayerSet(w)
  BY <1>6, FinishLayerSetLock
<1>7. QED BY <1>1, <1>2, <1>3, <1>4, <1>5, <1>6 DEF FinalizeStep

\* create_layer keeps the invariant of the locks.
LEMMA CreateLock ==
    ASSUME TypeOK, LockInv, NEW l \in LayerId, SetLastLayerId(l) \/ CreateLayer(l)
    PROVE  LockInv'
<1>1. CASE SetLastLayerId(l)
  BY <1>1 DEF SetLastLayerId, workerVars, LockInv, KnownLayers, SetRow, LayerRow,
     BetweenUpdates, InFlight, Building, IsStale
<1>2. CASE CreateLayer(l)
  <2>1. /\ status[l] = "absent"
        /\ status' = [status EXCEPT ![l] = "building"]
        /\ reserved' = reserved \ {l}
        /\ UNCHANGED <<buildCurrent, buildLast, pc, todo, job>>
    BY <1>2 DEF CreateLayer, workerVars, LockInv, KnownLayers
  <2>2. KnownLayers'
    BY <2>1 DEF TypeOK, LockInv, KnownLayers
  <2>3. SetRow'
    BY <2>1 DEF TypeOK, LockInv, SetRow, LayerIdOrNil
  <2>4. LayerRow'
    <3>1. \A w \in Worker : ~Building(w, l)
      BY <2>1 DEF LockInv, KnownLayers, Building, JobLabel
    <3>2. \A m \in LayerId : InFlight(m)' => InFlight(m)
      BY <2>1, <3>1 DEF TypeOK, InFlight, Building
    <3>3. QED BY <2>1, <3>2 DEF TypeOK, LockInv, LayerRow
  <2>5. BetweenUpdates'
    BY <2>1 DEF TypeOK, LockInv, BetweenUpdates, IsStale
  <2>6. QED BY <2>2, <2>3, <2>4, <2>5 DEF LockInv
<1>3. QED BY <1>1, <1>2

\* Errors, crashes and the expiry of locks keep the invariant of the locks.
LEMMA FaultLock ==
    ASSUME TypeOK, LockInv, Fault
    PROVE  LockInv'
<1>1. ASSUME NEW w \in Worker, BuildError(w)
      PROVE  LockInv'
  BY <1>1, QuietGoto
  DEF BuildError, tableVars, rowVars, Label, JobLabel, BuildLabel, FinalizeLabel, CancelLabel
<1>2. ASSUME NEW w \in Worker, FinalizeError(w)
      PROVE  LockInv'
  BY <1>2, QuietGoto
  DEF FinalizeError, tableVars, rowVars, Label, JobLabel, BuildLabel, FinalizeLabel, CancelLabel
<1>3. ASSUME NEW w \in Worker, Crash(w)
      PROVE  LockInv'
  BY <1>3, QuietGoto
  DEF Crash, Exit, tableVars, rowVars, Label, JobLabel, BuildLabel, FinalizeLabel, CancelLabel
<1>4. ASSUME NEW l \in LayerId, ExpireBuildLock(l) \/ ExpireFinalizeLock(l)
      PROVE  LockInv'
  BY <1>4 DEF ExpireBuildLock, ExpireFinalizeLock, workerVars, LockInv, KnownLayers, SetRow,
     LayerRow, BetweenUpdates, InFlight, Building, IsStale
<1>5. QED BY <1>1, <1>2, <1>3, <1>4 DEF Fault

\* Every step keeps the invariant of the locks.
LEMMA NextLock == TypeOK /\ LockInv /\ [Next]_vars => LockInv'
<1> SUFFICES ASSUME TypeOK, LockInv, [Next]_vars PROVE LockInv'
  OBVIOUS
<1>1. CASE UNCHANGED vars
  BY <1>1 DEF vars, LockInv, KnownLayers, SetRow, LayerRow, BetweenUpdates, InFlight,
     Building, IsStale
<1>2. CASE Next
  BY <1>2, CreateLock, LoopLock, CancelLock, BuildLock, FinalizeLock, FaultLock
  DEF Next, Normal, Create, WorkerStep
<1>3. QED BY <1>1, <1>2

\* The locks of the layer sets, the status of the layers and the places of the
\* workers fit together in every state.
THEOREM LockInvariant == Spec => []LockInv
BY InitLock, NextLock, TypeCorrect, PTL DEF Spec

-----------------------------------------------------------------------------
(***************************************************************************)
(* The files of a layer.                                                   *)
(***************************************************************************)

fileVars == <<members, changes, status, buildWorker, finalizeWorker>>

\* Empty tables satisfy the invariant of the files.
LEMMA InitFiles == Init => FilesInv
BY Constants DEF Assumptions, Init, FilesInv

\* A step that leaves the tables of files and the locks alone, and brings no
\* worker to the copying of members.
LEMMA QuietFiles ==
    ASSUME TypeOK, FilesInv, UNCHANGED fileVars,
           \A w \in Worker : pc'[w] = "finalizeMembers" =>
              pc[w] = "finalizeMembers" /\ job'[w] = job[w] /\ batch'[w] = batch[w]
    PROVE  FilesInv'
BY DEF FilesInv, fileVars

\* A step of one worker that lists nothing to copy and writes no file.
LEMMA QuietFilesGoto ==
    ASSUME TypeOK, FilesInv, UNCHANGED fileVars, NEW w \in Worker, NEW label \in Label,
           Goto(w, label), label # "finalizeMembers",
           batch' = batch \/ batch' = [batch EXCEPT ![w] = {}]
    PROVE  FilesInv'
<1>1. pc'[w] # "finalizeMembers"
  BY DEF TypeOK, Goto
<1>2. \A v \in Worker \ {w} : pc'[v] = pc[v] /\ job'[v] = job[v] /\ batch'[v] = batch[v]
  BY DEF TypeOK, Goto
<1>3. QED BY <1>1, <1>2, QuietFiles

\* create_layer keeps the invariant of the files.
LEMMA CreateFiles ==
    ASSUME TypeOK, LockInv, FilesInv, NEW l \in LayerId, SetLastLayerId(l) \/ CreateLayer(l)
    PROVE  FilesInv'
<1>1. CASE SetLastLayerId(l)
  BY <1>1, QuietFiles DEF SetLastLayerId, workerVars, fileVars
<1>2. CASE CreateLayer(l)
  BY <1>2 DEF CreateLayer, workerVars, TypeOK, FilesInv
<1>3. QED BY <1>1, <1>2

\* The loops of build() keep the invariant of the files.
LEMMA LoopFiles ==
    ASSUME TypeOK, FilesInv, NEW w \in Worker, Loop(w)
    PROVE  FilesInv'
<1> USE DEF Label, JobLabel, BuildLabel, FinalizeLabel, CancelLabel
<1>1. CASE StartRound(w)
  BY <1>1, QuietFilesGoto DEF StartRound, tableVars, fileVars
<1>2. CASE StartFinalizing(w)
  BY <1>2, QuietFiles DEF StartFinalizing, tableVars, fileVars
<1>3. CASE EndRound(w)
  BY <1>3, QuietFilesGoto DEF EndRound, tableVars, fileVars
<1>4. ASSUME NEW l \in LayerId,
             \/ TakeStale(w, l) \/ TakeBlocked(w, l)
             \/ TakeBuildable(w, l) \/ TakeFinalizing(w, l)
      PROVE  FilesInv'
  <2>1. PICK label \in {"cancelStatus", "pick", "buildSetCurrent", "finalizeSetCurrent"} :
           Take(w, l, label)
    BY <1>4 DEF TakeStale, TakeBlocked, TakeBuildable, TakeFinalizing
  <2>2. UNCHANGED fileVars /\ UNCHANGED batch
    BY <2>1 DEF Take, tableVars, fileVars
  <2>3. /\ pc'[w] = label
        /\ \A v \in Worker \ {w} : pc'[v] = pc[v] /\ job'[v] = job[v]
    BY <2>1 DEF TypeOK, Take
  <2>4. QED BY <2>2, <2>3, QuietFiles
<1>5. QED BY <1>1, <1>2, <1>3, <1>4 DEF Loop

\* cancel_layer keeps the invariant of the files.
LEMMA CancelFiles ==
    ASSUME TypeOK, FilesInv, NEW w \in Worker, CancelStep(w)
    PROVE  FilesInv'
<1> USE DEF Label, JobLabel, BuildLabel, FinalizeLabel, CancelLabel
<1>1. CASE CancelStatus(w) /\ Exit(w) /\ UNCHANGED status
  BY <1>1, QuietFilesGoto DEF CancelStatus, CanCancel, Exit, fileVars
<1>2. CASE CancelStatus(w) /\ Goto(w, "cancelCurrent")
           /\ status' = [status EXCEPT ![job[w]] = "cancelled"]
           /\ UNCHANGED <<round, phase, todo, batch>>
  <2>1. /\ pc' = [pc EXCEPT ![w] = "cancelCurrent"]
        /\ UNCHANGED <<job, batch, members, changes, buildWorker, finalizeWorker>>
    BY <1>2 DEF CancelStatus, CanCancel, Goto
  <2>2. job[w] \in LayerId
    BY <1>2 DEF TypeOK, CancelStatus, CanCancel
  <2>3. QED BY <1>2, <2>1, <2>2 DEF TypeOK, FilesInv
<1>3. CASE CancelCurrent(w)
  BY <1>3, QuietFilesGoto DEF CancelCurrent, ClearsCurrent, fileVars
<1>4. QED BY <1>1, <1>2, <1>3 DEF CancelStep, CancelStatus, CanCancel

\* create_layer_changes keeps the invariant of the files.
LEMMA ChangesFiles ==
    ASSUME TypeOK, FilesInv, NEW w \in Worker, CreateLayerChanges(w)
    PROVE  FilesInv'
<1> DEFINE l == job[w]
<1>1. l \in LayerId /\ pc[w] = "buildWrite"
  BY DEF TypeOK, CreateLayerChanges, JobLabel, BuildLabel
<1>2. PICK files \in SUBSET Content[l] :
         changes' = [changes EXCEPT ![l][w] = changes[l][w] \cup files]
  BY DEF CreateLayerChanges
<1>3. UNCHANGED <<members, status, buildWorker, finalizeWorker, pc, job, batch>>
  BY DEF CreateLayerChanges, workerVars
<1>4. \A m \in LayerId, v \in Worker :
         changes'[m][v] = IF m = l /\ v = w THEN changes[l][w] \cup files ELSE changes[m][v]
  BY <1>1, <1>2 DEF TypeOK
<1>5. changes[l][w] \subseteq Content[l]
  BY <1>1 DEF FilesInv
<1>6. ASSUME NEW m \in LayerId
      PROVE  /\ \A v \in Worker : changes'[m][v] \subseteq Content[m]
             /\ status[m] \in {"finalizing", "ready"} =>
                  changes'[m][buildWorker[m]] = Content[m]
  <2>1. \A v \in Worker : changes'[m][v] \subseteq Content[m]
    BY <1>4, <1>5 DEF FilesInv
  <2>2. ASSUME status[m] \in {"finalizing", "ready"}
        PROVE  changes'[m][buildWorker[m]] = Content[m]
    <3>1. buildWorker[m] \in Worker /\ changes[m][buildWorker[m]] = Content[m]
      BY <2>2 DEF TypeOK, FilesInv, WorkerOrNone
    <3>2. CASE m = l /\ buildWorker[m] = w
      <4>1. changes'[m][buildWorker[m]] = Content[l] \cup files
        BY <1>4, <3>1, <3>2
      <4>2. Content[l] \cup files = Content[l]
        OBVIOUS
      <4>3. QED BY <3>2, <4>1, <4>2
    <3>3. QED BY <1>4, <3>1, <3>2
  <2>3. QED BY <2>1, <2>2
<1>7. ASSUME NEW v \in Worker, pc[v] = "finalizeMembers"
      PROVE  changes'[job[v]][v] = changes[job[v]][v] /\ job[v] \in LayerId
  BY <1>1, <1>4, <1>7 DEF TypeOK, JobLabel, FinalizeLabel
<1>8. QED BY <1>3, <1>6, <1>7 DEF FilesInv

\* The steps of build_single keep the invariant of the files.
LEMMA BuildFiles ==
    ASSUME TypeOK, FilesInv, NEW w \in Worker, BuildStep(w)
    PROVE  FilesInv'
<1> USE DEF Label, JobLabel, BuildLabel, FinalizeLabel, CancelLabel
<1>1. CASE BuildSetCurrent(w)
  BY <1>1, QuietFilesGoto DEF BuildSetCurrent, TrySetCurrentBuild, CanSetCurrent, fileVars
<1>2. CASE BuildLayer(w) /\ UNCHANGED buildWorker
  BY <1>2, QuietFilesGoto DEF BuildLayer, fileVars
<1>3. CASE /\ BuildLayer(w)
           /\ status[job[w]] = "building"
           /\ buildWorker' = [buildWorker EXCEPT ![job[w]] = w]
           /\ Goto(w, "buildClone")
  <2>1. /\ pc' = [pc EXCEPT ![w] = "buildClone"]
        /\ UNCHANGED <<job, batch, members, changes, status, finalizeWorker>>
    BY <1>3 DEF BuildLayer, Goto
  <2>2. job[w] \in LayerId
    BY <1>3 DEF TypeOK, BuildLayer
  <2>3. QED BY <1>3, <2>1, <2>2 DEF TypeOK, FilesInv
<1>4. CASE GitClone(w)
  BY <1>4, QuietFilesGoto DEF GitClone, fileVars
<1>5. CASE CreateLayerChanges(w)
  BY <1>5, ChangesFiles
<1>6. CASE FinishBuild(w) /\ UNCHANGED status
  BY <1>6, QuietFilesGoto DEF FinishBuild, CanFinishBuild, fileVars
<1>7. CASE FinishBuild(w) /\ status[job[w]] = "building" /\ buildWorker[job[w]] = w
           /\ status' = [status EXCEPT ![job[w]] = "finalizing"]
  <2>1. /\ pc' = [pc EXCEPT ![w] = "finalizeSetCurrent"]
        /\ changes[job[w]][w] = Content[job[w]]
        /\ UNCHANGED <<job, batch, members, changes, buildWorker, finalizeWorker>>
    BY <1>7 DEF FinishBuild, CanFinishBuild, Goto
  <2>2. job[w] \in LayerId
    BY <1>7 DEF TypeOK, FinishBuild, CanFinishBuild
  <2>3. QED BY <1>7, <2>1, <2>2, WorkerAssumption DEF TypeOK, FilesInv
<1>8. QED BY <1>1, <1>2, <1>3, <1>4, <1>5, <1>6, <1>7 DEF BuildStep, BuildLayer, FinishBuild, CanFinishBuild

\* The first update of finish_finalizing makes a layer ready when the worker
\* has copied all the changes it read.
LEMMA FinishLayerFiles ==
    ASSUME TypeOK, FilesInv, NEW w \in Worker, FinishLayer(w)
    PROVE  FilesInv'
<1> DEFINE l == job[w]
<1> USE DEF Label, JobLabel, BuildLabel, FinalizeLabel, CancelLabel
<1>1. CASE UNCHANGED status /\ Goto(w, "pick")
  BY <1>1, QuietFilesGoto DEF FinishLayer, fileVars
<1>2. CASE /\ status[l] = "finalizing"
           /\ finalizeWorker[l] = w
           /\ status' = [status EXCEPT ![l] = "ready"]
           /\ Goto(w, "finalizeClear")
  <2>1. /\ l \in LayerId
        /\ pc' = [pc EXCEPT ![w] = "finalizeClear"]
        /\ UNCHANGED <<job, batch, members, changes, buildWorker, finalizeWorker>>
    BY <1>2 DEF TypeOK, FinishLayer, Goto
  <2>2. /\ changes[l][w] \subseteq members[l]
        /\ members[l] \subseteq Content[l]
        /\ buildWorker[l] # NoWorker
        /\ changes[l][buildWorker[l]] = Content[l]
    BY <1>2, <2>1 DEF FinishLayer, FilesInv
  <2>3. buildWorker[l] = w => members[l] = Content[l]
    BY <2>2
  <2>4. \A m \in LayerId : m # l => status'[m] = status[m]
    BY <1>2 DEF TypeOK
  <2>5. \A v \in Worker : pc'[v] = "finalizeMembers" => pc[v] = "finalizeMembers"
    BY <2>1 DEF TypeOK
  <2>6. QED BY <1>2, <2>1, <2>2, <2>3, <2>4, <2>5 DEF FilesInv
<1>3. QED BY <1>1, <1>2 DEF FinishLayer

\* Listing the changes to copy keeps the invariant of the files.
LEMMA ListFiles ==
    ASSUME TypeOK, FilesInv, NEW w \in Worker, ListLayerChanges(w)
    PROVE  FilesInv'
<1>1. /\ job[w] \in LayerId
      /\ pc' = [pc EXCEPT ![w] = "finalizeMembers"]
      /\ batch' = [batch EXCEPT ![w] = changes[job[w]][w]]
      /\ UNCHANGED <<job, members, changes, status, buildWorker, finalizeWorker>>
  BY DEF TypeOK, ListLayerChanges, Goto, JobLabel, FinalizeLabel, tableVars
<1>2. changes[job[w]][w] \subseteq Content[job[w]]
  BY <1>1 DEF FilesInv
<1>3. batch'[w] = changes[job[w]][w]
  BY <1>1 DEF TypeOK
<1>4. \A v \in Worker \ {w} : pc'[v] = pc[v] /\ batch'[v] = batch[v]
  BY <1>1 DEF TypeOK
<1>5. QED BY <1>1, <1>2, <1>3, <1>4 DEF FilesInv

\* Copying a member keeps the invariant of the files.
LEMMA MemberFiles ==
    ASSUME TypeOK, FilesInv, NEW w \in Worker, CreateLayerMember(w)
    PROVE  FilesInv'
<1> DEFINE l == job[w]
<1>1. l \in LayerId /\ pc[w] = "finalizeMembers"
  BY DEF TypeOK, CreateLayerMember, JobLabel, FinalizeLabel
<1>2. PICK file \in batch[w] :
         /\ members' = [members EXCEPT ![l] = members[l] \cup {file}]
         /\ batch' = [batch EXCEPT ![w] = batch[w] \ {file}]
  BY DEF CreateLayerMember
<1>3. UNCHANGED <<pc, job, changes, status, buildWorker, finalizeWorker>>
  BY DEF CreateLayerMember
<1>4. file \in Content[l]
  BY <1>1, <1>2 DEF FilesInv
<1>5. \A m \in LayerId : members'[m] = IF m = l THEN members[l] \cup {file} ELSE members[m]
  BY <1>1, <1>2 DEF TypeOK
<1>6. \A m \in LayerId : members'[m] \subseteq Content[m] /\ members[m] \subseteq members'[m]
  BY <1>4, <1>5 DEF FilesInv
<1>7. \A m \in LayerId : members[m] = Content[m] => members'[m] = Content[m]
  BY <1>6
<1>8. ASSUME NEW v \in Worker, pc[v] = "finalizeMembers"
      PROVE  /\ batch'[v] \subseteq Content[job[v]]
             /\ changes[job[v]][v] \subseteq members'[job[v]] \cup batch'[v]
  <2>1. /\ job[v] \in LayerId
        /\ batch[v] \subseteq Content[job[v]]
        /\ changes[job[v]][v] \subseteq members[job[v]] \cup batch[v]
    BY <1>8 DEF TypeOK, FilesInv, JobLabel, FinalizeLabel
  <2>2. batch'[v] = IF v = w THEN batch[w] \ {file} ELSE batch[v]
    BY <1>2 DEF TypeOK
  <2>3. batch[v] \subseteq members'[job[v]] \cup batch'[v]
    <3>1. CASE v = w
      BY <1>5, <2>1, <2>2, <3>1
    <3>2. CASE v # w
      BY <2>2, <3>2
    <3>3. QED BY <3>1, <3>2
  <2>4. batch'[v] \subseteq batch[v]
    BY <2>2
  <2>5. members[job[v]] \subseteq members'[job[v]]
    BY <1>6, <2>1
  <2>6. QED BY <2>1, <2>3, <2>4, <2>5
<1>9. QED BY <1>3, <1>6, <1>7, <1>8 DEF FilesInv

\* The steps of finalize_single keep the invariant of the files.
LEMMA FinalizeFiles ==
    ASSUME TypeOK, FilesInv, NEW w \in Worker, FinalizeStep(w)
    PROVE  FilesInv'
<1> USE DEF Label, JobLabel, BuildLabel, FinalizeLabel, CancelLabel
<1>1. CASE FinalizeSetCurrent(w)
  BY <1>1, QuietFilesGoto DEF FinalizeSetCurrent, TrySetCurrentBuild, CanSetCurrent, fileVars
<1>2. CASE FinalizeLayer(w) /\ UNCHANGED finalizeWorker
  BY <1>2, QuietFilesGoto DEF FinalizeLayer, fileVars
<1>3. CASE FinalizeLayer(w) /\ status[job[w]] = "finalizing"
           /\ finalizeWorker' = [finalizeWorker EXCEPT ![job[w]] = w]
           /\ Goto(w, "finalizeList")
  <2>1. /\ pc' = [pc EXCEPT ![w] = "finalizeList"]
        /\ UNCHANGED <<job, batch, members, changes, status, buildWorker>>
    BY <1>3 DEF FinalizeLayer, Goto
  <2>2. job[w] \in LayerId
    BY <1>3 DEF TypeOK, FinalizeLayer
  <2>3. QED BY <1>3, <2>1, <2>2 DEF TypeOK, FilesInv
<1>4. CASE ListLayerChanges(w)
  BY <1>4, ListFiles
<1>5. CASE CreateLayerMember(w)
  BY <1>5, MemberFiles
<1>6. CASE FinishLayer(w)
  BY <1>6, FinishLayerFiles
<1>7. CASE FinishLayerSet(w)
  BY <1>7, QuietFilesGoto DEF FinishLayerSet, Unlock, fileVars
<1>8. QED
  BY <1>1, <1>2, <1>3, <1>4, <1>5, <1>6, <1>7 DEF FinalizeStep, FinalizeLayer

\* Errors, crashes and the expiry of locks keep the invariant of the files.
LEMMA FaultFiles ==
    ASSUME TypeOK, FilesInv, Fault
    PROVE  FilesInv'
<1> USE DEF Label, JobLabel, BuildLabel, FinalizeLabel, CancelLabel
<1>1. ASSUME NEW w \in Worker, BuildError(w)
      PROVE  FilesInv'
  BY <1>1, QuietFilesGoto DEF BuildError, tableVars, fileVars
<1>2. ASSUME NEW w \in Worker, FinalizeError(w)
      PROVE  FilesInv'
  BY <1>2, QuietFilesGoto DEF FinalizeError, tableVars, fileVars
<1>3. ASSUME NEW w \in Worker, Crash(w)
      PROVE  FilesInv'
  BY <1>3, QuietFilesGoto DEF Crash, Exit, tableVars, fileVars
<1>4. ASSUME NEW l \in LayerId, ExpireBuildLock(l)
      PROVE  FilesInv'
  BY <1>4 DEF ExpireBuildLock, workerVars, TypeOK, FilesInv
<1>5. ASSUME NEW l \in LayerId, ExpireFinalizeLock(l)
      PROVE  FilesInv'
  BY <1>5 DEF ExpireFinalizeLock, workerVars, TypeOK, FilesInv
<1>6. QED BY <1>1, <1>2, <1>3, <1>4, <1>5 DEF Fault

\* Every step keeps the invariant of the files.
LEMMA NextFiles == TypeOK /\ LockInv /\ FilesInv /\ [Next]_vars => FilesInv'
<1> SUFFICES ASSUME TypeOK, LockInv, FilesInv, [Next]_vars PROVE FilesInv'
  OBVIOUS
<1>1. CASE UNCHANGED vars
  BY <1>1, QuietFiles DEF vars, fileVars
<1>2. CASE Next
  BY <1>2, CreateFiles, LoopFiles, CancelFiles, BuildFiles, FinalizeFiles, FaultFiles
  DEF Next, Normal, Create, WorkerStep
<1>3. QED BY <1>1, <1>2

\* IInv, the conjunction of the three parts above, is an invariant of the
\* build protocol for every set of layers, workers and paths.
THEOREM InductiveInvariant == Spec => []IInv
<1>1. Spec => []FilesInv
  BY InitFiles, NextFiles, TypeCorrect, LockInvariant, PTL DEF Spec
<1>2. QED BY <1>1, TypeCorrect, LockInvariant, PTL DEF IInv

-----------------------------------------------------------------------------
(***************************************************************************)
(* What follows from the inductive invariant.                              *)
(***************************************************************************)

\* Two layers of a set are never being built or finalized together, whatever
\* the number of workers and however locks expire and processes crash.
THEOREM LayersExclude == Spec => []OneLayerInFlight
<1>1. IInv => OneLayerInFlight
  BY DEF IInv, LockInv, LayerRow, OneLayerInFlight, SameSet
<1>2. QED BY <1>1, InductiveInvariant, PTL

\* A cancelled layer is superseded by a newer one that is ready, and never the
\* current build of its set.
THEOREM CancelIsSafe == Spec => []CancelledIsSuperseded
<1>1. IInv => CancelledIsSuperseded
  <2> SUFFICES ASSUME IInv, NEW l \in LayerId, status[l] = "cancelled"
               PROVE  /\ \E m \in LayerId : SameSet(l, m) /\ l < m /\ status[m] = "ready"
                      /\ buildCurrent[SetOf[l]] # l
    BY DEF CancelledIsSuperseded
  <2> DEFINE s == SetOf[l]
             m == buildLast[s]
  <2>1. s \in LayerSet /\ l < m
    BY Constants DEF Assumptions, IInv, LockInv, LayerRow
  <2>2. l \in Nat /\ l # Nil /\ m \in LayerIdOrNil /\ m \in Nat /\ buildCurrent[s] \in Nat
    BY <2>1, Constants, IdsAreNat DEF Assumptions, IInv, TypeOK
  <2>3. m \in LayerId /\ SetOf[m] = s /\ status[m] = "ready"
    BY <2>1, <2>2 DEF IInv, LockInv, SetRow, LayerIdOrNil, Nil
  <2>4. buildCurrent[s] # Nil => m < buildCurrent[s]
    BY <2>1 DEF IInv, LockInv, SetRow
  <2>5. QED BY <2>1, <2>2, <2>3, <2>4 DEF SameSet
<1>2. QED BY <1>1, InductiveInvariant, PTL

\* The second ensure! of finish_finalizing holds.
THEOREM FinishIsLocked == Spec => []FinishHoldsLock
<1>1. IInv => FinishHoldsLock
  BY DEF IInv, LockInv, BetweenUpdates, FinishHoldsLock
<1>2. QED BY <1>1, InductiveInvariant, PTL

\* A layer published by its builder has all the files of its commit.
THEOREM ReadyComplete == Spec => []ReadyIsComplete
<1>1. IInv => ReadyIsComplete
  BY DEF IInv, FilesInv, ReadyIsComplete
<1>2. QED BY <1>1, InductiveInvariant, PTL

\* The four queries that write the status of a layer.
LEMMA StatusStep ==
    ASSUME [Next]_vars, status' # status
    PROVE  \/ \E l \in LayerId : CreateLayer(l)
           \/ \E w \in Worker : CancelStatus(w) \/ FinishBuild(w) \/ FinishLayer(w)
<1>1. Next
  BY DEF vars
<1>2. ASSUME NEW l \in LayerId, SetLastLayerId(l)
      PROVE  FALSE
  BY <1>2 DEF SetLastLayerId
<1>3. ASSUME NEW w \in Worker, Loop(w)
      PROVE  FALSE
  BY <1>3 DEF Loop, StartRound, StartFinalizing, EndRound, Take, TakeStale,
     TakeBlocked, TakeBuildable, TakeFinalizing, tableVars
<1>4. ASSUME NEW w \in Worker, CancelStep(w)
      PROVE  CancelStatus(w)
  BY <1>4 DEF CancelStep, CancelCurrent, ClearsCurrent
<1>5. ASSUME NEW w \in Worker, BuildStep(w)
      PROVE  FinishBuild(w)
  BY <1>5 DEF BuildStep, BuildSetCurrent, TrySetCurrentBuild, CanSetCurrent, BuildLayer,
     GitClone, CreateLayerChanges
<1>6. ASSUME NEW w \in Worker, FinalizeStep(w)
      PROVE  FinishLayer(w)
  BY <1>6 DEF FinalizeStep, FinalizeSetCurrent, TrySetCurrentBuild, CanSetCurrent, FinalizeLayer,
     ListLayerChanges, CreateLayerMember, FinishLayerSet, Unlock, tableVars
<1>7. ASSUME Fault
      PROVE  FALSE
  BY <1>7 DEF Fault, BuildError, FinalizeError, Crash, ExpireBuildLock,
     ExpireFinalizeLock, tableVars
<1>8. QED
  BY <1>1, <1>2, <1>3, <1>4, <1>5, <1>6, <1>7 DEF Next, Normal, Create, WorkerStep

\* A step that makes a layer ready is the first update of finish_finalizing,
\* by a worker of a layer that is the current build of its set.
LEMMA ReadyStep ==
    ASSUME IInv, [Next]_vars, NEW l \in LayerId, status[l] # "ready", status'[l] = "ready"
    PROVE  /\ status' = [status EXCEPT ![l] = "ready"]
           /\ status[l] = "finalizing"
           /\ buildCurrent[SetOf[l]] = l
<1>1. PICK w \in Worker : FinishLayer(w)
  <2>1. ASSUME NEW m \in LayerId, CreateLayer(m)
        PROVE  FALSE
    BY <2>1 DEF IInv, TypeOK, CreateLayer
  <2>2. ASSUME NEW w \in Worker, CancelStatus(w)
        PROVE  FALSE
    BY <2>2 DEF IInv, TypeOK, CancelStatus, CanCancel
  <2>3. ASSUME NEW w \in Worker, FinishBuild(w)
        PROVE  FALSE
    BY <2>3 DEF IInv, TypeOK, FinishBuild, CanFinishBuild
  <2>4. QED BY <2>1, <2>2, <2>3, StatusStep
<1>2. job[w] = l /\ status[l] = "finalizing" /\ status' = [status EXCEPT ![l] = "ready"]
  BY <1>1 DEF IInv, TypeOK, FinishLayer, JobLabel, FinalizeLabel
<1>3. QED BY <1>2 DEF IInv, LockInv, LayerRow, InFlight

\* A layer that becomes ready is the newest of its set that is.
LEMMA ReadyIsNewest ==
    ASSUME IInv, [Next]_vars, NEW l \in LayerId, NEW m \in LayerId,
           status[l] # "ready", status'[l] = "ready", status[m] = "ready", SameSet(l, m)
    PROVE  m < l
<1> DEFINE s == SetOf[l]
<1>1. buildCurrent[s] = l
  BY ReadyStep
<1>2. /\ s \in LayerSet /\ l \in Nat /\ m \in Nat /\ l # Nil
      /\ buildLast[s] \in Nat
  BY Constants, IdsAreNat DEF Assumptions, IInv, TypeOK
<1>3. buildLast[s] < l
  BY <1>1, <1>2 DEF IInv, LockInv, SetRow
<1>4. m <= buildLast[s]
  BY <1>1 DEF IInv, LockInv, LayerRow, SameSet
<1>5. QED BY <1>2, <1>3, <1>4

\* A layer becomes ready only while all ready layers of its set are older.
THEOREM PublishOrder == Spec => PublishedInOrder
<1>1. IInv /\ [Next]_vars =>
        [\A l, m \in LayerId :
            /\ status[l] # "ready" /\ status'[l] = "ready"
            /\ status[m] = "ready" /\ SameSet(l, m)
            => m < l]_vars
  BY ReadyIsNewest
<1>2. QED BY <1>1, InductiveInvariant, PTL DEF Spec, PublishedInOrder

\* Only the second update of finish_finalizing writes build_last_layer_id.
LEMMA LastBuildStep ==
    ASSUME TypeOK, [Next]_vars, buildLast' # buildLast
    PROVE  \E w \in Worker : FinishLayerSet(w)
<1>1. Next
  BY DEF vars
<1>2. ASSUME NEW l \in LayerId, SetLastLayerId(l) \/ CreateLayer(l)
      PROVE  FALSE
  BY <1>2 DEF SetLastLayerId, CreateLayer
<1>3. ASSUME NEW w \in Worker, Loop(w)
      PROVE  FALSE
  BY <1>3 DEF Loop, StartRound, StartFinalizing, EndRound, Take, TakeStale,
     TakeBlocked, TakeBuildable, TakeFinalizing, tableVars
<1>4. ASSUME NEW w \in Worker, CancelStep(w)
      PROVE  FALSE
  BY <1>4 DEF CancelStep, CancelStatus, CanCancel, CancelCurrent, ClearsCurrent
<1>5. ASSUME NEW w \in Worker, BuildStep(w)
      PROVE  FALSE
  BY <1>5 DEF BuildStep, BuildSetCurrent, TrySetCurrentBuild, CanSetCurrent, BuildLayer,
     GitClone, CreateLayerChanges, FinishBuild, CanFinishBuild
<1>6. ASSUME NEW w \in Worker, FinalizeStep(w)
      PROVE  FinishLayerSet(w)
  BY <1>6 DEF FinalizeStep, FinalizeSetCurrent, TrySetCurrentBuild, CanSetCurrent, FinalizeLayer,
     ListLayerChanges, CreateLayerMember, FinishLayer, tableVars
<1>7. ASSUME Fault
      PROVE  FALSE
  BY <1>7 DEF Fault, BuildError, FinalizeError, Crash, ExpireBuildLock,
     ExpireFinalizeLock, tableVars
<1>8. QED
  BY <1>1, <1>2, <1>3, <1>4, <1>5, <1>6, <1>7 DEF Next, Normal, Create, WorkerStep

\* build_last_layer_id only grows, to layers that are ready.
THEOREM LastBuildOrder == Spec => LastBuildAdvances
<1>1. ASSUME IInv, [Next]_vars, NEW s \in LayerSet, buildLast'[s] # buildLast[s]
      PROVE  buildLast'[s] > buildLast[s] /\ status'[buildLast'[s]] = "ready"
  <2>1. PICK w \in Worker : FinishLayerSet(w)
    BY <1>1, LastBuildStep DEF IInv
  <2> DEFINE l == job[w]
  <2>2. /\ pc[w] = "finalizeClear"
        /\ buildLast' = IF buildCurrent[SetOf[l]] = l
                        THEN [buildLast EXCEPT ![SetOf[l]] = l] ELSE buildLast
        /\ UNCHANGED status
    BY <2>1 DEF FinishLayerSet, Unlock
  <2>3. l \in LayerId
    BY <1>1, <2>2 DEF IInv, TypeOK, JobLabel, FinalizeLabel
  <2>4. SetOf[l] = s /\ buildCurrent[s] = l /\ buildLast'[s] = l
    BY <1>1, <2>2 DEF IInv, TypeOK
  <2>5. status[l] = "ready" /\ l # Nil /\ l \in Nat /\ buildLast[s] \in Nat
    <3>1. status[l] = "ready"
      BY <1>1, <2>2 DEF IInv, LockInv, BetweenUpdates
    <3>2. l \in Nat /\ l # Nil /\ buildLast[s] \in Nat
      BY <1>1, <2>3, Constants, IdsAreNat DEF Assumptions, IInv, TypeOK
    <3>3. QED BY <3>1, <3>2
  <2>6. buildLast[s] < l
    BY <1>1, <2>5, <2>4 DEF IInv, LockInv, SetRow
  <2>7. QED BY <2>2, <2>5, <2>6, <2>4
<1>2. IInv /\ [Next]_vars =>
        [\A s \in LayerSet : buildLast'[s] # buildLast[s] =>
            /\ buildLast'[s] > buildLast[s]
            /\ status'[buildLast'[s]] = "ready"]_vars
  BY <1>1
<1>3. QED BY <1>2, InductiveInvariant, PTL DEF Spec, LastBuildAdvances

-----------------------------------------------------------------------------
(***************************************************************************)
(* The refinement of LayerPublish: each write of a status is one of its    *)
(* steps, or none.                                                         *)
(***************************************************************************)

\* Empty tables are an initial state of LayerPublish.
LEMMA InitPublish == Init => Publish!Init
BY DEF Init, Publish!Init

\* finish_build moves a layer between two statuses that LayerPublish calls
\* pending.
LEMMA FinishBuildPublish ==
    ASSUME TypeOK, NEW w \in Worker, FinishBuild(w)
    PROVE  UNCHANGED Publish!vars
<1>1. CASE UNCHANGED status
  BY <1>1 DEF Publish!vars
<1>2. CASE status[job[w]] = "building" /\ status' = [status EXCEPT ![job[w]] = "finalizing"]
  <2>1. job[w] \in LayerId
    BY DEF TypeOK, FinishBuild, CanFinishBuild, JobLabel, BuildLabel
  <2>2. \A l \in LayerId : status'[l] = IF l = job[w] THEN "finalizing" ELSE status[l]
    BY <1>2, <2>1 DEF TypeOK
  <2>3. QED BY <1>2, <2>1, <2>2 DEF Publish!vars
<1>3. QED BY <1>1, <1>2 DEF FinishBuild, CanFinishBuild

\* create_layer submits a layer.
LEMMA CreatePublish ==
    ASSUME TypeOK, LockInv, NEW l \in LayerId, CreateLayer(l)
    PROVE  Publish!Submit(l)
<1>1. status[l] = "absent"
  BY DEF CreateLayer, LockInv, KnownLayers
<1>2. \A m \in LayerId : status'[m] = IF m = l THEN "building" ELSE status[m]
  BY DEF CreateLayer, TypeOK
<1>3. QED BY <1>1, <1>2 DEF Publish!Submit

\* The first update of cancel_layer drops a superseded layer.
LEMMA CancelPublish ==
    ASSUME IInv, NEW w \in Worker, NEW l \in LayerId, l = job[w],
           CancelStatus(w), status' # status
    PROVE  Publish!Drop(l)
<1> DEFINE m == buildLast[SetOf[l]]
<1>1. /\ l \in LayerId /\ pc[w] = "cancelStatus" /\ status[l] = "building"
      /\ status' = [status EXCEPT ![l] = "cancelled"]
  BY DEF IInv, TypeOK, CancelStatus, CanCancel, JobLabel, CancelLabel
<1>2. m > l /\ SetOf[l] \in LayerSet
  BY <1>1, Constants DEF Assumptions, IInv, LockInv, BetweenUpdates, IsStale
<1>3. l \in Nat /\ m \in LayerIdOrNil /\ m \in Nat
  BY <1>1, <1>2, Constants, IdsAreNat DEF Assumptions, IInv, TypeOK
<1>4. m \in LayerId /\ SetOf[m] = SetOf[l] /\ status[m] = "ready"
  BY <1>2, <1>3 DEF IInv, LockInv, SetRow, LayerIdOrNil, Nil
<1>5. \A k \in LayerId : status'[k] = IF k = l THEN "cancelled" ELSE status[k]
  BY <1>1 DEF IInv, TypeOK
<1>6. m \in Publish!Newer(l)
  BY <1>2, <1>4 DEF Publish!Newer
<1>7. QED BY <1>1, <1>5, <1>6 DEF Publish!Drop

\* The first update of finish_finalizing publishes the newest layer.
LEMMA ReadyPublish ==
    ASSUME IInv, [Next]_vars, NEW w \in Worker, NEW l \in LayerId, l = job[w],
           FinishLayer(w), status' # status
    PROVE  Publish!Publish(l)
<1>1. /\ l \in LayerId /\ status[l] = "finalizing"
      /\ status' = [status EXCEPT ![l] = "ready"]
  BY DEF IInv, TypeOK, FinishLayer, JobLabel, FinalizeLabel
<1>2. \A k \in LayerId : status'[k] = IF k = l THEN "ready" ELSE status[k]
  BY <1>1 DEF IInv, TypeOK
<1>3. \A m \in LayerId : status[m] = "ready" /\ SameSet(l, m) => m < l
  BY <1>1, <1>2, ReadyIsNewest
<1>4. l \in Nat /\ \A m \in LayerId : m \in Nat
  BY <1>1, Constants DEF Assumptions
<1>5. Publish!Newer(l) = {}
  <2> SUFFICES ASSUME NEW m \in LayerId, status[m] = "ready", SameSet(l, m), m > l
               PROVE  FALSE
    BY DEF Publish!Newer, SameSet
  <2>1. m < l
    BY <1>3
  <2>2. QED BY <1>4, <2>1
<1>6. QED BY <1>1, <1>2, <1>5 DEF Publish!Publish

\* Every step is a step of LayerPublish or a stutter.
LEMMA NextPublish == IInv /\ [Next]_vars => [Publish!Next]_(Publish!vars)
<1> SUFFICES ASSUME IInv, [Next]_vars, status' # status
             PROVE  [Publish!Next]_(Publish!vars)
  BY DEF Publish!vars
<1>1. ASSUME NEW l \in LayerId, CreateLayer(l)
      PROVE  Publish!Next
  BY <1>1, CreatePublish DEF IInv, Publish!Next
<1>2. ASSUME NEW w \in Worker, CancelStatus(w)
      PROVE  Publish!Next
  <2>1. job[w] \in LayerId
    BY <1>2 DEF IInv, TypeOK, CancelStatus, CanCancel, JobLabel, CancelLabel
  <2>2. PICK l \in LayerId : l = job[w]
    BY <2>1
  <2>3. Publish!Drop(l)
    BY <1>2, <2>2, CancelPublish
  <2>4. QED BY <2>3 DEF Publish!Next
<1>3. ASSUME NEW w \in Worker, FinishBuild(w)
      PROVE  UNCHANGED Publish!vars
  BY <1>3, FinishBuildPublish DEF IInv
<1>4. ASSUME NEW w \in Worker, FinishLayer(w)
      PROVE  Publish!Next
  <2>1. job[w] \in LayerId
    BY <1>4 DEF IInv, TypeOK, FinishLayer, JobLabel, FinalizeLabel
  <2>2. PICK l \in LayerId : l = job[w]
    BY <2>1
  <2>3. Publish!Publish(l)
    BY <1>4, <2>2, ReadyPublish
  <2>4. QED BY <2>3 DEF Publish!Next
<1>5. QED BY <1>1, <1>2, <1>3, <1>4, StatusStep

\* The build protocol implements LayerPublish, with faults as well.
THEOREM Refinement == Spec => ImplementsPublish
<1>1. QED
  BY InitPublish, NextPublish, InductiveInvariant, PTL DEF Spec, ImplementsPublish, Publish!Spec

-----------------------------------------------------------------------------
(***************************************************************************)
(* Without faults: no lock of a layer set is left behind.                  *)
(***************************************************************************)

\* Without faults there is nothing that Next does not allow.
LEMMA FaultFreeInvariant == FaultFreeSpec => []IInv
<1>1. [Normal]_vars => [Next]_vars
  BY DEF Next
<1>2. Init => IInv
  BY InitType, InitLock, InitFiles DEF IInv
<1>3. IInv /\ [Normal]_vars => IInv'
  BY <1>1, NextType, NextLock, NextFiles DEF IInv
<1>4. QED BY <1>2, <1>3, PTL DEF FaultFreeSpec

\* Where Goto leads, and that it leads no other worker anywhere.
LEMMA GotoMoves ==
    ASSUME TypeOK, NEW w \in Worker, NEW label, Goto(w, label)
    PROVE  /\ pc'[w] = label
           /\ job'[w] = IF label \in JobLabel THEN job[w] ELSE Nil
           /\ \A v \in Worker \ {w} : pc'[v] = pc[v] /\ job'[v] = job[v]
BY DEF TypeOK, Goto

\* A layer that can still be worked on.
IsPending(l) == status[l] \in {"building", "finalizing"}

\* A worker that is not about to clear a lock, and a step of it that takes no
\* lock and ends no layer.
LEMMA QuietRecover ==
    ASSUME LockIsRecoverable, NEW w \in Worker, pc[w] # "finalizeClear", buildCurrent' = buildCurrent,
           \A v \in Worker \ {w} : pc'[v] = pc[v] /\ job'[v] = job[v],
           \A l : IsPending(l) => IsPending(l)'
    PROVE  LockIsRecoverable'
BY DEF LockIsRecoverable, IsPending

LEMMA CreateRecover ==
    ASSUME IInv, LockIsRecoverable, Create
    PROVE  LockIsRecoverable'
<1>1. PICK l \in LayerId : SetLastLayerId(l) \/ CreateLayer(l)
  BY DEF Create
<1>2. UNCHANGED <<buildCurrent, pc, job>>
  BY <1>1 DEF SetLastLayerId, CreateLayer, workerVars
<1>3. status' = status \/ status' = [status EXCEPT ![l] = "building"]
  BY <1>1 DEF SetLastLayerId, CreateLayer
<1>4. \A s \in LayerSet : buildCurrent[s] \in LayerIdOrNil
  BY DEF IInv, TypeOK
<1>5. \A m \in LayerId : IsPending(m) => IsPending(m)'
  BY <1>3 DEF IInv, TypeOK, IsPending
<1>6. QED BY <1>2, <1>4, <1>5 DEF LockIsRecoverable, LayerIdOrNil, IsPending

LEMMA LoopRecover ==
    ASSUME IInv, LockIsRecoverable, NEW w \in Worker, Loop(w)
    PROVE  LockIsRecoverable'
<1>1. /\ pc[w] # "finalizeClear" /\ UNCHANGED <<buildCurrent, status>>
      /\ \A v \in Worker \ {w} : pc'[v] = pc[v] /\ job'[v] = job[v]
  BY DEF IInv, TypeOK, Loop, StartRound, StartFinalizing, EndRound, Take, TakeStale, TakeBlocked,
         TakeBuildable, TakeFinalizing, Goto, tableVars
<1>2. QED BY <1>1, QuietRecover DEF IsPending

LEMMA CancelRecover ==
    ASSUME IInv, LockIsRecoverable, NEW w \in Worker, CancelStep(w)
    PROVE  LockIsRecoverable'
<1> DEFINE l == job[w]
<1>1. /\ pc[w] \in CancelLabel /\ l \in LayerId /\ SetOf[l] \in LayerSet
      /\ \A v \in Worker \ {w} : pc'[v] = pc[v] /\ job'[v] = job[v]
  BY Constants DEF Assumptions, IInv, TypeOK, CancelStep, CancelStatus, CancelCurrent, Exit, Goto,
     JobLabel, CancelLabel
<1>2. buildCurrent[SetOf[l]] # l
  <2>1. l < buildLast[SetOf[l]]
    BY <1>1 DEF IInv, LockInv, LayerRow, BetweenUpdates, IsStale, CancelLabel
  <2>2. l \in Nat /\ buildLast[SetOf[l]] \in Nat /\ l # Nil
    BY <1>1, Constants, IdsAreNat DEF Assumptions, IInv, TypeOK
  <2>3. buildCurrent[SetOf[l]] = l => buildLast[SetOf[l]] < l
    BY <1>1, <2>2 DEF IInv, LockInv, SetRow
  <2>4. QED BY <2>1, <2>2, <2>3
<1>3. buildCurrent' = buildCurrent
  BY <1>1, <1>2 DEF IInv, TypeOK, CancelStep, CancelStatus, CancelCurrent, ClearsCurrent
<1>4. ASSUME NEW s \in LayerSet, buildCurrent[s] = l PROVE FALSE
  <2>1. l # Nil
    BY <1>1, Constants DEF Assumptions
  <2>2. SetOf[l] = s
    BY <1>4, <2>1 DEF IInv, LockInv, SetRow
  <2>3. QED BY <1>2, <1>4, <2>2
<1>5. \A s \in LayerSet : buildCurrent[s] # Nil => status'[buildCurrent[s]] = status[buildCurrent[s]]
  <2>1. status' = status \/ status' = [status EXCEPT ![l] = "cancelled"]
    BY DEF CancelStep, CancelStatus, CancelCurrent
  <2>2. \A m \in LayerId : m # l => status'[m] = status[m]
    BY <2>1 DEF IInv, TypeOK
  <2>3. QED BY <1>4, <2>2 DEF IInv, TypeOK, LayerIdOrNil
<1>6. pc[w] # "finalizeClear"
  BY <1>1 DEF CancelLabel
<1>7. QED BY <1>1, <1>3, <1>5, <1>6 DEF LockIsRecoverable

\* try_set_current_build locks a layer that is not ready, nor cancelled.
LEMMA SetCurrentRecover ==
    ASSUME IInv, LockIsRecoverable, NEW w \in Worker,
           NEW here \in {"buildSetCurrent", "finalizeSetCurrent"}, NEW applied, NEW refused,
           TrySetCurrentBuild(w, here, applied, refused)
    PROVE  LockIsRecoverable'
<1> DEFINE l == job[w]
           s == SetOf[l]
<1>1. /\ pc[w] = here /\ l \in LayerId /\ s \in LayerSet /\ status' = status
      /\ \A v \in Worker \ {w} : pc'[v] = pc[v] /\ job'[v] = job[v]
  BY Constants DEF Assumptions, IInv, TypeOK, TrySetCurrentBuild, Goto, JobLabel, BuildLabel, FinalizeLabel
<1>2. CASE buildCurrent' = buildCurrent
  BY <1>1, <1>2, QuietRecover DEF IsPending
<1>3. CASE /\ buildCurrent[s] = Nil /\ buildLast[s] < l
           /\ buildCurrent' = [buildCurrent EXCEPT ![s] = l]
  <2>1. l \in Nat /\ l # Nil /\ buildLast[s] \in Nat
    BY <1>1, Constants, IdsAreNat DEF Assumptions, IInv, TypeOK
  <2>2. status[l] \notin {"ready", "cancelled"}
    BY <1>1, <1>3, <2>1 DEF IInv, LockInv, LayerRow
  <2>3. status[l] # "absent"
    BY <1>1 DEF IInv, LockInv, KnownLayers, JobLabel, BuildLabel, FinalizeLabel
  <2>4. status'[l] \in {"building", "finalizing"}
    BY <1>1, <2>2, <2>3 DEF IInv, TypeOK, LayerStatus
  <2>5. ASSUME NEW r \in LayerSet, buildCurrent'[r] # Nil
        PROVE  \/ status'[buildCurrent'[r]] \in {"building", "finalizing"}
               \/ \E v \in Worker : pc'[v] = "finalizeClear" /\ job'[v] = buildCurrent'[r]
    <3>1. CASE r = s
      BY <1>1, <1>3, <2>4, <3>1 DEF IInv, TypeOK
    <3>2. CASE r # s
      <4>1. buildCurrent'[r] = buildCurrent[r]
        BY <1>1, <1>3, <3>2 DEF IInv, TypeOK
      <4>2. \A v \in Worker : pc[v] = "finalizeClear" => v # w
        BY <1>1
      <4>3. QED BY <1>1, <2>5, <4>1, <4>2 DEF LockIsRecoverable
    <3>3. QED BY <3>1, <3>2
  <2>6. QED BY <2>5 DEF LockIsRecoverable
<1>4. QED BY <1>2, <1>3 DEF TrySetCurrentBuild, CanSetCurrent

LEMMA BuildRecover ==
    ASSUME IInv, LockIsRecoverable, NEW w \in Worker, BuildStep(w)
    PROVE  LockIsRecoverable'
<1>1. CASE BuildSetCurrent(w)
  BY <1>1, SetCurrentRecover DEF BuildSetCurrent
<1>2. CASE BuildLayer(w) \/ GitClone(w) \/ CreateLayerChanges(w)
  <2>1. /\ pc[w] # "finalizeClear" /\ UNCHANGED <<buildCurrent, status>>
        /\ \A v \in Worker \ {w} : pc'[v] = pc[v] /\ job'[v] = job[v]
    BY <1>2 DEF IInv, TypeOK, BuildLayer, GitClone, CreateLayerChanges, Goto, workerVars
  <2>2. QED BY <2>1, QuietRecover DEF IsPending
<1>3. CASE FinishBuild(w)
  <2>1. /\ pc[w] # "finalizeClear" /\ UNCHANGED buildCurrent
        /\ \A v \in Worker \ {w} : pc'[v] = pc[v] /\ job'[v] = job[v]
    BY <1>3 DEF IInv, TypeOK, FinishBuild, Goto
  <2>2. \A l \in LayerId : IsPending(l) => IsPending(l)'
    BY <1>3 DEF IInv, TypeOK, FinishBuild, IsPending
  <2>3. \A s \in LayerSet : buildCurrent[s] \in LayerIdOrNil
    BY DEF IInv, TypeOK
  <2>4. QED BY <2>1, <2>2, <2>3 DEF LockIsRecoverable, LayerIdOrNil, IsPending
<1>4. QED BY <1>1, <1>2, <1>3 DEF BuildStep

LEMMA FinalizeRecover ==
    ASSUME IInv, LockIsRecoverable, NEW w \in Worker, FinalizeStep(w)
    PROVE  LockIsRecoverable'
<1>1. CASE FinalizeSetCurrent(w)
  BY <1>1, SetCurrentRecover DEF FinalizeSetCurrent
<1>2. CASE FinalizeLayer(w) \/ ListLayerChanges(w) \/ CreateLayerMember(w)
  <2>1. /\ pc[w] # "finalizeClear" /\ UNCHANGED <<buildCurrent, status>>
        /\ \A v \in Worker \ {w} : pc'[v] = pc[v] /\ job'[v] = job[v]
    BY <1>2 DEF IInv, TypeOK, FinalizeLayer, ListLayerChanges, CreateLayerMember, Goto, tableVars
  <2>2. QED BY <2>1, QuietRecover DEF IsPending
<1>3. CASE FinishLayer(w)
  <2>1. /\ pc[w] = "finalizeMembers" /\ buildCurrent' = buildCurrent /\ job[w] \in LayerId
        /\ \A v \in Worker \ {w} : pc'[v] = pc[v] /\ job'[v] = job[v]
    BY <1>3 DEF IInv, TypeOK, FinishLayer, Goto, JobLabel, FinalizeLabel
  <2>2. CASE UNCHANGED status
    BY <2>1, <2>2, QuietRecover DEF IsPending
  <2>3. CASE status' = [status EXCEPT ![job[w]] = "ready"] /\ Goto(w, "finalizeClear")
    <3>1. pc'[w] = "finalizeClear" /\ job'[w] = job[w]
      BY <2>3, GotoMoves DEF IInv, JobLabel, FinalizeLabel
    <3>2. \A l \in LayerId : l # job[w] => status'[l] = status[l]
      BY <2>3 DEF IInv, TypeOK
    <3>3. \A s \in LayerSet : buildCurrent[s] \in LayerIdOrNil
      BY DEF IInv, TypeOK
    <3>4. QED BY <2>1, <3>1, <3>2, <3>3 DEF LockIsRecoverable, LayerIdOrNil
  <2>4. QED BY <1>3, <2>2, <2>3 DEF FinishLayer
<1>4. CASE FinishLayerSet(w)
  <2> DEFINE l == job[w]
             s == SetOf[l]
  <2>1. /\ pc[w] = "finalizeClear" /\ l \in LayerId /\ s \in LayerSet /\ status' = status
        /\ buildCurrent[s] = l
        /\ \A v \in Worker \ {w} : pc'[v] = pc[v] /\ job'[v] = job[v]
    BY <1>4, Constants DEF Assumptions, IInv, TypeOK, LockInv, BetweenUpdates, FinishLayerSet, Goto,
       JobLabel, FinalizeLabel
  <2>2. buildCurrent' = [buildCurrent EXCEPT ![s] = Nil]
    BY <1>4, <2>1 DEF FinishLayerSet, Unlock
  <2>3. ASSUME NEW r \in LayerSet, buildCurrent'[r] # Nil
        PROVE  r # s /\ buildCurrent'[r] = buildCurrent[r]
    BY <2>1, <2>2, <2>3 DEF IInv, TypeOK
  <2>4. l # Nil /\ \A r \in LayerSet : buildCurrent[r] = l => r = s
    <3>1. l # Nil
      BY <2>1, Constants DEF Assumptions
    <3>2. QED BY <3>1 DEF IInv, LockInv, SetRow
  <2>5. QED BY <2>1, <2>3, <2>4 DEF LockIsRecoverable
<1>5. QED BY <1>1, <1>2, <1>3, <1>4 DEF FinalizeStep

\* try_set_current_build, cancel_layer and finish_finalizing: without faults,
\* the layer that holds the lock of its set can always be worked on, or the
\* lock is about to be cleared.
THEOREM LocksAreRecoverable == FaultFreeSpec => []LockIsRecoverable
<1>1. Init => LockIsRecoverable
  <2> SUFFICES ASSUME Init, NEW s \in LayerSet PROVE buildCurrent[s] = Nil
    BY DEF LockIsRecoverable
  <2>1. buildCurrent = [r \in LayerSet |-> Nil]
    BY DEF Init
  <2>2. QED BY <2>1
<1>2. IInv /\ LockIsRecoverable /\ [Normal]_vars => LockIsRecoverable'
  <2> SUFFICES ASSUME IInv, LockIsRecoverable, [Normal]_vars PROVE LockIsRecoverable'
    OBVIOUS
  <2>1. CASE UNCHANGED vars
    BY <2>1 DEF vars, LockIsRecoverable
  <2>2. QED BY <2>1, CreateRecover, LoopRecover, CancelRecover, BuildRecover, FinalizeRecover
            DEF Normal, WorkerStep
<1>3. QED BY <1>1, <1>2, FaultFreeInvariant, PTL DEF FaultFreeSpec

-----------------------------------------------------------------------------
(***************************************************************************)
(* Without faults: a worker that is alone settles every layer.             *)
(***************************************************************************)

\* What a step of one worker must respect, for FaultFreeInv to stay.
LEMMA StepFaultFree ==
    ASSUME TypeOK, FaultFreeInv, NEW w \in Worker,
           \A v \in Worker \ {w} :
              pc'[v] = pc[v] /\ job'[v] = job[v] /\ todo'[v] = todo[v] /\ round'[v] = round[v],
           round'[w] # 0, pc'[w] \notin JobLabel => job'[w] = Nil,
           pc'[w] \in {"buildClone", "buildWrite"} => buildWorker'[job'[w]] = w,
           \A l \in LayerId :
              /\ status'[l] \in {"absent", "building"} =>
                    status[l] = status'[l] /\ finalizeWorker'[l] = finalizeWorker[l]
              /\ status'[l] = "absent" => buildWorker'[l] = buildWorker[l]
              /\ buildWorker[l] # NoWorker => buildWorker'[l] = buildWorker[l]
              /\ \A h : <<h, l>> \in cloned' => <<h, l>> \in cloned \/ buildWorker'[l] # NoWorker
    PROVE  FaultFreeInv'
<1>1. ASSUME NEW v \in Worker, pc'[v] \in {"buildClone", "buildWrite"}
      PROVE  buildWorker'[job'[v]] = v
  <2>1. CASE v = w
    BY <1>1, <2>1
  <2>2. CASE v # w
    <3>1. pc[v] \in {"buildClone", "buildWrite"} /\ job'[v] = job[v] /\ job[v] \in LayerId
      BY <1>1, <2>2 DEF TypeOK, JobLabel, BuildLabel
    <3>2. buildWorker[job[v]] = v /\ v # NoWorker
      BY <3>1, WorkerAssumption DEF FaultFreeInv
    <3>3. QED BY <3>1, <3>2
  <2>3. QED BY <2>1, <2>2
<1>2. ASSUME NEW v \in Worker
      PROVE  /\ pc'[v] \notin JobLabel => job'[v] = Nil
             /\ round'[v] = 0 => pc'[v] = "idle" /\ todo'[v] = {}
  BY DEF FaultFreeInv
<1>3. ASSUME NEW l \in LayerId
      PROVE  /\ status'[l] \in {"absent", "building"} => finalizeWorker'[l] = NoWorker
             /\ status'[l] = "absent" => buildWorker'[l] = NoWorker
             /\ \A h \in Host : <<h, l>> \in cloned' => buildWorker'[l] # NoWorker
  BY DEF FaultFreeInv
<1>4. QED BY <1>1, <1>2, <1>3 DEF FaultFreeInv

\* What Solo(w) says after a step, if the worker has left its layer settled or
\* has it still.
Settled(w) ==
    \A l \in LayerId :
        (l \in todo[w] \/ job[w] = l) /\ l \notin todo'[w] /\ job'[w] # l
        => status'[l] \in {"ready", "cancelled"}

\* A worker at work has called build().
LEMMA AtWork ==
    ASSUME TypeOK, FaultFreeInv, NEW w \in Worker, pc[w] # "idle"
    PROVE  round[w] # 0
BY DEF FaultFreeInv

LEMMA IsTyped == IInv => TypeOK
BY DEF IInv

\* The loops of build() start with what nobody has touched.
LEMMA LoopFaultFree ==
    ASSUME IInv, FaultFreeInv, NEW w \in Worker, Loop(w)
    PROVE  FaultFreeInv'
<1>1. /\ UNCHANGED <<status, buildWorker, finalizeWorker, cloned>>
      /\ \A v \in Worker \ {w} :
            pc'[v] = pc[v] /\ job'[v] = job[v] /\ todo'[v] = todo[v] /\ round'[v] = round[v]
  BY DEF IInv, TypeOK, Loop, StartRound, StartFinalizing, EndRound, Take, TakeStale, TakeBlocked,
         TakeBuildable, TakeFinalizing, Goto, tableVars
<1>2. round'[w] # 0
  <2>1. CASE StartRound(w)
    BY <2>1 DEF IInv, TypeOK, StartRound
  <2>2. CASE ~StartRound(w)
    <3>1. pc[w] # "idle" /\ round' = round
      BY <2>2 DEF Loop, StartFinalizing, EndRound, Take, TakeStale, TakeBlocked, TakeBuildable,
                  TakeFinalizing
    <3>2. QED BY <3>1, AtWork DEF IInv
  <2>3. QED BY <2>1, <2>2
<1>3. /\ pc'[w] \notin {"buildClone", "buildWrite"}
      /\ pc'[w] \notin JobLabel => job'[w] = Nil
  <2> USE DEF IInv, TypeOK, JobLabel, BuildLabel, FinalizeLabel, CancelLabel
  <2>1. CASE StartRound(w) \/ EndRound(w)
    BY <2>1, GotoMoves DEF StartRound, EndRound
  <2>2. CASE StartFinalizing(w)
    BY <2>2 DEF StartFinalizing, FaultFreeInv
  <2>3. ASSUME NEW l \in LayerId, NEW label \in {"cancelStatus", "pick", "buildSetCurrent",
               "finalizeSetCurrent"}, Take(w, l, label)
        PROVE  /\ pc'[w] \notin {"buildClone", "buildWrite"}
               /\ pc'[w] \notin JobLabel => job'[w] = Nil
    BY <2>3 DEF Take
  <2>4. QED BY <2>1, <2>2, <2>3 DEF Loop, TakeStale, TakeBlocked, TakeBuildable, TakeFinalizing
<1>4. QED BY <1>1, <1>2, <1>3, StepFaultFree, IsTyped

LEMMA CancelFaultFree ==
    ASSUME IInv, FaultFreeInv, NEW w \in Worker, CancelStep(w)
    PROVE  FaultFreeInv'
<1> USE DEF JobLabel, BuildLabel, FinalizeLabel, CancelLabel
<1>1. PICK label \in {"dead", "cancelCurrent", "pick"} : Goto(w, label)
  BY DEF CancelStep, CancelStatus, CancelCurrent, Exit
<1>2. /\ pc'[w] = label /\ job'[w] = IF label \in JobLabel THEN job[w] ELSE Nil
      /\ \A v \in Worker \ {w} : pc'[v] = pc[v] /\ job'[v] = job[v]
  BY <1>1, GotoMoves DEF IInv
<1>3. /\ UNCHANGED <<buildWorker, finalizeWorker, cloned, round>> /\ pc[w] # "idle"
      /\ todo' = todo \/ todo' = [todo EXCEPT ![w] = {}]
      /\ status' = status \/ status' = [status EXCEPT ![job[w]] = "cancelled"]
  BY DEF CancelStep, CancelStatus, CancelCurrent, Exit
<1>4. \A l \in LayerId : status'[l] \in {"absent", "building"} => status[l] = status'[l]
  BY <1>3 DEF IInv, TypeOK
<1>5. round'[w] # 0
  BY <1>3, AtWork DEF IInv
<1>6. \A v \in Worker \ {w} : todo'[v] = todo[v]
  BY <1>3 DEF IInv, TypeOK
<1>7. QED BY <1>2, <1>3, <1>4, <1>5, <1>6, StepFaultFree, IsTyped

LEMMA BuildFaultFree ==
    ASSUME IInv, FaultFreeInv, NEW w \in Worker, BuildStep(w)
    PROVE  FaultFreeInv'
<1> USE DEF JobLabel, BuildLabel, FinalizeLabel, CancelLabel
<1>1. job[w] \in LayerId /\ pc[w] \in BuildLabel /\ round[w] # 0
  <2>1. pc[w] \in BuildLabel
    BY DEF BuildStep, BuildSetCurrent, TrySetCurrentBuild, BuildLayer, GitClone, CreateLayerChanges,
       FinishBuild
  <2>2. QED BY <2>1, AtWork DEF IInv, TypeOK
<1>2. CASE BuildSetCurrent(w)
  <2>1. PICK label \in {"buildLock", "finalizeSetCurrent"} : Goto(w, label)
    BY <1>2 DEF BuildSetCurrent, TrySetCurrentBuild
  <2>2. UNCHANGED <<status, buildWorker, finalizeWorker, cloned, round, todo>>
    BY <1>2 DEF BuildSetCurrent, TrySetCurrentBuild
  <2>3. QED BY <1>1, <2>1, <2>2, GotoMoves, StepFaultFree, IsTyped
<1>3. CASE BuildLayer(w)
  <2>1. UNCHANGED <<status, finalizeWorker, cloned, round, todo>>
    BY <1>3 DEF BuildLayer
  <2>2. CASE /\ status[job[w]] = "building" /\ buildWorker[job[w]] = NoWorker
             /\ buildWorker' = [buildWorker EXCEPT ![job[w]] = w] /\ Goto(w, "buildClone")
    <3>1. pc'[w] = "buildClone" /\ job'[w] = job[w]
          /\ \A v \in Worker \ {w} : pc'[v] = pc[v] /\ job'[v] = job[v]
      BY <2>2, GotoMoves DEF IInv
    <3>2. buildWorker'[job[w]] = w /\ \A l : l # job[w] => buildWorker'[l] = buildWorker[l]
      BY <1>1, <2>2 DEF IInv, TypeOK
    <3>3. QED BY <1>1, <2>1, <2>2, <3>1, <3>2, StepFaultFree, IsTyped
  <2>3. CASE Goto(w, "finalizeSetCurrent") /\ UNCHANGED buildWorker
    BY <1>1, <2>1, <2>3, GotoMoves, StepFaultFree, IsTyped
  <2>4. QED BY <1>3, <2>2, <2>3 DEF BuildLayer
<1>4. CASE GitClone(w)
  <2>1. /\ UNCHANGED <<status, buildWorker, finalizeWorker, round, todo>> /\ pc[w] = "buildClone"
        /\ cloned' = cloned \/ cloned' = cloned \cup {<<HostOf[w], job[w]>>}
    BY <1>4 DEF GitClone
  <2>2. PICK label \in {"buildWrite", "finalizeSetCurrent"} : Goto(w, label)
    BY <1>4 DEF GitClone
  <2>3. pc'[w] = label /\ job'[w] = job[w]
        /\ \A v \in Worker \ {w} : pc'[v] = pc[v] /\ job'[v] = job[v]
    BY <2>2, GotoMoves DEF IInv
  <2>4. buildWorker[job[w]] = w /\ w # NoWorker
    BY <2>1, WorkerAssumption DEF FaultFreeInv
  <2>5. \A h, l : <<h, l>> \in cloned' => <<h, l>> \in cloned \/ l = job[w]
    BY <2>1
  <2>6. QED BY <1>1, <2>1, <2>3, <2>4, <2>5, StepFaultFree, IsTyped
<1>5. CASE CreateLayerChanges(w)
  <2>1. UNCHANGED <<status, buildWorker, finalizeWorker, cloned, round, todo, pc, job>>
    BY <1>5 DEF CreateLayerChanges, workerVars
  <2>2. QED BY <1>1, <2>1 DEF FaultFreeInv
<1>6. CASE FinishBuild(w)
  <2>1. /\ UNCHANGED <<buildWorker, finalizeWorker, cloned, round, todo>>
        /\ Goto(w, "finalizeSetCurrent")
        /\ status' = status \/ status' = [status EXCEPT ![job[w]] = "finalizing"]
    BY <1>6 DEF FinishBuild
  <2>2. \A l \in LayerId : status'[l] \in {"absent", "building"} => status[l] = status'[l]
    BY <2>1 DEF IInv, TypeOK
  <2>3. QED BY <1>1, <2>1, <2>2, GotoMoves, StepFaultFree, IsTyped
<1>7. QED BY <1>2, <1>3, <1>4, <1>5, <1>6 DEF BuildStep

LEMMA FinalizeFaultFree ==
    ASSUME IInv, FaultFreeInv, NEW w \in Worker, FinalizeStep(w)
    PROVE  FaultFreeInv'
<1>1. job[w] \in LayerId /\ round[w] # 0
  <2>1. pc[w] \in FinalizeLabel
    BY DEF FinalizeStep, FinalizeSetCurrent, TrySetCurrentBuild, FinalizeLayer, ListLayerChanges,
       CreateLayerMember, FinishLayer, FinishLayerSet, FinalizeLabel
  <2>2. QED BY <2>1, AtWork DEF IInv, TypeOK, JobLabel, FinalizeLabel
<1>2. CASE CreateLayerMember(w)
  <2>1. UNCHANGED <<status, buildWorker, finalizeWorker, cloned, round, todo, pc, job>>
    BY <1>2 DEF CreateLayerMember
  <2>2. QED BY <2>1 DEF FaultFreeInv
<1>3. CASE ~CreateLayerMember(w)
  <2>1. PICK label \in {"finalizeLock", "pick", "finalizeList", "finalizeMembers", "finalizeClear"} :
           Goto(w, label)
    BY <1>3 DEF FinalizeStep, FinalizeSetCurrent, TrySetCurrentBuild, FinalizeLayer, ListLayerChanges,
       FinishLayer, FinishLayerSet
  <2>2. /\ pc'[w] = label
        /\ job'[w] = IF label \in JobLabel THEN job[w] ELSE Nil
        /\ \A v \in Worker \ {w} : pc'[v] = pc[v] /\ job'[v] = job[v]
    BY <2>1, GotoMoves DEF IInv
  <2>3. UNCHANGED <<buildWorker, cloned, round, todo>>
    BY <1>3 DEF FinalizeStep, FinalizeSetCurrent, TrySetCurrentBuild, FinalizeLayer, ListLayerChanges,
       FinishLayer, FinishLayerSet, tableVars
  <2>4. \/ UNCHANGED <<status, finalizeWorker>>
        \/ /\ UNCHANGED status /\ status[job[w]] = "finalizing"
           /\ finalizeWorker' = [finalizeWorker EXCEPT ![job[w]] = w]
        \/ UNCHANGED finalizeWorker /\ status' = [status EXCEPT ![job[w]] = "ready"]
    BY <1>3 DEF FinalizeStep, FinalizeSetCurrent, TrySetCurrentBuild, FinalizeLayer, ListLayerChanges,
       FinishLayer, FinishLayerSet, tableVars
  <2>5. \A l \in LayerId : status'[l] \in {"absent", "building"} =>
                  status[l] = status'[l] /\ finalizeWorker'[l] = finalizeWorker[l]
    BY <2>4 DEF IInv, TypeOK
  <2>6. QED BY <1>1, <2>2, <2>3, <2>5, StepFaultFree, IsTyped
<1>4. QED BY <1>2, <1>3

LEMMA NextFaultFree == IInv /\ FaultFreeInv /\ [Normal]_vars => FaultFreeInv'
<1> SUFFICES ASSUME IInv, FaultFreeInv, [Normal]_vars PROVE FaultFreeInv'
  OBVIOUS
<1>1. CASE UNCHANGED vars
  BY <1>1 DEF vars, FaultFreeInv
<1>2. ASSUME NEW l \in LayerId, SetLastLayerId(l) \/ CreateLayer(l) PROVE FaultFreeInv'
  <2>1. UNCHANGED <<buildWorker, finalizeWorker, cloned, pc, job, todo, round>>
    BY <1>2 DEF SetLastLayerId, CreateLayer, workerVars
  <2>2. status' = status \/ (status[l] = "absent" /\ status' = [status EXCEPT ![l] = "building"])
    BY <1>2 DEF SetLastLayerId, CreateLayer, IInv, LockInv, KnownLayers
  <2>3. \A m \in LayerId : /\ status'[m] = "absent" => status[m] = "absent"
                           /\ status'[m] = "building" => status[m] \in {"absent", "building"}
    BY <2>2 DEF IInv, TypeOK
  <2>4. QED BY <2>1, <2>3 DEF FaultFreeInv
<1>3. QED BY <1>1, <1>2, LoopFaultFree, CancelFaultFree, BuildFaultFree, FinalizeFaultFree
          DEF Normal, Create, WorkerStep

\* A step at a layer that the worker goes on with.
LEMMA SoloStays ==
    ASSUME TypeOK, NEW w \in Worker, Solo(w), pc'[w] \in JobLabel, job'[w] = job[w],
           todo'[w] = todo[w], phase'[w] = phase[w], pc[w] # "idle", SoloJob(w)',
           \A l \in LayerId \ {job[w]} : status'[l] = status[l] /\ buildWorker'[l] = buildWorker[l],
           \A l \in LayerId \ {job[w]} : buildCurrent'[SetOf[l]] \in {buildCurrent[SetOf[l]], job[w]},
           pc'[w] \notin LockedLabel => pc[w] \notin LockedLabel /\ buildCurrent' = buildCurrent
    PROVE  Solo(w)' /\ Settled(w)
<1>1. pc'[w] # "idle"
  BY DEF JobLabel, BuildLabel, FinalizeLabel, CancelLabel
<1>2. \A l \in LayerId \ {job[w]} : Untouched(l)' = Untouched(l)
  BY DEF Untouched
<1>3. \A l \in todo'[w] : Untouched(l)' /\ l # job'[w]
  BY <1>2 DEF Solo, TypeOK
<1>4. phase'[w] = "finalizing" => todo'[w] = {}
  BY DEF Solo
<1>5. ASSUME NEW l \in LayerId \ {job'[w]}
      PROVE  /\ status'[l] \notin {"absent", "ready", "cancelled"} => Untouched(l)'
             /\ buildCurrent'[SetOf[l]] # l
  BY <1>2 DEF Solo
<1>6. pc'[w] \notin LockedLabel => \A s \in LayerSet : buildCurrent'[s] = Nil
  BY DEF Solo
<1>7. QED BY <1>1, <1>3, <1>4, <1>5, <1>6 DEF Solo, Settled

\* A step that ends the work on a layer, and leaves it settled.
LEMMA SoloLeaves ==
    ASSUME TypeOK, NEW w \in Worker, Solo(w), pc'[w] = "pick", job'[w] = Nil,
           todo'[w] = todo[w], phase'[w] = phase[w], pc[w] # "idle",
           job[w] \in LayerId, status'[job[w]] \in {"ready", "cancelled"},
           \A l \in LayerId \ {job[w]} : status'[l] = status[l] /\ buildWorker'[l] = buildWorker[l],
           \A s \in LayerSet : buildCurrent'[s] = Nil
    PROVE  Solo(w)' /\ Settled(w)
<1>1. pc'[w] \notin LockedLabel
  BY DEF LockedLabel, BuildLabel, FinalizeLabel
<1>2. \A l \in LayerId \ {job[w]} : Untouched(l)' = Untouched(l)
  BY DEF Untouched
<1>3. \A l \in LayerId : l # Nil /\ SetOf[l] \in LayerSet
  BY Constants DEF Assumptions
<1>4. \A l \in todo'[w] : Untouched(l)' /\ l # job'[w]
  BY <1>2, <1>3 DEF Solo, TypeOK
<1>5. phase'[w] = "finalizing" => todo'[w] = {}
  BY DEF Solo
<1>6. ASSUME NEW l \in LayerId
      PROVE  /\ status'[l] \notin {"absent", "ready", "cancelled"} => Untouched(l)'
             /\ buildCurrent'[SetOf[l]] # l
  BY <1>2, <1>3 DEF Solo
<1>7. SoloJob(w)'
  BY <1>1 DEF SoloJob
<1>8. Settled(w)
  BY DEF Settled
<1>9. QED BY <1>4, <1>5, <1>6, <1>7, <1>8 DEF Solo

\* The steps of the worker leave other workers alone, and it knows its layer.
LEMMA SoloLoop ==
    ASSUME IInv, FaultFreeInv, NEW w \in Worker, Solo(w), Loop(w)
    PROVE  Solo(w)' /\ Settled(w)
<1>1. /\ UNCHANGED <<status, buildWorker, finalizeWorker, buildCurrent, buildLast, cloned>>
      /\ pc[w] \in {"idle", "pick"}
  BY DEF Loop, StartRound, StartFinalizing, EndRound, Take, TakeStale, TakeBlocked,
         TakeBuildable, TakeFinalizing, tableVars
<1>2. job[w] = Nil /\ \A l \in LayerId : l # Nil /\ SetOf[l] \in LayerSet
  BY <1>1, Constants DEF Assumptions, FaultFreeInv, JobLabel, BuildLabel, FinalizeLabel, CancelLabel
<1>3. /\ \A s \in LayerSet : buildCurrent[s] = Nil
      /\ \A l \in LayerId : status[l] \notin {"absent", "ready", "cancelled"} => Untouched(l)
  BY <1>1, <1>2 DEF Solo, LockedLabel, BuildLabel, FinalizeLabel
<1>4. \A l : Untouched(l)' = Untouched(l)
  BY <1>1 DEF Untouched
<1>5. ASSUME job'[w] = Nil, pc'[w] \in {"pick", "idle"}, todo[w] = {},
             \A l \in todo'[w] : l \in LayerId /\ Untouched(l),
             phase'[w] = "finalizing" \/ pc'[w] = "idle" => todo'[w] = {}
      PROVE  Solo(w)' /\ Settled(w)
  <2>1. SoloJob(w)'
    BY <1>5 DEF SoloJob, LockedLabel, BuildLabel, FinalizeLabel
  <2>2. Settled(w)
    BY <1>2, <1>5 DEF Settled
  <2>3. \A l \in todo'[w] : Untouched(l)' /\ l # job'[w]
    BY <1>2, <1>4, <1>5
  <2>4. \A l \in LayerId \ {job'[w]} :
          /\ status'[l] \notin {"absent", "ready", "cancelled"} => Untouched(l)'
          /\ buildCurrent'[SetOf[l]] # l
    BY <1>1, <1>2, <1>3, <1>4
  <2>5. QED BY <1>1, <1>3, <1>5, <2>1, <2>2, <2>3, <2>4 DEF Solo
<1>6. CASE StartRound(w)
  <2>1. /\ pc'[w] = "pick" /\ job'[w] = Nil /\ todo'[w] = PendingBuilding /\ phase'[w] = "building"
        /\ pc[w] = "idle"
    BY <1>2, <1>6, GotoMoves DEF IInv, TypeOK, StartRound, JobLabel, BuildLabel, FinalizeLabel, CancelLabel
  <2>2. \A l \in todo'[w] : l \in LayerId /\ Untouched(l)
    BY <2>1 DEF PendingBuilding, Untouched
  <2>3. QED BY <1>5, <2>1, <2>2 DEF Solo
<1>7. CASE StartFinalizing(w)
  <2>1. PendingFinalizing = {}
    BY <1>3 DEF PendingFinalizing, Untouched
  <2>2. pc'[w] = "pick" /\ job'[w] = Nil /\ todo'[w] = {} /\ todo[w] = {}
    BY <1>2, <1>7, <2>1 DEF IInv, TypeOK, StartFinalizing
  <2>3. QED BY <1>5, <2>2
<1>8. CASE EndRound(w)
  <2>1. pc'[w] = "idle" /\ job'[w] = Nil /\ todo'[w] = {} /\ todo[w] = {}
    BY <1>2, <1>8, GotoMoves DEF IInv, EndRound, JobLabel, BuildLabel, FinalizeLabel, CancelLabel
  <2>2. QED BY <1>5, <2>1
<1>9. ASSUME NEW l \in LayerId, NEW label \in {"cancelStatus", "buildSetCurrent"}, Take(w, l, label),
             label = "buildSetCurrent" => ~IsStale(l)
      PROVE  Solo(w)' /\ Settled(w)
  <2>1. /\ pc'[w] = label /\ job'[w] = l /\ todo'[w] = todo[w] \ {l} /\ phase'[w] = phase[w]
        /\ l \in todo[w]
    BY <1>9 DEF IInv, TypeOK, Take
  <2>2. \A m \in todo[w] : Untouched(m)
    BY DEF Solo
  <2>3. SoloJob(w)'
    BY <1>1, <1>4, <1>9, <2>1, <2>2 DEF SoloJob, IsStale, LockedLabel, BuildLabel, FinalizeLabel
  <2>4. \A m \in todo'[w] : Untouched(m)' /\ m # job'[w]
    BY <1>4, <2>1, <2>2
  <2>5. \A m \in LayerId \ {job'[w]} :
          /\ status'[m] \notin {"absent", "ready", "cancelled"} => Untouched(m)'
          /\ buildCurrent'[SetOf[m]] # m
    BY <1>1, <1>2, <1>3, <1>4
  <2>6. Settled(w)
    BY <1>2, <2>1 DEF Settled
  <2>7. phase'[w] = "finalizing" \/ pc'[w] = "idle" => todo'[w] = {}
    BY <2>1 DEF Solo
  <2>8. QED BY <1>1, <1>3, <2>3, <2>4, <2>5, <2>6, <2>7 DEF Solo
<1>10. ASSUME NEW l \in LayerId, TakeBlocked(w, l) \/ TakeFinalizing(w, l)
       PROVE  FALSE
  BY <1>2, <1>3, <1>10 DEF TakeBlocked, IsBlocked, TakeFinalizing, Take, Solo
<1>11. QED BY <1>6, <1>7, <1>8, <1>9, <1>10 DEF Loop, TakeStale, TakeBuildable

LEMMA SoloCancel ==
    ASSUME IInv, FaultFreeInv, NEW w \in Worker, Solo(w), CancelStep(w)
    PROVE  Solo(w)' /\ Settled(w)
<1> USE DEF JobLabel, LockedLabel, BuildLabel, FinalizeLabel, CancelLabel
<1>1. /\ pc[w] \in CancelLabel /\ job[w] \in LayerId
      /\ \A s \in LayerSet : buildCurrent[s] = Nil
      /\ UNCHANGED <<buildWorker, finalizeWorker, phase>>
  BY DEF IInv, TypeOK, CancelStep, CancelStatus, CancelCurrent, Exit, Solo
<1>2. CASE CancelStatus(w)
  <2>1. status[job[w]] = "building"
    BY <1>2 DEF CancelStatus, Solo, SoloJob, Untouched
  <2>2. /\ status' = [status EXCEPT ![job[w]] = "cancelled"] /\ Goto(w, "cancelCurrent")
        /\ UNCHANGED <<buildCurrent, todo>> /\ pc[w] = "cancelStatus"
    BY <1>2, <2>1 DEF CancelStatus, CanCancel
  <2>3. pc'[w] = "cancelCurrent" /\ job'[w] = job[w]
    BY <2>2, GotoMoves DEF IInv
  <2>4. status'[job[w]] = "cancelled" /\ \A l \in LayerId \ {job[w]} : status'[l] = status[l]
    BY <1>1, <2>2 DEF IInv, TypeOK
  <2>5. SoloJob(w)'
    BY <2>3, <2>4 DEF SoloJob
  <2>6. QED BY <1>1, <2>2, <2>3, <2>4, <2>5, SoloStays DEF IInv
<1>3. CASE CancelCurrent(w)
  <2>1. /\ UNCHANGED <<status, todo>> /\ pc[w] = "cancelCurrent" /\ Goto(w, "pick")
        /\ buildCurrent' = ClearsCurrent(job[w])
    BY <1>3 DEF CancelCurrent
  <2>2. \A s \in LayerSet : buildCurrent'[s] = Nil
    BY <1>1, <2>1 DEF IInv, TypeOK, ClearsCurrent
  <2>3. pc'[w] = "pick" /\ job'[w] = Nil
    BY <2>1, GotoMoves DEF IInv
  <2>4. status'[job[w]] = "cancelled"
    BY <2>1 DEF Solo, SoloJob
  <2>5. QED BY <1>1, <2>1, <2>2, <2>3, <2>4, SoloLeaves DEF IInv
<1>4. QED BY <1>2, <1>3 DEF CancelStep

\* No build is skipped: nobody else holds a lock, and no earlier attempt has
\* left a directory.
LEMMA SoloBuild ==
    ASSUME IInv, FaultFreeInv, NEW w \in Worker, Solo(w), BuildStep(w)
    PROVE  Solo(w)' /\ Settled(w)
<1> USE DEF JobLabel, LockedLabel, BuildLabel, FinalizeLabel, CancelLabel
<1> DEFINE l == job[w]
<1>1. /\ pc[w] \in BuildLabel /\ l \in LayerId /\ SetOf[l] \in LayerSet /\ l # Nil
      /\ UNCHANGED <<finalizeWorker, phase, todo>>
  <2>1. pc[w] \in BuildLabel /\ UNCHANGED <<finalizeWorker, phase, todo>>
    BY DEF BuildStep, BuildSetCurrent, TrySetCurrentBuild, BuildLayer, GitClone, CreateLayerChanges,
       FinishBuild, workerVars
  <2>2. QED BY <2>1, Constants DEF Assumptions, IInv, TypeOK
<1>2. CASE BuildSetCurrent(w)
  <2>1. /\ Untouched(l) /\ ~IsStale(l) /\ buildCurrent[SetOf[l]] = Nil /\ pc[w] = "buildSetCurrent"
    BY <1>1, <1>2 DEF BuildSetCurrent, TrySetCurrentBuild, Solo, SoloJob
  <2>2. buildLast[SetOf[l]] < l
    <3>1. buildLast[SetOf[l]] \in Nat /\ l \in Nat
      BY <1>1, Constants, IdsAreNat DEF Assumptions, IInv, TypeOK
    <3>2. buildLast[SetOf[l]] # l
      BY <1>1, <2>1 DEF Untouched, IInv, LockInv, SetRow
    <3>3. QED BY <2>1, <3>1, <3>2 DEF IsStale
  <2>3. /\ buildCurrent' = [buildCurrent EXCEPT ![SetOf[l]] = l] /\ Goto(w, "buildLock")
        /\ UNCHANGED <<status, buildWorker, cloned, buildLast>>
    BY <1>1, <1>2, <2>1, <2>2 DEF BuildSetCurrent, TrySetCurrentBuild, CanSetCurrent
  <2>4. pc'[w] = "buildLock" /\ job'[w] = l
    BY <2>3, GotoMoves DEF IInv
  <2>5. \A s \in LayerSet : buildCurrent'[s] = IF s = SetOf[l] THEN l ELSE buildCurrent[s]
    BY <2>3 DEF IInv, TypeOK
  <2>6. SoloJob(w)'
    BY <1>1, <2>1, <2>3, <2>4, <2>5 DEF SoloJob, Untouched, HoldsLock
  <2>7. \A m \in LayerId : buildCurrent'[SetOf[m]] \in {buildCurrent[SetOf[m]], l}
    BY <2>5, Constants DEF Assumptions
  <2>8. QED BY <1>1, <2>1, <2>3, <2>4, <2>6, <2>7, SoloStays DEF IInv
<1>3. CASE BuildLayer(w)
  <2>1. Untouched(l) /\ HoldsLock(w) /\ pc[w] = "buildLock"
    BY <1>3 DEF BuildLayer, Solo, SoloJob
  <2>2. /\ buildWorker' = [buildWorker EXCEPT ![l] = w] /\ Goto(w, "buildClone")
        /\ UNCHANGED <<status, buildCurrent, buildLast, cloned>>
    BY <1>3, <2>1 DEF BuildLayer, Untouched
  <2>3. pc'[w] = "buildClone" /\ job'[w] = l
    BY <2>2, GotoMoves DEF IInv
  <2>4. <<HostOf[w], l>> \notin cloned
    <3>1. HostOf[w] \in Host
      BY Constants DEF Assumptions
    <3>2. QED BY <1>1, <2>1, <3>1 DEF Untouched, FaultFreeInv
  <2>5. SoloJob(w)'
    BY <2>1, <2>2, <2>3, <2>4 DEF SoloJob, Untouched, HoldsLock
  <2>6. \A m \in LayerId \ {l} : buildWorker'[m] = buildWorker[m]
    BY <2>2 DEF IInv, TypeOK
  <2>7. QED BY <1>1, <2>1, <2>2, <2>3, <2>5, <2>6, SoloStays DEF IInv
<1>4. CASE GitClone(w)
  <2>1. status[l] = "building" /\ HoldsLock(w) /\ <<HostOf[w], l>> \notin cloned /\ pc[w] = "buildClone"
    BY <1>4 DEF GitClone, Solo, SoloJob
  <2>2. Goto(w, "buildWrite") /\ UNCHANGED <<status, buildWorker, buildCurrent, buildLast>>
    BY <1>4, <2>1 DEF GitClone
  <2>3. pc'[w] = "buildWrite" /\ job'[w] = l
    BY <2>2, GotoMoves DEF IInv
  <2>4. SoloJob(w)'
    BY <2>1, <2>2, <2>3 DEF SoloJob, HoldsLock
  <2>5. QED BY <1>1, <2>1, <2>2, <2>3, <2>4, SoloStays DEF IInv
<1>5. CASE CreateLayerChanges(w)
  <2>1. UNCHANGED <<status, buildWorker, buildCurrent, buildLast, cloned, pc, job>>
    BY <1>5 DEF CreateLayerChanges, workerVars
  <2>2. SoloJob(w)'
    BY <1>1, <2>1 DEF Solo, SoloJob, HoldsLock, Untouched, IsStale
  <2>3. QED BY <1>1, <2>1, <2>2, SoloStays DEF IInv
<1>6. CASE FinishBuild(w)
  <2>1. /\ status[l] = "building" /\ HoldsLock(w) /\ pc[w] = "buildWrite"
        /\ buildWorker[l] = w /\ finalizeWorker[l] = NoWorker
    BY <1>1, <1>6 DEF FinishBuild, Solo, SoloJob, FaultFreeInv
  <2>2. /\ status' = [status EXCEPT ![l] = "finalizing"] /\ Goto(w, "finalizeSetCurrent")
        /\ UNCHANGED <<buildWorker, buildCurrent, buildLast, cloned>>
    BY <1>6, <2>1 DEF FinishBuild, CanFinishBuild
  <2>3. pc'[w] = "finalizeSetCurrent" /\ job'[w] = l
    BY <2>2, GotoMoves DEF IInv
  <2>4. status'[l] = "finalizing" /\ \A m \in LayerId \ {l} : status'[m] = status[m]
    BY <1>1, <2>2 DEF IInv, TypeOK
  <2>5. SoloJob(w)'
    BY <1>1, <2>1, <2>2, <2>3, <2>4 DEF SoloJob, HoldsLock
  <2>6. QED BY <1>1, <2>1, <2>2, <2>3, <2>4, <2>5, SoloStays DEF IInv
<1>7. QED BY <1>2, <1>3, <1>4, <1>5, <1>6 DEF BuildStep

LEMMA SoloFinalize ==
    ASSUME IInv, FaultFreeInv, NEW w \in Worker, Solo(w), FinalizeStep(w)
    PROVE  Solo(w)' /\ Settled(w)
<1> USE DEF JobLabel, LockedLabel, BuildLabel, FinalizeLabel, CancelLabel
<1> DEFINE l == job[w]
<1>1. /\ pc[w] \in FinalizeLabel /\ l \in LayerId /\ SetOf[l] \in LayerSet /\ l # Nil
      /\ HoldsLock(w) /\ UNCHANGED <<buildWorker, phase, todo, cloned>>
  <2>1. pc[w] \in FinalizeLabel /\ UNCHANGED <<buildWorker, phase, todo, cloned>>
    BY DEF FinalizeStep, FinalizeSetCurrent, TrySetCurrentBuild, FinalizeLayer, ListLayerChanges,
       CreateLayerMember, FinishLayer, FinishLayerSet, tableVars
  <2>2. QED BY <2>1, Constants DEF Assumptions, IInv, TypeOK, Solo, SoloJob
<1>2. CASE FinalizeSetCurrent(w)
  <2>1. status[l] = "finalizing" /\ finalizeWorker[l] = NoWorker
    BY <1>2 DEF FinalizeSetCurrent, TrySetCurrentBuild, Solo, SoloJob
  <2>2. Goto(w, "finalizeLock") /\ UNCHANGED <<status, finalizeWorker, buildCurrent, buildLast>>
    BY <1>1, <1>2 DEF FinalizeSetCurrent, TrySetCurrentBuild, CanSetCurrent, HoldsLock
  <2>3. pc'[w] = "finalizeLock" /\ job'[w] = l
    BY <2>2, GotoMoves DEF IInv
  <2>4. SoloJob(w)'
    BY <1>1, <2>1, <2>2, <2>3 DEF SoloJob, HoldsLock
  <2>5. QED BY <1>1, <2>2, <2>3, <2>4, SoloStays DEF IInv
<1>3. CASE FinalizeLayer(w)
  <2>1. status[l] = "finalizing" /\ finalizeWorker[l] = NoWorker
    BY <1>3 DEF FinalizeLayer, Solo, SoloJob
  <2>2. /\ finalizeWorker' = [finalizeWorker EXCEPT ![l] = w] /\ Goto(w, "finalizeList")
        /\ UNCHANGED <<status, buildCurrent, buildLast>>
    BY <1>3, <2>1 DEF FinalizeLayer
  <2>3. pc'[w] = "finalizeList" /\ job'[w] = l
    BY <2>2, GotoMoves DEF IInv
  <2>4. finalizeWorker'[l] = w
    BY <1>1, <2>2 DEF IInv, TypeOK
  <2>5. SoloJob(w)'
    BY <1>1, <2>1, <2>2, <2>3, <2>4 DEF SoloJob, HoldsLock
  <2>6. QED BY <1>1, <2>2, <2>3, <2>5, SoloStays DEF IInv
<1>4. CASE ListLayerChanges(w)
  <2>1. /\ Goto(w, "finalizeMembers") /\ pc[w] = "finalizeList"
        /\ UNCHANGED <<status, finalizeWorker, buildCurrent, buildLast>>
    BY <1>4 DEF ListLayerChanges, tableVars
  <2>2. pc'[w] = "finalizeMembers" /\ job'[w] = l
    BY <2>1, GotoMoves DEF IInv
  <2>3. SoloJob(w)'
    BY <1>1, <2>1, <2>2 DEF Solo, SoloJob, HoldsLock
  <2>4. QED BY <1>1, <2>1, <2>2, <2>3, SoloStays DEF IInv
<1>5. CASE CreateLayerMember(w)
  <2>1. UNCHANGED <<status, finalizeWorker, buildCurrent, buildLast, pc, job>>
    BY <1>5 DEF CreateLayerMember
  <2>2. SoloJob(w)'
    BY <1>1, <2>1 DEF Solo, SoloJob, HoldsLock
  <2>3. QED BY <1>1, <2>1, <2>2, SoloStays DEF IInv
<1>6. CASE FinishLayer(w)
  <2>1. status[l] = "finalizing" /\ finalizeWorker[l] = w
    BY <1>6 DEF FinishLayer, Solo, SoloJob
  <2>2. /\ status' = [status EXCEPT ![l] = "ready"] /\ Goto(w, "finalizeClear")
        /\ UNCHANGED <<finalizeWorker, buildCurrent, buildLast>>
    BY <1>6, <2>1 DEF FinishLayer
  <2>3. pc'[w] = "finalizeClear" /\ job'[w] = l
    BY <2>2, GotoMoves DEF IInv
  <2>4. \A m \in LayerId \ {l} : status'[m] = status[m]
    BY <2>2 DEF IInv, TypeOK
  <2>5. SoloJob(w)'
    BY <1>1, <2>2, <2>3 DEF SoloJob, HoldsLock
  <2>6. QED BY <1>1, <2>2, <2>3, <2>4, <2>5, SoloStays DEF IInv
<1>7. CASE FinishLayerSet(w)
  <2>1. /\ pc[w] = "finalizeClear" /\ status[l] = "ready" /\ buildCurrent[SetOf[l]] = l
    BY <1>7 DEF FinishLayerSet, IInv, LockInv, BetweenUpdates
  <2>2. /\ buildCurrent' = [buildCurrent EXCEPT ![SetOf[l]] = Nil] /\ Goto(w, "pick")
        /\ UNCHANGED <<status, finalizeWorker>>
    BY <1>7, <2>1 DEF FinishLayerSet, Unlock
  <2>3. pc'[w] = "pick" /\ job'[w] = Nil
    BY <2>2, GotoMoves DEF IInv
  <2>4. ASSUME NEW s \in LayerSet PROVE buildCurrent'[s] = Nil
    <3>1. CASE s = SetOf[l]
      BY <2>2, <3>1 DEF IInv, TypeOK
    <3>2. CASE s # SetOf[l]
      <4>1. buildCurrent'[s] = buildCurrent[s] /\ buildCurrent[s] \in LayerIdOrNil
        BY <2>2, <3>2 DEF IInv, TypeOK
      <4>2. buildCurrent[s] # Nil => SetOf[buildCurrent[s]] = s
        BY DEF IInv, LockInv, SetRow
      <4>3. \A m \in LayerId \ {l} : buildCurrent[SetOf[m]] # m
        BY DEF Solo
      <4>4. QED BY <3>2, <4>1, <4>2, <4>3 DEF LayerIdOrNil
    <3>3. QED BY <3>1, <3>2
  <2>5. QED BY <1>1, <2>1, <2>2, <2>3, <2>4, SoloLeaves DEF IInv
<1>8. QED BY <1>2, <1>3, <1>4, <1>5, <1>6, <1>7 DEF FinalizeStep

\* create_layer adds a layer that nobody has touched.
LEMMA SoloCreate ==
    ASSUME IInv, FaultFreeInv, NEW w \in Worker, Solo(w), Create
    PROVE  Solo(w)' /\ Settled(w)
<1>1. PICK l \in LayerId : SetLastLayerId(l) \/ CreateLayer(l)
  BY DEF Create
<1>2. UNCHANGED <<buildCurrent, buildLast, buildWorker, finalizeWorker, cloned, pc, job, todo, phase>>
  BY <1>1 DEF SetLastLayerId, CreateLayer, workerVars
<1>3. status' = status \/ (status[l] = "absent" /\ status' = [status EXCEPT ![l] = "building"])
  BY <1>1 DEF SetLastLayerId, CreateLayer, IInv, LockInv, KnownLayers
<1>4. \A m \in LayerId : \/ status'[m] = status[m]
                         \/ status[m] = "absent" /\ Untouched(m)'
  <2>1. status[l] = "absent" => buildWorker[l] = NoWorker
    BY DEF FaultFreeInv
  <2>2. QED BY <1>2, <1>3, <2>1 DEF IInv, TypeOK, Untouched
<1>5. \A m \in LayerId : status[m] # "absent" => status'[m] = status[m] /\ Untouched(m)' = Untouched(m)
  BY <1>2, <1>4 DEF Untouched
<1>6. pc[w] \in JobLabel => job[w] \in LayerId /\ status[job[w]] # "absent"
  BY DEF IInv, TypeOK, LockInv, KnownLayers
<1>7. SoloJob(w)'
  BY <1>2, <1>5, <1>6 DEF Solo, SoloJob, HoldsLock, IsStale, LockedLabel, JobLabel, BuildLabel,
     FinalizeLabel, CancelLabel
<1>8. \A m \in todo'[w] : Untouched(m)' /\ m # job'[w]
  BY <1>2, <1>5 DEF IInv, TypeOK, LockInv, KnownLayers, Solo
<1>9. \A m \in LayerId \ {job'[w]} :
          /\ status'[m] \notin {"absent", "ready", "cancelled"} => Untouched(m)'
          /\ buildCurrent'[SetOf[m]] # m
  BY <1>2, <1>4, <1>5 DEF Solo
<1>10. QED BY <1>2, <1>7, <1>8, <1>9 DEF Solo, Settled

\* round[w] counts up, and only as the worker begins a call of build().
LEMMA RoundCounts ==
    ASSUME TypeOK, [Normal]_vars
    PROVE  \A v \in Worker : round'[v] = 0 => round[v] = 0
<1>1. ASSUME NEW w \in Worker, Loop(w) PROVE \A v \in Worker : round'[v] = 0 => round[v] = 0
  <2>1. CASE StartRound(w)
    BY <2>1 DEF TypeOK, StartRound
  <2>2. CASE ~StartRound(w)
    <3>1. round' = round
      BY <1>1, <2>2 DEF Loop, StartFinalizing, EndRound, Take, TakeStale, TakeBlocked,
         TakeBuildable, TakeFinalizing
    <3>2. QED BY <3>1
  <2>3. QED BY <2>1, <2>2
<1>2. ASSUME NEW w \in Worker, CancelStep(w) \/ BuildStep(w) PROVE round' = round
  BY <1>2 DEF CancelStep, CancelStatus, CancelCurrent, Exit, BuildStep, BuildSetCurrent,
     TrySetCurrentBuild, BuildLayer, GitClone, CreateLayerChanges, FinishBuild, workerVars
<1>3. ASSUME NEW w \in Worker, FinalizeStep(w) PROVE round' = round
  BY <1>3 DEF FinalizeStep, FinalizeSetCurrent, TrySetCurrentBuild, FinalizeLayer,
     ListLayerChanges, CreateLayerMember, FinishLayer, FinishLayerSet
<1>4. Create \/ UNCHANGED vars => round' = round
  BY DEF Create, SetLastLayerId, CreateLayer, workerVars, vars
<1>5. QED BY <1>1, <1>2, <1>3, <1>4 DEF Normal, WorkerStep

\* A process that has not called build() can only call it.
LEMMA IdleStep ==
    ASSUME TypeOK, NEW v \in Worker, pc[v] = "idle", WorkerStep(v)
    PROVE  StartRound(v)
<1>1. Loop(v)
  BY DEF WorkerStep, CancelStep, CancelStatus, CancelCurrent, BuildStep, BuildSetCurrent,
     TrySetCurrentBuild, BuildLayer, GitClone, CreateLayerChanges, FinishBuild, FinalizeStep,
     FinalizeSetCurrent, FinalizeLayer, ListLayerChanges, CreateLayerMember, FinishLayer,
     FinishLayerSet
<1>2. QED
  BY <1>1 DEF Loop, StartFinalizing, EndRound, Take, TakeStale, TakeBlocked, TakeBuildable,
     TakeFinalizing

\* While no other has called build(), the worker settles what it takes up; it
\* stays alone until another process calls build().
LEMMA SoloStep ==
    ASSUME IInv, SoloInv, [Normal]_vars, NEW w \in Worker, Alone(w)
    PROVE  Settled(w) /\ (Alone(w)' => Solo(w)')
<1>1. Solo(w) /\ FaultFreeInv /\ TypeOK
  BY DEF SoloInv, IInv
<1>2. CASE UNCHANGED vars
  BY <1>1, <1>2 DEF vars, workerVars, Solo, SoloJob, Settled, Untouched, IsStale, HoldsLock
<1>3. CASE Create
  BY <1>1, <1>3, SoloCreate
<1>4. CASE WorkerStep(w)
  BY <1>1, <1>4, SoloLoop, SoloCancel, SoloBuild, SoloFinalize DEF WorkerStep
<1>5. ASSUME NEW v \in Worker \ {w}, WorkerStep(v) PROVE Settled(w) /\ ~Alone(w)'
  <2>1. pc[v] = "idle"
    BY <1>1 DEF Alone, FaultFreeInv
  <2>2. StartRound(v)
    BY <1>1, <1>5, <2>1, IdleStep
  <2>3. round'[v] # 0
    BY <1>1, <2>2 DEF TypeOK, StartRound
  <2>4. todo'[w] = todo[w] /\ job'[w] = job[w]
    BY <1>1, <2>2, GotoMoves DEF TypeOK, StartRound
  <2>5. QED BY <2>3, <2>4 DEF Alone, Settled
<1>6. CASE \E v \in Worker : WorkerStep(v)
  <2>1. PICK v \in Worker : WorkerStep(v)
    BY <1>6
  <2>2. CASE v = w
    BY <1>4, <2>1, <2>2
  <2>3. CASE v # w
    BY <1>5, <2>1, <2>3
  <2>4. QED BY <2>2, <2>3
<1>7. QED BY <1>2, <1>3, <1>6 DEF Normal

\* build(): without faults, a worker that is alone leaves every layer it has
\* taken up ready or cancelled.
THEOREM SoloWorkersSettle == FaultFreeSpec => SoloWorkerSettles
<1>1. Init => SoloInv
  BY Constants DEF Assumptions, Init, SoloInv, FaultFreeInv, Solo, SoloJob, Untouched, JobLabel, BuildLabel,
     FinalizeLabel, CancelLabel, LockedLabel, Nil
<1>2. IInv /\ SoloInv /\ [Normal]_vars => SoloInv'
  <2>1. SUFFICES ASSUME IInv, SoloInv, [Normal]_vars PROVE SoloInv'
    OBVIOUS
  <2>2. FaultFreeInv'
    BY <2>1, NextFaultFree DEF SoloInv
  <2>3. ASSUME NEW w \in Worker, Alone(w)' PROVE Solo(w)'
    <3>1. Alone(w)
      BY <2>1, <2>3, RoundCounts DEF Alone, IInv
    <3>2. QED BY <2>1, <2>3, <3>1, SoloStep
  <2>4. QED BY <2>2, <2>3 DEF SoloInv
<1>3. ASSUME IInv, SoloInv, [Normal]_vars
      PROVE  [\A w \in Worker, l \in LayerId :
                /\ Alone(w)
                /\ l \in todo[w] \/ job[w] = l
                /\ l \notin todo'[w] /\ job'[w] # l
                => status'[l] \in {"ready", "cancelled"}]_vars
  BY <1>3, SoloStep DEF Settled
<1>4. QED BY <1>1, <1>2, <1>3, FaultFreeInvariant, PTL DEF FaultFreeSpec, SoloWorkerSettles

=============================================================================
