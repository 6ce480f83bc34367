------------------------- MODULE SiteDeploy_proofs --------------------------
(***************************************************************************)
(* Proofs about SiteDeploy: for any number of servers, builds and sites, a *)
(* build is run once, the pool is bounded, what is deployed is complete    *)
(* and a request gets a file of the commit it was directed to.             *)
(***************************************************************************)
EXTENDS SiteDeploy, FiniteSetTheorems, TLAPS

-----------------------------------------------------------------------------
(***************************************************************************)
(* The queue and the pool.                                                 *)
(***************************************************************************)

QueueInv == QueueTypes /\ ClaimInv /\ PoolInv

\* A task is one of a server and a build.
LEMMA JobParts ==
    ASSUME NEW j \in Job
    PROVE  j[1] \in Server /\ j[2] \in Build /\ j = <<j[1], j[2]>>
BY DEF Job

LEMMA JobPair ==
    ASSUME NEW s \in Server, NEW b \in Build
    PROVE  /\ <<s, b>> \in Job
           /\ <<s, b>>[1] = s /\ <<s, b>>[2] = b
BY DEF Job

LEMMA InitQueue == Init => QueueInv
<1> SUFFICES ASSUME Init PROVE QueueInv
  OBVIOUS
<1>1. QueueTypes
  BY DEF Init, QueueTypes, Live
<1>2. ClaimInv
  BY JobPair DEF Init, ClaimInv, ClaimedOnce
<1>3. PoolInv
  BY JobPair, FS_EmptySet, LimitAssumption DEF Init, PoolInv, Live
<1>4. QED BY <1>1, <1>2, <1>3 DEF QueueInv

\* Steps of a task that has been started keep the queue and the pool.
LEMMA TaskStepQueue ==
    ASSUME QueueInv, UNCHANGED queueVars,
           NEW j \in Job, task[j] \in Live, NEW x \in Live \cup {"done", "failed"},
           task' = [task EXCEPT ![j] = x]
    PROVE  QueueInv'
<1>1. QueueTypes'
  BY DEF QueueInv, QueueTypes, queueVars
<1>2. \A i \in Job : (task'[i] # "none" <=> task[i] # "none") /\ (task'[i] \in Live => task[i] \in Live)
  BY DEF QueueInv, QueueTypes, Live
<1>3. ClaimInv'
  BY <1>2, JobPair DEF QueueInv, ClaimInv, ClaimedOnce, queueVars
<1>4. PoolInv'
  BY <1>2, JobPair DEF QueueInv, PoolInv, queueVars
<1>5. QED BY <1>1, <1>3, <1>4 DEF QueueInv

LEMMA IdleQueue ==
    ASSUME QueueInv, UNCHANGED <<queueVars, task>>
    PROVE  QueueInv'
BY DEF QueueInv, QueueTypes, ClaimInv, ClaimedOnce, PoolInv, queueVars

LEMMA CreateBuildQueue ==
    ASSUME QueueInv, NEW b \in Build, CreateBuild(b)
    PROVE  QueueInv'
<1>1. QueueTypes'
  BY DEF QueueInv, QueueTypes, CreateBuild, taskVars
<1>2. ClaimInv'
  BY JobParts DEF QueueInv, QueueTypes, ClaimInv, ClaimedOnce, CreateBuild, IsNew, taskVars
<1>3. PoolInv'
  BY DEF QueueInv, PoolInv, CreateBuild, taskVars
<1>4. QED BY <1>1, <1>2, <1>3 DEF QueueInv

LEMMA SelectBuildQueue ==
    ASSUME QueueInv, NEW s \in Server, SelectBuild(s)
    PROVE  QueueInv'
<1>1. PICK b \in FreeRows :
        /\ claim' = [claim EXCEPT ![s] = b]
        /\ \E rows \in {{b}, FreeRows} : locks' = [locks EXCEPT ![s] = rows]
  BY DEF SelectBuild
<1>2. PICK rows \in {{b}, FreeRows} : locks' = [locks EXCEPT ![s] = rows]
  BY <1>1
<1>3. rows \subseteq FreeRows /\ b \in rows /\ FreeRows \subseteq Build
  BY <1>1, <1>2 DEF FreeRows
<1>4. poll' = [poll EXCEPT ![s] = "claim"] /\ poll[s] = "poll" /\ UNCHANGED <<queue, pool, task>>
  BY DEF SelectBuild, taskVars
<1>5. QueueTypes'
  BY <1>1, <1>2, <1>3, <1>4 DEF QueueInv, QueueTypes
<1>6. ClaimInv'
  <2>1. \A t \in Server : locks'[t] = (IF t = s THEN rows ELSE locks[t])
                       /\ poll'[t] = (IF t = s THEN "claim" ELSE poll[t])
    BY <1>2, <1>4 DEF QueueInv, QueueTypes
  <2>2. \A c \in rows : queue[c] = "queued" /\ \A t \in Server : c \notin locks[t]
    BY <1>3 DEF FreeRows
  <2>3. claim'[s] = b /\ \A t \in Server : t # s => claim'[t] = claim[t]
    BY <1>1 DEF QueueInv, QueueTypes
  <2>4. \A t \in Server :
            /\ poll'[t] = "claim" => claim'[t] \in locks'[t]
            /\ poll'[t] # "claim" => locks'[t] = {}
            /\ \A c \in locks'[t] : queue'[c] = "queued"
    BY <2>1, <2>2, <2>3, <1>3, <1>4 DEF QueueInv, ClaimInv
  <2>5. \A t, u \in Server : t # u => locks'[t] \cap locks'[u] = {}
    BY <2>1, <2>2 DEF QueueInv, ClaimInv
  <2>6. QED BY <2>4, <2>5, <1>4 DEF QueueInv, ClaimInv, ClaimedOnce
<1>7. PoolInv'
  BY <1>4 DEF QueueInv, QueueTypes, PoolInv
<1>8. QED BY <1>5, <1>6, <1>7 DEF QueueInv

LEMMA ClaimBuildQueue ==
    ASSUME QueueInv, NEW s \in Server, ClaimBuild(s)
    PROVE  QueueInv'
<1> DEFINE b == claim[s]
<1>1. b \in Build /\ b \in locks[s] /\ queue[b] = "queued" /\ poll[s] = "claim"
  BY DEF ClaimBuild, QueueInv, QueueTypes, ClaimInv
<1>2. <<s, b>> \in Job
  BY <1>1, JobPair
<1>3. /\ queue' = [queue EXCEPT ![b] = "building"]
      /\ locks' = [locks EXCEPT ![s] = {}]
      /\ claim' = [claim EXCEPT ![s] = None]
      /\ pool' = [pool EXCEPT ![s] = @ \cup {b}]
      /\ task' = [task EXCEPT ![<<s, b>>] = "start"]
      /\ poll' = [poll EXCEPT ![s] =
                  IF IsFull(Cardinality(pool[s] \cup {b})) THEN "full" ELSE "poll"]
  BY DEF ClaimBuild
<1> HIDE DEF b
<1>4. QueueTypes'
  <2>1. pool[s] \cup {b} \in SUBSET Build
    BY <1>1 DEF QueueInv, QueueTypes
  <2>2. pool' \in [Server -> SUBSET Build]
    BY <1>3, <2>1 DEF QueueInv, QueueTypes
  <2>3. task' \in [Job -> Live \cup {"none", "done", "failed"}]
    BY <1>2, <1>3 DEF QueueInv, QueueTypes, Live
  <2>4. poll' \in [Server -> {"poll", "claim", "full", "stopped"}]
    BY <1>3 DEF QueueInv, QueueTypes
  <2>5. QED BY <1>1, <1>3, <2>2, <2>3, <2>4 DEF QueueInv, QueueTypes
<1>5. ClaimInv'
  <2>1. \A t \in Server : task[<<t, b>>] = "none"
    BY <1>1, JobPair DEF QueueInv, ClaimInv
  <2>2. \A t \in Server : locks'[t] = (IF t = s THEN {} ELSE locks[t])
                       /\ b \notin locks'[t]
    BY <1>1, <1>3 DEF QueueInv, QueueTypes, ClaimInv
  <2>3. poll'[s] # "claim" /\ \A t \in Server : t # s => poll'[t] = poll[t] /\ claim'[t] = claim[t]
    BY <1>3 DEF QueueInv, QueueTypes
  <2>4. \A c \in Build : c # b => queue'[c] = queue[c]
    BY <1>3 DEF QueueInv, QueueTypes
  <2>5. \A t \in Server :
            /\ poll'[t] = "claim" => claim'[t] \in locks'[t]
            /\ poll'[t] # "claim" => locks'[t] = {}
            /\ \A c \in locks'[t] : queue'[c] = "queued"
    BY <2>2, <2>3, <2>4 DEF QueueInv, QueueTypes, ClaimInv
  <2>6. \A t, u \in Server : t # u => locks'[t] \cap locks'[u] = {}
    BY <2>2 DEF QueueInv, ClaimInv
  <2>7. \A j \in Job : task'[j] = (IF j = <<s, b>> THEN "start" ELSE task[j])
    BY <1>2, <1>3 DEF QueueInv, QueueTypes
  <2>8. queue'[b] = "building"
    BY <1>1, <1>3 DEF QueueInv, QueueTypes
  <2>9. \A j \in Job : task'[j] # "none" => queue'[j[2]] = "building"
    BY <2>4, <2>7, <2>8, JobParts, JobPair, <1>1 DEF QueueInv, ClaimInv
  <2>10. ClaimedOnce'
    <3> SUFFICES ASSUME NEW t \in Server, NEW u \in Server, NEW c \in Build,
                        task'[<<t, c>>] # "none", task'[<<u, c>>] # "none"
                 PROVE  t = u
      BY DEF ClaimedOnce
    <3>1. CASE c = b
      BY <3>1, <2>1, <2>7, JobPair
    <3>2. CASE c # b
      BY <3>2, <2>7, JobPair DEF QueueInv, ClaimInv, ClaimedOnce
    <3>3. QED BY <3>1, <3>2
  <2>11. QED BY <2>5, <2>6, <2>9, <2>10 DEF ClaimInv
<1>6. PoolInv'
  <2>1. IsFiniteSet(pool[s]) /\ Cardinality(pool[s]) < ConcurrentBuilds
    BY <1>1 DEF QueueInv, PoolInv
  <2>2. /\ IsFiniteSet(pool[s] \cup {b})
        /\ Cardinality(pool[s]) \in Nat /\ Cardinality(pool[s] \cup {b}) \in Nat
        /\ Cardinality(pool[s] \cup {b}) <= Cardinality(pool[s]) + 1
    <3>1. Cardinality(pool[s]) \in Nat
      BY <2>1, FS_CardinalityType
    <3>2. /\ IsFiniteSet(pool[s] \cup {b})
          /\ Cardinality(pool[s] \cup {b}) = IF b \in pool[s] THEN Cardinality(pool[s]) ELSE Cardinality(pool[s]) + 1
      BY <2>1, FS_AddElement
    <3>3. QED BY <3>1, <3>2
  <2>3. pool'[s] = pool[s] \cup {b} /\ \A t \in Server : t # s => pool'[t] = pool[t]
    BY <1>3 DEF QueueInv, QueueTypes
  <2>4. /\ poll'[s] \in {"poll", "claim"} => Cardinality(pool'[s]) < ConcurrentBuilds
        /\ Cardinality(pool'[s]) <= ConcurrentBuilds
        /\ \A t \in Server : t # s => poll'[t] = poll[t]
    BY <1>3, <2>1, <2>2, <2>3, LimitAssumption DEF QueueInv, QueueTypes, IsFull
  <2>5. \A t \in Server, c \in Build : task'[<<t, c>>] \in Live => c \in pool'[t]
    BY <1>2, <1>3, <2>3, JobPair DEF QueueInv, QueueTypes, PoolInv
  <2>6. QED BY <2>2, <2>3, <2>4, <2>5 DEF QueueInv, PoolInv
<1>7. QED BY <1>4, <1>5, <1>6 DEF QueueInv

LEMMA CollectTaskQueue ==
    ASSUME QueueInv, NEW s \in Server, CollectTask(s)
    PROVE  QueueInv'
<1>1. PICK b \in pool[s] : task[<<s, b>>] \notin Live /\ pool' = [pool EXCEPT ![s] = @ \ {b}]
  BY DEF CollectTask
<1>2. poll[s] = "full" /\ poll' = [poll EXCEPT ![s] = "poll"] /\ UNCHANGED <<queue, locks, claim, task>>
  BY DEF CollectTask, taskVars
<1>3. QueueTypes'
  BY <1>1, <1>2 DEF QueueInv, QueueTypes
<1>4. ClaimInv'
  BY <1>2 DEF QueueInv, QueueTypes, ClaimInv, ClaimedOnce
<1>5. PoolInv'
  <2>1. IsFiniteSet(pool[s]) /\ Cardinality(pool[s]) <= ConcurrentBuilds
    BY DEF QueueInv, PoolInv
  <2>2. /\ IsFiniteSet(pool[s] \ {b}) /\ Cardinality(pool[s]) \in Nat
        /\ Cardinality(pool[s] \ {b}) = Cardinality(pool[s]) - 1
    BY <1>1, <2>1, FS_RemoveElement, FS_CardinalityType
  <2>3. pool'[s] = pool[s] \ {b} /\ \A t \in Server : t # s => pool'[t] = pool[t]
    BY <1>1 DEF QueueInv, QueueTypes
  <2>4. Cardinality(pool'[s]) < ConcurrentBuilds
    BY <2>1, <2>2, <2>3, LimitAssumption
  <2>5. \A t \in Server, c \in Build : task'[<<t, c>>] \in Live => c \in pool'[t]
    BY <1>1, <1>2, <2>3 DEF QueueInv, PoolInv
  <2>6. \A t \in Server : t # s => poll'[t] = poll[t]
    BY <1>2 DEF QueueInv, QueueTypes
  <2>7. IsFiniteSet(pool'[s]) /\ Cardinality(pool'[s]) <= ConcurrentBuilds
    BY <2>1, <2>2, <2>3, LimitAssumption
  <2>8. QED BY <2>3, <2>4, <2>5, <2>6, <2>7 DEF QueueInv, PoolInv
<1>6. QED BY <1>3, <1>4, <1>5 DEF QueueInv

LEMMA QueueErrorQueue ==
    ASSUME QueueInv, NEW s \in Server, QueueError(s)
    PROVE  QueueInv'
<1>1. /\ poll' = [poll EXCEPT ![s] = "stopped"]
      /\ locks' = [locks EXCEPT ![s] = {}]
      /\ claim' = [claim EXCEPT ![s] = None]
      /\ UNCHANGED <<pool, task>>
      /\ queue' = queue \/ (poll[s] = "claim" /\ queue' = [queue EXCEPT ![claim[s]] = "building"])
  BY DEF QueueError, taskVars
<1>2. QueueTypes'
  BY <1>1 DEF QueueInv, QueueTypes
<1>3. \A t \in Server : /\ locks'[t] = (IF t = s THEN {} ELSE locks[t])
                        /\ poll'[t] = (IF t = s THEN "stopped" ELSE poll[t])
                        /\ t # s => claim'[t] = claim[t]
  BY <1>1 DEF QueueInv, QueueTypes
<1>4. \A t \in Server : \A c \in locks'[t] : queue'[c] = "queued"
  <2>1. CASE queue' = queue
    BY <2>1, <1>3 DEF QueueInv, ClaimInv
  <2>2. CASE poll[s] = "claim" /\ queue' = [queue EXCEPT ![claim[s]] = "building"]
    <3>1. claim[s] \in locks[s]
      BY <2>2 DEF QueueInv, ClaimInv
    <3>2. \A t \in Server : t # s => claim[s] \notin locks[t]
      BY <3>1 DEF QueueInv, ClaimInv
    <3>3. QED BY <2>2, <3>2, <1>3 DEF QueueInv, QueueTypes, ClaimInv
  <2>3. QED BY <1>1, <2>1, <2>2
<1>5. \A c \in Build : queue[c] = "building" => queue'[c] = "building"
  BY <1>1 DEF QueueInv, QueueTypes
<1>6. ClaimInv'
  BY <1>1, <1>3, <1>4, <1>5, JobParts DEF QueueInv, ClaimInv, ClaimedOnce
<1>7. PoolInv'
  BY <1>1, <1>3 DEF QueueInv, PoolInv
<1>8. QED BY <1>2, <1>6, <1>7 DEF QueueInv

LEMMA CrashQueue ==
    ASSUME QueueInv, NEW s \in Server, Crash(s)
    PROVE  QueueInv'
<1>1. /\ poll' = [poll EXCEPT ![s] = "stopped"]
      /\ locks' = [locks EXCEPT ![s] = {}]
      /\ claim' = [claim EXCEPT ![s] = None]
      /\ pool' = [pool EXCEPT ![s] = {}]
      /\ queue' = queue
      /\ task' = [j \in Job |-> IF j[1] = s /\ task[j] \in Live THEN "failed" ELSE task[j]]
  BY DEF Crash
<1>2. QueueTypes'
  BY <1>1 DEF QueueInv, QueueTypes
<1>3. \A t \in Server : /\ locks'[t] = (IF t = s THEN {} ELSE locks[t])
                        /\ poll'[t] = (IF t = s THEN "stopped" ELSE poll[t])
                        /\ pool'[t] = (IF t = s THEN {} ELSE pool[t])
                        /\ t # s => claim'[t] = claim[t]
  BY <1>1 DEF QueueInv, QueueTypes
<1>4. \A j \in Job : /\ task'[j] # "none" => task[j] # "none"
                     /\ task'[j] \in Live => task[j] \in Live /\ j[1] # s
  BY <1>1 DEF Live
<1>5. ClaimInv'
  BY <1>1, <1>3, <1>4, JobParts, JobPair DEF QueueInv, ClaimInv, ClaimedOnce
<1>6. PoolInv'
  BY <1>3, <1>4, JobPair, FS_EmptySet, LimitAssumption DEF QueueInv, PoolInv
<1>7. QED BY <1>2, <1>5, <1>6 DEF QueueInv

-----------------------------------------------------------------------------
(***************************************************************************)
(* What tasks store, and what is deployed.                                 *)
(***************************************************************************)

StoreInv == StoreTypes /\ TaskInv /\ DeployedIsComplete

\* Paths and contents of trees are paths and contents.
LEMMA TreeTypes ==
    ASSUME NEW b \in Build
    PROVE  /\ DOMAIN Tree[b] \subseteq Path
           /\ \A p \in DOMAIN Tree[b] : Tree[b][p] \in Content
           /\ Modules[b] \subseteq Content
BY TreeAssumption, ModulesAssumption DEF Path

\* What is stored stays stored.
Grows == files \subseteq files' /\ members \subseteq members' /\ deployments \subseteq deployments'

LEMMA AllStoredStays ==
    ASSUME NEW b \in Build, AllStored(b), Grows
    PROVE  AllStored(b)'
BY DEF AllStored, Grows

LEMMA ProgressStays ==
    ASSUME NEW j \in Job, Progress(j), Grows,
           task'[j] = task[j], todo'[j] = todo[j], taken'[j] = taken[j]
    PROVE  Progress(j)'
<1>1. j[2] \in Build
  BY JobParts
<1>2. AllStored(j[2]) => AllStored(j[2])'
  BY <1>1, AllStoredStays
<1>3. QED BY <1>2 DEF Progress, Grows

\* A step of one task leaves the others where they are.
LEMMA OneTask ==
    ASSUME TaskInv, Grows, NEW j \in Job, Progress(j)',
           \A i \in Job : i # j => task'[i] = task[i] /\ todo'[i] = todo[i] /\ taken'[i] = taken[i]
    PROVE  TaskInv'
<1>1. \A i \in Job : i # j => Progress(i)'
  BY ProgressStays DEF TaskInv
<1>2. QED BY <1>1 DEF TaskInv

LEMMA DeployedStays ==
    ASSUME DeployedIsComplete, Grows, MembersStored', deployments' = deployments, current' = current,
           StoreTypes
    PROVE  DeployedIsComplete'
<1>1. \A d \in deployments' : AllStored(d.build)'
  <2> SUFFICES ASSUME NEW d \in deployments' PROVE AllStored(d.build)'
    OBVIOUS
  <2>1. d \in deployments /\ d.build \in Build
    BY DEF StoreTypes, Deployment
  <2>2. AllStored(d.build)
    BY <2>1 DEF DeployedIsComplete
  <2>3. QED BY <2>1, <2>2, AllStoredStays
<1>2. QED BY <1>1 DEF DeployedIsComplete, CurrentIsDeployed

LEMMA MembersStay ==
    ASSUME MembersStored, files \subseteq files', members' = members
    PROVE  MembersStored'
BY DEF MembersStored

LEMMA InitStore == Init => StoreInv
<1> SUFFICES ASSUME Init PROVE StoreInv
  OBVIOUS
<1>1. StoreTypes
  BY DEF Init, StoreTypes
<1>2. TaskInv
  BY DEF Init, TaskInv, Progress
<1>3. DeployedIsComplete
  BY DEF Init, DeployedIsComplete, MembersStored, CurrentIsDeployed
<1>4. QED BY <1>1, <1>2, <1>3 DEF StoreInv

\* Steps that change no task and nothing that is stored.
LEMMA IdleStore ==
    ASSUME StoreInv, UNCHANGED <<taskVars, storeVars, dirs, deployments, current>>,
           sites' \subseteq Site, domainSite' \in Site \cup {None}
    PROVE  StoreInv'
<1>1. Grows /\ UNCHANGED <<task, todo, taken, files, members>>
  BY DEF Grows, taskVars, storeVars
<1>2. StoreTypes'
  BY <1>1 DEF StoreInv, StoreTypes
<1>3. TaskInv'
  BY <1>1, ProgressStays DEF StoreInv, TaskInv
<1>4. DeployedIsComplete'
  BY <1>1, MembersStay, DeployedStays DEF StoreInv, DeployedIsComplete
<1>5. QED BY <1>2, <1>3, <1>4 DEF StoreInv

\* The start of a task.
LEMMA ClaimBuildStore ==
    ASSUME QueueInv, StoreInv, NEW s \in Server, ClaimBuild(s)
    PROVE  StoreInv'
<1>1. PICK j \in Job : j = <<s, claim[s]>>
  BY JobPair DEF ClaimBuild, QueueInv, QueueTypes, ClaimInv
<1>2. task' = [task EXCEPT ![j] = "start"]
  BY <1>1 DEF ClaimBuild
<1>3. UNCHANGED <<todo, taken, files, members, sites, deployments, current, domainSite, dirs>>
  BY DEF ClaimBuild, storeVars, siteVars
<1>4. Grows
  BY <1>3 DEF Grows
<1>5. StoreTypes'
  BY <1>3 DEF StoreInv, StoreTypes
<1>6. task'[j] = "start" /\ \A i \in Job : i # j => task'[i] = task[i]
  BY <1>1, <1>2 DEF QueueInv, QueueTypes
<1>7. Progress(j)'
  BY <1>6 DEF Progress
<1>8. TaskInv'
  BY <1>1, <1>3, <1>4, <1>6, <1>7, OneTask DEF StoreInv
<1>9. DeployedIsComplete'
  BY <1>3, <1>4, MembersStay, DeployedStays DEF StoreInv, DeployedIsComplete
<1>10. QED BY <1>5, <1>8, <1>9 DEF StoreInv

\* Tasks that fail have nothing left to do.
LEMMA FailStore ==
    ASSUME StoreInv, UNCHANGED <<storeVars, siteVars, dirs>>, NEW F \in SUBSET Job,
           task' = [i \in Job |-> IF i \in F THEN "failed" ELSE task[i]],
           todo' = [i \in Job |-> IF i \in F THEN {} ELSE todo[i]],
           taken' = [i \in Job |-> IF i \in F THEN None ELSE taken[i]]
    PROVE  StoreInv'
<1>1. Grows /\ UNCHANGED <<files, members, sites, deployments, current, domainSite, dirs>>
  BY DEF Grows, storeVars, siteVars
<1>2. StoreTypes'
  BY <1>1 DEF StoreInv, StoreTypes
<1>3. ASSUME NEW i \in Job PROVE Progress(i)'
  <2>1. CASE i \in F
    BY <2>1 DEF Progress
  <2>2. CASE i \notin F
    BY <2>2, <1>1, ProgressStays DEF StoreInv, TaskInv
  <2>3. QED BY <2>1, <2>2
<1>4. TaskInv'
  BY <1>3 DEF TaskInv
<1>5. DeployedIsComplete'
  BY <1>1, MembersStay, DeployedStays DEF StoreInv, DeployedIsComplete
<1>6. QED BY <1>2, <1>4, <1>5 DEF StoreInv

LEMMA CrashStore ==
    ASSUME StoreInv, NEW s \in Server, Crash(s)
    PROVE  StoreInv'
<1> DEFINE ends == {j \in Job : j[1] = s /\ task[j] \in Live}
<1>1. /\ task' = [j \in Job |-> IF j \in ends THEN "failed" ELSE task[j]]
      /\ todo' = [j \in Job |-> IF j \in ends THEN {} ELSE todo[j]]
      /\ taken' = [j \in Job |-> IF j \in ends THEN None ELSE taken[j]]
      /\ UNCHANGED <<storeVars, siteVars, dirs>>
  BY DEF Crash
<1>2. ends \in SUBSET Job
  OBVIOUS
<1> HIDE DEF ends
<1>3. QED BY <1>1, <1>2, FailStore

LEMMA TaskErrorStore ==
    ASSUME QueueInv, StoreInv, NEW j \in Job, TaskError(j)
    PROVE  StoreInv'
<1>1. /\ task' = [task EXCEPT ![j] = "failed"]
      /\ todo' = [todo EXCEPT ![j] = {}]
      /\ taken' = [taken EXCEPT ![j] = None]
      /\ UNCHANGED <<storeVars, siteVars, dirs>>
  BY DEF TaskError
<1> DEFINE F == {j}
<1>2. /\ F \in SUBSET Job
      /\ \A i \in Job : i \in F <=> i = j
  OBVIOUS
<1> HIDE DEF F
<1>3. task' = [i \in Job |-> IF i \in F THEN "failed" ELSE task[i]]
  BY <1>1, <1>2 DEF QueueInv, QueueTypes
<1>4. todo' = [i \in Job |-> IF i \in F THEN {} ELSE todo[i]]
  BY <1>1, <1>2 DEF StoreInv, StoreTypes
<1>5. taken' = [i \in Job |-> IF i \in F THEN None ELSE taken[i]]
  BY <1>1, <1>2 DEF StoreInv, StoreTypes
<1>6. QED BY <1>1, <1>2, <1>3, <1>4, <1>5, FailStore

\* Steps of a task that store nothing and deploy nothing.
LEMMA QuietTaskStore ==
    ASSUME QueueInv, StoreInv, NEW j \in Job, NEW x,
           task' = [task EXCEPT ![j] = x], Progress(j)', StoreTypes',
           \A i \in Job : i # j => todo'[i] = todo[i] /\ taken'[i] = taken[i],
           UNCHANGED <<files, members, deployments, current>>
    PROVE  StoreInv'
<1>1. Grows
  BY DEF Grows
<1>2. TaskInv'
  BY <1>1, OneTask DEF StoreInv, QueueInv, QueueTypes
<1>3. DeployedIsComplete'
  BY <1>1, MembersStay, DeployedStays DEF StoreInv, DeployedIsComplete
<1>4. QED BY <1>2, <1>3 DEF StoreInv

\* The step of an action of a task, when it goes from a stage to another.
LEMMA GoesTo ==
    ASSUME QueueInv, NEW j \in Job, NEW from, NEW to, Goes(j, from, to)
    PROVE  task[j] = from /\ task'[j] = to /\ task' = [task EXCEPT ![j] = to]
BY DEF Goes, QueueInv, QueueTypes

LEMMA MakeDirectoryStore ==
    ASSUME QueueInv, StoreInv, NEW j \in Job, MakeDirectory(j)
    PROVE  StoreInv'
<1> DEFINE x == IF j[2] \in dirs THEN "failed" ELSE "fetch"
<1>1. Goes(j, "start", x) /\ UNCHANGED <<todo, taken, files, members, sites, deployments, current, domainSite>>
  BY DEF MakeDirectory, storeVars, siteVars
<1>2. x \in {"failed", "fetch"}
  OBVIOUS
<1>3. dirs' \subseteq Build
  BY JobParts DEF MakeDirectory, StoreInv, StoreTypes
<1> HIDE DEF x
<1>4. task'[j] = x /\ task' = [task EXCEPT ![j] = x]
  BY <1>1, GoesTo
<1>5. Progress(j)'
  BY <1>2, <1>4 DEF Progress
<1>6. StoreTypes'
  BY <1>1, <1>3 DEF StoreInv, StoreTypes
<1>7. QED BY <1>1, <1>4, <1>5, <1>6, QuietTaskStore

LEMMA FetchStore ==
    ASSUME QueueInv, StoreInv, NEW j \in Job, Fetch(j)
    PROVE  StoreInv'
<1>1. Goes(j, "fetch", "modules") /\ todo' = [todo EXCEPT ![j] = Modules[j[2]]]
  BY DEF Fetch
<1>2. UNCHANGED <<taken, files, members, sites, deployments, current, domainSite, dirs>>
  BY DEF Fetch, storeVars, siteVars
<1>3. task'[j] = "modules" /\ task' = [task EXCEPT ![j] = "modules"]
  BY <1>1, GoesTo
<1>4. Modules[j[2]] \subseteq Content
  BY JobParts, TreeTypes
<1>5. StoreTypes'
  BY <1>1, <1>2, <1>4 DEF StoreInv, StoreTypes
<1>6. todo'[j] = Modules[j[2]] /\ \A i \in Job : i # j => todo'[i] = todo[i]
  BY <1>1 DEF StoreInv, StoreTypes
<1>7. Progress(j)'
  BY <1>3, <1>6 DEF Progress
<1>8. QED BY <1>2, <1>3, <1>5, <1>6, <1>7, QuietTaskStore

LEMMA StoreModuleStore ==
    ASSUME QueueInv, StoreInv, NEW j \in Job, StoreModule(j)
    PROVE  StoreInv'
<1>1. task[j] = "modules" /\ UNCHANGED <<taken, members, sites, deployments, current, domainSite, dirs>>
  BY DEF StoreModule, siteVars
<1>2. todo[j] \subseteq Modules[j[2]] /\ Modules[j[2]] \ todo[j] \subseteq files /\ j[2] \in Build
  BY <1>1, JobParts DEF StoreInv, TaskInv, Progress
<1>3. Modules[j[2]] \subseteq Content /\ DOMAIN Tree[j[2]] \subseteq Path
  BY <1>2, TreeTypes
<1>4. ASSUME NEW m \in todo[j],
             files' = files \cup {m}, todo' = [todo EXCEPT ![j] = @ \ {m}], UNCHANGED task
      PROVE  StoreInv'
  <2>1. Grows
    BY <1>1, <1>4 DEF Grows
  <2>2. files' \subseteq Content
    BY <1>2, <1>3, <1>4 DEF StoreInv, StoreTypes
  <2>3. StoreTypes'
    BY <1>1, <1>4, <2>2 DEF StoreInv, StoreTypes
  <2>4. todo'[j] = todo[j] \ {m} /\ \A i \in Job : i # j => todo'[i] = todo[i]
    BY <1>4 DEF StoreInv, StoreTypes
  <2>5. Progress(j)'
    BY <1>1, <1>2, <1>4, <2>4 DEF Progress
  <2>6. TaskInv'
    BY <1>1, <1>4, <2>1, <2>4, <2>5, OneTask DEF StoreInv
  <2>7. DeployedIsComplete'
    BY <1>1, <1>4, <2>1, MembersStay, DeployedStays DEF StoreInv, DeployedIsComplete
  <2>8. QED BY <2>3, <2>6, <2>7 DEF StoreInv
<1>5. ASSUME todo[j] = {}, todo' = [todo EXCEPT ![j] = DOMAIN Tree[j[2]]],
             task' = [task EXCEPT ![j] = "files"], UNCHANGED files
      PROVE  StoreInv'
  <2>1. todo'[j] = DOMAIN Tree[j[2]] /\ \A i \in Job : i # j => todo'[i] = todo[i]
    BY <1>5 DEF StoreInv, StoreTypes
  <2>2. task'[j] = "files"
    BY <1>5 DEF QueueInv, QueueTypes
  <2>3. Progress(j)'
    BY <1>2, <1>5, <2>1, <2>2 DEF Progress
  <2>4. StoreTypes'
    BY <1>1, <1>3, <1>5 DEF StoreInv, StoreTypes
  <2>5. QED BY <1>1, <1>5, <2>1, <2>3, <2>4, QuietTaskStore
<1>6. QED BY <1>4, <1>5 DEF StoreModule

LEMMA StoreFileStore ==
    ASSUME QueueInv, StoreInv, NEW j \in Job, StoreFile(j)
    PROVE  StoreInv'
<1>1. PICK p \in todo[j] :
        files' = files \cup {Tree[j[2]][p]} /\ taken' = [taken EXCEPT ![j] = p]
  BY DEF StoreFile
<1>2. Goes(j, "files", "member") /\ UNCHANGED <<todo, members, sites, deployments, current, domainSite, dirs>>
  BY DEF StoreFile, siteVars
<1>3. task[j] = "files" /\ task'[j] = "member" /\ task' = [task EXCEPT ![j] = "member"]
  BY <1>2, GoesTo
<1>4. Progress(j) /\ j[2] \in Build
  BY JobParts DEF StoreInv, TaskInv
<1>5. p \in DOMAIN Tree[j[2]]
  BY <1>1, <1>3, <1>4 DEF Progress
<1>6. p \in Path /\ Tree[j[2]][p] \in Content
  BY <1>4, <1>5, TreeTypes
<1>7. Grows
  BY <1>1, <1>2 DEF Grows
<1>8. StoreTypes'
  BY <1>1, <1>2, <1>6 DEF StoreInv, StoreTypes
<1>9. taken'[j] = p /\ \A i \in Job : i # j => taken'[i] = taken[i]
  BY <1>1 DEF StoreInv, StoreTypes
<1>10. Progress(j)'
  BY <1>1, <1>2, <1>3, <1>4, <1>5, <1>9 DEF Progress
<1>11. TaskInv'
  <2>1. \A i \in Job : i # j => task'[i] = task[i]
    BY <1>3 DEF QueueInv, QueueTypes
  <2>2. QED BY <2>1, <1>2, <1>7, <1>9, <1>10, OneTask DEF StoreInv
<1>12. DeployedIsComplete'
  BY <1>1, <1>2, <1>7, MembersStay, DeployedStays DEF StoreInv, DeployedIsComplete
<1>13. QED BY <1>8, <1>11, <1>12 DEF StoreInv

LEMMA CreateLayerMemberStore ==
    ASSUME QueueInv, StoreInv, NEW j \in Job, CreateLayerMember(j)
    PROVE  StoreInv'
<1>1. task[j] = "member" /\ UNCHANGED <<files, sites, deployments, current, domainSite, dirs>>
  BY DEF CreateLayerMember, siteVars
<1>2. Progress(j) /\ j[2] \in Build
  BY JobParts DEF StoreInv, TaskInv
<1>3. PICK p \in DOMAIN Tree[j[2]] : p = taken[j]
  BY <1>1, <1>2 DEF Progress
<1>4. p \in Path /\ Tree[j[2]][p] \in Content /\ Tree[j[2]][p] \in files
  BY <1>1, <1>2, <1>3, TreeTypes DEF Progress
<1>5. /\ todo' = [todo EXCEPT ![j] = @ \ {p}]
      /\ taken' = [taken EXCEPT ![j] = None]
  BY <1>3 DEF CreateLayerMember
<1>6. \/ /\ \E m \in members : m[1] = j[2] /\ m[2] = p
         /\ task' = [task EXCEPT ![j] = "failed"]
         /\ members' = members
      \/ /\ task' = [task EXCEPT ![j] = "files"]
         /\ members' = members \cup {<<j[2], p, Tree[j[2]][p]>>}
  BY <1>3 DEF CreateLayerMember
<1>7. members \subseteq members' /\ members' \subseteq members \cup {<<j[2], p, Tree[j[2]][p]>>}
  BY <1>6
<1>8. Grows
  BY <1>1, <1>7 DEF Grows
<1>9. StoreTypes'
  <2>1. <<j[2], p, Tree[j[2]][p]>> \in Build \X Path \X Content
    BY <1>2, <1>4
  <2>2. members' \subseteq Build \X Path \X Content
    BY <1>7, <2>1 DEF StoreInv, StoreTypes
  <2>3. QED BY <1>1, <1>5, <2>2 DEF StoreInv, StoreTypes
<1>10. \A i \in Job : i # j => task'[i] = task[i] /\ todo'[i] = todo[i] /\ taken'[i] = taken[i]
  BY <1>5, <1>6 DEF StoreInv, StoreTypes, QueueInv, QueueTypes
<1>11. todo'[j] = todo[j] \ {p}
  BY <1>5 DEF StoreInv, StoreTypes
<1>12. Progress(j)'
  <2>1. CASE task' = [task EXCEPT ![j] = "failed"]
    <3>1. task'[j] = "failed"
      BY <2>1 DEF QueueInv, QueueTypes
    <3>2. QED BY <3>1 DEF Progress
  <2>2. CASE task' = [task EXCEPT ![j] = "files"] /\ members' = members \cup {<<j[2], p, Tree[j[2]][p]>>}
    <3>1. task'[j] = "files"
      BY <2>2 DEF QueueInv, QueueTypes
    <3>2. \A q \in DOMAIN Tree[j[2]] \ todo'[j] : <<j[2], q, Tree[j[2]][q]>> \in members'
      BY <1>1, <1>2, <1>11, <2>2 DEF Progress
    <3>3. QED BY <1>1, <1>2, <1>11, <3>1, <3>2 DEF Progress
  <2>3. QED BY <1>6, <2>1, <2>2
<1>13. TaskInv'
  BY <1>8, <1>10, <1>12, OneTask DEF StoreInv
<1>14. MembersStored'
  <2> SUFFICES ASSUME NEW m \in members'
               PROVE  /\ m[1] \in Build /\ m[2] \in DOMAIN Tree[m[1]]
                      /\ m[3] = Tree[m[1]][m[2]] /\ m[3] \in files'
    BY DEF MembersStored
  <2>1. CASE m \in members
    BY <1>1, <2>1 DEF StoreInv, DeployedIsComplete, MembersStored
  <2>2. CASE m = <<j[2], p, Tree[j[2]][p]>>
    BY <1>1, <1>2, <1>4, <2>2
  <2>3. QED BY <1>7, <2>1, <2>2
<1>15. DeployedIsComplete'
  BY <1>1, <1>8, <1>14, DeployedStays DEF StoreInv
<1>16. QED BY <1>9, <1>13, <1>15 DEF StoreInv

LEMMA EndWalkStore ==
    ASSUME QueueInv, StoreInv, NEW j \in Job, EndWalk(j)
    PROVE  StoreInv'
<1>1. Goes(j, "files", "clean") /\ todo[j] = {}
  BY DEF EndWalk
<1>2. UNCHANGED <<todo, taken, files, members, sites, deployments, current, domainSite, dirs>>
  BY DEF EndWalk, storeVars, siteVars
<1>3. task[j] = "files" /\ task'[j] = "clean" /\ task' = [task EXCEPT ![j] = "clean"]
  BY <1>1, GoesTo
<1>4. AllStored(j[2])
  BY <1>1, <1>3 DEF StoreInv, TaskInv, Progress, AllStored
<1>5. AllStored(j[2])'
  BY <1>2, <1>4 DEF AllStored
<1>6. Progress(j)'
  BY <1>3, <1>5 DEF Progress
<1>7. StoreTypes'
  BY <1>2 DEF StoreInv, StoreTypes
<1>8. QED BY <1>2, <1>3, <1>6, <1>7, QuietTaskStore

LEMMA RemoveDirectoryStore ==
    ASSUME QueueInv, StoreInv, NEW j \in Job, RemoveDirectory(j)
    PROVE  StoreInv'
<1>1. Goes(j, "clean", "list") /\ dirs' = dirs \ {j[2]}
  BY DEF RemoveDirectory
<1>2. UNCHANGED <<todo, taken, files, members, sites, deployments, current, domainSite>>
  BY DEF RemoveDirectory, storeVars, siteVars
<1>3. task[j] = "clean" /\ task'[j] = "list" /\ task' = [task EXCEPT ![j] = "list"]
  BY <1>1, GoesTo
<1>4. AllStored(j[2])
  BY <1>3 DEF StoreInv, TaskInv, Progress
<1>5. AllStored(j[2])'
  BY <1>2, <1>4 DEF AllStored
<1>6. Progress(j)'
  BY <1>3, <1>5 DEF Progress
<1>7. StoreTypes'
  BY <1>1, <1>2 DEF StoreInv, StoreTypes
<1>8. QED BY <1>2, <1>3, <1>6, <1>7, QuietTaskStore

LEMMA ListSitesStore ==
    ASSUME QueueInv, StoreInv, NEW j \in Job, ListSites(j)
    PROVE  StoreInv'
<1>1. Goes(j, "list", "deploy") /\ todo' = [todo EXCEPT ![j] = sites]
  BY DEF ListSites
<1>2. UNCHANGED <<taken, files, members, sites, deployments, current, domainSite, dirs>>
  BY DEF ListSites, storeVars, siteVars
<1>3. task[j] = "list" /\ task'[j] = "deploy" /\ task' = [task EXCEPT ![j] = "deploy"]
  BY <1>1, GoesTo
<1>4. AllStored(j[2])
  BY <1>3 DEF StoreInv, TaskInv, Progress
<1>5. AllStored(j[2])'
  BY <1>2, <1>4 DEF AllStored
<1>6. todo'[j] = sites /\ \A i \in Job : i # j => todo'[i] = todo[i]
  BY <1>1 DEF StoreInv, StoreTypes
<1>7. sites \subseteq Site
  BY DEF StoreInv, StoreTypes
<1>8. Progress(j)'
  BY <1>3, <1>5, <1>6, <1>7 DEF Progress
<1>9. StoreTypes'
  BY <1>1, <1>2, <1>7 DEF StoreInv, StoreTypes
<1>10. QED BY <1>2, <1>3, <1>6, <1>8, <1>9, QuietTaskStore

LEMMA CreateDeploymentStore ==
    ASSUME QueueInv, StoreInv, NEW j \in Job, CreateDeployment(j)
    PROVE  StoreInv'
<1>1. PICK x \in todo[j] :
        /\ deployments' = deployments \cup {[site |-> x, build |-> j[2], server |-> j[1]]}
        /\ taken' = [taken EXCEPT ![j] = x]
        /\ todo' = [todo EXCEPT ![j] = @ \ {x}]
  BY DEF CreateDeployment
<1>2. Goes(j, "deploy", "current") /\ UNCHANGED <<files, members, sites, current, domainSite, dirs>>
  BY DEF CreateDeployment, storeVars
<1>3. task[j] = "deploy" /\ task'[j] = "current" /\ task' = [task EXCEPT ![j] = "current"]
  BY <1>2, GoesTo
<1>4. Progress(j) /\ j[1] \in Server /\ j[2] \in Build
  BY JobParts DEF StoreInv, TaskInv
<1>5. x \in Site /\ todo[j] \subseteq Site /\ AllStored(j[2])
  BY <1>1, <1>3, <1>4 DEF Progress
<1>6. [site |-> x, build |-> j[2], server |-> j[1]] \in Deployment
  BY <1>4, <1>5 DEF Deployment
<1>7. Grows
  BY <1>1, <1>2 DEF Grows
<1>8. AllStored(j[2])'
  BY <1>4, <1>5, <1>7, AllStoredStays
<1>9. StoreTypes'
  BY <1>1, <1>2, <1>5, <1>6 DEF StoreInv, StoreTypes
<1>10. /\ todo'[j] = todo[j] \ {x} /\ taken'[j] = x
       /\ \A i \in Job : i # j => todo'[i] = todo[i] /\ taken'[i] = taken[i]
  BY <1>1 DEF StoreInv, StoreTypes
<1>11. Progress(j)'
  BY <1>1, <1>3, <1>5, <1>8, <1>10 DEF Progress
<1>12. \A i \in Job : i # j => task'[i] = task[i]
  BY <1>3 DEF QueueInv, QueueTypes
<1>13. TaskInv'
  BY <1>7, <1>10, <1>11, <1>12, OneTask DEF StoreInv
<1>14. MembersStored'
  BY <1>2, MembersStay DEF StoreInv, DeployedIsComplete
<1>15. \A d \in deployments' : AllStored(d.build)'
  <2> SUFFICES ASSUME NEW d \in deployments' PROVE AllStored(d.build)'
    OBVIOUS
  <2>1. CASE d \in deployments
    <3>1. d.build \in Build /\ AllStored(d.build)
      BY <2>1 DEF StoreInv, StoreTypes, Deployment, DeployedIsComplete
    <3>2. QED BY <3>1, <1>7, AllStoredStays
  <2>2. CASE d = [site |-> x, build |-> j[2], server |-> j[1]]
    <3>1. d.build = j[2]
      BY <2>2
    <3>2. QED BY <3>1, <1>8
  <2>3. QED BY <1>1, <2>1, <2>2
<1>16. CurrentIsDeployed'
  BY <1>2, <1>7 DEF StoreInv, DeployedIsComplete, CurrentIsDeployed, Grows
<1>17. DeployedIsComplete'
  BY <1>14, <1>15, <1>16 DEF DeployedIsComplete
<1>18. QED BY <1>9, <1>13, <1>17 DEF StoreInv

LEMMA UpdateCurrentDeploymentStore ==
    ASSUME QueueInv, StoreInv, NEW j \in Job, UpdateCurrentDeployment(j)
    PROVE  StoreInv'
<1>1. Goes(j, "current", "deploy") /\ UNCHANGED <<todo, files, members, sites, deployments, domainSite, dirs>>
  BY DEF UpdateCurrentDeployment, storeVars
<1>2. task[j] = "current" /\ task'[j] = "deploy" /\ task' = [task EXCEPT ![j] = "deploy"]
  BY <1>1, GoesTo
<1>3. Progress(j) /\ j[1] \in Server /\ j[2] \in Build
  BY JobParts DEF StoreInv, TaskInv
<1>4. PICK x \in Site : x = taken[j]
  BY <1>2, <1>3 DEF Progress
<1>5. PICK d \in deployments : d = [site |-> x, build |-> j[2], server |-> j[1]]
  BY <1>2, <1>3, <1>4 DEF Progress
<1>6. current' = [current EXCEPT ![x] = d] /\ taken' = [taken EXCEPT ![j] = None]
  BY <1>4, <1>5 DEF UpdateCurrentDeployment
<1>7. Grows
  BY <1>1 DEF Grows
<1>8. d \in Deployment
  BY <1>5 DEF StoreInv, StoreTypes
<1>9. StoreTypes'
  BY <1>1, <1>6, <1>8 DEF StoreInv, StoreTypes
<1>10. /\ \A i \in Job : i # j => taken'[i] = taken[i]
       /\ \A i \in Job : i # j => task'[i] = task[i]
  BY <1>2, <1>6 DEF StoreInv, StoreTypes, QueueInv, QueueTypes
<1>11. AllStored(j[2])'
  BY <1>2, <1>3, <1>7, AllStoredStays DEF Progress
<1>12. Progress(j)'
  BY <1>1, <1>2, <1>3, <1>11 DEF Progress
<1>13. TaskInv'
  BY <1>1, <1>7, <1>10, <1>12, OneTask DEF StoreInv
<1>14. MembersStored'
  BY <1>1, MembersStay DEF StoreInv, DeployedIsComplete
<1>15. \A e \in deployments' : AllStored(e.build)'
  BY <1>1 DEF StoreInv, DeployedIsComplete, AllStored
<1>16. CurrentIsDeployed'
  <2>1. \A y \in Site : current'[y] = (IF y = x THEN d ELSE current[y])
    BY <1>6 DEF StoreInv, StoreTypes
  <2>2. d \in deployments' /\ d.site = x
    BY <1>1, <1>5
  <2>3. QED BY <1>1, <2>1, <2>2 DEF StoreInv, DeployedIsComplete, CurrentIsDeployed
<1>17. DeployedIsComplete'
  BY <1>14, <1>15, <1>16 DEF DeployedIsComplete
<1>18. QED BY <1>9, <1>13, <1>17 DEF StoreInv

LEMMA EndTaskStore ==
    ASSUME QueueInv, StoreInv, NEW j \in Job, EndTask(j)
    PROVE  StoreInv'
<1>1. Goes(j, "deploy", "done")
  BY DEF EndTask
<1>2. UNCHANGED <<todo, taken, files, members, sites, deployments, current, domainSite, dirs>>
  BY DEF EndTask, storeVars, siteVars
<1>3. task[j] = "deploy" /\ task'[j] = "done" /\ task' = [task EXCEPT ![j] = "done"]
  BY <1>1, GoesTo
<1>4. AllStored(j[2])
  BY <1>3 DEF StoreInv, TaskInv, Progress
<1>5. AllStored(j[2])'
  BY <1>2, <1>4 DEF AllStored
<1>6. Progress(j)'
  BY <1>3, <1>5 DEF Progress
<1>7. StoreTypes'
  BY <1>2 DEF StoreInv, StoreTypes
<1>8. QED BY <1>2, <1>3, <1>6, <1>7, QuietTaskStore

-----------------------------------------------------------------------------
(***************************************************************************)
(* Requests.                                                               *)
(***************************************************************************)

AnswerInv == RequestTypes /\ RequestInv /\ ServedIsDeployed

\* The fields of a request.
LEMMA RequestFields ==
    ASSUME RequestTypes
    PROVE  /\ req.ask \in Request \cup {None} /\ req.build \in Build \cup {None}
           /\ req.modules \in SUBSET Content /\ req.try \in 0..3
           /\ req.status \in {0, 200, 404, 500} /\ req.body \in Content \cup {None}
           /\ req = [at |-> req.at, ask |-> req.ask, build |-> req.build, modules |-> req.modules,
                     try |-> req.try, status |-> req.status, body |-> req.body]
BY DEF RequestTypes

LEMMA InitAnswer == Init => AnswerInv
BY DEF Init, AnswerInv, RequestTypes, RequestInv, ServedIsDeployed, NoRequest

\* A request that waits is not disturbed by what is stored meanwhile.
LEMMA WaitingAnswer ==
    ASSUME AnswerInv, Grows, UNCHANGED req
    PROVE  AnswerInv'
<1>1. req.build # None => req.build \in Build /\ AllStored(req.build)'
  BY AllStoredStays DEF AnswerInv, RequestInv
<1>2. QED BY <1>1 DEF AnswerInv, RequestTypes, RequestInv, ServedIsDeployed

\* The candidates of a request, and how many there are.
LEMMA CandidatesOf ==
    ASSUME NEW r \in Request
    PROVE  /\ r.slash => /\ Len(Candidates(r)) = 2
                         /\ Candidates(r)[1] = Append(r.names, "index.html")
                         /\ Candidates(r)[2] = Append(r.names, "index.htm")
           /\ ~r.slash => /\ Len(Candidates(r)) = 3
                          /\ Candidates(r)[1] = r.names
                          /\ Candidates(r)[2] = Append(r.names, "index.html")
                          /\ Candidates(r)[3] = Append(r.names, "index.htm")
BY DEF Candidates

\* The first candidate that a tree has is what the path stands for in it.
LEMMA FirstCandidate ==
    ASSUME NEW r \in Request, NEW tree, NEW n \in 1..3, n <= Len(Candidates(r)),
           \A i \in 1..n - 1 : Candidates(r)[i] \notin DOMAIN tree,
           Candidates(r)[n] \in DOMAIN tree
    PROVE  Resolve(tree, r) = tree[Candidates(r)[n]]
<1>1. CASE n = 1
  BY <1>1, CandidatesOf DEF Resolve
<1>2. CASE n = 2
  <2>1. Candidates(r)[1] \notin DOMAIN tree
    BY <1>2
  <2>2. QED BY <1>2, <2>1, CandidatesOf DEF Resolve
<1>3. CASE n = 3
  <2>1. Candidates(r)[1] \notin DOMAIN tree /\ Candidates(r)[2] \notin DOMAIN tree
    BY <1>3
  <2>2. ~r.slash
    BY <1>3, CandidatesOf
  <2>3. QED BY <1>3, <2>1, <2>2, CandidatesOf DEF Resolve
<1>4. QED BY <1>1, <1>2, <1>3

\* A tree that has none of them has nothing at the path.
LEMMA NoCandidate ==
    ASSUME NEW r \in Request, NEW tree,
           \A i \in 1..Len(Candidates(r)) : Candidates(r)[i] \notin DOMAIN tree
    PROVE  Resolve(tree, r) = None
<1>1. CASE r.slash
  <2>1. Candidates(r)[1] \notin DOMAIN tree /\ Candidates(r)[2] \notin DOMAIN tree
    BY <1>1, CandidatesOf
  <2>2. QED BY <1>1, <2>1, CandidatesOf DEF Resolve
<1>2. CASE ~r.slash
  <2>1. /\ Candidates(r)[1] \notin DOMAIN tree /\ Candidates(r)[2] \notin DOMAIN tree
        /\ Candidates(r)[3] \notin DOMAIN tree
    BY <1>2, CandidatesOf
  <2>2. QED BY <1>2, <2>1, CandidatesOf DEF Resolve
<1>3. QED BY <1>1, <1>2

\* What is deployed behind the host is a build, and complete.
LEMMA DeployedBuild ==
    ASSUME StoreInv, Deployed # None
    PROVE  Deployed \in Build /\ AllStored(Deployed)
<1>1. domainSite \in Site /\ current[domainSite] # None /\ Deployed = current[domainSite].build
  BY DEF StoreInv, StoreTypes, Deployed
<1>2. current[domainSite] \in deployments
  BY <1>1 DEF StoreInv, DeployedIsComplete, CurrentIsDeployed
<1>3. current[domainSite].build \in Build /\ AllStored(current[domainSite].build)
  BY <1>2 DEF StoreInv, StoreTypes, Deployment, DeployedIsComplete
<1>4. QED BY <1>1, <1>3

\* What the request's build has is kept while nothing is stored.
LEMMA StoredStays ==
    ASSUME AnswerInv, UNCHANGED <<members, files>>, req'.build = req.build
    PROVE  req'.build # None => req'.build \in Build /\ AllStored(req.build)'
BY DEF AnswerInv, RequestInv, AllStored

LEMMA AsksAnswer ==
    ASSUME AnswerInv, NEW r \in Request, Asks(r)
    PROVE  AnswerInv'
<1>1. req' = [NoRequest EXCEPT !.at = "projections", !.ask = r]
  BY DEF Asks
<1>2. req' = [at |-> "projections", ask |-> r, build |-> None, modules |-> {},
              try |-> 0, status |-> 0, body |-> None]
  BY <1>1 DEF NoRequest
<1>3. RequestTypes'
  BY <1>2 DEF RequestTypes
<1>4. QED BY <1>2, <1>3 DEF AnswerInv, RequestInv, ServedIsDeployed

LEMMA GetProjectionsAnswer ==
    ASSUME StoreInv, AnswerInv, GetProjections
    PROVE  AnswerInv'
<1>1. req.at = "projections" /\ req' = [req EXCEPT !.at = "modules", !.build = Deployed]
      /\ UNCHANGED <<members, files>>
  BY DEF GetProjections, storeVars
<1>2. /\ req'.at = "modules" /\ req'.build = Deployed /\ req'.ask = req.ask
      /\ req'.modules = req.modules /\ req'.try = req.try /\ req'.status = req.status
      /\ req'.body = req.body
  BY <1>1 DEF AnswerInv, RequestTypes
<1>3. Deployed # None => Deployed \in Build /\ AllStored(Deployed)
  BY DeployedBuild
<1>4. RequestTypes'
  <2>1. req' = [at |-> "modules", ask |-> req.ask, build |-> Deployed, modules |-> req.modules,
                try |-> req.try, status |-> req.status, body |-> req.body]
    BY <1>1, RequestFields DEF AnswerInv
  <2>2. /\ req.ask \in Request \cup {None} /\ req.build \in Build \cup {None}
        /\ req.modules \in SUBSET Content /\ req.try \in 0..3
        /\ req.status \in {0, 200, 404, 500} /\ req.body \in Content \cup {None}
    BY RequestFields DEF AnswerInv
  <2>3. QED BY <2>1, <2>2, <1>3 DEF RequestTypes
<1>5. req'.build # None => req'.build \in Build /\ AllStored(req.build)'
  <2>1. ASSUME NEW b \in Build, AllStored(b) PROVE AllStored(b)'
    BY <1>1, <2>1 DEF AllStored
  <2>2. QED BY <1>2, <1>3, <2>1
<1>6. RequestInv'
  BY <1>1, <1>2, <1>5 DEF AnswerInv, RequestInv
<1>7. ServedIsDeployed'
  BY <1>2 DEF ServedIsDeployed
<1>8. QED BY <1>4, <1>6, <1>7 DEF AnswerInv

LEMMA GetModulesAnswer ==
    ASSUME StoreInv, AnswerInv, GetModules
    PROVE  AnswerInv'
<1>1. req.at = "modules" /\ UNCHANGED <<members, files>>
  BY DEF GetModules, storeVars
<1>2. req.ask \in Request /\ req.try = 0
  BY <1>1 DEF AnswerInv, RequestInv
<1>3. CASE Deployed = None \/ req.build = None
  <2>1. req' = [req EXCEPT !.at = "done", !.status = 404]
    BY <1>3 DEF GetModules
  <2>2. req'.at = "done" /\ req'.build = req.build /\ req'.ask = req.ask /\ req'.try = 0
    BY <1>2, <2>1 DEF AnswerInv, RequestTypes
  <2>3. RequestTypes'
    <3>1. req' = [at |-> "done", ask |-> req.ask, build |-> req.build, modules |-> req.modules,
                try |-> req.try, status |-> 404, body |-> req.body]
      BY <2>1, RequestFields DEF AnswerInv
    <3>2. /\ req.ask \in Request \cup {None} /\ req.build \in Build \cup {None}
          /\ req.modules \in SUBSET Content /\ req.try \in 0..3
          /\ req.status \in {0, 200, 404, 500} /\ req.body \in Content \cup {None}
      BY RequestFields DEF AnswerInv
    <3>3. QED BY <3>1, <3>2 DEF RequestTypes
  <2>4. RequestInv'
    BY <1>1, <1>2, <2>2, StoredStays DEF RequestInv
  <2>5. QED BY <2>2, <2>3, <2>4 DEF AnswerInv, ServedIsDeployed
<1>4. CASE Deployed # None /\ req.build # None
  <2>1. req' = [req EXCEPT !.at = "find", !.modules = Modules[Deployed], !.try = 1]
    BY <1>4 DEF GetModules
  <2>2. Modules[Deployed] \subseteq Content
    BY <1>4, DeployedBuild, TreeTypes
  <2>3. req'.at = "find" /\ req'.build = req.build /\ req'.ask = req.ask /\ req'.try = 1
    BY <2>1 DEF AnswerInv, RequestTypes
  <2>4. RequestTypes'
    <3>1. req' = [at |-> "find", ask |-> req.ask, build |-> req.build, modules |-> Modules[Deployed],
                try |-> 1, status |-> req.status, body |-> req.body]
      BY <2>1, RequestFields DEF AnswerInv
    <3>2. /\ req.ask \in Request \cup {None} /\ req.build \in Build \cup {None}
          /\ req.modules \in SUBSET Content /\ req.try \in 0..3
          /\ req.status \in {0, 200, 404, 500} /\ req.body \in Content \cup {None}
      BY RequestFields DEF AnswerInv
    <3>3. QED BY <3>1, <3>2, <2>2 DEF RequestTypes
  <2>5. 1 \in 1..Len(Candidates(req.ask))
    BY <1>2, CandidatesOf
  <2>6. RequestInv'
    BY <1>1, <1>2, <1>4, <2>3, <2>5, StoredStays DEF RequestInv
  <2>7. QED BY <2>3, <2>4, <2>6 DEF AnswerInv, ServedIsDeployed
<1>5. QED BY <1>3, <1>4

LEMMA FindFileAnswer ==
    ASSUME StoreInv, AnswerInv, FindFile
    PROVE  AnswerInv'
<1>1. req.at = "find" /\ UNCHANGED <<members, files>>
  BY DEF FindFile, storeVars
<1>2. /\ req.ask \in Request /\ req.build \in Build /\ AllStored(req.build)
      /\ req.try \in 1..Len(Candidates(req.ask)) /\ req.try \in 0..3
      /\ \A i \in 1..req.try - 1 : Candidates(req.ask)[i] \notin DOMAIN Tree[req.build]
  BY <1>1 DEF AnswerInv, RequestTypes, RequestInv
<1>3. req.try \in 1..3 /\ req.try <= Len(Candidates(req.ask)) /\ Len(Candidates(req.ask)) \in {2, 3}
  BY <1>2, CandidatesOf
<1>5. Found = {} => Candidates(req.ask)[req.try] \notin DOMAIN Tree[req.build]
  <2> SUFFICES ASSUME Candidates(req.ask)[req.try] \in DOMAIN Tree[req.build] PROVE Found # {}
    OBVIOUS
  <2> DEFINE p == Candidates(req.ask)[req.try]
  <2> DEFINE m == <<req.build, p, Tree[req.build][p]>>
  <2>1. m \in members
    BY <1>2 DEF AllStored
  <2>2. m[3] \in files
    BY <2>1 DEF StoreInv, DeployedIsComplete, MembersStored
  <2>3. m \in Found
    BY <2>1, <2>2 DEF Found
  <2>4. QED BY <2>3
<1>6. ASSUME NEW m \in Found,
             req' = [req EXCEPT !.at = "done", !.body = m[3],
                                !.status = IF req.modules \subseteq files THEN 200 ELSE 500]
      PROVE  AnswerInv'
  <2>1. m \in members /\ m[1] = req.build /\ m[2] = Candidates(req.ask)[req.try]
    BY DEF Found
  <2>2. /\ m[2] \in DOMAIN Tree[req.build] /\ m[3] = Tree[req.build][m[2]]
        /\ m[3] \in files
    BY <2>1 DEF StoreInv, DeployedIsComplete, MembersStored
  <2>3. m[3] \in Content
    BY <2>2 DEF StoreInv, StoreTypes
  <2>4. Resolve(Tree[req.build], req.ask) = m[3]
    BY <1>2, <1>3, <2>1, <2>2, FirstCandidate
  <2>5. RequestTypes'
    <3>1. PICK status \in {200, 500} :
            req' = [req EXCEPT !.at = "done", !.body = m[3], !.status = status]
      BY <1>6
    <3>2. req' = [at |-> "done", ask |-> req.ask, build |-> req.build, modules |-> req.modules,
                  try |-> req.try, status |-> status, body |-> m[3]]
      BY <3>1, RequestFields DEF AnswerInv
    <3>3. /\ req.ask \in Request \cup {None} /\ req.build \in Build \cup {None}
          /\ req.modules \in SUBSET Content /\ req.try \in 0..3
      BY RequestFields DEF AnswerInv
    <3>4. QED BY <2>3, <3>2, <3>3 DEF RequestTypes
  <2>6. /\ req'.at = "done" /\ req'.build = req.build /\ req'.ask = req.ask
        /\ req'.body = m[3] /\ req'.status \in {200, 500}
    BY <1>6 DEF AnswerInv, RequestTypes
  <2>7. RequestInv'
    BY <1>1, <1>2, <2>6, StoredStays DEF RequestInv
  <2>8. QED BY <2>4, <2>5, <2>6, <2>7 DEF AnswerInv, ServedIsDeployed
<1>7. ASSUME Found = {}, req.try < Len(Candidates(req.ask)), req' = [req EXCEPT !.try = @ + 1]
      PROVE  AnswerInv'
  <2>1. req.try + 1 \in 0..3 /\ req.try + 1 \in 1..Len(Candidates(req.ask))
    <3>1. PICK n \in {2, 3} : n = Len(Candidates(req.ask))
      BY <1>3
    <3>2. PICK k \in 1..3 : k = req.try
      BY <1>3
    <3>3. k < n
      BY <1>7, <3>1, <3>2
    <3>4. k + 1 \in 0..3 /\ k + 1 \in 1..n
      BY <3>3
    <3>5. QED BY <3>1, <3>2, <3>4
  <2>2. RequestTypes'
    <3>1. req' = [at |-> "find", ask |-> req.ask, build |-> req.build, modules |-> req.modules,
                try |-> req.try + 1, status |-> req.status, body |-> req.body]
      BY <1>1, <1>7, RequestFields DEF AnswerInv
    <3>2. /\ req.ask \in Request \cup {None} /\ req.build \in Build \cup {None}
          /\ req.modules \in SUBSET Content /\ req.try \in 0..3
          /\ req.status \in {0, 200, 404, 500} /\ req.body \in Content \cup {None}
      BY RequestFields DEF AnswerInv
    <3>3. QED BY <3>1, <3>2, <2>1 DEF RequestTypes
  <2>3. /\ req'.at = "find" /\ req'.build = req.build /\ req'.ask = req.ask
        /\ req'.try = req.try + 1
    BY <1>1, <1>7 DEF AnswerInv, RequestTypes
  <2>4. \A i \in 1..req.try : Candidates(req.ask)[i] \notin DOMAIN Tree[req.build]
    <3> SUFFICES ASSUME NEW i \in 1..req.try PROVE Candidates(req.ask)[i] \notin DOMAIN Tree[req.build]
      OBVIOUS
    <3>1. i = req.try \/ i \in 1..req.try - 1
      BY <1>3
    <3>2. QED BY <3>1, <1>2, <1>5, <1>7
  <2>5. (req.try + 1) - 1 = req.try
    BY <1>3
  <2>6. \A i \in 1..req'.try - 1 : Candidates(req'.ask)[i] \notin DOMAIN Tree[req'.build]
    BY <2>3, <2>4, <2>5
  <2>7. RequestInv'
    <3>1. req'.build # None
      BY <1>1, <2>3 DEF AnswerInv, RequestInv
    <3>2. QED BY <1>1, <1>2, <2>1, <2>3, <2>6, <3>1, StoredStays DEF RequestInv
  <2>8. QED BY <2>2, <2>3, <2>7 DEF AnswerInv, ServedIsDeployed
<1>8. ASSUME Found = {}, req.try = Len(Candidates(req.ask)),
             req' = [req EXCEPT !.at = "done", !.status = 404]
      PROVE  AnswerInv'
  <2>1. \A i \in 1..Len(Candidates(req.ask)) : Candidates(req.ask)[i] \notin DOMAIN Tree[req.build]
    <3> SUFFICES ASSUME NEW i \in 1..Len(Candidates(req.ask))
                 PROVE  Candidates(req.ask)[i] \notin DOMAIN Tree[req.build]
      OBVIOUS
    <3>1. i = req.try \/ i \in 1..req.try - 1
      BY <1>3, <1>8
    <3>2. QED BY <3>1, <1>2, <1>5, <1>8
  <2>2. Resolve(Tree[req.build], req.ask) = None
    BY <1>2, <2>1, NoCandidate
  <2>3. RequestTypes'
    <3>1. req' = [at |-> "done", ask |-> req.ask, build |-> req.build, modules |-> req.modules,
                try |-> req.try, status |-> 404, body |-> req.body]
      BY <1>8, RequestFields DEF AnswerInv
    <3>2. /\ req.ask \in Request \cup {None} /\ req.build \in Build \cup {None}
          /\ req.modules \in SUBSET Content /\ req.try \in 0..3
          /\ req.status \in {0, 200, 404, 500} /\ req.body \in Content \cup {None}
      BY RequestFields DEF AnswerInv
    <3>3. QED BY <3>1, <3>2 DEF RequestTypes
  <2>4. req'.at = "done" /\ req'.build = req.build /\ req'.ask = req.ask /\ req'.status = 404
    BY <1>8 DEF AnswerInv, RequestTypes
  <2>5. RequestInv'
    BY <1>1, <1>2, <2>4, StoredStays DEF RequestInv
  <2>6. QED BY <2>2, <2>3, <2>4, <2>5 DEF AnswerInv, ServedIsDeployed
<1>9. QED BY <1>6, <1>7, <1>8 DEF FindFile

LEMMA RequestErrorAnswer ==
    ASSUME AnswerInv, RequestError
    PROVE  AnswerInv'
<1>1. req.at # "idle" /\ req' = [req EXCEPT !.at = "done", !.status = 500] /\ UNCHANGED <<members, files>>
  BY DEF RequestError, storeVars
<1>2. RequestTypes'
  <2>1. req' = [at |-> "done", ask |-> req.ask, build |-> req.build, modules |-> req.modules,
                try |-> req.try, status |-> 500, body |-> req.body]
    BY <1>1, RequestFields DEF AnswerInv
  <2>2. /\ req.ask \in Request \cup {None} /\ req.build \in Build \cup {None}
        /\ req.modules \in SUBSET Content /\ req.try \in 0..3
        /\ req.status \in {0, 200, 404, 500} /\ req.body \in Content \cup {None}
    BY RequestFields DEF AnswerInv
  <2>3. QED BY <2>1, <2>2 DEF RequestTypes
<1>3. req'.at = "done" /\ req'.build = req.build /\ req'.ask = req.ask /\ req'.status = 500
  BY <1>1 DEF AnswerInv, RequestTypes
<1>4. req'.build # None => req'.build \in Build /\ AllStored(req.build)'
  BY <1>1, <1>3, StoredStays
<1>5. RequestInv'
  BY <1>1, <1>3, <1>4 DEF AnswerInv, RequestInv
<1>6. QED BY <1>2, <1>3, <1>5 DEF AnswerInv, ServedIsDeployed

LEMMA CloseAnswer ==
    ASSUME AnswerInv, Close
    PROVE  AnswerInv'
BY DEF Close, AnswerInv, RequestTypes, RequestInv, ServedIsDeployed, NoRequest

-----------------------------------------------------------------------------
(***************************************************************************)
(* The steps together.                                                     *)
(***************************************************************************)

Inv == QueueInv /\ StoreInv /\ AnswerInv

\* Everything but the steps of a request leaves the request alone, and
\* nothing that is stored is lost.
LEMMA TaskKeeps ==
    ASSUME NEW j \in Job, Task(j) \/ TaskError(j)
    PROVE  Grows /\ UNCHANGED <<req, queueVars>>
<1>1. CASE MakeDirectory(j) \/ Fetch(j) \/ EndWalk(j) \/ RemoveDirectory(j) \/ ListSites(j) \/ EndTask(j)
  BY <1>1 DEF MakeDirectory, Fetch, EndWalk, RemoveDirectory, ListSites, EndTask,
              Grows, storeVars, siteVars
<1>2. CASE StoreModule(j) \/ StoreFile(j)
  BY <1>2 DEF StoreModule, StoreFile, Grows, siteVars
<1>3. CASE CreateLayerMember(j)
  <2>1. members \subseteq members'
    BY <1>3 DEF CreateLayerMember
  <2>2. QED BY <1>3, <2>1 DEF CreateLayerMember, Grows, siteVars
<1>4. CASE CreateDeployment(j) \/ UpdateCurrentDeployment(j)
  BY <1>4 DEF CreateDeployment, UpdateCurrentDeployment, Grows, storeVars
<1>5. CASE TaskError(j)
  BY <1>5 DEF TaskError, Grows, storeVars, siteVars
<1>6. QED BY <1>1, <1>2, <1>3, <1>4, <1>5 DEF Task

LEMMA TaskQueue ==
    ASSUME QueueInv, NEW j \in Job, Task(j) \/ TaskError(j)
    PROVE  QueueInv'
<1>1. UNCHANGED queueVars
  BY TaskKeeps
<1>2. ASSUME NEW from \in Live, NEW to \in Live \cup {"done", "failed"}, Goes(j, from, to)
      PROVE  QueueInv'
  BY <1>1, <1>2, TaskStepQueue DEF Goes
<1>3. CASE MakeDirectory(j) \/ Fetch(j) \/ StoreFile(j) \/ EndWalk(j) \/ RemoveDirectory(j)
  BY <1>2, <1>3 DEF MakeDirectory, Fetch, StoreFile, EndWalk, RemoveDirectory, Live
<1>4. CASE ListSites(j) \/ CreateDeployment(j) \/ UpdateCurrentDeployment(j) \/ EndTask(j)
  BY <1>2, <1>4 DEF ListSites, CreateDeployment, UpdateCurrentDeployment, EndTask, Live
<1>5. CASE StoreModule(j)
  <2>1. CASE UNCHANGED task
    BY <1>1, <2>1, IdleQueue
  <2>2. CASE task' = [task EXCEPT ![j] = "files"]
    <3>1. task[j] \in Live /\ "files" \in Live
      BY <1>5 DEF StoreModule, Live
    <3>2. QED BY <1>1, <2>2, <3>1, TaskStepQueue
  <2>3. QED BY <1>5, <2>1, <2>2 DEF StoreModule
<1>6. CASE CreateLayerMember(j)
  <2>1. PICK x \in {"failed", "files"} : task' = [task EXCEPT ![j] = x]
    BY <1>6 DEF CreateLayerMember
  <2>2. task[j] \in Live /\ x \in Live \cup {"done", "failed"}
    BY <1>6 DEF CreateLayerMember, Live
  <2>3. QED BY <1>1, <2>1, <2>2, TaskStepQueue
<1>7. CASE TaskError(j)
  <2>1. task[j] \in Live /\ task' = [task EXCEPT ![j] = "failed"]
    BY <1>7 DEF TaskError
  <2>2. QED BY <1>1, <2>1, TaskStepQueue
<1>8. QED BY <1>3, <1>4, <1>5, <1>6, <1>7 DEF Task

LEMMA TaskInvariant ==
    ASSUME Inv, NEW j \in Job, Task(j) \/ TaskError(j)
    PROVE  Inv'
<1>1. QueueInv'
  BY TaskQueue DEF Inv
<1>2. StoreInv'
  BY MakeDirectoryStore, FetchStore, StoreModuleStore, StoreFileStore,
     CreateLayerMemberStore, EndWalkStore, RemoveDirectoryStore, ListSitesStore,
     CreateDeploymentStore, UpdateCurrentDeploymentStore, EndTaskStore,
     TaskErrorStore DEF Inv, Task
<1>3. AnswerInv'
  BY TaskKeeps, WaitingAnswer DEF Inv
<1>4. QED BY <1>1, <1>2, <1>3 DEF Inv

LEMMA ServerInvariant ==
    ASSUME Inv, NEW s \in Server, Queue(s) \/ QueueError(s) \/ Crash(s)
    PROVE  Inv'
<1>1. QueueInv'
  BY SelectBuildQueue, ClaimBuildQueue, CollectTaskQueue, QueueErrorQueue, CrashQueue DEF Inv, Queue
<1>2. Grows /\ UNCHANGED req
  BY DEF Queue, SelectBuild, ClaimBuild, CollectTask, QueueError, Crash, Grows, storeVars, siteVars
<1>3. StoreInv'
  <2>1. CASE SelectBuild(s) \/ CollectTask(s) \/ QueueError(s)
    <3>1. UNCHANGED <<taskVars, storeVars, dirs, deployments, current, sites, domainSite>>
      BY <2>1 DEF SelectBuild, CollectTask, QueueError, siteVars
    <3>2. sites' \subseteq Site /\ domainSite' \in Site \cup {None}
      BY <3>1 DEF Inv, StoreInv, StoreTypes
    <3>3. QED BY <3>1, <3>2, IdleStore DEF Inv
  <2>2. CASE ClaimBuild(s) \/ Crash(s)
    BY <2>2, ClaimBuildStore, CrashStore DEF Inv
  <2>3. QED BY <2>1, <2>2 DEF Queue
<1>4. QED BY <1>1, <1>2, <1>3, WaitingAnswer DEF Inv

LEMMA CallInvariant ==
    ASSUME Inv, RefreshSource \/ Sites \/ Domains
    PROVE  Inv'
<1>1. UNCHANGED <<taskVars, storeVars, dirs, deployments, current, req>>
  BY DEF RefreshSource, Sites, Domains, CreateBuild, CreateSite, SetDomainSite, OthersSetDomainSite, siteVars
<1>2. QueueInv'
  <2>1. CASE RefreshSource
    BY <2>1, CreateBuildQueue DEF Inv, RefreshSource
  <2>2. CASE Sites \/ Domains
    <3>1. UNCHANGED <<queueVars, task>>
      BY <2>2 DEF Sites, Domains, CreateSite, SetDomainSite, OthersSetDomainSite, taskVars
    <3>2. QED BY <3>1, IdleQueue DEF Inv
  <2>3. QED BY <2>1, <2>2
<1>3. sites' \subseteq Site /\ domainSite' \in Site \cup {None}
  <2>1. sites \subseteq Site /\ domainSite \in Site \cup {None}
    BY DEF Inv, StoreInv, StoreTypes
  <2>2. CASE RefreshSource
    BY <2>1, <2>2 DEF RefreshSource, CreateBuild, siteVars
  <2>3. CASE Sites
    BY <2>1, <2>3 DEF Sites, CreateSite
  <2>4. CASE Domains
    BY <2>1, <2>4 DEF Domains, SetDomainSite, OthersSetDomainSite
  <2>5. QED BY <2>2, <2>3, <2>4
<1>4. StoreInv'
  BY <1>1, <1>3, IdleStore DEF Inv
<1>5. Grows
  BY <1>1 DEF Grows, storeVars
<1>6. AnswerInv'
  BY <1>1, <1>5, WaitingAnswer DEF Inv
<1>7. QED BY <1>2, <1>4, <1>6 DEF Inv

LEMMA WebInvariant ==
    ASSUME Inv, Web
    PROVE  Inv'
<1>1. UNCHANGED <<queueVars, taskVars, storeVars, siteVars, dirs>>
  BY DEF Web, Asks, GetProjections, GetModules, FindFile, RequestError, Close
<1>2. UNCHANGED <<queueVars, task>>
  BY <1>1 DEF taskVars
<1>3. QueueInv'
  BY <1>2, IdleQueue DEF Inv
<1>4. StoreInv'
  <2>1. UNCHANGED <<taskVars, storeVars, dirs, deployments, current, sites, domainSite>>
    BY <1>1 DEF siteVars
  <2>2. sites' \subseteq Site /\ domainSite' \in Site \cup {None}
    BY <2>1 DEF Inv, StoreInv, StoreTypes
  <2>3. QED BY <2>1, <2>2, IdleStore DEF Inv
<1>5. AnswerInv'
  BY AsksAnswer, GetProjectionsAnswer, GetModulesAnswer, FindFileAnswer, RequestErrorAnswer,
     CloseAnswer DEF Inv, Web
<1>6. QED BY <1>3, <1>4, <1>5 DEF Inv

LEMMA NextInvariant == Inv /\ [Next]_vars => Inv'
<1> SUFFICES ASSUME Inv, [Next]_vars PROVE Inv'
  OBVIOUS
<1>1. CASE RefreshSource \/ Sites \/ Domains
  BY <1>1, CallInvariant
<1>2. CASE \E s \in Server : Process(s) \/ QueueError(s) \/ Crash(s)
  <2>1. PICK s \in Server : Process(s) \/ QueueError(s) \/ Crash(s)
    BY <1>2
  <2>2. CASE Queue(s) \/ QueueError(s) \/ Crash(s)
    BY <2>2, ServerInvariant
  <2>3. CASE \E b \in Build : Task(<<s, b>>)
    BY <2>3, JobPair, TaskInvariant
  <2>4. QED BY <2>1, <2>2, <2>3 DEF Process
<1>3. CASE \E j \in Job : TaskError(j)
  BY <1>3, TaskInvariant
<1>4. CASE Web
  BY <1>4, WebInvariant
<1>5. CASE UNCHANGED vars
  <2>1. UNCHANGED <<queueVars, taskVars, storeVars, siteVars, dirs, req>>
    BY <1>5 DEF vars
  <2>2. UNCHANGED <<queueVars, task>>
    BY <2>1 DEF taskVars
  <2>3. UNCHANGED <<taskVars, storeVars, dirs, deployments, current, sites, domainSite>>
    BY <2>1 DEF siteVars
  <2>4. sites' \subseteq Site /\ domainSite' \in Site \cup {None}
    BY <2>3 DEF Inv, StoreInv, StoreTypes
  <2>5. Grows
    BY <2>3 DEF Grows, storeVars
  <2>6. QED BY <2>1, <2>2, <2>3, <2>4, <2>5, IdleQueue, IdleStore, WaitingAnswer DEF Inv
<1>6. QED BY <1>1, <1>2, <1>3, <1>4, <1>5 DEF Next

-----------------------------------------------------------------------------
(***************************************************************************)
(* The theorems.                                                           *)
(***************************************************************************)

\* The inductive invariant holds in every behaviour: the types of build.rs,
\* the queue and the web server, and everything the properties follow from.
THEOREM DeployInvariant == Spec => []DeployInv
<1>1. Init => Inv
  BY InitQueue, InitStore, InitAnswer DEF Inv
<1>2. Inv => DeployInv
  BY DEF Inv, QueueInv, StoreInv, AnswerInv, DeployInv, TypeOK
<1>3. QED BY <1>1, <1>2, NextInvariant, PTL DEF Spec

\* get_next_build_to_claim: a build is run by one task at most, whatever
\* servers poll at the same time, crash or fail to commit.
THEOREM BuildsAreClaimedOnce == Spec => []ClaimedOnce
<1>1. DeployInv => ClaimedOnce
  BY DEF DeployInv, ClaimInv
<1>2. QED BY <1>1, DeployInvariant, PTL

\* BuildServiceRunner::run: no more than concurrent_builds tasks at once.
THEOREM TasksAreBounded == Spec => []RunningBounded
<1>1. DeployInv => RunningBounded
  <2> SUFFICES ASSUME DeployInv, NEW s \in Server
               PROVE  Cardinality({b \in Build : task[<<s, b>>] \in Live}) <= ConcurrentBuilds
    BY DEF RunningBounded
  <2> DEFINE running == {b \in Build : task[<<s, b>>] \in Live}
  <2>1. IsFiniteSet(pool[s]) /\ Cardinality(pool[s]) <= ConcurrentBuilds /\ running \subseteq pool[s]
    BY DEF DeployInv, PoolInv
  <2>2. Cardinality(running) <= Cardinality(pool[s]) /\ IsFiniteSet(running)
    BY <2>1, FS_Subset
  <2>3. Cardinality(running) \in Nat /\ Cardinality(pool[s]) \in Nat
    BY <2>1, <2>2, FS_CardinalityType
  <2>4. QED BY <2>1, <2>2, <2>3, LimitAssumption
<1>2. QED BY <1>1, DeployInvariant, PTL

\* BuildTask::run: a deployment has all files of its build and no others,
\* and what a site is served from is a deployment of its own.
THEOREM DeploymentsAreComplete == Spec => []DeployedIsComplete
<1>1. DeployInv => DeployedIsComplete
  BY DEF DeployInv
<1>2. QED BY <1>1, DeployInvariant, PTL

\* find_layer_member_file: a request gets the file its path stands for in the
\* commit it was directed to, while builds and deployments go on.
THEOREM AnswersAreDeployed == Spec => []ServedIsDeployed
<1>1. DeployInv => ServedIsDeployed
  BY DEF DeployInv
<1>2. QED BY <1>1, DeployInvariant, PTL

=============================================================================
