---------------------------- MODULE SiteDeploy -----------------------------
(***************************************************************************)
(* Builds and deployments over PostgreSQL: the queue of builds             *)
(* (fairing/src/backends/build_queue/postgres.rs), the service that runs   *)
(* them (fairing-core/src/services/build.rs), the rows they leave          *)
(* (fairing/src/backends/database/postgres.rs, file_metadata/postgres.rs)  *)
(* and the answer to a request (fairing/src/server/web.rs).                *)
(*                                                                         *)
(* A query, or a transaction whose writes nobody sees before its end, is   *)
(* one step.  Builds are numbered by their created_time, and a build also  *)
(* stands for its layer id.  A file is known by what is in it; BlobStore   *)
(* shows that storing one is the single step it is here.  Whether all its  *)
(* blobs are there, which a failed look may leave open, is not asked here. *)
(***************************************************************************)
EXTENDS Naturals, Sequences, FiniteSets

CONSTANTS
    Server,            \* lives of server processes; a restart is another one
    Build,             \* the builds, by created_time
    Site,              \* sites with the source as base source
    Content,           \* what files contain
    Tree,              \* the files of the publish directory of a build
    Modules,           \* the modules its Fairing.toml lists
    Request,           \* the paths clients ask for
    ConcurrentBuilds,  \* concurrent_builds, 4
    None               \* NULL, or no answer

ASSUME BuildAssumption == Build \subseteq Nat
ASSUME LimitAssumption == ConcurrentBuilds \in Nat \ {0}
\* A path is the sequence of its names; a request may end in a slash.
ASSUME TreeAssumption ==
    /\ DOMAIN Tree = Build
    /\ \A b \in Build : DOMAIN Tree[b] \subseteq Seq(STRING)
    /\ \A b \in Build : \A p \in DOMAIN Tree[b] : Tree[b][p] \in Content
ASSUME ModulesAssumption == Modules \in [Build -> SUBSET Content]
ASSUME RequestAssumption == Request \subseteq [names : Seq(STRING), slash : BOOLEAN]
ASSUME NoneAssumption == None \notin Content \cup Build \cup Site

VARIABLES
    queue,        \* column status of builds, "none" before there is a row
    locks,        \* rows of builds locked by the transaction of a server
    poll,         \* where the stream of builds of a server stands
    claim,        \* the build its transaction is about
    pool,         \* build_tasks
    task,         \* where a server's task for a build stands
    todo,         \* what it has still to store, or the sites to deploy to
    taken,        \* the path it has stored a file of, or the site it deploys to
    dirs,         \* work directories on disk
    files,        \* files that are stored
    members,      \* layer_members: for a build, contents by path
    sites,        \* sites there are
    deployments,  \* with their projection and modules
    current,      \* current_deployment_id of a site
    domainSite,   \* site_id of the validated domain clients ask for, or None
                  \* where it is NULL or the site of another team
    req           \* a request and what it has found so far

queueVars == <<queue, locks, poll, claim, pool>>
taskVars == <<task, todo, taken>>
storeVars == <<files, members>>
siteVars == <<sites, deployments, current, domainSite>>
vars == <<queueVars, taskVars, storeVars, siteVars, dirs, req>>

Job == Server \X Build
Deployment == [site : Site, build : Build, server : Server]
Path == UNION {DOMAIN Tree[b] : b \in Build}

\* A task between its start and its end.
Live == {"start", "fetch", "modules", "files", "member", "clean", "list",
         "deploy", "current"}

NoRequest == [at |-> "idle", ask |-> None, build |-> None, modules |-> {},
              try |-> 0, status |-> 0, body |-> None]

QueueTypes ==
    /\ queue \in [Build -> {"none", "queued", "building"}]
    /\ locks \in [Server -> SUBSET Build]
    /\ poll \in [Server -> {"poll", "claim", "full", "stopped"}]
    /\ claim \in [Server -> Build \cup {None}]
    /\ pool \in [Server -> SUBSET Build]
    /\ task \in [Job -> Live \cup {"none", "done", "failed"}]

StoreTypes ==
    /\ todo \in [Job -> SUBSET (Path \cup Content \cup Site)]
    /\ taken \in [Job -> Path \cup Site \cup {None}]
    /\ dirs \subseteq Build
    /\ files \subseteq Content
    /\ members \subseteq Build \X Path \X Content
    /\ sites \subseteq Site
    /\ deployments \subseteq Deployment
    /\ current \in [Site -> Deployment \cup {None}]
    /\ domainSite \in Site \cup {None}

RequestTypes ==
    req \in [at : {"idle", "projections", "modules", "find", "done"},
            ask : Request \cup {None}, build : Build \cup {None},
            modules : SUBSET Content, try : 0..3, status : {0, 200, 404, 500},
            body : Content \cup {None}]

TypeOK == QueueTypes /\ StoreTypes /\ RequestTypes

Init ==
    /\ queue = [b \in Build |-> "none"]
    /\ locks = [s \in Server |-> {}]
    /\ poll = [s \in Server |-> "poll"]
    /\ claim = [s \in Server |-> None]
    /\ pool = [s \in Server |-> {}]
    /\ task = [j \in Job |-> "none"]
    /\ todo = [j \in Job |-> {}]
    /\ taken = [j \in Job |-> None]
    /\ dirs = {}
    /\ files = {}
    /\ members = {}
    /\ sites = {}
    /\ deployments = {}
    /\ current = [x \in Site |-> None]
    /\ domainSite = None
    /\ req = NoRequest
-----------------------------------------------------------------------------
(***************************************************************************)
(* The queue.                                                              *)
(***************************************************************************)

\* CreateBuild::create draws a name, a time and a layer id of its own.
IsNew(b) == queue[b] = "none"

\* One transaction adds the layer set, unless it is there, and the build.
\* Its created_time is taken before, so that rows may appear in any order.
CreateBuild(b) ==
    /\ IsNew(b)
    /\ queue' = [queue EXCEPT ![b] = "queued"]
    /\ UNCHANGED <<locks, poll, claim, pool, taskVars, storeVars, siteVars, dirs, req>>

\* Mutant: the rows are read without FOR UPDATE.
QueuedRows == {b \in Build : queue[b] = "queued"}

\* The rows SELECT ... FOR UPDATE SKIP LOCKED may return.
FreeRows ==
    {b \in Build : queue[b] = "queued" /\ \A s \in Server : b \notin locks[s]}

\* The oldest row.  The statement has no LIMIT: whether the rows behind it
\* are locked as well is up to how many the driver asks for.
SelectBuild(s) ==
    /\ poll[s] = "poll"
    /\ \E b \in FreeRows :
        /\ \A c \in FreeRows : b <= c
        /\ claim' = [claim EXCEPT ![s] = b]
        /\ \E rows \in {{b}, FreeRows} : locks' = [locks EXCEPT ![s] = rows]
    /\ poll' = [poll EXCEPT ![s] = "claim"]
    /\ UNCHANGED <<queue, pool, taskVars, storeVars, siteVars, dirs, req>>

IsFull(n) == n >= ConcurrentBuilds

\* The status is written and committed, the stream yields the build, a task
\* is spawned for it, and the pool waits for one to end if it is full.
ClaimBuild(s) ==
    LET b == claim[s] IN
    /\ poll[s] = "claim"
    /\ queue' = [queue EXCEPT ![b] = "building"]
    /\ locks' = [locks EXCEPT ![s] = {}]
    /\ claim' = [claim EXCEPT ![s] = None]
    /\ pool' = [pool EXCEPT ![s] = @ \cup {b}]
    /\ poll' = [poll EXCEPT ![s] =
                  IF IsFull(Cardinality(pool[s] \cup {b})) THEN "full" ELSE "poll"]
    /\ task' = [task EXCEPT ![<<s, b>>] = "start"]
    /\ UNCHANGED <<todo, taken, storeVars, siteVars, dirs, req>>

\* Mutant: the transaction stays open when the stream ends.
QueueErrorInTransaction(s) ==
    /\ poll[s] \in {"poll", "claim"}
    /\ poll' = [poll EXCEPT ![s] = "stopped"]
    /\ UNCHANGED <<queue, locks, claim, pool, taskVars, storeVars, siteVars, dirs, req>>

\* An error of a query ends the stream, and run() with it; the tasks that
\* were spawned go on.  A commit may fail for the server and not for the
\* database: the build is then marked, and nobody runs it.
QueueError(s) ==
    /\ poll[s] \in {"poll", "claim"}
    /\ \/ UNCHANGED queue
       \/ poll[s] = "claim" /\ queue' = [queue EXCEPT ![claim[s]] = "building"]
    /\ poll' = [poll EXCEPT ![s] = "stopped"]
    /\ locks' = [locks EXCEPT ![s] = {}]
    /\ claim' = [claim EXCEPT ![s] = None]
    /\ UNCHANGED <<pool, taskVars, storeVars, siteVars, dirs, req>>

\* build_tasks.next() has the handle of a task that has ended.
CollectTask(s) ==
    /\ poll[s] = "full"
    /\ \E b \in pool[s] :
        /\ task[<<s, b>>] \notin Live
        /\ pool' = [pool EXCEPT ![s] = @ \ {b}]
    /\ poll' = [poll EXCEPT ![s] = "poll"]
    /\ UNCHANGED <<queue, locks, claim, taskVars, storeVars, siteVars, dirs, req>>

\* The end of the process: its transaction is rolled back, its tasks stop.
Crash(s) ==
    /\ poll' = [poll EXCEPT ![s] = "stopped"]
    /\ locks' = [locks EXCEPT ![s] = {}]
    /\ claim' = [claim EXCEPT ![s] = None]
    /\ LET ends == {j \in Job : j[1] = s /\ task[j] \in Live} IN
        /\ poll[s] # "stopped" \/ ends # {}
        /\ task' = [j \in Job |-> IF j \in ends THEN "failed" ELSE task[j]]
        /\ todo' = [j \in Job |-> IF j \in ends THEN {} ELSE todo[j]]
        /\ taken' = [j \in Job |-> IF j \in ends THEN None ELSE taken[j]]
    /\ pool' = [pool EXCEPT ![s] = {}]
    /\ UNCHANGED <<queue, storeVars, siteVars, dirs, req>>

Queue(s) == SelectBuild(s) \/ ClaimBuild(s) \/ CollectTask(s)
-----------------------------------------------------------------------------
(***************************************************************************)
(* A task, BuildTask::run.                                                 *)
(***************************************************************************)

Goes(j, from, to) ==
    /\ task[j] = from
    /\ task' = [task EXCEPT ![j] = to]

\* The lookups read what does not change; create_dir fails when the
\* directory is there.
MakeDirectory(j) ==
    /\ Goes(j, "start", IF j[2] \in dirs THEN "failed" ELSE "fetch")
    /\ dirs' = dirs \cup {j[2]}
    /\ UNCHANGED <<queueVars, todo, taken, storeVars, siteVars, req>>

\* Fetches the source and reads Fairing.toml.
Fetch(j) ==
    /\ Goes(j, "fetch", "modules")
    /\ todo' = [todo EXCEPT ![j] = Modules[j[2]]]
    /\ UNCHANGED <<queueVars, taken, storeVars, siteVars, dirs, req>>

\* Stores the modules one by one, and goes on to the publish directory.
StoreModule(j) ==
    /\ task[j] = "modules"
    /\ \/ \E m \in todo[j] :
            /\ files' = files \cup {m}
            /\ todo' = [todo EXCEPT ![j] = @ \ {m}]
            /\ UNCHANGED task
       \/ /\ todo[j] = {}
          /\ todo' = [todo EXCEPT ![j] = DOMAIN Tree[j[2]]]
          /\ task' = [task EXCEPT ![j] = "files"]
          /\ UNCHANGED files
    /\ UNCHANGED <<queueVars, taken, members, siteVars, dirs, req>>

\* store_file of the next file of the walk.
StoreFile(j) ==
    /\ Goes(j, "files", "member")
    /\ \E p \in todo[j] :
        /\ files' = files \cup {Tree[j[2]][p]}
        /\ taken' = [taken EXCEPT ![j] = p]
    /\ UNCHANGED <<queueVars, todo, members, siteVars, dirs, req>>

\* The insert fails if the layer has a member of that path.
CreateLayerMember(j) ==
    /\ task[j] = "member"
    /\ LET p == taken[j]
           exists == \E m \in members : m[1] = j[2] /\ m[2] = p IN
        /\ task' = [task EXCEPT ![j] = IF exists THEN "failed" ELSE "files"]
        /\ members' = IF exists THEN members ELSE members \cup {<<j[2], p, Tree[j[2]][p]>>}
        /\ todo' = [todo EXCEPT ![j] = @ \ {p}]
    /\ taken' = [taken EXCEPT ![j] = None]
    /\ UNCHANGED <<queueVars, files, siteVars, dirs, req>>

\* Mutant: the walk may be left with files still to come.
LeaveWalk(j) ==
    /\ Goes(j, "files", "clean")
    /\ UNCHANGED <<queueVars, todo, taken, storeVars, siteVars, dirs, req>>

EndWalk(j) ==
    /\ Goes(j, "files", "clean")
    /\ todo[j] = {}
    /\ UNCHANGED <<queueVars, todo, taken, storeVars, siteVars, dirs, req>>

RemoveDirectory(j) ==
    /\ Goes(j, "clean", "list")
    /\ dirs' = dirs \ {j[2]}
    /\ UNCHANGED <<queueVars, todo, taken, storeVars, siteVars, req>>

ListSites(j) ==
    /\ Goes(j, "list", "deploy")
    /\ todo' = [todo EXCEPT ![j] = sites]
    /\ UNCHANGED <<queueVars, taken, storeVars, siteVars, dirs, req>>

\* Mutant: the deployment is not yet committed when it is made current.
CreateDeploymentLater(j) ==
    /\ Goes(j, "deploy", "current")
    /\ \E x \in todo[j] :
        /\ taken' = [taken EXCEPT ![j] = x]
        /\ todo' = [todo EXCEPT ![j] = @ \ {x}]
    /\ UNCHANGED <<queueVars, storeVars, siteVars, dirs, req>>

\* A transaction: the deployment with its modules and its projection.
CreateDeployment(j) ==
    /\ Goes(j, "deploy", "current")
    /\ \E x \in todo[j] :
        /\ deployments' = deployments \cup {[site |-> x, build |-> j[2], server |-> j[1]]}
        /\ taken' = [taken EXCEPT ![j] = x]
        /\ todo' = [todo EXCEPT ![j] = @ \ {x}]
    /\ UNCHANGED <<queueVars, storeVars, sites, current, domainSite, dirs, req>>

\* The two ids the first statement reads do not change before the second.
UpdateCurrentDeployment(j) ==
    /\ Goes(j, "current", "deploy")
    /\ current' = [current EXCEPT ![taken[j]] =
                     [site |-> taken[j], build |-> j[2], server |-> j[1]]]
    /\ taken' = [taken EXCEPT ![j] = None]
    /\ UNCHANGED <<queueVars, todo, storeVars, sites, deployments, domainSite, dirs, req>>

EndTask(j) ==
    /\ Goes(j, "deploy", "done")
    /\ todo[j] = {}
    /\ UNCHANGED <<queueVars, todo, taken, storeVars, siteVars, dirs, req>>

\* Any query, file operation or check may fail; run() only logs it.
TaskError(j) ==
    /\ task[j] \in Live
    /\ task' = [task EXCEPT ![j] = "failed"]
    /\ todo' = [todo EXCEPT ![j] = {}]
    /\ taken' = [taken EXCEPT ![j] = None]
    /\ UNCHANGED <<queueVars, storeVars, siteVars, dirs, req>>

Task(j) ==
    \/ MakeDirectory(j) \/ Fetch(j) \/ StoreModule(j) \/ StoreFile(j)
    \/ CreateLayerMember(j) \/ EndWalk(j) \/ RemoveDirectory(j) \/ ListSites(j)
    \/ CreateDeployment(j) \/ UpdateCurrentDeployment(j) \/ EndTask(j)
-----------------------------------------------------------------------------
(***************************************************************************)
(* Sites and requests.                                                     *)
(***************************************************************************)

CreateSite(x) ==
    /\ x \notin sites
    /\ sites' = sites \cup {x}
    /\ UNCHANGED <<queueVars, taskVars, storeVars, deployments, current, domainSite, dirs, req>>

SetDomainSite(x) ==
    /\ x \in sites
    /\ domainSite' = x
    /\ domainSite' # domainSite
    /\ UNCHANGED <<queueVars, taskVars, storeVars, sites, deployments, current, dirs, req>>

\* The update finds the domain by its name alone.  Another team that has one of
\* the same name writes its own site here too; the queries of a request, which
\* join by team, find no site then.
OthersSetDomainSite ==
    /\ domainSite # None
    /\ domainSite' = None
    /\ UNCHANGED <<queueVars, taskVars, storeVars, sites, deployments, current, dirs, req>>

\* The build behind the host: domain, site, current deployment, joined.
Deployed ==
    IF domainSite = None \/ current[domainSite] = None THEN None
    ELSE current[domainSite].build

Asks(r) ==
    /\ req.at = "idle"
    /\ req' = [NoRequest EXCEPT !.at = "projections", !.ask = r]
    /\ UNCHANGED <<queueVars, taskVars, storeVars, siteVars, dirs>>

\* get_deployment_by_host: two queries, outside of a transaction.
GetProjections ==
    /\ req.at = "projections"
    /\ req' = [req EXCEPT !.at = "modules", !.build = Deployed]
    /\ UNCHANGED <<queueVars, taskVars, storeVars, siteVars, dirs>>

GetModules ==
    /\ req.at = "modules"
    /\ req' = IF Deployed = None \/ req.build = None
              THEN [req EXCEPT !.at = "done", !.status = 404]
              ELSE [req EXCEPT !.at = "find", !.modules = Modules[Deployed], !.try = 1]
    /\ UNCHANGED <<queueVars, taskVars, storeVars, siteVars, dirs>>

\* The members find_layer_member_file tries, in this order.
Candidates(r) ==
    IF r.slash
    THEN <<Append(r.names, "index.html"), Append(r.names, "index.htm")>>
    ELSE <<r.names, Append(r.names, "index.html"), Append(r.names, "index.htm")>>

\* Mutant: the member of any layer.
FoundInAnyLayer == {m \in members : m[2] = Candidates(req.ask)[req.try] /\ m[3] \in files}

\* get_layer_member_file joins the member with a file that is stored.
Found ==
    {m \in members : /\ m[1] = req.build
                     /\ m[2] = Candidates(req.ask)[req.try]
                     /\ m[3] \in files}

\* With a file, the blobs of the file and of the modules are loaded, and do
\* not change; what is not stored has no chunks, and as a module is refused.
\* What the modules make of the answer is left out.
FindFile ==
    /\ req.at = "find"
    /\ \/ \E m \in Found :
            req' = [req EXCEPT !.at = "done", !.body = m[3],
                               !.status = IF req.modules \subseteq files THEN 200 ELSE 500]
       \/ /\ Found = {} /\ req.try < Len(Candidates(req.ask))
          /\ req' = [req EXCEPT !.try = @ + 1]
       \/ /\ Found = {} /\ req.try = Len(Candidates(req.ask))
          /\ req' = [req EXCEPT !.at = "done", !.status = 404]
    /\ UNCHANGED <<queueVars, taskVars, storeVars, siteVars, dirs>>

RequestError ==
    /\ req.at \in {"projections", "modules", "find"}
    /\ req' = [req EXCEPT !.at = "done", !.status = 500]
    /\ UNCHANGED <<queueVars, taskVars, storeVars, siteVars, dirs>>

\* The next client.
Close ==
    /\ req.at = "done"
    /\ req' = NoRequest
    /\ UNCHANGED <<queueVars, taskVars, storeVars, siteVars, dirs>>

Web ==
    \/ \E r \in Request : Asks(r)
    \/ GetProjections \/ GetModules \/ FindFile \/ RequestError \/ Close

\* What a live process does of its own accord.
Process(s) == Queue(s) \/ \E b \in Build : Task(<<s, b>>)

\* The gRPC calls.  A refresh lists the repository and makes its builds one
\* by one, and may stop in between.
RefreshSource == \E b \in Build : CreateBuild(b)
Sites == \E x \in Site : CreateSite(x)
Domains == (\E x \in Site : SetDomainSite(x)) \/ OthersSetDomainSite

Next ==
    \/ RefreshSource \/ Sites \/ Domains
    \/ \E s \in Server : Process(s) \/ QueueError(s) \/ Crash(s)
    \/ \E j \in Job : TaskError(j)
    \/ Web

Spec == Init /\ [][Next]_vars

\* A live process goes on running, and its queries return: none of its steps
\* can be repeated for ever, so that one kind does not hold up another.
FairSpec ==
    /\ Spec
    /\ \A s \in Server : WF_vars(Process(s))
-----------------------------------------------------------------------------
(***************************************************************************)
(* Properties.                                                             *)
(***************************************************************************)

\* However servers poll, crash and fail to commit, a build is handed to one
\* task at most: the work directory and the layer are its own.
ClaimedOnce ==
    \A s, t \in Server, b \in Build :
        task[<<s, b>>] # "none" /\ task[<<t, b>>] # "none" => s = t

\* A server never runs more than concurrent_builds tasks at once.
RunningBounded ==
    \A s \in Server :
        Cardinality({b \in Build : task[<<s, b>>] \in Live}) <= ConcurrentBuilds

\* All the files of a build are members of its layer and stored, and so are
\* its modules.
AllStored(b) ==
    /\ \A p \in DOMAIN Tree[b] : <<b, p, Tree[b][p]>> \in members
    /\ Modules[b] \subseteq files

\* Members are files of their build, and stored before they are members.
MembersStored ==
    \A m \in members :
        /\ m[1] \in Build /\ m[2] \in DOMAIN Tree[m[1]]
        /\ m[3] = Tree[m[1]][m[2]] /\ m[3] \in files

\* What sites are deployed to has been committed before, and is their own.
CurrentIsDeployed ==
    \A x \in Site : current[x] # None => current[x] \in deployments /\ current[x].site = x

\* A deployment, and in particular a current one, has all files of its build
\* and no others, whatever failed, crashed or was built at the same time.
DeployedIsComplete ==
    /\ MembersStored
    /\ \A d \in deployments : AllStored(d.build)
    /\ CurrentIsDeployed

\* What a path stands for in a directory that is served.
Resolve(tree, r) ==
    LET html == Append(r.names, "index.html")
        htm == Append(r.names, "index.htm") IN
    IF ~r.slash /\ r.names \in DOMAIN tree THEN tree[r.names]
    ELSE IF html \in DOMAIN tree THEN tree[html]
    ELSE IF htm \in DOMAIN tree THEN tree[htm]
    ELSE None

\* A request that found a deployment is answered with what the commit of
\* that deployment has at the path, whatever is built and deployed meanwhile.
ServedIsDeployed ==
    req.at = "done" /\ req.try # 0 =>
        /\ req.status = 200 => req.body = Resolve(Tree[req.build], req.ask)
        /\ req.status = 404 => Resolve(Tree[req.build], req.ask) = None

\* A queued build is run to an end, unless no server polls any longer or
\* the one that claimed it has failed in between.
BuildsEnd ==
    \A b \in Build :
        queue[b] = "queued" ~>
            \/ queue[b] = "building" /\ \A s \in Server : task[<<s, b>>] \notin Live
            \/ \A s \in Server : poll[s] = "stopped"
-----------------------------------------------------------------------------
(***************************************************************************)
(* The inductive invariant behind the safety properties.                   *)
(***************************************************************************)

\* A transaction holds the lock of the queued build it is about, and no two
\* transactions hold the same; a build with a task is no longer queued.
ClaimInv ==
    /\ \A s \in Server :
        /\ poll[s] = "claim" => claim[s] \in locks[s]
        /\ poll[s] # "claim" => locks[s] = {}
        /\ \A b \in locks[s] : queue[b] = "queued"
    /\ \A s, t \in Server : s # t => locks[s] \cap locks[t] = {}
    /\ \A j \in Job : task[j] # "none" => queue[j[2]] = "building"
    /\ ClaimedOnce

\* The running tasks are among those of the pool, which has room for one
\* more whenever the stream is asked for a build.
PoolInv ==
    \A s \in Server :
        /\ IsFiniteSet(pool[s])
        /\ Cardinality(pool[s]) <= ConcurrentBuilds
        /\ poll[s] \in {"poll", "claim"} => Cardinality(pool[s]) < ConcurrentBuilds
        /\ \A b \in Build : task[<<s, b>>] \in Live => b \in pool[s]

\* What a task has stored when it comes to a stage, and what it has to do.
Progress(j) ==
    LET b == j[2] IN
    /\ task[j] = "modules" => todo[j] \subseteq Modules[b] /\ Modules[b] \ todo[j] \subseteq files
    /\ task[j] \in {"files", "member"} =>
        /\ Modules[b] \subseteq files
        /\ todo[j] \subseteq DOMAIN Tree[b]
        /\ \A p \in DOMAIN Tree[b] \ todo[j] : <<b, p, Tree[b][p]>> \in members
    /\ task[j] = "member" => taken[j] \in DOMAIN Tree[b] /\ Tree[b][taken[j]] \in files
    /\ task[j] \in {"clean", "list", "deploy", "current", "done"} => AllStored(b)
    /\ task[j] \in {"deploy", "current"} => todo[j] \subseteq Site
    /\ task[j] = "current" =>
        /\ taken[j] \in Site
        /\ [site |-> taken[j], build |-> b, server |-> j[1]] \in deployments

TaskInv == \A j \in Job : Progress(j)

\* The request looks in the layer of a deployment, and has not found any of
\* the candidates before the one it is at.
RequestInv ==
    /\ req.at # "idle" => req.ask \in Request
    /\ req.at \in {"projections", "modules"} => req.try = 0
    /\ req.build # None => req.build \in Build /\ AllStored(req.build)
    /\ req.at = "find" =>
        /\ req.build # None
        /\ req.try \in 1..Len(Candidates(req.ask))
        /\ \A i \in 1..req.try - 1 : Candidates(req.ask)[i] \notin DOMAIN Tree[req.build]

DeployInv ==
    TypeOK /\ ClaimInv /\ PoolInv /\ TaskInv /\ DeployedIsComplete
    /\ RequestInv /\ ServedIsDeployed
=============================================================================
