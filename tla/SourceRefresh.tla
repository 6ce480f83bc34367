--------------------------- MODULE SourceRefresh ---------------------------
(***************************************************************************)
(* A refresh of a source, refresh_source of SourceService                  *)
(* (crates/fairing-core/src/services/sources.rs) with the tables it works  *)
(* on (crates/scylla-repositories/src/sources.rs and layers.rs): the heads *)
(* of the repository are listed, and every layer set that follows one of   *)
(* them gets a layer of its commit, which LayerBuild takes from there.     *)
(* Several callers refresh the source at once, on one server or on many.   *)
(*                                                                         *)
(* The tables of one project are modelled, with one source in it.  A layer *)
(* set whose branch is not at the commit of HEAD is not listed, and gets   *)
(* nothing from a refresh that ends well.                                  *)
(***************************************************************************)
EXTENDS Naturals, FiniteSets

CONSTANTS
    Caller,      \* tasks that call the services
    Name,        \* names of layer sets
    Ref,         \* branches, numbered in the order the server lists them
    HeadRef,     \* the branch HEAD stands for
    Commit,
    RevisionLimit,  \* REVISION_LIMIT, 4096
    MaxLayerId,  \* bound: the ids that are drawn are 1..MaxLayerId
    None

ASSUME IdAssumption == MaxLayerId \in Nat
ASSUME RefAssumption == Ref \subseteq Nat /\ HeadRef \in Ref
ASSUME RevisionLimitAssumption == RevisionLimit \in Nat
ASSUME NoneAssumption == None \notin Ref \cup Commit

VARIABLES
    head,    \* the repository: the commits of its branches
    source,  \* the row of the source is there
    sets,    \* the rows of the layer sets: the ref each follows, or None
    last,    \* their last_layer_id, 0 for nil
    layers,  \* the rows of layers
    drawn,   \* ids that have been drawn
    call     \* what each caller does

tableVars == <<source, sets, last, layers>>
vars == <<head, tableVars, drawn, call>>

Role == {"administrator", "viewer", "system", "setup"}

\* can(), for what changes a table.  A viewer may only read, and the system
\* without a project may only create one.
Can(role) == role \in {"administrator", "system"}

Idle == [pc |-> "idle", sets |-> {}, listed |-> [r \in Ref |-> None],
         todo |-> {}, name |-> None, last |-> 0, id |-> 0]

Init ==
    /\ head \in [Ref -> Commit \cup {None}]
    /\ source = FALSE
    /\ sets = [n \in {} |-> None]
    /\ last = [n \in Name |-> 0]
    /\ layers = {}
    /\ drawn = {}
    /\ call = [c \in Caller |-> Idle]

\* The call goes on as the record says.
Becomes(c, new) == call' = [call EXCEPT ![c] = new]

\* It is done with a layer set.
Leaves(c, how) == Becomes(c, [call[c] EXCEPT !.pc = how, !.name = None, !.last = 0, !.id = 0])

Fails(c) == Becomes(c, [Idle EXCEPT !.pc = "failed"])
-----------------------------------------------------------------------------
(***************************************************************************)
(* The repository and the other calls.                                     *)
(***************************************************************************)

Push ==
    /\ \E r \in Ref, new \in Commit \cup {None} : head' = [head EXCEPT ![r] = new]
    /\ UNCHANGED <<tableVars, drawn, call>>

\* create_source, by one who can: makes a key and writes the row, or writes
\* it again with another key.
CreateSource(c) ==
    /\ call[c].pc = "idle"
    /\ source' = TRUE
    /\ UNCHANGED <<head, sets, last, layers, drawn, call>>

\* create_layer_set: a row that is there stays as it is.
CreateLayerSet(c) ==
    /\ call[c].pc = "idle"
    /\ \E n \in Name, follows \in Ref \cup {None} :
        /\ follows # None => source
        /\ sets' = IF n \in DOMAIN sets THEN sets
                   ELSE [m \in DOMAIN sets \cup {n} |-> IF m = n THEN follows ELSE sets[m]]
    /\ UNCHANGED <<head, source, last, layers, drawn, call>>
-----------------------------------------------------------------------------
(***************************************************************************)
(* refresh_source.                                                         *)
(***************************************************************************)

\* The source is looked up, and the layer sets that follow it are listed.
BeginRefresh(c) ==
    /\ call[c].pc = "idle"
    /\ \E role \in Role :
        IF Can(role) /\ source
        THEN Becomes(c, [Idle EXCEPT !.pc = "list",
                                     !.sets = {n \in DOMAIN sets : sets[n] # None}])
        ELSE Fails(c)
    /\ UNCHANGED <<head, tableVars, drawn>>

AtHead == {r \in Ref : head[r] # None /\ head[r] = head[HeadRef]}

\* What git_list_latest returns of an advertisement (GitFetch has it line by
\* line): the branches at the commit of HEAD, as many as it lets through.
Listing ==
    [r \in Ref |-> IF /\ r \in AtHead
                     /\ Cardinality({q \in AtHead : q < r}) <= RevisionLimit
                   THEN head[r] ELSE None]

GitListLatest(c) ==
    /\ call[c].pc = "list"
    /\ Becomes(c, [call[c] EXCEPT
            !.pc = "next",
            !.listed = Listing,
            !.todo = {n \in call[c].sets : Listing[sets[n]] # None}])
    /\ UNCHANGED <<head, tableVars, drawn>>

\* get_last_layer reads last_layer_id,
GetLastLayerId(c) ==
    /\ call[c].pc = "next"
    /\ \E n \in call[c].todo :
        Becomes(c, [call[c] EXCEPT !.pc = "read", !.name = n, !.last = last[n],
                                   !.todo = @ \ {n}])
    /\ UNCHANGED <<head, tableVars, drawn>>

LayersUpTo(n, id) == {l \in layers : l.name = n /\ l.id <= id}

CommitOf(c) == call[c].listed[sets[call[c].name]]

\* The id of a new layer: a uuid of version 7.  Other servers have other
\* clocks, so that ids are not drawn in their order.
NewLayerId(c) ==
    \E id \in 1..MaxLayerId \ drawn :
        /\ drawn' = drawn \cup {id}
        /\ Becomes(c, [call[c] EXCEPT !.pc = "set", !.last = 0, !.id = id])

\* and then the layer up to that id.  The query has six columns and the row
\* seven fields: if there is a layer, it is an error, whatever its commit is.
GetLastLayer(c) ==
    /\ call[c].pc = "read"
    /\ IF LayersUpTo(call[c].name, call[c].last) = {}
       THEN NewLayerId(c)
       ELSE Fails(c) /\ UNCHANGED drawn
    /\ UNCHANGED <<head, tableVars>>

\* Mutant: that there is a newer layer is not an error.
SetNewerLayerId(c) ==
    /\ call[c].pc = "set"
    /\ last' = [last EXCEPT ![call[c].name] = IF @ < call[c].id THEN call[c].id ELSE @]
    /\ IF last[call[c].name] < call[c].id
       THEN Becomes(c, [call[c] EXCEPT !.pc = "create"]) ELSE Leaves(c, "next")
    /\ UNCHANGED <<head, source, sets, layers, drawn>>

\* Mutant: the update has no condition.
SetAnyLayerId(c) ==
    /\ call[c].pc = "set"
    /\ last' = [last EXCEPT ![call[c].name] = call[c].id]
    /\ Becomes(c, [call[c] EXCEPT !.pc = "create"])
    /\ UNCHANGED <<head, source, sets, layers, drawn>>

\* set_last_layer_id raises the id, or fails.
SetLastLayerId(c) ==
    /\ call[c].pc = "set"
    /\ IF last[call[c].name] < call[c].id
       THEN /\ last' = [last EXCEPT ![call[c].name] = call[c].id]
            /\ Becomes(c, [call[c] EXCEPT !.pc = "create"])
       ELSE Fails(c) /\ UNCHANGED last
    /\ UNCHANGED <<head, source, sets, layers, drawn>>

CreateLayer(c) ==
    /\ call[c].pc = "create"
    /\ layers' = layers \cup {[name |-> call[c].name, id |-> call[c].id, commit |-> CommitOf(c)]}
    /\ Leaves(c, "next")
    /\ UNCHANGED <<head, source, sets, last, drawn>>

EndRefresh(c) ==
    /\ call[c].pc = "next"
    /\ call[c].todo = {}
    /\ Leaves(c, "done")
    /\ UNCHANGED <<head, tableVars, drawn>>

\* A query or the repository fails.
RefreshError(c) ==
    /\ call[c].pc \notin {"idle", "done", "failed"}
    /\ Fails(c)
    /\ UNCHANGED <<head, tableVars, drawn>>

\* The caller may call again.
Return(c) ==
    /\ call[c].pc \in {"done", "failed"}
    /\ Becomes(c, Idle)
    /\ UNCHANGED <<head, tableVars, drawn>>

Refresh(c) ==
    \/ BeginRefresh(c) \/ GitListLatest(c) \/ GetLastLayerId(c) \/ GetLastLayer(c)
    \/ SetLastLayerId(c) \/ CreateLayer(c) \/ EndRefresh(c)

Next ==
    \/ Push
    \/ \E c \in Caller :
        CreateSource(c) \/ CreateLayerSet(c) \/ Refresh(c) \/ RefreshError(c) \/ Return(c)

Spec == Init /\ [][Next]_vars
-----------------------------------------------------------------------------
(***************************************************************************)
(* Properties.                                                             *)
(***************************************************************************)

Call == [pc : {"idle", "list", "next", "read", "set", "create", "done", "failed"},
         sets : SUBSET Name, listed : [Ref -> Commit \cup {None}], todo : SUBSET Name,
         name : Name \cup {None}, last : 0..MaxLayerId, id : 0..MaxLayerId]

TypeOK ==
    /\ head \in [Ref -> Commit \cup {None}]
    /\ source \in BOOLEAN
    /\ DOMAIN sets \subseteq Name /\ sets \in [DOMAIN sets -> Ref \cup {None}]
    /\ last \in [Name -> 0..MaxLayerId]
    /\ layers \subseteq [name : Name, id : 1..MaxLayerId, commit : Commit]
    /\ drawn \subseteq 1..MaxLayerId
    /\ call \in [Caller -> Call]

\* A refresh that ends well (refresh_source at sources.rs:159) leaves a layer
\* of the listed commit in every layer set that followed its ref when it
\* began, whatever other refreshes have done meanwhile.
RefreshIsComplete ==
    \A c \in Caller : call[c].pc = "done" =>
        \A n \in call[c].sets :
            LET commit == call[c].listed[sets[n]] IN
            commit # None => \E l \in layers : l.name = n /\ l.commit = commit

\* get_last_layer looks only for layers up to last_layer_id (layers.rs:419):
\* no layer, nor one that is about to be inserted, is ever above it, in
\* whatever order concurrent refreshes draw their ids, raise last_layer_id and
\* insert.  One above it would be overlooked by every later refresh.
LastLayerIdCovers ==
    /\ \A l \in layers : l.id <= last[l.name]
    /\ \A c \in Caller : call[c].pc = "create" => call[c].id <= last[call[c].name]
-----------------------------------------------------------------------------
(***************************************************************************)
(* The inductive invariant behind RefreshIsComplete.                       *)
(***************************************************************************)

\* The layer set has a layer of the commit that the caller has listed for it.
HasListed(c, n) ==
    \E l \in layers : l.name = n /\ l.commit = call[c].listed[sets[n]]

\* A call has made a layer for all layer sets of a listed commit, but those
\* it has still to do and the one it is at.
CallInv(c) ==
    /\ call[c].sets \subseteq DOMAIN sets
    /\ \A n \in call[c].sets : sets[n] # None
    /\ call[c].todo \subseteq call[c].sets
    /\ call[c].pc \in {"read", "set", "create"} =>
         /\ call[c].name \in call[c].sets
         /\ call[c].listed[sets[call[c].name]] # None
    /\ call[c].pc \in {"set", "create"} => call[c].id # 0
    /\ call[c].pc \in {"next", "read", "set", "create", "done"} =>
         \A n \in call[c].sets :
            \/ call[c].listed[sets[n]] = None
            \/ n \in call[c].todo
            \/ call[c].pc \in {"read", "set", "create"} /\ n = call[c].name
            \/ HasListed(c, n)
    /\ call[c].pc \in {"next", "read", "set", "create"} =>
         \A n \in call[c].todo : call[c].listed[sets[n]] # None
    /\ call[c].pc = "done" => call[c].todo = {}

RefreshInv == TypeOK /\ \A c \in Caller : CallInv(c)
=============================================================================
