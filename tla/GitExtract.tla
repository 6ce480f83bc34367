----------------------------- MODULE GitExtract -----------------------------
(***************************************************************************)
(* extract() of crates/git-repositories/src/git/local_pack_file_reader.rs: *)
(* from the pack and the index that GitFetch has left on disk to the files *)
(* of a commit.  Objects that the pack has as deltas are reconstructed     *)
(* batch by batch and appended to the pack, which is mapped into memory    *)
(* anew after a batch; then the tree of the commit is walked.              *)
(*                                                                         *)
(* An object is known by its hash.  A position in the pack counts objects. *)
(* The pack is well formed: instructions and items can be parsed.          *)
(***************************************************************************)
EXTENDS Naturals, Sequences, FiniteSets, Functions

CONSTANTS
    Object,     \* objects, by hash
    Packs,      \* packs that may have been fetched
    Roots,      \* root trees that the commit may have
    Items,      \* the items of a tree
    BatchSize,  \* deltas listed at once, 127
    None

\* An object of a pack is plain, or a delta: of a parent, and with a key, the
\* hash of its instructions.
ASSUME PackAssumption ==
    \A p \in Packs : p \in Seq([gives : Object, parent : Object \cup {None}, key : Nat])
\* What git guarantees of a tree: its items have different names, and a tree
\* in it is a tree.
ASSUME ItemsAssumption ==
    /\ DOMAIN Items \subseteq Object
    /\ \A t \in DOMAIN Items :
        /\ Items[t] \in
             Seq([kind : {"blob", "link", "tree", "submodule"}, name : STRING, object : Object])
        /\ \A i, j \in DOMAIN Items[t] : Items[t][i].name = Items[t][j].name => i = j
        /\ \A i \in DOMAIN Items[t] : Items[t][i].kind = "tree" => Items[t][i].object \in DOMAIN Items
ASSUME RootAssumption == Roots \subseteq DOMAIN Items
ASSUME BatchAssumption == BatchSize \in Nat \ {0}
ASSUME NoneAssumption == None \notin Object /\ None \notin Seq(STRING)

VARIABLES
    pack,    \* the pack as fetched
    root,    \* the tree of the commit
    place,   \* where the index has an object, 0 if it has not
    deltas,  \* the deltas in the index, by their places
    size,    \* objects in the pack file
    mapped,  \* those of them in the mapping
    batch,   \* deltas to reconstruct, with the places their parents had
    stack,   \* trees that are walked: the items left, and the directory
    dirs,    \* directories made, with their trees
    files,   \* what is in a file
    pc       \* where the call stands, or how it has ended

packVars == <<pack, root, place, deltas, size, mapped, batch>>
walkVars == <<stack, dirs, files>>
extractVars == <<packVars, walkVars, pc>>

\* Deltas and objects have different hashes; of two deltas with one key the
\* index has the later.
Kept(p) ==
    {i \in DOMAIN p : /\ p[i].parent # None
                      /\ \A j \in DOMAIN p : j > i /\ p[j].parent # None => p[j].key # p[i].key}

\* Where the index has a plain object of the pack.
Put(p, o) == {i \in DOMAIN p : p[i].parent = None /\ p[i].gives = o}

ExtractInit ==
    /\ pack \in Packs
    /\ root \in Roots
    /\ place = [o \in Object |-> IF Put(pack, o) = {} THEN 0
                                 ELSE CHOOSE i \in Put(pack, o) : \A j \in Put(pack, o) : j <= i]
    /\ deltas = Kept(pack)
    /\ size = Len(pack)
    /\ mapped = Len(pack)
    /\ batch = {}
    /\ stack = <<>>
    /\ dirs = {}
    /\ files = <<>>
    /\ pc = "list"
-----------------------------------------------------------------------------
(***************************************************************************)
(* The deltas.                                                             *)
(***************************************************************************)

\* The deltas whose parents the index has.
Ready == {i \in deltas : place[pack[i].parent] # 0}

\* list_ref_deltas: BatchSize of them at most, in the order of hashes.  The
\* entries of the parents are read with them.
ListRefDeltas ==
    /\ pc = "list"
    /\ \/ /\ Ready # {}
          /\ \E listed \in SUBSET Ready :
              /\ Cardinality(listed) <= BatchSize
              /\ listed = Ready \/ Cardinality(listed) = BatchSize
              /\ batch' = {[delta |-> i, parent |-> place[pack[i].parent]] : i \in listed}
          /\ pc' = "reconstruct"
       \/ /\ Ready = {}
          /\ pc' = IF deltas = {} THEN "commit" ELSE "failed"
          /\ UNCHANGED batch
    /\ UNCHANGED <<pack, root, place, deltas, size, mapped, walkVars>>

\* reconstruct() appends the object, from the parent that was listed with the
\* delta; the index gets it, in the place of one it may have, and loses the
\* delta.  What is not mapped is a panic.
Reconstruct ==
    /\ pc = "reconstruct"
    /\ \E b \in batch :
        IF b.delta <= mapped /\ b.parent <= mapped
        THEN /\ size' = size + 1
             /\ place' = [place EXCEPT ![pack[b.delta].gives] = size + 1]
             /\ deltas' = deltas \ {b.delta}
             /\ batch' = batch \ {b}
             /\ pc' = IF batch' = {} THEN "refresh" ELSE pc
        ELSE /\ pc' = "panic"
             /\ UNCHANGED <<size, place, deltas, batch>>
    /\ UNCHANGED <<pack, root, mapped, walkVars>>

\* Mutant: the pack is mapped as it was before the batch.
RefreshLate ==
    /\ pc = "refresh"
    /\ mapped' = Len(pack)
    /\ pc' = "list"
    /\ UNCHANGED <<pack, root, place, deltas, size, batch, walkVars>>

RefreshPackFile ==
    /\ pc = "refresh"
    /\ mapped' = size
    /\ pc' = "list"
    /\ UNCHANGED <<pack, root, place, deltas, size, batch, walkVars>>
-----------------------------------------------------------------------------
(***************************************************************************)
(* The tree.                                                               *)
(***************************************************************************)

\* object(): in the index, and in the mapping.
Found(o) == place[o] # 0 /\ place[o] <= mapped

\* The commit is taken to be there; its tree may not be.
OpenCommit ==
    /\ pc = "commit"
    /\ IF Found(root)
       THEN /\ stack' = <<[items |-> Items[root], path |-> <<>>]>>
            /\ dirs' = {[path |-> <<>>, tree |-> root]}
            /\ pc' = "walk"
       ELSE pc' = "failed" /\ UNCHANGED <<stack, dirs>>
    /\ UNCHANGED <<packVars, files>>

Top == stack[Len(stack)]
Below == SubSeq(stack, 1, Len(stack) - 1)

\* Mutant: the last item of a tree is dropped.
LeftOverOfTwo(t) == IF Len(t.items) < 2 THEN <<>> ELSE <<t>>

\* What is left of a tree goes back on the stack if it is not empty.
LeftOver(t) == IF t.items = <<>> THEN <<>> ELSE <<t>>

With(path, content) ==
    [p \in DOMAIN files \cup {path} |-> IF p = path THEN content ELSE files[p]]

\* tree_item reads the first item.  An empty tree or a submodule cannot be
\* read; a link is not made at its path, as the arguments of symlink are
\* exchanged; a file or directory may be there already.
WalkItem ==
    /\ pc = "walk"
    /\ stack # <<>>
    /\ IF Top.items = <<>> \/ Head(Top.items).kind = "submodule" \/ ~Found(Head(Top.items).object)
       THEN pc' = "failed" /\ UNCHANGED walkVars
       ELSE LET item == Head(Top.items)
                path == Append(Top.path, item.name)
                rest == LeftOver([Top EXCEPT !.items = Tail(@)]) IN
            /\ UNCHANGED pc
            /\ \/ /\ item.kind = "blob"
                  /\ files' = With(path, item.object)
                  /\ stack' = Below \o rest
                  /\ UNCHANGED dirs
               \/ /\ item.kind = "link"
                  /\ stack' = Below \o rest
                  /\ UNCHANGED <<dirs, files>>
               \/ /\ item.kind = "tree"
                  /\ dirs' = dirs \cup {[path |-> path, tree |-> item.object]}
                  /\ stack' = Append(Below, [items |-> Items[item.object], path |-> path]) \o rest
                  /\ UNCHANGED files
    /\ UNCHANGED packVars

EndWalk ==
    /\ pc = "walk"
    /\ stack = <<>>
    /\ pc' = "extracted"
    /\ UNCHANGED <<packVars, walkVars>>

Extract ==
    \/ ListRefDeltas \/ Reconstruct \/ RefreshPackFile
    \/ OpenCommit \/ WalkItem \/ EndWalk
-----------------------------------------------------------------------------
(***************************************************************************)
(* Properties.                                                             *)
(***************************************************************************)

\* A batch can be reconstructed from what was mapped before it, although its
\* own objects are appended meanwhile, and objects of the index replaced.
BatchIsMapped ==
    /\ pc # "panic"
    /\ pc = "reconstruct" => \A b \in batch : b.delta <= mapped /\ b.parent <= mapped
    /\ pc \in {"list", "commit", "walk"} => \A o \in Object : place[o] <= mapped

\* The deltas have parents, and what the index has is in the pack file.
PlaceTypes ==
    /\ pack \in Packs
    /\ deltas \subseteq DOMAIN pack
    /\ \A i \in deltas : pack[i].parent # None
    /\ place \in [Object -> Nat]
    /\ mapped \in Nat /\ size \in Nat

\* The strengthening of BatchIsMapped: what a listed delta needs was mapped
\* when it was listed, though the index may name a later place by now.
MappedInv ==
    /\ PlaceTypes
    /\ Len(pack) <= mapped /\ mapped <= size
    /\ \A o \in Object : place[o] <= size
    /\ pc = "reconstruct" => \A b \in batch : b.delta \in DOMAIN pack /\ b.parent \in 0..mapped
    /\ pc \in {"list", "commit", "walk"} => \A o \in Object : place[o] <= mapped
    /\ pc # "panic"
=============================================================================
