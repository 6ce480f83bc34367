------------------------------ MODULE GitClone ------------------------------
(***************************************************************************)
(* The end of git_clone (crates/git-repositories/src/git/mod.rs): after    *)
(* GitExtract, the files that git-lfs stands in for are downloaded         *)
(* (git/lfs.rs).  One task lists the files that match a pattern and sends  *)
(* them through a channel; the call takes them, and replaces them batch by *)
(* batch.                                                                  *)
(***************************************************************************)
EXTENDS GitExtract

CONSTANTS
    Globs,     \* for the directory of a .gitattributes: what its patterns match
    Pointer,   \* the content that a pointer file stands for
    Large,     \* contents of 1024 bytes or more
    Capacity,  \* of the channel, 32
    Buffer     \* files fetched at once, 32

ASSUME GlobsAssumption == DOMAIN Globs \subseteq Seq(STRING)
\* git-lfs never stores a pointer as the content of another, and an error page
\* is no pointer.
ASSUME PointerAssumption ==
    /\ "page" \notin DOMAIN Pointer
    /\ \A o \in DOMAIN Pointer : Pointer[o] \notin DOMAIN Pointer
ASSUME CapacityAssumption == Capacity \in Nat \ {0} /\ Buffer \in Nat \ {0}

VARIABLES
    lister,   \* where the task stands
    attrs,    \* directories it has still to look at
    found,    \* files it has still to send
    channel,  \* files, and None at the end
    closed,   \* the receiver is closed
    buffer,   \* files taken from the channel
    todo,     \* contents to download, with the file each is for
    bad       \* contents the server has left out, or sent an error page for

listVars == <<lister, attrs, found>>
lfsVars == <<listVars, channel, closed, buffer, todo, bad>>
vars == <<extractVars, lfsVars>>

Ended == {"done", "failed", "error", "panic"}

Init ==
    /\ ExtractInit
    /\ lister = "none"
    /\ attrs = {}
    /\ found = {}
    /\ channel = <<>>
    /\ closed = FALSE
    /\ buffer = <<>>
    /\ todo = {}
    /\ bad = {}

Goes(from, to) == pc = from /\ pc' = to
-----------------------------------------------------------------------------
(***************************************************************************)
(* The task, list_files.                                                   *)
(***************************************************************************)

\* The directories there are with a .gitattributes about lfs.
Attributed == {d.path : d \in {e \in dirs : e.path \in DOMAIN Globs}}

\* The files there are that match a pattern of a directory.
Matched(path) == Globs[path] \cap DOMAIN files

ListDirectory ==
    /\ lister = "list"
    /\ found = {}
    /\ \E d \in attrs :
        /\ attrs' = attrs \ {d}
        /\ found' = Matched(d)
    /\ UNCHANGED <<extractVars, lister, channel, closed, buffer, todo, bad>>

\* A send waits for room; it fails when the receiver is closed.
SendFile ==
    /\ lister = "list"
    /\ \E f \in found :
        \/ /\ ~closed /\ Len(channel) < Capacity
           /\ channel' = Append(channel, f)
           /\ found' = found \ {f}
           /\ UNCHANGED lister
        \/ /\ closed
           /\ lister' = "failed"
           /\ UNCHANGED <<channel, found>>
    /\ UNCHANGED <<extractVars, attrs, closed, buffer, todo, bad>>

\* After the last file None is sent again and again, until a send fails.
SendNone ==
    /\ lister = "list"
    /\ attrs = {} /\ found = {}
    /\ \/ /\ ~closed /\ Len(channel) < Capacity
          /\ channel' = Append(channel, None)
          /\ UNCHANGED lister
       \/ /\ closed
          /\ lister' = "done"
          /\ UNCHANGED channel
    /\ UNCHANGED <<extractVars, attrs, found, closed, buffer, todo, bad>>

\* A file cannot be read, is too large, or has no valid pattern.
ListError ==
    /\ lister = "list"
    /\ lister' = "failed"
    /\ UNCHANGED <<extractVars, attrs, found, channel, closed, buffer, todo, bad>>
-----------------------------------------------------------------------------
(***************************************************************************)
(* The call, download().                                                   *)
(***************************************************************************)

\* detect(), and the start of the task.
Detect ==
    /\ Goes("extracted", IF Attributed = {} THEN "done" ELSE "authenticate")
    /\ lister' = IF Attributed = {} THEN lister ELSE "list"
    /\ attrs' = Attributed
    /\ UNCHANGED <<packVars, walkVars, found, channel, closed, buffer, todo, bad>>

\* git-lfs-authenticate.
Authenticate ==
    /\ Goes("authenticate", "receive")
    /\ UNCHANGED <<packVars, walkVars, lfsVars>>

\* A file goes into the buffer, and a full buffer is fetched; None, or the end
\* of a task that has failed, ends the loop.
Receive ==
    /\ pc = "receive"
    /\ \/ /\ channel # <<>> /\ Head(channel) # None
          /\ buffer' = Append(buffer, Head(channel))
          /\ channel' = Tail(channel)
          /\ pc' = IF Len(buffer') = Buffer THEN "fetch" ELSE pc
       \/ /\ channel # <<>> /\ Head(channel) = None
          /\ channel' = Tail(channel)
          /\ pc' = "close"
          /\ UNCHANGED buffer
       \/ /\ channel = <<>> /\ lister = "failed"
          /\ pc' = "close"
          /\ UNCHANGED <<channel, buffer>>
    /\ UNCHANGED <<packVars, walkVars, listVars, closed, todo, bad>>

\* Mutant: the receiver is not closed before the task is awaited.
CloseLate ==
    /\ Goes("close", "await")
    /\ UNCHANGED <<packVars, walkVars, lfsVars>>

\* From now on sends fail.
Close ==
    /\ Goes("close", "await")
    /\ closed' = TRUE
    /\ UNCHANGED <<packVars, walkVars, listVars, channel, buffer, todo, bad>>

\* Mutant: what is left in the buffer is not fetched.
AwaitListOnly ==
    /\ pc = "await"
    /\ \/ lister = "failed" /\ pc' = "error"
       \/ lister = "done" /\ pc' = "done"
    /\ UNCHANGED <<packVars, walkVars, lfsVars>>

\* The task has ended; what is left in the buffer is fetched.
AwaitList ==
    /\ pc = "await"
    /\ \/ lister = "failed" /\ pc' = "error"
       \/ lister = "done" /\ pc' = IF buffer = <<>> THEN "done" ELSE "fetch"
    /\ UNCHANGED <<packVars, walkVars, lfsVars>>

\* fetch(): the files are read, no large one among them, and the server is
\* asked for what the pointers among them stand for.  It may leave some out.
\* The receiver is dropped when the call ends.
Fetch ==
    /\ pc = "fetch"
    /\ LET paths == {buffer[i] : i \in DOMAIN buffer}
           wanted == {[content |-> Pointer[files[f]], path |-> f] :
                        f \in {g \in paths : files[g] \in DOMAIN Pointer}} IN
        IF \E f \in paths : files[f] \in Large
        THEN pc' = "failed" /\ closed' = TRUE /\ UNCHANGED <<buffer, todo, bad>>
        ELSE \E omitted \in SUBSET {w.content : w \in wanted} :
                /\ todo' = {w \in wanted : w.content \notin omitted}
                /\ bad' = bad \cup omitted
                /\ buffer' = <<>>
                /\ pc' = "download"
                /\ UNCHANGED closed
    /\ UNCHANGED <<packVars, walkVars, listVars, channel>>

\* The files of one content are written from one answer, whatever its status
\* is: an error page takes the place of the content.
Download ==
    /\ pc = "download"
    /\ \E w \in todo, ok \in BOOLEAN :
        /\ files' = [f \in DOMAIN files |->
                        IF [w EXCEPT !.path = f] \notin todo THEN files[f]
                        ELSE IF ok THEN w.content ELSE "page"]
        /\ todo' = {v \in todo : v.content # w.content}
        /\ bad' = IF ok THEN bad ELSE bad \cup {w.content}
    /\ UNCHANGED <<packVars, stack, dirs, pc, listVars, channel, closed, buffer>>

\* The next batch, or the end if this was the last.
EndFetch ==
    /\ Goes("download", IF closed THEN "done" ELSE "receive")
    /\ todo = {}
    /\ UNCHANGED <<packVars, walkVars, lfsVars>>

\* A file, the connection or the server fails.
CloneError ==
    /\ pc \notin Ended
    /\ pc' = "error"
    /\ closed' = TRUE
    /\ UNCHANGED <<packVars, walkVars, listVars, channel, buffer, todo, bad>>

List == ListDirectory \/ SendFile \/ SendNone

Clone ==
    \/ Extract /\ UNCHANGED lfsVars
    \/ Detect \/ Authenticate \/ Receive \/ Close \/ AwaitList
    \/ Fetch \/ Download \/ EndFetch

Next == Clone \/ List \/ ListError \/ CloneError

Spec == Init /\ [][Next]_vars

\* Both tasks go on running; files can be read and the server answers, or
\* the call fails.
FairSpec == Spec /\ WF_vars(Clone) /\ WF_vars(List)
-----------------------------------------------------------------------------
(***************************************************************************)
(* Properties.                                                             *)
(***************************************************************************)

TypeOK ==
    /\ pack \in Packs /\ root \in Roots
    /\ place \in [Object -> Nat]
    /\ deltas \subseteq DOMAIN pack
    /\ size \in Nat /\ mapped \in Nat
    /\ \A b \in batch : b.delta \in deltas /\ b.parent \in Nat
    /\ \A d \in dirs : d.tree \in Object
    /\ lister \in {"none", "list", "done", "failed"}
    /\ Len(channel) <= Capacity /\ Len(buffer) <= Buffer

\* The items of the trees that are directories now, with their paths.
ItemsOf(d) == Range(Items[d.tree])
Checkout ==
    UNION {{[kind |-> m.kind, object |-> m.object, path |-> Append(d.path, m.name)] : m \in ItemsOf(d)} :
           d \in dirs}

\* The files that are to be replaced.
Tracked == UNION {Matched(d) : d \in Attributed}

\* What a file of the commit is to have in the end.
Wanted(c) ==
    IF c.path \in Tracked /\ c.object \in DOMAIN Pointer THEN Pointer[c.object] ELSE c.object

\* A commit can be cloned: the index has all that its trees need and no delta
\* without a parent, and no tree has an item that cannot be read.
Complete ==
    /\ deltas = {}
    /\ place[root] # 0
    /\ \A d \in dirs : Items[d.tree] # <<>>
    /\ \A c \in Checkout : c.kind # "submodule" /\ place[c.object] # 0

\* A tracked file cannot be fetched: it is large and no pointer, or it matches
\* the patterns of two directories, and is large after the first fetch.
TooLarge ==
    \E c \in Checkout :
        /\ c.kind = "blob" /\ c.path \in Tracked
        /\ \/ c.object \in Large
           \/ /\ c.object \in DOMAIN Pointer /\ {Pointer[c.object], "page"} \cap Large # {}
              /\ \E d, e \in Attributed : d # e /\ c.path \in Matched(d) \cap Matched(e)

\* A clone that ends well has the files of the commit and no others, each
\* with its content, but for what the lfs server did not give.  One fails,
\* if no call fails, only for a commit that cannot be cloned.
CloneIsExact ==
    /\ pc = "done" =>
        /\ Complete
        /\ \E d \in dirs : d.path = <<>> /\ d.tree = root
        /\ \A c \in Checkout :
            /\ c.kind = "tree" => [path |-> c.path, tree |-> c.object] \in dirs
            /\ c.kind = "blob" =>
                /\ c.path \in DOMAIN files
                /\ Wanted(c) \in bad \/ files[c.path] = Wanted(c)
        /\ \A f \in DOMAIN files : \E c \in Checkout : c.kind = "blob" /\ c.path = f
    /\ pc = "failed" => ~Complete \/ TooLarge

\* The call ends, and the task with it: neither waits for the other for ever
\* at a channel that is full or empty.
CloneEnds == <>(pc \in Ended /\ lister # "list")
-----------------------------------------------------------------------------
(***************************************************************************)
(* The inductive invariant behind CloneIsExact.                            *)
(***************************************************************************)

\* The steps before the walk, and those before the task is started.
Indexing == {"list", "reconstruct", "refresh", "commit"}
Extracting == Indexing \cup {"walk", "extracted"}

DirOf(d, m) == [path |-> Append(d.path, m.name), tree |-> m.object]

\* A directory is the root, or comes from an item of another, and no two have
\* one path.
DirInv ==
    /\ \A d \in dirs :
        /\ d \in [path : Seq(STRING), tree : DOMAIN Items]
        /\ \/ d = [path |-> <<>>, tree |-> root]
           \/ \E e \in dirs : \E m \in ItemsOf(e) : m.kind = "tree" /\ d = DirOf(e, m)
    /\ \A d, e \in dirs : d.path = e.path => d = e

\* An item of a directory has been walked, or is left on the stack.
Walked(d, m) ==
    /\ m.kind # "submodule"
    /\ place[m.object] # 0
    /\ m.kind = "tree" => DirOf(d, m) \in dirs
    /\ m.kind = "blob" => Append(d.path, m.name) \in DOMAIN files

Left(d, m) == \E t \in Range(stack) : t.path = d.path /\ m \in Range(t.items)

\* What is left on the stack belongs to a directory, and only an empty tree
\* has nothing left.
Belongs(t, d) ==
    /\ t.path = d.path
    /\ t.items \in Seq(ItemsOf(d))
    /\ t.items = <<>> => Items[d.tree] = <<>>

StackInv ==
    /\ stack \in Seq([items : Seq(UNION {ItemsOf(d) : d \in dirs}), path : Seq(STRING)])
    /\ \A t \in Range(stack) : \E d \in dirs : Belongs(t, d)
    /\ \A d \in dirs :
        /\ Items[d.tree] = <<>> => \E t \in Range(stack) : t.items = <<>>
        /\ \A m \in ItemsOf(d) : Walked(d, m) \/ Left(d, m)

\* How far the call has come.
StageInv ==
    /\ root \in Roots
    /\ pc = "commit" => deltas = {}
    /\ pc \in Indexing => dirs = {} /\ files = <<>> /\ stack = <<>>
    /\ pc \notin Indexing \cup {"failed", "error"} =>
        /\ deltas = {} /\ place[root] # 0
        /\ [path |-> <<>>, tree |-> root] \in dirs
    /\ pc \notin Indexing \cup {"walk", "failed", "error"} => stack = <<>>
    /\ pc \in Extracting => lister = "none" /\ ~closed
    /\ lister = "none" => attrs = {} /\ found = {} /\ channel = <<>> /\ buffer = <<>> /\ todo = {}
    /\ pc \in {"authenticate", "receive", "close", "await", "fetch", "download"} => lister # "none"
    /\ pc \in {"authenticate", "receive", "close"} => ~closed
    /\ pc = "await" => closed

Blobs == {c \in Checkout : c.kind = "blob"}
IsPointer(c) == c.path \in Tracked /\ c.object \in DOMAIN Pointer

\* Files are blobs of the commit; one has another content only if it is a
\* tracked pointer, and what it has then came from the server.
FileInv ==
    /\ \A f \in DOMAIN files : \E c \in Blobs : c.path = f
    /\ \A c \in Blobs : c.path \in DOMAIN files =>
        \/ files[c.path] = c.object
        \/ /\ lister # "none" /\ IsPointer(c)
           /\ \/ files[c.path] = Pointer[c.object]
              \/ files[c.path] = "page" /\ Pointer[c.object] \in bad

\* The task and the call share out the tracked files; after a None, and once
\* the receiver is closed, there are none to come.
Sent == attrs = {} /\ found = {} /\ Range(channel) \subseteq {None}

ListInv ==
    /\ attrs \subseteq Attributed
    /\ found \subseteq Tracked
    /\ channel \in Seq(Tracked \cup {None})
    /\ buffer \in Seq(Tracked)
    /\ \A w \in todo : \E c \in Blobs : IsPointer(c) /\ w = [content |-> Pointer[c.object], path |-> c.path]
    /\ \A i \in DOMAIN channel : channel[i] = None =>
        attrs = {} /\ found = {} /\ \A j \in DOMAIN channel : j > i => channel[j] = None
    /\ lister = "done" => attrs = {} /\ found = {}
    /\ pc \in {"close", "await"} => lister = "failed" \/ Sent
    /\ pc \in {"fetch", "download"} /\ closed => lister = "done" /\ Sent
    /\ pc = "download" => buffer = <<>>
    /\ pc \in {"authenticate", "receive", "close", "await", "fetch"} => todo = {}
    /\ pc = "done" => Attributed = {} \/ (Sent /\ buffer = <<>> /\ todo = {} /\ lister # "none")

\* A pointer is still to be fetched, is being fetched, or has been.
Handled(c) ==
    \/ \E d \in attrs : c.path \in Matched(d)
    \/ c.path \in found
    \/ c.path \in Range(channel)
    \/ c.path \in Range(buffer)
    \/ \E w \in todo : w.path = c.path
    \/ files[c.path] = Pointer[c.object]
    \/ Pointer[c.object] \in bad

HandledInv == lister # "none" => \A c \in Blobs : IsPointer(c) => Handled(c)

\* A file that one directory matches is sent once, and is fetched as it is in
\* the commit.
MatchedOnce(f) == \A d, e \in Attributed : f \in Matched(d) \cap Matched(e) => d = e

Fresh(c) == files[c.path] = c.object /\ \A w \in todo : w.path # c.path

OnceInv ==
    \A c \in Blobs : MatchedOnce(c.path) =>
        /\ (\E d \in attrs : c.path \in Matched(d)) =>
            c.path \notin found \cup Range(channel) \cup Range(buffer) /\ Fresh(c)
        /\ c.path \in found => c.path \notin Range(channel) \cup Range(buffer) /\ Fresh(c)
        /\ \A i \in DOMAIN channel : channel[i] = c.path =>
            /\ c.path \notin Range(buffer) /\ Fresh(c)
            /\ \A j \in DOMAIN channel : channel[j] = c.path => i = j
        /\ c.path \in Range(buffer) => Fresh(c)

CloneInv ==
    /\ MappedInv
    /\ DirInv /\ StackInv /\ StageInv
    /\ FileInv /\ ListInv /\ HandledInv /\ OnceInv
    /\ pc = "failed" => ~Complete \/ TooLarge
=============================================================================
