-------------------------- MODULE GitClone_proofs ---------------------------
(***************************************************************************)
(* Proofs about GitClone: for every pack, every size of a batch and every  *)
(* course of the downloads, reconstruction reads only what is mapped.      *)
(***************************************************************************)
EXTENDS GitClone, FiniteSetTheorems, SequenceTheorems, WellFoundedInduction, TLAPS

-----------------------------------------------------------------------------
(***************************************************************************)
(* The index as GitFetch has left it.                                      *)
(***************************************************************************)

\* Positions have a last one.
LEMMA LastOne ==
    ASSUME NEW n \in Nat, NEW S \in SUBSET (1..n), S # {}
    PROVE  \E i \in S : \A j \in S : j <= i
<1> DEFINE R == StrictSubsetOrdering(1..n)
           T == {i..n : i \in S}
<1>1. T \subseteq SUBSET (1..n) /\ T # {}
  <2>1. ASSUME NEW i \in S PROVE i..n \subseteq 1..n
    <3>1. i \in Nat /\ 1 <= i
      OBVIOUS
    <3>2. QED BY <3>1
  <2>2. QED BY <2>1
<1>2. IsWellFoundedOn(R, SUBSET (1..n))
  <2>1. IsFiniteSet(1..n)
    BY FS_Interval
  <2>2. FiniteSubsetsOf(1..n) = SUBSET (1..n)
    BY <2>1, FS_FiniteSubsetsOfFinite
  <2>3. IsWellFoundedOn(StrictSubsetOrdering(1..n), FiniteSubsetsOf(1..n))
    BY FS_StrictSubsetOrderingWellFounded
  <2>4. QED BY <2>2, <2>3
<1> HIDE DEF R, T
<1>3. PICK x \in T : \A y \in T : ~(<<y, x>> \in R)
  BY <1>1, <1>2, WFMin
<1>4. PICK i \in S : x = i..n
  BY DEF T
<1>5. ASSUME NEW j \in S, i < j PROVE FALSE
  <2>1. j..n \in T /\ j..n \in SUBSET (1..n) /\ i..n \in SUBSET (1..n)
    BY <1>1 DEF T
  <2>2. j..n \subseteq i..n /\ j..n # i..n
    <3>1. i \in i..n /\ i \notin j..n
      BY <1>5
    <3>2. QED BY <1>5, <3>1
  <2>3. <<j..n, i..n>> \in R
    BY <2>1, <2>2 DEF R, StrictSubsetOrdering
  <2>4. QED BY <1>3, <1>4, <2>1, <2>3
<1>6. QED BY <1>5

\* A pack holds objects, and deltas of objects.
LEMMA PackType ==
    ASSUME NEW p \in Packs
    PROVE  /\ Len(p) \in Nat /\ DOMAIN p = 1..Len(p)
           /\ \A i \in DOMAIN p :
                p[i].gives \in Object /\ (p[i].parent # None => p[i].parent \in Object)
<1> DEFINE E == [gives : Object, parent : Object \cup {None}, key : Nat]
<1>1. p \in Seq(E)
  BY PackAssumption
<1>2. \A e \in E : e.gives \in Object /\ (e.parent # None => e.parent \in Object)
  OBVIOUS
<1> HIDE DEF E
<1>3. QED BY <1>1, <1>2

LEMMA InitMapped == Init => MappedInv
<1> SUFFICES ASSUME Init PROVE MappedInv
  OBVIOUS
<1>1. pack \in Packs /\ size = Len(pack) /\ mapped = Len(pack) /\ deltas = Kept(pack) /\ pc = "list"
  BY DEF Init, ExtractInit
<1>2. Len(pack) \in Nat /\ DOMAIN pack = 1..Len(pack)
  BY <1>1, PackType
<1>3. deltas \subseteq DOMAIN pack /\ \A i \in deltas : pack[i].parent # None
  BY <1>1 DEF Kept
<1>4. ASSUME NEW o \in Object
      PROVE  (IF Put(pack, o) = {} THEN 0
              ELSE CHOOSE i \in Put(pack, o) : \A j \in Put(pack, o) : j <= i) \in 0..Len(pack)
  <2>1. CASE Put(pack, o) = {}
    BY <2>1, <1>2
  <2>2. CASE Put(pack, o) # {}
    <3>1. Put(pack, o) \in SUBSET (1..Len(pack))
      BY <1>2 DEF Put
    <3>2. \E i \in Put(pack, o) : \A j \in Put(pack, o) : j <= i
      BY <1>2, <2>2, <3>1, LastOne
    <3>3. (CHOOSE i \in Put(pack, o) : \A j \in Put(pack, o) : j <= i) \in Put(pack, o)
      BY <3>2
    <3>4. QED BY <1>2, <2>2, <3>1, <3>3
  <2>3. QED BY <2>1, <2>2
<1>5. place \in [Object -> 0..Len(pack)]
  BY <1>4 DEF Init, ExtractInit
<1>6. PlaceTypes /\ \A o \in Object : place[o] <= Len(pack)
  BY <1>1, <1>2, <1>3, <1>5 DEF PlaceTypes
<1>7. QED BY <1>1, <1>2, <1>6 DEF MappedInv

-----------------------------------------------------------------------------
(***************************************************************************)
(* The steps.                                                              *)
(***************************************************************************)

LEMMA ListRefDeltasMapped == MappedInv /\ ListRefDeltas => MappedInv'
<1> SUFFICES ASSUME MappedInv, ListRefDeltas PROVE MappedInv'
  OBVIOUS
<1>1. UNCHANGED <<pack, place, deltas, size, mapped>> /\ pc = "list"
  BY DEF ListRefDeltas
<1>2. PlaceTypes /\ \A o \in Object : place[o] \in 0..mapped
  BY <1>1 DEF MappedInv, PlaceTypes
<1>3. pc' \in {"reconstruct", "commit", "failed"}
  BY DEF ListRefDeltas
<1>4. ASSUME pc' = "reconstruct", NEW b \in batch'
      PROVE  b.delta \in DOMAIN pack /\ b.parent \in 0..mapped
  <2>1. PICK i \in Ready : b = [delta |-> i, parent |-> place[pack[i].parent]]
    BY <1>4 DEF ListRefDeltas
  <2>2. i \in DOMAIN pack /\ pack[i].parent \in Object
    BY <1>2, PackType DEF Ready, PlaceTypes
  <2>3. QED BY <1>2, <2>1, <2>2
<1>5. PlaceTypes'
  BY <1>1, <1>2 DEF PlaceTypes
<1>6. QED BY <1>1, <1>2, <1>3, <1>4, <1>5 DEF MappedInv

LEMMA ReconstructMapped == MappedInv /\ Reconstruct => MappedInv'
<1> SUFFICES ASSUME MappedInv, Reconstruct PROVE MappedInv'
  OBVIOUS
<1>1. PlaceTypes /\ pc = "reconstruct" /\ UNCHANGED <<pack, mapped>>
  BY DEF MappedInv, Reconstruct
<1>2. \A b \in batch : b.delta \in DOMAIN pack /\ b.parent \in 0..mapped
  BY <1>1 DEF MappedInv
<1>3. Len(pack) \in Nat /\ DOMAIN pack = 1..Len(pack) /\ mapped \in Nat /\ Len(pack) <= mapped
  BY <1>1, PackType DEF MappedInv, PlaceTypes
<1>4. \A b \in batch : b.delta <= mapped /\ b.parent <= mapped
  BY <1>2, <1>3
<1>5. PICK b \in batch :
        /\ size' = size + 1
        /\ place' = [place EXCEPT ![pack[b.delta].gives] = size + 1]
        /\ deltas' = deltas \ {b.delta}
        /\ batch' = batch \ {b}
        /\ pc' = IF batch' = {} THEN "refresh" ELSE pc
  BY <1>4 DEF Reconstruct
<1>6. pack[b.delta].gives \in Object /\ size \in Nat /\ place \in [Object -> Nat]
  BY <1>1, <1>2, PackType DEF PlaceTypes
<1>7. PlaceTypes'
  BY <1>1, <1>5, <1>6 DEF PlaceTypes
<1>8. ASSUME NEW o \in Object PROVE place'[o] <= size'
  <2>1. place[o] <= size /\ place[o] \in Nat
    BY <1>6 DEF MappedInv
  <2>2. place'[o] = IF o = pack[b.delta].gives THEN size + 1 ELSE place[o]
    BY <1>5, <1>6
  <2>3. QED BY <1>5, <1>6, <2>1, <2>2
<1>9. Len(pack) <= mapped' /\ mapped' <= size'
  BY <1>1, <1>3, <1>5, <1>6 DEF MappedInv
<1>10. pc' \in {"reconstruct", "refresh"} /\ batch' \subseteq batch
  BY <1>1, <1>5
<1>11. QED BY <1>1, <1>2, <1>7, <1>8, <1>9, <1>10 DEF MappedInv

LEMMA RefreshMapped == MappedInv /\ RefreshPackFile => MappedInv'
<1> SUFFICES ASSUME MappedInv, RefreshPackFile PROVE MappedInv'
  OBVIOUS
<1>1. UNCHANGED <<pack, place, deltas, size>> /\ mapped' = size /\ pc' = "list"
  BY DEF RefreshPackFile
<1>2. PlaceTypes /\ Len(pack) \in Nat
  BY PackType DEF MappedInv, PlaceTypes
<1>3. PlaceTypes'
  BY <1>1, <1>2 DEF PlaceTypes
<1>4. Len(pack) <= size
  BY <1>2 DEF MappedInv, PlaceTypes
<1>5. QED BY <1>1, <1>2, <1>3, <1>4 DEF MappedInv, PlaceTypes

\* What leaves the index alone may end a batch, and walks only after one.
LEMMA PlacesStay ==
    ASSUME MappedInv, UNCHANGED packVars,
           \/ pc' = pc
           \/ pc \in {"commit", "walk"} /\ pc' = "walk"
           \/ pc' \notin {"list", "reconstruct", "commit", "walk", "panic"}
    PROVE  MappedInv'
<1>1. UNCHANGED <<pack, place, deltas, size, mapped, batch>>
  BY DEF packVars
<1>2. PlaceTypes'
  BY <1>1 DEF MappedInv, PlaceTypes
<1>3. QED BY <1>1, <1>2 DEF MappedInv

LEMMA NextMapped == MappedInv /\ [Next]_vars => MappedInv'
<1> SUFFICES ASSUME MappedInv, [Next]_vars PROVE MappedInv'
  OBVIOUS
<1>1. CASE Extract
  <2>1. CASE OpenCommit \/ WalkItem \/ EndWalk
    BY <2>1, PlacesStay DEF OpenCommit, WalkItem, EndWalk
  <2>2. QED BY <1>1, <2>1, ListRefDeltasMapped, ReconstructMapped, RefreshMapped DEF Extract
<1>2. CASE Detect \/ Authenticate \/ Receive \/ Close \/ AwaitList \/ Fetch \/ Download \/ EndFetch
  BY <1>2, PlacesStay
     DEF Detect, Authenticate, Receive, Close, AwaitList, Fetch, Download, EndFetch, Goes
<1>3. CASE List \/ ListError \/ CloneError \/ UNCHANGED vars
  BY <1>3, PlacesStay DEF List, ListDirectory, SendFile, SendNone, ListError, CloneError,
     vars, extractVars
<1>4. QED BY <1>1, <1>2, <1>3 DEF Next, Clone

-----------------------------------------------------------------------------
(***************************************************************************)
(* Sequences as the sets of what is in them.                               *)
(***************************************************************************)

LEMMA ConcatRange ==
    ASSUME NEW S, NEW s \in Seq(S), NEW u \in Seq(S)
    PROVE  s \o u \in Seq(S) /\ Range(s \o u) = Range(s) \cup Range(u)
BY ConcatProperties, RangeConcatenation

LEMMA OneRange ==
    ASSUME NEW S, NEW x \in S
    PROVE  <<x>> \in Seq(S) /\ Range(<<x>>) = {x}
<1>1. <<x>> \in Seq(S) /\ Len(<<x>>) = 1 /\ <<x>>[1] = x
  OBVIOUS
<1>2. Range(<<x>>) = {<<x>>[i] : i \in 1..1}
  BY <1>1, RangeEquality
<1>3. QED BY <1>1, <1>2

LEMMA NoneRange == \A S : <<>> \in Seq(S) /\ Range(<<>>) = {}
BY DEF Range

LEMMA AppendRange ==
    ASSUME NEW S, NEW s \in Seq(S), NEW x \in S
    PROVE  Append(s, x) \in Seq(S) /\ Range(Append(s, x)) = Range(s) \cup {x}
<1> DEFINE u == <<x>>
<1>1. u \in Seq(S) /\ Range(u) = {x}
  BY OneRange
<1>2. Append(s, x) = s \o u
  BY AppendIsConcat
<1> HIDE DEF u
<1>3. QED BY <1>1, <1>2, ConcatRange

LEMMA AppendAt ==
    ASSUME NEW S, NEW s \in Seq(S), NEW x \in S
    PROVE  \E n \in Nat :
              /\ DOMAIN Append(s, x) = DOMAIN s \cup {n} /\ Append(s, x)[n] = x
              /\ \A i \in DOMAIN s : i \in Nat /\ i < n /\ Append(s, x)[i] = s[i]
<1> DEFINE a == Append(s, x)
           n == Len(s) + 1
<1>1. /\ a \in Seq(S) /\ Len(a) = Len(s) + 1
      /\ \A i \in 1..Len(s) : a[i] = s[i]
      /\ a[Len(s) + 1] = x
  BY AppendProperties
<1>2. Len(s) \in Nat /\ DOMAIN s = 1..Len(s)
  OBVIOUS
<1>3. DOMAIN a = 1..Len(s) + 1
  BY <1>1
<1> HIDE DEF a
<1>4. n \in Nat /\ DOMAIN a = DOMAIN s \cup {n} /\ a[n] = x
  BY <1>1, <1>2, <1>3
<1>5. \A i \in DOMAIN s : i \in Nat /\ i < n /\ a[i] = s[i]
  BY <1>1, <1>2
<1>6. QED BY <1>4, <1>5 DEF a

LEMMA PushRange ==
    ASSUME NEW S, NEW s \in Seq(S), NEW x \in S, NEW u \in Seq(S)
    PROVE  /\ Append(s, x) \o u \in Seq(S)
           /\ Range(Append(s, x) \o u) = Range(s) \cup {x} \cup Range(u)
<1> DEFINE a == Append(s, x)
<1>1. a \in Seq(S) /\ Range(a) = Range(s) \cup {x}
  BY AppendRange
<1> HIDE DEF a
<1>2. a \o u \in Seq(S) /\ Range(a \o u) = Range(a) \cup Range(u)
  BY <1>1, ConcatRange
<1>3. QED BY <1>1, <1>2 DEF a

\* A sequence without its first element, and without its last.
LEMMA HeadRange ==
    ASSUME NEW S, NEW s \in Seq(S), s # <<>>
    PROVE  /\ Head(s) \in S /\ Tail(s) \in Seq(S)
           /\ Range(s) = {Head(s)} \cup Range(Tail(s))
           /\ Len(s) \in Nat \ {0} /\ Len(Tail(s)) = Len(s) - 1
           /\ \A i \in DOMAIN Tail(s) : i + 1 \in DOMAIN s /\ Tail(s)[i] = s[i + 1]
<1> DEFINE n == Len(s)
           t == Tail(s)
<1>1. n \in Nat \ {0} /\ DOMAIN s = 1..n /\ Head(s) = s[1]
  BY EmptySeq
<1>2. /\ Head(s) \in S /\ t \in Seq(S) /\ Len(t) = n - 1
      /\ \A i \in 1..Len(t) : t[i] = s[i + 1]
  BY HeadTailProperties
<1>3. Range(t) = {t[i] : i \in 1..Len(t)} /\ Range(s) = {s[i] : i \in 1..n}
  BY <1>2, RangeEquality
<1> HIDE DEF n, t
<1>4. DOMAIN t = 1..n - 1 /\ Range(t) = {t[i] : i \in 1..n - 1}
  BY <1>2, <1>3
<1>5. ASSUME NEW i \in 1..n, i # 1
      PROVE  i - 1 \in 1..n - 1 /\ s[i] = t[i - 1]
  <2>1. i - 1 \in 1..n - 1 /\ (i - 1) + 1 = i
    BY <1>1, <1>5
  <2>2. t[i - 1] = s[(i - 1) + 1]
    BY <1>1, <1>2, <2>1
  <2>3. QED BY <2>1, <2>2
<1>6. 1 \in 1..n /\ \A i \in 1..n - 1 : i + 1 \in 1..n /\ t[i] = s[i + 1]
  BY <1>1, <1>2
<1>7. Range(s) = {Head(s)} \cup Range(t)
  <2>1. ASSUME NEW x \in Range(s) PROVE x = Head(s) \/ x \in Range(t)
    BY <1>1, <1>3, <1>4, <1>5
  <2>2. ASSUME NEW x \in Range(t) PROVE x \in Range(s)
    BY <1>3, <1>4, <1>6
  <2>3. Head(s) \in Range(s)
    BY <1>1, <1>3, <1>6
  <2>4. QED BY <2>1, <2>2, <2>3
<1>8. QED BY <1>1, <1>2, <1>4, <1>6, <1>7 DEF n, t

LEMMA LastRange ==
    ASSUME NEW S, NEW s \in Seq(S), s # <<>>
    PROVE  /\ s[Len(s)] \in S /\ SubSeq(s, 1, Len(s) - 1) \in Seq(S)
           /\ Range(s) = {s[Len(s)]} \cup Range(SubSeq(s, 1, Len(s) - 1))
<1> DEFINE n == Len(s)
           b == SubSeq(s, 1, n - 1)
<1>1. n \in Nat \ {0} /\ DOMAIN s = 1..n /\ s[n] \in S
  BY EmptySeq
<1>2. b \in Seq(S) /\ Len(b) = n - 1 /\ \A i \in 1..n - 1 : b[i] = s[i]
  BY <1>1
<1>3. Range(b) = {b[i] : i \in 1..n - 1} /\ Range(s) = {s[i] : i \in 1..n}
  BY <1>2, RangeEquality
<1> HIDE DEF n, b
<1>4. \A i \in 1..n : i = n \/ i \in 1..n - 1
  BY <1>1
<1>5. n \in 1..n /\ \A i \in 1..n - 1 : i \in 1..n
  BY <1>1
<1>6. Range(s) = {s[n]} \cup Range(b)
  <2>1. ASSUME NEW x \in Range(s) PROVE x = s[n] \/ x \in Range(b)
    BY <1>2, <1>3, <1>4
  <2>2. ASSUME NEW x \in Range(b) PROVE x \in Range(s)
    BY <1>2, <1>3, <1>5
  <2>3. s[n] \in Range(s)
    BY <1>3, <1>5
  <2>4. QED BY <2>1, <2>2, <2>3
<1>7. QED BY <1>1, <1>2, <1>6 DEF n, b

-----------------------------------------------------------------------------
(***************************************************************************)
(* Directories and their items.                                            *)
(***************************************************************************)

LEMMA TreeFacts ==
    ASSUME NEW t \in DOMAIN Items
    PROVE  /\ Items[t] \in Seq(Range(Items[t]))
           /\ \A m \in Range(Items[t]) :
                /\ m.kind \in {"blob", "link", "tree", "submodule"}
                /\ m.name \in STRING /\ m.object \in Object
                /\ m.kind = "tree" => m.object \in DOMAIN Items
           /\ \A m, n \in Range(Items[t]) : m.name = n.name => m = n
<1> DEFINE I == [kind : {"blob", "link", "tree", "submodule"}, name : STRING, object : Object]
<1>1. Items[t] \in Seq(I)
  BY ItemsAssumption
<1>2. \A m \in I : /\ m.kind \in {"blob", "link", "tree", "submodule"}
                   /\ m.name \in STRING /\ m.object \in Object
  OBVIOUS
<1> HIDE DEF I
<1>3. Items[t] \in Seq(Range(Items[t])) /\ Range(Items[t]) \subseteq I
  BY <1>1, RangeOfSeq, SeqOfRange
<1>4. \A m \in Range(Items[t]) : m.kind = "tree" => m.object \in DOMAIN Items
  BY ItemsAssumption DEF Range
<1>5. ASSUME NEW m \in Range(Items[t]), NEW n \in Range(Items[t]), m.name = n.name PROVE m = n
  <2>1. PICK i \in DOMAIN Items[t] : m = Items[t][i]
    BY DEF Range
  <2>2. PICK j \in DOMAIN Items[t] : n = Items[t][j]
    BY DEF Range
  <2>3. i = j
    BY <1>5, <2>1, <2>2, ItemsAssumption
  <2>4. QED BY <2>1, <2>2, <2>3
<1>6. QED BY <1>2, <1>3, <1>4, <1>5

LEMMA DirFacts ==
    ASSUME DirInv, NEW d \in dirs
    PROVE  /\ d.path \in Seq(STRING) /\ d.tree \in DOMAIN Items /\ d.tree \in Object
           /\ d = [path |-> d.path, tree |-> d.tree]
           /\ Items[d.tree] \in Seq(ItemsOf(d))
           /\ \A m \in ItemsOf(d) :
                /\ m.kind \in {"blob", "link", "tree", "submodule"}
                /\ m.name \in STRING /\ m.object \in Object
                /\ m.kind = "tree" => m.object \in DOMAIN Items
                /\ Append(d.path, m.name) \in Seq(STRING)
           /\ \A m, n \in ItemsOf(d) : m.name = n.name => m = n
<1>1. d \in [path : Seq(STRING), tree : DOMAIN Items]
  BY DEF DirInv
<1>2. d.path \in Seq(STRING) /\ d.tree \in DOMAIN Items /\ d = [path |-> d.path, tree |-> d.tree]
  BY <1>1
<1>3. \A m \in ItemsOf(d) : m.name \in STRING => Append(d.path, m.name) \in Seq(STRING)
  BY <1>2, AppendProperties
<1>4. QED BY <1>2, <1>3, TreeFacts, ItemsAssumption DEF ItemsOf

LEMMA AppendSame ==
    ASSUME NEW S, NEW s \in Seq(S), NEW u \in Seq(S), NEW x \in S, NEW y \in S,
           Append(s, x) = Append(u, y)
    PROVE  s = u /\ x = y
<1>1. Append(s, x) = Append(u, y) <=> s = u /\ x = y
  BY AppendInjective
<1>2. QED BY <1>1

ItemAt(d, m) == [kind |-> m.kind, object |-> m.object, path |-> Append(d.path, m.name)]

LEMMA CheckoutIs ==
    \A c : c \in Checkout <=> \E d \in dirs : \E m \in ItemsOf(d) : c = ItemAt(d, m)
BY DEF Checkout, ItemAt

LEMMA BlobsAre ==
    \A c : c \in Blobs <=> \E d \in dirs : \E m \in ItemsOf(d) : m.kind = "blob" /\ c = ItemAt(d, m)
BY CheckoutIs DEF Blobs, ItemAt

\* Where the items of two directories have one path, the directories and the
\* items are the same.
LEMMA SameItem ==
    ASSUME DirInv, NEW d \in dirs, NEW m \in ItemsOf(d), NEW e \in dirs, NEW n \in ItemsOf(e),
           Append(d.path, m.name) = Append(e.path, n.name)
    PROVE  d = e /\ m = n
<1>1. d.path = e.path /\ m.name = n.name
  <2>1. /\ d.path \in Seq(STRING) /\ m.name \in STRING
        /\ e.path \in Seq(STRING) /\ n.name \in STRING
    BY DirFacts
  <2>2. QED BY <2>1, AppendSame
<1>2. d = e
  BY <1>1 DEF DirInv
<1>3. QED BY <1>1, <1>2, DirFacts

LEMMA PathsDiffer ==
    ASSUME DirInv, NEW b \in Checkout, NEW c \in Checkout, b.path = c.path
    PROVE  b = c
<1>1. ASSUME NEW d \in dirs, NEW m \in ItemsOf(d), b = ItemAt(d, m),
             NEW e \in dirs, NEW n \in ItemsOf(e), c = ItemAt(e, n)
      PROVE  b = c
  <2>1. Append(d.path, m.name) = Append(e.path, n.name)
    BY <1>1 DEF ItemAt
  <2>2. QED BY <1>1, <2>1, SameItem
<1>2. QED BY <1>1, CheckoutIs

LEMMA BlobsDiffer ==
    ASSUME DirInv, NEW b \in Blobs, NEW c \in Blobs, b.path = c.path
    PROVE  b = c
BY PathsDiffer DEF Blobs

\* What the directories and the files stand for, while none is made.
LEMMA TreeStays ==
    ASSUME DirInv, StackInv, UNCHANGED <<place, root, stack, dirs>>, DOMAIN files' = DOMAIN files
    PROVE  /\ DirInv' /\ StackInv'
           /\ Checkout' = Checkout /\ Blobs' = Blobs
           /\ Attributed' = Attributed /\ Tracked' = Tracked
           /\ \A p : Matched(p)' = Matched(p)
<1>1. \A d, m : Walked(d, m)' = Walked(d, m) /\ Left(d, m)' = Left(d, m)
  BY DEF Walked, Left
<1>2. \A p : Matched(p)' = Matched(p)
  BY DEF Matched
<1>3. Attributed' = Attributed /\ Checkout' = Checkout
  BY DEF Attributed, Checkout
<1>4. Tracked' = Tracked /\ Blobs' = Blobs
  BY <1>2, <1>3 DEF Tracked, Blobs
<1>5. DirInv'
  BY DEF DirInv
<1>6. StackInv'
  BY <1>1 DEF StackInv
<1>7. QED BY <1>2, <1>3, <1>4, <1>5, <1>6

-----------------------------------------------------------------------------
(***************************************************************************)
(* The walk.                                                               *)
(***************************************************************************)

\* Before the walk there is nothing to walk.
LEMMA NoTree ==
    ASSUME dirs = {}, stack = <<>>
    PROVE  DirInv /\ StackInv /\ Checkout = {} /\ Blobs = {} /\ Attributed = {} /\ Tracked = {}
BY NoneRange DEF DirInv, StackInv, Checkout, Blobs, Attributed, Tracked

\* What is on top of the stack belongs to a directory, and what is below it
\* stays.
LEMMA TopFacts ==
    ASSUME DirInv, StackInv, stack # <<>>
    PROVE  /\ Range(stack) = {Top} \cup Range(Below)
           /\ \E d \in dirs : Belongs(Top, d)
           /\ \A S : stack \in Seq(S) => Below \in Seq(S) /\ Top \in S
           /\ Top = [items |-> Top.items, path |-> Top.path]
<1> DEFINE A == [items : Seq(UNION {ItemsOf(d) : d \in dirs}), path : Seq(STRING)]
<1>1. stack \in Seq(A) /\ \A t \in A : t = [items |-> t.items, path |-> t.path]
  BY DEF StackInv
<1> HIDE DEF A
<1>2. Range(stack) = {Top} \cup Range(Below) /\ Top \in A
  BY <1>1, LastRange DEF Top, Below
<1>3. \A S : stack \in Seq(S) => Below \in Seq(S) /\ Top \in S
  BY LastRange DEF Top, Below
<1>4. QED BY <1>1, <1>2, <1>3 DEF StackInv

\* What is left of a tree without its first item, and what goes on the stack
\* for a directory.
Rest(t) == [t EXCEPT !.items = Tail(@)]
Whole(d) == [items |-> Items[d.tree], path |-> d.path]

\* The step takes the first item of the tree on top.
LEMMA WalkTakes ==
    ASSUME DirInv, StackInv, MappedInv, WalkItem, pc' # "failed"
    PROVE  \E d \in dirs : \E m \in ItemsOf(d) :
              /\ Belongs(Top, d) /\ Top.items # <<>> /\ m = Head(Top.items)
              /\ m.kind \in {"blob", "link", "tree"} /\ place[m.object] # 0
              /\ \/ /\ m.kind = "blob"
                    /\ files' = With(Append(d.path, m.name), m.object)
                    /\ stack' = Below \o LeftOver(Rest(Top))
                    /\ UNCHANGED dirs
                 \/ /\ m.kind = "link"
                    /\ stack' = Below \o LeftOver(Rest(Top))
                    /\ UNCHANGED <<dirs, files>>
                 \/ /\ m.kind = "tree"
                    /\ dirs' = dirs \cup {DirOf(d, m)}
                    /\ stack' = Append(Below, Whole(DirOf(d, m))) \o LeftOver(Rest(Top))
                    /\ UNCHANGED files
<1>1. stack # <<>> /\ pc = "walk"
  BY DEF WalkItem
<1>2. PICK d \in dirs : Belongs(Top, d)
  BY <1>1, TopFacts
<1> DEFINE m == Head(Top.items)
<1>3. /\ Top.items # <<>> /\ m.kind # "submodule" /\ Found(m.object)
      /\ Top.path = d.path /\ Top.items \in Seq(ItemsOf(d))
  BY <1>2 DEF WalkItem, Belongs
<1>4. m \in ItemsOf(d)
  BY <1>3, HeadRange
<1>5. m.kind \in {"blob", "link", "tree"} /\ place[m.object] # 0
  BY <1>3, <1>4, DirFacts DEF Found
<1>6. \/ /\ m.kind = "blob"
         /\ files' = With(Append(d.path, m.name), m.object)
         /\ stack' = Below \o LeftOver(Rest(Top))
         /\ UNCHANGED dirs
      \/ /\ m.kind = "link"
         /\ stack' = Below \o LeftOver(Rest(Top))
         /\ UNCHANGED <<dirs, files>>
      \/ /\ m.kind = "tree"
         /\ dirs' = dirs \cup {DirOf(d, m)}
         /\ stack' = Append(Below, Whole(DirOf(d, m))) \o LeftOver(Rest(Top))
         /\ UNCHANGED files
  BY <1>3 DEF WalkItem, DirOf, Rest, Whole
<1>7. QED BY <1>2, <1>3, <1>4, <1>5, <1>6

\* What is left of a tree without its first item.
LEMMA LeftFacts ==
    ASSUME DirInv, NEW t, t = [items |-> t.items, path |-> t.path],
           NEW d \in dirs, Belongs(t, d), t.items # <<>>,
           NEW u, u = Rest(t)
    PROVE  /\ u = [items |-> Tail(t.items), path |-> d.path]
           /\ u.items \in Seq(ItemsOf(d)) /\ u.path = d.path
           /\ Head(t.items) \in ItemsOf(d)
           /\ Range(t.items) = {Head(t.items)} \cup Range(u.items)
           /\ \A S : u \in S => LeftOver(u) \in Seq(S)
           /\ Range(LeftOver(u)) = IF u.items = <<>> THEN {} ELSE {u}
<1>1. t.items \in Seq(ItemsOf(d)) /\ t.path = d.path
  BY DEF Belongs
<1>2. u = [items |-> Tail(t.items), path |-> t.path]
  BY DEF Rest
<1>3. u.items = Tail(t.items) /\ u.path = t.path
  BY <1>2
<1>4. /\ u.items \in Seq(ItemsOf(d)) /\ Head(t.items) \in ItemsOf(d)
      /\ Range(t.items) = {Head(t.items)} \cup Range(u.items)
  BY <1>1, <1>3, HeadRange
<1>5. \A S : u \in S => LeftOver(u) \in Seq(S)
  BY OneRange, NoneRange DEF LeftOver
<1>6. Range(LeftOver(u)) = IF u.items = <<>> THEN {} ELSE {u}
  <2>1. Range(<<u>>) = {u}
    BY OneRange
  <2>2. QED BY <2>1, NoneRange DEF LeftOver
<1>7. QED BY <1>1, <1>2, <1>3, <1>4, <1>5, <1>6

\* The first item of the tree on top is taken; new entries are put on the
\* stack for new directories.
LEMMA StackAfter ==
    ASSUME DirInv, StackInv, stack # <<>>,
           NEW top, top = Top, NEW d \in dirs, Belongs(top, d), top.items # <<>>,
           NEW u, u = Rest(top),
           NEW New,
           Range(stack') = Range(Below) \cup New \cup Range(LeftOver(u)),
           stack' \in Seq([items : Seq(UNION {ItemsOf(e) : e \in dirs'}), path : Seq(STRING)]),
           dirs \subseteq dirs', UNCHANGED place, DOMAIN files \subseteq DOMAIN files',
           Walked(d, Head(top.items))',
           \A t \in New : \E e \in dirs' : Belongs(t, e),
           \A e \in dirs' \ dirs : \E t \in New : t.path = e.path /\ t.items = Items[e.tree]
    PROVE  StackInv'
<1> DEFINE m == Head(top.items)
<1>1. /\ Range(stack) = {top} \cup Range(Below)
      /\ top = [items |-> top.items, path |-> top.path]
  BY TopFacts
<1>2. /\ u.items \in Seq(ItemsOf(d)) /\ u.path = d.path
      /\ Range(top.items) = {m} \cup Range(u.items)
      /\ Range(LeftOver(u)) = IF u.items = <<>> THEN {} ELSE {u}
  <2>1. top = [items |-> top.items, path |-> top.path]
    BY <1>1
  <2>2. u.items = Tail(top.items) /\ u.path = top.path
    BY <2>1 DEF Rest
  <2>3. top.items \in Seq(ItemsOf(d)) /\ top.path = d.path
    BY DEF Belongs
  <2>4. /\ Tail(top.items) \in Seq(ItemsOf(d))
        /\ Range(top.items) = {Head(top.items)} \cup Range(Tail(top.items))
    BY <2>3, HeadRange
  <2>5. Range(LeftOver(u)) = IF u.items = <<>> THEN {} ELSE {u}
    BY <2>1, LeftFacts
  <2>6. QED BY <2>2, <2>3, <2>4, <2>5
<1>3. top.path = d.path
  BY DEF Belongs
<1>4. ASSUME NEW t \in Range(stack') PROVE \E e \in dirs' : Belongs(t, e)
  <2>1. CASE t \in Range(Below)
    BY <1>1, <2>1 DEF StackInv
  <2>2. CASE t \in New
    BY <2>2
  <2>3. CASE t = u /\ u.items # <<>>
    BY <1>2, <2>3 DEF Belongs
  <2>4. QED BY <1>2, <1>4, <2>1, <2>2, <2>3
<1>5. ASSUME NEW e \in dirs', Items[e.tree] = <<>>
      PROVE  \E t \in Range(stack') : t.items = <<>>
  <2>1. CASE e \in dirs
    BY <1>1, <1>5, <2>1 DEF StackInv
  <2>2. CASE e \notin dirs
    BY <1>5, <2>2
  <2>3. QED BY <2>1, <2>2
<1>6. ASSUME NEW e \in dirs', NEW n \in ItemsOf(e)
      PROVE  Walked(e, n)' \/ Left(e, n)'
  <2>1. CASE e \notin dirs
    <3>1. PICK t \in New : t.path = e.path /\ t.items = Items[e.tree]
      BY <2>1
    <3>2. n \in Range(t.items)
      BY <1>6, <3>1 DEF ItemsOf
    <3>3. QED BY <3>1, <3>2 DEF Left
  <2>2. CASE e \in dirs /\ Walked(e, n)
    BY <2>2 DEF Walked
  <2>3. CASE e \in dirs /\ Left(e, n)
    <3>1. PICK t \in Range(stack) : t.path = e.path /\ n \in Range(t.items)
      BY <2>3 DEF Left
    <3>2. CASE t \in Range(Below)
      BY <3>1, <3>2 DEF Left
    <3>3. CASE t = top
      <4>1. e = d
        BY <1>3, <2>3, <3>1, <3>3 DEF DirInv
      <4>2. CASE n = m
        BY <4>1, <4>2
      <4>3. CASE n \in Range(u.items)
        <5>1. u.items # <<>>
          BY <4>3, NoneRange
        <5>2. u \in Range(stack')
          BY <1>2, <5>1
        <5>3. QED BY <1>2, <4>1, <4>3, <5>2 DEF Left
      <4>4. QED BY <1>2, <3>1, <3>3, <4>2, <4>3
    <3>4. QED BY <1>1, <3>1, <3>2, <3>3
  <2>4. QED BY <1>6, <2>1, <2>2, <2>3 DEF StackInv
<1>7. QED
  <2>1. \A e : ItemsOf(e)' = ItemsOf(e)
    BY DEF ItemsOf
  <2>2. \A t, e : Belongs(t, e)' = Belongs(t, e)
    BY DEF Belongs
  <2>3. QED BY <1>4, <1>5, <1>6, <2>1, <2>2 DEF StackInv

Entry(D) == [items : Seq(UNION {ItemsOf(e) : e \in D}), path : Seq(STRING)]

LEMMA EntryGrows ==
    ASSUME NEW D, NEW E, D \subseteq E
    PROVE  Entry(D) \subseteq Entry(E) /\ Seq(Entry(D)) \subseteq Seq(Entry(E))
<1> DEFINE X == UNION {ItemsOf(e) : e \in D}
           Y == UNION {ItemsOf(e) : e \in E}
<1>1. X \subseteq Y
  OBVIOUS
<1> HIDE DEF X, Y
<1>2. Seq(X) \subseteq Seq(Y)
  BY <1>1, SeqMonotonic
<1>3. [items : Seq(X), path : Seq(STRING)] \subseteq [items : Seq(Y), path : Seq(STRING)]
  BY <1>2
<1>4. Entry(D) \subseteq Entry(E)
  BY <1>3 DEF Entry, X, Y
<1>5. QED BY <1>4, SeqMonotonic

LEMMA EntryOf ==
    ASSUME NEW D, NEW d \in D, NEW s \in Seq(ItemsOf(d)), NEW p \in Seq(STRING)
    PROVE  [items |-> s, path |-> p] \in Entry(D)
<1> DEFINE X == UNION {ItemsOf(e) : e \in D}
<1>1. ItemsOf(d) \subseteq X
  OBVIOUS
<1> HIDE DEF X
<1>2. s \in Seq(X)
  BY <1>1, SeqMonotonic
<1>3. QED BY <1>2 DEF Entry, X

\* A blob is written to its file, or a link is not made.
LEMMA WalkFile ==
    ASSUME DirInv, StackInv, FileInv, lister = "none", UNCHANGED <<place, root, dirs, lister>>,
           stack # <<>>, NEW top, top = Top, NEW d \in dirs, NEW m \in ItemsOf(d),
           Belongs(top, d), top.items # <<>>, m = Head(top.items), place[m.object] # 0,
           NEW u, u = Rest(top), stack' = Below \o LeftOver(u),
           \/ m.kind = "blob" /\ files' = With(Append(d.path, m.name), m.object)
           \/ m.kind = "link" /\ files' = files
    PROVE  DirInv' /\ StackInv' /\ FileInv'
<1>1. /\ stack \in Seq(Entry(dirs)) /\ Below \in Seq(Entry(dirs))
      /\ top = [items |-> top.items, path |-> top.path]
  BY TopFacts DEF StackInv, Entry
<1>2. u \in Entry(dirs) /\ LeftOver(u) \in Seq(Entry(dirs))
  <2>1. u = [items |-> Tail(top.items), path |-> top.path]
    BY <1>1 DEF Rest
  <2>2. Tail(top.items) \in Seq(ItemsOf(d)) /\ top.path \in Seq(STRING)
    BY HeadRange, DirFacts DEF Belongs
  <2>3. u \in Entry(dirs)
    BY <2>1, <2>2, EntryOf
  <2>4. QED BY <1>1, <2>3, LeftFacts
<1>3. stack' \in Seq(Entry(dirs)) /\ Range(stack') = Range(Below) \cup Range(LeftOver(u))
  BY <1>1, <1>2, ConcatRange
<1>4. DOMAIN files \subseteq DOMAIN files'
  BY DEF With
<1>5. Walked(d, m)'
  BY DEF Walked, With
<1>6. StackInv'
  <2> DEFINE New == {}
  <2>1. /\ Range(stack') = Range(Below) \cup New \cup Range(LeftOver(u))
        /\ \A t \in New : \E e \in dirs' : Belongs(t, e)
        /\ \A e \in dirs' \ dirs : \E t \in New : t.path = e.path /\ t.items = Items[e.tree]
    BY <1>3
  <2> HIDE DEF New
  <2>2. stack' \in Seq([items : Seq(UNION {ItemsOf(e) : e \in dirs'}), path : Seq(STRING)])
    BY <1>3 DEF Entry
  <2>3. Walked(d, Head(top.items))'
    BY <1>5
  <2>4. QED BY <1>4, <2>1, <2>2, <2>3, StackAfter
<1>7. DirInv'
  BY DEF DirInv
<1>8. Checkout' = Checkout /\ Blobs' = Blobs
  BY DEF Checkout, Blobs
<1>9. CASE files' = files
  <2>1. \A c \in Blobs : c.path \in DOMAIN files => files[c.path] = c.object
    BY DEF FileInv
  <2>2. \A c \in Blobs' : c.path \in DOMAIN files' => files'[c.path] = c.object
    BY <1>8, <1>9, <2>1
  <2>3. \A f \in DOMAIN files' : \E c \in Blobs' : c.path = f
    BY <1>8, <1>9 DEF FileInv
  <2>4. QED BY <1>6, <1>7, <2>2, <2>3 DEF FileInv
<1>10. CASE m.kind = "blob" /\ files' = With(Append(d.path, m.name), m.object)
  <2> DEFINE p == Append(d.path, m.name)
             b == ItemAt(d, m)
  <2>1. b \in Blobs /\ b.path = p /\ b.object = m.object
    BY <1>10, BlobsAre DEF ItemAt
  <2>2. DOMAIN files' = DOMAIN files \cup {p} /\ files'[p] = m.object
        /\ \A f \in DOMAIN files : f # p => files'[f] = files[f]
    BY <1>10 DEF With
  <2> HIDE DEF p, b
  <2>3. \A f \in DOMAIN files' : \E c \in Blobs : c.path = f
    BY <2>1, <2>2 DEF FileInv
  <2>4. ASSUME NEW c \in Blobs, c.path \in DOMAIN files' PROVE files'[c.path] = c.object
    <3>1. CASE c.path = p
      BY <2>1, <2>2, <3>1, BlobsDiffer
    <3>2. CASE c.path # p
      BY <2>2, <2>4, <3>2 DEF FileInv
    <3>3. QED BY <3>1, <3>2
  <2>5. \A c \in Blobs' : c.path \in DOMAIN files' => files'[c.path] = c.object
    BY <1>8, <2>4
  <2>6. \A f \in DOMAIN files' : \E c \in Blobs' : c.path = f
    BY <1>8, <2>3
  <2>7. QED BY <1>6, <1>7, <2>5, <2>6 DEF FileInv
<1>11. QED BY <1>6, <1>7, <1>9, <1>10

\* A path stands for one item.
LEMMA SameParent ==
    ASSUME DirInv, NEW p \in Seq(STRING), NEW n \in STRING, NEW e \in dirs, NEW k \in ItemsOf(e),
           Append(p, n) = Append(e.path, k.name)
    PROVE  p = e.path
<1>1. e.path \in Seq(STRING) /\ k.name \in STRING
  BY DirFacts
<1>2. QED BY <1>1, AppendSame

LEMMA SameDir ==
    ASSUME DirInv, NEW d \in dirs, NEW m \in ItemsOf(d), NEW e \in dirs,
           e.path = Append(d.path, m.name)
    PROVE  e = DirOf(d, m)
<1>1. e.path # <<>>
  <2>1. d.path \in Seq(STRING) /\ m.name \in STRING
    BY DirFacts
  <2>2. Append(d.path, m.name) # <<>>
    BY <2>1, AppendProperties
  <2>3. QED BY <2>2
<1>2. PICK f \in dirs : \E n \in ItemsOf(f) : n.kind = "tree" /\ e = DirOf(f, n)
  BY <1>1 DEF DirInv
<1>3. PICK n \in ItemsOf(f) : n.kind = "tree" /\ e = DirOf(f, n)
  BY <1>2
<1>4. Append(f.path, n.name) = Append(d.path, m.name)
  BY <1>3 DEF DirOf
<1>5. f = d /\ n = m
  BY <1>4, SameItem
<1>6. QED BY <1>3, <1>5

\* A directory is made, or is there already as it is to be.
LEMMA WalkTree ==
    ASSUME DirInv, StackInv, FileInv, lister = "none", UNCHANGED <<place, root, files, lister>>,
           stack # <<>>, NEW top, top = Top, NEW d \in dirs, NEW m \in ItemsOf(d),
           Belongs(top, d), top.items # <<>>, m = Head(top.items), place[m.object] # 0,
           m.kind = "tree", dirs' = dirs \cup {DirOf(d, m)},
           NEW new, new = Whole(DirOf(d, m)),
           NEW u, u = Rest(top), stack' = Append(Below, new) \o LeftOver(u)
    PROVE  DirInv' /\ StackInv' /\ FileInv'
<1> DEFINE D == DirOf(d, m)
<1>1. /\ D = [path |-> Append(d.path, m.name), tree |-> m.object]
      /\ D.path = Append(d.path, m.name) /\ D.tree = m.object
      /\ D \in [path : Seq(STRING), tree : DOMAIN Items]
  BY DirFacts DEF DirOf
<1>2. /\ new.items = Items[D.tree] /\ new.path = D.path /\ ItemsOf(D) = Range(new.items)
      /\ new = [items |-> new.items, path |-> D.path]
  BY <1>1 DEF ItemsOf, Whole
<1>3. new.items \in Seq(ItemsOf(D))
  BY <1>1, <1>2, TreeFacts DEF ItemsOf
<1>4. /\ stack \in Seq(Entry(dirs)) /\ Below \in Seq(Entry(dirs))
      /\ top = [items |-> top.items, path |-> top.path]
  BY TopFacts DEF StackInv, Entry
<1>5. Below \in Seq(Entry(dirs')) /\ Entry(dirs) \subseteq Entry(dirs')
  BY <1>4, EntryGrows
<1>6. new \in Entry(dirs')
  <2>1. D \in dirs' /\ D.path \in Seq(STRING)
    BY <1>1
  <2>2. [items |-> new.items, path |-> D.path] \in Entry(dirs')
    BY <1>3, <2>1, EntryOf
  <2>3. QED BY <1>2, <2>2
<1>7. LeftOver(u) \in Seq(Entry(dirs'))
  <2>1. u = [items |-> Tail(top.items), path |-> top.path]
    BY <1>4 DEF Rest
  <2>2. Tail(top.items) \in Seq(ItemsOf(d)) /\ top.path \in Seq(STRING)
    BY HeadRange, DirFacts DEF Belongs
  <2>3. u \in Entry(dirs)
    BY <2>1, <2>2, EntryOf
  <2>4. QED BY <1>4, <1>5, <2>3, LeftFacts
<1> HIDE DEF D
<1>8. /\ stack' \in Seq(Entry(dirs'))
      /\ Range(stack') = Range(Below) \cup {new} \cup Range(LeftOver(u))
  <2>1. Below \in Seq(Entry(dirs')) /\ new \in Entry(dirs') /\ LeftOver(u) \in Seq(Entry(dirs'))
    BY <1>5, <1>6, <1>7
  <2>2. PICK S : S = Entry(dirs')
    OBVIOUS
  <2>3. PICK b : b = Below
    OBVIOUS
  <2>4. PICK r : r = LeftOver(u)
    OBVIOUS
  <2>5. b \in Seq(S) /\ new \in S /\ r \in Seq(S)
    BY <2>1, <2>2, <2>3, <2>4
  <2>6. /\ Append(b, new) \o r \in Seq(S)
        /\ Range(Append(b, new) \o r) = Range(b) \cup {new} \cup Range(r)
    BY <2>5, PushRange
  <2>7. QED BY <2>2, <2>3, <2>4, <2>6
<1>9. ASSUME NEW e \in dirs, e.path = D.path PROVE e = D
  BY <1>1, <1>9, SameDir DEF D
<1>10. dirs' = dirs \cup {D}
  BY DEF D
<1>11. DirInv'
  <2>1. ASSUME NEW e \in dirs'
        PROVE  /\ e \in [path : Seq(STRING), tree : DOMAIN Items]
               /\ \/ e = [path |-> <<>>, tree |-> root]
                  \/ \E f \in dirs' : \E n \in ItemsOf(f) : n.kind = "tree" /\ e = DirOf(f, n)
    <3>1. CASE e \in dirs
      BY <1>10, <3>1 DEF DirInv
    <3>2. CASE e = D
      BY <1>1, <1>10, <3>2 DEF D
    <3>3. QED BY <1>10, <2>1, <3>1, <3>2
  <2>2. \A e, f \in dirs' : e.path = f.path => e = f
    BY <1>9, <1>10 DEF DirInv
  <2>3. QED BY <2>1, <2>2 DEF DirInv, ItemsOf, DirOf
<1>12. Walked(d, m)'
  BY DEF Walked, DirOf
<1>13. StackInv'
  <2> DEFINE New == {new}
  <2>1. Belongs(new, D)
    BY <1>2, <1>3 DEF Belongs
  <2>2. /\ Range(stack') = Range(Below) \cup New \cup Range(LeftOver(u))
        /\ \A t \in New : \E e \in dirs' : Belongs(t, e)
        /\ \A e \in dirs' \ dirs : \E t \in New : t.path = e.path /\ t.items = Items[e.tree]
    BY <1>2, <1>8, <1>10, <2>1
  <2> HIDE DEF New
  <2>3. stack' \in Seq([items : Seq(UNION {ItemsOf(e) : e \in dirs'}), path : Seq(STRING)])
    BY <1>8 DEF Entry
  <2>4. Walked(d, Head(top.items))'
    BY <1>12
  <2>5. dirs \subseteq dirs'
    BY <1>10
  <2>6. QED BY <2>2, <2>3, <2>4, <2>5, StackAfter
<1>14. FileInv'
  <2>1. \A c : c \in Blobs => c \in Blobs'
    BY <1>10 DEF Blobs, Checkout, ItemsOf
  <2>2. ASSUME NEW c \in Blobs', c.path \in DOMAIN files PROVE files[c.path] = c.object
    <3>1. PICK b \in Blobs : b.path = c.path
      BY <2>2 DEF FileInv
    <3>2. PICK f \in dirs : \E k \in ItemsOf(f) : b = ItemAt(f, k)
      BY BlobsAre
    <3>3. PICK k \in ItemsOf(f) : b = ItemAt(f, k)
      BY <3>2
    <3>4. PICK e \in dirs' : \E n \in ItemsOf(e) : n.kind = "blob" /\ c = ItemAt(e, n)
      BY DEF Blobs, Checkout, ItemsOf, ItemAt
    <3>5. PICK n \in ItemsOf(e) : n.kind = "blob" /\ c = ItemAt(e, n)
      BY <3>4
    <3>6. e \in dirs
      <4>1. CASE e = D
        <5>1. Append(D.path, n.name) = Append(f.path, k.name)
          BY <3>1, <3>3, <3>5, <4>1 DEF ItemAt
        <5>2. D.path \in Seq(STRING) /\ f.path \in Seq(STRING) /\ k.name \in STRING
          BY <1>1, DirFacts
        <5>3. n.name \in STRING
          BY <1>1, <3>5, <4>1, TreeFacts DEF ItemsOf
        <5>4. D.path = f.path
          BY <5>1, <5>2, <5>3, SameParent
        <5>5. QED BY <1>9, <4>1, <5>4
      <4>2. QED BY <1>10, <4>1
    <3>7. c \in Blobs
      BY <3>5, <3>6, BlobsAre
    <3>8. QED BY <2>2, <3>7 DEF FileInv
  <2>3. \A f \in DOMAIN files : \E c \in Blobs' : c.path = f
    BY <2>1 DEF FileInv
  <2>4. QED BY <2>2, <2>3 DEF FileInv
<1>15. QED BY <1>11, <1>13, <1>14

-----------------------------------------------------------------------------
(***************************************************************************)
(* CloneInv up to the end of the walk.                                     *)
(***************************************************************************)

\* No directory yet, and no task yet.
LEMMA NoTreeYet ==
    ASSUME dirs' = {}, stack' = <<>>, files' = <<>>
    PROVE  DirInv' /\ StackInv' /\ FileInv'
<1>1. Range(stack') = {} /\ \A S : stack' \in Seq(S)
  BY NoneRange
<1>2. Blobs' = {}
  BY DEF Blobs, Checkout
<1>3. DirInv'
  BY DEF DirInv
<1>4. StackInv'
  BY <1>1 DEF StackInv
<1>5. FileInv'
  BY <1>2 DEF FileInv
<1>6. QED BY <1>3, <1>4, <1>5

LEMMA NoTaskYet ==
    ASSUME attrs' = {}, found' = {}, channel' = <<>>, buffer' = <<>>, todo' = {}, lister' = "none",
           \/ pc' \in Extracting \cup {"failed", "error"}
           \/ pc' = "done" /\ Attributed' = {}
    PROVE  ListInv' /\ HandledInv' /\ OnceInv'
<1>1. /\ Range(channel') = {} /\ Range(buffer') = {} /\ DOMAIN channel' = {}
      /\ \A S : channel' \in Seq(S) /\ buffer' \in Seq(S)
  BY NoneRange
<1>2. ListInv'
  BY <1>1 DEF ListInv, Extracting, Indexing
<1>3. HandledInv'
  BY DEF HandledInv
<1>4. OnceInv'
  BY <1>1 DEF OnceInv
<1>5. QED BY <1>2, <1>3, <1>4

LEMMA InitClone == Init => CloneInv
<1> SUFFICES ASSUME Init PROVE CloneInv
  OBVIOUS
<1>1. /\ dirs = {} /\ stack = <<>> /\ files = <<>> /\ pc = "list" /\ lister = "none"
      /\ attrs = {} /\ found = {} /\ channel = <<>> /\ buffer = <<>> /\ todo = {}
  BY DEF Init, ExtractInit
<1>2. MappedInv
  BY InitMapped
<1>3. DirInv /\ StackInv /\ Blobs = {}
  BY <1>1, NoTree
<1>4. Range(channel) = {} /\ Range(buffer) = {} /\ \A S : channel \in Seq(S) /\ buffer \in Seq(S)
  BY <1>1, NoneRange
<1>5. StageInv
  BY <1>1 DEF Init, ExtractInit, StageInv, Indexing, Extracting
<1>6. FileInv /\ HandledInv /\ OnceInv
  BY <1>1, <1>3 DEF FileInv, HandledInv, OnceInv
<1>7. ListInv
  BY <1>1, <1>4 DEF ListInv
<1>8. QED BY <1>1, <1>2, <1>3, <1>5, <1>6, <1>7 DEF CloneInv

\* While the deltas are reconstructed.
LEMMA IndexClones ==
    ASSUME CloneInv, ListRefDeltas \/ Reconstruct \/ RefreshPackFile, UNCHANGED lfsVars, MappedInv'
    PROVE  CloneInv'
<1>1. pc \in {"list", "reconstruct", "refresh"} /\ UNCHANGED <<walkVars, root>>
  BY DEF ListRefDeltas, Reconstruct, RefreshPackFile
<1>2. /\ dirs' = {} /\ stack' = <<>> /\ files' = <<>> /\ lister' = "none"
      /\ attrs' = {} /\ found' = {} /\ channel' = <<>> /\ buffer' = <<>> /\ todo' = {} /\ ~closed'
  BY <1>1 DEF CloneInv, StageInv, Indexing, Extracting, walkVars, lfsVars, listVars
<1>3. pc' \in Indexing \cup {"failed", "panic"}
  BY DEF ListRefDeltas, Reconstruct, RefreshPackFile, Indexing
<1>4. pc' # "panic"
  BY DEF MappedInv
<1>5. (pc' = "failed" => deltas' # {}) /\ (pc' = "commit" => deltas' = {})
  BY <1>1 DEF ListRefDeltas, Reconstruct, RefreshPackFile
<1>6. StageInv'
  BY <1>1, <1>2, <1>3, <1>4, <1>5 DEF CloneInv, StageInv, Indexing, Extracting
<1>7. DirInv' /\ StackInv' /\ FileInv' /\ ListInv' /\ HandledInv' /\ OnceInv'
  BY <1>2, <1>3, <1>4, NoTreeYet, NoTaskYet DEF Extracting
<1>8. pc' = "failed" => ~Complete'
  BY <1>5 DEF Complete
<1>9. QED BY <1>6, <1>7, <1>8 DEF CloneInv

\* The commit is opened.
LEMMA OpenClones ==
    ASSUME CloneInv, OpenCommit, UNCHANGED lfsVars, MappedInv'
    PROVE  CloneInv'
<1>1. /\ pc = "commit" /\ dirs = {} /\ stack = <<>> /\ files' = <<>> /\ lister' = "none"
      /\ attrs' = {} /\ found' = {} /\ channel' = <<>> /\ buffer' = <<>> /\ todo' = {} /\ ~closed'
      /\ UNCHANGED <<place, root, deltas>> /\ deltas' = {} /\ root' \in Roots
  BY DEF OpenCommit, CloneInv, StageInv, Indexing, Extracting, packVars, lfsVars, listVars
<1>2. root \in DOMAIN Items /\ root \in Object
  BY <1>1, RootAssumption, ItemsAssumption
<1>3. pc' \in {"walk", "failed"}
  BY DEF OpenCommit
<1>4. ListInv' /\ HandledInv' /\ OnceInv'
  BY <1>1, <1>3, NoTaskYet DEF Extracting
<1>5. CASE ~Found(root)
  <2>1. pc' = "failed" /\ dirs' = {} /\ stack' = <<>>
    BY <1>1, <1>5 DEF OpenCommit
  <2>2. place[root] = 0
    BY <1>1, <1>2, <1>5 DEF Found, CloneInv, MappedInv
  <2>3. ~Complete'
    BY <1>1, <2>2 DEF Complete
  <2>4. StageInv'
    BY <1>1, <2>1 DEF StageInv, Indexing, Extracting
  <2>5. QED BY <1>1, <1>4, <2>1, <2>3, <2>4, NoTreeYet DEF CloneInv
<1>6. CASE Found(root)
  <2> DEFINE D == [path |-> <<>>, tree |-> root]
  <2>1. pc' = "walk" /\ dirs' = {D} /\ stack' = <<Whole(D)>>
    BY <1>6 DEF OpenCommit, Whole
  <2>2. D \in [path : Seq(STRING), tree : DOMAIN Items] /\ D.path = <<>> /\ D.tree = root
    BY <1>2
  <2>3. /\ Whole(D) = [items |-> Whole(D).items, path |-> D.path]
        /\ Whole(D).path = D.path /\ Whole(D).items = Items[D.tree]
        /\ Whole(D).items \in Seq(ItemsOf(D)) /\ ItemsOf(D) = Range(Whole(D).items)
    BY <1>2, <2>2, TreeFacts DEF Whole, ItemsOf
  <2>4. D = [path |-> <<>>, tree |-> root'] /\ place[root] # 0
    BY <1>1, <1>6 DEF Found
  <2> HIDE DEF D
  <2>5. Whole(D) \in Entry({D})
    <3>1. D \in {D} /\ D.path \in Seq(STRING)
      BY <2>2
    <3>2. [items |-> Whole(D).items, path |-> D.path] \in Entry({D})
      BY <2>3, <3>1, EntryOf
    <3>3. QED BY <2>3, <3>2
  <2>6. stack' \in Seq(Entry({D})) /\ Range(stack') = {Whole(D)}
    BY <2>1, <2>5, OneRange
  <2>7. DirInv'
    BY <2>1, <2>2, <2>4 DEF DirInv
  <2>8. StackInv'
    <3>1. stack' \in Seq([items : Seq(UNION {ItemsOf(e) : e \in dirs'}), path : Seq(STRING)])
      BY <2>1, <2>6 DEF Entry
    <3>2. \A t \in Range(stack') : \E e \in dirs' : Belongs(t, e)
      BY <2>1, <2>3, <2>6 DEF Belongs
    <3>3. \A e \in dirs' : Items[e.tree] = <<>> => \E t \in Range(stack') : t.items = <<>>
      BY <2>1, <2>3, <2>6
    <3>4. \A e \in dirs' : \A m \in ItemsOf(e) : Left(e, m)'
      BY <2>1, <2>3, <2>6 DEF Left
    <3>5. QED BY <3>1, <3>2, <3>3, <3>4 DEF StackInv, Belongs, ItemsOf
  <2>9. FileInv'
    BY <1>1 DEF FileInv
  <2>10. StageInv'
    BY <1>1, <2>1, <2>4 DEF StageInv, Indexing, Extracting
  <2>11. QED BY <1>4, <2>1, <2>7, <2>8, <2>9, <2>10 DEF CloneInv
<1>7. QED BY <1>5, <1>6

\* An item is walked, or cannot be.
LEMMA WalkClones ==
    ASSUME CloneInv, WalkItem, UNCHANGED lfsVars, MappedInv'
    PROVE  CloneInv'
<1>1. /\ pc = "walk" /\ stack # <<>> /\ lister = "none" /\ lister' = "none"
      /\ attrs' = {} /\ found' = {} /\ channel' = <<>> /\ buffer' = <<>> /\ todo' = {} /\ ~closed'
      /\ UNCHANGED <<place, root, deltas, lister>>
      /\ root \in Roots /\ deltas = {} /\ place[root] # 0
      /\ [path |-> <<>>, tree |-> root] \in dirs
  BY DEF WalkItem, CloneInv, StageInv, Indexing, Extracting, packVars, lfsVars, listVars
<1>2. DirInv /\ StackInv /\ FileInv /\ MappedInv
  BY DEF CloneInv
<1>3. pc' \in {"walk", "failed"}
  BY <1>1 DEF WalkItem
<1>4. ListInv' /\ HandledInv' /\ OnceInv'
  BY <1>1, <1>3, NoTaskYet DEF Extracting
<1>5. CASE pc' = "failed"
  <2>1. /\ UNCHANGED <<stack, dirs, files>>
        /\ \/ Top.items = <<>> \/ Head(Top.items).kind = "submodule"
           \/ ~Found(Head(Top.items).object)
    BY <1>1, <1>5 DEF WalkItem, walkVars
  <2>2. PICK d \in dirs : Belongs(Top, d)
    BY <1>1, <1>2, TopFacts
  <2>3. ASSUME Top.items = <<>> PROVE ~Complete'
    <3>1. Items[d.tree] = <<>>
      BY <2>2, <2>3 DEF Belongs
    <3>2. QED BY <2>1, <3>1 DEF Complete
  <2>4. ASSUME Top.items # <<>> PROVE ~Complete'
    <3>1. PICK m : m = Head(Top.items)
      OBVIOUS
    <3>2. m \in ItemsOf(d)
      BY <2>2, <2>4, <3>1, HeadRange DEF Belongs
    <3>3. ItemAt(d, m) \in Checkout /\ Checkout' = Checkout
      BY <2>1, <3>2, CheckoutIs DEF Checkout
    <3>4. m.kind = "submodule" \/ place[m.object] = 0
      <4>1. m.object \in Object
        BY <1>2, <3>2, DirFacts
      <4>2. m.kind = "submodule" \/ ~Found(m.object)
        BY <2>1, <2>4, <3>1
      <4>3. QED BY <1>1, <1>2, <4>1, <4>2 DEF Found, MappedInv
    <3>5. QED BY <1>1, <3>3, <3>4 DEF Complete, ItemAt
  <2>5. ~Complete'
    BY <2>3, <2>4
  <2>6. StageInv'
    BY <1>1, <1>5 DEF StageInv, Indexing, Extracting
  <2>7. DirInv' /\ StackInv' /\ Blobs' = Blobs
    BY <1>1, <1>2, <2>1, TreeStays
  <2>8. FileInv'
    <3>1. \A c \in Blobs : c.path \in DOMAIN files => files[c.path] = c.object
      BY <1>1, <1>2 DEF FileInv
    <3>2. QED BY <1>2, <2>1, <2>7, <3>1 DEF FileInv
  <2>9. QED BY <1>4, <2>5, <2>6, <2>7, <2>8 DEF CloneInv
<1>6. CASE pc' # "failed"
  <2>1. PICK top : top = Top
    OBVIOUS
  <2>2. PICK u : u = Rest(top)
    OBVIOUS
  <2>3. PICK d \in dirs : \E m \in ItemsOf(d) :
              /\ Belongs(Top, d) /\ Top.items # <<>> /\ m = Head(Top.items)
              /\ m.kind \in {"blob", "link", "tree"} /\ place[m.object] # 0
              /\ \/ /\ m.kind = "blob"
                    /\ files' = With(Append(d.path, m.name), m.object)
                    /\ stack' = Below \o LeftOver(Rest(Top))
                    /\ UNCHANGED dirs
                 \/ /\ m.kind = "link"
                    /\ stack' = Below \o LeftOver(Rest(Top))
                    /\ UNCHANGED <<dirs, files>>
                 \/ /\ m.kind = "tree"
                    /\ dirs' = dirs \cup {DirOf(d, m)}
                    /\ stack' = Append(Below, Whole(DirOf(d, m))) \o LeftOver(Rest(Top))
                    /\ UNCHANGED files
    BY <1>2, <1>6, WalkTakes
  <2>4. PICK m \in ItemsOf(d) :
              /\ Belongs(top, d) /\ top.items # <<>> /\ m = Head(top.items)
              /\ m.kind \in {"blob", "link", "tree"} /\ place[m.object] # 0
              /\ \/ /\ m.kind = "blob"
                    /\ files' = With(Append(d.path, m.name), m.object)
                    /\ stack' = Below \o LeftOver(u)
                    /\ UNCHANGED dirs
                 \/ /\ m.kind = "link"
                    /\ stack' = Below \o LeftOver(u)
                    /\ UNCHANGED <<dirs, files>>
                 \/ /\ m.kind = "tree"
                    /\ dirs' = dirs \cup {DirOf(d, m)}
                    /\ stack' = Append(Below, Whole(DirOf(d, m))) \o LeftOver(u)
                    /\ UNCHANGED files
    BY <2>1, <2>2, <2>3
  <2>5. ASSUME m.kind \in {"blob", "link"} PROVE DirInv' /\ StackInv' /\ FileInv'
    BY <1>1, <1>2, <2>1, <2>2, <2>4, <2>5, WalkFile
  <2>6. ASSUME m.kind = "tree" PROVE DirInv' /\ StackInv' /\ FileInv'
    <3>1. PICK new : new = Whole(DirOf(d, m))
      OBVIOUS
    <3>2. dirs' = dirs \cup {DirOf(d, m)} /\ files' = files /\ stack' = Append(Below, new) \o LeftOver(u)
      BY <2>4, <2>6, <3>1
    <3>3. QED BY <1>1, <1>2, <2>1, <2>2, <2>4, <2>6, <3>1, <3>2, WalkTree
  <2>7. DirInv' /\ StackInv' /\ FileInv'
    BY <2>4, <2>5, <2>6
  <2>8. dirs \subseteq dirs'
    BY <2>4
  <2>9. StageInv'
    BY <1>1, <1>3, <1>6, <2>8 DEF StageInv, Indexing, Extracting
  <2>10. QED BY <1>4, <1>6, <2>7, <2>9 DEF CloneInv
<1>7. QED BY <1>5, <1>6

\* The walk ends with an empty stack.
LEMMA EndWalkClones ==
    ASSUME CloneInv, EndWalk, UNCHANGED lfsVars, MappedInv'
    PROVE  CloneInv'
<1>1. /\ pc = "walk" /\ pc' = "extracted" /\ stack = <<>> /\ lister = "none" /\ lister' = "none"
      /\ attrs' = {} /\ found' = {} /\ channel' = <<>> /\ buffer' = <<>> /\ todo' = {} /\ ~closed'
      /\ UNCHANGED <<place, root, deltas, lister, stack, dirs, files>>
      /\ root \in Roots /\ deltas = {} /\ place[root] # 0
      /\ [path |-> <<>>, tree |-> root] \in dirs
  BY DEF EndWalk, CloneInv, StageInv, Indexing, Extracting, packVars, lfsVars, listVars, walkVars
<1>2. DirInv' /\ StackInv' /\ Blobs' = Blobs
  BY <1>1, TreeStays DEF CloneInv
<1>3. \A c \in Blobs : c.path \in DOMAIN files => files[c.path] = c.object
  BY <1>1 DEF CloneInv, FileInv
<1>4. FileInv'
  BY <1>1, <1>2, <1>3 DEF CloneInv, FileInv
<1>5. ListInv' /\ HandledInv' /\ OnceInv'
  BY <1>1, NoTaskYet DEF Extracting
<1>6. StageInv'
  BY <1>1 DEF StageInv, Indexing, Extracting
<1>7. QED BY <1>1, <1>2, <1>4, <1>5, <1>6 DEF CloneInv

-----------------------------------------------------------------------------
(***************************************************************************)
(* CloneInv while files of lfs are fetched.                                *)
(***************************************************************************)

\* The commit that the files are compared with stays what it is.
LEMMA SameTree ==
    ASSUME CloneInv, UNCHANGED <<packVars, stack, dirs>>, DOMAIN files' = DOMAIN files
    PROVE  /\ DirInv' /\ StackInv'
           /\ Blobs' = Blobs /\ Attributed' = Attributed /\ Tracked' = Tracked
           /\ \A p : Matched(p)' = Matched(p)
           /\ \A c : IsPointer(c)' = IsPointer(c)
           /\ \A f : MatchedOnce(f)' = MatchedOnce(f)
           /\ Complete' = Complete /\ TooLarge' = TooLarge
<1>1. UNCHANGED <<place, root, deltas>> /\ DirInv /\ StackInv
  BY DEF packVars, CloneInv
<1>2. /\ DirInv' /\ StackInv' /\ Checkout' = Checkout
      /\ Blobs' = Blobs /\ Attributed' = Attributed /\ Tracked' = Tracked
      /\ \A p : Matched(p)' = Matched(p)
  BY <1>1, TreeStays
<1>3. \A c : IsPointer(c)' = IsPointer(c)
  BY <1>2 DEF IsPointer
<1>4. \A f : MatchedOnce(f)' = MatchedOnce(f)
  BY <1>2 DEF MatchedOnce
<1>5. Complete' = Complete
  BY <1>1, <1>2 DEF Complete
<1>6. TooLarge' = TooLarge
  BY <1>2 DEF TooLarge
<1>7. QED BY <1>2, <1>3, <1>4, <1>5, <1>6

LEMMA SameFiles ==
    ASSUME CloneInv, UNCHANGED <<packVars, walkVars>>, bad \subseteq bad',
           lister # "none" => lister' # "none"
    PROVE  FileInv'
<1>1. UNCHANGED <<stack, dirs, files>>
  BY DEF walkVars
<1>2. Blobs' = Blobs /\ \A c : IsPointer(c)' = IsPointer(c)
  BY <1>1, SameTree
<1>3. QED BY <1>1, <1>2 DEF CloneInv, FileInv

\* While files, what is left to do and what is bad stay.
LEMMA SameShares ==
    ASSUME CloneInv, UNCHANGED <<packVars, walkVars, listVars, channel, buffer, todo, bad>>
    PROVE  HandledInv' /\ OnceInv'
<1>1. UNCHANGED <<stack, dirs, files, lister, attrs, found>>
  BY DEF walkVars, listVars
<1>2. /\ Blobs' = Blobs /\ Attributed' = Attributed
      /\ \A p : Matched(p)' = Matched(p)
      /\ \A c : IsPointer(c)' = IsPointer(c)
      /\ \A f : MatchedOnce(f)' = MatchedOnce(f)
  BY <1>1, SameTree
<1>3. \A c : Handled(c)' = Handled(c) /\ Fresh(c)' = Fresh(c)
  BY <1>1, <1>2 DEF Handled, Fresh
<1>4. HandledInv'
  BY <1>1, <1>2, <1>3 DEF CloneInv, HandledInv
<1>5. OnceInv'
  BY <1>1, <1>2, <1>3 DEF CloneInv, OnceInv
<1>6. QED BY <1>4, <1>5

\* A file is large in the commit, or after a first fetch.
LEMMA FetchTooLarge ==
    ASSUME CloneInv, pc = "fetch", NEW f \in Range(buffer), files[f] \in Large
    PROVE  TooLarge
<1>1. f \in Tracked /\ f \in DOMAIN files
  <2>1. f \in Tracked
    BY RangeOfSeq DEF CloneInv, ListInv
  <2>2. QED BY <2>1 DEF Tracked, Matched
<1>2. PICK c \in Blobs : c.path = f
  BY <1>1 DEF CloneInv, FileInv
<1>3. CASE files[f] = c.object
  BY <1>1, <1>2, <1>3 DEF TooLarge, Blobs
<1>4. CASE files[f] # c.object
  <2>1. /\ IsPointer(c)
        /\ files[f] = Pointer[c.object] \/ files[f] = "page"
    BY <1>1, <1>2, <1>4 DEF CloneInv, FileInv
  <2>2. ~MatchedOnce(f)
    BY <1>2, <1>4 DEF CloneInv, OnceInv, Fresh
  <2>3. QED BY <1>2, <2>1, <2>2 DEF TooLarge, MatchedOnce, IsPointer, Blobs
<1>5. QED BY <1>3, <1>4

\* Steps that move only the call, or close the receiver.
LEMMA MoveClones ==
    ASSUME CloneInv, UNCHANGED <<packVars, walkVars, listVars, channel, buffer, todo, bad>>, MappedInv',
           \/ Authenticate \/ Close \/ AwaitList \/ EndFetch \/ CloneError
           \/ Fetch /\ pc' = "failed"
           \/ UNCHANGED vars
    PROVE  CloneInv'
<1>1. UNCHANGED <<stack, dirs, files, lister, attrs, found, place, deltas, root>>
  BY DEF walkVars, listVars, packVars
<1>2. /\ DirInv' /\ StackInv'
      /\ Blobs' = Blobs /\ Attributed' = Attributed /\ Tracked' = Tracked
      /\ \A c : IsPointer(c)' = IsPointer(c)
      /\ Complete' = Complete /\ TooLarge' = TooLarge
  BY <1>1, SameTree
<1>3. HandledInv' /\ OnceInv' /\ FileInv'
  BY <1>1, SameShares, SameFiles
<1>4. Sent' = Sent
  BY <1>1 DEF Sent
<1>5. StageInv'
  BY <1>1, <1>2 DEF StageInv, Indexing, Extracting, CloneInv, Goes, Authenticate, Close, AwaitList, EndFetch,
     CloneError, Fetch, Ended, vars, extractVars, lfsVars
<1>6. /\ pc \in {"close", "await"} => lister = "failed" \/ Sent
      /\ pc \in {"fetch", "download"} /\ closed => lister = "done" /\ Sent
      /\ pc = "download" => buffer = <<>>
      /\ pc \in {"authenticate", "receive", "close", "await", "fetch"} => todo = {}
      /\ pc = "done" => Attributed = {} \/ (Sent /\ buffer = <<>> /\ todo = {} /\ lister # "none")
  BY DEF CloneInv, ListInv
<1>7. /\ pc' \in {"close", "await"} => lister' = "failed" \/ Sent'
      /\ pc' \in {"fetch", "download"} /\ closed' => lister' = "done" /\ Sent'
      /\ pc' = "download" => buffer' = <<>>
      /\ pc' \in {"authenticate", "receive", "close", "await", "fetch"} => todo' = {}
      /\ pc' = "done" => Attributed' = {} \/ (Sent' /\ buffer' = <<>> /\ todo' = {} /\ lister' # "none")
  <2>1. CASE Authenticate
    BY <1>1, <1>2, <1>4, <1>6, <2>1 DEF Authenticate, Goes
  <2>2. CASE Close
    BY <1>1, <1>2, <1>4, <1>6, <2>2 DEF Close, Goes
  <2>3. CASE AwaitList
    BY <1>1, <1>2, <1>4, <1>6, <2>3 DEF AwaitList, lfsVars
  <2>4. CASE EndFetch
    BY <1>1, <1>2, <1>4, <1>6, <2>4 DEF EndFetch, Goes, lfsVars
  <2>5. CASE CloneError \/ pc' = "failed"
    BY <1>1, <1>2, <1>4, <1>6, <2>5 DEF CloneError
  <2>6. CASE UNCHANGED vars
    BY <1>1, <1>2, <1>4, <1>6, <2>6 DEF vars, extractVars, lfsVars
  <2>7. QED BY <2>1, <2>2, <2>3, <2>4, <2>5, <2>6
<1>8. ListInv'
  BY <1>1, <1>2, <1>7 DEF CloneInv, ListInv
<1>9. pc' = "failed" => ~Complete' \/ TooLarge'
  <2>1. CASE Fetch /\ pc' = "failed"
    BY <1>2, <2>1, FetchTooLarge DEF Fetch, Range
  <2>2. CASE UNCHANGED vars
    BY <1>2, <2>2 DEF CloneInv, vars, extractVars
  <2>3. QED BY <2>1, <2>2 DEF Authenticate, Close, AwaitList, EndFetch, CloneError, Goes
<1>10. QED BY <1>2, <1>3, <1>5, <1>8, <1>9 DEF CloneInv

\* The task is started with every directory that has patterns.
LEMMA DetectClones ==
    ASSUME CloneInv, Detect, MappedInv'
    PROVE  CloneInv'
<1>1. /\ pc = "extracted" /\ lister = "none" /\ pc' = IF Attributed = {} THEN "done" ELSE "authenticate"
      /\ lister' = IF Attributed = {} THEN "none" ELSE "list"
      /\ attrs' = Attributed
      /\ found' = {} /\ channel' = <<>> /\ buffer' = <<>> /\ todo' = {} /\ ~closed
      /\ UNCHANGED <<packVars, walkVars, closed, bad, stack, dirs, files, place, root, deltas>>
  BY DEF Detect, Goes, CloneInv, StageInv, Extracting, Indexing, walkVars, packVars
<1>2. /\ DirInv' /\ StackInv'
      /\ Blobs' = Blobs /\ Attributed' = Attributed /\ Tracked' = Tracked
      /\ \A p : Matched(p)' = Matched(p)
      /\ \A c : IsPointer(c)' = IsPointer(c)
  BY <1>1, SameTree
<1>3. FileInv'
  BY <1>1, SameFiles
<1>4. StageInv'
  BY <1>1, <1>2 DEF CloneInv, StageInv, Extracting, Indexing
<1>5. CASE Attributed = {}
  <2>1. ListInv' /\ HandledInv' /\ OnceInv'
    BY <1>1, <1>2, <1>5, NoTaskYet
  <2>2. QED BY <1>1, <1>2, <1>3, <1>4, <1>5, <2>1 DEF CloneInv
<1>6. CASE Attributed # {}
  <2>1. /\ Range(channel') = {} /\ Range(buffer') = {} /\ DOMAIN channel' = {}
        /\ \A S : channel' \in Seq(S) /\ buffer' \in Seq(S)
    BY <1>1, NoneRange
  <2>2. ListInv'
    BY <1>1, <1>2, <1>6, <2>1 DEF ListInv
  <2>3. \A f \in Tracked : \E d \in attrs' : f \in Matched(d)
    BY <1>1 DEF Tracked
  <2>4. HandledInv'
    BY <1>2, <2>3 DEF HandledInv, Handled, IsPointer
  <2>5. ASSUME NEW c \in Blobs, NEW d \in attrs', c.path \in Matched(d)
        PROVE  Fresh(c)'
    <3>1. c.path \in DOMAIN files
      BY <2>5 DEF Matched
    <3>2. files[c.path] = c.object
      BY <1>1, <3>1 DEF CloneInv, FileInv
    <3>3. QED BY <1>1, <3>2 DEF Fresh
  <2>6. OnceInv'
    BY <1>1, <1>2, <2>1, <2>5 DEF OnceInv
  <2>7. QED BY <1>1, <1>2, <1>3, <1>4, <1>6, <2>2, <2>4, <2>6 DEF CloneInv
<1>7. QED BY <1>5, <1>6

\* A path is not None.
LEMMA BlobPath ==
    ASSUME CloneInv, NEW c \in Blobs
    PROVE  c.path # None
<1>1. PICK d \in dirs : \E m \in ItemsOf(d) : c = ItemAt(d, m)
  BY BlobsAre
<1>2. PICK m \in ItemsOf(d) : c = ItemAt(d, m)
  BY <1>1
<1>3. Append(d.path, m.name) \in Seq(STRING)
  BY DirFacts DEF CloneInv
<1>4. QED BY <1>2, <1>3, NoneAssumption DEF ItemAt

LEMMA PathFacts ==
    ASSUME CloneInv
    PROVE  /\ Tracked \subseteq DOMAIN files
           /\ None \notin Tracked
           /\ channel \in Seq(Tracked \cup {None}) /\ buffer \in Seq(Tracked)
           /\ Range(channel) \subseteq Tracked \cup {None} /\ Range(buffer) \subseteq Tracked
<1>1. Tracked \subseteq DOMAIN files
  BY DEF Tracked, Matched
<1>2. \A f \in DOMAIN files : f # None
  BY BlobPath DEF CloneInv, FileInv
<1>3. None \notin Tracked
  BY <1>1, <1>2
<1>4. channel \in Seq(Tracked \cup {None}) /\ buffer \in Seq(Tracked)
  BY DEF CloneInv, ListInv
<1>5. QED BY <1>1, <1>3, <1>4, RangeOfSeq

\* The task goes on to the next directory.
LEMMA ListClones ==
    ASSUME CloneInv, ListDirectory, MappedInv'
    PROVE  CloneInv'
<1>1. PICK d \in attrs :
        /\ lister = "list" /\ found = {} /\ attrs' = attrs \ {d} /\ found' = Matched(d)
        /\ UNCHANGED <<packVars, walkVars, pc, lister, channel, closed, buffer, todo, bad>>
        /\ UNCHANGED <<stack, dirs, files, place, root, deltas>>
  BY DEF ListDirectory, extractVars, walkVars, packVars
<1>2. /\ DirInv' /\ StackInv'
      /\ Blobs' = Blobs /\ Attributed' = Attributed /\ Tracked' = Tracked
      /\ \A p : Matched(p)' = Matched(p)
      /\ \A c : IsPointer(c)' = IsPointer(c)
      /\ \A f : MatchedOnce(f)' = MatchedOnce(f)
      /\ Complete' = Complete /\ TooLarge' = TooLarge
  BY <1>1, SameTree
<1>3. FileInv'
  BY <1>1, SameFiles
<1>4. StageInv'
  BY <1>1, <1>2 DEF CloneInv, StageInv, Extracting, Indexing
<1>5. d \in Attributed /\ ~Sent
  BY <1>1 DEF CloneInv, ListInv, Sent
<1>6. ListInv'
  <2>1. attrs' \subseteq Attributed /\ Matched(d) \subseteq Tracked
    BY <1>1, <1>5 DEF CloneInv, ListInv, Tracked
  <2>2. \A i \in DOMAIN channel : channel[i] # None
    BY <1>1 DEF CloneInv, ListInv
  <2>3. QED BY <1>1, <1>2, <1>5, <2>1, <2>2 DEF CloneInv, ListInv
<1>7. HandledInv'
  <2>1. \A c : Handled(c) => Handled(c)'
    BY <1>1, <1>2 DEF Handled
  <2>2. QED BY <1>1, <1>2, <2>1 DEF CloneInv, HandledInv
<1>8. OnceInv'
  <2>1. ASSUME NEW c \in Blobs, MatchedOnce(c.path)
        PROVE  /\ Fresh(c)' = Fresh(c)
               /\ c.path \in Matched(d) => \A e \in attrs' : c.path \notin Matched(e)
    BY <1>1, <1>5, <2>1 DEF Fresh, MatchedOnce, CloneInv, ListInv
  <2>2. QED BY <1>1, <1>2, <2>1 DEF CloneInv, OnceInv
<1>9. QED BY <1>1, <1>2, <1>3, <1>4, <1>6, <1>7, <1>8 DEF CloneInv

\* What a send does to the channel.
LEMMA SendAt ==
    ASSUME CloneInv, NEW x \in Tracked \cup {None}, channel' = Append(channel, x)
    PROVE  /\ channel' \in Seq(Tracked \cup {None}) /\ Range(channel') = Range(channel) \cup {x}
           /\ \E n \in Nat :
                /\ DOMAIN channel' = DOMAIN channel \cup {n} /\ channel'[n] = x
                /\ \A i \in DOMAIN channel : i \in Nat /\ i < n /\ channel'[i] = channel[i]
<1>1. PICK S : S = Tracked \cup {None}
  OBVIOUS
<1>2. PICK s : s = channel
  OBVIOUS
<1>3. s \in Seq(S) /\ x \in S
  BY <1>1, <1>2 DEF CloneInv, ListInv
<1>4. Append(s, x) \in Seq(S) /\ Range(Append(s, x)) = Range(s) \cup {x}
  BY <1>3, AppendRange
<1>5. \E n \in Nat :
        /\ DOMAIN Append(s, x) = DOMAIN s \cup {n} /\ Append(s, x)[n] = x
        /\ \A i \in DOMAIN s : i \in Nat /\ i < n /\ Append(s, x)[i] = s[i]
  BY <1>3, AppendAt
<1>6. QED BY <1>1, <1>2, <1>4, <1>5

\* A file is sent, or the task fails.
LEMMA SendClones ==
    ASSUME CloneInv, SendFile, MappedInv'
    PROVE  CloneInv'
<1>1. PICK f \in found :
        \/ /\ ~closed /\ channel' = Append(channel, f) /\ found' = found \ {f} /\ lister' = lister
        \/ closed /\ lister' = "failed" /\ UNCHANGED <<channel, found>>
  BY DEF SendFile
<1>2. /\ lister = "list"
      /\ UNCHANGED <<packVars, walkVars, pc, attrs, closed, buffer, todo, bad>>
      /\ UNCHANGED <<stack, dirs, files, place, root, deltas>>
  BY DEF SendFile, extractVars, walkVars, packVars
<1>3. /\ DirInv' /\ StackInv'
      /\ Blobs' = Blobs /\ Attributed' = Attributed /\ Tracked' = Tracked
      /\ \A p : Matched(p)' = Matched(p)
      /\ \A c : IsPointer(c)' = IsPointer(c)
      /\ \A g : MatchedOnce(g)' = MatchedOnce(g)
      /\ Complete' = Complete /\ TooLarge' = TooLarge
  BY <1>2, SameTree
<1>4. lister' # "none"
  BY <1>1, <1>2
<1>5. FileInv'
  BY <1>2, <1>4, SameFiles
<1>6. StageInv'
  BY <1>2, <1>3, <1>4 DEF CloneInv, StageInv, Extracting, Indexing
<1>7. f \in Tracked /\ f # None /\ ~Sent /\ Attributed # {}
  <2>1. f \in Tracked
    BY DEF CloneInv, ListInv
  <2>2. QED BY <2>1, PathFacts DEF Sent, Tracked
<1>8. /\ pc \in {"close", "await"} => lister = "failed"
      /\ pc \in {"fetch", "download"} => ~closed
      /\ pc # "done"
      /\ \A i \in DOMAIN channel : channel[i] # None
  BY <1>2, <1>7 DEF CloneInv, ListInv
<1>9. CASE closed
  <2>1. lister' = "failed" /\ UNCHANGED <<channel, found>>
    BY <1>1, <1>9
  <2>2. ListInv'
    BY <1>2, <1>3, <1>8, <1>9, <2>1 DEF CloneInv, ListInv
  <2>3. \A c : Handled(c)' = Handled(c) /\ Fresh(c)' = Fresh(c)
    BY <1>2, <1>3, <2>1 DEF Handled, Fresh
  <2>4. HandledInv'
    BY <1>2, <1>3, <2>3 DEF CloneInv, HandledInv
  <2>5. OnceInv'
    BY <1>2, <1>3, <2>1, <2>3 DEF CloneInv, OnceInv
  <2>6. QED BY <1>2, <1>3, <1>5, <1>6, <2>2, <2>4, <2>5 DEF CloneInv
<1>10. CASE ~closed
  <2>1. channel' = Append(channel, f) /\ found' = found \ {f} /\ lister' = lister
    BY <1>1, <1>10
  <2>2. channel' \in Seq(Tracked \cup {None}) /\ Range(channel') = Range(channel) \cup {f}
    BY <1>7, <2>1, SendAt
  <2>3. PICK n \in Nat :
          /\ DOMAIN channel' = DOMAIN channel \cup {n} /\ channel'[n] = f
          /\ \A i \in DOMAIN channel : i \in Nat /\ i < n /\ channel'[i] = channel[i]
    BY <1>7, <2>1, SendAt
  <2>4. \A i \in DOMAIN channel' : channel'[i] # None
    BY <1>7, <1>8, <2>3
  <2>5. ListInv'
    BY <1>2, <1>3, <1>8, <1>10, <2>1, <2>2, <2>4 DEF CloneInv, ListInv
  <2>6. \A c : Fresh(c)' = Fresh(c)
    BY <1>2 DEF Fresh
  <2>7. \A c : Handled(c) => Handled(c)'
    BY <1>2, <1>3, <2>1, <2>2 DEF Handled
  <2>8. HandledInv'
    BY <1>2, <1>3, <2>1, <2>7 DEF CloneInv, HandledInv
  <2>9. ASSUME NEW c \in Blobs, MatchedOnce(c.path)
        PROVE  /\ (\E d \in attrs' : c.path \in Matched(d)) =>
                    c.path \notin found' \cup Range(channel') \cup Range(buffer') /\ Fresh(c)
               /\ c.path \in found' => c.path \notin Range(channel') \cup Range(buffer') /\ Fresh(c)
               /\ \A i \in DOMAIN channel' : channel'[i] = c.path =>
                    /\ c.path \notin Range(buffer') /\ Fresh(c)
                    /\ \A j \in DOMAIN channel' : channel'[j] = c.path => i = j
               /\ c.path \in Range(buffer') => Fresh(c)
    <3>1. /\ (\E d \in attrs : c.path \in Matched(d)) =>
                c.path \notin found \cup Range(channel) \cup Range(buffer) /\ Fresh(c)
          /\ c.path \in found => c.path \notin Range(channel) \cup Range(buffer) /\ Fresh(c)
          /\ \A i \in DOMAIN channel : channel[i] = c.path =>
                /\ c.path \notin Range(buffer) /\ Fresh(c)
                /\ \A j \in DOMAIN channel : channel[j] = c.path => i = j
          /\ c.path \in Range(buffer) => Fresh(c)
      BY <2>9 DEF CloneInv, OnceInv
    <3>2. c.path = f => \A i \in DOMAIN channel : channel[i] # f
      BY <3>1 DEF Range
    <3>3. QED BY <1>2, <2>1, <2>2, <2>3, <3>1, <3>2
  <2>10. OnceInv'
    BY <1>3, <2>6, <2>9 DEF OnceInv
  <2>11. QED BY <1>2, <1>3, <1>5, <1>6, <2>5, <2>8, <2>10 DEF CloneInv
<1>11. QED BY <1>9, <1>10

\* None is sent, or the task ends; or it fails.
LEMMA EndListClones ==
    ASSUME CloneInv, SendNone \/ ListError, MappedInv'
    PROVE  CloneInv'
<1>1. /\ lister = "list" /\ lister' # "none"
      /\ UNCHANGED <<packVars, walkVars, pc, attrs, found, closed, buffer, todo, bad>>
      /\ UNCHANGED <<stack, dirs, files, place, root, deltas>>
  BY DEF SendNone, ListError, extractVars, walkVars, packVars
<1>2. /\ DirInv' /\ StackInv'
      /\ Blobs' = Blobs /\ Attributed' = Attributed /\ Tracked' = Tracked
      /\ \A p : Matched(p)' = Matched(p)
      /\ \A c : IsPointer(c)' = IsPointer(c)
      /\ \A g : MatchedOnce(g)' = MatchedOnce(g)
      /\ Complete' = Complete /\ TooLarge' = TooLarge
      /\ FileInv'
  BY <1>1, SameTree, SameFiles
<1>3. StageInv'
  BY <1>1, <1>2 DEF CloneInv, StageInv, Extracting, Indexing
<1>4. CASE channel' = channel
  <2>1. lister' = "failed" \/ (lister' = "done" /\ attrs = {} /\ found = {})
    <3>1. channel' # Append(channel, None)
      <4>1. PICK S : S = Tracked \cup {None}
        OBVIOUS
      <4>2. PICK s : s = channel
        OBVIOUS
      <4>3. s \in Seq(S) /\ None \in S
        BY <4>1, <4>2 DEF CloneInv, ListInv
      <4>4. Len(Append(s, None)) = Len(s) + 1 /\ Len(s) \in Nat
        BY <4>3, AppendProperties
      <4>5. QED BY <1>4, <4>2, <4>4
    <3>2. QED BY <3>1 DEF SendNone, ListError
  <2>2. Sent' = Sent
    BY <1>1, <1>4 DEF Sent
  <2>3. ListInv'
    BY <1>1, <1>2, <1>4, <2>1, <2>2 DEF CloneInv, ListInv
  <2>4. \A c : Handled(c)' = Handled(c) /\ Fresh(c)' = Fresh(c)
    BY <1>1, <1>2, <1>4 DEF Handled, Fresh
  <2>5. HandledInv'
    BY <1>1, <1>2, <2>4 DEF CloneInv, HandledInv
  <2>6. OnceInv'
    BY <1>1, <1>2, <1>4, <2>4 DEF CloneInv, OnceInv
  <2>7. QED BY <1>1, <1>2, <1>3, <2>3, <2>5, <2>6 DEF CloneInv
<1>5. CASE channel' # channel
  <2>1. /\ channel' = Append(channel, None) /\ lister' = "list" /\ ~closed
        /\ attrs = {} /\ found = {}
    BY <1>1, <1>5 DEF SendNone, ListError
  <2>2. channel' \in Seq(Tracked \cup {None}) /\ Range(channel') = Range(channel) \cup {None}
    BY <2>1, SendAt
  <2>3. PICK n \in Nat :
          /\ DOMAIN channel' = DOMAIN channel \cup {n} /\ channel'[n] = None
          /\ \A i \in DOMAIN channel : i \in Nat /\ i < n /\ channel'[i] = channel[i]
    BY <2>1, SendAt
  <2>4. \A i \in DOMAIN channel' : channel'[i] = None =>
          attrs' = {} /\ found' = {} /\ \A j \in DOMAIN channel' : j > i => channel'[j] = None
    BY <1>1, <2>1, <2>3 DEF CloneInv, ListInv
  <2>5. Sent' = Sent
    BY <1>1, <2>2 DEF Sent
  <2>6. ListInv'
    BY <1>1, <1>2, <2>1, <2>2, <2>4, <2>5 DEF CloneInv, ListInv
  <2>7. \A c : Fresh(c)' = Fresh(c)
    BY <1>1 DEF Fresh
  <2>8. \A c : Handled(c) => Handled(c)'
    BY <1>1, <1>2, <2>2 DEF Handled
  <2>9. HandledInv'
    BY <1>1, <1>2, <2>8 DEF CloneInv, HandledInv
  <2>10. ASSUME NEW c \in Blobs, MatchedOnce(c.path)
         PROVE  \A i \in DOMAIN channel' : channel'[i] = c.path =>
                    /\ c.path \notin Range(buffer) /\ Fresh(c)
                    /\ \A j \in DOMAIN channel' : channel'[j] = c.path => i = j
    <3>1. c.path # None
      BY BlobPath
    <3>2. \A i \in DOMAIN channel : channel[i] = c.path =>
                /\ c.path \notin Range(buffer) /\ Fresh(c)
                /\ \A j \in DOMAIN channel : channel[j] = c.path => i = j
      BY <2>10 DEF CloneInv, OnceInv
    <3>3. QED BY <2>3, <3>1, <3>2
  <2>11. OnceInv'
    BY <1>1, <1>2, <2>1, <2>2, <2>7, <2>10 DEF CloneInv, OnceInv
  <2>12. QED BY <1>1, <1>2, <1>3, <2>6, <2>9, <2>11 DEF CloneInv
<1>6. QED BY <1>4, <1>5

\* What taking the first element does to the channel.
LEMMA TakeAt ==
    ASSUME CloneInv, channel # <<>>, channel' = Tail(channel)
    PROVE  /\ channel' \in Seq(Tracked \cup {None})
           /\ Head(channel) \in Tracked \cup {None}
           /\ Range(channel) = {Head(channel)} \cup Range(channel')
           /\ 1 \in DOMAIN channel /\ channel[1] = Head(channel)
           /\ \A i \in DOMAIN channel' :
                i \in Nat \ {0} /\ i + 1 \in DOMAIN channel /\ channel'[i] = channel[i + 1]
<1>1. PICK S : S = Tracked \cup {None}
  OBVIOUS
<1>2. PICK s : s = channel
  OBVIOUS
<1>3. s \in Seq(S) /\ s # <<>>
  BY <1>1, <1>2 DEF CloneInv, ListInv
<1>4. /\ Head(s) \in S /\ Tail(s) \in Seq(S)
      /\ Range(s) = {Head(s)} \cup Range(Tail(s))
      /\ Len(s) \in Nat \ {0} /\ Len(Tail(s)) = Len(s) - 1
      /\ \A i \in DOMAIN Tail(s) : i + 1 \in DOMAIN s /\ Tail(s)[i] = s[i + 1]
  BY <1>3, HeadRange
<1>5. DOMAIN s = 1..Len(s) /\ Head(s) = s[1]
  BY <1>3
<1>6. DOMAIN Tail(s) = 1..Len(s) - 1
  BY <1>4
<1>7. 1 \in DOMAIN s /\ \A i \in DOMAIN Tail(s) : i \in Nat \ {0}
  BY <1>4, <1>5, <1>6
<1>8. QED BY <1>1, <1>2, <1>4, <1>5, <1>7

\* The call takes a file.
LEMMA TakeFileClones ==
    ASSUME CloneInv, MappedInv', pc = "receive", pc' \in {"receive", "fetch"},
           channel # <<>>, Head(channel) # None,
           channel' = Tail(channel), buffer' = Append(buffer, Head(channel)),
           UNCHANGED <<packVars, walkVars, listVars, closed, todo, bad>>
    PROVE  CloneInv'
<1>1. /\ UNCHANGED <<stack, dirs, files, place, root, deltas, lister, attrs, found>>
      /\ lister # "none" /\ ~closed /\ todo = {}
  BY DEF CloneInv, StageInv, ListInv, walkVars, packVars, listVars
<1>2. /\ DirInv' /\ StackInv'
      /\ Blobs' = Blobs /\ Attributed' = Attributed /\ Tracked' = Tracked
      /\ \A p : Matched(p)' = Matched(p)
      /\ \A c : IsPointer(c)' = IsPointer(c)
      /\ \A g : MatchedOnce(g)' = MatchedOnce(g)
      /\ FileInv'
  BY <1>1, SameTree, SameFiles
<1>3. StageInv'
  BY <1>1, <1>2 DEF CloneInv, StageInv, Extracting, Indexing
<1>4. PICK f : f = Head(channel)
  OBVIOUS
<1>5. /\ channel' \in Seq(Tracked \cup {None})
      /\ f \in Tracked
      /\ Range(channel) = {f} \cup Range(channel')
      /\ 1 \in DOMAIN channel /\ channel[1] = f
      /\ \A i \in DOMAIN channel' :
           i \in Nat \ {0} /\ i + 1 \in DOMAIN channel /\ channel'[i] = channel[i + 1]
  BY <1>4, TakeAt
<1>6. buffer' \in Seq(Tracked) /\ Range(buffer') = Range(buffer) \cup {f}
  <2>1. PICK S : S = Tracked
    OBVIOUS
  <2>2. PICK b : b = buffer
    OBVIOUS
  <2>3. b \in Seq(S) /\ f \in S
    BY <1>5, <2>1, <2>2 DEF CloneInv, ListInv
  <2>4. Append(b, f) \in Seq(S) /\ Range(Append(b, f)) = Range(b) \cup {f}
    BY <2>3, AppendRange
  <2>5. QED BY <1>4, <2>1, <2>2, <2>4
<1>7. ListInv'
  <2>1. ASSUME NEW i \in DOMAIN channel', channel'[i] = None
        PROVE  attrs = {} /\ found = {} /\ \A j \in DOMAIN channel' : j > i => channel'[j] = None
    <3>1. /\ i + 1 \in DOMAIN channel /\ channel[i + 1] = None /\ i \in Nat
      BY <1>5, <2>1
    <3>2. attrs = {} /\ found = {} /\ \A j \in DOMAIN channel : j > i + 1 => channel[j] = None
      BY <3>1 DEF CloneInv, ListInv
    <3>3. ASSUME NEW j \in DOMAIN channel', j > i PROVE channel'[j] = None
      <4>1. j \in Nat /\ j + 1 \in DOMAIN channel /\ channel'[j] = channel[j + 1]
        BY <1>5
      <4>2. j + 1 > i + 1
        BY <3>1, <3>3, <4>1
      <4>3. QED BY <3>2, <4>1, <4>2
    <3>4. QED BY <3>2, <3>3
  <2>2. QED BY <1>1, <1>2, <1>5, <1>6, <2>1 DEF CloneInv, ListInv
<1>8. \A c : Fresh(c)' = Fresh(c)
  BY <1>1 DEF Fresh
<1>9. \A c : Handled(c) => Handled(c)'
  BY <1>1, <1>2, <1>5, <1>6 DEF Handled
<1>10. HandledInv'
  BY <1>1, <1>2, <1>9 DEF CloneInv, HandledInv
<1>11. ASSUME NEW c \in Blobs, MatchedOnce(c.path)
       PROVE  /\ (\E d \in attrs : c.path \in Matched(d)) =>
                    c.path \notin found \cup Range(channel') \cup Range(buffer') /\ Fresh(c)
              /\ c.path \in found => c.path \notin Range(channel') \cup Range(buffer') /\ Fresh(c)
              /\ \A i \in DOMAIN channel' : channel'[i] = c.path =>
                    /\ c.path \notin Range(buffer') /\ Fresh(c)
                    /\ \A j \in DOMAIN channel' : channel'[j] = c.path => i = j
              /\ c.path \in Range(buffer') => Fresh(c)
  <2>1. /\ (\E d \in attrs : c.path \in Matched(d)) =>
              c.path \notin found \cup Range(channel) \cup Range(buffer) /\ Fresh(c)
        /\ c.path \in found => c.path \notin Range(channel) \cup Range(buffer) /\ Fresh(c)
        /\ \A i \in DOMAIN channel : channel[i] = c.path =>
              /\ c.path \notin Range(buffer) /\ Fresh(c)
              /\ \A j \in DOMAIN channel : channel[j] = c.path => i = j
        /\ c.path \in Range(buffer) => Fresh(c)
    BY <1>11 DEF CloneInv, OnceInv
  <2>2. \A i \in DOMAIN channel' : channel'[i] = c.path => c.path # f
    <3>1. ASSUME NEW i \in DOMAIN channel', channel'[i] = c.path, c.path = f PROVE FALSE
      <4>1. i \in Nat \ {0} /\ i + 1 \in DOMAIN channel /\ channel[i + 1] = c.path
        BY <1>5, <3>1
      <4>2. 1 = i + 1
        BY <1>5, <2>1, <3>1, <4>1
      <4>3. QED BY <4>1, <4>2
    <3>2. QED BY <3>1
  <2>3. \A i \in DOMAIN channel' : channel'[i] = c.path =>
              /\ c.path \notin Range(buffer) /\ Fresh(c)
              /\ \A j \in DOMAIN channel' : channel'[j] = c.path => i = j
    <3>1. ASSUME NEW i \in DOMAIN channel', channel'[i] = c.path,
                 NEW j \in DOMAIN channel', channel'[j] = c.path
          PROVE  i = j
      <4>1. /\ i \in Nat /\ i + 1 \in DOMAIN channel /\ channel[i + 1] = c.path
            /\ j \in Nat /\ j + 1 \in DOMAIN channel /\ channel[j + 1] = c.path
        BY <1>5, <3>1
      <4>2. i + 1 = j + 1
        BY <2>1, <4>1
      <4>3. QED BY <4>1, <4>2
    <3>2. QED BY <1>5, <2>1, <3>1
  <2>4. c.path = f => Fresh(c)
    BY <1>5, <2>1
  <2>5. QED BY <1>5, <1>6, <2>1, <2>2, <2>3, <2>4
<1>12. OnceInv'
  BY <1>1, <1>2, <1>8, <1>11 DEF OnceInv
<1>13. QED BY <1>2, <1>3, <1>7, <1>10, <1>12 DEF CloneInv

\* The call takes None, or finds that the task has failed.
LEMMA TakeNoneClones ==
    ASSUME CloneInv, MappedInv', pc = "receive", pc' = "close",
           \/ channel # <<>> /\ Head(channel) = None /\ channel' = Tail(channel)
           \/ lister = "failed" /\ UNCHANGED channel,
           UNCHANGED <<packVars, walkVars, listVars, closed, todo, bad, buffer>>
    PROVE  CloneInv'
<1>1. /\ UNCHANGED <<stack, dirs, files, place, root, deltas, lister, attrs, found>>
      /\ lister # "none" /\ ~closed /\ todo = {}
  BY DEF CloneInv, StageInv, ListInv, walkVars, packVars, listVars
<1>2. /\ DirInv' /\ StackInv'
      /\ Blobs' = Blobs /\ Attributed' = Attributed /\ Tracked' = Tracked
      /\ \A p : Matched(p)' = Matched(p)
      /\ \A c : IsPointer(c)' = IsPointer(c)
      /\ \A g : MatchedOnce(g)' = MatchedOnce(g)
      /\ FileInv'
  BY <1>1, SameTree, SameFiles
<1>3. StageInv'
  BY <1>1, <1>2 DEF CloneInv, StageInv, Extracting, Indexing
<1>4. \A c : Fresh(c)' = Fresh(c)
  BY <1>1 DEF Fresh
<1>5. CASE UNCHANGED channel /\ lister = "failed"
  <2>1. ListInv'
    BY <1>1, <1>2, <1>5 DEF CloneInv, ListInv
  <2>2. HandledInv' /\ OnceInv'
    BY <1>5, SameShares
  <2>3. QED BY <1>2, <1>3, <2>1, <2>2 DEF CloneInv
<1>6. CASE channel # <<>> /\ Head(channel) = None /\ channel' = Tail(channel)
  <2>1. /\ channel' \in Seq(Tracked \cup {None})
        /\ Range(channel) = {None} \cup Range(channel')
        /\ 1 \in DOMAIN channel /\ channel[1] = None
        /\ \A i \in DOMAIN channel' :
             i \in Nat \ {0} /\ i + 1 \in DOMAIN channel /\ channel'[i] = channel[i + 1]
    BY <1>6, TakeAt
  <2>2. attrs = {} /\ found = {} /\ \A j \in DOMAIN channel : j > 1 => channel[j] = None
    BY <2>1 DEF CloneInv, ListInv
  <2>3. \A i \in DOMAIN channel' : channel'[i] = None
    <3>1. ASSUME NEW i \in DOMAIN channel' PROVE channel'[i] = None
      <4>1. i \in Nat \ {0} /\ i + 1 \in DOMAIN channel /\ channel'[i] = channel[i + 1]
        BY <2>1
      <4>2. i + 1 > 1
        BY <4>1
      <4>3. QED BY <2>2, <4>1, <4>2
    <3>2. QED BY <3>1
  <2>4. Sent'
    BY <1>1, <2>2, <2>3 DEF Sent, Range
  <2>5. ListInv'
    BY <1>1, <1>2, <2>1, <2>2, <2>3, <2>4 DEF CloneInv, ListInv
  <2>6. \A c \in Blobs : Handled(c) => Handled(c)'
    BY <1>1, <1>2, <2>1, BlobPath DEF Handled
  <2>7. HandledInv'
    BY <1>1, <1>2, <2>6 DEF CloneInv, HandledInv
  <2>8. \A c \in Blobs : c.path # None
    BY BlobPath
  <2>9. OnceInv'
    BY <1>1, <1>2, <1>4, <2>1, <2>2, <2>3, <2>8 DEF CloneInv, OnceInv
  <2>10. QED BY <1>2, <1>3, <2>5, <2>7, <2>9 DEF CloneInv
<1>7. QED BY <1>5, <1>6
\* A batch is asked for: what the server does not leave out is to be downloaded.
LEMMA FetchClones ==
    ASSUME CloneInv, Fetch, pc' = "download", MappedInv'
    PROVE  CloneInv'
<1> DEFINE Reply(f) == [content |-> Pointer[files[f]], path |-> f]
           paths == {buffer[i] : i \in DOMAIN buffer}
           wanted == {Reply(f) : f \in {g \in paths : files[g] \in DOMAIN Pointer}}
<1>1. /\ UNCHANGED <<stack, dirs, files, place, root, deltas, lister, attrs, found, channel, closed>>
      /\ UNCHANGED <<packVars, walkVars, listVars>>
      /\ pc = "fetch" /\ buffer' = <<>> /\ todo = {} /\ lister # "none"
      /\ paths = Range(buffer)
  BY DEF Fetch, CloneInv, StageInv, ListInv, walkVars, packVars, listVars, Range
<1>2. PICK omitted \in SUBSET {w.content : w \in wanted} :
        todo' = {w \in wanted : w.content \notin omitted} /\ bad' = bad \cup omitted
  BY DEF Fetch
<1>3. /\ DirInv' /\ StackInv'
      /\ Blobs' = Blobs /\ Attributed' = Attributed /\ Tracked' = Tracked
      /\ \A p : Matched(p)' = Matched(p)
      /\ \A c : IsPointer(c)' = IsPointer(c)
      /\ \A g : MatchedOnce(g)' = MatchedOnce(g)
      /\ FileInv'
  BY <1>1, <1>2, SameTree, SameFiles
<1>4. StageInv'
  BY <1>1, <1>3 DEF CloneInv, StageInv, Extracting, Indexing
<1>5. Range(buffer') = {} /\ \A S : buffer' \in Seq(S)
  BY <1>1, NoneRange
<1>6. \A w \in todo' : w.path \in Range(buffer)
  BY <1>1, <1>2
<1> HIDE DEF paths
<1>7. ASSUME NEW f \in Range(buffer), NEW c \in Blobs, c.path = f, files[f] \in DOMAIN Pointer
      PROVE  IsPointer(c) /\ files[f] = c.object
  <2>1. f \in Tracked /\ f \in DOMAIN files
    BY PathFacts
  <2>2. files[f] = c.object
    BY <1>7, <2>1, PointerAssumption DEF CloneInv, FileInv, IsPointer
  <2>3. QED BY <1>7, <2>1, <2>2 DEF IsPointer
<1>8. ASSUME NEW w \in todo'
      PROVE  \E c \in Blobs : IsPointer(c) /\ w = [content |-> Pointer[c.object], path |-> c.path]
  <2>1. PICK f \in Range(buffer) : files[f] \in DOMAIN Pointer /\ w = Reply(f)
    BY <1>1, <1>2
  <2>2. PICK c \in Blobs : c.path = f
    BY PathFacts DEF CloneInv, FileInv
  <2>3. QED BY <1>7, <2>1, <2>2
<1>9. ListInv'
  BY <1>1, <1>3, <1>5, <1>8 DEF CloneInv, ListInv, Sent
<1>10. ASSUME NEW c \in Blobs, IsPointer(c), Handled(c)
       PROVE  Handled(c)'
  <2>1. CASE c.path \in Range(buffer)
    <3>1. c.path \in DOMAIN files
      BY <2>1, PathFacts
    <3>2. CASE files[c.path] = c.object
      <4>1. Reply(c.path) \in wanted /\ Reply(c.path).content = Pointer[c.object] /\ Reply(c.path).path = c.path
        BY <1>1, <1>10, <2>1, <3>2 DEF IsPointer
      <4>2. CASE Pointer[c.object] \in omitted
        BY <1>2, <4>2 DEF Handled
      <4>3. CASE Pointer[c.object] \notin omitted
        <5>1. Reply(c.path) \in todo'
          BY <1>2, <4>1, <4>3
        <5>2. QED BY <4>1, <5>1 DEF Handled
      <4>4. QED BY <4>2, <4>3
    <3>3. CASE files[c.path] # c.object
      BY <1>1, <1>2, <3>1, <3>3 DEF CloneInv, FileInv, Handled
    <3>4. QED BY <3>2, <3>3
  <2>2. CASE c.path \notin Range(buffer)
    BY <1>1, <1>2, <1>3, <1>10, <2>2 DEF Handled
  <2>3. QED BY <2>1, <2>2
<1>11. HandledInv'
  BY <1>1, <1>3, <1>10 DEF CloneInv, HandledInv
<1>12. \A c : Fresh(c) /\ c.path \notin Range(buffer) => Fresh(c)'
  BY <1>1, <1>6 DEF Fresh
<1>13. OnceInv'
  BY <1>1, <1>3, <1>5, <1>12 DEF CloneInv, OnceInv
<1>14. QED BY <1>1, <1>3, <1>4, <1>9, <1>11, <1>13 DEF CloneInv

\* The files of one content are replaced.
LEMMA DownloadClones ==
    ASSUME CloneInv, Download, MappedInv'
    PROVE  CloneInv'
<1>1. /\ UNCHANGED <<packVars, stack, dirs, place, root, deltas, lister, attrs, found, channel, closed, buffer, pc>>
      /\ pc = "download" /\ lister # "none" /\ buffer = <<>>
  BY DEF Download, CloneInv, StageInv, ListInv, packVars, listVars
<1>2. PICK w \in todo, ok \in BOOLEAN :
        /\ files' = [f \in DOMAIN files |->
                        IF [w EXCEPT !.path = f] \notin todo THEN files[f]
                        ELSE IF ok THEN w.content ELSE "page"]
        /\ todo' = {v \in todo : v.content # w.content}
        /\ bad' = IF ok THEN bad ELSE bad \cup {w.content}
  BY DEF Download
<1>3. DOMAIN files' = DOMAIN files
  BY <1>2
<1>4. /\ DirInv' /\ StackInv'
      /\ Blobs' = Blobs /\ Attributed' = Attributed /\ Tracked' = Tracked
      /\ \A p : Matched(p)' = Matched(p)
      /\ \A c : IsPointer(c)' = IsPointer(c)
      /\ \A g : MatchedOnce(g)' = MatchedOnce(g)
  BY <1>1, <1>3, SameTree
<1>5. StageInv'
  BY <1>1, <1>4 DEF CloneInv, StageInv, Extracting, Indexing
<1>6. ListInv'
  BY <1>1, <1>2, <1>4 DEF CloneInv, ListInv, Sent
<1>7. \A v \in todo : \E c \in Blobs : IsPointer(c) /\ v = [content |-> Pointer[c.object], path |-> c.path]
  BY DEF CloneInv, ListInv
<1>8. ASSUME NEW c \in Blobs, c.path \in DOMAIN files
      PROVE  \/ files'[c.path] = files[c.path] /\ \A v \in todo : v.path = c.path => v \in todo'
             \/ /\ IsPointer(c) /\ \E v \in todo : v.path = c.path
                /\ \/ files'[c.path] = Pointer[c.object]
                   \/ files'[c.path] = "page" /\ Pointer[c.object] \in bad'
  <2> DEFINE v == [content |-> w.content, path |-> c.path]
  <2>1. PICK b \in Blobs : w = [content |-> Pointer[b.object], path |-> b.path]
    BY <1>7
  <2>2. [w EXCEPT !.path = c.path] = v
    BY <2>1
  <2>3. CASE v \notin todo
    <3>1. files'[c.path] = files[c.path]
      BY <1>2, <1>8, <2>2, <2>3
    <3>2. ASSUME NEW u \in todo, u.path = c.path PROVE u \in todo'
      <4>1. PICK b2 \in Blobs : u = [content |-> Pointer[b2.object], path |-> b2.path]
        BY <1>7
      <4>2. u.content # w.content
        BY <2>3, <3>2, <4>1
      <4>3. QED BY <1>2, <4>2
    <3>3. QED BY <3>1, <3>2
  <2>4. CASE v \in todo
    <3>1. PICK b3 \in Blobs : IsPointer(b3) /\ v = [content |-> Pointer[b3.object], path |-> b3.path]
      BY <1>7, <2>4
    <3>2. b3.path = c.path /\ w.content = Pointer[b3.object] /\ v.path = c.path
      BY <3>1
    <3>3. b3 = c
      BY <3>2, BlobsDiffer DEF CloneInv
    <3>4. files'[c.path] = IF ok THEN w.content ELSE "page"
      BY <1>2, <1>8, <2>2, <2>4
    <3>5. QED BY <1>2, <2>4, <3>1, <3>2, <3>3, <3>4
  <2>5. QED BY <2>3, <2>4
<1>9. bad \subseteq bad' /\ todo' \subseteq todo
  BY <1>2
<1>10. FileInv'
  <2>1. ASSUME NEW c \in Blobs, c.path \in DOMAIN files
        PROVE  \/ files'[c.path] = c.object
               \/ /\ IsPointer(c)
                  /\ \/ files'[c.path] = Pointer[c.object]
                     \/ files'[c.path] = "page" /\ Pointer[c.object] \in bad'
    BY <1>8, <1>9, <2>1 DEF CloneInv, FileInv
  <2>2. QED BY <1>1, <1>3, <1>4, <2>1 DEF CloneInv, FileInv
<1>11. ASSUME NEW c \in Blobs, IsPointer(c), Handled(c)
       PROVE  Handled(c)'
  <2>1. c.path \in DOMAIN files
    BY <1>11, PathFacts DEF IsPointer
  <2>2. QED BY <1>1, <1>4, <1>8, <1>9, <1>11, <2>1 DEF Handled
<1>12. HandledInv'
  BY <1>1, <1>4, <1>11 DEF CloneInv, HandledInv
<1>13. ASSUME NEW c \in Blobs, c.path \in Tracked, Fresh(c) PROVE Fresh(c)'
  <2>1. c.path \in DOMAIN files
    BY <1>13, PathFacts
  <2>2. QED BY <1>8, <1>9, <1>13, <2>1 DEF Fresh
<1>14. OnceInv'
  <2>1. /\ Range(channel) \subseteq Tracked \cup {None} /\ Range(buffer) \subseteq Tracked
        /\ found \subseteq Tracked /\ attrs \subseteq Attributed
    BY PathFacts DEF CloneInv, ListInv
  <2>2. \A d \in attrs : Matched(d) \subseteq Tracked
    BY <2>1 DEF Tracked
  <2>3. \A c \in Blobs : c.path # None
    BY BlobPath
  <2>4. ASSUME NEW c \in Blobs, NEW i \in DOMAIN channel, channel[i] = c.path
        PROVE  c.path \in Tracked
    BY <2>1, <2>3, <2>4 DEF Range
  <2>5. QED BY <1>1, <1>4, <1>13, <2>1, <2>2, <2>4 DEF CloneInv, OnceInv
<1>15. QED BY <1>1, <1>4, <1>5, <1>6, <1>10, <1>12, <1>14 DEF CloneInv

LEMMA ReceiveClones ==
    ASSUME CloneInv, Receive, MappedInv'
    PROVE  CloneInv'
<1>1. UNCHANGED <<packVars, walkVars, listVars, closed, todo, bad>> /\ pc = "receive"
  BY DEF Receive
<1>2. CASE channel # <<>> /\ Head(channel) # None
  <2>1. /\ channel' = Tail(channel) /\ buffer' = Append(buffer, Head(channel))
        /\ pc' \in {"receive", "fetch"}
    BY <1>2 DEF Receive
  <2>2. QED BY <1>1, <1>2, <2>1, TakeFileClones
<1>3. CASE channel = <<>> \/ Head(channel) = None
  <2>1. /\ pc' = "close" /\ UNCHANGED buffer
        /\ \/ channel # <<>> /\ Head(channel) = None /\ channel' = Tail(channel)
           \/ lister = "failed" /\ UNCHANGED channel
    BY <1>3 DEF Receive
  <2>2. QED BY <1>1, <2>1, TakeNoneClones
<1>4. QED BY <1>2, <1>3

LEMMA NextClones == CloneInv /\ [Next]_vars => CloneInv'
<1> SUFFICES ASSUME CloneInv, [Next]_vars PROVE CloneInv'
  OBVIOUS
<1>1. MappedInv'
  BY NextMapped DEF CloneInv
<1>2. CASE Extract /\ UNCHANGED lfsVars
  BY <1>1, <1>2, IndexClones, OpenClones, WalkClones, EndWalkClones DEF Extract
<1>3. CASE Authenticate \/ Close \/ AwaitList \/ EndFetch
  <2>1. UNCHANGED <<packVars, walkVars, listVars, channel, buffer, todo, bad>>
    BY <1>3 DEF Authenticate, Close, AwaitList, EndFetch, lfsVars
  <2>2. QED BY <1>1, <1>3, <2>1, MoveClones
<1>4. CASE Fetch
  <2>1. pc' \in {"failed", "download"}
    BY <1>4 DEF Fetch
  <2>2. CASE pc' = "failed"
    <3>1. UNCHANGED <<packVars, walkVars, listVars, channel, buffer, todo, bad>>
      BY <1>4, <2>2 DEF Fetch
    <3>2. QED BY <1>1, <1>4, <2>2, <3>1, MoveClones
  <2>3. QED BY <1>1, <1>4, <2>1, <2>2, FetchClones
<1>5. CASE CloneError \/ UNCHANGED vars
  <2>1. UNCHANGED <<packVars, walkVars, listVars, channel, buffer, todo, bad>>
    BY <1>5 DEF CloneError, vars, extractVars, lfsVars
  <2>2. QED BY <1>1, <1>5, <2>1, MoveClones
<1>6. CASE Detect \/ Receive \/ Download
  BY <1>1, <1>6, DetectClones, ReceiveClones, DownloadClones
<1>7. CASE List \/ ListError
  BY <1>1, <1>7, ListClones, SendClones, EndListClones DEF List
<1>8. QED BY <1>2, <1>3, <1>4, <1>5, <1>6, <1>7 DEF Next, Clone

\* At the end no item is left, so every directory and file of the commit is
\* there, and nothing is left to fetch, so every pointer has been handled.
LEMMA CloneInvSuffices == CloneInv => CloneIsExact
<1> SUFFICES ASSUME CloneInv, pc = "done"
             PROVE  /\ Complete
                    /\ \E d \in dirs : d.path = <<>> /\ d.tree = root
                    /\ \A c \in Checkout :
                        /\ c.kind = "tree" => [path |-> c.path, tree |-> c.object] \in dirs
                        /\ c.kind = "blob" =>
                            /\ c.path \in DOMAIN files
                            /\ Wanted(c) \in bad \/ files[c.path] = Wanted(c)
                    /\ \A f \in DOMAIN files : \E c \in Checkout : c.kind = "blob" /\ c.path = f
  BY DEF CloneIsExact, CloneInv
<1>1. /\ deltas = {} /\ place[root] # 0 /\ [path |-> <<>>, tree |-> root] \in dirs
      /\ stack = <<>> /\ DirInv
  BY DEF CloneInv, StageInv, Indexing
<1>2. Range(stack) = {}
  BY <1>1, NoneRange
<1>3. \A d \in dirs : Items[d.tree] # <<>> /\ \A m \in ItemsOf(d) : Walked(d, m)
  BY <1>2 DEF CloneInv, StackInv, Left
<1>4. ASSUME NEW c \in Checkout
      PROVE  /\ c.kind # "submodule" /\ place[c.object] # 0
             /\ c.kind = "tree" => [path |-> c.path, tree |-> c.object] \in dirs
             /\ c.kind = "blob" => c.path \in DOMAIN files
  <2>1. PICK d \in dirs : \E m \in ItemsOf(d) : c = ItemAt(d, m)
    BY CheckoutIs
  <2>2. PICK m \in ItemsOf(d) : c = ItemAt(d, m)
    BY <2>1
  <2>3. QED BY <1>3, <2>2 DEF Walked, ItemAt, DirOf
<1>5. Complete
  BY <1>1, <1>3, <1>4 DEF Complete
<1>6. \E d \in dirs : d.path = <<>> /\ d.tree = root
  BY <1>1
<1>7. \A f \in DOMAIN files : \E c \in Checkout : c.kind = "blob" /\ c.path = f
  BY DEF CloneInv, FileInv, Blobs
<1>8. ASSUME NEW c \in Blobs
      PROVE  Wanted(c) \in bad \/ files[c.path] = Wanted(c)
  <2>1. c.path \in DOMAIN files
    BY <1>4 DEF Blobs
  <2>2. CASE IsPointer(c)
    <3>1. Attributed # {}
      BY <2>2 DEF IsPointer, Tracked
    <3>2. Sent /\ buffer = <<>> /\ todo = {} /\ lister # "none"
      BY <3>1 DEF CloneInv, ListInv
    <3>3. Handled(c)
      BY <2>2, <3>2 DEF CloneInv, HandledInv
    <3>4. Range(buffer) = {} /\ c.path \notin Range(channel) /\ attrs = {} /\ found = {}
      BY <3>2, NoneRange, BlobPath DEF Sent
    <3>5. files[c.path] = Pointer[c.object] \/ Pointer[c.object] \in bad
      BY <3>2, <3>3, <3>4 DEF Handled
    <3>6. QED BY <2>2, <3>5 DEF Wanted, IsPointer
  <2>3. CASE ~IsPointer(c)
    BY <2>1, <2>3 DEF CloneInv, FileInv, Wanted, IsPointer
  <2>4. QED BY <2>2, <2>3
<1>9. QED BY <1>4, <1>5, <1>6, <1>7, <1>8 DEF Blobs


-----------------------------------------------------------------------------
(***************************************************************************)
(* The theorems.                                                           *)
(***************************************************************************)

\* MappedInv holds in every state: the index names only what is in the file,
\* and outside of a batch only what is mapped.
THEOREM MappedInvariant == Spec => []MappedInv
<1>1. QED BY InitMapped, NextMapped, PTL DEF Spec

\* A delta of a batch and its parent are mapped when it is reconstructed
\* (local_pack_file_reader.rs:306 and 307 do not panic), whatever the pack is.
THEOREM BatchesAreMapped == Spec => []BatchIsMapped
<1>1. MappedInv => BatchIsMapped
  <2> SUFFICES ASSUME MappedInv PROVE BatchIsMapped
    OBVIOUS
  <2>1. Len(pack) \in Nat /\ DOMAIN pack = 1..Len(pack) /\ mapped \in Nat /\ Len(pack) <= mapped
    BY PackType DEF MappedInv, PlaceTypes
  <2>2. \A b \in batch : pc = "reconstruct" => b.delta <= mapped /\ b.parent <= mapped
    BY <2>1 DEF MappedInv
  <2>3. QED BY <2>2 DEF MappedInv, BatchIsMapped
<1>2. QED BY <1>1, MappedInvariant, PTL

\* A clone that ends well has every directory and file of the commit, with
\* what lfs stands for in place of its pointers but for what the server did not
\* give, and nothing else; one that fails without an error cannot be done
\* (extract, and download of git/lfs.rs).  However the task that lists the files
\* and the call that takes them interleave.
THEOREM ClonesAreExact == Spec => []CloneIsExact
<1>1. QED BY InitClone, NextClones, CloneInvSuffices, PTL DEF Spec
=============================================================================
