----------------------- MODULE SourceRefresh_proofs -------------------------
(***************************************************************************)
(* Proofs about SourceRefresh: for any number of callers, layer sets,      *)
(* branches and commits, a refresh that ends well has done all it had to   *)
(* do, and no layer is above the last_layer_id of its layer set.           *)
(***************************************************************************)
EXTENDS SourceRefresh, TLAPS

-----------------------------------------------------------------------------
(***************************************************************************)
(* What the other callers leave as it is.                                  *)
(***************************************************************************)

\* Layer sets and layers stay as they are when others are added.
Grows ==
    /\ DOMAIN sets \subseteq DOMAIN sets'
    /\ \A n \in DOMAIN sets : sets'[n] = sets[n]
    /\ layers \subseteq layers'

LEMMA CallStays ==
    ASSUME NEW c \in Caller, CallInv(c), Grows, call'[c] = call[c]
    PROVE  CallInv(c)'
<1>1. call[c].sets \subseteq DOMAIN sets /\ call[c].todo \subseteq call[c].sets
  BY DEF CallInv
<1>2. \A n \in call[c].sets : sets'[n] = sets[n]
  BY <1>1 DEF Grows
<1>3. \A n \in call[c].sets : HasListed(c, n) => HasListed(c, n)'
  BY <1>2 DEF HasListed, Grows
<1>4. call[c].pc \in {"read", "set", "create"} => call[c].name \in call[c].sets
  BY DEF CallInv
<1>5. call'[c].sets \subseteq DOMAIN sets'
  BY <1>1 DEF Grows
<1>6. \A n \in call'[c].sets : sets'[n] # None
  BY <1>2 DEF CallInv
<1>7. call'[c].pc \in {"read", "set", "create"} =>
         /\ call'[c].name \in call'[c].sets
         /\ call'[c].listed[sets'[call'[c].name]] # None
  BY <1>2, <1>4 DEF CallInv
<1>8. call'[c].pc \in {"next", "read", "set", "create", "done"} =>
         \A n \in call'[c].sets :
            \/ call'[c].listed[sets'[n]] = None
            \/ n \in call'[c].todo
            \/ call'[c].pc \in {"read", "set", "create"} /\ n = call'[c].name
            \/ HasListed(c, n)'
  BY <1>2, <1>3 DEF CallInv
<1>9. call'[c].pc \in {"next", "read", "set", "create"} =>
         \A n \in call'[c].todo : call'[c].listed[sets'[n]] # None
  BY <1>1, <1>2 DEF CallInv
<1>10. QED BY <1>1, <1>5, <1>6, <1>7, <1>8, <1>9 DEF CallInv

\* A step of one call.
LEMMA OneCall ==
    ASSUME RefreshInv, NEW c \in Caller, NEW new \in Call, Becomes(c, new),
           Grows, source' = source, sets' = sets, head' = head, last' \in [Name -> 0..MaxLayerId],
           layers' \subseteq [name : Name, id : 1..MaxLayerId, commit : Commit],
           drawn' \subseteq 1..MaxLayerId, CallInv(c)'
    PROVE  RefreshInv'
<1>1. TypeOK'
  BY DEF RefreshInv, TypeOK, Becomes
<1>2. \A d \in Caller : d # c => call'[d] = call[d]
  BY DEF RefreshInv, TypeOK, Becomes
<1>3. \A d \in Caller : d # c => CallInv(d)'
  BY <1>2, CallStays DEF RefreshInv
<1>4. QED BY <1>1, <1>3 DEF RefreshInv

\* A step of one call that changes no table.
LEMMA QuietCall ==
    ASSUME RefreshInv, NEW c \in Caller, NEW new \in Call, Becomes(c, new),
           UNCHANGED <<head, tableVars>>, drawn' \subseteq 1..MaxLayerId, CallInv(c)'
    PROVE  RefreshInv'
<1>1. UNCHANGED <<source, sets, last, layers>>
  BY DEF tableVars
<1>2. Grows
  BY <1>1 DEF Grows
<1>3. /\ last \in [Name -> 0..MaxLayerId]
      /\ layers \subseteq [name : Name, id : 1..MaxLayerId, commit : Commit]
  BY DEF RefreshInv, TypeOK
<1>4. QED BY <1>1, <1>2, <1>3, OneCall

LEMMA CallOf ==
    ASSUME RefreshInv, NEW c \in Caller
    PROVE  CallInv(c) /\ call[c] \in Call
BY DEF RefreshInv, TypeOK

LEMMA NewCall ==
    ASSUME RefreshInv, NEW c \in Caller, NEW new, Becomes(c, new)
    PROVE  call'[c] = new
BY DEF RefreshInv, TypeOK, Becomes

\* A call that is idle or has failed has nothing to keep.
LEMMA IdleCall ==
    ASSUME RefreshInv, NEW c \in Caller, call'[c].pc \in {"idle", "failed", "list"},
           call'[c].sets \subseteq DOMAIN sets', \A n \in call'[c].sets : sets'[n] # None,
           call'[c].todo \subseteq call'[c].sets
    PROVE  CallInv(c)'
BY DEF CallInv

-----------------------------------------------------------------------------
(***************************************************************************)
(* The steps.                                                              *)
(***************************************************************************)

LEMMA InitRefresh == Init => RefreshInv
<1> SUFFICES ASSUME Init PROVE RefreshInv
  OBVIOUS
<1>1. Idle \in Call
  BY IdAssumption DEF Idle, Call
<1>2. TypeOK
  <2>1. source \in BOOLEAN /\ DOMAIN sets = {}
    BY DEF Init
  <2>2. sets \in [{} -> Ref \cup {None}]
    BY DEF Init
  <2>3. last \in [Name -> 0..MaxLayerId]
    BY IdAssumption DEF Init
  <2>4. call \in [Caller -> Call]
    BY <1>1 DEF Init
  <2>5. QED BY <2>1, <2>2, <2>3, <2>4 DEF Init, TypeOK
<1>3. ASSUME NEW c \in Caller PROVE CallInv(c)
  BY DEF Init, CallInv, Idle
<1>4. QED BY <1>2, <1>3 DEF RefreshInv

\* A call that fails.
LEMMA FailedInv ==
    ASSUME RefreshInv, NEW c \in Caller, Fails(c), UNCHANGED <<head, tableVars, drawn>>
    PROVE  RefreshInv'
<1> DEFINE new == [Idle EXCEPT !.pc = "failed"]
<1>1. Becomes(c, new) /\ new \in Call
  BY IdAssumption DEF Fails, Idle, Call
<1>2. call'[c] = new
  BY <1>1, NewCall
<1>3. new.pc = "failed" /\ new.sets = {} /\ new.todo = {}
  BY DEF Idle
<1> HIDE DEF new
<1>4. CallInv(c)'
  BY <1>2, <1>3, IdleCall
<1>5. drawn' \subseteq 1..MaxLayerId
  BY DEF RefreshInv, TypeOK
<1>6. QED BY <1>1, <1>4, <1>5, QuietCall

LEMMA BeginRefreshInv ==
    ASSUME RefreshInv, NEW c \in Caller, BeginRefresh(c)
    PROVE  RefreshInv'
<1>1. UNCHANGED <<head, tableVars, drawn>> /\ sets' = sets
  BY DEF BeginRefresh, tableVars
<1>2. Idle \in Call /\ DOMAIN sets \subseteq Name /\ drawn' \subseteq 1..MaxLayerId
  BY <1>1, IdAssumption DEF Idle, Call, RefreshInv, TypeOK
<1>3. CASE Fails(c)
  BY <1>1, <1>3, FailedInv
<1>4. CASE Becomes(c, [Idle EXCEPT !.pc = "list", !.sets = {n \in DOMAIN sets : sets[n] # None}])
  <2>1. [Idle EXCEPT !.pc = "list", !.sets = {n \in DOMAIN sets : sets[n] # None}] \in Call
    BY <1>2, IdAssumption DEF Idle, Call
  <2>2. /\ call'[c].pc = "list" /\ call'[c].todo = {}
        /\ call'[c].sets = {n \in DOMAIN sets : sets[n] # None}
    BY <1>4, NewCall DEF Idle
  <2>3. CallInv(c)'
    BY <1>1, <2>2, IdleCall
  <2>4. QED BY <1>1, <1>2, <1>4, <2>1, <2>3, QuietCall
<1>5. QED BY <1>3, <1>4 DEF BeginRefresh

\* The branches that are listed are where they were in the repository.
LEMMA ListingType ==
    ASSUME head \in [Ref -> Commit \cup {None}]
    PROVE  Listing \in [Ref -> Commit \cup {None}]
BY DEF Listing

LEMMA GitListLatestInv ==
    ASSUME RefreshInv, NEW c \in Caller, GitListLatest(c)
    PROVE  RefreshInv'
<1>1. PICK listing \in [Ref -> Commit \cup {None}] : listing = Listing
  BY ListingType DEF RefreshInv, TypeOK
<1> DEFINE todo == {n \in call[c].sets : listing[sets[n]] # None}
<1> DEFINE new == [call[c] EXCEPT !.pc = "next", !.listed = listing, !.todo = todo]
<1>2. /\ call[c].pc = "list" /\ Becomes(c, new)
      /\ UNCHANGED <<head, tableVars, drawn>> /\ UNCHANGED <<sets, layers>>
  BY <1>1 DEF GitListLatest, tableVars
<1>3. CallInv(c) /\ call[c] \in Call /\ drawn' \subseteq 1..MaxLayerId
  BY <1>2, CallOf DEF RefreshInv, TypeOK
<1>4. new \in Call
  BY <1>3 DEF Call
<1>5. /\ new.pc = "next" /\ new.sets = call[c].sets /\ new.listed = listing /\ new.todo = todo
  BY <1>3 DEF Call
<1>6. call'[c] = new
  BY <1>2, NewCall
<1> HIDE DEF new
<1>7. CallInv(c)'
  BY <1>2, <1>3, <1>5, <1>6 DEF CallInv
<1>8. QED BY <1>2, <1>3, <1>4, <1>7, QuietCall

LEMMA GetLastLayerIdInv ==
    ASSUME RefreshInv, NEW c \in Caller, GetLastLayerId(c)
    PROVE  RefreshInv'
<1>1. PICK n \in call[c].todo :
        Becomes(c, [call[c] EXCEPT !.pc = "read", !.name = n, !.last = last[n], !.todo = @ \ {n}])
  BY DEF GetLastLayerId
<1> DEFINE new == [call[c] EXCEPT !.pc = "read", !.name = n, !.last = last[n], !.todo = call[c].todo \ {n}]
<1>2. /\ call[c].pc = "next" /\ UNCHANGED <<head, tableVars, drawn>> /\ UNCHANGED <<sets, layers>>
  BY DEF GetLastLayerId, tableVars
<1>3. CallInv(c) /\ call[c] \in Call /\ last \in [Name -> 0..MaxLayerId] /\ drawn' \subseteq 1..MaxLayerId
  BY <1>2, CallOf DEF RefreshInv, TypeOK
<1>4. Becomes(c, new)
  BY <1>1, <1>3 DEF Call
<1>5. n \in Name /\ n \in call[c].sets /\ call[c].listed[sets[n]] # None
  BY <1>2, <1>3 DEF Call, CallInv
<1>6. new \in Call
  BY <1>3, <1>5 DEF Call
<1>7. /\ new.pc = "read" /\ new.sets = call[c].sets /\ new.listed = call[c].listed
      /\ new.name = n /\ new.todo = call[c].todo \ {n}
  BY <1>3 DEF Call
<1>8. call'[c] = new
  BY <1>4, NewCall
<1> HIDE DEF new
<1>9. \A m : HasListed(c, m)' = HasListed(c, m)
  BY <1>2, <1>7, <1>8 DEF HasListed
<1>10. CallInv(c)'
  BY <1>2, <1>3, <1>5, <1>7, <1>8, <1>9 DEF CallInv
<1>11. QED BY <1>2, <1>3, <1>4, <1>6, <1>10, QuietCall

\* A call that is done with a layer set, or with all of them.
LEMMA LeavesCall ==
    ASSUME RefreshInv, NEW c \in Caller, NEW how \in {"next", "done"}, Leaves(c, how)
    PROVE  /\ \E new \in Call : Becomes(c, new)
           /\ call'[c].pc = how /\ call'[c].sets = call[c].sets
           /\ call'[c].listed = call[c].listed /\ call'[c].todo = call[c].todo
<1> DEFINE new == [call[c] EXCEPT !.pc = how, !.name = None, !.last = 0, !.id = 0]
<1>1. call[c] \in Call /\ 0 \in 0..MaxLayerId
  BY CallOf, IdAssumption
<1>2. new \in Call
  BY <1>1 DEF Call
<1>3. Becomes(c, new)
  BY DEF Leaves
<1>4. call'[c] = new
  BY <1>3, NewCall
<1>5. QED BY <1>1, <1>2, <1>3, <1>4 DEF Call

LEMMA GetLastLayerInv ==
    ASSUME RefreshInv, NEW c \in Caller, GetLastLayer(c)
    PROVE  RefreshInv'
<1>1. call[c].pc = "read" /\ UNCHANGED <<head, tableVars>> /\ UNCHANGED <<sets, layers>>
  BY DEF GetLastLayer, tableVars
<1>2. CASE Fails(c) /\ UNCHANGED drawn
  BY <1>1, <1>2, FailedInv
<1>3. CASE NewLayerId(c)
  <2>1. PICK id \in 1..MaxLayerId :
          drawn' = drawn \cup {id} /\ Becomes(c, [call[c] EXCEPT !.pc = "set", !.last = 0, !.id = id])
    BY <1>3 DEF NewLayerId
  <2> DEFINE new == [call[c] EXCEPT !.pc = "set", !.last = 0, !.id = id]
  <2>2. CallInv(c) /\ call[c] \in Call /\ drawn \subseteq 1..MaxLayerId
    BY CallOf DEF RefreshInv, TypeOK
  <2>3. 0 \in 0..MaxLayerId /\ id \in 0..MaxLayerId /\ id # 0 /\ drawn' \subseteq 1..MaxLayerId
    BY <2>1, <2>2, IdAssumption
  <2>4. new \in Call
    BY <2>2, <2>3 DEF Call
  <2>5. /\ new.pc = "set" /\ new.sets = call[c].sets /\ new.listed = call[c].listed
        /\ new.name = call[c].name /\ new.todo = call[c].todo /\ new.id = id
    BY <2>2 DEF Call
  <2>6. call'[c] = new
    BY <2>1, NewCall
  <2>7. Becomes(c, new)
    BY <2>1
  <2> HIDE DEF new
  <2>8. \A m : HasListed(c, m)' = HasListed(c, m)
    BY <1>1, <2>5, <2>6 DEF HasListed
  <2>9. CallInv(c)'
    BY <1>1, <2>2, <2>3, <2>5, <2>6, <2>8 DEF CallInv
  <2>10. QED BY <1>1, <2>3, <2>4, <2>7, <2>9, QuietCall
<1>4. QED BY <1>2, <1>3 DEF GetLastLayer

LEMMA SetLastLayerIdInv ==
    ASSUME RefreshInv, NEW c \in Caller, SetLastLayerId(c)
    PROVE  RefreshInv'
<1>1. call[c].pc = "set" /\ UNCHANGED <<head, source, sets, layers, drawn>>
  BY DEF SetLastLayerId
<1>2. CallInv(c) /\ call[c] \in Call /\ last \in [Name -> 0..MaxLayerId]
      /\ drawn' \subseteq 1..MaxLayerId
      /\ layers' \subseteq [name : Name, id : 1..MaxLayerId, commit : Commit]
  BY <1>1, CallOf DEF RefreshInv, TypeOK
<1>3. CASE Fails(c) /\ UNCHANGED last
  <2>1. UNCHANGED <<head, tableVars, drawn>>
    BY <1>1, <1>3 DEF tableVars
  <2>2. QED BY <1>3, <2>1, FailedInv
<1>4. CASE /\ last' = [last EXCEPT ![call[c].name] = call[c].id]
           /\ Becomes(c, [call[c] EXCEPT !.pc = "create"])
  <2> DEFINE new == [call[c] EXCEPT !.pc = "create"]
  <2>1. Becomes(c, new) /\ new \in Call
    BY <1>2, <1>4 DEF Call
  <2>2. /\ new.pc = "create" /\ new.sets = call[c].sets /\ new.listed = call[c].listed
        /\ new.todo = call[c].todo /\ new.name = call[c].name /\ new.id = call[c].id
    BY <1>2 DEF Call
  <2>3. call'[c] = new
    BY <2>1, NewCall
  <2> HIDE DEF new
  <2>4. last' \in [Name -> 0..MaxLayerId] /\ Grows
    BY <1>1, <1>2, <1>4 DEF Call, Grows
  <2>5. \A m : HasListed(c, m)' = HasListed(c, m)
    BY <1>1, <2>2, <2>3 DEF HasListed
  <2>6. CallInv(c)'
    BY <1>1, <1>2, <2>2, <2>3, <2>5 DEF CallInv
  <2>7. QED BY <1>1, <1>2, <2>1, <2>4, <2>6, OneCall
<1>5. QED BY <1>3, <1>4 DEF SetLastLayerId

LEMMA CreateLayerInv ==
    ASSUME RefreshInv, NEW c \in Caller, CreateLayer(c)
    PROVE  RefreshInv'
<1> DEFINE l == [name |-> call[c].name, id |-> call[c].id, commit |-> CommitOf(c)]
<1>1. /\ call[c].pc = "create" /\ Leaves(c, "next") /\ layers' = layers \cup {l}
      /\ UNCHANGED <<head, source, sets, last, drawn>>
  BY DEF CreateLayer
<1>2. CallInv(c) /\ call[c] \in Call /\ last' \in [Name -> 0..MaxLayerId]
      /\ drawn' \subseteq 1..MaxLayerId
  BY <1>1, CallOf DEF RefreshInv, TypeOK
<1>3. /\ \E new \in Call : Becomes(c, new)
      /\ call'[c].pc = "next" /\ call'[c].sets = call[c].sets
      /\ call'[c].listed = call[c].listed /\ call'[c].todo = call[c].todo
  BY <1>1, LeavesCall
<1>4. PICK n \in call[c].sets : n = call[c].name
  BY <1>1, <1>2 DEF CallInv
<1>5. HasListed(c, n)' /\ \A m : HasListed(c, m) => HasListed(c, m)'
  <2>1. l.name = n /\ l.commit = call'[c].listed[sets'[n]] /\ l \in layers'
    BY <1>1, <1>3, <1>4 DEF CommitOf
  <2> HIDE DEF l
  <2>2. HasListed(c, n)'
    BY <2>1 DEF HasListed
  <2>3. \A m : HasListed(c, m) => HasListed(c, m)'
    BY <1>1, <1>3 DEF HasListed
  <2>4. QED BY <2>2, <2>3
<1>6. CallInv(c)'
  BY <1>1, <1>2, <1>3, <1>4, <1>5 DEF CallInv
<1>7. l \in [name : Name, id : 1..MaxLayerId, commit : Commit]
  <2>1. sets[n] \in Ref /\ n \in Name
    BY <1>2 DEF CallInv, RefreshInv, TypeOK
  <2>2. CommitOf(c) \in Commit
    BY <1>1, <1>2, <1>4, <2>1 DEF CommitOf, CallInv, Call
  <2>3. call[c].id \in 1..MaxLayerId
    <3>1. PICK i \in 0..MaxLayerId : i = call[c].id
      BY <1>2 DEF Call
    <3>2. i # 0
      BY <1>1, <1>2, <3>1 DEF CallInv
    <3>3. QED BY <3>1, <3>2
  <2>4. QED BY <1>4, <2>1, <2>2, <2>3
<1> HIDE DEF l
<1>8. layers' \subseteq [name : Name, id : 1..MaxLayerId, commit : Commit]
  BY <1>1, <1>7 DEF RefreshInv, TypeOK
<1>9. Grows
  BY <1>1 DEF Grows
<1>10. QED BY <1>1, <1>2, <1>3, <1>6, <1>8, <1>9, OneCall

LEMMA EndRefreshInv ==
    ASSUME RefreshInv, NEW c \in Caller, EndRefresh(c)
    PROVE  RefreshInv'
<1>1. /\ call[c].pc = "next" /\ call[c].todo = {} /\ Leaves(c, "done")
      /\ UNCHANGED <<head, tableVars, drawn>> /\ UNCHANGED <<sets, layers>>
  BY DEF EndRefresh, tableVars
<1>2. CallInv(c) /\ drawn' \subseteq 1..MaxLayerId /\ UNCHANGED <<head, tableVars>>
  BY <1>1, CallOf DEF RefreshInv, TypeOK
<1>3. /\ \E new \in Call : Becomes(c, new)
      /\ call'[c].pc = "done" /\ call'[c].sets = call[c].sets
      /\ call'[c].listed = call[c].listed /\ call'[c].todo = call[c].todo
  BY <1>1, LeavesCall
<1>4. \A m : HasListed(c, m)' = HasListed(c, m)
  BY <1>1, <1>3 DEF HasListed
<1>5. CallInv(c)'
  BY <1>1, <1>2, <1>3, <1>4 DEF CallInv
<1>6. QED BY <1>2, <1>3, <1>5, QuietCall

LEMMA ReturnInv ==
    ASSUME RefreshInv, NEW c \in Caller, Return(c)
    PROVE  RefreshInv'
<1>1. Becomes(c, Idle) /\ UNCHANGED <<head, tableVars>> /\ drawn' = drawn
  BY DEF Return
<1>2. Idle \in Call /\ drawn \subseteq 1..MaxLayerId
  BY IdAssumption DEF Idle, Call, RefreshInv, TypeOK
<1>3. call'[c] = Idle
  BY <1>1, NewCall
<1>4. CallInv(c)'
  BY <1>3, IdleCall DEF Idle
<1>5. QED BY <1>1, <1>2, <1>4, QuietCall

\* The calls that change a table, and the repository.
LEMMA TableInv ==
    ASSUME RefreshInv, Push \/ \E c \in Caller : CreateSource(c) \/ CreateLayerSet(c)
    PROVE  RefreshInv'
<1>1. UNCHANGED <<last, layers, drawn, call>>
  BY DEF Push, CreateSource, CreateLayerSet, tableVars
<1>2. Grows /\ TypeOK'
  <2>1. CASE Push
    <3>1. UNCHANGED <<source, sets>>
      BY <2>1 DEF Push, tableVars
    <3>2. head' \in [Ref -> Commit \cup {None}]
      BY <2>1 DEF Push, RefreshInv, TypeOK
    <3>3. QED BY <1>1, <3>1, <3>2 DEF Grows, RefreshInv, TypeOK
  <2>2. CASE \E c \in Caller : CreateSource(c)
    BY <1>1, <2>2 DEF CreateSource, Grows, RefreshInv, TypeOK
  <2>3. CASE \E c \in Caller : CreateLayerSet(c)
    <3>1. PICK n \in Name, follows \in Ref \cup {None} :
            sets' = IF n \in DOMAIN sets THEN sets
                    ELSE [m \in DOMAIN sets \cup {n} |-> IF m = n THEN follows ELSE sets[m]]
      BY <2>3 DEF CreateLayerSet
    <3>2. UNCHANGED <<head, source>>
      BY <2>3 DEF CreateLayerSet
    <3>3. DOMAIN sets \subseteq Name /\ sets \in [DOMAIN sets -> Ref \cup {None}]
      BY DEF RefreshInv, TypeOK
    <3>4. /\ DOMAIN sets' = DOMAIN sets \cup {n}
          /\ \A m \in DOMAIN sets : sets'[m] = sets[m]
          /\ sets' \in [DOMAIN sets' -> Ref \cup {None}]
      BY <3>1, <3>3
    <3>5. Grows
      BY <1>1, <3>4 DEF Grows
    <3>6. TypeOK'
      BY <1>1, <3>2, <3>3, <3>4 DEF RefreshInv, TypeOK
    <3>7. QED BY <3>5, <3>6
  <2>4. QED BY <2>1, <2>2, <2>3
<1>3. \A c \in Caller : CallInv(c)'
  BY <1>1, <1>2, CallStays DEF RefreshInv
<1>4. QED BY <1>2, <1>3 DEF RefreshInv

LEMMA NextRefresh == RefreshInv /\ [Next]_vars => RefreshInv'
<1> SUFFICES ASSUME RefreshInv, [Next]_vars PROVE RefreshInv'
  OBVIOUS
<1>1. CASE Push \/ \E c \in Caller : CreateSource(c) \/ CreateLayerSet(c)
  BY <1>1, TableInv
<1>2. ASSUME NEW c \in Caller, Refresh(c) PROVE RefreshInv'
  BY <1>2, BeginRefreshInv, GitListLatestInv, GetLastLayerIdInv, GetLastLayerInv,
     SetLastLayerIdInv, CreateLayerInv, EndRefreshInv DEF Refresh
<1>3. ASSUME NEW c \in Caller, RefreshError(c) PROVE RefreshInv'
  BY <1>3, FailedInv DEF RefreshError
<1>4. ASSUME NEW c \in Caller, Return(c) PROVE RefreshInv'
  BY <1>4, ReturnInv
<1>5. CASE UNCHANGED vars
  <2>1. UNCHANGED <<head, source, sets, last, layers, drawn, call>>
    BY <1>5 DEF vars, tableVars
  <2>2. TypeOK'
    BY <2>1 DEF RefreshInv, TypeOK
  <2>3. Grows
    BY <2>1 DEF Grows
  <2>4. \A c \in Caller : CallInv(c)'
    BY <2>1, <2>3, CallStays DEF RefreshInv
  <2>5. QED BY <2>2, <2>4 DEF RefreshInv
<1>6. QED BY <1>1, <1>2, <1>3, <1>4, <1>5 DEF Next

-----------------------------------------------------------------------------
(***************************************************************************)
(* last_layer_id and the layers.                                           *)
(***************************************************************************)

\* One step of a call.
LEMMA OtherCalls ==
    ASSUME RefreshInv, NEW c \in Caller, NEW new, Becomes(c, new)
    PROVE  call'[c] = new /\ \A d \in Caller : d # c => call'[d] = call[d]
BY DEF RefreshInv, TypeOK, Becomes

\* Nothing is inserted, and nothing is about to be that was not before.
LEMMA QuietLayers ==
    ASSUME LastLayerIdCovers, UNCHANGED <<last, layers>>,
           \A c \in Caller : call'[c].pc = "create" => call'[c] = call[c]
    PROVE  LastLayerIdCovers'
BY DEF LastLayerIdCovers

\* A call comes to a stage other than that of the insert.
LEMMA FreeCall ==
    ASSUME RefreshInv, LastLayerIdCovers, NEW c \in Caller, NEW new, Becomes(c, new),
           new.pc # "create", UNCHANGED <<last, layers>>
    PROVE  LastLayerIdCovers'
<1>1. call'[c] = new /\ \A d \in Caller : d # c => call'[d] = call[d]
  BY OtherCalls
<1>2. QED BY <1>1, QuietLayers

\* last_layer_id is only raised, and to the id of the layer that is next.
LEMMA SetLastLayerIdCovers ==
    ASSUME RefreshInv, LastLayerIdCovers, NEW c \in Caller, SetLastLayerId(c)
    PROVE  LastLayerIdCovers'
<1>1. call[c].pc = "set" /\ layers' = layers
  BY DEF SetLastLayerId
<1>2. CASE Fails(c) /\ UNCHANGED last
  <2>1. [Idle EXCEPT !.pc = "failed"].pc # "create"
    BY DEF Idle
  <2>2. QED BY <1>1, <1>2, <2>1, FreeCall DEF Fails
<1>3. CASE /\ last[call[c].name] < call[c].id
           /\ last' = [last EXCEPT ![call[c].name] = call[c].id]
           /\ Becomes(c, [call[c] EXCEPT !.pc = "create"])
  <2>1. call'[c].name = call[c].name /\ call'[c].id = call[c].id
    BY <1>3, NewCall, CallOf DEF Call
  <2>2. \A d \in Caller : d # c => call'[d] = call[d]
    BY <1>3, OtherCalls
  <2>3. last \in [Name -> 0..MaxLayerId] /\ call[c].id \in 0..MaxLayerId
    BY CallOf DEF RefreshInv, TypeOK, Call
  <2>4. \A n \in Name : last[n] <= last'[n]
    BY <1>3, <2>3, IdAssumption
  <2>5. ASSUME NEW l \in layers PROVE l.id <= last'[l.name]
    <3>1. l.name \in Name /\ l.id \in 1..MaxLayerId /\ l.id <= last[l.name]
      BY DEF LastLayerIdCovers, RefreshInv, TypeOK
    <3>2. last[l.name] \in Nat /\ last'[l.name] \in Nat
      BY <1>3, <2>3, <3>1, IdAssumption
    <3>3. QED BY <2>4, <3>1, <3>2, IdAssumption
  <2>6. ASSUME NEW d \in Caller, call'[d].pc = "create" PROVE call'[d].id <= last'[call'[d].name]
    <3>1. CASE d = c
      <4>1. call[c].name \in Name
        BY <1>1, CallOf DEF CallInv, RefreshInv, TypeOK
      <4>2. QED BY <1>3, <2>1, <2>3, <3>1, <4>1, IdAssumption
    <3>2. CASE d # c
      <4>1. call[d].pc = "create" /\ call'[d] = call[d]
        BY <2>2, <2>6, <3>2
      <4>2. call[d].id <= last[call[d].name] /\ call[d].name \in Name /\ call[d].id \in 0..MaxLayerId
        BY <4>1, CallOf DEF CallInv, Call, LastLayerIdCovers, RefreshInv, TypeOK
      <4>3. last[call[d].name] \in Nat /\ last'[call[d].name] \in Nat
        BY <1>3, <2>3, <4>2, IdAssumption
      <4>4. QED BY <2>4, <4>1, <4>2, <4>3, IdAssumption
    <3>3. QED BY <3>1, <3>2
  <2>7. QED BY <1>1, <2>5, <2>6 DEF LastLayerIdCovers
<1>4. QED BY <1>2, <1>3 DEF SetLastLayerId

LEMMA CreateLayerCovers ==
    ASSUME RefreshInv, LastLayerIdCovers, NEW c \in Caller, CreateLayer(c)
    PROVE  LastLayerIdCovers'
<1> DEFINE l == [name |-> call[c].name, id |-> call[c].id, commit |-> CommitOf(c)]
<1>1. /\ call[c].pc = "create" /\ Leaves(c, "next") /\ layers' = layers \cup {l}
      /\ last' = last
  BY DEF CreateLayer
<1>2. l.id <= last[l.name]
  BY <1>1 DEF LastLayerIdCovers
<1> HIDE DEF l
<1>3. call'[c].pc = "next" /\ \A d \in Caller : d # c => call'[d] = call[d]
  BY <1>1, LeavesCall, OtherCalls DEF Leaves
<1>4. QED BY <1>1, <1>2, <1>3 DEF LastLayerIdCovers

LEMMA NextCovers == RefreshInv /\ LastLayerIdCovers /\ [Next]_vars => LastLayerIdCovers'
<1> SUFFICES ASSUME RefreshInv, LastLayerIdCovers, [Next]_vars PROVE LastLayerIdCovers'
  OBVIOUS
<1>1. CASE UNCHANGED <<last, layers, call>>
  BY <1>1, QuietLayers
<1>2. CASE UNCHANGED vars \/ Push \/ \E c \in Caller : CreateSource(c) \/ CreateLayerSet(c)
  BY <1>1, <1>2 DEF Push, CreateSource, CreateLayerSet, tableVars, vars
<1>3. ASSUME NEW c \in Caller,
             \/ BeginRefresh(c) \/ GitListLatest(c) \/ GetLastLayerId(c) \/ GetLastLayer(c)
             \/ EndRefresh(c) \/ RefreshError(c) \/ Return(c)
      PROVE  LastLayerIdCovers'
  <2>1. UNCHANGED <<last, layers>>
    BY <1>3 DEF BeginRefresh, GitListLatest, GetLastLayerId, GetLastLayer, EndRefresh,
                RefreshError, Return, tableVars
  <2>2. PICK new : Becomes(c, new) /\ new.pc # "create"
    <3>1. call[c] \in Call
      BY CallOf
    <3>2. ASSUME NEW how \in {"list", "next", "read", "set", "done", "failed", "idle"},
                 NEW new, new.pc = how, Becomes(c, new)
          PROVE  \E any : Becomes(c, any) /\ any.pc # "create"
      BY <3>2
    <3>3. CASE Fails(c)
      <4>1. [Idle EXCEPT !.pc = "failed"].pc = "failed"
        BY DEF Idle
      <4>2. QED BY <3>2, <3>3, <4>1 DEF Fails
    <3>4. CASE BeginRefresh(c) /\ ~Fails(c)
      <4>1. [Idle EXCEPT !.pc = "list", !.sets = {n \in DOMAIN sets : sets[n] # None}].pc = "list"
        BY DEF Idle
      <4>2. QED BY <3>2, <3>4, <4>1 DEF BeginRefresh
    <3>5. CASE Return(c)
      <4>1. Idle.pc = "idle"
        BY DEF Idle
      <4>2. QED BY <3>2, <3>5, <4>1 DEF Return
    <3>6. CASE GitListLatest(c)
      <4>1. PICK new : new = [call[c] EXCEPT !.pc = "next", !.listed = Listing,
                                !.todo = {n \in call[c].sets : Listing[sets[n]] # None}]
        OBVIOUS
      <4>2. new.pc = "next"
        BY <3>1, <4>1 DEF Call
      <4>3. QED BY <3>2, <3>6, <4>1, <4>2 DEF GitListLatest
    <3>7. CASE GetLastLayerId(c)
      <4>1. PICK n \in call[c].todo :
              Becomes(c, [call[c] EXCEPT !.pc = "read", !.name = n, !.last = last[n], !.todo = @ \ {n}])
        BY <3>7 DEF GetLastLayerId
      <4>2. [call[c] EXCEPT !.pc = "read", !.name = n, !.last = last[n], !.todo = @ \ {n}].pc = "read"
        BY <3>1 DEF Call
      <4>3. QED BY <3>2, <4>1, <4>2
    <3>8. CASE GetLastLayer(c) /\ ~Fails(c)
      <4>1. PICK id \in 1..MaxLayerId : Becomes(c, [call[c] EXCEPT !.pc = "set", !.last = 0, !.id = id])
        BY <3>8 DEF GetLastLayer, NewLayerId
      <4>2. [call[c] EXCEPT !.pc = "set", !.last = 0, !.id = id].pc = "set"
        BY <3>1 DEF Call
      <4>3. QED BY <3>2, <4>1, <4>2
    <3>9. CASE EndRefresh(c)
      <4>1. [call[c] EXCEPT !.pc = "done", !.name = None, !.last = 0, !.id = 0].pc = "done"
        BY <3>1 DEF Call
      <4>2. QED BY <3>2, <3>9, <4>1 DEF EndRefresh, Leaves
    <3>10. QED BY <1>3, <3>3, <3>4, <3>5, <3>6, <3>7, <3>8, <3>9 DEF RefreshError
  <2>3. QED BY <2>1, <2>2, FreeCall
<1>4. QED BY <1>2, <1>3, SetLastLayerIdCovers, CreateLayerCovers DEF Next, Refresh

-----------------------------------------------------------------------------
(***************************************************************************)
(* The theorems.                                                           *)
(***************************************************************************)

\* The inductive invariant: types, and what a call has done for each of the
\* layer sets of refresh_source when it comes to a stage.
THEOREM RefreshInvariant == Spec => []RefreshInv
BY InitRefresh, NextRefresh, PTL DEF Spec

\* refresh_source: one that ends well has left a layer of the listed commit
\* in every layer set that followed its ref, however many refreshes run.
THEOREM RefreshesAreComplete == Spec => []RefreshIsComplete
<1>1. RefreshInv => RefreshIsComplete
  BY DEF RefreshInv, CallInv, HasListed, RefreshIsComplete
<1>2. QED BY <1>1, RefreshInvariant, PTL

\* set_last_layer_id (layers.rs:344) only raises, and comes before the insert:
\* get_last_layer, which asks for layers up to last_layer_id, overlooks none,
\* in whatever order ids are drawn and layers inserted.
THEOREM LastLayerIdsCover == Spec => []LastLayerIdCovers
<1>1. Init => LastLayerIdCovers
  BY DEF Init, LastLayerIdCovers, Idle
<1>2. QED BY <1>1, NextCovers, RefreshInvariant, PTL DEF Spec

=============================================================================
