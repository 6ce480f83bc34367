------------------------- MODULE AcmeOrders_proofs --------------------------
(***************************************************************************)
(* Proofs about AcmeOrders: for any number of processes, domains and       *)
(* orders, a challenge can be found when it is looked up, orders of a      *)
(* process are a day apart and a name keeps its certificate.               *)
(***************************************************************************)
EXTENDS AcmeOrders, TLAPS

-----------------------------------------------------------------------------
(***************************************************************************)
(* What the other processes leave as it is.                                *)
(***************************************************************************)

\* Rows that are recent are recorded; those that are new are by one process.
RowsGrow(s) ==
    /\ orders \subseteq orders' /\ domains \subseteq domains'
    /\ \A r \in recent' : r \in recent \/ r.by = s

LEMMA ChallengesStay ==
    ASSUME NEW d, orders \subseteq orders'
    PROVE  Challenges(d) \subseteq Challenges(d)'
BY DEF Challenges

LEMMA StageStays ==
    ASSUME NEW s, NEW t \in Server, t # s, RowsGrow(s), StageInv(t),
           pc'[t] = pc[t], domain'[t] = domain[t], order'[t] = order[t]
    PROVE  StageInv(t)'
<1>1. PICK d : d = domain[t]
  OBVIOUS
<1>2. Challenges(d) \subseteq Challenges(d)'
  BY ChallengesStay DEF RowsGrow
<1>3. Challenges(domain[t]) \subseteq Challenges(domain[t])'
  BY <1>1, <1>2 DEF Challenges
<1>4. QED BY <1>3 DEF StageInv, RowsGrow

\* A step of one process.
LEMMA OneProcess ==
    ASSUME AcmeInv, NEW s \in Server, RowsGrow(s), StageInv(s)',
           \A t \in Server : t # s =>
             pc'[t] = pc[t] /\ domain'[t] = domain[t] /\ order'[t] = order[t]
    PROVE  \A t \in Server : StageInv(t)'
<1> SUFFICES ASSUME NEW t \in Server, t # s PROVE StageInv(t)'
  OBVIOUS
<1>1. StageInv(t)
  BY DEF AcmeInv
<1>2. QED BY <1>1, StageStays

\* What is said about rows does not change with them.
RowsInv == OrdersApart /\ validated \subseteq domains /\ OneOwner

LEMMA RowsStay ==
    ASSUME AcmeInv, UNCHANGED rowVars
    PROVE  RowsInv'
BY DEF AcmeInv, RowsInv, OrdersApart, OneOwner, Rivals, rowVars

-----------------------------------------------------------------------------
(***************************************************************************)
(* The client.                                                             *)
(***************************************************************************)

LEMMA ClientTypes ==
    ASSUME ClientTypeOK, NEW s \in Server,
           Connect(s) \/ RetryPost(s) \/ Accept(s) \/ Fail(s) \/ UNCHANGED clientVars
    PROVE  ClientTypeOK'
<1>1. CASE Connect(s) \/ Accept(s)
  BY <1>1 DEF Connect, Accept, ClientTypeOK
<1>2. CASE RetryPost(s)
  BY <1>2 DEF RetryPost, ClientTypeOK
<1>3. CASE Fail(s)
  BY <1>3 DEF Fail, ClientTypeOK
<1>4. CASE UNCHANGED clientVars
  BY <1>4 DEF clientVars, ClientTypeOK
<1>5. QED BY <1>1, <1>2, <1>3, <1>4

-----------------------------------------------------------------------------
(***************************************************************************)
(* The steps of a process.                                                 *)
(***************************************************************************)

Stages == Asking \cup {"poll", "record", "recordValid", "store", "stopped"}

ServiceTypes ==
    /\ pc \in [Server -> Stages]
    /\ domain \in [Server -> Domain \cup {None}]
    /\ order \in [Server -> Order]
    /\ made \in 0..MaxOrders

RowTypes ==
    /\ orders \subseteq Row
    /\ recent \subseteq orders
    /\ domains \subseteq Domain
    /\ certificate \in [Domain -> {"none", "good", "due"}]
    /\ validated \subseteq Domain

LEMMA Types == TypeOK <=> ClientTypeOK /\ ServiceTypes /\ RowTypes
BY DEF TypeOK, ServiceTypes, RowTypes, Stages

LEMMA TypesNext == TypeOK' <=> (ClientTypeOK' /\ ServiceTypes' /\ RowTypes')
BY DEF TypeOK, ServiceTypes, RowTypes, Stages

LEMMA NoOrderType == NoOrder \in Order /\ ~NoOrder.accepted
BY OrdersAssumption DEF NoOrder, Order

LEMMA InitAcme == Init => AcmeInv
<1> SUFFICES ASSUME Init PROVE AcmeInv
  OBVIOUS
<1>1. ClientTypeOK
  BY DEF Init, ClientInit, ClientTypeOK
<1>2. ServiceTypes
  BY NoOrderType, OrdersAssumption DEF Init, ServiceTypes, Stages
<1>3. RowTypes
  BY DEF Init, RowTypes
<1>4. ASSUME NEW s \in Server PROVE StageInv(s)
  BY NoOrderType DEF Init, StageInv
<1>5. OrdersApart /\ validated \subseteq domains /\ OneOwner
  BY DEF Init, OrdersApart, OneOwner
<1>6. QED BY <1>1, <1>2, <1>3, <1>4, <1>5, Types DEF AcmeInv

\* The end of process_domain.
LEMMA EndsInv ==
    ASSUME AcmeInv, NEW s \in Server, NEW stage \in {"poll", "stopped"}, Leaves(s, stage),
           RowsGrow(s), made' \in 0..MaxOrders
    PROVE  ServiceTypes' /\ \A t \in Server : StageInv(t)'
<1>1. ServiceTypes
  BY Types DEF AcmeInv
<1>2. ServiceTypes'
  BY <1>1, NoOrderType DEF Leaves, ServiceTypes, Stages
<1>3. /\ pc'[s] = stage /\ order'[s] = NoOrder
      /\ \A t \in Server : t # s => pc'[t] = pc[t] /\ domain'[t] = domain[t] /\ order'[t] = order[t]
  BY <1>1 DEF Leaves, ServiceTypes
<1>4. StageInv(s)'
  BY <1>3, NoOrderType DEF StageInv
<1>5. QED BY <1>2, <1>3, <1>4, OneProcess

LEMMA PollInv ==
    ASSUME AcmeInv, NEW s \in Server, Poll(s)
    PROVE  AcmeInv'
<1>1. PICK d \in Domain : Needs(d) /\ domain' = [domain EXCEPT ![s] = d]
  BY DEF Poll
<1>2. pc[s] = "poll" /\ pc' = [pc EXCEPT ![s] = "order"] /\ UNCHANGED <<clientVars, order, rowVars, made>>
  BY DEF Poll
<1>3. ServiceTypes /\ RowTypes /\ ClientTypeOK /\ StageInv(s)
  BY Types DEF AcmeInv
<1>4. ServiceTypes'
  BY <1>1, <1>2, <1>3 DEF ServiceTypes, Stages, Asking
<1>5. /\ pc'[s] = "order" /\ domain'[s] = d /\ order'[s] = order[s]
      /\ \A t \in Server : t # s => pc'[t] = pc[t] /\ domain'[t] = domain[t] /\ order'[t] = order[t]
  BY <1>1, <1>2, <1>3 DEF ServiceTypes
<1>6. RowsGrow(s) /\ UNCHANGED <<orders, recent, domains>>
  BY <1>2 DEF RowsGrow, rowVars
<1>7. StageInv(s)'
  BY <1>1, <1>2, <1>3, <1>5, <1>6 DEF StageInv, Needs
<1>8. \A t \in Server : StageInv(t)'
  BY <1>5, <1>6, <1>7, OneProcess
<1>9. RowTypes' /\ ClientTypeOK'
  BY <1>2, <1>3 DEF RowTypes, ClientTypeOK, rowVars, clientVars
<1>10. RowsInv'
  BY <1>2, RowsStay
<1>11. QED BY <1>4, <1>8, <1>9, <1>10, TypesNext DEF AcmeInv, RowsInv

LEMMA PollErrorInv ==
    ASSUME AcmeInv, NEW s \in Server, PollError(s)
    PROVE  AcmeInv'
<1>1. pc[s] = "poll" /\ pc' = [pc EXCEPT ![s] = "stopped"] /\ UNCHANGED <<clientVars, domain, order, rowVars, made>>
  BY DEF PollError
<1>2. ServiceTypes /\ RowTypes /\ ClientTypeOK /\ StageInv(s)
  BY Types DEF AcmeInv
<1>3. ServiceTypes'
  BY <1>1, <1>2 DEF ServiceTypes, Stages
<1>4. pc'[s] = "stopped" /\ \A t \in Server : t # s => pc'[t] = pc[t]
  BY <1>1, <1>2 DEF ServiceTypes
<1>5. RowsGrow(s) /\ UNCHANGED <<orders, recent, domains>>
  BY <1>1 DEF RowsGrow, rowVars
<1>6. StageInv(s)'
  BY <1>1, <1>2, <1>4 DEF StageInv
<1>7. \A t \in Server : StageInv(t)'
  BY <1>1, <1>4, <1>5, <1>6, OneProcess
<1>8. RowTypes' /\ ClientTypeOK'
  BY <1>1, <1>2 DEF RowTypes, ClientTypeOK, rowVars, clientVars
<1>9. RowsInv'
  BY <1>1, RowsStay
<1>10. QED BY <1>3, <1>7, <1>8, <1>9, TypesNext DEF AcmeInv, RowsInv

\* Steps that end process_domain, and change no row.
LEMMA QuietEnd ==
    ASSUME AcmeInv, NEW s \in Server, NEW stage \in {"poll", "stopped"}, Leaves(s, stage),
           UNCHANGED rowVars, made' \in 0..MaxOrders, ClientTypeOK'
    PROVE  AcmeInv'
<1>1. RowsGrow(s)
  BY DEF RowsGrow, rowVars
<1>2. ServiceTypes' /\ \A t \in Server : StageInv(t)'
  BY <1>1, EndsInv
<1>3. RowTypes'
  BY Types DEF AcmeInv, RowTypes, rowVars
<1>4. RowsInv'
  BY RowsStay
<1>5. QED BY <1>2, <1>3, <1>4, TypesNext DEF AcmeInv, RowsInv

\* An answer makes one order at most.
LEMMA MadeType ==
    ASSUME AcmeInv, NEW s \in Server, UNCHANGED made \/ (CanHandle(s) /\ Makes(s))
    PROVE  made' \in 0..MaxOrders
<1>1. made \in 0..MaxOrders
  BY DEF AcmeInv, TypeOK
<1>2. QED BY <1>1, OrdersAssumption DEF CanHandle, Makes

\* Which stage comes after an answer, and with which order.
LEMMA AfterAnswer ==
    ASSUME AcmeInv, NEW s \in Server, pc[s] \in Asking, CanHandle(s), NEW o \in Handled(s)
    PROVE  /\ o \in Order
           /\ After(pc[s], o.status) \in Stages \ {"order", "accept", "stopped"}
           /\ After(pc[s], o.status) \in {"record", "recordValid"} => pc[s] = "authorize"
           /\ After(pc[s], o.status) = "authorize" => pc[s] = "order"
           /\ pc[s] = "order" => o.id # 0 /\ ~o.accepted
           /\ pc[s] # "order" => o.id = order[s].id
           /\ pc[s] \notin {"order", "accept"} => o.accepted = order[s].accepted
<1>1. order[s] \in Order /\ made \in 0..MaxOrders
  BY DEF AcmeInv, TypeOK
<1>2. /\ After(pc[s], o.status) \in Stages \ {"order", "accept", "stopped"}
      /\ After(pc[s], o.status) \in {"record", "recordValid"} => pc[s] = "authorize"
      /\ After(pc[s], o.status) = "authorize" => pc[s] = "order"
  BY DEF After, Asking, Stages
<1>3. CASE pc[s] = "order"
  <2>1. PICK t \in {"pending", "ready"} : o = [id |-> made + 1, accepted |-> FALSE, status |-> t]
    BY <1>3 DEF Handled
  <2>2. made + 1 \in 0..MaxOrders /\ made + 1 # 0
    BY <1>1, <1>3, OrdersAssumption DEF CanHandle
  <2>3. o \in Order /\ o.id # 0 /\ ~o.accepted
    BY <2>1, <2>2 DEF Order
  <2>4. QED BY <1>2, <1>3, <2>3
<1>4. CASE pc[s] = "accept"
  <2>1. o = [order[s] EXCEPT !.accepted = TRUE]
    BY <1>4 DEF Handled
  <2>2. o \in Order /\ o.id = order[s].id
    BY <1>1, <2>1 DEF Order
  <2>3. QED BY <1>2, <1>4, <2>2
<1>5. CASE pc[s] = "finalize"
  <2>1. o = [order[s] EXCEPT !.status = "processing"]
    BY <1>5 DEF Handled
  <2>2. o \in Order /\ o.id = order[s].id /\ o.accepted = order[s].accepted
    BY <1>1, <2>1 DEF Order
  <2>3. QED BY <1>2, <1>5, <2>2
<1>6. CASE pc[s] \notin {"order", "accept", "finalize"}
  <2>1. o = order[s]
    BY <1>6 DEF Handled
  <2>2. QED BY <1>1, <1>2, <1>6, <2>1
<1>7. QED BY <1>3, <1>4, <1>5, <1>6

LEMMA AnsweredInv ==
    ASSUME AcmeInv, NEW s \in Server, Answered(s)
    PROVE  AcmeInv'
<1>1. PICK o \in Handled(s) :
        IF After(pc[s], o.status) = "poll" THEN Ends(s)
        ELSE /\ pc' = [pc EXCEPT ![s] = After(pc[s], o.status)]
             /\ order' = [order EXCEPT ![s] = o]
             /\ UNCHANGED domain
  BY DEF Answered
<1>2. pc[s] \in Asking /\ CanHandle(s) /\ Accept(s) /\ Makes(s) /\ UNCHANGED rowVars
  BY DEF Answered
<1>3. made' \in 0..MaxOrders /\ ClientTypeOK'
  BY <1>2, MadeType, ClientTypes, Types DEF AcmeInv
<1>4. CASE After(pc[s], o.status) = "poll"
  BY <1>1, <1>2, <1>3, <1>4, QuietEnd DEF Ends
<1>5. CASE After(pc[s], o.status) # "poll"
  <2>1. PICK stage \in Stages \ {"order", "accept", "stopped", "poll"} :
          /\ pc' = [pc EXCEPT ![s] = stage]
          /\ stage \in {"record", "recordValid"} => pc[s] = "authorize"
          /\ stage = "authorize" => pc[s] = "order"
    BY <1>1, <1>2, <1>5, AfterAnswer
  <2>2. order' = [order EXCEPT ![s] = o] /\ domain' = domain /\ o \in Order
    BY <1>1, <1>2, <1>5, AfterAnswer
  <2>3. ServiceTypes /\ RowTypes /\ StageInv(s)
    BY Types DEF AcmeInv
  <2>4. ServiceTypes'
    BY <1>3, <2>1, <2>2, <2>3 DEF ServiceTypes
  <2>5. /\ pc'[s] = stage /\ order'[s] = o
        /\ \A t \in Server : t # s => pc'[t] = pc[t] /\ domain'[t] = domain[t] /\ order'[t] = order[t]
    BY <2>1, <2>2, <2>3 DEF ServiceTypes
  <2>6. RowsGrow(s) /\ UNCHANGED <<orders, recent, domains>>
    BY <1>2 DEF RowsGrow, rowVars
  <2>7. /\ pc[s] = "order" => o.id # 0 /\ ~o.accepted
        /\ pc[s] # "order" => o.id = order[s].id
        /\ pc[s] \notin {"order", "accept"} => o.accepted = order[s].accepted
    BY <1>2, AfterAnswer
  <2>8. pc[s] \notin {"poll", "stopped"}
    BY <1>2 DEF Asking
  <2>9. o.accepted => o.id \in Challenges(domain[s])
    BY <2>3, <2>7 DEF StageInv
  <2>10. Challenges(domain[s])' = Challenges(domain[s])
    BY <2>2, <2>6 DEF Challenges
  <2>11. StageInv(s)'
    BY <2>1, <2>2, <2>3, <2>5, <2>6, <2>7, <2>8, <2>9, <2>10 DEF StageInv
  <2>12. \A t \in Server : StageInv(t)'
    BY <2>5, <2>6, <2>11, OneProcess
  <2>13. RowTypes'
    BY <1>2, <2>3 DEF RowTypes, rowVars
  <2>14. RowsInv'
    BY <1>2, RowsStay
  <2>15. QED BY <1>3, <2>4, <2>12, <2>13, <2>14, TypesNext DEF AcmeInv, RowsInv
<1>6. QED BY <1>4, <1>5

LEMMA RefusedInv ==
    ASSUME AcmeInv, NEW s \in Server,
           Refused(s) \/ CallError(s) \/ NoCertificate(s) \/ Restart(s)
    PROVE  AcmeInv'
<1>1. (Leaves(s, "poll") \/ Leaves(s, "stopped")) /\ UNCHANGED rowVars
  BY DEF Refused, CallError, NoCertificate, Restart, Ends
<1>2. Accept(s) \/ Fail(s) \/ Connect(s)
  BY DEF Refused, CallError, NoCertificate, Restart
<1>3. UNCHANGED made \/ (CanHandle(s) /\ Makes(s))
  BY DEF Refused, CallError, NoCertificate, Restart
<1>4. ClientTypeOK'
  BY <1>2, ClientTypes, Types DEF AcmeInv
<1>5. made' \in 0..MaxOrders
  BY <1>3, MadeType
<1>6. QED BY <1>1, <1>4, <1>5, QuietEnd

LEMMA BadNonceInv ==
    ASSUME AcmeInv, NEW s \in Server, BadNonce(s)
    PROVE  AcmeInv'
<1>1. RetryPost(s) /\ UNCHANGED <<pc, domain, order, rowVars, made>> /\ UNCHANGED <<orders, recent, domains>>
  BY DEF BadNonce, serviceVars, rowVars
<1>2. ClientTypeOK'
  BY <1>1, ClientTypes, Types DEF AcmeInv
<1>3. ServiceTypes' /\ RowTypes'
  BY <1>1, Types DEF AcmeInv, ServiceTypes, RowTypes, rowVars
<1>4. \A t \in Server : StageInv(t)'
  BY <1>1 DEF AcmeInv, StageInv, Challenges
<1>5. RowsInv'
  BY <1>1, RowsStay
<1>6. QED BY <1>2, <1>3, <1>4, <1>5, TypesNext DEF AcmeInv, RowsInv

\* The order is recorded with its challenge.
LEMMA RecordedInv ==
    ASSUME AcmeInv, NEW s \in Server, pc[s] \in {"record", "recordValid"},
           NEW row, row = [order |-> order[s].id, domain |-> domain[s], by |-> s],
           orders' = orders \cup {row}, recent' = recent \cup {row},
           Goes(s, IF pc[s] = "recordValid" THEN "get" ELSE "accept"),
           UNCHANGED <<clientVars, domains, certificate, validated, made>>
    PROVE  AcmeInv'
<1>1. ServiceTypes /\ RowTypes /\ ClientTypeOK /\ StageInv(s) /\ RowsInv
  BY Types DEF AcmeInv, RowsInv
<1>2. PICK stage \in {"get", "accept"} : pc' = [pc EXCEPT ![s] = stage]
  BY DEF Goes
<1>3. UNCHANGED <<domain, order>>
  BY DEF Goes
<1>4. ServiceTypes'
  BY <1>1, <1>2, <1>3 DEF ServiceTypes, Stages, Asking
<1>5. pc'[s] = stage /\ \A t \in Server : t # s => pc'[t] = pc[t]
  BY <1>1, <1>2 DEF ServiceTypes
<1>6. row \in Row
  <2>1. order[s] \in Order /\ order[s].id # 0 /\ domain[s] \in Domain
    BY <1>1 DEF ServiceTypes, RowTypes, StageInv
  <2>2. order[s].id \in 0..MaxOrders
    BY <2>1 DEF Order
  <2>3. order[s].id \in 1..MaxOrders
    <3>1. PICK i \in 0..MaxOrders : i = order[s].id
      BY <2>2
    <3>2. i \in 1..MaxOrders
      BY <2>1, <3>1
    <3>3. QED BY <3>1, <3>2
  <2>4. QED BY <2>1, <2>3 DEF Row
<1>7. RowTypes'
  BY <1>1, <1>6 DEF RowTypes
<1>8. row.by = s /\ row.domain = domain[s] /\ row.order = order[s].id
  OBVIOUS
<1>9. RowsGrow(s)
  BY <1>8 DEF RowsGrow
<1>10. \A r \in recent : ~(r.domain = domain[s] /\ r.by = s)
  BY <1>1 DEF StageInv
<1>11. order[s].id \in Challenges(domain[s])'
  <2>1. row \in orders' /\ row.domain = domain'[s]
    BY <1>3, <1>8
  <2>2. row.order \in Challenges(domain[s])'
    BY <2>1 DEF Challenges
  <2>3. QED BY <1>8, <2>2
<1>12. StageInv(s)'
  BY <1>1, <1>2, <1>3, <1>5, <1>11 DEF StageInv
<1>13. \A t \in Server : StageInv(t)'
  BY <1>3, <1>5, <1>9, <1>12, OneProcess
<1>14. OrdersApart'
  BY <1>1, <1>8, <1>10 DEF RowsInv, OrdersApart
<1>15. (validated \subseteq domains)' /\ OneOwner'
  BY <1>1 DEF RowsInv, OneOwner, Rivals
<1>16. ClientTypeOK'
  BY <1>1 DEF ClientTypeOK, clientVars
<1>17. QED BY <1>4, <1>7, <1>13, <1>14, <1>15, <1>16, TypesNext DEF AcmeInv

LEMMA RecordInv ==
    ASSUME AcmeInv, NEW s \in Server, Record(s)
    PROVE  AcmeInv'
<1>1. pc[s] \in {"record", "recordValid"} /\ UNCHANGED <<clientVars, domains, certificate, validated, made>>
  BY DEF Record
<1>2. CASE UNCHANGED <<orders, recent>> /\ Ends(s)
  <2>1. UNCHANGED rowVars
    BY <1>1, <1>2 DEF rowVars
  <2>2. ClientTypeOK' /\ made' \in 0..MaxOrders
    BY <1>1, Types DEF AcmeInv, ClientTypeOK, clientVars, ServiceTypes
  <2>3. QED BY <1>2, <2>1, <2>2, QuietEnd DEF Ends
<1>3. CASE ~(UNCHANGED <<orders, recent>> /\ Ends(s))
  <2>1. PICK row : /\ row = [order |-> order[s].id, domain |-> domain[s], by |-> s]
                   /\ orders' = orders \cup {row} /\ recent' = recent \cup {row}
                   /\ Goes(s, IF pc[s] = "recordValid" THEN "get" ELSE "accept")
    BY <1>3 DEF Record
  <2>2. QED BY <1>1, <2>1, RecordedInv
<1>4. QED BY <1>2, <1>3

\* The name of the domain has it as the validated one.
LEMMA OwnerStays ==
    ASSUME OneOwner, validated \subseteq domains, NEW d \in domains, domains \subseteq Domain,
           certificate \in [Domain -> {"none", "good", "due"}],
           certificate' = [certificate EXCEPT ![d] = "good"],
           validated' = (validated \ Rivals(d)) \cup {d}, domains' = domains
    PROVE  OneOwner' /\ validated' \subseteq domains'
<1>1. \A e \in Domain : certificate'[e] = IF e = d THEN "good" ELSE certificate[e]
  OBVIOUS
<1>2. ASSUME NEW e \in validated', NEW f \in validated', e # f PROVE NameOf[e] # NameOf[f]
  <2>1. CASE e = d
    BY <1>2, <2>1 DEF Rivals
  <2>2. CASE f = d
    BY <1>2, <2>2 DEF Rivals
  <2>3. CASE e # d /\ f # d
    BY <1>2, <2>3 DEF OneOwner, Rivals
  <2>4. QED BY <2>1, <2>2, <2>3
<1>3. validated' \subseteq domains'
  OBVIOUS
<1>4. ASSUME NEW e \in validated' PROVE certificate'[e] # "none" /\ (validated \cap Rivals(e))' = {}
  <2>1. certificate'[e] # "none"
    BY <1>1, <1>3 DEF OneOwner
  <2>2. \A f \in validated' : f \notin Rivals(e)'
    BY <1>2, <1>3 DEF Rivals
  <2>3. QED BY <2>1, <2>2
<1>5. QED BY <1>3, <1>4 DEF OneOwner

LEMMA StoreCertificateInv ==
    ASSUME AcmeInv, NEW s \in Server, StoreCertificate(s)
    PROVE  AcmeInv'
<1>1. pc[s] = "store" /\ Ends(s) /\ UNCHANGED <<clientVars, orders, recent, domains, made>>
  BY DEF StoreCertificate
<1>2. ServiceTypes /\ RowTypes /\ ClientTypeOK /\ StageInv(s) /\ RowsInv
  BY Types DEF AcmeInv, RowsInv
<1>3. RowsGrow(s) /\ made' \in 0..MaxOrders
  BY <1>1, <1>2 DEF RowsGrow, ServiceTypes
<1>4. ServiceTypes' /\ \A t \in Server : StageInv(t)'
  BY <1>1, <1>3, EndsInv DEF Ends
<1>5. domain[s] \in domains
  BY <1>1, <1>2 DEF StageInv
<1>6. RowTypes' /\ RowsInv'
  <2>1. CASE UNCHANGED <<certificate, validated>>
    BY <1>1, <1>2, <2>1 DEF RowTypes, RowsInv, OrdersApart, OneOwner, Rivals
  <2>2. CASE ~UNCHANGED <<certificate, validated>>
    <3>1. /\ certificate' = [certificate EXCEPT ![domain[s]] = "good"]
          /\ validated' = (validated \ Rivals(domain[s])) \cup {domain[s]}
      BY <2>2 DEF StoreCertificate
    <3>2. RowTypes'
      BY <1>1, <1>2, <1>5, <3>1 DEF RowTypes
    <3>3. OneOwner' /\ validated' \subseteq domains'
      BY <1>1, <1>2, <1>5, <3>1, OwnerStays DEF RowTypes, RowsInv
    <3>4. OrdersApart'
      BY <1>1, <1>2 DEF RowsInv, OrdersApart
    <3>5. QED BY <3>2, <3>3, <3>4 DEF RowsInv
  <2>3. QED BY <2>1, <2>2
<1>7. ClientTypeOK'
  BY <1>1, <1>2 DEF ClientTypeOK, clientVars
<1>8. QED BY <1>4, <1>6, <1>7, TypesNext DEF AcmeInv, RowsInv

-----------------------------------------------------------------------------
(***************************************************************************)
(* The ACME server, the clock and the domains.                             *)
(***************************************************************************)

LEMMA ServerInv ==
    ASSUME AcmeInv, NEW s \in Server, Validate(s) \/ Issue(s)
    PROVE  AcmeInv'
<1>1. PICK status \in {"ready", "valid", "invalid"} : order' = [order EXCEPT ![s].status = status]
  BY DEF Validate, Issue
<1>2. UNCHANGED <<clientVars, pc, domain, rowVars, made>> /\ UNCHANGED <<orders, recent, domains>>
  BY DEF Validate, Issue, rowVars
<1>3. ServiceTypes /\ RowTypes /\ ClientTypeOK /\ StageInv(s)
  BY Types DEF AcmeInv
<1>4. [order[s] EXCEPT !.status = status] \in Order
  BY <1>3 DEF ServiceTypes, Order
<1>5. /\ order'[s].id = order[s].id /\ order'[s].accepted = order[s].accepted
      /\ \A t \in Server : t # s => order'[t] = order[t]
  BY <1>1, <1>3 DEF ServiceTypes, Order
<1>6. ServiceTypes'
  BY <1>1, <1>2, <1>3, <1>4 DEF ServiceTypes
<1>7. RowsGrow(s)
  BY <1>2 DEF RowsGrow
<1>8. StageInv(s)'
  BY <1>2, <1>3, <1>5 DEF StageInv, Challenges
<1>9. \A t \in Server : StageInv(t)'
  BY <1>2, <1>5, <1>7, <1>8, OneProcess
<1>10. RowTypes' /\ ClientTypeOK'
  BY <1>2, <1>3 DEF RowTypes, ClientTypeOK, rowVars, clientVars
<1>11. RowsInv'
  BY <1>2, RowsStay
<1>12. QED BY <1>6, <1>9, <1>10, <1>11, TypesNext DEF AcmeInv, RowsInv

LEMMA RowInv ==
    ASSUME AcmeInv,
           \/ \E d \in Domain : CreateDomain(d) \/ FallsDue(d)
           \/ \E r \in recent : DayPasses(r)
    PROVE  AcmeInv'
<1>1. UNCHANGED <<clientVars, pc, domain, order, made, orders, validated>>
  BY DEF CreateDomain, FallsDue, DayPasses, serviceVars
<1>2. ServiceTypes /\ RowTypes /\ ClientTypeOK /\ RowsInv
  BY Types DEF AcmeInv, RowsInv
<1>3. ServiceTypes' /\ ClientTypeOK'
  BY <1>1, <1>2 DEF ServiceTypes, ClientTypeOK, clientVars
<1>4. recent' \subseteq recent /\ domains \subseteq domains' /\ domains' \subseteq Domain
  BY <1>2 DEF CreateDomain, FallsDue, DayPasses, RowTypes
<1>5. \A t \in Server : StageInv(t)'
  BY <1>1, <1>4 DEF AcmeInv, StageInv, Challenges
<1>6. /\ certificate' \in [Domain -> {"none", "good", "due"}]
      /\ \A d \in Domain : certificate[d] # "none" => certificate'[d] # "none"
  BY <1>2 DEF CreateDomain, FallsDue, DayPasses, RowTypes
<1>7. RowTypes'
  BY <1>1, <1>2, <1>4, <1>6 DEF RowTypes
<1>8. OrdersApart'
  BY <1>2, <1>4 DEF RowsInv, OrdersApart
<1>9. OneOwner' /\ validated' \subseteq domains'
  <2>1. validated' \subseteq domains' /\ validated \subseteq domains
    BY <1>1, <1>2, <1>4 DEF RowsInv
  <2>2. \A d \in validated' : certificate'[d] # "none"
    BY <1>1, <1>2, <1>6 DEF RowsInv, OneOwner, RowTypes
  <2>3. ASSUME NEW d \in validated' PROVE (validated \cap Rivals(d))' = {}
    BY <1>1, <1>2, <2>1 DEF RowsInv, OneOwner, Rivals
  <2>4. QED BY <2>1, <2>2, <2>3 DEF OneOwner
<1>10. QED BY <1>3, <1>5, <1>7, <1>8, <1>9, TypesNext DEF AcmeInv

LEMMA NextAcme == AcmeInv /\ [Next]_vars => AcmeInv'
<1> SUFFICES ASSUME AcmeInv, [Next]_vars PROVE AcmeInv'
  OBVIOUS
<1>1. CASE \/ \E d \in Domain : CreateDomain(d) \/ FallsDue(d)
           \/ \E r \in recent : DayPasses(r)
  BY <1>1, RowInv
<1>2. ASSUME NEW s \in Server,
             \/ Service(s) \/ Answered(s) \/ Refused(s) \/ BadNonce(s)
             \/ PollError(s) \/ CallError(s) \/ NoCertificate(s) \/ Restart(s)
             \/ Validate(s) \/ Issue(s)
      PROVE  AcmeInv'
  BY <1>2, PollInv, RecordInv, StoreCertificateInv, AnsweredInv, RefusedInv, BadNonceInv,
     PollErrorInv, ServerInv DEF Service
<1>3. CASE UNCHANGED vars
  <2>1. UNCHANGED <<clientVars, pc, domain, order, rowVars, made>> /\ UNCHANGED <<orders, recent, domains>>
    BY <1>3 DEF vars, serviceVars, rowVars
  <2>2. ServiceTypes' /\ RowTypes' /\ ClientTypeOK'
    BY <2>1, Types DEF AcmeInv, ServiceTypes, RowTypes, rowVars, ClientTypeOK, clientVars
  <2>3. \A t \in Server : StageInv(t)'
    BY <2>1 DEF AcmeInv, StageInv, Challenges
  <2>4. RowsInv'
    BY <2>1, RowsStay
  <2>5. QED BY <2>2, <2>3, <2>4, TypesNext DEF AcmeInv, RowsInv
<1>4. QED BY <1>1, <1>2, <1>3 DEF Next

\* A certificate of a name is not lost in a step.
LEMMA CertificateStep ==
    ASSUME AcmeInv, [Next]_vars, NEW d \in Domain, HasCertificate(NameOf[d])
    PROVE  HasCertificate(NameOf[d])'
<1>1. PICK e \in validated : NameOf[e] = NameOf[d] /\ certificate[e] # "none"
  BY DEF HasCertificate
<1>2. RowTypes /\ e \in Domain /\ e \in domains
  BY Types DEF AcmeInv, RowTypes
<1>3. CASE \E s \in Server : StoreCertificate(s) /\ ~UNCHANGED <<certificate, validated>>
  <2>1. PICK s \in Server : StoreCertificate(s) /\ ~UNCHANGED <<certificate, validated>>
    BY <1>3
  <2>2. PICK f : f = domain[s]
    OBVIOUS
  <2>3. /\ certificate' = [certificate EXCEPT ![f] = "good"]
        /\ validated' = (validated \ Rivals(f)) \cup {f} /\ pc[s] = "store"
    BY <2>1, <2>2 DEF StoreCertificate
  <2>4. f \in Domain
    BY <2>2, <2>3, <1>2 DEF AcmeInv, StageInv, RowTypes
  <2>5. certificate'[f] = "good" /\ (e # f => certificate'[e] = certificate[e])
    BY <1>2, <2>3, <2>4 DEF RowTypes
  <2>6. CASE e \in Rivals(f)
    BY <1>1, <2>3, <2>5, <2>6 DEF HasCertificate, Rivals
  <2>7. CASE e \notin Rivals(f)
    BY <1>1, <2>3, <2>5, <2>7 DEF HasCertificate
  <2>8. QED BY <2>6, <2>7
<1>4. CASE \E f \in Domain : FallsDue(f)
  BY <1>1, <1>2, <1>4 DEF FallsDue, HasCertificate, RowTypes
<1>5. CASE UNCHANGED <<certificate, validated>>
  BY <1>1, <1>5 DEF HasCertificate
<1>6. \/ \E s \in Server : StoreCertificate(s) /\ ~UNCHANGED <<certificate, validated>>
      \/ \E f \in Domain : FallsDue(f)
      \/ UNCHANGED <<certificate, validated>>
  BY DEF Next, Service, CreateDomain, DayPasses, Poll, Record, Answered, Refused, BadNonce,
         PollError, CallError, NoCertificate, Restart, Validate, Issue, rowVars, vars
<1>7. QED BY <1>3, <1>4, <1>5, <1>6

-----------------------------------------------------------------------------
(***************************************************************************)
(* The theorems.                                                           *)
(***************************************************************************)

\* The inductive invariant: what there is at each stage of process_domain.
THEOREM AcmeInvariant == Spec => []AcmeInv
BY InitAcme, NextAcme, PTL DEF Spec

\* process_domain records a challenge before it has it accepted, so that the
\* look-up by the label of the domain can find it, or a later one.
THEOREM ChallengesAreStored == Spec => []ChallengeIsStored
<1>1. AcmeInv => ChallengeIsStored
  BY DEF AcmeInv, StageInv, ChallengeIsStored
<1>2. QED BY <1>1, AcmeInvariant, PTL

\* get_domain_needing_new_certificate: a process does not record two orders
\* of a domain within 24 hours.
THEOREM OrdersAreApart == Spec => []OrdersApart
<1>1. AcmeInv => OrdersApart
  BY DEF AcmeInv
<1>2. QED BY <1>1, AcmeInvariant, PTL

\* create_certificate: a name has one validated domain at most, which has a
\* certificate.
THEOREM NamesHaveOneOwner == Spec => []OneOwner
<1>1. AcmeInv => OneOwner
  BY DEF AcmeInv
<1>2. QED BY <1>1, AcmeInvariant, PTL

\* create_certificate: a name that has a certificate keeps one, in whatever
\* order teams get theirs.
THEOREM CertificatesStay == Spec => CertificateStays
<1>1. AcmeInv /\ [Next]_vars =>
        [\A d \in Domain : HasCertificate(NameOf[d]) => HasCertificate(NameOf[d])']_vars
  BY CertificateStep
<1>2. QED BY <1>1, AcmeInvariant, PTL DEF Spec, CertificateStays

=============================================================================
