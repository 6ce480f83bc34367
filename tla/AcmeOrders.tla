----------------------------- MODULE AcmeOrders -----------------------------
(***************************************************************************)
(* Certificates over PostgreSQL: the service that orders them              *)
(* (fairing-core/src/services/acme.rs) with its ACME client, and the rows  *)
(* of domains, orders, challenges and certificates                         *)
(* (fairing/src/backends/database/postgres.rs).  The ACME server and its   *)
(* look-up of a challenge are external.                                    *)
(*                                                                         *)
(* An order is for one domain, and has one authorization.  A row of an     *)
(* order stands for its challenge as well, and the token is the order.     *)
(* Several processes may run the service; an order that none of them asks  *)
(* for is not followed.  There is no clock: a day, or two thirds of the    *)
(* life of a certificate, may have passed at any time.                     *)
(***************************************************************************)
EXTENDS AcmeClient, Naturals

CONSTANTS
    Domain,     \* domains of teams; two teams may have one of the same name
    NameOf,     \* the name of a domain
    MaxOrders,  \* bound: orders the ACME server makes
    None

ASSUME OrdersAssumption == MaxOrders \in Nat
ASSUME DomainAssumption == DOMAIN NameOf = Domain /\ None \notin Domain

VARIABLES
    pc,          \* where process_domain stands
    domain,      \* the domain it is about
    order,       \* its order, as it is at the ACME server
    made,        \* the orders that the ACME server has made
    orders,      \* rows of acme_orders and acme_challenges
    recent,      \* those that are not yet 24 hours old
    domains,     \* rows of domains
    certificate, \* the newest of a domain, the only one that is looked at
    validated    \* domains with is_validated

serviceVars == <<pc, domain, order>>
rowVars == <<orders, recent, domains, certificate, validated>>
vars == <<clientVars, serviceVars, rowVars, made>>

Row == [order : 1..MaxOrders, domain : Domain, by : Server]

\* An order by its number, its status, and whether the server was told to
\* look at its challenge.
Order == [id : 0..MaxOrders, accepted : BOOLEAN,
          status : {"none", "pending", "ready", "processing", "valid", "invalid"}]

NoOrder == [id |-> 0, accepted |-> FALSE, status |-> "none"]

\* The stages at which a request is sent.
Asking == {"order", "authorize", "accept", "get", "finalize", "process", "download"}

TypeOK ==
    /\ ClientTypeOK
    /\ pc \in [Server -> Asking \cup {"poll", "record", "recordValid", "store", "stopped"}]
    /\ domain \in [Server -> Domain \cup {None}]
    /\ order \in [Server -> Order]
    /\ made \in 0..MaxOrders
    /\ orders \subseteq Row
    /\ recent \subseteq orders
    /\ domains \subseteq Domain
    /\ certificate \in [Domain -> {"none", "good", "due"}]
    /\ validated \subseteq Domain

Init ==
    /\ ClientInit
    /\ pc = [s \in Server |-> "poll"]
    /\ domain = [s \in Server |-> None]
    /\ order = [s \in Server |-> NoOrder]
    /\ made = 0
    /\ orders = {}
    /\ recent = {}
    /\ domains = {}
    /\ certificate = [d \in Domain |-> "none"]
    /\ validated = {}

\* get_certificate finds a certificate of the validated domain of a name.
HasCertificate(n) == \E d \in validated : NameOf[d] = n /\ certificate[d] # "none"

\* get_domain_acme_challenge finds one of these: the newest, by the clocks of
\* the processes that have recorded them.
Challenges(d) == {r.order : r \in {q \in orders : q.domain = d}}
-----------------------------------------------------------------------------
(***************************************************************************)
(* The service.                                                            *)
(***************************************************************************)

CreateDomain(d) ==
    /\ d \notin domains
    /\ domains' = domains \cup {d}
    /\ UNCHANGED <<clientVars, serviceVars, orders, recent, certificate, validated, made>>

\* Mutant: a domain is taken up however new its last order is.
NeedsAtOnce(d) == d \in domains /\ certificate[d] # "good"

\* The rows of get_domain_needing_new_certificate, in no order.
Needs(d) ==
    /\ d \in domains /\ certificate[d] # "good"
    /\ \A r \in recent : r.domain # d

Poll(s) ==
    /\ pc[s] = "poll"
    /\ \E d \in Domain :
        /\ Needs(d)
        /\ domain' = [domain EXCEPT ![s] = d]
    /\ pc' = [pc EXCEPT ![s] = "order"]
    /\ UNCHANGED <<clientVars, order, rowVars, made>>

\* An error of that query ends run(), and the process goes on without it.
PollError(s) ==
    /\ pc[s] = "poll"
    /\ pc' = [pc EXCEPT ![s] = "stopped"]
    /\ UNCHANGED <<clientVars, domain, order, rowVars, made>>

Leaves(s, stage) ==
    /\ pc' = [pc EXCEPT ![s] = stage]
    /\ domain' = [domain EXCEPT ![s] = None]
    /\ order' = [order EXCEPT ![s] = NoOrder]

\* process_domain has ended; run() logs an error, sleeps and polls again.
Ends(s) == Leaves(s, "poll")

Goes(s, stage) ==
    /\ pc' = [pc EXCEPT ![s] = stage]
    /\ UNCHANGED <<domain, order>>

\* What comes after the answer to the request of a stage: where the status of
\* the order in the answer decides, it is the one the order has now.
After(stage, status) ==
    CASE stage = "order" -> "authorize"
      [] stage = "authorize" -> IF status = "pending" THEN "record" ELSE "recordValid"
      [] stage = "accept" -> "get"
      [] stage = "get" ->
            IF status = "pending" THEN "get"
            ELSE IF status = "invalid" THEN "poll" ELSE "finalize"
      [] stage \in {"finalize", "process"} ->
            IF status = "processing" THEN "process"
            ELSE IF status = "valid" THEN "download" ELSE "poll"
      [] stage = "download" -> "store"

\* What the server makes of the order: it adds one, which is ready at once if
\* it takes the domain for authorized; it is told to look at the challenge;
\* it is told to issue the certificate.
Handled(s) ==
    CASE pc[s] = "order" ->
            {[id |-> made + 1, accepted |-> FALSE, status |-> t] : t \in {"pending", "ready"}}
      [] pc[s] = "accept" -> {[order[s] EXCEPT !.accepted = TRUE]}
      [] pc[s] = "finalize" -> {[order[s] EXCEPT !.status = "processing"]}
      [] OTHER -> {order[s]}

\* After MaxOrders it makes no more.
CanHandle(s) ==
    /\ pc[s] = "order" => made < MaxOrders
    /\ pc[s] = "finalize" => order[s].status = "ready"

Makes(s) == made' = IF pc[s] = "order" THEN made + 1 ELSE made

Answered(s) ==
    /\ pc[s] \in Asking
    /\ CanHandle(s)
    /\ Accept(s)
    /\ Makes(s)
    /\ \E o \in Handled(s) :
        LET stage == After(pc[s], o.status) IN
        IF stage = "poll" THEN Ends(s)
        ELSE /\ pc' = [pc EXCEPT ![s] = stage]
             /\ order' = [order EXCEPT ![s] = o]
             /\ UNCHANGED domain
    /\ UNCHANGED rowVars

\* The answer has no certificate in it: first().unwrap() panics, which ends
\* run() like an error of its query.
NoCertificate(s) ==
    /\ pc[s] = "download"
    /\ Accept(s)
    /\ Leaves(s, "stopped")
    /\ UNCHANGED <<rowVars, made>>

Refused(s) ==
    /\ pc[s] \in Asking
    /\ ~CanHandle(s)
    /\ Accept(s)
    /\ Ends(s)
    /\ UNCHANGED <<rowVars, made>>

\* A nonce is refused, and the call goes on.
BadNonce(s) ==
    /\ pc[s] \in Asking
    /\ RetryPost(s)
    /\ UNCHANGED <<serviceVars, rowVars, made>>

\* The call fails, and the server has not got the request, or has handled it.
CallError(s) ==
    /\ pc[s] \in Asking
    /\ UNCHANGED made \/ (CanHandle(s) /\ Sends(s) = "fresh" /\ Makes(s))
    /\ Fail(s)
    /\ Ends(s)
    /\ UNCHANGED rowVars

\* Mutant: the service does not wait for the transaction.
RecordLater(s) ==
    /\ pc[s] \in {"record", "recordValid"}
    /\ Goes(s, IF pc[s] = "recordValid" THEN "get" ELSE "accept")
    /\ UNCHANGED <<clientVars, rowVars, made>>

\* create_acme_order: one transaction for the order and its challenge.
\* A challenge of a valid authorization is not accepted again.
Record(s) ==
    /\ pc[s] \in {"record", "recordValid"}
    /\ \/ /\ LET row == [order |-> order[s].id, domain |-> domain[s], by |-> s] IN
                orders' = orders \cup {row} /\ recent' = recent \cup {row}
          /\ Goes(s, IF pc[s] = "recordValid" THEN "get" ELSE "accept")
       \/ UNCHANGED <<orders, recent>> /\ Ends(s)
    /\ UNCHANGED <<clientVars, domains, certificate, validated, made>>

\* The other domains of the same name.
Rivals(d) == {e \in domains : e # d /\ NameOf[e] = NameOf[d]}

\* Mutant: the statements are not in a transaction, the update comes first.
StoreInSteps(s) ==
    /\ pc[s] = "store"
    /\ \/ /\ certificate' = [certificate EXCEPT ![domain[s]] = "good"]
          /\ validated' = (validated \ Rivals(domain[s])) \cup {domain[s]}
       \/ /\ validated' = validated \ Rivals(domain[s])
          /\ UNCHANGED certificate
    /\ Ends(s)
    /\ UNCHANGED <<clientVars, orders, recent, domains, made>>

\* create_certificate: one transaction adds the certificate, makes the domain
\* the validated one of its name and the others not.  It may fail, for one
\* because the index of validated names is checked row by row.
StoreCertificate(s) ==
    /\ pc[s] = "store"
    /\ \/ /\ certificate' = [certificate EXCEPT ![domain[s]] = "good"]
          /\ validated' = (validated \ Rivals(domain[s])) \cup {domain[s]}
       \/ UNCHANGED <<certificate, validated>>
    /\ Ends(s)
    /\ UNCHANGED <<clientVars, orders, recent, domains, made>>

\* The process ends, at any point, and is started again.
Restart(s) ==
    /\ pc[s] # "poll"
    /\ Connect(s)
    /\ Ends(s)
    /\ UNCHANGED <<rowVars, made>>
-----------------------------------------------------------------------------
(***************************************************************************)
(* The ACME server and the clock.                                          *)
(***************************************************************************)

\* It asks for the challenge of an order it was told to look at, and finds
\* the one of this order, or another one, or fails.
Validate(s) ==
    /\ order[s].accepted /\ order[s].status = "pending"
    /\ \E status \in {"ready", "invalid"} :
        /\ status = "ready" => order[s].id \in Challenges(domain[s])
        /\ order' = [order EXCEPT ![s].status = status]
    /\ UNCHANGED <<clientVars, pc, domain, rowVars, made>>

Issue(s) ==
    /\ order[s].status = "processing"
    /\ \E status \in {"valid", "invalid"} : order' = [order EXCEPT ![s].status = status]
    /\ UNCHANGED <<clientVars, pc, domain, rowVars, made>>

\* 24 hours have passed since an order was recorded.
DayPasses(r) ==
    /\ recent' = recent \ {r}
    /\ UNCHANGED <<clientVars, serviceVars, orders, domains, certificate, validated, made>>

\* Two thirds of the life of the newest certificate have passed.
FallsDue(d) ==
    /\ certificate[d] = "good"
    /\ certificate' = [certificate EXCEPT ![d] = "due"]
    /\ UNCHANGED <<clientVars, serviceVars, orders, recent, domains, validated, made>>

Service(s) == Poll(s) \/ Record(s) \/ StoreCertificate(s)

Next ==
    \/ \E d \in Domain : CreateDomain(d) \/ FallsDue(d)
    \/ \E s \in Server :
        \/ Service(s) \/ Answered(s) \/ Refused(s) \/ BadNonce(s)
        \/ PollError(s) \/ CallError(s) \/ NoCertificate(s) \/ Restart(s)
        \/ Validate(s) \/ Issue(s)
    \/ \E r \in recent : DayPasses(r)

Spec == Init /\ [][Next]_vars

\* The service goes on running.  A request is answered or refused; the server
\* does not refuse good nonces for ever, nor leaves an order pending or
\* processing for ever.
FairSpec ==
    /\ Spec
    /\ \A s \in Server :
        /\ WF_vars(Service(s)) /\ WF_vars(BadNonce(s))
        /\ SF_vars(Answered(s) \/ Refused(s))
        /\ WF_vars(Validate(s)) /\ WF_vars(Issue(s))
-----------------------------------------------------------------------------
(***************************************************************************)
(* Properties.                                                             *)
(***************************************************************************)

\* When the ACME server is told to look at a challenge, the look-up by the
\* label of its domain can find it or a later one.
ChallengeIsStored ==
    \A s \in Server : order[s].accepted => order[s].id \in Challenges(domain[s])

\* A process records an order of a domain at most once in 24 hours, however
\* the order goes and however often the process is started again.
OrdersApart ==
    \A r, q \in recent : r.domain = q.domain /\ r.by = q.by => r = q

\* A name has at most one validated domain, and that domain a certificate.
OneOwner ==
    \A d \in validated :
        /\ certificate[d] # "none"
        /\ validated \cap Rivals(d) = {}

\* A name for which there is a certificate never loses it, though its
\* renewal fails or its domain passes to another team.
CertificateStays ==
    [][\A d \in Domain : HasCertificate(NameOf[d]) => HasCertificate(NameOf[d])']_vars

\* process_domain ends, well or badly: a nonce that is spent, lost or refused
\* never keeps a call, nor an order the service, for ever.
ProcessingEnds ==
    \A s \in Server : pc[s] = "order" ~> pc[s] \in {"poll", "stopped"}
-----------------------------------------------------------------------------
(***************************************************************************)
(* The inductive invariant behind the safety properties.                   *)
(***************************************************************************)

\* What there is when process_domain comes to a stage: until its order is
\* recorded no other one is from this process and less than a day old, and
\* when the challenge is accepted it is recorded.
StageInv(s) ==
    /\ pc[s] \notin {"poll", "stopped"} => domain[s] \in domains
    /\ pc[s] \in {"poll", "stopped"} => ~order[s].accepted
    /\ pc[s] \in {"order", "authorize", "record", "recordValid"} =>
         \A r \in recent : ~(r.domain = domain[s] /\ r.by = s)
    /\ pc[s] \in {"authorize", "record", "recordValid"} => order[s].id # 0
    /\ pc[s] = "accept" => order[s].id \in Challenges(domain[s])
    /\ order[s].accepted => order[s].id \in Challenges(domain[s])

AcmeInv ==
    /\ TypeOK
    /\ \A s \in Server : StageInv(s)
    /\ OrdersApart
    /\ validated \subseteq domains
    /\ OneOwner
=============================================================================
