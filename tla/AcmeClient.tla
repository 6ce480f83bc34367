----------------------------- MODULE AcmeClient -----------------------------
(***************************************************************************)
(* A client of an ACME server (fairing-acme/src/lib.rs): what its calls    *)
(* have in common, retry_post, with the nonce of each request and what the *)
(* server and the network make of it.  Which nonce it is does not matter,  *)
(* only whether the server still takes it.  A request and its answer are   *)
(* one step: nobody else changes what the answer is about.  AcmeOrders     *)
(* says what is asked and answered.                                        *)
(***************************************************************************)
CONSTANT Server   \* processes, with a client each

VARIABLES
    nonce,   \* the nonce a client keeps: "fresh", or "spent"
    retry    \* its call goes on with the nonce of a badNonce answer

clientVars == <<nonce, retry>>

ClientTypeOK ==
    /\ nonce \in [Server -> {"fresh", "spent"}]
    /\ retry \in [Server -> BOOLEAN]

\* connect: a nonce of its own.
ClientInit ==
    /\ nonce = [s \in Server |-> "fresh"]
    /\ retry = [s \in Server |-> FALSE]

Connect(s) ==
    /\ nonce' = [nonce EXCEPT ![s] = "fresh"]
    /\ retry' = [retry EXCEPT ![s] = FALSE]

\* The nonce that the next request of a call has.
Sends(s) == IF retry[s] THEN "fresh" ELSE nonce[s]

\* Mutant: the request is sent again with the nonce of the client.
RetryUnchanged(s) ==
    /\ nonce' = [nonce EXCEPT ![s] = "spent"]
    /\ UNCHANGED retry

\* badNonce: the server takes a nonce once, and may forget those it has given
\* out.  The request is sent again with the nonce of the answer, which the
\* client does not keep.
RetryPost(s) ==
    /\ nonce' = [nonce EXCEPT ![s] = "spent"]
    /\ retry' = [retry EXCEPT ![s] = TRUE]

\* The server takes the nonce, and its answer has one for the next call.
Accept(s) ==
    /\ Sends(s) = "fresh"
    /\ nonce' = [nonce EXCEPT ![s] = "fresh"]
    /\ retry' = [retry EXCEPT ![s] = FALSE]

\* The call fails: the nonce may not have been sent, may be spent, or may be
\* replaced by the one of an error.
Fail(s) ==
    /\ \E n \in {"fresh", "spent"} : nonce' = [nonce EXCEPT ![s] = n]
    /\ retry' = [retry EXCEPT ![s] = FALSE]
=============================================================================
