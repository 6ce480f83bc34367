---------------------------- MODULE FileCatalog ----------------------------
(***************************************************************************)
(* What a store of files promises to those who deploy them (store_file of  *)
(* fairing-core/src/services/storage.rs).  It answers with the id of a     *)
(* file that is stored at once, stays, and can be read from then on; only  *)
(* a file in doubt, whose blobs could not all be looked at, may be stored  *)
(* before it can be read, and is repaired by whoever writes what it lacks. *)
(***************************************************************************)
CONSTANT File

VARIABLES
    stored,    \* the files that have a row
    readable,  \* those that can be read to the end
    doubtful   \* files of which a blob was passed over

vars == <<stored, readable, doubtful>>

Init == stored = {} /\ readable = {} /\ doubtful = {}

Store(f) ==
    /\ f \notin stored
    /\ stored' = stored \cup {f}
    /\ \/ readable' = readable \cup {f}
       \/ f \in doubtful /\ UNCHANGED readable
    /\ UNCHANGED doubtful

\* A blob is passed over: the files it is of are in doubt from now on.
Doubt ==
    /\ doubtful' \in SUBSET File
    /\ doubtful \subseteq doubtful'
    /\ UNCHANGED <<stored, readable>>

\* One blob may be all that several files lack.
Repair ==
    /\ readable' \in SUBSET stored
    /\ readable \subseteq readable'
    /\ readable' \subseteq readable \cup doubtful
    /\ UNCHANGED <<stored, doubtful>>

Next == (\E f \in File : Store(f)) \/ Doubt \/ Repair

Spec == Init /\ [][Next]_vars
=============================================================================
