---------------------------- MODULE LayerPublish ----------------------------
(***************************************************************************)
(* What the builds of LayerBuild promise to the readers of a layer set:    *)
(* a submitted layer is published at most once and only if it is newer     *)
(* than all that the set has published, or it is dropped in favour of a    *)
(* newer published one.                                                    *)
(***************************************************************************)
EXTENDS Naturals

CONSTANTS LayerSet, LayerId, SetOf

VARIABLES
    pending,    \* submitted layers, still to be decided
    published,  \* layers a reader may be shown
    dropped     \* layers that never will be

vars == <<pending, published, dropped>>

Newer(l) == {m \in published : SetOf[m] = SetOf[l] /\ m > l}

Init == pending = {} /\ published = {} /\ dropped = {}

Submit(l) ==
    /\ l \notin pending \cup published \cup dropped
    /\ pending' = pending \cup {l}
    /\ UNCHANGED <<published, dropped>>

Publish(l) ==
    /\ l \in pending
    /\ Newer(l) = {}
    /\ pending' = pending \ {l}
    /\ published' = published \cup {l}
    /\ UNCHANGED dropped

Drop(l) ==
    /\ l \in pending
    /\ Newer(l) # {}
    /\ pending' = pending \ {l}
    /\ dropped' = dropped \cup {l}
    /\ UNCHANGED published

Next == \E l \in LayerId : Submit(l) \/ Publish(l) \/ Drop(l)

Spec == Init /\ [][Next]_vars
=============================================================================
