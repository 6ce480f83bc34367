---------------------------- MODULE MCLayerBuild ----------------------------
(***************************************************************************)
(* Instances of LayerBuild for TLC.  Lock expiries, errors and crashes     *)
(* need no bound of their own: a process calls build() Rounds times, and   *)
(* a worker that has crashed does not come back.                           *)
(***************************************************************************)
EXTENDS LayerBuild, FiniteSets, TLC

CONSTANTS w1, w2, a, b

\* One layer set that all ids are drawn for.
OneSet == [l \in LayerId |-> 1]

\* The second layer has a layer set to itself.
TwoSets == [l \in LayerId |-> IF l = 2 THEN 2 ELSE 1]

\* Every worker on a machine of its own, or all on the machine of w1.
OwnHost == [w \in Worker |-> w]
SharedHost == [w \in Worker |-> w1]

\* Every layer holds all paths; or those with an even id have no source.
AllPaths == [l \in LayerId |-> Path]
OddPaths == [l \in LayerId |-> IF l % 2 = 1 THEN Path ELSE {}]

WorkerSymmetry == Permutations(Worker)
=============================================================================
