--------------------------- MODULE MCSiteDeploy ----------------------------
(***************************************************************************)
(* An instance of SiteDeploy: two commits that differ in what "/a" and     *)
(* "/a/" stand for, and share a file.                                      *)
(***************************************************************************)
EXTENDS SiteDeploy, TLC

CONSTANTS s1, s2, x1, c1, c2, m1

Trees == [b \in Build |->
    CASE b = 1 -> (<<"index.html">> :> c1) @@ (<<"a">> :> c2)
      [] b = 2 -> <<"a", "index.htm">> :> c1]

\* The second commit has a module.
ModuleLists == [b \in Build |-> IF b = 1 THEN {} ELSE {m1}]

Requests == [names : {<<"a">>}, slash : BOOLEAN]
=============================================================================
