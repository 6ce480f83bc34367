-------------------------- MODULE MCSourceRefresh --------------------------
(***************************************************************************)
(* An instance of SourceRefresh: two callers, two layer sets, two branches *)
(* of which HEAD is the second.                                            *)
(***************************************************************************)
EXTENDS SourceRefresh, TLC

Symmetry == Permutations(Caller) \cup Permutations(Name) \cup Permutations(Commit)
=============================================================================
