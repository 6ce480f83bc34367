---------------------------- MODULE MCAcmeOrders ----------------------------
(***************************************************************************)
(* An instance of AcmeOrders: a name that two teams have as a domain.      *)
(***************************************************************************)
EXTENDS AcmeOrders, TLC

CONSTANTS s1, s2, d1, d2, name

Names == [d \in Domain |-> name]
=============================================================================
