---------------------------- MODULE MCCertOrders ----------------------------
(* Instances of CertOrders for TLC. *)
EXTENDS CertOrders

CONSTANTS j1, o1, s1

OneJob   == {j1}
OneOrder == {o1}
OneSite  == {s1}
SameSite == [o \in Orders |-> s1]
=============================================================================
