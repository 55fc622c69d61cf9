------------------------------ MODULE MCDelivery ------------------------------
(* Instances of Delivery for TLC. *)
EXTENDS Delivery, TLC

CONSTANTS c1, c2

OneClient == {c1}
TwoClients == {c1, c2}
Interchangeable == Permutations(Clients)
=============================================================================
