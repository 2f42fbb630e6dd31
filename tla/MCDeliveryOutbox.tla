-------------------------- MODULE MCDeliveryOutbox --------------------------
(* A small instance of DeliveryOutbox for TLC.                             *)
EXTENDS DeliveryOutbox, TLC

CONSTANTS d1, d2, w1, w2, qqbot

MCPlatformOf == [d \in Deliveries |-> qqbot]

Symmetry == Permutations(Deliveries) \union Permutations(Workers)
=============================================================================
