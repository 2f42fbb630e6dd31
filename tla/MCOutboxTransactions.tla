------------------------ MODULE MCOutboxTransactions ------------------------
(* A small instance of OutboxTransactions for TLC.                         *)
EXTENDS OutboxTransactions, TLC

CONSTANTS qqbot

MCPlatformOf == [d \in Deliveries |-> qqbot]

Symmetry ==
  Permutations(Deliveries) \union Permutations(Workers) \union Permutations(Calls)
=============================================================================
