-------------------------- MODULE MCOutboxProgress --------------------------
(* A small instance of OutboxProgress: two platforms, one delivery each    *)
(* and one more, so that both the platform filter and LIMIT matter.        *)
EXTENDS OutboxProgress

CONSTANTS d1, d2, d3, qqbot, other

MCPlatformOf == [d \in Deliveries |-> IF d = d3 THEN other ELSE qqbot]
=============================================================================
