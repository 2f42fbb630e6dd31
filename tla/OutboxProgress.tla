--------------------------- MODULE OutboxProgress ---------------------------
(***************************************************************************)
(* DeliveryOutbox in an environment where plugins keep working: what has   *)
(* to be assumed of them so that every published delivery is settled.      *)
(*                                                                         *)
(*  - A tick of the clock is at least one poll long: the clock advances    *)
(*    only when no plugin would be handed anything by another claim.       *)
(*  - At most MaxLost leases run out unanswered (a plugin crashed, the     *)
(*    response of a claim or the call of an answer was lost).              *)
(*  - Polling goes on, and a lease that does not run out is answered.      *)
(*                                                                         *)
(* Nothing is assumed of the order in which deliveries are served beyond   *)
(* what claim_statement does.  A plugin never forgets a token here: a lost *)
(* token is a lease left to run out.                                       *)
(***************************************************************************)
EXTENDS DeliveryOutbox

CONSTANTS
  MaxLost,       \* leases that run out unanswered
  PublishUntil   \* deliveries are published up to this instant

ASSUME OutboxProgressAssumption == MaxLost \in Nat /\ PublishUntil \in Nat

VARIABLE lost    \* leases that have run out unanswered

progressVars == <<now, row, held, failures, lost>>

ProgressInit == Init /\ lost = 0

Expiring == {d \in Deliveries : Live(row[d], now) /\ ~ Live(row[d], now + 1)}

TickAfterPolling ==
  /\ \A p \in Platforms : Candidates(p) = {}
  /\ lost + Cardinality(Expiring) <= MaxLost
  /\ Tick
  /\ lost' = lost + Cardinality(Expiring)

PublishEarly ==
  /\ now <= PublishUntil
  /\ \E batch \in SUBSET Deliveries, due \in now..(now + Horizon) : Publish(batch, due)
  /\ UNCHANGED lost

Poll ==
  /\ \E w \in Workers, p \in Platforms, n \in ClaimLimits, seconds \in LeaseSeconds :
       \E batch \in SUBSET Deliveries : Claim(w, p, batch, n, seconds)
  /\ UNCHANGED lost

Answer(d) ==
  /\ \E w \in Workers : \E h \in held[w] :
       /\ h.delivery = d
       /\ Ack(w, h) \/ \E retryable \in BOOLEAN : Fail(w, h, retryable)
  /\ UNCHANGED lost

ProgressNext ==
  \/ TickAfterPolling
  \/ PublishEarly
  \/ Poll
  \/ \E d \in Deliveries : Answer(d)

(* The plugin polls in a loop and its call either answers a lease or the   *)
(* lease runs out; time passes.                                            *)
Fairness ==
  /\ WF_progressVars(TickAfterPolling)
  /\ WF_progressVars(Poll)
  /\ \A d \in Deliveries : WF_progressVars(Answer(d))

ProgressSpec == ProgressInit /\ [][ProgressNext]_progressVars /\ Fairness

(* Every published delivery is eventually sent or dead: an expired lease   *)
(* is handed out again, a retry comes back after its backoff, the number   *)
(* of failures is bounded and no delivery is overtaken for ever (outbox.py *)
(* claim_statement and fail; CONTRACT section 8, "must not be resent       *)
(* without limit" and "expired leases become claimable").                  *)
EventuallySettled ==
  \A d \in Deliveries : row[d].status = "pending" ~> row[d].status \in {"sent", "dead"}
=============================================================================
