---------------------------- MODULE LeasePromise ----------------------------
(***************************************************************************)
(* What the delivery outbox promises the plugins, without rows, tokens,    *)
(* clocks or transactions: a published delivery is open, at most one       *)
(* plugin holds it at a time, only the plugin that holds it settles it,    *)
(* and it can be declined at most Budget times before it is dead.          *)
(*                                                                         *)
(* CONTRACT.md section 6 states the promise ("ack and fail update a        *)
(* delivery only when they match the current valid lease") and section 8   *)
(* the bound on retries.  DeliveryOutbox and OutboxTransactions are shown  *)
(* to implement it.                                                        *)
(***************************************************************************)
EXTENDS Integers

CONSTANTS Deliveries, Workers, Nobody, Budget

VARIABLES
  phase,      \* [Deliveries -> {"unpublished", "open", "sent", "dead"}]
  holder,     \* [Deliveries -> Workers \union {Nobody}]
  failures    \* [Deliveries -> Nat], failures the outbox has accepted

vars == <<phase, holder, failures>>

TypeOK ==
  /\ phase \in [Deliveries -> {"unpublished", "open", "sent", "dead"}]
  /\ holder \in [Deliveries -> Workers \union {Nobody}]
  /\ failures \in [Deliveries -> 0..Budget]

Init ==
  /\ phase = [d \in Deliveries |-> "unpublished"]
  /\ holder = [d \in Deliveries |-> Nobody]
  /\ failures = [d \in Deliveries |-> 0]

Publish(batch) ==
  /\ \A d \in batch : phase[d] = "unpublished"
  /\ phase' = [d \in Deliveries |-> IF d \in batch THEN "open" ELSE phase[d]]
  /\ UNCHANGED <<holder, failures>>

(* A batch of open deliveries nobody holds is handed to one plugin.        *)
Grant(batch, w) ==
  /\ \A d \in batch : phase[d] = "open" /\ holder[d] = Nobody
  /\ holder' = [d \in Deliveries |-> IF d \in batch THEN w ELSE holder[d]]
  /\ UNCHANGED <<phase, failures>>

(* Leases run out with the clock, several at the same instant.             *)
Lapse(batch) ==
  /\ holder' = [d \in Deliveries |-> IF d \in batch THEN Nobody ELSE holder[d]]
  /\ UNCHANGED <<phase, failures>>

Settle(d, w) ==
  /\ holder[d] = w
  /\ phase' = [phase EXCEPT ![d] = "sent"]
  /\ holder' = [holder EXCEPT ![d] = Nobody]
  /\ UNCHANGED failures

Decline(d, w) ==
  /\ holder[d] = w
  /\ failures[d] + 1 < Budget
  /\ failures' = [failures EXCEPT ![d] = @ + 1]
  /\ holder' = [holder EXCEPT ![d] = Nobody]
  /\ UNCHANGED phase

Bury(d, w) ==
  /\ holder[d] = w
  /\ failures[d] + 1 <= Budget
  /\ failures' = [failures EXCEPT ![d] = @ + 1]
  /\ holder' = [holder EXCEPT ![d] = Nobody]
  /\ phase' = [phase EXCEPT ![d] = "dead"]

Next ==
  \/ \E batch \in SUBSET Deliveries :
        Publish(batch) \/ Lapse(batch) \/ \E w \in Workers : Grant(batch, w)
  \/ \E d \in Deliveries, w \in Workers :
        Settle(d, w) \/ Decline(d, w) \/ Bury(d, w)

Spec == Init /\ [][Next]_vars
=============================================================================
