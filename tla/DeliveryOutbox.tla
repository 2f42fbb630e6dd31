--------------------------- MODULE DeliveryOutbox ---------------------------
(***************************************************************************)
(* The delivery outbox with every API call run as one atomic step: what    *)
(* eventserver/deliveries/outbox.py does when no two calls touch the same  *)
(* row at the same time.  OutboxTransactions drops that proviso.           *)
(*                                                                         *)
(* The environment is the plugins: worker w claims deliveries of its       *)
(* platform, keeps the (delivery, token) pairs it was handed in held[w],   *)
(* answers any of them at any time, any number of times, and may forget    *)
(* them (the response of the claim was lost, the plugin crashed, or the    *)
(* answer is in).  A refused answer (LeaseConflictError, HTTP 409) rolls   *)
(* back and changes nothing, so it is a stuttering step.                   *)
(***************************************************************************)
EXTENDS OutboxRows

CONSTANTS
  Deliveries,    \* delivery ids
  Platforms,     \* messaging platforms
  PlatformOf,    \* [Deliveries -> Platforms]
  ClaimLimits,   \* the `limit` of a claim request, 1..100 in the code
  LeaseSeconds,  \* the lease lengths a claim may ask for, 10..600 in the code
  Horizon,       \* publish_schedule_horizon_seconds
  MaxTime        \* bound on the clock

ASSUME DeliveryOutboxAssumption ==
  /\ PlatformOf \in [Deliveries -> Platforms]
  /\ ClaimLimits \subseteq Nat \ {0}
  /\ LeaseSeconds \subseteq Nat
  /\ Horizon \in Nat
  /\ MaxTime \in Nat

(* A lease is at least as long as the unit its end is stored in.           *)
ASSUME LeaseSecondsAssumption == \A seconds \in LeaseSeconds : seconds >= Second

VARIABLES
  now,        \* utc_now()
  row,        \* the deliveries table
  held,       \* the (delivery, token) pairs each plugin remembers
  failures    \* history: fail calls accepted for each delivery

vars == <<now, row, held, failures>>

Handle == [delivery : Deliveries, token : Nat]

TypeOK ==
  /\ now \in 0..MaxTime
  /\ row \in [Deliveries -> Row]
  /\ held \in [Workers -> SUBSET Handle]
  /\ failures \in [Deliveries -> Nat]

Init ==
  /\ now = 0
  /\ row = [d \in Deliveries |-> AbsentRow]
  /\ held = [w \in Workers |-> {}]
  /\ failures = [d \in Deliveries |-> 0]

-----------------------------------------------------------------------------
(* PublicationService.publish inserts the deliveries of one occurrence.    *)
(* resolve_notify_at turns a requested instant into one of now..now +      *)
(* Horizon; without one the column default is now.                         *)
Publish(batch, due) ==
  /\ \A d \in batch : row[d].status = "absent"
  /\ row' = [d \in Deliveries |->
               IF d \in batch THEN PublishedRow(due, now) ELSE row[d]]
  /\ UNCHANGED <<now, held, failures>>

Candidates(p) == {d \in Deliveries : PlatformOf[d] = p /\ Eligible(row[d], now)}

Claim(w, p, batch, n, seconds) ==
  /\ batch # {}          \* an empty claim changes nothing
  /\ IsBatch(batch, Candidates(p), n, row)
  /\ row' = [d \in Deliveries |->
               IF d \in batch THEN ClaimedRow(row[d], w, now + seconds) ELSE row[d]]
  /\ held' = [held EXCEPT ![w] =
                @ \union {[delivery |-> d, token |-> row[d].attempts + 1] : d \in batch}]
  /\ UNCHANGED <<now, failures>>

Ack(w, h) ==
  /\ h \in held[w]
  /\ Answerable(row[h.delivery], h.token, now)
  /\ row' = [row EXCEPT ![h.delivery] = AckedRow(@)]
  /\ UNCHANGED <<now, held, failures>>

Fail(w, h, retryable) ==
  /\ h \in held[w]
  /\ Answerable(row[h.delivery], h.token, now)
  /\ row' = [row EXCEPT ![h.delivery] =
               IF retryable /\ ~ Exhausted(@) THEN RetryRow(@, @.attempts, now)
                                              ELSE DeadRow(@)]
  /\ failures' = [failures EXCEPT ![h.delivery] = @ + 1]
  /\ UNCHANGED <<now, held>>

Forget(w, h) ==
  /\ h \in held[w]
  /\ held' = [held EXCEPT ![w] = @ \ {h}]
  /\ UNCHANGED <<now, row, failures>>

Tick ==
  /\ now < MaxTime
  /\ now' = now + 1
  /\ UNCHANGED <<row, held, failures>>

Next ==
  \/ \E batch \in SUBSET Deliveries, due \in now..(now + Horizon) : Publish(batch, due)
  \/ \E w \in Workers, p \in Platforms, n \in ClaimLimits, seconds \in LeaseSeconds :
       \E batch \in SUBSET Deliveries : Claim(w, p, batch, n, seconds)
  \/ \E w \in Workers : \E h \in held[w] :
       \/ Ack(w, h)
       \/ \E retryable \in BOOLEAN : Fail(w, h, retryable)
       \/ Forget(w, h)
  \/ Tick

Spec == Init /\ [][Next]_vars

-----------------------------------------------------------------------------
(* Two plugins never both hold a token that ack and fail would accept now  *)
(* for the same delivery: one lease at a time (outbox.py, claim and        *)
(* _leased; README "concurrent plugins cannot claim the same lease").      *)
CanAnswer(w, d) ==
  \E h \in held[w] : h.delivery = d /\ Answerable(row[d], h.token, now)

OneHolder ==
  \A d \in Deliveries, v, w \in Workers : CanAnswer(v, d) /\ CanAnswer(w, d) => v = w

(* The outbox accepts at most MaxAttempts failures of a delivery, the last *)
(* of which kills it, however many leases expired unanswered in between    *)
(* (outbox.py, fail: retry only while attempts < max_attempts).            *)
FailureBudget ==
  \A d \in Deliveries :
    /\ failures[d] <= MaxAttempts
    /\ row[d].status # "dead" => failures[d] < MaxAttempts

(* No delivery is handed out before its next_attempt_at, neither the       *)
(* requested notify_at nor the backoff of its last failure, also when it   *)
(* comes back through an expired lease (outbox.py, claim_statement).       *)
NeverBeforeDue ==
  [][\A d \in Deliveries :
       row'[d].attempts > row[d].attempts => row[d].next_attempt_at <= now]_vars

(* CONTRACT section 8 of the number of attempts: a delivery that reaches   *)
(* the maximum becomes dead and "must not be resent without limit", so no  *)
(* delivery is ever handed out more than MaxAttempts times.  claim never   *)
(* looks at max_attempts.                                                  *)
NoUnlimitedResend ==
  \A d \in Deliveries : row[d].attempts <= MaxAttempts

-----------------------------------------------------------------------------
(* The refinement: a delivery is held while its lease is live.             *)
PhaseOf(r) ==
  CASE r.status = "absent" -> "unpublished"
    [] r.status \in {"sent", "dead"} -> r.status
    [] OTHER -> "open"

HolderOf(r) == IF Live(r, now) THEN r.lease.owner ELSE NoLease

Promise == INSTANCE LeasePromise WITH
  Nobody   <- NoLease,
  Budget   <- MaxAttempts,
  phase    <- [d \in Deliveries |-> PhaseOf(row[d])],
  holder   <- [d \in Deliveries |-> HolderOf(row[d])],
  failures <- failures

(* The outbox keeps the promise of LeasePromise: a live lease is neither   *)
(* taken over nor answered by anyone but its holder.                       *)
KeepsPromise == Promise!Spec
=============================================================================
