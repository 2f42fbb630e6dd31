----------------------------- MODULE OutboxRows -----------------------------
(***************************************************************************)
(* One row of the `deliveries` table and what the outbox does to it.       *)
(*                                                                         *)
(* The operators below are the bodies of DeliveryOutbox.claim, ack and     *)
(* fail read as functions from a row to a row.  DeliveryOutbox runs each   *)
(* of them in one step, OutboxTransactions runs the same operators split   *)
(* at the statements the database executes.                                *)
(*                                                                         *)
(* The columns the code always writes together (lease_owner,               *)
(* lease_token_hash, lease_until) are one field, `lease`, equal to NoLease *)
(* when the three columns are NULL.  A lease token is a fresh random       *)
(* string, and only its equality with the stored hash is ever used: the    *)
(* token of a claim is abstracted to the ordinal of that claim of the row. *)
(* Message, target address, error code and platform message id are         *)
(* payload and left out.                                                   *)
(***************************************************************************)
EXTENDS Integers, FiniteSets

CONSTANTS
  Workers,       \* worker_id of the plugins that claim deliveries
  NoLease,       \* lease columns that are NULL
  MaxAttempts,   \* Settings.delivery_max_attempts
  Second,        \* instants of utc_now per unit of a DATETIME column
  BackoffBase,   \* 5 seconds in the code
  BackoffCap     \* 3600 seconds in the code

ASSUME OutboxRowsAssumption ==
  /\ MaxAttempts \in Nat \ {0}
  /\ Second \in Nat \ {0}
  /\ BackoffBase \in Nat \ {0}
  /\ BackoffCap \in Nat \ {0}
  /\ NoLease \notin [owner : Workers, token : Nat, until : Int]

Lease == [owner : Workers, token : Nat, until : Int]

(* "absent" is a delivery id for which no row has been inserted yet.       *)
Row == [status          : {"absent", "pending", "leased", "retry", "sent", "dead"},
        attempts        : Nat,
        next_attempt_at : Int,
        created_at      : Int,
        lease           : Lease \union {NoLease}]

AbsentRow == [status |-> "absent", attempts |-> 0, next_attempt_at |-> 0,
              created_at |-> 0, lease |-> NoLease]

(* A DATETIME column of MySQL keeps whole seconds: the fraction of the     *)
(* instant written is rounded to the nearest one.  SQLite keeps fractions, *)
(* which is Second = 1.                                                    *)
Column(t) == ((t + (Second \div 2)) \div Second) * Second

PublishedRow(due, t) ==
  [status |-> "pending", attempts |-> 0, next_attempt_at |-> Column(due),
   created_at |-> Column(t), lease |-> NoLease]

-----------------------------------------------------------------------------
(* The WHERE and ORDER BY clauses of claim_statement.                      *)

(* Mutants: a retry ignores its backoff, a lease ignores its end, a lease   *)
(* that ran out is never offered again.                                    *)
EligibleIgnoringBackoff(r, t) ==
  \/ r.status = "pending" /\ r.next_attempt_at <= t
  \/ r.status = "retry"
  \/ r.status = "leased" /\ r.lease.until < t

EligibleIgnoringLease(r, t) ==
  r.status \in {"pending", "retry", "leased"} /\ r.next_attempt_at <= t

EligibleUnleased(r, t) ==
  r.status \in {"pending", "retry"} /\ r.next_attempt_at <= t

Eligible(r, t) ==
  \/ /\ r.status \in {"pending", "retry"}
     /\ r.next_attempt_at <= t
  \/ /\ r.status = "leased"
     /\ r.lease.until < t

Precedes(r, s) ==
  \/ r.next_attempt_at < s.next_attempt_at
  \/ /\ r.next_attempt_at = s.next_attempt_at
     /\ r.created_at < s.created_at

(* The batch is what ORDER BY ... LIMIT n leaves of the candidates: all of *)
(* them or n of them, none preceded by a candidate left out.  Rows that    *)
(* compare equal come in any order.                                        *)
IsBatch(batch, candidates, n, rowOf) ==
  /\ batch \subseteq candidates
  /\ Cardinality(batch) = IF Cardinality(candidates) < n
                          THEN Cardinality(candidates) ELSE n
  /\ \A d \in batch, e \in candidates \ batch : ~ Precedes(rowOf[e], rowOf[d])

ClaimedRow(r, w, until) ==
  [r EXCEPT !.status   = "leased",
            !.attempts = @ + 1,
            !.lease    = [owner |-> w, token |-> r.attempts + 1,
                           until |-> Column(until)]]

-----------------------------------------------------------------------------
(* The test of _leased: a lease that its holder may still answer at t.     *)

Live(r, t) == r.status = "leased" /\ r.lease.until > t

(* Mutant: the token is not compared with the stored hash.                 *)
AnswerableByAnyToken(r, token, t) == Live(r, t)

Answerable(r, token, t) == Live(r, t) /\ r.lease.token = token

Backoff(attempts) ==
  LET delay == BackoffBase * 2 ^ (IF attempts > 1 THEN attempts - 1 ELSE 0)
  IN  IF delay < BackoffCap THEN delay ELSE BackoffCap

(* Mutant: off by one.                                                     *)
ExhaustedLate(r) == r.attempts > MaxAttempts

Exhausted(r) == r.attempts >= MaxAttempts

(* Mutant: _clear_lease clears lease_until only.                           *)
AckedRowKeepingOwner(r) == [r EXCEPT !.status = "sent", !.lease.until = NoLease]

AckedRow(r) == [r EXCEPT !.status = "sent", !.lease = NoLease]

RetryRow(r, attempts, t) ==
  [r EXCEPT !.status          = "retry",
            !.next_attempt_at = Column(t + Backoff(attempts)),
            !.lease           = NoLease]

DeadRow(r) == [r EXCEPT !.status = "dead", !.lease = NoLease]
=============================================================================
