-------------------------- MODULE OutboxRowsProofs --------------------------
(***************************************************************************)
(* What the operators on one row of the outbox return, for any row.  Both  *)
(* DeliveryOutboxProofs and OutboxTransactionsProofs cite these lemmas.    *)
(***************************************************************************)
EXTENDS OutboxRows, TLAPS

USE OutboxRowsAssumption

(* What the row operators return, field by field.                          *)
LEMMA BackoffType ==
  ASSUME NEW n \in Nat
  PROVE  Backoff(n) \in Int
BY DEF Backoff

LEMMA ColumnType ==
  ASSUME NEW t \in Int
  PROVE  Column(t) \in Int
BY DEF Column

LEMMA DivisionBounds ==
  ASSUME NEW t \in Int, NEW s \in Nat \ {0}
  PROVE  (t \div s) * s > t - s
OBVIOUS

(* Rounding never takes a whole second off a lease: one that is a second   *)
(* long or longer is stored with an end after the instant it was taken.    *)
LEMMA ColumnAfter ==
  ASSUME NEW t \in Int, NEW seconds \in Nat, seconds >= Second
  PROVE  Column(t + seconds) > t
BY DivisionBounds DEF Column

LEMMA PublishedRowFacts ==
  ASSUME NEW due \in Int, NEW t \in Int
  PROVE  /\ PublishedRow(due, t) \in Row
         /\ PublishedRow(due, t).status = "pending"
         /\ PublishedRow(due, t).attempts = 0
BY ColumnType DEF PublishedRow, Row

LEMMA ClaimedRowFacts ==
  ASSUME NEW r \in Row, NEW w \in Workers, NEW u \in Int
  PROVE  /\ ClaimedRow(r, w, u) \in Row
         /\ ClaimedRow(r, w, u).status = "leased"
         /\ ClaimedRow(r, w, u).attempts = r.attempts + 1
         /\ ClaimedRow(r, w, u).next_attempt_at = r.next_attempt_at
         /\ ClaimedRow(r, w, u).lease \in Lease
         /\ ClaimedRow(r, w, u).lease.owner = w
         /\ ClaimedRow(r, w, u).lease.token = r.attempts + 1
         /\ ClaimedRow(r, w, u).lease.until = Column(u)
<1> DEFINE l == [owner |-> w, token |-> r.attempts + 1, until |-> Column(u)]
<1>1. r.attempts + 1 \in Nat /\ Column(u) \in Int
  BY ColumnType DEF Row
<1>2. l \in Lease
  BY <1>1 DEF Lease
<1>3. ClaimedRow(r, w, u) \in Row
  BY <1>1, <1>2 DEF ClaimedRow, Row
<1>4. ClaimedRow(r, w, u).lease = l
  BY DEF ClaimedRow, Row
<1>5. QED
  BY <1>2, <1>3, <1>4 DEF ClaimedRow, Row

LEMMA AnsweredRowFacts ==
  ASSUME NEW r \in Row, NEW n \in Nat, NEW t \in Int,
         NEW s \in {AckedRow(r), RetryRow(r, n, t), DeadRow(r)}
  PROVE  /\ s \in Row
         /\ s.status \in {"sent", "retry", "dead"}
         /\ s.attempts = r.attempts
         /\ s.lease = NoLease
<1>1. CASE s = AckedRow(r)
  BY <1>1 DEF AckedRow, Row
<1>2. CASE s = RetryRow(r, n, t)
  <2>1. Column(t + Backoff(n)) \in Int
    BY BackoffType, ColumnType
  <2>2. QED
    BY <1>2, <2>1 DEF RetryRow, Row
<1>3. CASE s = DeadRow(r)
  BY <1>3 DEF DeadRow, Row
<1>4. QED
  BY <1>1, <1>2, <1>3

LEMMA AnsweredStatus ==
  ASSUME NEW r \in Row, NEW n \in Nat, NEW t \in Int
  PROVE  /\ AckedRow(r).status = "sent"
         /\ RetryRow(r, n, t).status = "retry"
         /\ DeadRow(r).status = "dead"
BY DEF AckedRow, RetryRow, DeadRow, Row
=============================================================================
