------------------------ MODULE DeliveryOutboxProofs ------------------------
(***************************************************************************)
(* Proofs about DeliveryOutbox for any number of deliveries, plugins and   *)
(* platforms and any attempt limit, lease length and backoff: its          *)
(* invariants, and that it implements LeasePromise.                        *)
(***************************************************************************)
EXTENDS DeliveryOutbox, OutboxRowsProofs, TLAPS

USE DeliveryOutboxAssumption, OutboxRowsAssumption

(***************************************************************************)
(* The inductive invariant.  Neither OneHolder nor FailureBudget is        *)
(* inductive: a plugin that remembers the token of a later claim of the    *)
(* row, or a leased row whose attempts lag behind its failures, satisfies  *)
(* both and has a successor that does not.                                 *)
(***************************************************************************)
LeaseOfRow ==
  \A d \in Deliveries :
    /\ row[d].status = "leased" => /\ row[d].lease # NoLease
                                   /\ row[d].lease.token = row[d].attempts
    /\ row[d].status = "absent" => row[d].attempts = 0

(* Every remembered token was issued, by a claim of the plugin that        *)
(* remembers it.                                                           *)
TokensIssued ==
  \A w \in Workers : \A h \in held[w] :
    /\ 1 <= h.token
    /\ h.token <= row[h.delivery].attempts

TokensAreOwn ==
  \A v, w \in Workers : \A h \in held[v] : h \in held[w] => v = w

OwnerRemembers ==
  \A w \in Workers : \A h \in held[w] :
    /\ row[h.delivery].status = "leased"
    /\ row[h.delivery].lease.token = h.token
    => row[h.delivery].lease.owner = w

(* An attempt fails at most once, and a row that lives has one left.       *)
FailuresBehindAttempts ==
  \A d \in Deliveries :
    /\ failures[d] <= row[d].attempts
    /\ row[d].status = "leased" => failures[d] < row[d].attempts

LeasedWasDue ==
  \A d \in Deliveries :
    row[d].status = "leased" => row[d].next_attempt_at <= now

IInv ==
  /\ TypeOK
  /\ LeaseOfRow
  /\ TokensIssued
  /\ TokensAreOwn
  /\ OwnerRemembers
  /\ FailuresBehindAttempts
  /\ FailureBudget
  /\ LeasedWasDue

-----------------------------------------------------------------------------
LEMMA InitInvariant == Init => IInv
<1> SUFFICES ASSUME Init PROVE IInv
  OBVIOUS
<1> USE DEF Init
<1>1. AbsentRow \in Row /\ AbsentRow.status = "absent" /\ AbsentRow.attempts = 0
  BY DEF AbsentRow, Row
<1>2. TypeOK
  BY <1>1 DEF TypeOK
<1>3. LeaseOfRow /\ FailuresBehindAttempts /\ FailureBudget /\ LeasedWasDue
  BY <1>1 DEF LeaseOfRow, FailuresBehindAttempts, FailureBudget, LeasedWasDue
<1>4. TokensIssued /\ TokensAreOwn /\ OwnerRemembers
  BY DEF TokensIssued, TokensAreOwn, OwnerRemembers
<1>5. QED
  BY <1>2, <1>3, <1>4 DEF IInv

(* Wherever the due instant lies: a transaction may commit after it.       *)
LEMMA PublishInvariant ==
  ASSUME IInv,
         NEW batch \in SUBSET Deliveries, NEW due \in Int, Publish(batch, due)
  PROVE  IInv'
<1> USE DEF Publish
<1>1. now \in Int /\ due \in Int /\ row \in [Deliveries -> Row]
  BY DEF IInv, TypeOK
<1>2. ASSUME NEW d \in Deliveries
      PROVE  /\ row'[d] \in Row
             /\ row'[d].attempts = row[d].attempts
             /\ \/ row'[d] = row[d]
                \/ row[d].status = "absent" /\ row'[d].status = "pending"
  <2>1. CASE d \in batch
    <3>1. row'[d] = PublishedRow(due, now) /\ row[d].status = "absent"
      BY <2>1
    <3>2. row[d].attempts = 0
      BY <3>1 DEF IInv, LeaseOfRow
    <3>3. QED
      BY <1>1, <3>1, <3>2, PublishedRowFacts
  <2>2. CASE d \notin batch
    BY <1>1, <2>2
  <2>3. QED
    BY <2>1, <2>2
<1>3. TypeOK'
  <2>1. row' \in [Deliveries -> Row]
    BY <1>2
  <2>2. QED
    BY <2>1 DEF IInv, TypeOK
<1>4. LeaseOfRow' /\ LeasedWasDue'
  BY <1>2 DEF IInv, LeaseOfRow, LeasedWasDue
<1>5. FailuresBehindAttempts' /\ FailureBudget'
  BY <1>2 DEF IInv, FailuresBehindAttempts, FailureBudget
<1>6. TokensIssued' /\ TokensAreOwn' /\ OwnerRemembers'
  <2>1. \A w \in Workers : \A h \in held[w] : h.delivery \in Deliveries
    BY DEF IInv, TypeOK, Handle
  <2>2. QED
    BY <1>2, <2>1 DEF IInv, TokensIssued, TokensAreOwn, OwnerRemembers
<1>7. QED
  BY <1>3, <1>4, <1>5, <1>6 DEF IInv

-----------------------------------------------------------------------------
(* A claimed row was due, and is claimable only while it lives.            *)
LEMMA EligibleFacts ==
  ASSUME IInv, NEW d \in Deliveries, Eligible(row[d], now)
  PROVE  /\ row[d].next_attempt_at <= now
         /\ row[d].status \in {"pending", "retry", "leased"}
BY DEF IInv, LeasedWasDue, Eligible

LEMMA ClaimInvariant ==
  ASSUME IInv,
         NEW w \in Workers, NEW p \in Platforms, NEW n \in ClaimLimits,
         NEW seconds \in LeaseSeconds, NEW batch \in SUBSET Deliveries,
         Claim(w, p, batch, n, seconds)
  PROVE  IInv'
<1> DEFINE new(d) == [delivery |-> d, token |-> row[d].attempts + 1]
<1>1. /\ now \in Int /\ now + seconds \in Int
      /\ row \in [Deliveries -> Row]
      /\ held \in [Workers -> SUBSET Handle]
      /\ failures \in [Deliveries -> Nat]
      /\ \A d \in Deliveries : row[d].attempts \in Nat
  <2>1. TypeOK
    BY DEF IInv
  <2>2. \A r \in Row : r.attempts \in Nat
    BY DEF Row
  <2>3. row \in [Deliveries -> Row]
    BY <2>1 DEF TypeOK
  <2>4. \A d \in Deliveries : row[d].attempts \in Nat
    BY ONLY <2>2, <2>3
  <2>5. now \in Int /\ now + seconds \in Int
    BY <2>1 DEF TypeOK
  <2>6. held \in [Workers -> SUBSET Handle] /\ failures \in [Deliveries -> Nat]
    BY <2>1 DEF TypeOK
  <2>7. QED
    BY <2>3, <2>4, <2>5, <2>6
<1>2. \A d \in batch : Eligible(row[d], now)
  BY DEF Claim, IsBatch, Candidates
<1>3. ASSUME NEW d \in batch
      PROVE  /\ row'[d] \in Row
             /\ row'[d].status = "leased"
             /\ row'[d].attempts = row[d].attempts + 1
             /\ row'[d].next_attempt_at = row[d].next_attempt_at
             /\ row'[d].lease \in Lease
             /\ row'[d].lease.owner = w
             /\ row'[d].lease.token = row[d].attempts + 1
  <2> DEFINE until == now + seconds
  <2>1. row'[d] = ClaimedRow(row[d], w, until)
    BY DEF Claim
  <2>2. row[d] \in Row /\ until \in Int
    BY <1>1
  <2> HIDE DEF until
  <2>3. QED
    BY ONLY <2>1, <2>2, w \in Workers, ClaimedRowFacts
<1>4. \A d \in Deliveries \ batch : row'[d] = row[d]
  BY DEF Claim
<1>5. \A v \in Workers : \A h \in held'[v] :
        h \in held[v] \/ (v = w /\ \E d \in batch : h = new(d))
  BY <1>1 DEF Claim
<1>6. \A v \in Workers : \A h \in held[v] :
        /\ h.delivery \in Deliveries
        /\ h.token \in Nat
        /\ 1 <= h.token
        /\ h.token <= row[h.delivery].attempts
  BY <1>1 DEF IInv, TokensIssued, Handle
<1>7. \A d \in batch : /\ new(d).delivery = d
                       /\ new(d).token = row[d].attempts + 1
  OBVIOUS
<1> HIDE DEF new
<1>8. TypeOK'
  <2>1. row' \in [Deliveries -> Row]
    BY <1>1, <1>3, <1>4 DEF Claim
  <2>2. \A d \in batch : new(d) \in Handle
    BY <1>1 DEF new, Handle
  <2>3. held' \in [Workers -> SUBSET Handle]
    BY <1>1, <2>2 DEF new, Claim
  <2>4. QED
    BY <2>1, <2>3 DEF IInv, TypeOK, Claim
<1>9. LeaseOfRow'
  <2>1. \A d \in batch : row'[d].lease # NoLease
    BY <1>3 DEF Lease
  <2>2. QED
    BY <1>3, <1>4, <2>1 DEF IInv, LeaseOfRow
<1>10. TokensIssued'
  <2> SUFFICES ASSUME NEW v \in Workers, NEW h \in held'[v]
               PROVE  1 <= h.token /\ h.token <= row'[h.delivery].attempts
    BY DEF TokensIssued
  <2>1. CASE h \in held[v]
    <3>1. row'[h.delivery].attempts \in {row[h.delivery].attempts,
                                         row[h.delivery].attempts + 1}
      BY <1>3, <1>4, <1>6, <2>1
    <3>2. QED
      BY <1>1, <1>6, <2>1, <3>1
  <2>2. CASE \E d \in batch : h = new(d)
    <3>1. PICK d \in batch : h = new(d)
      BY <2>2
    <3>2. h.delivery = d /\ h.token = row[d].attempts + 1
      BY <1>7, <3>1
    <3>3. row'[d].attempts = row[d].attempts + 1 /\ row[d].attempts \in Nat
      BY <1>1, <1>3
    <3>4. QED
      BY <3>2, <3>3
  <2>3. QED
    BY <1>5, <2>1, <2>2
<1>11. \A v \in Workers : \A d \in batch : new(d) \notin held[v]
  BY <1>1, <1>6, <1>7
<1>12. TokensAreOwn'
  BY <1>5, <1>11 DEF IInv, TokensAreOwn
<1>13. OwnerRemembers'
  <2> SUFFICES ASSUME NEW v \in Workers, NEW h \in held'[v],
                      row'[h.delivery].status = "leased",
                      row'[h.delivery].lease.token = h.token
               PROVE  row'[h.delivery].lease.owner = v
    BY DEF OwnerRemembers
  <2>1. CASE h \in held[v] /\ h.delivery \in batch
    BY <1>1, <1>3, <1>6, <2>1
  <2>2. CASE h \in held[v] /\ h.delivery \notin batch
    BY <1>4, <1>6, <2>2 DEF IInv, OwnerRemembers
  <2>3. CASE v = w /\ \E d \in batch : h = new(d)
    <3>1. PICK d \in batch : h = new(d)
      BY <2>3
    <3>2. h.delivery = d
      BY <1>7, <3>1
    <3>3. QED
      BY <1>3, <2>3, <3>2
  <2>4. QED
    BY <1>5, <2>1, <2>2, <2>3
<1>14. failures' = failures /\ now' = now
  BY DEF Claim
<1>15. FailuresBehindAttempts'
  BY <1>1, <1>3, <1>4, <1>14 DEF IInv, FailuresBehindAttempts
<1>16. FailureBudget'
  <2>1. \A d \in batch : row[d].status # "dead"
    BY <1>2, EligibleFacts
  <2>2. QED
    BY <1>3, <1>4, <1>14, <2>1 DEF IInv, FailureBudget
<1>17. LeasedWasDue'
  <2>1. \A d \in batch : row[d].next_attempt_at <= now
    BY <1>2, EligibleFacts
  <2>2. QED
    BY <1>3, <1>4, <1>14, <2>1 DEF IInv, LeasedWasDue
<1>18. QED
  BY <1>8, <1>9, <1>10, <1>12, <1>13, <1>15, <1>16, <1>17 DEF IInv

-----------------------------------------------------------------------------
(* ack and fail: the row loses its lease, its attempts stay, and nothing   *)
(* but the answered row changes.                                           *)
LEMMA AnswerInvariant ==
  ASSUME IInv,
         NEW d \in Deliveries, NEW s \in Row,
         row[d].status = "leased",
         s.status \in {"sent", "retry", "dead"},
         s.attempts = row[d].attempts,
         row' = [row EXCEPT ![d] = s],
         UNCHANGED <<now, held>>,
         \/ UNCHANGED failures
         \/ /\ failures' = [failures EXCEPT ![d] = @ + 1]
            /\ s.status # "dead" => s.attempts < MaxAttempts
  PROVE  IInv'
<1>1. /\ row \in [Deliveries -> Row]
      /\ failures \in [Deliveries -> Nat]
      /\ \A e \in Deliveries : row[e].attempts \in Nat
  BY DEF IInv, TypeOK, Row
<1>2. row'[d] = s /\ \A e \in Deliveries \ {d} : row'[e] = row[e]
  BY <1>1
<1>3. \A e \in Deliveries : row'[e].attempts = row[e].attempts
  BY <1>2
<1>4. \A w \in Workers : \A h \in held[w] : h.delivery \in Deliveries
  BY DEF IInv, TypeOK, Handle
<1>5. TypeOK'
  <2>1. row' \in [Deliveries -> Row]
    BY <1>1
  <2>2. failures' \in [Deliveries -> Nat]
    BY <1>1
  <2>3. QED
    BY <2>1, <2>2 DEF IInv, TypeOK
<1>6. LeaseOfRow' /\ LeasedWasDue'
  BY <1>2 DEF IInv, LeaseOfRow, LeasedWasDue
<1>7. TokensIssued' /\ TokensAreOwn'
  BY <1>3, <1>4 DEF IInv, TokensIssued, TokensAreOwn
<1>8. OwnerRemembers'
  BY <1>2, <1>4 DEF IInv, OwnerRemembers
<1>9. /\ failures[d] < row[d].attempts
      /\ failures[d] < MaxAttempts
  BY DEF IInv, FailuresBehindAttempts, FailureBudget
<1>10. /\ \A e \in Deliveries \ {d} : failures'[e] = failures[e]
       /\ failures'[d] \in {failures[d], failures[d] + 1}
       /\ failures'[d] = failures[d] \/ s.status = "dead" \/ s.attempts < MaxAttempts
  BY <1>1
<1>11. FailuresBehindAttempts'
  BY <1>1, <1>2, <1>3, <1>9, <1>10 DEF IInv, FailuresBehindAttempts
<1>12. FailureBudget'
  <2>1. failures'[d] <= MaxAttempts
    BY <1>1, <1>9, <1>10
  <2>2. s.status # "dead" => failures'[d] < MaxAttempts
    BY <1>1, <1>9, <1>10
  <2>3. QED
    BY <1>2, <1>10, <2>1, <2>2 DEF IInv, FailureBudget
<1>13. QED
  BY <1>5, <1>6, <1>7, <1>8, <1>11, <1>12 DEF IInv

LEMMA AckInvariant ==
  ASSUME IInv, NEW w \in Workers, NEW h \in held[w], Ack(w, h)
  PROVE  IInv'
<1> DEFINE d == h.delivery
           s == AckedRow(row[d])
<1>1. d \in Deliveries /\ row[d] \in Row
  BY DEF IInv, TypeOK, Handle
<1>2. /\ s \in Row
      /\ s.status = "sent"
      /\ s.attempts = row[d].attempts
  BY <1>1, AnsweredRowFacts, AnsweredStatus
<1>3. /\ row[d].status = "leased"
      /\ row' = [row EXCEPT ![d] = s]
      /\ UNCHANGED <<now, held>>
      /\ UNCHANGED failures
  BY DEF Ack, Answerable, Live
<1> HIDE DEF d, s
<1>4. QED
  BY <1>1, <1>2, <1>3, AnswerInvariant

LEMMA FailInvariant ==
  ASSUME IInv, NEW w \in Workers, NEW h \in held[w], NEW retryable \in BOOLEAN,
         Fail(w, h, retryable)
  PROVE  IInv'
<1> DEFINE d == h.delivery
           retry == retryable /\ ~ Exhausted(row[d])
           s == IF retry THEN RetryRow(row[d], row[d].attempts, now)
                         ELSE DeadRow(row[d])
<1>1. /\ d \in Deliveries
      /\ row[d] \in Row
      /\ row[d].attempts \in Nat
      /\ now \in Int
  BY DEF IInv, TypeOK, Handle, Row
<1>2. /\ s \in Row
      /\ s.status \in {"retry", "dead"}
      /\ s.attempts = row[d].attempts
      /\ s.status = "retry" => retry
  <2>1. CASE retry
    <3>1. s = RetryRow(row[d], row[d].attempts, now)
      BY <2>1
    <3> HIDE DEF d, s, retry
    <3>2. s \in Row /\ s.attempts = row[d].attempts
      BY ONLY <1>1, <3>1, AnsweredRowFacts
    <3>3. s.status = "retry"
      BY ONLY <1>1, <3>1, AnsweredStatus
    <3>4. QED
      BY ONLY <2>1, <3>2, <3>3
  <2>2. CASE ~ retry
    <3>1. s = DeadRow(row[d])
      BY <2>2
    <3> HIDE DEF d, s, retry
    <3>2. s \in Row /\ s.attempts = row[d].attempts
      BY ONLY <1>1, <3>1, AnsweredRowFacts
    <3>3. s.status = "dead"
      BY ONLY <1>1, <3>1, AnsweredStatus
    <3>4. QED
      BY ONLY <3>2, <3>3
  <2>3. QED
    BY <2>1, <2>2
<1>3. retry => row[d].attempts < MaxAttempts
  BY <1>1 DEF Exhausted
<1>4. /\ row[d].status = "leased"
      /\ row' = [row EXCEPT ![d] = s]
      /\ UNCHANGED <<now, held>>
      /\ failures' = [failures EXCEPT ![d] = @ + 1]
  BY <1>1 DEF Fail, Answerable, Live, TypeOK, IInv
<1> HIDE DEF d, s, retry
<1>5. s.status # "dead" => s.attempts < MaxAttempts
  BY <1>2, <1>3
<1>6. QED
  BY <1>1, <1>2, <1>4, <1>5, AnswerInvariant

LEMMA ForgetInvariant ==
  ASSUME IInv, NEW w \in Workers, NEW h \in held[w], Forget(w, h)
  PROVE  IInv'
<1>1. /\ held \in [Workers -> SUBSET Handle]
      /\ held' \in [Workers -> SUBSET Handle]
      /\ \A v \in Workers : held'[v] \subseteq held[v]
      /\ UNCHANGED <<now, row, failures>>
  BY DEF IInv, TypeOK, Forget
<1>2. TypeOK' /\ LeaseOfRow' /\ FailuresBehindAttempts' /\ FailureBudget' /\ LeasedWasDue'
  BY <1>1 DEF IInv, TypeOK, LeaseOfRow, FailuresBehindAttempts, FailureBudget, LeasedWasDue
<1>3. TokensIssued' /\ TokensAreOwn' /\ OwnerRemembers'
  BY <1>1 DEF IInv, TokensIssued, TokensAreOwn, OwnerRemembers
<1>4. QED
  BY <1>2, <1>3 DEF IInv

LEMMA TickInvariant ==
  ASSUME IInv, Tick
  PROVE  IInv'
<1>1. /\ now \in Int /\ now' = now + 1 /\ now' \in 0..MaxTime
      /\ UNCHANGED <<row, held, failures>>
  BY DEF IInv, TypeOK, Tick
<1>2. TypeOK' /\ LeaseOfRow' /\ FailuresBehindAttempts' /\ FailureBudget'
  BY <1>1 DEF IInv, TypeOK, LeaseOfRow, FailuresBehindAttempts, FailureBudget
<1>3. LeasedWasDue'
  <2>1. \A d \in Deliveries : row[d].next_attempt_at \in Int
    BY DEF IInv, TypeOK, Row
  <2>2. QED
    BY <1>1, <2>1 DEF IInv, LeasedWasDue
<1>4. TokensIssued' /\ TokensAreOwn' /\ OwnerRemembers'
  BY <1>1 DEF IInv, TokensIssued, TokensAreOwn, OwnerRemembers
<1>5. QED
  BY <1>2, <1>3, <1>4 DEF IInv

LEMMA StepInvariant == IInv /\ [Next]_vars => IInv'
<1> SUFFICES ASSUME IInv, [Next]_vars PROVE IInv'
  OBVIOUS
<1>1. ASSUME NEW batch \in SUBSET Deliveries, NEW due \in now..(now + Horizon),
             Publish(batch, due)
      PROVE  IInv'
  <2>1. due \in Int
    BY <1>1 DEF IInv, TypeOK
  <2>2. QED
    BY <1>1, <2>1, PublishInvariant
<1>2. ASSUME NEW w \in Workers, NEW p \in Platforms, NEW n \in ClaimLimits,
             NEW seconds \in LeaseSeconds, NEW batch \in SUBSET Deliveries,
             Claim(w, p, batch, n, seconds)
      PROVE  IInv'
  BY <1>2, ClaimInvariant
<1>3. ASSUME NEW w \in Workers, NEW h \in held[w], Ack(w, h)
      PROVE  IInv'
  BY <1>3, AckInvariant
<1>4. ASSUME NEW w \in Workers, NEW h \in held[w], NEW retryable \in BOOLEAN,
             Fail(w, h, retryable)
      PROVE  IInv'
  BY <1>4, FailInvariant
<1>5. ASSUME NEW w \in Workers, NEW h \in held[w], Forget(w, h)
      PROVE  IInv'
  BY <1>5, ForgetInvariant
<1>6. CASE Tick
  BY <1>6, TickInvariant
<1>7. CASE UNCHANGED vars
  BY <1>7 DEF vars, IInv, TypeOK, LeaseOfRow, TokensIssued, TokensAreOwn, OwnerRemembers,
              FailuresBehindAttempts, FailureBudget, LeasedWasDue
<1>8. QED
  BY <1>1, <1>2, <1>3, <1>4, <1>5, <1>6, <1>7 DEF Next

-----------------------------------------------------------------------------
(* The inductive invariant holds in every state of every outbox.           *)
THEOREM InvariantHolds == Spec => []IInv
BY InitInvariant, StepInvariant, PTL DEF Spec

(* Every value the outbox stores has its type.                             *)
THEOREM TypeCorrect == Spec => []TypeOK
<1>1. IInv => TypeOK
  BY DEF IInv
<1>2. QED
  BY <1>1, InvariantHolds, PTL

(* The plugin that remembers the token of a lease is its owner.            *)
LEMMA InvariantOneHolder == IInv => OneHolder
<1> SUFFICES ASSUME IInv, NEW d \in Deliveries, NEW v \in Workers, NEW w \in Workers,
                    CanAnswer(v, d), CanAnswer(w, d)
             PROVE  v = w
  BY DEF OneHolder
<1>1. ASSUME NEW u \in Workers, CanAnswer(u, d)
      PROVE  row[d].lease.owner = u
  BY <1>1 DEF IInv, OwnerRemembers, CanAnswer, Answerable, Live
<1>2. QED
  BY <1>1

(* One lease at a time: at no instant would ack or fail accept tokens of   *)
(* the same delivery from two plugins.                                     *)
THEOREM OneHolderHolds == Spec => []OneHolder
BY InvariantOneHolder, InvariantHolds, PTL

(* At most MaxAttempts failures of a delivery are accepted, and one that   *)
(* is not dead has failed fewer times.                                     *)
THEOREM FailureBudgetHolds == Spec => []FailureBudget
<1>1. IInv => FailureBudget
  BY DEF IInv
<1>2. QED
  BY <1>1, InvariantHolds, PTL

(* A publication counts no attempt.                                        *)
LEMMA PublishCountsNothing ==
  ASSUME IInv, NEW batch \in SUBSET Deliveries, NEW due \in Int, Publish(batch, due),
         NEW d \in Deliveries
  PROVE  row'[d].attempts = row[d].attempts
<1>1. row \in [Deliveries -> Row] /\ now \in Int
  BY DEF IInv, TypeOK
<1>2. row[d].status = "absent" => row[d].attempts = 0
  BY DEF IInv, LeaseOfRow
<1>3. PublishedRow(due, now).attempts = 0
  BY <1>1, PublishedRowFacts
<1>4. /\ row'[d] = IF d \in batch THEN PublishedRow(due, now) ELSE row[d]
      /\ d \in batch => row[d].status = "absent"
  BY <1>1 DEF Publish
<1>5. QED
  BY ONLY <1>2, <1>3, <1>4

(* A step counts an attempt only of a row that is due.                     *)
LEMMA StepIsDue ==
  ASSUME IInv, [Next]_vars, NEW d \in Deliveries, row'[d].attempts > row[d].attempts
  PROVE  row[d].next_attempt_at <= now
<1>1. /\ row \in [Deliveries -> Row]
      /\ row[d].attempts \in Nat
      /\ now \in Int
  BY DEF IInv, TypeOK, Row
<1>2. ASSUME NEW batch \in SUBSET Deliveries, NEW due \in now..(now + Horizon),
             Publish(batch, due)
      PROVE  FALSE
  <2>1. due \in Int
    BY <1>1
  <2>2. row'[d].attempts = row[d].attempts
    BY <1>2, <2>1, PublishCountsNothing
  <2>3. QED
    BY <1>1, <2>2
<1>3. ASSUME NEW w \in Workers, NEW p \in Platforms, NEW n \in ClaimLimits,
             NEW seconds \in LeaseSeconds, NEW batch \in SUBSET Deliveries,
             Claim(w, p, batch, n, seconds)
      PROVE  row[d].next_attempt_at <= now
  <2>1. d \in batch
    BY <1>1, <1>3 DEF Claim
  <2>2. Eligible(row[d], now)
    BY <1>3, <2>1 DEF Claim, IsBatch, Candidates
  <2>3. QED
    BY <2>2, EligibleFacts
<1>4. ASSUME NEW w \in Workers, NEW h \in held[w],
             Ack(w, h) \/ \E retryable \in BOOLEAN : Fail(w, h, retryable)
      PROVE  FALSE
  <2>1. /\ h.delivery \in Deliveries
        /\ row[h.delivery] \in Row
        /\ row[h.delivery].attempts \in Nat
    BY <1>1 DEF IInv, TypeOK, Handle, Row
  <2>2. \E s \in {AckedRow(row[h.delivery]),
                  RetryRow(row[h.delivery], row[h.delivery].attempts, now),
                  DeadRow(row[h.delivery])} :
           row' = [row EXCEPT ![h.delivery] = s]
    BY <1>1, <1>4, <2>1 DEF Ack, Fail
  <2>3. row'[d].attempts = row[d].attempts
    BY <1>1, <2>1, <2>2, AnsweredRowFacts
  <2>4. QED
    BY <1>1, <2>3
<1>5. row' # row
  BY <1>1
<1>6. QED
  BY <1>2, <1>3, <1>4, <1>5 DEF Next, Forget, Tick, vars

(* No delivery is claimed before its next_attempt_at, whichever way it     *)
(* became claimable.                                                       *)
THEOREM NeverBeforeDueHolds == Spec => NeverBeforeDue
<1> DEFINE DueStep == \A d \in Deliveries :
                        row'[d].attempts > row[d].attempts => row[d].next_attempt_at <= now
<1>1. IInv /\ [Next]_vars => [DueStep]_vars
  BY StepIsDue
<1>2. QED
  BY <1>1, InvariantHolds, PTL DEF Spec, NeverBeforeDue

-----------------------------------------------------------------------------
(***************************************************************************)
(* DeliveryOutbox implements LeasePromise: every step of the outbox is a   *)
(* step of the promise or leaves its state alone.                          *)
(***************************************************************************)
(* How the refinement mapping sees one row.                                *)
LEMMA MappingOfUnleased ==
  ASSUME NEW r, r.status # "leased"
  PROVE  HolderOf(r) = NoLease
BY DEF HolderOf, Live

LEMMA PhaseOfOpen ==
  ASSUME NEW r, r.status \in {"pending", "leased", "retry"}
  PROVE  PhaseOf(r) = "open"
BY DEF PhaseOf

LEMMA PromiseInit == Init => Promise!Init
<1> SUFFICES ASSUME Init PROVE Promise!Init
  OBVIOUS
<1>1. \A d \in Deliveries : row[d] = AbsentRow /\ AbsentRow.status = "absent"
  BY DEF Init, AbsentRow
<1>2. \A d \in Deliveries : PhaseOf(row[d]) = "unpublished" /\ HolderOf(row[d]) = NoLease
  BY <1>1 DEF PhaseOf, HolderOf, Live
<1>3. QED
  BY <1>2 DEF Init, Promise!Init

LEMMA PromisePublish ==
  ASSUME IInv,
         NEW batch \in SUBSET Deliveries, NEW due \in Int, Publish(batch, due)
  PROVE  Promise!Next
<1>1. now \in Int /\ due \in Int /\ now' = now /\ failures' = failures
  BY DEF IInv, TypeOK, Publish
<1>2. ASSUME NEW d \in batch
      PROVE  /\ PhaseOf(row[d]) = "unpublished"
             /\ PhaseOf(row'[d]) = "open"
             /\ HolderOf(row[d]) = NoLease
             /\ row'[d].status # "leased"
  <2>1. row[d].status = "absent" /\ row'[d].status = "pending"
    BY <1>1, PublishedRowFacts DEF Publish
  <2>2. QED
    BY <2>1 DEF PhaseOf, HolderOf, Live
<1>3. \A d \in Deliveries \ batch : row'[d] = row[d]
  BY DEF Publish
<1>4. Promise!Publish(batch)
  <2>1. [d \in Deliveries |-> PhaseOf(row[d])]' =
          [d \in Deliveries |-> IF d \in batch THEN "open" ELSE PhaseOf(row[d])]
    BY <1>2, <1>3 DEF PhaseOf
  <2>2. [d \in Deliveries |-> HolderOf(row[d])]' = [d \in Deliveries |-> HolderOf(row[d])]
    BY <1>1, <1>2, <1>3 DEF HolderOf, Live
  <2>3. QED
    BY <1>1, <1>2, <2>1, <2>2 DEF Promise!Publish
<1>5. QED
  BY <1>4 DEF Promise!Next

(* A claim grants its whole batch: nobody held what was claimable, and the *)
(* new leases end after now.                                               *)
LEMMA PromiseClaim ==
  ASSUME IInv,
         NEW w \in Workers, NEW p \in Platforms, NEW n \in ClaimLimits,
         NEW seconds \in LeaseSeconds, NEW batch \in SUBSET Deliveries,
         Claim(w, p, batch, n, seconds)
  PROVE  Promise!Next
<1> DEFINE until == now + seconds
<1>1. /\ now \in Int /\ until \in Int /\ Column(until) > now
      /\ now' = now /\ failures' = failures
      /\ row \in [Deliveries -> Row]
  <2>1. seconds \in Nat /\ seconds >= Second
    BY LeaseSecondsAssumption
  <2>2. now \in Int /\ row \in [Deliveries -> Row]
    BY DEF IInv, TypeOK
  <2>3. now' = now /\ failures' = failures
    BY DEF Claim
  <2>4. QED
    BY <2>1, <2>2, <2>3, ColumnAfter
<1>2. \A d \in Deliveries :
        row'[d] = IF d \in batch THEN ClaimedRow(row[d], w, until) ELSE row[d]
  BY DEF Claim
<1> HIDE DEF until
<1>3. ASSUME NEW d \in batch
      PROVE  /\ PhaseOf(row[d]) = "open"
             /\ PhaseOf(row'[d]) = "open"
             /\ HolderOf(row[d]) = NoLease
             /\ Live(row'[d], now)
             /\ row'[d].lease.owner = w
  <2>1. row[d] \in Row /\ row'[d] = ClaimedRow(row[d], w, until)
    BY <1>1, <1>2
  <2>2. /\ row'[d].status = "leased"
        /\ row'[d].lease.owner = w
        /\ row'[d].lease.until = Column(until)
    BY ONLY <1>1, <2>1, w \in Workers, ClaimedRowFacts
  <2>3. Eligible(row[d], now)
    BY DEF Claim, IsBatch, Candidates
  <2>4. row[d].status \in {"pending", "retry", "leased"}
    BY <2>3, EligibleFacts
  <2>5. ~ Live(row[d], now)
    <3>1. row[d].status = "leased" => row[d].lease \in Lease
      BY <2>1 DEF IInv, LeaseOfRow, Row
    <3>2. QED
      BY <1>1, <2>3, <3>1 DEF Eligible, Live, Lease
  <2>6. QED
    BY <1>1, <2>2, <2>4, <2>5, PhaseOfOpen DEF Live, HolderOf
<1>4. Promise!Grant(batch, w)
  <2>1. [d \in Deliveries |-> PhaseOf(row[d])]' = [d \in Deliveries |-> PhaseOf(row[d])]
    BY <1>2, <1>3 DEF PhaseOf
  <2>2. [d \in Deliveries |-> HolderOf(row[d])]' =
          [d \in Deliveries |-> IF d \in batch THEN w ELSE HolderOf(row[d])]
    BY <1>1, <1>2, <1>3 DEF HolderOf, Live
  <2>3. QED
    BY <1>1, <1>3, <2>1, <2>2 DEF Promise!Grant
<1>5. QED
  BY <1>4 DEF Promise!Next

(* ack and fail are answers of the plugin the promise calls the holder.    *)
LEMMA AnswererHolds ==
  ASSUME IInv, NEW w \in Workers, NEW h \in held[w],
         Answerable(row[h.delivery], h.token, now)
  PROVE  HolderOf(row[h.delivery]) = w
BY DEF IInv, OwnerRemembers, Answerable, Live, HolderOf

LEMMA PromiseAck ==
  ASSUME IInv, NEW w \in Workers, NEW h \in held[w], Ack(w, h)
  PROVE  Promise!Next
<1> DEFINE d == h.delivery
<1>1. /\ d \in Deliveries
      /\ row \in [Deliveries -> Row]
      /\ now' = now /\ failures' = failures
      /\ row' = [row EXCEPT ![d] = AckedRow(row[d])]
  BY DEF IInv, TypeOK, Handle, Ack
<1>2. HolderOf(row[d]) = w
  BY AnswererHolds DEF Ack
<1> HIDE DEF d
<1>3. row'[d].status = "sent" /\ \A e \in Deliveries \ {d} : row'[e] = row[e]
  BY <1>1 DEF AckedRow, Row
<1>4. Promise!Settle(d, w)
  <2>1. [e \in Deliveries |-> PhaseOf(row[e])]' =
          [[e \in Deliveries |-> PhaseOf(row[e])] EXCEPT ![d] = "sent"]
    BY <1>1, <1>3 DEF PhaseOf
  <2>2. [e \in Deliveries |-> HolderOf(row[e])]' =
          [[e \in Deliveries |-> HolderOf(row[e])] EXCEPT ![d] = NoLease]
    BY <1>1, <1>3 DEF HolderOf, Live
  <2>3. QED
    BY <1>1, <1>2, <2>1, <2>2 DEF Promise!Settle
<1>5. QED
  BY <1>1, <1>4 DEF Promise!Next

LEMMA PromiseFail ==
  ASSUME IInv, NEW w \in Workers, NEW h \in held[w], NEW retryable \in BOOLEAN,
         Fail(w, h, retryable)
  PROVE  Promise!Next
<1> DEFINE d == h.delivery
           retry == retryable /\ ~ Exhausted(row[d])
<1>1. /\ d \in Deliveries
      /\ row \in [Deliveries -> Row]
      /\ row[d].attempts \in Nat
      /\ now' = now
      /\ failures \in [Deliveries -> Nat]
      /\ failures' = [failures EXCEPT ![d] = @ + 1]
      /\ row' = [row EXCEPT ![d] = IF retry THEN RetryRow(row[d], row[d].attempts, now)
                                            ELSE DeadRow(row[d])]
      /\ row[d].status = "leased"
  BY DEF IInv, TypeOK, Handle, Row, Fail, Answerable, Live
<1>2. HolderOf(row[d]) = w
  BY AnswererHolds DEF Fail
<1>3. /\ failures[d] \in Nat
      /\ failures[d] + 1 <= MaxAttempts
      /\ retry => failures[d] + 1 < MaxAttempts
  <2>1. /\ failures[d] \in Nat
        /\ failures[d] < row[d].attempts
        /\ failures[d] < MaxAttempts
    BY <1>1 DEF IInv, FailuresBehindAttempts, FailureBudget
  <2>2. retry => row[d].attempts < MaxAttempts
    BY <1>1 DEF Exhausted
  <2> HIDE DEF retry, d
  <2>3. QED
    BY <1>1, <2>1, <2>2
<1> HIDE DEF d, retry
<1>4. /\ row'[d].status = IF retry THEN "retry" ELSE "dead"
      /\ \A e \in Deliveries \ {d} : row'[e] = row[e]
  BY <1>1 DEF RetryRow, DeadRow, Row
<1>5. [e \in Deliveries |-> HolderOf(row[e])]' =
        [[e \in Deliveries |-> HolderOf(row[e])] EXCEPT ![d] = NoLease]
  BY <1>1, <1>4 DEF HolderOf, Live
<1>6. CASE retry
  <2>1. [e \in Deliveries |-> PhaseOf(row[e])]' = [e \in Deliveries |-> PhaseOf(row[e])]
    BY <1>1, <1>4, <1>6 DEF PhaseOf
  <2>2. Promise!Decline(d, w)
    BY <1>1, <1>2, <1>3, <1>5, <1>6, <2>1 DEF Promise!Decline
  <2>3. QED
    BY <1>1, <2>2 DEF Promise!Next
<1>7. CASE ~ retry
  <2>1. [e \in Deliveries |-> PhaseOf(row[e])]' =
          [[e \in Deliveries |-> PhaseOf(row[e])] EXCEPT ![d] = "dead"]
    BY <1>1, <1>4, <1>7 DEF PhaseOf
  <2>2. Promise!Bury(d, w)
    BY <1>1, <1>2, <1>3, <1>5, <2>1 DEF Promise!Bury
  <2>3. QED
    BY <1>1, <2>2 DEF Promise!Next
<1>8. QED
  BY <1>6, <1>7

(* The clock only ends leases.                                             *)
LEMMA PromiseTick ==
  ASSUME IInv, Tick
  PROVE  Promise!Next
<1> DEFINE batch == {d \in Deliveries : Live(row[d], now) /\ ~ Live(row[d], now + 1)}
<1>1. now \in Int /\ now' = now + 1 /\ row' = row /\ failures' = failures
  BY DEF IInv, TypeOK, Tick
<1>2. \A d \in Deliveries : Live(row[d], now + 1) => Live(row[d], now)
  <2> SUFFICES ASSUME NEW d \in Deliveries, Live(row[d], now + 1)
               PROVE  Live(row[d], now)
    OBVIOUS
  <2>1. row[d].lease \in Lease
    BY DEF IInv, TypeOK, LeaseOfRow, Row, Live
  <2>2. QED
    BY <1>1, <2>1 DEF Live, Lease
<1>3. Promise!Lapse(batch)
  <2>1. [d \in Deliveries |-> PhaseOf(row[d])]' = [d \in Deliveries |-> PhaseOf(row[d])]
    BY <1>1
  <2>2. [d \in Deliveries |-> HolderOf(row[d])]' =
          [d \in Deliveries |-> IF d \in batch THEN NoLease ELSE HolderOf(row[d])]
    BY <1>1, <1>2 DEF HolderOf
  <2>3. QED
    BY <1>1, <2>1, <2>2 DEF Promise!Lapse
<1>4. batch \in SUBSET Deliveries
  OBVIOUS
<1>5. QED
  BY <1>3, <1>4 DEF Promise!Next

LEMMA PromiseStep == IInv /\ [Next]_vars => [Promise!Next]_(Promise!vars)
<1> SUFFICES ASSUME IInv, [Next]_vars PROVE [Promise!Next]_(Promise!vars)
  OBVIOUS
<1>1. ASSUME UNCHANGED <<now, row, failures>>
      PROVE  UNCHANGED Promise!vars
  BY <1>1 DEF Promise!vars, HolderOf
<1>2. ASSUME NEW w \in Workers, NEW h \in held[w],
             Ack(w, h) \/ (\E retryable \in BOOLEAN : Fail(w, h, retryable)) \/ Forget(w, h)
      PROVE  [Promise!Next]_(Promise!vars)
  BY <1>1, <1>2, PromiseAck, PromiseFail DEF Forget
<1>3. now..(now + Horizon) \subseteq Int
  OBVIOUS
<1>4. QED
  BY <1>1, <1>2, <1>3, PromisePublish, PromiseClaim, PromiseTick DEF Next, vars

(* The outbox implements the promise it makes to the plugins.              *)
THEOREM OutboxKeepsPromise == Spec => KeepsPromise
<1>1. Spec => []IInv
  BY InvariantHolds
<1>2. QED
  BY <1>1, PromiseInit, PromiseStep, PTL DEF Spec, KeepsPromise, Promise!Spec
=============================================================================
