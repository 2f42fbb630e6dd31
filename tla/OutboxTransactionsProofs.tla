---------------------- MODULE OutboxTransactionsProofs ----------------------
(***************************************************************************)
(* Proofs about OutboxTransactions: however the statements of any number   *)
(* of claims and answers interleave, prompt or not, claims spare live      *)
(* leases and never hand out the same attempt twice; while answers are     *)
(* prompt, the transactions implement LeasePromise.                        *)
(***************************************************************************)
EXTENDS OutboxTransactions, OutboxRowsProofs, TLAPS

USE OutboxTransactionsAssumption, OutboxRowsAssumption

(***************************************************************************)
(* The inductive invariant.  The properties rest on what a claim knows of  *)
(* the rows it selected: it holds their locks, so they are still as it     *)
(* found them and still claimable when it commits.                         *)
(***************************************************************************)
LeaseOfRow ==
  \A d \in Deliveries :
    /\ row[d].status = "leased" => row[d].lease # NoLease
    /\ row[d].status = "absent" => row[d].attempts = 0

LocksAreExclusive ==
  \A b, c \in Calls : b # c => Locks(b) \intersect Locks(c) = {}

ClocksAreRead ==
  \A c \in Calls : call[c].pc = "claim" => call[c].at <= now

SelectionHolds ==
  \A c \in Calls : call[c].pc = "selected" =>
    \A d \in call[c].batch : /\ Eligible(row[d], now)
                             /\ call[c].seen[d] = row[d].attempts

TokensIssued ==
  \A w \in Workers : \A h \in held[w] : h.token <= row[h.delivery].attempts

TokensAreOwn ==
  \A v, w \in Workers : \A h \in held[v] : h \in held[w] => v = w

IInv ==
  /\ TypeOK
  /\ LeaseOfRow
  /\ LocksAreExclusive
  /\ ClocksAreRead
  /\ SelectionHolds
  /\ TokensIssued
  /\ TokensAreOwn

-----------------------------------------------------------------------------
(* What is known of a call in each of its states.                          *)
LEMMA CallFacts ==
  ASSUME TypeOK, NEW c \in Calls
  PROVE  /\ call[c] \in Call
         /\ call[c].pc = "claim" => call[c].worker \in Workers /\ call[c].at \in Nat
         /\ call[c].pc = "selected" =>
              /\ call[c].worker \in Workers
              /\ call[c].batch \in SUBSET Deliveries
              /\ call[c].until \in Nat
              /\ call[c].seen \in [Deliveries -> Nat]
         /\ call[c].pc = "answer" =>
              call[c].handle \in Handle /\ call[c].kind \in Answers /\ call[c].at \in Nat
         /\ call[c].pc \in {"checked", "flushed"} =>
              /\ call[c].handle \in Handle
              /\ call[c].kind \in Answers
              /\ call[c].at \in Nat
              /\ call[c].attempts \in Nat
<1>1. call[c] \in Call
  BY DEF TypeOK
<1>2. QED
  BY <1>1 DEF Call, Idle

LEMMA RowFacts ==
  ASSUME TypeOK, NEW d \in Deliveries
  PROVE  /\ row[d] \in Row
         /\ row[d].attempts \in Nat
         /\ row[d].next_attempt_at \in Int
         /\ row[d].lease \in Lease \union {NoLease}
<1>1. row[d] \in Row
  BY DEF TypeOK
<1>2. QED
  BY <1>1 DEF Row

LEMMA LocksFacts ==
  ASSUME TypeOK, NEW c \in Calls
  PROVE  /\ Locks(c) \in SUBSET Deliveries
         /\ call[c].pc = "selected" => Locks(c) = call[c].batch
         /\ call[c].pc = "flushed" => Locks(c) = {call[c].handle.delivery}
         /\ call[c].pc \notin {"selected", "flushed"} => Locks(c) = {}
BY CallFacts DEF Locks, Handle

LEMMA LocksKept ==
  ASSUME NEW c \in Calls, call'[c] = call[c]
  PROVE  Locks(c)' = Locks(c)
BY DEF Locks

LEMMA IdleFacts ==
  /\ Idle \in Call
  /\ \A c \in Calls : call'[c] = Idle => Locks(c)' = {}
  /\ Idle.pc = "idle"
BY DEF Idle, Call, Locks

(* A row that could be claimed stays claimable while nobody changes it.    *)
LEMMA EligibleLater ==
  ASSUME NEW r \in Row, NEW t \in Int, NEW u \in Int, t <= u, Eligible(r, t),
         r.status = "leased" => r.lease # NoLease
  PROVE  Eligible(r, u)
<1>1. r.next_attempt_at \in Int
  BY DEF Row
<1>2. r.status = "leased" => r.lease.until \in Int
  BY DEF Row, Lease
<1>3. QED
  BY <1>1, <1>2 DEF Eligible

LEMMA EligibleIsFree ==
  ASSUME NEW r \in Row, NEW t \in Int, Eligible(r, t),
         r.status = "leased" => r.lease # NoLease
  PROVE  ~ Live(r, t)
<1>1. r.status = "leased" => r.lease.until \in Int
  BY DEF Row, Lease
<1>2. QED
  BY <1>1 DEF Eligible, Live

-----------------------------------------------------------------------------
LEMMA InitInvariant == Init => IInv
<1> SUFFICES ASSUME Init PROVE IInv
  OBVIOUS
<1>1. AbsentRow \in Row /\ AbsentRow.status = "absent" /\ AbsentRow.attempts = 0
  BY DEF AbsentRow, Row
<1>2. Idle \in Call /\ Idle.pc = "idle"
  BY IdleFacts
<1>3. TypeOK /\ LeaseOfRow
  BY <1>1, <1>2 DEF Init, TypeOK, LeaseOfRow
<1>4. \A c \in Calls : Locks(c) = {}
  BY <1>2 DEF Init, Locks
<1>5. QED
  BY <1>2, <1>3, <1>4 DEF Init, IInv, LocksAreExclusive, ClocksAreRead, SelectionHolds,
     TokensIssued, TokensAreOwn

(* A step that only moves one call on, to a state whose locks are free and *)
(* whose selection is claimable.                                           *)
LEMMA CallMoves ==
  ASSUME IInv, NEW c \in Calls, NEW s \in Call, Become(c, s),
         UNCHANGED <<now, row, held, failures>>,
         \A b \in Calls \ {c} : Locks(b) \intersect Locks(c)' = {},
         s.pc = "claim" => s.at <= now,
         s.pc = "selected" =>
           \A d \in s.batch : Eligible(row[d], now) /\ s.seen[d] = row[d].attempts
  PROVE  IInv'
<1>1. /\ call' \in [Calls -> Call]
      /\ call'[c] = s
      /\ \A b \in Calls \ {c} : call'[b] = call[b]
  BY DEF IInv, TypeOK, Become
<1>2. \A b \in Calls \ {c} : Locks(b)' = Locks(b)
  BY <1>1, LocksKept
<1>3. TypeOK' /\ LeaseOfRow' /\ TokensIssued' /\ TokensAreOwn'
  BY <1>1 DEF IInv, TypeOK, LeaseOfRow, TokensIssued, TokensAreOwn
<1>4. LocksAreExclusive'
  BY <1>2 DEF IInv, LocksAreExclusive
<1>5. ClocksAreRead'
  BY <1>1 DEF IInv, ClocksAreRead
<1>6. SelectionHolds'
  <2> SUFFICES ASSUME NEW b \in Calls, call'[b].pc = "selected", NEW d \in call'[b].batch
               PROVE  Eligible(row[d], now) /\ call'[b].seen[d] = row[d].attempts
    BY DEF SelectionHolds
  <2>1. CASE b = c
    BY <1>1, <2>1
  <2>2. CASE b # c
    BY <1>1, <2>2 DEF IInv, SelectionHolds
  <2>3. QED
    BY <2>1, <2>2
<1>7. QED
  BY <1>3, <1>4, <1>5, <1>6 DEF IInv

(* A call that writes the rows it has locked and ends.                     *)
LEMMA CallCommits ==
  ASSUME IInv, NEW c \in Calls, Become(c, Idle), now' = now,
         row' \in [Deliveries -> Row], failures' \in [Deliveries -> Nat],
         \A d \in Deliveries \ Locks(c) : row'[d] = row[d],
         \A d \in Locks(c) : /\ row'[d].status = "leased" => row'[d].lease # NoLease
                             /\ row'[d].status # "absent"
                             /\ row'[d].attempts >= row[d].attempts,
         held' \in [Workers -> SUBSET Handle],
         TokensIssued', TokensAreOwn'
  PROVE  IInv'
<1>1. /\ call' \in [Calls -> Call]
      /\ call'[c] = Idle
      /\ \A b \in Calls \ {c} : call'[b] = call[b]
  BY IdleFacts DEF IInv, TypeOK, Become
<1>2. /\ Locks(c)' = {}
      /\ \A b \in Calls \ {c} : Locks(b)' = Locks(b)
  BY <1>1, LocksKept, IdleFacts
<1>3. TypeOK'
  BY <1>1 DEF IInv, TypeOK
<1>4. LeaseOfRow'
  BY DEF IInv, LeaseOfRow
<1>5. LocksAreExclusive'
  BY <1>2 DEF IInv, LocksAreExclusive
<1>6. ClocksAreRead'
  BY <1>1, IdleFacts DEF IInv, ClocksAreRead
<1>7. SelectionHolds'
  <2> SUFFICES ASSUME NEW b \in Calls, call'[b].pc = "selected", NEW d \in call'[b].batch
               PROVE  Eligible(row'[d], now') /\ call'[b].seen[d] = row'[d].attempts
    BY DEF SelectionHolds
  <2>1. b # c /\ call'[b] = call[b]
    BY <1>1, IdleFacts
  <2>2. d \in Locks(b) /\ d \in Deliveries
    BY <2>1, LocksFacts DEF IInv
  <2>3. d \notin Locks(c)
    BY <2>1, <2>2 DEF IInv, LocksAreExclusive
  <2>4. QED
    BY <2>1, <2>2, <2>3 DEF IInv, SelectionHolds
<1>8. QED
  BY <1>3, <1>4, <1>5, <1>6, <1>7 DEF IInv

-----------------------------------------------------------------------------
(* One lemma per action.                                                   *)
LEMMA Became ==
  ASSUME IInv, NEW c \in Calls, NEW s, Become(c, s)
  PROVE  /\ call'[c] = s
         /\ s.pc \notin {"selected", "flushed"} => Locks(c)' = {}
         /\ s.pc = "selected" => Locks(c)' = s.batch
         /\ s.pc = "flushed" => Locks(c)' = {s.handle.delivery}
<1>1. call'[c] = s
  BY DEF IInv, TypeOK, Become
<1>2. QED
  BY <1>1 DEF Locks

LEMMA ToIdle ==
  ASSUME IInv, NEW c \in Calls, Become(c, Idle), UNCHANGED <<now, row, held, failures>>
  PROVE  IInv'
BY CallMoves, Became, IdleFacts

LEMMA PublishInvariant ==
  ASSUME IInv, NEW batch \in SUBSET Deliveries, NEW due \in now..(now + Horizon),
         Publish(batch, due)
  PROVE  IInv'
<1>1. now \in Int /\ due \in Int
  BY DEF IInv, TypeOK
<1>2. /\ PublishedRow(due, now) \in Row
      /\ PublishedRow(due, now).status = "pending"
      /\ PublishedRow(due, now).attempts = 0
  BY <1>1, PublishedRowFacts
<1>3. /\ now' = now /\ held' = held /\ failures' = failures /\ call' = call
      /\ \A d \in batch : row[d].status = "absent"
      /\ row' = [d \in Deliveries |-> IF d \in batch THEN PublishedRow(due, now) ELSE row[d]]
  BY DEF Publish
<1>4. \A d \in Deliveries : row'[d].attempts = row[d].attempts
  BY <1>2, <1>3 DEF IInv, LeaseOfRow
<1>5. TypeOK'
  BY <1>2, <1>3 DEF IInv, TypeOK
<1>6. LeaseOfRow'
  BY <1>2, <1>3 DEF IInv, LeaseOfRow
<1>7. \A c \in Calls : Locks(c)' = Locks(c)
  BY <1>3, LocksKept
<1>8. LocksAreExclusive' /\ ClocksAreRead' /\ TokensAreOwn'
  BY <1>3, <1>7 DEF IInv, LocksAreExclusive, ClocksAreRead, TokensAreOwn
<1>9. SelectionHolds'
  <2> SUFFICES ASSUME NEW c \in Calls, call[c].pc = "selected", NEW d \in call[c].batch
               PROVE  Eligible(row'[d], now) /\ call[c].seen[d] = row'[d].attempts
    BY <1>3 DEF SelectionHolds
  <2>1. d \in Deliveries /\ Eligible(row[d], now) /\ call[c].seen[d] = row[d].attempts
    BY CallFacts DEF IInv, SelectionHolds
  <2>2. row'[d] = row[d]
    BY <1>3, <2>1 DEF Eligible
  <2>3. QED
    BY <2>1, <2>2
<1>10. TokensIssued'
  BY <1>3, <1>4 DEF IInv, TypeOK, Handle, TokensIssued
<1>11. QED
  BY <1>5, <1>6, <1>8, <1>9, <1>10 DEF IInv

LEMMA StartClaimInvariant ==
  ASSUME IInv, NEW c \in Calls, NEW w \in Workers, StartClaim(c, w)
  PROVE  IInv'
<1> DEFINE s == [pc |-> "claim", worker |-> w, at |-> now]
<1>1. s \in Call /\ s.at <= now
  BY DEF IInv, TypeOK, Call
<1>2. Become(c, s) /\ UNCHANGED <<now, row, held, failures>>
  BY DEF StartClaim
<1>3. Locks(c)' = {}
  BY <1>2, Became
<1>4. QED
  BY <1>1, <1>2, <1>3, CallMoves

LEMMA SelectInvariant ==
  ASSUME IInv, NEW c \in Calls, NEW p \in Platforms, NEW n \in ClaimLimits,
         NEW seconds \in LeaseSeconds, NEW batch \in SUBSET Deliveries,
         SelectForUpdate(c, p, batch, n, seconds)
  PROVE  IInv'
<1> DEFINE seen == [d \in Deliveries |-> IF d \in batch THEN row[d].attempts ELSE 0]
           s == [pc |-> "selected", worker |-> call[c].worker, batch |-> batch,
                 until |-> call[c].at + seconds, seen |-> seen]
<1>1. CASE batch = {}
  BY <1>1, ToIdle DEF SelectForUpdate
<1>2. CASE batch # {}
  <2>1. /\ call[c].worker \in Workers /\ call[c].at \in Nat /\ call[c].at <= now
        /\ now \in Nat
    BY CallFacts DEF SelectForUpdate, IInv, ClocksAreRead, TypeOK
  <2>2. seen \in [Deliveries -> Nat]
    BY RowFacts DEF IInv
  <2>3. s \in Call
    BY <2>1, <2>2 DEF Call
  <2>4. Become(c, s) /\ UNCHANGED <<now, row, held, failures>>
    BY <1>2 DEF SelectForUpdate
  <2>5. \A d \in batch : Eligible(row[d], call[c].at) /\ ~ Locked(d)
    BY DEF SelectForUpdate, IsBatch, Candidates
  <2>6. \A b \in Calls : Locks(b) \intersect Locks(c)' = {}
    BY <2>4, <2>5, Became DEF Locked
  <2>7. \A d \in batch : Eligible(row[d], now) /\ seen[d] = row[d].attempts
    BY <2>1, <2>5, EligibleLater, RowFacts DEF IInv, LeaseOfRow
  <2>8. QED
    BY <2>3, <2>4, <2>6, <2>7, CallMoves
<1>3. QED
  BY <1>1, <1>2

(* The rows of the batch are as the SELECT found them, so that the UPDATE  *)
(* adds one to their attempts and hands out tokens nobody has.             *)
LEMMA ClaimedRows ==
  ASSUME IInv, NEW c \in Calls, CommitClaim(c), NEW d \in call[c].batch
  PROVE  /\ d \in Deliveries
         /\ row'[d] = ClaimedRow(row[d], call[c].worker, call[c].until)
         /\ call[c].seen[d] = row[d].attempts
         /\ Eligible(row[d], now)
<1>1. call[c].pc = "selected" /\ d \in Deliveries
  BY CallFacts DEF CommitClaim, IInv
<1>2. call[c].seen[d] = row[d].attempts /\ Eligible(row[d], now)
  BY <1>1 DEF IInv, SelectionHolds
<1>3. row[d] \in Row
  BY <1>1, RowFacts DEF IInv
<1>4. RowSeen(c, d) = row[d]
  BY <1>2, <1>3 DEF RowSeen, Row
<1>5. row'[d] = ClaimedRow(RowSeen(c, d), call[c].worker, call[c].until)
  BY <1>1 DEF CommitClaim
<1>6. QED
  BY <1>1, <1>2, <1>4, <1>5

LEMMA CommitClaimInvariant ==
  ASSUME IInv, NEW c \in Calls, CommitClaim(c)
  PROVE  IInv'
<1> DEFINE w == call[c].worker
           batch == call[c].batch
           new(d) == [delivery |-> d, token |-> call[c].seen[d] + 1]
<1>1. /\ w \in Workers /\ batch \in SUBSET Deliveries
      /\ call[c].until \in Int
      /\ Locks(c) = batch
      /\ call[c].seen \in [Deliveries -> Nat]
  BY CallFacts, LocksFacts DEF IInv, CommitClaim
<1>2. /\ Become(c, Idle) /\ now' = now /\ failures' = failures
      /\ row' = [d \in Deliveries |->
                   IF d \in batch THEN ClaimedRow(RowSeen(c, d), w, call[c].until)
                                  ELSE row[d]]
      /\ held' = [held EXCEPT ![w] = @ \union {new(d) : d \in batch}]
  BY DEF CommitClaim
<1>3. ASSUME NEW d \in batch
      PROVE  /\ row'[d] \in Row
             /\ row'[d].status = "leased"
             /\ row'[d].attempts = row[d].attempts + 1
             /\ row'[d].lease \in Lease
  <2>1. row[d] \in Row
    BY <1>1, RowFacts DEF IInv
  <2>2. row'[d] = ClaimedRow(row[d], w, call[c].until)
    BY ClaimedRows
  <2>3. QED
    BY ONLY <1>1, <2>1, <2>2, ClaimedRowFacts, SMTT(30)
<1>4. /\ \A d \in Deliveries \ batch : row'[d] = row[d]
      /\ \A d \in Deliveries : row[d] \in Row /\ row[d].attempts \in Nat
  BY <1>2, RowFacts DEF IInv
<1>5. row' \in [Deliveries -> Row] /\ failures' \in [Deliveries -> Nat]
  BY <1>2, <1>3, <1>4 DEF IInv, TypeOK
<1>6. \A d \in Deliveries : row'[d].attempts >= row[d].attempts
  BY <1>3, <1>4
<1>7. \A d \in batch : new(d) \in Handle
  BY <1>1 DEF Handle
<1>8. held' \in [Workers -> SUBSET Handle]
  BY <1>2, <1>7 DEF IInv, TypeOK
<1>9. \A v \in Workers : \A h \in held'[v] :
        h \in held[v] \/ (v = w /\ \E d \in batch : h = new(d))
  BY <1>2 DEF IInv, TypeOK
<1>10. \A v \in Workers : \A h \in held[v] :
         h.delivery \in Deliveries /\ h.token \in Nat /\ h.token <= row[h.delivery].attempts
  BY DEF IInv, TypeOK, Handle, TokensIssued
<1>11. \A d \in batch : new(d).token = row[d].attempts + 1 /\ new(d).delivery = d
  BY ClaimedRows
<1>12. TokensIssued'
  <2> SUFFICES ASSUME NEW v \in Workers, NEW h \in held'[v]
               PROVE  h.token <= row'[h.delivery].attempts
    BY DEF TokensIssued
  <2>1. CASE h \in held[v]
    <3>1. /\ h.delivery \in Deliveries /\ h.token \in Nat
          /\ h.token <= row[h.delivery].attempts
      BY <1>10, <2>1
    <3>2. row'[h.delivery].attempts >= row[h.delivery].attempts
      BY <1>6, <3>1
    <3>3. row'[h.delivery].attempts \in Nat /\ row[h.delivery].attempts \in Nat
      BY <1>3, <1>4, <3>1
    <3>4. QED
      BY <3>1, <3>2, <3>3
  <2>2. CASE \E d \in batch : h = new(d)
    <3>1. PICK d \in batch : h = new(d)
      BY <2>2
    <3>2. h.token = row[d].attempts + 1 /\ h.delivery = d
      BY <1>11, <3>1
    <3>3. row'[d].attempts = row[d].attempts + 1 /\ row[d].attempts \in Nat
      BY <1>1, <1>3, <1>4
    <3>4. QED
      BY <3>2, <3>3
  <2>3. QED
    BY <1>9, <2>1, <2>2
<1>13. TokensAreOwn'
  <2> SUFFICES ASSUME NEW v \in Workers, NEW u \in Workers,
                      NEW h \in held'[v], h \in held'[u]
               PROVE  v = u
    BY DEF TokensAreOwn
  <2>1. CASE \E d \in batch : h = new(d)
    <3>1. PICK d \in batch : h = new(d)
      BY <2>1
    <3>2. h.token = row[d].attempts + 1 /\ h.delivery = d /\ row[d].attempts \in Nat
      BY <1>1, <1>4, <1>11, <3>1
    <3>3. \A x \in Workers : h \notin held[x]
      BY <1>10, <3>2
    <3>4. QED
      BY <1>9, <3>3
  <2>2. CASE h \in held[v] /\ h \in held[u]
    BY <2>2 DEF IInv, TokensAreOwn
  <2>3. QED
    BY <1>9, <2>1, <2>2
<1>14. \A d \in Locks(c) : /\ row'[d].status = "leased" => row'[d].lease # NoLease
                           /\ row'[d].status # "absent"
                           /\ row'[d].attempts >= row[d].attempts
  <2>1. NoLease \notin Lease
    BY DEF Lease
  <2>2. QED
    BY <1>1, <1>3, <1>6, <2>1
<1>15. QED
  BY ONLY IInv, c \in Calls, <1>1, <1>2, <1>4, <1>5, <1>8, <1>12, <1>13, <1>14, CallCommits

LEMMA StartAnswerInvariant ==
  ASSUME IInv, NEW c \in Calls, NEW w \in Workers, NEW kind \in Answers, NEW h \in held[w],
         StartAnswer(c, w, h, kind)
  PROVE  IInv'
<1> DEFINE s == [pc |-> "answer", handle |-> h, kind |-> kind, at |-> now]
<1>1. h \in Handle /\ now \in Nat
  BY DEF IInv, TypeOK
<1>2. s \in Call
  BY <1>1 DEF Call
<1>3. Become(c, s) /\ UNCHANGED <<now, row, held, failures>>
  BY DEF StartAnswer
<1>4. Locks(c)' = {}
  BY <1>3, Became
<1>5. QED
  BY <1>2, <1>3, <1>4, CallMoves

LEMMA CheckLeaseInvariant ==
  ASSUME IInv, NEW c \in Calls, CheckLease(c)
  PROVE  IInv'
<1> DEFINE h == call[c].handle
           s == [pc |-> "checked", handle |-> h, kind |-> call[c].kind,
                 at |-> call[c].at, attempts |-> row[h.delivery].attempts]
<1>1. CASE Answerable(row[h.delivery], h.token, call[c].at)
  <2>1. h \in Handle /\ h.delivery \in Deliveries
    BY CallFacts DEF CheckLease, IInv, Handle
  <2>2. row[h.delivery].attempts \in Nat
    BY <2>1, RowFacts DEF IInv
  <2>3. s \in Call
    BY <2>1, <2>2, CallFacts DEF CheckLease, IInv, Call
  <2>4. Become(c, s) /\ UNCHANGED <<now, row, held, failures>>
    BY <1>1 DEF CheckLease
  <2>5. Locks(c)' = {}
    BY <2>4, Became
  <2>6. QED
    BY <2>3, <2>4, <2>5, CallMoves
<1>2. CASE ~ Answerable(row[h.delivery], h.token, call[c].at)
  BY <1>2, ToIdle DEF CheckLease
<1>3. QED
  BY <1>1, <1>2

LEMMA FlushInvariant ==
  ASSUME IInv, NEW c \in Calls, Flush(c)
  PROVE  IInv'
<1> DEFINE s == [call[c] EXCEPT !.pc = "flushed"]
<1>1. /\ call[c] \in [pc : {"checked", "flushed"}, handle : Handle, kind : Answers,
                      at : Nat, attempts : Nat]
      /\ call[c].pc = "checked"
  BY CallFacts DEF Flush, IInv, Call, Idle
<1>2. s \in Call /\ s.pc = "flushed" /\ s.handle = call[c].handle
  BY <1>1 DEF Call
<1>3. Become(c, s) /\ UNCHANGED <<now, row, held, failures>>
  BY DEF Flush
<1>4. Locks(c)' = {s.handle.delivery}
  BY <1>2, <1>3, Became
<1>5. \A b \in Calls : call[c].handle.delivery \notin Locks(b)
  BY DEF Flush, Locked
<1>6. \A b \in Calls : Locks(b) \intersect Locks(c)' = {}
  BY <1>2, <1>4, <1>5
<1>7. QED
  BY <1>2, <1>3, <1>6, CallMoves

LEMMA CommitAnswerInvariant ==
  ASSUME IInv, NEW c \in Calls, CommitAnswer(c)
  PROVE  IInv'
<1> DEFINE d == call[c].handle.delivery
           s == AnsweredRow(row[d], call[c])
<1>1. /\ d \in Deliveries
      /\ call[c].at \in Int /\ call[c].attempts \in Nat
      /\ Locks(c) = {d}
  BY CallFacts, LocksFacts DEF CommitAnswer, IInv, Handle
<1>2. row[d] \in Row /\ row[d].attempts \in Nat
  BY <1>1, RowFacts DEF IInv
<1>3. s \in {AckedRow(row[d]), RetryRow(row[d], call[c].attempts, call[c].at), DeadRow(row[d])}
  BY DEF AnsweredRow
<1>4. /\ s \in Row
      /\ s.status \in {"sent", "retry", "dead"}
      /\ s.attempts = row[d].attempts
  BY ONLY <1>1, <1>2, <1>3, AnsweredRowFacts
<1>5. /\ row' = [row EXCEPT ![d] = s]
      /\ Become(c, Idle) /\ now' = now /\ held' = held
      /\ failures' \in {failures, [failures EXCEPT ![d] = @ + 1]}
  BY DEF CommitAnswer
<1> HIDE DEF s
<1>6. row' \in [Deliveries -> Row] /\ row'[d] = s
  BY <1>1, <1>4, <1>5 DEF IInv, TypeOK
<1>7. \A e \in Deliveries \ {d} : row'[e] = row[e]
  BY <1>5 DEF IInv, TypeOK
<1>8. \A e \in Deliveries : row'[e].attempts = row[e].attempts
  BY <1>4, <1>6, <1>7
<1>9. failures' \in [Deliveries -> Nat] /\ held' \in [Workers -> SUBSET Handle]
  BY <1>1, <1>5 DEF IInv, TypeOK
<1>10. TokensIssued' /\ TokensAreOwn'
  BY <1>5, <1>8 DEF IInv, TypeOK, Handle, TokensIssued, TokensAreOwn
<1>11. \A e \in Locks(c) : /\ row'[e].status = "leased" => row'[e].lease # NoLease
                           /\ row'[e].status # "absent"
                           /\ row'[e].attempts >= row[e].attempts
  BY <1>1, <1>2, <1>4, <1>6
<1>12. QED
  BY ONLY IInv, c \in Calls, <1>1, <1>5, <1>6, <1>7, <1>9, <1>10, <1>11, CallCommits

LEMMA TickInvariant ==
  ASSUME IInv, Tick
  PROVE  IInv'
<1>1. /\ now \in Nat /\ now' = now + 1 /\ now' \in 0..MaxTime
      /\ UNCHANGED <<row, held, failures, call>>
  BY DEF Tick, IInv, TypeOK
<1>2. TypeOK' /\ LeaseOfRow' /\ TokensIssued' /\ TokensAreOwn'
  BY <1>1 DEF IInv, TypeOK, LeaseOfRow, TokensIssued, TokensAreOwn
<1>3. LocksAreExclusive'
  BY <1>1, LocksKept DEF IInv, LocksAreExclusive
<1>4. ClocksAreRead'
  <2>1. \A c \in Calls : call[c].pc = "claim" => call[c].at \in Nat /\ call[c].at <= now
    BY CallFacts DEF IInv, ClocksAreRead
  <2>2. QED
    BY <1>1, <2>1 DEF ClocksAreRead
<1>5. SelectionHolds'
  <2> SUFFICES ASSUME NEW c \in Calls, call[c].pc = "selected", NEW d \in call[c].batch
               PROVE  Eligible(row[d], now') /\ call[c].seen[d] = row[d].attempts
    BY <1>1 DEF SelectionHolds
  <2>1. d \in Deliveries /\ Eligible(row[d], now) /\ call[c].seen[d] = row[d].attempts
    BY CallFacts DEF IInv, SelectionHolds
  <2>2. row[d] \in Row /\ (row[d].status = "leased" => row[d].lease # NoLease)
    BY <2>1, RowFacts DEF IInv, LeaseOfRow
  <2>3. QED
    BY <1>1, <2>1, <2>2, EligibleLater
<1>6. QED
  BY <1>2, <1>3, <1>4, <1>5 DEF IInv

LEMMA StepInvariant == IInv /\ [Next]_vars => IInv'
<1> SUFFICES ASSUME IInv, [Next]_vars PROVE IInv'
  OBVIOUS
<1>1. ASSUME NEW batch \in SUBSET Deliveries, NEW due \in now..(now + Horizon),
             Publish(batch, due)
      PROVE  IInv'
  BY <1>1, PublishInvariant
<1>2. ASSUME NEW c \in Calls, ClaimStep(c)
      PROVE  IInv'
  BY <1>2, StartClaimInvariant, SelectInvariant, CommitClaimInvariant DEF ClaimStep
<1>3. ASSUME NEW c \in Calls, AnswerStep(c)
      PROVE  IInv'
  BY <1>3, StartAnswerInvariant, CheckLeaseInvariant, FlushInvariant, CommitAnswerInvariant
     DEF AnswerStep
<1>4. ASSUME NEW c \in Calls, Rollback(c)
      PROVE  IInv'
  BY <1>4, ToIdle DEF Rollback
<1>5. ASSUME Tick
      PROVE  IInv'
  BY <1>5, TickInvariant
<1>6. CASE UNCHANGED vars
  <2>1. \A c \in Calls : Locks(c)' = Locks(c)
    BY <1>6, LocksKept DEF vars
  <2>2. LocksAreExclusive'
    BY <2>1 DEF IInv, LocksAreExclusive
  <2>3. QED
    BY <1>6, <2>2 DEF vars, IInv, TypeOK, LeaseOfRow, ClocksAreRead, SelectionHolds,
       TokensIssued, TokensAreOwn
<1>7. QED
  BY <1>1, <1>2, <1>3, <1>4, <1>5, <1>6 DEF Next

(* The statements of claims and answers, interleaved in any way, keep the  *)
(* locks exclusive, the selected rows claimable and the tokens distinct.   *)
THEOREM InvariantHolds == Spec => []IInv
BY InitInvariant, StepInvariant, PTL DEF Spec

(* The tables and the calls in progress keep their types.                  *)
THEOREM TypeCorrect == Spec => []TypeOK
<1>1. IInv => TypeOK
  BY DEF IInv
<1>2. QED
  BY <1>1, InvariantHolds, PTL

(* Two claims never report the same attempt of a delivery, although they   *)
(* compute it from a row read before they write it (outbox.py, claim).     *)
THEOREM AttemptsAreDistinctHolds == Spec => []AttemptsAreDistinct
<1>1. IInv => AttemptsAreDistinct
  BY DEF IInv, TokensAreOwn, AttemptsAreDistinct
<1>2. QED
  BY <1>1, InvariantHolds, PTL

(* A claim never takes over a lease its holder could still answer, however *)
(* long ago its statement read the clock (outbox.py, claim_statement).     *)
THEOREM ClaimsSpareLiveLeasesHolds == Spec => ClaimsSpareLiveLeases
<1> DEFINE Spares == \A d \in Deliveries :
                       Live(row[d], now) => row'[d].attempts = row[d].attempts
<1>1. IInv /\ [Next]_vars => [Spares]_vars
  <2> SUFFICES ASSUME IInv, Next, NEW d \in Deliveries, Live(row[d], now)
               PROVE  row'[d].attempts = row[d].attempts
    OBVIOUS
  <2>1. row[d] \in Row /\ row[d].status = "leased" /\ row[d].lease # NoLease /\ now \in Int
    BY RowFacts DEF IInv, LeaseOfRow, Live, TypeOK
  <2>2. ASSUME NEW batch \in SUBSET Deliveries, NEW due \in now..(now + Horizon),
               Publish(batch, due)
        PROVE  row'[d] = row[d]
    BY <2>1, <2>2 DEF Publish
  <2>3. ASSUME NEW c \in Calls, CommitClaim(c)
        PROVE  row'[d] = row[d]
    <3>1. d \notin call[c].batch
      BY <2>1, <2>3, ClaimedRows, EligibleIsFree
    <3>2. QED
      BY <2>3, <3>1 DEF CommitClaim
  <2>4. ASSUME NEW c \in Calls, CommitAnswer(c)
        PROVE  row'[d].attempts = row[d].attempts
    <3> DEFINE e == call[c].handle.delivery
               s == AnsweredRow(row[e], call[c])
    <3>1. e \in Deliveries /\ call[c].at \in Int /\ call[c].attempts \in Nat
      BY <2>4, CallFacts DEF CommitAnswer, IInv, Handle
    <3>2. row[e] \in Row
      BY <3>1, RowFacts DEF IInv
    <3>3. s \in {AckedRow(row[e]), RetryRow(row[e], call[c].attempts, call[c].at),
                 DeadRow(row[e])}
      BY DEF AnsweredRow
    <3>4. s.attempts = row[e].attempts
      BY ONLY <3>1, <3>2, <3>3, AnsweredRowFacts
    <3>5. row' = [row EXCEPT ![e] = s]
      BY <2>4 DEF CommitAnswer
    <3>6. QED
      BY <3>4, <3>5 DEF IInv, TypeOK
  <2>5. CASE row' = row
    BY <2>5
  <2>6. QED
    BY <2>2, <2>3, <2>4, <2>5 DEF Next, ClaimStep, AnswerStep, StartClaim, SelectForUpdate,
       StartAnswer, CheckLease, Flush, Rollback, Tick
<1>2. QED
  BY <1>1, InvariantHolds, PTL DEF Spec, ClaimsSpareLiveLeases

-----------------------------------------------------------------------------
(***************************************************************************)
(* Prompt answers.  ack and fail read the row without locking it, so that  *)
(* what they write can be about a lease that has gone meanwhile.  While    *)
(* the clock does not outrun an answer and no plugin repeats one that is   *)
(* being executed, it cannot: the lease an answer has checked is still the *)
(* lease in the row when the answer commits.                               *)
(***************************************************************************)
AnswersAreDistinct ==
  \A b, c \in Calls :
    Answering(b) /\ Answering(c) /\ call[b].handle = call[c].handle => b = c

(* The token of an answer was issued, and a lease that was live when the   *)
(* answer read the clock or the row is live now.                           *)
AnswerHolds(s) ==
  LET r == row[s.handle.delivery]
      token == s.handle.token
  IN  /\ token <= r.attempts
      /\ s.pc = "answer" /\ Answerable(r, token, s.at) => Answerable(r, token, now)
      /\ s.pc # "answer" => Answerable(r, token, now) /\ s.attempts = r.attempts

AnswersHold == \A c \in Calls : Answering(c) => AnswerHolds(call[c])

FailuresBehindAttempts ==
  \A d \in Deliveries :
    /\ failures[d] <= row[d].attempts
    /\ row[d].status = "leased" => failures[d] < row[d].attempts

FailureBudget ==
  \A d \in Deliveries :
    /\ failures[d] <= MaxAttempts
    /\ row[d].status # "dead" => failures[d] < MaxAttempts

Counted == FailuresBehindAttempts /\ FailureBudget /\ RetryHasAttemptLeft

PromptInv ==
  /\ IInv
  /\ AnswersAreDistinct
  /\ AnswersHold
  /\ Counted

LEMMA AnsweringFacts ==
  ASSUME TypeOK, NEW c \in Calls, Answering(c)
  PROVE  /\ call[c].handle \in Handle
         /\ call[c].handle.delivery \in Deliveries
         /\ call[c].handle.token \in Nat
         /\ call[c].kind \in Answers
         /\ call[c].at \in Nat
         /\ call[c].pc # "answer" => call[c].attempts \in Nat
BY CallFacts DEF Answering, Handle

LEMMA PromptInit == Init => PromptInv
<1> SUFFICES ASSUME Init PROVE PromptInv
  OBVIOUS
<1>1. AbsentRow.status = "absent" /\ AbsentRow.attempts = 0
  BY DEF AbsentRow
<1>2. \A c \in Calls : ~ Answering(c)
  BY DEF Init, Idle, Answering
<1>3. Counted
  BY <1>1 DEF Init, Counted, FailuresBehindAttempts, FailureBudget, RetryHasAttemptLeft
<1>4. QED
  BY <1>2, <1>3, InitInvariant DEF PromptInv, AnswersAreDistinct, AnswersHold

(* A step that only moves one call on.                                     *)
LEMMA PromptCallMoves ==
  ASSUME PromptInv, IInv', NEW c \in Calls, NEW s, Become(c, s),
         UNCHANGED <<now, row, failures>>,
         s.pc \in {"answer", "checked", "flushed"} =>
           /\ AnswerHolds(s)
           /\ \A b \in Calls \ {c} : Answering(b) => call[b].handle # s.handle
  PROVE  PromptInv'
<1>1. call'[c] = s /\ \A b \in Calls \ {c} : call'[b] = call[b]
  BY DEF PromptInv, IInv, TypeOK, Become
<1>2. Counted'
  BY DEF PromptInv, Counted, FailuresBehindAttempts, FailureBudget, RetryHasAttemptLeft
<1>3. AnswersAreDistinct'
  <2> SUFFICES ASSUME NEW a \in Calls, NEW b \in Calls, Answering(a)', Answering(b)',
                      call'[a].handle = call'[b].handle
               PROVE  a = b
    BY DEF AnswersAreDistinct
  <2>1. CASE a = c /\ b # c
    BY <1>1, <2>1 DEF Answering
  <2>2. CASE a # c /\ b = c
    BY <1>1, <2>2 DEF Answering
  <2>3. CASE a # c /\ b # c
    BY <1>1, <2>3 DEF Answering, PromptInv, AnswersAreDistinct
  <2>4. QED
    BY <2>1, <2>2, <2>3
<1>4. AnswersHold'
  <2> SUFFICES ASSUME NEW b \in Calls, Answering(b)'
               PROVE  AnswerHolds(call[b])'
    BY DEF AnswersHold
  <2>1. CASE b = c
    BY <1>1, <2>1 DEF Answering, AnswerHolds
  <2>2. CASE b # c
    BY <1>1, <2>2 DEF Answering, PromptInv, AnswersHold, AnswerHolds
  <2>3. QED
    BY <2>1, <2>2
<1>5. QED
  BY <1>2, <1>3, <1>4 DEF PromptInv

(* A step that ends a call, or leaves the calls alone, and may change rows *)
(* as long as no other answer loses its lease by it.                       *)
LEMMA PromptRowsChange ==
  ASSUME PromptInv, IInv', now' = now, Counted',
         \A b \in Calls : Answering(b)' =>
           /\ call'[b] = call[b]
           /\ \/ row'[call[b].handle.delivery] = row[call[b].handle.delivery]
              \/ /\ call[b].pc = "answer"
                 /\ call[b].handle.token <= row'[call[b].handle.delivery].attempts
                 /\ \A t \in Nat : ~ Answerable(row'[call[b].handle.delivery],
                                                call[b].handle.token, t)
  PROVE  PromptInv'
<1>1. \A b \in Calls : Answering(b)' => Answering(b) /\ call'[b] = call[b]
  BY DEF Answering
<1>2. AnswersAreDistinct'
  BY <1>1 DEF PromptInv, AnswersAreDistinct
<1>3. AnswersHold'
  <2> SUFFICES ASSUME NEW b \in Calls, Answering(b)'
               PROVE  AnswerHolds(call[b])'
    BY DEF AnswersHold
  <2>1. Answering(b) /\ call'[b] = call[b] /\ AnswerHolds(call[b])
    BY <1>1 DEF PromptInv, AnswersHold
  <2>2. call[b].at \in Nat
    BY <2>1, AnsweringFacts DEF PromptInv, IInv
  <2>3. CASE row'[call[b].handle.delivery] = row[call[b].handle.delivery]
    BY <2>1, <2>3 DEF AnswerHolds
  <2>4. CASE row'[call[b].handle.delivery] # row[call[b].handle.delivery]
    BY <2>1, <2>2, <2>4 DEF AnswerHolds
  <2>5. QED
    BY <2>3, <2>4
<1>4. QED
  BY <1>2, <1>3 DEF PromptInv

LEMMA PromptPublish ==
  ASSUME PromptInv, IInv', NEW batch \in SUBSET Deliveries,
         NEW due \in now..(now + Horizon), Publish(batch, due)
  PROVE  PromptInv'
<1>1. now \in Int /\ due \in Int
  BY DEF PromptInv, IInv, TypeOK
<1>2. /\ PublishedRow(due, now).status = "pending"
      /\ PublishedRow(due, now).attempts = 0
  BY <1>1, PublishedRowFacts
<1>3. /\ now' = now /\ failures' = failures /\ call' = call
      /\ \A d \in Deliveries :
           \/ row'[d] = row[d]
           \/ /\ row[d].status = "absent" /\ row[d].attempts = 0
              /\ row'[d] = PublishedRow(due, now)
  BY DEF Publish, PromptInv, IInv, LeaseOfRow
<1>4. Counted'
  BY <1>2, <1>3
     DEF PromptInv, Counted, FailuresBehindAttempts, FailureBudget, RetryHasAttemptLeft
<1>5. ASSUME NEW b \in Calls, Answering(b),
             row'[call[b].handle.delivery] # row[call[b].handle.delivery]
      PROVE  /\ call[b].pc = "answer"
             /\ call[b].handle.token <= row'[call[b].handle.delivery].attempts
             /\ \A t \in Nat : ~ Answerable(row'[call[b].handle.delivery],
                                            call[b].handle.token, t)
  <2>1. call[b].handle.delivery \in Deliveries /\ AnswerHolds(call[b])
    BY <1>5, AnsweringFacts DEF PromptInv, IInv, AnswersHold
  <2>2. QED
    BY <1>2, <1>3, <1>5, <2>1 DEF AnswerHolds, Answerable, Live, Answering
<1>6. QED
  BY <1>3, <1>4, <1>5, PromptRowsChange DEF Answering

(* A claim takes only rows no lease of which is live: an answer that has   *)
(* checked its lease is not among their holders.                           *)
LEMMA PromptCommitClaim ==
  ASSUME PromptInv, IInv', NEW c \in Calls, CommitClaim(c)
  PROVE  PromptInv'
<1> DEFINE batch == call[c].batch
<1>1. /\ call[c].worker \in Workers /\ call[c].until \in Int /\ call[c].pc = "selected"
      /\ batch \in SUBSET Deliveries
      /\ now' = now /\ failures' = failures /\ Become(c, Idle)
  BY CallFacts DEF PromptInv, IInv, CommitClaim
<1>2. ASSUME NEW d \in batch
      PROVE  /\ d \in Deliveries /\ row[d] \in Row /\ row[d].attempts \in Nat
             /\ row'[d].status = "leased"
             /\ row'[d].attempts = row[d].attempts + 1
             /\ row'[d].lease.token = row[d].attempts + 1
             /\ ~ Live(row[d], now)
             /\ row[d].status \in {"pending", "retry", "leased"}
  <2>1. /\ d \in Deliveries /\ Eligible(row[d], now)
        /\ row'[d] = ClaimedRow(row[d], call[c].worker, call[c].until)
    BY ClaimedRows DEF PromptInv
  <2>2. row[d] \in Row /\ row[d].attempts \in Nat
    BY <2>1, RowFacts DEF PromptInv, IInv
  <2>3. ~ Live(row[d], now)
    BY <2>1, <2>2, EligibleIsFree DEF PromptInv, IInv, TypeOK, LeaseOfRow
  <2>4. /\ row'[d].status = "leased"
        /\ row'[d].attempts = row[d].attempts + 1
        /\ row'[d].lease.token = row[d].attempts + 1
    BY ONLY <1>1, <2>1, <2>2, ClaimedRowFacts, SMTT(30)
  <2>5. row[d].status \in {"pending", "retry", "leased"}
    BY <2>1 DEF Eligible
  <2>6. QED
    BY <2>1, <2>2, <2>3, <2>4, <2>5
<1>3. \A d \in Deliveries \ batch : row'[d] = row[d]
  BY DEF CommitClaim
<1>4. \A b \in Calls : Answering(b)' => b # c /\ call'[b] = call[b] /\ Answering(b)
  BY <1>1, Became, IdleFacts DEF Answering, Become, PromptInv, IInv, TypeOK
<1>5. Counted'
  <2>1. \A d \in Deliveries : failures[d] \in Nat
    BY DEF PromptInv, IInv, TypeOK
  <2>2. FailuresBehindAttempts'
    BY <1>1, <1>2, <1>3, <2>1 DEF PromptInv, Counted, FailuresBehindAttempts
  <2>3. FailureBudget'
    BY <1>1, <1>2, <1>3 DEF PromptInv, Counted, FailureBudget
  <2>4. RetryHasAttemptLeft'
    BY <1>2, <1>3 DEF PromptInv, Counted, RetryHasAttemptLeft
  <2>5. QED
    BY <2>2, <2>3, <2>4 DEF Counted
<1>6. ASSUME NEW b \in Calls, Answering(b), call[b].handle.delivery \in batch
      PROVE  /\ call[b].pc = "answer"
             /\ call[b].handle.token <= row'[call[b].handle.delivery].attempts
             /\ \A t \in Nat : ~ Answerable(row'[call[b].handle.delivery],
                                            call[b].handle.token, t)
  <2> DEFINE e == call[b].handle.delivery
             token == call[b].handle.token
  <2>1. /\ token \in Nat /\ token <= row[e].attempts
        /\ call[b].pc # "answer" => Live(row[e], now)
    BY <1>6, AnsweringFacts DEF PromptInv, IInv, AnswersHold, AnswerHolds, Answerable
  <2>2. call[b].pc = "answer"
    BY <1>2, <1>6, <2>1
  <2>3. /\ row[e].attempts \in Nat
        /\ row'[e].attempts = row[e].attempts + 1
        /\ row'[e].lease.token = row[e].attempts + 1
    BY <1>2, <1>6
  <2> HIDE DEF e, token
  <2>4. token <= row'[e].attempts /\ row'[e].lease.token # token
    BY <2>1, <2>3
  <2>5. \A t \in Nat : ~ Answerable(row'[e], token, t)
    BY <2>4 DEF Answerable
  <2>6. QED
    BY <2>2, <2>4, <2>5 DEF e, token
<1>7. \A b \in Calls : Answering(b) => call[b].handle.delivery \in Deliveries
  BY AnsweringFacts DEF PromptInv, IInv
<1> HIDE DEF batch
<1>8. QED
  BY <1>1, <1>3, <1>4, <1>5, <1>6, <1>7, PromptRowsChange

(* What a prompt answer finds when it commits: the lease it has checked.   *)
LEMMA AnsweredLease ==
  ASSUME PromptInv, NEW c \in Calls, CommitAnswer(c)
  PROVE  /\ call[c].handle \in Handle
         /\ call[c].kind \in Answers
         /\ call[c].at \in Nat
         /\ call[c].attempts = row[call[c].handle.delivery].attempts
         /\ Live(row[call[c].handle.delivery], now)
         /\ row[call[c].handle.delivery].lease.token = call[c].handle.token
<1>1. Answering(c) /\ call[c].pc # "answer"
  BY DEF CommitAnswer, Answering
<1>2. AnswerHolds(call[c])
  BY <1>1 DEF PromptInv, AnswersHold
<1>3. QED
  BY <1>1, <1>2, AnsweringFacts DEF PromptInv, IInv, AnswerHolds, Answerable

LEMMA CommitAnswerFacts ==
  ASSUME PromptInv, NEW c \in Calls, CommitAnswer(c), NEW d, d = call[c].handle.delivery
  PROVE  /\ d \in Deliveries
         /\ row[d] \in Row /\ row[d].attempts \in Nat /\ row[d].status = "leased"
         /\ row'[d].status \in {"sent", "retry", "dead"}
         /\ row'[d].attempts = row[d].attempts
         /\ row'[d].status = "sent" <=> call[c].kind = "ack"
         /\ row'[d].status = "retry" => row[d].attempts < MaxAttempts
         /\ \A e \in Deliveries \ {d} : row'[e] = row[e]
         /\ failures' = IF call[c].kind = "ack" THEN failures
                        ELSE [failures EXCEPT ![d] = @ + 1]
         /\ now' = now
         /\ Become(c, Idle)
<1> DEFINE s == AnsweredRow(row[d], call[c])
           n == call[c].attempts
           t == call[c].at
<1>1. /\ d \in Deliveries /\ t \in Int /\ n = row[d].attempts
      /\ row[d].status = "leased"
      /\ call[c].kind \in Answers
  BY AnsweredLease DEF Handle, Live
<1>2. row[d] \in Row /\ row[d].attempts \in Nat /\ n \in Nat
  BY <1>1, RowFacts DEF PromptInv, IInv
<1>3. \/ call[c].kind = "ack" /\ s = AckedRow(row[d])
      \/ call[c].kind # "ack" /\ n < MaxAttempts /\ s = RetryRow(row[d], n, t)
      \/ call[c].kind # "ack" /\ s = DeadRow(row[d])
  BY <1>1 DEF AnsweredRow, Answers
<1>4. row' = [row EXCEPT ![d] = s] /\ row \in [Deliveries -> Row]
  BY DEF CommitAnswer, PromptInv, IInv, TypeOK
<1> HIDE DEF s, n, t
<1>5. s.attempts = row[d].attempts
  BY ONLY <1>1, <1>2, <1>3, AnsweredRowFacts
<1>6. /\ s.status \in {"sent", "retry", "dead"}
      /\ s.status = "sent" <=> call[c].kind = "ack"
      /\ s.status = "retry" => n < MaxAttempts
  BY ONLY <1>1, <1>2, <1>3, AnsweredStatus
<1>7. row'[d] = s /\ \A e \in Deliveries \ {d} : row'[e] = row[e]
  BY <1>1, <1>4
<1>8. /\ failures' = IF call[c].kind = "ack" THEN failures
                     ELSE [failures EXCEPT ![d] = @ + 1]
      /\ now' = now
      /\ Become(c, Idle)
  BY DEF CommitAnswer
<1>9. QED
  BY <1>1, <1>2, <1>5, <1>6, <1>7, <1>8

(* Another answer about the same lease would carry the same handle, and    *)
(* one about an earlier lease has not passed its check.                    *)
LEMMA PromptCommitAnswer ==
  ASSUME PromptInv, IInv', NEW c \in Calls, CommitAnswer(c)
  PROVE  PromptInv'
<1> DEFINE d == call[c].handle.delivery
<1>1. /\ d \in Deliveries
      /\ row[d] \in Row /\ row[d].attempts \in Nat /\ row[d].status = "leased"
      /\ row'[d].status \in {"sent", "retry", "dead"}
      /\ row'[d].attempts = row[d].attempts
      /\ row'[d].status = "sent" <=> call[c].kind = "ack"
      /\ row'[d].status = "retry" => row[d].attempts < MaxAttempts
      /\ \A e \in Deliveries \ {d} : row'[e] = row[e]
      /\ failures' = IF call[c].kind = "ack" THEN failures
                     ELSE [failures EXCEPT ![d] = @ + 1]
      /\ now' = now
      /\ Become(c, Idle)
  BY CommitAnswerFacts
<1>2. /\ call[c].handle \in Handle
      /\ Live(row[d], now)
      /\ row[d].lease.token = call[c].handle.token
  BY AnsweredLease
<1>3. \A b \in Calls : Answering(b)' => b # c /\ call'[b] = call[b] /\ Answering(b)
  BY <1>1, Became, IdleFacts DEF Answering, Become, PromptInv, IInv, TypeOK
<1>4. ASSUME NEW b \in Calls \ {c}, Answering(b), call[b].handle.delivery = d
      PROVE  /\ call[b].pc = "answer"
             /\ call[b].handle.token <= row'[d].attempts
             /\ \A t \in Nat : ~ Answerable(row'[d], call[b].handle.token, t)
  <2>1. /\ call[b].handle \in Handle
        /\ call[b].handle.token <= row[d].attempts
        /\ call[b].pc # "answer" => row[d].lease.token = call[b].handle.token
    BY <1>4, AnsweringFacts DEF PromptInv, IInv, AnswersHold, AnswerHolds, Answerable
  <2>2. CASE call[b].pc # "answer"
    <3>1. call[b].handle.token = call[c].handle.token
      BY <1>2, <2>1, <2>2
    <3>2. call[b].handle = call[c].handle
      BY <1>2, <1>4, <2>1, <3>1 DEF Handle
    <3>3. Answering(c)
      BY DEF Answering, CommitAnswer
    <3>4. QED
      BY <1>4, <3>2, <3>3 DEF PromptInv, AnswersAreDistinct
  <2>3. CASE call[b].pc = "answer"
    BY <1>1, <2>1, <2>3 DEF Answerable, Live
  <2>4. QED
    BY <2>2, <2>3
<1>5. /\ failures \in [Deliveries -> Nat]
      /\ failures[d] < row[d].attempts
      /\ failures[d] < MaxAttempts
  BY <1>1 DEF PromptInv, IInv, TypeOK, Counted, FailuresBehindAttempts, FailureBudget
<1>6. /\ \A e \in Deliveries \ {d} : failures'[e] = failures[e]
      /\ failures'[d] \in {failures[d], failures[d] + 1}
      /\ row'[d].status = "sent" => failures'[d] = failures[d]
  BY <1>1, <1>5
<1> HIDE DEF d
<1>7. Counted'
  <2>1. FailuresBehindAttempts'
    BY <1>1, <1>5, <1>6 DEF PromptInv, Counted, FailuresBehindAttempts
  <2>2. FailureBudget'
    <3>1. failures[d] \in Nat /\ failures'[d] <= MaxAttempts
      BY <1>1, <1>5, <1>6
    <3>2. row'[d].status # "dead" => failures'[d] < MaxAttempts
      BY <1>1, <1>5, <1>6
    <3>3. QED
      BY <1>1, <1>6, <3>1, <3>2 DEF PromptInv, Counted, FailureBudget
  <2>3. RetryHasAttemptLeft'
    BY <1>1 DEF PromptInv, Counted, RetryHasAttemptLeft
  <2>4. QED
    BY <2>1, <2>2, <2>3 DEF Counted
<1>8. \A b \in Calls : Answering(b) => call[b].handle.delivery \in Deliveries
  BY AnsweringFacts DEF PromptInv, IInv
<1>9. QED
  BY <1>1, <1>3, <1>4, <1>7, <1>8, PromptRowsChange

LEMMA PromptStartAnswer ==
  ASSUME PromptInv, IInv', PromptAnswers, NEW c \in Calls, NEW w \in Workers,
         NEW kind \in Answers, NEW h \in held[w], StartAnswer(c, w, h, kind)
  PROVE  PromptInv'
<1> DEFINE s == [pc |-> "answer", handle |-> h, kind |-> kind, at |-> now]
<1>1. Become(c, s) /\ UNCHANGED <<now, row, failures>>
  BY DEF StartAnswer
<1>2. h.token <= row[h.delivery].attempts
  BY DEF PromptInv, IInv, TokensIssued
<1>3. AnswerHolds(s)
  BY <1>2 DEF AnswerHolds
<1>4. \A b \in Calls : Answering(b) => call[b].handle # s.handle
  BY DEF StartAnswer
<1>5. QED
  BY <1>1, <1>3, <1>4, PromptCallMoves

LEMMA PromptCheckLease ==
  ASSUME PromptInv, IInv', NEW c \in Calls, CheckLease(c)
  PROVE  PromptInv'
<1> DEFINE h == call[c].handle
           s == [pc |-> "checked", handle |-> h, kind |-> call[c].kind,
                 at |-> call[c].at, attempts |-> row[h.delivery].attempts]
<1>1. /\ UNCHANGED <<now, row, failures>>
      /\ call[c].pc = "answer"
  BY DEF CheckLease
<1>2. Answering(c) /\ AnswerHolds(call[c])
  BY <1>1 DEF Answering, PromptInv, AnswersHold
<1>3. CASE Answerable(row[h.delivery], h.token, call[c].at)
  <2>1. Become(c, s)
    BY <1>3 DEF CheckLease
  <2>2. AnswerHolds(s)
    BY <1>1, <1>2, <1>3 DEF AnswerHolds
  <2>3. \A b \in Calls \ {c} : Answering(b) => call[b].handle # s.handle
    BY <1>2 DEF PromptInv, AnswersAreDistinct
  <2>4. QED
    BY <1>1, <2>1, <2>2, <2>3, PromptCallMoves
<1>4. CASE ~ Answerable(row[h.delivery], h.token, call[c].at)
  <2>1. Become(c, Idle)
    BY <1>4 DEF CheckLease
  <2>2. QED
    BY <1>1, <2>1, IdleFacts, PromptCallMoves
<1>5. QED
  BY <1>3, <1>4

LEMMA PromptFlush ==
  ASSUME PromptInv, IInv', NEW c \in Calls, Flush(c)
  PROVE  PromptInv'
<1> DEFINE s == [call[c] EXCEPT !.pc = "flushed"]
<1>1. /\ call[c] \in [pc : {"checked", "flushed"}, handle : Handle, kind : Answers,
                      at : Nat, attempts : Nat]
      /\ call[c].pc = "checked"
  BY CallFacts DEF PromptInv, IInv, Flush, Call, Idle
<1>2. s.pc = "flushed" /\ s.handle = call[c].handle /\ s.attempts = call[c].attempts
  BY <1>1
<1>3. Become(c, s) /\ UNCHANGED <<now, row, failures>>
  BY DEF Flush
<1>4. Answering(c) /\ AnswerHolds(call[c])
  BY <1>1 DEF Answering, PromptInv, AnswersHold
<1> HIDE DEF s
<1>5. AnswerHolds(s)
  BY <1>1, <1>2, <1>4 DEF AnswerHolds
<1>6. \A b \in Calls \ {c} : Answering(b) => call[b].handle # s.handle
  BY <1>2, <1>4 DEF PromptInv, AnswersAreDistinct
<1>7. QED
  BY <1>3, <1>5, <1>6, PromptCallMoves

(* The clock waits for the answers.                                        *)
LEMMA PromptTick ==
  ASSUME PromptInv, IInv', PromptAnswers, Tick
  PROVE  PromptInv'
<1>1. now' = now + 1 /\ UNCHANGED <<row, held, failures, call>>
  BY DEF Tick
<1>2. Counted' /\ AnswersAreDistinct'
  BY <1>1 DEF PromptInv, Counted, FailuresBehindAttempts, FailureBudget,
     RetryHasAttemptLeft, AnswersAreDistinct, Answering
<1>3. ASSUME NEW c \in Calls, Answering(c)
      PROVE  AnswerHolds(call[c])'
  <2>1. AnswerHolds(call[c]) /\ OutlivesTick(c)
    BY <1>3 DEF PromptInv, AnswersHold, Tick
  <2>2. QED
    BY <1>1, <2>1 DEF AnswerHolds, OutlivesTick
<1>4. AnswersHold'
  BY <1>1, <1>3 DEF AnswersHold, Answering
<1>5. QED
  BY <1>2, <1>4 DEF PromptInv

LEMMA PromptCallsOnly ==
  ASSUME PromptInv, IInv', NEW c \in Calls, NEW s, Become(c, s),
         UNCHANGED <<now, row, failures>>, s.pc \notin {"answer", "checked", "flushed"}
  PROVE  PromptInv'
BY PromptCallMoves

LEMMA PromptClaimStep ==
  ASSUME PromptInv, IInv', NEW c \in Calls, ClaimStep(c)
  PROVE  PromptInv'
<1>1. ASSUME NEW w \in Workers, StartClaim(c, w)
      PROVE  PromptInv'
  BY <1>1, PromptCallsOnly DEF StartClaim
<1>2. ASSUME NEW p \in Platforms, NEW n \in ClaimLimits, NEW seconds \in LeaseSeconds,
             NEW batch \in SUBSET Deliveries, SelectForUpdate(c, p, batch, n, seconds)
      PROVE  PromptInv'
  <2> DEFINE s == IF batch = {} THEN Idle
                  ELSE [pc |-> "selected", worker |-> call[c].worker, batch |-> batch,
                        until |-> call[c].at + seconds,
                        seen |-> [d \in Deliveries |->
                                    IF d \in batch THEN row[d].attempts ELSE 0]]
  <2>1. Become(c, s) /\ UNCHANGED <<now, row, failures>>
    BY <1>2 DEF SelectForUpdate
  <2>2. s.pc \notin {"answer", "checked", "flushed"}
    BY IdleFacts
  <2>3. QED
    BY <2>1, <2>2, PromptCallsOnly
<1>3. CASE CommitClaim(c)
  BY <1>3, PromptCommitClaim
<1>4. QED
  BY <1>1, <1>2, <1>3 DEF ClaimStep

LEMMA PromptStep == PromptAnswers /\ PromptInv /\ [Next]_vars => PromptInv'
<1> SUFFICES ASSUME PromptAnswers, PromptInv, [Next]_vars PROVE PromptInv'
  OBVIOUS
<1>1. IInv'
  BY StepInvariant DEF PromptInv
<1>2. ASSUME NEW batch \in SUBSET Deliveries, NEW due \in now..(now + Horizon),
             Publish(batch, due)
      PROVE  PromptInv'
  BY <1>1, <1>2, PromptPublish
<1>3. ASSUME NEW c \in Calls, ClaimStep(c)
      PROVE  PromptInv'
  BY <1>1, <1>3, PromptClaimStep
<1>4. ASSUME NEW c \in Calls, AnswerStep(c)
      PROVE  PromptInv'
  BY <1>1, <1>4, PromptStartAnswer, PromptCheckLease, PromptFlush, PromptCommitAnswer
     DEF AnswerStep
<1>5. ASSUME NEW c \in Calls, Rollback(c)
      PROVE  PromptInv'
  BY <1>1, <1>5, IdleFacts, PromptCallsOnly DEF Rollback
<1>6. CASE UNCHANGED vars
  BY <1>1, <1>6 DEF vars, PromptInv, Counted, FailuresBehindAttempts, FailureBudget,
     RetryHasAttemptLeft, AnswersAreDistinct, AnswersHold, AnswerHolds, Answering
<1>7. CASE Tick
  BY <1>1, <1>7, PromptTick
<1>8. QED
  BY <1>2, <1>3, <1>4, <1>5, <1>6, <1>7 DEF Next, vars

(* While answers are prompt, every answer that has checked its lease still *)
(* has it, and the failures stay within the attempts.                      *)
THEOREM PromptInvariantHolds ==
  ASSUME PromptAnswers
  PROVE  Spec => []PromptInv
<1>1. PromptInv /\ [Next]_vars => PromptInv'
  BY PromptStep
<1>2. QED
  BY <1>1, PromptInit, PTL DEF Spec

(* While answers are prompt, a row waits for another attempt only if it    *)
(* has one left (outbox.py, fail).                                         *)
THEOREM RetryHasAttemptLeftHolds ==
  ASSUME PromptAnswers
  PROVE  Spec => []RetryHasAttemptLeft
<1>1. PromptInv => RetryHasAttemptLeft
  BY DEF PromptInv, Counted
<1>2. QED
  BY <1>1, PromptInvariantHolds, PTL

(* While answers are prompt, an ack or fail commits only under the token   *)
(* of the lease in the row (CONTRACT section 6): the mismatch that         *)
(* OutboxStaleAnswer.cfg finds needs an answer slower than its lease, or   *)
(* one repeated while it is executed.                                      *)
THEOREM PromptAnswersMatchLease ==
  ASSUME PromptAnswers
  PROVE  Spec => AnswerMatchesLease
<1> DEFINE Matches == \A c \in Calls :
                        LET h == call[c].handle
                        IN  /\ call[c].pc = "flushed"
                            /\ row' # row
                            /\ call'[c] = Idle
                            => /\ row[h.delivery].status = "leased"
                               /\ row[h.delivery].lease.token = h.token
<1>1. PromptInv => Matches
  BY DEF PromptInv, AnswersHold, Answering, AnswerHolds, Answerable, Live
<1>2. QED
  BY <1>1, PromptInvariantHolds, PTL DEF AnswerMatchesLease

-----------------------------------------------------------------------------
(***************************************************************************)
(* The refinement.  A statement that only reads or locks is a stuttering   *)
(* step of LeasePromise, a commit is the step its call promises.           *)
(***************************************************************************)
Phases == [d \in Deliveries |-> PhaseOf(row[d])]
Holders == [d \in Deliveries |-> HolderOf(row[d])]

LEMMA PromiseInit == Init => Promise!Init
<1> SUFFICES ASSUME Init PROVE Promise!Init
  OBVIOUS
<1>1. \A d \in Deliveries : row[d] = AbsentRow /\ AbsentRow.status = "absent"
  BY DEF Init, AbsentRow
<1>2. \A d \in Deliveries : PhaseOf(row[d]) = "unpublished" /\ HolderOf(row[d]) = NoLease
  BY <1>1 DEF PhaseOf, HolderOf, Live
<1>3. QED
  BY <1>2 DEF Init, Promise!Init

LEMMA PromisePublish ==
  ASSUME PromptInv, NEW batch \in SUBSET Deliveries,
         NEW due \in now..(now + Horizon), Publish(batch, due)
  PROVE  Promise!Next
<1>1. now \in Int /\ due \in Int /\ now' = now /\ failures' = failures
  BY DEF PromptInv, IInv, TypeOK, Publish
<1>2. ASSUME NEW d \in batch
      PROVE  /\ PhaseOf(row[d]) = "unpublished"
             /\ PhaseOf(row'[d]) = "open"
             /\ HolderOf(row[d]) = NoLease
             /\ row'[d].status # "leased"
  <2>1. row[d].status = "absent" /\ row'[d].status = "pending"
    BY <1>1, PublishedRowFacts DEF Publish
  <2>2. QED
    BY <2>1 DEF PhaseOf, HolderOf, Live
<1>3. \A d \in Deliveries \ batch : row'[d] = row[d]
  BY DEF Publish
<1>4. Phases' = [d \in Deliveries |-> IF d \in batch THEN "open" ELSE PhaseOf(row[d])]
  BY <1>2, <1>3 DEF Phases, PhaseOf
<1>5. Holders' = Holders
  BY <1>1, <1>2, <1>3 DEF Holders, HolderOf, Live
<1>6. Promise!Publish(batch)
  BY <1>1, <1>2, <1>4, <1>5 DEF Promise!Publish, Phases, Holders
<1>7. QED
  BY <1>6 DEF Promise!Next

(* The batch of a claim was free when its rows were selected and is free   *)
(* when it commits.  A claim slow to commit may write leases that have     *)
(* already run out: the promise grants the others.                         *)
LEMMA PromiseCommitClaim ==
  ASSUME PromptInv, NEW c \in Calls, CommitClaim(c)
  PROVE  Promise!Next
<1> DEFINE batch == call[c].batch
           w == call[c].worker
           granted == {d \in batch : Live(row'[d], now)}
<1>1. /\ w \in Workers /\ call[c].until \in Int
      /\ batch \in SUBSET Deliveries
      /\ now' = now /\ failures' = failures
  BY CallFacts DEF PromptInv, IInv, CommitClaim
<1>2. ASSUME NEW d \in batch
      PROVE  /\ PhaseOf(row[d]) = "open"
             /\ PhaseOf(row'[d]) = "open"
             /\ HolderOf(row[d]) = NoLease
             /\ row'[d].lease.owner = w
  <2>1. /\ d \in Deliveries /\ Eligible(row[d], now)
        /\ row'[d] = ClaimedRow(row[d], w, call[c].until)
    BY ClaimedRows DEF PromptInv
  <2>2. row[d] \in Row
    BY <2>1, RowFacts DEF PromptInv, IInv
  <2>3. ~ Live(row[d], now)
    BY <2>1, <2>2, EligibleIsFree DEF PromptInv, IInv, TypeOK, LeaseOfRow
  <2>4. row'[d].status = "leased" /\ row'[d].lease.owner = w
    BY ONLY <1>1, <2>1, <2>2, ClaimedRowFacts, SMTT(30)
  <2>5. row[d].status \in {"pending", "retry", "leased"}
    BY <2>1 DEF Eligible
  <2>6. QED
    BY <2>3, <2>4, <2>5 DEF PhaseOf, HolderOf
<1>3. \A d \in Deliveries \ batch : row'[d] = row[d]
  BY DEF CommitClaim
<1>4. granted \in SUBSET Deliveries
  BY <1>1
<1> HIDE DEF batch, w
<1>5. Phases' = Phases
  BY <1>1, <1>2, <1>3 DEF Phases, PhaseOf
<1>6. Holders' = [d \in Deliveries |-> IF d \in granted THEN w ELSE HolderOf(row[d])]
  BY <1>1, <1>2, <1>3 DEF Holders, HolderOf
<1>7. \A d \in granted : PhaseOf(row[d]) = "open" /\ HolderOf(row[d]) = NoLease
  BY <1>2
<1> HIDE DEF granted
<1>8. Promise!Grant(granted, w)
  BY <1>1, <1>4, <1>5, <1>6, <1>7 DEF Promise!Grant, Phases, Holders
<1>9. QED
  BY <1>1, <1>4, <1>8 DEF Promise!Next

LEMMA PromiseCommitAnswer ==
  ASSUME PromptInv, NEW c \in Calls, CommitAnswer(c)
  PROVE  Promise!Next
<1> DEFINE d == call[c].handle.delivery
           w == row[d].lease.owner
           kind == call[c].kind
<1>1. /\ d \in Deliveries
      /\ row[d] \in Row /\ row[d].attempts \in Nat /\ row[d].status = "leased"
      /\ row'[d].status \in {"sent", "retry", "dead"}
      /\ row'[d].attempts = row[d].attempts
      /\ row'[d].status = "sent" <=> kind = "ack"
      /\ row'[d].status = "retry" => row[d].attempts < MaxAttempts
      /\ \A e \in Deliveries \ {d} : row'[e] = row[e]
      /\ failures' = IF kind = "ack" THEN failures
                     ELSE [failures EXCEPT ![d] = @ + 1]
      /\ now' = now
  BY CommitAnswerFacts
<1>2. HolderOf(row[d]) = w /\ w \in Workers
  <2>1. Live(row[d], now)
    BY AnsweredLease
  <2>2. row[d].lease \in Lease
    BY <1>1 DEF PromptInv, IInv, LeaseOfRow, Row
  <2>3. QED
    BY <2>1, <2>2 DEF HolderOf, Lease
<1>3. /\ failures \in [Deliveries -> Nat]
      /\ failures[d] < row[d].attempts
      /\ failures[d] < MaxAttempts
  BY <1>1 DEF PromptInv, IInv, TypeOK, Counted, FailuresBehindAttempts, FailureBudget
<1> HIDE DEF d, w, kind
<1>4. Holders' = [Holders EXCEPT ![d] = NoLease]
  BY <1>1 DEF Holders, HolderOf, Live
<1>5. PhaseOf(row'[d]) = IF row'[d].status = "retry" THEN "open" ELSE row'[d].status
  BY <1>1 DEF PhaseOf
<1>6. PhaseOf(row[d]) = "open" /\ \A e \in Deliveries \ {d} : PhaseOf(row'[e]) = PhaseOf(row[e])
  BY <1>1 DEF PhaseOf
<1>7. CASE row'[d].status = "sent"
  <2>1. Phases' = [Phases EXCEPT ![d] = "sent"]
    BY <1>5, <1>6, <1>7 DEF Phases
  <2>2. Promise!Settle(d, w)
    BY <1>1, <1>2, <1>4, <1>7, <2>1 DEF Promise!Settle, Phases, Holders
  <2>3. QED
    BY <1>1, <1>2, <2>2 DEF Promise!Next
<1>8. CASE row'[d].status = "retry"
  <2>1. Phases' = Phases
    BY <1>5, <1>6, <1>8 DEF Phases
  <2>2. failures[d] + 1 < MaxAttempts /\ failures' = [failures EXCEPT ![d] = @ + 1]
    BY <1>1, <1>3, <1>8
  <2>3. Promise!Decline(d, w)
    BY <1>1, <1>2, <1>4, <2>1, <2>2 DEF Promise!Decline, Phases, Holders
  <2>4. QED
    BY <1>1, <1>2, <2>3 DEF Promise!Next
<1>9. CASE row'[d].status = "dead"
  <2>1. Phases' = [Phases EXCEPT ![d] = "dead"]
    BY <1>5, <1>6, <1>9 DEF Phases
  <2>2. failures[d] + 1 <= MaxAttempts /\ failures' = [failures EXCEPT ![d] = @ + 1]
    BY <1>1, <1>3, <1>9
  <2>3. Promise!Bury(d, w)
    BY <1>1, <1>2, <1>4, <2>1, <2>2 DEF Promise!Bury, Phases, Holders
  <2>4. QED
    BY <1>1, <1>2, <2>3 DEF Promise!Next
<1>10. QED
  BY <1>1, <1>7, <1>8, <1>9

LEMMA PromiseTick ==
  ASSUME PromptInv, Tick
  PROVE  Promise!Next
<1> DEFINE batch == {d \in Deliveries : Live(row[d], now) /\ ~ Live(row[d], now + 1)}
<1>1. now \in Int /\ now' = now + 1 /\ row' = row /\ failures' = failures
  BY DEF PromptInv, IInv, TypeOK, Tick
<1>2. \A d \in Deliveries : Live(row[d], now + 1) => Live(row[d], now)
  <2> SUFFICES ASSUME NEW d \in Deliveries, Live(row[d], now + 1)
               PROVE  Live(row[d], now)
    OBVIOUS
  <2>1. row[d].lease \in Lease
    BY RowFacts DEF PromptInv, IInv, LeaseOfRow, Live
  <2>2. QED
    BY <1>1, <2>1 DEF Live, Lease
<1>3. Phases' = Phases
  BY <1>1 DEF Phases
<1>4. Holders' = [d \in Deliveries |-> IF d \in batch THEN NoLease ELSE HolderOf(row[d])]
  BY <1>1, <1>2 DEF Holders, HolderOf
<1>5. batch \in SUBSET Deliveries
  OBVIOUS
<1>6. Promise!Lapse(batch)
  BY <1>1, <1>3, <1>4 DEF Promise!Lapse, Phases, Holders
<1>7. QED
  BY <1>5, <1>6 DEF Promise!Next

LEMMA PromiseStep == PromptInv /\ [Next]_vars => [Promise!Next]_(Promise!vars)
<1> SUFFICES ASSUME PromptInv, [Next]_vars PROVE [Promise!Next]_(Promise!vars)
  OBVIOUS
<1>1. ASSUME UNCHANGED <<now, row, failures>>
      PROVE  UNCHANGED Promise!vars
  BY <1>1 DEF Promise!vars, HolderOf
<1>2. ASSUME NEW c \in Calls, ClaimStep(c) \/ AnswerStep(c) \/ Rollback(c)
      PROVE  [Promise!Next]_(Promise!vars)
  BY <1>1, <1>2, PromiseCommitClaim, PromiseCommitAnswer
     DEF ClaimStep, AnswerStep, StartClaim, SelectForUpdate, StartAnswer, CheckLease, Flush,
         Rollback
<1>3. QED
  BY <1>1, <1>2, PromisePublish, PromiseTick DEF Next, vars

(* While answers are prompt, the interleaved transactions keep the promise *)
(* of LeasePromise to the plugins, although ack and fail never lock the    *)
(* row they check.                                                         *)
THEOREM TransactionsKeepPromise ==
  ASSUME PromptAnswers
  PROVE  Spec => KeepsPromise
<1>1. Spec => []PromptInv
  BY PromptInvariantHolds
<1>2. QED
  BY <1>1, PromiseInit, PromiseStep, PTL DEF Spec, KeepsPromise, Promise!Spec
=============================================================================
