------------------------- MODULE OutboxTransactions -------------------------
(***************************************************************************)
(* The delivery outbox as the database runs it: every API call is a        *)
(* transaction at READ COMMITTED, and calls of several API threads and     *)
(* several plugins interleave between their statements.                    *)
(*                                                                         *)
(* claim reads the clock, then SELECT ... FOR UPDATE SKIP LOCKED reads the *)
(* latest committed rows and locks its batch until COMMIT.  ack and fail   *)
(* read the clock, read the row with a plain SELECT that takes no lock,    *)
(* test it in Python, and UPDATE it by primary key: the UPDATE waits for   *)
(* the row lock, writes the columns computed from the row read before, and *)
(* keeps the lock until COMMIT.  A transaction may be rolled back at any   *)
(* point (connection or process lost).  A plugin that never saw the        *)
(* response of a claim, or crashed, is one that does not answer any more.  *)
(*                                                                         *)
(* With PromptAnswers the plugins and the database are assumed quick: the  *)
(* clock does not pass the end of a lease while an ack or fail of it is    *)
(* being executed, and a plugin does not repeat an answer while the first  *)
(* one is still being executed.                                            *)
(***************************************************************************)
EXTENDS OutboxRows

CONSTANTS
  Deliveries, Platforms, PlatformOf, ClaimLimits, LeaseSeconds, Horizon, MaxTime,
  Calls,           \* API calls that can be in progress at the same time
  PromptAnswers    \* see above

ASSUME OutboxTransactionsAssumption ==
  /\ PlatformOf \in [Deliveries -> Platforms]
  /\ ClaimLimits \subseteq Nat \ {0}
  /\ LeaseSeconds \subseteq Nat
  /\ Horizon \in Nat
  /\ MaxTime \in Nat
  /\ PromptAnswers \in BOOLEAN

(* A lease is at least as long as the unit its end is stored in.           *)
ASSUME LeaseSecondsAssumption == \A seconds \in LeaseSeconds : seconds >= Second

VARIABLES
  now,        \* utc_now()
  row,        \* the deliveries table, committed
  held,       \* the (delivery, token) pairs each plugin remembers
  failures,   \* history: fail calls committed for each delivery
  call        \* the local state of every API call

vars == <<now, row, held, failures, call>>

Handle == [delivery : Deliveries, token : Nat]
Answers == {"ack", "fail_retryable", "fail_fatal"}

Idle == [pc |-> "idle"]

Call ==
  {Idle}
  \union [pc : {"claim"}, worker : Workers, at : Nat]
  \union [pc : {"selected"}, worker : Workers, batch : SUBSET Deliveries, until : Nat,
          seen : [Deliveries -> Nat]]
  \union [pc : {"answer"}, handle : Handle, kind : Answers, at : Nat]
  \union [pc : {"checked", "flushed"}, handle : Handle, kind : Answers, at : Nat,
          attempts : Nat]

TypeOK ==
  /\ now \in 0..MaxTime
  /\ row \in [Deliveries -> Row]
  /\ held \in [Workers -> SUBSET Handle]
  /\ failures \in [Deliveries -> Nat]
  /\ call \in [Calls -> Call]

Init ==
  /\ now = 0
  /\ row = [d \in Deliveries |-> AbsentRow]
  /\ held = [w \in Workers |-> {}]
  /\ failures = [d \in Deliveries |-> 0]
  /\ call = [c \in Calls |-> Idle]

Answering(c) == call[c].pc \in {"answer", "checked", "flushed"}

(* The rows whose lock call c holds.                                       *)
Locks(c) ==
  CASE call[c].pc = "selected" -> call[c].batch
    [] call[c].pc = "flushed"  -> {call[c].handle.delivery}
    [] OTHER                   -> {}

Locked(d) == \E c \in Calls : d \in Locks(c)

Become(c, state) == call' = [call EXCEPT ![c] = state]

-----------------------------------------------------------------------------
Publish(batch, due) ==
  /\ \A d \in batch : row[d].status = "absent"
  /\ row' = [d \in Deliveries |->
               IF d \in batch THEN PublishedRow(due, now) ELSE row[d]]
  /\ UNCHANGED <<now, held, failures, call>>

StartClaim(c, w) ==
  /\ call[c] = Idle
  /\ Become(c, [pc |-> "claim", worker |-> w, at |-> now])
  /\ UNCHANGED <<now, row, held, failures>>

(* Mutant: SELECT without FOR UPDATE SKIP LOCKED.                          *)
CandidatesWithoutLock(c, p) ==
  {d \in Deliveries : PlatformOf[d] = p /\ Eligible(row[d], call[c].at)}

Candidates(c, p) ==
  {d \in Deliveries : /\ PlatformOf[d] = p
                      /\ Eligible(row[d], call[c].at)
                      /\ ~ Locked(d)}

SelectForUpdate(c, p, batch, n, seconds) ==
  /\ call[c].pc = "claim"
  /\ IsBatch(batch, Candidates(c, p), n, row)
  /\ Become(c, IF batch = {} THEN Idle
               ELSE [pc |-> "selected", worker |-> call[c].worker, batch |-> batch,
                     until |-> call[c].at + seconds,
                     seen |-> [d \in Deliveries |-> IF d \in batch THEN row[d].attempts ELSE 0]])
  /\ UNCHANGED <<now, row, held, failures>>

(* The UPDATE writes attempts as the SELECT found it, plus one.            *)
RowSeen(c, d) == [row[d] EXCEPT !.attempts = call[c].seen[d]]

CommitClaim(c) ==
  /\ call[c].pc = "selected"
  /\ LET w == call[c].worker
         batch == call[c].batch
     IN  /\ row' = [d \in Deliveries |->
                      IF d \in batch THEN ClaimedRow(RowSeen(c, d), w, call[c].until)
                                     ELSE row[d]]
         /\ held' = [held EXCEPT ![w] = @ \union
                {[delivery |-> d, token |-> call[c].seen[d] + 1] : d \in batch}]
  /\ Become(c, Idle)
  /\ UNCHANGED <<now, failures>>

-----------------------------------------------------------------------------
StartAnswer(c, w, h, kind) ==
  /\ call[c] = Idle
  /\ h \in held[w]
  /\ PromptAnswers => \A b \in Calls : Answering(b) => call[b].handle # h
  /\ Become(c, [pc |-> "answer", handle |-> h, kind |-> kind, at |-> now])
  /\ UNCHANGED <<now, row, held, failures>>

(* _leased: a refused call ends with LeaseConflictError.                   *)
CheckLease(c) ==
  /\ call[c].pc = "answer"
  /\ LET h == call[c].handle
         r == row[h.delivery]
     IN  Become(c, IF Answerable(r, h.token, call[c].at)
                   THEN [pc |-> "checked", handle |-> h, kind |-> call[c].kind,
                         at |-> call[c].at, attempts |-> r.attempts]
                   ELSE Idle)
  /\ UNCHANGED <<now, row, held, failures>>

Flush(c) ==
  /\ call[c].pc = "checked"
  /\ ~ Locked(call[c].handle.delivery)
  /\ Become(c, [call[c] EXCEPT !.pc = "flushed"])
  /\ UNCHANGED <<now, row, held, failures>>

(* Mutant: off by one.                                                     *)
AnsweredRowLate(r, answer) ==
  CASE answer.kind = "ack" -> AckedRow(r)
    [] answer.kind = "fail_retryable" /\ answer.attempts <= MaxAttempts ->
         RetryRow(r, answer.attempts, answer.at)
    [] OTHER -> DeadRow(r)

(* The UPDATE writes the columns the Python object changed; attempts is    *)
(* not one of them.                                                        *)
AnsweredRow(r, answer) ==
  CASE answer.kind = "ack" -> AckedRow(r)
    [] answer.kind = "fail_retryable" /\ answer.attempts < MaxAttempts ->
         RetryRow(r, answer.attempts, answer.at)
    [] OTHER -> DeadRow(r)

CommitAnswer(c) ==
  /\ call[c].pc = "flushed"
  /\ LET d == call[c].handle.delivery
     IN  /\ row' = [row EXCEPT ![d] = AnsweredRow(@, call[c])]
         /\ failures' = IF call[c].kind = "ack" THEN failures
                        ELSE [failures EXCEPT ![d] = @ + 1]
  /\ Become(c, Idle)
  /\ UNCHANGED <<now, held>>

Rollback(c) ==
  /\ call[c] # Idle
  /\ Become(c, Idle)
  /\ UNCHANGED <<now, row, held, failures>>

OutlivesTick(c) ==
  LET h == call[c].handle
      r == row[h.delivery]
  IN  Answerable(r, h.token, now) => Answerable(r, h.token, now + 1)

Tick ==
  /\ now < MaxTime
  /\ PromptAnswers => \A c \in Calls : Answering(c) => OutlivesTick(c)
  /\ now' = now + 1
  /\ UNCHANGED <<row, held, failures, call>>

-----------------------------------------------------------------------------
ClaimStep(c) ==
  \/ \E w \in Workers : StartClaim(c, w)
  \/ \E p \in Platforms, n \in ClaimLimits, seconds \in LeaseSeconds :
       \E batch \in SUBSET Deliveries : SelectForUpdate(c, p, batch, n, seconds)
  \/ CommitClaim(c)

AnswerStep(c) ==
  \/ \E w \in Workers, kind \in Answers : \E h \in held[w] : StartAnswer(c, w, h, kind)
  \/ CheckLease(c)
  \/ Flush(c)
  \/ CommitAnswer(c)

Next ==
  \/ \E batch \in SUBSET Deliveries, due \in now..(now + Horizon) : Publish(batch, due)
  \/ \E c \in Calls : ClaimStep(c) \/ AnswerStep(c) \/ Rollback(c)
  \/ Tick

Spec == Init /\ [][Next]_vars

-----------------------------------------------------------------------------
(* However claims and answers interleave, a claim never takes over a lease *)
(* that its holder could still answer (outbox.py, claim_statement: lease_  *)
(* until < now, FOR UPDATE SKIP LOCKED; README "concurrent plugins cannot  *)
(* claim the same valid lease").                                           *)
ClaimsSpareLiveLeases ==
  [][\A d \in Deliveries :
       Live(row[d], now) => row'[d].attempts = row[d].attempts]_vars

(* Two claims never report the same attempt number of a delivery: the      *)
(* increment of attempts is not lost when claims of several API threads    *)
(* race for the same row (outbox.py, claim).                               *)
AttemptsAreDistinct ==
  \A v, w \in Workers : held[v] \intersect held[w] # {} => v = w

(* No delivery whose failures used up the attempts comes back: a row waits *)
(* for another attempt only while it has one left (outbox.py, fail).       *)
RetryHasAttemptLeft ==
  \A d \in Deliveries : row[d].status = "retry" => row[d].attempts < MaxAttempts

(* CONTRACT section 6: ack and fail update a delivery only when they match *)
(* its current lease.  The answer that is being committed must carry the   *)
(* token of the lease that is in the row at that moment.                   *)
AnswerMatchesLease ==
  [][\A c \in Calls :
       LET h == call[c].handle
       IN  /\ call[c].pc = "flushed"
           /\ row' # row
           /\ call'[c] = Idle
           => /\ row[h.delivery].status = "leased"
              /\ row[h.delivery].lease.token = h.token]_vars

PhaseOf(r) ==
  CASE r.status = "absent" -> "unpublished"
    [] r.status \in {"sent", "dead"} -> r.status
    [] OTHER -> "open"

HolderOf(r) == IF Live(r, now) THEN r.lease.owner ELSE NoLease

Promise == INSTANCE LeasePromise WITH
  Nobody   <- NoLease,
  Budget   <- MaxAttempts,
  phase    <- [d \in Deliveries |-> PhaseOf(row[d])],
  holder   <- [d \in Deliveries |-> HolderOf(row[d])],
  failures <- failures

(* When answers are prompt, the interleaved transactions keep the promise  *)
(* of LeasePromise, although ack and fail never lock the row they check.   *)
KeepsPromise == Promise!Spec
=============================================================================
