----------------------- MODULE NotificationSystemProofs -----------------------
(***************************************************************************)
(* Proofs about NotificationSystem for any number of handlers, dedupe      *)
(* keys, users and plugins, any timing and any limits.                     *)
(*                                                                         *)
(* What publication and the outbox keep to themselves is taken from their  *)
(* own proofs: PublicationFacts and OutboxFacts are those modules with the *)
(* constants of the system.  The definitions of Publication and Outbox are *)
(* theirs word for word, so that a step of the one is a step of the other. *)
(***************************************************************************)
EXTENDS NotificationSystem, TLAPS

PublicationFacts == INSTANCE EventPublicationProofs WITH
  MatchKeys    <- {},
  WatchChoices <- {{}},
  Sessions     <- {},
  Calls        <- Handlers,
  CarriedKeys  <- [key \in DedupeKeys |-> {}]

OutboxFacts == INSTANCE DeliveryOutboxProofs WITH
  Platforms  <- {Platform},
  PlatformOf <- [d \in Deliveries |-> Platform]

(***************************************************************************)
(* The inductive invariant: the instant a reminder asks for is kept, by a  *)
(* lower bound, from the handler through the request and the stored event  *)
(* to the row of each delivery.  Instants asked for are whole seconds, and *)
(* rounding moves no instant below a whole second it was not below before. *)
(***************************************************************************)
WholeSecond(t) == Demo!Whole(t) = t

(* An accepted request is at most the longest delay ahead.                 *)
PostsFit ==
  \A h \in Handlers : handler[h].pc = "post" =>
    /\ WholeSecond(handler[h].notify_at)
    /\ handler[h].notify_at <= now + (MaxDelay + 1) * Second - 1
    /\ handler[h].seconds \in 0..MaxDelay

RequestsFit ==
  \A h \in Handlers : call[h].pc # "idle" =>
    /\ WholeSecond(body[h].notify_at)
    /\ body[h].notify_at <= body[h].due
    /\ call[h].pc = "type" => body[h].seconds \in 0..MaxDelay

EventsAsked ==
  \A o \in occurrences :
    /\ asked[o.id] \in Asked
    /\ asked[o.id].key = o.key
    /\ WholeSecond(asked[o.id].notify_at)

StoredIds == {o.id : o \in occurrences}

(* A row that was handed out once has come due: what its next attempt is   *)
(* put off to does not matter any more.                                    *)
ComesDue(d) ==
  \/ asked[d.event].notify_at <= row[d].next_attempt_at
  \/ asked[d.event].notify_at <= now

RowsStored ==
  \A d \in Deliveries : row[d].status # "absent" => d.event \in StoredIds /\ ComesDue(d)

RepliesStored == \A r \in replies : r.event \in StoredIds

SystemTypeOK ==
  /\ Demo!HandlerTypeOK
  /\ Registry!PublishersTypeOK
  /\ body \in [Handlers -> Body]
  /\ asked \in [Ids -> Asked \union {NotAsked}]
  /\ replies \subseteq Reply
  /\ misfits \subseteq {"horizon", "payload"}
  /\ changes \in 0..MaxChanges

SystemInv ==
  /\ PublicationFacts!IInv
  /\ OutboxFacts!IInv
  /\ SystemTypeOK
  /\ PostsFit
  /\ RequestsFit
  /\ EventsAsked
  /\ RowsStored
  /\ RepliesStored
  /\ ToldWhen

-----------------------------------------------------------------------------
(* Publication and its proofs speak of the same steps.                     *)
LEMMA SameBegin ==
  ASSUME NEW h \in Handlers, NEW key \in DedupeKeys, Publication!Begin(h, key)
  PROVE  PublicationFacts!Begin(h, key)
<1>1. \A S : Publication!Cardinality(S) = PublicationFacts!Cardinality(S)
  BY DEF Publication!Cardinality, PublicationFacts!Cardinality
<1>2. Publication!MayOpen <=> PublicationFacts!MayOpen
  BY <1>1 DEF Publication!MayOpen, Publication!Idle, PublicationFacts!MayOpen,
     PublicationFacts!Idle
<1>3. QED
  BY <1>2 DEF Publication!Begin, Publication!Become, Publication!Idle, Publication!accounts,
     Publication!tables, PublicationFacts!Begin, PublicationFacts!Become,
     PublicationFacts!Idle, PublicationFacts!accounts, PublicationFacts!tables

LEMMA SameCheckType ==
  ASSUME NEW h \in Handlers, Publication!CheckType(h)
  PROVE  PublicationFacts!CheckType(h)
BY DEF Publication!CheckType, Publication!Checked, Publication!HasField,
   Publication!Recipients, Publication!Subscribers, Publication!Permitted,
   Publication!RecipientMatches, Publication!Become, Publication!Idle,
   Publication!accounts, Publication!tables, PublicationFacts!CheckType,
   PublicationFacts!Checked, PublicationFacts!HasField, PublicationFacts!Recipients,
   PublicationFacts!Subscribers, PublicationFacts!Permitted,
   PublicationFacts!RecipientMatches, PublicationFacts!Become, PublicationFacts!Idle,
   PublicationFacts!accounts, PublicationFacts!tables

LEMMA SameSelectExisting ==
  ASSUME NEW h \in Handlers, Publication!SelectExisting(h)
  PROVE  PublicationFacts!SelectExisting(h)
BY DEF Publication!SelectExisting, Publication!Stored, Publication!FoundDuplicate,
   Publication!Become, Publication!Idle, Publication!accounts, Publication!tables,
   PublicationFacts!SelectExisting, PublicationFacts!Stored,
   PublicationFacts!FoundDuplicate, PublicationFacts!Become, PublicationFacts!Idle,
   PublicationFacts!accounts, PublicationFacts!tables

LEMMA SameInsert ==
  ASSUME NEW h \in Handlers, Publication!Insert(h)
  PROVE  PublicationFacts!Insert(h)
BY DEF Publication!Insert, Publication!HoldsKey, Publication!Stored,
   Publication!FoundDuplicate, Publication!Become, Publication!Idle, Publication!accounts,
   Publication!tables, PublicationFacts!Insert, PublicationFacts!HoldsKey,
   PublicationFacts!Stored, PublicationFacts!FoundDuplicate, PublicationFacts!Become,
   PublicationFacts!Idle, PublicationFacts!accounts, PublicationFacts!tables

LEMMA SameSelectRecipients ==
  ASSUME NEW h \in Handlers, Publication!SelectRecipients(h)
  PROVE  PublicationFacts!SelectRecipients(h)
BY DEF Publication!SelectRecipients, Publication!Recipients, Publication!Subscribers,
   Publication!Permitted, Publication!RecipientMatches, Publication!Become,
   Publication!Idle, Publication!accounts, Publication!tables,
   PublicationFacts!SelectRecipients, PublicationFacts!Recipients,
   PublicationFacts!Subscribers, PublicationFacts!Permitted,
   PublicationFacts!RecipientMatches, PublicationFacts!Become, PublicationFacts!Idle,
   PublicationFacts!accounts, PublicationFacts!tables

LEMMA SameCommits ==
  ASSUME NEW h \in Handlers, Publication!CommitCreated(h) \/ Publication!CommitDuplicate(h)
                              \/ Publication!Rollback(h)
  PROVE  PublicationFacts!CommitCreated(h) \/ PublicationFacts!CommitDuplicate(h)
           \/ PublicationFacts!Rollback(h)
BY DEF Publication!CommitCreated, Publication!CommitDuplicate, Publication!Rollback,
   Publication!Respond, Publication!Become, Publication!Idle, Publication!accounts,
   Publication!tables, PublicationFacts!CommitCreated, PublicationFacts!CommitDuplicate,
   PublicationFacts!Rollback, PublicationFacts!Respond, PublicationFacts!Become,
   PublicationFacts!Idle, PublicationFacts!accounts, PublicationFacts!tables

LEMMA SameAccounts ==
  ASSUME Publication!Accounts
  PROVE  PublicationFacts!Accounts
BY DEF Publication!Accounts, Publication!Administer, Publication!Register,
   Publication!Deploy, Publication!SetCommand, Publication!SetStatus,
   Publication!ValidEntry, Publication!HasField, Publication!SubscriptionStep,
   Publication!Observe, Publication!Watching, Publication!Qualified,
   Publication!Recipients, Publication!Subscribers, Publication!Permitted,
   Publication!RecipientMatches, Publication!Become, Publication!Idle,
   Publication!accounts, Publication!tables, PublicationFacts!Accounts,
   PublicationFacts!Administer, PublicationFacts!Register, PublicationFacts!Deploy,
   PublicationFacts!SetCommand, PublicationFacts!SetStatus, PublicationFacts!ValidEntry,
   PublicationFacts!HasField, PublicationFacts!SubscriptionStep, PublicationFacts!Observe,
   PublicationFacts!Watching, PublicationFacts!Qualified, PublicationFacts!Recipients,
   PublicationFacts!Subscribers, PublicationFacts!Permitted,
   PublicationFacts!RecipientMatches, PublicationFacts!Become, PublicationFacts!Idle,
   PublicationFacts!accounts, PublicationFacts!tables

LEMMA SameInit ==
  ASSUME Publication!Init
  PROVE  PublicationFacts!Init
BY DEF Publication!Init, Publication!AccountsInit, Publication!ValidEntry,
   Publication!HasField, Publication!NoSession, Publication!Idle, PublicationFacts!Init,
   PublicationFacts!AccountsInit, PublicationFacts!ValidEntry, PublicationFacts!HasField,
   PublicationFacts!NoSession, PublicationFacts!Idle

LEMMA SameOutboxInit ==
  ASSUME Outbox!Init
  PROVE  OutboxFacts!Init
BY DEF Outbox!Init, Outbox!AbsentRow, OutboxFacts!Init, OutboxFacts!AbsentRow

LEMMA SameBatch ==
  ASSUME NEW batch, NEW candidates, NEW n, Outbox!IsBatch(batch, candidates, n, row)
  PROVE  OutboxFacts!IsBatch(batch, candidates, n, row)
<1>1. \A S : Outbox!Cardinality(S) = OutboxFacts!Cardinality(S)
  BY DEF Outbox!Cardinality, OutboxFacts!Cardinality
<1>2. \A r, s : Outbox!Precedes(r, s) <=> OutboxFacts!Precedes(r, s)
  BY DEF Outbox!Precedes, OutboxFacts!Precedes
<1>3. QED
  BY <1>1, <1>2 DEF Outbox!IsBatch, OutboxFacts!IsBatch

LEMMA SameCandidates ==
  Outbox!Candidates(Platform) = OutboxFacts!Candidates(Platform)
BY DEF Outbox!Candidates, Outbox!Eligible, OutboxFacts!Candidates, OutboxFacts!Eligible

LEMMA SameClaim ==
  ASSUME NEW w \in Workers, NEW batch, NEW n, NEW seconds,
         Outbox!Claim(w, Platform, batch, n, seconds)
  PROVE  OutboxFacts!Claim(w, Platform, batch, n, seconds)
<1>1. OutboxFacts!IsBatch(batch, OutboxFacts!Candidates(Platform), n, row)
  BY SameBatch, SameCandidates DEF Outbox!Claim
<1>2. \A r, t : Outbox!ClaimedRow(r, w, t) = OutboxFacts!ClaimedRow(r, w, t)
  BY DEF Outbox!ClaimedRow, Outbox!Column, OutboxFacts!ClaimedRow, OutboxFacts!Column
<1>3. QED
  BY <1>1, <1>2 DEF Outbox!Claim, OutboxFacts!Claim

LEMMA SamePublish ==
  ASSUME NEW batch, NEW due, Outbox!Publish(batch, due)
  PROVE  OutboxFacts!Publish(batch, due)
BY DEF Outbox!Publish, Outbox!PublishedRow, Outbox!Column, OutboxFacts!Publish,
   OutboxFacts!PublishedRow, OutboxFacts!Column

LEMMA SameAck ==
  ASSUME NEW w \in Workers, NEW h \in held[w], Outbox!Ack(w, h)
  PROVE  OutboxFacts!Ack(w, h)
BY DEF Outbox!Ack, Outbox!AckedRow, Outbox!Answerable, Outbox!Live, OutboxFacts!Ack,
   OutboxFacts!AckedRow, OutboxFacts!Answerable, OutboxFacts!Live

LEMMA SameFail ==
  ASSUME NEW w \in Workers, NEW h \in held[w], NEW retryable \in BOOLEAN,
         Outbox!Fail(w, h, retryable)
  PROVE  OutboxFacts!Fail(w, h, retryable)
BY DEF Outbox!Fail, Outbox!RetryRow, Outbox!DeadRow, Outbox!Answerable, Outbox!Live,
   Outbox!Exhausted, Outbox!Backoff, Outbox!Column, OutboxFacts!Fail, OutboxFacts!RetryRow,
   OutboxFacts!DeadRow, OutboxFacts!Answerable, OutboxFacts!Live, OutboxFacts!Exhausted,
   OutboxFacts!Backoff, OutboxFacts!Column

LEMMA SameTick ==
  ASSUME Outbox!Tick
  PROVE  OutboxFacts!Tick
BY DEF Outbox!Tick, OutboxFacts!Tick

-----------------------------------------------------------------------------
(* What the proofs of the parts establish, under the assumptions on the    *)
(* constants of the system.                                                *)
LEMMA PartParameters ==
  /\ [d \in Deliveries |-> Platform] \in [Deliveries -> {Platform}]
  /\ [key \in DedupeKeys |-> {}] \in [DedupeKeys -> SUBSET {}]
  /\ {{}} \subseteq SUBSET {}
  /\ \A keys \in SUBSET {} : keys # NoRow
  /\ Entries \subseteq PublicationFacts!Entry
  /\ NoLease \notin [owner : Workers, token : Nat, until : Int]
  /\ Second \in Nat \ {0}
  /\ MaxDelay \in Nat
BY NotificationSystemAssumption, PublicationAssumption, OutboxAssumption
   DEF PublicationFacts!Entry, Demo!DemoParameters, Outbox!Lease

LEMMA PublicationStep ==
  PublicationFacts!IInv /\ [PublicationFacts!Next]_(PublicationFacts!vars)
    => PublicationFacts!IInv'
BY PartParameters, PublicationAssumption, PublicationFacts!StepInvariant

LEMMA PublicationStays ==
  ASSUME PublicationFacts!IInv, UNCHANGED publication
  PROVE  PublicationFacts!IInv'
BY PublicationStep DEF publication, PublicationFacts!vars, PublicationFacts!accounts,
   PublicationFacts!tables

LEMMA OutboxStep ==
  OutboxFacts!IInv /\ [OutboxFacts!Next]_(OutboxFacts!vars) => OutboxFacts!IInv'
BY PartParameters, OutboxAssumption, OutboxFacts!StepInvariant

LEMMA OutboxStays ==
  ASSUME OutboxFacts!IInv, UNCHANGED outbox
  PROVE  OutboxFacts!IInv'
BY OutboxStep DEF outbox, OutboxFacts!vars

LEMMA OutboxPublished ==
  ASSUME OutboxFacts!IInv,
         NEW batch \in SUBSET Deliveries, NEW due \in Int, Outbox!Publish(batch, due)
  PROVE  OutboxFacts!IInv'
<1>1. OutboxFacts!Publish(batch, due)
  BY SamePublish
<1>2. QED
  BY <1>1, PartParameters, OutboxAssumption, OutboxFacts!PublishInvariant

LEMMA PublicationServed ==
  ASSUME PublicationFacts!IInv, NEW h \in Handlers,
         \/ \E key \in DedupeKeys : Publication!Begin(h, key)
         \/ Publication!CheckType(h)
         \/ Publication!SelectExisting(h)
         \/ Publication!Insert(h)
         \/ Publication!SelectRecipients(h)
         \/ Publication!CommitCreated(h)
         \/ Publication!CommitDuplicate(h)
         \/ Publication!Rollback(h)
  PROVE  /\ PublicationFacts!Next
         /\ PublicationFacts!IInv'
<1>1. PublicationFacts!Next
  BY SameBegin, SameCheckType, SameSelectExisting, SameInsert, SameSelectRecipients,
     SameCommits DEF PublicationFacts!Next, PublicationFacts!Publish
<1>2. QED
  BY <1>1, PublicationStep

LEMMA PublicationAdministered ==
  ASSUME PublicationFacts!IInv, Publication!Accounts
  PROVE  /\ PublicationFacts!Next
         /\ PublicationFacts!IInv'
<1>1. PublicationFacts!Next
  BY SameAccounts DEF PublicationFacts!Next
<1>2. QED
  BY <1>1, PublicationStep

-----------------------------------------------------------------------------
(* Instants: a whole second is a multiple of Second.                       *)
LEMMA Division ==
  ASSUME NEW t \in Int, NEW s \in Nat \ {0}
  PROVE  /\ t \div s \in Int
         /\ (t \div s) * s \in Int
         /\ (t \div s) * s <= t
         /\ t < (t \div s) * s + s
OBVIOUS

LEMMA ProductOfNats ==
  ASSUME NEW k \in Nat, NEW s \in Nat
  PROVE  k * s \in Nat
OBVIOUS

LEMMA MultiplesApart ==
  ASSUME NEW p \in Int, NEW q \in Int, NEW s \in Nat \ {0}, p * s < q * s + s
  PROVE  /\ p <= q
         /\ p * s <= q * s
<1>1. p <= q
  <2> SUFFICES ASSUME q < p PROVE FALSE
    OBVIOUS
  <2>1. p - q - 1 \in Nat
    OBVIOUS
  <2>2. (p - q - 1) * s \in Nat
    BY <2>1, ProductOfNats
  <2>3. (p - q - 1) * s = p * s - q * s - s
    OBVIOUS
  <2>4. QED
    BY <2>2, <2>3
<1>2. q - p \in Nat
  BY <1>1
<1>3. (q - p) * s \in Nat
  BY <1>2, ProductOfNats
<1>4. (q - p) * s = q * s - p * s
  OBVIOUS
<1>5. QED
  BY <1>1, <1>3, <1>4

LEMMA WholeFacts ==
  ASSUME NEW t \in Int
  PROVE  /\ Demo!Whole(t) \in Int
         /\ Demo!Whole(t) <= t
         /\ t < Demo!Whole(t) + Second
         /\ WholeSecond(Demo!Whole(t))
<1>1. /\ t \div Second \in Int
      /\ Demo!Whole(t) \in Int
      /\ Demo!Whole(t) <= t
      /\ t < Demo!Whole(t) + Second
  BY Division, PartParameters DEF Demo!Whole
<1>2. WholeSecond(Demo!Whole(t))
  <2> DEFINE w == Demo!Whole(t)
  <2>1. /\ w \div Second \in Int
        /\ Demo!Whole(w) \in Int
        /\ Demo!Whole(w) <= w
        /\ w < Demo!Whole(w) + Second
    BY <1>1, Division, PartParameters DEF Demo!Whole
  <2>2. w <= Demo!Whole(w)
    <3>1. w = (t \div Second) * Second /\ Demo!Whole(w) = (w \div Second) * Second
      BY DEF Demo!Whole
    <3>2. QED
      BY <1>1, <2>1, <3>1, MultiplesApart, PartParameters
  <2>3. QED
    BY <1>1, <2>1, <2>2 DEF WholeSecond
<1>3. QED
  BY <1>1, <1>2

(* A column rounds an instant to one of the two seconds next to it.        *)
LEMMA ColumnNear ==
  ASSUME NEW t \in Int
  PROVE  /\ OutboxFacts!Column(t) \in Int
         /\ Demo!Whole(t) <= OutboxFacts!Column(t)
         /\ OutboxFacts!Column(t) <= Demo!Whole(t) + Second
<1> DEFINE half == Second \div 2
           u    == t + half
           p    == t \div Second
           q    == u \div Second
<1>1. half \in Int /\ 0 <= half /\ half < Second
  BY PartParameters
<1>2. p \in Int /\ p * Second \in Int /\ p * Second <= t /\ t < p * Second + Second
  BY Division, PartParameters
<1> HIDE DEF half
<1>3. u \in Int
  BY <1>1
<1>4. q \in Int /\ q * Second \in Int /\ q * Second <= u /\ u < q * Second + Second
  BY <1>3, Division, PartParameters
<1>5. Demo!Whole(t) = p * Second /\ OutboxFacts!Column(t) = q * Second
  BY DEF Demo!Whole, OutboxFacts!Column, half
<1> HIDE DEF p, q
<1>6. p * Second <= q * Second
  <2>1. p * Second < q * Second + Second
    BY <1>1, <1>2, <1>3, <1>4, PartParameters
  <2>2. QED
    BY <1>2, <1>4, <2>1, MultiplesApart, PartParameters
<1>7. q * Second <= p * Second + Second
  <2>1. (p + 1) * Second = p * Second + Second
    BY <1>2, PartParameters
  <2>2. q * Second < (p + 1) * Second + Second
    BY <1>1, <1>2, <1>3, <1>4, <2>1, PartParameters
  <2>3. q * Second <= (p + 1) * Second
    BY <1>2, <1>4, <2>2, MultiplesApart, PartParameters
  <2>4. QED
    BY <2>1, <2>3
<1>8. QED
  BY <1>2, <1>4, <1>5, <1>6, <1>7

(* Neither rounding crosses a whole second.                                *)
LEMMA WholeBounds ==
  ASSUME NEW m \in Int, NEW t \in Int, WholeSecond(m), m <= t
  PROVE  /\ m <= Demo!Whole(t)
         /\ m <= OutboxFacts!Column(t)
<1> DEFINE p == m \div Second
           q == t \div Second
<1>1. p \in Int /\ m = p * Second
  BY Division, PartParameters DEF WholeSecond, Demo!Whole
<1>2. q \in Int /\ q * Second \in Int /\ t < q * Second + Second
  BY Division, PartParameters
<1> HIDE DEF p, q
<1>3. p * Second < q * Second + Second
  BY <1>1, <1>2, PartParameters
<1>4. p * Second <= q * Second
  BY <1>1, <1>2, <1>3, MultiplesApart, PartParameters
<1>5. m <= Demo!Whole(t)
  BY <1>1, <1>4 DEF Demo!Whole, q
<1>6. QED
  BY <1>5, WholeFacts, ColumnNear

-----------------------------------------------------------------------------
(* What the invariants of the parts say of a request, an event and a row.  *)
LEMMA RequestFacts ==
  ASSUME PublicationFacts!IInv, NEW h \in Handlers
  PROVE  /\ call \in [Handlers -> PublicationFacts!Call]
         /\ call[h].pc # "idle" => call[h].key \in DedupeKeys /\ call[h].id \in Ids
         /\ call[h].pc = "commit" => call[h].to \in SUBSET Users
         /\ call[h].pc = "idle" <=> call[h] = PublicationFacts!Idle
<1>1. call \in [Handlers -> PublicationFacts!Call]
  BY DEF PublicationFacts!IInv, PublicationFacts!TypeOK
<1>2. call[h] \in PublicationFacts!Call
  BY <1>1
<1>3. QED
  BY <1>1, <1>2 DEF PublicationFacts!Call, PublicationFacts!Idle, PublicationFacts!Ids, Ids

LEMMA EventFacts ==
  ASSUME PublicationFacts!IInv
  PROVE  /\ occurrences \subseteq [key : DedupeKeys, id : Ids]
         /\ \A o, p \in occurrences : o.key = p.key => o = p
         /\ \A o \in occurrences, h \in Handlers :
              call[h].pc = "commit" => o.id # call[h].id
BY DEF PublicationFacts!IInv, PublicationFacts!TypeOK, PublicationFacts!PublishInv,
   PublicationFacts!OneOccurrencePerKey, PublicationFacts!IdsAreOwn,
   PublicationFacts!HasOwnId, PublicationFacts!Ids, Ids

LEMMA RowFacts ==
  ASSUME OutboxFacts!IInv
  PROVE  /\ now \in 0..MaxTime
         /\ row \in [Deliveries -> OutboxFacts!Row]
         /\ \A d \in Deliveries :
              /\ row[d].next_attempt_at \in Int
              /\ row[d].attempts \in Nat
              /\ row[d].status = "absent" => row[d].attempts = 0
              /\ row[d].status = "leased" => row[d].next_attempt_at <= now
<1>1. now \in 0..MaxTime /\ row \in [Deliveries -> OutboxFacts!Row]
  BY DEF OutboxFacts!IInv, OutboxFacts!TypeOK
<1>2. ASSUME NEW d \in Deliveries
      PROVE  row[d].next_attempt_at \in Int /\ row[d].attempts \in Nat
  <2>1. row[d] \in OutboxFacts!Row
    BY <1>1, <1>2
  <2>2. QED
    BY <2>1 DEF OutboxFacts!Row
<1>3. QED
  BY <1>1, <1>2 DEF OutboxFacts!IInv, OutboxFacts!LeaseOfRow, OutboxFacts!LeasedWasDue

-----------------------------------------------------------------------------
(* What DemoReminder accepts is at most the longest delay ahead, and a     *)
(* fraction of a second when an instant is asked for.                      *)
LEMMA TruncatedFacts ==
  ASSUME NEW length \in Int
  PROVE  /\ Demo!Truncated(length) \in Int
         /\ length >= 0 => /\ Demo!Truncated(length) \in Nat
                           /\ length < Demo!Truncated(length) * Second + Second
<1>1. CASE length < 0
  <2>1. - length \in Int
    BY <1>1
  <2>2. (- length) \div Second \in Int
    BY <2>1, Division, PartParameters
  <2>3. QED
    BY <1>1, <2>2 DEF Demo!Truncated
<1>2. CASE length >= 0
  <2>1. /\ length \div Second \in Int
        /\ length < (length \div Second) * Second + Second
    BY Division, PartParameters
  <2>2. length \div Second \in Nat
    <3>1. 0 * Second < (length \div Second) * Second + Second
      BY <1>2, <2>1, PartParameters
    <3>2. 0 <= length \div Second
      BY <2>1, <3>1, MultiplesApart, PartParameters
    <3>3. QED
      BY <2>1, <3>2
  <2>3. Demo!Truncated(length) = length \div Second
    BY <1>2 DEF Demo!Truncated
  <2>4. QED
    BY <2>1, <2>2, <2>3
<1>3. QED
  BY <1>1, <1>2

LEMMA AcceptedFacts ==
  ASSUME NEW at \in Int, NEW input \in Inputs, NEW t \in Demo!Accepted(at, input)
  PROVE  /\ t.notify_at \in Int
         /\ t.seconds \in 0..MaxDelay
         /\ t.notify_at <= at + (MaxDelay + 1) * Second - 1
<1>1. input \in Demo!Input
  BY NotificationSystemAssumption DEF Demo!DemoParameters
<1>2. t.seconds <= MaxDelay /\ t \in Demo!Timings(at, input)
  BY DEF Demo!Accepted
<1>3. /\ Second \in Nat \ {0} /\ MaxDelay \in Nat
      /\ MaxDelay * Second \in Nat
      /\ (MaxDelay + 1) * Second = MaxDelay * Second + Second
  BY ProductOfNats, PartParameters
<1>4. ASSUME NEW n \in Nat, n <= MaxDelay
      PROVE  n * Second \in Nat /\ n * Second <= MaxDelay * Second
  <2>1. n * Second \in Nat /\ (MaxDelay - n) * Second \in Nat
    BY <1>3, <1>4, ProductOfNats
  <2>2. (MaxDelay - n) * Second = MaxDelay * Second - n * Second
    BY <1>3, <1>4
  <2>3. QED
    BY <1>3, <2>1, <2>2
<1>5. CASE \E n \in Nat : t = Demo!After(at, n)
  <2>1. PICK n \in Nat : t = Demo!After(at, n)
    BY <1>5
  <2>2. t.seconds = n /\ t.notify_at = at + n * Second
    BY <2>1 DEF Demo!After
  <2>3. n * Second \in Nat /\ n * Second <= MaxDelay * Second
    BY <1>2, <1>4, <2>2
  <2>4. QED
    BY <1>2, <1>3, <2>2, <2>3
<1>6. CASE \E instant \in Int : t = Demo!At(at, instant)
  <2>1. PICK instant \in Int : t = Demo!At(at, instant)
    BY <1>6
  <2>2. t.notify_at = instant
    BY <2>1 DEF Demo!At
  <2>3. CASE instant < at
    BY <1>3, <2>1, <2>2, <2>3 DEF Demo!At
  <2>4. CASE instant >= at
    <3>1. t.seconds = Demo!Truncated(instant - at)
      BY <2>1, <2>4 DEF Demo!At
    <3>2. instant - at \in Int /\ instant - at >= 0
      BY <2>4
    <3>3. t.seconds \in Nat /\ instant - at < t.seconds * Second + Second
      BY <3>1, <3>2, TruncatedFacts
    <3>4. t.seconds * Second \in Nat /\ t.seconds * Second <= MaxDelay * Second
      BY <1>2, <1>4, <3>3
    <3>5. QED
      BY <1>2, <1>3, <2>2, <3>3, <3>4
  <2>5. QED
    BY <2>3, <2>4
<1>7. QED
  <2>1. \A v \in Int : Demo!Truncated(v) \in Int /\ (v \in Nat => Demo!Truncated(v) \in Nat)
    BY TruncatedFacts
  <2>2. input.delay \subseteq Int /\ input.delay_seconds \subseteq Int /\ input.at \subseteq Int
    BY <1>1 DEF Demo!Input
  <2>3. DefaultDelay \in Nat
    BY NotificationSystemAssumption DEF Demo!DemoParameters
  <2>4. QED
    BY <1>2, <1>5, <1>6, <2>1, <2>2, <2>3 DEF Demo!Timings, Demo!ParsedDelay,
       Demo!ParsedSeconds

-----------------------------------------------------------------------------
(* The parts of the invariant, one by one, under the changes steps make.   *)
LEMMA InitInvariant == Init => SystemInv
<1> SUFFICES ASSUME Init PROVE SystemInv
  OBVIOUS
<1>1. PublicationFacts!IInv
  <2>1. PublicationFacts!Init
    BY SameInit DEF Init
  <2>2. QED
    BY <2>1, PartParameters, PublicationAssumption, PublicationFacts!InitInvariant
<1>2. OutboxFacts!IInv
  <2>1. OutboxFacts!Init
    BY SameOutboxInit DEF Init
  <2>2. QED
    BY <2>1, PartParameters, OutboxAssumption, OutboxFacts!InitInvariant
<1>3. SystemTypeOK
  <2>1. NoBody \in Body
    BY DEF NoBody, Body
  <2>2. QED
    BY <2>1, NotificationSystemAssumption DEF Init, SystemTypeOK, Demo!DemoInit, Demo!HandlerTypeOK, Demo!Handler,
       Registry!PublishersTypeOK
<1>4. PostsFit
  BY DEF Init, Demo!DemoInit, Demo!Idle, PostsFit
<1>5. RequestsFit
  <2>1. \A h \in Handlers : call[h].pc = "idle"
    BY DEF Init, Publication!Init, Publication!Idle
  <2>2. QED
    BY <2>1 DEF RequestsFit
<1>6. occurrences = {} /\ replies = {} /\ \A d \in Deliveries : row[d].status = "absent"
  BY DEF Init, Publication!Init, Outbox!Init, Outbox!AbsentRow
<1>7. EventsAsked /\ RowsStored /\ RepliesStored /\ ToldWhen
  BY <1>6 DEF EventsAsked, RowsStored, RepliesStored, ToldWhen
<1>8. QED
  BY <1>1, <1>2, <1>3, <1>4, <1>5, <1>7 DEF SystemInv

(* A handler that stops posting.                                           *)
LEMMA HandlerMoves ==
  ASSUME SystemInv, NEW h \in Handlers, NEW s \in {Demo!Idle, Demo!Waiting},
         handler' = [handler EXCEPT ![h] = s], now' = now
  PROVE  Demo!HandlerTypeOK' /\ PostsFit'
<1>1. s \in Demo!Handler /\ s.pc # "post"
  BY DEF Demo!Handler, Demo!Idle, Demo!Waiting
<1>2. handler \in [Handlers -> Demo!Handler]
  BY DEF SystemInv, SystemTypeOK, Demo!HandlerTypeOK
<1>3. Demo!HandlerTypeOK'
  BY <1>1, <1>2 DEF Demo!HandlerTypeOK
<1>4. \A g \in Handlers : handler'[g].pc = "post" => handler'[g] = handler[g]
  BY <1>1, <1>2
<1>5. QED
  BY <1>3, <1>4 DEF SystemInv, PostsFit, WholeSecond

LEMMA HandlerStays ==
  ASSUME SystemInv, UNCHANGED <<handler, now>>
  PROVE  Demo!HandlerTypeOK' /\ PostsFit'
BY DEF SystemInv, SystemTypeOK, Demo!HandlerTypeOK, PostsFit, WholeSecond

LEMMA HandlerTold ==
  ASSUME SystemInv, NEW h \in Handlers, Demo!Finish(h) \/ UNCHANGED demo, now' = now
  PROVE  Demo!HandlerTypeOK' /\ PostsFit'
<1>1. CASE Demo!Finish(h)
  BY <1>1, HandlerMoves DEF Demo!Finish
<1>2. CASE UNCHANGED demo
  BY <1>2, HandlerStays DEF demo
<1>3. QED
  BY <1>1, <1>2

(* A request that moves on or ends, with what it carries.                  *)
LEMMA RequestMoves ==
  ASSUME SystemInv, NEW h \in Handlers, NEW c, NEW b \in Body,
         c.pc # "idle" => /\ WholeSecond(b.notify_at)
                          /\ b.notify_at <= b.due
                          /\ c.pc = "type" => b.seconds \in 0..MaxDelay,
         call' = [call EXCEPT ![h] = c], body' = [body EXCEPT ![h] = b]
  PROVE  RequestsFit' /\ body' \in [Handlers -> Body]
<1>1. body \in [Handlers -> Body]
  BY DEF SystemInv, SystemTypeOK
<1>2. call \in [Handlers -> PublicationFacts!Call]
  BY RequestFacts DEF SystemInv
<1>3. call'[h] = c /\ body'[h] = b
  BY <1>1, <1>2
<1>4. \A g \in Handlers \ {h} : call'[g] = call[g] /\ body'[g] = body[g]
  BY <1>1, <1>2
<1>5. QED
  BY <1>1, <1>3, <1>4 DEF SystemInv, RequestsFit, WholeSecond

LEMMA RequestsStay ==
  ASSUME SystemInv, UNCHANGED <<call, body>>
  PROVE  RequestsFit' /\ body' \in [Handlers -> Body]
BY DEF SystemInv, SystemTypeOK, RequestsFit, WholeSecond

(* What is stored is left alone, while time may pass.                      *)
LEMMA StoredStays ==
  ASSUME SystemInv, UNCHANGED <<occurrences, row, asked, replies>>,
         now' \in Int, now <= now'
  PROVE  /\ EventsAsked' /\ RowsStored' /\ RepliesStored' /\ ToldWhen'
         /\ asked' \in [Ids -> Asked \union {NotAsked}]
         /\ replies' \subseteq Reply
<1>1. EventsAsked' /\ RepliesStored' /\ ToldWhen'
  BY DEF SystemInv, EventsAsked, RepliesStored, StoredIds, ToldWhen, WholeSecond
<1>2. RowsStored'
  <2> SUFFICES ASSUME NEW d \in Deliveries, row[d].status # "absent"
               PROVE  d.event \in StoredIds' /\ ComesDue(d)'
    BY DEF RowsStored
  <2>1. PICK o \in occurrences : o.id = d.event
    BY DEF SystemInv, RowsStored, StoredIds
  <2>2. d.event \in StoredIds' /\ ComesDue(d)
    BY <2>1 DEF SystemInv, RowsStored, StoredIds
  <2>3. asked[d.event].notify_at \in Int /\ now \in Int
    BY <2>1, RowFacts DEF SystemInv, EventsAsked, Asked
  <2>4. QED
    BY <2>2, <2>3 DEF ComesDue
<1>3. QED
  BY <1>1, <1>2 DEF SystemInv, SystemTypeOK

-----------------------------------------------------------------------------
(* One lemma for each action.                                              *)
LEMMA SubmitInvariant ==
  ASSUME SystemInv, NEW h \in Handlers, NEW key \in DedupeKeys, NEW input \in Inputs,
         Submit(h, key, input)
  PROVE  SystemInv'
<1>1. now \in Int /\ now' = now
  BY RowFacts DEF SystemInv, Submit, outbox
<1>2. PICK t \in Demo!Accepted(now, input) :
        handler' = [handler EXCEPT ![h] =
          [pc |-> "post", key |-> key, notify_at |-> Demo!Whole(t.notify_at),
           seconds |-> t.seconds]]
  BY DEF Submit, Demo!Submit
<1> DEFINE w == Demo!Whole(t.notify_at)
           s == [pc |-> "post", key |-> key, notify_at |-> w, seconds |-> t.seconds]
<1>3. /\ t.notify_at \in Int
      /\ t.seconds \in 0..MaxDelay
      /\ t.notify_at <= now + (MaxDelay + 1) * Second - 1
  BY <1>1, AcceptedFacts
<1>4. w \in Int /\ w <= t.notify_at /\ WholeSecond(w)
  BY <1>3, WholeFacts
<1>5. w <= now + (MaxDelay + 1) * Second - 1
  <2> DEFINE bound == now + (MaxDelay + 1) * Second - 1
  <2>1. bound \in Int
    BY <1>1, PartParameters
  <2> HIDE DEF bound, w
  <2>2. t.notify_at <= bound
    BY <1>3 DEF bound
  <2>3. w <= bound
    BY <1>3, <1>4, <2>1, <2>2
  <2>4. QED
    BY <2>3 DEF bound
<1> HIDE DEF w
<1>6. handler \in [Handlers -> Demo!Handler] /\ s \in Demo!Handler
  <2>1. t.seconds \in Int
    BY <1>3, PartParameters
  <2>2. QED
    BY <1>4, <2>1 DEF Demo!Handler, SystemInv, SystemTypeOK, Demo!HandlerTypeOK
<1>7. handler' = [handler EXCEPT ![h] = s]
  BY <1>2 DEF w
<1>8. Demo!HandlerTypeOK'
  BY <1>6, <1>7 DEF Demo!HandlerTypeOK
<1>9. PostsFit'
  <2> SUFFICES ASSUME NEW g \in Handlers, handler'[g].pc = "post"
               PROVE  /\ WholeSecond(handler'[g].notify_at)
                      /\ handler'[g].notify_at <= now' + (MaxDelay + 1) * Second - 1
                      /\ handler'[g].seconds \in 0..MaxDelay
    BY DEF PostsFit, WholeSecond
  <2>1. CASE g = h
    BY <1>1, <1>3, <1>4, <1>5, <1>6, <1>7, <2>1
  <2>2. CASE g # h
    BY <1>1, <1>6, <1>7, <2>2 DEF SystemInv, PostsFit
  <2>3. QED
    BY <2>1, <2>2
<1>10. PublicationFacts!IInv' /\ OutboxFacts!IInv'
  BY PublicationStays, OutboxStays DEF SystemInv, Submit
<1>11. EventsAsked' /\ RowsStored' /\ RepliesStored' /\ ToldWhen'
  BY <1>1, StoredStays DEF Submit, publication, outbox
<1>12. RequestsFit'
  BY RequestsStay DEF Submit, publication
<1>13. SystemTypeOK'
  BY <1>8 DEF Submit, SystemInv, SystemTypeOK, Registry!PublishersTypeOK
<1>14. QED
  BY <1>9, <1>10, <1>11, <1>12, <1>13 DEF SystemInv

(* Steps that store nothing.                                               *)
LEMMA NothingStored ==
  ASSUME SystemInv, PublicationFacts!IInv',
         UNCHANGED <<occurrences, outbox, asked, replies>>,
         Demo!HandlerTypeOK', PostsFit', RequestsFit', body' \in [Handlers -> Body],
         Registry!PublishersTypeOK',
         misfits' \subseteq {"horizon", "payload"}, changes' \in 0..MaxChanges
  PROVE  SystemInv'
<1>1. now \in Int /\ now' = now
  BY RowFacts DEF SystemInv, outbox
<1>2. OutboxFacts!IInv'
  BY OutboxStays DEF SystemInv
<1>3. /\ EventsAsked' /\ RowsStored' /\ RepliesStored' /\ ToldWhen'
      /\ asked' \in [Ids -> Asked \union {NotAsked}]
      /\ replies' \subseteq Reply
  BY <1>1, StoredStays DEF outbox
<1>4. QED
  BY <1>2, <1>3 DEF SystemInv, SystemTypeOK

LEMMA OutsideInvariant ==
  ASSUME SystemInv, UNCHANGED <<publication, outbox, body, asked, replies>>,
         Demo!HandlerTypeOK', PostsFit', Registry!PublishersTypeOK',
         misfits' \subseteq {"horizon", "payload"}, changes' \in 0..MaxChanges
  PROVE  SystemInv'
<1>1. PublicationFacts!IInv'
  BY PublicationStays DEF SystemInv
<1>2. RequestsFit' /\ body' \in [Handlers -> Body]
  BY RequestsStay DEF publication
<1>3. QED
  BY <1>1, <1>2, NothingStored DEF publication

LEMMA GiveUpInvariant ==
  ASSUME SystemInv, NEW h \in Handlers, GiveUp(h)
  PROVE  SystemInv'
<1>1. Demo!HandlerTypeOK' /\ PostsFit'
  BY HandlerTold DEF GiveUp, outbox
<1>2. QED
  BY <1>1, OutsideInvariant DEF GiveUp, SystemInv, SystemTypeOK, Registry!PublishersTypeOK

LEMMA RefuseInvariant ==
  ASSUME SystemInv, NEW h \in Handlers, Refuse(h)
  PROVE  SystemInv'
<1>1. Demo!HandlerTypeOK' /\ PostsFit'
  BY HandlerTold DEF Refuse, outbox
<1>2. misfits' \subseteq {"horizon", "payload"}
  BY DEF Refuse, SystemInv, SystemTypeOK
<1>3. QED
  BY <1>1, <1>2, OutsideInvariant DEF Refuse, SystemInv, SystemTypeOK,
     Registry!PublishersTypeOK

LEMMA RegisterInvariant ==
  ASSUME SystemInv,
         NEW key \in PublisherKeys, NEW token \in Tokens, NEW allowed \in PrefixChoices,
         Register(key, token, allowed)
  PROVE  SystemInv'
<1>1. Demo!HandlerTypeOK' /\ PostsFit'
  BY HandlerStays DEF Register, demo, outbox
<1>2. changes' \in 0..MaxChanges
  BY NotificationSystemAssumption DEF Register, MayChange, SystemInv, SystemTypeOK
<1>3. Registry!PublishersTypeOK'
  BY DEF Register, Registry!Upsert, SystemInv, SystemTypeOK, Registry!PublishersTypeOK,
     Registry!Publisher
<1>4. QED
  BY <1>1, <1>2, <1>3, OutsideInvariant DEF Register, SystemInv, SystemTypeOK

LEMMA ReceiveInvariant ==
  ASSUME SystemInv, NEW h \in Handlers, Receive(h)
  PROVE  SystemInv'
<1> DEFINE at == handler[h].notify_at
           b  == [due |-> Resolved(at), notify_at |-> at, seconds |-> handler[h].seconds]
           c  == [pc |-> "type", key |-> handler[h].key, id |-> requests + 1]
<1>1. now \in Int /\ now' = now
  BY RowFacts DEF SystemInv, Receive, outbox
<1>2. /\ at \in Int /\ handler[h].seconds \in Int /\ handler[h].key \in DedupeKeys
      /\ WholeSecond(at)
      /\ handler[h].seconds \in 0..MaxDelay
  <2>1. handler[h].pc = "post" /\ handler[h] \in Demo!Handler
    BY DEF Receive, Demo!Post, SystemInv, SystemTypeOK, Demo!HandlerTypeOK
  <2>2. handler[h] \in [pc : {"post"}, key : DedupeKeys, notify_at : Int, seconds : Int]
    BY <2>1 DEF Demo!Handler, Demo!Idle, Demo!Waiting
  <2>3. QED
    BY <2>1, <2>2 DEF SystemInv, PostsFit
<1>3. /\ Resolved(at) \in Int /\ at <= Resolved(at)
  BY <1>1, <1>2 DEF Resolved
<1>4. b \in Body /\ WholeSecond(b.notify_at) /\ b.notify_at <= b.due
        /\ b.seconds \in 0..MaxDelay
  BY <1>2, <1>3 DEF Body
<1>5. call' = [call EXCEPT ![h] = c] /\ body' = [body EXCEPT ![h] = b]
  BY DEF Receive, Publication!Begin, Publication!Become
<1>6. RequestsFit' /\ body' \in [Handlers -> Body]
  BY <1>4, <1>5, RequestMoves
<1>7. Demo!HandlerTypeOK' /\ PostsFit'
  BY <1>1, HandlerMoves DEF Receive, Demo!Post
<1>8. PublicationFacts!IInv' /\ occurrences' = occurrences
  BY <1>2, PublicationServed DEF SystemInv, Receive, Publication!Begin, Publication!tables
<1>9. QED
  BY <1>6, <1>7, <1>8, NothingStored DEF Receive, SystemInv, SystemTypeOK,
     Registry!PublishersTypeOK

(* A request ends; what it carried is dropped.                             *)
LEMMA RequestEnds ==
  ASSUME SystemInv, NEW h \in Handlers, call' = [call EXCEPT ![h] = Publication!Idle], End(h)
  PROVE  RequestsFit' /\ body' \in [Handlers -> Body]
<1>1. NoBody \in Body /\ Publication!Idle.pc = "idle"
  BY DEF NoBody, Body, Publication!Idle
<1>2. QED
  BY <1>1, RequestMoves DEF End

LEMMA CheckEventInvariant ==
  ASSUME SystemInv, NEW h \in Handlers, CheckEvent(h)
  PROVE  SystemInv'
<1>1. now' = now /\ body \in [Handlers -> Body]
  BY DEF CheckEvent, outbox, SystemInv, SystemTypeOK
<1>2. CASE enabled /\ ValidPayload(Schema, Data(call[h].key, body[h].seconds))
  <2> DEFINE b == [body[h] EXCEPT !.seconds = 0]
             c == Publication!Checked(h)
  <2>1. /\ Publication!CheckType(h) /\ UNCHANGED <<demo, misfits>>
        /\ body' = [body EXCEPT ![h].seconds = 0]
    BY <1>2 DEF CheckEvent
  <2>2. body[h] \in Body /\ body' = [body EXCEPT ![h] = b]
    BY <1>1, <2>1
  <2>3. call' = [call EXCEPT ![h] = c] /\ c.pc = "select"
    BY <1>2, <2>1 DEF Publication!CheckType, Publication!Become, Publication!Checked
  <2>4. /\ b \in Body /\ b.notify_at = body[h].notify_at /\ b.due = body[h].due
    BY <2>2 DEF Body
  <2>5. WholeSecond(b.notify_at) /\ b.notify_at <= b.due
    BY <2>4 DEF CheckEvent, SystemInv, RequestsFit
  <2> HIDE DEF b, c
  <2>6. RequestsFit' /\ body' \in [Handlers -> Body]
    BY <2>2, <2>3, <2>4, <2>5, RequestMoves
  <2>7. Demo!HandlerTypeOK' /\ PostsFit'
    BY <1>1, <2>1, HandlerStays DEF demo
  <2>8. PublicationFacts!IInv' /\ occurrences' = occurrences
    BY <2>1, PublicationServed DEF SystemInv, Publication!CheckType, Publication!tables
  <2>9. QED
    BY <2>1, <2>6, <2>7, <2>8, NothingStored DEF CheckEvent, SystemInv, SystemTypeOK,
       Registry!PublishersTypeOK
<1>3. CASE ~ (enabled /\ ValidPayload(Schema, Data(call[h].key, body[h].seconds)))
  <2>1. /\ Publication!Rollback(h) /\ Tell(h) /\ End(h)
        /\ misfits' \subseteq {"horizon", "payload"}
    BY <1>3 DEF CheckEvent, SystemInv, SystemTypeOK
  <2>2. RequestsFit' /\ body' \in [Handlers -> Body]
    BY <2>1, RequestEnds DEF Publication!Rollback, Publication!Become
  <2>3. Demo!HandlerTypeOK' /\ PostsFit'
    BY <1>1, <2>1, HandlerTold DEF Tell
  <2>4. PublicationFacts!IInv' /\ occurrences' = occurrences
    BY <2>1, PublicationServed DEF SystemInv, Publication!Rollback, Publication!tables
  <2>5. QED
    BY <2>1, <2>2, <2>3, <2>4, NothingStored DEF CheckEvent, SystemInv, SystemTypeOK,
       Registry!PublishersTypeOK
<1>4. QED
  BY <1>2, <1>3

LEMMA StepOfCall ==
  ASSUME PublicationFacts!IInv, NEW h \in Handlers,
         call[h].pc \in {"select", "insert"}, NEW pc \in {"insert", "inserted"},
         Publication!FoundDuplicate(h)
           \/ Publication!Become(h, [call[h] EXCEPT !.pc = pc])
  PROVE  \E c : call' = [call EXCEPT ![h] = c] /\ c.pc # "type"
<1>1. CASE Publication!FoundDuplicate(h)
  <2>1. PICK o : call' = [call EXCEPT ![h] = [pc |-> "duplicate", key |-> o.key, id |-> o.id]]
    BY <1>1 DEF Publication!FoundDuplicate, Publication!Become
  <2>2. [pc |-> "duplicate", key |-> o.key, id |-> o.id].pc # "type"
    OBVIOUS
  <2>3. QED
    BY <2>1, <2>2
<1>2. CASE Publication!Become(h, [call[h] EXCEPT !.pc = pc])
  <2>1. call[h] \in PublicationFacts!Call
    BY RequestFacts
  <2>2. call[h] \in [pc : {"select", "insert", "inserted"}, key : DedupeKeys,
                     id : PublicationFacts!Ids, field : BOOLEAN, always : SUBSET Users,
                     ever : SUBSET Users]
    BY <2>1 DEF PublicationFacts!Call, PublicationFacts!Idle
  <2>3. [call[h] EXCEPT !.pc = pc].pc # "type"
    BY <2>2
  <2>4. QED
    BY <1>2, <2>3 DEF Publication!Become
<1>3. QED
  BY <1>1, <1>2

(* A request that is served comes from a state of its own and goes to one  *)
(* where its payload is not looked at again.                               *)
LEMMA ServeInvariant ==
  ASSUME SystemInv, NEW h \in Handlers, Serve(h)
  PROVE  SystemInv'
<1>1. now' = now /\ UNCHANGED <<demo, publishers, outbox, body, asked, replies, misfits,
                               changes>>
  BY DEF Serve, outbox
<1>2. PublicationFacts!IInv /\ PublicationFacts!IInv'
  BY PublicationServed DEF Serve, SystemInv
<1>3. /\ call[h].pc # "idle"
      /\ UNCHANGED occurrences
      /\ \E c : call' = [call EXCEPT ![h] = c] /\ c.pc # "type"
  <2>1. CASE Publication!SelectExisting(h)
    <3>1. /\ call[h].pc = "select" /\ occurrences' = occurrences
          /\ Publication!FoundDuplicate(h)
               \/ Publication!Become(h, [call[h] EXCEPT !.pc = "insert"])
      BY <2>1 DEF Publication!SelectExisting, Publication!tables
    <3>2. QED
      BY <1>2, <3>1, StepOfCall
  <2>2. CASE Publication!Insert(h)
    <3>1. /\ call[h].pc = "insert" /\ occurrences' = occurrences
          /\ Publication!FoundDuplicate(h)
               \/ Publication!Become(h, [call[h] EXCEPT !.pc = "inserted"])
      BY <2>2 DEF Publication!Insert, Publication!tables
    <3>2. QED
      BY <1>2, <3>1, StepOfCall
  <2>3. CASE Publication!SelectRecipients(h)
    <3> DEFINE c == [pc |-> "commit", key |-> call[h].key, id |-> call[h].id,
                     to |-> Publication!Recipients(call[h].key, call[h].field),
                     field |-> call[h].field, always |-> call[h].always,
                     ever |-> call[h].ever]
    <3>1. /\ call[h].pc = "inserted" /\ occurrences' = occurrences
          /\ call' = [call EXCEPT ![h] = c]
      BY <2>3 DEF Publication!SelectRecipients, Publication!Become, Publication!tables
    <3>2. c.pc # "type"
      OBVIOUS
    <3> HIDE DEF c
    <3>3. QED
      BY <3>1, <3>2
  <2>4. QED
    BY <2>1, <2>2, <2>3 DEF Serve
<1>4. RequestsFit' /\ body' \in [Handlers -> Body]
  <2>1. PICK c : call' = [call EXCEPT ![h] = c] /\ c.pc # "type"
    BY <1>3
  <2>2. body \in [Handlers -> Body] /\ body' = [body EXCEPT ![h] = body[h]]
    BY <1>1 DEF SystemInv, SystemTypeOK
  <2>3. WholeSecond(body[h].notify_at) /\ body[h].notify_at <= body[h].due
    BY <1>3 DEF SystemInv, RequestsFit
  <2>4. QED
    BY <2>1, <2>2, <2>3, RequestMoves
<1>5. Demo!HandlerTypeOK' /\ PostsFit'
  BY <1>1, HandlerStays DEF demo
<1>6. QED
  BY <1>1, <1>2, <1>3, <1>4, <1>5, NothingStored DEF SystemInv, SystemTypeOK,
     Registry!PublishersTypeOK

LEMMA BreakInvariant ==
  ASSUME SystemInv, NEW h \in Handlers, Break(h)
  PROVE  SystemInv'
<1>1. now' = now
  BY DEF Break, outbox
<1>2. RequestsFit' /\ body' \in [Handlers -> Body]
  BY RequestEnds DEF Break, Publication!Rollback, Publication!Become
<1>3. Demo!HandlerTypeOK' /\ PostsFit'
  BY <1>1, HandlerTold DEF Break, Tell
<1>4. PublicationFacts!IInv' /\ occurrences' = occurrences
  BY PublicationServed DEF SystemInv, Break, Publication!Rollback, Publication!tables
<1>5. QED
  BY <1>2, <1>3, <1>4, NothingStored DEF Break, SystemInv, SystemTypeOK,
     Registry!PublishersTypeOK

LEMMA CommitDuplicateInvariant ==
  ASSUME SystemInv, NEW h \in Handlers, CommitDuplicate(h)
  PROVE  SystemInv'
<1>1. now' = now
  BY DEF CommitDuplicate, outbox
<1>2. RequestsFit' /\ body' \in [Handlers -> Body]
  BY RequestEnds DEF CommitDuplicate, Publication!CommitDuplicate, Publication!Become
<1>3. Demo!HandlerTypeOK' /\ PostsFit' /\ replies' = replies
  BY <1>1, HandlerTold DEF CommitDuplicate, Answer
<1>4. PublicationFacts!IInv' /\ occurrences' = occurrences
  BY PublicationServed DEF SystemInv, CommitDuplicate, Publication!CommitDuplicate,
     Publication!tables
<1>5. QED
  BY <1>2, <1>3, <1>4, NothingStored DEF CommitDuplicate, SystemInv, SystemTypeOK,
     Registry!PublishersTypeOK

(* The changes of accounts update the histories of requests, nothing else  *)
(* of them.                                                                *)
LEMMA AdministerInvariant ==
  ASSUME SystemInv, Administer
  PROVE  SystemInv'
<1>1. now' = now /\ occurrences' = occurrences
  BY DEF Administer, outbox, Publication!Accounts, Publication!tables
<1>2. \A h \in Handlers : call'[h].pc = call[h].pc
  <2> SUFFICES ASSUME NEW h \in Handlers PROVE call'[h].pc = call[h].pc
    OBVIOUS
  <2>1. PublicationFacts!TypeOK /\ PublicationFacts!Observe
    BY SameAccounts DEF Administer, SystemInv, PublicationFacts!IInv,
       PublicationFacts!Accounts
  <2>2. ASSUME NEW key, NEW field, key = call[h].key, field = call[h].field
        PROVE  call'[h].pc = call[h].pc
    BY <2>1, <2>2, PartParameters, PublicationAssumption, PublicationFacts!ObserveFacts
  <2>3. QED
    BY <2>2
<1>3. RequestsFit' /\ body' \in [Handlers -> Body]
  BY <1>2 DEF Administer, SystemInv, SystemTypeOK, RequestsFit, WholeSecond
<1>4. Demo!HandlerTypeOK' /\ PostsFit'
  BY <1>1, HandlerStays DEF Administer, demo
<1>5. PublicationFacts!IInv'
  BY PublicationAdministered DEF Administer, SystemInv
<1>6. changes' \in 0..MaxChanges
  BY NotificationSystemAssumption DEF Administer, MayChange, SystemInv, SystemTypeOK
<1>7. QED
  BY <1>1, <1>3, <1>4, <1>5, <1>6, NothingStored DEF Administer, SystemInv, SystemTypeOK,
     Registry!PublishersTypeOK

LEMMA CommitEventInvariant ==
  ASSUME SystemInv, NEW h \in Handlers, CommitEvent(h)
  PROVE  SystemInv'
<1> DEFINE id    == call[h].id
           key   == call[h].key
           due   == body[h].due
           at    == body[h].notify_at
           event == [key |-> key, id |-> id]
           reply == [event |-> id, notify_at |-> Demo!Whole(due)]
           batch == [event : {id}, user : call[h].to]
<1>1. /\ call[h].pc = "commit"
      /\ key \in DedupeKeys /\ id \in Ids /\ call[h].to \in SUBSET Users
      /\ batch \in SUBSET Deliveries
      /\ \A d \in batch : d.event = id
  BY RequestFacts DEF CommitEvent, Publication!CommitCreated, SystemInv, Deliveries
<1>2. /\ due \in Int /\ at \in Int /\ at <= due /\ WholeSecond(at)
  BY <1>1 DEF SystemInv, SystemTypeOK, Body, RequestsFit
<1>3. /\ occurrences' = occurrences \union {event}
      /\ Outbox!Publish(batch, due)
      /\ asked' = [asked EXCEPT ![id] = [key |-> key, notify_at |-> at]]
      /\ replies' \subseteq replies \union {reply}
      /\ now' = now
  BY DEF CommitEvent, Publication!CommitCreated, Remember, Answer, Outbox!Publish
<1>4. /\ \A o \in occurrences : o.id # id /\ o.id \in Ids
      /\ event.id = id /\ event.key = key
      /\ reply.event = id /\ reply.notify_at = Demo!Whole(due)
      /\ reply \in Reply
  BY <1>1, <1>2, EventFacts, WholeFacts DEF SystemInv, Reply
<1> HIDE DEF id, key, due, at, event, reply, batch
<1>5. /\ id \notin StoredIds
      /\ id \in StoredIds'
      /\ StoredIds \subseteq StoredIds'
  <2>1. id \notin StoredIds
    BY <1>4 DEF StoredIds
  <2>2. event \in occurrences' /\ event.id = id
    BY <1>3, <1>4
  <2>3. id \in StoredIds'
    BY <2>2 DEF StoredIds
  <2>4. StoredIds \subseteq StoredIds'
    BY <1>3 DEF StoredIds
  <2>5. QED
    BY <2>1, <2>3, <2>4
<1>6. /\ asked' \in [Ids -> Asked \union {NotAsked}]
      /\ asked'[id] = [key |-> key, notify_at |-> at]
      /\ \A i \in Ids \ {id} : asked'[i] = asked[i]
  BY <1>1, <1>2, <1>3 DEF SystemInv, SystemTypeOK, Asked
<1>7. EventsAsked'
  <2> SUFFICES ASSUME NEW o \in occurrences'
               PROVE  /\ asked'[o.id] \in Asked
                      /\ asked'[o.id].key = o.key
                      /\ WholeSecond(asked'[o.id].notify_at)
    BY DEF EventsAsked, WholeSecond
  <2>1. CASE o = event
    BY <1>1, <1>2, <1>4, <1>6, <2>1 DEF Asked
  <2>2. CASE o \in occurrences
    BY <1>4, <1>6, <2>2 DEF SystemInv, EventsAsked
  <2>3. QED
    BY <1>3, <2>1, <2>2
<1>8. \A d \in Deliveries : d.event \in Ids
  BY DEF Deliveries
<1>9. ASSUME NEW d \in batch
      PROVE  /\ d.event = id
             /\ row'[d].status = "pending"
             /\ row'[d].next_attempt_at = OutboxFacts!Column(due)
  <2>1. d \in Deliveries /\ d.event = id
    BY <1>1
  <2>2. row'[d] = OutboxFacts!PublishedRow(due, now)
    BY <1>3, <2>1, SamePublish DEF OutboxFacts!Publish
  <2>3. QED
    BY <2>1, <2>2 DEF OutboxFacts!PublishedRow
<1>10. \A d \in Deliveries \ batch : row'[d] = row[d]
  BY <1>3 DEF Outbox!Publish
<1>11. ASSUME NEW d \in Deliveries, row'[d].status # "absent"
       PROVE  \/ d \in batch
              \/ row'[d] = row[d] /\ d.event \in StoredIds /\ d.event # id
  BY <1>5, <1>10, <1>11 DEF SystemInv, RowsStored
<1>12. RowsStored'
  <2> SUFFICES ASSUME NEW d \in Deliveries, row'[d].status # "absent"
               PROVE  d.event \in StoredIds' /\ ComesDue(d)'
    BY DEF RowsStored
  <2>1. CASE d \in batch
    <3>1. at <= OutboxFacts!Column(due)
      BY <1>2, WholeBounds
    <3>2. QED
      BY <1>5, <1>6, <1>9, <2>1, <3>1 DEF ComesDue
  <2>2. CASE row'[d] = row[d] /\ d.event \in StoredIds /\ d.event # id
    BY <1>3, <1>5, <1>6, <1>8, <2>2 DEF SystemInv, RowsStored, ComesDue
  <2>3. QED
    BY <1>11, <2>1, <2>2
<1>13. RepliesStored'
  BY <1>3, <1>4, <1>5 DEF SystemInv, RepliesStored
<1>14. ToldWhen'
  <2> SUFFICES ASSUME NEW r \in replies', NEW d \in Deliveries,
                      d.event = r.event, row'[d].status = "pending"
               PROVE  row'[d].next_attempt_at \in r.notify_at..(r.notify_at + Second)
    BY DEF ToldWhen
  <2>1. CASE d \in batch
    <3>1. r = reply
      BY <1>3, <1>5, <1>9, <2>1 DEF SystemInv, RepliesStored
    <3>2. QED
      BY <1>2, <1>4, <1>9, <2>1, <3>1, ColumnNear, WholeFacts, PartParameters
  <2>2. CASE row'[d] = row[d] /\ d.event \in StoredIds /\ d.event # id
    BY <1>3, <1>4, <2>2 DEF SystemInv, ToldWhen
  <2>3. QED
    BY <1>11, <2>1, <2>2
<1>15. replies' \subseteq Reply
  BY <1>3, <1>4 DEF SystemInv, SystemTypeOK
<1>16. RequestsFit' /\ body' \in [Handlers -> Body]
  BY RequestEnds DEF CommitEvent, Publication!CommitCreated, Publication!Become
<1>17. Demo!HandlerTypeOK' /\ PostsFit'
  BY <1>3, HandlerTold DEF CommitEvent, Answer
<1>18. PublicationFacts!IInv'
  BY PublicationServed DEF CommitEvent, SystemInv
<1>19. OutboxFacts!IInv'
  BY <1>1, <1>2, <1>3, OutboxPublished DEF SystemInv
<1>20. SystemTypeOK'
  BY <1>6, <1>15, <1>16, <1>17 DEF CommitEvent, SystemInv, SystemTypeOK,
     Registry!PublishersTypeOK
<1>21. QED
  BY <1>7, <1>12, <1>13, <1>14, <1>16, <1>17, <1>18, <1>19, <1>20 DEF SystemInv

LEMMA DeliverSteps ==
  ASSUME Deliver
  PROVE  OutboxFacts!Next
<1>1. ASSUME NEW w \in Workers, NEW n \in ClaimLimits, NEW seconds \in LeaseSeconds,
             NEW batch \in SUBSET Outbox!Candidates(Platform),
             Outbox!Claim(w, Platform, batch, n, seconds)
      PROVE  OutboxFacts!Next
  BY <1>1, SameClaim DEF Outbox!Candidates, OutboxFacts!Next
<1>2. ASSUME NEW w \in Workers, NEW h \in held[w],
             Outbox!Ack(w, h) \/ \E retryable \in BOOLEAN : Outbox!Fail(w, h, retryable)
      PROVE  OutboxFacts!Next
  BY <1>2, SameAck, SameFail DEF OutboxFacts!Next
<1>3. ASSUME Outbox!Tick
      PROVE  OutboxFacts!Next
  BY <1>3, SameTick DEF OutboxFacts!Next
<1>4. QED
  BY <1>1, <1>2, <1>3 DEF Deliver

(* A plugin or the clock: what may become of a row.                        *)
LEMMA DeliverFacts ==
  ASSUME SystemInv, Deliver
  PROVE  /\ OutboxFacts!IInv'
         /\ now' \in Int /\ now <= now'
         /\ \A d \in Deliveries :
              \/ row'[d] = row[d]
              \/ /\ row[d].status # "absent" /\ row'[d].status # "pending"
                 /\ row[d].next_attempt_at <= now
         /\ \A d \in Deliveries :
              row'[d].attempts > row[d].attempts =>
                row[d].status # "absent" /\ row[d].next_attempt_at <= now
<1> USE DEF SystemInv
<1>1. /\ now \in 0..MaxTime
      /\ row \in [Deliveries -> OutboxFacts!Row]
      /\ \A d \in Deliveries :
           /\ row[d].attempts \in Nat
           /\ row[d].status = "leased" => row[d].next_attempt_at <= now
  BY RowFacts
<1>2. ASSUME NEW w \in Workers, NEW n \in ClaimLimits, NEW seconds \in LeaseSeconds,
             NEW batch \in SUBSET Outbox!Candidates(Platform),
             Outbox!Claim(w, Platform, batch, n, seconds)
      PROVE  /\ OutboxFacts!Next /\ now' = now
             /\ \A d \in Deliveries :
                  \/ row'[d] = row[d]
                  \/ /\ row[d].status # "absent" /\ row'[d].status # "pending"
                     /\ row[d].next_attempt_at <= now
  <2>1. OutboxFacts!Claim(w, Platform, batch, n, seconds) /\ batch \in SUBSET Deliveries
    BY <1>2, SameClaim DEF Outbox!Candidates
  <2>2. OutboxFacts!Next /\ now' = now
    BY <2>1 DEF OutboxFacts!Next, OutboxFacts!Claim
  <2>3. ASSUME NEW d \in batch
        PROVE  /\ row[d].status # "absent" /\ row'[d].status # "pending"
               /\ row[d].next_attempt_at <= now
    <3>1. OutboxFacts!Eligible(row[d], now)
      BY <1>2, <2>3, SameCandidates DEF OutboxFacts!Candidates
    <3>2. d \in Deliveries /\ row[d] \in OutboxFacts!Row
      BY <1>1, <2>1, <2>3
    <3>3. row'[d] = OutboxFacts!ClaimedRow(row[d], w, now + seconds)
      BY <2>1, <2>3, <3>2 DEF OutboxFacts!Claim
    <3>4. row'[d].status = "leased"
      BY <3>2, <3>3 DEF OutboxFacts!ClaimedRow, OutboxFacts!Row
    <3>5. QED
      BY <1>1, <3>1, <3>2, <3>4 DEF OutboxFacts!Eligible
  <2>4. \A d \in Deliveries \ batch : row'[d] = row[d]
    BY <2>1 DEF OutboxFacts!Claim
  <2>5. QED
    BY <2>2, <2>3, <2>4
<1>3. ASSUME NEW w \in Workers, NEW h \in held[w],
             Outbox!Ack(w, h) \/ \E retryable \in BOOLEAN : Outbox!Fail(w, h, retryable)
      PROVE  /\ OutboxFacts!Next /\ now' = now
             /\ \A d \in Deliveries :
                  \/ row'[d] = row[d]
                  \/ /\ row[d].status = "leased" /\ row'[d].status # "pending"
                     /\ row'[d].attempts = row[d].attempts
  <2>1. OutboxFacts!Ack(w, h) \/ \E retryable \in BOOLEAN : OutboxFacts!Fail(w, h, retryable)
    BY <1>3, SameAck, SameFail
  <2>2. OutboxFacts!Next /\ now' = now
    BY <2>1 DEF OutboxFacts!Next, OutboxFacts!Ack, OutboxFacts!Fail
  <2>3. h.delivery \in Deliveries /\ row[h.delivery] \in OutboxFacts!Row
          /\ row[h.delivery].status = "leased"
    <3>1. h \in OutboxFacts!Handle
      BY DEF OutboxFacts!IInv, OutboxFacts!TypeOK
    <3>2. QED
      BY <1>1, <2>1, <3>1 DEF OutboxFacts!Handle, OutboxFacts!Ack, OutboxFacts!Fail,
         OutboxFacts!Answerable, OutboxFacts!Live
  <2>4. PICK s : /\ row' = [row EXCEPT ![h.delivery] = s]
                 /\ s \in {OutboxFacts!AckedRow(row[h.delivery]),
                           OutboxFacts!RetryRow(row[h.delivery],
                                                row[h.delivery].attempts, now),
                           OutboxFacts!DeadRow(row[h.delivery])}
    BY <2>1 DEF OutboxFacts!Ack, OutboxFacts!Fail
  <2>5. s.status # "pending" /\ s.attempts = row[h.delivery].attempts
    BY <2>3, <2>4 DEF OutboxFacts!AckedRow, OutboxFacts!RetryRow, OutboxFacts!DeadRow,
       OutboxFacts!Row
  <2>6. QED
    BY <1>1, <2>2, <2>3, <2>4, <2>5
<1>4. ASSUME Outbox!Tick
      PROVE  /\ OutboxFacts!Next /\ now' \in Int /\ now <= now' /\ row' = row
  BY <1>1, <1>4, SameTick DEF OutboxFacts!Next, OutboxFacts!Tick
<1>5. OutboxFacts!IInv'
  BY <1>2, <1>3, <1>4, OutboxStep DEF Deliver
<1>6. now' \in Int /\ now <= now'
  BY <1>1, <1>2, <1>3, <1>4 DEF Deliver
<1>7. \A d \in Deliveries :
        \/ row'[d] = row[d]
        \/ /\ row[d].status # "absent" /\ row'[d].status # "pending"
           /\ row[d].next_attempt_at <= now
  BY <1>1, <1>2, <1>3, <1>4 DEF Deliver
<1>8. ASSUME NEW d \in Deliveries, row'[d].attempts > row[d].attempts
      PROVE  row[d].status # "absent" /\ row[d].next_attempt_at <= now
  BY <1>1, <1>7, <1>8
<1>9. QED
  BY <1>5, <1>6, <1>7, <1>8

LEMMA DeliverInvariant ==
  ASSUME SystemInv, Deliver
  PROVE  SystemInv'
<1>1. /\ OutboxFacts!IInv'
      /\ now \in Int /\ now' \in Int /\ now <= now'
      /\ UNCHANGED <<demo, publishers, publication, body, asked, replies, misfits, changes>>
  BY DeliverFacts, RowFacts DEF Deliver, SystemInv
<1>2. PublicationFacts!IInv' /\ occurrences' = occurrences
  BY <1>1, PublicationStays DEF SystemInv, publication
<1>3. PostsFit'
  <2> DEFINE ahead == (MaxDelay + 1) * Second
  <2>1. ahead \in Int
    BY PartParameters
  <2> HIDE DEF ahead
  <2>2. ASSUME NEW h \in Handlers, handler[h].pc = "post"
        PROVE  /\ handler[h].notify_at \in Int
               /\ handler[h].notify_at <= now + ahead - 1
    <3>1. handler[h] \in Demo!Handler
      BY DEF SystemInv, SystemTypeOK, Demo!HandlerTypeOK
    <3>2. handler[h].notify_at \in Int
      BY <2>2, <3>1 DEF Demo!Handler, Demo!Idle, Demo!Waiting
    <3>3. QED
      BY <2>2, <3>2 DEF SystemInv, PostsFit, ahead
  <2>3. ASSUME NEW h \in Handlers, handler[h].pc = "post"
        PROVE  handler[h].notify_at <= now' + ahead - 1
    BY <1>1, <2>1, <2>2, <2>3
  <2>4. QED
    BY <1>1, <2>3 DEF SystemInv, PostsFit, demo, WholeSecond, ahead
<1>4. EventsAsked' /\ RepliesStored'
  BY <1>1, <1>2 DEF SystemInv, EventsAsked, RepliesStored, StoredIds, WholeSecond
<1>5. RowsStored'
  <2> SUFFICES ASSUME NEW d \in Deliveries, row'[d].status # "absent"
               PROVE  d.event \in StoredIds' /\ ComesDue(d)'
    BY DEF RowsStored
  <2>1. row[d].status # "absent"
    BY DeliverFacts
  <2>2. PICK o \in occurrences : o.id = d.event
    BY <2>1 DEF SystemInv, RowsStored, StoredIds
  <2>3. d.event \in StoredIds' /\ ComesDue(d)
    BY <1>2, <2>1, <2>2 DEF SystemInv, RowsStored, StoredIds
  <2>4. asked[d.event].notify_at \in Int /\ row[d].next_attempt_at \in Int
    BY <2>2, RowFacts DEF SystemInv, EventsAsked, Asked
  <2>5. row'[d] = row[d] \/ row[d].next_attempt_at <= now
    BY DeliverFacts
  <2>6. QED
    BY <1>1, <2>3, <2>4, <2>5 DEF ComesDue
<1>6. ToldWhen'
  BY <1>1, DeliverFacts DEF SystemInv, ToldWhen
<1>7. RequestsFit' /\ SystemTypeOK'
  BY <1>1, RequestsStay DEF SystemInv, SystemTypeOK, Demo!HandlerTypeOK,
     Registry!PublishersTypeOK, demo, publication
<1>8. QED
  BY <1>1, <1>2, <1>3, <1>4, <1>5, <1>6, <1>7 DEF SystemInv

-----------------------------------------------------------------------------
LEMMA StepInvariant == SystemInv /\ [Next]_vars => SystemInv'
<1> SUFFICES ASSUME SystemInv, [Next]_vars PROVE SystemInv'
  OBVIOUS
<1>1. ASSUME NEW h \in Handlers, NEW key \in DedupeKeys, NEW input \in Inputs,
             Submit(h, key, input)
      PROVE  SystemInv'
  BY <1>1, SubmitInvariant
<1>2. ASSUME NEW h \in Handlers,
             GiveUp(h) \/ Refuse(h) \/ Receive(h) \/ CheckEvent(h) \/ Serve(h)
      PROVE  SystemInv'
  BY <1>2, GiveUpInvariant, RefuseInvariant, ReceiveInvariant, CheckEventInvariant,
     ServeInvariant
<1>3. ASSUME NEW h \in Handlers, CommitEvent(h) \/ CommitDuplicate(h) \/ Break(h)
      PROVE  SystemInv'
  BY <1>3, CommitEventInvariant, CommitDuplicateInvariant, BreakInvariant
<1>4. ASSUME NEW key \in PublisherKeys, NEW token \in Tokens, NEW allowed \in PrefixChoices,
             Register(key, token, allowed)
      PROVE  SystemInv'
  BY <1>4, RegisterInvariant
<1>5. CASE Administer \/ Deliver
  BY <1>5, AdministerInvariant, DeliverInvariant
<1>6. CASE UNCHANGED vars
  <2>1. /\ UNCHANGED <<publication, outbox, body, asked, replies>>
        /\ UNCHANGED <<handler, publishers, misfits, changes, now>>
    BY <1>6 DEF vars, demo, outbox
  <2>2. QED
    BY <2>1, HandlerStays, OutsideInvariant DEF SystemInv, SystemTypeOK,
       Registry!PublishersTypeOK
<1>7. QED
  BY <1>1, <1>2, <1>3, <1>4, <1>5, <1>6 DEF Next

(* The invariant holds in every reachable state of the whole system.       *)
THEOREM InvariantHolds == Spec => []SystemInv
BY InitInvariant, StepInvariant, PTL DEF Spec

LEMMA SameRows ==
  ASSUME OutboxFacts!TypeOK
  PROVE  Outbox!TypeOK
BY DEF OutboxFacts!TypeOK, OutboxFacts!Row, OutboxFacts!Lease, OutboxFacts!Handle,
   Outbox!TypeOK, Outbox!Row, Outbox!Lease, Outbox!Handle

LEMMA SameCalls ==
  ASSUME PublicationFacts!TypeOK
  PROVE  Publication!TypeOK
<1>1. Publication!Call = PublicationFacts!Call /\ Publication!Ids = PublicationFacts!Ids
  BY DEF Publication!Call, Publication!Idle, Publication!Ids, PublicationFacts!Call,
     PublicationFacts!Idle, PublicationFacts!Ids
<1>2. Publication!Session = PublicationFacts!Session /\ Publication!Watch = PublicationFacts!Watch
  BY DEF Publication!Session, Publication!NoSession, Publication!Watch,
     PublicationFacts!Session, PublicationFacts!NoSession, PublicationFacts!Watch
<1>3. QED
  BY <1>1, <1>2 DEF Publication!TypeOK, Publication!AccountsTypeOK,
     PublicationFacts!TypeOK, PublicationFacts!AccountsTypeOK

(* Every value the whole system stores has its type.                       *)
THEOREM TypeCorrect == Spec => []TypeOK
<1>1. SystemInv => TypeOK
  BY SameRows, SameCalls DEF SystemInv, SystemTypeOK, TypeOK, PublicationFacts!IInv,
     OutboxFacts!IInv
<1>2. QED
  BY <1>1, InvariantHolds, PTL

(* However often a request is repeated under its dedupe key, the outbox    *)
(* holds one delivery of it for a user.                                    *)
THEOREM RemindedOnceHolds == Spec => []RemindedOnce
<1>1. SystemInv => RemindedOnce
  <2> SUFFICES ASSUME SystemInv, NEW d \in Deliveries, NEW e \in Deliveries,
                      row[d].status # "absent", row[e].status # "absent",
                      d.user = e.user, asked[d.event].key = asked[e.event].key
               PROVE  d = e
    BY DEF RemindedOnce
  <2>1. PICK o \in occurrences : o.id = d.event
    BY DEF SystemInv, RowsStored, StoredIds
  <2>2. PICK p \in occurrences : p.id = e.event
    BY DEF SystemInv, RowsStored, StoredIds
  <2>3. o.key = p.key
    BY <2>1, <2>2 DEF SystemInv, EventsAsked
  <2>4. d.event = e.event
    BY <2>1, <2>2, <2>3, EventFacts DEF SystemInv
  <2>5. QED
    BY <2>4 DEF Deliveries
<1>2. QED
  BY <1>1, InvariantHolds, PTL

(* A caller is told when the delivery that waits for the event comes due.  *)
THEOREM ToldWhenHolds == Spec => []ToldWhen
<1>1. SystemInv => ToldWhen
  BY DEF SystemInv
<1>2. QED
  BY <1>1, InvariantHolds, PTL

(* Only the plugins and the COMMIT of a new event change a row.            *)
LEMMA OnlyTheseTouchRows ==
  ASSUME [Next]_vars, row' # row
  PROVE  Deliver \/ \E h \in Handlers : CommitEvent(h)
BY DEF Next, vars, outbox, Submit, GiveUp, Refuse, Receive, CheckEvent, Serve,
   CommitDuplicate, Break, Register, Administer

(* A row that is inserted has been handed out as often as one that is not. *)
LEMMA CommitHandsNothingOut ==
  ASSUME SystemInv, NEW h \in Handlers, CommitEvent(h), NEW d \in Deliveries
  PROVE  ~ HandedOut(d)
<1>1. /\ row[d].attempts \in Nat
      /\ row[d].status = "absent" => row[d].attempts = 0
  BY RowFacts DEF SystemInv
<1>2. Outbox!Publish([event : {call[h].id}, user : call[h].to], body[h].due)
  BY DEF CommitEvent
<1>3. CASE d \in [event : {call[h].id}, user : call[h].to]
  <2>1. row'[d].attempts = 0
    BY <1>2, <1>3 DEF Outbox!Publish, Outbox!PublishedRow
  <2>2. QED
    BY <1>1, <2>1 DEF HandedOut
<1>4. CASE d \notin [event : {call[h].id}, user : call[h].to]
  <2>1. row'[d] = row[d]
    BY <1>2, <1>4 DEF Outbox!Publish
  <2>2. QED
    BY <1>1, <2>1 DEF HandedOut
<1>5. QED
  BY <1>3, <1>4

(* No plugin is handed a reminder before the second that was asked for.    *)
THEOREM RemindedOnTimeHolds == Spec => RemindedOnTime
<1> DEFINE OnTime == \A d \in Deliveries :
                       HandedOut(d) => asked[d.event].notify_at <= now
<1>1. SystemInv /\ [Next]_vars => [OnTime]_vars
  <2> SUFFICES ASSUME SystemInv, Next, NEW d \in Deliveries, HandedOut(d)
               PROVE  asked[d.event].notify_at <= now
    OBVIOUS
  <2>1. row' # row
    <3>1. row[d].attempts \in Nat
      BY RowFacts DEF SystemInv
    <3>2. QED
      BY <3>1 DEF HandedOut
  <2>2. Deliver
    BY <2>1, OnlyTheseTouchRows, CommitHandsNothingOut
  <2>3. row[d].status # "absent" /\ row[d].next_attempt_at <= now
    BY <2>2, DeliverFacts DEF HandedOut
  <2>4. PICK o \in occurrences : o.id = d.event
    BY <2>3 DEF SystemInv, RowsStored, StoredIds
  <2>5. /\ asked[d.event].notify_at \in Int
        /\ row[d].next_attempt_at \in Int /\ now \in Int
    BY <2>4, RowFacts DEF SystemInv, EventsAsked, Asked
  <2>6. QED
    BY <2>3, <2>5 DEF SystemInv, RowsStored, ComesDue
<1>2. QED
  BY <1>1, InvariantHolds, PTL DEF Spec, RemindedOnTime

(* What the publisher accepts is not refused for its timing or its payload *)
(* when the limits fit, which they have to: the horizon is nowhere else in *)
(* the system compared with the longest delay.                             *)
LEMMA FitsStep ==
  ASSUME LimitsFit, SystemInv, AcceptedFits, [Next]_vars
  PROVE  AcceptedFits'
<1>1. ASSUME NEW h \in Handlers, Refuse(h)
      PROVE  misfits' = misfits
  <2> DEFINE ahead == (MaxDelay + 1) * Second
  <2>1. handler[h].pc = "post" /\ handler[h] \in Demo!Handler
    BY <1>1 DEF Refuse, SystemInv, SystemTypeOK, Demo!HandlerTypeOK
  <2>2. handler[h].notify_at \in Int /\ now \in Int
    BY <2>1, RowFacts DEF Demo!Handler, Demo!Idle, Demo!Waiting, SystemInv
  <2>3. ahead \in Int
    BY PartParameters
  <2>4. handler[h].notify_at <= now + ahead - 1 /\ ahead - 1 <= Horizon
    BY <2>1 DEF SystemInv, PostsFit, LimitsFit
  <2> HIDE DEF ahead
  <2>5. ~ handler[h].notify_at > now + Horizon
    BY <2>2, <2>3, <2>4, OutboxAssumption
  <2>6. QED
    BY <1>1, <2>5 DEF Refuse
<1>2. ASSUME NEW h \in Handlers, CheckEvent(h)
      PROVE  misfits' = misfits
  <2>1. call[h].pc = "type"
    BY <1>2 DEF CheckEvent
  <2>2. call[h].key \in DedupeKeys /\ body[h].seconds \in 0..MaxDelay
    BY <2>1, RequestFacts DEF SystemInv, RequestsFit
  <2>3. ValidPayload(Schema, Data(call[h].key, body[h].seconds))
    BY <2>2 DEF LimitsFit
  <2>4. QED
    BY <1>2, <2>3 DEF CheckEvent
<1>3. QED
  BY <1>1, <1>2 DEF AcceptedFits, Next, vars, Submit, GiveUp, Receive, Serve, CommitEvent,
     CommitDuplicate, Break, Register, Administer, Deliver

(* What the publisher accepts, EventServer takes, wherever the limits fit. *)
THEOREM AcceptedFitsHolds == ASSUME LimitsFit PROVE Spec => []AcceptedFits
<1>1. Init => AcceptedFits
  BY DEF Init, AcceptedFits
<1>2. SystemInv /\ AcceptedFits /\ [Next]_vars => AcceptedFits'
  BY FitsStep
<1>3. QED
  BY <1>1, <1>2, InvariantHolds, PTL DEF Spec

-----------------------------------------------------------------------------
(* The parts in the whole.                                                 *)
LEMMA PublicationSteps ==
  ASSUME SystemInv, [Next]_vars
  PROVE  [Publication!Next]_(Publication!vars)
<1>1. ASSUME NEW h \in Handlers, Receive(h)
      PROVE  Publication!Next
  <2>1. handler[h].pc = "post" /\ handler[h] \in Demo!Handler
    BY <1>1 DEF Receive, Demo!Post, SystemInv, SystemTypeOK, Demo!HandlerTypeOK
  <2>2. handler[h].key \in DedupeKeys
    BY <2>1 DEF Demo!Handler, Demo!Idle, Demo!Waiting
  <2>3. QED
    BY <1>1, <2>2 DEF Receive, Publication!Next
<1>2. ASSUME NEW h \in Handlers,
             CheckEvent(h) \/ Serve(h) \/ CommitEvent(h) \/ CommitDuplicate(h) \/ Break(h)
      PROVE  Publication!Next
  <2>1. \/ Publication!CheckType(h) \/ Publication!SelectExisting(h)
        \/ Publication!Insert(h) \/ Publication!SelectRecipients(h)
        \/ Publication!CommitCreated(h) \/ Publication!CommitDuplicate(h)
        \/ Publication!Rollback(h)
    BY <1>2 DEF CheckEvent, Serve, CommitEvent, CommitDuplicate, Break
  <2>2. QED
    BY <2>1 DEF Publication!Next, Publication!Publish
<1>3. CASE Administer
  BY <1>3 DEF Administer, Publication!Next
<1>4. CASE UNCHANGED publication
  BY <1>4 DEF publication, Publication!vars, Publication!accounts, Publication!tables
<1>5. QED
  BY <1>1, <1>2, <1>3, <1>4 DEF Next, vars, Submit, GiveUp, Refuse, Register, Deliver

(* The whole system implements the safety part of EventPublication:        *)
(* whatever publisher, operator and plugins do next to it is a step of it  *)
(* or leaves it alone.                                                     *)
THEOREM SystemPublishes ==
  Spec => Publication!Init /\ [][Publication!Next]_(Publication!vars)
<1>1. Init => Publication!Init
  BY DEF Init
<1>2. QED
  BY <1>1, PublicationSteps, InvariantHolds, PTL DEF Spec

LEMMA SameHolders == OutboxFacts!OneHolder => Outbox!OneHolder
BY DEF Outbox!OneHolder, Outbox!CanAnswer, Outbox!Answerable, Outbox!Live,
   OutboxFacts!OneHolder, OutboxFacts!CanAnswer, OutboxFacts!Answerable, OutboxFacts!Live

(* What was proved of the outbox alone holds of it in the system, although *)
(* there a COMMIT may come after the instant that was resolved for it: one *)
(* lease at a time and no failure beyond the budget.  So does what was     *)
(* proved of publication: one event and one answer for a dedupe key.       *)
THEOREM PartsKeepInvariants ==
  Spec => [](/\ Outbox!OneHolder /\ Outbox!FailureBudget
             /\ Publication!OneOccurrencePerKey /\ Publication!AnswersAgree)
<1>1. SystemInv => /\ Outbox!OneHolder /\ Outbox!FailureBudget
                   /\ Publication!OneOccurrencePerKey /\ Publication!AnswersAgree
  <2> SUFFICES ASSUME SystemInv
               PROVE  /\ Outbox!OneHolder /\ Outbox!FailureBudget
                      /\ Publication!OneOccurrencePerKey /\ Publication!AnswersAgree
    OBVIOUS
  <2>1. OutboxFacts!IInv /\ PublicationFacts!IInv
    BY DEF SystemInv
  <2>2. OutboxFacts!OneHolder /\ PublicationFacts!AnswersAgree
    BY <2>1, PartParameters, PublicationAssumption, OutboxAssumption,
       OutboxFacts!InvariantOneHolder, PublicationFacts!InvariantAnswersAgree
  <2>3. Outbox!FailureBudget
    BY <2>1 DEF OutboxFacts!IInv, OutboxFacts!FailureBudget, Outbox!FailureBudget
  <2>4. Publication!OneOccurrencePerKey
    BY <2>1 DEF PublicationFacts!IInv, PublicationFacts!PublishInv,
       PublicationFacts!OneOccurrencePerKey, Publication!OneOccurrencePerKey
  <2>5. Publication!AnswersAgree
    BY <2>2 DEF PublicationFacts!AnswersAgree, Publication!AnswersAgree
  <2>6. QED
    BY <2>2, <2>3, <2>4, <2>5, SameHolders
<1>2. QED
  BY <1>1, InvariantHolds, PTL

LEMMA SamePublicationStep ==
  ASSUME [Publication!Next]_(Publication!vars)
  PROVE  [PublicationFacts!Next]_(PublicationFacts!vars)
<1>1. ASSUME NEW h \in Handlers, NEW key \in DedupeKeys, Publication!Begin(h, key)
      PROVE  PublicationFacts!Next
  BY <1>1, SameBegin DEF PublicationFacts!Next
<1>2. ASSUME NEW h \in Handlers, Publication!Publish(h) \/ Publication!Rollback(h)
      PROVE  PublicationFacts!Next
  BY <1>2, SameCheckType, SameSelectExisting, SameInsert, SameSelectRecipients, SameCommits
     DEF Publication!Publish, PublicationFacts!Next, PublicationFacts!Publish
<1>3. CASE Publication!Accounts
  BY <1>3, SameAccounts DEF PublicationFacts!Next
<1>4. CASE UNCHANGED Publication!vars
  BY <1>4 DEF Publication!vars, Publication!accounts, Publication!tables,
     PublicationFacts!vars, PublicationFacts!accounts, PublicationFacts!tables
<1>5. QED
  BY <1>1, <1>2, <1>3, <1>4 DEF Publication!Next

LEMMA OutboxAttempts ==
  ASSUME SystemInv, [Next]_vars, NEW d \in Deliveries, row'[d].attempts > row[d].attempts
  PROVE  row[d].next_attempt_at <= now
<1>1. OutboxFacts!IInv /\ row \in [Deliveries -> OutboxFacts!Row]
  BY DEF SystemInv, OutboxFacts!IInv, OutboxFacts!TypeOK
<1>2. CASE Deliver
  BY <1>1, <1>2, DeliverSteps, PartParameters, OutboxAssumption, OutboxFacts!StepIsDue
<1>3. ASSUME NEW h \in Handlers, CommitEvent(h)
      PROVE  FALSE
  <2> DEFINE batch == [event : {call[h].id}, user : call[h].to]
             due   == body[h].due
  <2>1. batch \in SUBSET Deliveries /\ due \in Int
    BY <1>3, RequestFacts DEF CommitEvent, Publication!CommitCreated, SystemInv,
       SystemTypeOK, Body, Deliveries
  <2>2. OutboxFacts!Publish(batch, due)
    BY <1>3, SamePublish DEF CommitEvent
  <2> HIDE DEF batch, due
  <2>3. row'[d].attempts = row[d].attempts
    BY <1>1, <2>1, <2>2, PartParameters, OutboxAssumption, OutboxFacts!PublishCountsNothing
  <2>4. row[d].attempts \in Nat
    BY <1>1 DEF OutboxFacts!Row
  <2>5. QED
    BY <2>3, <2>4
<1>4. row' # row
  <2>1. row[d].attempts \in Nat
    BY <1>1 DEF OutboxFacts!Row
  <2>2. QED
    BY <2>1
<1>5. QED
  BY <1>2, <1>3, <1>4 DEF Next, vars, outbox, Submit, GiveUp, Refuse, Receive, CheckEvent,
     Serve, CommitDuplicate, Break, Register, Administer

(* In the whole system, too, a publication reaches everyone who qualified  *)
(* throughout its request and nobody who never did, an event gains no      *)
(* recipient later, and nothing is handed out before its next_attempt_at.  *)
THEOREM PartsKeepStepProperties ==
  Spec => /\ Publication!RecipientsWereEntitled /\ Publication!NoLateRecipients
          /\ Outbox!NeverBeforeDue
<1> DEFINE Entitled ==
             \A c \in Handlers :
               occurrences' # occurrences /\ call[c].pc = "commit"
                 /\ call'[c] = Publication!Idle
               => LET reached ==
                        {u \in Users : [event |-> call[c].id, user |-> u] \in deliveries'}
                  IN  call[c].always \subseteq reached /\ reached \subseteq call[c].ever
           Late   == \A d \in deliveries' \ deliveries :
                       \A o \in occurrences : o.id # d.event
           DueNow == \A d \in Deliveries :
                       row'[d].attempts > row[d].attempts => row[d].next_attempt_at <= now
<1>1. ASSUME SystemInv, [Next]_vars
      PROVE  [PublicationFacts!Next]_(PublicationFacts!vars) /\ PublicationFacts!IInv
  BY <1>1, PublicationSteps, SamePublicationStep DEF SystemInv
<1>2. SystemInv /\ [Next]_vars => [Entitled]_(Publication!vars)
  <2>1. PublicationFacts!Idle = Publication!Idle
    BY DEF PublicationFacts!Idle, Publication!Idle
  <2>2. QED
    BY <1>1, <2>1, PartParameters, PublicationAssumption, PublicationFacts!StepReachesEntitled
<1>3. SystemInv /\ [Next]_vars => [Late]_(Publication!vars)
  BY <1>1, PartParameters, PublicationAssumption, PublicationFacts!StepAddsNoRecipients
<1>4. SystemInv /\ [Next]_vars => [DueNow]_(Outbox!vars)
  BY OutboxAttempts
<1>5. QED
  BY <1>2, <1>3, <1>4, InvariantHolds, PTL DEF Spec, Publication!RecipientsWereEntitled,
     Publication!NoLateRecipients, Outbox!NeverBeforeDue

(* The outbox of the system takes steps of the outbox alone, but for the   *)
(* instants it publishes for, and each is one of the promise.              *)
LEMMA SamePromise ==
  ASSUME [OutboxFacts!Promise!Next]_(OutboxFacts!Promise!vars)
  PROVE  [Outbox!Promise!Next]_(Outbox!Promise!vars)
BY DEF OutboxFacts!Promise!Next, OutboxFacts!Promise!Publish, OutboxFacts!Promise!Lapse,
   OutboxFacts!Promise!Grant, OutboxFacts!Promise!Settle, OutboxFacts!Promise!Decline,
   OutboxFacts!Promise!Bury, OutboxFacts!Promise!vars, OutboxFacts!PhaseOf,
   OutboxFacts!HolderOf, OutboxFacts!Live, Outbox!Promise!Next, Outbox!Promise!Publish,
   Outbox!Promise!Lapse, Outbox!Promise!Grant, Outbox!Promise!Settle,
   Outbox!Promise!Decline, Outbox!Promise!Bury, Outbox!Promise!vars, Outbox!PhaseOf,
   Outbox!HolderOf, Outbox!Live

LEMMA PromiseSteps ==
  ASSUME SystemInv, [Next]_vars
  PROVE  [OutboxFacts!Promise!Next]_(OutboxFacts!Promise!vars)
<1>1. ASSUME [OutboxFacts!Next]_(OutboxFacts!vars)
      PROVE  [OutboxFacts!Promise!Next]_(OutboxFacts!Promise!vars)
  BY <1>1, PartParameters, OutboxAssumption, OutboxFacts!PromiseStep DEF SystemInv
<1>2. CASE Deliver
  BY <1>1, <1>2, DeliverSteps
<1>3. ASSUME NEW h \in Handlers, CommitEvent(h)
      PROVE  OutboxFacts!Promise!Next
  <2> DEFINE batch == [event : {call[h].id}, user : call[h].to]
             due   == body[h].due
  <2>1. batch \in SUBSET Deliveries /\ due \in Int
    BY <1>3, RequestFacts DEF CommitEvent, Publication!CommitCreated, SystemInv,
       SystemTypeOK, Body, Deliveries
  <2>2. OutboxFacts!Publish(batch, due)
    BY <1>3, SamePublish DEF CommitEvent
  <2> HIDE DEF batch, due
  <2>3. QED
    BY <2>1, <2>2, PartParameters, OutboxAssumption, OutboxFacts!PromisePublish DEF SystemInv
<1>4. CASE UNCHANGED outbox
  BY <1>1, <1>4 DEF outbox, OutboxFacts!vars
<1>5. QED
  BY <1>2, <1>3, <1>4 DEF Next, vars, Submit, GiveUp, Refuse, Receive, CheckEvent, Serve,
     CommitDuplicate, Break, Register, Administer

(* In the whole system, too, the outbox implements LeasePromise.           *)
THEOREM SystemKeepsPromise == Spec => Outbox!KeepsPromise
<1>1. Init => Outbox!Promise!Init
  <2> SUFFICES ASSUME Init PROVE Outbox!Promise!Init
    OBVIOUS
  <2>1. \A d \in Deliveries : row[d] = Outbox!AbsentRow
    BY DEF Init, Outbox!Init
  <2>2. \A d \in Deliveries : /\ Outbox!PhaseOf(row[d]) = "unpublished"
                             /\ Outbox!HolderOf(row[d]) = NoLease
    BY <2>1 DEF Outbox!PhaseOf, Outbox!HolderOf, Outbox!Live, Outbox!AbsentRow
  <2>3. QED
    BY <2>2 DEF Init, Outbox!Init, Outbox!Promise!Init
<1>2. SystemInv /\ [Next]_vars => [Outbox!Promise!Next]_(Outbox!Promise!vars)
  BY PromiseSteps, SamePromise
<1>3. QED
  BY <1>1, <1>2, InvariantHolds, PTL DEF Spec, Outbox!KeepsPromise, Outbox!Promise!Spec

LEMMA SamePublishPromise ==
  ASSUME [PublicationFacts!Promise!Next]_(PublicationFacts!Promise!vars)
  PROVE  [Publication!Promise!Next]_(Publication!Promise!vars)
BY DEF PublicationFacts!Promise!Next, PublicationFacts!Promise!Publish,
   PublicationFacts!Promise!Repeat, PublicationFacts!Promise!Tell,
   PublicationFacts!Promise!vars, PublicationFacts!Published, PublicationFacts!Ids,
   Publication!Promise!Next, Publication!Promise!Publish, Publication!Promise!Repeat,
   Publication!Promise!Tell, Publication!Promise!vars, Publication!Published,
   Publication!Ids

(* A publisher that repeats its requests, answered by threads that race,   *)
(* is kept the promise of PublishPromise in the whole system, too.         *)
THEOREM SystemKeepsPublishPromise == Spec => Publication!PublishesOnce
<1>1. Init => Publication!Promise!Init
  BY DEF Init, Publication!Init, Publication!Promise!Init
<1>2. SystemInv /\ [Next]_vars => [Publication!Promise!Next]_(Publication!Promise!vars)
  <2> SUFFICES ASSUME SystemInv, [Next]_vars
               PROVE  [Publication!Promise!Next]_(Publication!Promise!vars)
    OBVIOUS
  <2>1. [PublicationFacts!Next]_(PublicationFacts!vars) /\ PublicationFacts!IInv
    BY PublicationSteps, SamePublicationStep DEF SystemInv
  <2>2. [PublicationFacts!Promise!Next]_(PublicationFacts!Promise!vars)
    BY <2>1, PartParameters, PublicationAssumption, PublicationFacts!PromiseStep
  <2>3. QED
    BY <2>2, SamePublishPromise
<1>3. QED
  BY <1>1, <1>2, InvariantHolds, PTL DEF Spec, Publication!PublishesOnce,
     Publication!Promise!Spec
=============================================================================
