-------------------------- MODULE NotificationSystem --------------------------
(***************************************************************************)
(* One reminder on its way through the system: the demo-reminder publisher *)
(* (DemoReminder), authentication and prefixes (Publishers), publication   *)
(* (EventPublication), validation of the payload (ValidPayload, which the  *)
(* instance takes from PayloadSchema) and the outbox with its plugins      *)
(* (DeliveryOutbox).                                                       *)
(*                                                                         *)
(* Request h of EventServer is the one handler h has posted; it goes on    *)
(* when the handler has given up.  A caller repeats a request whenever it  *)
(* likes, under the same dedupe key and with whatever timing.  A delivery  *)
(* is the pair of an event and a user; the outbox holds the row that       *)
(* publication inserts.  All processes read one clock.                     *)
(***************************************************************************)
EXTENDS Integers, FiniteSets, PayloadValues

CONSTANTS
  Handlers, DedupeKeys, Inputs, DefaultDelay, MaxDelay,
  PublisherKeys, Tokens, PrefixChoices, Unregistered, DemoToken, DemoEvent,
  Users, NoRow, Entries, MaxRequests, MaxOpen,
  Workers, NoLease, MaxAttempts, Second, BackoffBase, BackoffCap,
  Platform, ClaimLimits, LeaseSeconds, Horizon, MaxTime,
  KeyLength,         \* [DedupeKeys -> Nat], the request id has this length
  Schema,            \* the payload schema of the catalogue
  ValidPayload(_, _), \* validate_payload: a schema, a value
  MaxChanges         \* bound on administrative changes

VARIABLES
  handler,
  publishers,
  entry, enabled, status, command, watched, session,
  occurrences, deliveries, requests, answers, call,
  now, row, held, failures,
  body,              \* what each request in progress came with
  asked,             \* history: the notify_at each stored event asked for
  replies,           \* history: what callers were told of new events
  misfits,           \* history: requests refused for timing or payload
  changes            \* administrative changes so far

demo == handler
publication == <<entry, enabled, status, command, watched, session,
                 occurrences, deliveries, requests, answers, call>>
outbox == <<now, row, held, failures>>
vars == <<demo, publishers, publication, outbox, body, asked, replies, misfits, changes>>

Ids == 1..MaxRequests
Deliveries == [event : Ids, user : Users]

Demo == INSTANCE DemoReminder WITH Keys <- DedupeKeys

Registry == INSTANCE Publishers

Publication == INSTANCE EventPublication WITH
  MatchKeys    <- {},
  WatchChoices <- {{}},
  Sessions     <- {},
  Calls        <- Handlers,
  CarriedKeys  <- [key \in DedupeKeys |-> {}]

Outbox == INSTANCE DeliveryOutbox WITH
  Platforms  <- {Platform},
  PlatformOf <- [d \in Deliveries |-> Platform]

ASSUME NotificationSystemAssumption ==
  /\ Demo!DemoParameters
  /\ Registry!PublisherParameters
  /\ KeyLength \in [DedupeKeys -> Nat]
  /\ MaxChanges \in Nat

(* What the instances of EventPublication and DeliveryOutbox ask of the    *)
(* constants they are given.                                               *)
ASSUME PublicationAssumption ==
  /\ NoRow # {}
  /\ Entries \subseteq [options : {{}}, required : BOOLEAN, subscribable : BOOLEAN]
  /\ MaxRequests \in Nat
  /\ MaxOpen \in Nat

ASSUME OutboxAssumption ==
  /\ NoLease \notin Outbox!Lease
  /\ MaxAttempts \in Nat \ {0}
  /\ BackoffBase \in Nat \ {0}
  /\ BackoffCap \in Nat \ {0}
  /\ ClaimLimits \subseteq Nat \ {0}
  /\ LeaseSeconds \subseteq Nat
  /\ \A seconds \in LeaseSeconds : seconds >= Second
  /\ Horizon \in Nat
  /\ MaxTime \in Nat

(* due: resolve_notify_at of the instant asked for.                        *)
Body == [due : Int, notify_at : Int, seconds : Int]
NoBody == [due |-> 0, notify_at |-> 0, seconds |-> 0]

Asked == [key : DedupeKeys, notify_at : Int]
Reply == [event : Ids, notify_at : Int]
NotAsked == [key |-> "none"]

TypeOK ==
  /\ Demo!HandlerTypeOK
  /\ Registry!PublishersTypeOK
  /\ Publication!TypeOK
  /\ Outbox!TypeOK
  /\ body \in [Handlers -> Body]
  /\ asked \in [Ids -> Asked \union {NotAsked}]
  /\ replies \subseteq Reply
  /\ misfits \subseteq {"horizon", "payload"}
  /\ changes \in 0..MaxChanges

Init ==
  /\ Demo!DemoInit
  /\ publishers \in [PublisherKeys -> Registry!Publisher \union {Unregistered}]
  /\ Publication!Init
  /\ Outbox!Init
  /\ body = [h \in Handlers |-> NoBody]
  /\ asked = [id \in Ids |-> NotAsked]
  /\ replies = {}
  /\ misfits = {}
  /\ changes = 0

-----------------------------------------------------------------------------
(* The publisher.                                                          *)

Submit(h, key, input) ==
  /\ Demo!Submit(h, key, input, now)
  /\ UNCHANGED <<publishers, publication, outbox, body, asked, replies, misfits, changes>>

(* The timeout of urlopen, a lost connection, a lost answer.               *)
GiveUp(h) ==
  /\ Demo!Finish(h)
  /\ UNCHANGED <<publishers, publication, outbox, body, asked, replies, misfits, changes>>

(* The data of build_payload.                                              *)
Data(key, seconds) ==
  Json("object",
    [request_id    |-> Text(KeyLength[key], {}),
     delay_seconds |-> Json("integer", seconds),
     notify_at     |-> Text(20, {})])

-----------------------------------------------------------------------------
(* EventServer: publish_event.                                             *)

(* A handler that still waits is told, and the caller with it.             *)
Tell(h) == IF handler[h].pc = "wait" THEN Demo!Finish(h) ELSE UNCHANGED demo

(* 401, 403, and 422 for an instant beyond the horizon.                    *)
Refuse(h) ==
  /\ handler[h].pc = "post"
  /\ \/ /\ Registry!Identities(DemoToken) = {}
        /\ UNCHANGED misfits
     \/ /\ \E key \in Registry!Identities(DemoToken) : ~ Registry!MayPublish(key, DemoEvent)
        /\ UNCHANGED misfits
     \/ /\ \E key \in Registry!Identities(DemoToken) : Registry!MayPublish(key, DemoEvent)
        /\ handler[h].notify_at > now + Horizon
        /\ misfits' = misfits \union {"horizon"}
  /\ Demo!Finish(h)
  /\ UNCHANGED <<publishers, publication, outbox, body, asked, replies, changes>>

(* resolve_notify_at for an instant that is not beyond the horizon.        *)
Resolved(notify_at) == IF notify_at <= now THEN now ELSE notify_at

Receive(h) ==
  /\ Demo!Post(h)
  /\ \E key \in Registry!Identities(DemoToken) : Registry!MayPublish(key, DemoEvent)
  /\ handler[h].notify_at <= now + Horizon
  /\ Publication!Begin(h, handler[h].key)
  /\ body' = [body EXCEPT ![h] = [due       |-> Resolved(handler[h].notify_at),
                                  notify_at |-> handler[h].notify_at,
                                  seconds   |-> handler[h].seconds]]
  /\ UNCHANGED <<publishers, outbox, asked, replies, misfits, changes>>

(* The request ends without an answer that matters any more.               *)
End(h) == body' = [body EXCEPT ![h] = NoBody]

(* validate_payload follows the test of the event type; the data is not    *)
(* looked at again.                                                        *)
CheckEvent(h) ==
  /\ call[h].pc = "type"
  /\ IF enabled /\ ValidPayload(Schema, Data(call[h].key, body[h].seconds))
     THEN /\ Publication!CheckType(h)
          /\ body' = [body EXCEPT ![h].seconds = 0]
          /\ UNCHANGED <<demo, misfits>>
     ELSE /\ Publication!Rollback(h)
          /\ misfits' = IF enabled THEN misfits \union {"payload"} ELSE misfits
          /\ Tell(h)
          /\ End(h)
  /\ UNCHANGED <<publishers, outbox, asked, replies, changes>>

Serve(h) ==
  /\ \/ Publication!SelectExisting(h)
     \/ Publication!Insert(h)
     \/ Publication!SelectRecipients(h)
  /\ UNCHANGED <<demo, publishers, outbox, body, asked, replies, misfits, changes>>

(* The answer of a request that has been committed; it may not arrive.     *)
Answer(h, created) ==
  \/ /\ handler[h].pc = "wait"
     /\ Demo!Finish(h)
     /\ [key |-> call[h].key, id |-> call[h].id, created |-> created] \in answers'
     /\ replies' = IF created
                   THEN replies \union
                          {[event |-> call[h].id, notify_at |-> Demo!Whole(body[h].due)]}
                   ELSE replies
  \/ answers' = answers /\ UNCHANGED <<demo, replies>>

Remember(h) ==
  asked' = [asked EXCEPT ![call[h].id] =
              [key |-> call[h].key, notify_at |-> body[h].notify_at]]

(* Mutant: the deliveries keep the default of next_attempt_at.             *)
CommitEventAtOnce(h) ==
  /\ Publication!CommitCreated(h)
  /\ Outbox!Publish([event : {call[h].id}, user : call[h].to], now)
  /\ Answer(h, TRUE)
  /\ Remember(h)
  /\ End(h)
  /\ UNCHANGED <<publishers, misfits, changes>>

(* COMMIT stores the event and inserts its deliveries.                     *)
CommitEvent(h) ==
  /\ Publication!CommitCreated(h)
  /\ Outbox!Publish([event : {call[h].id}, user : call[h].to], body[h].due)
  /\ Answer(h, TRUE)
  /\ Remember(h)
  /\ End(h)
  /\ UNCHANGED <<publishers, misfits, changes>>

CommitDuplicate(h) ==
  /\ Publication!CommitDuplicate(h)
  /\ Answer(h, FALSE)
  /\ End(h)
  /\ UNCHANGED <<publishers, outbox, asked, misfits, changes>>

(* A statement fails or the process ends: rolled back, the caller is told  *)
(* or waits in vain.                                                       *)
Break(h) ==
  /\ Publication!Rollback(h)
  /\ Tell(h)
  /\ End(h)
  /\ UNCHANGED <<publishers, outbox, asked, replies, misfits, changes>>

-----------------------------------------------------------------------------
(* The operator, the administrators and the plugins.                       *)

(* A change that changes nothing is not counted.                           *)
MayChange == changes < MaxChanges /\ changes' = changes + 1

Register(key, token, allowed) ==
  /\ MayChange
  /\ Registry!Upsert(key, token, allowed) /\ publishers' # publishers
  /\ UNCHANGED <<demo, publication, outbox, body, asked, replies, misfits>>

Administer ==
  /\ MayChange
  /\ Publication!Accounts /\ <<enabled, status, command>>' # <<enabled, status, command>>
  /\ UNCHANGED <<demo, publishers, outbox, body, asked, replies, misfits>>

(* A plugin forgets nothing here: a token it does not use is a lease left  *)
(* to run out.                                                             *)
Deliver ==
  /\ \/ \E w \in Workers, n \in ClaimLimits, seconds \in LeaseSeconds :
          \E batch \in SUBSET Outbox!Candidates(Platform) :
            Outbox!Claim(w, Platform, batch, n, seconds)
     \/ \E w \in Workers : \E h \in held[w] :
          \/ Outbox!Ack(w, h)
          \/ \E retryable \in BOOLEAN : Outbox!Fail(w, h, retryable)
     \/ Outbox!Tick
  /\ UNCHANGED <<demo, publishers, publication, body, asked, replies, misfits,
                 changes>>

Next ==
  \/ \E h \in Handlers :
       \/ \E key \in DedupeKeys, input \in Inputs : Submit(h, key, input)
       \/ GiveUp(h)
       \/ Refuse(h)
       \/ Receive(h)
       \/ CheckEvent(h)
       \/ Serve(h)
       \/ CommitEvent(h)
       \/ CommitDuplicate(h)
       \/ Break(h)
  \/ \E key \in PublisherKeys, token \in Tokens, allowed \in PrefixChoices :
       Register(key, token, allowed)
  \/ Administer
  \/ Deliver

Spec == Init /\ [][Next]_vars

-----------------------------------------------------------------------------
HandedOut(d) == row'[d].attempts > row[d].attempts

(* A reminder is never handed to a plugin before the second its publisher  *)
(* asked for, although the publisher drops the fraction, EventServer turns *)
(* a past instant into its own now and the column rounds to the nearest    *)
(* second (client.py, to_utc_iso; api/helpers.py, resolve_notify_at;       *)
(* outbox.py, claim_statement).                                            *)
RemindedOnTime ==
  [][\A d \in Deliveries : HandedOut(d) => asked[d.event].notify_at <= now]_vars

(* However often a request is repeated under its dedupe key, after a       *)
(* timeout, a lost answer or while the first one is still being served,    *)
(* the outbox has one delivery of it for a user (publishers/demo-reminder  *)
(* README.md:103, a dedupe_key submitted again is published only once).    *)
RemindedOnce ==
  \A d, e \in Deliveries :
    /\ row[d].status # "absent" /\ row[e].status # "absent"
    /\ d.user = e.user
    /\ asked[d.event].key = asked[e.event].key
    => d = e

(* A caller who is told that the reminder was created is told when the     *)
(* delivery that waits in the outbox comes due: in the second that ends    *)
(* with it or in the one that begins with it (PublishEventResponse,        *)
(* server.py _serialize).  That is the answer of the request that created  *)
(* the event and no other: a request that finds the event is told its own  *)
(* notify_at (publish.py, publish_event), which no delivery is for.        *)
ToldWhen ==
  \A r \in replies, d \in Deliveries :
    d.event = r.event /\ row[d].status = "pending"
    => row[d].next_attempt_at \in r.notify_at..(r.notify_at + Second)

(* What the publisher accepts, EventServer does not refuse for its timing  *)
(* or its payload: the limits of the publisher, of the schema it registers *)
(* and of the horizon fit (service.py, _resolve_timing; event-catalog.json;*)
(* api/helpers.py; schema_validation.py).                                  *)
AcceptedFits == misfits = {}

(* How the limits have to fit for that: the horizon is a fraction of a     *)
(* second longer than the longest delay, and the registered schema takes   *)
(* every delay up to it.                                                   *)
LimitsFit ==
  /\ (MaxDelay + 1) * Second - 1 <= Horizon
  /\ \A key \in DedupeKeys, seconds \in 0..MaxDelay :
       ValidPayload(Schema, Data(key, seconds))

(* CONTRACT section 6: when "command" is revoked the subscription is kept  *)
(* and delivery is suspended.  claim_statement does not look at the user,  *)
(* so that what was published before goes out while the user is revoked.   *)
SuspendedWhileRevoked ==
  [][\A d \in Deliveries : HandedOut(d) => Publication!Permitted(d.user)]_vars
=============================================================================
