-------------------------- MODULE EventPublication --------------------------
(***************************************************************************)
(* Publication of events: concurrent POST /v1/publish/events requests,     *)
(* next to everything Subscriptions does to the catalogue, the users and   *)
(* the subscriptions the recipients come from.                             *)
(*                                                                         *)
(* A request is one transaction at READ COMMITTED.  It reads the event     *)
(* type, selects an occurrence with the same (event_key, dedupe_key),      *)
(* inserts its own inside a savepoint when there is none, selects the      *)
(* recipients in one statement, and commits occurrence, deliveries and     *)
(* audit row together.  The unique constraint makes an INSERT wait for an  *)
(* uncommitted one of the same key and fail once that one has committed.   *)
(* The event type is not read again: recipients are filtered by the match  *)
(* key field it had when the request looked it up.                         *)
(*                                                                         *)
(* Requests and responses may be lost; a publisher repeats a request under *)
(* the same dedupe key whenever it likes.  A payload is reduced to the      *)
(* match keys it carries and belongs to the dedupe key.                    *)
(***************************************************************************)
EXTENDS Integers, Subscriptions

CONSTANTS
  DedupeKeys,
  CarriedKeys,        \* [DedupeKeys -> SUBSET MatchKeys]: the event's match
                      \* keys, {} as well when the field is not a list
  Calls,              \* requests that can be in progress at the same time
  MaxRequests,        \* bound on publish requests
  MaxOpen             \* bound on transactions in progress

ASSUME EventPublicationAssumption ==
  /\ CarriedKeys \in [DedupeKeys -> SUBSET MatchKeys]
  /\ MaxRequests \in Nat
  /\ MaxOpen \in Nat

VARIABLES
  occurrences,   \* event_occurrences: [key, id]
  deliveries,    \* deliveries: [event, user]
  requests,      \* requests made so far; the last one is the newest event id
  answers,       \* history: responses publishers received
  call           \* the local state of every request in progress

tables == <<occurrences, deliveries>>
vars == <<accounts, session, tables, requests, answers, call>>

Ids == 1..MaxRequests

Idle == [pc |-> "idle"]

(* field: the event type read declares a match key field.  always and ever *)
(* are history: the users who qualified at every moment, or at some        *)
(* moment, since the event type was read.                                  *)
Call ==
  {Idle}
  \union [pc : {"type"}, key : DedupeKeys, id : Ids]
  \union [pc : {"select", "insert", "inserted"}, key : DedupeKeys, id : Ids,
          field : BOOLEAN, always : SUBSET Users, ever : SUBSET Users]
  \union [pc : {"duplicate"}, key : DedupeKeys, id : Ids]
  \union [pc : {"commit"}, key : DedupeKeys, id : Ids, to : SUBSET Users,
          field : BOOLEAN, always : SUBSET Users, ever : SUBSET Users]

TypeOK ==
  /\ AccountsTypeOK
  /\ occurrences \subseteq [key : DedupeKeys, id : Ids]
  /\ deliveries \subseteq [event : Ids, user : Users]
  /\ requests \in 0..MaxRequests
  /\ answers \subseteq [key : DedupeKeys, id : Ids, created : BOOLEAN]
  /\ call \in [Calls -> Call]

Init ==
  /\ AccountsInit
  /\ occurrences = {}
  /\ deliveries = {}
  /\ requests = 0
  /\ answers = {}
  /\ call = [c \in Calls |-> Idle]

-----------------------------------------------------------------------------
RecipientMatches(key, field, watches) ==
  \/ ~ field
  \/ watches = {}
  \/ CarriedKeys[key] \intersect watches # {}

Subscribers == {u \in Users : watched[u] # NoRow}

(* The recipients query and the match filter that follows it.              *)
Recipients(key, field) ==
  {u \in Subscribers : Permitted(u) /\ RecipientMatches(key, field, watched[u])}

Watching(c) == call[c].pc \in {"select", "insert", "inserted", "commit"}

Qualified == [key \in DedupeKeys |-> [field \in BOOLEAN |-> Recipients(key, field)]]

(* Every change of accounts updates the history of the open requests.      *)
Observe ==
  call' = [c \in Calls |->
             IF Watching(c)
             THEN [call[c] EXCEPT
                     !.always = @ \intersect Qualified'[call[c].key][call[c].field],
                     !.ever   = @ \union Qualified'[call[c].key][call[c].field]]
             ELSE call[c]]

Become(c, state) == call' = [call EXCEPT ![c] = state]

MayOpen ==
  Cardinality({c \in Calls : call[c] # Idle})
    + Cardinality({s \in Sessions : session[s] # NoSession}) < MaxOpen

-----------------------------------------------------------------------------
(* PublicationService.publish and the transaction around it.               *)

Begin(c, key) ==
  /\ call[c] = Idle
  /\ requests < MaxRequests
  /\ MayOpen
  /\ requests' = requests + 1
  /\ Become(c, [pc |-> "type", key |-> key, id |-> requests + 1])
  /\ UNCHANGED <<accounts, session, tables, answers>>

(* The state of a request that has read the event type.                    *)
Checked(c) ==
  LET field == HasField(entry)
      now   == Recipients(call[c].key, field)
  IN  [pc |-> "select", key |-> call[c].key, id |-> call[c].id, field |-> field,
       always |-> now, ever |-> now]

(* Mutant: a refused request is not ended.                                 *)
CheckTypeWithoutReturn(c) ==
  /\ call[c].pc = "type"
  /\ Become(c, IF enabled THEN Checked(c) ELSE [call[c] EXCEPT !.pc = "refused"])
  /\ UNCHANGED <<accounts, session, tables, requests, answers>>

(* A disabled type is refused with 422; so is a payload that does not fit  *)
(* the schema, which is left out here.                                     *)
CheckType(c) ==
  /\ call[c].pc = "type"
  /\ Become(c, IF enabled THEN Checked(c) ELSE Idle)
  /\ UNCHANGED <<accounts, session, tables, requests, answers>>

Stored(key) == {o \in occurrences : o.key = key}

(* Mutants: the response names the event of the request, not the stored    *)
(* one; a duplicate is delivered once more.                                *)
FoundDuplicateOwnId(c) ==
  Become(c, [pc |-> "duplicate", key |-> call[c].key, id |-> call[c].id])

FoundDuplicateDeliveredAgain(c) ==
  \E o \in Stored(call[c].key) :
    Become(c, [call[c] EXCEPT !.pc = "inserted", !.id = o.id])

FoundDuplicate(c) ==
  \E o \in Stored(call[c].key) :
    Become(c, [pc |-> "duplicate", key |-> o.key, id |-> o.id])

SelectExisting(c) ==
  /\ call[c].pc = "select"
  /\ IF Stored(call[c].key) # {}
     THEN FoundDuplicate(c)
     ELSE Become(c, [call[c] EXCEPT !.pc = "insert"])
  /\ UNCHANGED <<accounts, session, tables, requests, answers>>

HoldsKey(c, key) == call[c].pc \in {"inserted", "commit"} /\ call[c].key = key

(* Mutants: there is no unique constraint; the IntegrityError is answered  *)
(* by trying the INSERT again.                                             *)
InsertUnconstrained(c) ==
  /\ call[c].pc = "insert"
  /\ Become(c, [call[c] EXCEPT !.pc = "inserted"])
  /\ UNCHANGED <<accounts, session, tables, requests, answers>>

InsertRepeated(c) ==
  /\ call[c].pc = "insert"
  /\ \A b \in Calls : ~ HoldsKey(b, call[c].key)
  /\ Stored(call[c].key) = {} /\ Become(c, [call[c] EXCEPT !.pc = "inserted"])
  /\ UNCHANGED <<accounts, session, tables, requests, answers>>

(* The unique constraint (event_key, dedupe_key); the IntegrityError of a  *)
(* late insert is answered by selecting the occurrence that won.           *)
Insert(c) ==
  /\ call[c].pc = "insert"
  /\ \A b \in Calls : ~ HoldsKey(b, call[c].key)
  /\ IF Stored(call[c].key) # {}
     THEN FoundDuplicate(c)
     ELSE Become(c, [call[c] EXCEPT !.pc = "inserted"])
  /\ UNCHANGED <<accounts, session, tables, requests, answers>>

(* Mutant: the query does not join the users and their permissions.        *)
SelectSubscribers(c) ==
  /\ call[c].pc = "inserted"
  /\ Become(c, [pc |-> "commit", key |-> call[c].key, id |-> call[c].id,
                to |-> {u \in Subscribers :
                         RecipientMatches(call[c].key, call[c].field, watched[u])},
                field |-> call[c].field, always |-> call[c].always, ever |-> call[c].ever])
  /\ UNCHANGED <<accounts, session, tables, requests, answers>>

SelectRecipients(c) ==
  /\ call[c].pc = "inserted"
  /\ Become(c, [pc |-> "commit", key |-> call[c].key, id |-> call[c].id,
                to |-> Recipients(call[c].key, call[c].field),
                field |-> call[c].field, always |-> call[c].always, ever |-> call[c].ever])
  /\ UNCHANGED <<accounts, session, tables, requests, answers>>

(* The response is sent after the commit and may not arrive.               *)
Respond(answer) == answers' \in {answers, answers \union {answer}}

CommitCreated(c) ==
  /\ call[c].pc = "commit"
  /\ occurrences' = occurrences \union {[key |-> call[c].key, id |-> call[c].id]}
  /\ deliveries' = deliveries \union [event : {call[c].id}, user : call[c].to]
  /\ Respond([key |-> call[c].key, id |-> call[c].id, created |-> TRUE])
  /\ Become(c, Idle)
  /\ UNCHANGED <<accounts, session, requests>>

CommitDuplicate(c) ==
  /\ call[c].pc = "duplicate"
  /\ Respond([key |-> call[c].key, id |-> call[c].id, created |-> FALSE])
  /\ Become(c, Idle)
  /\ UNCHANGED <<accounts, session, tables, requests>>

Rollback(c) ==
  /\ call[c] # Idle
  /\ Become(c, Idle)
  /\ UNCHANGED <<accounts, session, tables, requests, answers>>

-----------------------------------------------------------------------------
Accounts ==
  /\ \/ Administer
     \/ \E s \in Sessions :
          \/ SubscriptionStep(s)
          \/ /\ MayOpen
             /\ \E u \in Users, wants \in WatchChoices \union {NoRow} : Ask(s, u, wants)
  /\ <<accounts, session>>' # <<accounts, session>>     \* what writes nothing is no step
  /\ UNCHANGED <<tables, requests, answers>>
  /\ Observe

Publish(c) ==
  \/ CheckType(c)
  \/ SelectExisting(c)
  \/ Insert(c)
  \/ SelectRecipients(c)
  \/ CommitCreated(c)
  \/ CommitDuplicate(c)

Next ==
  \/ Accounts
  \/ \E c \in Calls :
       \/ \E key \in DedupeKeys : Begin(c, key)
       \/ Publish(c)
       \/ Rollback(c)

(* A request that is being served goes on, unless it waits for a lock.     *)
Fairness == \A c \in Calls : WF_vars(Publish(c))

Spec == Init /\ [][Next]_vars /\ Fairness

-----------------------------------------------------------------------------
(* However many requests race for a dedupe key, one occurrence is stored   *)
(* (publication.py: check, savepoint insert and IntegrityError handling).  *)
OneOccurrencePerKey ==
  \A o, p \in occurrences : o.key = p.key => o = p

(* Every response a publisher ever gets for a dedupe key names the same    *)
(* stored event: a retry after a lost response, or a request that lost the *)
(* race, is told about the first one (publication.py, the re-select after  *)
(* IntegrityError; api/publish.py, commit before the response).            *)
AnswersAgree ==
  /\ \A a \in answers : [key |-> a.key, id |-> a.id] \in occurrences
  /\ \A a, b \in answers : a.key = b.key => a.id = b.id

(* A publication reaches everyone who was subscribed and permitted, with   *)
(* keys that match, during the whole request and nobody who never was,     *)
(* while users are revoked and blocked, change their keys, come and go,    *)
(* and the operator re-registers the event type: a user revoked before the *)
(* request gets nothing of it, and getting the permission back later adds  *)
(* nothing (CONTRACT section 6, suspended deliveries are not sent after    *)
(* restoration); subscriptions older than match_keys_required, or with     *)
(* keys that are no longer options, go on as they are.                     *)
RecipientsWereEntitled ==
  [][\A c \in Calls :
       occurrences' # occurrences /\ call[c].pc = "commit" /\ call'[c] = Idle
       => LET reached == {u \in Users : [event |-> call[c].id, user |-> u] \in deliveries'}
          IN  call[c].always \subseteq reached /\ reached \subseteq call[c].ever]_vars

(* The interleaved requests implement PublishPromise, with an event and    *)
(* its deliveries taken together: one event per dedupe key, complete when  *)
(* it appears, and only true responses (publication.py; api/publish.py).   *)
Published(o) ==
  [key |-> o.key, id |-> o.id,
   to  |-> {u \in Users : [event |-> o.id, user |-> u] \in deliveries}]

Promise == INSTANCE PublishPromise WITH
  Keys   <- DedupeKeys,
  Names  <- Ids,
  events <- {Published(o) : o \in occurrences},
  told   <- answers

PublishesOnce == Promise!Spec

(* An event that has been published never gains a recipient later.         *)
NoLateRecipients ==
  [][\A d \in deliveries' \ deliveries :
       \A o \in occurrences : o.id # d.event]_vars

(* Requests for the same key do not wait for each other for ever.          *)
EveryRequestEnds ==
  \A c \in Calls : call[c] # Idle ~> call[c] = Idle
=============================================================================
