----------------------- MODULE EventPublicationProofs -----------------------
(***************************************************************************)
(* Proofs about EventPublication and Subscriptions for any number of       *)
(* users, dedupe keys, catalogue entries, publish requests and             *)
(* subscription calls in progress, and that it implements PublishPromise.  *)
(***************************************************************************)
EXTENDS EventPublication, TLAPS

(***************************************************************************)
(* The inductive invariant.  What makes an occurrence unique is that only  *)
(* one request is past the INSERT of a key, and none while one is stored;  *)
(* what makes its recipients right is that the histories bracket the       *)
(* recipients at every moment between the SELECT of the type and COMMIT.   *)
(***************************************************************************)
InsertersAlone ==
  \A c \in Calls : call[c].pc \in {"inserted", "commit"} =>
    /\ Stored(call[c].key) = {}
    /\ \A b \in Calls \ {c} : ~ HoldsKey(b, call[c].key)

DuplicatesStored ==
  \A c \in Calls : call[c].pc = "duplicate" =>
    [key |-> call[c].key, id |-> call[c].id] \in occurrences

AnswersStored ==
  \A a \in answers : [key |-> a.key, id |-> a.id] \in occurrences

DeliveriesStored ==
  \A d \in deliveries : \E o \in occurrences : o.id = d.event

(* A request that may still store an event has an id nobody else has.      *)
HasOwnId(c) == call[c].pc \in {"type", "select", "insert", "inserted", "commit"}

IdsAreOwn ==
  /\ \A o \in occurrences : o.id <= requests
  /\ \A c \in Calls : HasOwnId(c) =>
       /\ call[c].id <= requests
       /\ \A o \in occurrences : o.id # call[c].id
       /\ \A b \in Calls \ {c} : HasOwnId(b) => call[b].id # call[c].id

HistoryBrackets ==
  \A c \in Calls :
    /\ call[c].pc \in {"select", "insert", "inserted"} =>
         /\ call[c].always \subseteq Recipients(call[c].key, call[c].field)
         /\ Recipients(call[c].key, call[c].field) \subseteq call[c].ever
    /\ call[c].pc = "commit" =>
         call[c].always \subseteq call[c].to /\ call[c].to \subseteq call[c].ever

(* The history of a subscription call knows of the row as it is now.       *)
HeldIsKnown ==
  \A s \in Sessions : Undecided(s) =>
    (watched[session[s].user] = session[s].wants => session[s].held)

SessionsInv == HeldIsKnown /\ RepliesWereTrue

PublishInv ==
  /\ InsertersAlone
  /\ DuplicatesStored
  /\ AnswersStored
  /\ DeliveriesStored
  /\ OneOccurrencePerKey
  /\ IdsAreOwn

IInv == TypeOK /\ SessionsInv /\ PublishInv /\ HistoryBrackets

-----------------------------------------------------------------------------
(* What is known of a call in each of its states.                          *)
LEMMA CallFacts ==
  ASSUME TypeOK, NEW c \in Calls
  PROVE  /\ call[c] \in Call
         /\ call[c].pc # "idle" => call[c].key \in DedupeKeys /\ call[c].id \in Ids
         /\ call[c].pc \in {"select", "insert", "inserted", "commit"} =>
              /\ call[c].field \in BOOLEAN
              /\ call[c].always \in SUBSET Users
              /\ call[c].ever \in SUBSET Users
         /\ call[c].pc = "commit" => call[c].to \in SUBSET Users
         /\ call[c].pc \in {"idle", "type", "select", "insert", "inserted", "duplicate",
                            "commit"}
         /\ call[c].pc = "idle" => call[c] = Idle
<1>1. call[c] \in Call
  BY DEF TypeOK
<1>2. QED
  BY <1>1 DEF Call, Idle

LEMMA SessionFacts ==
  ASSUME TypeOK, NEW s \in Sessions
  PROVE  /\ session[s] \in Session
         /\ session[s] # NoSession => session[s].held \in BOOLEAN
         /\ Undecided(s) => session[s].user \in Users /\ session[s].wants \in Watch
         /\ session[s].pc = "write" => session[s].found \in Watch
         /\ session[s].pc \in {"idle", "resolve", "read", "write", "reply"}
         /\ session[s].pc = "idle" <=> session[s] = NoSession
<1>1. session[s] \in Session
  BY DEF TypeOK, AccountsTypeOK
<1>2. QED
  BY <1>1 DEF Session, NoSession, Undecided

LEMMA RecipientsType ==
  ASSUME NEW key, NEW field
  PROVE  Recipients(key, field) \in SUBSET Users
BY DEF Recipients, Subscribers

LEMMA InitInvariant == Init => IInv
<1> SUFFICES ASSUME Init PROVE IInv
  OBVIOUS
<1>1. TypeOK
  <2>1. watched \in [Users -> Watch]
    BY SubscriptionsAssumption DEF Init, AccountsInit, Watch
  <2>2. status \in [Users -> {"absent", "active", "blocked"}]
    BY DEF Init, AccountsInit
  <2>3. command \in [Users -> BOOLEAN]
    BY Zenon DEF Init, AccountsInit
  <2>4. NoSession \in Session /\ Idle \in Call
    BY DEF Session, Call
  <2>5. AccountsTypeOK
    BY <2>1, <2>2, <2>3, <2>4 DEF Init, AccountsInit, AccountsTypeOK
  <2>6. QED
    BY <2>4, <2>5, EventPublicationAssumption DEF Init, TypeOK
<1>2. \A c \in Calls : call[c].pc = "idle"
  BY DEF Init, Idle
<1>3. \A s \in Sessions : session[s] = NoSession /\ session[s].pc = "idle"
  BY DEF Init, AccountsInit, NoSession
<1>4. SessionsInv
  BY <1>3 DEF SessionsInv, HeldIsKnown, RepliesWereTrue, Undecided
<1>5. PublishInv /\ HistoryBrackets
  BY <1>2 DEF Init, PublishInv, InsertersAlone, DuplicatesStored, AnswersStored,
     DeliveriesStored, OneOccurrencePerKey, IdsAreOwn, HasOwnId, HistoryBrackets
<1>6. QED
  BY <1>1, <1>4, <1>5 DEF IInv

-----------------------------------------------------------------------------
(* What the operator, the administrators and the subscription calls do.    *)
LEMMA SessionMoves ==
  ASSUME IInv, NEW s \in Sessions, NEW t \in Session, Continue(s, t),
         UNCHANGED accounts,
         t.pc \in {"resolve", "read", "write"} => (watched[t.user] = t.wants => t.held),
         t.pc = "reply" => t.held \/ t.missed
  PROVE  AccountsTypeOK' /\ SessionsInv'
<1>1. /\ session' \in [Sessions -> Session]
      /\ session'[s] = t
      /\ \A r \in Sessions \ {s} : session'[r] = session[r]
  BY DEF IInv, TypeOK, AccountsTypeOK, Continue
<1>2. AccountsTypeOK'
  BY <1>1 DEF IInv, TypeOK, AccountsTypeOK, accounts
<1>3. watched' = watched
  BY DEF accounts
<1>4. SessionsInv'
  BY <1>1, <1>3 DEF IInv, SessionsInv, HeldIsKnown, RepliesWereTrue, Undecided
<1>5. QED
  BY <1>2, <1>4

LEMMA NoSessionFacts == NoSession \in Session /\ NoSession.pc = "idle"
BY DEF Session, NoSession

LEMMA AdministerFacts ==
  ASSUME IInv, Administer
  PROVE  AccountsTypeOK' /\ SessionsInv'
<1>1. watched' = watched /\ session' = session
  BY DEF Administer, Register, Deploy, SetCommand, SetStatus
<1>2. SessionsInv'
  BY <1>1 DEF IInv, SessionsInv, HeldIsKnown, RepliesWereTrue, Undecided
<1>3. entry' \in Entries /\ enabled' \in BOOLEAN
  BY DEF IInv, TypeOK, AccountsTypeOK, Administer, Register, Deploy, SetCommand, SetStatus
<1>4. status' \in [Users -> {"absent", "active", "blocked"}]
  BY DEF IInv, TypeOK, AccountsTypeOK, Administer, Register, Deploy, SetCommand, SetStatus
<1>5. command' \in [Users -> BOOLEAN]
  BY DEF IInv, TypeOK, AccountsTypeOK, Administer, Register, Deploy, SetCommand, SetStatus
<1>6. QED
  BY <1>1, <1>2, <1>3, <1>4, <1>5 DEF IInv, TypeOK, AccountsTypeOK

LEMMA AskFacts ==
  ASSUME IInv, NEW s \in Sessions, NEW u \in Users, NEW wants \in Watch,
         Ask(s, u, wants)
  PROVE  AccountsTypeOK' /\ SessionsInv'
<1> DEFINE t == [pc |-> "resolve", user |-> u, wants |-> wants, held |-> watched[u] = wants]
<1>1. t \in Session
  BY DEF Session
<1>2. Continue(s, t) /\ UNCHANGED accounts
  BY DEF Ask
<1>3. QED
  BY <1>1, <1>2, SessionMoves

LEMMA WriteRowFacts ==
  ASSUME IInv, NEW s \in Sessions, WriteRow(s)
  PROVE  AccountsTypeOK' /\ SessionsInv'
<1> DEFINE call0 == session[s]
           row == watched[call0.user]
<1>1. /\ call0.pc = "write" /\ Undecided(s)
      /\ call0.user \in Users /\ call0.wants \in Watch /\ call0.found \in Watch
      /\ call0.held \in BOOLEAN
      /\ UNCHANGED <<entry, enabled, status, command>>
  BY SessionFacts, NoSessionFacts DEF WriteRow, Undecided, IInv
<1>2. CASE ~ WriteTakes(call0, row)
  <2>1. Continue(s, NoSession) /\ UNCHANGED watched
    BY <1>2 DEF WriteRow
  <2>2. QED
    BY <1>1, <2>1, SessionMoves, NoSessionFacts DEF accounts
<1>3. CASE WriteTakes(call0, row)
  <2>1. Written(call0, row) = call0.wants
    BY <1>3 DEF WriteTakes, Written
  <2>2. watched' = [watched EXCEPT ![call0.user] = call0.wants]
    BY <1>3, <2>1 DEF WriteRow
  <2>3. /\ watched' \in [Users -> Watch]
        /\ watched'[call0.user] = call0.wants
        /\ \A u \in Users \ {call0.user} : watched'[u] = watched[u]
    BY <1>1, <2>2 DEF IInv, TypeOK, AccountsTypeOK
  <2>4. session' = [r \in Sessions |->
          IF r = s
          THEN [pc |-> "reply", missed |-> FALSE,
                held |-> call0.held \/ watched'[call0.user] = call0.wants]
          ELSE IF Undecided(r) /\ session[r].user = call0.user
          THEN [session[r] EXCEPT !.held = @ \/ watched'[call0.user] = session[r].wants]
          ELSE session[r]]
    BY <1>3 DEF WriteRow
  <2>5. ASSUME NEW r \in Sessions, r # s, Undecided(r), session[r].user = call0.user
        PROVE  /\ session'[r] \in Session
               /\ session'[r].pc = session[r].pc
               /\ session'[r].user = session[r].user
               /\ session'[r].wants = session[r].wants
               /\ session[r].held => session'[r].held
               /\ watched'[call0.user] = session[r].wants => session'[r].held
    <3> DEFINE held == session[r].held \/ watched'[call0.user] = session[r].wants
    <3>1. session[r] \in Session /\ session[r].pc \in {"resolve", "read", "write"}
      BY <2>5, SessionFacts DEF IInv, Undecided
    <3>2. held \in BOOLEAN
      OBVIOUS
    <3>3. session'[r] = [session[r] EXCEPT !.held = held]
      BY <2>4, <2>5
    <3> HIDE DEF held
    <3>4. /\ session'[r] \in Session
          /\ session'[r].pc = session[r].pc
          /\ session'[r].user = session[r].user
          /\ session'[r].wants = session[r].wants
          /\ session'[r].held = held
      BY <3>1, <3>2, <3>3 DEF Session, NoSession
    <3>5. QED
      BY <3>4 DEF held
  <2>6. /\ session'[s] \in Session
        /\ session'[s].pc = "reply"
        /\ session'[s].held
    <3> DEFINE t == [pc |-> "reply", missed |-> FALSE,
                     held |-> call0.held \/ watched'[call0.user] = call0.wants]
    <3>1. t.held = TRUE
      BY <2>3
    <3>2. t \in Session
      BY <1>1, <3>1 DEF Session
    <3>3. session'[s] = t
      BY <2>4
    <3>4. QED
      BY <3>1, <3>2, <3>3
  <2>7. \A r \in Sessions :
          r # s /\ ~ (Undecided(r) /\ session[r].user = call0.user)
          => session'[r] = session[r]
    BY <2>4
  <2>8. session' \in [Sessions -> Session]
    <3>1. \A r \in Sessions : session'[r] \in Session
      BY <2>5, <2>6, <2>7, SessionFacts DEF IInv
    <3>2. QED
      BY <2>4, <3>1
  <2>9. AccountsTypeOK'
    BY <1>1, <2>3, <2>8 DEF IInv, TypeOK, AccountsTypeOK
  <2>10. HeldIsKnown'
    <3> SUFFICES ASSUME NEW r \in Sessions, Undecided(r)',
                        watched'[session'[r].user] = session'[r].wants
                 PROVE  session'[r].held
      BY DEF HeldIsKnown
    <3>1. CASE r = s
      BY <2>6, <3>1 DEF Undecided
    <3>2. CASE r # s /\ Undecided(r) /\ session[r].user = call0.user
      BY <2>5, <3>2
    <3>3. CASE r # s /\ ~ (Undecided(r) /\ session[r].user = call0.user)
      <4>1. session'[r] = session[r] /\ Undecided(r)
        BY <2>7, <3>3 DEF Undecided
      <4>2. session[r].user \in Users \ {call0.user}
        BY <3>3, <4>1, SessionFacts DEF IInv
      <4>3. QED
        BY <2>3, <4>1, <4>2 DEF IInv, SessionsInv, HeldIsKnown
    <3>4. QED
      BY <3>1, <3>2, <3>3
  <2>11. RepliesWereTrue'
    BY <2>5, <2>6, <2>7 DEF IInv, SessionsInv, RepliesWereTrue, Undecided
  <2>12. QED
    BY <2>9, <2>10, <2>11 DEF SessionsInv
<1>4. QED
  BY <1>2, <1>3

LEMMA SubscriptionStepFacts ==
  ASSUME IInv, NEW s \in Sessions, SubscriptionStep(s)
  PROVE  AccountsTypeOK' /\ SessionsInv'
<1>1. CASE Resolve(s)
  <2> DEFINE t == [pc |-> "read", user |-> session[s].user,
                   wants |-> session[s].wants, held |-> session[s].held]
             u == [pc |-> "reply", held |-> session[s].held, missed |-> TRUE]
  <2>1. session[s] # NoSession /\ Undecided(s)
    BY <1>1, NoSessionFacts DEF Resolve, Undecided
  <2>2. t \in Session /\ u \in Session
    BY <2>1, SessionFacts DEF IInv, Session, Watch
  <2>3. /\ UNCHANGED accounts
        /\ \/ Continue(s, t)
           \/ Continue(s, u)
           \/ Continue(s, NoSession)
    BY <1>1 DEF Resolve
  <2>4. watched[session[s].user] = session[s].wants => session[s].held
    BY <2>1 DEF IInv, SessionsInv, HeldIsKnown
  <2>5. CASE Continue(s, t)
    BY <2>2, <2>3, <2>4, <2>5, SessionMoves
  <2>6. CASE Continue(s, u)
    <3>1. u.pc = "reply" /\ u.missed
      OBVIOUS
    <3>2. QED
      BY <2>2, <2>3, <2>6, <3>1, SessionMoves
  <2>7. CASE Continue(s, NoSession)
    BY <2>3, <2>7, SessionMoves, NoSessionFacts
  <2>8. QED
    BY <2>3, <2>5, <2>6, <2>7
<1>2. CASE ReadRow(s)
  <2> DEFINE t == [pc |-> "reply", held |-> session[s].held, missed |-> FALSE]
             u == [pc |-> "write", user |-> session[s].user, wants |-> session[s].wants,
                   found |-> watched[session[s].user], held |-> session[s].held]
  <2>1. /\ session[s].pc = "read" /\ Undecided(s)
        /\ session[s] \in Session
        /\ session[s].user \in Users /\ session[s].wants \in Watch
        /\ session[s].held \in BOOLEAN
    BY <1>2, NoSessionFacts, SessionFacts DEF ReadRow, Undecided, IInv
  <2>3. t \in Session /\ u \in Session
    BY <2>1 DEF Session, IInv, TypeOK, AccountsTypeOK
  <2>4. watched[session[s].user] = session[s].wants => session[s].held
    BY <2>1 DEF IInv, SessionsInv, HeldIsKnown
  <2>5. UNCHANGED accounts
    BY <1>2 DEF ReadRow
  <2>6. CASE watched[session[s].user] = session[s].wants
    <3>1. Continue(s, t)
      BY <1>2, <2>6 DEF ReadRow
    <3>2. QED
      BY <2>3, <2>4, <2>5, <2>6, <3>1, SessionMoves
  <2>7. CASE watched[session[s].user] # session[s].wants
    <3>1. Continue(s, u)
      BY <1>2, <2>7 DEF ReadRow
    <3>2. QED
      BY <2>3, <2>5, <2>7, <3>1, SessionMoves
  <2>8. QED
    BY <2>6, <2>7
<1>3. CASE WriteRow(s)
  BY <1>3, WriteRowFacts
<1>4. CASE Reply(s) \/ Abandon(s)
  BY <1>4, SessionMoves, NoSessionFacts DEF Reply, Abandon
<1>5. QED
  BY <1>1, <1>2, <1>3, <1>4 DEF SubscriptionStep

-----------------------------------------------------------------------------
(* A request whose histories alone are written.                            *)
WithHistories(k, a, e) == [k EXCEPT !.always = a, !.ever = e]

LEMMA WatchingMoves ==
  ASSUME NEW k \in Call, k.pc \in {"select", "insert", "inserted", "commit"},
         NEW a \in SUBSET Users, NEW e \in SUBSET Users,
         NEW t, t = WithHistories(k, a, e)
  PROVE  /\ t \in Call
         /\ t.pc = k.pc /\ t.key = k.key /\ t.id = k.id /\ t.field = k.field
         /\ t.always = a /\ t.ever = e
         /\ k.pc = "commit" => t.to = k.to
<1>1. CASE k \in [pc : {"select", "insert", "inserted"}, key : DedupeKeys, id : Ids,
                  field : BOOLEAN, always : SUBSET Users, ever : SUBSET Users]
  <2>1. k = [pc |-> k.pc, key |-> k.key, id |-> k.id, field |-> k.field,
             always |-> k.always, ever |-> k.ever]
    BY <1>1
  <2>2. t = [[pc |-> k.pc, key |-> k.key, id |-> k.id, field |-> k.field,
              always |-> k.always, ever |-> k.ever] EXCEPT !.always = a, !.ever = e]
    BY <2>1 DEF WithHistories
  <2>3. t = [pc |-> k.pc, key |-> k.key, id |-> k.id, field |-> k.field,
             always |-> a, ever |-> e]
    BY <2>2
  <2>4. /\ k.pc \in {"select", "insert", "inserted"} /\ k.key \in DedupeKeys
        /\ k.id \in Ids /\ k.field \in BOOLEAN
    BY <1>1
  <2>5. t \in [pc : {"select", "insert", "inserted"}, key : DedupeKeys, id : Ids,
               field : BOOLEAN, always : SUBSET Users, ever : SUBSET Users]
    BY <2>3, <2>4
  <2>6. t \in Call
    BY <2>5, Zenon DEF Call
  <2>7. QED
    BY <2>3, <2>4, <2>6
<1>2. CASE k \in [pc : {"commit"}, key : DedupeKeys, id : Ids, to : SUBSET Users,
                  field : BOOLEAN, always : SUBSET Users, ever : SUBSET Users]
  <2>1. k = [pc |-> k.pc, key |-> k.key, id |-> k.id, to |-> k.to, field |-> k.field,
             always |-> k.always, ever |-> k.ever]
    BY <1>2
  <2>2. t = [[pc |-> k.pc, key |-> k.key, id |-> k.id, to |-> k.to, field |-> k.field,
              always |-> k.always, ever |-> k.ever] EXCEPT !.always = a, !.ever = e]
    BY <2>1 DEF WithHistories
  <2>3. t = [pc |-> k.pc, key |-> k.key, id |-> k.id, to |-> k.to, field |-> k.field,
             always |-> a, ever |-> e]
    BY <2>2
  <2>4. /\ k.pc = "commit" /\ k.key \in DedupeKeys /\ k.id \in Ids
        /\ k.to \in SUBSET Users /\ k.field \in BOOLEAN
    BY <1>2
  <2>5. t \in [pc : {"commit"}, key : DedupeKeys, id : Ids, to : SUBSET Users,
               field : BOOLEAN, always : SUBSET Users, ever : SUBSET Users]
    BY <2>3, <2>4
  <2>6. t \in Call
    BY <2>5, Zenon DEF Call
  <2>7. QED
    BY <2>3, <2>6
<1>3. QED
  BY <1>1, <1>2 DEF Call, Idle

(* What a change of accounts leaves of a request in progress.              *)
LEMMA ObserveFacts ==
  ASSUME TypeOK, Observe, NEW c \in Calls,
         NEW key, NEW field, key = call[c].key, field = call[c].field
  PROVE  /\ call'[c] \in Call
         /\ call'[c].pc = call[c].pc
         /\ call[c].pc # "idle" => call'[c].key = call[c].key /\ call'[c].id = call[c].id
         /\ Watching(c) => /\ call'[c].field = call[c].field
                           /\ call'[c].always = call[c].always \intersect Recipients(key, field)'
                           /\ call'[c].ever = call[c].ever \union Recipients(key, field)'
         /\ call[c].pc = "commit" => call'[c].to = call[c].to
<1>1. call[c] \in Call
  BY CallFacts
<1>2. CASE ~ Watching(c)
  <2>1. call'[c] = call[c]
    BY <1>2 DEF Observe
  <2>2. QED
    BY <1>1, <1>2, <2>1 DEF Watching
<1>3. CASE Watching(c)
  <2> DEFINE R == Recipients(key, field)'
  <2>1. key \in DedupeKeys /\ field \in BOOLEAN
    BY <1>3, CallFacts DEF Watching
  <2>2. R \in SUBSET Users
    BY DEF Recipients, Subscribers
  <2>3. call'[c] = [call[c] EXCEPT !.always = @ \intersect R, !.ever = @ \union R]
    <3>1. Qualified'[key][field] = R
      BY <2>1 DEF Qualified
    <3>2. QED
      BY <1>3, <3>1 DEF Observe
  <2> HIDE DEF R
  <2>4. QED
    <3>1. /\ call'[c] \in Call
          /\ call'[c].pc = call[c].pc
          /\ call'[c].key = call[c].key /\ call'[c].id = call[c].id
          /\ call'[c].field = call[c].field
          /\ call'[c].always = call[c].always \intersect R
          /\ call'[c].ever = call[c].ever \union R
          /\ call[c].pc = "commit" => call'[c].to = call[c].to
      <4>1. PICK a : a = call[c].always \intersect R
        OBVIOUS
      <4>2. PICK e : e = call[c].ever \union R
        OBVIOUS
      <4>3. call[c] \in Call /\ call[c].pc \in {"select", "insert", "inserted", "commit"}
        BY <1>1, <1>3 DEF Watching
      <4>4. call[c].ever \in SUBSET Users
        BY <1>3, CallFacts DEF Watching
      <4>5. a \in SUBSET Users /\ e \in SUBSET Users
        BY <2>2, <4>1, <4>2, <4>4
      <4>6. call'[c] = [call[c] EXCEPT !.always = a, !.ever = e]
        BY <2>3, <4>1, <4>2
      <4>7. QED
        <5>1. PICK t : t = call'[c]
          OBVIOUS
        <5>2. PICK k : k = call[c]
          OBVIOUS
        <5>3. k \in Call /\ k.pc \in {"select", "insert", "inserted", "commit"}
          BY <4>3, <5>2
        <5>4. t = WithHistories(k, a, e)
          BY <4>6, <5>1, <5>2, Zenon DEF WithHistories
        <5>5. /\ t \in Call
              /\ t.pc = k.pc /\ t.key = k.key /\ t.id = k.id /\ t.field = k.field
              /\ t.always = a /\ t.ever = e
              /\ k.pc = "commit" => t.to = k.to
          BY <4>5, <5>3, <5>4, WatchingMoves
        <5>6. QED
          BY <4>1, <4>2, <5>1, <5>2, <5>5
    <3>2. QED
      BY <3>1 DEF R
<1>4. QED
  BY <1>2, <1>3

LEMMA AccountsInvariant ==
  ASSUME IInv, Accounts
  PROVE  IInv'
<1>1. UNCHANGED <<tables, requests, answers>> /\ Observe
  BY DEF Accounts
<1>2. AccountsTypeOK' /\ SessionsInv'
  <2>1. CASE Administer
    BY <2>1, AdministerFacts
  <2>2. CASE \E s \in Sessions : SubscriptionStep(s)
    BY <2>2, SubscriptionStepFacts
  <2>3. CASE \E s \in Sessions, u \in Users, wants \in Watch : Ask(s, u, wants)
    BY <2>3, AskFacts
  <2>4. WatchChoices \subseteq Watch /\ NoRow \in Watch
    BY SubscriptionsAssumption DEF Watch
  <2>5. QED
    BY <2>1, <2>2, <2>3, <2>4 DEF Accounts
<1>3. \A c \in Calls : /\ call'[c] \in Call
                       /\ call'[c].pc = call[c].pc
                       /\ call[c].pc # "idle" => /\ call'[c].key = call[c].key
                                                 /\ call'[c].id = call[c].id
  BY <1>1, ObserveFacts DEF IInv
<1>4. TypeOK'
  <2>1. call' = [c \in Calls |-> call'[c]]
    BY <1>1 DEF Observe
  <2>2. call' \in [Calls -> Call]
    BY <1>3, <2>1
  <2>3. QED
    BY <1>1, <1>2, <2>2 DEF IInv, TypeOK, tables
<1>5. PublishInv'
  BY <1>1, <1>3 DEF IInv, PublishInv, InsertersAlone, DuplicatesStored, AnswersStored,
     DeliveriesStored, OneOccurrencePerKey, IdsAreOwn, HasOwnId, HoldsKey, Stored, tables
<1>6. HistoryBrackets'
  <2> SUFFICES ASSUME NEW c \in Calls
               PROVE  /\ call'[c].pc \in {"select", "insert", "inserted"} =>
                          /\ call'[c].always \subseteq Recipients(call[c].key, call[c].field)'
                          /\ Recipients(call[c].key, call[c].field)' \subseteq call'[c].ever
                      /\ call'[c].pc = "commit" =>
                          /\ call'[c].always \subseteq call'[c].to
                          /\ call'[c].to \subseteq call'[c].ever
    BY DEF HistoryBrackets
  <2> DEFINE key == call[c].key
             field == call[c].field
  <2>1. QED
    BY <1>1, <1>3, ObserveFacts DEF IInv, HistoryBrackets, Watching
<1>7. QED
  BY <1>2, <1>4, <1>5, <1>6 DEF IInv

-----------------------------------------------------------------------------
(* The steps of a request leave accounts and sessions alone.               *)
LEMMA RecipientsUnchanged ==
  ASSUME UNCHANGED accounts, NEW key, NEW field
  PROVE  Recipients(key, field)' = Recipients(key, field)
BY DEF Recipients, Subscribers, Permitted, RecipientMatches, accounts

LEMMA AccountsUnchanged ==
  ASSUME IInv, UNCHANGED <<accounts, session>>
  PROVE  AccountsTypeOK' /\ SessionsInv'
BY DEF IInv, TypeOK, AccountsTypeOK, SessionsInv, HeldIsKnown, RepliesWereTrue, Undecided, accounts

(* What a state of a call must satisfy for a step into it to keep the      *)
(* invariant while the tables stay as they are.                            *)
Fits(c, t, bound) ==
  /\ t \in Call
  /\ t.pc \in {"inserted", "commit"} =>
       /\ Stored(t.key) = {}
       /\ \A b \in Calls \ {c} : ~ HoldsKey(b, t.key)
  /\ t.pc = "duplicate" => [key |-> t.key, id |-> t.id] \in occurrences
  /\ t.pc \in {"type", "select", "insert", "inserted", "commit"} =>
       /\ t.id <= bound
       /\ \A o \in occurrences : o.id # t.id
       /\ \A b \in Calls \ {c} : HasOwnId(b) => call[b].id # t.id
  /\ t.pc \in {"select", "insert", "inserted"} =>
       /\ t.always \subseteq Recipients(t.key, t.field)
       /\ Recipients(t.key, t.field) \subseteq t.ever
  /\ t.pc = "commit" => t.always \subseteq t.to /\ t.to \subseteq t.ever

LEMMA CallMoves ==
  ASSUME IInv, NEW c \in Calls, NEW t, Fits(c, t, requests'), Become(c, t),
         UNCHANGED <<accounts, session, tables>>,
         requests' \in 0..MaxRequests, requests <= requests',
         answers' \subseteq [key : DedupeKeys, id : Ids, created : BOOLEAN],
         AnswersStored'
  PROVE  IInv'
<1>1. /\ call' \in [Calls -> Call]
      /\ call'[c] = t
      /\ \A b \in Calls \ {c} : call'[b] = call[b]
  BY DEF IInv, TypeOK, Fits, Become
<1>2. AccountsTypeOK' /\ SessionsInv'
  BY AccountsUnchanged
<1>3. TypeOK'
  BY <1>1, <1>2 DEF IInv, TypeOK, tables
<1>4. occurrences' = occurrences
  BY DEF tables
<1>5. InsertersAlone'
  <2> SUFFICES ASSUME NEW a \in Calls, call'[a].pc \in {"inserted", "commit"},
                      NEW b \in Calls \ {a}
               PROVE  /\ Stored(call'[a].key) = {}
                      /\ ~ (call'[b].pc \in {"inserted", "commit"} /\ call'[b].key = call'[a].key)
    <3>1. ASSUME NEW a \in Calls, call'[a].pc \in {"inserted", "commit"}
          PROVE  Stored(call[a].key)' = {}
      <4>1. CASE a = c
        BY <1>1, <1>4, <3>1, <4>1 DEF Fits, Stored
      <4>2. CASE a # c
        BY <1>1, <1>4, <3>1, <4>2 DEF IInv, PublishInv, InsertersAlone, Stored
      <4>3. QED
        BY <4>1, <4>2
    <3>2. QED
      BY <3>1 DEF InsertersAlone, HoldsKey
  <2>1. CASE a = c
    BY <1>1, <2>1 DEF Fits, HoldsKey
  <2>2. CASE b = c
    BY <1>1, <2>2 DEF IInv, PublishInv, InsertersAlone, Fits, HoldsKey
  <2>3. CASE a # c /\ b # c
    BY <1>1, <2>3 DEF IInv, PublishInv, InsertersAlone, HoldsKey
  <2>4. QED
    BY <2>1, <2>2, <2>3
<1>6. DuplicatesStored'
  BY <1>1, <1>4 DEF IInv, PublishInv, DuplicatesStored, Fits
<1>7. OneOccurrencePerKey' /\ DeliveriesStored'
  BY <1>4 DEF IInv, PublishInv, OneOccurrencePerKey, DeliveriesStored, tables
<1>8. IdsAreOwn'
  <2>1. \A o \in occurrences : o.id \in Ids /\ o.id <= requests
    BY DEF IInv, TypeOK, PublishInv, IdsAreOwn
  <2>2. /\ requests \in Nat /\ requests' \in Nat
        /\ \A i \in Ids : i \in Nat /\ (i <= requests => i <= requests')
    BY EventPublicationAssumption DEF IInv, TypeOK, Ids
  <2>3. \A o \in occurrences' : o.id <= requests'
    BY <1>4, <2>1, <2>2
  <2>4. ASSUME NEW a \in Calls, HasOwnId(a)'
        PROVE  /\ call'[a].id <= requests'
               /\ \A o \in occurrences' : o.id # call'[a].id
               /\ \A b \in Calls \ {a} : HasOwnId(b)' => call'[b].id # call'[a].id
    <3>1. CASE a = c
      BY <1>1, <1>4, <2>4, <3>1 DEF Fits, HasOwnId
    <3>2. CASE a # c
      <4>1. HasOwnId(a) /\ call'[a].id = call[a].id /\ call[a].id \in Ids
        BY <1>1, <2>4, <3>2, CallFacts DEF HasOwnId, IInv
      <4>2. call[a].id <= requests /\ \A o \in occurrences : o.id # call[a].id
        BY <4>1 DEF IInv, PublishInv, IdsAreOwn
      <4>3. ASSUME NEW b \in Calls \ {a}, HasOwnId(b)'
            PROVE  call'[b].id # call'[a].id
        <5>1. CASE b = c
          BY <1>1, <4>1, <4>3, <5>1, <3>2 DEF Fits, HasOwnId
        <5>2. CASE b # c
          BY <1>1, <4>1, <4>3, <5>2 DEF IInv, PublishInv, IdsAreOwn, HasOwnId
        <5>3. QED
          BY <5>1, <5>2
      <4>4. QED
        BY <1>4, <2>2, <4>1, <4>2, <4>3
    <3>3. QED
      BY <3>1, <3>2
  <2>5. QED
    BY <2>3, <2>4 DEF IdsAreOwn
<1>9. HistoryBrackets'
  <2> SUFFICES ASSUME NEW a \in Calls, NEW u, u = call'[a]
               PROVE  /\ u.pc \in {"select", "insert", "inserted"} =>
                          /\ u.always \subseteq Recipients(u.key, u.field)'
                          /\ Recipients(u.key, u.field)' \subseteq u.ever
                      /\ u.pc = "commit" => u.always \subseteq u.to /\ u.to \subseteq u.ever
    BY DEF HistoryBrackets
  <2>1. Recipients(u.key, u.field)' = Recipients(u.key, u.field)
    BY RecipientsUnchanged
  <2>2. CASE a = c
    BY <1>1, <2>1, <2>2 DEF Fits
  <2>3. CASE a # c
    BY <1>1, <2>1, <2>3 DEF IInv, HistoryBrackets
  <2>4. QED
    BY <2>2, <2>3
<1>10. QED
  BY <1>2, <1>3, <1>5, <1>6, <1>7, <1>8, <1>9 DEF IInv, PublishInv

-----------------------------------------------------------------------------
(* One lemma for every step of a request.                                  *)
LEMMA IdleFits ==
  ASSUME IInv, NEW c, NEW bound
  PROVE  Fits(c, Idle, bound)
BY DEF Fits, Call, Idle

LEMMA AnswersUnchanged ==
  ASSUME IInv, UNCHANGED <<tables, requests, answers>>
  PROVE  /\ requests' \in 0..MaxRequests /\ requests <= requests'
         /\ answers' \subseteq [key : DedupeKeys, id : Ids, created : BOOLEAN]
         /\ AnswersStored'
BY EventPublicationAssumption DEF IInv, TypeOK, PublishInv, AnswersStored, tables

LEMMA BeginInvariant ==
  ASSUME IInv, NEW c \in Calls, NEW key \in DedupeKeys, Begin(c, key)
  PROVE  IInv'
<1> DEFINE t == [pc |-> "type", key |-> key, id |-> requests + 1]
<1>1. /\ requests \in Nat /\ requests < MaxRequests /\ requests' = requests + 1
      /\ UNCHANGED <<accounts, session, tables, answers>> /\ Become(c, t)
  BY DEF IInv, TypeOK, Begin
<1>2. requests' \in 0..MaxRequests /\ requests <= requests' /\ requests' \in Ids
  BY <1>1, EventPublicationAssumption DEF Ids
<1>3. t \in Call
  BY <1>1, <1>2 DEF Call
<1>4. \A o \in occurrences : o.id # t.id
  <2>1. \A o \in occurrences : o.id <= requests /\ o.id \in Nat
    BY DEF IInv, TypeOK, PublishInv, IdsAreOwn, Ids
  <2>2. QED
    BY <1>1, <2>1
<1>5. \A b \in Calls : HasOwnId(b) => call[b].id # t.id
  <2>1. \A b \in Calls : HasOwnId(b) => call[b].id <= requests /\ call[b].id \in Nat
    BY CallFacts DEF IInv, PublishInv, IdsAreOwn, HasOwnId, Ids
  <2>2. QED
    BY <1>1, <2>1
<1>6. Fits(c, t, requests')
  BY <1>1, <1>3, <1>4, <1>5 DEF Fits
<1>7. AnswersStored' /\ answers' \subseteq [key : DedupeKeys, id : Ids, created : BOOLEAN]
  BY <1>1 DEF IInv, TypeOK, PublishInv, AnswersStored, tables
<1>8. UNCHANGED <<accounts, session, tables>>
  BY <1>1
<1> HIDE DEF t
<1>9. QED
  BY <1>1, <1>2, <1>6, <1>7, <1>8, CallMoves

(* A step between states that hold the same id.                            *)
LEMMA SameIdFits ==
  ASSUME IInv, NEW c \in Calls, HasOwnId(c), NEW t \in Call,
         t.pc \in {"select", "insert", "inserted", "commit"},
         t.key = call[c].key, t.id = call[c].id,
         t.pc \in {"inserted", "commit"} =>
           /\ Stored(t.key) = {}
           /\ \A b \in Calls \ {c} : ~ HoldsKey(b, t.key),
         t.pc \in {"select", "insert", "inserted"} =>
           /\ t.always \subseteq Recipients(t.key, t.field)
           /\ Recipients(t.key, t.field) \subseteq t.ever,
         t.pc = "commit" => t.always \subseteq t.to /\ t.to \subseteq t.ever
  PROVE  Fits(c, t, requests)
BY DEF Fits, IInv, PublishInv, IdsAreOwn

LEMMA CheckTypeInvariant ==
  ASSUME IInv, NEW c \in Calls, CheckType(c)
  PROVE  IInv'
<1> DEFINE t == Checked(c)
<1>1. /\ call[c].pc = "type" /\ call[c].key \in DedupeKeys /\ call[c].id \in Ids
      /\ UNCHANGED <<accounts, session, tables, requests, answers>>
  BY CallFacts DEF CheckType, IInv
<1>2. /\ t.pc = "select" /\ t.key = call[c].key /\ t.id = call[c].id
      /\ t.field \in BOOLEAN
      /\ t.always = Recipients(t.key, t.field) /\ t.ever = Recipients(t.key, t.field)
  BY DEF Checked, HasField
<1>3. t \in Call
  <2>1. Recipients(call[c].key, HasField(entry)) \in SUBSET Users
    BY RecipientsType
  <2>2. HasField(entry) \in BOOLEAN
    BY DEF HasField
  <2>3. QED
    BY <1>1, <2>1, <2>2 DEF Checked, Call
<1>4. Fits(c, t, requests)
  BY <1>1, <1>2, <1>3, SameIdFits DEF HasOwnId
<1>5. Become(c, t) \/ Become(c, Idle)
  BY DEF CheckType
<1> HIDE DEF t
<1>6. QED
  BY <1>1, <1>4, <1>5, IdleFits, AnswersUnchanged, CallMoves

LEMMA FoundDuplicateInvariant ==
  ASSUME IInv, NEW c \in Calls, FoundDuplicate(c),
         UNCHANGED <<accounts, session, tables, requests, answers>>
  PROVE  IInv'
<1>1. PICK o \in Stored(call[c].key) :
        Become(c, [pc |-> "duplicate", key |-> o.key, id |-> o.id])
  BY DEF FoundDuplicate
<1> DEFINE t == [pc |-> "duplicate", key |-> o.key, id |-> o.id]
<1>2. o \in occurrences /\ o \in [key : DedupeKeys, id : Ids]
  BY DEF Stored, IInv, TypeOK
<1>3. t \in Call /\ [key |-> o.key, id |-> o.id] = o
  BY <1>2 DEF Call
<1>4. Fits(c, t, requests)
  BY <1>2, <1>3 DEF Fits
<1>5. Become(c, t)
  BY <1>1
<1> HIDE DEF t
<1>6. QED
  BY <1>4, <1>5, AnswersUnchanged, CallMoves

(* A step that changes nothing but the place of the request.               *)
LEMMA MovesOn ==
  ASSUME IInv, NEW c \in Calls, NEW to \in {"insert", "inserted"},
         call[c].pc \in {"select", "insert"},
         to = "inserted" => /\ Stored(call[c].key) = {}
                            /\ \A b \in Calls : ~ HoldsKey(b, call[c].key),
         Become(c, [call[c] EXCEPT !.pc = to]),
         UNCHANGED <<accounts, session, tables, requests, answers>>
  PROVE  IInv'
<1> DEFINE t == [call[c] EXCEPT !.pc = to]
<1>1. call[c] \in [pc : {"select", "insert", "inserted"}, key : DedupeKeys, id : Ids,
                   field : BOOLEAN, always : SUBSET Users, ever : SUBSET Users]
  BY CallFacts DEF IInv, Call, Idle
<1>2. /\ t \in Call /\ t.pc = to
      /\ t.key = call[c].key /\ t.id = call[c].id /\ t.field = call[c].field
      /\ t.always = call[c].always /\ t.ever = call[c].ever
  BY <1>1 DEF Call
<1>3. /\ call[c].always \subseteq Recipients(call[c].key, call[c].field)
      /\ Recipients(call[c].key, call[c].field) \subseteq call[c].ever
  BY DEF IInv, HistoryBrackets
<1>4. Become(c, t)
  OBVIOUS
<1> HIDE DEF t
<1>5. Fits(c, t, requests)
  BY <1>2, <1>3, SameIdFits DEF HasOwnId
<1>6. QED
  BY <1>4, <1>5, AnswersUnchanged, CallMoves

LEMMA SelectRecipientsInvariant ==
  ASSUME IInv, NEW c \in Calls, SelectRecipients(c)
  PROVE  IInv'
<1> DEFINE t == [pc |-> "commit", key |-> call[c].key, id |-> call[c].id,
                 to |-> Recipients(call[c].key, call[c].field),
                 field |-> call[c].field, always |-> call[c].always,
                 ever |-> call[c].ever]
<1>1. call[c].pc = "inserted"
  BY DEF SelectRecipients
<1>2. Recipients(call[c].key, call[c].field) \in SUBSET Users
  BY RecipientsType
<1>3. t \in Call
  BY <1>1, <1>2, CallFacts DEF IInv, Call
<1>4. /\ call[c].always \subseteq Recipients(call[c].key, call[c].field)
      /\ Recipients(call[c].key, call[c].field) \subseteq call[c].ever
  BY <1>1 DEF IInv, HistoryBrackets
<1>5. /\ Stored(call[c].key) = {}
      /\ \A b \in Calls \ {c} : ~ HoldsKey(b, call[c].key)
  BY <1>1 DEF IInv, PublishInv, InsertersAlone
<1>6. /\ t.pc = "commit" /\ t.key = call[c].key /\ t.id = call[c].id
      /\ t.always \subseteq t.to /\ t.to \subseteq t.ever
  BY <1>4
<1>7. Become(c, t) /\ UNCHANGED <<accounts, session, tables, requests, answers>>
  BY DEF SelectRecipients
<1> HIDE DEF t
<1>8. Fits(c, t, requests)
  BY <1>1, <1>3, <1>5, <1>6, SameIdFits DEF HasOwnId
<1>9. QED
  BY <1>7, <1>8, AnswersUnchanged, CallMoves

LEMMA CommitDuplicateInvariant ==
  ASSUME IInv, NEW c \in Calls, CommitDuplicate(c)
  PROVE  IInv'
<1> DEFINE answer == [key |-> call[c].key, id |-> call[c].id, created |-> FALSE]
<1>1. call[c].pc = "duplicate"
  BY DEF CommitDuplicate
<1>2. /\ answer \in [key : DedupeKeys, id : Ids, created : BOOLEAN]
      /\ [key |-> answer.key, id |-> answer.id] \in occurrences
  BY <1>1, CallFacts DEF IInv, PublishInv, DuplicatesStored
<1>3. /\ answers' \in {answers, answers \union {answer}}
      /\ Become(c, Idle)
      /\ UNCHANGED <<accounts, session, tables, requests>>
  BY DEF CommitDuplicate, Respond
<1> HIDE DEF answer
<1>4. /\ answers' \subseteq [key : DedupeKeys, id : Ids, created : BOOLEAN]
      /\ AnswersStored'
  BY <1>2, <1>3 DEF IInv, TypeOK, PublishInv, AnswersStored, tables
<1>5. requests' \in 0..MaxRequests /\ requests <= requests'
  BY <1>3, EventPublicationAssumption DEF IInv, TypeOK
<1>6. QED
  BY <1>3, <1>4, <1>5, IdleFits, CallMoves

(* What COMMIT adds: an occurrence with a new key and a new id, and        *)
(* deliveries of just that event.                                          *)
LEMMA CommitCreatedFacts ==
  ASSUME IInv, NEW c \in Calls, CommitCreated(c)
  PROVE  /\ call[c].pc = "commit"
         /\ call[c].key \in DedupeKeys /\ call[c].id \in Ids /\ call[c].to \in SUBSET Users
         /\ call' \in [Calls -> Call] /\ call'[c] = Idle
         /\ \A b \in Calls \ {c} : call'[b] = call[b]
         /\ \A o \in occurrences : o.key # call[c].key /\ o.id # call[c].id
         /\ \A b \in Calls \ {c} : ~ HoldsKey(b, call[c].key)
         /\ \A b \in Calls \ {c} : HasOwnId(b) => call[b].id # call[c].id
         /\ call[c].id <= requests
<1>1. call[c].pc = "commit"
  BY DEF CommitCreated
<1>2. Idle \in Call
  BY DEF Call
<1>3. /\ call' \in [Calls -> Call] /\ call'[c] = Idle
      /\ \A b \in Calls \ {c} : call'[b] = call[b]
  BY <1>2 DEF IInv, TypeOK, CommitCreated, Become
<1>4. \A o \in occurrences : o.key # call[c].key
  BY <1>1 DEF IInv, PublishInv, InsertersAlone, Stored
<1>5. HasOwnId(c)
  BY <1>1 DEF HasOwnId
<1>6. QED
  BY <1>1, <1>3, <1>4, <1>5, CallFacts DEF IInv, PublishInv, InsertersAlone, IdsAreOwn

LEMMA CommitCreatedInvariant ==
  ASSUME IInv, NEW c \in Calls, CommitCreated(c)
  PROVE  IInv'
<1> DEFINE o == [key |-> call[c].key, id |-> call[c].id]
           answer == [key |-> call[c].key, id |-> call[c].id, created |-> TRUE]
<1>1. /\ o.key = call[c].key /\ o.id = call[c].id /\ o \in [key : DedupeKeys, id : Ids]
      /\ answer \in [key : DedupeKeys, id : Ids, created : BOOLEAN]
      /\ [key |-> answer.key, id |-> answer.id] = o
  BY CommitCreatedFacts
<1>2. /\ occurrences' = occurrences \union {o}
      /\ answers' \in {answers, answers \union {answer}}
      /\ requests' = requests
      /\ UNCHANGED <<accounts, session>>
  BY DEF CommitCreated, Respond
<1>3. /\ deliveries' \subseteq [event : Ids, user : Users]
      /\ DeliveriesStored'
  <2>1. \A d \in deliveries' : \/ d \in deliveries
                               \/ /\ d \in [event : Ids, user : Users]
                                  /\ d.event = call[c].id
    BY CommitCreatedFacts DEF CommitCreated
  <2>2. QED
    BY <1>1, <1>2, <2>1 DEF IInv, TypeOK, PublishInv, DeliveriesStored
<1> HIDE DEF o, answer
<1>4. AccountsTypeOK' /\ SessionsInv'
  BY <1>2, AccountsUnchanged
<1>5. TypeOK'
  BY <1>1, <1>2, <1>3, <1>4, CommitCreatedFacts DEF IInv, TypeOK
<1>6. InsertersAlone'
  <2> SUFFICES ASSUME NEW a \in Calls, call'[a].pc \in {"inserted", "commit"}
               PROVE  /\ \A p \in occurrences' : p.key # call'[a].key
                      /\ \A b \in Calls \ {a} :
                           ~ (call'[b].pc \in {"inserted", "commit"}
                              /\ call'[b].key = call'[a].key)
    BY DEF InsertersAlone, Stored, HoldsKey
  <2>1. a # c /\ call'[a] = call[a]
    BY CommitCreatedFacts DEF Idle
  <2>2. call[a].key # call[c].key
    BY <2>1, CommitCreatedFacts DEF HoldsKey
  <2>3. \A p \in occurrences : p.key # call[a].key
    BY <2>1 DEF IInv, PublishInv, InsertersAlone, Stored
  <2>4. \A b \in Calls \ {a} :
          ~ (call[b].pc \in {"inserted", "commit"} /\ call[b].key = call[a].key)
    BY <2>1 DEF IInv, PublishInv, InsertersAlone, HoldsKey
  <2>5. QED
    BY <1>1, <1>2, <2>1, <2>2, <2>3, <2>4, CommitCreatedFacts DEF Idle
<1>7. DuplicatesStored' /\ AnswersStored'
  BY <1>1, <1>2, CommitCreatedFacts
     DEF IInv, PublishInv, DuplicatesStored, AnswersStored, Idle
<1>8. OneOccurrencePerKey'
  BY <1>1, <1>2, CommitCreatedFacts DEF IInv, PublishInv, OneOccurrencePerKey
<1>9. IdsAreOwn'
  BY <1>1, <1>2, CommitCreatedFacts DEF IInv, PublishInv, IdsAreOwn, HasOwnId, Idle
<1>10. HistoryBrackets'
  <2> SUFFICES ASSUME NEW a \in Calls, NEW t, t = call'[a]
               PROVE  /\ t.pc \in {"select", "insert", "inserted"} =>
                          /\ t.always \subseteq Recipients(t.key, t.field)'
                          /\ Recipients(t.key, t.field)' \subseteq t.ever
                      /\ t.pc = "commit" => t.always \subseteq t.to /\ t.to \subseteq t.ever
    BY DEF HistoryBrackets
  <2>1. Recipients(t.key, t.field)' = Recipients(t.key, t.field)
    BY <1>2, RecipientsUnchanged
  <2>2. QED
    BY <2>1, CommitCreatedFacts DEF IInv, HistoryBrackets, Idle
<1>11. QED
  BY <1>3, <1>4, <1>5, <1>6, <1>7, <1>8, <1>9, <1>10 DEF IInv, PublishInv

LEMMA StepInvariant == IInv /\ [Next]_vars => IInv'
<1> SUFFICES ASSUME IInv, [Next]_vars PROVE IInv'
  OBVIOUS
<1>1. CASE Accounts
  BY <1>1, AccountsInvariant
<1>2. ASSUME NEW c \in Calls, NEW key \in DedupeKeys, Begin(c, key) PROVE IInv'
  BY <1>2, BeginInvariant
<1>3. ASSUME NEW c \in Calls, CheckType(c) PROVE IInv'
  BY <1>3, CheckTypeInvariant
<1>4. ASSUME NEW c \in Calls, SelectExisting(c) PROVE IInv'
  BY <1>4, FoundDuplicateInvariant, MovesOn DEF SelectExisting
<1>5. ASSUME NEW c \in Calls, Insert(c) PROVE IInv'
  BY <1>5, FoundDuplicateInvariant, MovesOn DEF Insert
<1>6. ASSUME NEW c \in Calls, SelectRecipients(c) PROVE IInv'
  BY <1>6, SelectRecipientsInvariant
<1>7. ASSUME NEW c \in Calls, CommitCreated(c) PROVE IInv'
  BY <1>7, CommitCreatedInvariant
<1>8. ASSUME NEW c \in Calls, CommitDuplicate(c) PROVE IInv'
  BY <1>8, CommitDuplicateInvariant
<1>9. ASSUME NEW c \in Calls, Rollback(c) PROVE IInv'
  BY <1>9, IdleFits, AnswersUnchanged, CallMoves DEF Rollback
<1>10. CASE UNCHANGED vars
  BY <1>10 DEF vars, tables, accounts, IInv, TypeOK, AccountsTypeOK, SessionsInv, HeldIsKnown,
     RepliesWereTrue, Undecided, PublishInv, InsertersAlone, DuplicatesStored, AnswersStored,
     DeliveriesStored, OneOccurrencePerKey, IdsAreOwn, HasOwnId, HoldsKey, Stored,
     HistoryBrackets, Recipients, Subscribers, Permitted, RecipientMatches
<1>11. QED
  BY <1>1, <1>2, <1>3, <1>4, <1>5, <1>6, <1>7, <1>8, <1>9, <1>10 DEF Next, Publish

-----------------------------------------------------------------------------
(* The strengthening holds in every reachable state.                       *)
THEOREM InvariantHolds == Spec => []IInv
BY InitInvariant, StepInvariant, PTL DEF Spec

(* Every reachable state is well typed.                                    *)
THEOREM TypeCorrect == Spec => []TypeOK
<1>1. IInv => TypeOK
  BY DEF IInv
<1>2. QED
  BY <1>1, InvariantHolds, PTL

(* A dedupe key names at most one stored occurrence, however many requests *)
(* race for it.                                                            *)
THEOREM OneOccurrencePerKeyHolds == Spec => []OneOccurrencePerKey
<1>1. IInv => OneOccurrencePerKey
  BY DEF IInv, PublishInv
<1>2. QED
  BY <1>1, InvariantHolds, PTL

(* An answer names a stored occurrence, and a key has one.                 *)
LEMMA InvariantAnswersAgree == IInv => AnswersAgree
BY DEF IInv, PublishInv, AnswersStored, OneOccurrencePerKey, AnswersAgree

(* All responses under a dedupe key name the occurrence that is stored.    *)
THEOREM AnswersAgreeHolds == Spec => []AnswersAgree
BY InvariantAnswersAgree, InvariantHolds, PTL

(* A subscription call that answers reports what was so during the call.   *)
THEOREM RepliesWereTrueHolds == Spec => []RepliesWereTrue
<1>1. IInv => RepliesWereTrue
  BY DEF IInv, SessionsInv
<1>2. QED
  BY <1>1, InvariantHolds, PTL

(* Only COMMIT of a new occurrence changes the tables.                     *)
LEMMA OnlyCommitsStore ==
  ASSUME IInv, [Next]_vars,
         occurrences' # occurrences \/ deliveries' # deliveries
  PROVE  \E c \in Calls : CommitCreated(c)
BY DEF Next, Publish, Accounts, Begin, CheckType, SelectExisting, Insert, SelectRecipients,
   CommitDuplicate, Rollback, vars, tables

(* COMMIT adds the deliveries of its own event, which is new.              *)
LEMMA StepAddsNoRecipients ==
  ASSUME IInv, [Next]_vars, NEW d \in deliveries' \ deliveries, NEW o \in occurrences
  PROVE  o.id # d.event
<1>1. PICK c \in Calls : CommitCreated(c)
  BY OnlyCommitsStore
<1>2. d.event = call[c].id
  BY <1>1 DEF CommitCreated
<1>3. QED
  BY <1>1, <1>2, CommitCreatedFacts

(* Deliveries are only ever added with their event.                        *)
THEOREM NoLateRecipientsHolds == Spec => NoLateRecipients
<1> DEFINE A == \A d \in deliveries' \ deliveries : \A o \in occurrences : o.id # d.event
<1>1. IInv /\ [Next]_vars => [A]_vars
  BY StepAddsNoRecipients
<1>2. QED
  BY <1>1, InvariantHolds, PTL DEF Spec, NoLateRecipients

(* The COMMIT of a request reaches the recipients it selected.             *)
LEMMA StepReachesEntitled ==
  ASSUME IInv, [Next]_vars, NEW c \in Calls,
         occurrences' # occurrences, call[c].pc = "commit", call'[c] = Idle
  PROVE  LET reached == {u \in Users : [event |-> call[c].id, user |-> u] \in deliveries'}
         IN  call[c].always \subseteq reached /\ reached \subseteq call[c].ever
<1> DEFINE reached == {u \in Users : [event |-> call[c].id, user |-> u] \in deliveries'}
<1>1. CommitCreated(c)
  <2>1. PICK b \in Calls : CommitCreated(b)
    BY OnlyCommitsStore
  <2>2. b = c
    BY <2>1, CommitCreatedFacts DEF Idle
  <2>3. QED
    BY <2>1, <2>2
<1>2. /\ call[c].to \in SUBSET Users
      /\ \A d \in deliveries : d.event # call[c].id
  BY <1>1, CommitCreatedFacts DEF IInv, PublishInv, DeliveriesStored
<1>3. deliveries' = deliveries \union [event : {call[c].id}, user : call[c].to]
  BY <1>1 DEF CommitCreated
<1>4. reached = call[c].to
  BY <1>2, <1>3
<1>5. QED
  BY <1>4 DEF IInv, HistoryBrackets

(* A publication reaches those who qualified all along, and only those who *)
(* qualified at some moment.                                               *)
THEOREM RecipientsWereEntitledHolds == Spec => RecipientsWereEntitled
<1> DEFINE A == \A c \in Calls :
                  occurrences' # occurrences /\ call[c].pc = "commit" /\ call'[c] = Idle
                  => LET reached ==
                           {u \in Users : [event |-> call[c].id, user |-> u] \in deliveries'}
                     IN  call[c].always \subseteq reached /\ reached \subseteq call[c].ever
<1>1. IInv /\ [Next]_vars => [A]_vars
  BY StepReachesEntitled
<1>2. QED
  BY <1>1, InvariantHolds, PTL DEF Spec, RecipientsWereEntitled

(***************************************************************************)
(* The refinement: an event of the promise is an occurrence together with  *)
(* its deliveries.                                                         *)
(***************************************************************************)
PublishedEvents == {Published(o) : o \in occurrences}

LEMMA InitPromise == Init => Promise!Init
BY DEF Init, Promise!Init

(* The events change with the tables only.                                 *)
LEMMA EventsUnchanged ==
  ASSUME UNCHANGED tables
  PROVE  PublishedEvents' = PublishedEvents
<1>1. \A o : Published(o)' = Published(o)
  BY DEF Published, tables
<1>2. QED
  BY <1>1 DEF PublishedEvents, tables

(* COMMIT adds one event, whole, and leaves the others as they are.        *)
LEMMA CommitPublishes ==
  ASSUME IInv, NEW c \in Calls, CommitCreated(c)
  PROVE  Promise!Publish(call[c].key, call[c].id, call[c].to)
<1>1. PICK key, id, to : key = call[c].key /\ id = call[c].id /\ to = call[c].to
  OBVIOUS
<1> DEFINE o == [key |-> key, id |-> id]
           e == [key |-> key, id |-> id, to |-> to]
<1>2. to \in SUBSET Users /\ \A p \in occurrences : p.key # key /\ p.id # id
  BY <1>1, CommitCreatedFacts
<1>3. /\ occurrences' = occurrences \union {o}
      /\ deliveries' = deliveries \union [event : {id}, user : to]
  BY <1>1 DEF CommitCreated
<1>4. ASSUME NEW p \in occurrences PROVE Published(p)' = Published(p)
  <2>1. \A u \in Users : [event |-> p.id, user |-> u] \in deliveries'
                         <=> [event |-> p.id, user |-> u] \in deliveries
    BY <1>2, <1>3
  <2>2. QED
    BY <2>1 DEF Published
<1>5. Published(o)' = e
  <2>1. \A d \in deliveries : d.event # id
    BY <1>2 DEF IInv, PublishInv, DeliveriesStored
  <2>2. \A u \in Users : [event |-> id, user |-> u] \in deliveries' <=> u \in to
    BY <1>3, <2>1
  <2>3. {u \in Users : [event |-> id, user |-> u] \in deliveries'} = to
    BY <1>2, <2>2
  <2>4. QED
    BY <2>3 DEF Published
<1>6. PublishedEvents' = PublishedEvents \union {e}
  BY <1>3, <1>4, <1>5 DEF PublishedEvents
<1>7. \A f \in PublishedEvents : f.key # key /\ f.id # id
  BY <1>2 DEF PublishedEvents, Published
<1>8. /\ \A f \in PublishedEvents : f.key # call[c].key /\ f.id # call[c].id
      /\ PublishedEvents' = PublishedEvents
           \union {[key |-> call[c].key, id |-> call[c].id, to |-> call[c].to]}
  BY <1>1, <1>6, <1>7
<1>9. QED
  BY <1>8 DEF CommitCreated, Respond, Promise!Publish, Promise!Tell, PublishedEvents

(* The answer to a duplicate names an event that is there.                 *)
LEMMA DuplicateRepeats ==
  ASSUME IInv, NEW c \in Calls, CommitDuplicate(c)
  PROVE  \E e \in PublishedEvents : Promise!Repeat(e)
<1> DEFINE o == [key |-> call[c].key, id |-> call[c].id]
<1>1. o \in occurrences /\ PublishedEvents' = PublishedEvents
  BY EventsUnchanged DEF CommitDuplicate, IInv, PublishInv, DuplicatesStored
<1>2. Published(o) \in PublishedEvents
  BY <1>1 DEF PublishedEvents
<1>3. Published(o).key = call[c].key /\ Published(o).id = call[c].id
  BY DEF Published
<1>4. Promise!Repeat(Published(o))
  BY <1>1, <1>3 DEF CommitDuplicate, Respond, Promise!Repeat, Promise!Tell, PublishedEvents
<1>5. QED
  BY <1>2, <1>4

LEMMA PromiseStep == IInv /\ [Next]_vars => [Promise!Next]_(Promise!vars)
<1> SUFFICES ASSUME IInv, [Next]_vars PROVE [Promise!Next]_(Promise!vars)
  OBVIOUS
<1>1. ASSUME UNCHANGED <<tables, answers>>
      PROVE  UNCHANGED Promise!vars
  BY <1>1, EventsUnchanged DEF Promise!vars, PublishedEvents
<1>2. ASSUME NEW c \in Calls, CommitCreated(c)
      PROVE  Promise!Next
  <2>1. call[c].key \in DedupeKeys /\ call[c].id \in Ids /\ call[c].to \in SUBSET Users
    BY <1>2, CommitCreatedFacts
  <2>2. QED
    BY <1>2, <2>1, CommitPublishes DEF Promise!Next
<1>3. ASSUME NEW c \in Calls, CommitDuplicate(c)
      PROVE  Promise!Next
  BY <1>3, DuplicateRepeats DEF Promise!Next, PublishedEvents
<1>4. QED
  BY <1>1, <1>2, <1>3 DEF Next, Publish, Accounts, Begin, CheckType, SelectExisting, Insert,
     SelectRecipients, Rollback, vars

(* Requests that race, are rolled back and repeated, among administrators  *)
(* and subscribers, implement the promise.                                 *)
THEOREM PublicationKeepsPromise == Spec => PublishesOnce
BY InitPromise, PromiseStep, InvariantHolds, PTL DEF Spec, PublishesOnce, Promise!Spec
=============================================================================
