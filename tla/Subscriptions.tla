---------------------------- MODULE Subscriptions ----------------------------
(***************************************************************************)
(* The catalogue row of one event type, the users and permissions, and the *)
(* subscriptions to that event: what the catalogue tool, the permission    *)
(* calls and the concurrent subscribe and unsubscribe calls do to them.    *)
(*                                                                         *)
(* A subscription call is a transaction at READ COMMITTED that reads the   *)
(* user's permissions, the event type and the subscription row one after   *)
(* the other and writes at the end.  The write follows from what was read: *)
(* an INSERT when there was no row, which fails if one has been committed  *)
(* since; an UPDATE when the keys differ from those read, which fails if   *)
(* the row is gone; a DELETE, which does not mind.  Write and COMMIT are   *)
(* one step: another call that touches the same row waits for both.        *)
(*                                                                         *)
(* No statement relates the rows of two users.  A platform and an openid   *)
(* are one user; a second event type would be a second instance.           *)
(***************************************************************************)
EXTENDS FiniteSets

CONSTANTS
  Users,
  MatchKeys,
  WatchChoices,    \* match_keys a subscriber may ask for
  NoRow,           \* no subscription row
  Entries,         \* catalogue entries the operator may register
  Sessions         \* subscription calls that can be in progress at once

Entry == [options      : SUBSET MatchKeys,   \* match_key_options
          required     : BOOLEAN,            \* match_keys_required
          subscribable : BOOLEAN]

(* CatalogEntry.validate_match_keys: a match key field is declared exactly *)
(* when options are, and keys are required only then.                      *)
HasField(entry) == entry.options # {}

ValidEntry(entry) == entry.required => HasField(entry)

ASSUME SubscriptionsAssumption ==
  /\ WatchChoices \subseteq SUBSET MatchKeys
  /\ \A keys \in SUBSET MatchKeys : keys # NoRow
  /\ Entries \subseteq Entry

VARIABLES
  entry,         \* the event_types row, as registered last
  enabled,       \* EventType.enabled
  status,        \* User.account_status, "absent" without a row
  command,       \* UserPermission "command" granted
  watched,       \* Subscription.match_keys, or NoRow
  session        \* the local state of every subscription call

accounts == <<entry, enabled, status, command, watched>>

Watch == {NoRow} \union SUBSET MatchKeys

NoSession == [pc |-> "idle"]

(* wants is the row the call is to leave: match keys, or NoRow when it     *)
(* unsubscribes.  held is history: the row was that at some moment of the  *)
(* call.  A call that missed answers about the alias it was given instead. *)
(* The user and the keys no longer matter to an answer.                    *)
Session ==
  {NoSession}
  \union [pc : {"resolve", "read"}, user : Users, wants : Watch, held : BOOLEAN]
  \union [pc : {"write"}, user : Users, wants : Watch, found : Watch, held : BOOLEAN]
  \union [pc : {"reply"}, held : BOOLEAN, missed : BOOLEAN]

AccountsTypeOK ==
  /\ entry \in Entries
  /\ enabled \in BOOLEAN
  /\ status \in [Users -> {"absent", "active", "blocked"}]
  /\ command \in [Users -> BOOLEAN]
  /\ watched \in [Users -> Watch]
  /\ session \in [Sessions -> Session]

(* A user is unknown, or has subscribed under an entry now replaced.       *)
AccountsInit ==
  /\ entry \in {e \in Entries : ValidEntry(e)}
  /\ enabled = TRUE
  /\ watched \in [Users -> {NoRow} \union WatchChoices]
  /\ status = [u \in Users |-> IF watched[u] = NoRow THEN "absent" ELSE "active"]
  /\ command = [u \in Users |-> watched[u] # NoRow]
  /\ session = [s \in Sessions |-> NoSession]

-----------------------------------------------------------------------------
(* The catalogue tool, the deployment and the administrators.              *)

(* register rewrites the row in place while the schema version is the      *)
(* same, and enables it again; it looks at no subscription.                *)
Register(e) ==
  /\ ValidEntry(e)
  /\ entry' = e
  /\ enabled' = TRUE
  /\ UNCHANGED <<status, command, watched, session>>

(* The bootstrap of a deployment retires the event if it is a legacy one,  *)
(* and makes active users with all permissions of the initial admins.      *)
Deploy(admins) ==
  /\ enabled' \in {enabled, FALSE}
  /\ status' = [u \in Users |-> IF u \in admins THEN "active" ELSE status[u]]
  /\ command' = [u \in Users |-> u \in admins \/ command[u]]
  /\ UNCHANGED <<entry, watched, session>>

(* set_permissions creates an unknown user.  bootstrap_first_admin does    *)
(* the same, granting, to a user who is not blocked.                       *)
SetCommand(u, granted) ==
  /\ status' = [status EXCEPT ![u] = IF @ = "absent" THEN "active" ELSE @]
  /\ command' = [command EXCEPT ![u] = granted]
  /\ UNCHANGED <<entry, enabled, watched, session>>

SetStatus(u, s) ==             \* by hand, in the database: no code blocks
  /\ status[u] # "absent"
  /\ status' = [status EXCEPT ![u] = s]
  /\ UNCHANGED <<entry, enabled, command, watched, session>>

-----------------------------------------------------------------------------
(* subscribe and unsubscribe.                                              *)

Permitted(u) == status[u] = "active" /\ command[u]

Continue(s, state) == session' = [session EXCEPT ![s] = state]

(* permission_snapshot; a refusal (403) changes nothing.                   *)
Ask(s, u, wants) ==
  /\ session[s] = NoSession
  /\ Permitted(u)
  /\ Continue(s, [pc |-> "resolve", user |-> u, wants |-> wants,
                  held |-> watched[u] = wants])
  /\ UNCHANGED accounts

Available == enabled /\ entry.subscribable

(* ensure_match_keys_allowed and match_keys_required.                      *)
KeysAllowed(keys) ==
  /\ keys \subseteq entry.options
  /\ entry.required => keys # {}

(* A subscription to an event that is not available, or with keys that are *)
(* not, is refused (404, 400).  unsubscribe goes on without the event,     *)
(* under the key it was given.                                             *)
Resolved(call) == call.wants # NoRow => Available /\ KeysAllowed(call.wants)

(* The key given is the event's own or an alias, which is resolved to that *)
(* while the event is available.  No row is ever stored under an alias: an *)
(* unsubscription by the alias of an event that is not available finds     *)
(* none there, and answers deleted=false (200).                            *)
Resolve(s) ==
  /\ session[s].pc = "resolve"
  /\ LET call == session[s]
     IN  \/ /\ Resolved(call)
            /\ Continue(s, [pc |-> "read", user |-> call.user, wants |-> call.wants,
                            held |-> call.held])
         \/ /\ call.wants = NoRow /\ ~ Available
            /\ Continue(s, [pc |-> "reply", held |-> call.held, missed |-> TRUE])
         \/ ~ Resolved(call) /\ Continue(s, NoSession)
  /\ UNCHANGED accounts

(* With nothing to change the call commits and answers.                    *)
ReadRow(s) ==
  /\ session[s].pc = "read"
  /\ LET call == session[s]
         found == watched[call.user]
     IN  Continue(s, IF found = call.wants
                     THEN [pc |-> "reply", held |-> call.held, missed |-> FALSE]
                     ELSE [pc |-> "write", user |-> call.user, wants |-> call.wants,
                           found |-> found, held |-> call.held])
  /\ UNCHANGED accounts

(* Mutant: an UPDATE that matches no row goes unnoticed.                   *)
WriteTakesUnchecked(call, current) ==
  IF call.wants # NoRow /\ call.found = NoRow THEN current = NoRow ELSE TRUE

(* Whether the statement that follows from what was read succeeds.         *)
WriteTakes(call, current) ==
  CASE call.wants = NoRow -> TRUE              \* DELETE
    [] call.found = NoRow -> current = NoRow   \* INSERT, primary key
    [] OTHER              -> current # NoRow   \* UPDATE, one row expected

(* What the statement leaves: an UPDATE writes an existing row only.       *)
Written(call, current) ==
  IF call.wants # NoRow /\ call.found # NoRow /\ current = NoRow
  THEN NoRow ELSE call.wants

Undecided(s) == session[s].pc \in {"resolve", "read", "write"}

WriteRow(s) ==
  /\ session[s].pc = "write"
  /\ LET call == session[s]
         row == watched[call.user]
     IN  IF WriteTakes(call, row)
         THEN /\ watched' = [watched EXCEPT ![call.user] = Written(call, row)]
              /\ session' = [r \in Sessions |->
                   IF r = s
                   THEN [pc |-> "reply", missed |-> FALSE,
                         held |-> call.held \/ watched'[call.user] = call.wants]
                   ELSE IF Undecided(r) /\ session[r].user = call.user
                   THEN [session[r] EXCEPT !.held = @ \/ watched'[call.user] = session[r].wants]
                   ELSE session[r]]
         ELSE Continue(s, NoSession) /\ UNCHANGED watched   \* 500, rolled back
  /\ UNCHANGED <<entry, enabled, status, command>>

Reply(s) ==
  /\ session[s].pc = "reply"
  /\ Continue(s, NoSession)
  /\ UNCHANGED accounts

Abandon(s) ==                  \* connection or process lost
  /\ session[s] # NoSession
  /\ Continue(s, NoSession)
  /\ UNCHANGED accounts

-----------------------------------------------------------------------------
Administer ==
  \/ \E e \in Entries : Register(e)
  \/ \E admins \in SUBSET Users : Deploy(admins)
  \/ \E u \in Users :
       \/ \E granted \in BOOLEAN : SetCommand(u, granted)
       \/ \E s \in {"active", "blocked"} : SetStatus(u, s)

SubscriptionStep(s) ==
  \/ Resolve(s)
  \/ ReadRow(s)
  \/ WriteRow(s)
  \/ Reply(s)
  \/ Abandon(s)

-----------------------------------------------------------------------------
(* However subscription calls of a user race with each other and with the  *)
(* catalogue, a call that reports success reports something that was so:   *)
(* at some moment of the call the user was subscribed with just the keys   *)
(* it asked for, or was not subscribed.  A first subscription that lost    *)
(* the race against another, or a change of keys whose row was deleted     *)
(* meanwhile, is not reported as done (subscriptions.py, subscribe and     *)
(* unsubscribe; primary key of subscriptions).  The one answer this is not *)
(* said of is deleted=false to an unsubscription by the alias of an event  *)
(* that was not available: that user may have been subscribed all along.   *)
RepliesWereTrue ==
  \A s \in Sessions :
    session[s].pc = "reply" => session[s].held \/ session[s].missed
=============================================================================
