--------------------------- MODULE PublishPromise ---------------------------
(***************************************************************************)
(* What POST /v1/publish/events promises the publishers, without requests, *)
(* transactions, catalogue or subscriptions: the first publication of a    *)
(* dedupe key stores an event with its recipients at once, nothing adds an *)
(* event for that key or a recipient to that event afterwards, and every   *)
(* response names the event that is stored when it is given.               *)
(*                                                                         *)
(* CONTRACT.md section 7 has the event written idempotently under its      *)
(* event_key and dedupe_key, and unique deliveries created in the same     *)
(* transaction.  EventPublication is shown to implement this, alone and in *)
(* NotificationSystem.                                                     *)
(***************************************************************************)
CONSTANTS Keys, Names, Users

VARIABLES
  events,     \* SUBSET [key : Keys, id : Names, to : SUBSET Users]
  told        \* SUBSET [key : Keys, id : Names, created : BOOLEAN]

vars == <<events, told>>

Init == events = {} /\ told = {}

(* A response may be lost.                                                 *)
Tell(answer) == told' \in {told, told \union {answer}}

Publish(key, id, to) ==
  /\ \A e \in events : e.key # key /\ e.id # id
  /\ events' = events \union {[key |-> key, id |-> id, to |-> to]}
  /\ Tell([key |-> key, id |-> id, created |-> TRUE])

Repeat(e) ==
  /\ Tell([key |-> e.key, id |-> e.id, created |-> FALSE])
  /\ UNCHANGED events

Next ==
  \/ \E key \in Keys, id \in Names, to \in SUBSET Users : Publish(key, id, to)
  \/ \E e \in events : Repeat(e)

Spec == Init /\ [][Next]_vars
=============================================================================
