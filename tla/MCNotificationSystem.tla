------------------------- MODULE MCNotificationSystem -------------------------
(* A small instance of NotificationSystem for TLC.                         *)
EXTENDS NotificationSystem, TLC, PayloadReference

CONSTANTS h1, h2, k1, u1, w1, p1, t1, t2, qqbot, reminder

(* One entry without match keys, as the catalogue of the publisher has it. *)
MCEntries == {[options |-> {}, required |-> FALSE, subscribable |-> TRUE]}

(* config/event-catalog.json of the publisher, with 2 seconds for a day.   *)
MCSchema ==
  [type       |-> {"object"},
   required   |-> {"request_id", "delay_seconds", "notify_at"},
   properties |->
     [request_id    |-> [type |-> {"string"}, minLength |-> 1, maxLength |-> 128],
      delay_seconds |-> [type |-> {"integer"}, minimum |-> 0, maximum |-> 2],
      notify_at     |-> [type |-> {"string"}, minLength |-> 20, maxLength |-> 64]],
   additionalProperties |-> FALSE]

MCKeyLength == [key \in DedupeKeys |-> 32]

(* The limits of the instance fit, with nothing to spare.                  *)
ASSUME LimitsFit /\ Horizon = (MaxDelay + 1) * Second - 1

Symmetry == Permutations(Handlers)

(* The part of the behaviours the run explores: both threads in a          *)
(* transaction of the server at once while nothing was administered, and   *)
(* one at a time once it was. NotificationSystemProofs has no such bound.  *)
FewAtOnce == changes + Cardinality({h \in Handlers : call[h].pc # "idle"}) <= 2

(* The default, a delay that is a little negative, an instant within a     *)
(* second, near or past, and one that is exactly at the horizon, or beyond *)
(* the longest delay, according to the time it is asked at.                *)
MCInputs ==
  {[delay |-> {}, delay_seconds |-> {}, at |-> {}],
   [delay |-> {-1}, delay_seconds |-> {}, at |-> {}]}
  \union {[delay |-> {}, delay_seconds |-> {}, at |-> {t}] : t \in {2, 6}}
=============================================================================
