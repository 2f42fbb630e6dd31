----------------------------- MODULE WarframeFeed -----------------------------
(***************************************************************************)
(* What one payload of the Warframe world state says to each provider, and *)
(* which changes between two observations a provider announces             *)
(* (providers/warframe/worldstate_adapter.py and the three providers).     *)
(*                                                                         *)
(* A payload is [time, mission, goals]: the seconds of its Time field, the *)
(* Cetus mission [seed, expiry] or Missing, and the sequence of goals with *)
(* the ghouls' tag [id, activation, expiry, success] or Missing when Goals *)
(* is not an array of objects; an id, or a date that is malformed, may be  *)
(* Missing too.                                                            *)
(***************************************************************************)
EXTENDS Integers, Sequences

CONSTANT Missing   \* a section absent from a payload, or malformed

Kinds == {"cetus_night", "konzu_rotation", "ghoul_event"}

CetusNightSeconds == 3000

Minute == 60

(* The end of the bounties is the end of a night; it is cut to a minute.   *)
BountyEnd(payload) == payload.mission.expiry - (payload.mission.expiry % Minute)

IsNight(payload) == BountyEnd(payload) - payload.time <= CetusNightSeconds

Dated(goal) == Missing \notin {goal.activation, goal.expiry}

Active(goal, payload) ==
  Dated(goal) /\ goal.activation <= payload.time /\ payload.time < goal.expiry /\ ~ goal.success

ActiveGoals(payload) == {i \in DOMAIN payload.goals : Active(payload.goals[i], payload)}

FirstActive(payload) ==
  LET first == CHOOSE i \in ActiveGoals(payload) : \A j \in ActiveGoals(payload) : i <= j
  IN  payload.goals[first]

GoalIdentity(goal) ==
  IF goal.id # Missing THEN <<goal.id>> ELSE <<goal.activation, goal.expiry>>

(* The dates of the goals before the first active one are read as well.    *)
MeetsUndatedGoal(payload) ==
  \E i \in DOMAIN payload.goals :
    ~ Dated(payload.goals[i]) /\ \A j \in ActiveGoals(payload) : i < j

(* The extraction or the normalisation raises.                             *)
Unreadable(kind, payload) ==
  CASE kind = "cetus_night" ->
         payload.mission = Missing \/ BountyEnd(payload) <= payload.time
    [] kind = "konzu_rotation" -> payload.mission = Missing
    [] kind = "ghoul_event" -> payload.goals = Missing \/ MeetsUndatedGoal(payload)

(* The observation of a readable payload: its identity, which is also the  *)
(* dedupe key of the event it may cause, and the flag in its state (TRUE   *)
(* for the rotation, which has none).                                      *)
Observe(kind, payload) ==
  CASE kind = "cetus_night" ->
         [identity |-> <<BountyEnd(payload), IsNight(payload)>>, on |-> IsNight(payload)]
    [] kind = "konzu_rotation" ->
         [identity |-> <<payload.mission.seed, payload.mission.expiry>>, on |-> TRUE]
    [] kind = "ghoul_event" ->
         IF ActiveGoals(payload) = {}
         THEN [identity |-> << >>, on |-> FALSE]
         ELSE [identity |-> GoalIdentity(FirstActive(payload)), on |-> TRUE]

(* A mutant of OnsetAnnounced: identities are compared, so that the end of *)
(* a night is announced as well.                                           *)
AnyChangeAnnounced(previous, current) == previous.identity # current.identity

(* evaluate: a night or a ghoul event is announced when its flag comes on, *)
(* a rotation when its identity changes.                                   *)
OnsetAnnounced(previous, current) == ~ previous.on /\ current.on

RotationAnnounced(previous, current) == previous.identity # current.identity

Announces(kind, previous, current) ==
  IF kind = "konzu_rotation"
  THEN RotationAnnounced(previous, current)
  ELSE OnsetAnnounced(previous, current)
=============================================================================
