-------------------------- MODULE MCProviderRunner --------------------------
(* A small instance of ProviderRunner: a day, the night that follows it    *)
(* with a malformed goal, and the next day, with new bounties and ghouls.  *)
(* The night ends at 9030, which is cut to 9000.                           *)
EXTENDS ProviderRunner

CONSTANTS cetus, konzu, ghoul

Goal == [id |-> 7, activation |-> 8000, expiry |-> 20000, success |-> FALSE]

Undated == [id |-> 8, activation |-> Missing, expiry |-> 20000, success |-> FALSE]

Success == [id |-> 6, activation |-> 0, expiry |-> 20000, success |-> TRUE]

MCPayload ==
  << [time |-> 1000, mission |-> [seed |-> 1, expiry |-> 9030], goals |-> <<Success>>],
     [time |-> 6000, mission |-> [seed |-> 1, expiry |-> 9030], goals |-> <<Undated, Goal>>],
     [time |-> 9000, mission |-> [seed |-> 2, expiry |-> 18000], goals |-> <<Success, Goal>>] >>

MCKindOf == [p \in Providers |->
  CASE p = cetus -> "cetus_night" [] p = konzu -> "konzu_rotation" [] p = ghoul -> "ghoul_event"]

MCInterval == [p \in Providers |-> IF p = cetus THEN 1 ELSE 2]

MCDeployments ==
  {[instances |-> {cetus, ghoul}, faults |-> 1],
   [instances |-> {cetus}, faults |-> 2],
   [instances |-> {konzu}, faults |-> 3]}
=============================================================================
