----------------------------- MODULE FeedPromise -----------------------------
(***************************************************************************)
(* What the provider runners promise, without runners, leases, retries or  *)
(* transactions: each instance is followed by one observer that looks at   *)
(* the world state from time to time, sees it in the order it was served,  *)
(* and announces what changed since it last looked, all at once and only   *)
(* while the deployment has the instance enabled.                          *)
(*                                                                         *)
(* ProviderRunner, where several processes share the instances by leases,  *)
(* is shown to look like this from outside.                                *)
(***************************************************************************)
EXTENDS Integers

CONSTANTS
  Providers, Versions,
  Readable(_, _),        \* p, v: the section of p in payload v can be read
  Events(_, _, _)        \* p, v, w: what p announces when it sees w after v, or
                         \* after nothing when v is 0

VARIABLES feed, enabled, seen, announced

vars == <<feed, enabled, seen, announced>>

Init ==
  /\ feed = 1
  /\ enabled \in SUBSET Providers
  /\ seen = [p \in Providers |-> 0]
  /\ announced = [p \in Providers |-> {}]

Serve ==
  /\ feed + 1 \in Versions
  /\ feed' = feed + 1
  /\ UNCHANGED <<enabled, seen, announced>>

Retire ==
  /\ enabled' = {}
  /\ UNCHANGED <<feed, seen, announced>>

Look(p, v) ==
  /\ p \in enabled /\ Readable(p, v)
  /\ seen[p] <= v /\ v <= feed
  /\ seen' = [seen EXCEPT ![p] = v]
  /\ announced' = [announced EXCEPT ![p] = @ \union Events(p, seen[p], v)]
  /\ UNCHANGED <<feed, enabled>>

Next ==
  \/ Serve
  \/ Retire
  \/ \E p \in Providers, v \in Versions : Look(p, v)

Spec == Init /\ [][Next]_vars
=============================================================================
