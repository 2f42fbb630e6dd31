------------------------- MODULE MCEventPublication -------------------------
(* A small instance of EventPublication: one user (no statement relates    *)
(* two), two match keys of which the event carries one, one dedupe key,    *)
(* two transactions at a time.  The operator registers the event type with *)
(* keys that must be watched, or without any and closed to subscribers;    *)
(* the user may have subscribed, with or without keys, before that.        *)
EXTENDS EventPublication

CONSTANTS k1, k2

MCCarriedKeys == [key \in DedupeKeys |-> {k1}]
MCWatchChoices == {{}, {k2}}
MCEntries ==
  {[options |-> {k1, k2}, required |-> TRUE, subscribable |-> TRUE],
   [options |-> {}, required |-> FALSE, subscribable |-> FALSE]}
=============================================================================
