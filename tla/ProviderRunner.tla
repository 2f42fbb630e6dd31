---------------------------- MODULE ProviderRunner ----------------------------
(***************************************************************************)
(* Runners that poll the world state for provider instances                *)
(* (scheduler/leases.py, core/processing.py, providers/warframe/runner.py, *)
(* db/transactions.py).  A runner leases every due instance in one         *)
(* transaction, fetches one payload outside any transaction, and then      *)
(* processes its leases one by one, each in a transaction of its own that  *)
(* publishes, moves the checkpoint and gives the lease back.               *)
(*                                                                         *)
(*  - Times are kept as the time left: until next_run_at (0: due) and      *)
(*    until lease_until (-1: over, or no lease).  No rule compares more.   *)
(*  - A claim takes every instance it may lease: there are three and LIMIT *)
(*    is ten.  The leases of a batch are processed in any order, because   *)
(*    how long ago an instance fell due is not kept.                       *)
(*  - consecutive_failures and the observations table are written and      *)
(*    never read, and are left out.                                        *)
(*  - A transaction reads a checkpoint once, without a lock, and compares  *)
(*    the owner it read when it gives the lease back, by primary key, in a *)
(*    later step.  Its first UPDATE and COMMIT are one step: whoever wants *)
(*    the row in between waits for both or, claiming, skips it.            *)
(*  - A runner is one process: its owner name has a fresh UUID.            *)
(***************************************************************************)
EXTENDS WarframeFeed, FiniteSets

CONSTANTS
  Providers,      \* provider instances
  KindOf,         \* the provider of each
  Deployments,    \* the instances that may be enabled at first, and how many
                  \* fetches, transactions and processes may fail, and runners be late
  Interval,       \* interval_seconds of each
  LeaseSeconds,
  Runners,
  NoRunner,       \* lease_owner is NULL
  NoProvider,
  MaxAttempts,    \* attempts of run_with_deadlock_retry
  Payload         \* the payloads the world state serves, in order

Versions == DOMAIN Payload

ASSUME ProviderRunnerAssumption ==
  /\ KindOf \in [Providers -> Kinds]
  /\ Deployments \subseteq [instances : SUBSET Providers, faults : Nat]
  /\ Interval \in [Providers -> Nat \ {0}]
  /\ LeaseSeconds \in Nat \ {0}
  /\ MaxAttempts \in Nat \ {0}
  /\ Payload \in Seq([time : Int, mission : {Missing} \union [seed : Int, expiry : Int],
                      goals : {Missing} \union
                              Seq([id : Int \union {Missing}, activation : Int \union {Missing},
                                   expiry : Int \union {Missing}, success : BOOLEAN])])
  /\ Payload # << >>
  /\ IsFiniteSet(Runners)
  /\ NoRunner \notin Runners
  /\ NoProvider \notin Providers

VARIABLES
  feed,         \* the version the world state serves
  enabled,      \* the instances the deployment has not disabled
  dueIn,        \* p |-> time until next_run_at
  checkpoint,   \* p |-> lease owner, time left, version at last_success_at
  announced,    \* p |-> dedupe keys of the stored event occurrences
  runner,       \* r |-> what the process is doing
  faultsLeft,   \* how many faults may still happen
  late          \* history: a lease has run out while its runner was at work

vars == <<feed, enabled, dueIn, checkpoint, announced, runner, faultsLeft, late>>

Observation(p, v) == Observe(KindOf[p], Payload[v])

Readable(p, v) == ~ Unreadable(KindOf[p], Payload[v])

(* before and owned are what the transaction in progress read: the         *)
(* observation in the checkpoint, and whether the lease is the runner's.   *)
Idle == [pc |-> "idle", batch |-> {}, payload |-> 0, lease |-> NoProvider,
         before |-> 0, owned |-> FALSE, tries |-> 0]

Init ==
  /\ feed = 1
  /\ \E d \in Deployments : enabled = d.instances /\ faultsLeft = d.faults
  /\ dueIn = [p \in Providers |-> 0]
  /\ checkpoint = [p \in Providers |-> [owner |-> NoRunner, left |-> -1, seen |-> 0]]
  /\ announced = [p \in Providers |-> {}]
  /\ runner = [r \in Runners |-> Idle]
  /\ late = FALSE

(***************************************************************************)
(* The environment.                                                        *)
(***************************************************************************)
Serve ==
  /\ feed + 1 \in Versions
  /\ feed' = feed + 1
  /\ UNCHANGED <<enabled, dueIn, checkpoint, announced, runner, faultsLeft, late>>

(* The row of an instance is locked while it is processed; the bootstrap   *)
(* of a deployment, which disables the instances and their event types,    *)
(* waits for it.                                                           *)
Locked(p) == \E r \in Runners : runner[r].pc = "processing" /\ runner[r].lease = p

Retire ==
  /\ enabled # {}
  /\ \A p \in Providers : ~ Locked(p)
  /\ enabled' = {}
  /\ UNCHANGED <<feed, dueIn, checkpoint, announced, runner, faultsLeft, late>>

(* The runners whose leases run out before they are processed.             *)
Late ==
  {r \in Runners : \E p \in runner[r].batch :
                     checkpoint[p].owner = r /\ checkpoint[p].left = 0}

Tick ==
  /\ \E p \in Providers : dueIn[p] > 0 \/ checkpoint[p].left >= 0
  /\ Cardinality(Late) <= faultsLeft
  /\ faultsLeft' = faultsLeft - Cardinality(Late)
  /\ late' = (late \/ Late # {})
  /\ dueIn' = [p \in Providers |-> IF dueIn[p] > 0 THEN dueIn[p] - 1 ELSE 0]
  /\ checkpoint' = [p \in Providers |->
       [checkpoint[p] EXCEPT !.left = IF @ >= 0 THEN @ - 1 ELSE @]]
  /\ UNCHANGED <<feed, enabled, announced, runner>>

Fault == faultsLeft > 0 /\ faultsLeft' = faultsLeft - 1

(* A mutant of Claimable: the end of a lease is not looked at, only        *)
(* whether somebody owns it.                                               *)
ClaimableUnowned(p) ==
  p \in enabled /\ dueIn[p] = 0 /\ checkpoint[p].owner = NoRunner /\ ~ Locked(p)

(***************************************************************************)
(* run_once: claim, fetch.                                                 *)
(***************************************************************************)
Claimable(p) == p \in enabled /\ dueIn[p] = 0 /\ checkpoint[p].left < 0 /\ ~ Locked(p)

(* The rows a failure is just being recorded in may be locked and skipped. *)
BeingRecorded ==
  {p \in Providers : \E r \in Runners : runner[r].pc = "releasing" /\ runner[r].lease = p}

ClaimBatch(r, batch) ==
  /\ runner[r].pc = "idle"
  /\ dueIn' = [p \in Providers |-> IF p \in batch THEN Interval[p] ELSE dueIn[p]]
  /\ checkpoint' = [p \in Providers |->
       IF p \in batch
       THEN [checkpoint[p] EXCEPT !.owner = r, !.left = LeaseSeconds]
       ELSE checkpoint[p]]
  /\ runner' = [runner EXCEPT ![r] =
       IF batch = {} THEN Idle ELSE [Idle EXCEPT !.pc = "fetching", !.batch = batch]]
  /\ UNCHANGED <<feed, enabled, announced, faultsLeft, late>>

Claim(r) ==
  \E skipped \in SUBSET BeingRecorded :
    ClaimBatch(r, {p \in Providers : Claimable(p)} \ skipped)

Fetch(r) ==
  /\ runner[r].pc = "fetching"
  /\ runner' = [runner EXCEPT ![r].pc = "working", ![r].payload = feed]
  /\ UNCHANGED <<feed, enabled, dueIn, checkpoint, announced, faultsLeft, late>>

(* Every attempt of the client failed: nothing was fetched, and every      *)
(* lease of the batch will be recorded as a failure.                       *)
FetchFails(r) ==
  /\ runner[r].pc = "fetching"
  /\ Fault
  /\ runner' = [runner EXCEPT ![r].pc = "working"]
  /\ UNCHANGED <<feed, enabled, dueIn, checkpoint, announced, late>>

(***************************************************************************)
(* One lease: process and release in one transaction, or record a failure. *)
(***************************************************************************)
Record(r, p) == [runner[r] EXCEPT !.pc = "recording", !.lease = p,
                                  !.before = 0, !.owned = FALSE, !.tries = 0]

(* The lease is done with, one way or the other.                           *)
Finished(r) ==
  LET rest == runner[r].batch \ {runner[r].lease}
  IN  IF rest = {} THEN Idle
      ELSE [Idle EXCEPT !.pc = "working", !.batch = rest, !.payload = runner[r].payload]

(* A payload was fetched, it can be read, and the instance is enabled.      *)
Usable(r, p) ==
  runner[r].payload # 0 /\ Readable(p, runner[r].payload) /\ p \in enabled

(* A mutant of MayRelease: no comparison of the owner.                     *)
MayReleaseAny(r, p) == checkpoint[p].owner # NoRunner

(* release_provider_lease, of the checkpoint the transaction has read.     *)
MayRelease(r, p) == checkpoint[p].owner = r

(* ObservationProcessor.process locks the instance and reads the           *)
(* checkpoint.                                                             *)
Start(r, p) ==
  /\ runner[r].pc = "working"
  /\ p \in runner[r].batch
  /\ runner[r].lease \in {NoProvider, p}      \* another attempt is at the same lease
  /\ Usable(r, p)
  /\ ~ Locked(p)
  /\ runner' = [runner EXCEPT ![r].pc = "processing", ![r].lease = p,
                              ![r].before = checkpoint[p].seen, ![r].owned = MayRelease(r, p)]
  /\ UNCHANGED <<feed, enabled, dueIn, checkpoint, announced, faultsLeft, late>>

(* Extraction, normalisation or the look at the instance raises.           *)
Reject(r, p) ==
  /\ runner[r].pc = "working"
  /\ p \in runner[r].batch
  /\ runner[r].lease \in {NoProvider, p}
  /\ ~ Usable(r, p)
  /\ runner' = [runner EXCEPT ![r] = Record(r, p)]
  /\ UNCHANGED <<feed, enabled, dueIn, checkpoint, announced, faultsLeft, late>>

(* The events of an observation: none for the first of an instance.        *)
Events(p, before, v) ==
  IF before # 0 /\ Announces(KindOf[p], Observation(p, before), Observation(p, v))
  THEN {Observation(p, v).identity}
  ELSE {}

Released(c) == [c EXCEPT !.owner = NoRunner, !.left = -1]

(* A mutant of Processed: the lease is not looked at when work is done.    *)
ProcessedUnfenced(r) ==
  LET p == runner[r].lease
      v == runner[r].payload
  IN  /\ announced' = [announced EXCEPT ![p] = @ \union Events(p, runner[r].before, v)]
      /\ checkpoint' = [checkpoint EXCEPT ![p].seen = v]

(* A mutant of Processed: the checkpoint is committed before the events.   *)
ProcessedCheckpointFirst(r) ==
  LET p == runner[r].lease
      v == runner[r].payload
  IN  /\ runner[r].owned
      /\ announced' \in {announced,
                         [announced EXCEPT ![p] = @ \union Events(p, runner[r].before, v)]}
      /\ checkpoint' = [checkpoint EXCEPT ![p] = [Released(@) EXCEPT !.seen = v]]

(* The whole effect of a transaction of process and release.               *)
Processed(r) ==
  LET p == runner[r].lease
      v == runner[r].payload
  IN  /\ runner[r].owned
      /\ announced' = [announced EXCEPT ![p] = @ \union Events(p, runner[r].before, v)]
      /\ checkpoint' = [checkpoint EXCEPT ![p] = [Released(@) EXCEPT !.seen = v]]

Finish(r) ==
  /\ runner[r].pc = "processing"
  /\ Processed(r)
  /\ runner' = [runner EXCEPT ![r] = Finished(r)]
  /\ UNCHANGED <<feed, enabled, dueIn, faultsLeft, late>>

(* The connection breaks while the commit is answered: it has taken place, *)
(* and the runner sees an error that is not worth another attempt.         *)
FinishUnheard(r) ==
  /\ runner[r].pc = "processing"
  /\ Fault
  /\ Processed(r)
  /\ runner' = [runner EXCEPT ![r] = Record(r, runner[r].lease)]
  /\ UNCHANGED <<feed, enabled, dueIn, late>>

(* _process raises when the lease was another's or nobody's: everything is *)
(* rolled back.                                                            *)
LeaseLost(r) ==
  /\ runner[r].pc = "processing"
  /\ ~ runner[r].owned
  /\ runner' = [runner EXCEPT ![r] = Record(r, runner[r].lease)]
  /\ UNCHANGED <<feed, enabled, dueIn, checkpoint, announced, faultsLeft, late>>

(* record_failure reads the checkpoint.                                    *)
ReadLease(r) ==
  /\ runner[r].pc = "recording"
  /\ runner' = [runner EXCEPT ![r].pc = "releasing",
                              ![r].owned = MayRelease(r, runner[r].lease)]
  /\ UNCHANGED <<feed, enabled, dueIn, checkpoint, announced, faultsLeft, late>>

(* The rest of _record_failure: a lease read as its own is cleared, though *)
(* another runner may have claimed the instance since.                     *)
RecordFailure(r) ==
  LET p == runner[r].lease
  IN  /\ runner[r].pc = "releasing"
      /\ checkpoint' = IF runner[r].owned
                       THEN [checkpoint EXCEPT ![p] = Released(@)]
                       ELSE checkpoint
      /\ runner' = [runner EXCEPT ![r] = Finished(r)]
      /\ UNCHANGED <<feed, enabled, dueIn, announced, faultsLeft, late>>

(***************************************************************************)
(* Errors.                                                                 *)
(***************************************************************************)
Gone == [Idle EXCEPT !.pc = "gone"]

(* A process may stop as long as another one is left.                      *)
Survivor(r) == \E s \in Runners \ {r} : runner[s].pc # "gone"

(* A mutant of MayTryAgain: one attempt more.                              *)
MayTryOnceMore(r) == runner[r].tries + 1 <= MaxAttempts

(* Another attempt is left.                                                *)
MayTryAgain(r) == runner[r].tries + 1 < MaxAttempts

(* A transaction is the victim of a deadlock or of a lock timeout and is   *)
(* rolled back; the operation is called again with a new session.          *)
Deadlock(r) ==
  /\ runner[r].pc \in {"idle", "processing", "recording", "releasing"}
  /\ MayTryAgain(r)
  /\ Fault
  /\ runner' = [runner EXCEPT ![r].tries = @ + 1,
                              ![r].pc = CASE @ = "processing" -> "working"
                                          [] @ = "releasing"  -> "recording"
                                          [] OTHER            -> @,
                              ![r].before = 0, ![r].owned = FALSE]
  /\ UNCHANGED <<feed, enabled, dueIn, checkpoint, announced, late>>

(* The last attempt, or any other error of the database, is raised.        *)
ProcessingFails(r) ==
  /\ runner[r].pc = "processing"
  /\ Fault
  /\ runner' = [runner EXCEPT ![r] = Record(r, runner[r].lease)]
  /\ UNCHANGED <<feed, enabled, dueIn, checkpoint, announced, late>>

(* The process is killed, or an error of claim or of _record_failure       *)
(* leaves run_once and ends serve; an open transaction is rolled back.     *)
Die(r) ==
  /\ runner[r].pc # "gone"
  /\ Survivor(r)
  /\ Fault
  /\ runner' = [runner EXCEPT ![r] = Gone]
  /\ UNCHANGED <<feed, enabled, dueIn, checkpoint, announced, late>>

Work(r) ==
  \/ Claim(r)
  \/ Fetch(r)
  \/ \E p \in Providers : Start(r, p) \/ Reject(r, p)
  \/ Finish(r)
  \/ LeaseLost(r)
  \/ ReadLease(r)
  \/ RecordFailure(r)

Err(r) == FetchFails(r) \/ FinishUnheard(r) \/ Deadlock(r) \/ ProcessingFails(r) \/ Die(r)

Next ==
  \/ Serve
  \/ Retire
  \/ Tick
  \/ \E r \in Runners : Work(r) \/ Err(r)

Spec == Init /\ [][Next]_vars

(* Time passes and a living runner goes on (serve never stops polling);    *)
(* the world state need not change and nothing has to fail.                *)
FairSpec == Spec /\ WF_vars(Tick) /\ \A r \in Runners : WF_vars(Work(r))
-----------------------------------------------------------------------------
TypeOK ==
  /\ feed \in Versions
  /\ enabled \subseteq Providers
  /\ dueIn \in [Providers -> Nat]
  /\ checkpoint \in [Providers -> [owner : Runners \union {NoRunner}, left : -1..LeaseSeconds,
                                   seen : {0} \union Versions]]
  /\ \A p \in Providers :
       announced[p] \subseteq {Observation(p, v).identity : v \in {w \in Versions : Readable(p, w)}}
  /\ runner \in [Runners -> [pc : {"idle", "fetching", "working", "processing", "recording",
                                   "releasing", "gone"},
                             batch : SUBSET Providers, payload : {0} \union Versions,
                             lease : Providers \union {NoProvider}, before : {0} \union Versions,
                             owned : BOOLEAN, tries : 0..(MaxAttempts - 1)]]
  /\ faultsLeft \in Nat
  /\ late \in BOOLEAN

(* The checkpoint of an instance never goes back to an older payload: a    *)
(* runner that fetched before it lost its lease cannot commit after the    *)
(* runner that took over (runner.py _process, "provider lease was lost     *)
(* before processing completed").                                          *)
SeenInOrder ==
  [][\A p \in Providers : checkpoint[p].seen <= checkpoint'[p].seen]_vars

(* As long as no runner outruns its lease, an instance is in the hands of  *)
(* one runner, whatever else fails: processes die, fetches fail, deadlocks *)
(* repeat transactions.  In particular a runner that records a failure for *)
(* a commit it was not told of leaves the lease of the next runner alone   *)
(* (leases.py due_provider_statement and release_provider_lease).  A       *)
(* runner that is late may clear a lease claimed after it read the row.    *)
HasInHand(r, p) ==
  /\ p \in runner[r].batch
  /\ ~ (runner[r].pc \in {"recording", "releasing"} /\ runner[r].lease = p)

OneRunnerUnlessLate ==
  ~ late => \A p \in Providers : \A r, s \in Runners :
              HasInHand(r, p) /\ HasInHand(s, p) => r = s

(* The event of a change is stored by the very step that moves the         *)
(* checkpoint over the change, and no event is stored by any other step:   *)
(* whatever fails or is repeated, a change that was observed is not lost   *)
(* and nothing is announced that a later observation would see again       *)
(* (processing.py process, one transaction for both).                      *)
AnnouncedWithCheckpoint ==
  [][\A p \in Providers :
       LET from == checkpoint[p].seen
           to == checkpoint'[p].seen
       IN  announced'[p] \ announced[p] =
             IF from = to \/ from = 0 THEN {} ELSE Events(p, from, to) \ announced[p]]_vars

(* Seen from outside, runners that share the instances by leases, repeat   *)
(* transactions and die are one observer of each instance, who misses no   *)
(* change between two looks and announces nothing for an instance that is  *)
(* no longer enabled (runner.py run_once, processing.py process).          *)
Promise == INSTANCE FeedPromise WITH
  seen <- [p \in Providers |-> checkpoint[p].seen]

FollowsFeed == Promise!Spec

(* No night, rotation or ghoul event is announced that the world state did *)
(* not show, and no end of one is: an announced key belongs to a payload   *)
(* served so far in which it is on (the evaluate of the providers).        *)
OnlyOnsets ==
  \A p \in Providers : \A key \in announced[p] :
    \E v \in 2..feed : Readable(p, v) /\ Observation(p, v) = [identity |-> key, on |-> TRUE]

(* Every instance whose section of the payload can be read catches up with *)
(* the world state once that and the faults stop: a runner that died only  *)
(* delays its leases, and a malformed section of one provider does not     *)
(* hold up the others (runner.py run_once).                                *)
CaughtUp ==
  \A p \in Providers :
    <>[](p \notin enabled \/ ~ Readable(p, feed) \/ checkpoint[p].seen = feed)
=============================================================================
