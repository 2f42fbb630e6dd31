------------------------ MODULE ProviderRunnerProofs ------------------------
(***************************************************************************)
(* Proofs about ProviderRunner, for any provider instances, payloads,      *)
(* intervals, runners and number of faults: the types, and the safety      *)
(* properties of the checkpoints, the leases and the announced events; and *)
(* that the runners implement FeedPromise.                                 *)
(***************************************************************************)
EXTENDS ProviderRunner, FiniteSetTheorems, TLAPS

(***************************************************************************)
(* The inductive invariant.                                                *)
(***************************************************************************)
RunnerStates ==
  [pc : {"idle", "fetching", "working", "processing", "recording", "releasing", "gone"},
   batch : SUBSET Providers, payload : {0} \union Versions,
   lease : Providers \union {NoProvider}, before : {0} \union Versions,
   owned : BOOLEAN, tries : 0..(MaxAttempts - 1)]

Checkpoints ==
  [owner : Runners \union {NoRunner}, left : -1..LeaseSeconds, seen : {0} \union Versions]

Types ==
  /\ feed \in Versions
  /\ enabled \subseteq Providers
  /\ dueIn \in [Providers -> Nat]
  /\ checkpoint \in [Providers -> Checkpoints]
  /\ announced = [p \in Providers |-> announced[p]]
  /\ runner \in [Runners -> RunnerStates]
  /\ faultsLeft \in Nat
  /\ late \in BOOLEAN

(* What a runner in state s holds, as the checkpoints are now.             *)
Holds(s) ==
  /\ s.pc = "idle" => s.batch = {} /\ s.lease = NoProvider
  /\ s.pc \in {"idle", "fetching", "gone"} => s.payload = 0
  /\ s.pc = "fetching" => s.lease = NoProvider
  /\ s.pc \in {"processing", "recording", "releasing"} => s.lease \in s.batch
  /\ s.pc = "processing" =>
       /\ s.payload # 0
       /\ Readable(s.lease, s.payload)
       /\ s.before = checkpoint[s.lease].seen
       /\ s.owned => checkpoint[s.lease].seen <= s.payload

(* A row is locked by one runner.                                          *)
LocksAreExclusive ==
  \A r, s \in Runners :
    runner[r].pc = "processing" /\ runner[s].pc = "processing" /\ runner[r].lease = runner[s].lease
    => r = s

(* The owner of a lease has fetched a payload no older than the            *)
(* checkpoint, if any.                                                     *)
OwnerIsFresh(p, s) == s.payload # 0 => checkpoint[p].seen <= s.payload

OwnersAreFresh ==
  \A p \in Providers, r \in Runners : checkpoint[p].owner = r => OwnerIsFresh(p, runner[r])

Served ==
  /\ \A p \in Providers : checkpoint[p].seen <= feed
  /\ \A r \in Runners : runner[r].payload <= feed

IInv ==
  /\ Types
  /\ \A r \in Runners : Holds(runner[r])
  /\ LocksAreExclusive
  /\ OwnersAreFresh
  /\ Served
  /\ OnlyOnsets

-----------------------------------------------------------------------------
(* The constants and the operators.                                        *)

LEMMA VersionFacts ==
  /\ Versions \subseteq Nat \ {0}
  /\ 1 \in Versions
  /\ \A v \in Versions, w \in Nat \ {0} : w <= v => w \in Versions
<1>1. \A S : Payload \in Seq(S) /\ Payload # << >> => Len(Payload) \in Nat \ {0}
             /\ DOMAIN Payload = 1..Len(Payload)
  OBVIOUS
<1>2. Len(Payload) \in Nat \ {0} /\ Versions = 1..Len(Payload)
  BY <1>1, ProviderRunnerAssumption DEF Versions
<1>3. QED
  BY <1>2

LEMMA VersionOrNone == \A v \in {0} \union Versions : v \in Nat
BY VersionFacts

(* Only a change is announced, and only one that shows the condition on.   *)
LEMMA AnnouncesFacts ==
  ASSUME NEW p \in Providers, NEW v, NEW w, Announces(KindOf[p], Observation(p, v), Observation(p, w))
  PROVE  /\ Observation(p, v) # Observation(p, w)
         /\ Observation(p, w) = [identity |-> Observation(p, w).identity, on |-> TRUE]
<1>1. KindOf[p] \in Kinds
  BY ProviderRunnerAssumption
<1>2. Observation(p, v) # Observation(p, w)
  BY DEF Announces, OnsetAnnounced, RotationAnnounced
<1>3. CASE KindOf[p] = "konzu_rotation"
  BY <1>2, <1>3 DEF Observation, Observe
<1>4. CASE KindOf[p] = "cetus_night"
  BY <1>2, <1>4 DEF Announces, OnsetAnnounced, Observation, Observe
<1>5. CASE KindOf[p] = "ghoul_event"
  BY <1>2, <1>5 DEF Announces, OnsetAnnounced, Observation, Observe
<1>6. QED
  BY <1>1, <1>2, <1>3, <1>4, <1>5 DEF Kinds

(* Payload v shows the onset with this key to instance p.                  *)
Shows(p, v, key) == Observation(p, v) = [identity |-> key, on |-> TRUE]

LEMMA EventsFacts ==
  ASSUME NEW p \in Providers, NEW v, NEW w, NEW key \in Events(p, v, w)
  PROVE  v # 0 /\ v # w /\ Shows(p, w, key)
BY AnnouncesFacts DEF Events, Shows

LEMMA RunnerFacts ==
  ASSUME Types, NEW r \in Runners
  PROVE  runner[r] \in RunnerStates
BY DEF Types

LEMMA StateIsRecord ==
  ASSUME NEW s \in RunnerStates
  PROVE  s = [pc |-> s.pc, batch |-> s.batch, payload |-> s.payload,
              lease |-> s.lease, before |-> s.before, owned |-> s.owned, tries |-> s.tries]
BY DEF RunnerStates

LEMMA ReleasedFacts ==
  ASSUME NEW c \in Checkpoints
  PROVE  /\ c.owner \in Runners \union {NoRunner} /\ c.left \in Int
         /\ c.seen \in {0} \union Versions
         /\ Released(c) = [owner |-> NoRunner, left |-> -1, seen |-> c.seen]
         /\ Released(c) \in Checkpoints
<1>1. c = [owner |-> c.owner, left |-> c.left, seen |-> c.seen]
  BY DEF Checkpoints
<1>2. Released(c) = [owner |-> NoRunner, left |-> -1, seen |-> c.seen]
  <2>1. Released(c) = [[owner |-> c.owner, left |-> c.left, seen |-> c.seen]
                       EXCEPT !.owner = NoRunner, !.left = -1]
    BY <1>1 DEF Released
  <2>2. QED
    BY <2>1
<1>3. c.owner \in Runners \union {NoRunner} /\ c.left \in -1..LeaseSeconds
      /\ c.seen \in {0} \union Versions /\ LeaseSeconds \in Nat \ {0}
  BY ProviderRunnerAssumption DEF Checkpoints
<1>4. -1 \in -1..LeaseSeconds
  BY <1>3
<1>5. QED
  BY <1>2, <1>3, <1>4 DEF Checkpoints

LEMMA LeasedFacts ==
  ASSUME NEW c \in Checkpoints, NEW r \in Runners
  PROVE  LET d == [c EXCEPT !.owner = r, !.left = LeaseSeconds]
         IN  d \in Checkpoints /\ d.owner = r /\ d.seen = c.seen
<1> DEFINE d == [c EXCEPT !.owner = r, !.left = LeaseSeconds]
<1>1. c = [owner |-> c.owner, left |-> c.left, seen |-> c.seen]
  BY DEF Checkpoints
<1>2. d = [[owner |-> c.owner, left |-> c.left, seen |-> c.seen]
           EXCEPT !.owner = r, !.left = LeaseSeconds]
  BY <1>1
<1>3. d = [owner |-> r, left |-> LeaseSeconds, seen |-> c.seen]
  <2> HIDE DEF d
  <2>1. QED
    BY <1>2
<1>4. c.seen \in {0} \union Versions /\ LeaseSeconds \in -1..LeaseSeconds
  BY ProviderRunnerAssumption, ReleasedFacts
<1> HIDE DEF d
<1>5. d \in Checkpoints /\ d.owner = r /\ d.seen = c.seen
  BY <1>3, <1>4 DEF Checkpoints
<1>6. QED
  BY <1>5 DEF d

LEMMA TickedFacts ==
  ASSUME NEW c \in Checkpoints
  PROVE  LET d == [c EXCEPT !.left = IF @ >= 0 THEN @ - 1 ELSE @]
         IN  d \in Checkpoints /\ d.owner = c.owner /\ d.seen = c.seen
<1> DEFINE left == IF c.left >= 0 THEN c.left - 1 ELSE c.left
           d == [c EXCEPT !.left = left]
<1>1. c.left \in -1..LeaseSeconds /\ LeaseSeconds \in Nat
  BY ProviderRunnerAssumption DEF Checkpoints
<1>2. left \in -1..LeaseSeconds
  BY <1>1
<1> HIDE DEF left
<1>3. d \in Checkpoints /\ d.owner = c.owner /\ d.seen = c.seen
  BY <1>2 DEF Checkpoints
<1>4. QED
  BY <1>3 DEF left

LEMMA IdleFacts == Idle \in RunnerStates /\ Holds(Idle) /\ Idle.payload = 0 /\ Idle.pc = "idle"
BY ProviderRunnerAssumption DEF Idle, RunnerStates, Holds

Fetching(batch) ==
  [pc |-> "fetching", batch |-> batch, payload |-> 0, lease |-> NoProvider,
   before |-> 0, owned |-> FALSE, tries |-> 0]

LEMMA FetchingFacts ==
  ASSUME NEW batch \in SUBSET Providers
  PROVE  /\ [Idle EXCEPT !.pc = "fetching", !.batch = batch] = Fetching(batch)
         /\ Fetching(batch) \in RunnerStates
<1>1. 0 \in 0..(MaxAttempts - 1)
  BY ProviderRunnerAssumption
<1>2. [Idle EXCEPT !.pc = "fetching", !.batch = batch] = Fetching(batch)
  <2> DEFINE t == [Idle EXCEPT !.pc = "fetching", !.batch = batch]
  <2>1. PICK s : s = t
    OBVIOUS
  <2>2. s = Fetching(batch)
    BY <2>1 DEF Idle, Fetching
  <2>3. QED
    BY <2>1, <2>2
<1>3. Fetching(batch) \in RunnerStates
  BY <1>1 DEF Fetching, RunnerStates
<1>4. QED
  BY <1>2, <1>3

LEMMA InitIInv == Init => IInv
<1> SUFFICES ASSUME Init PROVE IInv
  OBVIOUS
<1> USE DEF Init
<1>1. Idle \in RunnerStates
  BY ProviderRunnerAssumption DEF Idle, RunnerStates
<1>2. [owner |-> NoRunner, left |-> -1, seen |-> 0] \in Checkpoints
  BY ProviderRunnerAssumption DEF Checkpoints
<1>3. Types
  BY <1>1, <1>2, VersionFacts, ProviderRunnerAssumption DEF Types
<1>4. \A r \in Runners : Holds(runner[r])
  BY DEF Holds, Idle
<1>5. LocksAreExclusive /\ OwnersAreFresh /\ Served /\ OnlyOnsets
  BY ProviderRunnerAssumption DEF LocksAreExclusive, OwnersAreFresh, Served, OnlyOnsets, Idle
<1>6. QED
  BY <1>3, <1>4, <1>5 DEF IInv

-----------------------------------------------------------------------------
(* The states a runner moves to.                                           *)

(* The state after a lease is done with.                                   *)
LEMMA FinishedFacts ==
  ASSUME Types, NEW r \in Runners
  PROVE  /\ Finished(r) \in RunnerStates
         /\ Holds(Finished(r))
         /\ Finished(r).pc \in {"idle", "working"}
         /\ Finished(r).batch = runner[r].batch \ {runner[r].lease}
         /\ Finished(r).payload \in {0, runner[r].payload}
<1> DEFINE rest == runner[r].batch \ {runner[r].lease}
<1>1. runner[r] \in RunnerStates /\ MaxAttempts \in Nat \ {0}
  BY RunnerFacts, ProviderRunnerAssumption
<1>2. CASE rest = {}
  <2>1. Finished(r) = Idle
    BY <1>2 DEF Finished
  <2>2. QED
    BY <1>1, <1>2, <2>1 DEF Idle, RunnerStates, Holds
<1>3. CASE rest # {}
  <2>1. Finished(r) = [Idle EXCEPT !.pc = "working", !.batch = rest, !.payload = runner[r].payload]
    BY <1>3 DEF Finished
  <2>2. Finished(r) = [pc |-> "working", batch |-> rest, payload |-> runner[r].payload,
                       lease |-> NoProvider, before |-> 0, owned |-> FALSE, tries |-> 0]
    BY <2>1 DEF Idle
  <2>3. Finished(r) \in RunnerStates
    BY <1>1, <2>2 DEF RunnerStates
  <2>4. Holds(Finished(r))
    BY <2>2 DEF Holds
  <2>5. QED
    BY <2>2, <2>3, <2>4
<1>4. QED
  BY <1>2, <1>3

LEMMA RecordFacts ==
  ASSUME Types, NEW r \in Runners, NEW p \in runner[r].batch
  PROVE  /\ Record(r, p) \in RunnerStates
         /\ Holds(Record(r, p))
         /\ Record(r, p).pc = "recording"
         /\ Record(r, p).batch = runner[r].batch
         /\ Record(r, p).payload = runner[r].payload
         /\ Record(r, p).lease = p
<1>1. runner[r] \in RunnerStates /\ MaxAttempts \in Nat \ {0}
  BY RunnerFacts, ProviderRunnerAssumption
<1>2. Record(r, p) = [pc |-> "recording", batch |-> runner[r].batch, payload |-> runner[r].payload,
                      lease |-> p, before |-> 0, owned |-> FALSE, tries |-> 0]
  <2>1. Record(r, p) = [[pc |-> runner[r].pc, batch |-> runner[r].batch,
                         payload |-> runner[r].payload, lease |-> runner[r].lease,
                         before |-> runner[r].before, owned |-> runner[r].owned,
                         tries |-> runner[r].tries]
                        EXCEPT !.pc = "recording", !.lease = p, !.before = 0, !.owned = FALSE, !.tries = 0]
    BY <1>1, StateIsRecord DEF Record
  <2>2. QED
    BY <2>1
<1>3. Record(r, p) \in RunnerStates
  <2>1. /\ runner[r].batch \in SUBSET Providers /\ runner[r].payload \in {0} \union Versions
        /\ p \in Providers
    BY <1>1 DEF RunnerStates
  <2>2. 0 \in 0..(MaxAttempts - 1)
    BY <1>1
  <2>3. QED
    BY <1>2, <2>1, <2>2 DEF RunnerStates
<1>4. Holds(Record(r, p))
  BY <1>2 DEF Holds
<1>5. QED
  BY <1>2, <1>3, <1>4

(* A step of a runner that changes nothing but the runner.                 *)
LEMMA RunnerMoves ==
  ASSUME IInv, NEW r \in Runners, NEW t \in RunnerStates,
         runner' = [runner EXCEPT ![r] = t],
         UNCHANGED <<feed, enabled, dueIn, checkpoint, announced, late>>,
         faultsLeft' \in Nat,
         Holds(t), runner[r].pc # "gone",
         t.pc = "processing" =>
           \A s \in Runners : runner[s].pc = "processing" /\ runner[s].lease = t.lease => s = r,
         t.pc = "gone" \/ t.batch = runner[r].batch,
         t.payload \in {0, runner[r].payload, feed}
  PROVE  IInv'
<1>1. Types /\ LocksAreExclusive /\ OwnersAreFresh /\ Served /\ OnlyOnsets
  BY DEF IInv
<1>2. \A s \in Runners : runner'[s] = IF s = r THEN t ELSE runner[s]
  BY <1>1 DEF Types
<1>3. Types'
  BY <1>1 DEF Types
<1>4. \A s \in Runners : Holds(runner[s])'
  <2> SUFFICES ASSUME NEW s \in Runners PROVE Holds(runner[s])'
    OBVIOUS
  <2>1. Holds(runner'[s])
    BY <1>2 DEF IInv
  <2>2. QED
    BY <2>1 DEF Holds
<1>5. LocksAreExclusive'
  BY <1>1, <1>2 DEF LocksAreExclusive
<1>6. OwnersAreFresh'
  <2> SUFFICES ASSUME NEW p \in Providers, NEW s \in Runners, checkpoint[p].owner = s
               PROVE  OwnerIsFresh(p, runner'[s])
    BY DEF OwnersAreFresh, OwnerIsFresh
  <2>1. CASE s # r
    BY <1>1, <1>2, <2>1 DEF OwnersAreFresh
  <2>2. CASE s = r
    <3>1. OwnerIsFresh(p, runner[r]) /\ checkpoint[p].seen <= feed
      BY <1>1, <2>2 DEF OwnersAreFresh, Served
    <3>2. OwnerIsFresh(p, t)
      BY <3>1 DEF OwnerIsFresh
    <3>3. QED
      BY <1>2, <2>2, <3>2
  <2>3. QED
    BY <2>1, <2>2
<1>7. Served'
  BY <1>1, <1>2, VersionFacts DEF Served, Types
<1>8. OnlyOnsets'
  BY <1>1 DEF OnlyOnsets
<1>9. QED
  BY <1>3, <1>4, <1>5, <1>6, <1>7, <1>8 DEF IInv

(* A step that takes the lease of r's instance away, and nothing else of   *)
(* the checkpoints.                                                        *)
LEMMA RecordFailureMoves ==
  ASSUME IInv, NEW r \in Runners, RecordFailure(r)
  PROVE  IInv'
<1> DEFINE p == runner[r].lease
           t == Finished(r)
<1>1. Types /\ LocksAreExclusive /\ OwnersAreFresh /\ Served /\ OnlyOnsets
      /\ runner[r] \in RunnerStates /\ p \in runner[r].batch /\ p \in Providers
  BY RunnerFacts DEF IInv, Holds, RecordFailure, RunnerStates
<1>2. /\ t \in RunnerStates /\ Holds(t) /\ t.pc \in {"idle", "working"}
      /\ t.batch = runner[r].batch \ {p} /\ t.payload \in {0, runner[r].payload}
  BY <1>1, FinishedFacts
<1>3. \A s \in Runners : runner'[s] = IF s = r THEN t ELSE runner[s]
  BY <1>1 DEF RecordFailure, Types
<1>4. /\ checkpoint' \in [Providers -> Checkpoints]
      /\ \A q \in Providers : checkpoint'[q].seen = checkpoint[q].seen
      /\ \A q \in Providers : checkpoint'[q].owner \in {NoRunner, checkpoint[q].owner}
  <2>1. CASE runner[r].owned
    <3>1. checkpoint' = [checkpoint EXCEPT ![p] = Released(checkpoint[p])]
      BY <2>1 DEF RecordFailure
    <3>2. checkpoint \in [Providers -> Checkpoints]
      BY <1>1 DEF Types
    <3>3. QED
      BY <1>1, <3>1, <3>2, ReleasedFacts
  <2>2. CASE ~ runner[r].owned
    BY <1>1, <2>2 DEF RecordFailure, Types
  <2>3. QED
    BY <2>1, <2>2
<1>5. Types'
  BY <1>1, <1>2, <1>4 DEF Types, RecordFailure
<1>6. \A s \in Runners : Holds(runner[s])'
  <2> SUFFICES ASSUME NEW s \in Runners PROVE Holds(runner[s])'
    OBVIOUS
  <2>1. Holds(runner'[s]) /\ (runner'[s].pc = "processing" => runner'[s].lease \in Providers)
    BY <1>1, <1>2, <1>3, RunnerFacts DEF IInv, RunnerStates, Holds
  <2>2. QED
    BY <1>4, <2>1 DEF Holds
<1>7. LocksAreExclusive'
  BY <1>1, <1>2, <1>3 DEF LocksAreExclusive
<1>8. OwnersAreFresh'
  <2> SUFFICES ASSUME NEW q \in Providers, NEW s \in Runners, checkpoint'[q].owner = s
               PROVE  OwnerIsFresh(q, runner[s])'
    BY DEF OwnersAreFresh, OwnerIsFresh
  <2>1. checkpoint[q].owner = s
    BY <1>4, ProviderRunnerAssumption
  <2>2. OwnerIsFresh(q, runner[s])
    BY <1>1, <2>1 DEF OwnersAreFresh
  <2>3. CASE s # r
    BY <1>3, <1>4, <2>2, <2>3 DEF OwnerIsFresh
  <2>4. CASE s = r
    BY <1>2, <1>3, <1>4, <2>2, <2>4 DEF OwnerIsFresh
  <2>5. QED
    BY <2>3, <2>4
<1>9. Served'
  BY <1>1, <1>2, <1>3, <1>4, VersionFacts DEF Served, Types, RecordFailure
<1>10. OnlyOnsets'
  BY <1>1 DEF OnlyOnsets, RecordFailure
<1>11. QED
  BY <1>5, <1>6, <1>7, <1>8, <1>9, <1>10 DEF IInv

(* A transaction that processes a lease takes effect: the checkpoint goes  *)
(* to a newer payload, and the lease is given back.                        *)
LEMMA ProcessedFacts ==
  ASSUME IInv, NEW r \in Runners, runner[r].pc = "processing", Processed(r)
  PROVE  LET p == runner[r].lease
             v == runner[r].payload
         IN  /\ p \in runner[r].batch /\ p \in Providers /\ r # NoRunner
             /\ v \in Versions /\ Readable(p, v)
             /\ runner[r].before = checkpoint[p].seen
             /\ checkpoint[p].seen <= v /\ v <= feed
             /\ checkpoint' \in [Providers -> Checkpoints]
             /\ checkpoint'[p] = [owner |-> NoRunner, left |-> -1, seen |-> v]
             /\ \A q \in Providers : q # p => checkpoint'[q] = checkpoint[q]
             /\ announced' = [q \in Providers |-> announced'[q]]
             /\ announced'[p] = announced[p] \union Events(p, checkpoint[p].seen, v)
             /\ \A q \in Providers : q # p => announced'[q] = announced[q]
<1> DEFINE p == runner[r].lease
           v == runner[r].payload
           c == [Released(checkpoint[p]) EXCEPT !.seen = v]
<1>1. Types /\ Holds(runner[r]) /\ OwnersAreFresh /\ Served
      /\ runner[r].batch \in SUBSET Providers /\ v \in {0} \union Versions
      /\ checkpoint \in [Providers -> Checkpoints]
  BY RunnerFacts DEF IInv, RunnerStates, Types
<1>2. /\ p \in runner[r].batch /\ p \in Providers
      /\ v \in Versions /\ Readable(p, v)
      /\ runner[r].before = checkpoint[p].seen
  BY <1>1 DEF Holds
<1>3. runner[r].owned
  BY DEF Processed
<1>4. checkpoint[p].seen <= v /\ v <= feed
  BY <1>1, <1>3 DEF Holds, Served
<1>5. c = [owner |-> NoRunner, left |-> -1, seen |-> v]
  BY <1>1, <1>2, ReleasedFacts
<1>6. c \in Checkpoints
  BY <1>2, <1>5, ProviderRunnerAssumption DEF Checkpoints
<1>7. checkpoint' = [checkpoint EXCEPT ![p] = c]
  BY DEF Processed
<1>8. announced' = [announced EXCEPT ![p] = announced[p] \union Events(p, runner[r].before, v)]
  BY DEF Processed
<1>9. DOMAIN announced = Providers
  BY <1>1 DEF Types
<1>10. r # NoRunner
  BY ProviderRunnerAssumption
<1>11. QED
  BY <1>1, <1>2, <1>3, <1>4, <1>5, <1>6, <1>7, <1>8, <1>9, <1>10

(* The same, for the instance that is processed and for the others.        *)
LEMMA ProcessedLeased ==
  ASSUME IInv, NEW r \in Runners, runner[r].pc = "processing", Processed(r),
         NEW p \in Providers, p = runner[r].lease
  PROVE  /\ checkpoint[p].seen <= runner[r].payload
         /\ checkpoint'[p] = [owner |-> NoRunner, left |-> -1, seen |-> runner[r].payload]
         /\ announced'[p] = announced[p] \union Events(p, checkpoint[p].seen, runner[r].payload)
BY ProcessedFacts

LEMMA ProcessedOthers ==
  ASSUME IInv, NEW r \in Runners, runner[r].pc = "processing", Processed(r),
         NEW q \in Providers, q # runner[r].lease
  PROVE  checkpoint'[q] = checkpoint[q] /\ announced'[q] = announced[q]
<1>1. \A p \in Providers : p # runner[r].lease => checkpoint'[p] = checkpoint[p]
  BY ProcessedFacts
<1>2. \A p \in Providers : p # runner[r].lease => announced'[p] = announced[p]
  BY ProcessedFacts
<1>3. QED
  BY <1>1, <1>2

(* What is announced then was shown by the payload.                        *)
LEMMA ProcessedShown ==
  ASSUME IInv, NEW r \in Runners, runner[r].pc = "processing", Processed(r), feed' = feed
  PROVE  OnlyOnsets'
<1> DEFINE p == runner[r].lease
           v == runner[r].payload
<1>1. Types /\ OnlyOnsets
  BY DEF IInv
<1>2. SUFFICES ASSUME NEW q \in Providers, NEW key \in announced'[q]
               PROVE  \E w \in 2..feed : Readable(q, w) /\ Shows(q, w, key)
  BY DEF OnlyOnsets, Shows
<1>3. CASE key \in announced[q]
  BY <1>1, <1>3 DEF OnlyOnsets, Shows
<1>4. CASE key \notin announced[q]
  <2>1. q = p /\ key \in Events(p, checkpoint[p].seen, v)
    <3>1. q = p
      BY <1>2, <1>4, ProcessedOthers
    <3>2. announced'[q] = announced[q] \union Events(q, checkpoint[q].seen, v)
      BY <3>1, ProcessedLeased
    <3>3. key \in Events(q, checkpoint[q].seen, v)
      BY <1>2, <1>4, <3>2
    <3>4. QED
      BY <3>1, <3>3
  <2>2. /\ p \in Providers /\ v \in Versions /\ Readable(p, v)
        /\ checkpoint[p].seen <= v /\ v <= feed
    BY ProcessedFacts
  <2>3. /\ checkpoint[p].seen # 0 /\ checkpoint[p].seen # v
        /\ Shows(p, v, key)
    BY <2>1, <2>2, EventsFacts
  <2>4. feed \in Nat /\ checkpoint[p].seen \in {0} \union Versions
    BY <1>1, <2>2, VersionFacts, ReleasedFacts DEF Types
  <2> DEFINE seen == checkpoint[p].seen
  <2>5. seen \in Nat /\ v \in Nat
    BY <2>2, <2>4, VersionFacts, VersionOrNone
  <2>6. seen # 0 /\ seen # v /\ seen <= v /\ v <= feed /\ feed \in Nat
    BY <2>2, <2>3, <2>4
  <2>7. v \in 2..feed
    <3> HIDE DEF seen, v, p
    <3>1. QED
      BY <2>5, <2>6
  <2>8. QED
    BY <2>1, <2>2, <2>3, <2>7
<1>5. QED
  BY <1>3, <1>4

LEMMA ProcessedMoves ==
  ASSUME IInv, NEW r \in Runners, runner[r].pc = "processing", Processed(r),
         NEW t \in RunnerStates, runner' = [runner EXCEPT ![r] = t],
         UNCHANGED <<feed, enabled, dueIn, late>>, faultsLeft' \in Nat,
         Holds(t), t.pc \in {"idle", "working", "recording"},
         runner[r].batch \ {runner[r].lease} \subseteq t.batch,
         t.payload \in {0, runner[r].payload}
  PROVE  IInv'
<1> DEFINE p == runner[r].lease
           v == runner[r].payload
<1>1. Types /\ LocksAreExclusive /\ OwnersAreFresh /\ Served
  BY DEF IInv
<1>0. /\ p \in Providers /\ v <= feed
      /\ checkpoint'[p] = [owner |-> NoRunner, left |-> -1, seen |-> v]
      /\ \A q \in Providers : q # p => checkpoint'[q] = checkpoint[q]
  BY ProcessedFacts
<1>2. \A s \in Runners : runner'[s] = IF s = r THEN t ELSE runner[s]
  BY <1>1 DEF Types
<1>3. Types'
  BY <1>1, ProcessedFacts DEF Types
<1>4. \A s \in Runners : Holds(runner[s])'
  <2> SUFFICES ASSUME NEW s \in Runners PROVE Holds(runner[s])'
    OBVIOUS
  <2>1. CASE s = r
    BY <1>2, <2>1 DEF Holds
  <2>2. CASE s # r
    <3>1. Holds(runner[s]) /\ runner'[s] = runner[s]
      BY <1>2, <2>2 DEF IInv
    <3>2. runner[s].pc = "processing" => runner[s].lease # p /\ runner[s].lease \in Providers
      BY <1>1, <2>2, <3>1, RunnerFacts DEF LocksAreExclusive, Holds, RunnerStates
    <3>3. runner[s].pc = "processing" =>
            checkpoint'[runner[s].lease] = checkpoint[runner[s].lease]
      BY <1>0, <3>2
    <3>4. QED
      BY <3>1, <3>3 DEF Holds
  <2>3. QED
    BY <2>1, <2>2
<1>5. LocksAreExclusive'
  BY <1>1, <1>2 DEF LocksAreExclusive
<1>6. OwnersAreFresh'
  <2> SUFFICES ASSUME NEW q \in Providers, NEW s \in Runners, checkpoint'[q].owner = s
               PROVE  OwnerIsFresh(q, runner[s])'
    BY DEF OwnersAreFresh
  <2>1. q # p /\ checkpoint'[q] = checkpoint[q]
    BY <1>0, ProviderRunnerAssumption
  <2>2. OwnerIsFresh(q, runner[s])
    BY <1>1, <2>1 DEF OwnersAreFresh
  <2>3. QED
    BY <1>2, <2>1, <2>2 DEF OwnerIsFresh
<1>7. Served'
  <2>1. \A q \in Providers : checkpoint'[q].seen <= feed
    BY <1>0, <1>1 DEF Served
  <2>2. 0 <= feed
    BY <1>1, VersionFacts DEF Types
  <2>3. QED
    BY <1>1, <1>2, <2>1, <2>2 DEF Served
<1>8. QED
  BY <1>3, <1>4, <1>5, <1>6, <1>7, ProcessedShown DEF IInv

(* A claim takes only leases that have run out, of rows nobody locks.      *)
LEMMA ClaimMoves ==
  ASSUME IInv, NEW r \in Runners, Claim(r)
  PROVE  IInv'
<1>0. PICK batch \in SUBSET Providers : ClaimBatch(r, batch)
  BY DEF Claim
<1> DEFINE t == IF batch = {} THEN Idle ELSE Fetching(batch)
           c(p) == [checkpoint[p] EXCEPT !.owner = r, !.left = LeaseSeconds]
<1>1. Types /\ LocksAreExclusive /\ OwnersAreFresh /\ Served /\ OnlyOnsets /\ Holds(runner[r])
      /\ runner[r].pc = "idle"
  BY <1>0 DEF IInv, ClaimBatch
<1>2. /\ runner' = [runner EXCEPT ![r] = t]
      /\ t \in RunnerStates
      /\ t.pc \in {"idle", "fetching"} /\ (t.pc = "idle" => batch = {})
      /\ t.batch = batch /\ t.payload = 0 /\ t.lease = NoProvider
  <2>2. runner' = [runner EXCEPT ![r] =
          IF batch = {} THEN Idle ELSE [Idle EXCEPT !.pc = "fetching", !.batch = batch]]
    BY <1>0 DEF ClaimBatch
  <2>3. CASE batch = {}
    BY <2>2, <2>3, IdleFacts DEF Idle
  <2>4. CASE batch # {}
    <3>1. t = Fetching(batch)
      BY <2>4
    <3>2. QED
      BY <2>2, <2>4, <3>1, FetchingFacts DEF Fetching
  <2>5. QED
    BY <2>3, <2>4
<1>3. \A s \in Runners : runner'[s] = IF s = r THEN t ELSE runner[s]
  BY <1>1, <1>2 DEF Types
<1>4. \A p \in Providers : c(p) \in Checkpoints /\ c(p).owner = r /\ c(p).seen = checkpoint[p].seen
  BY <1>1, LeasedFacts DEF Types
<1>5. /\ checkpoint' \in [Providers -> Checkpoints]
      /\ \A p \in Providers :
           /\ checkpoint'[p].seen = checkpoint[p].seen
           /\ checkpoint'[p].owner = IF p \in batch THEN r ELSE checkpoint[p].owner
  <2>1. checkpoint' = [p \in Providers |-> IF p \in batch THEN c(p) ELSE checkpoint[p]]
    BY <1>0 DEF ClaimBatch
  <2> HIDE DEF c
  <2>2. QED
    BY <1>1, <1>4, <2>1 DEF Types
<1>6. dueIn' \in [Providers -> Nat]
  BY <1>0, <1>1, ProviderRunnerAssumption DEF ClaimBatch, Types
<1> HIDE DEF t
<1>7. Types'
  <2>1. runner' \in [Runners -> RunnerStates]
    BY <1>1, <1>2 DEF Types
  <2>2. QED
    BY <1>0, <1>1, <1>5, <1>6, <2>1 DEF Types, ClaimBatch
<1>8. \A s \in Runners : Holds(runner[s])'
  <2> SUFFICES ASSUME NEW s \in Runners PROVE Holds(runner[s])'
    OBVIOUS
  <2>1. CASE s = r
    BY <1>2, <1>3, <2>1 DEF Holds
  <2>2. CASE s # r
    <3>1. Holds(runner[s]) /\ runner'[s] = runner[s]
      BY <1>3, <2>2 DEF IInv
    <3>2. runner[s].pc = "processing" => runner[s].lease \in Providers
      BY <1>1, <3>1, RunnerFacts DEF Holds, RunnerStates
    <3>3. QED
      BY <1>5, <3>1, <3>2 DEF Holds
  <2>3. QED
    BY <2>1, <2>2
<1>9. LocksAreExclusive'
  BY <1>1, <1>2, <1>3 DEF LocksAreExclusive
<1>10. OwnersAreFresh'
  <2> SUFFICES ASSUME NEW p \in Providers, NEW s \in Runners, checkpoint'[p].owner = s
               PROVE  OwnerIsFresh(p, runner[s])'
    BY DEF OwnersAreFresh
  <2>1. CASE p \in batch
    BY <1>2, <1>3, <1>5, <2>1 DEF OwnerIsFresh
  <2>2. CASE p \notin batch
    <3>1. checkpoint[p].owner = s /\ OwnerIsFresh(p, runner[s])
      BY <1>1, <1>5, <2>2 DEF OwnersAreFresh
    <3>2. QED
      BY <1>2, <1>3, <1>5, <3>1 DEF OwnerIsFresh
  <2>3. QED
    BY <2>1, <2>2
<1>11. Served'
  <2>1. 0 <= feed
    BY <1>1, VersionFacts DEF Types
  <2>2. QED
    BY <1>0, <1>1, <1>2, <1>3, <1>5, <2>1 DEF Served, ClaimBatch
<1>12. OnlyOnsets'
  BY <1>0, <1>1 DEF OnlyOnsets, ClaimBatch
<1>13. QED
  BY <1>7, <1>8, <1>9, <1>10, <1>11, <1>12 DEF IInv

LEMMA EnvironmentMoves ==
  ASSUME IInv, Serve \/ Retire \/ Tick
  PROVE  IInv'
<1>1. Types /\ LocksAreExclusive /\ OwnersAreFresh /\ Served /\ OnlyOnsets
      /\ \A r \in Runners : Holds(runner[r]) /\ runner[r] \in RunnerStates
  BY RunnerFacts DEF IInv
<1>0. feed \in Versions /\ feed \in Nat
  <2>1. feed \in Versions
    BY <1>1 DEF Types
  <2>2. QED
    BY <2>1, VersionOrNone
<1>2. /\ UNCHANGED <<runner, announced>>
      /\ feed' \in Versions /\ feed <= feed'
      /\ enabled' \subseteq Providers
  <2>1. enabled \subseteq Providers
    BY <1>1 DEF Types
  <2>2. CASE Serve
    BY <1>0, <2>1, <2>2 DEF Serve
  <2>3. CASE Retire \/ Tick
    BY <1>0, <2>1, <2>3 DEF Retire, Tick
  <2>4. QED
    BY <2>2, <2>3
<1>3. /\ checkpoint' \in [Providers -> Checkpoints]
      /\ \A p \in Providers : /\ checkpoint'[p].seen = checkpoint[p].seen
                              /\ checkpoint'[p].owner = checkpoint[p].owner
  <2>1. CASE UNCHANGED checkpoint
    BY <1>1, <2>1 DEF Types
  <2>2. CASE checkpoint' = [p \in Providers |->
               [checkpoint[p] EXCEPT !.left = IF @ >= 0 THEN @ - 1 ELSE @]]
    BY <1>1, <2>2, TickedFacts DEF Types
  <2>3. QED
    BY <2>1, <2>2 DEF Serve, Retire, Tick
<1>4. dueIn' \in [Providers -> Nat] /\ faultsLeft' \in Nat /\ late' \in BOOLEAN
  <2>1. CASE Tick
    <3>1. faultsLeft' \in Nat
      <4>1. /\ Cardinality(Late) <= faultsLeft
            /\ faultsLeft' = faultsLeft - Cardinality(Late)
        BY <2>1 DEF Tick
      <4>2. Late \subseteq Runners
        BY DEF Late
      <4>3. Cardinality(Late) \in Nat
        BY <4>2, FS_Subset, FS_CardinalityType, ProviderRunnerAssumption
      <4>4. QED
        BY <1>1, <4>1, <4>3 DEF Types
    <3>2. QED
      BY <1>1, <2>1, <3>1 DEF Tick, Types
  <2>2. CASE Serve \/ Retire
    BY <1>1, <2>2 DEF Serve, Retire, Types
  <2>3. QED
    BY <2>1, <2>2
<1>5. Types'
  BY <1>1, <1>2, <1>3, <1>4 DEF Types
<1>6. \A s \in Runners : Holds(runner[s])'
  BY <1>1, <1>2, <1>3 DEF Holds, RunnerStates
<1>7. LocksAreExclusive' /\ OwnersAreFresh'
  BY <1>1, <1>2, <1>3 DEF LocksAreExclusive, OwnersAreFresh, OwnerIsFresh
<1>8. Served'
  <2>1. \A p \in Providers : checkpoint[p].seen \in Nat
    BY <1>1, VersionFacts, ReleasedFacts DEF Types
  <2>2. ASSUME NEW r \in Runners PROVE runner[r].payload \in Nat
    <3>1. runner[r].payload \in {0} \union Versions
      BY <1>1 DEF RunnerStates
    <3>2. QED
      BY <3>1, VersionOrNone
  <2>3. feed \in Nat /\ feed' \in Nat /\ feed <= feed'
    BY <1>0, <1>2, VersionOrNone
  <2>4. ASSUME NEW p \in Providers PROVE checkpoint'[p].seen <= feed'
    <3>1. checkpoint[p].seen <= feed /\ checkpoint'[p].seen = checkpoint[p].seen
      BY <1>1, <1>3 DEF Served
    <3>2. QED
      BY <2>1, <2>3, <3>1
  <2>5. ASSUME NEW r \in Runners PROVE runner'[r].payload <= feed'
    <3>1. runner[r].payload <= feed /\ runner'[r] = runner[r]
      BY <1>1, <1>2 DEF Served
    <3>2. QED
      BY <2>2, <2>3, <3>1
  <2>6. QED
    BY <2>4, <2>5 DEF Served
<1>9. OnlyOnsets'
  <2>1. feed \in Nat /\ feed' \in Nat /\ feed <= feed'
    BY <1>0, <1>2, VersionOrNone
  <2>2. 2..feed \subseteq 2..feed'
    BY <2>1
  <2>3. QED
    BY <1>1, <1>2, <2>2 DEF OnlyOnsets
<1>10. QED
  BY <1>5, <1>6, <1>7, <1>8, <1>9 DEF IInv

-----------------------------------------------------------------------------
(* Every step.                                                             *)

LEMMA FaultFacts ==
  ASSUME Types, Fault \/ UNCHANGED faultsLeft PROVE faultsLeft' \in Nat
BY DEF Types, Fault

LEMMA FetchMoves ==
  ASSUME IInv, NEW r \in Runners, Fetch(r) \/ FetchFails(r)
  PROVE  IInv'
<1> DEFINE s == runner[r]
           v == IF Fetch(r) THEN feed ELSE 0
<1>1. Types /\ s \in RunnerStates /\ Holds(s) /\ s.pc = "fetching"
  BY RunnerFacts DEF IInv, Fetch, FetchFails
<1>2. s.payload = 0 /\ v \in {0} \union Versions
  BY <1>1 DEF Holds, Types
<1> HIDE DEF v
<1>3. PICK t : t = [pc |-> "working", batch |-> s.batch, payload |-> v,
                    lease |-> s.lease, before |-> s.before, owned |-> s.owned, tries |-> s.tries]
  OBVIOUS
<1>4. s = [pc |-> s.pc, batch |-> s.batch, payload |-> 0,
           lease |-> s.lease, before |-> s.before, owned |-> s.owned, tries |-> s.tries]
  BY <1>1, <1>2, StateIsRecord
<1>5. runner' = [runner EXCEPT ![r] = t]
  <2>1. CASE Fetch(r)
    <3>1. v = feed
      BY <2>1 DEF v
    <3>2. runner' = [runner EXCEPT ![r] = [s EXCEPT !.pc = "working", !.payload = feed]]
      BY <1>1, <2>1 DEF Fetch, Types
    <3>3. PICK u : u = [s EXCEPT !.pc = "working", !.payload = feed]
      OBVIOUS
    <3>4. u = t
      <4>1. u = [[pc |-> s.pc, batch |-> s.batch, payload |-> 0,
                  lease |-> s.lease, before |-> s.before, owned |-> s.owned, tries |-> s.tries]
                 EXCEPT !.pc = "working", !.payload = feed]
        BY <1>4, <3>3
      <4>2. u = [pc |-> "working", batch |-> s.batch, payload |-> feed,
                 lease |-> s.lease, before |-> s.before, owned |-> s.owned, tries |-> s.tries]
        BY <4>1
      <4>3. QED
        BY <1>3, <3>1, <4>2
    <3>5. QED
      BY <3>2, <3>3, <3>4
  <2>2. CASE ~ Fetch(r)
    <3>1. v = 0
      BY <2>2 DEF v
    <3>2. runner' = [runner EXCEPT ![r] = [s EXCEPT !.pc = "working"]]
      BY <1>1, <2>2 DEF FetchFails, Types
    <3>3. PICK u : u = [s EXCEPT !.pc = "working"]
      OBVIOUS
    <3>4. u = t
      <4>1. u = [[pc |-> s.pc, batch |-> s.batch, payload |-> 0,
                  lease |-> s.lease, before |-> s.before, owned |-> s.owned, tries |-> s.tries]
                 EXCEPT !.pc = "working"]
        BY <1>4, <3>3
      <4>2. QED
        BY <1>3, <3>1, <4>1
    <3>5. QED
      BY <3>2, <3>3, <3>4
  <2>3. QED
    BY <2>1, <2>2
<1>6. t \in RunnerStates
  BY <1>1, <1>2, <1>3 DEF RunnerStates
<1>7. Holds(t) /\ t.pc = "working" /\ t.batch = s.batch /\ t.payload \in {0, feed}
  BY <1>3 DEF Holds, v
<1>8. UNCHANGED <<feed, enabled, dueIn, checkpoint, announced, late>> /\ faultsLeft' \in Nat
  BY <1>1, FaultFacts DEF Fetch, FetchFails
<1>9. QED
  BY <1>1, <1>5, <1>6, <1>7, <1>8, RunnerMoves

LEMMA StartMoves ==
  ASSUME IInv, NEW r \in Runners, NEW p \in Providers, Start(r, p)
  PROVE  IInv'
<1> DEFINE s == runner[r]
           before == checkpoint[p].seen
           owned == MayRelease(r, p)
<1>1. Types /\ s \in RunnerStates /\ s.pc = "working" /\ p \in s.batch
      /\ s.payload # 0 /\ Readable(p, s.payload) /\ ~ Locked(p)
      /\ before \in {0} \union Versions
  BY RunnerFacts, ReleasedFacts DEF IInv, Start, Usable, Types
<1>2. owned \in BOOLEAN /\ (owned => before <= s.payload)
  BY <1>1 DEF IInv, MayRelease, OwnersAreFresh, OwnerIsFresh
<1>3. runner' = [runner EXCEPT ![r] = [s EXCEPT !.pc = "processing", !.lease = p,
                                                !.before = before, !.owned = owned]]
  BY <1>1 DEF Start, Types
<1>4. before = checkpoint[p].seen
  OBVIOUS
<1> HIDE DEF owned, before
<1>5. PICK t : t = [pc |-> "processing", batch |-> s.batch, payload |-> s.payload,
                    lease |-> p, before |-> before, owned |-> owned, tries |-> s.tries]
  OBVIOUS
<1>6. runner' = [runner EXCEPT ![r] = t]
  <2>1. PICK u : u = [s EXCEPT !.pc = "processing", !.lease = p,
                               !.before = before, !.owned = owned]
    OBVIOUS
  <2>2. u = t
    <3>1. u = [[pc |-> s.pc, batch |-> s.batch, payload |-> s.payload,
                lease |-> s.lease, before |-> s.before, owned |-> s.owned, tries |-> s.tries]
               EXCEPT !.pc = "processing", !.lease = p, !.before = before, !.owned = owned]
      BY <1>1, <2>1, StateIsRecord
    <3>2. u = [pc |-> "processing", batch |-> s.batch, payload |-> s.payload,
               lease |-> p, before |-> before, owned |-> owned, tries |-> s.tries]
      BY <3>1
    <3>3. QED
      BY <1>5, <3>2
  <2>3. runner' = [runner EXCEPT ![r] = u]
    BY <1>3, <2>1
  <2>4. QED
    BY <2>2, <2>3
<1>7. t \in RunnerStates
  BY <1>1, <1>2, <1>5 DEF RunnerStates
<1>8. Holds(t) /\ t.batch = s.batch /\ t.payload = s.payload /\ t.lease = p
  BY <1>1, <1>2, <1>4, <1>5 DEF Holds
<1>9. \A q \in Runners : ~ (runner[q].pc = "processing" /\ runner[q].lease = p)
  BY <1>1 DEF Locked
<1>10. UNCHANGED <<feed, enabled, dueIn, checkpoint, announced, late>> /\ faultsLeft' \in Nat
  BY <1>1, FaultFacts DEF Start
<1>11. QED
  BY <1>1, <1>6, <1>7, <1>8, <1>9, <1>10, RunnerMoves

(* What raises: the lease is going to be recorded as a failure.            *)
LEMMA RecordMoves ==
  ASSUME IInv, NEW r \in Runners,
         \/ \E p \in Providers : Reject(r, p)
         \/ LeaseLost(r)
         \/ ProcessingFails(r)
  PROVE  IInv'
<1>1. Types /\ Holds(runner[r]) /\ runner[r].pc # "gone"
  BY DEF IInv, Reject, LeaseLost, ProcessingFails
<1>2. PICK p \in runner[r].batch : runner' = [runner EXCEPT ![r] = Record(r, p)]
  BY <1>1 DEF Reject, LeaseLost, ProcessingFails, Holds
<1>3. UNCHANGED <<feed, enabled, dueIn, checkpoint, announced, late>> /\ faultsLeft' \in Nat
  BY <1>1, FaultFacts DEF Reject, LeaseLost, ProcessingFails
<1>4. /\ Record(r, p) \in RunnerStates /\ Holds(Record(r, p))
      /\ Record(r, p).pc = "recording" /\ Record(r, p).batch = runner[r].batch
      /\ Record(r, p).payload = runner[r].payload
  BY <1>1, RecordFacts
<1>5. QED
  BY <1>1, <1>2, <1>3, <1>4, RunnerMoves

LEMMA ReadLeaseMoves ==
  ASSUME IInv, NEW r \in Runners, ReadLease(r)
  PROVE  IInv'
<1> DEFINE s == runner[r]
           owned == MayRelease(r, s.lease)
<1>1. Types /\ s \in RunnerStates /\ Holds(s) /\ s.pc = "recording" /\ owned \in BOOLEAN
  BY RunnerFacts DEF IInv, ReadLease, MayRelease
<1> HIDE DEF owned
<1>2. PICK t : t = [pc |-> "releasing", batch |-> s.batch, payload |-> s.payload,
                    lease |-> s.lease, before |-> s.before, owned |-> owned, tries |-> s.tries]
  OBVIOUS
<1>3. runner' = [runner EXCEPT ![r] = t]
  <2>1. PICK u : u = [s EXCEPT !.pc = "releasing", !.owned = owned]
    OBVIOUS
  <2>2. u = t
    <3>1. u = [[pc |-> s.pc, batch |-> s.batch, payload |-> s.payload,
                lease |-> s.lease, before |-> s.before, owned |-> s.owned, tries |-> s.tries]
               EXCEPT !.pc = "releasing", !.owned = owned]
      BY <1>1, <2>1, StateIsRecord
    <3>2. u = [pc |-> "releasing", batch |-> s.batch, payload |-> s.payload,
               lease |-> s.lease, before |-> s.before, owned |-> owned, tries |-> s.tries]
      BY <3>1
    <3>3. QED
      BY <1>2, <3>2
  <2>3. runner' = [runner EXCEPT ![r] = u]
    BY <1>1, <2>1 DEF ReadLease, Types, owned
  <2>4. QED
    BY <2>2, <2>3
<1>4. t \in RunnerStates
  BY <1>1, <1>2 DEF RunnerStates
<1>5. Holds(t) /\ t.pc = "releasing" /\ t.batch = s.batch /\ t.payload = s.payload
  BY <1>1, <1>2 DEF Holds
<1>6. UNCHANGED <<feed, enabled, dueIn, checkpoint, announced, late>> /\ faultsLeft' \in Nat
  BY <1>1, FaultFacts DEF ReadLease
<1>7. QED
  BY <1>1, <1>3, <1>4, <1>5, <1>6, RunnerMoves

LEMMA FinishMoves ==
  ASSUME IInv, NEW r \in Runners, Finish(r) \/ FinishUnheard(r)
  PROVE  IInv'
<1>1. /\ Types /\ Holds(runner[r]) /\ runner[r].pc = "processing" /\ Processed(r)
      /\ runner[r].lease \in runner[r].batch
  BY DEF IInv, Finish, FinishUnheard, Holds
<1>2. UNCHANGED <<feed, enabled, dueIn, late>> /\ faultsLeft' \in Nat
  BY <1>1, FaultFacts DEF Finish, FinishUnheard
<1>3. CASE Finish(r)
  <2>1. runner' = [runner EXCEPT ![r] = Finished(r)]
    BY <1>3 DEF Finish
  <2>2. QED
    BY <1>1, <1>2, <2>1, FinishedFacts, ProcessedMoves
<1>4. CASE FinishUnheard(r)
  <2>1. runner' = [runner EXCEPT ![r] = Record(r, runner[r].lease)]
    BY <1>4 DEF FinishUnheard
  <2>2. QED
    BY <1>1, <1>2, <2>1, RecordFacts, ProcessedMoves
<1>5. QED
  BY <1>3, <1>4

LEMMA DeadlockMoves ==
  ASSUME IInv, NEW r \in Runners, Deadlock(r)
  PROVE  IInv'
<1> DEFINE s == runner[r]
           pc == CASE s.pc = "processing" -> "working"
                   [] s.pc = "releasing"  -> "recording"
                   [] OTHER               -> s.pc
<1>1. Types /\ s \in RunnerStates /\ Holds(s)
      /\ s.pc \in {"idle", "processing", "recording", "releasing"}
      /\ s.tries + 1 < MaxAttempts
  BY RunnerFacts DEF IInv, Deadlock, MayTryAgain
<1>2. /\ pc \in {"idle", "working", "recording"}
      /\ pc = "idle" <=> s.pc = "idle"
      /\ pc = "recording" <=> s.pc \in {"recording", "releasing"}
  BY <1>1
<1> HIDE DEF pc
<1>3. PICK t : t = [pc |-> pc, batch |-> s.batch, payload |-> s.payload,
                    lease |-> s.lease, before |-> 0, owned |-> FALSE, tries |-> s.tries + 1]
  OBVIOUS
<1>4. runner' = [runner EXCEPT ![r] = t]
  <2>1. PICK u : u = [s EXCEPT !.tries = s.tries + 1, !.pc = pc, !.before = 0,
                     !.owned = FALSE]
    OBVIOUS
  <2>2. u = t
    <3>1. u = [[pc |-> s.pc, batch |-> s.batch, payload |-> s.payload,
                lease |-> s.lease, before |-> s.before, owned |-> s.owned, tries |-> s.tries]
               EXCEPT !.tries = s.tries + 1, !.pc = pc, !.before = 0,
                     !.owned = FALSE]
      BY <1>1, <2>1, StateIsRecord
    <3>2. u = [pc |-> pc, batch |-> s.batch, payload |-> s.payload,
               lease |-> s.lease, before |-> 0, owned |-> FALSE, tries |-> s.tries + 1]
      BY <3>1
    <3>3. QED
      BY <1>3, <3>2
  <2>3. runner' = [runner EXCEPT ![r] = u]
    BY <1>1, <2>1 DEF Deadlock, Types, pc
  <2>4. QED
    BY <2>2, <2>3
<1>5. t \in RunnerStates
  <2>1. s.tries + 1 \in 0..(MaxAttempts - 1)
    BY <1>1, ProviderRunnerAssumption DEF RunnerStates
  <2>2. QED
    BY <1>1, <1>2, <1>3, <2>1 DEF RunnerStates
<1>6. Holds(t) /\ t.pc # "processing" /\ t.batch = s.batch /\ t.payload = s.payload
  BY <1>1, <1>2, <1>3 DEF Holds
<1>7. UNCHANGED <<feed, enabled, dueIn, checkpoint, announced, late>> /\ faultsLeft' \in Nat
  BY <1>1, FaultFacts DEF Deadlock
<1>8. QED
  BY <1>1, <1>4, <1>5, <1>6, <1>7, RunnerMoves

LEMMA DieMoves ==
  ASSUME IInv, NEW r \in Runners, Die(r)
  PROVE  IInv'
<1>1. Types /\ runner[r].pc # "gone" /\ runner' = [runner EXCEPT ![r] = Gone]
  BY DEF IInv, Die
<1>2. PICK t : t = Gone
  OBVIOUS
<1>3. t = [pc |-> "gone", batch |-> {}, payload |-> 0, lease |-> NoProvider, before |-> 0,
           owned |-> FALSE, tries |-> 0]
  BY <1>2 DEF Gone, Idle
<1>4. 0 \in 0..(MaxAttempts - 1)
  BY ProviderRunnerAssumption
<1>5. t \in RunnerStates /\ Holds(t)
  BY <1>3, <1>4 DEF RunnerStates, Holds
<1>6. UNCHANGED <<feed, enabled, dueIn, checkpoint, announced, late>> /\ faultsLeft' \in Nat
  BY <1>1, FaultFacts DEF Die
<1>7. QED
  BY <1>1, <1>2, <1>3, <1>5, <1>6, RunnerMoves

LEMMA StepIInv == IInv /\ [Next]_vars => IInv'
<1>1. ASSUME IInv, UNCHANGED vars PROVE IInv'
  BY <1>1 DEF vars, IInv, Types, Holds, LocksAreExclusive, OwnersAreFresh, OwnerIsFresh, Served,
              OnlyOnsets
<1>2. ASSUME IInv, Next PROVE IInv'
  <2>1. CASE Serve \/ Retire \/ Tick
    BY <1>2, <2>1, EnvironmentMoves
  <2>2. ASSUME NEW r \in Runners, Work(r) PROVE IInv'
    BY <1>2, <2>2, ClaimMoves, FetchMoves, StartMoves, RecordMoves, FinishMoves,
       ReadLeaseMoves, RecordFailureMoves DEF Work
  <2>3. ASSUME NEW r \in Runners, Err(r) PROVE IInv'
    BY <1>2, <2>3, FetchMoves, FinishMoves, DeadlockMoves, RecordMoves, DieMoves DEF Err
  <2>4. QED
    BY <1>2, <2>1, <2>2, <2>3 DEF Next
<1>3. QED
  BY <1>1, <1>2

LEMMA Inductive == Spec => []IInv
  BY InitIInv, StepIInv, PTL DEF Spec

-----------------------------------------------------------------------------
(* The types of what is stored and of what the runners hold.               *)
THEOREM TypeCorrect == Spec => []TypeOK
<1>1. ASSUME IInv PROVE TypeOK
  <2>1. Types /\ OnlyOnsets
    BY <1>1 DEF IInv
  <2>2. ASSUME NEW p \in Providers, NEW key \in announced[p]
        PROVE  \E v \in Versions : Readable(p, v) /\ Observation(p, v).identity = key
    <3>1. PICK v \in 2..feed : Readable(p, v) /\ Observation(p, v) = [identity |-> key, on |-> TRUE]
      BY <2>1, <2>2 DEF OnlyOnsets
    <3>2. Observation(p, v).identity = key
      BY <3>1
    <3>3. v \in Versions
      <4>1. feed \in Versions /\ feed \in Nat
        BY <2>1, VersionOrNone DEF Types
      <4>2. v \in Nat \ {0} /\ v <= feed
        BY <4>1
      <4>3. QED
        BY <4>1, <4>2, VersionFacts
    <3>4. QED
      BY <3>1, <3>2, <3>3
  <2>3. QED
    BY <2>1, <2>2 DEF Types, TypeOK, Checkpoints, RunnerStates
<1>2. QED
  BY <1>1, Inductive, PTL

(* Every event that is announced is an onset the world state has shown.    *)
THEOREM OnlyOnsetsHolds == Spec => []OnlyOnsets
<1>1. IInv => OnlyOnsets
  BY DEF IInv
<1>2. QED
  BY <1>1, Inductive, PTL

(* The only steps that move a checkpoint's payload or announce.            *)
LEMMA OnlyProcessing ==
  ASSUME IInv, Next
  PROVE  \/ \E r \in Runners :
               /\ runner[r].pc = "processing" /\ Processed(r)
               /\ Finish(r) \/ FinishUnheard(r)
         \/ /\ announced' = announced
            /\ \A p \in Providers : checkpoint'[p].seen = checkpoint[p].seen
<1>1. checkpoint \in [Providers -> Checkpoints]
  BY DEF IInv, Types
<1>2. CASE Serve \/ Retire
  BY <1>2 DEF Serve, Retire
<1>3. CASE Tick
  BY <1>1, <1>3, TickedFacts DEF Tick
<1>4. ASSUME NEW r \in Runners, Claim(r)
      PROVE  announced' = announced
             /\ \A p \in Providers : checkpoint'[p].seen = checkpoint[p].seen
  <2>1. PICK batch : ClaimBatch(r, batch)
    BY <1>4 DEF Claim
  <2>2. QED
    BY <1>1, <2>1, LeasedFacts DEF ClaimBatch
<1>5. ASSUME NEW r \in Runners, RecordFailure(r)
      PROVE  announced' = announced
             /\ \A p \in Providers : checkpoint'[p].seen = checkpoint[p].seen
  <2>1. \A p \in Providers : Released(checkpoint[p]).seen = checkpoint[p].seen
    BY <1>1, ReleasedFacts
  <2>2. QED
    BY <1>1, <1>5, <2>1 DEF RecordFailure
<1>6. ASSUME NEW r \in Runners, Finish(r) \/ FinishUnheard(r)
      PROVE  runner[r].pc = "processing" /\ Processed(r)
  BY <1>6 DEF Finish, FinishUnheard
<1>7. ASSUME NEW r \in Runners,
             \/ Fetch(r) \/ FetchFails(r) \/ \E p \in Providers : Start(r, p) \/ Reject(r, p)
             \/ LeaseLost(r) \/ ReadLease(r) \/ Deadlock(r) \/ ProcessingFails(r) \/ Die(r)
      PROVE  announced' = announced /\ checkpoint' = checkpoint
  BY <1>7 DEF Fetch, FetchFails, Start, Reject, LeaseLost, ReadLease, Deadlock, ProcessingFails,
              Die
<1>8. QED
  BY <1>2, <1>3, <1>4, <1>5, <1>6, <1>7 DEF Next, Work, Err

(* The checkpoint of an instance never goes back, however runners overlap  *)
(* and whatever fails.                                                     *)
THEOREM SeenInOrderHolds == Spec => SeenInOrder
<1>1. ASSUME IInv, [Next]_vars, NEW p \in Providers
      PROVE  checkpoint[p].seen <= checkpoint'[p].seen
  <2>0. checkpoint[p].seen \in Nat
    <3>1. checkpoint[p] \in Checkpoints
      BY <1>1 DEF IInv, Types
    <3>2. QED
      BY <3>1, ReleasedFacts, VersionOrNone
  <2>1. CASE UNCHANGED vars
    BY <2>0, <2>1 DEF vars
  <2>2. CASE Next
    <3>1. CASE checkpoint'[p].seen = checkpoint[p].seen
      BY <2>0, <3>1
    <3>2. ASSUME NEW r \in Runners, runner[r].pc = "processing", Processed(r)
          PROVE  checkpoint[p].seen <= checkpoint'[p].seen
      <4>1. CASE p = runner[r].lease
        <5>1. /\ checkpoint[p].seen <= runner[r].payload
              /\ checkpoint'[p] = [owner |-> NoRunner, left |-> -1, seen |-> runner[r].payload]
          BY <1>1, <3>2, <4>1, ProcessedLeased
        <5>2. QED
          BY <5>1
      <4>2. CASE p # runner[r].lease
        <5>1. checkpoint'[p] = checkpoint[p]
          BY <1>1, <3>2, <4>2, ProcessedOthers
        <5>2. QED
          BY <2>0, <5>1
      <4>3. QED
        BY <4>1, <4>2
    <3>3. QED
      BY <1>1, <2>2, <3>1, <3>2, OnlyProcessing
  <2>3. QED
    BY <1>1, <2>1, <2>2
<1>2. IInv /\ [Next]_vars => [\A p \in Providers : checkpoint[p].seen <= checkpoint'[p].seen]_vars
  BY <1>1
<1>3. QED
  BY <1>2, Inductive, PTL DEF Spec, SeenInOrder

(* An event is stored by the step that moves the checkpoint over the       *)
(* change it announces, and by no other.                                   *)
THEOREM AnnouncedWithCheckpointHolds == Spec => AnnouncedWithCheckpoint
<1> DEFINE New(p) == IF checkpoint[p].seen = checkpoint'[p].seen \/ checkpoint[p].seen = 0
                     THEN {}
                     ELSE Events(p, checkpoint[p].seen, checkpoint'[p].seen) \ announced[p]
<1>1. ASSUME IInv, [Next]_vars, NEW p \in Providers
      PROVE  announced'[p] \ announced[p] = New(p)
  <2>1. CASE announced' = announced /\ checkpoint'[p].seen = checkpoint[p].seen
    BY <2>1
  <2>2. ASSUME NEW r \in Runners, runner[r].pc = "processing", Processed(r)
        PROVE  announced'[p] \ announced[p] = New(p)
    <3>1. CASE p = runner[r].lease
      <4>1. /\ announced'[p] = announced[p] \union Events(p, checkpoint[p].seen, runner[r].payload)
            /\ checkpoint'[p] = [owner |-> NoRunner, left |-> -1, seen |-> runner[r].payload]
        BY <1>1, <2>2, <3>1, ProcessedLeased
      <4>2. checkpoint'[p].seen = runner[r].payload
        BY <4>1
      <4>3. checkpoint[p].seen = runner[r].payload \/ checkpoint[p].seen = 0
            => Events(p, checkpoint[p].seen, runner[r].payload) = {}
        BY EventsFacts
      <4>4. QED
        BY <4>1, <4>2, <4>3
    <3>2. CASE p # runner[r].lease
      <4>1. announced'[p] = announced[p] /\ checkpoint'[p] = checkpoint[p]
        BY <1>1, <2>2, <3>2, ProcessedOthers
      <4>2. QED
        BY <4>1
    <3>3. QED
      BY <3>1, <3>2
  <2>3. CASE UNCHANGED vars
    BY <2>1, <2>3 DEF vars
  <2>4. CASE Next
    BY <1>1, <2>1, <2>2, <2>4, OnlyProcessing
  <2>5. QED
    BY <1>1, <2>3, <2>4
<1>2. IInv /\ [Next]_vars => [\A p \in Providers : announced'[p] \ announced[p] = New(p)]_vars
  BY <1>1
<1>3. QED
  BY <1>2, Inductive, PTL DEF Spec, AnnouncedWithCheckpoint

-----------------------------------------------------------------------------
(* What the runners look like from outside.                                *)

(* An instance is not retired under a transaction that processes it.       *)
ProcessesEnabled ==
  \A r \in Runners : runner[r].pc = "processing" => runner[r].lease \in enabled

LEMMA EditedFacts ==
  ASSUME NEW s \in RunnerStates, NEW p, NEW v, NEW n, NEW pc, NEW own
  PROVE  /\ [s EXCEPT !.pc = pc].pc = pc
         /\ [s EXCEPT !.pc = pc].batch = s.batch
         /\ [s EXCEPT !.pc = pc, !.payload = v].pc = pc
         /\ [s EXCEPT !.pc = pc, !.payload = v].batch = s.batch
         /\ [s EXCEPT !.pc = pc, !.owned = own].pc = pc
         /\ [s EXCEPT !.pc = pc, !.owned = own].batch = s.batch
         /\ [s EXCEPT !.pc = pc, !.owned = own].lease = s.lease
         /\ [s EXCEPT !.pc = pc, !.owned = own].owned = own
         /\ [s EXCEPT !.tries = n, !.pc = pc, !.before = v, !.owned = own].pc = pc
         /\ [s EXCEPT !.tries = n, !.pc = pc, !.before = v, !.owned = own].batch = s.batch
         /\ [s EXCEPT !.tries = n, !.pc = pc, !.before = v, !.owned = own].lease = s.lease
         /\ [s EXCEPT !.pc = pc, !.lease = p, !.before = v, !.owned = own].pc = pc
         /\ [s EXCEPT !.pc = pc, !.lease = p, !.before = v, !.owned = own].lease = p
         /\ [s EXCEPT !.pc = pc, !.lease = p, !.before = v, !.owned = own].batch = s.batch
<1>1. PICK t : t = [pc |-> s.pc, batch |-> s.batch, payload |-> s.payload,
                    lease |-> s.lease, before |-> s.before, owned |-> s.owned, tries |-> s.tries]
  OBVIOUS
<1>2. s = t
  BY <1>1, StateIsRecord
<1>3. PICK u : u = [t EXCEPT !.pc = pc]
  OBVIOUS
<1>4. PICK w : w = [t EXCEPT !.pc = pc, !.payload = v]
  OBVIOUS
<1>5. PICK x : x = [t EXCEPT !.pc = pc, !.owned = own]
  OBVIOUS
<1>6. PICK y : y = [t EXCEPT !.tries = n, !.pc = pc, !.before = v, !.owned = own]
  OBVIOUS
<1>7. PICK z : z = [t EXCEPT !.pc = pc, !.lease = p, !.before = v, !.owned = own]
  OBVIOUS
<1>8. u.pc = pc /\ u.batch = t.batch
  BY <1>1, <1>3
<1>9. w.pc = pc /\ w.batch = t.batch
  BY <1>1, <1>4
<1>10. x.pc = pc /\ x.batch = t.batch /\ x.lease = t.lease /\ x.owned = own
  BY <1>1, <1>5
<1>11. y.pc = pc /\ y.batch = t.batch /\ y.lease = t.lease
  BY <1>1, <1>6
<1>12. z.pc = pc /\ z.batch = t.batch /\ z.lease = p
  BY <1>1, <1>7
<1>13. QED
  BY <1>2, <1>3, <1>4, <1>5, <1>6, <1>7, <1>8, <1>9, <1>10, <1>11, <1>12

(* A step of r is of r alone, and leaves it processing only by Start.      *)
LEMMA OnlyStartProcesses ==
  ASSUME IInv, NEW r \in Runners, Work(r) \/ Err(r)
  PROVE  /\ enabled' = enabled
         /\ \A s \in Runners \ {r} : runner'[s] = runner[s]
         /\ runner'[r].pc = "processing" => runner'[r].lease \in enabled
<1> DEFINE s == runner[r]
<1>1. Types /\ s \in RunnerStates /\ Holds(s) /\ runner \in [Runners -> RunnerStates]
  BY RunnerFacts DEF IInv, Types
<1>2. CASE Claim(r)
  <2>1. PICK batch \in SUBSET Providers : ClaimBatch(r, batch)
    BY <1>2 DEF Claim
  <2>2. runner' = [runner EXCEPT ![r] =
          IF batch = {} THEN Idle ELSE [Idle EXCEPT !.pc = "fetching", !.batch = batch]]
    BY <2>1 DEF ClaimBatch
  <2>3. [Idle EXCEPT !.pc = "fetching", !.batch = batch].pc = "fetching"
    BY FetchingFacts DEF Fetching
  <2>4. QED
    BY <1>1, <2>1, <2>2, <2>3, IdleFacts DEF ClaimBatch
<1>3. CASE Fetch(r) \/ FetchFails(r)
  <2>1. runner' = [runner EXCEPT ![r] = [s EXCEPT !.pc = "working", !.payload = feed]]
        \/ runner' = [runner EXCEPT ![r] = [s EXCEPT !.pc = "working"]]
    BY <1>1, <1>3 DEF Fetch, FetchFails
  <2>2. enabled' = enabled
    BY <1>3 DEF Fetch, FetchFails
  <2>3. PICK t : runner' = [runner EXCEPT ![r] = t] /\ t.pc = "working"
    <3>1. PICK u : u = [s EXCEPT !.pc = "working", !.payload = feed]
      OBVIOUS
    <3>2. PICK w : w = [s EXCEPT !.pc = "working"]
      OBVIOUS
    <3>3. u.pc = "working" /\ w.pc = "working"
      BY <1>1, <3>1, <3>2, EditedFacts
    <3>4. QED
      BY <2>1, <3>1, <3>2, <3>3
  <2>4. QED
    BY <1>1, <2>2, <2>3
<1>4. ASSUME NEW p \in Providers, Start(r, p)
      PROVE  /\ enabled' = enabled
             /\ \A q \in Runners \ {r} : runner'[q] = runner[q]
             /\ runner'[r].pc = "processing" => runner'[r].lease \in enabled
  <2>1. runner' = [runner EXCEPT ![r] = [s EXCEPT !.pc = "processing", !.lease = p,
                     !.before = checkpoint[p].seen, !.owned = MayRelease(r, p)]]
    BY <1>1, <1>4 DEF Start
  <2>2. enabled' = enabled /\ p \in enabled
    BY <1>4 DEF Start, Usable
  <2>3. QED
    BY <1>1, <2>1, <2>2, EditedFacts
<1>5. ASSUME NEW p \in s.batch, runner' = [runner EXCEPT ![r] = Record(r, p)]
      PROVE  /\ \A q \in Runners \ {r} : runner'[q] = runner[q]
             /\ runner'[r].pc # "processing"
  BY <1>1, <1>5, RecordFacts
<1>6. CASE (\E p \in Providers : Reject(r, p)) \/ LeaseLost(r) \/ ProcessingFails(r)
           \/ FinishUnheard(r)
  <2>1. PICK p \in s.batch : runner' = [runner EXCEPT ![r] = Record(r, p)]
    BY <1>1, <1>6 DEF Reject, LeaseLost, ProcessingFails, FinishUnheard, Holds
  <2>2. enabled' = enabled
    BY <1>6 DEF Reject, LeaseLost, ProcessingFails, FinishUnheard
  <2>3. (\A q \in Runners \ {r} : runner'[q] = runner[q]) /\ runner'[r].pc # "processing"
    BY <1>5, <2>1
  <2>4. QED
    BY <2>2, <2>3
<1>7. CASE Finish(r) \/ RecordFailure(r)
  BY <1>1, <1>7, FinishedFacts DEF Finish, RecordFailure
<1>8. CASE Deadlock(r)
  <2> DEFINE pc == CASE s.pc = "processing" -> "working"
                     [] s.pc = "releasing"  -> "recording"
                     [] OTHER               -> s.pc
  <2>1. runner' = [runner EXCEPT ![r] = [s EXCEPT !.tries = s.tries + 1, !.pc = pc, !.before = 0,
                     !.owned = FALSE]]
    BY <1>1, <1>8 DEF Deadlock
  <2>2. pc # "processing"
    OBVIOUS
  <2> HIDE DEF pc
  <2>3. QED
    BY <1>1, <1>8, <2>1, <2>2, EditedFacts DEF Deadlock
<1>9. CASE Die(r)
  <2>1. Gone.pc = "gone"
    BY DEF Gone, Idle
  <2>2. QED
    BY <1>1, <1>9, <2>1 DEF Die
<1>10. CASE ReadLease(r)
  <2>1. runner' = [runner EXCEPT ![r] = [s EXCEPT !.pc = "releasing",
                                                  !.owned = MayRelease(r, s.lease)]]
    BY <1>1, <1>10 DEF ReadLease
  <2>2. QED
    BY <1>1, <1>10, <2>1, EditedFacts DEF ReadLease
<1>11. QED
  BY <1>2, <1>3, <1>4, <1>6, <1>7, <1>8, <1>9, <1>10 DEF Work, Err

LEMMA EnabledInductive == Spec => [](IInv /\ ProcessesEnabled)
<1>1. Init => ProcessesEnabled
  BY DEF Init, ProcessesEnabled, Idle
<1>2. IInv /\ ProcessesEnabled /\ [Next]_vars => ProcessesEnabled'
  <2> SUFFICES ASSUME IInv, ProcessesEnabled, [Next]_vars,
                      NEW q \in Runners, runner'[q].pc = "processing"
               PROVE  runner'[q].lease \in enabled'
    BY DEF ProcessesEnabled
  <2>1. CASE UNCHANGED vars \/ Serve \/ Tick
    BY <2>1 DEF vars, Serve, Tick, ProcessesEnabled
  <2>2. CASE Retire
    <3>1. runner[q].pc = "processing" /\ runner[q] \in RunnerStates /\ Holds(runner[q])
      BY <2>2, RunnerFacts DEF Retire, IInv
    <3>2. runner[q].lease \in Providers
      BY <3>1 DEF Holds, RunnerStates
    <3>3. QED
      BY <2>2, <3>1, <3>2 DEF Retire, Locked
  <2>3. ASSUME NEW r \in Runners, Work(r) \/ Err(r)
        PROVE  runner'[q].lease \in enabled'
    BY <2>3, OnlyStartProcesses DEF ProcessesEnabled
  <2>4. QED
    BY <2>1, <2>2, <2>3 DEF Next
<1>3. QED
  BY <1>1, <1>2, Inductive, PTL DEF Spec

(* The commit of a processed lease is one look of the observer.            *)
LEMMA ProcessedLooks ==
  ASSUME IInv, ProcessesEnabled, NEW r \in Runners, Finish(r) \/ FinishUnheard(r)
  PROVE  \E p \in Providers, v \in Versions : Promise!Look(p, v)
<1>1. PICK p : p = runner[r].lease
  OBVIOUS
<1>2. PICK v : v = runner[r].payload
  OBVIOUS
<1>3. PICK old : old = [q \in Providers |-> checkpoint[q].seen]
  OBVIOUS
<1>4. runner[r].pc = "processing" /\ Processed(r) /\ feed' = feed /\ enabled' = enabled
  BY DEF Finish, FinishUnheard
<1>5. /\ p \in Providers /\ v \in Versions /\ Readable(p, v)
      /\ checkpoint[p].seen <= v /\ v <= feed
      /\ checkpoint'[p] = [owner |-> NoRunner, left |-> -1, seen |-> v]
      /\ \A q \in Providers : q # p => checkpoint'[q] = checkpoint[q]
  BY <1>1, <1>2, <1>4, ProcessedFacts
<1>6. p \in enabled
  BY <1>1, <1>4 DEF ProcessesEnabled
<1>7. [q \in Providers |-> checkpoint'[q].seen] = [old EXCEPT ![p] = v]
  BY <1>3, <1>5
<1>8. announced' = [announced EXCEPT ![p] = announced[p] \union Events(p, checkpoint[p].seen, v)]
  BY <1>1, <1>2, <1>4, ProcessedFacts DEF Processed
<1>9. old[p] = checkpoint[p].seen
  BY <1>3, <1>5
<1>10. Promise!Look(p, v)
  <2>1. /\ p \in enabled /\ Readable(p, v) /\ old[p] <= v /\ v <= feed
        /\ announced' = [announced EXCEPT ![p] = announced[p] \union Events(p, old[p], v)]
        /\ feed' = feed /\ enabled' = enabled
    BY <1>4, <1>5, <1>6, <1>8, <1>9
  <2>2. QED
    BY <1>3, <1>7, <2>1 DEF Promise!Look
<1>11. QED
  BY <1>5, <1>10

LEMMA FeedStep == IInv /\ ProcessesEnabled /\ [Next]_vars => [Promise!Next]_(Promise!vars)
<1> SUFFICES ASSUME IInv, ProcessesEnabled, [Next]_vars PROVE [Promise!Next]_(Promise!vars)
  OBVIOUS
<1>1. ASSUME announced' = announced, \A p \in Providers : checkpoint'[p].seen = checkpoint[p].seen
      PROVE  /\ announced' = announced
             /\ [p \in Providers |-> checkpoint'[p].seen] = [p \in Providers |-> checkpoint[p].seen]
  BY <1>1
<1>2. CASE UNCHANGED vars
  BY <1>2 DEF vars, Promise!vars
<1>3. CASE Serve
  BY <1>3 DEF Serve, Promise!Next, Promise!Serve
<1>4. CASE Retire
  BY <1>4 DEF Retire, Promise!Next, Promise!Retire
<1>5. ASSUME NEW r \in Runners, Finish(r) \/ FinishUnheard(r)
      PROVE  Promise!Next
  BY <1>5, ProcessedLooks DEF Promise!Next
<1>6. CASE Tick \/ \E r \in Runners : Work(r) \/ Err(r)
  <2>1. feed' = feed /\ enabled' = enabled
    <3>1. CASE Tick
      BY <3>1 DEF Tick
    <3>2. ASSUME NEW r \in Runners, Work(r) PROVE feed' = feed /\ enabled' = enabled
      BY <3>2 DEF Work, Claim, ClaimBatch, Fetch, Start, Reject, Finish, LeaseLost, ReadLease,
                  RecordFailure
    <3>3. ASSUME NEW r \in Runners, Err(r) PROVE feed' = feed /\ enabled' = enabled
      BY <3>3 DEF Err, FetchFails, FinishUnheard, Deadlock, ProcessingFails, Die
    <3>4. QED
      BY <1>6, <3>1, <3>2, <3>3
  <2>2. CASE announced' = announced /\ \A p \in Providers : checkpoint'[p].seen = checkpoint[p].seen
    BY <1>1, <2>1, <2>2 DEF Promise!vars
  <2>3. QED
    BY <1>5, <1>6, <2>2, OnlyProcessing DEF Next
<1>7. QED
  BY <1>2, <1>3, <1>4, <1>6 DEF Next

(* Runners that share the instances by leases, repeat transactions and die *)
(* are one observer of each, who misses no change and announces nothing    *)
(* for an instance that is no longer enabled.                              *)
THEOREM RunnersFollowFeed == Spec => FollowsFeed
<1>1. Init => Promise!Init
  BY ProviderRunnerAssumption DEF Init, Promise!Init
<1>2. QED
  BY <1>1, FeedStep, EnabledInductive, PTL DEF Spec, FollowsFeed, Promise!Spec

-----------------------------------------------------------------------------
(* One runner for an instance, unless one of them is late.                 *)

(* HasInHand for a state of a runner, and: it is about to clear the lease. *)
InHand(s, p) == p \in s.batch /\ ~ (s.pc \in {"recording", "releasing"} /\ s.lease = p)

Clears(s, p) == s.pc = "releasing" /\ s.lease = p /\ s.owned

(* A runner in time owns what it has in hand, and nothing that ran out.    *)
InTime(r, p) ==
  /\ InHand(runner[r], p) \/ Clears(runner[r], p) => checkpoint[p].owner = r
  /\ checkpoint[p].owner = r => checkpoint[p].left >= 0

Exclusive == ~ late => \A r \in Runners : \A p \in runner[r].batch : InTime(r, p)

(* A step of a runner that clears at most the lease it holds.              *)
LEMMA HandsMove ==
  ASSUME IInv, Exclusive, NEW r \in Runners, late' = late,
         \A s \in Runners \ {r} : runner'[s] = runner[s],
         runner'[r].batch \subseteq runner[r].batch,
         \A q \in runner'[r].batch :
           /\ InHand(runner'[r], q) => InHand(runner[r], q)
           /\ Clears(runner'[r], q) => checkpoint[q].owner = r,
         \A q \in Providers :
           \/ checkpoint'[q] = checkpoint[q]
           \/ /\ checkpoint'[q].owner = NoRunner
              /\ q \in runner[r].batch /\ (InHand(runner[r], q) \/ Clears(runner[r], q))
              /\ q \in runner'[r].batch => ~ InHand(runner'[r], q) /\ ~ Clears(runner'[r], q)
  PROVE  Exclusive'
<1> SUFFICES ASSUME ~ late, NEW s \in Runners, NEW p \in runner'[s].batch
             PROVE  InTime(s, p)'
  BY DEF Exclusive
<1>1. Types /\ runner[s] \in RunnerStates /\ runner[r] \in RunnerStates /\ s # NoRunner
  BY RunnerFacts, ProviderRunnerAssumption DEF IInv
<1>2. p \in runner[s].batch /\ p \in Providers
  BY <1>1 DEF RunnerStates
<1>3. InTime(s, p)
  BY <1>2 DEF Exclusive
<1>4. InHand(runner'[s], p) \/ Clears(runner'[s], p) => checkpoint[p].owner = s
  BY <1>3 DEF InTime
<1>5. CASE checkpoint'[p] = checkpoint[p]
  BY <1>3, <1>4, <1>5 DEF InTime
<1>6. CASE checkpoint'[p] # checkpoint[p]
  <2>1. /\ checkpoint'[p].owner = NoRunner
        /\ p \in runner[r].batch /\ (InHand(runner[r], p) \/ Clears(runner[r], p))
        /\ p \in runner'[r].batch => ~ InHand(runner'[r], p) /\ ~ Clears(runner'[r], p)
    BY <1>2, <1>6
  <2>2. checkpoint[p].owner = r
    BY <2>1 DEF Exclusive, InTime
  <2>3. ~ InHand(runner'[s], p) /\ ~ Clears(runner'[s], p)
    BY <1>4, <2>1, <2>2
  <2>4. QED
    BY <1>1, <2>1, <2>3 DEF InTime
<1>7. QED
  BY <1>5, <1>6

(* A claim takes over only what ran out, and that is in no hand.           *)
LEMMA ClaimHands ==
  ASSUME IInv, Exclusive, NEW r \in Runners, Claim(r)
  PROVE  Exclusive'
<1>1. PICK batch \in SUBSET {p \in Providers : Claimable(p)} : ClaimBatch(r, batch)
  BY DEF Claim
<1>2. Types /\ Holds(runner[r]) /\ runner[r].pc = "idle" /\ r # NoRunner
      /\ checkpoint \in [Providers -> Checkpoints] /\ late' = late
      /\ \A s \in Runners : runner[s] \in RunnerStates
  BY <1>1, RunnerFacts, ProviderRunnerAssumption DEF IInv, Types, ClaimBatch
<1>3. \A q \in Providers :
        /\ q \in batch => /\ checkpoint[q].left < 0
                          /\ checkpoint'[q].owner = r /\ checkpoint'[q].left = LeaseSeconds
        /\ q \notin batch => checkpoint'[q] = checkpoint[q]
  BY <1>1, <1>2 DEF ClaimBatch, Claimable, Checkpoints
<1>4. /\ \A s \in Runners \ {r} : runner'[s] = runner[s]
      /\ runner'[r].batch = batch /\ runner'[r].pc # "releasing"
  <2>1. runner' = [runner EXCEPT ![r] =
          IF batch = {} THEN Idle ELSE [Idle EXCEPT !.pc = "fetching", !.batch = batch]]
    BY <1>1 DEF ClaimBatch
  <2>2. CASE batch = {}
    BY <1>2, <2>1, <2>2, IdleFacts DEF Types, Idle
  <2>3. CASE batch # {}
    <3>1. [Idle EXCEPT !.pc = "fetching", !.batch = batch] = Fetching(batch)
      BY FetchingFacts
    <3>2. runner' = [runner EXCEPT ![r] = Fetching(batch)]
      BY <2>1, <2>3, <3>1
    <3>3. QED
      BY <1>2, <3>2 DEF Types, Fetching
  <2>4. QED
    BY <2>2, <2>3
<1>5. SUFFICES ASSUME ~ late, NEW s \in Runners, NEW p \in runner'[s].batch
               PROVE  InTime(s, p)'
  BY <1>2 DEF Exclusive
<1>6. CASE s = r
  <2>1. p \in batch /\ p \in Providers
    BY <1>4, <1>6
  <2>2. checkpoint'[p].owner = s /\ checkpoint'[p].left >= 0
    BY <1>3, <1>6, <2>1, ProviderRunnerAssumption
  <2>3. QED
    BY <2>2 DEF InTime
<1>7. CASE s # r
  <2>1. runner'[s] = runner[s] /\ p \in Providers /\ InTime(s, p)
    BY <1>2, <1>4, <1>5, <1>7 DEF Exclusive, RunnerStates
  <2>2. checkpoint[p].left \in Int
    BY <1>2, <2>1, ReleasedFacts
  <2>3. CASE p \in batch
    <3>1. checkpoint[p].owner # s
      BY <1>3, <2>1, <2>2, <2>3 DEF InTime
    <3>2. QED
      BY <1>3, <1>7, <2>1, <2>3, <3>1 DEF InTime
  <2>4. CASE p \notin batch
    BY <1>3, <2>1, <2>4 DEF InTime
  <2>5. QED
    BY <2>3, <2>4
<1>8. QED
  BY <1>6, <1>7

(* Unless a lease runs out at work, a tick leaves those at work some time. *)
LEMMA TickHands ==
  ASSUME IInv, Exclusive, Tick
  PROVE  Exclusive'
<1> SUFFICES ASSUME ~ late', NEW r \in Runners, NEW p \in runner'[r].batch
             PROVE  InTime(r, p)'
  BY DEF Exclusive
<1>1. ~ late /\ Late = {} /\ runner' = runner
  BY DEF Tick
<1>2. Types /\ runner[r] \in RunnerStates /\ checkpoint \in [Providers -> Checkpoints]
  BY RunnerFacts DEF IInv, Types
<1>3. p \in runner[r].batch /\ p \in Providers /\ InTime(r, p)
  BY <1>1, <1>2 DEF Exclusive, RunnerStates
<1>4. checkpoint[p] \in Checkpoints /\ checkpoint[p].left \in Int
  BY <1>2, <1>3, ReleasedFacts
<1>5. ~ (checkpoint[p].owner = r /\ checkpoint[p].left = 0)
  BY <1>1, <1>3 DEF Late
<1>6. /\ checkpoint'[p].owner = checkpoint[p].owner
      /\ checkpoint[p].left >= 0 => checkpoint'[p].left = checkpoint[p].left - 1
  <2> DEFINE c == checkpoint[p]
             left == IF c.left >= 0 THEN c.left - 1 ELSE c.left
  <2>1. checkpoint'[p] = [c EXCEPT !.left = left]
    BY <1>3 DEF Tick
  <2>2. c = [owner |-> c.owner, left |-> c.left, seen |-> c.seen]
    BY <1>4 DEF Checkpoints
  <2> HIDE DEF left
  <2>3. PICK d : d = [c EXCEPT !.left = left]
    OBVIOUS
  <2>4. d = [owner |-> c.owner, left |-> left, seen |-> c.seen]
    BY <2>2, <2>3
  <2>5. QED
    BY <2>1, <2>3, <2>4 DEF left
<1>7. QED
  BY <1>1, <1>3, <1>4, <1>5, <1>6 DEF InTime

(* The steps that touch nothing but the runner.                            *)
LEMMA QuietHands ==
  ASSUME IInv, Exclusive, NEW r \in Runners,
         \/ Fetch(r) \/ FetchFails(r) \/ \E p \in Providers : Start(r, p) \/ Reject(r, p)
         \/ LeaseLost(r) \/ ReadLease(r) \/ Deadlock(r) \/ ProcessingFails(r) \/ Die(r)
  PROVE  Exclusive'
<1> DEFINE s == runner[r]
           t == runner'[r]
<1>1. /\ Types /\ s \in RunnerStates /\ Holds(s) /\ runner \in [Runners -> RunnerStates]
      /\ late' = late /\ checkpoint' = checkpoint
  BY RunnerFacts
  DEF IInv, Types, Fetch, FetchFails, Start, Reject, LeaseLost, ReadLease, Deadlock,
      ProcessingFails, Die
<1>2. \A q \in Runners \ {r} : runner'[q] = runner[q]
  BY OnlyStartProcesses DEF Work, Err
<1>3. SUFFICES /\ t.batch \subseteq s.batch
               /\ \A q \in t.batch : /\ InHand(t, q) => InHand(s, q)
                                     /\ Clears(t, q) => checkpoint[q].owner = r
  BY <1>1, <1>2, HandsMove
<1>4. CASE Fetch(r) \/ FetchFails(r) \/ \E p \in Providers : Start(r, p)
  <2>1. t.pc \in {"working", "processing"} /\ t.batch = s.batch
    <3>1. CASE Fetch(r)
      <4>1. t = [s EXCEPT !.pc = "working", !.payload = feed]
        BY <1>1, <3>1 DEF Fetch
      <4>2. QED
        BY <1>1, <4>1, EditedFacts
    <3>2. CASE FetchFails(r)
      <4>1. t = [s EXCEPT !.pc = "working"]
        BY <1>1, <3>2 DEF FetchFails
      <4>2. QED
        BY <1>1, <4>1, EditedFacts
    <3>3. ASSUME NEW p \in Providers, Start(r, p)
          PROVE  t.pc = "processing" /\ t.batch = s.batch
      <4>1. t = [s EXCEPT !.pc = "processing", !.lease = p, !.before = checkpoint[p].seen,
                          !.owned = MayRelease(r, p)]
        BY <1>1, <3>3 DEF Start
      <4>2. QED
        BY <1>1, <4>1, EditedFacts
    <3>4. QED
      BY <1>4, <3>1, <3>2, <3>3
  <2>2. s.pc \in {"fetching", "working"}
    BY <1>4 DEF Fetch, FetchFails, Start
  <2>3. QED
    BY <2>1, <2>2 DEF InHand, Clears
<1>5. CASE (\E p \in Providers : Reject(r, p)) \/ LeaseLost(r) \/ ProcessingFails(r)
  <2>1. PICK p \in s.batch : t = Record(r, p)
    BY <1>1, <1>5 DEF Reject, LeaseLost, ProcessingFails, Holds
  <2>2. s.pc \in {"working", "processing"}
    BY <1>5 DEF Reject, LeaseLost, ProcessingFails
  <2>3. t.batch = s.batch /\ t.pc = "recording"
    BY <1>1, <2>1, RecordFacts
  <2>4. QED
    BY <2>2, <2>3 DEF InHand, Clears
<1>6. CASE ReadLease(r)
  <2>1. s.pc = "recording" /\ t = [s EXCEPT !.pc = "releasing", !.owned = MayRelease(r, s.lease)]
    BY <1>1, <1>6 DEF ReadLease
  <2>2. /\ t.pc = "releasing" /\ t.batch = s.batch /\ t.lease = s.lease
        /\ t.owned = MayRelease(r, s.lease)
    BY <1>1, <2>1, EditedFacts
  <2>3. QED
    BY <2>1, <2>2 DEF InHand, Clears, MayRelease
<1>7. CASE Deadlock(r)
  <2> DEFINE pc == CASE s.pc = "processing" -> "working"
                     [] s.pc = "releasing"  -> "recording"
                     [] OTHER               -> s.pc
  <2>1. s.pc \in {"idle", "processing", "recording", "releasing"}
        /\ t = [s EXCEPT !.tries = s.tries + 1, !.pc = pc, !.before = 0, !.owned = FALSE]
    BY <1>1, <1>7 DEF Deadlock
  <2>2. /\ pc \in {"idle", "working", "recording"}
        /\ s.pc = "idle" <=> pc = "idle"
        /\ s.pc \in {"recording", "releasing"} <=> pc = "recording"
    BY <2>1
  <2> HIDE DEF pc
  <2>3. t.pc = pc /\ t.batch = s.batch /\ t.lease = s.lease
    BY <1>1, <2>1, EditedFacts
  <2>4. QED
    BY <2>2, <2>3 DEF InHand, Clears
<1>8. CASE Die(r)
  <2>1. t = Gone /\ Gone.batch = {}
    BY <1>1, <1>8 DEF Die, Gone, Idle
  <2>2. QED
    BY <2>1
<1>9. QED
  BY <1>4, <1>5, <1>6, <1>7, <1>8

(* The steps that give a lease back.                                       *)
LEMMA ReleasingHands ==
  ASSUME IInv, Exclusive, NEW r \in Runners, Finish(r) \/ FinishUnheard(r) \/ RecordFailure(r)
  PROVE  Exclusive'
<1> DEFINE s == runner[r]
           t == runner'[r]
           p == s.lease
<1>1. /\ Types /\ s \in RunnerStates /\ Holds(s) /\ runner \in [Runners -> RunnerStates]
      /\ late' = late /\ p \in s.batch /\ p \in Providers
      /\ checkpoint \in [Providers -> Checkpoints]
  BY RunnerFacts DEF IInv, Types, Finish, FinishUnheard, RecordFailure, Holds, RunnerStates
<1>2. \A q \in Runners \ {r} : runner'[q] = runner[q]
  BY OnlyStartProcesses DEF Work, Err
<1>3. \/ t = Finished(r)
      \/ s.pc = "processing" /\ t = Record(r, p)
  BY <1>1 DEF Finish, FinishUnheard, RecordFailure
<1>4. t.batch \subseteq s.batch
  BY <1>1, <1>3, FinishedFacts, RecordFacts
<1>5. ASSUME NEW q \in t.batch
      PROVE  /\ InHand(t, q) => q # p /\ InHand(s, q)
             /\ ~ Clears(t, q)
  <2>1. CASE t = Finished(r)
    <3>1. t.pc \in {"idle", "working"} /\ t.batch = s.batch \ {p}
      BY <1>1, <2>1, FinishedFacts
    <3>2. QED
      BY <1>5, <3>1 DEF InHand, Clears
  <2>2. CASE s.pc = "processing" /\ t = Record(r, p)
    <3>1. t.pc = "recording" /\ t.batch = s.batch /\ t.lease = p
      BY <1>1, <2>2, RecordFacts
    <3>2. QED
      BY <1>5, <2>2, <3>1 DEF InHand, Clears
  <2>3. QED
    BY <1>3, <2>1, <2>2
<1>6. ASSUME NEW q \in Providers
      PROVE  \/ checkpoint'[q] = checkpoint[q]
             \/ q = p /\ checkpoint'[q].owner = NoRunner /\ (InHand(s, q) \/ Clears(s, q))
  <2>1. CASE Finish(r) \/ FinishUnheard(r)
    <3>1. s.pc = "processing" /\ Processed(r)
      BY <2>1 DEF Finish, FinishUnheard
    <3>2. CASE q = p
      <4>1. checkpoint'[q].owner = NoRunner
        <5>1. checkpoint'[q] = [owner |-> NoRunner, left |-> -1, seen |-> runner[r].payload]
          BY <3>1, <3>2, ProcessedLeased
        <5>2. QED
          BY <5>1
      <4>2. InHand(s, q)
        BY <1>1, <3>1, <3>2 DEF InHand
      <4>3. QED
        BY <3>2, <4>1, <4>2
    <3>3. CASE q # p
      BY <3>1, <3>3, ProcessedOthers
    <3>4. QED
      BY <3>2, <3>3
  <2>2. CASE RecordFailure(r) /\ s.owned
    <3>1. s.pc = "releasing" /\ checkpoint' = [checkpoint EXCEPT ![p] = Released(checkpoint[p])]
      BY <2>2 DEF RecordFailure
    <3>2. Released(checkpoint[p]).owner = NoRunner
      BY <1>1, ReleasedFacts
    <3>3. QED
      BY <1>1, <2>2, <3>1, <3>2 DEF Clears
  <2>3. CASE RecordFailure(r) /\ ~ s.owned
    BY <2>3 DEF RecordFailure
  <2>4. QED
    BY <2>1, <2>2, <2>3
<1>7. QED
  BY <1>1, <1>2, <1>4, <1>5, <1>6, HandsMove

LEMMA ExclusiveInductive == Spec => [](IInv /\ Exclusive)
<1>1. Init => Exclusive
  BY DEF Init, Exclusive, Idle
<1>2. IInv /\ Exclusive /\ [Next]_vars => Exclusive'
  <2> SUFFICES ASSUME IInv, Exclusive, [Next]_vars PROVE Exclusive'
    OBVIOUS
  <2>1. CASE UNCHANGED vars \/ Serve \/ Retire
    BY <2>1 DEF vars, Serve, Retire, Exclusive, InTime
  <2>2. CASE Tick
    BY <2>2, TickHands
  <2>3. ASSUME NEW r \in Runners, Work(r) \/ Err(r)
        PROVE  Exclusive'
    <3>1. CASE Claim(r)
      BY <3>1, ClaimHands
    <3>2. CASE Finish(r) \/ FinishUnheard(r) \/ RecordFailure(r)
      BY <3>2, ReleasingHands
    <3>3. QED
      BY <2>3, <3>1, <3>2, QuietHands DEF Work, Err
  <2>4. QED
    BY <2>1, <2>2, <2>3 DEF Next
<1>3. QED
  BY <1>1, <1>2, Inductive, PTL DEF Spec

(* As long as no runner outruns a lease, an instance is in the hands of    *)
(* one runner, whatever dies, fails, is repeated or goes unheard.          *)
THEOREM OneRunnerUnlessLateHolds == Spec => []OneRunnerUnlessLate
<1>1. ASSUME IInv, Exclusive PROVE OneRunnerUnlessLate
  <2> SUFFICES ASSUME ~ late, NEW p \in Providers, NEW r \in Runners, NEW s \in Runners,
                      HasInHand(r, p), HasInHand(s, p)
               PROVE  r = s
    BY DEF OneRunnerUnlessLate
  <2>1. checkpoint[p].owner = r /\ checkpoint[p].owner = s
    BY <1>1 DEF Exclusive, InTime, InHand, HasInHand
  <2>2. QED
    BY <2>1
<1>2. QED
  BY <1>1, ExclusiveInductive, PTL
=============================================================================
