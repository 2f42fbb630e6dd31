# Verification of hermes_event_server

TLA+ models of the event server of AutoQQ, TLC configurations that check them on
small instances, and TLAPS proofs about them. Paths in this file and in the
modules are relative to the repository; `eventserver/` stands for
`src/eventserver/`.

## The system

Publishers send events to the server, the server decides who receives them and
keeps one delivery per recipient in an outbox, and platform plugins (a QQ bot)
claim deliveries, send them and report the outcome. Administrators grant
permissions; users subscribe. All state is in one MySQL database at READ
COMMITTED (`db/session.py`); the API runs handlers in several threads and may
run in several processes, so everything below interleaves at database
statements.

| Component | State | Operations | Hard behaviour | Correct when | Module |
|---|---|---|---|---|---|
| Delivery outbox `deliveries/outbox.py`, `api/deliveries.py` | `deliveries` rows: status, attempts, next_attempt_at, lease | claim, ack, fail; expiry by the clock | several plugins, lost responses, expired leases, late and repeated answers, answers checked without a lock | one holder at a time, bounded failures, nothing early, everything settled | OutboxRows, DeliveryOutbox, OutboxTransactions, OutboxProgress, LeasePromise |
| Publication `core/publication.py`, `api/publish.py` | `event_occurrences`, `deliveries` | publish | concurrent duplicates, retries of lost responses, recipients and event type that change meanwhile | one event per dedupe key, one answer, entitled recipients only | EventPublication, PublishPromise, NotificationSystem |
| Match keys `core/match_keys.py` | none | recipient_matches, allowed keys | fail-closed cases | intersection rule | Subscriptions, EventPublication |
| Subscriptions `services/subscriptions.py`, `api/subscriptions.py` | `subscriptions` | subscribe, unsubscribe | two calls on one row, aliases, disabled events, changed requirements | what is reported as done was done | Subscriptions |
| Users and roles `services/users.py`, `api/users.py` | `users`, `user_permissions` | grant, revoke, role change | checks that count rows without locking them | an administrator remains | Administration |
| Pairing codes `services/pairing.py` | `pairing_codes` | create, approve, expiry | code tested and consumed without a lock | used once | Administration |
| First administrator `bootstrap_admin.py`, `bootstrap.py` | the same tables | bootstrap_first_admin, bootstrap | named lock, count before lock | only when there is none | Administration |
| Catalogue `catalog_admin.py` | `event_types` | register, retirement | requirements change under subscriptions and under requests | older subscriptions go on | Subscriptions, EventPublication |
| Provider processing `core/processing.py`, scheduler `scheduler/leases.py`, runner `providers/warframe/runner.py` | `provider_instances`, `provider_checkpoints`, `observations` | claim due providers, process, record failure, release | lease lost during a fetch, crash between steps, retry of a transaction, a payload of which one section is malformed | no observed change lost or announced twice, nothing older after something newer | WarframeFeed, ProviderRunner, FeedPromise |
| scheduled-reminder `publishers/scheduled-reminder` | last_checked_at in memory | run_once | partial failure, restart, catch-up limit, DST | each reminder due while it runs published, in order, none twice | ReminderSchedule, ScheduledReminder |
| demo-reminder `publishers/demo-reminder` | threads in progress | submit | choice, truncation and limits of the delay; timeouts and repetition of a request | reminded once, not early; accepted requests fit the server's limits | DemoReminder, NotificationSystem |
| Publisher registration, publisher authentication `publisher_admin.py`, `auth/publisher.py` | `event_publishers` | upsert, search by token, prefix test | rotation while requests come | only registered publishers, within their prefixes | Publishers, NotificationSystem |
| Payload schema `core/schema_validation.py` | none | validate_payload | order of tests, early returns | agrees with the keywords read one by one | PayloadValues, PayloadSchema, PayloadReference |
| Service authentication, API schemas, configuration, logging, migrations, scripts | | | | | not modelled (see below) |

Interaction: the handlers share nothing but the database. Publication reads
`subscriptions`, `users` and `user_permissions`, which administration and
subscription calls write, and inserts the `deliveries` the outbox serves. The
runner calls the publication service in its own transaction. Publishers and
plugins are HTTP clients that may lose a request or its response and repeat it.

## The modules

* **OutboxRows** - one row of `deliveries` and the operations as functions from a
  row to a row: the WHERE and ORDER BY of `claim_statement`, the row a claim, an
  ack, a retry or a death leaves, the test of `_leased`, the backoff. The three
  lease columns are written together and are one field; a lease token, a fresh
  random string of which only equality is used, is the ordinal of the claim.
* **DeliveryOutbox** - every API call is one step. `now` is `utc_now()`, `row` the
  table, `held[w]` the tokens plugin `w` remembers; a plugin may answer any of them
  at any time and any number of times (`Ack`, `Fail`), and lose any of them
  (`Forget`: lost response, crash). A refused answer changes nothing and is a
  stuttering step. `failures` is a history variable.
* **LeasePromise** - what the outbox promises without rows, tokens or clocks: open,
  held by at most one plugin, settled only by its holder, declined at most
  `Budget` times. `DeliveryOutbox` and `OutboxTransactions` are refinements of it
  (`KeepsPromise`): the holder is the owner of a lease that is live at `now`.
* **OutboxTransactions** - the same row operators split at the statements of each
  transaction: clock read, `SELECT ... FOR UPDATE SKIP LOCKED` (row locks until
  commit), unlocked read of ack and fail, the UPDATE that waits for the row lock
  and writes the columns computed before, commit, or rollback anywhere. A plugin that
  loses a token is one that never answers under it.
* **OutboxProgress** - DeliveryOutbox with plugins that keep polling, for liveness.
* **Subscriptions** - the `event_types` row of one event (its match key options,
  whether keys are required, whether it can be subscribed to, enabled), the users
  and permissions, and the `subscriptions` rows. `Register`, `Deploy`,
  `SetCommand` and `SetStatus` (by hand: no code blocks a user) change them at any
  time. A subscribe or unsubscribe call is `Ask` (permission_snapshot), `Resolve`
  (event or alias, allowed keys), `ReadRow`, `WriteRow` (INSERT, UPDATE or DELETE,
  which may fail) and `Reply`. An unsubscription by an alias of an event that is not
  available finds no row under the alias and answers deleted=false (`missed` in
  `Resolve`), though the user may be subscribed. `held` in a call's local state is history.
* **EventPublication** - EXTENDS Subscriptions with concurrent publish requests split
  at their SELECTs, the savepoint INSERT with its unique constraint, and the
  commit. `field` is what the request knows of the event type it has read. `always`
  and `ever` in a request's local state are history: who qualified throughout, or at
  some moment of, the request.
* **PublishPromise** - what publication promises a publisher without requests,
  transactions, catalogue or subscriptions: the first publication of a key stores an event
  with its recipients at once, nothing is added to it, and each answer names the event.
  EventPublication is a refinement of it (`PublishesOnce`): an occurrence and its deliveries
  are one event, the answers are what callers are told.
* **DemoReminder** - what the demo publisher makes of the timing of a request, in
  ticks of which `Second` are a second, and its threads that wait for an answer.
* **Publishers** - the registry of publishers and the guard of a publish request.
* **PayloadValues**, **PayloadSchema**, **PayloadReference** - JSON values as far as a
  schema tells them apart; `validate_payload` as an operator (`Valid`); the keywords of
  JSON Schema as a reference. TLC compares the two (`ValidIsConforms`).
* **NotificationSystem** - INSTANCEs of DemoReminder, Publishers, EventPublication and
  DeliveryOutbox composed. The payload test is its constant operator `ValidPayload`, which
  the runs set to `PayloadSchema!Valid`, so that what is proved of the system does not
  reach a recursive operator. Request h of the server is the
  one thread h of the publisher has posted (`Receive`) and goes on when the thread
  has given up (`GiveUp`); `CommitEvent` stores the event and inserts the rows the
  outbox hands out, with the `notify_at` resolved when the request came. `asked`,
  `replies` and `misfits` are history.
* **Administration** - users, permissions and pairing codes; grant, revoke, role
  change and approval as read operator / read target and count / commit changed
  columns; the first-administrator bootstrap under its named lock; the
  deployment's bootstrap; an operator of the database who sets accounts by hand (the
  code only makes accounts active: `FullAdmin`). Everything may overlap. What may not,
  for the properties to hold, is stated next to them: `WithdrawalsDoNotOverlap`,
  `UsesDoNotOverlap`, `DeployApart`, `ByHandApart`; the code provides none of it.
* **WarframeFeed** - what a payload of the world state says to each of the three
  providers (`worldstate_adapter.py`, `normalize`) and which pairs of observations
  they announce (`evaluate`). A payload is reduced to the fields they read.
* **ProviderRunner** - runner processes on the rows of `provider_instances` and
  `provider_checkpoints`: `Claim` (one transaction), `Fetch` (outside any),
  `Start` (lock and read of `ObservationProcessor.process`) and `Finish` (events,
  checkpoint and release committed together, or `LeaseLost`). A failure is recorded
  in two steps, `ReadLease` (unlocked) and `RecordFailure`, which clears the lease by
  primary key if the runner read itself as its owner: another runner's lease, if that
  has claimed the instance in between. A claim may skip the rows of a failure that is being
  recorded (`BeingRecorded`, SKIP LOCKED). Errors are actions of their own: a failed fetch,
  a transaction rolled back and
  repeated by `run_with_deadlock_retry`, a commit whose answer is lost, a process
  that dies. Times are kept as the time left, so that time needs no bound. The
  deployment's bootstrap disables these instances (`Retire`): the providers are
  still in the code, and run wherever they have not been retired.
* **FeedPromise** - what the runners promise without runners, leases, retries or
  transactions: one observer of each instance, who looks at payloads in the order they were
  served and only while the instance is enabled, and announces with each look what changed
  since the one before. ProviderRunner is a refinement of it (`FollowsFeed`): a look is the
  commit of a processed lease.
* **ReminderSchedule** - `due_between` with its weekly and interval rules, in zones
  that change their offset once; `FiresAt` is the reference definition of a rule.
* **ScheduledReminder** - `run_once` of the publisher, one HTTP call per step, with
  failed calls, lost answers, a clock that is set back, the limit of a cycle that
  ends the process, and restarts, which forget `last_checked_at`. The server
  stores a reminder once, as EventPublication shows. `watched` is history.
* **MC\*** modules give constants their values; definitions called mutants, next
  to the definition they alter, are the plausible bugs every property is shown
  to notice.
* **OutboxRowsProofs**, **DeliveryOutboxProofs**, **OutboxTransactionsProofs**,
  **EventPublicationProofs**, **AdministrationProofs**, **ProviderRunnerProofs**,
  **ScheduledReminderProofs**, **NotificationSystemProofs** - the proofs, one module for
  each module they are about.

## What the runs check

Every bound is a constant of the configuration: `MaxTime` ends the clock,
`MaxRequests` the number of publish requests, `MaxLost` the leases that run out.
All of `attempts`, tokens and `failures` are bounded by the clock, because a lease
has to end before the next claim and an attempt fails at most once.

| Run | Instance | Shows |
|---|---|---|
| `delivery_outbox` | 2 deliveries, 2 plugins, 3 attempts, lease 2, backoff 1 then 2 (the cap), clock to 4 | OneHolder, FailureBudget, NeverBeforeDue, KeepsPromise with atomic calls |
| `outbox_prompt` | 2 deliveries, 2 plugins, 2 calls at a time, 2 attempts, clock to 2, prompt answers; 0.4 million states | RetryHasAttemptLeft, KeepsPromise, AttemptsAreDistinct, ClaimsSpareLiveLeases, AnswerMatchesLease for interleaved transactions |
| `outbox_progress` | 3 deliveries on 2 platforms, 1 plugin, LIMIT 1, 2 attempts, 2 lost leases | EventuallySettled |
| `publication` | 1 user, 1 dedupe key, 2 match keys, 2 catalogue entries, 2 overlapping transactions (publish or subscribe); 0.5 million states | OneOccurrencePerKey, AnswersAgree, RepliesWereTrue, RecipientsWereEntitled, PublishesOnce, EveryRequestEnds |
| `administration` | 2 users, 2 codes, 2 calls that overlap under the four conditions above; 0.7 million states | CodeUsedOnce, LastAdminStays, BootstrapFindsNoAdmin |
| `provider_runner` | a Cetus night and a ghoul instance with 1 fault, a Cetus night with 2, a bounty rotation with 3; 2 runners, 3 payloads (day, night with a malformed goal, next day), lease 1, 2 attempts; 0.4 million states | OnlyOnsets, OneRunnerUnlessLate, SeenInOrder, FollowsFeed, CaughtUp |
| `scheduled_reminder` | weekly rules in a zone that goes forward and one that goes back, an interval with its anchor ahead; limit 3, 2 faults, clock from 1 to 11 | DueIsWhatFires, NothingPassedOver, NoneOvertaken, OnlyWhileWatched, EventuallyStored |
| `notification_system` | 1 user, 1 dedupe key, 2 threads, 2 requests, 1 plugin, a second of 3 ticks, longest delay a second, horizon 5, clock to 3, 1 administrative change, two at once (`FewAtOnce`); 0.8 million states | RemindedOnce, RemindedOnTime, ToldWhen, AcceptedFits |
| `suspended` | the same, clock to 4, without FewAtOnce | violates SuspendedWhileRevoked |
| `unlimited_resend` | 1 delivery, 2 attempts | violates NoUnlimitedResend |
| `stale_answer` | 1 delivery, 2 plugins, 2 calls | violates AnswerMatchesLease |
| `admin_race` | 2 users, 2 calls that overlap in any way | violates LastAdminStays |

Why the bounds are enough: the outbox relates at most two plugins and two rows in
any of its rules (a batch and the row it leaves out, a holder and a rival), the
clock runs long enough for a lease to be granted, run out, be granted again and be
answered late, and for the backoff to reach its cap; two requests are enough for a
race between any two publications of a key, and a third repeats what one of the
two does; administration counts up to one, so two users reach every case of the
count. `FewAtOnce` and `FewCodes` of MCAdministration leave requests about `chat` and
blocked accounts to calls that do not overlap, and a second code to the bootstraps. The `faults` of a
deployment of ProviderRunner count the failures and the runners whose
lease runs out under them: two are a late runner and the death of the one that took
over, three let a commit go unheard while another runner is late; with one, two
instances make a batch. Three payloads hold an onset, its end, an unreadable section and its return. The
calendar of ScheduledReminder is shrunk, not its rules: a day has four instants, so
that three days hold each weekday of the rules, and the offset changes on the second
(a skipped and a repeated wall-clock time). In `notification_system` a second has three
ticks, so that there are fractions on either side of the one at which a column rounds
up; two threads and two requests are a request and its repetition, next to or after each
other; one user is enough because no statement relates two. `FewAtOnce`, a constraint of
that run, explores two overlapping requests to the server, or one and an administrative change, but not
the three together: the change that a pair of requests meets is the subject of `publication`, and
the proof about the system has neither bound. The proofs remove the
bounds for every safety property of the passing runs, some of them under an assumption that
is named with the theorem (PromptAnswers, the conditions of Administration, ZonesInOrder,
LimitsFit).

`CHECK_DEADLOCK FALSE` is set where the bounded clock ends a behaviour (everything
settled, or the last reminder published, at `MaxTime`; `notification_system` and
`suspended` likewise) and in the administration runs (every code used, no
administrator left to act). The publication and provider runs check deadlock.

### What the violations say

* `unlimited_resend`: CONTRACT.md:328 promises that a delivery reaching the maximum
  of attempts becomes `dead` and is not resent without limit. `claim` counts
  attempts but never compares them; only `fail` does. A message that crashes its
  plugin before it answers is handed out for ever.
* `stale_answer`: CONTRACT.md:233 promises that ack and fail update a delivery only
  under its current lease. The lease is checked on a row read without a lock; a
  claim that commits between the check and the UPDATE is overwritten. `outbox_prompt`
  checks, and `PromptAnswersMatchLease` proves, that the promise holds when an answer
  ends before its lease and a plugin does not repeat an answer while it is in progress.
* `admin_race`: CONTRACT.md:232 promises that the last administrator is never
  removed. Two overlapping revocations (or demotions) each count two. `administration`
  checks that everything else may overlap.
* `suspended`: CONTRACT.md:261 promises that deliveries are suspended while `command` is
  revoked. `claim_statement` looks at platform, status and time only: what was published
  before the revocation, a reminder for a later time included, is handed out.

### Fairness and liveness

`OutboxProgress!Fairness` assumes that time passes, that plugins poll again, and
that a lease that does not run out is answered; the plugin's loop is outside this
repository and the assumption is the minimum the contract asks of it (CONTRACT
section 8). A clock tick is at least as long as a poll (`TickAfterPolling`), and
at most `MaxLost` leases run out: with unbounded losses `unlimited_resend` shows
that delivery need not end. No fairness is assumed between deliveries. In
`EventPublication` a request that is not waiting for a lock goes on, as a thread of
the API does; requests and administrators are not assumed to come.
`ProviderRunner!FairSpec` assumes that time passes and that a living runner goes on
(`serve` polls until it is stopped), not that the world state changes; faults are
bounded, and one runner survives, as its container would be started again.
`ScheduledReminder!Spec` assumes the clock and `serve` go on; a reminder may still be
lost to a restart, since the publisher does not make up for what it did not watch.

## What is proved

Each proof module names its inductive invariant `IInv`, has one lemma for each action,
and derives the properties of the run from it. The constants are arbitrary up to the
named ASSUMEs of the modules, which the runs evaluate.

**DeliveryOutboxProofs** (any deliveries, plugins and platforms, any
lease lengths, backoff and attempt limit at least 1): `TypeCorrect`, `OneHolderHolds`,
`FailureBudgetHolds`, `NeverBeforeDueHolds`, and `OutboxKeepsPromise`: DeliveryOutbox
implements LeasePromise. Neither OneHolder nor FailureBudget is inductive. OneHolder needs
that a leased row's token is its attempt number (`LeaseOfRow`), that every remembered token
was issued by a claim of that row (`TokensIssued`), that no two plugins remember the same
one (`TokensAreOwn`) and that the one of the current lease is with its owner
(`OwnerRemembers`). FailureBudget needs that an attempt fails at most once and that a
leased row has an attempt that has not failed (`FailuresBehindAttempts`). `LeasedWasDue`
carries NeverBeforeDue through expired leases. The refinement reuses the invariant and maps
each action to a step of the promise or to stutter, and a tick to `Lapse` of the leases
that end.

**OutboxTransactionsProofs** (any number of calls split at their statements, answers of any
speed): `TypeCorrect`, `AttemptsAreDistinctHolds`, `ClaimsSpareLiveLeasesHolds`. The
invariant says who holds a row lock (`LocksAreExclusive`), that what a claim has selected is
still as it was selected (`SelectionHolds`) and that a clock read is not ahead of the clock
(`ClocksAreRead`), besides the token parts above. A lease has to last a second at least
(`LeaseSecondsAssumption`), since the column may round half of one away.
Under `ASSUME PromptAnswers` (the guards of the model then end an answer before its lease,
and let a plugin answer a token once at a time) also `RetryHasAttemptLeftHolds`,
`PromptAnswersMatchLease` and `TransactionsKeepPromise`: the transactions implement
LeasePromise. `PromptInv` adds to the invariant that two answers in progress are for
different leases (`AnswersAreDistinct`), that an answer which has checked its lease still
has it when it writes (`AnswersHold`), and that failures stay behind
attempts (`Counted`). `stale_answer` shows that the assumption cannot be dropped.

**EventPublicationProofs** (any users, keys, match keys, catalogue entries, subscription
calls and overlapping requests): `TypeCorrect`, `OneOccurrencePerKeyHolds`,
`AnswersAgreeHolds`, `RepliesWereTrueHolds`, `RecipientsWereEntitledHolds`,
`NoLateRecipientsHolds`, and `PublicationKeepsPromise`: EventPublication implements
PublishPromise. The invariant has a part for subscription calls (`SessionsInv`: what
a call remembers of its row is so until another call wrote it), one for requests
(`PublishInv`: at most one request is past the INSERT of a key, a duplicate or an answer
names a stored event, deliveries belong to stored events, ids are fresh), and one that
brackets who qualifies now between the two histories (`HistoryBrackets`). In the refinement
the COMMIT of a request that stored its event is `Publish` with the recipients it has
selected (nothing is delivered under its fresh id before, and no event of its key is stored),
the COMMIT of a duplicate is `Repeat` of the event it found, and everything else stutters.
NoLateRecipients follows from the invariant too, and from the promise. RepliesWereTrue
excepts one answer, because the code gives it and it need not be true: deleted=false to an
unsubscription by the alias of an event that is not available.

**AdministrationProofs** (any users, codes and calls, which overlap as the threads of the API
do): `TypeCorrect`, and for each property what must not overlap, that is, what a lock in the
code would have to cover. `ByHandApart` (accounts are set by hand only between calls) is
assumed in the first and the third.

* `LastAdminStaysUnlessWithdrawalsOverlap`: an administrator stays as long as no two calls
  that withdraw `command` or the role are between their count and their COMMIT at the same
  time (`WithdrawalsDoNotOverlap`). A withdrawal then leaves an administrator other than its
  target (`WithdrawalLeavesOne`), and a call that is authorized finds one
  (`AuthorizedByAdmin`), whatever grants, approvals and bootstraps run next to it;
* `CodeUsedOnceUnlessUsesOverlap`: a code is used once as long as no other approval or
  bootstrap has tested it while an approval is between its test and its COMMIT
  (`UsesDoNotOverlap`);
* `BootstrapFindsNoAdminUnlessDeployed`: the first administrator is made only while there is
  none, as long as the deployment's bootstrap keeps away from it (`DeployApart`) and
  withdrawals do not overlap. Grants and approvals need not be kept away: they need an
  administrator, so that none of them is under way where a bootstrap has counted none.

These hypotheses are what the code lacks: `admin_race` is a behaviour without the first.

**ProviderRunnerProofs** (any providers, payloads, leases, runners and faults):
`TypeCorrect`, `OnlyOnsetsHolds`, `SeenInOrderHolds`, `OneRunnerUnlessLateHolds`,
`AnnouncedWithCheckpointHolds`, and `RunnersFollowFeed`: ProviderRunner implements
FeedPromise. The core is `OwnersAreFresh`: a runner that owns an instance
and has fetched holds a payload not older than the one the checkpoint has seen, because the
claim that made it the owner came before the fetch. A runner that is late may still process
what it no longer owns, but not commit it; `LocksAreExclusive` and the `before` of a runner
that processes (`Holds`) carry this to the commit. The refinement adds that an instance is
enabled while it is processed (`ProcessesEnabled`), which holds because the bootstrap waits
for the locked row; the commit of a processed lease is a look, heard or not, and a rollback,
a lost lease or a death is none. That a live lease is ended by its owner only is not so: a late
runner that records a failure may clear the lease another one has claimed since it read the
row, which costs that runner its poll. `OneRunnerUnlessLateHolds` says what is so: as long as no
runner has outrun a lease, no two have an instance in hand. Its invariant `Exclusive` adds
that who has an instance in hand, or is about to clear its lease, is the owner, and that the
lease of an owner has not run out.

**ScheduledReminderProofs** (any rules, zones, days, faults and limit): `DueBetweenIsExact`:
the arithmetic of the two kinds of rules returns exactly the instants of the window at which
the rule fires, one by one (`WeeklyIsExact` rests on the two folds giving every instant of a
wall-clock time, `IntervalIsExact` on division rounding down); then `TypeCorrect`,
`DueIsWhatFiresHolds`, `NothingPassedOverHolds`, `NoneOvertakenHolds`,
`OnlyWhileWatchedHolds` from the invariant that what is left of a cycle and what is stored
cover its window (`CycleCovers`) and that no process has looked at a clock outside the ones
watched (`ClocksWatched`). All of these assume `ZonesInOrder`: the local days of a zone do
not go back when its offset changes. The proof showed why: `_weekly_due` (`scheduling.py`)
walks the local days from the one of the window's start, so in a zone that is set back over a
midnight (St. John's did so at 00:01 until 2011) a window that starts after that midnight
misses what fires on the repeated end of the day before. The instance has no such zone.

**NotificationSystemProofs** (any handlers, dedupe keys, users, plugins, length of a second,
limits, schema and payload test): the composition. EventPublicationProofs and
DeliveryOutboxProofs are instantiated with the constants of the system (`PublicationFacts`,
`OutboxFacts`); the lemmas `Same...` say that a step of the part in the system is a step of
the module its proofs are about, so that their invariants carry over. To these `SystemInv`
adds how an instant travels: the second that was asked for is a lower bound kept in the
handler (`PostsFit`), the request (`RequestsFit`), the stored event (`EventsAsked`) and the
row (`RowsStored`), since truncating a fraction and rounding a column move nothing across a
whole second. A row put off by a failure needs no bound on its backoff: it was handed out,
so its second has come (`ComesDue`). ToldWhen is about the answer of the request that created
the event; a duplicate is told its own notify_at (`publish.py:64-69`), which no delivery is for.
Results:

* `RemindedOnceHolds`, `ToldWhenHolds`, `RemindedOnTimeHolds`, `TypeCorrect`;
* `AcceptedFitsHolds`, under `LimitsFit`: the longest delay and the fraction of a second
  fit the horizon, and the registered schema takes every delay up to the longest. The
  run's constants satisfy it (an ASSUME of its MC module);
* `SystemPublishes`: the system implements the safety part of EventPublication, that is,
  what the publisher, the operator and the plugins do is a step of it or a stutter;
* `PartsKeepInvariants`: OneHolder, FailureBudget, OneOccurrencePerKey and AnswersAgree hold
  in the system, `PartsKeepStepProperties`: RecipientsWereEntitled, NoLateRecipients and
  NeverBeforeDue do. This does not follow from the theorems about the parts: in DeliveryOutbox
  a row is due at its publication or later, while in the system a COMMIT may come after the
  instant that was resolved for it;
* `SystemKeepsPromise`: with such commits, too, the outbox implements LeasePromise;
* `SystemKeepsPublishPromise`: the publication of the system implements PublishPromise.

Only model-checked, because out of the prover's reach: liveness (EventuallySettled,
EveryRequestEnds, CaughtUp, EventuallyStored), which needs fairness and ENABLED; and what
recursive definitions compute, that is, that `validate_payload` agrees with the keywords
of a schema. NoUnlimitedResend, SuspendedWhileRevoked and, without their assumptions,
LastAdminStays and AnswerMatchesLease are violated.

## Not modelled, and why

* Service authentication (`auth/service.py`), API schemas, errors and routing: tests of one
  request with no state. Logging and audit rows: written and never read.
* Message text, addresses, error codes, platform message ids: payload no rule reads. Refusals
  of a wrong schema version or a missing default message: they leave no state.
* One event type and one platform stand for all in EventPublication and Administration: no
  operation touches two.
* Clock skew between processes: one clock.
* In DemoReminder the syntax of a delay, text, title, the ingress token and the wording of
  messages. `parse_delay` accepts a negative delay that truncates to zero; it is a delay of
  zero here. AcceptedFits is checked where the longest delay and less than one second more
  fit the server's horizon (1 second of 3 ticks against 5 ticks); with a `MAX_DELAY` equal to
  that horizon an instant with a fraction exceeds it, and the server refuses it.
* In PayloadSchema malformed schemas other than an unknown type. A keyword alone applies as
  the code applies it (`minItems` to strings too, `True` equal to 1 in `const` and `enum`).
* `Forget` of a plugin in NotificationSystem and OutboxTransactions: DeliveryOutbox has it,
  and a token that is never used again is a plugin that forgot it.
* `consecutive_failures` and the `observations` table: written and never read. The
  limit of ten leases of a batch: there are three instances. The order of a batch is
  any, since how long ago an instance fell due is not kept.
* The HTTP client of the world state (size limits, attempts, timeouts): a fetch
  either returns a payload or fails. The wording of events and messages.
* An edit of the reminder configuration between two cycles, its validation, and zones
  that change more than once within the clock.
* `WebhookReceipt`, `PairingCode.failed_attempts`: no code uses them.
* Migrations run with the service stopped; `scripts/` are developer tools.

## Plan

What could be added: the configuration file of scheduled-reminder edited between two cycles
(the rules become a variable, and a reminder is due under the rules its cycle has read); and a
full batch of poisoned deliveries, with the condition on polling under which those behind it
are still sent.
