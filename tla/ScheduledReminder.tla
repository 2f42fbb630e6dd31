-------------------------- MODULE ScheduledReminder --------------------------
(***************************************************************************)
(* The scheduled-reminder publisher (publishers/scheduled-reminder,        *)
(* main.py and client.py): a process that wakes up every few seconds,      *)
(* publishes what fell due since it looked last, in order, and remembers   *)
(* in memory only how far it looked.                                       *)
(*                                                                         *)
(* A reminder is <<instant, rule>>; its dedupe key names both, so that the *)
(* server stores it once however often it is published (EventPublication). *)
(* A configuration file that cannot be read fails a cycle and changes      *)
(* nothing; its rules do not change here.                                  *)
(***************************************************************************)
EXTENDS ReminderSchedule, FiniteSets

CONSTANTS
  Rules,          \* reminder ids, of which only the order matters
  RuleOf,         \* the rule of each
  MaxDuePerTick,
  NotYet,         \* last_checked_at is None
  Start,          \* the clock at first
  MaxTime,        \* the clock ends here
  MaxFaults       \* failed calls, restarts and corrections of the clock

ASSUME ScheduledReminderAssumption ==
  /\ Rules \subseteq Nat
  /\ MaxTime \in Nat /\ Start \in 0..MaxTime /\ MaxFaults \in Nat
  /\ RuleOf \in [Rules -> WeeklyRule \union IntervalRule]
  /\ MaxDuePerTick \in Nat \ {0}
  /\ NotYet \notin Int

VARIABLES
  clock,
  lastCheckedAt,
  current,        \* the clock as run_once read it, NotYet between cycles
  due,            \* what run_once has still to publish
  stored,         \* the reminders the server has stored
  faults,
  watched         \* history: the instant the process started at, the earliest one at
                  \* which any process looked at the clock, the latest clock

vars == <<clock, lastCheckedAt, current, due, stored, faults, watched>>

Init ==
  /\ clock = Start
  /\ lastCheckedAt = NotYet
  /\ current = NotYet
  /\ due = {}
  /\ stored = {}
  /\ faults = 0
  /\ watched = [since |-> Start, earliest |-> Start, latest |-> Start]

DueReminders(after, until) ==
  UNION {{<<t, r>> : t \in DueBetween(RuleOf[r], after, until)} : r \in Rules}

(* The order of DueReminder: by instant, then by id.                       *)
Before(a, b) == a[1] < b[1] \/ (a[1] = b[1] /\ a[2] < b[2])

NextDue == CHOOSE a \in due : \A b \in due \ {a} : Before(a, b)

(***************************************************************************)
(* The clock, which may be set back.                                       *)
(***************************************************************************)
Tick ==
  /\ clock < MaxTime
  /\ clock' = clock + 1
  /\ watched' = [watched EXCEPT !.latest = IF @ < clock + 1 THEN clock + 1 ELSE @]
  /\ UNCHANGED <<lastCheckedAt, current, due, stored, faults>>

Fault == faults < MaxFaults /\ faults' = faults + 1

SetBack ==
  /\ clock > 0
  /\ Fault
  /\ clock' = clock - 1
  /\ UNCHANGED <<lastCheckedAt, current, due, stored, watched>>

(***************************************************************************)
(* run_once.                                                               *)
(***************************************************************************)
Earliest(t) == IF t < watched.earliest THEN t ELSE watched.earliest

(* A mutant of FirstCycle: a process starts from the beginning of time.    *)
FirstCycleFromZero ==
  /\ current = NotYet
  /\ lastCheckedAt = NotYet
  /\ lastCheckedAt' = 0
  /\ watched' = [watched EXCEPT !.since = clock, !.earliest = Earliest(clock)]
  /\ UNCHANGED <<clock, current, due, stored, faults>>

(* The first cycle of a process only remembers the time.                   *)
FirstCycle ==
  /\ current = NotYet
  /\ lastCheckedAt = NotYet
  /\ lastCheckedAt' = clock
  /\ watched' = [watched EXCEPT !.since = clock, !.earliest = Earliest(clock)]
  /\ UNCHANGED <<clock, current, due, stored, faults>>

(* A mutant of Cycle: the window is advanced before anything is published. *)
CycleAdvancingFirst ==
  LET found == DueReminders(lastCheckedAt, clock)
  IN  /\ current = NotYet
      /\ lastCheckedAt # NotYet
      /\ found # {}
      /\ Cardinality(found) <= MaxDuePerTick
      /\ current' = clock
      /\ due' = found
      /\ lastCheckedAt' = clock
      /\ UNCHANGED <<clock, stored, faults, watched>>

(* A cycle with something to publish.                                      *)
Cycle ==
  LET found == DueReminders(lastCheckedAt, clock)
  IN  /\ current = NotYet
      /\ lastCheckedAt # NotYet
      /\ found # {}
      /\ Cardinality(found) <= MaxDuePerTick
      /\ current' = clock
      /\ due' = found
      /\ UNCHANGED <<clock, lastCheckedAt, stored, faults, watched>>

EmptyCycle ==
  /\ current = NotYet
  /\ lastCheckedAt # NotYet
  /\ DueReminders(lastCheckedAt, clock) = {}
  /\ lastCheckedAt' = clock
  /\ watched' = [watched EXCEPT !.earliest = Earliest(clock)]
  /\ UNCHANGED <<clock, current, due, stored, faults>>

(* The process ends, and its container starts it again.                    *)
Ended ==
  /\ lastCheckedAt' = NotYet
  /\ current' = NotYet
  /\ due' = {}
  /\ UNCHANGED <<clock, stored, watched>>

(* A RuntimeError, which serve does not catch.                             *)
TooManyDue ==
  /\ current = NotYet
  /\ lastCheckedAt # NotYet
  /\ Cardinality(DueReminders(lastCheckedAt, clock)) > MaxDuePerTick
  /\ Ended
  /\ UNCHANGED faults

Restart == Fault /\ (lastCheckedAt # NotYet) /\ Ended

(* A call of the server; the last one of a cycle advances the window.      *)
PublishNext ==
  LET rest == due \ {NextDue}
  IN  /\ due # {}
      /\ stored' = stored \union {NextDue}
      /\ due' = rest
      /\ lastCheckedAt' = IF rest = {} THEN current ELSE lastCheckedAt
      /\ current' = IF rest = {} THEN NotYet ELSE current
      /\ watched' = IF rest = {} THEN [watched EXCEPT !.earliest = Earliest(current)] ELSE watched
      /\ UNCHANGED <<clock, faults>>

(* A mutant of PublishFails: the loop goes on with the next reminder, and  *)
(* the window advances with the last one.                                  *)
PublishFailsSkipping ==
  LET rest == due \ {NextDue}
  IN  /\ due # {}
      /\ Fault
      /\ due' = rest
      /\ lastCheckedAt' = IF rest = {} THEN current ELSE lastCheckedAt
      /\ current' = IF rest = {} THEN NotYet ELSE current
      /\ UNCHANGED <<clock, stored, watched>>

(* The call fails, before or after the server stored the event: the cycle  *)
(* ends and the window stays.                                              *)
PublishFails ==
  /\ due # {}
  /\ Fault
  /\ stored' \in {stored, stored \union {NextDue}}
  /\ due' = {}
  /\ current' = NotYet
  /\ UNCHANGED <<clock, lastCheckedAt, watched>>

RunOnce == FirstCycle \/ Cycle \/ EmptyCycle \/ TooManyDue \/ PublishNext

Next == Tick \/ SetBack \/ RunOnce \/ PublishFails \/ Restart

(* Time passes and serve goes on.                                          *)
Spec == Init /\ [][Next]_vars /\ WF_vars(Tick) /\ WF_vars(RunOnce)
-----------------------------------------------------------------------------
Reminders == {o \in (0..MaxTime) \X Rules : FiresAt(RuleOf[o[2]], o[1])}

TypeOK ==
  /\ clock \in 0..MaxTime
  /\ lastCheckedAt \in {NotYet} \union (0..MaxTime)
  /\ current \in {NotYet} \union (0..MaxTime)
  /\ due \subseteq Reminders
  /\ stored \subseteq Reminders
  /\ (due = {}) = (current = NotYet)
  /\ faults \in 0..MaxFaults

(* The window a cycle looks at holds exactly the instants of the rules in  *)
(* it, one by one: across the change of a zone, before an anchor, at both  *)
(* ends (scheduling.py due_between).                                       *)
DueIsWhatFires ==
  lastCheckedAt # NotYet =>
    DueReminders(lastCheckedAt, clock) =
      {o \in Reminders : lastCheckedAt < o[1] /\ o[1] <= clock}

(* Whatever fails in between, what the window has passed since the process *)
(* started is stored: a failure in the middle of a cycle, a call whose     *)
(* answer is lost or a clock that is set back loses no reminder (main.py   *)
(* run_once).                                                              *)
NothingPassedOver ==
  lastCheckedAt # NotYet =>
    \A o \in Reminders : watched.since < o[1] /\ o[1] <= lastCheckedAt => o \in stored

(* A reminder is stored only after all that fell due before it in the same *)
(* window: a failed one is not overtaken (main.py, sorted).                *)
NoneOvertaken ==
  [][\A o \in stored' \ stored : \A earlier \in Reminders :
       lastCheckedAt < earlier[1] /\ Before(earlier, o) => earlier \in stored]_vars

(* Nothing is published ahead of time, and nothing that was due before the *)
(* first process looked at the clock (README, "observes from the present   *)
(* on and does not make up for old reminders").                            *)
OnlyWhileWatched ==
  \A o \in stored : watched.earliest < o[1] /\ o[1] <= watched.latest

(* A reminder that fell due under a running process is stored, unless the  *)
(* process is restarted first, by itself when too many are due.            *)
EventuallyStored ==
  \A o \in Reminders :
    (lastCheckedAt # NotYet /\ lastCheckedAt < o[1] /\ o[1] <= clock)
      ~> (o \in stored \/ lastCheckedAt = NotYet)
=============================================================================
