--------------------------- MODULE ReminderSchedule ---------------------------
(***************************************************************************)
(* Which reminders of a rule fall due in a window of time                  *)
(* (publishers/scheduled-reminder, scheduling.py).  Instants are integers, *)
(* DayLength of them to a day, instant 0 is a midnight of UTC.  A zone     *)
(* changes its offset once: [change, before, after], from an instant on.   *)
(***************************************************************************)
EXTENDS Integers

CONSTANTS
  DayLength,   \* instants of a day
  FirstDay     \* weekday of the day that starts at instant 0

ASSUME ReminderScheduleAssumption == DayLength \in Nat \ {0} /\ FirstDay \in 0..6

(* A rule as the configuration file may state it: at least one weekday and *)
(* one time, or a period of at least one instant; ids are unique.          *)
Zone == [change : Int, before : Int, after : Int]

WeeklyRule ==
  [kind : {"weekly"}, zone : Zone, weekdays : SUBSET (0..6) \ {{}},
   times : SUBSET (0..(DayLength - 1)) \ {{}}]

IntervalRule == [kind : {"interval"}, anchor : Int, every : Nat \ {0}]

Weekday(day) == (day + FirstDay) % 7

(* utcoffset of an instant, and the wall clock it shows.                   *)
Offset(zone, t) == IF t < zone.change THEN zone.before ELSE zone.after

Local(zone, t) == t + Offset(zone, t)

Day(zone, t) == Local(zone, t) \div DayLength

(* zoneinfo: the offset of a wall clock time with fold 0 or 1.  In the gap *)
(* of a change the earlier fold has the offset of before, in the repeated  *)
(* hour it is the first pass.                                              *)
Wall(zone, fold) ==
  LET greater == IF zone.before > zone.after THEN zone.before ELSE zone.after
      smaller == IF zone.before > zone.after THEN zone.after ELSE zone.before
  IN  zone.change + IF fold = 0 THEN greater ELSE smaller

OffsetOfFold(zone, naive, fold) ==
  IF naive < Wall(zone, fold) THEN zone.before ELSE zone.after

(* A mutant of ValidLocalOccurrences: the first fold is taken unchecked.   *)
FirstFold(zone, naive) == {naive - OffsetOfFold(zone, naive, 0)}

(* The instants at which the wall clock shows naive: those folds whose     *)
(* round trip through UTC gives naive back.                                *)
ValidLocalOccurrences(zone, naive) ==
  {t \in {naive - OffsetOfFold(zone, naive, fold) : fold \in {0, 1}} : Local(zone, t) = naive}

(* Every day of the zone from the one of after to the one of until.        *)
WeeklyDue(rule, after, until) ==
  {t \in UNION {ValidLocalOccurrences(rule.zone, day * DayLength + time) :
                  day \in {d \in Day(rule.zone, after)..Day(rule.zone, until) :
                             Weekday(d) \in rule.weekdays},
                  time \in rule.times} :
     after < t /\ t <= until}

(* A mutant of FirstIndex: not cut at the anchor.                          *)
FirstIndexUnbounded(rule, after) == ((after - rule.anchor) \div rule.every) + 1

(* The first index from the anchor on whose instant is after the window's  *)
(* start; the division rounds down, also when the anchor is ahead.         *)
FirstIndex(rule, after) ==
  LET next == ((after - rule.anchor) \div rule.every) + 1
  IN  IF next < 0 THEN 0 ELSE next

IntervalDue(rule, after, until) ==
  IF until < rule.anchor
  THEN {}
  ELSE {t \in {rule.anchor + i * rule.every :
                 i \in FirstIndex(rule, after)..((until - rule.anchor) \div rule.every)} :
          after < t /\ t <= until}

DueBetween(rule, after, until) ==
  CASE until <= after -> {}
    [] until > after /\ rule.kind = "weekly" -> WeeklyDue(rule, after, until)
    [] until > after /\ rule.kind = "interval" -> IntervalDue(rule, after, until)
-----------------------------------------------------------------------------
(* What the README of the publisher says of a rule: at which instants it   *)
(* fires, one by one.                                                      *)
FiresAt(rule, t) ==
  CASE rule.kind = "weekly" ->
         /\ Weekday(Day(rule.zone, t)) \in rule.weekdays
         /\ Local(rule.zone, t) % DayLength \in rule.times
    [] rule.kind = "interval" ->
         t >= rule.anchor /\ (t - rule.anchor) % rule.every = 0
=============================================================================
