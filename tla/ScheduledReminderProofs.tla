----------------------- MODULE ScheduledReminderProofs -----------------------
(***************************************************************************)
(* Proofs about ReminderSchedule and ScheduledReminder, for any rules,     *)
(* zones, lengths of day and number of faults.                             *)
(*                                                                         *)
(* Scheduling rests on the days of a zone following each other; a zone     *)
(* that is set back over a midnight has to be excluded, because _weekly_due *)
(* starts at the day the window starts in and then misses what fires on    *)
(* the repeated end of the day before.                                     *)
(***************************************************************************)
EXTENDS ScheduledReminder, WellFoundedInduction, TLAPS

USE ReminderScheduleAssumption

-----------------------------------------------------------------------------
(* Division.                                                               *)

LEMMA Divided ==
  ASSUME NEW a \in Int, NEW n \in Nat \ {0}
  PROVE  a \div n \in Int /\ a % n \in 0..(n - 1) /\ a = (a \div n) * n + (a % n)
OBVIOUS

LEMMA DivisionIsUnique ==
  ASSUME NEW n \in Nat \ {0}, NEW d \in Int, NEW e \in Int,
         NEW x \in 0..(n - 1), NEW y \in 0..(n - 1), d * n + x = e * n + y
  PROVE  d = e /\ x = y
<1>1. CASE d < e
  <2>1. d * n + n <= e * n
    BY <1>1
  <2>2. QED
    BY <2>1
<1>2. CASE e < d
  <2>1. e * n + n <= d * n
    BY <1>2
  <2>2. QED
    BY <2>1
<1>3. QED
  BY <1>1, <1>2

LEMMA Composed ==
  ASSUME NEW n \in Nat \ {0}, NEW d \in Int, NEW x \in 0..(n - 1)
  PROVE  (d * n + x) \div n = d /\ (d * n + x) % n = x
<1>1. d * n + x \in Int
  OBVIOUS
<1>2. QED
  BY <1>1, Divided, DivisionIsUnique

LEMMA DivisionIsMonotone ==
  ASSUME NEW n \in Nat \ {0}, NEW a \in Int, NEW b \in Int, a <= b
  PROVE  a \div n <= b \div n
<1> DEFINE d == a \div n
           e == b \div n
<1>1. /\ d \in Int /\ e \in Int /\ a % n \in 0..(n - 1) /\ b % n \in 0..(n - 1)
      /\ a = d * n + (a % n) /\ b = e * n + (b % n)
  BY Divided
<1> HIDE DEF d, e
<1>2. CASE e < d
  <2>1. e * n + n <= d * n
    BY <1>1, <1>2
  <2>2. QED
    BY <1>1, <2>1
<1>3. QED
  BY <1>1, <1>2 DEF d, e

-----------------------------------------------------------------------------
(* Scheduling.                                                             *)

(* The change of a zone's offset does not repeat a midnight.               *)
DaysInOrder(zone) == Day(zone, zone.change - 1) <= Day(zone, zone.change)

LEMMA ZoneFacts ==
  ASSUME NEW zone \in Zone, NEW t \in Int
  PROVE  /\ zone.change \in Int /\ zone.before \in Int /\ zone.after \in Int
         /\ Offset(zone, t) \in Int /\ Local(zone, t) \in Int /\ Day(zone, t) \in Int
<1>1. zone.change \in Int /\ zone.before \in Int /\ zone.after \in Int
  BY DEF Zone
<1>2. Offset(zone, t) \in Int
  BY <1>1 DEF Offset
<1>3. Local(zone, t) \in Int
  BY <1>2 DEF Local
<1>4. QED
  BY <1>1, <1>2, <1>3, Divided DEF Day

LEMMA DayIsMonotone ==
  ASSUME NEW zone \in Zone, DaysInOrder(zone), NEW t \in Int, NEW u \in Int, t <= u
  PROVE  Day(zone, t) <= Day(zone, u)
<1>1. ASSUME NEW a \in Int, NEW b \in Int, a <= b, Offset(zone, a) = Offset(zone, b)
      PROVE  Day(zone, a) <= Day(zone, b)
  <2>1. Local(zone, a) \in Int /\ Local(zone, b) \in Int /\ Local(zone, a) <= Local(zone, b)
    BY <1>1, ZoneFacts DEF Local
  <2>2. QED
    BY <2>1, DivisionIsMonotone DEF Day
<1> DEFINE c == zone.change
<1>2. c \in Int /\ c - 1 \in Int /\ \A x \in Int : Day(zone, x) \in Int
  BY ZoneFacts
<1>3. CASE u < c \/ c <= t
  <2>1. Offset(zone, t) = Offset(zone, u)
    BY <1>2, <1>3 DEF Offset
  <2>2. QED
    BY <1>1, <2>1
<1>4. CASE t < c /\ c <= u
  <2>1. Offset(zone, t) = Offset(zone, c - 1) /\ Offset(zone, c) = Offset(zone, u)
    BY <1>2, <1>4 DEF Offset
  <2>2. t <= c - 1
    BY <1>2, <1>4
  <2>3. Day(zone, t) <= Day(zone, c - 1) /\ Day(zone, c) <= Day(zone, u)
    BY <1>1, <1>2, <1>4, <2>1, <2>2
  <2>4. QED
    BY <1>2, <2>3 DEF DaysInOrder
<1>5. QED
  BY <1>2, <1>3, <1>4

(* The two folds give every instant at which the clock shows a time, in a  *)
(* gap none and in a repeated hour both.                                   *)
LEMMA OccurrencesAreAll ==
  ASSUME NEW zone \in Zone, NEW naive \in Int
  PROVE  \A t : t \in ValidLocalOccurrences(zone, naive) <=> t \in Int /\ Local(zone, t) = naive
<1> DEFINE c == zone.change
           Candidates == {naive - OffsetOfFold(zone, naive, fold) : fold \in {0, 1}}
<1>1. c \in Int /\ zone.before \in Int /\ zone.after \in Int
  BY ZoneFacts
<1>2. Candidates \subseteq Int
  BY <1>1 DEF OffsetOfFold
<1>3. ASSUME NEW t \in Int, Local(zone, t) = naive PROVE t \in Candidates
  <2>1. CASE t < c
    <3>1. naive = t + zone.before
      BY <1>3, <2>1 DEF Local, Offset
    <3>2. naive < Wall(zone, 0)
      BY <1>1, <2>1, <3>1 DEF Wall
    <3>3. t = naive - OffsetOfFold(zone, naive, 0)
      BY <1>1, <3>1, <3>2 DEF OffsetOfFold
    <3>4. QED
      BY <3>3
  <2>2. CASE c <= t
    <3>1. naive = t + zone.after
      BY <1>1, <1>3, <2>2 DEF Local, Offset
    <3>2. ~ (naive < Wall(zone, 1))
      BY <1>1, <2>2, <3>1 DEF Wall
    <3>3. t = naive - OffsetOfFold(zone, naive, 1)
      BY <1>1, <3>1, <3>2 DEF OffsetOfFold
    <3>4. QED
      BY <3>3
  <2>3. QED
    BY <1>1, <2>1, <2>2
<1>4. QED
  BY <1>2, <1>3 DEF ValidLocalOccurrences

LEMMA WeeklyIsExact ==
  ASSUME NEW rule \in WeeklyRule, DaysInOrder(rule.zone), NEW after \in Int, NEW until \in Int
  PROVE  \A t : t \in WeeklyDue(rule, after, until)
                <=> t \in Int /\ after < t /\ t <= until /\ FiresAt(rule, t)
<1> DEFINE zone == rule.zone
           n == DayLength
<1>1. /\ zone \in Zone /\ rule.times \subseteq 0..(n - 1) /\ rule.kind = "weekly"
      /\ n \in Nat \ {0}
  BY DEF WeeklyRule
<1>2. \A t : FiresAt(rule, t) <=> Weekday(Day(zone, t)) \in rule.weekdays
                                 /\ Local(zone, t) % n \in rule.times
  BY <1>1 DEF FiresAt
<1>3. ASSUME NEW t \in WeeklyDue(rule, after, until)
      PROVE  t \in Int /\ after < t /\ t <= until /\ FiresAt(rule, t)
  <2>1. PICK day \in Day(zone, after)..Day(zone, until), time \in rule.times :
          Weekday(day) \in rule.weekdays /\ t \in ValidLocalOccurrences(zone, day * n + time)
    BY <1>3 DEF WeeklyDue
  <2>2. day \in Int /\ time \in 0..(n - 1) /\ day * n + time \in Int
    BY <1>1, <2>1
  <2>3. t \in Int /\ Local(zone, t) = day * n + time
    BY <1>1, <2>1, <2>2, OccurrencesAreAll
  <2>4. Day(zone, t) = day /\ Local(zone, t) % n = time
    BY <1>1, <2>2, <2>3, Composed DEF Day
  <2>5. QED
    BY <1>2, <1>3, <2>1, <2>3, <2>4 DEF WeeklyDue
<1>4. ASSUME NEW t \in Int, after < t, t <= until, FiresAt(rule, t)
      PROVE  t \in WeeklyDue(rule, after, until)
  <2> DEFINE day == Day(zone, t)
             time == Local(zone, t) % n
  <2>1. Weekday(day) \in rule.weekdays /\ time \in rule.times
    BY <1>2, <1>4
  <2>2. Local(zone, t) \in Int /\ day \in Int /\ Day(zone, after) \in Int /\ Day(zone, until) \in Int
    BY <1>1, ZoneFacts
  <2>3. Local(zone, t) = day * n + time
    BY <1>1, <2>2, Divided DEF Day
  <2>4. Day(zone, after) <= day /\ day <= Day(zone, until)
    BY <1>1, <1>4, DayIsMonotone
  <2>5. day \in Day(zone, after)..Day(zone, until)
    BY <2>2, <2>4
  <2>6. day * n + time \in Int
    BY <2>2, <2>3
  <2>7. t \in ValidLocalOccurrences(zone, day * n + time)
    BY <1>1, <2>3, <2>6, OccurrencesAreAll
  <2> HIDE DEF day, time
  <2>8. QED
    BY <1>4, <2>1, <2>5, <2>7 DEF WeeklyDue
<1>5. QED
  BY <1>3, <1>4

LEMMA IntervalIsExact ==
  ASSUME NEW rule \in IntervalRule, NEW after \in Int, NEW until \in Int
  PROVE  \A t : t \in IntervalDue(rule, after, until)
                <=> t \in Int /\ after < t /\ t <= until /\ FiresAt(rule, t)
<1> DEFINE a == rule.anchor
           n == rule.every
           last == (until - a) \div n
           d == (after - a) \div n
<1>1. a \in Int /\ n \in Nat \ {0} /\ rule.kind = "interval"
  BY DEF IntervalRule
<1>2. \A t : FiresAt(rule, t) <=> t >= a /\ (t - a) % n = 0
  BY <1>1 DEF FiresAt
<1>3. /\ last \in Int /\ d \in Int
      /\ FirstIndex(rule, after) = IF d + 1 < 0 THEN 0 ELSE d + 1
  <2>1. until - a \in Int /\ after - a \in Int
    BY <1>1
  <2>2. last \in Int /\ d \in Int
    BY <1>1, <2>1, Divided
  <2>3. FirstIndex(rule, after) = LET next == d + 1 IN IF next < 0 THEN 0 ELSE next
    BY DEF FirstIndex
  <2>4. QED
    BY <2>2, <2>3
<1>4. ASSUME NEW t \in IntervalDue(rule, after, until)
      PROVE  t \in Int /\ after < t /\ t <= until /\ FiresAt(rule, t)
  <2>1. PICK i \in FirstIndex(rule, after)..last : t = a + i * n /\ after < t /\ t <= until
    BY <1>4 DEF IntervalDue
  <2>2. i \in Nat
    BY <1>3, <2>1
  <2>3. i * n \in Nat /\ t \in Int /\ t >= a /\ t - a = i * n + 0
    BY <1>1, <2>1, <2>2
  <2>4. (t - a) % n = 0
    <3>1. 0 \in 0..(n - 1) /\ i \in Int
      BY <1>1, <2>2
    <3>2. (i * n + 0) % n = 0
      BY ONLY <1>1, <3>1, Composed
    <3>3. QED
      BY <2>3, <3>2
  <2>5. QED
    BY <1>2, <2>1, <2>3, <2>4
<1>5. ASSUME NEW t \in Int, after < t, t <= until, FiresAt(rule, t)
      PROVE  t \in IntervalDue(rule, after, until)
  <2> DEFINE i == (t - a) \div n
  <2>1. t >= a /\ (t - a) % n = 0
    BY <1>2, <1>5
  <2>0. t - a \in Int /\ after - a \in Int
    BY <1>1
  <2>2. i \in Int /\ t - a = i * n
    <3>1. i \in Int /\ t - a = i * n + ((t - a) % n)
      BY <1>1, <2>0, Divided
    <3>2. i * n \in Int
      BY <1>1, <3>1
    <3> HIDE DEF i
    <3>3. QED
      BY <2>1, <3>1, <3>2
  <2>3. d \in Int /\ after - a = d * n + ((after - a) % n) /\ (after - a) % n \in 0..(n - 1)
    BY <1>1, <2>0, Divided
  <2>4. i <= last
    BY <1>1, <1>5, DivisionIsMonotone
  <2> HIDE DEF i, d, last
  <2>5. i > d
    <3>1. CASE i <= d
      <4>1. i * n <= d * n
        BY <1>1, <2>2, <2>3, <3>1
      <4>2. QED
        BY <1>1, <1>5, <2>2, <2>3, <4>1
    <3>2. QED
      BY <2>2, <2>3, <3>1
  <2>6. i >= 0
    <3>1. CASE i <= -1
      <4>1. i * n <= -1 * n
        BY <1>1, <2>2, <3>1
      <4>2. QED
        BY <1>1, <2>1, <2>2, <4>1
    <3>2. QED
      BY <2>2, <3>1
  <2>7. i \in FirstIndex(rule, after)..last
    BY <1>3, <2>2, <2>4, <2>5, <2>6
  <2>8. ~ (until < a) /\ t = a + i * n
    BY <1>1, <1>5, <2>1, <2>2
  <2>9. QED
    BY <1>5, <2>7, <2>8 DEF IntervalDue, last
<1>6. QED
  BY <1>4, <1>5

(* A window of a rule holds exactly the instants in it at which the rule   *)
(* fires.                                                                  *)
THEOREM DueBetweenIsExact ==
  ASSUME NEW rule \in WeeklyRule \union IntervalRule,
         rule.kind = "weekly" => DaysInOrder(rule.zone),
         NEW after \in Int, NEW until \in Int
  PROVE  DueBetween(rule, after, until) =
           {t \in Int : after < t /\ t <= until /\ FiresAt(rule, t)}
<1>1. CASE until <= after
  BY <1>1 DEF DueBetween
<1>2. CASE until > after /\ rule \in WeeklyRule
  <2>1. rule.kind = "weekly"
    BY <1>2 DEF WeeklyRule
  <2>2. DueBetween(rule, after, until) = WeeklyDue(rule, after, until)
    BY <1>2, <2>1 DEF DueBetween
  <2>3. QED
    BY <1>2, <2>1, <2>2, WeeklyIsExact
<1>3. CASE until > after /\ rule \in IntervalRule
  <2>1. rule.kind = "interval"
    BY <1>3 DEF IntervalRule
  <2>2. DueBetween(rule, after, until) = IntervalDue(rule, after, until)
    BY <1>3, <2>1 DEF DueBetween
  <2>3. QED
    BY <1>3, <2>2, IntervalIsExact
<1>4. QED
  BY <1>1, <1>2, <1>3

-----------------------------------------------------------------------------
(* The publisher.                                                          *)

ZonesInOrder == \A r \in Rules : RuleOf[r].kind = "weekly" => DaysInOrder(RuleOf[r].zone)

Times == 0..MaxTime

InWindow(after, until) == {o \in Reminders : after < o[1] /\ o[1] <= until}

(* The inductive invariant: the types, what a cycle has still to publish,  *)
(* and how far any process has looked at which clock.                      *)
Types ==
  /\ clock \in Times
  /\ lastCheckedAt \in {NotYet} \union Times
  /\ current \in {NotYet} \union Times
  /\ due \subseteq Reminders
  /\ stored \subseteq Reminders
  /\ (due = {}) = (current = NotYet)
  /\ faults \in 0..MaxFaults
  /\ watched \in [since : Times, earliest : Times, latest : Times]

(* What is left of a cycle, and what of its window is stored.              *)
CycleCovers ==
  due # {} =>
    /\ lastCheckedAt # NotYet
    /\ due \subseteq InWindow(lastCheckedAt, current)
    /\ InWindow(lastCheckedAt, current) \subseteq due \union stored

ClocksWatched ==
  /\ clock <= watched.latest
  /\ current # NotYet => current <= watched.latest
  /\ lastCheckedAt # NotYet => watched.earliest <= lastCheckedAt

IInv == Types /\ CycleCovers /\ ClocksWatched /\ NothingPassedOver /\ OnlyWhileWatched

LEMMA TimesFacts == Times \subseteq Int /\ NotYet \notin Times
BY ScheduledReminderAssumption DEF Times

LEMMA ReminderFacts ==
  ASSUME NEW o \in Reminders
  PROVE  o = <<o[1], o[2]>> /\ o[1] \in Times /\ o[1] \in Nat /\ o[2] \in Rules /\ o[2] \in Nat
<1>1. o \in Times \X Rules
  BY DEF Reminders, Times
<1>2. o = <<o[1], o[2]>> /\ o[1] \in Times /\ o[2] \in Rules
  BY <1>1
<1>3. QED
  BY <1>2, ScheduledReminderAssumption DEF Times

LEMMA DueRemindersIsExact ==
  ASSUME ZonesInOrder, NEW after \in Times, NEW until \in Times
  PROVE  DueReminders(after, until) = InWindow(after, until)
<1>1. after \in Int /\ until \in Int /\ 0 <= after /\ until <= MaxTime
  BY ScheduledReminderAssumption DEF Times
<1>2. ASSUME NEW r \in Rules
      PROVE  DueBetween(RuleOf[r], after, until) =
               {t \in Int : after < t /\ t <= until /\ FiresAt(RuleOf[r], t)}
  <2>1. RuleOf[r] \in WeeklyRule \union IntervalRule
    BY ScheduledReminderAssumption
  <2>2. RuleOf[r].kind = "weekly" => DaysInOrder(RuleOf[r].zone)
    BY DEF ZonesInOrder
  <2>3. ASSUME NEW rule \in WeeklyRule \union IntervalRule,
               rule.kind = "weekly" => DaysInOrder(rule.zone)
        PROVE  DueBetween(rule, after, until) =
                 {t \in Int : after < t /\ t <= until /\ FiresAt(rule, t)}
    BY <1>1, <2>3, DueBetweenIsExact
  <2>4. QED
    BY <2>1, <2>2, <2>3, Zenon
<1>3. ASSUME NEW o \in DueReminders(after, until) PROVE o \in InWindow(after, until)
  <2>0. PICK r \in Rules : \E t \in DueBetween(RuleOf[r], after, until) : o = <<t, r>>
    BY <1>3 DEF DueReminders
  <2>1. PICK t \in DueBetween(RuleOf[r], after, until) : o = <<t, r>>
    BY <2>0
  <2>2. t \in Int /\ after < t /\ t <= until /\ FiresAt(RuleOf[r], t)
    BY <1>2, <2>1
  <2>3. t \in 0..MaxTime
    BY <1>1, <2>2, ScheduledReminderAssumption
  <2>4. QED
    BY <2>1, <2>2, <2>3 DEF InWindow, Reminders
<1>4. ASSUME NEW o \in InWindow(after, until) PROVE o \in DueReminders(after, until)
  <2>1. /\ o = <<o[1], o[2]>> /\ o[1] \in Int /\ o[2] \in Rules
        /\ after < o[1] /\ o[1] <= until /\ FiresAt(RuleOf[o[2]], o[1])
    BY <1>4, ReminderFacts DEF InWindow, Reminders
  <2>2. o[1] \in DueBetween(RuleOf[o[2]], after, until)
    BY <1>2, <2>1
  <2>3. QED
    BY <2>1, <2>2 DEF DueReminders
<1>5. QED
  BY <1>3, <1>4

(* What is to be published next comes before everything else that is due.  *)
LEMMA NextDueIsFirst ==
  ASSUME due \subseteq Reminders, due # {}
  PROVE  NextDue \in due /\ \A b \in due \ {NextDue} : Before(NextDue, b)
<1>1. ASSUME NEW S, S \subseteq Nat, S # {} PROVE \E x \in S : \A y \in S : x <= y
  <2>1. PICK x \in S : \A y \in S : ~ (<<y, x>> \in OpToRel(<, Nat))
    BY <1>1, NatLessThanWellFounded, WFMin
  <2>2. \A y \in S : <<y, x>> \in Nat \X Nat
    BY <1>1
  <2>3. \A y \in S : ~ (y < x)
    BY <2>1, <2>2 DEF OpToRel
  <2>4. QED
    BY <1>1, <2>3
<1>2. PICK t \in {o[1] : o \in due} : \A b \in due : t <= b[1]
  <2>1. {o[1] : o \in due} \subseteq Nat /\ {o[1] : o \in due} # {}
    BY ReminderFacts
  <2>2. PICK t \in {o[1] : o \in due} : \A y \in {o[1] : o \in due} : t <= y
    BY <1>1, <2>1, Zenon
  <2>3. QED
    BY <2>2
<1> DEFINE At(x) == {o \in due : o[1] = x}
<1>3. PICK r \in {o[2] : o \in At(t)} : \A b \in At(t) : r <= b[2]
  <2>1. {o[2] : o \in At(t)} \subseteq Nat /\ {o[2] : o \in At(t)} # {}
    BY <1>2, ReminderFacts
  <2>2. PICK r \in {o[2] : o \in At(t)} : \A y \in {o[2] : o \in At(t)} : r <= y
    BY <1>1, <2>1, Zenon
  <2>3. QED
    BY <2>2
<1>4. PICK a \in due : a[1] = t /\ a[2] = r
  BY <1>3
<1>5. ASSUME NEW b \in due \ {a} PROVE Before(a, b)
  <2>1. /\ a = <<a[1], a[2]>> /\ b = <<b[1], b[2]>>
        /\ a[1] \in Nat /\ a[2] \in Nat /\ b[1] \in Nat /\ b[2] \in Nat
    BY ReminderFacts
  <2>2. a[1] <= b[1] /\ (b[1] = a[1] => a[2] <= b[2])
    BY <1>2, <1>3, <1>4
  <2>3. ~ (a[1] = b[1] /\ a[2] = b[2])
    BY <1>5, <2>1
  <2>4. QED
    BY <2>1, <2>2, <2>3 DEF Before
<1>6. QED
  BY <1>4, <1>5 DEF NextDue

-----------------------------------------------------------------------------
(* Every step.                                                             *)

LEMMA WatchedFacts ==
  ASSUME Types, NEW t \in Times
  PROVE  /\ Earliest(t) \in Times /\ Earliest(t) <= t /\ Earliest(t) <= watched.earliest
         /\ watched.since \in Times /\ watched.earliest \in Times /\ watched.latest \in Times
<1>1. watched.since \in Times /\ watched.earliest \in Times /\ watched.latest \in Times
  BY DEF Types
<1>2. t \in Int /\ watched.earliest \in Int
  BY <1>1, TimesFacts
<1>3. QED
  BY <1>1, <1>2 DEF Earliest

LEMMA InitIInv == Init => IInv
<1> SUFFICES ASSUME Init PROVE IInv
  OBVIOUS
<1>1. Start \in Times /\ 0 \in 0..MaxFaults
  BY ScheduledReminderAssumption DEF Times
<1>2. Types
  BY <1>1 DEF Init, Types
<1>3. Start <= Start
  BY <1>1, TimesFacts
<1>4. CycleCovers /\ ClocksWatched /\ NothingPassedOver /\ OnlyWhileWatched
  BY <1>3 DEF Init, CycleCovers, ClocksWatched, NothingPassedOver, OnlyWhileWatched
<1>5. QED
  BY <1>2, <1>4 DEF IInv

(* The clock moves: what was watched may only grow.                        *)
LEMMA ClockMoves ==
  ASSUME IInv, Tick \/ SetBack
  PROVE  IInv'
<1>1. Types /\ CycleCovers /\ ClocksWatched /\ NothingPassedOver /\ OnlyWhileWatched
      /\ clock \in Times /\ MaxTime \in Nat /\ MaxFaults \in Nat
      /\ watched \in [since : Times, earliest : Times, latest : Times]
  BY ScheduledReminderAssumption DEF IInv, Types
<1>2. UNCHANGED <<lastCheckedAt, current, due, stored>>
  BY DEF Tick, SetBack
<1>3. clock' \in Times /\ faults' \in 0..MaxFaults
  BY <1>1 DEF Tick, SetBack, Fault, Types, Times
<1>4. /\ watched' \in [since : Times, earliest : Times, latest : Times]
      /\ watched'.since = watched.since /\ watched'.earliest = watched.earliest
      /\ watched.latest <= watched'.latest /\ clock' <= watched'.latest
  <2>1. CASE Tick
    <3> DEFINE latest == IF watched.latest < clock + 1 THEN clock + 1 ELSE watched.latest
    <3>1. watched' = [watched EXCEPT !.latest = latest] /\ clock' = clock + 1
      BY <2>1 DEF Tick
    <3>2. latest \in Times /\ watched.latest <= latest /\ clock + 1 <= latest
      BY <1>1, <1>3, <3>1 DEF Times
    <3> HIDE DEF latest
    <3>3. QED
      BY <1>1, <3>1, <3>2
  <2>2. CASE SetBack
    BY <1>1, <2>2 DEF SetBack, ClocksWatched, Times
  <2>3. QED
    BY <2>1, <2>2
<1>5. Types'
  BY <1>1, <1>2, <1>3, <1>4 DEF Types
<1>6. CycleCovers'
  BY <1>1, <1>2 DEF CycleCovers, InWindow
<1>7. ClocksWatched'
  <2>1. current # NotYet => current \in Times /\ current <= watched.latest
    BY <1>1 DEF ClocksWatched, Types
  <2>2. watched.latest \in Times /\ watched'.latest \in Times
    BY <1>1, <1>4
  <2>3. current # NotYet => current <= watched'.latest
    BY <1>4, <2>1, <2>2 DEF Times
  <2>4. QED
    BY <1>1, <1>2, <1>4, <2>3 DEF ClocksWatched
<1>8. NothingPassedOver'
  BY <1>1, <1>2, <1>4 DEF NothingPassedOver
<1>9. OnlyWhileWatched'
  <2>1. watched.latest \in Nat /\ watched'.latest \in Nat
    BY <1>1, <1>4 DEF Times
  <2>2. \A o \in stored : o[1] \in Nat
    BY <1>1, ReminderFacts DEF Types
  <2>3. QED
    BY <1>1, <1>2, <1>4, <2>1, <2>2 DEF OnlyWhileWatched
<1>10. QED
  BY <1>5, <1>6, <1>7, <1>8, <1>9 DEF IInv

(* A cycle ends with everything up to time t looked at: the first one of a *)
(* process, one that finds nothing, and the last publication of one.       *)
LEMMA LooksUpTo ==
  ASSUME IInv, NEW t \in Times,
         lastCheckedAt' = t, due' = {}, current' = NotYet,
         stored' \subseteq Reminders, stored \subseteq stored',
         \A o \in stored' \ stored : watched.earliest < o[1] /\ o[1] <= watched.latest,
         UNCHANGED <<clock, faults>>, watched' = [watched EXCEPT !.earliest = Earliest(t)],
         lastCheckedAt # NotYet /\ InWindow(lastCheckedAt, t) \subseteq stored'
  PROVE  IInv'
<1>1. Types /\ ClocksWatched /\ NothingPassedOver /\ OnlyWhileWatched
      /\ watched \in [since : Times, earliest : Times, latest : Times]
  BY DEF IInv, Types
<1>2. /\ watched' \in [since : Times, earliest : Times, latest : Times]
      /\ watched'.since = watched.since /\ watched'.latest = watched.latest
      /\ watched'.earliest = Earliest(t)
  BY <1>1, WatchedFacts
<1>3. Types'
  BY <1>1, <1>2 DEF Types
<1>4. CycleCovers'
  BY DEF CycleCovers
<1>5. ClocksWatched'
  BY <1>1, <1>2, WatchedFacts DEF ClocksWatched
<1>6. NothingPassedOver'
  <2> SUFFICES ASSUME NEW o \in Reminders, watched.since < o[1], o[1] <= t PROVE o \in stored'
    BY <1>2 DEF NothingPassedOver
  <2>1. lastCheckedAt \in Times
    BY <1>1 DEF Types
  <2>2. CASE o[1] <= lastCheckedAt
    BY <1>1, <2>2 DEF NothingPassedOver
  <2>3. CASE lastCheckedAt < o[1]
    BY <2>3 DEF InWindow
  <2>4. QED
    BY <2>1, <2>2, <2>3, TimesFacts, ReminderFacts
<1>7. OnlyWhileWatched'
  <2> SUFFICES ASSUME NEW o \in stored' PROVE Earliest(t) < o[1] /\ o[1] <= watched.latest
    BY <1>2 DEF OnlyWhileWatched
  <2>1. watched.earliest < o[1] /\ o[1] <= watched.latest
    BY <1>1 DEF OnlyWhileWatched
  <2>2. o[1] \in Nat
    BY ReminderFacts
  <2>3. QED
    BY <1>1, <2>1, <2>2, WatchedFacts, TimesFacts
<1>8. QED
  BY <1>3, <1>4, <1>5, <1>6, <1>7 DEF IInv

(* The first cycle starts the window at the present.                       *)
LEMMA FirstCycleLooks ==
  ASSUME IInv, FirstCycle
  PROVE  IInv'
<1>1. Types /\ ClocksWatched /\ OnlyWhileWatched /\ clock \in Times
      /\ watched \in [since : Times, earliest : Times, latest : Times]
  BY DEF IInv, Types
<1>2. /\ current = NotYet /\ lastCheckedAt' = clock
      /\ UNCHANGED <<clock, current, due, stored, faults>>
      /\ watched' = [watched EXCEPT !.since = clock, !.earliest = Earliest(clock)]
  BY DEF FirstCycle
<1>3. /\ watched' \in [since : Times, earliest : Times, latest : Times]
      /\ watched'.since = clock /\ watched'.latest = watched.latest
      /\ watched'.earliest = Earliest(clock)
  BY <1>1, <1>2, WatchedFacts
<1>4. Types'
  BY <1>1, <1>2, <1>3 DEF Types
<1>5. due' = {}
  BY <1>1, <1>2 DEF Types
<1>6. CycleCovers'
  BY <1>5 DEF CycleCovers
<1>7. ClocksWatched'
  BY <1>1, <1>2, <1>3, WatchedFacts DEF ClocksWatched
<1>8. NothingPassedOver'
  <2> SUFFICES ASSUME NEW o \in Reminders, clock < o[1], o[1] <= clock PROVE FALSE
    BY <1>2, <1>3 DEF NothingPassedOver
  <2>1. clock \in Nat /\ o[1] \in Nat
    BY <1>1, ReminderFacts DEF Times
  <2>2. QED
    BY <2>1
<1>9. OnlyWhileWatched'
  <2> SUFFICES ASSUME NEW o \in stored PROVE Earliest(clock) < o[1] /\ o[1] <= watched.latest
    BY <1>2, <1>3 DEF OnlyWhileWatched
  <2>1. watched.earliest < o[1] /\ o[1] <= watched.latest
    BY <1>1 DEF OnlyWhileWatched
  <2>2. o[1] \in Nat
    BY <1>1, ReminderFacts DEF Types
  <2>3. /\ Earliest(clock) \in Nat /\ watched.earliest \in Nat
        /\ Earliest(clock) <= watched.earliest
    BY <1>1, WatchedFacts DEF Times
  <2>4. QED
    BY <2>1, <2>2, <2>3
<1>10. QED
  BY <1>4, <1>6, <1>7, <1>8, <1>9 DEF IInv

(* A cycle takes on the whole window.                                      *)
LEMMA CycleTakesTheWindow ==
  ASSUME ZonesInOrder, IInv, Cycle
  PROVE  IInv'
<1>1. Types /\ ClocksWatched /\ NothingPassedOver /\ OnlyWhileWatched /\ clock \in Times
  BY DEF IInv, Types
<1>2. /\ lastCheckedAt # NotYet /\ current' = clock
      /\ due' = DueReminders(lastCheckedAt, clock) /\ due' # {}
      /\ UNCHANGED <<clock, lastCheckedAt, stored, faults, watched>>
  BY DEF Cycle
<1>3. lastCheckedAt \in Times
  BY <1>1, <1>2 DEF Types
<1>4. due' = InWindow(lastCheckedAt, clock)
  BY <1>1, <1>2, <1>3, DueRemindersIsExact
<1>5. due' \subseteq Reminders /\ current' # NotYet
  BY <1>1, <1>2, <1>4, TimesFacts DEF InWindow
<1>6. Types'
  BY <1>1, <1>2, <1>5 DEF Types
<1>7. InWindow(lastCheckedAt, current)' = InWindow(lastCheckedAt, clock)
  BY <1>2 DEF InWindow
<1>8. CycleCovers'
  BY <1>2, <1>4, <1>7 DEF CycleCovers
<1>9. ClocksWatched'
  BY <1>1, <1>2 DEF ClocksWatched
<1>10. NothingPassedOver' /\ OnlyWhileWatched'
  BY <1>1, <1>2 DEF NothingPassedOver, OnlyWhileWatched
<1>11. QED
  BY <1>6, <1>8, <1>9, <1>10 DEF IInv

LEMMA EmptyCycleLooks ==
  ASSUME ZonesInOrder, IInv, EmptyCycle
  PROVE  IInv'
<1>1. /\ clock \in Times /\ lastCheckedAt \in Times /\ due = {}
      /\ stored \subseteq Reminders /\ current = NotYet /\ lastCheckedAt # NotYet
  BY DEF IInv, Types, EmptyCycle
<1>2. InWindow(lastCheckedAt, clock) = {}
  BY <1>1, DueRemindersIsExact DEF EmptyCycle
<1>3. /\ lastCheckedAt' = clock /\ due' = {} /\ current' = NotYet /\ stored' = stored
      /\ UNCHANGED <<clock, faults>>
      /\ watched' = [watched EXCEPT !.earliest = Earliest(clock)]
  BY <1>1 DEF EmptyCycle
<1>4. QED
  BY <1>1, <1>2, <1>3, LooksUpTo

(* The process ends; a new one knows nothing.                              *)
LEMMA EndForgets ==
  ASSUME IInv, TooManyDue \/ Restart
  PROVE  IInv'
<1>1. Types /\ ClocksWatched /\ OnlyWhileWatched /\ MaxFaults \in Nat
  BY ScheduledReminderAssumption DEF IInv
<1>2. /\ lastCheckedAt' = NotYet /\ current' = NotYet /\ due' = {}
      /\ UNCHANGED <<clock, stored, watched>>
  BY DEF TooManyDue, Restart, Ended
<1>3. faults' \in 0..MaxFaults
  BY <1>1 DEF TooManyDue, Restart, Fault, Types
<1>4. Types'
  BY <1>1, <1>2, <1>3 DEF Types
<1>5. CycleCovers' /\ NothingPassedOver'
  BY <1>2 DEF CycleCovers, NothingPassedOver
<1>6. ClocksWatched' /\ OnlyWhileWatched'
  BY <1>1, <1>2 DEF ClocksWatched, OnlyWhileWatched
<1>7. QED
  BY <1>4, <1>5, <1>6 DEF IInv

(* What is published next is of the window and of the time watched.        *)
LEMMA NextDueFacts ==
  ASSUME IInv, due # {}
  PROVE  /\ NextDue \in due /\ NextDue \in Reminders
         /\ lastCheckedAt \in Times /\ current \in Times
         /\ lastCheckedAt < NextDue[1] /\ NextDue[1] <= current
         /\ watched.earliest < NextDue[1] /\ NextDue[1] <= watched.latest
<1>1. Types /\ CycleCovers /\ ClocksWatched
  BY DEF IInv
<1>2. NextDue \in due /\ NextDue \in Reminders
  BY <1>1, NextDueIsFirst DEF Types
<1>3. lastCheckedAt \in Times /\ current \in Times
  BY <1>1 DEF Types, CycleCovers
<1>4. lastCheckedAt < NextDue[1] /\ NextDue[1] <= current
  BY <1>1, <1>2 DEF CycleCovers, InWindow
<1>5. watched.earliest <= lastCheckedAt /\ current <= watched.latest
  BY <1>1, <1>3, TimesFacts DEF ClocksWatched
<1>6. watched.earliest \in Int /\ watched.latest \in Int /\ NextDue[1] \in Int
  BY <1>1, <1>2, <1>3, WatchedFacts, TimesFacts, ReminderFacts
<1>7. lastCheckedAt \in Int /\ current \in Int
  BY <1>3, TimesFacts
<1>8. QED
  BY <1>2, <1>3, <1>4, <1>5, <1>6, <1>7

LEMMA PublicationStores ==
  ASSUME IInv, PublishNext
  PROVE  IInv'
<1> DEFINE rest == due \ {NextDue}
<1>1. Types /\ CycleCovers /\ ClocksWatched /\ NothingPassedOver /\ OnlyWhileWatched
  BY DEF IInv
<1>2. due # {} /\ stored' = stored \union {NextDue} /\ due' = rest /\ UNCHANGED <<clock, faults>>
  BY DEF PublishNext
<1>3. /\ NextDue \in due /\ NextDue \in Reminders
      /\ lastCheckedAt \in Times /\ current \in Times
      /\ watched.earliest < NextDue[1] /\ NextDue[1] <= watched.latest
  BY <1>2, NextDueFacts
<1>4. lastCheckedAt # NotYet /\ current # NotYet
  BY <1>3, TimesFacts
<1>5. InWindow(lastCheckedAt, current) \subseteq rest \union stored'
  BY <1>1, <1>2 DEF CycleCovers
<1>6. stored' \subseteq Reminders /\ stored \subseteq stored'
      /\ \A o \in stored' \ stored : watched.earliest < o[1] /\ o[1] <= watched.latest
  BY <1>1, <1>2, <1>3 DEF Types
<1>7. CASE rest = {}
  <2>1. /\ lastCheckedAt' = current /\ current' = NotYet
        /\ watched' = [watched EXCEPT !.earliest = Earliest(current)]
    BY <1>7 DEF PublishNext
  <2>2. due' = {} /\ InWindow(lastCheckedAt, current) \subseteq stored'
    BY <1>2, <1>5, <1>7
  <2> HIDE DEF rest
  <2>3. QED
    BY <1>2, <1>3, <1>4, <1>6, <2>1, <2>2, LooksUpTo
<1>8. CASE rest # {}
  <2>1. UNCHANGED <<lastCheckedAt, current, watched>>
    BY <1>8 DEF PublishNext
  <2>2. due' \subseteq due /\ due' # {}
    BY <1>2, <1>8
  <2>3. InWindow(lastCheckedAt, current)' = InWindow(lastCheckedAt, current)
    BY <2>1 DEF InWindow
  <2>4. InWindow(lastCheckedAt, current)' \subseteq due' \union stored'
    BY <1>2, <1>5, <2>3
  <2> HIDE DEF rest
  <2>5. Types'
    BY <1>1, <1>2, <1>4, <1>6, <2>1, <2>2 DEF Types
  <2>6. CycleCovers'
    <3>1. due' \subseteq InWindow(lastCheckedAt, current)'
      BY <1>1, <1>2, <2>2, <2>3 DEF CycleCovers
    <3>2. QED
      BY <1>4, <2>1, <2>4, <3>1 DEF CycleCovers
  <2>7. ClocksWatched'
    BY <1>1, <1>2, <2>1 DEF ClocksWatched
  <2>8. NothingPassedOver'
    BY <1>1, <1>6, <2>1 DEF NothingPassedOver
  <2>9. OnlyWhileWatched'
    BY <1>1, <1>6, <2>1 DEF OnlyWhileWatched
  <2>10. QED
    BY <2>5, <2>6, <2>7, <2>8, <2>9 DEF IInv
<1>9. QED
  BY <1>7, <1>8

(* A call that fails leaves the window where it was.                       *)
LEMMA FailureKeepsTheWindow ==
  ASSUME IInv, PublishFails
  PROVE  IInv'
<1>1. Types /\ ClocksWatched /\ NothingPassedOver /\ OnlyWhileWatched /\ MaxFaults \in Nat
  BY ScheduledReminderAssumption DEF IInv
<1>2. /\ due # {} /\ due' = {} /\ current' = NotYet
      /\ stored' \in {stored, stored \union {NextDue}}
      /\ UNCHANGED <<clock, lastCheckedAt, watched>>
  BY DEF PublishFails
<1>3. faults' \in 0..MaxFaults
  BY <1>1 DEF PublishFails, Fault, Types
<1>4. NextDue \in Reminders /\ watched.earliest < NextDue[1] /\ NextDue[1] <= watched.latest
  BY <1>2, NextDueFacts
<1>5. stored' \subseteq Reminders /\ stored \subseteq stored'
      /\ \A o \in stored' \ stored : o = NextDue
  BY <1>1, <1>2, <1>4 DEF Types
<1>6. Types'
  BY <1>1, <1>2, <1>3, <1>5 DEF Types
<1>7. CycleCovers' /\ ClocksWatched'
  BY <1>1, <1>2 DEF CycleCovers, ClocksWatched
<1>8. NothingPassedOver'
  BY <1>1, <1>2, <1>5 DEF NothingPassedOver
<1>9. OnlyWhileWatched'
  BY <1>1, <1>2, <1>4, <1>5 DEF OnlyWhileWatched
<1>10. QED
  BY <1>6, <1>7, <1>8, <1>9 DEF IInv

LEMMA StepIInv ==
  ASSUME ZonesInOrder, IInv, [Next]_vars
  PROVE  IInv'
<1>1. CASE Tick \/ SetBack
  BY <1>1, ClockMoves
<1>2. CASE FirstCycle
  BY <1>2, FirstCycleLooks
<1>3. CASE Cycle
  BY <1>3, CycleTakesTheWindow
<1>4. CASE EmptyCycle
  BY <1>4, EmptyCycleLooks
<1>5. CASE TooManyDue \/ Restart
  BY <1>5, EndForgets
<1>6. CASE PublishNext
  BY <1>6, PublicationStores
<1>7. CASE PublishFails
  BY <1>7, FailureKeepsTheWindow
<1>8. CASE UNCHANGED vars
  BY <1>8 DEF vars, IInv, Types, CycleCovers, InWindow, ClocksWatched, NothingPassedOver,
              OnlyWhileWatched
<1>9. QED
  BY <1>1, <1>2, <1>3, <1>4, <1>5, <1>6, <1>7, <1>8 DEF Next, RunOnce

-----------------------------------------------------------------------------
(* The theorems.                                                           *)

LEMMA AlwaysIInv ==
  ASSUME ZonesInOrder
  PROVE  Spec => []IInv
<1>1. IInv /\ [Next]_vars => IInv'
  BY StepIInv
<1>2. QED
  BY <1>1, InitIInv, PTL DEF Spec

(* Every variable has its type in every reachable state: in particular a   *)
(* cycle is under way exactly while it has something to publish.           *)
THEOREM TypeCorrect ==
  ASSUME ZonesInOrder
  PROVE  Spec => []TypeOK
<1>1. IInv => TypeOK
  BY DEF IInv, Types, TypeOK, Times
<1>2. QED
  BY <1>1, AlwaysIInv, PTL

(* The window a cycle looks at holds exactly what fires in it.             *)
THEOREM DueIsWhatFiresHolds ==
  ASSUME ZonesInOrder
  PROVE  Spec => []DueIsWhatFires
<1>1. IInv => DueIsWhatFires
  <2> SUFFICES ASSUME IInv, lastCheckedAt # NotYet
               PROVE  DueReminders(lastCheckedAt, clock) = InWindow(lastCheckedAt, clock)
    BY DEF DueIsWhatFires, InWindow
  <2>1. lastCheckedAt \in Times /\ clock \in Times
    BY DEF IInv, Types
  <2>2. QED
    BY <2>1, DueRemindersIsExact
<1>2. QED
  BY <1>1, AlwaysIInv, PTL

(* What the window has passed since the process started is stored,         *)
(* whatever failed in between.                                             *)
THEOREM NothingPassedOverHolds ==
  ASSUME ZonesInOrder
  PROVE  Spec => []NothingPassedOver
<1>1. IInv => NothingPassedOver
  BY DEF IInv
<1>2. QED
  BY <1>1, AlwaysIInv, PTL

(* Nothing is published ahead of time or from before the first look.       *)
THEOREM OnlyWhileWatchedHolds ==
  ASSUME ZonesInOrder
  PROVE  Spec => []OnlyWhileWatched
<1>1. IInv => OnlyWhileWatched
  BY DEF IInv
<1>2. QED
  BY <1>1, AlwaysIInv, PTL

(* A reminder is stored only after all that fell due before it in the same *)
(* window.                                                                 *)
THEOREM NoneOvertakenHolds ==
  ASSUME ZonesInOrder
  PROVE  Spec => NoneOvertaken
<1> DEFINE Ordered ==
      \A o \in stored' \ stored : \A earlier \in Reminders :
        lastCheckedAt < earlier[1] /\ Before(earlier, o) => earlier \in stored
<1>1. ASSUME IInv, Next PROVE Ordered
  <2> SUFFICES ASSUME NEW o \in stored' \ stored, NEW earlier \in Reminders,
                      lastCheckedAt < earlier[1], Before(earlier, o), earlier \notin stored
               PROVE  FALSE
    OBVIOUS
  <2>1. due # {} /\ o = NextDue
    BY <1>1 DEF Next, RunOnce, Tick, SetBack, FirstCycle, Cycle, EmptyCycle, TooManyDue, Restart,
                Ended, PublishNext, PublishFails
  <2>2. /\ o \in due /\ o \in Reminders /\ current \in Times /\ o[1] <= current
        /\ \A b \in due \ {o} : Before(o, b)
    BY <1>1, <2>1, NextDueFacts, NextDueIsFirst DEF IInv, Types
  <2>3. /\ o[1] \in Nat /\ o[2] \in Nat /\ earlier[1] \in Nat /\ earlier[2] \in Nat
        /\ current \in Int
    BY <2>2, ReminderFacts, TimesFacts
  <2>4. earlier[1] <= current
    BY <2>2, <2>3 DEF Before
  <2>5. earlier \in due
    BY <1>1, <2>1, <2>4 DEF IInv, CycleCovers, InWindow
  <2>6. earlier # o
    BY <2>3 DEF Before
  <2>7. Before(o, earlier)
    BY <2>2, <2>5, <2>6
  <2>8. QED
    BY <2>3, <2>7 DEF Before
<1>2. IInv /\ [Next]_vars => [Ordered]_vars
  BY <1>1
<1> HIDE DEF Ordered
<1>3. [][Ordered]_vars => NoneOvertaken
  BY DEF NoneOvertaken, Ordered
<1>4. QED
  BY <1>2, <1>3, AlwaysIInv, PTL DEF Spec
=============================================================================
