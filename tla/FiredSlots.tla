----------------------------- MODULE FiredSlots -----------------------------
(***************************************************************************)
(* firedSlotsBetween of schedule.go: how often a slot, given by a weekday  *)
(* and a wall-clock time, fires in the window (from, now] that a tick of   *)
(* the scheduler covers.  The code walks over local days, from midnight of *)
(* the day that holds from, and builds the slot's instant on each of them. *)
(* Windows follow one another: last_tick_at is where the next one starts.  *)
(*                                                                         *)
(* A zone has one change of its offset.  An instant is a number; in zone z *)
(* the clock shows t + Offset(z, t), counted in the same unit from a local *)
(* midnight.  Each slot is counted by itself, so there is one.  SlotQueue  *)
(* uses the count on a week without changes of offset.                     *)
(***************************************************************************)
EXTENDS Integers, FiniteSets

CONSTANTS
  DayLength,   \* units of a local day
  WeekLength,  \* days of a week
  Zones,       \* offset before the change, after it, its instant, and which
               \* of the two offsets Go uses for a time of day that the
               \* change skips or repeats
  Births,      \* instants at which a schedule is created
  Horizon      \* bound: last instant of a window

ASSUME LengthAssumption == DayLength \in Nat \ {0} /\ WeekLength \in Nat \ {0}
ASSUME ZoneAssumption ==
  Zones \subseteq [before: Int, after: Int, at: Int, prefers: {"before", "after"}]
ASSUME InstantAssumption ==
  Horizon \in Int /\ Births \subseteq Int /\ \A t \in Births : t <= Horizon

VARIABLES
  zone, slot,  \* a slot and its zone
  created,     \* the schedule's created_at
  from, now,   \* the window of this tick, or of the last one
  cursor,      \* the instant the walk has reached
  walking,     \* firedSlotsBetween is running
  fired        \* firings counted since the schedule was created

vars == <<zone, slot, created, from, now, cursor, walking, fired>>

Slots == [weekday: 0..(WeekLength - 1), clock: 0..(DayLength - 1), valid: BOOLEAN]

-----------------------------------------------------------------------------
(***************************************************************************)
(* Calendars: Go's time package.                                           *)
(***************************************************************************)

Offset(z, t) == IF t < z.at THEN z.before ELSE z.after

Day(z, t) == (t + Offset(z, t)) \div DayLength

Clock(z, t) == (t + Offset(z, t)) % DayLength

Weekday(day) == day % WeekLength

\* time.Date: the instant at which the clock shows that time on that day.  A
\* time that the change skips or repeats is read with one of the two offsets.
Date(z, day, clock) ==
  LET shown  == day * DayLength + clock
      early  == shown - z.before
      late   == shown - z.after
  IN  IF early < z.at /\ late < z.at THEN early
      ELSE IF early >= z.at /\ late >= z.at THEN late
      ELSE IF z.prefers = "before" THEN early ELSE late

\* The first midnight after the time that a clock shows.
NextMidnight(shown) == (shown \div DayLength + 1) * DayLength

\* No midnight is among the times that the change repeats; none is among those
\* that it skips, or as close to them as they are many, where Go puts them.
MidnightsClear(z) ==
  IF z.after <= z.before
  THEN NextMidnight(z.at + z.after - 1) >= z.at + z.before
  ELSE LET skipped == z.after - z.before
       IN  NextMidnight(z.at + z.before - skipped) >= z.at + z.after + skipped

-----------------------------------------------------------------------------
TypeOK ==
  /\ zone \in Zones
  /\ slot \in Slots
  /\ created \in Births
  /\ from \in created..Horizon /\ now \in from..Horizon
  /\ cursor \in Int
  /\ walking \in BOOLEAN
  /\ fired \in Nat

Init ==
  /\ zone \in Zones
  /\ slot \in Slots
  /\ created \in Births
  /\ from = created
  /\ now = created
  /\ cursor = created
  /\ walking = FALSE
  /\ fired = 0

\* A tick at time t.  A slot with a malformed time or zone is skipped.
BeginWalk(t) ==
  /\ ~walking
  /\ t > from
  /\ now' = t
  /\ walking' = slot.valid
  /\ from' = IF slot.valid THEN from ELSE t
  /\ cursor' = Date(zone, Day(zone, from), 0)
  /\ UNCHANGED <<zone, slot, created, fired>>

\* Mutation: cursor.Add(24 * time.Hour).
AddDateAsHours(t) == t + DayLength

\* Mutation: the midnight of the day that 24 hours later falls on.
AddDateTruncated(t) == Date(zone, Day(zone, t + DayLength), 0)

\* cursor.AddDate(0, 0, 1): the same time of day, one day later.
AddDate(t) == Date(zone, Day(zone, t) + 1, Clock(zone, t))

\* The instant of the slot on the cursor's day.
Fire == Date(zone, Day(zone, cursor), slot.clock)

\* One turn of the loop.
WalkDay ==
  /\ walking
  /\ cursor <= now
  /\ cursor' = AddDate(cursor)
  /\ fired' = IF /\ Weekday(Day(zone, cursor)) = slot.weekday
                 /\ from < Fire /\ Fire <= now
              THEN fired + 1 ELSE fired
  /\ UNCHANGED <<zone, slot, created, from, now, walking>>

\* Mutation: the next window starts where the walk ended.
EndWalkAtCursor ==
  /\ walking
  /\ cursor > now
  /\ walking' = FALSE
  /\ from' = cursor
  /\ UNCHANGED <<zone, slot, created, now, cursor, fired>>

\* The loop ends; the next window starts where this one ended.
EndWalk ==
  /\ walking
  /\ cursor > now
  /\ walking' = FALSE
  /\ from' = now
  /\ UNCHANGED <<zone, slot, created, now, cursor, fired>>

Next == (\E t \in (from + 1)..Horizon : BeginWalk(t)) \/ WalkDay \/ EndWalk

Spec == Init /\ [][Next]_vars /\ WF_vars(WalkDay \/ EndWalk)

-----------------------------------------------------------------------------
(***************************************************************************)
(* Properties.                                                             *)
(***************************************************************************)

\* The reference: the days of the slot's weekday whose instant lies in the
\* window (a, b].
Occurrences(a, b) ==
  {d \in (Day(zone, a) - 1)..(Day(zone, b) + 1) :
     /\ Weekday(d) = slot.weekday
     /\ a < Date(zone, d, slot.clock) /\ Date(zone, d, slot.clock) <= b}

CountIsExact == fired = IF slot.valid THEN Cardinality(Occurrences(created, from)) ELSE 0

\* However ticks divide the time since a schedule was created, and wherever
\* in a day the zone changes its offset, firedSlotsBetween counts each
\* occurrence of the slot once: none twice at a border, none lost on a day of
\* 23 or 25 hours.  A change next to a midnight, which may skip or repeat it or
\* put a slot's time on its other side, is left out.
CountsEachOccurrence == MidnightsClear(zone) /\ ~walking => CountIsExact

\* The change skips or repeats less than a day.
ShortChange(z) == z.after - z.before < DayLength /\ z.before - z.after < DayLength

\* AddDate always moves the walk on, also from a time of day that the next day
\* skips or repeats.  A change that skips a whole day is left out: read with
\* the later offset, the day after is the same instant.
WalkAdvances == [][WalkDay /\ ShortChange(zone) => cursor' > cursor]_vars

\* The walk ends, even from a midnight that does not exist.
WalkEnds == walking /\ ShortChange(zone) ~> ~walking

-----------------------------------------------------------------------------
(***************************************************************************)
(* What the documentation says and the code does not do.                   *)
(***************************************************************************)

\* "A slot fires once per occurrence of its (weekday, HH:MM) in the given
\* timezone window", whatever the timezone.
FiresOncePerOccurrence == ~walking => CountIsExact

=============================================================================
