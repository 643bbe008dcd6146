---------------------------- MODULE FiredProofs ----------------------------
(***************************************************************************)
(* Theorems about FiredSlots, for any length of day and week, zone, slot   *)
(* and sequence of windows: type correctness, and that the walk over local *)
(* days counts each occurrence of a slot once.                             *)
(*                                                                         *)
(* Where a change of the offset keeps clear of the midnights, local days   *)
(* are intervals of time, one after the other, that hold their slots'      *)
(* instants.  The cursor then is at the midnight of some day, and the      *)
(* count is that of the occurrences on the days before, and of those that  *)
(* earlier windows hold.                                                   *)
(***************************************************************************)
EXTENDS FiredSlots, TLAPS, FiniteSetTheorems

USE DEF vars

-----------------------------------------------------------------------------
(***************************************************************************)
(* The invariant.                                                          *)
(***************************************************************************)

\* The occurrences, since the schedule was created, before the window or on the
\* days before d.
Passed(d) == {e \in Occurrences(created, now) : e < d \/ Date(zone, e, slot.clock) <= from}

\* The walk is at the midnight of a day, and has counted the days before it.
Walked ==
  /\ ~slot.valid => fired = 0
  /\ walking => slot.valid
  /\ MidnightsClear(zone) /\ walking =>
       \E d \in Int : cursor = Date(zone, d, 0) /\ fired = Cardinality(Passed(d))
  /\ CountsEachOccurrence

Inv == TypeOK /\ Walked

-----------------------------------------------------------------------------
(***************************************************************************)
(* Days.                                                                   *)
(***************************************************************************)

\* What the clock shows, in units, at the first midnight of day d.
Midnight(d) == d * DayLength

LEMMA Midnights ==
  /\ \A d \in Int : /\ Midnight(d) \in Int /\ Midnight(d + 1) = Midnight(d) + DayLength
                    /\ Midnight(d) % DayLength = 0
  /\ \A d, e \in Int : d <= e => Midnight(d) <= Midnight(e)
  /\ \A s, d \in Int : s \div DayLength = d <=> Midnight(d) <= s /\ s < Midnight(d + 1)
  /\ \A s \in Int : s \div DayLength \in Int /\ s % DayLength \in Int
<1>1. \A d \in Int : Midnight(d) \in Int /\ Midnight(d + 1) = Midnight(d) + DayLength
  BY LengthAssumption DEF Midnight
<1>2. ASSUME NEW d \in Int, NEW e \in Int, d < e
      PROVE  Midnight(d) + DayLength <= Midnight(e)
  <2>1. (e - d - 1) * DayLength >= 0
    BY <1>2, LengthAssumption
  <2> QED
    BY <2>1, LengthAssumption DEF Midnight
<1>3. ASSUME NEW s \in Int
      PROVE  /\ s \div DayLength \in Int /\ s % DayLength \in Int
             /\ Midnight(s \div DayLength) <= s /\ s < Midnight(s \div DayLength) + DayLength
             /\ s % DayLength = s - Midnight(s \div DayLength)
  BY LengthAssumption DEF Midnight
<1>4. ASSUME NEW s \in Int, NEW d \in Int
      PROVE  s \div DayLength = d <=> Midnight(d) <= s /\ s < Midnight(d + 1)
  <2>1. PICK q \in Int : q = s \div DayLength
    BY <1>3
  <2>2. /\ Midnight(q) <= s /\ s < Midnight(q + 1) /\ Midnight(q) \in Int
        /\ Midnight(d) \in Int /\ Midnight(d + 1) \in Int
        /\ Midnight(d + 1) = Midnight(d) + DayLength /\ Midnight(q + 1) = Midnight(q) + DayLength
    BY <1>1, <1>3, <2>1
  <2>3. CASE q < d
    <3>1. Midnight(q) + DayLength <= Midnight(d)
      BY <1>2, <2>3
    <3> QED
      BY <2>1, <2>2, <2>3, <3>1, LengthAssumption
  <2>4. CASE q > d
    <3>1. Midnight(d) + DayLength <= Midnight(q)
      BY <1>2, <2>4
    <3> QED
      BY <2>1, <2>2, <2>4, <3>1, LengthAssumption
  <2>5. CASE q = d
    BY <2>1, <2>2, <2>5
  <2> QED
    BY <2>3, <2>4, <2>5
<1>5. ASSUME NEW d \in Int PROVE Midnight(d) % DayLength = 0
  <2>1. Midnight(d) \in Int /\ Midnight(d) < Midnight(d + 1)
    BY <1>1, LengthAssumption
  <2>2. Midnight(d) \div DayLength = d
    BY <1>4, <2>1
  <2> QED
    BY <1>3, <2>1, <2>2
<1>6. ASSUME NEW d \in Int, NEW e \in Int, d <= e
      PROVE  Midnight(d) <= Midnight(e)
  <2>1. CASE d < e
    <3>1. Midnight(d) + DayLength <= Midnight(e)
      BY <1>2, <2>1
    <3> QED
      BY <1>1, <3>1, LengthAssumption
  <2> QED
    BY <1>1, <1>6, <2>1
<1> QED
  BY <1>1, <1>3, <1>4, <1>5, <1>6

LEMMA ZoneFields ==
  ASSUME NEW z \in Zones
  PROVE  z.before \in Int /\ z.after \in Int /\ z.at \in Int /\ z.prefers \in {"before", "after"}
BY ZoneAssumption

LEMMA NoMidnight ==
  ASSUME NEW first \in Int, NEW last \in Int, NextMidnight(first) >= last, NEW d \in Int
  PROVE  Midnight(d) <= first \/ Midnight(d) >= last
<1>1. PICK day \in Int : day = first \div DayLength
  BY Midnights
<1>2. Midnight(day + 1) >= last /\ Midnight(day) <= first
  BY <1>1, Midnights DEF NextMidnight, Midnight
<1>3. d <= day \/ day + 1 <= d
  OBVIOUS
<1>4. Midnight(d) <= Midnight(day) \/ Midnight(day + 1) <= Midnight(d)
  BY <1>3, Midnights
<1>5. Midnight(d) \in Int /\ Midnight(day) \in Int /\ Midnight(day + 1) \in Int
  <2>1. day + 1 \in Int
    OBVIOUS
  <2> QED
    BY <2>1, Midnights
<1> QED
  BY <1>2, <1>4, <1>5

\* A midnight m is before the change or after it.
Clear(z, m) ==
  IF z.after <= z.before THEN m < z.at + z.after \/ m >= z.at + z.before
  ELSE \/ m <= z.at + z.before - (z.after - z.before)
       \/ m >= z.at + z.after + (z.after - z.before)

LEMMA MidnightsAreClear ==
  ASSUME NEW z \in Zones, MidnightsClear(z), NEW d \in Int
  PROVE  Clear(z, Midnight(d))
<1>1. Midnight(d) \in Int
  BY Midnights
<1>2. CASE z.after <= z.before
  <2>1. PICK first \in Int, last \in Int : first = z.at + z.after - 1 /\ last = z.at + z.before
    BY ZoneFields
  <2>2. Midnight(d) <= first \/ Midnight(d) >= last
    BY <1>2, <2>1, NoMidnight DEF MidnightsClear
  <2> QED
    BY <1>1, <1>2, <2>1, <2>2, ZoneFields DEF Clear
<1>3. CASE ~(z.after <= z.before)
  <2>1. PICK first \in Int, last \in Int : /\ first = z.at + z.before - (z.after - z.before)
                                           /\ last = z.at + z.after + (z.after - z.before)
    BY ZoneFields
  <2>2. Midnight(d) <= first \/ Midnight(d) >= last
    BY <1>3, <2>1, NoMidnight DEF MidnightsClear
  <2> QED
    BY <1>3, <2>1, <2>2 DEF Clear
<1> QED
  BY <1>2, <1>3

LEMMA DateType ==
  ASSUME NEW z \in Zones, NEW d \in Int, NEW c \in Int
  PROVE  Date(z, d, c) \in Int
<1>1. d * DayLength \in Int
  BY LengthAssumption
<1> QED
  BY <1>1, ZoneFields DEF Date

\* The clock shows a midnight from its instant on, and at that instant.
LEMMA MidnightSplits ==
  ASSUME NEW z \in Zones, MidnightsClear(z), NEW d \in Int
  PROVE  /\ \A t \in Int : Midnight(d) <= t + Offset(z, t) <=> Date(z, d, 0) <= t
         /\ Date(z, d, 0) + Offset(z, Date(z, d, 0)) = Midnight(d)
<1> DEFINE m == Midnight(d)
<1>1. m \in Int /\ m + 0 = m /\ d * DayLength = m
  BY Midnights DEF Midnight
<1>2. Clear(z, m)
  BY MidnightsAreClear
<1>3. Date(z, d, 0) = IF m - z.before < z.at /\ m - z.after < z.at THEN m - z.before
                      ELSE IF m - z.before >= z.at /\ m - z.after >= z.at THEN m - z.after
                      ELSE IF z.prefers = "before" THEN m - z.before ELSE m - z.after
  BY <1>1 DEF Date
<1> HIDE DEF m
<1>4. \A t \in Int : m <= t + Offset(z, t) <=> Date(z, d, 0) <= t
  BY <1>1, <1>2, <1>3, ZoneFields DEF Offset, Clear
<1>5. Date(z, d, 0) + Offset(z, Date(z, d, 0)) = m
  BY <1>1, <1>2, <1>3, ZoneFields DEF Offset, Clear
<1> QED
  BY <1>4, <1>5 DEF m

\* A day holds the instants of its slots.
LEMMA SlotInDay ==
  ASSUME NEW z \in Zones, MidnightsClear(z), NEW d \in Int, NEW c \in 0..(DayLength - 1)
  PROVE  Date(z, d, 0) <= Date(z, d, c) /\ Date(z, d, c) < Date(z, d + 1, 0)
<1> DEFINE m == Midnight(d)
           n == Midnight(d + 1)
           s == Midnight(d) + c
           D(x) == IF x - z.before < z.at /\ x - z.after < z.at THEN x - z.before
                   ELSE IF x - z.before >= z.at /\ x - z.after >= z.at THEN x - z.after
                   ELSE IF z.prefers = "before" THEN x - z.before ELSE x - z.after
<1>1. m \in Int /\ n \in Int /\ s \in Int /\ m <= s /\ s < n
  <2>1. /\ Midnight(d) \in Int /\ Midnight(d + 1) \in Int /\ c \in Int
        /\ Midnight(d + 1) = Midnight(d) + DayLength /\ 0 <= c /\ c < DayLength
    BY Midnights, LengthAssumption
  <2> QED
    BY <2>1, LengthAssumption
<1>2. Clear(z, m) /\ Clear(z, n)
  BY MidnightsAreClear
<1>3. Date(z, d, 0) = D(m) /\ Date(z, d, c) = D(s) /\ Date(z, d + 1, 0) = D(n)
  <2>1. m + 0 = m /\ n + 0 = n
    BY <1>1
  <2> QED
    BY <2>1 DEF Date, Midnight
<1> HIDE DEF m, n, s
<1>4. D(m) <= D(s)
  BY <1>1, <1>2, ZoneFields DEF Clear
<1>5. D(s) < D(n)
  BY <1>1, <1>2, ZoneFields DEF Clear
<1> QED
  BY <1>3, <1>4, <1>5

\* Local days are intervals of time, one after the other.
LEMMA DaysAreIntervals ==
  ASSUME NEW z \in Zones, MidnightsClear(z), NEW d \in Int
  PROVE  /\ \A t \in Int : Day(z, t) = d <=> Date(z, d, 0) <= t /\ t < Date(z, d + 1, 0)
         /\ \A e \in Int : d <= e => Date(z, d, 0) <= Date(z, e, 0)
         /\ Clock(z, Date(z, d, 0)) = 0
<1>1. \A t \in Int : t + Offset(z, t) \in Int
  BY ZoneFields DEF Offset
<1>2. ASSUME NEW t \in Int
      PROVE  Day(z, t) = d <=> Date(z, d, 0) <= t /\ t < Date(z, d + 1, 0)
  <2>1. Day(z, t) = d <=> Midnight(d) <= t + Offset(z, t) /\ t + Offset(z, t) < Midnight(d + 1)
    BY <1>1, Midnights DEF Day
  <2>2. Midnight(d) <= t + Offset(z, t) <=> Date(z, d, 0) <= t
    BY MidnightSplits
  <2>3. Midnight(d + 1) <= t + Offset(z, t) <=> Date(z, d + 1, 0) <= t
    BY MidnightSplits
  <2>4. Date(z, d + 1, 0) \in Int /\ Midnight(d + 1) \in Int
    BY DateType, Midnights
  <2> QED
    BY <1>1, <2>1, <2>2, <2>3, <2>4
<1>3. ASSUME NEW e \in Int, d <= e
      PROVE  Date(z, d, 0) <= Date(z, e, 0)
  <2>1. Midnight(d) <= Midnight(e)
    BY <1>3, Midnights
  <2>2. Date(z, e, 0) \in Int
    BY DateType
  <2> QED
    BY <2>1, <2>2, MidnightSplits
<1>4. Clock(z, Date(z, d, 0)) = 0
  BY MidnightSplits, Midnights DEF Clock
<1> QED
  BY <1>2, <1>3, <1>4

-----------------------------------------------------------------------------
(***************************************************************************)
(* Occurrences.                                                            *)
(***************************************************************************)

\* The bounds on the days in Occurrences leave none out.
LEMMA OccurrenceSet ==
  ASSUME TypeOK, MidnightsClear(zone), NEW a \in Int, NEW b \in Int
  PROVE  /\ IsFiniteSet(Occurrences(a, b))
         /\ Occurrences(a, b) = {e \in Int : /\ Weekday(e) = slot.weekday
                                             /\ a < Date(zone, e, slot.clock)
                                             /\ Date(zone, e, slot.clock) <= b}
<1>1. zone \in Zones /\ slot.clock \in 0..(DayLength - 1) /\ slot.clock \in Int
  BY LengthAssumption DEF TypeOK, Slots
<1>2. Day(zone, a) \in Int /\ Day(zone, b) \in Int
  <2>1. a + Offset(zone, a) \in Int /\ b + Offset(zone, b) \in Int
    BY <1>1, ZoneFields DEF Offset
  <2> QED
    BY <2>1, Midnights DEF Day
<1>3. ASSUME NEW e \in Int, a < Date(zone, e, slot.clock), Date(zone, e, slot.clock) <= b
      PROVE  e \in (Day(zone, a) - 1)..(Day(zone, b) + 1)
  <2> DEFINE at == Date(zone, e, slot.clock)
             first == Day(zone, a)
             last == Day(zone, b)
  <2>1. /\ Date(zone, e, 0) \in Int /\ Date(zone, e + 1, 0) \in Int /\ at \in Int
        /\ Date(zone, e, 0) <= at /\ at < Date(zone, e + 1, 0)
    BY <1>1, DateType, SlotInDay
  <2>2. /\ Date(zone, first, 0) <= a /\ Date(zone, first, 0) \in Int
        /\ b < Date(zone, last + 1, 0) /\ Date(zone, last + 1, 0) \in Int
    BY <1>1, <1>2, DateType, DaysAreIntervals
  <2>3. ~(e + 1 <= first)
    <3>1. e + 1 <= first => Date(zone, e + 1, 0) <= Date(zone, first, 0)
      BY <1>1, <1>2, DaysAreIntervals
    <3> HIDE DEF at, first
    <3> QED
      BY <1>3, <2>1, <2>2, <3>1 DEF at
  <2>4. ~(last + 1 <= e)
    <3>1. last + 1 <= e => Date(zone, last + 1, 0) <= Date(zone, e, 0)
      BY <1>1, <1>2, DaysAreIntervals
    <3> HIDE DEF at, last
    <3> QED
      BY <1>3, <2>1, <2>2, <3>1 DEF at
  <2> QED
    BY <1>2, <2>3, <2>4
<1>4. Occurrences(a, b) = {e \in Int : /\ Weekday(e) = slot.weekday
                                       /\ a < Date(zone, e, slot.clock)
                                       /\ Date(zone, e, slot.clock) <= b}
  BY <1>2, <1>3 DEF Occurrences
<1>5. IsFiniteSet(Occurrences(a, b))
  <2>1. IsFiniteSet((Day(zone, a) - 1)..(Day(zone, b) + 1))
    BY <1>2, FS_Interval
  <2>2. Occurrences(a, b) \in SUBSET ((Day(zone, a) - 1)..(Day(zone, b) + 1))
    BY DEF Occurrences
  <2> QED
    BY <2>1, <2>2, FS_Subset
<1> QED
  BY <1>4, <1>5

LEMMA Instants ==
  ASSUME TypeOK
  PROVE  /\ created \in Int /\ from \in Int /\ now \in Int /\ Horizon \in Int
         /\ created <= from /\ from <= now /\ now <= Horizon
         /\ zone \in Zones /\ slot.clock \in 0..(DayLength - 1) /\ slot.clock \in Int
BY LengthAssumption, InstantAssumption DEF TypeOK, Slots

LEMMA PassedFinite ==
  ASSUME TypeOK, MidnightsClear(zone), NEW d \in Int
  PROVE  IsFiniteSet(Passed(d)) /\ Cardinality(Passed(d)) \in Nat
<1>1. IsFiniteSet(Occurrences(created, now))
  BY Instants, OccurrenceSet
<1>2. Passed(d) \in SUBSET Occurrences(created, now)
  BY DEF Passed
<1> QED
  BY <1>1, <1>2, FS_Subset, FS_CardinalityType

-----------------------------------------------------------------------------
(***************************************************************************)
(* The steps.                                                              *)
(***************************************************************************)

LEMMA InitInv == Init => Inv
<1> SUFFICES ASSUME Init PROVE Inv
  OBVIOUS
<1>1. TypeOK
  <2>1. created \in created..Horizon /\ created \in Int
    BY InstantAssumption DEF Init
  <2> QED
    BY <2>1 DEF Init, TypeOK
<1>2. ASSUME MidnightsClear(zone) PROVE Cardinality(Occurrences(created, from)) = 0
  <2>1. \A e \in Int : ~(created < Date(zone, e, slot.clock) /\ Date(zone, e, slot.clock) <= from)
    BY <1>1, Instants, DateType DEF Init
  <2>2. Occurrences(created, from) = {}
    BY <1>1, <1>2, <2>1, Instants, OccurrenceSet
  <2> QED
    BY <2>2, FS_EmptySet
<1> QED
  BY <1>1, <1>2 DEF Init, Inv, Walked, CountsEachOccurrence, CountIsExact

LEMMA TypeNext ==
  ASSUME TypeOK, [Next]_vars
  PROVE  TypeOK'
<1>1. CASE \E t \in (from + 1)..Horizon : BeginWalk(t)
  <2>1. PICK t \in (from + 1)..Horizon : BeginWalk(t)
    BY <1>1
  <2>2. Date(zone, Day(zone, from), 0) \in Int
    <3>1. from + Offset(zone, from) \in Int
      BY Instants, ZoneFields DEF Offset
    <3>2. Day(zone, from) \in Int
      BY <3>1, Midnights DEF Day
    <3> QED
      BY <3>2, Instants, DateType
  <2>3. /\ t \in created..Horizon /\ t \in from..Horizon /\ t \in t..Horizon
        /\ slot.valid \in BOOLEAN
    BY <2>1, Instants DEF TypeOK, Slots
  <2> QED
    BY <2>1, <2>2, <2>3 DEF TypeOK, BeginWalk
<1>2. CASE WalkDay
  <2>1. AddDate(cursor) \in Int
    <3>1. cursor + Offset(zone, cursor) \in Int
      BY Instants, ZoneFields DEF TypeOK, Offset
    <3>2. Day(zone, cursor) \in Int /\ Clock(zone, cursor) \in Int
      BY <3>1, Midnights DEF Day, Clock
    <3> QED
      BY <3>2, Instants, DateType DEF AddDate
  <2> QED
    BY <1>2, <2>1 DEF TypeOK, WalkDay
<1>3. CASE EndWalk
  <2>1. now \in created..Horizon /\ now \in now..Horizon
    BY Instants
  <2> QED
    BY <1>3, <2>1 DEF TypeOK, EndWalk
<1>4. CASE UNCHANGED vars
  BY <1>4 DEF TypeOK
<1> QED
  BY <1>1, <1>2, <1>3, <1>4 DEF Next

\* The window opens: the occurrences of earlier windows have been counted.
LEMMA BeginWalkStep ==
  ASSUME Inv, TypeOK', NEW t \in (from + 1)..Horizon, BeginWalk(t)
  PROVE  Walked'
<1>1. /\ ~walking /\ now' = t /\ walking' = slot.valid /\ t \in Int /\ from < t
      /\ from' = IF slot.valid THEN from ELSE t
      /\ cursor' = Date(zone, Day(zone, from), 0)
      /\ UNCHANGED <<zone, slot, created, fired>>
  BY Instants DEF Inv, BeginWalk
<1>2. ASSUME MidnightsClear(zone), slot.valid
      PROVE  \E d \in Int : cursor' = Date(zone, d, 0) /\ fired = Cardinality(Passed(d)')
  <2>1. PICK d \in Int : d = Day(zone, from)
    <3>1. from + Offset(zone, from) \in Int
      BY Instants, ZoneFields DEF Inv, Offset
    <3> QED
      BY <3>1, Midnights DEF Day
  <2>2. ASSUME NEW e \in Int
        PROVE  /\ Date(zone, e, slot.clock) \in Int
               /\ e < d => Date(zone, e, slot.clock) <= from
    <3>1. /\ Date(zone, e, slot.clock) \in Int /\ Date(zone, e, slot.clock) < Date(zone, e + 1, 0)
          /\ Date(zone, e + 1, 0) \in Int
      BY <1>2, Instants, DateType, SlotInDay DEF Inv
    <3>2. Date(zone, d, 0) <= from /\ Date(zone, d, 0) \in Int
      BY <1>2, <2>1, Instants, DateType, DaysAreIntervals DEF Inv
    <3>3. e + 1 <= d => Date(zone, e + 1, 0) <= Date(zone, d, 0)
      BY <1>2, <2>1, Instants, DaysAreIntervals DEF Inv
    <3> QED
      BY <3>1, <3>2, <3>3, Instants DEF Inv
  <2>3. Passed(d)' = Occurrences(created, from)
    <3>1. Passed(d)' = {e \in Occurrences(created, t) : e < d \/ Date(zone, e, slot.clock) <= from}
      BY <1>1, <1>2 DEF Passed, Occurrences
    <3>2. \A e \in Int : Date(zone, e, slot.clock) <= from => Date(zone, e, slot.clock) <= t
      BY <1>1, <2>2, Instants DEF Inv
    <3> QED
      BY <1>1, <1>2, <2>2, <3>1, <3>2, Instants, OccurrenceSet DEF Inv
  <2>4. fired = Cardinality(Occurrences(created, from))
    BY <1>1, <1>2 DEF Inv, Walked, CountsEachOccurrence, CountIsExact
  <2> QED
    BY <1>1, <2>1, <2>3, <2>4
<1>3. ASSUME ~slot.valid PROVE fired = 0
  BY <1>3 DEF Inv, Walked
<1> QED
  BY <1>1, <1>2, <1>3 DEF Walked, CountsEachOccurrence, CountIsExact, MidnightsClear, NextMidnight

\* The day of the cursor is counted if its occurrence is in the window.
LEMMA WalkDayStep ==
  ASSUME Inv, TypeOK', WalkDay
  PROVE  Walked'
<1>1. /\ walking /\ walking' /\ slot.valid
      /\ cursor' = AddDate(cursor)
      /\ fired' = IF /\ Weekday(Day(zone, cursor)) = slot.weekday
                     /\ from < Fire /\ Fire <= now
                  THEN fired + 1 ELSE fired
      /\ UNCHANGED <<zone, slot, created, from, now, walking>>
  BY DEF Inv, Walked, WalkDay
<1>2. ASSUME MidnightsClear(zone)
      PROVE  \E d \in Int : cursor' = Date(zone, d, 0) /\ fired' = Cardinality(Passed(d)')
  <2>1. PICK d \in Int : cursor = Date(zone, d, 0) /\ fired = Cardinality(Passed(d))
    BY <1>1, <1>2 DEF Inv, Walked
  <2>2. Day(zone, cursor) = d /\ Clock(zone, cursor) = 0
    <3>1. /\ Date(zone, d, 0) \in Int /\ Date(zone, d, slot.clock) \in Int
          /\ Date(zone, d, 0) <= Date(zone, d, slot.clock)
          /\ Date(zone, d, slot.clock) < Date(zone, d + 1, 0) /\ Date(zone, d + 1, 0) \in Int
      BY <1>2, Instants, DateType, SlotInDay DEF Inv
    <3> QED
      BY <1>2, <2>1, <3>1, Instants, DaysAreIntervals DEF Inv
  <2>3. cursor' = Date(zone, d + 1, 0) /\ Fire = Date(zone, d, slot.clock)
    BY <1>1, <2>2 DEF AddDate, Fire
  <2>4. /\ IsFiniteSet(Passed(d)) /\ Passed(d + 1)' = Passed(d + 1)
        /\ Date(zone, d, slot.clock) \in Int
    BY <1>1, <1>2, PassedFinite, Instants, DateType DEF Inv, Passed, Occurrences
  <2>5. /\ Passed(d + 1) = {e \in Occurrences(created, now) :
                              e < d \/ e = d \/ Date(zone, e, slot.clock) <= from}
        /\ Passed(d) = {e \in Occurrences(created, now) :
                          e < d \/ Date(zone, e, slot.clock) <= from}
    <3>1. \A e \in Occurrences(created, now) : e \in Int /\ (e < d + 1 <=> e < d \/ e = d)
      BY <1>2, Instants, OccurrenceSet DEF Inv
    <3> QED
      BY <3>1 DEF Passed
  <2>6. d \in Occurrences(created, now) <=> /\ Weekday(d) = slot.weekday
                                            /\ created < Date(zone, d, slot.clock)
                                            /\ Date(zone, d, slot.clock) <= now
    BY <1>2, Instants, OccurrenceSet DEF Inv
  <2>7. CASE Weekday(d) = slot.weekday /\ from < Fire /\ Fire <= now
    <3>1. d \in Occurrences(created, now) /\ ~(Date(zone, d, slot.clock) <= from)
      BY <2>3, <2>4, <2>6, <2>7, Instants DEF Inv
    <3>2. Passed(d + 1) = Passed(d) \cup {d} /\ d \notin Passed(d)
      BY <2>5, <3>1
    <3>3. Cardinality(Passed(d + 1)) = Cardinality(Passed(d)) + 1
      BY <2>4, <3>2, FS_AddElement
    <3> QED
      BY <1>1, <2>1, <2>2, <2>3, <2>4, <2>7, <3>3
  <2>8. CASE ~(Weekday(d) = slot.weekday /\ from < Fire /\ Fire <= now)
    <3>1. d \in Occurrences(created, now) => Date(zone, d, slot.clock) <= from
      BY <2>3, <2>4, <2>6, <2>8, Instants DEF Inv
    <3>2. Passed(d + 1) = Passed(d)
      BY <2>5, <3>1
    <3> QED
      BY <1>1, <2>1, <2>2, <2>3, <2>4, <2>8, <3>2
  <2> QED
    BY <2>7, <2>8
<1> QED
  BY <1>1, <1>2 DEF Walked, CountsEachOccurrence, MidnightsClear, NextMidnight

\* The walk is past the window, and so past its occurrences.
LEMMA EndWalkStep ==
  ASSUME Inv, TypeOK', EndWalk
  PROVE  Walked'
<1>1. /\ walking /\ ~walking' /\ slot.valid /\ cursor > now /\ from' = now
      /\ UNCHANGED <<zone, slot, created, now, cursor, fired>>
  BY DEF Inv, Walked, EndWalk, TypeOK
<1>2. ASSUME MidnightsClear(zone)
      PROVE  fired = Cardinality(Occurrences(created, now))
  <2>1. PICK d \in Int : cursor = Date(zone, d, 0) /\ fired = Cardinality(Passed(d))
    BY <1>1, <1>2 DEF Inv, Walked
  <2>2. ASSUME NEW e \in Occurrences(created, now) PROVE e < d
    <3>1. e \in Int /\ Date(zone, e, slot.clock) <= now
      BY <1>2, Instants, OccurrenceSet DEF Inv
    <3>2. /\ Date(zone, e, 0) <= Date(zone, e, slot.clock)
          /\ Date(zone, e, 0) \in Int /\ Date(zone, e, slot.clock) \in Int
      BY <1>2, <3>1, Instants, DateType, SlotInDay DEF Inv
    <3>3. d <= e => cursor <= Date(zone, e, 0)
      BY <1>2, <2>1, <3>1, Instants, DaysAreIntervals DEF Inv
    <3> QED
      BY <1>1, <3>1, <3>2, <3>3, Instants DEF Inv, TypeOK
  <2>3. Passed(d) = Occurrences(created, now)
    BY <2>2 DEF Passed
  <2> QED
    BY <2>1, <2>3
<1> QED
  BY <1>1, <1>2 DEF Walked, CountsEachOccurrence, CountIsExact, Occurrences, MidnightsClear,
                    NextMidnight

-----------------------------------------------------------------------------
(***************************************************************************)
(* The theorems.                                                           *)
(***************************************************************************)

LEMMA InvNext == Inv /\ [Next]_vars => Inv'
<1> SUFFICES ASSUME Inv, [Next]_vars PROVE Inv'
  OBVIOUS
<1>1. TypeOK'
  BY TypeNext DEF Inv
<1>2. CASE Next
  BY <1>1, <1>2, BeginWalkStep, WalkDayStep, EndWalkStep DEF Inv, Next
<1>3. CASE UNCHANGED vars
  BY <1>1, <1>3 DEF Inv, Walked, CountsEachOccurrence, CountIsExact, Occurrences, Passed,
                    MidnightsClear, NextMidnight
<1> QED
  BY <1>2, <1>3

LEMMA InvAlways == Spec => []Inv
<1>1. Init => Inv
  BY InitInv
<1>2. Inv /\ [Next]_vars => Inv'
  BY InvNext
<1> QED
  BY <1>1, <1>2, PTL DEF Spec

\* The windows of firedSlotsBetween follow one another from created_at on, and
\* neither the walk nor its count leaves the integers.
THEOREM TypeCorrect == Spec => []TypeOK
<1>1. Inv => TypeOK
  BY DEF Inv
<1> QED
  BY <1>1, InvAlways, PTL

\* Over any sequence of windows, firedSlotsBetween counts each occurrence of a
\* slot once, for any length of day and any change of offset that is clear of
\* the midnights.
THEOREM EachOccurrenceIsCounted == Spec => []CountsEachOccurrence
<1>1. Inv => CountsEachOccurrence
  BY DEF Inv, Walked
<1> QED
  BY <1>1, InvAlways, PTL

LEMMA AddDateAdvances ==
  ASSUME NEW z \in Zones, ShortChange(z), NEW t \in Int
  PROVE  t < Date(z, Day(z, t) + 1, Clock(z, t))
<1> DEFINE o == Offset(z, t)
           shown == t + o
           next == (Day(z, t) + 1) * DayLength + Clock(z, t)
<1>1. z.before \in Int /\ z.after \in Int /\ z.at \in Int
  BY ZoneFields
<1>2. DayLength \in Nat \ {0} /\ o \in {z.before, z.after} /\ shown \in Int
  BY <1>1, LengthAssumption DEF Offset
<1>3. next = shown + DayLength
  <2> DEFINE d == shown \div DayLength
             c == shown % DayLength
  <2>1. d \in Int /\ c \in Int /\ shown = d * DayLength + c
    BY <1>2
  <2>2. (d + 1) * DayLength = d * DayLength + DayLength
    BY <1>2, <2>1
  <2>3. next = (d + 1) * DayLength + c
    BY DEF Day, Clock
  <2> QED
    BY <1>2, <2>1, <2>2, <2>3
<1>4. next - z.before > t /\ next - z.after > t
  BY <1>1, <1>2, <1>3 DEF ShortChange
<1>5. Date(z, Day(z, t) + 1, Clock(z, t)) \in {next - z.before, next - z.after}
  BY DEF Date
<1> QED
  BY <1>4, <1>5

\* In every zone whose change is shorter than a day, each turn of the loop of
\* firedSlotsBetween moves its cursor forward.
THEOREM TheWalkAdvances == Spec => WalkAdvances
<1>1. TypeOK /\ [Next]_vars => [WalkDay /\ ShortChange(zone) => cursor' > cursor]_vars
  <2> SUFFICES ASSUME TypeOK, WalkDay, ShortChange(zone) PROVE cursor' > cursor
    OBVIOUS
  <2>1. zone \in Zones /\ cursor \in Int
    BY DEF TypeOK
  <2>2. cursor' = Date(zone, Day(zone, cursor) + 1, Clock(zone, cursor))
    BY DEF WalkDay, AddDate
  <2>3. cursor' \in Int
    <3>1. cursor + Offset(zone, cursor) \in Int
      BY <2>1, ZoneFields DEF Offset
    <3>2. Day(zone, cursor) + 1 \in Int /\ Clock(zone, cursor) \in Int
      BY <3>1, LengthAssumption DEF Day, Clock
    <3> QED
      BY <2>1, <2>2, <3>2, DateType
  <2> QED
    BY <2>1, <2>2, <2>3, AddDateAdvances
<1> QED
  BY <1>1, TypeCorrect, PTL DEF Spec, WalkAdvances

=============================================================================
