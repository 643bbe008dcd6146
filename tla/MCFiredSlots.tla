---------------------------- MODULE MCFiredSlots ----------------------------
(***************************************************************************)
(* FiredSlots with days of six units and weeks of two days.  Zones lie     *)
(* west and east of Greenwich.                                             *)
(***************************************************************************)
EXTENDS FiredSlots

Change(offset, by, instant) ==
  [before: {offset}, after: {offset + by}, at: {instant}, prefers: {"before", "after"}]

\* Clocks put forward or back by one unit or two at each time of one day.
AllZones == UNION {Change(o, by, 12 - o + k) : o \in {-1, 2}, by \in {-2, -1, 1, 2}, k \in 0..5}

\* A day that starts at one o'clock.
MidnightZones == UNION {Change(o, 1, 12 - o) : o \in {-1, 2}}

\* For each offset, an instant within a day and one at a midnight.
FirstDay == {4, 7}

=============================================================================
