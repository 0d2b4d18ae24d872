-------------------------- MODULE AutomationSchedule --------------------------
(***************************************************************************)
(* The next occurrence of a recurring automation                           *)
(* (src/src/automation_schedule.cpp, and next_fixed_occurrence of          *)
(* automation_engine.cpp), and a calendar automation that lives by it.     *)
(*                                                                         *)
(* A calendar rule names weekdays and a wall-clock time.  Days are         *)
(* numbered, day d falls on weekday d % 7, and of a day it matters only    *)
(* whether the wall-clock time exists on it: when clocks spring forward it *)
(* may not.  `after', the time from which the search starts, is a day and  *)
(* whether that day's occurrence is still ahead.                           *)
(***************************************************************************)
EXTENDS Integers

CONSTANTS
  Weekdays, \* weekday_mask
  Gaps,     \* the days on which the wall-clock time does not exist
  LastDay   \* bound: how long the behaviour is followed

VARIABLES
  day,     \* the clock: the day ...
  ahead,   \* ... and whether its wall-clock time is still to come
  due,     \* due_at
  enabled, \* enabled
  parked   \* refresh_calendar_schedules() took its task away

vars == <<day, ahead, due, enabled, parked>>

NoOccurrence == -1

(* The number of days that are looked at, today included. *)
SearchedDays == 14

Occurs(d) == d % 7 \in Weekdays /\ d \notin Gaps

After(d, from, fromAhead) == d > from \/ (d = from /\ fromAhead)

Candidates(from, fromAhead) ==
  {d \in from..from + SearchedDays - 1 : Occurs(d) /\ After(d, from, fromAhead)}

(* next_calendar_occurrence(): the first that is found. *)
IsNext(d, from, fromAhead) ==
  /\ d \in Candidates(from, fromAhead)
  /\ \A e \in Candidates(from, fromAhead) : d <= e

NextOccurrence(from, fromAhead) ==
  IF Candidates(from, fromAhead) = {} THEN NoOccurrence
  ELSE CHOOSE d \in Candidates(from, fromAhead) : IsNext(d, from, fromAhead)

(* next_fixed_occurrence(): those that were missed are skipped. *)
NextFixed(previous, interval, now) ==
  IF previous + interval > now
    THEN previous + interval
    ELSE previous + interval
           + interval * ((now - (previous + interval)) \div interval + 1)

-----------------------------------------------------------------------------
(* The automation takes the next occurrence, or is disabled without one. *)
TakeNext(next) ==
  /\ enabled' = (next # NoOccurrence)
  /\ due' = IF next # NoOccurrence THEN next ELSE due
  /\ parked' = FALSE

(* It was scheduled at some moment of the first week. *)
Init ==
  /\ day \in 0..6 /\ ahead \in BOOLEAN
  /\ due = NextOccurrence(day, ahead) /\ due # NoOccurrence
  /\ enabled = TRUE /\ parked = FALSE

Tick ==
  /\ day < LastDay
  /\ IF ahead THEN ahead' = FALSE /\ UNCHANGED day
              ELSE ahead' = TRUE /\ day' = day + 1
  /\ UNCHANGED <<due, enabled, parked>>

(* The task fires when it is due, or later. *)
Fire ==
  /\ enabled /\ ~parked /\ ~After(due, day, ahead)
  /\ TakeNext(NextOccurrence(day, ahead))
  /\ UNCHANGED <<day, ahead>>

(* restore(), when the process starts again, looks due_at up again.        *)
Restore ==
  /\ enabled
  /\ TakeNext(NextOccurrence(day, ahead))
  /\ UNCHANGED <<day, ahead>>

(* So does refresh_calendar_schedules(), when the clock or the time zone   *)
(* has changed, but an automation without an occurrence stays enabled and  *)
(* loses its task; it gets one again with another occurrence.              *)
Refresh ==
  /\ enabled
  /\ LET next == NextOccurrence(day, ahead)
     IN \/ next = NoOccurrence /\ parked' = TRUE /\ UNCHANGED due
        \/ next = due /\ UNCHANGED <<due, parked>>
        \/ next \notin {NoOccurrence, due} /\ due' = next /\ parked' = FALSE
  /\ UNCHANGED <<day, ahead, enabled>>

(* set_enabled(TRUE) throws when there is no occurrence. *)
Enable ==
  /\ ~enabled /\ NextOccurrence(day, ahead) # NoOccurrence
  /\ TakeNext(NextOccurrence(day, ahead))
  /\ UNCHANGED <<day, ahead>>

Next == Tick \/ Fire \/ Restore \/ Refresh \/ Enable

Spec == Init /\ [][Next]_vars

-----------------------------------------------------------------------------
(* The invariant of Spec: an automation that is enabled is due on a        *)
(* selected weekday on which the wall-clock time exists, never a shifted   *)
(* one.                                                                    *)
DueIsReal == enabled => Occurs(due)

(* "Search two weeks so a DST-invalid wall time on the only selected       *)
(* weekday can be skipped safely and still find the following valid        *)
(* occurrence" (automation_schedule.cpp 57): with a single day on which    *)
(* the time does not exist the automation always finds an occurrence.      *)
GapIsSkipped == enabled

=============================================================================
