------------------------------ MODULE Cadence ------------------------------
(***************************************************************************)
(* When a schedule fires next (schedules/store.py). The clock on the wall  *)
(* shows a point of the week; a fire time is kept as its distance from now,*)
(* which is what the stored UTC timestamp amounts to.                      *)
(***************************************************************************)
EXTENDS Integers

CONSTANTS
  Day,      \* clock units in a day
  Days,     \* days in a week
  Longest   \* bound on the length of an interval

ASSUME CadenceAssumption ==
  /\ Day \in Nat \ {0}
  /\ Days \in Nat \ {0}
  /\ Longest \in Nat \ {0}

Week == Day * Days
Clock == 0..(Week - 1)

TimeOfDay(moment) == moment % Day
Weekday(moment) == moment \div Day

\* The cadences validate_cadence lets through.
Daily == [kind : {"daily"}, time : 0..(Day - 1)]
Weekly == [kind : {"weekly"}, time : 0..(Day - 1), weekday : 0..(Days - 1)]
Interval == [kind : {"interval"}, every : 1..Longest]

\* "if candidate <= after": a time that is not ahead belongs to the next period.
Ahead(distance, period) == IF distance > 0 THEN distance ELSE distance + period

\* Mutant: "if candidate < after".
NextRunAgain(c, now) ==
  CASE c.kind = "interval" -> c.every
    [] c.kind = "daily" ->
         IF c.time >= TimeOfDay(now) THEN c.time - TimeOfDay(now) ELSE c.time - TimeOfDay(now) + Day
    [] c.kind = "weekly" ->
         Ahead(c.time - TimeOfDay(now) + Day * ((c.weekday - Weekday(now)) % Days), Week)

\* compute_next_run.
NextRun(c, now) ==
  CASE c.kind = "interval" -> c.every
    [] c.kind = "daily" -> Ahead(c.time - TimeOfDay(now), Day)
    [] c.kind = "weekly" ->
         Ahead(c.time - TimeOfDay(now) + Day * ((c.weekday - Weekday(now)) % Days), Week)

\* What the wall clock shows when a schedule of this cadence may fire.
Falls(c, moment) ==
  CASE c.kind = "interval" -> TRUE
    [] c.kind = "daily" -> TimeOfDay(moment) = c.time
    [] c.kind = "weekly" -> TimeOfDay(moment) = c.time /\ Weekday(moment) = c.weekday

=============================================================================
