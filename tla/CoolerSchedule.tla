--------------------------- MODULE CoolerSchedule ---------------------------
(***************************************************************************)
(* The decision that check_cooler_schedule (UI/src/app_cl.cpp) takes for   *)
(* one cooler: given the schedule copied by the worker thread and the      *)
(* minute of the day, is the cooler to be switched on, switched off or     *)
(* left as it is?  Times are minutes since midnight.                       *)
(*                                                                         *)
(* The code cuts [start, stop) into intervals of one hour, looks for the   *)
(* interval that holds the current minute and compares the minute with the *)
(* end of the work period, the first wp minutes of that interval.  What    *)
(* this is meant to compute is Due; CoolerScheduleProofs shows that the    *)
(* search and Due agree for every schedule and every minute.               *)
(***************************************************************************)
EXTENDS Integers

CONSTANT Hour            \* length of a work interval in minutes, 60 in the code

ASSUME HourAssumption == Hour \in Nat \ {0}

Schedule == [start : Nat, stop : Nat, wp : Nat]

(* All that is assumed of a schedule, which may have other fields as well *)
InMinutes(s) == s.start \in Nat /\ s.stop \in Nat /\ s.wp \in Nat

-----------------------------------------------------------------------------
(* The intervals of the schedule s, numbered from 0 *)

(* Mutant: the last, partial interval is left out *)
FullIntervalsNum(s) == (s.stop - s.start) \div Hour - 1

IntervalsNum(s) == (s.stop - s.start) \div Hour

InInterval(s, i, t) ==
  /\ t >= s.start + Hour * i
  /\ t < s.start + Hour * i + Hour

(* Mutant: the work period includes its last minute *)
LateWorkPeriodOver(s, i, t) == t > s.start + Hour * i + s.wp

WorkPeriodOver(s, i, t) == t >= s.start + Hour * i + s.wp

(* The schedule is looked at at all: a schedule that stops before it starts,
   and a minute before its start, are left alone whatever the cooler does *)
IsChecked(s, t) == s.stop > s.start /\ t >= s.start

(* Mutant: the stop of the schedule is not looked at *)
SwitchOffInside(s, t) ==
  /\ IsChecked(s, t)
  /\ \E i \in 0..IntervalsNum(s) : InInterval(s, i, t) /\ WorkPeriodOver(s, i, t)

(* A cooler that is on is to be switched off *)
SwitchOff(s, t) ==
  /\ IsChecked(s, t)
  /\ \/ t >= s.stop
     \/ \E i \in 0..IntervalsNum(s) : InInterval(s, i, t) /\ WorkPeriodOver(s, i, t)

(* A cooler that is off is to be switched on *)
SwitchOn(s, t) ==
  /\ IsChecked(s, t)
  /\ t < s.stop
  /\ \E i \in 0..IntervalsNum(s) : InInterval(s, i, t) /\ ~WorkPeriodOver(s, i, t)

-----------------------------------------------------------------------------
(* The promise: between start and stop the cooler works during the first wp
   minutes of every hour counted from start *)
Due(s, t) ==
  /\ s.start <= t
  /\ t < s.stop
  /\ (t - s.start) % Hour < s.wp

=============================================================================
