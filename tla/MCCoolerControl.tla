--------------------------- MODULE MCCoolerControl ---------------------------
(* Instances of CoolerControl for TLC: a day of a few minutes and hours of a
   few, one request thread. *)
EXTENDS CoolerStore

CONSTANTS h1

Time(start, stop, wp) == [start |-> start, stop |-> stop, wp |-> wp]

Row(in, out, pin, pout) ==
  [cwt   |-> [c \in Coolers |-> IF c = "input" THEN in ELSE out],
   power |-> [c \in Coolers |-> IF c = "input" THEN pin ELSE pout]]

Unused == Time(0, 0, 0)

WindIn(p) == [kind |-> "power", in |-> p, out |-> -1]

TimeOf(c, f, m) == [kind |-> "time", cooler |-> c, field |-> f, min |-> m]

(* One thread; a power and a time, or nothing that can be parsed *)
FaultStored == {Row(Time(0, 1, 1), Time(1, 2, 1), 40, 50)}

FaultRequests == {WindIn(256 + 30), TimeOf("output", "start", 0), Malformed}

-----------------------------------------------------------------------------
(* Nobody changes settings: every schedule that stops early enough for the
   stop to be noticed on the same day, from midnight of the first day on *)
DutyTimes ==
  {Time(start, stop, wp) : start \in 1..6, stop \in 1..(Day - Lag), wp \in 0..Hour}

DutyStored == {Row(t, Time(1, 5, 1), 100, 40) : t \in DutyTimes}

-----------------------------------------------------------------------------
(* One thread changes the schedules while the bus fails; no schedule that it can make
   is due all day *)
LiveRequests == {TimeOf("input", "wp", 1), TimeOf("input", "wp", 0), TimeOf("output", "start", 1)}

LiveStored == {Row(Time(0, 2, 1), Time(0, 2, 1), 40, 50), Row(Time(0, 2, 2), Time(0, 2, 1), 40, 50)}

-----------------------------------------------------------------------------
(* Nothing fails: one client moves the power of the input cooler, or sets its work
   period to zero *)
PlainStored == {Row(Time(0, 2, 1), Unused, 40, 0)}

PowerRequests == {WindIn(60)}

NoPeriodRequests == {TimeOf("input", "wp", 0)}

=============================================================================
