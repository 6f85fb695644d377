------------------------ MODULE CoolerScheduleProofs ------------------------
(***************************************************************************)
(* The interval search of check_cooler_schedule computes Due, for every    *)
(* schedule, every minute and every interval length.                       *)
(***************************************************************************)
EXTENDS CoolerSchedule, TLAPS

(* Division with remainder by the length of an interval. *)
LEMMA DivMod ==
  ASSUME NEW d \in Nat
  PROVE  /\ d \div Hour \in Nat
         /\ Hour * (d \div Hour) <= d
         /\ d < Hour * (d \div Hour) + Hour
         /\ d % Hour = d - Hour * (d \div Hour)
  BY HourAssumption, SMTT(30)

(* The quotient is the only multiple of Hour that d is less than an Hour above. *)
LEMMA QuotientUnique ==
  ASSUME NEW d \in Nat, NEW i \in Nat, Hour * i <= d, d < Hour * i + Hour
  PROVE  i = d \div Hour
  BY HourAssumption, SMTT(30)

LEMMA QuotientMonotone ==
  ASSUME NEW d \in Nat, NEW e \in Nat, d <= e
  PROVE  d \div Hour <= e \div Hour
  BY HourAssumption, SMTT(30)

-----------------------------------------------------------------------------
(* Between start and stop exactly one interval holds the current minute, and
   the loop, which runs to IntervalsNum inclusive, reaches it: the last,
   shorter interval is not lost (app_cl.cpp:67-73 and 111-118). *)
LEMMA OneInterval ==
  ASSUME NEW s, InMinutes(s), NEW t \in Nat, s.start <= t, t < s.stop
  PROVE  /\ (t - s.start) \div Hour \in 0..IntervalsNum(s)
         /\ \A i \in 0..IntervalsNum(s) :
              InInterval(s, i, t) <=> i = (t - s.start) \div Hour
<1> DEFINE d == t - s.start
           q == d \div Hour
<1>1. /\ s.start \in Nat
      /\ s.stop \in Nat
      /\ d \in Nat
      /\ s.stop - s.start \in Nat
      /\ d <= s.stop - s.start
  BY DEF InMinutes
<1>2. /\ q \in Nat
      /\ Hour * q <= d
      /\ d < Hour * q + Hour
  BY <1>1, DivMod
<1>3. /\ IntervalsNum(s) \in Nat
      /\ q <= IntervalsNum(s)
  BY <1>1, DivMod, QuotientMonotone DEF IntervalsNum
<1>4. ASSUME NEW i \in 0..IntervalsNum(s)
      PROVE  InInterval(s, i, t) <=> i = q
  <2>1. i \in Nat /\ Hour * i \in Nat /\ Hour * q \in Nat
    BY <1>2, <1>3, HourAssumption, SMTT(30)
  <2>2. InInterval(s, i, t) <=> Hour * i <= d /\ d < Hour * i + Hour
    BY <1>1, <2>1, HourAssumption DEF InInterval
  <2>3. QED
    BY <1>1, <1>2, <2>1, <2>2, QuotientUnique
<1> QED
  BY <1>2, <1>3, <1>4

(* In the interval of the current minute, the work period is over once the
   minutes since the start, counted modulo Hour, have reached wp. *)
LEMMA WorkPeriodInHour ==
  ASSUME NEW s, InMinutes(s), NEW t \in Nat, s.start <= t
  PROVE  WorkPeriodOver(s, (t - s.start) \div Hour, t) <=> (t - s.start) % Hour >= s.wp
<1> DEFINE d == t - s.start
           h == Hour * (d \div Hour)
<1>1. s.start \in Nat /\ s.wp \in Nat /\ d \in Nat
  BY DEF InMinutes
<1>2. d \div Hour \in Nat /\ d % Hour = d - h
  BY <1>1, DivMod
<1>3. h \in Nat
  BY <1>2, HourAssumption, SMTT(30)
<1> QED
  BY <1>1, <1>2, <1>3 DEF WorkPeriodOver

-----------------------------------------------------------------------------
(* A cooler that is off is switched on exactly when it is due. *)
THEOREM SwitchOnIffDue ==
  ASSUME NEW s, InMinutes(s), NEW t \in Nat
  PROVE  SwitchOn(s, t) <=> Due(s, t)
<1>1. s.start \in Nat /\ s.stop \in Nat /\ s.wp \in Nat
  BY DEF InMinutes
<1>2. CASE s.start <= t /\ t < s.stop
  <2>1. SwitchOn(s, t) <=> ~WorkPeriodOver(s, (t - s.start) \div Hour, t)
    BY <1>1, <1>2, OneInterval DEF SwitchOn, IsChecked
  <2>2. t - s.start \in Nat /\ (t - s.start) % Hour \in Int
    BY <1>1, <1>2, HourAssumption
  <2> QED
    BY <1>1, <1>2, <2>1, <2>2, WorkPeriodInHour DEF Due
<1>3. CASE ~(s.start <= t /\ t < s.stop)
  BY <1>1, <1>3 DEF SwitchOn, IsChecked, Due
<1> QED
  BY <1>2, <1>3

(* A cooler that is on is switched off exactly when its schedule is looked at
   and it is not due. *)
THEOREM SwitchOffIffNotDue ==
  ASSUME NEW s, InMinutes(s), NEW t \in Nat
  PROVE  SwitchOff(s, t) <=> IsChecked(s, t) /\ ~Due(s, t)
<1>1. s.start \in Nat /\ s.stop \in Nat /\ s.wp \in Nat
  BY DEF InMinutes
<1>2. CASE s.start <= t /\ t < s.stop
  <2>1. SwitchOff(s, t) <=> WorkPeriodOver(s, (t - s.start) \div Hour, t)
    BY <1>1, <1>2, OneInterval DEF SwitchOff, IsChecked
  <2>2. t - s.start \in Nat /\ (t - s.start) % Hour \in Int
    BY <1>1, <1>2, HourAssumption
  <2> QED
    BY <1>1, <1>2, <2>1, <2>2, WorkPeriodInHour DEF Due, IsChecked
<1>3. CASE ~(s.start <= t /\ t < s.stop)
  BY <1>1, <1>3 DEF SwitchOff, IsChecked, Due
<1> QED
  BY <1>2, <1>3

=============================================================================
