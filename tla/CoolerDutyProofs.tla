---------------------------- MODULE CoolerDutyProofs ----------------------------
(* How late a cooler may be switched, for every length of the day and of the hours, every
   bound on the time between two readings of the clock, and all schedules that stop early
   enough to be noticed on the same day. *)
EXTENDS CoolerControlProofs

(* Nobody changes the settings and nothing fails; a schedule is not due at midnight, when
   the worker starts, and over for long enough before the next one that the worker
   reads the clock in between *)
Undisturbed ==
  /\ Requests = {}
  /\ Faults \cap {"bus", "clock", "crash"} = {}
  /\ ~TestMode

InOneDay == \A s \in Stored : \A c \in Coolers : s.cwt[c].stop <= Day - Lag /\ ~Due(s.cwt[c], 0)

-----------------------------------------------------------------------------
(* Arithmetic on the clock *)

LEMMA DayMod ==
  ASSUME NEW x \in Int
  PROVE  /\ x \div Day \in Int
         /\ x % Day \in 0..(Day - 1)
         /\ x = Day * (x \div Day) + (x % Day)
BY ControlAssumption, SMTT(30)

LEMMA DayUnique ==
  ASSUME NEW x \in Int, NEW i \in Int, NEW r \in 0..(Day - 1), x = Day * i + r
  PROVE  x % Day = r
BY ControlAssumption, SMTT(30)

(* Minutes may be added before or after the cut to a day. *)
LEMMA ModPlus ==
  ASSUME NEW a \in Int, NEW b \in Int
  PROVE  ((a % Day) + b) % Day = (a + b) % Day
<1> DEFINE q == a \div Day
           m == a % Day
           i == (m + b) \div Day
           r == (m + b) % Day
<1>1. q \in Int /\ m \in Int /\ a = Day * q + m
  BY DayMod, ControlAssumption
<1>2. i \in Int /\ r \in 0..(Day - 1) /\ m + b = Day * i + r
  BY <1>1, DayMod
<1>3. a + b = Day * (q + i) + r
  BY <1>1, <1>2, ControlAssumption, SMTT(30)
<1> QED
  BY <1>1, <1>2, <1>3, DayUnique

LEMMA InDay ==
  ASSUME NEW x \in 0..(Day - 1)
  PROVE  /\ x \in Nat /\ x % Day = x
         /\ \A l \in 0..Day : (x - l) % Day = IF l <= x THEN x - l ELSE x - l + Day
<1>1. x \in Nat /\ Day \in Nat /\ x = Day * 0 + x
  BY ControlAssumption
<1>2. x % Day = x
  BY <1>1, DayUnique
<1>3. ASSUME NEW l \in 0..Day, l <= x
      PROVE  (x - l) % Day = x - l
  <2>1. x - l \in 0..(Day - 1) /\ x - l = Day * 0 + (x - l)
    BY <1>1, <1>3
  <2> QED
    BY <2>1, DayUnique
<1>4. ASSUME NEW l \in 0..Day, ~(l <= x)
      PROVE  (x - l) % Day = x - l + Day
  <2>1. x - l + Day \in 0..(Day - 1) /\ x - l = Day * (-1) + (x - l + Day)
    BY <1>1, <1>4
  <2> QED
    BY <2>1, DayUnique
<1> QED
  BY <1>1, <1>2, <1>3, <1>4

-----------------------------------------------------------------------------
(* The invariant.  The clock stands lag minutes after its last reading; each cooler is as
   its schedule calls for at that reading or, if the round has not come to it yet, at
   the reading before, at most Lag minutes earlier. *)

Looked(c) == wpc \in {"copy", "clock", "publish", "sleep"} \/ (wpc = "output" /\ c = "input")

CopiedFor(c) == Copied(c) /\ cl_time[c].power = cl_power[c]

InStep(c) ==
  IF Looked(c)
  THEN is_on[c] <=> Due(cwt[c], curr_time_min)
  ELSE \E l \in 0..Lag : is_on[c] <=> Due(cwt[c], (curr_time_min - l) % Day)

Frozen ==
  /\ \A h \in Handlers : hpc[h] = "idle"
  /\ \A c \in Coolers : cwt[c].stop <= Day - Lag

ClockInStep == (\E c \in Coolers : Scheduled(c)) => now = (curr_time_min + lag) % Day

CoolerInStep(c) ==
  /\ IF Scheduled(c) THEN InStep(c) /\ (wpc = "copy" \/ CopiedFor(c))
                     ELSE ~is_on[c] /\ cl_time[c].stop <= cl_time[c].start
  /\ pwm[c] = IF is_on[c] THEN Percent(cl_power[c]) ELSE 0

DutyInv == TypeOK /\ Frozen /\ ClockInStep /\ \A c \in Coolers : CoolerInStep(c)

LEMMA DutyInvInit ==
  ASSUME InOneDay, DutyInit
  PROVE  DutyInv
<1>1. TypeOK
  BY InitTypeOK DEF DutyInit
<1>2. Frozen /\ \A c \in Coolers : ~Due(cwt[c], 0)
  BY DEF InOneDay, DutyInit, Init, Frozen
<1>3. ClockInStep
  <2>1. 0 \in 0..(Day - 1)
    BY ControlAssumption
  <2> QED
    BY <2>1, InDay DEF ClockInStep, DutyInit, Init
<1>4. ASSUME NEW c \in Coolers PROVE CoolerInStep(c)
  BY <1>2 DEF CoolerInStep, InStep, Looked, DutyInit, Init, AllOff, AllZero
<1> QED
  BY <1>1, <1>2, <1>3, <1>4 DEF DutyInv

(* Only the worker and the clock take steps. *)
LEMMA UndisturbedSteps ==
  ASSUME Undisturbed, Frozen, Next
  PROVE  Worker \/ Tick
<1>1. \A h \in Handlers : ~Receive(h) /\ ~Handler(h)
  BY DEF Undisturbed, Frozen, Receive, Handler, SaveToMemory, SaveToDatabase, ReadFlag,
         SendPower, Wakeup, Reply
<1>2. ~Restart
  BY DEF Undisturbed, Restart
<1> QED
  BY <1>1, <1>2 DEF Next

LEMMA WorkerFrozen ==
  ASSUME Frozen, Worker \/ Tick
  PROVE  Frozen' /\ UNCHANGED <<cwt, cl_power>>
<1>1. UNCHANGED <<cwt, cl_power, hpc>>
  BY DEF Worker, CopySettings, ReadClock, CheckSchedule, PublishState, EndSleep, Tick,
         appVars, handlerVars
<1> QED
  BY <1>1 DEF Frozen

LEMMA ClockStep ==
  ASSUME TypeOK, ClockInStep, Undisturbed, Worker \/ Tick
  PROVE  ClockInStep'
<1>1. UNCHANGED cwt
  BY DEF Worker, CopySettings, ReadClock, CheckSchedule, PublishState, EndSleep, Tick, appVars
<1>2. SUFFICES ASSUME NEW c \in Coolers, Scheduled(c), now = (curr_time_min + lag) % Day
               PROVE  now' = (curr_time_min' + lag') % Day
  BY <1>1 DEF ClockInStep, Scheduled
<1>3. /\ curr_time_min \in Int /\ lag \in Int /\ now \in 0..(Day - 1)
      /\ now \in Int
  BY ControlAssumption DEF TypeOK
<1>4. CASE Tick
  <2>1. now' = (((curr_time_min + lag) % Day) + 1) % Day /\ lag' = lag + 1 /\ curr_time_min' = curr_time_min
    BY <1>2, <1>4 DEF Tick, workerVars
  <2>2. curr_time_min + lag \in Int /\ (curr_time_min + lag) + 1 = curr_time_min + (lag + 1)
    BY <1>3
  <2> QED
    BY <2>1, <2>2, ModPlus
<1>5. CASE ReadClock
  <2>1. curr_time_min' = now /\ lag' = 0 /\ now' = now
    BY <1>5 DEF ReadClock, Undisturbed
  <2>2. now % Day = now /\ now + 0 = now
    BY <1>3, InDay
  <2> QED
    BY <2>1, <2>2
<1>6. CASE Worker /\ ~ReadClock
  <2>1. UNCHANGED <<now, lag, curr_time_min>>
    BY <1>2, <1>6 DEF Worker, CopySettings, CheckSchedule, PublishState, EndSleep, clockVars
  <2> QED
    BY <1>2, <2>1
<1> QED
  BY <1>4, <1>5, <1>6

-----------------------------------------------------------------------------
(* The coolers *)

(* What a copied schedule calls for is what the schedule calls for. *)
LEMMA DueOfCopy ==
  ASSUME NEW c \in Coolers, CopiedFor(c), NEW t
  PROVE  /\ Due(cl_time[c], t) <=> Due(cwt[c], t)
         /\ IsChecked(cl_time[c], t) <=> IsChecked(cwt[c], t)
BY DEF CopiedFor, Copied, Due, IsChecked

(* A minute before the start at which the schedule is not looked at: the reading before was
   either earlier on the same day, or on the day before after the stop. *)
LEMMA NotDueBefore ==
  ASSUME TypeOK, Frozen, NEW c \in Coolers, NEW l \in 0..Lag,
         Due(cwt[c], (curr_time_min - l) % Day)
  PROVE  IsChecked(cwt[c], curr_time_min)
<1> DEFINE t == curr_time_min
           p == (t - l) % Day
<1>1. /\ cwt[c].start \in Nat /\ cwt[c].stop \in Nat /\ cwt[c].stop <= Day - Lag
      /\ Day \in Nat /\ Lag \in Nat
  BY ControlAssumption DEF TypeOK, Schedule, Frozen
<1>2. t \in 0..(Day - 1) /\ t \in Nat /\ l \in Nat /\ l <= Lag /\ l \in 0..Day
  BY <1>1 DEF TypeOK
<1>3. p = IF l <= t THEN t - l ELSE t - l + Day
  BY <1>2, InDay
<1>4. cwt[c].start <= p /\ p < cwt[c].stop
  BY DEF Due
<1>5. CASE l <= t
  BY <1>1, <1>2, <1>3, <1>4, <1>5 DEF IsChecked
<1>6. CASE ~(l <= t)
  BY <1>1, <1>2, <1>3, <1>4, <1>6
<1> QED
  BY <1>5, <1>6

(* The check of one cooler brings it in step with the reading. *)
LEMMA CheckInStep ==
  ASSUME DutyInv, Undisturbed, NEW c \in Coolers, CheckSchedule(c), Scheduled(c)
  PROVE  /\ is_on'[c] <=> Due(cwt[c], curr_time_min)
         /\ pwm'[c] = IF is_on'[c] THEN Percent(cl_power[c]) ELSE 0
<1>1. /\ InMinutes(cl_time[c]) /\ curr_time_min \in Nat
      /\ is_on \in [Coolers -> BOOLEAN] /\ pwm \in [Coolers -> 0..100]
  BY ControlAssumption DEF DutyInv, TypeOK, CoolerTime, InMinutes
<1>2. wpc = c /\ ~Looked(c) /\ CopiedFor(c) /\ cl_time[c].power = cl_power[c]
  BY DEF DutyInv, CoolerInStep, CheckSchedule, Coolers, Looked, CopiedFor
<1>3. PICK l \in 0..Lag : is_on[c] <=> Due(cwt[c], (curr_time_min - l) % Day)
  BY <1>2 DEF DutyInv, CoolerInStep, InStep
<1>4. is_on[c] => IsChecked(cwt[c], curr_time_min)
  BY <1>3, NotDueBefore DEF DutyInv
<1>5. /\ SwitchOn(cl_time[c], curr_time_min) <=> Due(cwt[c], curr_time_min)
      /\ SwitchOff(cl_time[c], curr_time_min) <=>
           IsChecked(cwt[c], curr_time_min) /\ ~Due(cwt[c], curr_time_min)
  BY <1>1, <1>2, DueOfCopy, SwitchOnIffDue, SwitchOffIffNotDue
<1>6. pwm[c] = IF is_on[c] THEN Percent(cl_power[c]) ELSE 0
  BY DEF DutyInv, CoolerInStep
<1>7. CASE is_on[c] /\ SwitchOff(cl_time[c], curr_time_min) /\ Switch(c, FALSE)
  <2>1. is_on' = [is_on EXCEPT ![c] = FALSE] /\ pwm' = [pwm EXCEPT ![c] = 0]
    BY <1>7 DEF Switch, Undisturbed
  <2> QED
    BY <1>1, <1>5, <1>7, <2>1
<1>8. CASE ~is_on[c] /\ SwitchOn(cl_time[c], curr_time_min) /\ Switch(c, TRUE)
  <2>1. is_on' = [is_on EXCEPT ![c] = TRUE] /\ pwm' = [pwm EXCEPT ![c] = Percent(cl_power[c])]
    BY <1>2, <1>8 DEF Switch, Undisturbed
  <2> QED
    BY <1>1, <1>5, <1>8, <2>1
<1>9. CASE /\ IF is_on[c] THEN ~SwitchOff(cl_time[c], curr_time_min)
                          ELSE ~SwitchOn(cl_time[c], curr_time_min)
           /\ UNCHANGED <<is_on, pwm>>
  BY <1>4, <1>5, <1>6, <1>9
<1> QED
  BY <1>7, <1>8, <1>9 DEF CheckSchedule

(* A cooler without a work period has a copy that calls for nothing. *)
LEMMA CheckUnscheduled ==
  ASSUME DutyInv, NEW c \in Coolers, CheckSchedule(c), ~Scheduled(c)
  PROVE  UNCHANGED <<is_on, pwm>>
<1>1. ~is_on[c] /\ cl_time[c].stop <= cl_time[c].start
  BY DEF DutyInv, CoolerInStep
<1>2. cl_time[c].stop \in Nat /\ cl_time[c].start \in Nat
  BY DEF DutyInv, TypeOK, CoolerTime
<1>3. ~SwitchOn(cl_time[c], curr_time_min)
  BY <1>1, <1>2 DEF SwitchOn, IsChecked
<1> QED
  BY <1>1, <1>3 DEF CheckSchedule

(* The check of one cooler leaves the other alone. *)
LEMMA CheckOther ==
  ASSUME TypeOK, NEW c \in Coolers, NEW d \in Coolers, CheckSchedule(c), d # c
  PROVE  is_on'[d] = is_on[d] /\ pwm'[d] = pwm[d]
BY DEF TypeOK, CheckSchedule, Switch

LEMMA CoolerStep ==
  ASSUME DutyInv, Undisturbed, Worker \/ Tick, NEW c \in Coolers
  PROVE  CoolerInStep(c)'
<1>1. UNCHANGED <<cwt, cl_power>>
  BY WorkerFrozen DEF DutyInv
<1>2. CoolerInStep(c) /\ TypeOK
  BY DEF DutyInv
<1>3. CASE CopySettings
  <2>1. UNCHANGED <<is_on, pwm, curr_time_min>> /\ wpc = "copy" /\ wpc' \in {"clock", "sleep"}
    BY <1>3 DEF CopySettings
  <2>2. cl_time'[c] = Copy(c)
    BY <1>3 DEF CopySettings
  <2>3. CASE Scheduled(c)
    <3>1. CopiedFor(c)'
      BY <1>1, <2>2, <2>3 DEF Copy, CopiedFor, Copied
    <3>2. InStep(c)'
      BY <1>1, <1>2, <2>1, <2>3 DEF CoolerInStep, InStep, Looked
    <3> QED
      BY <1>1, <1>2, <2>1, <2>3, <3>1, <3>2 DEF CoolerInStep, Scheduled
  <2>4. CASE ~Scheduled(c)
    BY <1>1, <1>2, <2>1, <2>2, <2>4 DEF Copy, CoolerInStep, Scheduled
  <2> QED
    BY <2>3, <2>4
<1>4. CASE ReadClock
  <2>1. /\ UNCHANGED <<is_on, pwm, cl_time>> /\ wpc = "clock" /\ wpc' = "input"
        /\ curr_time_min' = now
    BY <1>4 DEF ReadClock, Undisturbed
  <2>2. ASSUME Scheduled(c) PROVE InStep(c)'
    <3>1. is_on[c] <=> Due(cwt[c], curr_time_min)
      BY <1>2, <2>1, <2>2 DEF CoolerInStep, InStep, Looked
    <3>2. now = (curr_time_min + lag) % Day
      BY <2>2 DEF DutyInv, ClockInStep
    <3>3. curr_time_min \in 0..(Day - 1) /\ curr_time_min \in Int /\ lag \in 0..Lag
      BY <1>2, ControlAssumption DEF TypeOK
    <3>4. (now - lag) % Day = curr_time_min
      <4>1. curr_time_min + lag \in Int /\ -lag \in Int /\ now \in Int
        BY <1>2, <3>3, ControlAssumption DEF TypeOK
      <4>2. (((curr_time_min + lag) % Day) + (-lag)) % Day = ((curr_time_min + lag) + (-lag)) % Day
        BY <4>1, ModPlus
      <4>3. (curr_time_min + lag) + (-lag) = curr_time_min /\ now + (-lag) = now - lag
        BY <3>3, <4>1, ControlAssumption
      <4> QED
        BY <3>2, <3>3, <4>2, <4>3, InDay
    <3> QED
      BY <1>1, <2>1, <3>1, <3>3, <3>4 DEF InStep, Looked
  <2> QED
    BY <1>1, <1>2, <2>1, <2>2 DEF CoolerInStep, Scheduled, CopiedFor, Copied
<1>5. ASSUME NEW d \in Coolers, CheckSchedule(d)
      PROVE  CoolerInStep(c)'
  <2>1. /\ UNCHANGED <<cl_time, curr_time_min>> /\ wpc = d
        /\ wpc' = IF d = "input" THEN "output" ELSE "publish"
    BY <1>5 DEF CheckSchedule
  <2>2. CASE d = c /\ Scheduled(c)
    <3>1. Looked(c)'
      BY <2>1, <2>2 DEF Looked, Coolers
    <3> QED
      BY <1>1, <1>2, <1>5, <2>1, <2>2, <3>1, CheckInStep
      DEF CoolerInStep, InStep, Scheduled, CopiedFor, Copied, Coolers
  <2>3. CASE d = c /\ ~Scheduled(c)
    BY <1>1, <1>2, <1>5, <2>1, <2>3, CheckUnscheduled DEF CoolerInStep, Scheduled
  <2>4. CASE d # c
    <3>1. is_on'[c] = is_on[c] /\ pwm'[c] = pwm[c]
      BY <1>2, <1>5, <2>4, CheckOther
    <3>2. Looked(c)' <=> Looked(c)
      BY <2>1, <2>4 DEF Looked, Coolers
    <3> QED
      BY <1>1, <1>2, <2>1, <3>1, <3>2
      DEF CoolerInStep, InStep, Scheduled, CopiedFor, Copied, Coolers
  <2> QED
    BY <2>2, <2>3, <2>4
<1>6. CASE PublishState \/ EndSleep \/ Tick
  <2>1. UNCHANGED <<is_on, pwm, cl_time, curr_time_min>> /\ (Looked(c)' <=> Looked(c))
    BY <1>6 DEF PublishState, EndSleep, Tick, workerVars, Looked
  <2>2. InStep(c)' <=> InStep(c)
    BY <1>1, <2>1 DEF InStep
  <2>3. CopiedFor(c)' <=> CopiedFor(c)
    BY <1>1, <2>1 DEF CopiedFor, Copied
  <2>4. wpc = "copy" => wpc' = "copy"
    BY <1>6 DEF PublishState, EndSleep, Tick, workerVars
  <2> QED
    BY <1>1, <1>2, <2>1, <2>2, <2>3, <2>4 DEF CoolerInStep, Scheduled
<1> QED
  BY <1>3, <1>4, <1>5, <1>6 DEF Worker

-----------------------------------------------------------------------------
(* The delay *)

LEMMA DutyInvStep ==
  ASSUME DutyInv, Undisturbed, TypeOK', [Next]_vars
  PROVE  DutyInv'
<1>1. CASE Worker \/ Tick
  BY <1>1, WorkerFrozen, ClockStep, CoolerStep DEF DutyInv
<1>2. CASE UNCHANGED vars
  BY <1>2 DEF vars, appVars, clockVars, workerVars, handlerVars, DutyInv, Frozen, ClockInStep,
              CoolerInStep, InStep, Looked, CopiedFor, Copied, Scheduled
<1> QED
  BY <1>1, <1>2, UndisturbedSteps DEF DutyInv

(* At every moment some minute of the last 2 * Lag is the one that each cooler follows. *)
LEMMA FollowsRecentMinute ==
  ASSUME DutyInv, NEW c \in Coolers
  PROVE  \E m \in 0..(2 * Lag) : is_on[c] <=> Due(cwt[c], MinutesAgo(m))
<1>1. /\ curr_time_min \in 0..(Day - 1) /\ curr_time_min \in Int
      /\ lag \in 0..Lag /\ lag \in Nat /\ Lag \in Nat /\ is_on[c] \in BOOLEAN
  BY ControlAssumption DEF DutyInv, TypeOK
<1>2. CASE Scheduled(c)
  <2>1. now = (curr_time_min + lag) % Day /\ InStep(c)
    BY <1>2 DEF DutyInv, ClockInStep, CoolerInStep
  <2>2. \A l \in 0..Lag : MinutesAgo(lag + l) = (curr_time_min - l) % Day /\ lag + l \in 0..(2 * Lag)
    <3> SUFFICES ASSUME NEW l \in 0..Lag
                 PROVE  MinutesAgo(lag + l) = (curr_time_min - l) % Day /\ lag + l \in 0..(2 * Lag)
      OBVIOUS
    <3>1. l \in Nat /\ lag + l \in 0..(2 * Lag) /\ -(lag + l) \in Int /\ curr_time_min + lag \in Int
      BY <1>1
    <3>2. (((curr_time_min + lag) % Day) + (-(lag + l))) % Day
            = ((curr_time_min + lag) + (-(lag + l))) % Day
      BY <3>1, ModPlus
    <3>3. (curr_time_min + lag) + (-(lag + l)) = curr_time_min - l
      BY <1>1, <3>1
    <3>4. now \in Int /\ now + (-(lag + l)) = now - (lag + l)
      BY <3>1, ControlAssumption DEF DutyInv, TypeOK
    <3> QED
      BY <2>1, <3>1, <3>2, <3>3, <3>4 DEF MinutesAgo
  <2>3. \E l \in 0..Lag : is_on[c] <=> Due(cwt[c], (curr_time_min - l) % Day)
    <3>1. 0 \in 0..Lag /\ (curr_time_min - 0) % Day = curr_time_min
      BY <1>1, InDay
    <3> QED
      BY <2>1, <3>1 DEF InStep
  <2> QED
    BY <2>2, <2>3
<1>3. CASE ~Scheduled(c)
  <2>1. cwt[c].wp = 0 /\ ~is_on[c]
    BY <1>3 DEF DutyInv, CoolerInStep, Scheduled
  <2>2. MinutesAgo(0) \in Int /\ cwt[c].start \in Int
    BY ControlAssumption DEF DutyInv, TypeOK, Schedule, MinutesAgo
  <2>3. ~((MinutesAgo(0) - cwt[c].start) % Hour < 0)
    BY <2>2, HourAssumption
  <2>4. ~Due(cwt[c], MinutesAgo(0))
    BY <2>1, <2>3 DEF Due
  <2> QED
    BY <1>1, <2>1, <2>4
<1> QED
  BY <1>2, <1>3

LEMMA DutyFollowed ==
  ASSUME DutyInv
  PROVE  DutyNoOverrun /\ DutyNoUnderrun
<1>1. \A c \in Coolers : pwm[c] = IF is_on[c] THEN Percent(cl_power[c]) ELSE 0
  BY DEF DutyInv, CoolerInStep
<1> QED
  BY <1>1, FollowsRecentMinute DEF DutyNoOverrun, DutyNoUnderrun, NoOverrun, NoUnderrun

LEMMA DutyKept ==
  ASSUME Undisturbed, InOneDay
  PROVE  DutySpec => [](DutyNoOverrun /\ DutyNoUnderrun)
<1>1. DutyInit => DutyInv
  BY DutyInvInit
<1>2. DutyInv /\ TypeOK' /\ [Next]_vars => DutyInv'
  BY DutyInvStep
<1>3. DutyInv => DutyNoOverrun /\ DutyNoUnderrun
  BY DutyFollowed
<1>4. DutySpec => Spec
  BY DEF DutySpec, DutyInit, Spec
<1> QED
  BY <1>1, <1>2, <1>3, <1>4, TypeCorrect, PTL DEF DutySpec

(* Undisturbed, the board runs a cooler only if its schedule has asked for it in the last
   2 * Lag minutes, for every day, hour and bound between two readings of the clock. *)
THEOREM OverrunBounded ==
  ASSUME Undisturbed, InOneDay
  PROVE  DutySpec => []DutyNoOverrun
BY DutyKept, PTL

(* ... and runs it, at the power that is set, if the schedule has asked for it through
   all of them. *)
THEOREM UnderrunBounded ==
  ASSUME Undisturbed, InOneDay
  PROVE  DutySpec => []DutyNoUnderrun
BY DutyKept, PTL

=============================================================================
