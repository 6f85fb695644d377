------------------------- MODULE CoolerControlProofs -------------------------
(***************************************************************************)
(* What is proved of CoolerControl for every number of request threads,    *)
(* every set of requests and every choice of faults.                       *)
(***************************************************************************)
EXTENDS CoolerControl, CoolerScheduleProofs, TLAPS

-----------------------------------------------------------------------------
(* The helpers keep the types of the settings *)

LEMMA RequestKinds ==
  /\ \A r \in PowerRequest : r.kind = "power" /\ r.in \in Int /\ r.out \in Int
  /\ \A r \in TimeRequest :
       /\ r.kind = "time"
       /\ r.cooler \in Coolers
       /\ r.field \in TimeFields
       /\ r.min \in Nat
BY DEF PowerRequest, TimeRequest

LEMMA PowerTargetType ==
  ASSUME NEW r \in PowerRequest
  PROVE  PowerTarget(r) \in Coolers /\ PowerValue(r) \in Byte
<1>1. r.in \in Int /\ r.out \in Int
  BY RequestKinds
<1>2. \A n \in Int : n % 256 \in Byte
  BY DEF Byte
<1> QED
  BY <1>1, <1>2 DEF PowerTarget, PowerValue, Coolers

LEMMA SetPowerType ==
  ASSUME NEW r \in PowerRequest, NEW powers \in [Coolers -> Byte]
  PROVE  SetPower(powers, r) \in [Coolers -> Byte]
BY PowerTargetType DEF SetPower

LEMMA SetTimeType ==
  ASSUME NEW r \in TimeRequest, NEW times \in [Coolers -> Schedule]
  PROVE  SetTime(times, r) \in [Coolers -> Schedule]
<1>1. r.cooler \in Coolers /\ r.min \in Nat
  BY RequestKinds
<1>2. times[r.cooler] \in Schedule
  BY <1>1
<1> QED
  BY <1>1, <1>2 DEF SetTime, Schedule

LEMMA PercentType ==
  ASSUME NEW p \in Byte
  PROVE  Percent(p) \in 0..100
BY DEF Percent, Byte

LEMMA SettingsType ==
  ASSUME NEW s \in Settings
  PROVE  /\ s.cwt \in [Coolers -> Schedule]
         /\ s.power \in [Coolers -> Byte]
         /\ \A p \in [Coolers -> Byte] : [s EXCEPT !.power = p] \in Settings
         /\ \A t \in [Coolers -> Schedule] : [s EXCEPT !.cwt = t] \in Settings
BY DEF Settings

-----------------------------------------------------------------------------
(* Type correctness *)

LEMMA InitTypeOK == Init => TypeOK
<1> SUFFICES ASSUME Init PROVE TypeOK
  OBVIOUS
<1>1. db \in Settings /\ cwt \in [Coolers -> Schedule] /\ cl_power \in [Coolers -> Byte]
  BY ControlAssumption, SettingsType DEF Init
<1>2. now \in 0..(Day - 1) /\ curr_time_min \in 0..(Day - 1) /\ lag \in 0..Lag
  BY ControlAssumption DEF Init
<1>3. cl_time \in [Coolers -> CoolerTime]
  BY DEF Init, CoolerTime, Byte
<1>4. /\ cl_on \in [Coolers -> BOOLEAN]
      /\ is_on \in [Coolers -> BOOLEAN]
      /\ pwm \in [Coolers -> 0..100]
  BY DEF Init, AllOff, AllZero
<1> QED
  BY <1>1, <1>2, <1>3, <1>4 DEF Init, TypeOK, WorkerPc, HandlerPc

LEMMA HandlerTypeOK ==
  ASSUME TypeOK, NEW h \in Handlers, Receive(h) \/ Handler(h)
  PROVE  TypeOK'
<1>1. CASE Receive(h)
  BY <1>1, ControlAssumption
  DEF Receive, TypeOK, HandlerPc, Malformed, appVars, clockVars, workerVars
<1>2. CASE SaveToMemory(h)
  <2>1. req[h] \in PowerRequest \cup TimeRequest
    BY <1>2 DEF SaveToMemory, TypeOK
  <2>2. cwt' \in [Coolers -> Schedule] /\ cl_power' \in [Coolers -> Byte]
    BY <1>2, <2>1, RequestKinds, SetPowerType, SetTimeType DEF SaveToMemory, TypeOK
  <2> QED
    BY <1>2, <2>1, <2>2 DEF SaveToMemory, TypeOK, HandlerPc, clockVars, workerVars
<1>3. CASE SaveToDatabase(h)
  <2>1. req[h] \in PowerRequest \cup TimeRequest
    BY <1>3 DEF SaveToDatabase, TypeOK
  <2>2. db' \in Settings
    BY <1>3, <2>1, RequestKinds, SetPowerType, SetTimeType, SettingsType
    DEF SaveToDatabase, TypeOK
  <2> QED
    BY <1>3, <2>1, <2>2, RequestKinds
    DEF SaveToDatabase, TypeOK, HandlerPc, appVars, clockVars, workerVars
<1>4. CASE ReadFlag(h)
  BY <1>4 DEF ReadFlag, TypeOK, HandlerPc, appVars, clockVars, workerVars
<1>5. CASE SendPower(h)
  <2>1. req[h] \in PowerRequest
    BY <1>5 DEF SendPower, TypeOK
  <2>2. pwm' \in [Coolers -> 0..100]
    BY <1>5, <2>1, PowerTargetType, PercentType DEF SendPower, TypeOK
  <2> QED
    BY <1>5, <2>2 DEF SendPower, TypeOK, HandlerPc, appVars, clockVars, workerVars
<1>6. CASE Wakeup(h)
  BY <1>6 DEF Wakeup, TypeOK, HandlerPc, appVars, clockVars, workerVars
<1>7. CASE Reply(h)
  BY <1>7 DEF Reply, TypeOK, HandlerPc, appVars, clockVars, workerVars
<1> QED
  BY <1>1, <1>2, <1>3, <1>4, <1>5, <1>6, <1>7 DEF Handler

LEMMA WorkerTypeOK ==
  ASSUME TypeOK, Worker
  PROVE  TypeOK'
<1>1. CASE CopySettings
  <2>1. cl_time' \in [Coolers -> CoolerTime]
    BY <1>1 DEF CopySettings, Copy, TypeOK, CoolerTime, Schedule
  <2> QED
    BY <1>1, <2>1, ControlAssumption
    DEF CopySettings, TypeOK, WorkerPc, appVars, handlerVars
<1>2. CASE ReadClock
  BY <1>2, ControlAssumption DEF ReadClock, TypeOK, WorkerPc, appVars, handlerVars
<1>3. ASSUME NEW c \in Coolers, CheckSchedule(c)
      PROVE  TypeOK'
  <2>1. cl_time[c].power \in Byte
    BY DEF TypeOK, CoolerTime
  <2>2. \A on \in BOOLEAN :
          Switch(c, on) => is_on' \in [Coolers -> BOOLEAN] /\ pwm' \in [Coolers -> 0..100]
    BY <2>1, PercentType DEF Switch, TypeOK
  <2>3. is_on' \in [Coolers -> BOOLEAN] /\ pwm' \in [Coolers -> 0..100]
    BY <1>3, <2>2 DEF CheckSchedule, TypeOK
  <2> QED
    BY <1>3, <2>3 DEF CheckSchedule, TypeOK, WorkerPc, appVars, clockVars, handlerVars
<1>4. CASE PublishState
  BY <1>4 DEF PublishState, TypeOK, WorkerPc, clockVars, handlerVars
<1>5. CASE EndSleep
  BY <1>5 DEF EndSleep, TypeOK, WorkerPc, appVars, clockVars, handlerVars
<1> QED
  BY <1>1, <1>2, <1>3, <1>4, <1>5 DEF Worker

LEMMA TickTypeOK ==
  ASSUME TypeOK, Tick
  PROVE  TypeOK'
<1>1. (now + 1) % Day \in 0..(Day - 1)
  BY ControlAssumption DEF TypeOK
<1>2. lag + 1 \in 0..Lag
  BY ControlAssumption DEF TypeOK, Tick
<1> QED
  BY <1>1, <1>2 DEF Tick, TypeOK, appVars, workerVars, handlerVars

LEMMA RestartTypeOK ==
  ASSUME TypeOK, Restart
  PROVE  TypeOK'
<1>1. db.cwt \in [Coolers -> Schedule] /\ db.power \in [Coolers -> Byte]
  BY SettingsType DEF TypeOK
<1>2. cwt' \in [Coolers -> Schedule]
  BY <1>1 DEF Restart, NoSchedule, Schedule
<1>3. cl_power' \in [Coolers -> Byte]
  BY <1>1 DEF Restart, RestoredPower, Byte
<1>4. pwm' \in [Coolers -> 0..100]
  BY DEF Restart, TypeOK, AllZero
<1>5. cl_time' \in [Coolers -> CoolerTime]
  BY DEF Restart, CoolerTime, Byte
<1>6. now' \in 0..(Day - 1) /\ curr_time_min' \in 0..(Day - 1) /\ lag' \in 0..Lag
  BY ControlAssumption DEF Restart
<1>7. cl_on' \in [Coolers -> BOOLEAN] /\ is_on' \in [Coolers -> BOOLEAN]
  BY DEF Restart, AllOff
<1> QED
  BY <1>2, <1>3, <1>4, <1>5, <1>6, <1>7 DEF Restart, TypeOK, WorkerPc, HandlerPc

(* Every variable keeps its type, the board never gets more than 100 percent,
   and a request thread is never in a section that its request does not have. *)
THEOREM TypeCorrect == Spec => []TypeOK
<1>1. TypeOK /\ [Next]_vars => TypeOK'
  <2> SUFFICES ASSUME TypeOK, [Next]_vars PROVE TypeOK'
    OBVIOUS
  <2>1. CASE UNCHANGED vars
    BY <2>1 DEF vars, TypeOK, appVars, clockVars, workerVars, handlerVars
  <2> QED
    BY <2>1, HandlerTypeOK, WorkerTypeOK, TickTypeOK, RestartTypeOK DEF Next
<1> QED
  BY InitTypeOK, <1>1, PTL DEF Spec

-----------------------------------------------------------------------------
(* The published flags *)

(* The flags that requests and the status page read are the worker's own,
   except between its checks and the publication. *)
THEOREM FlagAlwaysPublished == Spec => []FlagPublished
<1>1. Init => FlagPublished
  BY DEF Init, FlagPublished
<1>2. FlagPublished /\ [Next]_vars => FlagPublished'
  <2> SUFFICES ASSUME FlagPublished, [Next]_vars PROVE FlagPublished'
    OBVIOUS
  <2> USE DEF FlagPublished
  <2>1. ASSUME NEW h \in Handlers, Receive(h) \/ Handler(h) PROVE FlagPublished'
    BY <2>1 DEF Receive, Handler, SaveToMemory, SaveToDatabase, ReadFlag, SendPower,
                Wakeup, Reply, appVars, workerVars
  <2>2. CASE CopySettings
    BY <2>2 DEF CopySettings, appVars
  <2>3. CASE ReadClock
    BY <2>3 DEF ReadClock, appVars
  <2>4. ASSUME NEW c \in Coolers, CheckSchedule(c) PROVE FlagPublished'
    BY <2>4 DEF CheckSchedule
  <2>5. CASE PublishState
    BY <2>5 DEF PublishState
  <2>6. CASE EndSleep
    BY <2>6 DEF EndSleep, appVars
  <2>7. CASE Tick
    BY <2>7 DEF Tick, appVars, workerVars
  <2>8. CASE Restart
    BY <2>8 DEF Restart
  <2>9. CASE UNCHANGED vars
    BY <2>9 DEF vars, appVars, workerVars
  <2> QED
    BY <2>1, <2>2, <2>3, <2>4, <2>5, <2>6, <2>7, <2>8, <2>9 DEF Next, Worker
<1> QED
  BY <1>1, <1>2, PTL DEF Spec

-----------------------------------------------------------------------------
(* The decisions of the worker *)

(* In every reachable state the worker switches a cooler exactly as the first
   wp minutes of each hour between start and stop call for. *)
THEOREM WorkerSwitchesAsDue == Spec => SwitchesAsDue
<1>1. TypeOK /\ [Next]_vars => [AsDue]_vars
  <2> SUFFICES ASSUME TypeOK, Next, wpc' # "copy", NEW c \in Coolers, is_on'[c] # is_on[c]
               PROVE  is_on'[c] <=> Due(cl_time[c], curr_time_min)
    BY DEF AsDue
  <2>1. PICK d \in Coolers : CheckSchedule(d)
    <3>1. \A h \in Handlers : ~Receive(h) /\ ~Handler(h)
      BY DEF Receive, Handler, SaveToMemory, SaveToDatabase, ReadFlag, SendPower,
             Wakeup, Reply, workerVars
    <3>2. ~CopySettings /\ ~ReadClock /\ ~PublishState /\ ~EndSleep
      BY DEF CopySettings, ReadClock, PublishState, EndSleep
    <3>3. ~Tick /\ ~Restart
      BY DEF Tick, Restart, workerVars
    <3> QED
      BY <3>1, <3>2, <3>3 DEF Next, Worker
  <2>2. InMinutes(cl_time[d]) /\ curr_time_min \in Nat
    BY ControlAssumption DEF TypeOK, CoolerTime, InMinutes
  <2>3. is_on \in [Coolers -> BOOLEAN]
    BY DEF TypeOK
  <2>4. CASE SwitchOff(cl_time[d], curr_time_min) /\ Switch(d, FALSE)
    <3>1. ~Due(cl_time[d], curr_time_min)
      BY <2>2, <2>4, SwitchOffIffNotDue
    <3>2. c = d /\ is_on'[d] = FALSE
      BY <2>3, <2>4 DEF Switch
    <3> QED
      BY <3>1, <3>2
  <2>5. CASE SwitchOn(cl_time[d], curr_time_min) /\ Switch(d, TRUE)
    <3>1. Due(cl_time[d], curr_time_min)
      BY <2>2, <2>5, SwitchOnIffDue
    <3>2. c = d /\ is_on'[d] = TRUE
      BY <2>3, <2>5 DEF Switch
    <3> QED
      BY <3>1, <3>2
  <2> QED
    BY <2>1, <2>4, <2>5 DEF CheckSchedule
<1> QED
  BY <1>1, TypeCorrect, PTL DEF Spec, SwitchesAsDue

-----------------------------------------------------------------------------
(* Wake-ups *)

LEMMA NoLostWakeupHandler ==
  ASSUME "db" \notin Faults, TypeOK, NoLostWakeup,
         NEW h \in Handlers, Receive(h) \/ Handler(h)
  PROVE  NoLostWakeup'
<1> USE DEF NoLostWakeup, Scheduled, Copied
<1>1. hpc \in [Handlers -> HandlerPc] /\ req \in [Handlers -> Requests \cup {NoRequest}]
  BY DEF TypeOK
<1>2. CASE Receive(h)
  BY <1>1, <1>2 DEF Receive, appVars, workerVars
<1>3. CASE SaveToMemory(h)
  <2>1. CASE req[h].kind = "power"
    BY <1>1, <1>3, <2>1 DEF SaveToMemory, workerVars
  <2>2. CASE req[h].kind = "time"
    BY <1>1, <1>3, <2>2 DEF SaveToMemory, workerVars
  <2> QED
    BY <1>3, <2>1, <2>2 DEF SaveToMemory
<1>4. CASE SaveToDatabase(h)
  BY <1>1, <1>4 DEF SaveToDatabase, appVars, workerVars
<1>5. CASE ReadFlag(h)
  BY <1>1, <1>5 DEF ReadFlag, appVars, workerVars
<1>6. CASE SendPower(h)
  BY <1>1, <1>6 DEF SendPower, appVars, workerVars
<1>7. CASE Wakeup(h)
  BY <1>7 DEF Wakeup
<1>8. CASE Reply(h)
  BY <1>1, <1>8 DEF Reply, appVars, workerVars
<1> QED
  BY <1>2, <1>3, <1>4, <1>5, <1>6, <1>7, <1>8 DEF Handler

LEMMA NoLostWakeupWorker ==
  ASSUME TypeOK, NoLostWakeup, Worker
  PROVE  NoLostWakeup'
<1> USE DEF NoLostWakeup, Scheduled, Copied
<1>1. CASE CopySettings
  BY <1>1 DEF CopySettings, Copy, appVars, TypeOK, Schedule
<1>2. CASE ReadClock
  BY <1>2 DEF ReadClock, appVars, handlerVars
<1>3. ASSUME NEW c \in Coolers, CheckSchedule(c) PROVE NoLostWakeup'
  BY <1>3 DEF CheckSchedule, Coolers, appVars, handlerVars
<1>4. CASE PublishState
  BY <1>4 DEF PublishState, handlerVars
<1>5. CASE EndSleep
  BY <1>5 DEF EndSleep
<1> QED
  BY <1>1, <1>2, <1>3, <1>4, <1>5 DEF Worker

(* While the database works, no order of the threads loses a wake-up: a
   schedule that the worker has not seen yet has a signal up or on its way. *)
THEOREM WakeupNeverLost ==
  ASSUME "db" \notin Faults
  PROVE  Spec => []NoLostWakeup
<1>1. Init => NoLostWakeup
  BY DEF Init, NoLostWakeup
<1>2. TypeOK /\ NoLostWakeup /\ [Next]_vars => NoLostWakeup'
  <2> SUFFICES ASSUME TypeOK, NoLostWakeup, [Next]_vars PROVE NoLostWakeup'
    OBVIOUS
  <2>1. CASE Tick
    BY <2>1 DEF Tick, NoLostWakeup, Scheduled, Copied, appVars, workerVars, handlerVars
  <2>2. CASE Restart
    BY <2>2 DEF Restart, NoLostWakeup
  <2>3. CASE UNCHANGED vars
    BY <2>3 DEF vars, NoLostWakeup, Scheduled, Copied, appVars, workerVars, handlerVars
  <2> QED
    BY <2>1, <2>2, <2>3, NoLostWakeupHandler, NoLostWakeupWorker DEF Next
<1> QED
  BY <1>1, <1>2, TypeCorrect, PTL DEF Spec

=============================================================================
