---------------------------- MODULE CoolerControl ----------------------------
(***************************************************************************)
(* Control of the two coolers by the backend (UI/src): the request threads *)
(* that serve POST coolers/power and POST coolers/..._time                 *)
(* (app_save_coolers_power, app_set_coolers_time in app.cpp), the worker   *)
(* thread that follows the schedule (coolers_worker in app_cl.cpp), the    *)
(* settings they share (app_data), the row of the database that keeps the  *)
(* settings, and the coolers board on the I2C bus.                         *)
(*                                                                         *)
(* A step is a section of code that runs under one mutex, one access to    *)
(* the database or the bus, or one unprotected access to shared data; the  *)
(* threads interleave between steps in every order.                        *)
(***************************************************************************)
EXTENDS CoolerSchedule

CONSTANTS
  Day,        \* minutes of a day, 1440 in the code
  Handlers,   \* the request threads, 4 in main.cpp
  Requests,   \* the POSTs that clients may send
  Stored,     \* settings the database may hold when the program starts
  Lag,        \* bound: minutes that pass between two readings of the clock
  TestMode,   \* test_mode of gbweb.conf: the worker leaves the bus alone
  Faults      \* what may fail: a subset of FaultKinds

Coolers == {"input", "output"}

FaultKinds == {"db", "bus", "clock", "crash"}

TimeFields == {"start", "stop", "wp"}

PowerRequest == [kind : {"power"}, in : Int, out : Int]

TimeRequest == [kind : {"time"}, cooler : Coolers, field : TimeFields, min : Nat]

Malformed == [kind |-> "malformed"]

Byte == 0..255

Settings == [cwt : [Coolers -> Schedule], power : [Coolers -> Byte]]

ASSUME ControlAssumption ==
  /\ Day \in Nat \ {0}
  /\ Requests \subseteq PowerRequest \cup TimeRequest \cup {Malformed}
  /\ Stored \subseteq Settings
  /\ Lag \in Nat \ {0}
  /\ TestMode \in BOOLEAN
  /\ Faults \subseteq FaultKinds

VARIABLES
  (* app_data, shared by all threads *)
  cwt,            \* schedule of each cooler
  cl_power,       \* power of each cooler, a byte
  cl_on,          \* published state of each cooler
  (* outside the process *)
  db,             \* the row of the system configuration table
  pwm,            \* what the board last accepted for each cooler, in percent
  now,            \* minute of the day
  (* coolers_worker *)
  wpc,            \* its next section
  cl_time,        \* its copies of schedule and power
  is_on,          \* its own idea of which cooler works
  curr_time_min,  \* the clock as it last read it
  lag,            \* minutes since it read, or had no reason to read, the clock
  cl_signal,      \* wake-up flag polled by cl_sleep
  (* the request threads *)
  hpc,            \* next section of each thread; "OK" and "error": replying
  req             \* the request each thread serves

appVars == <<cwt, cl_power, cl_on>>
workerVars == <<wpc, cl_time, is_on, curr_time_min>>
handlerVars == <<hpc, req>>
clockVars == <<now, lag>>
vars == <<appVars, db, pwm, clockVars, workerVars, cl_signal, handlerVars>>

-----------------------------------------------------------------------------
(* Types *)

WorkerPc == {"copy", "clock", "input", "output", "publish", "sleep"}

HandlerPc == {"idle", "memory", "database", "flag", "bus", "wakeup", "OK", "error"}

NoRequest == [kind |-> "none"]

CoolerTime == [start : Nat, stop : Nat, wp : Nat, power : Byte]

TypeOK ==
  /\ cwt \in [Coolers -> Schedule]
  /\ cl_power \in [Coolers -> Byte]
  /\ cl_on \in [Coolers -> BOOLEAN]
  /\ db \in Settings
  /\ pwm \in [Coolers -> 0..100]
  /\ now \in 0..(Day - 1)
  /\ wpc \in WorkerPc
  /\ cl_time \in [Coolers -> CoolerTime]
  /\ is_on \in [Coolers -> BOOLEAN]
  /\ curr_time_min \in 0..(Day - 1)
  /\ lag \in 0..Lag
  /\ cl_signal \in BOOLEAN
  /\ hpc \in [Handlers -> HandlerPc]
  /\ req \in [Handlers -> Requests \cup {NoRequest}]
  /\ \A h \in Handlers :
       /\ hpc[h] \in {"memory", "database"} => req[h] \in PowerRequest \cup TimeRequest
       /\ hpc[h] \in {"flag", "bus"} => req[h] \in PowerRequest
       /\ hpc[h] = "wakeup" => req[h] \in TimeRequest

-----------------------------------------------------------------------------
(* Helpers *)

NoSchedule == [start |-> 0, stop |-> 0, wp |-> 0]

AllOff == [c \in Coolers |-> FALSE]

AllZero == [c \in Coolers |-> 0]

(* Mutant: the power goes to the settings without the cut to a byte *)
UncutPowerValue(r) == IF r.in >= 0 THEN r.in ELSE r.out

(* What a POST of power changes.  A field that is missing is -1; only a
   non-negative wind_in addresses the input cooler, everything else goes to
   the output cooler, and the value is cut to a byte *)
PowerTarget(r) == IF r.in >= 0 THEN "input" ELSE "output"

PowerValue(r) == (IF r.in >= 0 THEN r.in ELSE r.out) % 256

SetTime(times, r) ==
  [times EXCEPT ![r.cooler] =
     [start |-> IF r.field = "start" THEN r.min ELSE @.start,
      stop  |-> IF r.field = "stop" THEN r.min ELSE @.stop,
      wp    |-> IF r.field = "wp" THEN r.min ELSE @.wp]]

SetPower(powers, r) == [powers EXCEPT ![PowerTarget(r)] = PowerValue(r)]

(* Mutant: no upper limit *)
UnlimitedPercent(power) == power

(* set_coolers_power: the board takes at most 100 percent *)
Percent(power) == IF power > 100 THEN 100 ELSE power

-----------------------------------------------------------------------------
(* The request threads *)

(* Take a request; one that does not parse is answered at once *)
Receive(h) ==
  /\ hpc[h] = "idle"
  /\ \E r \in Requests :
       /\ req' = [req EXCEPT ![h] = r]
       /\ hpc' = [hpc EXCEPT ![h] = IF r = Malformed THEN "error" ELSE "memory"]
  /\ UNCHANGED <<appVars, db, pwm, clockVars, workerVars, cl_signal>>

(* The new value goes to app_data, under app_coolers_mutex *)
SaveToMemory(h) ==
  /\ hpc[h] = "memory"
  /\ \/ /\ req[h].kind = "power"
        /\ cl_power' = SetPower(cl_power, req[h])
        /\ UNCHANGED cwt
     \/ /\ req[h].kind = "time"
        /\ cwt' = SetTime(cwt, req[h])
        /\ UNCHANGED cl_power
  /\ hpc' = [hpc EXCEPT ![h] = "database"]
  /\ UNCHANGED <<cl_on, db, pwm, clockVars, workerVars, cl_signal, req>>

(* Mutant: the result of the write to the database is not looked at *)
UncheckedSaveToDatabase(h) ==
  /\ hpc[h] = "database"
  /\ \/ /\ req[h].kind = "power"
        /\ db' \in {[db EXCEPT !.power = SetPower(@, req[h])]} \cup (IF "db" \in Faults THEN {db} ELSE {})
        /\ hpc' = [hpc EXCEPT ![h] = "flag"]
     \/ /\ req[h].kind = "time"
        /\ db' \in {[db EXCEPT !.cwt = SetTime(@, req[h])]} \cup (IF "db" \in Faults THEN {db} ELSE {})
        /\ hpc' = [hpc EXCEPT ![h] = "wakeup"]
  /\ UNCHANGED <<appVars, pwm, clockVars, workerVars, cl_signal, req>>

(* ... then to the database; after an error the rest of the handler, the
   wake-up of the worker included, is skipped *)
SaveToDatabase(h) ==
  /\ hpc[h] = "database"
  /\ \/ /\ req[h].kind = "power"
        /\ db' = [db EXCEPT !.power = SetPower(@, req[h])]
        /\ hpc' = [hpc EXCEPT ![h] = "flag"]
     \/ /\ req[h].kind = "time"
        /\ db' = [db EXCEPT !.cwt = SetTime(@, req[h])]
        /\ hpc' = [hpc EXCEPT ![h] = "wakeup"]
     \/ /\ "db" \in Faults
        /\ hpc' = [hpc EXCEPT ![h] = "error"]
        /\ UNCHANGED db
  /\ UNCHANGED <<appVars, pwm, clockVars, workerVars, cl_signal, req>>

(* Is the cooler on already?  The flag is read without the mutex *)
ReadFlag(h) ==
  /\ hpc[h] = "flag"
  /\ hpc' = [hpc EXCEPT ![h] = IF cl_on[PowerTarget(req[h])] THEN "bus" ELSE "OK"]
  /\ UNCHANGED <<appVars, db, pwm, clockVars, workerVars, cl_signal, req>>

(* Then the board gets the new power *)
SendPower(h) ==
  /\ hpc[h] = "bus"
  /\ \/ /\ pwm' = [pwm EXCEPT ![PowerTarget(req[h])] = Percent(PowerValue(req[h]))]
        /\ hpc' = [hpc EXCEPT ![h] = "OK"]
     \/ /\ "bus" \in Faults
        /\ hpc' = [hpc EXCEPT ![h] = "error"]
        /\ UNCHANGED pwm
  /\ UNCHANGED <<appVars, db, clockVars, workerVars, cl_signal, req>>

(* Mutant: the signal reaches only a worker that is asleep already *)
WakeupOfSleeper(h) ==
  /\ hpc[h] = "wakeup"
  /\ cl_signal' = (wpc = "sleep")
  /\ hpc' = [hpc EXCEPT ![h] = "OK"]
  /\ UNCHANGED <<appVars, db, pwm, clockVars, workerVars, req>>

(* app_cl_wakeup *)
Wakeup(h) ==
  /\ hpc[h] = "wakeup"
  /\ cl_signal' = TRUE
  /\ hpc' = [hpc EXCEPT ![h] = "OK"]
  /\ UNCHANGED <<appVars, db, pwm, clockVars, workerVars, req>>

Reply(h) ==
  /\ hpc[h] \in {"OK", "error"}
  /\ hpc' = [hpc EXCEPT ![h] = "idle"]
  /\ req' = [req EXCEPT ![h] = NoRequest]
  /\ UNCHANGED <<appVars, db, pwm, clockVars, workerVars, cl_signal>>

-----------------------------------------------------------------------------
(* coolers_worker *)

Scheduled(c) == cwt[c].wp # 0

(* Mutant: the output cooler is copied only when the input cooler has no
   schedule ("else if" for "if") *)
CopyOfOne(c) ==
  IF Scheduled(c) /\ (c = "output" => ~Scheduled("input"))
  THEN [start |-> cwt[c].start, stop |-> cwt[c].stop, wp |-> cwt[c].wp, power |-> cl_power[c]]
  ELSE cl_time[c]

(* A cooler without a work period keeps the copy it had *)
Copy(c) ==
  IF Scheduled(c)
  THEN [start |-> cwt[c].start, stop |-> cwt[c].stop, wp |-> cwt[c].wp, power |-> cl_power[c]]
  ELSE cl_time[c]

(* Copy the settings under app_coolers_mutex.  With no work period at all, back
   to sleep *)
CopySettings ==
  /\ wpc = "copy"
  /\ cl_time' = [c \in Coolers |-> Copy(c)]
  /\ IF \E c \in Coolers : Scheduled(c)
     THEN wpc' = "clock" /\ UNCHANGED lag
     ELSE wpc' = "sleep" /\ lag' = 0
  /\ UNCHANGED <<appVars, db, pwm, now, is_on, curr_time_min, cl_signal, handlerVars>>

ReadClock ==
  /\ wpc = "clock"
  /\ \/ /\ curr_time_min' = now
        /\ wpc' = "input"
     \/ /\ "clock" \in Faults
        /\ wpc' = "sleep"
        /\ UNCHANGED curr_time_min
  /\ lag' = 0
  /\ UNCHANGED <<appVars, db, pwm, now, cl_time, is_on, cl_signal, handlerVars>>

(* Mutant: is_on follows the decision whether the bus took it or not *)
UncheckedSwitch(c, on) ==
  /\ is_on' = [is_on EXCEPT ![c] = on]
  /\ \/ pwm' = [pwm EXCEPT ![c] = IF on THEN Percent(cl_time[c].power) ELSE 0]
     \/ "bus" \in Faults /\ UNCHANGED pwm

(* The write to the bus that a decision of the schedule calls for: is_on
   follows only a write that succeeded *)
Switch(c, on) ==
  \/ /\ is_on' = [is_on EXCEPT ![c] = on]
     /\ pwm' = IF TestMode THEN pwm
               ELSE [pwm EXCEPT ![c] = IF on THEN Percent(cl_time[c].power) ELSE 0]
  \/ /\ "bus" \in Faults /\ ~TestMode
     /\ UNCHANGED <<is_on, pwm>>

(* check_cooler_schedule of one cooler, the input cooler first *)
CheckSchedule(c) ==
  /\ wpc = c
  /\ \/ is_on[c] /\ SwitchOff(cl_time[c], curr_time_min) /\ Switch(c, FALSE)
     \/ ~is_on[c] /\ SwitchOn(cl_time[c], curr_time_min) /\ Switch(c, TRUE)
     \/ /\ IF is_on[c] THEN ~SwitchOff(cl_time[c], curr_time_min)
                       ELSE ~SwitchOn(cl_time[c], curr_time_min)
        /\ UNCHANGED <<is_on, pwm>>
  /\ wpc' = IF c = "input" THEN "output" ELSE "publish"
  /\ UNCHANGED <<appVars, db, clockVars, cl_time, curr_time_min, cl_signal, handlerVars>>

(* Mutant: only the state of the input cooler is published *)
PublishInput ==
  /\ wpc = "publish"
  /\ cl_on' = [cl_on EXCEPT !["input"] = is_on["input"]]
  /\ wpc' = "sleep"
  /\ UNCHANGED <<cwt, cl_power, db, pwm, clockVars, cl_time, is_on, curr_time_min,
                 cl_signal, handlerVars>>

(* Mutant: the published flags are set and never taken back *)
PublishOn ==
  /\ wpc = "publish"
  /\ cl_on' = [c \in Coolers |-> cl_on[c] \/ is_on[c]]
  /\ wpc' = "sleep"
  /\ UNCHANGED <<cwt, cl_power, db, pwm, clockVars, cl_time, is_on, curr_time_min,
                 cl_signal, handlerVars>>

(* The flags that everybody else reads, under app_coolers_mutex *)
PublishState ==
  /\ wpc = "publish"
  /\ cl_on' = is_on
  /\ wpc' = "sleep"
  /\ UNCHANGED <<cwt, cl_power, db, pwm, clockVars, cl_time, is_on, curr_time_min,
                 cl_signal, handlerVars>>

(* cl_sleep returns when its seconds are over or, earlier, when it finds the
   signal; either way the signal is down when it returns *)
EndSleep ==
  /\ wpc = "sleep"
  /\ cl_signal' = FALSE
  /\ wpc' = "copy"
  /\ UNCHANGED <<appVars, db, pwm, clockVars, cl_time, is_on, curr_time_min, handlerVars>>

-----------------------------------------------------------------------------
(* The surroundings *)

(* A minute passes.  The worker gets to the clock at least once in Lag minutes:
   cl_sleep takes cl_poll_period seconds, the rest of a round well under one *)
Tick ==
  /\ lag < Lag
  /\ now' = (now + 1) % Day
  /\ lag' = lag + 1
  /\ UNCHANGED <<appVars, db, pwm, workerVars, cl_signal, handlerVars>>

(* Mutant: the two columns of the row are exchanged *)
SwappedRestoredPower(restored) ==
  [c \in Coolers |->
     IF c \in restored THEN db.power[IF c = "input" THEN "output" ELSE "input"] ELSE 0]

(* What app_init restores of the powers, one query for each cooler *)
RestoredPower(restored) == [c \in Coolers |-> IF c \in restored THEN db.power[c] ELSE 0]

(* The program ends at any point and is started again after any time, alone
   or, after a power cut, together with the board.  app_init clears app_data
   and restores it with three queries; what a query that fails was to restore
   stays zero *)
Restart ==
  /\ "crash" \in Faults
  /\ cwt' \in {db.cwt} \cup (IF "db" \in Faults THEN {[c \in Coolers |-> NoSchedule]} ELSE {})
  /\ \E restored \in (IF "db" \in Faults THEN SUBSET Coolers ELSE {Coolers}) :
       cl_power' = RestoredPower(restored)
  /\ cl_on' = AllOff
  /\ pwm' \in {pwm, AllZero}
  /\ now' \in 0..(Day - 1)
  /\ lag' = 0
  /\ wpc' = "copy"
  /\ cl_time' = [c \in Coolers |-> [start |-> 0, stop |-> 0, wp |-> 0, power |-> 0]]
  /\ is_on' = AllOff
  /\ curr_time_min' = 0
  /\ cl_signal' = FALSE
  /\ hpc' = [h \in Handlers |-> "idle"]
  /\ req' = [h \in Handlers |-> NoRequest]
  /\ UNCHANGED db

-----------------------------------------------------------------------------

(* app_init after a power-up of the whole device *)
Init ==
  /\ db \in Stored
  /\ cwt = db.cwt
  /\ cl_power = db.power
  /\ cl_on = AllOff
  /\ pwm = AllZero
  /\ now \in 0..(Day - 1)
  /\ lag = 0
  /\ wpc = "copy"
  /\ cl_time = [c \in Coolers |-> [start |-> 0, stop |-> 0, wp |-> 0, power |-> 0]]
  /\ is_on = AllOff
  /\ curr_time_min = 0
  /\ cl_signal = FALSE
  /\ hpc = [h \in Handlers |-> "idle"]
  /\ req = [h \in Handlers |-> NoRequest]

Handler(h) ==
  \/ SaveToMemory(h)
  \/ SaveToDatabase(h)
  \/ ReadFlag(h)
  \/ SendPower(h)
  \/ Wakeup(h)
  \/ Reply(h)

Worker ==
  \/ CopySettings
  \/ ReadClock
  \/ \E c \in Coolers : CheckSchedule(c)
  \/ PublishState
  \/ EndSleep

Next ==
  \/ \E h \in Handlers : Receive(h)
  \/ \E h \in Handlers : Handler(h)
  \/ Worker
  \/ Tick
  \/ Restart

Spec == Init /\ [][Next]_vars

(* The threads keep running.  Nobody is obliged to send a request, to crash
   or to let an access fail *)
Fairness ==
  /\ WF_vars(Worker)
  /\ \A h \in Handlers : WF_vars(Handler(h))
  /\ WF_vars(Tick)

(* The write that switches a cooler off may fail many times but not for ever *)
SwitchedOff(c) == CheckSchedule(c) /\ is_on[c] /\ ~is_on'[c]

BusRecovers == \A c \in Coolers : SF_vars(SwitchedOff(c))

FairSpec == Spec /\ Fairness /\ BusRecovers

-----------------------------------------------------------------------------
(* Safety *)

(* Whenever the worker is not between its checks and the publication, the
   flags that the request threads and the status page read are the worker's
   own (coolers_worker publishes on every path that may change is_on). *)
FlagPublished ==
  wpc \in {"copy", "clock", "input", "sleep"} => cl_on = is_on

Copied(c) ==
  /\ cl_time[c].start = cwt[c].start
  /\ cl_time[c].stop = cwt[c].stop
  /\ cl_time[c].wp = cwt[c].wp

(* No wake-up is lost: when the worker has copied an old schedule, or sleeps
   on one, then the signal that makes it look again is up or a request thread
   is on its way to raise it.  (Holds while the database works: after a failed
   write app_set_coolers_time skips the wake-up.) *)
NoLostWakeup ==
  \A c \in Coolers :
    wpc # "copy" /\ Scheduled(c) /\ ~Copied(c) =>
      \/ cl_signal
      \/ \E h \in Handlers : hpc[h] \in {"database", "wakeup"} /\ req[h].kind = "time"

(* A request that is answered OK is in the database, so that a restart keeps
   it, whatever failed before. *)
AcknowledgedIsStored ==
  \A h \in Handlers :
    hpc[h] = "OK" =>
      IF req[h].kind = "power"
      THEN db.power[PowerTarget(req[h])] = PowerValue(req[h])
      ELSE db.cwt[req[h].cooler][req[h].field] = req[h].min

(* The worker changes its idea of a cooler (other than by a restart) only to
   what the copied schedule calls for at the minute it has read. *)
AsDue ==
  \A c \in Coolers :
    is_on'[c] # is_on[c] /\ wpc' # "copy" =>
      (is_on'[c] <=> Due(cl_time[c], curr_time_min))

SwitchesAsDue == [][AsDue]_vars

(* The board runs a cooler only if its schedule asked for it within the last
   d minutes, and a cooler whose schedule has asked for it through the last d
   minutes runs, with the power that is set. *)
MinutesAgo(d) == (now - d) % Day

NoOverrun(d) ==
  \A c \in Coolers :
    pwm[c] > 0 => \E m \in 0..d : Due(cwt[c], MinutesAgo(m))

NoUnderrun(d) ==
  \A c \in Coolers :
    (\A m \in 0..d : Due(cwt[c], MinutesAgo(m))) => pwm[c] = Percent(cl_power[c])

(* The program is started at midnight *)
DutyInit == Init /\ now = 0

DutySpec == DutyInit /\ [][Next]_vars

(* The worker may have read the clock just before a boundary, and needs one more
   round after that to see it *)
DutyNoOverrun == NoOverrun(2 * Lag)

DutyNoUnderrun == NoUnderrun(2 * Lag)

(* While nobody is changing settings, a cooler that is marked as on works with
   the power that is set ("Use new power value if cooler is ON already",
   app.cpp:679), and one that is marked as off stands still *)
Quiet == wpc = "sleep" /\ \A h \in Handlers : hpc[h] = "idle"

OnUsesPower ==
  Quiet => \A c \in Coolers : pwm[c] = IF cl_on[c] THEN Percent(cl_power[c]) ELSE 0

-----------------------------------------------------------------------------
(* Liveness *)

(* A schedule with a work period reaches the worker, unless it is changed
   again first. *)
ScheduleTakenUp ==
  \A c \in Coolers : Scheduled(c) ~> (Copied(c) \/ ~Scheduled(c))

(* A cooler that runs is stopped some time. *)
StopsEventually == \A c \in Coolers : pwm[c] > 0 ~> pwm[c] = 0

(* A cooler whose work period is zero, and stays zero, is stopped. *)
NoPeriodStops ==
  \A c \in Coolers : [](cwt[c].wp = 0) ~> pwm[c] = 0

=============================================================================
