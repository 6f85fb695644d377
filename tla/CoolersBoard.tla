----------------------------- MODULE CoolersBoard -----------------------------
(* The coolers board (firmware of boards/sensors/Coolers_Controller: main.c, flash.c,
   i2c.c) and the threads of the backend that talk to it over the I2C bus
   (set_coolers_power, get_coolers_power in sensors.cpp).

   The interrupts of the bus change the state of the HAL's slave between any two steps
   of main.  A slave that is not ready for the next byte makes the master wait. *)
EXTENDS Integers

CONSTANTS
  Hosts,     \* threads of the backend
  NoHost,    \* nobody holds i2c_mutex
  Requests,  \* what they ask of the board
  Faults     \* what may fail: a subset of FaultKinds

Coolers == {"input", "output"}

FaultKinds ==
  {"truncated",         \* a transfer that the master breaks off before its last byte
   "erase", "program",  \* the flash
   "reset"}             \* the supply of the board, at any moment

SetRequest == [kind : {"set"}, cooler : Coolers, power : 0..255]

GetRequest == [kind : {"get"}, cooler : Coolers]

ASSUME BoardAssumption ==
  /\ NoHost \notin Hosts
  /\ Requests \subseteq SetRequest \cup GetRequest
  /\ Faults \subseteq FaultKinds

VARIABLES
  (* the board *)
  bpc,                    \* next section of main
  state,                  \* of the HAL's slave
  I2C_transferRequested,
  i2cBuf,                 \* what it has been asked: the register, the value
  coolers_pwm,            \* the powers it knows
  duty,                   \* the powers its timer produces
  flash,                  \* the powers on the last page
  locked,                 \* is the flash locked against writing
  (* the backend *)
  i2c_mutex,              \* its holder or NoHost
  hpc,                    \* next section of each thread
  req,                    \* what it asks
  answer,                 \* the last byte read from the board
  (* history, which no code can see *)
  unset,                  \* coolers whose power main has not set since it started
  restarted               \* threads into whose transfer a reset of the board has come

slaveVars == <<state, I2C_transferRequested>>
powerVars == <<coolers_pwm, duty, unset>>
flashVars == <<flash, locked>>
boardVars == <<bpc, slaveVars, i2cBuf, powerVars, flashVars>>
hostVars == <<i2c_mutex, hpc, req, answer, restarted>>
vars == <<boardVars, hostVars>>

-----------------------------------------------------------------------------
(* Types *)

Power == 0..100

Erased == 2^16  \* stands for 0xFFFFFFFF, an erased word

Unknown == 255  \* the answer to any other register, and of nobody

(* Main waits for LISTEN in "register" and "value", for READY in "sent" *)
BoardPc == {"boot", "loop", "register", "decide", "value", "duty", "erase",
            "program1", "program2", "sent", "done", "listen"}

HostPc == {"idle", "address", "register", "value", "restart", "read", "stop", "hold",
           "OK", "error"}

NoRequest == [kind |-> "none"]

NoRegister == [kind |-> "none", cooler |-> "input"]

Registers ==
  [register : [kind : {"set", "get"}, cooler : Coolers] \cup {NoRegister}, value : 0..255]

TypeOK ==
  /\ bpc \in BoardPc
  /\ state \in {"READY", "LISTEN", "RX", "TX", "MUTE"}
  /\ I2C_transferRequested \in BOOLEAN
  /\ i2cBuf \in Registers
  /\ coolers_pwm \in [Coolers -> Power]
  /\ duty \in [Coolers -> Power]
  /\ flash \in [Coolers -> Power \cup {Erased}]
  /\ locked \in BOOLEAN
  /\ i2c_mutex \in Hosts \cup {NoHost}
  /\ hpc \in [Hosts -> HostPc]
  /\ req \in [Hosts -> Requests \cup {NoRequest}]
  /\ answer \in 0..255
  /\ unset \subseteq Coolers
  /\ restarted \subseteq Hosts

(* Mutant: no upper limit *)
Unlimited(power) == power

(* Both sides limit a power to 100 percent *)
Limited(power) == IF power > 100 THEN 100 ELSE power

-----------------------------------------------------------------------------
(* The board: start and watchdog *)

(* coolers_pwm comes from the flash, the timer starts at zero *)
Boot ==
  /\ bpc = "boot"
  /\ coolers_pwm' = [c \in Coolers |-> Limited(flash[c])]
  /\ duty' = [c \in Coolers |-> 0]
  /\ bpc' = "loop"
  /\ UNCHANGED <<slaveVars, i2cBuf, unset, flashVars, hostVars>>

(* A transfer under way goes on without the board: its next byte is not acknowledged,
   a byte that is read is all ones *)
WithoutBoard(pc) ==
  CASE pc \in {"register", "value", "restart"} -> "error"
    [] pc \in {"read", "stop"}                 -> "hold"
    [] OTHER                                    -> pc

Reset ==
  /\ bpc' = "boot"
  /\ state' = "READY"
  /\ I2C_transferRequested' = FALSE
  /\ i2cBuf' = [register |-> NoRegister, value |-> 0]
  /\ duty' = [c \in Coolers |-> 0]
  /\ locked' = TRUE
  /\ hpc' = [h \in Hosts |-> WithoutBoard(hpc[h])]
  /\ answer' = IF \E h \in Hosts : hpc[h] = "read" THEN Unknown ELSE answer
  /\ unset' = Coolers
  /\ restarted' = restarted \cup {h \in Hosts : hpc[h] \notin {"idle", "address"}}
  /\ UNCHANGED <<coolers_pwm, flash, i2c_mutex, req>>

(* The transfer that main was asked for has been broken off before its first byte *)
Abandoned == bpc = "register" /\ state = "RX" /\ \A h \in Hosts : hpc[h] # "register"

(* Main waits for a state that the slave has left already, or never reaches *)
Stuck ==
  \/ bpc \in {"register", "value"} /\ state = "READY"
  \/ bpc \in {"register", "sent"} /\ state = "MUTE"
  \/ Abandoned

(* Mutant: the watchdog is refreshed in the waiting loops *)
WatchdogRefreshed == Stuck /\ UNCHANGED vars

(* Only the loop refreshes the watchdog.  It has 1.6 seconds, far more than a transfer
   or a write to the flash takes *)
Watchdog == Stuck /\ Reset

PowerFails == "reset" \in Faults /\ bpc # "boot" /\ Reset

-----------------------------------------------------------------------------
(* The board: main *)

(* HAL_I2C_EnableListen_IT does nothing unless the slave is READY *)
Listening == IF state = "READY" THEN "LISTEN" ELSE state

(* Listen, and then receive what has been requested; the next address may come between *)
Loop ==
  /\ bpc = "loop"
  /\ IF state = "LISTEN" /\ I2C_transferRequested
     THEN bpc' = "register" /\ state' = "RX"
     ELSE state' = Listening /\ UNCHANGED bpc
  /\ UNCHANGED <<I2C_transferRequested, i2cBuf, powerVars, flashVars, hostVars>>

SeeRegister ==
  /\ bpc = "register"
  /\ state = "LISTEN"
  /\ bpc' = "decide"
  /\ UNCHANGED <<slaveVars, i2cBuf, powerVars, flashVars, hostVars>>

(* A register to write: receive the value.  Otherwise answer *)
Decide ==
  /\ bpc = "decide"
  /\ IF i2cBuf.register.kind = "set"
     THEN /\ bpc' = "value"
          /\ state' = IF state = "LISTEN" THEN "RX" ELSE state
     ELSE /\ bpc' = "sent"
          /\ state' = IF state = "LISTEN" THEN "TX" ELSE state
  /\ UNCHANGED <<I2C_transferRequested, i2cBuf, powerVars, flashVars, hostVars>>

(* Mutant: main does not wait for the value *)
TakeAnyValue ==
  /\ bpc = "value"
  /\ i2cBuf' = [i2cBuf EXCEPT !.value = Limited(@)]
  /\ bpc' = "duty"
  /\ UNCHANGED <<slaveVars, powerVars, flashVars, hostVars>>

SeeValue ==
  /\ bpc = "value"
  /\ state = "LISTEN"
  /\ i2cBuf' = [i2cBuf EXCEPT !.value = Limited(@)]
  /\ bpc' = "duty"
  /\ UNCHANGED <<slaveVars, powerVars, flashVars, hostVars>>

(* Mutant: the timer's other channel *)
SetOtherDuty ==
  /\ bpc = "duty"
  /\ \E c \in Coolers \ {i2cBuf.register.cooler} : duty' = [duty EXCEPT ![c] = i2cBuf.value]
  /\ coolers_pwm' = [coolers_pwm EXCEPT ![i2cBuf.register.cooler] = i2cBuf.value]
  /\ unset' = unset \ {i2cBuf.register.cooler}
  /\ bpc' = "erase"
  /\ UNCHANGED <<slaveVars, i2cBuf, flashVars, hostVars>>

SetDuty ==
  /\ bpc = "duty"
  /\ duty' = [duty EXCEPT ![i2cBuf.register.cooler] = i2cBuf.value]
  /\ coolers_pwm' = [coolers_pwm EXCEPT ![i2cBuf.register.cooler] = i2cBuf.value]
  /\ unset' = unset \ {i2cBuf.register.cooler}
  /\ bpc' = "erase"
  /\ UNCHANGED <<slaveVars, i2cBuf, flashVars, hostVars>>

(* flash_write_page: after an error of the erase the page, whatever is on it, is
   neither written nor locked *)
Erase ==
  /\ bpc = "erase"
  /\ \/ flash' = [c \in Coolers |-> Erased] /\ bpc' = "program1" /\ UNCHANGED locked
     \/ /\ "erase" \in Faults
        /\ flash' \in {flash, [c \in Coolers |-> Erased]}
        /\ locked' = FALSE
        /\ bpc' = "done"
  /\ UNCHANGED <<slaveVars, i2cBuf, powerVars, hostVars>>

(* Nobody looks at the result of HAL_FLASH_Program *)
Program(c) ==
  /\ \/ flash' = [flash EXCEPT ![c] = coolers_pwm[c]]
     \/ "program" \in Faults /\ UNCHANGED flash
  /\ UNCHANGED <<slaveVars, i2cBuf, powerVars, hostVars>>

ProgramInput ==
  /\ bpc = "program1"
  /\ Program("input")
  /\ bpc' = "program2"
  /\ UNCHANGED locked

(* Mutant: the second word gets the first value, too *)
ProgramSame ==
  /\ bpc = "program2"
  /\ flash' = [flash EXCEPT !["output"] = coolers_pwm["input"]]
  /\ bpc' = "done"
  /\ locked' = TRUE
  /\ UNCHANGED <<slaveVars, i2cBuf, powerVars, hostVars>>

ProgramOutput ==
  /\ bpc = "program2"
  /\ Program("output")
  /\ bpc' = "done"
  /\ locked' = TRUE

SeeSent ==
  /\ bpc = "sent"
  /\ state = "READY"
  /\ bpc' = "done"
  /\ UNCHANGED <<slaveVars, i2cBuf, powerVars, flashVars, hostVars>>

Done ==
  /\ bpc = "done"
  /\ I2C_transferRequested' = FALSE
  /\ bpc' = "listen"
  /\ UNCHANGED <<state, i2cBuf, powerVars, flashVars, hostVars>>

(* Mutant: the request is cleared after the slave listens again *)
ListenThenClear ==
  /\ bpc = "listen"
  /\ \/ state = "READY" /\ state' = "LISTEN" /\ UNCHANGED <<bpc, I2C_transferRequested>>
     \/ state # "READY" /\ I2C_transferRequested' = FALSE /\ bpc' = "loop" /\ UNCHANGED state
  /\ UNCHANGED <<i2cBuf, powerVars, flashVars, hostVars>>

ListenAgain ==
  /\ bpc = "listen"
  /\ state' = Listening
  /\ bpc' = "loop"
  /\ UNCHANGED <<I2C_transferRequested, i2cBuf, powerVars, flashVars, hostVars>>

Board ==
  \/ Boot
  \/ Loop
  \/ SeeRegister
  \/ Decide
  \/ SeeValue
  \/ SetDuty
  \/ Erase
  \/ ProgramInput
  \/ ProgramOutput
  \/ SeeSent
  \/ Done
  \/ ListenAgain

-----------------------------------------------------------------------------
(* The backend: one transfer at a time, under i2c_mutex *)

Receive(h) ==
  /\ hpc[h] = "idle"
  /\ i2c_mutex = NoHost
  /\ i2c_mutex' = h
  /\ \E r \in Requests : req' = [req EXCEPT ![h] = r]
  /\ hpc' = [hpc EXCEPT ![h] = "address"]
  /\ UNCHANGED <<boardVars, answer, restarted>>

Goto(h, from, to) ==
  /\ hpc[h] = from
  /\ hpc' = [hpc EXCEPT ![h] = to]
  /\ UNCHANGED <<i2c_mutex, req, restarted>>

Answers == state \notin {"READY", "MUTE"}

(* A slave that is not listening does not acknowledge its address; one that holds the
   bus lets no address through *)
NotAcknowledged(h) ==
  /\ ~Answers
  /\ Goto(h, "address", "error")
  /\ UNCHANGED <<boardVars, answer>>

(* The interrupt of an address turns off the one of the bytes, and calls
   HAL_I2C_AddrCallback: if main has been ready for a byte before, it gets none any more *)
Addressed(ready) ==
  /\ state' = IF state = ready THEN "MUTE" ELSE state
  /\ I2C_transferRequested' = TRUE

Address(h) ==
  /\ Answers
  /\ Goto(h, "address", "register")
  /\ Addressed("RX")
  /\ UNCHANGED <<bpc, i2cBuf, powerVars, flashVars, answer>>

(* The interrupt that stores a byte sets the state main waits for *)
SendRegister(h) ==
  /\ state = "RX"
  /\ Goto(h, "register", IF req[h].kind = "set" THEN "value" ELSE "restart")
  /\ state' = "LISTEN"
  /\ i2cBuf' = [i2cBuf EXCEPT !.register = [kind |-> req[h].kind, cooler |-> req[h].cooler]]
  /\ UNCHANGED <<bpc, I2C_transferRequested, powerVars, flashVars, answer>>

SendValue(h) ==
  /\ state = "RX"
  /\ Goto(h, "value", "stop")
  /\ state' = "LISTEN"
  /\ i2cBuf' = [i2cBuf EXCEPT !.value = Limited(req[h].power)]
  /\ UNCHANGED <<bpc, I2C_transferRequested, powerVars, flashVars, answer>>

(* Bytes that no interrupt takes are acknowledged, too *)
Unheard(h) ==
  /\ state = "MUTE"
  /\ \/ Goto(h, "register", IF req[h].kind = "set" THEN "value" ELSE "restart")
     \/ Goto(h, "value", "stop")
  /\ UNCHANGED <<boardVars, answer>>

(* The address again, to read *)
Restart(h) ==
  /\ Goto(h, "restart", "read")
  /\ Addressed("TX")
  /\ UNCHANGED <<bpc, i2cBuf, powerVars, flashVars, answer>>

Status == IF i2cBuf.register.kind = "get" THEN coolers_pwm[i2cBuf.register.cooler] ELSE Unknown

(* The byte that main has left; the master does not acknowledge it *)
Read(h) ==
  /\ state = "TX"
  /\ Goto(h, "read", "hold")
  /\ answer' = Status
  /\ state' = "READY"
  /\ UNCHANGED <<bpc, I2C_transferRequested, i2cBuf, powerVars, flashVars>>

(* A slave that sends nothing holds the bus; the driver of the master gives up *)
TimedOut(h) ==
  /\ state = "MUTE"
  /\ Goto(h, "read", "error")
  /\ UNCHANGED <<boardVars, answer>>

(* The stop condition, at the end, after the address or after the first byte.  It may
   come before main has seen the state it waits for *)
Stop(h) ==
  /\ \/ Goto(h, "stop", "hold")
     \/ "truncated" \in Faults /\ Goto(h, "register", "error")
     \/ "truncated" \in Faults /\ Goto(h, "value", "error")
     \/ "truncated" \in Faults /\ Goto(h, "restart", "error")
  /\ state' = "READY"
  /\ UNCHANGED <<bpc, I2C_transferRequested, i2cBuf, powerVars, flashVars, answer>>

(* usleep(100000), longer than main takes to write the flash *)
HoldOver(h) ==
  /\ bpc = "boot" \/ Stuck \/ (bpc = "loop" /\ state = "LISTEN")
  /\ Goto(h, "hold", "OK")
  /\ UNCHANGED <<boardVars, answer>>

Unlock(h) ==
  /\ hpc[h] \in {"OK", "error"}
  /\ hpc' = [hpc EXCEPT ![h] = "idle"]
  /\ req' = [req EXCEPT ![h] = NoRequest]
  /\ i2c_mutex' = NoHost
  /\ restarted' = restarted \ {h}
  /\ UNCHANGED <<boardVars, answer>>

Transfer(h) ==
  \/ NotAcknowledged(h)
  \/ Address(h)
  \/ SendRegister(h)
  \/ SendValue(h)
  \/ Unheard(h)
  \/ Restart(h)
  \/ Read(h)
  \/ TimedOut(h)
  \/ Stop(h)
  \/ HoldOver(h)
  \/ Unlock(h)

-----------------------------------------------------------------------------

(* The board is powered up; its flash is new or holds powers *)
Init ==
  /\ bpc = "boot"
  /\ state = "READY"
  /\ I2C_transferRequested = FALSE
  /\ i2cBuf = [register |-> NoRegister, value |-> 0]
  /\ flash \in {[c \in Coolers |-> Erased], [c \in Coolers |-> IF c = "input" THEN 30 ELSE 70]}
  /\ coolers_pwm = [c \in Coolers |-> 0]
  /\ duty = [c \in Coolers |-> 0]
  /\ locked = TRUE
  /\ i2c_mutex = NoHost
  /\ hpc = [h \in Hosts |-> "idle"]
  /\ req = [h \in Hosts |-> NoRequest]
  /\ answer = 0
  /\ unset = Coolers
  /\ restarted = {}

Next ==
  \/ Board
  \/ Watchdog
  \/ PowerFails
  \/ \E h \in Hosts : Receive(h)
  \/ \E h \in Hosts : Transfer(h)

Spec == Init /\ [][Next]_vars

(* Main and the watchdog keep running, and so does a transfer once begun *)
Fairness ==
  /\ WF_vars(Board)
  /\ WF_vars(Watchdog)
  /\ \A h \in Hosts : WF_vars(Transfer(h))

FairSpec == Spec /\ Fairness

-----------------------------------------------------------------------------
(* Properties *)

(* A master whose address was acknowledged is waited for: clearing the last request
   has not cleared its own. *)
NoRequestLost ==
  \A h \in Hosts : hpc[h] = "register" /\ state = "LISTEN" => I2C_transferRequested

(* set_coolers_power that returns OK has the cooler turn at the power it was given, and
   get_coolers_power returns the power at which the cooler turns: nothing of another
   thread's transfer or of one that was broken off is mixed in.  That is so unless the
   board hangs or a reset has come into this very transfer; and a cooler that has not
   been set since the board started stands still, but is reported with the power that
   comes from the flash ("get cooler1 current pwm value", main.c:19, is not true then). *)
OkIsTrue ==
  \A h \in Hosts :
    hpc[h] = "OK" /\ h \notin restarted /\ ~Stuck =>
      LET c == req[h].cooler
      IN  IF req[h].kind = "set"
          THEN duty[c] = Limited(req[h].power)
          ELSE answer = IF c \in unset THEN coolers_pwm[c] ELSE duty[c]

(* Between two requests the flash holds the powers that the board knows, so that a
   reset keeps them, or is erased: a reset in the middle of a write turns a cooler's
   power to 100 but never to that of the other one or to an older one.  (Unless an
   erase has failed; it leaves the flash unlocked.) *)
FlashKept ==
  bpc = "loop" /\ locked => \A c \in Coolers : flash[c] \in {coolers_pwm[c], Erased}

(* Whatever the masters do, the board comes back to listen to them, unless its supply
   fails again and again. *)
BoardListens ==
  []<>(bpc = "loop" /\ state = "LISTEN") \/ []<><<PowerFails>>_vars

=============================================================================
