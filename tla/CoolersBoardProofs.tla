-------------------------- MODULE CoolersBoardProofs --------------------------
(* What is proved of CoolersBoard for every number of threads of the backend, all their
   requests and every choice of faults. *)
EXTENDS BoardService, TLAPS

-----------------------------------------------------------------------------
(* Type correctness *)

(* A thread with a transfer has a request, one that sends a value a power to set; the
   board never holds a value beyond the limit. *)
TypeInv ==
  /\ TypeOK
  /\ i2cBuf.value \in Power
  /\ \A h \in Hosts :
       /\ hpc[h] # "idle" => req[h] \in Requests
       /\ hpc[h] = "value" => req[h] \in SetRequest

(* The requests that name a power *)
LEMMA BoardRequestKinds ==
  \A r \in Requests :
    /\ r.kind \in {"set", "get"}
    /\ r.cooler \in Coolers
    /\ r.kind = "set" => r \in SetRequest /\ r.power \in 0..255
BY BoardAssumption DEF SetRequest, GetRequest

LEMMA LimitedType ==
  /\ \A p \in Nat : Limited(p) \in Power
  /\ \A p \in Power : Limited(p) = p
  /\ Erased \in Nat
BY DEF Limited, Power, Erased

LEMMA BoardInitType == Init => TypeInv
<1> SUFFICES ASSUME Init PROVE TypeInv
  OBVIOUS
<1>1. flash \in [Coolers -> Power \cup {Erased}]
  BY DEF Init, Power
<1>2. coolers_pwm \in [Coolers -> Power] /\ duty \in [Coolers -> Power]
  BY DEF Init, Power
<1>3. i2cBuf \in Registers /\ i2cBuf.value \in Power
  BY DEF Init, Registers, NoRegister, Coolers, Power
<1>4. bpc \in BoardPc /\ state = "READY" /\ i2c_mutex = NoHost /\ answer \in 0..255
  BY DEF Init, BoardPc
<1>5. /\ hpc \in [Hosts -> HostPc] /\ \A h \in Hosts : hpc[h] = "idle"
      /\ req \in [Hosts -> Requests \cup {NoRequest}]
  BY DEF Init, HostPc
<1>6. /\ I2C_transferRequested \in BOOLEAN /\ locked \in BOOLEAN
      /\ unset \subseteq Coolers /\ restarted \subseteq Hosts
  BY Zenon DEF Init
<1> QED
  BY <1>1, <1>2, <1>3, <1>4, <1>5, <1>6 DEF TypeInv, TypeOK

LEMMA ResetType ==
  ASSUME TypeInv, Reset
  PROVE  TypeInv'
<1> USE DEF TypeInv, TypeOK
<1>1. duty' \in [Coolers -> Power]
  BY DEF Reset, Power
<1>2. i2cBuf' \in Registers /\ i2cBuf'.value \in Power
  BY DEF Reset, Registers, NoRegister, Coolers, Power
<1>3. /\ hpc' \in [Hosts -> HostPc]
      /\ \A h \in Hosts : /\ hpc'[h] # "idle" => hpc[h] # "idle"
                          /\ hpc'[h] # "value"
  BY DEF Reset, WithoutBoard, HostPc
<1>4. answer' \in 0..255
  BY DEF Reset, Unknown
<1> QED
  BY <1>1, <1>2, <1>3, <1>4 DEF Reset, BoardPc

LEMMA BoardType ==
  ASSUME TypeInv, Board
  PROVE  TypeInv'
<1> USE DEF TypeInv, TypeOK, BoardPc, slaveVars, powerVars, flashVars, hostVars
<1>1. CASE Boot
  <2>1. coolers_pwm' \in [Coolers -> Power] /\ duty' \in [Coolers -> Power]
    BY <1>1, LimitedType DEF Boot, Power, Erased
  <2> QED
    BY <1>1, <2>1 DEF Boot
<1>2. CASE Loop
  BY <1>2 DEF Loop, Listening
<1>3. CASE SeeRegister
  BY <1>3 DEF SeeRegister
<1>4. CASE Decide
  BY <1>4 DEF Decide
<1>5. CASE SeeValue
  <2>1. i2cBuf' = i2cBuf
    BY <1>5, LimitedType DEF SeeValue, Registers
  <2> QED
    BY <1>5, <2>1 DEF SeeValue
<1>6. CASE SetDuty
  BY <1>6 DEF SetDuty
<1>7. CASE Erase
  BY <1>7 DEF Erase
<1>8. CASE ProgramInput \/ ProgramOutput
  <2>1. flash' \in [Coolers -> Power \cup {Erased}]
    BY <1>8 DEF ProgramInput, ProgramOutput, Program, Coolers
  <2>2. bpc' \in BoardPc
    BY <1>8 DEF ProgramInput, ProgramOutput
  <2>3. locked' \in BOOLEAN
    BY <1>8, Zenon DEF ProgramInput, ProgramOutput
  <2>4. UNCHANGED <<slaveVars, i2cBuf, powerVars, hostVars>>
    BY <1>8 DEF ProgramInput, ProgramOutput, Program
  <2> QED
    BY <2>1, <2>2, <2>3, <2>4
<1>9. CASE SeeSent
  BY <1>9 DEF SeeSent
<1>10. CASE Done
  BY <1>10 DEF Done
<1>11. CASE ListenAgain
  BY <1>11 DEF ListenAgain, Listening
<1> QED
  BY <1>1, <1>2, <1>3, <1>4, <1>5, <1>6, <1>7, <1>8, <1>9, <1>10, <1>11 DEF Board

LEMMA HostType ==
  ASSUME TypeInv, NEW h \in Hosts, Receive(h) \/ Transfer(h)
  PROVE  TypeInv'
<1> USE DEF TypeInv, TypeOK, HostPc, boardVars, slaveVars, powerVars, flashVars
<1>1. CASE Receive(h)
  BY <1>1 DEF Receive
<1>2. CASE \/ NotAcknowledged(h) \/ Address(h) \/ Restart(h) \/ TimedOut(h) \/ Stop(h)
           \/ HoldOver(h)
  <2>1. PICK from \in {"address", "register", "restart", "read", "stop", "value", "hold"},
             to \in {"error", "register", "read", "hold", "OK"} :
          Goto(h, from, to) /\ (to = "register" => from = "address")
    BY <1>2 DEF NotAcknowledged, Address, Restart, TimedOut, Stop, HoldOver
  <2>2. /\ state' \in {"READY", "LISTEN", "RX", "TX", "MUTE"}
        /\ I2C_transferRequested' \in BOOLEAN
        /\ UNCHANGED <<bpc, i2cBuf, powerVars, flashVars, answer>>
    BY <1>2 DEF NotAcknowledged, Address, Addressed, Restart, TimedOut, Stop, HoldOver
  <2> QED
    BY <2>1, <2>2 DEF Goto
<1>3. CASE SendRegister(h)
  <2>1. req[h] \in Requests
    BY <1>3 DEF SendRegister, Goto
  <2>2. i2cBuf' \in Registers /\ i2cBuf'.value \in Power
    BY <1>3, <2>1, BoardRequestKinds DEF SendRegister, Registers
  <2> QED
    BY <1>3, <2>1, <2>2, BoardRequestKinds DEF SendRegister, Goto
<1>4. CASE SendValue(h)
  <2>1. req[h] \in SetRequest
    BY <1>4 DEF SendValue, Goto
  <2>2. Limited(req[h].power) \in Power
    BY <2>1, LimitedType DEF SetRequest
  <2>3. i2cBuf' \in Registers /\ i2cBuf'.value \in Power
    BY <1>4, <2>2 DEF SendValue, Registers, Power
  <2> QED
    BY <1>4, <2>3 DEF SendValue, Goto
<1>5. CASE Read(h)
  <2>1. i2cBuf.register.cooler \in Coolers
    BY DEF Registers, NoRegister, Coolers
  <2>2. answer' \in 0..255
    BY <1>5, <2>1 DEF Read, Status, Unknown, Power
  <2> QED
    BY <1>5, <2>2 DEF Read, Goto
<1>6. CASE Unheard(h)
  <2>1. \/ /\ Goto(h, "register", IF req[h].kind = "set" THEN "value" ELSE "restart")
           /\ req[h] \in Requests
        \/ Goto(h, "value", "stop")
    BY <1>6 DEF Unheard, Goto
  <2> QED
    BY <1>6, <2>1, BoardRequestKinds DEF Unheard, Goto
<1>7. CASE Unlock(h)
  BY <1>7 DEF Unlock
<1> QED
  BY <1>1, <1>2, <1>3, <1>4, <1>5, <1>6, <1>7 DEF Transfer

LEMMA TypeStep ==
  ASSUME TypeInv, [Next]_vars
  PROVE  TypeInv'
<1>1. CASE UNCHANGED vars
  BY <1>1 DEF vars, boardVars, slaveVars, powerVars, flashVars, hostVars, TypeInv, TypeOK
<1> QED
  BY <1>1, ResetType, BoardType, HostType DEF Next, Watchdog, PowerFails

(* Every register, power and section keeps its type; the powers that the board knows
   and its timer produces stay within the limit. *)
THEOREM BoardTypeCorrect == Spec => []TypeOK
<1>1. TypeInv => TypeOK
  BY DEF TypeInv
<1> QED
  BY BoardInitType, TypeStep, <1>1, PTL DEF Spec

-----------------------------------------------------------------------------
(* Where main is while a thread is in the middle of a transfer *)

(* The bus belongs to one thread *)
Exclusive == \A h \in Hosts : hpc[h] # "idle" => i2c_mutex = h

Asked(h) ==
  /\ req[h].kind = i2cBuf.register.kind
  /\ req[h].cooler = i2cBuf.register.cooler

ToSet(h) == Asked(h) /\ req[h].kind = "set"

ToGet(h) == Asked(h) /\ req[h].kind = "get"

ValueSent(h) == ToSet(h) /\ i2cBuf.value = Limited(req[h].power)

(* The request has been carried out *)
Carried(h) ==
  IF req[h].kind = "set"
  THEN duty[req[h].cooler] = Limited(req[h].power)
  ELSE answer = coolers_pwm[req[h].cooler]

AfterDuty == {"erase", "program1", "program2", "done", "listen", "loop"}

(* Main has asked for the register, but an address came after: no byte reaches it *)
Deaf == bpc = "register" /\ state = "MUTE"

InRegister(h) ==
  \/ bpc = "loop" /\ state = "LISTEN" /\ I2C_transferRequested
  \/ bpc = "register" /\ state \in {"RX", "MUTE"}

InValue(h) ==
  \/ Deaf /\ req[h].kind = "set"
  \/ /\ ToSet(h)
     /\ \/ bpc \in {"register", "decide"} /\ state = "LISTEN"
        \/ bpc = "value" /\ state = "RX"

InRestart(h) ==
  \/ Deaf /\ req[h].kind = "get"
  \/ /\ ToGet(h)
     /\ \/ bpc \in {"register", "decide"} /\ state = "LISTEN"
        \/ bpc = "sent" /\ state = "TX"

InRead(h) ==
  \/ Deaf /\ req[h].kind = "get"
  \/ /\ ToGet(h)
     /\ \/ bpc \in {"register", "decide"} /\ state = "LISTEN"
        \/ bpc = "sent" /\ state \in {"TX", "MUTE"}

InStop(h) ==
  /\ req[h].kind = "set"
  /\ \/ Deaf
     \/ bpc \in {"value", "duty"} /\ state = "LISTEN" /\ ValueSent(h)
     \/ bpc \in AfterDuty /\ state = "LISTEN" /\ Carried(h)

(* A reset has come into the transfer, and nothing has been asked since *)
Interrupted(h) == h \in restarted /\ bpc \in {"boot", "loop"}

InHold(h) ==
  \/ Interrupted(h)
  \/ bpc \in {"register", "value"} /\ state = "READY" /\ req[h].kind = "set"
  \/ bpc = "duty" /\ ValueSent(h)
  \/ bpc \in AfterDuty /\ req[h].kind = "set" /\ Carried(h)
  \/ bpc \in {"sent", "done", "listen", "loop"} /\ req[h].kind = "get" /\ Carried(h)

InOK(h) ==
  \/ Interrupted(h)
  \/ bpc = "loop" /\ Carried(h)
  \/ bpc \in {"register", "value"} /\ state = "READY"

InTransfer == {"register", "value", "restart", "read", "stop"}

(* The place of the thread that has the bus tells where main can be *)
Places ==
  \A h \in Hosts :
    /\ hpc[h] = "register" => InRegister(h)
    /\ hpc[h] = "value" => InValue(h)
    /\ hpc[h] = "restart" => InRestart(h)
    /\ hpc[h] = "read" => InRead(h)
    /\ hpc[h] = "stop" => InStop(h)
    /\ hpc[h] = "hold" => InHold(h) /\ (state = "READY" \/ (bpc = "loop" /\ state = "LISTEN"))
    /\ hpc[h] = "OK" => InOK(h)

(* Without a transfer the slave is off, or main is in its loop, or hangs; what main has
   been asked for before it receives the register belongs to no transfer past that *)
Quiet ==
  /\ state \notin {"READY", "LISTEN"} =>
       \/ bpc = "register" /\ state \in {"RX", "MUTE"}
       \/ bpc = "sent" /\ state = "MUTE"
       \/ \E h \in Hosts : hpc[h] \in InTransfer
  /\ state = "LISTEN" /\ bpc # "loop" => \E h \in Hosts : hpc[h] \in InTransfer
  /\ bpc = "loop" => state \in {"READY", "LISTEN"}
  /\ (bpc = "loop" /\ I2C_transferRequested) \/ (bpc = "register" /\ state = "RX") =>
       \A h \in Hosts : hpc[h] \in {"idle", "address", "register", "error"}
  /\ bpc \in {"boot", "listen"} => ~I2C_transferRequested
  /\ bpc = "boot" => state = "READY"

BoardInv == Exclusive /\ Places /\ Quiet

Typed ==
  /\ bpc \in BoardPc
  /\ state \in {"READY", "LISTEN", "RX", "TX", "MUTE"}
  /\ hpc \in [Hosts -> HostPc]
  /\ req \in [Hosts -> Requests \cup {NoRequest}]
  /\ i2c_mutex \in Hosts \cup {NoHost}
  /\ duty \in [Coolers -> Power]
  /\ coolers_pwm \in [Coolers -> Power]
  /\ i2cBuf \in Registers
  /\ i2cBuf.value \in Power
  /\ i2cBuf.register.cooler \in Coolers
  /\ \A h \in Hosts :
       /\ hpc[h] # "idle" => req[h] \in Requests
       /\ hpc[h] = "value" => req[h] \in SetRequest

LEMMA TypeInvTyped == TypeInv => Typed
BY DEF TypeInv, TypeOK, Typed, Registers, NoRegister, Coolers

LEMMA ValueSeen ==
  ASSUME Typed, SeeValue
  PROVE  i2cBuf' = i2cBuf
<1>1. i2cBuf \in Registers /\ Limited(i2cBuf.value) = i2cBuf.value
  BY LimitedType DEF Typed
<1> QED
  BY <1>1 DEF SeeValue, Registers

(* While main works, the threads of the backend stay where they are *)
LEMMA PlacesBoard ==
  ASSUME Typed, BoardInv, Board
  PROVE  BoardInv'
<1>1. Exclusive'
  BY DEF Board, Boot, Loop, SeeRegister, Decide, SeeValue, SetDuty, Erase, ProgramInput,
         ProgramOutput, Program, SeeSent, Done, ListenAgain, hostVars, BoardInv, Exclusive
<1>2. UNCHANGED hostVars
  BY DEF Board, Boot, Loop, SeeRegister, Decide, SeeValue, SetDuty, Erase, ProgramInput,
         ProgramOutput, Program, SeeSent, Done, ListenAgain
<1> USE DEF BoardInv, Quiet, Places, InTransfer, hostVars, InRegister, InValue,
            InRestart, InRead, InStop, InHold, InOK, ValueSent, ToSet, ToGet, Asked, Carried,
            Interrupted, Deaf, AfterDuty
<1>3. Quiet /\ Places
  OBVIOUS
<1>4. \A g, h \in Hosts : hpc[g] # "idle" /\ hpc[h] # "idle" => g = h
  BY DEF Exclusive
<1>5. CASE Boot
  BY <1>1, <1>2, <1>3, <1>5 DEF Boot, slaveVars
<1>6. CASE Loop
  <2>1. CASE I2C_transferRequested
    BY <1>1, <1>2, <1>3, <1>4, <1>6, <2>1 DEF Loop, Listening, powerVars
  <2>2. CASE ~I2C_transferRequested
    BY <1>1, <1>2, <1>3, <1>6, <2>2 DEF Loop, Listening, powerVars
  <2> QED
    BY <2>1, <2>2
<1>7. CASE SeeRegister
  BY <1>1, <1>2, <1>3, <1>7 DEF SeeRegister, slaveVars, powerVars
<1>8. CASE Decide
  BY <1>1, <1>2, <1>3, <1>8 DEF Decide, powerVars
<1>9. CASE SeeValue
  <2>1. i2cBuf' = i2cBuf
    BY <1>9, ValueSeen
  <2>2. bpc = "value" /\ state = "LISTEN" /\ bpc' = "duty" /\ UNCHANGED <<slaveVars, powerVars>>
    BY <1>9 DEF SeeValue
  <2>3. Places'
    BY <1>2, <1>3, <2>1, <2>2 DEF slaveVars, powerVars
  <2>4. Quiet'
    BY <1>2, <1>3, <2>2 DEF slaveVars
  <2> QED
    BY <1>1, <2>3, <2>4
<1>10. CASE SetDuty
  BY <1>1, <1>2, <1>3, <1>10 DEF SetDuty, slaveVars, Typed
<1>11. CASE Erase
  BY <1>1, <1>2, <1>3, <1>11 DEF Erase, slaveVars, powerVars
<1>12. CASE ProgramInput
  BY <1>1, <1>2, <1>3, <1>12 DEF ProgramInput, Program, slaveVars, powerVars
<1>13. CASE ProgramOutput
  BY <1>1, <1>2, <1>3, <1>13 DEF ProgramOutput, Program, slaveVars, powerVars
<1>14. CASE SeeSent
  BY <1>1, <1>2, <1>3, <1>14 DEF SeeSent, slaveVars, powerVars
<1>15. CASE Done
  BY <1>1, <1>2, <1>3, <1>4, <1>15 DEF Done, powerVars
<1>16. CASE ListenAgain
  BY <1>1, <1>2, <1>3, <1>16 DEF ListenAgain, Listening, powerVars
<1> QED
  BY <1>1, <1>5, <1>6, <1>7, <1>8, <1>9, <1>10, <1>11, <1>12, <1>13, <1>14, <1>15, <1>16
  DEF Board, BoardInv

LEMMA PlacesReset ==
  ASSUME Typed, BoardInv, Reset
  PROVE  BoardInv'
<1>1. \A h \in Hosts : hpc'[h] = WithoutBoard(hpc[h])
  BY DEF Reset, Typed
<1>2. bpc' = "boot" /\ state' = "READY" /\ ~I2C_transferRequested' /\ i2c_mutex' = i2c_mutex
  BY DEF Reset
<1>3. Exclusive'
  BY <1>1, <1>2 DEF BoardInv, Exclusive, WithoutBoard
<1>4. Places'
  <2>1. \A h \in Hosts : hpc'[h] \in {"hold", "OK"} => h \in restarted'
    BY <1>1 DEF Reset, WithoutBoard
  <2> QED
    BY <1>1, <1>2, <2>1 DEF Places, WithoutBoard, InHold, InOK, Interrupted
<1>5. Quiet'
  BY <1>2 DEF Quiet
<1> QED
  BY <1>3, <1>4, <1>5 DEF BoardInv

(* A step of one thread: the others are idle *)
LEMMA PlacesHost ==
  ASSUME Typed, BoardInv, NEW h \in Hosts, Receive(h) \/ Transfer(h)
  PROVE  BoardInv'
<1> DEFINE to == hpc'[h]
<1>1. /\ hpc' = [hpc EXCEPT ![h] = to]
      /\ \A g \in Hosts \ {h} : hpc[g] = "idle"
      /\ i2c_mutex' = IF to = "idle" THEN NoHost ELSE h
  BY BoardAssumption
  DEF Receive, Transfer, NotAcknowledged, Address, SendRegister, SendValue, Unheard,
      Restart, Read, TimedOut, Stop, HoldOver, Unlock, Goto, BoardInv, Exclusive, Typed
<1>2. \A g \in Hosts \ {h} : hpc'[g] = "idle"
  BY <1>1 DEF Typed
<1>3. Exclusive'
  BY <1>1, <1>2 DEF Exclusive
<1>4. UNCHANGED <<bpc, coolers_pwm, duty>>
  BY DEF Receive, Transfer, NotAcknowledged, Address, SendRegister, SendValue, Unheard,
         Restart, Read, TimedOut, Stop, HoldOver, Unlock, boardVars, powerVars
<1>5. Quiet /\ Places
  BY DEF BoardInv
<1> USE DEF Quiet, Places, InTransfer, InRegister, InValue,
            InRestart, InRead, InStop, InHold, InOK, ValueSent, ToSet, ToGet, Asked, Carried,
            Interrupted, Deaf, AfterDuty
<1>6. CASE Receive(h)
  <2>1. to = "address" /\ hpc[h] = "idle" /\ UNCHANGED <<state, I2C_transferRequested>>
    BY <1>6 DEF Receive, boardVars, slaveVars, Typed
  <2>2. Places'
    BY <1>2, <2>1
  <2>3. Quiet'
    BY <1>1, <1>2, <1>4, <1>5, <2>1
  <2> QED
    BY <1>3, <2>2, <2>3 DEF BoardInv
<1>7. CASE NotAcknowledged(h)
  <2>1. to = "error" /\ hpc[h] = "address" /\ UNCHANGED <<state, I2C_transferRequested>>
    BY <1>7 DEF NotAcknowledged, Goto, boardVars, slaveVars, Typed
  <2>2. Places'
    BY <1>2, <2>1
  <2>3. Quiet'
    BY <1>1, <1>2, <1>4, <1>5, <2>1
  <2> QED
    BY <1>3, <2>2, <2>3 DEF BoardInv
<1>8. CASE Address(h)
  <2>1. /\ to = "register" /\ hpc[h] = "address" /\ state \notin {"READY", "MUTE"}
        /\ state' = (IF state = "RX" THEN "MUTE" ELSE state) /\ I2C_transferRequested'
    BY <1>8 DEF Address, Addressed, Answers, Goto, Typed
  <2>2. (bpc = "loop" /\ state = "LISTEN") \/ (bpc = "register" /\ state = "RX")
    BY <1>1, <1>5, <2>1 DEF Typed
  <2> QED
    BY <1>2, <1>3, <1>4, <2>1, <2>2 DEF BoardInv
<1>9. CASE SendRegister(h)
  <2>1. /\ hpc[h] = "register" /\ to = IF req[h].kind = "set" THEN "value" ELSE "restart"
        /\ state' = "LISTEN" /\ state = "RX" /\ req' = req
        /\ i2cBuf'.register = [kind |-> req[h].kind, cooler |-> req[h].cooler]
    BY <1>9 DEF SendRegister, Goto, Typed, Registers
  <2>2. bpc = "register" /\ req[h].kind \in {"set", "get"}
    BY <1>5, <2>1, BoardRequestKinds DEF Typed
  <2> QED
    BY <1>2, <1>3, <1>4, <2>1, <2>2 DEF BoardInv
<1>10. CASE SendValue(h)
  <2>1. /\ hpc[h] = "value" /\ to = "stop" /\ state' = "LISTEN" /\ state = "RX" /\ req' = req
        /\ i2cBuf'.register = i2cBuf.register
        /\ i2cBuf'.value = Limited(req[h].power)
    BY <1>10 DEF SendValue, Goto, Typed, Registers
  <2>2. bpc = "value" /\ ToSet(h)
    BY <1>5, <2>1
  <2> QED
    BY <1>2, <1>3, <1>4, <2>1, <2>2 DEF BoardInv
<1>11. CASE Restart(h)
  <2>1. /\ hpc[h] = "restart" /\ to = "read" /\ req' = req /\ i2cBuf' = i2cBuf
        /\ state' = IF state = "TX" THEN "MUTE" ELSE state
    BY <1>11 DEF Restart, Addressed, Goto, Typed
  <2>2. InRestart(h)
    BY <1>5, <2>1
  <2> QED
    BY <1>2, <1>3, <1>4, <2>1, <2>2 DEF BoardInv
<1>12. CASE Read(h)
  <2>1. /\ hpc[h] = "read" /\ to = "hold" /\ req' = req /\ i2cBuf' = i2cBuf
        /\ state = "TX" /\ state' = "READY" /\ answer' = Status
    BY <1>12 DEF Read, Goto, Typed
  <2>2. bpc = "sent" /\ ToGet(h)
    BY <1>5, <2>1
  <2>3. answer' = coolers_pwm[req[h].cooler]
    BY <2>1, <2>2 DEF Status
  <2> QED
    BY <1>2, <1>3, <1>4, <2>1, <2>2, <2>3 DEF BoardInv
<1>13. CASE Stop(h)
  <2>1. /\ req' = req /\ i2cBuf' = i2cBuf /\ answer' = answer /\ state' = "READY"
        /\ restarted' = restarted
        /\ I2C_transferRequested' = I2C_transferRequested
        /\ \/ hpc[h] = "stop" /\ to = "hold"
           \/ hpc[h] \in {"register", "value", "restart"} /\ to = "error"
    BY <1>13 DEF Stop, Goto, Typed
  <2>2. Quiet'
    BY <1>1, <1>2, <1>4, <1>5, <2>1
  <2>3. CASE hpc[h] = "stop" /\ to = "hold"
    BY <1>2, <1>3, <1>4, <1>5, <2>1, <2>2, <2>3 DEF BoardInv
  <2>4. CASE to = "error"
    BY <1>2, <1>3, <2>2, <2>4 DEF BoardInv
  <2> QED
    BY <2>1, <2>3, <2>4
<1>14. CASE HoldOver(h)
  <2>1. /\ hpc[h] = "hold" /\ to = "OK" /\ req' = req /\ i2cBuf' = i2cBuf /\ answer' = answer
        /\ restarted' = restarted
        /\ UNCHANGED <<state, I2C_transferRequested>>
        /\ bpc = "boot" \/ Stuck \/ (bpc = "loop" /\ state = "LISTEN")
    BY <1>14 DEF HoldOver, Goto, boardVars, slaveVars, Typed
  <2>2. Quiet'
    BY <1>1, <1>2, <1>4, <1>5, <2>1
  <2>3. InOK(h)
    BY <1>5, <2>1 DEF Stuck, Abandoned
  <2> QED
    BY <1>2, <1>3, <1>4, <2>1, <2>2, <2>3 DEF BoardInv
<1>15. CASE Unlock(h)
  <2>1. to = "idle" /\ hpc[h] \in {"OK", "error"} /\ UNCHANGED <<state, I2C_transferRequested>>
    BY <1>15 DEF Unlock, boardVars, slaveVars, Typed
  <2>2. Places'
    BY <1>2, <2>1
  <2>3. Quiet'
    BY <1>1, <1>2, <1>4, <1>5, <2>1
  <2> QED
    BY <1>3, <2>2, <2>3 DEF BoardInv
<1>16. CASE Unheard(h)
  <2>1. /\ state = "MUTE" /\ req' = req /\ i2cBuf' = i2cBuf
        /\ UNCHANGED <<state, I2C_transferRequested>>
        /\ \/ /\ hpc[h] = "register"
              /\ to = IF req[h].kind = "set" THEN "value" ELSE "restart"
           \/ hpc[h] = "value" /\ to = "stop"
    BY <1>16 DEF Unheard, Goto, boardVars, slaveVars, Typed
  <2>2. bpc = "register" /\ req[h].kind \in {"set", "get"}
    BY <1>5, <2>1, BoardRequestKinds DEF Typed
  <2> QED
    BY <1>2, <1>3, <1>4, <1>5, <2>1, <2>2 DEF BoardInv
<1>17. CASE TimedOut(h)
  <2>1. /\ hpc[h] = "read" /\ to = "error" /\ state = "MUTE"
        /\ UNCHANGED <<state, I2C_transferRequested>>
    BY <1>17 DEF TimedOut, Goto, boardVars, slaveVars, Typed
  <2>2. Places'
    BY <1>2, <2>1
  <2>3. Quiet'
    BY <1>1, <1>2, <1>4, <1>5, <2>1
  <2> QED
    BY <1>3, <2>2, <2>3 DEF BoardInv
<1> QED
  BY <1>6, <1>7, <1>8, <1>9, <1>10, <1>11, <1>12, <1>13, <1>14, <1>15, <1>16, <1>17 DEF Transfer

LEMMA BoardInvStep ==
  ASSUME TypeInv, BoardInv, [Next]_vars
  PROVE  BoardInv'
<1>1. CASE UNCHANGED vars
  BY <1>1 DEF vars, boardVars, slaveVars, powerVars, hostVars, BoardInv, Exclusive, Places, Quiet,
              InRegister, InValue, InRestart, InRead, InStop, InHold, InOK, ValueSent, ToSet,
              ToGet, Asked, Carried, Interrupted, Deaf
<1> QED
  BY <1>1, TypeInvTyped, PlacesBoard, PlacesReset, PlacesHost DEF Next, Watchdog, PowerFails

LEMMA BoardInvInit == Init => BoardInv
BY DEF Init, BoardInv, Exclusive, Places, Quiet

(* Clearing the request of one transfer never clears that of the next: main is back in
   its loop, with nothing asked, before an address can be acknowledged again. *)
THEOREM NoRequestEverLost == Spec => []NoRequestLost
<1>1. BoardInv => NoRequestLost
  BY DEF BoardInv, Places, InRegister, NoRequestLost
<1> QED
  BY BoardInitType, TypeStep, BoardInvInit, BoardInvStep, <1>1, PTL DEF Spec

(* A cooler that has been set since the board started turns at the power that the board
   knows *)
Known ==
  /\ bpc = "boot" => unset = Coolers
  /\ \A c \in Coolers \ unset : duty[c] = coolers_pwm[c]

LEMMA KnownStep ==
  ASSUME TypeInv, Known, [Next]_vars
  PROVE  Known'
<1> USE DEF Known, slaveVars, powerVars, flashVars, hostVars, boardVars
<1>1. CASE Boot
  BY <1>1 DEF Boot
<1>2. CASE SetDuty
  <2>1. duty \in [Coolers -> Power] /\ coolers_pwm \in [Coolers -> Power]
    BY DEF TypeInv, TypeOK
  <2> QED
    BY <1>2, <2>1 DEF SetDuty
<1>3. CASE Board /\ ~Boot /\ ~SetDuty
  BY <1>3 DEF Board, Loop, SeeRegister, Decide, SeeValue, Erase, ProgramInput, ProgramOutput,
              Program, SeeSent, Done, ListenAgain
<1>4. CASE Reset
  BY <1>4 DEF Reset
<1>5. ASSUME NEW h \in Hosts, Receive(h) \/ Transfer(h) PROVE Known'
  BY <1>5 DEF Receive, Transfer, NotAcknowledged, Address, SendRegister, SendValue, Unheard,
              Restart, Read, TimedOut, Stop, HoldOver, Unlock
<1>6. CASE UNCHANGED vars
  BY <1>6 DEF vars
<1> QED
  BY <1>1, <1>2, <1>3, <1>4, <1>5, <1>6 DEF Next, Watchdog, PowerFails

(* An OK to a thread of the backend is true of the cooler it asked about, unless the
   board hangs or a reset has come into the transfer: nothing of another thread's
   transfer or of one that was broken off is mixed in.  A power that was read is the one
   the cooler turns at if the board has set it since it started. *)
THEOREM OkIsAlwaysTrue == Spec => []OkIsTrue
<1>1. Init => Known
  BY DEF Init, Known
<1>2. TypeInv /\ BoardInv /\ Known => OkIsTrue
  <2>1. SUFFICES ASSUME Typed, Places, Known,
                        NEW h \in Hosts, hpc[h] = "OK", h \notin restarted, ~Stuck
                 PROVE  IF req[h].kind = "set"
                        THEN duty[req[h].cooler] = Limited(req[h].power)
                        ELSE answer = IF req[h].cooler \in unset
                                      THEN coolers_pwm[req[h].cooler] ELSE duty[req[h].cooler]
    BY TypeInvTyped DEF OkIsTrue, BoardInv
  <2>2. Carried(h)
    BY <2>1 DEF Places, InOK, Interrupted, Stuck
  <2>3. req[h].cooler \in Coolers
    BY <2>1, BoardRequestKinds DEF Typed
  <2> QED
    BY <2>1, <2>2, <2>3 DEF Carried, Known
<1> QED
  BY BoardInitType, TypeStep, BoardInvInit, BoardInvStep, <1>1, KnownStep, <1>2, PTL DEF Spec

-----------------------------------------------------------------------------
(* The flash *)

Kept(c) == flash[c] \in {coolers_pwm[c], Erased}

FlashInv ==
  /\ bpc \notin {"boot", "erase", "program1", "program2"} /\ locked => \A c \in Coolers : Kept(c)
  /\ bpc = "program1" => \A c \in Coolers : flash[c] = Erased
  /\ bpc = "program2" => Kept("input") /\ flash["output"] = Erased

LEMMA FlashStep ==
  ASSUME TypeInv, FlashInv, [Next]_vars
  PROVE  FlashInv'
<1> USE DEF FlashInv, Kept, slaveVars, powerVars, flashVars, hostVars, boardVars
<1>1. flash \in [Coolers -> Power \cup {Erased}] /\ coolers_pwm \in [Coolers -> Power]
  BY DEF TypeInv, TypeOK
<1>2. CASE Boot
  <2>1. \A c \in Coolers : Limited(flash[c]) = flash[c] \/ flash[c] = Erased
    BY <1>1, LimitedType
  <2> QED
    BY <1>2, <2>1 DEF Boot
<1>3. CASE Loop \/ SeeRegister \/ Decide \/ SeeValue \/ SeeSent \/ Done \/ ListenAgain
  BY <1>3 DEF Loop, SeeRegister, Decide, SeeValue, SeeSent, Done, ListenAgain
<1>4. CASE SetDuty
  BY <1>4 DEF SetDuty
<1>5. CASE Erase
  BY <1>5 DEF Erase
<1>6. CASE ProgramInput
  BY <1>1, <1>6 DEF ProgramInput, Program, Coolers
<1>7. CASE ProgramOutput
  BY <1>1, <1>7 DEF ProgramOutput, Program, Coolers
<1>8. CASE Reset
  BY <1>8 DEF Reset
<1>9. ASSUME NEW h \in Hosts, Receive(h) \/ Transfer(h) PROVE FlashInv'
  BY <1>9 DEF Receive, Transfer, NotAcknowledged, Address, SendRegister, SendValue, Unheard,
              Restart, Read, TimedOut, Stop, HoldOver, Unlock
<1>10. CASE UNCHANGED vars
  BY <1>10 DEF vars
<1> QED
  BY <1>2, <1>3, <1>4, <1>5, <1>6, <1>7, <1>8, <1>9, <1>10 DEF Next, Board, Watchdog, PowerFails

(* Whenever main is back in its loop and no erase has failed, each word of the flash is
   the power that the board knows or erased, for every interleaving and over resets in
   the middle of a write. *)
THEOREM FlashAlwaysKept == Spec => []FlashKept
<1>1. Init => FlashInv
  BY DEF Init, FlashInv
<1>2. FlashInv => FlashKept
  BY DEF FlashInv, FlashKept, Kept
<1> QED
  BY BoardInitType, TypeStep, <1>1, FlashStep, <1>2, PTL DEF Spec

-----------------------------------------------------------------------------
(* The board as one step *)

(* The value that main takes to the timer belongs to the thread that has sent it *)
DutyOwed == bpc = "duty" => \E h \in Hosts : hpc[h] \in {"stop", "hold"}

FlashTyped == flash \in [Coolers -> Power \cup {Erased}]

ServiceInv == Typed /\ FlashTyped /\ BoardInv /\ DutyOwed

LEMMA DutyOwedStep ==
  ASSUME Typed, BoardInv, DutyOwed, [Next]_vars
  PROVE  DutyOwed'
<1> USE DEF DutyOwed
<1>1. CASE SeeValue
  <2>1. PICK h \in Hosts : hpc[h] \in InTransfer
    BY <1>1 DEF SeeValue, BoardInv, Quiet
  <2>2. hpc[h] = "stop"
    BY <1>1, <2>1 DEF SeeValue, BoardInv, Places, InTransfer, InRegister, InValue,
                          InRestart, InRead, Deaf
  <2> QED
    BY <1>1, <2>2 DEF SeeValue, hostVars
<1>2. CASE Reset
  BY <1>2 DEF Reset
<1>3. CASE Board /\ ~SeeValue
  BY <1>3 DEF Board, Boot, Loop, SeeRegister, Decide, SetDuty, Erase, ProgramInput, ProgramOutput,
              SeeSent, Done, ListenAgain
<1>4. ASSUME NEW h \in Hosts, Receive(h) \/ Transfer(h) PROVE DutyOwed'
  <2>1. SUFFICES ASSUME bpc = "duty", NEW g \in Hosts, hpc[g] \in {"stop", "hold"}
                 PROVE  DutyOwed'
    BY <1>4 DEF Receive, Transfer, NotAcknowledged, Address, SendRegister, SendValue, Unheard,
                Restart, Read, TimedOut, Stop, HoldOver, Unlock, boardVars
  <2>2. hpc'[g] \in {"stop", "hold"}
    BY <1>4, <2>1 DEF Receive, Transfer, NotAcknowledged, Address, SendRegister, SendValue, Unheard,
                      Restart, Read, TimedOut, Stop, HoldOver, Unlock, Goto, Typed, Stuck, Abandoned
  <2> QED
    BY <2>2
<1>5. CASE UNCHANGED vars
  BY <1>5 DEF vars, boardVars, hostVars
<1> QED
  BY <1>1, <1>2, <1>3, <1>4, <1>5 DEF Next, Watchdog, PowerFails

(* What the service sees of the clients *)
Clients == [h \in Hosts |-> ClientState(h)]

Replies == [h \in Hosts |-> Reply(h)]

LEMMA OnlyOneBusy ==
  ASSUME ServiceInv
  PROVE  \A g, h \in Hosts : hpc[g] # "idle" /\ hpc[h] # "idle" => g = h
BY DEF ServiceInv, BoardInv, Exclusive

(* In a step of one thread the others are idle, and look so *)
LEMMA OneClient ==
  ASSUME ServiceInv, NEW h \in Hosts, Receive(h) \/ Transfer(h)
  PROVE  /\ Clients' = [Clients EXCEPT ![h] = ClientState(h)']
         /\ Replies' = [Replies EXCEPT ![h] = Reply(h)']
<1>1. /\ \A g \in Hosts \ {h} : hpc[g] = "idle"
      /\ hpc' = [hpc EXCEPT ![h] = hpc'[h]]
  BY BoardAssumption
  DEF Receive, Transfer, NotAcknowledged, Address, SendRegister, SendValue, Unheard,
      Restart, Read, TimedOut, Stop, HoldOver, Unlock, Goto, ServiceInv, BoardInv, Exclusive, Typed
<1>2. \A g \in Hosts \ {h} : hpc'[g] = "idle"
  BY <1>1 DEF ServiceInv, Typed
<1>3. \A g \in Hosts \ {h} : ClientState(g)' = ClientState(g) /\ Reply(g)' = Reply(g)
  BY <1>1, <1>2 DEF ClientState, Pending, Reply
<1> QED
  BY <1>3 DEF Clients, Replies

(* A step after which every client looks as before *)
LEMMA SameClients ==
  ASSUME \A h \in Hosts : ClientState(h)' = ClientState(h) /\ Reply(h)' = Reply(h)
  PROVE  Clients' = Clients /\ Replies' = Replies
BY DEF Clients, Replies

(* Main takes no step that a client could see, but one: it sets the timer *)
LEMMA ServiceBoard ==
  ASSUME ServiceInv, Board
  PROVE  [Service!Next]_(Service!vars)
<1>1. UNCHANGED hostVars
  BY DEF Board, Boot, Loop, SeeRegister, Decide, SeeValue, SetDuty, Erase, ProgramInput,
         ProgramOutput, Program, SeeSent, Done, ListenAgain
<1>2. Replies' = Replies
  BY <1>1 DEF Replies, Reply, hostVars
<1>3. Typed /\ FlashTyped /\ Places /\ Quiet
  BY DEF ServiceInv, BoardInv
<1>4. CASE SetDuty
  <2>1. PICK h \in Hosts : hpc[h] \in {"stop", "hold"}
    BY <1>4 DEF SetDuty, ServiceInv, DutyOwed
  <2>2. ValueSent(h) /\ req[h].kind = "set"
    BY <1>3, <1>4, <2>1
         DEF SetDuty, Places, InStop, InHold, Deaf, Interrupted, AfterDuty, ValueSent, ToSet
  <2>3. /\ bpc = "duty" /\ bpc' = "erase" /\ UNCHANGED <<state, hpc, req>>
        /\ duty' = [duty EXCEPT ![req[h].cooler] = Limited(req[h].power)]
        /\ coolers_pwm' = [coolers_pwm EXCEPT ![req[h].cooler] = Limited(req[h].power)]
    BY <1>1, <1>4, <2>2 DEF SetDuty, slaveVars, hostVars, ValueSent, ToSet, Asked
  <2>4. ClientState(h) = "asked" /\ ClientState(h)' = "done"
    BY <2>1, <2>2, <2>3 DEF ClientState, Pending
  <2>5. \A g \in Hosts \ {h} : hpc[g] = "idle"
    BY <2>1, OnlyOneBusy
  <2>6. Clients' = [Clients EXCEPT ![h] = "done"]
    BY <2>3, <2>4, <2>5 DEF Clients, ClientState, Pending
  <2>7. BoardState = "up" /\ BoardState' = "up"
    BY <2>3 DEF BoardState, Stuck, Abandoned
  <2>8. Service!Set(h)
    BY <1>2, <2>2, <2>3, <2>4, <2>6, <2>7
    DEF Service!Set, Service!Granted, Limited, Clients, Replies
  <2> QED
    BY <2>8 DEF Service!Next
<1>5. CASE Boot
  <2>1. Clients' = Clients
    BY <1>1, <1>5 DEF Boot, Clients, ClientState, Pending, hostVars
  <2>2. /\ BoardState = "down" /\ BoardState' = "up"
        /\ duty' = [c \in Coolers |-> 0] /\ req' = req
    BY <1>1, <1>5 DEF Boot, BoardState, Stuck, Abandoned, hostVars
  <2>3. coolers_pwm' \in [Coolers -> 0..100]
    BY <1>3, <1>5, LimitedType DEF Boot, Power, Typed, FlashTyped, Erased
  <2>4. Service!Start
    BY <1>2, <2>1, <2>2, <2>3
    DEF Service!Start, Service!Powers, Service!Still, Clients, Replies
  <2> QED
    BY <2>4 DEF Service!Next
<1>6. CASE Board /\ ~SetDuty /\ ~Boot
  <2>1. UNCHANGED powerVars /\ bpc # "duty" /\ bpc' # "boot" /\ bpc # "boot"
    BY <1>6 DEF Board, Loop, SeeRegister, Decide, SeeValue, Erase, ProgramInput, ProgramOutput,
                Program, SeeSent, Done, ListenAgain
  <2>2. Clients' = Clients
    <3>1. \/ bpc \in {"register", "value", "duty"} <=> bpc' \in {"register", "value", "duty"}
          \/ \A h \in Hosts : hpc[h] \notin {"stop", "hold"}
      <4>1. CASE Decide
        BY <1>3, <4>1 DEF Decide, Places, InStop, InHold, Deaf, Interrupted, AfterDuty
      <4>2. CASE SeeValue
        BY <4>2 DEF SeeValue
      <4>3. CASE SeeRegister
        BY <1>3, <4>3 DEF SeeRegister, Places, InStop, InHold, Deaf, Interrupted, AfterDuty
      <4>4. CASE Loop
        BY <1>3, <4>4 DEF Loop, Quiet
      <4> QED
        BY <1>6, <4>1, <4>2, <4>3, <4>4 DEF Board, Erase, ProgramInput,
                ProgramOutput, Program, SeeSent, Done, ListenAgain
    <3> QED
      BY <1>1, <3>1 DEF Clients, ClientState, Pending, hostVars
  <2>3. BoardState' = BoardState \/ (BoardState = "up" /\ BoardState' = "hangs")
    BY <2>1, <1>6 DEF Board, Loop, Listening, SeeRegister, Decide, SeeValue, Erase, ProgramInput,
             ProgramOutput, Program, SeeSent, Done, ListenAgain, BoardState, Stuck, Abandoned, slaveVars
  <2>4. UNCHANGED <<duty, coolers_pwm, req, Clients, Replies>>
    BY <1>1, <1>2, <2>1, <2>2 DEF powerVars, hostVars
  <2> QED
    BY <2>3, <2>4 DEF Service!Next, Service!Hang, Service!vars, Clients, Replies
<1> QED
  BY <1>4, <1>5, <1>6

LEMMA ServiceReset ==
  ASSUME ServiceInv, Reset, bpc # "boot"
  PROVE  Service!Next
<1> DEFINE end == [h \in Hosts |-> IF hpc[h] \in {"register", "value", "restart"} THEN "error"
                                   ELSE IF hpc[h] = "address" THEN "asked" ELSE "done"]
<1>1. /\ \A h \in Hosts : hpc'[h] = WithoutBoard(hpc[h]) /\ hpc[h] \in HostPc
      /\ bpc' = "boot" /\ req' = req /\ coolers_pwm' = coolers_pwm
      /\ duty' = [c \in Coolers |-> 0]
      /\ answer' = IF \E h \in Hosts : hpc[h] = "read" THEN Unknown ELSE answer
  BY DEF Reset, ServiceInv, Typed
<1>2. BoardState # "down" /\ BoardState' = "down"
  BY <1>1 DEF BoardState
<1>3. end \in [Hosts -> {"asked", "done", "error"}]
  OBVIOUS
<1>4. ASSUME NEW h \in Hosts
      PROVE  ClientState(h)' = IF ClientState(h) = "asked" THEN end[h] ELSE ClientState(h)
  BY <1>1 DEF ClientState, Pending, WithoutBoard, HostPc
<1>5. ASSUME NEW h \in Hosts
      PROVE  Reply(h)' = IF ClientState(h) = "asked" /\ end[h] = "done" /\ req[h].kind = "get"
                         THEN 255 ELSE Reply(h)
  <2>1. CASE hpc[h] = "read"
    BY <1>1, <2>1 DEF ClientState, Pending, Reply, WithoutBoard, Unknown
  <2>2. CASE hpc[h] \in {"hold", "OK"}
    <3>1. answer' = answer
      BY <1>1, <2>2, OnlyOneBusy
    <3> QED
      BY <1>1, <2>2, <3>1 DEF ClientState, Pending, Reply, WithoutBoard
  <2>3. CASE hpc[h] = "stop"
    <3>1. req[h].kind = "set"
      BY <2>3 DEF ServiceInv, BoardInv, Places, InStop
    <3> QED
      BY <1>1, <2>3, <3>1 DEF ClientState, Pending, Reply, WithoutBoard
  <2>4. CASE hpc[h] \in {"idle", "address", "register", "value", "restart", "error"}
    BY <1>1, <2>4 DEF ClientState, Pending, Reply, WithoutBoard
  <2> QED
    BY <1>1, <2>1, <2>2, <2>3, <2>4 DEF HostPc
<1>6. Service!Reset
  <2>1. Clients' = [h \in Hosts |-> IF Clients[h] = "asked" THEN end[h] ELSE Clients[h]]
    BY <1>4 DEF Clients
  <2>2. Replies' = [h \in Hosts |->
                      IF Clients[h] = "asked" /\ end[h] = "done" /\ req[h].kind = "get"
                      THEN 255 ELSE Replies[h]]
    BY <1>5 DEF Clients, Replies
  <2> HIDE DEF end
  <2> QED
    BY <1>1, <1>2, <1>3, <2>1, <2>2 DEF Service!Reset, Service!Still, Clients, Replies
<1> QED
  BY <1>6 DEF Service!Next

LEMMA ServiceHost ==
  ASSUME ServiceInv, NEW h \in Hosts, Receive(h) \/ Transfer(h)
  PROVE  [Service!Next]_(Service!vars)
<1>1. /\ Clients' = [Clients EXCEPT ![h] = ClientState(h)']
      /\ Replies' = [Replies EXCEPT ![h] = Reply(h)']
  BY OneClient
<1>2. UNCHANGED <<bpc, coolers_pwm, duty>>
  BY DEF Receive, Transfer, NotAcknowledged, Address, SendRegister, SendValue, Unheard,
         Restart, Read, TimedOut, Stop, HoldOver, Unlock, boardVars, powerVars
<1>3. /\ Typed /\ Places
      /\ Clients[h] = ClientState(h) /\ Replies[h] = Reply(h)
  BY DEF ServiceInv, BoardInv, Clients, Replies
<1>4. ASSUME ClientState(h)' = ClientState(h) PROVE Clients' = Clients
  BY <1>1, <1>3, <1>4 DEF Clients
<1>5. ASSUME Reply(h)' = Reply(h) PROVE Replies' = Replies
  BY <1>1, <1>3, <1>5 DEF Replies
<1> USE DEF Typed
<1>a. ASSUME state' = state, hpc[h] = "register" <=> hpc'[h] = "register"
      PROVE  BoardState' = BoardState
  <2>1. hpc' = [hpc EXCEPT ![h] = hpc'[h]]
    BY <1>3 DEF Receive, Transfer, NotAcknowledged, Address, SendRegister, SendValue, Unheard,
                Restart, Read, TimedOut, Stop, HoldOver, Unlock, Goto
  <2> QED
    BY <1>2, <1>3, <1>a, <2>1 DEF BoardState, Stuck, Abandoned
<1>6. CASE Receive(h)
  <2>1. /\ hpc[h] = "idle" /\ hpc'[h] = "address" /\ state' = state
        /\ \E r \in Requests : req' = [req EXCEPT ![h] = r]
    BY <1>3, <1>6 DEF Receive, boardVars, slaveVars
  <2>2. ClientState(h) = "idle" /\ ClientState(h)' = "asked" /\ Reply(h)' = Reply(h)
    BY <2>1 DEF ClientState, Pending, Reply
  <2>3. BoardState' = BoardState
    BY <1>a, <2>1
  <2>4. Service!Ask(h)
    BY <1>1, <1>2, <1>3, <1>5, <2>1, <2>2, <2>3 DEF Service!Ask, Clients, Replies
  <2> QED
    BY <2>4 DEF Service!Next
<1>7. CASE NotAcknowledged(h)
  <2>1. hpc[h] = "address" /\ hpc'[h] = "error" /\ state' = state /\ req' = req
    BY <1>3, <1>7 DEF NotAcknowledged, Goto, boardVars, slaveVars
  <2>2. ClientState(h) = "asked" /\ ClientState(h)' = "error" /\ Reply(h)' = Reply(h)
    BY <2>1 DEF ClientState, Pending, Reply
  <2>3. BoardState' = BoardState
    BY <1>a, <2>1
  <2>4. Service!Refuse(h)
    BY <1>1, <1>2, <1>3, <1>5, <2>1, <2>2, <2>3
    DEF Service!Refuse, Service!MayHang, Clients, Replies
  <2> QED
    BY <2>4 DEF Service!Next
<1>8. CASE Address(h) \/ SendRegister(h) \/ SendValue(h) \/ Restart(h)
  <2>1. /\ hpc[h] \in {"address", "register", "value", "restart"}
        /\ hpc'[h] \in {"register", "value", "restart", "stop", "read"}
        /\ hpc'[h] = "stop" => hpc[h] = "value" /\ state = "RX"
        /\ req' = req
    BY <1>3, <1>8 DEF Address, SendRegister, SendValue, Restart, Goto
  <2>2. hpc'[h] = "stop" => bpc = "value" /\ req[h].kind = "set"
    BY <1>3, <2>1 DEF Places, InValue, ToSet, Deaf
  <2>3. ClientState(h) = "asked" /\ ClientState(h)' = "asked" /\ Reply(h)' = Reply(h)
    BY <1>2, <2>1, <2>2 DEF ClientState, Pending, Reply
  <2>4. BoardState' = BoardState \/ (BoardState = "up" /\ BoardState' = "hangs")
    <3>1. \A g \in Hosts \ {h} : hpc[g] = "idle"
      BY <2>1, OnlyOneBusy
    <3>2. CASE Address(h)
      BY <1>2, <3>1, <3>2 DEF Address, Addressed, Answers, Goto, BoardState, Stuck, Abandoned
    <3>3. CASE SendRegister(h) \/ SendValue(h)
      <4>1. ~Abandoned /\ state = "RX" /\ state' = "LISTEN"
        BY <1>3, <3>3 DEF SendRegister, SendValue, Goto, Places, InValue, Deaf, Abandoned
      <4> QED
        BY <1>2, <4>1 DEF BoardState, Stuck, Abandoned
    <3>4. CASE Restart(h)
      <4>1. ~Abandoned /\ ~Abandoned'
        BY <1>2, <1>3, <3>4 DEF Restart, Addressed, Goto, Places, InRestart, Deaf, Abandoned
      <4> QED
        BY <1>2, <3>4, <4>1 DEF Restart, Addressed, BoardState, Stuck
    <3> QED
      BY <1>8, <3>2, <3>3, <3>4
  <2> QED
    BY <1>2, <1>4, <1>5, <2>1, <2>3, <2>4
    DEF Service!Next, Service!Hang, Service!vars, Clients, Replies
<1>9. CASE Read(h)
  <2>1. /\ hpc[h] = "read" /\ hpc'[h] = "hold" /\ req' = req
        /\ state = "TX" /\ state' = "READY" /\ answer' = Status
    BY <1>3, <1>9 DEF Read, Goto
  <2>2. bpc = "sent" /\ ToGet(h)
    BY <1>3, <2>1 DEF Places, InRead, Deaf
  <2>3. ClientState(h) = "asked" /\ ClientState(h)' = "done"
    BY <1>2, <2>1, <2>2 DEF ClientState, Pending
  <2>4. Reply(h)' = coolers_pwm[req[h].cooler] /\ req[h].kind = "get"
    BY <2>1, <2>2 DEF Reply, Status, ToGet, Asked
  <2>5. BoardState = "up" /\ BoardState' = "up"
    BY <1>2, <2>1, <2>2 DEF BoardState, Stuck, Abandoned
  <2>6. Service!Get(h)
    BY <1>1, <1>2, <1>3, <2>1, <2>3, <2>4, <2>5 DEF Service!Get, Clients, Replies
  <2> QED
    BY <2>6 DEF Service!Next
<1>10. CASE Stop(h)
  <2>1. req' = req /\ state' = "READY"
    BY <1>10 DEF Stop, Goto
  <2>2. BoardState' = BoardState \/ (BoardState = "up" /\ BoardState' = "hangs")
    <3>1. bpc # "sent" \/ state # "MUTE"
      BY <1>3, <1>10
      DEF Stop, Goto, Places, InRegister, InStop, InValue, InRestart, Deaf, AfterDuty
    <3>2. ~Abandoned
      BY <1>3, <1>10
      DEF Stop, Goto, Places, InStop, InValue, InRestart, Deaf, AfterDuty, Abandoned
    <3> QED
      BY <1>2, <2>1, <3>1, <3>2 DEF BoardState, Stuck, Abandoned
  <2>3. CASE hpc[h] = "stop" /\ hpc'[h] = "hold"
    <3>1. req[h].kind = "set"
      BY <1>3, <2>3 DEF Places, InStop
    <3>2. ClientState(h)' = ClientState(h) /\ Reply(h)' = Reply(h)
      BY <1>2, <2>1, <2>3, <3>1 DEF ClientState, Pending, Reply
    <3> QED
      BY <1>2, <1>4, <1>5, <2>1, <2>2, <3>2
      DEF Service!Next, Service!Hang, Service!vars, Clients, Replies
  <2>4. CASE hpc[h] \in {"register", "value", "restart"} /\ hpc'[h] = "error"
    <3>1. ClientState(h) = "asked" /\ ClientState(h)' = "error" /\ Reply(h)' = Reply(h)
      BY <2>4 DEF ClientState, Pending, Reply
    <3>2. Service!Refuse(h)
      BY <1>1, <1>2, <1>3, <1>5, <2>1, <2>2, <3>1
      DEF Service!Refuse, Service!MayHang, Clients, Replies
    <3> QED
      BY <3>2 DEF Service!Next
  <2> QED
    BY <1>3, <1>10, <2>3, <2>4 DEF Stop, Goto
<1>11. CASE HoldOver(h)
  <2>1. /\ hpc[h] = "hold" /\ hpc'[h] = "OK" /\ req' = req
        /\ UNCHANGED <<state, answer>>
        /\ bpc = "boot" \/ Stuck \/ bpc = "loop"
    BY <1>3, <1>11 DEF HoldOver, Goto, boardVars, slaveVars
  <2>2. ClientState(h) = "done" \/ (ClientState(h) = "asked" /\ BoardState = "hangs")
    BY <2>1 DEF ClientState, Pending, BoardState, Stuck, Abandoned
  <2>3. ClientState(h)' = "OK" /\ Reply(h)' = Reply(h)
    BY <2>1 DEF ClientState, Pending, Reply
  <2>4. BoardState' = BoardState
    BY <1>a, <2>1
  <2>5. Service!Acknowledge(h)
    BY <1>1, <1>2, <1>3, <1>5, <2>1, <2>2, <2>3, <2>4 DEF Service!Acknowledge, Clients, Replies
  <2> QED
    BY <2>5 DEF Service!Next
<1>12. CASE Unlock(h)
  <2>1. /\ hpc[h] \in {"OK", "error"} /\ hpc'[h] = "idle" /\ state' = state
        /\ req' = [req EXCEPT ![h] = NoRequest]
    BY <1>3, <1>12 DEF Unlock, boardVars, slaveVars
  <2>2. ClientState(h) = hpc[h] /\ ClientState(h)' = "idle" /\ Reply(h)' = 0
    BY <2>1 DEF ClientState, Pending, Reply
  <2>3. BoardState' = BoardState
    BY <1>a, <2>1
  <2>4. Service!Leave(h)
    BY <1>1, <1>2, <1>3, <2>1, <2>2, <2>3
    DEF Service!Leave, Service!NoRequest, NoRequest, Clients, Replies
  <2> QED
    BY <2>4 DEF Service!Next
<1>13. CASE Unheard(h)
  <2>1. /\ state = "MUTE" /\ state' = state /\ req' = req
        /\ \/ hpc[h] = "register" /\ hpc'[h] \in {"value", "restart"}
           \/ hpc[h] = "value" /\ hpc'[h] = "stop"
    BY <1>3, <1>13 DEF Unheard, Goto, boardVars, slaveVars
  <2>2. bpc = "register"
    BY <1>3, <2>1 DEF Places, InRegister, InValue, Deaf
  <2>3. hpc[h] = "value" => req[h].kind = "set"
    BY <1>3, BoardAssumption DEF SetRequest
  <2>4. ClientState(h)' = ClientState(h) /\ Reply(h)' = Reply(h)
    BY <1>2, <2>1, <2>2, <2>3 DEF ClientState, Pending, Reply
  <2>5. BoardState' = BoardState
    BY <1>2, <2>1, <2>2 DEF BoardState, Stuck, Abandoned
  <2> QED
    BY <1>2, <1>4, <1>5, <2>1, <2>4, <2>5 DEF Service!vars, Clients, Replies
<1>14. CASE TimedOut(h)
  <2>1. hpc[h] = "read" /\ hpc'[h] = "error" /\ state' = state /\ req' = req
    BY <1>3, <1>14 DEF TimedOut, Goto, boardVars, slaveVars
  <2>2. ClientState(h) = "asked" /\ ClientState(h)' = "error" /\ Reply(h)' = Reply(h)
    BY <2>1 DEF ClientState, Pending, Reply
  <2>3. BoardState' = BoardState
    BY <1>a, <2>1
  <2>4. Service!Refuse(h)
    BY <1>1, <1>2, <1>3, <1>5, <2>1, <2>2, <2>3
    DEF Service!Refuse, Service!MayHang, Clients, Replies
  <2> QED
    BY <2>4 DEF Service!Next
<1> QED
  BY <1>6, <1>7, <1>8, <1>9, <1>10, <1>11, <1>12, <1>13, <1>14 DEF Transfer

LEMMA ServiceStep ==
  ASSUME ServiceInv, [Next]_vars
  PROVE  [Service!Next]_(Service!vars)
<1>1. CASE UNCHANGED vars
  <2>1. UNCHANGED <<duty, coolers_pwm, req, BoardState, Clients, Replies>>
    BY <1>1 DEF vars, boardVars, slaveVars, powerVars, hostVars, BoardState, Stuck, Abandoned, Clients,
                ClientState, Pending, Replies, Reply
  <2> QED
    BY <2>1 DEF Service!vars, Clients, Replies
<1>2. Stuck => bpc # "boot"
  BY DEF Stuck, Abandoned
<1> QED
  BY <1>1, <1>2, ServiceBoard, ServiceReset, ServiceHost DEF Next, Watchdog, PowerFails

LEMMA ServiceInit ==
  ASSUME Init
  PROVE  Service!Init
<1>1. /\ BoardState = "down"
      /\ Clients = [h \in Hosts |-> "idle"] /\ Replies = [h \in Hosts |-> 0]
  BY DEF Init, BoardState, Clients, ClientState, Pending, Replies, Reply
<1>2. /\ duty = [c \in Coolers |-> 0] /\ coolers_pwm \in [Coolers -> 0..100]
      /\ req = [h \in Hosts |-> NoRequest]
  BY DEF Init
<1> QED
  BY <1>1, <1>2
  DEF Service!Init, Service!Still, Service!Powers, Service!NoRequest, NoRequest, Clients, Replies

(* Firmware, bus and drivers implement PowerService: a transfer of several bytes, between
   any interrupts and cut anywhere, is one step of the board or none, for every number of
   threads, all requests and all faults. *)
THEOREM BoardServesPowers == Spec => ServesPowers
<1>1. TypeInv /\ BoardInv /\ DutyOwed => ServiceInv
  BY TypeInvTyped DEF ServiceInv, TypeInv, TypeOK, FlashTyped
<1>2. Init => DutyOwed
  BY DEF Init, DutyOwed
<1>3. TypeInv /\ BoardInv /\ DutyOwed /\ [Next]_vars => DutyOwed'
  BY TypeInvTyped, DutyOwedStep
<1> QED
  BY BoardInitType, TypeStep, BoardInvInit, BoardInvStep, <1>1, <1>2, <1>3, ServiceInit, ServiceStep,
     PTL
  DEF Spec, ServesPowers, Service!Spec

=============================================================================
