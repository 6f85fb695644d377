---------------------------- MODULE ThSamplerProofs ----------------------------
(* What is proved of ThSampler for every number of request threads, all periods that
   clients may ask for, every batch and limit, and every choice of faults. *)
EXTENDS SamplerStore, TLAPS

-----------------------------------------------------------------------------
(* The helpers *)

(* What the configuration file and the conversion of a request give is a number of
   seconds. *)
LEMMA PeriodTypes ==
  /\ 1 \in Seconds
  /\ \A m \in Minutes : PeriodOf(m) \in Seconds
  /\ \A s \in Seconds : ReadBack(s) \in Seconds
  /\ NoConf \in [th_poll_period : Seconds, mydb_max_size : {0, FileLimit}]
  /\ FileConf \in [th_poll_period : Seconds, mydb_max_size : {0, FileLimit}]
<1>1. Word \in Nat /\ Word >= 2 /\ 0 \in Seconds /\ 1 \in Seconds /\ FilePeriod \in Seconds
  BY SamplerAssumption DEF Seconds
<1>2. ASSUME NEW m \in Minutes PROVE PeriodOf(m) \in Seconds
  <2>1. m * 60 \in Int
    BY SamplerAssumption
  <2>2. \A n \in Int : n % Word \in 0..(Word - 1)
    BY <1>1
  <2> QED
    BY <2>1, <2>2 DEF PeriodOf, Seconds
<1>3. \A s \in Seconds : ReadBack(s) \in Seconds
  BY <1>1 DEF ReadBack
<1> QED
  BY <1>1, <1>2, <1>3 DEF NoConf, FileConf

(* A clean-up keeps a row when there is one; one that deletes leaves less than Bound,
   and none lets the file grow. *)
LEMMA CleanUp ==
  ASSUME NEW limit \in {0, FileLimit}, table \in [rows : Nat, file : Nat],
         NEW t \in CleanedUp(limit)
  PROVE  /\ t \in [rows : Nat, file : Nat]
         /\ table.rows > 0 => t.rows > 0
         /\ table.rows <= table.file => t.rows <= t.file /\ t.file <= table.file
         /\ /\ "delete" \notin Faults
            /\ table.rows <= table.file /\ table.file <= Bound
            => t.rows < Bound
<1>1. Batch \in Nat /\ Batch > 0 /\ FileLimit \in Nat /\ Bound \in Nat
      /\ Bound > Batch /\ Bound >= FileLimit
  BY SamplerAssumption DEF Bound
<1>2. table.rows \in Nat /\ table.file \in Nat
      /\ table = [rows |-> table.rows, file |-> table.file]
  OBVIOUS
<1> DEFINE kept == IF table.rows > Batch THEN table.rows - Batch ELSE table.rows
<1>3. /\ kept \in Nat
      /\ table.rows > 0 => kept > 0
      /\ kept <= table.rows
      /\ table.rows <= Bound => kept < Bound
  BY <1>1, <1>2
<1>4. OldestRemoved(table) = [rows |-> kept, file |-> table.file]
  BY <1>2 DEF OldestRemoved
<1>5. Vacuumed(OldestRemoved(table)) = [rows |-> kept, file |-> kept]
  BY <1>4 DEF Vacuumed
<1>6. CASE table.file < limit
  <2>1. t = table
    BY <1>6 DEF CleanedUp
  <2>2. limit = FileLimit
    BY <1>2, <1>6
  <2> QED
    BY <1>1, <1>2, <1>6, <2>1, <2>2
<1>7. CASE ~(table.file < limit)
  <2>1. \/ t = Vacuumed(OldestRemoved(table))
        \/ t = OldestRemoved(table)
        \/ t = table /\ "delete" \in Faults
    BY <1>7 DEF CleanedUp
  <2>2. CASE t = [rows |-> kept, file |-> kept]
    BY <1>1, <1>2, <1>3, <2>2
  <2>3. CASE t = [rows |-> kept, file |-> table.file]
    BY <1>1, <1>2, <1>3, <2>3
  <2>4. CASE t = table /\ "delete" \in Faults
    BY <1>1, <1>2, <2>4
  <2> QED
    BY <1>4, <1>5, <2>1, <2>2, <2>3, <2>4
<1> QED
  BY <1>6, <1>7

LEMMA NewRow ==
  ASSUME table \in [rows : Nat, file : Nat]
  PROVE  /\ RowAdded(table) \in [rows : Nat, file : Nat]
         /\ RowAdded(table).rows = table.rows + 1
         /\ RowAdded(table).file = IF table.file > table.rows THEN table.file ELSE table.rows + 1
BY DEF RowAdded

-----------------------------------------------------------------------------
(* Type correctness *)

LEMMA SamplerInitTypeOK == Init => TypeOK
<1> SUFFICES ASSUME Init PROVE TypeOK
  OBVIOUS
<1>1. /\ db_period \in Seconds /\ 0 \in Seconds
      /\ table \in [rows : Nat, file : Nat]
  BY SamplerAssumption DEF Init, Seconds
<1>2. conf \in [th_poll_period : Seconds, mydb_max_size : {0, FileLimit}]
  BY PeriodTypes DEF Init
<1>3. /\ hpc \in [Handlers -> {"idle", "database", "memory", "wakeup", "OK", "error"}]
      /\ new_period \in [Handlers -> Seconds]
  BY <1>1 DEF Init
<1> QED
  BY <1>1, <1>2, <1>3 DEF Init, TypeOK, WorkerPc

LEMMA SamplerWorkerTypeOK ==
  ASSUME TypeOK, Worker
  PROVE  TypeOK'
<1> USE DEF TypeOK, WorkerPc, dataVars, handlerVars
<1>1. CASE TakePeriod
  BY <1>1 DEF TakePeriod
<1>2. CASE FetchPeriod
  BY <1>2, PeriodTypes DEF FetchPeriod
<1>3. CASE AdoptPeriod
  BY <1>3 DEF AdoptPeriod
<1>4. CASE CheckSize
  BY <1>4, CleanUp DEF CheckSize
<1>5. CASE TakeSample
  BY <1>5, NewRow DEF TakeSample
<1>6. CASE RenewPeriod
  BY <1>6 DEF RenewPeriod
<1>7. CASE WakeUp
  BY <1>7 DEF WakeUp
<1>8. CASE SleepOver
  BY <1>8 DEF SleepOver
<1> QED
  BY <1>1, <1>2, <1>3, <1>4, <1>5, <1>6, <1>7, <1>8 DEF Worker

LEMMA SamplerHandlerTypeOK ==
  ASSUME TypeOK, NEW h \in Handlers, Receive(h) \/ Handler(h)
  PROVE  TypeOK'
<1> USE DEF TypeOK, dataVars, workerVars
<1>1. CASE Receive(h)
  BY <1>1, PeriodTypes DEF Receive
<1>2. CASE StorePeriod(h)
  BY <1>2, SamplerAssumption DEF StorePeriod, Seconds
<1>3. CASE SetPeriod(h)
  BY <1>3 DEF SetPeriod
<1>4. CASE Wakeup(h)
  BY <1>4, SamplerAssumption DEF Wakeup, Seconds
<1>5. CASE Reply(h)
  BY <1>5 DEF Reply
<1> QED
  BY <1>1, <1>2, <1>3, <1>4, <1>5 DEF Handler

LEMMA SamplerOtherTypeOK ==
  ASSUME TypeOK, ClearConf \/ FillConf \/ Restart \/ UNCHANGED vars
  PROVE  TypeOK'
<1> USE DEF TypeOK, WorkerPc, dataVars, workerVars, handlerVars
<1>1. CASE ClearConf
  BY <1>1, PeriodTypes DEF ClearConf
<1>2. CASE FillConf
  BY <1>2, PeriodTypes DEF FillConf
<1>3. CASE Restart
  <2>1. 0 \in Seconds
    BY SamplerAssumption DEF Seconds
  <2>2. conf' \in [th_poll_period : Seconds, mydb_max_size : {0, FileLimit}]
    BY <1>3, PeriodTypes DEF Restart
  <2> QED
    BY <1>3, <2>1, <2>2 DEF Restart
<1>4. CASE UNCHANGED vars
  BY <1>4 DEF vars
<1> QED
  BY <1>1, <1>2, <1>3, <1>4

(* The settings, the table and every section of the threads keep their types: a
   negative number of minutes, too, is a number of seconds. *)
THEOREM SamplerTypeCorrect == Spec => []TypeOK
<1>1. TypeOK /\ [Next]_vars => TypeOK'
  BY SamplerWorkerTypeOK, SamplerHandlerTypeOK, SamplerOtherTypeOK DEF Next
<1> QED
  BY SamplerInitTypeOK, <1>1, PTL DEF Spec

-----------------------------------------------------------------------------
(* The table of samples *)

(* Who but the worker leaves the table alone *)
LEMMA OnlyWorkerWrites ==
  ASSUME Next, ~CheckSize, ~TakeSample
  PROVE  table' = table
BY DEF Next, Worker, TakePeriod, FetchPeriod, AdoptPeriod, RenewPeriod, WakeUp, SleepOver,
       Receive, Handler, StorePeriod, SetPeriod, Wakeup, Reply, ClearConf, FillConf, Restart,
       dataVars

(* The file is never larger than Bound; once a clean-up has run there is a row free
   for the sample. *)
RoomInv ==
  /\ table.rows <= table.file
  /\ FileWithinBound
  /\ wpc = "sample" => table.rows < Bound

LEMMA RoomStep ==
  ASSUME "delete" \notin Faults, TypeOK, RoomInv, [Next]_vars
  PROVE  RoomInv'
<1>1. /\ table \in [rows : Nat, file : Nat] /\ table.rows \in Nat /\ table.file \in Nat
      /\ conf.mydb_max_size \in {0, FileLimit}
      /\ Bound \in Nat
  BY SamplerAssumption DEF TypeOK, Bound
<1>2. Bound' = Bound
  BY DEF Bound
<1>3. CASE CheckSize
  BY <1>1, <1>2, <1>3, CleanUp DEF CheckSize, RoomInv, FileWithinBound
<1>4. CASE TakeSample
  <2>1. table.rows < Bound /\ wpc' = "renew"
    BY <1>4 DEF TakeSample, RoomInv
  <2>2. CASE table' = RowAdded(table)
    BY <1>1, <1>2, <2>1, <2>2, NewRow DEF RoomInv, FileWithinBound
  <2>3. CASE table' = table
    BY <1>2, <2>1, <2>3 DEF RoomInv, FileWithinBound
  <2> QED
    BY <1>4, <2>2, <2>3 DEF TakeSample
<1>5. CASE Next /\ ~CheckSize /\ ~TakeSample
  <2>1. table' = table
    BY <1>5, OnlyWorkerWrites
  <2>2. wpc' = "sample" => wpc = "sample"
    BY <1>5 DEF Next, Worker, TakePeriod, FetchPeriod, AdoptPeriod, RenewPeriod, WakeUp,
                SleepOver, Receive, Handler, StorePeriod, SetPeriod, Wakeup, Reply, ClearConf,
                FillConf, Restart, workerVars
  <2> QED
    BY <1>2, <2>1, <2>2 DEF RoomInv, FileWithinBound
<1>6. CASE UNCHANGED vars
  BY <1>2, <1>6 DEF vars, dataVars, workerVars, RoomInv, FileWithinBound
<1> QED
  BY <1>3, <1>4, <1>5, <1>6

(* While DELETE works, the file never outgrows its bound, whatever else fails: while a
   reload has the limit cleared, when VACUUM leaves the file as it is, and over restarts
   between any two steps. *)
THEOREM FileStaysWithinBound ==
  ASSUME "delete" \notin Faults, \A t \in Tables : t.file <= Bound
  PROVE  Spec => []FileWithinBound
<1>1. Init => RoomInv
  <2>1. Init => table \in Tables /\ wpc = "begin"
    BY DEF Init
  <2>2. \A t \in Tables : t.rows <= t.file
    BY SamplerAssumption
  <2> QED
    BY <2>1, <2>2 DEF RoomInv, FileWithinBound
<1>2. TypeOK /\ RoomInv /\ [Next]_vars => RoomInv'
  BY RoomStep
<1>3. RoomInv => FileWithinBound
  BY DEF RoomInv
<1> QED
  BY <1>1, <1>2, <1>3, SamplerTypeCorrect, PTL DEF Spec

(* No step takes the last sample out of a table that has one, for every limit and batch
   and all faults. *)
THEOREM NewestAlwaysKept == Spec => NewestKept
<1>1. TypeOK /\ [Next]_vars => [table.rows > 0 => table'.rows > 0]_vars
  <2> SUFFICES ASSUME TypeOK, Next, table.rows > 0 PROVE table'.rows > 0
    OBVIOUS
  <2>1. table \in [rows : Nat, file : Nat] /\ conf.mydb_max_size \in {0, FileLimit}
    BY DEF TypeOK
  <2>2. CASE CheckSize
    BY <2>1, <2>2, CleanUp DEF CheckSize
  <2>3. CASE TakeSample
    BY <2>1, <2>3, NewRow DEF TakeSample
  <2>4. CASE ~CheckSize /\ ~TakeSample
    BY <2>4, OnlyWorkerWrites
  <2> QED
    BY <2>2, <2>3, <2>4
<1> QED
  BY <1>1, SamplerTypeCorrect, PTL DEF Spec, NewestKept

-----------------------------------------------------------------------------
(* Wake-ups *)

(* A worker asleep on another period than the one set has a wake-up up or on its way,
   in every order of threads, reloads and faults. *)
THEOREM SamplerWakeupNeverLost == Spec => []NoLostWakeup
<1>1. Init => NoLostWakeup
  BY DEF Init, NoLostWakeup
<1>2. TypeOK /\ NoLostWakeup /\ [Next]_vars => NoLostWakeup'
  <2> SUFFICES ASSUME TypeOK, NoLostWakeup, [Next]_vars PROVE NoLostWakeup'
    OBVIOUS
  <2> USE DEF NoLostWakeup, dataVars, workerVars, handlerVars
  <2>1. CASE Worker
    BY <2>1 DEF Worker, TakePeriod, FetchPeriod, AdoptPeriod, CheckSize, TakeSample, RenewPeriod,
                WakeUp, SleepOver
  <2>2. ASSUME NEW h \in Handlers, Receive(h) \/ Handler(h) PROVE NoLostWakeup'
    <3>1. hpc \in [Handlers -> {"idle", "database", "memory", "wakeup", "OK", "error"}]
      BY DEF TypeOK
    <3>2. CASE Receive(h)
      BY <3>1, <3>2 DEF Receive
    <3>3. CASE StorePeriod(h)
      BY <3>1, <3>3 DEF StorePeriod
    <3>4. CASE SetPeriod(h)
      BY <3>1, <3>4 DEF SetPeriod
    <3>5. CASE Wakeup(h)
      BY <3>5 DEF Wakeup
    <3>6. CASE Reply(h)
      BY <3>1, <3>6 DEF Reply
    <3> QED
      BY <2>2, <3>2, <3>3, <3>4, <3>5, <3>6 DEF Handler
  <2>3. CASE ClearConf
    BY <2>3 DEF ClearConf, NoConf
  <2>4. CASE FillConf
    BY <2>4 DEF FillConf, FileConf
  <2>5. CASE Restart
    BY <2>5 DEF Restart
  <2>6. CASE UNCHANGED vars
    BY <2>6 DEF vars
  <2> QED
    BY <2>1, <2>2, <2>3, <2>4, <2>5, <2>6 DEF Next
<1> QED
  BY <1>1, <1>2, SamplerTypeCorrect, PTL DEF Spec

-----------------------------------------------------------------------------
(* The stored period *)

InRequest == {"database", "memory", "wakeup"}

(* A thread knows a new period exactly while it serves a request for one that is not
   too small. *)
PeriodAsked ==
  \A h \in Handlers :
    IF hpc[h] \in InRequest
    THEN new_period[h] \in {PeriodOf(m) : m \in Minutes} /\ new_period[h] # 0
    ELSE new_period[h] = 0

LEMMA PeriodAskedStep ==
  ASSUME TypeOK, PeriodAsked, [Next]_vars
  PROVE  PeriodAsked'
<1>1. /\ hpc \in [Handlers -> {"idle", "database", "memory", "wakeup", "OK", "error"}]
      /\ new_period \in [Handlers -> Seconds]
  BY DEF TypeOK
<1> USE DEF PeriodAsked, InRequest
<1>2. CASE UNCHANGED handlerVars
  BY <1>2 DEF handlerVars
<1>3. ASSUME NEW h \in Handlers, Receive(h) PROVE PeriodAsked'
  <2>1. PICK m \in Minutes :
          IF PeriodOf(m) >= MinPeriod
          THEN /\ new_period' = [new_period EXCEPT ![h] = PeriodOf(m)]
               /\ hpc' = [hpc EXCEPT ![h] = "database"]
          ELSE /\ hpc' = [hpc EXCEPT ![h] = "error"]
               /\ UNCHANGED new_period
    BY <1>3 DEF Receive
  <2>2. hpc[h] = "idle"
    BY <1>3 DEF Receive
  <2>3. CASE PeriodOf(m) >= MinPeriod
    <3>1. PeriodOf(m) # 0
      BY <2>3, PeriodTypes, SamplerAssumption DEF Seconds
    <3> QED
      BY <1>1, <2>1, <2>3, <3>1
  <2>4. CASE ~(PeriodOf(m) >= MinPeriod)
    BY <1>1, <2>1, <2>2, <2>4
  <2> QED
    BY <2>3, <2>4
<1>4. ASSUME NEW h \in Handlers, Handler(h) PROVE PeriodAsked'
  <2>1. CASE StorePeriod(h)
    BY <1>1, <2>1 DEF StorePeriod
  <2>2. CASE SetPeriod(h)
    BY <1>1, <2>2 DEF SetPeriod
  <2>3. CASE Wakeup(h)
    BY <1>1, <2>3 DEF Wakeup
  <2>4. CASE Reply(h)
    BY <1>1, <2>4 DEF Reply
  <2> QED
    BY <1>4, <2>1, <2>2, <2>3, <2>4 DEF Handler
<1>5. CASE Worker \/ ClearConf \/ FillConf \/ UNCHANGED vars
  <2>1. UNCHANGED handlerVars
    BY <1>5 DEF Worker, TakePeriod, FetchPeriod, AdoptPeriod, CheckSize, TakeSample, RenewPeriod,
                WakeUp, SleepOver, ClearConf, FillConf, vars
  <2> QED
    BY <1>2, <2>1
<1>6. CASE Restart
  BY <1>6 DEF Restart
<1> QED
  BY <1>3, <1>4, <1>5, <1>6 DEF Next

LEMMA StoreStep ==
  ASSUME TypeOK, PeriodAsked, [Next]_vars
  PROVE  [Store!Next]_(Store!vars)
<1>1. /\ hpc \in [Handlers -> {"idle", "database", "memory", "wakeup", "OK", "error"}]
      /\ new_period \in [Handlers -> Seconds]
  BY DEF TypeOK
<1>2. ASSUME UNCHANGED <<db_period, handlerVars>> PROVE UNCHANGED Store!vars
  BY <1>2 DEF Store!vars, handlerVars
<1>3. ASSUME NEW h \in Handlers, Receive(h) PROVE Store!Next
  <2>1. PICK m \in Minutes :
          IF PeriodOf(m) >= MinPeriod
          THEN /\ new_period' = [new_period EXCEPT ![h] = PeriodOf(m)]
               /\ hpc' = [hpc EXCEPT ![h] = "database"]
          ELSE /\ hpc' = [hpc EXCEPT ![h] = "error"]
               /\ UNCHANGED new_period
    BY <1>3 DEF Receive
  <2>2. hpc[h] = "idle" /\ db_period' = db_period /\ new_period[h] = 0
    BY <1>3 DEF Receive, dataVars, PeriodAsked, InRequest
  <2>3. CASE PeriodOf(m) >= MinPeriod
    <3>1. PeriodOf(m) # 0
      BY <2>3, PeriodTypes, SamplerAssumption DEF Seconds
    <3> DEFINE c == [place |-> "period", value |-> PeriodOf(m)]
    <3>2. c \in {[place |-> "period", value |-> PeriodOf(n)] : n \in Minutes}
      OBVIOUS
    <3>3. hpc' = [hpc EXCEPT ![h] = "database"]
          /\ new_period' = [new_period EXCEPT ![h] = PeriodOf(m)]
      BY <2>1, <2>3
    <3>4. [g \in Handlers |-> IF new_period'[g] = 0 THEN [place |-> "none"]
                              ELSE [place |-> "period", value |-> new_period'[g]]]
          = [[g \in Handlers |-> IF new_period[g] = 0 THEN [place |-> "none"]
                                 ELSE [place |-> "period", value |-> new_period[g]]]
             EXCEPT ![h] = c]
      BY <1>1, <3>1, <3>3
    <3>5. Store!Ask(h)
      BY <1>1, <2>2, <3>2, <3>3, <3>4 DEF Store!Ask
    <3> QED
      BY <3>5 DEF Store!Next
  <2>4. CASE ~(PeriodOf(m) >= MinPeriod)
    <3>1. Store!Reject(h)
      BY <1>1, <2>1, <2>2, <2>4 DEF Store!Reject
    <3> QED
      BY <3>1 DEF Store!Next
  <2> QED
    BY <2>3, <2>4
<1>4. ASSUME NEW h \in Handlers, StorePeriod(h) PROVE Store!Next
  <2>1. hpc[h] = "database" /\ new_period[h] # 0
    BY <1>4 DEF StorePeriod, PeriodAsked, InRequest
  <2>2. CASE db_period' = new_period[h] /\ hpc' = [hpc EXCEPT ![h] = "memory"] /\ UNCHANGED new_period
    <3>1. Store!Store(h)
      BY <1>1, <2>1, <2>2 DEF Store!Store
    <3> QED
      BY <3>1 DEF Store!Next
  <2>3. CASE /\ hpc' = [hpc EXCEPT ![h] = "error"]
             /\ new_period' = [new_period EXCEPT ![h] = 0]
             /\ UNCHANGED db_period
    <3>1. Store!Fail(h)
      BY <1>1, <2>1, <2>3 DEF Store!Fail, Store!Answer, Store!NoChange
    <3> QED
      BY <3>1 DEF Store!Next
  <2> QED
    BY <1>4, <2>2, <2>3 DEF StorePeriod
<1>5. ASSUME NEW h \in Handlers, SetPeriod(h) PROVE UNCHANGED Store!vars
  BY <1>1, <1>5 DEF SetPeriod, Store!vars
<1>6. ASSUME NEW h \in Handlers, Wakeup(h) PROVE Store!Next
  <2>1. Store!Acknowledge(h)
    BY <1>1, <1>6 DEF Wakeup, dataVars, Store!Acknowledge, Store!Answer, Store!NoChange
  <2> QED
    BY <2>1 DEF Store!Next
<1>7. ASSUME NEW h \in Handlers, Reply(h) PROVE Store!Next
  <2>1. Store!Leave(h)
    BY <1>1, <1>7 DEF Reply, dataVars, Store!Leave
  <2> QED
    BY <2>1 DEF Store!Next
<1>8. CASE Worker \/ ClearConf \/ FillConf \/ UNCHANGED vars
  <2>1. UNCHANGED <<db_period, handlerVars>>
    BY <1>8 DEF Worker, TakePeriod, FetchPeriod, AdoptPeriod, CheckSize, TakeSample, RenewPeriod,
                WakeUp, SleepOver, ClearConf, FillConf, vars, dataVars
  <2> QED
    BY <1>2, <2>1
<1>9. CASE Restart
  <2>1. Store!Restart
    BY <1>9 DEF Restart, Store!Restart, Store!NoChange
  <2> QED
    BY <2>1 DEF Store!Next
<1> QED
  BY <1>3, <1>4, <1>5, <1>6, <1>7, <1>8, <1>9 DEF Next, Handler

(* The handlers implement SettingsStore, for every number of threads and all faults:
   each request changes the stored period once, before its OK, and nothing else does. *)
THEOREM SamplerKeepsPeriod == Spec => KeepsPeriod
<1>1. Init => PeriodAsked
  BY DEF Init, PeriodAsked, InRequest
<1>2. Init => Store!Init
  BY DEF Init, Store!Init, Store!NoChange
<1>3. TypeOK /\ PeriodAsked /\ [Next]_vars => PeriodAsked'
  BY PeriodAskedStep
<1>4. TypeOK /\ PeriodAsked /\ [Next]_vars => [Store!Next]_(Store!vars)
  BY StoreStep
<1> QED
  BY <1>1, <1>2, <1>3, <1>4, SamplerTypeCorrect, PTL DEF Spec, KeepsPeriod, Store!Spec

=============================================================================
