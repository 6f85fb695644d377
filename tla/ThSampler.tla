------------------------------- MODULE ThSampler -------------------------------
(* The temperature and humidity worker: temp_hum_worker and th_sleep in app_th.cpp,
   the settings it reads, the table it fills (mydb.cpp), and who else works on them:
   the request threads in app_set_th_period and the reload of the configuration in
   app_read_config.  The end of the process in good order is in module Backend. *)
EXTENDS Integers

CONSTANTS
  Handlers,     \* the request threads
  Minutes,      \* the periods that clients ask for, in minutes
  Batch,        \* rows that a clean-up removes, 300 in check_size
  FilePeriod,   \* TH_poll_period of the configuration file in seconds, 0 without it
  FileLimit,    \* mydb_max_size of the configuration file, in rows that fit
  MinPeriod,    \* smallest period a client may set, 180 seconds
  Word,         \* number of values of a uint64_t, 2^64
  Tables,       \* states of the table of samples that a start may find
  Stored,       \* periods that a start may find in the database
  Faults        \* what may fail: a subset of FaultKinds

FaultKinds ==
  {"delete", "vacuum", "insert", "sensor",  \* a clean-up, a sample
   "period", "update",                      \* reading and writing the stored period
   "file",                                  \* reading the configuration file
   "crash"}                                 \* the process ends and is started again

ASSUME SamplerAssumption ==
  /\ Minutes \subseteq Int
  /\ Batch \in Nat \ {0}
  /\ Word \in Nat /\ MinPeriod \in 1..(Word - 1)
  /\ FilePeriod \in 0..(Word - 1)
  /\ FileLimit \in Nat
  /\ Tables \subseteq [rows : Nat, file : Nat]
  /\ \A t \in Tables : t.rows <= t.file
  /\ Stored \subseteq 0..(Word - 1)
  /\ Faults \subseteq FaultKinds

VARIABLES
  conf,       \* app_data.conf, as far as the worker reads it
  loading,    \* does app_read_config have app_data_mutex, conf cleared
  db_period,  \* th_poll_period in the row of the configuration
  table,      \* the samples: rows, and the size of the file in rows that fit
  wpc,        \* next section of temp_hum_worker
  period,     \* the worker's copy of the period
  th_signal,  \* wake-up flag polled by th_sleep
  hpc,        \* next section of app_set_th_period in each request thread
  new_period  \* its new_period_sec

dataVars == <<conf, loading, db_period, table>>
workerVars == <<wpc, period>>
handlerVars == <<hpc, new_period>>
vars == <<dataVars, workerVars, th_signal, handlerVars>>

-----------------------------------------------------------------------------
(* Types *)

Seconds == 0..(Word - 1)

NoConf == [th_poll_period |-> 0, mydb_max_size |-> 0]

FileConf == [th_poll_period |-> FilePeriod, mydb_max_size |-> FileLimit]

(* "ended": the thread has returned *)
WorkerPc == {"begin", "fetch", "adopt", "check", "sample", "renew", "sleep", "ended"}

TypeOK ==
  /\ conf \in [th_poll_period : Seconds, mydb_max_size : {0, FileLimit}]
  /\ loading \in BOOLEAN
  /\ db_period \in Seconds
  /\ table \in [rows : Nat, file : Nat]
  /\ wpc \in WorkerPc
  /\ period \in Seconds
  /\ th_signal \in BOOLEAN
  /\ hpc \in [Handlers -> {"idle", "database", "memory", "wakeup", "OK", "error"}]
  /\ new_period \in [Handlers -> Seconds]

-----------------------------------------------------------------------------
(* Conversions *)

(* app_set_th_period: minutes, negative ones too, become an unsigned number of
   seconds *)
PeriodOf(minutes) == (minutes * 60) % Word

(* What the column gives back: a number that is no 64-bit signed integer is kept
   as a floating one, of which sscanf reads the digit before the point *)
ReadBack(seconds) == IF seconds >= Word \div 2 THEN 1 ELSE seconds

(* th_sleep counts an int down to zero: a negative one gets there only after it
   has run through all the others *)
Endless(seconds) == seconds >= Word \div 2

-----------------------------------------------------------------------------
(* The table of samples *)

(* Mutant: the rows to keep are counted from the wrong end, so that a clean-up of
   a small table leaves none *)
UnlimitedOldestRemoved(t) ==
  [t EXCEPT !.rows = IF @ > Batch THEN @ - Batch ELSE 0]

(* Mutant: the rows are taken for at least Batch *)
BlindOldestRemoved(t) == [t EXCEPT !.rows = @ - Batch]

(* DELETE of all ids below the one that follows the oldest Batch; without such a
   row nothing is below it.  The pages stay with the file *)
OldestRemoved(t) == [t EXCEPT !.rows = IF @ > Batch THEN @ - Batch ELSE @]

Vacuumed(t) == [t EXCEPT !.file = t.rows]

(* A new row takes a free page, or the file grows *)
RowAdded(t) ==
  [rows |-> t.rows + 1, file |-> IF t.file > t.rows THEN t.file ELSE t.rows + 1]

(* Mutant: a clean-up only when the limit is exceeded *)
LateCleanedUp(limit) ==
  IF table.file <= limit THEN {table} ELSE {Vacuumed(OldestRemoved(table)), OldestRemoved(table)}

(* check_size: what the table may be afterwards.  Its result is not looked at *)
CleanedUp(limit) ==
  IF table.file < limit THEN {table}
  ELSE {Vacuumed(OldestRemoved(table))}
       \cup (IF "vacuum" \in Faults THEN {OldestRemoved(table)} ELSE {})
       \cup (IF "delete" \in Faults THEN {table} ELSE {})

-----------------------------------------------------------------------------
(* temp_hum_worker *)

(* app_data_mutex: only app_read_config keeps it over several steps; the other
   sections under it are single actions that wait for it *)
DataFree == ~loading

(* The period of the configuration file goes before the one of the database *)
TakePeriod ==
  /\ wpc = "begin" /\ DataFree
  /\ period' = conf.th_poll_period
  /\ wpc' = IF conf.th_poll_period = 0 THEN "fetch" ELSE "check"
  /\ UNCHANGED <<dataVars, th_signal, handlerVars>>

(* After an error the loop begins with the period zero *)
FetchPeriod ==
  /\ wpc = "fetch"
  /\ \/ period' = ReadBack(db_period) /\ wpc' = "adopt"
     \/ "period" \in Faults /\ wpc' = "check" /\ UNCHANGED period
  /\ UNCHANGED <<dataVars, th_signal, handlerVars>>

(* app_data.conf is written without its mutex; without a period the thread ends *)
AdoptPeriod ==
  /\ wpc = "adopt"
  /\ conf' = [conf EXCEPT !.th_poll_period = period]
  /\ wpc' = IF period = 0 THEN "ended" ELSE "check"
  /\ UNCHANGED <<loading, db_period, table, period, th_signal, handlerVars>>

(* The limit is read without the mutex, too: while the settings are loaded it is
   zero *)
CheckSize ==
  /\ wpc = "check"
  /\ table' \in CleanedUp(conf.mydb_max_size)
  /\ wpc' = "sample"
  /\ UNCHANGED <<conf, loading, db_period, period, th_signal, handlerVars>>

(* sht30_read_data, and put_th_val of what it gives *)
TakeSample ==
  /\ wpc = "sample"
  /\ \/ table' = RowAdded(table)
     \/ Faults \cap {"sensor", "insert"} # {} /\ UNCHANGED table
  /\ wpc' = "renew"
  /\ UNCHANGED <<conf, loading, db_period, period, th_signal, handlerVars>>

(* Mutant: the first period is kept *)
RenewNothing ==
  /\ wpc = "renew" /\ DataFree
  /\ wpc' = IF period = 0 THEN "check" ELSE "sleep"
  /\ UNCHANGED <<dataVars, period, th_signal, handlerVars>>

(* With the period zero th_sleep returns at once *)
RenewPeriod ==
  /\ wpc = "renew" /\ DataFree
  /\ period' = conf.th_poll_period
  /\ wpc' = IF period' = 0 THEN "check" ELSE "sleep"
  /\ UNCHANGED <<dataVars, th_signal, handlerVars>>

(* th_sleep finds the signal after one of its seconds ... *)
WakeUp ==
  /\ wpc = "sleep" /\ th_signal
  /\ th_signal' = FALSE
  /\ wpc' = "check"
  /\ UNCHANGED <<dataVars, period, handlerVars>>

(* ... or its seconds are over *)
SleepOver ==
  /\ wpc = "sleep" /\ ~th_signal /\ ~Endless(period)
  /\ wpc' = "check"
  /\ UNCHANGED <<dataVars, period, th_signal, handlerVars>>

Worker ==
  \/ TakePeriod
  \/ FetchPeriod
  \/ AdoptPeriod
  \/ CheckSize
  \/ TakeSample
  \/ RenewPeriod
  \/ WakeUp
  \/ SleepOver

-----------------------------------------------------------------------------
(* app_set_th_period in a request thread *)

(* A period that is too small is refused *)
Receive(h) ==
  /\ hpc[h] = "idle"
  /\ \E m \in Minutes :
       IF PeriodOf(m) >= MinPeriod
       THEN /\ new_period' = [new_period EXCEPT ![h] = PeriodOf(m)]
            /\ hpc' = [hpc EXCEPT ![h] = "database"]
       ELSE /\ hpc' = [hpc EXCEPT ![h] = "error"]
            /\ UNCHANGED new_period
  /\ UNCHANGED <<dataVars, workerVars, th_signal>>

(* Mutant: the result of the update is not looked at *)
UncheckedStorePeriod(h) ==
  /\ hpc[h] = "database"
  /\ db_period' \in {new_period[h]} \cup (IF "update" \in Faults THEN {db_period} ELSE {})
  /\ hpc' = [hpc EXCEPT ![h] = "memory"]
  /\ UNCHANGED <<conf, loading, table, workerVars, th_signal, new_period>>

(* The database first; its error ends the handler *)
StorePeriod(h) ==
  /\ hpc[h] = "database"
  /\ \/ /\ db_period' = new_period[h]
        /\ hpc' = [hpc EXCEPT ![h] = "memory"]
        /\ UNCHANGED new_period
     \/ /\ "update" \in Faults
        /\ hpc' = [hpc EXCEPT ![h] = "error"]
        /\ new_period' = [new_period EXCEPT ![h] = 0]
        /\ UNCHANGED db_period
  /\ UNCHANGED <<conf, loading, table, workerVars, th_signal>>

(* Mutant: the wake-up is forgotten *)
SetPeriodSilently(h) ==
  /\ hpc[h] = "memory" /\ DataFree
  /\ conf' = [conf EXCEPT !.th_poll_period = new_period[h]]
  /\ hpc' = [hpc EXCEPT ![h] = "OK"]
  /\ new_period' = [new_period EXCEPT ![h] = 0]
  /\ UNCHANGED <<loading, db_period, table, workerVars, th_signal>>

SetPeriod(h) ==
  /\ hpc[h] = "memory" /\ DataFree
  /\ conf' = [conf EXCEPT !.th_poll_period = new_period[h]]
  /\ hpc' = [hpc EXCEPT ![h] = "wakeup"]
  /\ UNCHANGED <<loading, db_period, table, workerVars, th_signal, new_period>>

(* app_th_wakeup *)
Wakeup(h) ==
  /\ hpc[h] = "wakeup"
  /\ th_signal' = TRUE
  /\ hpc' = [hpc EXCEPT ![h] = "OK"]
  /\ new_period' = [new_period EXCEPT ![h] = 0]
  /\ UNCHANGED <<dataVars, workerVars>>

Reply(h) ==
  /\ hpc[h] \in {"OK", "error"}
  /\ hpc' = [hpc EXCEPT ![h] = "idle"]
  /\ UNCHANGED <<dataVars, workerVars, th_signal, new_period>>

Handler(h) ==
  \/ StorePeriod(h)
  \/ SetPeriod(h)
  \/ Wakeup(h)
  \/ Reply(h)

-----------------------------------------------------------------------------
(* The surroundings *)

(* app_read_config after a SIGHUP: the settings are cleared, then filled *)
ClearConf ==
  /\ ~loading
  /\ loading' = TRUE
  /\ conf' = NoConf
  /\ UNCHANGED <<db_period, table, workerVars, th_signal, handlerVars>>

(* Without a readable file they stay cleared; the result is not looked at *)
FillConf ==
  /\ loading
  /\ loading' = FALSE
  /\ \/ conf' = FileConf
     \/ "file" \in Faults /\ UNCHANGED conf
  /\ UNCHANGED <<db_period, table, workerVars, th_signal, handlerVars>>

(* The process ends and is started again: app_init loads the settings, and the new
   worker begins *)
Restart ==
  /\ "crash" \in Faults
  /\ conf' \in {FileConf} \cup (IF "file" \in Faults THEN {NoConf} ELSE {})
  /\ loading' = FALSE
  /\ wpc' = "begin"
  /\ period' = 0
  /\ th_signal' = FALSE
  /\ hpc' = [h \in Handlers |-> "idle"]
  /\ new_period' = [h \in Handlers |-> 0]
  /\ UNCHANGED <<db_period, table>>

Init ==
  /\ conf \in {FileConf} \cup (IF "file" \in Faults THEN {NoConf} ELSE {})
  /\ loading = FALSE
  /\ db_period \in Stored
  /\ table \in Tables
  /\ wpc = "begin"
  /\ period = 0
  /\ th_signal = FALSE
  /\ hpc = [h \in Handlers |-> "idle"]
  /\ new_period = [h \in Handlers |-> 0]

Next ==
  \/ Worker
  \/ \E h \in Handlers : Receive(h)
  \/ \E h \in Handlers : Handler(h)
  \/ ClearConf
  \/ FillConf
  \/ Restart

Spec == Init /\ [][Next]_vars

(* The threads keep running; nobody has to send a request or a signal *)
Fairness ==
  /\ WF_vars(Worker)
  /\ \A h \in Handlers : WF_vars(Handler(h))
  /\ WF_vars(FillConf)

FairSpec == Spec /\ Fairness

-----------------------------------------------------------------------------
(* Properties *)

(* The file of the samples stays within the limit of the configuration, or within
   the rows that a clean-up leaves alone: also while a reload has the limit cleared,
   and when VACUUM fails.  (Not when DELETE fails but INSERT works.) *)
Bound == IF FileLimit > Batch THEN FileLimit ELSE Batch + 1

FileWithinBound == table.file <= Bound

(* No clean-up takes the newest sample, whatever fails and whatever the limit is
   at the time. *)
NewestKept == [][table.rows > 0 => table'.rows > 0]_vars

(* A worker that sleeps on a period which is not the one in the settings has been
   or is about to be woken, unless it is the reload that has changed them: that one
   wakes nobody. *)
NoLostWakeup ==
  wpc = "sleep" /\ period # conf.th_poll_period =>
    \/ th_signal
    \/ \E h \in Handlers : hpc[h] = "wakeup"
    \/ conf.th_poll_period \in {0, FilePeriod}

(* A period that a client has set reaches the worker, even one that would sleep for
   ever, unless the setting is overwritten or there is no worker any more. *)
PeriodTakenUp ==
  \A m \in Minutes :
    (\E h \in Handlers : hpc[h] = "wakeup" /\ new_period[h] = PeriodOf(m)) ~>
      (period = PeriodOf(m) \/ conf.th_poll_period # PeriodOf(m) \/ wpc = "ended")

=============================================================================
