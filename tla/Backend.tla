-------------------------------- MODULE Backend --------------------------------
(* The process of the web backend from the end of app_init to its exit: main, the
   termination waiter with its signals and the request threads (main.cpp), with the
   requests that leave work for afterwards or need the database (app.cpp). *)

CONSTANTS
  Threads,   \* the request threads, 4 in main.cpp
  NoThread,  \* nobody holds accept_mutex
  Requests,  \* what clients may send: a subset of RequestKinds
  Faults     \* what may fail: a subset of FaultKinds

RequestKinds == {"lan", "reboot", "query", "other"}

FaultKinds ==
  {"open",              \* the database at start
   "file",              \* reading the configuration file
   "nmcli", "network",  \* saving the settings of the network, its restart
   "reboot",            \* the command that reboots the system
   "socket"}            \* opening the socket, accepting a request

ASSUME BackendAssumption ==
  /\ NoThread \notin Threads
  /\ Requests \subseteq RequestKinds
  /\ Faults \subseteq FaultKinds

VARIABLES
  mpc,            \* main: "start", "join", "clean", and "over" for the whole process
  sig_num,        \* the last signal, as its handler left it
  waiter,         \* next section of termination_waiter
  workers,        \* the two worker threads: "none", "running" or "cancelled"
  fd,             \* is the database open
  accept_mutex,   \* its holder or NoThread
  tpc,            \* next section of each request thread
  remote_reboot,  \* the setting of the configuration that allows it
  nm_restart_needed,
  reboot_needed,
  halting,        \* the system: "no", is to "stop", has "told" this process
  lan             \* are the settings of nmcli in effect

processVars == <<mpc, sig_num, waiter, workers, fd>>
poolVars == <<accept_mutex, tpc>>
flagVars == <<nm_restart_needed, reboot_needed, halting, lan>>
vars == <<processVars, remote_reboot, poolVars, flagVars>>

-----------------------------------------------------------------------------
(* Types *)

(* The waiter: polls; has cleared, is filling the settings; closes the devices;
   cancels the coolers worker and the sampler; cancels the request threads *)
WaiterPc == {"poll", "fill", "reset", "close", "workers", "threads", "ended"}

ThreadPc ==
  {"none",                        \* not yet created
   "lock", "accept",              \* for accept_mutex, for a request
   "nmcli", "need",               \* app_set_lan
   "reboot", "other",             \* app_reboot, other requests
   "check", "query",              \* for fd, for the answer of the database
   "finish", "after", "ended"}

TypeOK ==
  /\ mpc \in {"start", "join", "clean", "over"}
  /\ sig_num \in {"none", "TERM", "HUP"}
  /\ waiter \in WaiterPc
  /\ accept_mutex \in Threads \cup {NoThread}
  /\ tpc \in [Threads -> ThreadPc]
  /\ workers \in {"none", "running", "cancelled"}
  /\ fd \in BOOLEAN
  /\ remote_reboot \in BOOLEAN
  /\ nm_restart_needed \in BOOLEAN
  /\ reboot_needed \in BOOLEAN
  /\ halting \in {"no", "stop", "told"}
  /\ lan \in {"applied", "saved"}
  /\ mpc = "start" => \A t \in Threads : tpc[t] = "none"

-----------------------------------------------------------------------------
(* Signals and their waiter *)

Running == mpc # "over"

(* TERM stands for SIGINT and SIGQUIT, too.  The handler keeps the last one *)
Signal(s) ==
  /\ Running
  /\ sig_num' = s
  /\ UNCHANGED <<mpc, waiter, workers, fd, remote_reboot, poolVars, flagVars>>

WaiterGoto(from, to) ==
  /\ Running
  /\ waiter = from
  /\ waiter' = to

(* app_data_mutex: only app_read_config keeps it over several steps; the other
   sections under it are single actions that wait for it *)
DataFree == waiter # "fill"

PollSignal ==
  /\ \/ sig_num = "HUP" /\ WaiterGoto("poll", "fill") /\ remote_reboot' = FALSE
     \/ sig_num = "TERM" /\ WaiterGoto("poll", "close") /\ UNCHANGED remote_reboot
  /\ UNCHANGED <<mpc, sig_num, workers, fd, poolVars, flagVars>>

(* app_read_config has cleared the settings; without a readable file they stay so *)
FillConf ==
  /\ WaiterGoto("fill", "reset")
  /\ \/ remote_reboot' = TRUE
     \/ "file" \in Faults /\ UNCHANGED remote_reboot
  /\ UNCHANGED <<mpc, sig_num, workers, fd, poolVars, flagVars>>

(* Only now the signal is reset, whichever it is *)
ResetSignal ==
  /\ WaiterGoto("reset", "poll")
  /\ sig_num' = "none"
  /\ UNCHANGED <<mpc, workers, fd, remote_reboot, poolVars, flagVars>>

(* app_deinit: database, bus and serial line *)
CloseDevices ==
  /\ WaiterGoto("close", "workers")
  /\ fd' = FALSE
  /\ UNCHANGED <<mpc, sig_num, workers, remote_reboot, poolVars, flagVars>>

(* ... and the two workers, cancelled and joined.  A thread that was never created
   has no valid identifier, and its use as one ends the process *)
CancelWorkers ==
  /\ WaiterGoto("workers", "threads")
  /\ IF workers = "none"
     THEN mpc' = "over" /\ UNCHANGED workers
     ELSE workers' = "cancelled" /\ UNCHANGED mpc
  /\ UNCHANGED <<sig_num, fd, remote_reboot, poolVars, flagVars>>

(* Mutant: only threads that wait for a request are cancelled *)
CancelIdleThreads ==
  /\ WaiterGoto("threads", "ended")
  /\ tpc' = [t \in Threads |-> IF tpc[t] \in {"lock", "accept"} THEN "ended" ELSE tpc[t]]
  /\ UNCHANGED <<mpc, sig_num, workers, fd, remote_reboot, accept_mutex, flagVars>>

(* Mutant: threads that main has not created yet are cancelled like the others *)
CancelUncreated ==
  /\ WaiterGoto("threads", "ended")
  /\ tpc' = [t \in Threads |-> "ended"]
  /\ UNCHANGED <<mpc, sig_num, workers, fd, remote_reboot, accept_mutex, flagVars>>

(* The cancellation is asynchronous: it reaches a thread at whatever it does.  Before
   main has created the threads it is as with the workers *)
CancelThreads ==
  /\ WaiterGoto("threads", "ended")
  /\ IF mpc = "start"
     THEN mpc' = "over" /\ UNCHANGED tpc
     ELSE tpc' = [t \in Threads |-> "ended"] /\ UNCHANGED mpc
  /\ UNCHANGED <<sig_num, workers, fd, remote_reboot, accept_mutex, flagVars>>

Waiter ==
  \/ PollSignal
  \/ FillConf
  \/ ResetSignal
  \/ CloseDevices
  \/ CancelWorkers
  \/ CancelThreads

-----------------------------------------------------------------------------
(* main *)

(* The socket is opened and the threads are created, or main exits *)
CreateThreads ==
  /\ mpc = "start"
  /\ \/ mpc' = "join" /\ tpc' = [t \in Threads |-> "lock"]
     \/ "socket" \in Faults /\ mpc' = "over" /\ UNCHANGED tpc
  /\ UNCHANGED <<sig_num, waiter, workers, fd, remote_reboot, accept_mutex, flagVars>>

JoinThreads ==
  /\ mpc = "join"
  /\ \A t \in Threads : tpc[t] = "ended"
  /\ mpc' = "clean"
  /\ UNCHANGED <<sig_num, waiter, workers, fd, remote_reboot, poolVars, flagVars>>

(* The socket is closed, the waiter cancelled and joined; exit ends the rest *)
CleanUp ==
  /\ mpc = "clean"
  /\ mpc' = "over"
  /\ UNCHANGED <<sig_num, waiter, workers, fd, remote_reboot, poolVars, flagVars>>

Main ==
  \/ CreateThreads
  \/ JoinThreads
  \/ CleanUp

-----------------------------------------------------------------------------
(* The request threads *)

Goto(t, from, to) ==
  /\ Running
  /\ tpc[t] = from
  /\ tpc' = [tpc EXCEPT ![t] = to]

LockAccept(t) ==
  /\ accept_mutex = NoThread
  /\ Goto(t, "lock", "accept")
  /\ accept_mutex' = t
  /\ UNCHANGED <<processVars, remote_reboot, flagVars>>

FirstSection(r) ==
  CASE r = "lan"    -> "nmcli"
    [] r = "reboot" -> "reboot"
    [] r = "query"  -> "check"
    [] OTHER        -> "other"

(* FCGX_Accept_r returns with a request, or with an error, after which the thread
   ends *)
Accept(t) ==
  /\ \/ \E r \in Requests : Goto(t, "accept", FirstSection(r))
     \/ "socket" \in Faults /\ Goto(t, "accept", "ended")
  /\ accept_mutex' = NoThread
  /\ UNCHANGED <<processVars, remote_reboot, flagVars>>

(* app_set_lan, under settings_mutex from before nmcli until after the flag *)
SaveLan(t) ==
  /\ \A u \in Threads : tpc[u] # "need"
  /\ \/ Goto(t, "nmcli", "need") /\ lan' = "saved"
     \/ "nmcli" \in Faults /\ Goto(t, "nmcli", "finish") /\ UNCHANGED lan
  /\ UNCHANGED <<processVars, remote_reboot, accept_mutex, nm_restart_needed, reboot_needed, halting>>

NeedRestart(t) ==
  /\ DataFree
  /\ Goto(t, "need", "finish")
  /\ nm_restart_needed' = TRUE
  /\ UNCHANGED <<processVars, remote_reboot, accept_mutex, reboot_needed, halting, lan>>

(* app_reboot; app_poweroff is the same with flags of its own *)
AskReboot(t) ==
  /\ DataFree
  /\ Goto(t, "reboot", "finish")
  /\ reboot_needed' = (reboot_needed \/ remote_reboot)
  /\ UNCHANGED <<processVars, remote_reboot, accept_mutex, nm_restart_needed, halting, lan>>

(* Every operation of mydb looks at fd first ... *)
CheckDatabase(t) ==
  /\ Goto(t, "check", IF fd THEN "query" ELSE "finish")
  /\ UNCHANGED <<processVars, remote_reboot, accept_mutex, flagVars>>

(* ... and then uses it; on a handle that was closed in between SQLite may fail or
   crash *)
QueryDatabase(t) ==
  /\ Goto(t, "query", "finish")
  /\ mpc' \in {mpc} \cup (IF fd THEN {} ELSE {"over"})
  /\ UNCHANGED <<sig_num, waiter, workers, fd, remote_reboot, accept_mutex, flagVars>>

(* Any other request; one to the lamp may never end (module LampControl) *)
ServeOther(t) ==
  /\ Goto(t, "other", "finish")
  /\ UNCHANGED <<processVars, remote_reboot, accept_mutex, flagVars>>

Finish(t) ==
  /\ Goto(t, "finish", "after")
  /\ UNCHANGED <<processVars, remote_reboot, accept_mutex, flagVars>>

(* The command may fail, and nobody looks at its result *)
SystemReboot ==
  IF reboot_needed /\ halting = "no"
  THEN halting' = "stop" \/ ("reboot" \in Faults /\ UNCHANGED halting)
  ELSE UNCHANGED halting

(* Mutant: the flag of the network is lowered whether the restart works or not *)
AfterwardsUnchecked(t) ==
  /\ DataFree
  /\ Goto(t, "after", "lock")
  /\ nm_restart_needed' = FALSE
  /\ lan' \in (IF nm_restart_needed THEN {"applied"} ELSE {lan})
              \cup (IF "network" \in Faults THEN {lan} ELSE {})
  /\ SystemReboot
  /\ UNCHANGED <<processVars, remote_reboot, accept_mutex, reboot_needed>>

(* Mutant: the flag of the reboot is lowered, too, without a look at the result *)
AfterwardsForgetful(t) ==
  /\ DataFree
  /\ Goto(t, "after", "lock")
  /\ \/ /\ nm_restart_needed
        /\ nm_restart_needed' = FALSE /\ lan' = "applied"
     \/ /\ ~nm_restart_needed \/ "network" \in Faults
        /\ UNCHANGED <<nm_restart_needed, lan>>
  /\ SystemReboot
  /\ reboot_needed' = FALSE
  /\ UNCHANGED <<processVars, remote_reboot, accept_mutex>>

(* Once its answer is complete, a thread does what any of the requests so far has
   asked for; only a restart of the network that works lowers its flag, and nothing
   lowers that of the reboot *)
Afterwards(t) ==
  /\ DataFree
  /\ Goto(t, "after", "lock")
  /\ \/ /\ nm_restart_needed
        /\ nm_restart_needed' = FALSE /\ lan' = "applied"
     \/ /\ ~nm_restart_needed \/ "network" \in Faults
        /\ UNCHANGED <<nm_restart_needed, lan>>
  /\ SystemReboot
  /\ UNCHANGED <<processVars, remote_reboot, accept_mutex, reboot_needed>>

Serve(t) ==
  \/ SaveLan(t)
  \/ NeedRestart(t)
  \/ AskReboot(t)
  \/ CheckDatabase(t)
  \/ QueryDatabase(t)
  \/ Finish(t)
  \/ Afterwards(t)

-----------------------------------------------------------------------------

(* A system that stops tells its processes so *)
SystemStops ==
  /\ Running
  /\ halting = "stop"
  /\ halting' = "told"
  /\ sig_num' = "TERM"
  /\ UNCHANGED <<mpc, waiter, workers, fd, remote_reboot, poolVars, nm_restart_needed, reboot_needed, lan>>

(* main after signals_waiter_init.  A failure of app_init is not noticed: its result
   is never positive.  Then the workers were not created, and the database is not
   open or has no tables *)
Init ==
  /\ mpc = "start"
  /\ sig_num = "none"
  /\ waiter = "poll"
  /\ \/ workers = "running" /\ fd = TRUE
     \/ "open" \in Faults /\ workers = "none" /\ fd \in BOOLEAN
  /\ remote_reboot \in {TRUE} \cup (IF "file" \in Faults THEN {FALSE} ELSE {})
  /\ accept_mutex = NoThread
  /\ tpc = [t \in Threads |-> "none"]
  /\ nm_restart_needed = FALSE
  /\ reboot_needed = FALSE
  /\ halting = "no"
  /\ lan = "applied"

Next ==
  \/ \E s \in {"TERM", "HUP"} : Signal(s)
  \/ Waiter
  \/ Main
  \/ \E t \in Threads : LockAccept(t)
  \/ \E t \in Threads : Accept(t)
  \/ \E t \in Threads : Serve(t)
  \/ \E t \in Threads : ServeOther(t)
  \/ SystemStops

Spec == Init /\ [][Next]_vars

(* Every thread keeps running; nobody has to send a request or a signal, and a
   request of another kind may take for ever.  Strong fairness: between two reloads
   the waiter sleeps without app_data_mutex, so that it is not passed for ever; and the
   command that reboots does not fail for ever *)
Fairness ==
  /\ WF_vars(Waiter)
  /\ WF_vars(Main)
  /\ \A t \in Threads : SF_vars(Serve(t))
  /\ SF_vars(\E t \in Threads : Afterwards(t) /\ halting' # halting)

FairSpec == Spec /\ Fairness

-----------------------------------------------------------------------------
(* Properties *)

(* Settings of the network that are saved but not in effect are not forgotten:
   the flag is up that makes some thread restart the network manager, or a thread
   is about to raise it.  (Until the threads are cancelled, which may happen between
   the two.) *)
LanNotForgotten ==
  lan = "saved" /\ waiter # "ended" =>
    nm_restart_needed \/ \E t \in Threads : tpc[t] = "need"

(* The waiter that finds a termination signal ends the process, whatever the
   threads are doing, requests that never end included; a SIGHUP may come between. *)
TerminationEnds ==
  (sig_num = "TERM" /\ waiter = "poll") ~> (~Running \/ sig_num = "HUP")

(* A reboot that was asked for is not forgotten when the command fails: some thread
   tries again after a later request, until the system halts or the process ends.  (As
   long as requests keep coming to their end: no thread tries again before that.) *)
RebootFollows ==
  []<>(\E t \in Threads : tpc[t] = "after") =>
    (reboot_needed ~> (halting # "no" \/ ~Running))

=============================================================================
