----------------------------- MODULE BackendProofs -----------------------------
(* What is proved of Backend and V2Server for every number of request threads, all requests
   and every choice of faults. *)
EXTENDS Servers, TLAPS

ThreadSteps(t) ==
  \/ LockAccept(t)
  \/ Accept(t)
  \/ Serve(t)
  \/ ServeOther(t)

-----------------------------------------------------------------------------
(* Type correctness *)

LEMMA BackendInitTypeOK == Init => TypeOK
BY DEF Init, TypeOK, WaiterPc, ThreadPc

LEMMA SignalTypeOK ==
  ASSUME TypeOK, NEW s \in {"TERM", "HUP"}, Signal(s)
  PROVE  TypeOK'
BY DEF TypeOK, Signal, poolVars, flagVars

LEMMA WaiterTypeOK ==
  ASSUME TypeOK, Waiter
  PROVE  TypeOK'
<1> USE DEF TypeOK, WaiterPc, ThreadPc, WaiterGoto, poolVars, flagVars, Running
<1>1. CASE PollSignal
  <2>1. remote_reboot' \in BOOLEAN
    BY <1>1, Zenon DEF PollSignal
  <2>2. waiter' \in {"fill", "close"}
    BY <1>1 DEF PollSignal
  <2>3. UNCHANGED <<mpc, sig_num, workers, fd, poolVars, flagVars>>
    BY <1>1, Zenon DEF PollSignal
  <2> QED
    BY <2>1, <2>2, <2>3
<1>2. CASE FillConf
  <2>1. remote_reboot' \in BOOLEAN
    BY <1>2, Zenon DEF FillConf
  <2>2. waiter' = "reset" /\ UNCHANGED <<mpc, sig_num, workers, fd, poolVars, flagVars>>
    BY <1>2 DEF FillConf
  <2> QED
    BY <2>1, <2>2
<1>3. CASE ResetSignal
  BY <1>3 DEF ResetSignal
<1>4. CASE CloseDevices
  BY <1>4 DEF CloseDevices
<1>5. CASE CancelWorkers
  BY <1>5 DEF CancelWorkers
<1>6. CASE CancelThreads
  BY <1>6 DEF CancelThreads
<1> QED
  BY <1>1, <1>2, <1>3, <1>4, <1>5, <1>6 DEF Waiter

LEMMA MainTypeOK ==
  ASSUME TypeOK, Main
  PROVE  TypeOK'
<1> USE DEF TypeOK, ThreadPc, poolVars, flagVars
<1>1. CASE CreateThreads
  BY <1>1 DEF CreateThreads
<1>2. CASE JoinThreads
  BY <1>2 DEF JoinThreads
<1>3. CASE CleanUp
  BY <1>3 DEF CleanUp
<1> QED
  BY <1>1, <1>2, <1>3 DEF Main

(* A thread that takes a step exists, so that main is past its creation *)
LEMMA ThreadGoto ==
  ASSUME TypeOK, NEW t \in Threads, ThreadSteps(t)
  PROVE  /\ \E from, to \in ThreadPc \ {"none"} : Goto(t, from, to)
         /\ mpc # "start" /\ mpc' \in {mpc, "over"}
         /\ UNCHANGED <<sig_num, waiter, workers, fd, remote_reboot>>
<1> USE DEF Goto, ThreadPc
<1>1. \E from, to \in ThreadPc \ {"none"} : Goto(t, from, to)
  <2>1. CASE LockAccept(t)
    BY <2>1 DEF LockAccept
  <2>2. CASE Accept(t)
    BY <2>2 DEF Accept, FirstSection
  <2>3. CASE SaveLan(t) \/ NeedRestart(t) \/ AskReboot(t)
    BY <2>3 DEF SaveLan, NeedRestart, AskReboot
  <2>4. CASE CheckDatabase(t) \/ QueryDatabase(t) \/ Finish(t)
    BY <2>4 DEF CheckDatabase, QueryDatabase, Finish
  <2>5. CASE Afterwards(t) \/ ServeOther(t)
    BY <2>5 DEF Afterwards, ServeOther
  <2> QED
    BY <2>1, <2>2, <2>3, <2>4, <2>5 DEF ThreadSteps, Serve
<1>2. mpc # "start"
  BY <1>1 DEF TypeOK
<1>3. /\ mpc' \in {mpc, "over"}
      /\ UNCHANGED <<sig_num, waiter, workers, fd, remote_reboot>>
  BY DEF ThreadSteps, Serve, LockAccept, Accept, SaveLan, NeedRestart, AskReboot, CheckDatabase,
         QueryDatabase, Finish, Afterwards, ServeOther, processVars
<1> QED
  BY <1>1, <1>2, <1>3

LEMMA ThreadTypeOK ==
  ASSUME TypeOK, NEW t \in Threads, ThreadSteps(t)
  PROVE  TypeOK'
<1>1. tpc' \in [Threads -> ThreadPc]
  BY ThreadGoto DEF Goto, TypeOK
<1>2. accept_mutex' \in Threads \cup {NoThread} /\ lan' \in {"applied", "saved"}
  BY DEF ThreadSteps, Serve, LockAccept, Accept, SaveLan, NeedRestart, AskReboot, CheckDatabase,
         QueryDatabase, Finish, Afterwards, ServeOther, processVars, flagVars, TypeOK
<1>3. nm_restart_needed' \in BOOLEAN
  BY DEF ThreadSteps, Serve, LockAccept, Accept, SaveLan, NeedRestart, AskReboot, CheckDatabase,
         QueryDatabase, Finish, Afterwards, ServeOther, processVars, flagVars, TypeOK
<1>4. reboot_needed' \in BOOLEAN
  BY DEF ThreadSteps, Serve, LockAccept, Accept, SaveLan, NeedRestart, AskReboot, CheckDatabase,
         QueryDatabase, Finish, Afterwards, ServeOther, processVars, flagVars, TypeOK
<1>5. halting' \in {"no", "stop", "told"}
  BY DEF ThreadSteps, Serve, LockAccept, Accept, SaveLan, NeedRestart, AskReboot, CheckDatabase,
         QueryDatabase, Finish, Afterwards, SystemReboot, ServeOther, processVars, flagVars, TypeOK
<1> QED
  BY <1>1, <1>2, <1>3, <1>4, <1>5, ThreadGoto DEF TypeOK

LEMMA BackendTypeStep ==
  ASSUME TypeOK, [Next]_vars
  PROVE  TypeOK'
<1>1. CASE SystemStops
  BY <1>1 DEF SystemStops, TypeOK, poolVars
<1>2. CASE UNCHANGED vars
  BY <1>2 DEF vars, processVars, poolVars, flagVars, TypeOK
<1> QED
  BY <1>1, <1>2, SignalTypeOK, WaiterTypeOK, MainTypeOK, ThreadTypeOK DEF Next, ThreadSteps

(* Every variable keeps its type, and no thread is anywhere before main has created the
   threads. *)
THEOREM BackendTypeCorrect == Spec => []TypeOK
BY BackendInitTypeOK, BackendTypeStep, PTL DEF Spec

-----------------------------------------------------------------------------
(* The settings of the network *)

LEMMA LanThread ==
  ASSUME TypeOK, LanNotForgotten, NEW t \in Threads, ThreadSteps(t)
  PROVE  LanNotForgotten'
<1> USE DEF LanNotForgotten
<1>1. /\ waiter' = waiter
      /\ \A u \in Threads \ {t} : tpc'[u] = tpc[u]
  BY ThreadGoto DEF Goto, TypeOK
<1>2. CASE SaveLan(t)
  <2>1. CASE Goto(t, "nmcli", "need")
    BY <2>1 DEF Goto, TypeOK
  <2>2. CASE Goto(t, "nmcli", "finish") /\ lan' = lan
    BY <1>1, <1>2, <2>2 DEF SaveLan, Goto
  <2> QED
    BY <1>2, <2>1, <2>2 DEF SaveLan
<1>3. CASE NeedRestart(t)
  BY <1>3 DEF NeedRestart
<1>4. CASE Afterwards(t)
  BY <1>1, <1>4 DEF Afterwards, Goto
<1>5. CASE LockAccept(t) \/ Accept(t) \/ AskReboot(t) \/ CheckDatabase(t) \/ QueryDatabase(t)
           \/ Finish(t) \/ ServeOther(t)
  <2>1. tpc[t] # "need" /\ UNCHANGED <<nm_restart_needed, lan>>
    BY <1>5 DEF LockAccept, Accept, AskReboot, CheckDatabase, QueryDatabase, Finish, ServeOther,
                Goto, flagVars
  <2> QED
    BY <1>1, <2>1
<1> QED
  BY <1>2, <1>3, <1>4, <1>5 DEF ThreadSteps, Serve

LEMMA LanOther ==
  ASSUME TypeOK, LanNotForgotten, Waiter \/ Main \/ SystemStops \/ UNCHANGED vars
  PROVE  LanNotForgotten'
<1> USE DEF LanNotForgotten
<1>1. UNCHANGED <<nm_restart_needed, lan>>
  BY DEF Waiter, PollSignal, FillConf, ResetSignal, CloseDevices, CancelWorkers, CancelThreads,
         Main, CreateThreads, JoinThreads, CleanUp, SystemStops, vars, flagVars
<1>2. CASE CancelThreads
  BY <1>2 DEF CancelThreads, WaiterGoto
<1>3. CASE CreateThreads
  <2>1. \A t \in Threads : tpc[t] # "need"
    BY <1>3 DEF CreateThreads, TypeOK
  <2> QED
    BY <1>1, <1>3, <2>1 DEF CreateThreads
<1>4. CASE tpc' = tpc /\ (waiter # "ended" \/ waiter' = waiter)
  BY <1>1, <1>4
<1>5. (Waiter /\ ~CancelThreads) \/ JoinThreads \/ CleanUp \/ SystemStops \/ UNCHANGED vars
      => tpc' = tpc /\ (waiter # "ended" \/ waiter' = waiter)
  BY DEF Waiter, PollSignal, FillConf, ResetSignal, CloseDevices, CancelWorkers, WaiterGoto,
         JoinThreads, CleanUp, SystemStops, vars, processVars, poolVars
<1> QED
  BY <1>2, <1>3, <1>4, <1>5 DEF Main

LEMMA LanStep ==
  ASSUME TypeOK, LanNotForgotten, [Next]_vars
  PROVE  LanNotForgotten'
<1>1. ASSUME NEW s \in {"TERM", "HUP"}, Signal(s) PROVE LanNotForgotten'
  BY <1>1 DEF Signal, LanNotForgotten, poolVars, flagVars
<1> QED
  BY <1>1, LanThread, LanOther DEF Next, ThreadSteps

(* Saved settings of the network are never forgotten, whatever fails and whoever
   restarts the network manager in the meantime. *)
THEOREM LanNeverForgotten == Spec => []LanNotForgotten
<1>1. Init => LanNotForgotten
  BY DEF Init, LanNotForgotten
<1>2. TypeOK /\ LanNotForgotten /\ [Next]_vars => LanNotForgotten'
  BY LanStep
<1> QED
  BY <1>1, <1>2, BackendTypeCorrect, PTL DEF Spec

-----------------------------------------------------------------------------
(* The second backend *)

V2ThreadSteps(t) ==
  \/ V2!Worker(t)
  \/ V2!AcceptRequest(t)
  \/ V2!AcceptError(t)
  \/ V2!WaitInterrupted(t)
  \/ V2!SignalInWorker(t)

(* A step of a thread moves that thread, and the mutex goes with the section in which
   requests are accepted *)
LEMMA V2ThreadMoves ==
  ASSUME V2!TypeOK, NEW t \in Threads, V2ThreadSteps(t)
  PROVE  /\ wpc' = [wpc EXCEPT ![t] = wpc'[t]]
         /\ wpc'[t] \in V2!WorkerPc
         /\ wpc[t] # "none"
         /\ main' = main /\ open' = open /\ stop_main' \in BOOLEAN
         /\ \/ wpc[t] = "lock" /\ wpc'[t] = "accept" /\ request_mutex = NoThread /\ request_mutex' = t
            \/ wpc[t] = "accept" /\ wpc'[t] # "accept" /\ request_mutex' = NoThread
            \/ (wpc[t] = "accept" <=> wpc'[t] = "accept") /\ request_mutex' = request_mutex
<1> USE DEF V2!TypeOK, V2!WorkerPc
<1>1. CASE V2!LockRequest(t)
  BY <1>1 DEF V2!LockRequest
<1>2. CASE V2!AcceptFails(t) \/ V2!AcceptRequest(t) \/ V2!AcceptError(t)
  BY <1>2 DEF V2!AcceptFails, V2!AcceptRequest, V2!AcceptError, V2!AcceptEnds
<1>3. CASE V2!Finish(t) \/ V2!WaitOver(t) \/ V2!WaitInterrupted(t)
  BY <1>3 DEF V2!Finish, V2!WaitOver, V2!WaitInterrupted
<1>4. CASE V2!SignalInWorker(t)
  BY <1>4 DEF V2!SignalInWorker
<1> QED
  BY <1>1, <1>2, <1>3, <1>4 DEF V2ThreadSteps, V2!Worker

(* main creates the threads and ends those that wait, and leaves the mutex alone *)
LEMMA V2MainMoves ==
  ASSUME V2!TypeOK, V2!Main \/ V2!SignalInMain
  PROVE  /\ main' \in V2!MainPc /\ stop_main' \in BOOLEAN /\ open' \in BOOLEAN
         /\ request_mutex' = request_mutex
         /\ wpc' \in [Threads -> V2!WorkerPc]
         /\ main' = "start" => main = "start" /\ wpc' = wpc
         /\ \/ main = "start" /\ wpc' = [t \in Threads |-> "lock"]
            \/ \A t \in Threads : wpc'[t] = "accept" <=> wpc[t] = "accept"
<1> USE DEF V2!TypeOK, V2!WorkerPc, V2!MainPc
<1>1. CASE V2!Start
  BY <1>1 DEF V2!Start
<1>2. CASE V2!TestStop \/ V2!FallAsleep \/ V2!NapOver
  BY <1>2 DEF V2!TestStop, V2!FallAsleep, V2!NapOver
<1>3. CASE V2!Deinit
  BY <1>3 DEF V2!Deinit
<1>4. CASE V2!NotifyAll
  BY <1>4 DEF V2!NotifyAll
<1>5. CASE V2!Join
  BY <1>5 DEF V2!Join
<1>6. CASE V2!SignalInMain
  BY <1>6 DEF V2!SignalInMain
<1> QED
  BY <1>1, <1>2, <1>3, <1>4, <1>5, <1>6 DEF V2!Main

LEMMA V2TypeStep ==
  ASSUME V2!TypeOK, V2!Next
  PROVE  V2!TypeOK'
<1>1. ASSUME NEW t \in Threads, V2ThreadSteps(t) PROVE V2!TypeOK'
  BY <1>1, V2ThreadMoves DEF V2!TypeOK
<1>2. ASSUME V2!Main \/ V2!SignalInMain PROVE V2!TypeOK'
  BY <1>2, V2MainMoves DEF V2!TypeOK
<1> QED
  BY <1>1, <1>2 DEF V2!Next, V2ThreadSteps

-----------------------------------------------------------------------------
(* Both programs *)

(* Every variable of both programs keeps its type. *)
THEOREM ServersTypeCorrect == Servers => []ServersTypeOK
<1>1. ServersInit => ServersTypeOK
  <2>1. ASSUME FirstInstalled PROVE TypeOK /\ V2!TypeOK
    BY <2>1, BackendInitTypeOK DEF FirstInstalled, V2!TypeOK, V2!MainPc, V2!WorkerPc
  <2>2. ASSUME SecondInstalled PROVE TypeOK /\ V2!TypeOK
    BY <2>2 DEF SecondInstalled, TypeOK, WaiterPc, ThreadPc, V2!Init, V2!TypeOK, V2!MainPc,
                V2!WorkerPc
  <2> QED
    BY <2>1, <2>2 DEF ServersInit, ServersTypeOK
<1>2. ServersTypeOK /\ [ServersNext]_serversVars => ServersTypeOK'
  <2>1. ASSUME V2!TypeOK, UNCHANGED v2Vars PROVE V2!TypeOK'
    BY <2>1 DEF v2Vars, V2!TypeOK
  <2> QED
    BY <2>1, BackendTypeStep, V2TypeStep DEF ServersNext, serversVars, ServersTypeOK
<1> QED
  BY <1>1, <1>2, PTL DEF Servers

(* The settings of the network on the device with either program *)
THEOREM ServersLanNeverForgotten == Servers => []LanNotForgotten
<1>1. ServersInit => LanNotForgotten
  BY DEF ServersInit, FirstInstalled, SecondInstalled, Init, LanNotForgotten
<1>2. ServersTypeOK /\ LanNotForgotten /\ [ServersNext]_serversVars => LanNotForgotten'
  BY LanStep DEF ServersNext, serversVars, ServersTypeOK
<1> QED
  BY <1>1, <1>2, ServersTypeCorrect, PTL DEF Servers

-----------------------------------------------------------------------------
(* The mutex around FCGX_Accept_r *)

FirstMutex ==
  \A t \in Threads :
    /\ tpc[t] = "accept" => accept_mutex = t
    /\ accept_mutex = t => tpc[t] = "accept" \/ \A u \in Threads : tpc[u] = "ended"

(* Before main creates them, no thread is anywhere *)
SecondMutex ==
  /\ \A t \in Threads : wpc[t] = "accept" <=> request_mutex = t
  /\ main = "start" => \A t \in Threads : wpc[t] = "none"

LEMMA FirstMutexStep ==
  ASSUME TypeOK, FirstMutex, [Next]_vars
  PROVE  FirstMutex'
<1> USE DEF FirstMutex
<1>1. ASSUME NEW t \in Threads, ThreadSteps(t) PROVE FirstMutex'
  <2>1. /\ \A u \in Threads \ {t} : tpc'[u] = tpc[u]
        /\ tpc[t] # "ended"
    BY <1>1, ThreadGoto DEF Goto, TypeOK, LockAccept, Accept, ThreadSteps, Serve, SaveLan, NeedRestart,
       AskReboot, CheckDatabase, QueryDatabase, Finish, Afterwards, ServeOther
  <2>2. CASE LockAccept(t)
    <3>1. accept_mutex' = t /\ tpc'[t] = "accept" /\ accept_mutex = NoThread
      BY <2>2 DEF LockAccept, Goto, TypeOK
    <3> QED
      BY <2>1, <3>1, BackendAssumption
  <2>3. CASE Accept(t)
    <3>1. accept_mutex' = NoThread /\ tpc[t] = "accept" /\ tpc'[t] # "accept"
      BY <2>3 DEF Accept, Goto, TypeOK, FirstSection
    <3> QED
      BY <2>1, <3>1, BackendAssumption
  <2>4. CASE Serve(t) \/ ServeOther(t)
    <3>1. accept_mutex' = accept_mutex /\ tpc[t] # "accept" /\ tpc'[t] # "accept"
      BY <2>4 DEF Serve, SaveLan, NeedRestart, AskReboot, CheckDatabase, QueryDatabase, Finish,
                  Afterwards, ServeOther, Goto, TypeOK
    <3> QED
      BY <2>1, <3>1
  <2> QED
    BY <1>1, <2>2, <2>3, <2>4 DEF ThreadSteps
<1>2. CASE CreateThreads
  BY <1>2 DEF CreateThreads, TypeOK
<1>3. CASE CancelThreads
  BY <1>3 DEF CancelThreads
<1>4. (Waiter /\ ~CancelThreads) \/ JoinThreads \/ CleanUp \/ SystemStops \/ UNCHANGED vars
      => UNCHANGED <<tpc, accept_mutex>>
  BY DEF Waiter, PollSignal, FillConf, ResetSignal, CloseDevices, CancelWorkers, JoinThreads,
         CleanUp, SystemStops, vars, processVars, poolVars
<1>5. ASSUME NEW s \in {"TERM", "HUP"}, Signal(s) PROVE UNCHANGED <<tpc, accept_mutex>>
  BY <1>5 DEF Signal, poolVars
<1>6. ASSUME UNCHANGED <<tpc, accept_mutex>> PROVE FirstMutex'
  BY <1>6
<1> QED
  BY <1>1, <1>2, <1>3, <1>4, <1>5, <1>6 DEF Next, Main, ThreadSteps

LEMMA SecondMutexStep ==
  ASSUME V2!TypeOK, SecondMutex, V2!Next
  PROVE  SecondMutex'
<1> USE DEF SecondMutex
<1>1. ASSUME NEW t \in Threads, V2ThreadSteps(t) PROVE SecondMutex'
  <2>1. \A u \in Threads \ {t} : wpc'[u] = wpc[u]
    BY <1>1, V2ThreadMoves DEF V2!TypeOK
  <2>2. main' = main /\ main # "start"
    BY <1>1, V2ThreadMoves
  <2> QED
    BY <1>1, <2>1, <2>2, V2ThreadMoves, BackendAssumption
<1>2. ASSUME V2!Main \/ V2!SignalInMain PROVE SecondMutex'
  <2>1. \A t \in Threads : wpc'[t] = "accept" <=> wpc[t] = "accept"
    BY <1>2, V2MainMoves
  <2> QED
    BY <1>2, <2>1, V2MainMoves
<1> QED
  BY <1>1, <1>2 DEF V2!Next, V2ThreadSteps

(* In both programs the mutex is held by the thread that accepts a request and by no
   other, until the first program cancels all its threads. *)
THEOREM OneThreadAccepts == Servers => []MutexOfAccepting
<1> DEFINE I == FirstMutex /\ SecondMutex
<1>1. ServersInit => I
  <2>1. ServersInit => /\ accept_mutex = NoThread /\ \A t \in Threads : tpc[t] = "none"
                       /\ request_mutex = NoThread /\ \A t \in Threads : wpc[t] = "none"
    BY DEF ServersInit, FirstInstalled, SecondInstalled, Init, V2!Init
  <2> QED
    BY <2>1, BackendAssumption DEF FirstMutex, SecondMutex
<1>2. ServersTypeOK /\ I /\ [ServersNext]_serversVars => I'
  <2>1. ASSUME FirstMutex, UNCHANGED vars PROVE FirstMutex'
    BY <2>1 DEF vars, poolVars, FirstMutex
  <2>2. ASSUME SecondMutex, UNCHANGED v2Vars PROVE SecondMutex'
    BY <2>2 DEF v2Vars, SecondMutex
  <2> QED
    BY <2>1, <2>2, FirstMutexStep, SecondMutexStep DEF ServersNext, serversVars, ServersTypeOK
<1>3. I => MutexOfAccepting
  BY DEF FirstMutex, SecondMutex, MutexOfAccepting
<1> QED
  BY <1>1, <1>2, <1>3, ServersTypeCorrect, PTL DEF Servers

=============================================================================
