--------------------------------- MODULE Servers ---------------------------------
(* The device runs one of the two programs, Backend or V2Server.  The variables of the
   other stand still: it is over. *)
EXTENDS Backend

CONSTANT V2Faults  \* what may happen to the second one: a subset of V2!FaultKinds

VARIABLES main, stop_main, open, request_mutex, wpc

V2 == INSTANCE V2Server WITH Workers <- Threads, NoWorker <- NoThread, Faults <- V2Faults

ASSUME V2Assumption == V2!ServerAssumption

v2Vars == <<main, stop_main, open, request_mutex, wpc>>

FirstInstalled ==
  /\ Init
  /\ main = "over"
  /\ stop_main = FALSE
  /\ open = FALSE
  /\ request_mutex = NoThread
  /\ wpc = [t \in Threads |-> "none"]

SecondInstalled ==
  /\ V2!Init
  /\ mpc = "over"
  /\ sig_num = "none"
  /\ waiter = "ended"
  /\ workers = "none"
  /\ fd = FALSE
  /\ remote_reboot = FALSE
  /\ accept_mutex = NoThread
  /\ tpc = [t \in Threads |-> "none"]
  /\ nm_restart_needed = FALSE
  /\ reboot_needed = FALSE
  /\ halting = "no"
  /\ lan = "applied"

ServersInit == FirstInstalled \/ SecondInstalled

ServersNext ==
  \/ Next /\ UNCHANGED v2Vars
  \/ V2!Next /\ UNCHANGED vars

V2Fairness ==
  /\ WF_v2Vars(V2!Main)
  /\ \A t \in Threads : WF_v2Vars(V2!Worker(t))

serversVars == <<vars, v2Vars>>

Servers == ServersInit /\ [][ServersNext]_serversVars /\ Fairness /\ V2Fairness

-----------------------------------------------------------------------------

(* Every variable of both programs keeps its type. *)
ServersTypeOK == TypeOK /\ V2!TypeOK

(* The mutex around FCGX_Accept_r is held by the thread that is in it and by no other: a
   thread that ends, by an error, by a signal or because the socket is closed, does not
   take the mutex with it, so that the others still get in.  (The first backend cancels
   its threads wherever they are, mutex and all; but then it cancels every thread.) *)
MutexOfAccepting ==
  \A t \in Threads :
    /\ tpc[t] = "accept" => accept_mutex = t
    /\ accept_mutex = t => tpc[t] = "accept" \/ \A u \in Threads : tpc[u] = "ended"
    /\ wpc[t] = "accept" <=> request_mutex = t

(* A signal ends the second program, too *)
SignalStops == V2!SignalStops

=============================================================================
