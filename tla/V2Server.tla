-------------------------------- MODULE V2Server --------------------------------
(* The process of the second backend, src_v2/main.cpp: main, which waits for a signal
   and then shuts down, and the threads that accept requests. *)

CONSTANTS
  Workers,  \* the request threads, 4 in main.cpp
  NoWorker, \* nobody holds request_mutex
  Faults    \* what may happen besides: a subset of FaultKinds

FaultKinds ==
  {"spurious",  \* a condition variable wakes a thread without a reason
   "socket"}    \* opening the socket, accepting a request

ServerAssumption ==
  /\ NoWorker \notin Workers
  /\ Faults \subseteq FaultKinds

VARIABLES
  main,           \* next section of main: "test" and "nap" are its loop
  stop_main,      \* has a signal been caught
  open,           \* does fcgi_socket accept requests
  request_mutex,  \* its holder or NoWorker
  wpc             \* next section of each thread

vars == <<main, stop_main, open, request_mutex, wpc>>

-----------------------------------------------------------------------------

MainPc == {"start", "test", "tested", "nap", "deinit", "notify", "join", "over"}

WorkerPc == {"none", "lock", "accept", "finish", "wait", "ended"}

TypeOK ==
  /\ main \in MainPc
  /\ stop_main \in BOOLEAN
  /\ open \in BOOLEAN
  /\ request_mutex \in Workers \cup {NoWorker}
  /\ wpc \in [Workers -> WorkerPc]

Alive == main # "over"

-----------------------------------------------------------------------------
(* main *)

(* An exception, from the socket, ends main at once *)
Start ==
  /\ main = "start"
  /\ \/ /\ main' = "test" /\ open' = TRUE
        /\ wpc' = [w \in Workers |-> "lock"]
     \/ /\ "socket" \in Faults
        /\ main' = "over" /\ UNCHANGED <<open, wpc>>
  /\ UNCHANGED <<stop_main, request_mutex>>

TestStop ==
  /\ main = "test"
  /\ main' = IF stop_main THEN "deinit" ELSE "tested"
  /\ UNCHANGED <<stop_main, open, request_mutex, wpc>>

FallAsleep ==
  /\ main = "tested"
  /\ main' = "nap"
  /\ UNCHANGED <<stop_main, open, request_mutex, wpc>>

(* Ten seconds are over *)
NapOver ==
  /\ main = "nap"
  /\ main' = "test"
  /\ UNCHANGED <<stop_main, open, request_mutex, wpc>>

(* Mutant: the socket stays open *)
DeinitNothing ==
  /\ main = "deinit"
  /\ main' = "notify"
  /\ UNCHANGED <<stop_main, open, request_mutex, wpc>>

(* fcgi_deinit: no call of FCGX_Accept_r succeeds any more *)
Deinit ==
  /\ main = "deinit"
  /\ open' = FALSE
  /\ main' = "notify"
  /\ UNCHANGED <<stop_main, request_mutex, wpc>>

(* notify_all, without the mutex: whoever waits at this moment *)
NotifyAll ==
  /\ main = "notify"
  /\ wpc' = [w \in Workers |-> IF wpc[w] = "wait" THEN "ended" ELSE wpc[w]]
  /\ main' = "join"
  /\ UNCHANGED <<stop_main, open, request_mutex>>

Join ==
  /\ main = "join"
  /\ \A w \in Workers : wpc[w] = "ended"
  /\ main' = "over"
  /\ UNCHANGED <<stop_main, open, request_mutex, wpc>>

Main ==
  \/ Start
  \/ TestStop
  \/ FallAsleep
  \/ NapOver
  \/ Deinit
  \/ NotifyAll
  \/ Join

-----------------------------------------------------------------------------
(* worker_thread *)

LockRequest(w) ==
  /\ Alive
  /\ wpc[w] = "lock"
  /\ request_mutex = NoWorker
  /\ request_mutex' = w
  /\ wpc' = [wpc EXCEPT ![w] = "accept"]
  /\ UNCHANGED <<main, stop_main, open>>

(* Mutant: a thread that ends leaves before it unlocks *)
AcceptEndsLocked(w, next) ==
  /\ Alive
  /\ wpc[w] = "accept"
  /\ request_mutex' = IF next = "ended" THEN request_mutex ELSE NoWorker
  /\ wpc' = [wpc EXCEPT ![w] = next]
  /\ UNCHANGED <<main, stop_main, open>>

AcceptEnds(w, next) ==
  /\ Alive
  /\ wpc[w] = "accept"
  /\ request_mutex' = NoWorker
  /\ wpc' = [wpc EXCEPT ![w] = next]
  /\ UNCHANGED <<main, stop_main, open>>

(* A client has sent a request *)
AcceptRequest(w) == open /\ AcceptEnds(w, "finish")

(* The socket is closed: the thread ends *)
AcceptFails(w) == ~open /\ AcceptEnds(w, "ended")

(* ... or has an error *)
AcceptError(w) == "socket" \in Faults /\ open /\ AcceptEnds(w, "ended")

(* FCGX_Finish_r; then, with stop_threads_mutex, into the wait *)
Finish(w) ==
  /\ Alive
  /\ wpc[w] = "finish"
  /\ wpc' = [wpc EXCEPT ![w] = "wait"]
  /\ UNCHANGED <<main, stop_main, open, request_mutex>>

(* wait_for has its time, 5250 ms, over *)
WaitOver(w) ==
  /\ Alive
  /\ wpc[w] = "wait"
  /\ wpc' = [wpc EXCEPT ![w] = "lock"]
  /\ UNCHANGED <<main, stop_main, open, request_mutex>>

(* Any other end of the wait is taken for the call to stop *)
WaitInterrupted(w) ==
  /\ Alive
  /\ "spurious" \in Faults
  /\ wpc[w] = "wait"
  /\ wpc' = [wpc EXCEPT ![w] = "ended"]
  /\ UNCHANGED <<main, stop_main, open, request_mutex>>

Worker(w) ==
  \/ LockRequest(w)
  \/ AcceptFails(w)
  \/ Finish(w)
  \/ WaitOver(w)

-----------------------------------------------------------------------------

(* A signal runs its handler in main, whose sleep it ends if that has begun, or in
   any other thread: there it makes a FCGX_Accept_r under way fail *)
SignalInMain ==
  /\ Alive
  /\ stop_main' = TRUE
  /\ main' = IF main = "nap" THEN "test" ELSE main
  /\ UNCHANGED <<open, request_mutex, wpc>>

SignalInWorker(w) ==
  /\ Alive
  /\ wpc[w] \in {"lock", "accept", "finish", "wait"}
  /\ stop_main' = TRUE
  /\ IF wpc[w] = "accept"
     THEN wpc' = [wpc EXCEPT ![w] = "ended"] /\ request_mutex' = NoWorker
     ELSE UNCHANGED <<wpc, request_mutex>>
  /\ UNCHANGED <<main, open>>

Init ==
  /\ main = "start"
  /\ stop_main = FALSE
  /\ open = FALSE
  /\ request_mutex = NoWorker
  /\ wpc = [w \in Workers |-> "none"]

Next ==
  \/ Main
  \/ \E w \in Workers : Worker(w)
  \/ \E w \in Workers : AcceptRequest(w)
  \/ \E w \in Workers : AcceptError(w)
  \/ \E w \in Workers : WaitInterrupted(w)
  \/ SignalInMain
  \/ \E w \in Workers : SignalInWorker(w)

Spec == Init /\ [][Next]_vars

(* Every thread keeps running, and a wait ends with its time.  Nobody has to send a
   request or a signal *)
Fairness ==
  /\ WF_vars(Main)
  /\ \A w \in Workers : WF_vars(Worker(w))

FairSpec == Spec /\ Fairness

-----------------------------------------------------------------------------

(* A signal ends the process, wherever it finds main and the threads: main sleeps
   for ten seconds at most, and threads that miss the notification find the socket
   closed. *)
SignalStops == stop_main ~> ~Alive

=============================================================================
