----------------------------- MODULE LampControl -----------------------------
(***************************************************************************)
(* The lamp controller FLC-01 behind its serial line (UI/src/flc.cpp) and  *)
(* the request threads that take turns on it under flc_mutex               *)
(* (app_set_flc_ch_pwr, app_set_flc_time, app_set_flc_smooth,              *)
(* app_set_flc_smooth_value, app_get_flc_status, app_get_sensors_data).    *)
(*                                                                         *)
(* The protocol has no sequence numbers: a line that arrives is taken for  *)
(* the answer to the request that is being waited for.  What keeps late    *)
(* answers apart is the flush before each request, and nothing else.       *)
(***************************************************************************)
EXTENDS Naturals, Sequences

CONSTANTS
  Threads,    \* the request threads, 4 in main.cpp
  Requests,   \* what clients may ask for
  Faults,     \* what may go wrong: a subset of FaultKinds
  Answers,    \* what the lamp may say: a subset of Content
  LampQueue,  \* bound: requests the lamp has received and not answered
  None,       \* no thread
  Earlier     \* stands for the thread of a request that has ended

Kinds == {"power", "setting", "status", "content"}

Request == [kind : Kinds, wellFormed : BOOLEAN]

(* "write": a write to the line fails; "late": the lamp takes more than the
   two seconds of select or the second of read; "interrupt": a signal ends
   select; "loss": lines are lost *)
FaultKinds == {"write", "late", "interrupt", "loss"}

(* What an answer says: "incomplete" has no result_code or result_text,
   "noise" cannot be parsed *)
Content == {"OK", "refused", "incomplete", "noise"}

ASSUME LampAssumption ==
  /\ Requests \subseteq Request
  /\ Faults \subseteq FaultKinds
  /\ Answers \subseteq Content /\ Answers # {}
  /\ LampQueue \in Nat \ {0}
  /\ None \notin Threads
  /\ Earlier \notin Threads

VARIABLES
  (* the request threads *)
  pc,         \* next section of each thread
  request,    \* the request each thread serves
  tries,      \* how often it has been sent
  buffer,     \* what has been read for it, the local buf
  result,     \* what the client is told
  flc_mutex,  \* the thread that has locked it, or None
  (* the line and the lamp *)
  output,     \* thread whose request waits in the port to be transmitted
  lamp,       \* requests the lamp has not answered
  input,      \* lines and parts of lines that wait in the port to be read
  (* history, not known to the code *)
  executed,   \* threads whose current request the lamp has carried out
  owed        \* threads which began when the lamp still owed answers

threadVars == <<pc, request, tries, buffer, result>>
lineVars == <<output, lamp, input>>
history == <<executed, owed>>
vars == <<threadVars, flc_mutex, lineVars, history>>

-----------------------------------------------------------------------------
(* Types *)

Pc == {"idle", "lock", "send", "wait", "read", "evaluate", "unlock", "reply"}

(* "blank": text "" and code 0, which flc_transcieve leaves after two answers
   it cannot parse; "nothing": no answer, or one that says nothing of the lamp *)
Result == {"OK", "refused", "failed", "blank", "nothing", "rejected"}

NoRequest == [kind |-> "none", wellFormed |-> FALSE]

Sender == Threads \cup {Earlier}

(* A line with its end, its beginning without the end, or the rest of it *)
Piece == [for : Sender, part : {"whole", "head", "rest"}, says : Content]

Pending == [for : Sender, begun : BOOLEAN, says : Content]

(* What the place of a thread says of its request and its tries *)
Placed(t) ==
  /\ pc[t] # "idle" => request[t] \in Requests
  /\ pc[t] = "send" => tries[t] < 2
  /\ pc[t] \in {"wait", "read", "evaluate"} => tries[t] > 0
  /\ pc[t] \in {"idle", "lock", "unlock", "reply"} => tries[t] = 0

TypeOK ==
  /\ pc \in [Threads -> Pc]
  /\ request \in [Threads -> Requests \cup {NoRequest}]
  /\ tries \in [Threads -> 0..2]
  /\ buffer \in [Threads -> Seq(Piece)]
  /\ result \in [Threads -> Result]
  /\ flc_mutex \in Threads \cup {None}
  /\ output \in Threads \cup {None}
  /\ lamp \in Seq(Pending)
  /\ input \in Seq(Piece)
  /\ executed \in SUBSET Threads
  /\ owed \in SUBSET Threads
  /\ \A t \in Threads : Placed(t)

-----------------------------------------------------------------------------
(* Helpers *)

(* json_to_flc_resp: cJSON_Parse takes the first document of the buffer and
   leaves what follows it; the start of one line runs into the next *)
Parsed(b) ==
  CASE b = <<>> -> "noise"
    [] b # <<>> /\ b[1].part = "whole" -> b[1].says
    [] Len(b) > 1 /\ b[1].part = "head" /\ b[2].part = "rest" -> b[1].says
    [] OTHER -> "noise"

(* What the handlers make of the last answer *)
Outcome(kind, says) ==
  CASE says = "OK" -> "OK"
    [] says # "OK" /\ kind \in {"status", "content"} -> "nothing"
    [] says = "refused" /\ kind \in {"power", "setting"} -> "refused"
    [] says = "incomplete" /\ kind \in {"power", "setting"} -> "failed"
    [] OTHER -> "blank"

(* What they make of a failed write or a timeout *)
Failure(kind) == IF kind = "content" THEN "nothing" ELSE "failed"

Aged(s, t) == [i \in 1..Len(s) |-> IF s[i].for = t THEN [s[i] EXCEPT !.for = Earlier] ELSE s[i]]

LampIsDone == output = None /\ lamp = <<>>

-----------------------------------------------------------------------------
(* The request threads *)

(* A thread accepts a request.  The handlers parse the body before they lock,
   except the one for the power of the channels *)
Receive(t) ==
  /\ pc[t] = "idle"
  /\ \E r \in Requests :
       /\ request' = [request EXCEPT ![t] = r]
       /\ IF r.wellFormed \/ r.kind = "power"
            THEN /\ pc' = [pc EXCEPT ![t] = "lock"]
                 /\ UNCHANGED result
            ELSE /\ pc' = [pc EXCEPT ![t] = "reply"]
                 /\ result' = [result EXCEPT ![t] = "rejected"]
  /\ UNCHANGED <<tries, buffer, flc_mutex, lineVars, history>>

(* Mutant: the exchange is not protected *)
Intrude(t) ==
  /\ pc[t] = "lock"
  /\ flc_mutex' = t
  /\ pc' = [pc EXCEPT ![t] = IF request[t].wellFormed THEN "send" ELSE "reply"]
  /\ result' = [result EXCEPT ![t] = IF request[t].wellFormed THEN @ ELSE "rejected"]
  /\ UNCHANGED <<request, tries, buffer, lineVars, history>>

(* app_set_flc_ch_pwr returns with flc_mutex locked when it cannot parse the
   body *)
Lock(t) ==
  /\ pc[t] = "lock"
  /\ flc_mutex = None
  /\ flc_mutex' = t
  /\ IF request[t].wellFormed
       THEN /\ pc' = [pc EXCEPT ![t] = "send"]
            /\ UNCHANGED result
       ELSE /\ pc' = [pc EXCEPT ![t] = "reply"]
            /\ result' = [result EXCEPT ![t] = "rejected"]
  /\ UNCHANGED <<request, tries, buffer, lineVars, history>>

(* flc_get_status and flc_transcieve return; their locals are gone *)
Return(t, outcome) ==
  /\ pc' = [pc EXCEPT ![t] = "unlock"]
  /\ result' = [result EXCEPT ![t] = outcome]
  /\ tries' = [tries EXCEPT ![t] = 0]
  /\ buffer' = [buffer EXCEPT ![t] = <<>>]

(* The first time a request is sent, what the lamp still has is of earlier
   ones *)
Begin(t) ==
  IF tries[t] = 0
    THEN /\ lamp' = Aged(lamp, t)
         /\ executed' = executed \ {t}
         /\ owed' = IF lamp # <<>> THEN owed \cup {t} ELSE owed \ {t}
    ELSE UNCHANGED <<lamp, history>>

Write(t) ==
  \/ /\ output' = t
     /\ pc' = [pc EXCEPT ![t] = "wait"]
     /\ tries' = [tries EXCEPT ![t] = @ + 1]
     /\ buffer' = [buffer EXCEPT ![t] = <<>>]
     /\ UNCHANGED result
  \/ /\ "write" \in Faults
     /\ output' = None
     /\ Return(t, Failure(request[t].kind))

(* Mutant: the input is not flushed *)
SendUnflushed(t) ==
  /\ pc[t] = "send"
  /\ Begin(t)
  /\ Write(t)
  /\ UNCHANGED <<request, flc_mutex, input>>

(* flc_send_request: tcflush discards both what has arrived and what has not
   been transmitted *)
Send(t) ==
  /\ pc[t] = "send"
  /\ Begin(t)
  /\ input' = <<>>
  /\ Write(t)
  /\ UNCHANGED <<request, flc_mutex>>

(* flc_get_responce: nothing arrives within two seconds *)
Timeout(t) ==
  /\ pc[t] = "wait"
  /\ input = <<>>
  /\ LampIsDone \/ "late" \in Faults
  /\ Return(t, Failure(request[t].kind))
  /\ UNCHANGED <<request, flc_mutex, lineVars, history>>

(* select ends with an error: flc_get_responce returns an empty buffer and no
   error *)
Interrupt(t) ==
  /\ pc[t] = "wait"
  /\ "interrupt" \in Faults
  /\ pc' = [pc EXCEPT ![t] = "evaluate"]
  /\ UNCHANGED <<request, tries, buffer, result, flc_mutex, lineVars, history>>

(* One read takes what has arrived; the loop ends at an end of line *)
Read(t) ==
  /\ pc[t] \in {"wait", "read"}
  /\ input # <<>>
  /\ buffer' = [buffer EXCEPT ![t] = @ \o input]
  /\ input' = <<>>
  /\ pc' = [pc EXCEPT ![t] = IF input[Len(input)].part = "head" THEN "read" ELSE "evaluate"]
  /\ UNCHANGED <<request, tries, result, flc_mutex, output, lamp, history>>

(* or after a second without input *)
ReadTimeout(t) ==
  /\ pc[t] = "read"
  /\ input = <<>>
  /\ LampIsDone \/ "late" \in Faults
  /\ pc' = [pc EXCEPT ![t] = "evaluate"]
  /\ UNCHANGED <<request, tries, buffer, result, flc_mutex, lineVars, history>>

(* Mutant: one more try than FLC_TRIES_NUM *)
MayRetry(t) == tries[t] <= 2

(* FLC_TRIES_NUM is 2 *)
TriesLeft(t) == tries[t] < 2

(* Mutant: the tries are counted anew after each answer *)
EvaluateAnew(t) ==
  /\ pc[t] = "evaluate"
  /\ IF Parsed(buffer[t]) = "noise"
       THEN /\ pc' = [pc EXCEPT ![t] = "send"]
            /\ tries' = [tries EXCEPT ![t] = 1]
            /\ UNCHANGED <<buffer, result>>
       ELSE Return(t, Outcome(request[t].kind, Parsed(buffer[t])))
  /\ UNCHANGED <<request, flc_mutex, lineVars, history>>

(* Only an answer that cannot be parsed is asked for again *)
Evaluate(t) ==
  /\ pc[t] = "evaluate"
  /\ IF Parsed(buffer[t]) = "noise" /\ TriesLeft(t)
       THEN /\ pc' = [pc EXCEPT ![t] = "send"]
            /\ UNCHANGED <<tries, buffer, result>>
       ELSE Return(t, Outcome(request[t].kind, Parsed(buffer[t])))
  /\ UNCHANGED <<request, flc_mutex, lineVars, history>>

Unlock(t) ==
  /\ pc[t] = "unlock"
  /\ flc_mutex' = None
  /\ pc' = [pc EXCEPT ![t] = "reply"]
  /\ UNCHANGED <<request, tries, buffer, result, lineVars, history>>

(* The connection is closed, with or without an answer *)
Reply(t) ==
  /\ pc[t] = "reply"
  /\ pc' = [pc EXCEPT ![t] = "idle"]
  /\ request' = [request EXCEPT ![t] = NoRequest]
  /\ result' = [result EXCEPT ![t] = "nothing"]
  /\ executed' = executed \ {t}
  /\ owed' = owed \ {t}
  /\ UNCHANGED <<tries, buffer, flc_mutex, lineVars>>

-----------------------------------------------------------------------------
(* The line and the lamp *)

Transmit ==
  /\ output # None
  /\ output' = None
  /\ \/ /\ Len(lamp) < LampQueue
        /\ \E says \in Answers :
             lamp' = Append(lamp, [for |-> output, begun |-> FALSE, says |-> says])
     \/ /\ "loss" \in Faults \/ Len(lamp) >= LampQueue
        /\ UNCHANGED lamp
  /\ UNCHANGED <<threadVars, flc_mutex, input, history>>

(* The lamp carries out a request and answers it in a whole line or in two
   pieces.  An answer that is damaged may be one to a request carried out *)
Answer ==
  /\ lamp # <<>>
  /\ ~Head(lamp).begun
  /\ \E part \in {"whole", "head"} :
       /\ input' = Append(input, [for |-> Head(lamp).for, part |-> part, says |-> Head(lamp).says])
       /\ lamp' = IF part = "whole" THEN Tail(lamp) ELSE <<[Head(lamp) EXCEPT !.begun = TRUE]>> \o Tail(lamp)
  /\ executed' = IF Head(lamp).says \in {"OK", "noise"} THEN executed \cup ({Head(lamp).for} \cap Threads)
                                                        ELSE executed
  /\ UNCHANGED <<threadVars, flc_mutex, output, owed>>

Finish ==
  /\ lamp # <<>>
  /\ Head(lamp).begun
  /\ input' = Append(input, [for |-> Head(lamp).for, part |-> "rest", says |-> Head(lamp).says])
  /\ lamp' = Tail(lamp)
  /\ UNCHANGED <<threadVars, flc_mutex, output, history>>

(* An answer, or the rest of one, never arrives *)
Lose ==
  /\ "loss" \in Faults
  /\ lamp # <<>>
  /\ lamp' = Tail(lamp)
  /\ UNCHANGED <<threadVars, flc_mutex, output, input, history>>

-----------------------------------------------------------------------------
Init ==
  /\ pc = [t \in Threads |-> "idle"]
  /\ request = [t \in Threads |-> NoRequest]
  /\ tries = [t \in Threads |-> 0]
  /\ buffer = [t \in Threads |-> <<>>]
  /\ result = [t \in Threads |-> "nothing"]
  /\ flc_mutex = None
  /\ output = None
  /\ lamp = <<>>
  /\ input = <<>>
  /\ executed = {}
  /\ owed = {}

Exchange(t) ==
  Send(t) \/ Timeout(t) \/ Interrupt(t) \/ Read(t) \/ ReadTimeout(t) \/ Evaluate(t) \/ Unlock(t)

Lamp == Answer \/ Finish \/ Lose

Next ==
  \/ \E t \in Threads : Receive(t) \/ Lock(t) \/ Exchange(t) \/ Reply(t)
  \/ Transmit
  \/ Lamp

Spec == Init /\ [][Next]_vars

(* Threads go on, and a thread that waits for flc_mutex gets it in the end;
   the port transmits; the lamp, when it is in time, answers *)
FairSpec ==
  /\ Spec
  /\ \A t \in Threads : WF_vars(Exchange(t) \/ Reply(t)) /\ SF_vars(Lock(t))
  /\ WF_vars(Transmit)
  /\ WF_vars(Lamp)

-----------------------------------------------------------------------------
(* Properties *)

Misled(t) == pc[t] \in {"unlock", "reply"} /\ result[t] = "OK" /\ t \notin executed

(* flc_transcieve, flc_get_status: when the answer is OK the lamp has carried
   out this very request, unless it still owed an answer to an earlier one when
   the request was first sent.  A late line that has already arrived by then is
   harmless: the flush takes it away *)
MisledOnlyByOwed == \A t \in Threads : Misled(t) => t \in owed

(* With a lamp that keeps within the time limits, however many lines are lost
   or damaged, an answer OK is always about this request *)
OkIsExecuted ==
  Faults \cap {"late", "interrupt"} = {} => \A t \in Threads : ~Misled(t)

(* "Serving all incomming requests" (httpserv.cpp:493): every request that has
   come to its handler ends with an answer or a closed connection *)
RequestsServed == \A t \in Threads : pc[t] = "lock" ~> pc[t] = "idle"

=============================================================================
