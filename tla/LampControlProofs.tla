-------------------------- MODULE LampControlProofs --------------------------
(***************************************************************************)
(* What is proved of LampControl for every number of request threads, every*)
(* set of requests, every choice of faults and every queue of the lamp.    *)
(***************************************************************************)
EXTENDS LampControl, SequenceTheorems, TLAPS

-----------------------------------------------------------------------------
(* Sequences that hold pieces of lines and pending requests *)

LEMMA AgedType ==
  ASSUME NEW s \in Seq(Pending), NEW t \in Threads
  PROVE  Aged(s, t) \in Seq(Pending)
<1>1. Len(s) \in Nat
  OBVIOUS
<1>2. ASSUME NEW i \in 1..Len(s)
      PROVE  (IF s[i].for = t THEN [s[i] EXCEPT !.for = Earlier] ELSE s[i]) \in Pending
  <2>1. s[i] \in Pending
    OBVIOUS
  <2>2. [s[i] EXCEPT !.for = Earlier] \in Pending
    BY <2>1 DEF Pending, Sender
  <2> QED
    BY <2>1, <2>2
<1> QED
  BY <1>1, <1>2 DEF Aged

LEMMA AgedEmpty ==
  ASSUME NEW t
  PROVE  Aged(<<>>, t) = <<>>
BY DEF Aged

LEMMA SingleTail ==
  ASSUME NEW s \in Seq(Pending), s # <<>>, Len(s) <= 1
  PROVE  Tail(s) = <<>>
<1>1. Len(s) = 1
  <2>1. Len(s) \in Nat /\ Len(s) # 0
    BY EmptySeq
  <2> QED
    BY <2>1
<1>2. Tail(s) \in Seq(Pending) /\ Len(Tail(s)) = 0
  BY <1>1, HeadTailProperties
<1> QED
  BY <1>2, EmptySeq

LEMMA OutcomeType ==
  ASSUME NEW kind, NEW says
  PROVE  Outcome(kind, says) \in Result /\ (Outcome(kind, says) = "OK" <=> says = "OK")
BY DEF Outcome, Result

LEMMA FailureType ==
  ASSUME NEW kind
  PROVE  Failure(kind) \in Result \ {"OK"}
BY DEF Failure, Result

-----------------------------------------------------------------------------
(* Type correctness *)

LEMMA InitType == Init => TypeOK
BY LampAssumption DEF Init, TypeOK, Placed, Pc, Result, NoRequest

(* Every step of every thread, of the port and of the lamp keeps the types *)
LEMMA StepType == TypeOK /\ [Next]_vars => TypeOK'
<1> SUFFICES ASSUME TypeOK, [Next]_vars PROVE TypeOK'
  OBVIOUS
<1> USE LampAssumption DEF TypeOK
<1>1. ASSUME NEW t \in Threads, Receive(t) PROVE TypeOK'
  <2>1. PICK r \in Requests : request' = [request EXCEPT ![t] = r]
    BY <1>1 DEF Receive
  <2>2. pc' \in [Threads -> Pc] /\ pc'[t] \in {"lock", "reply"}
    BY <1>1 DEF Receive, Pc
  <2>3. result' \in [Threads -> Result]
    BY <1>1 DEF Receive, Result
  <2>4. ASSUME NEW u \in Threads PROVE Placed(u)'
    BY <1>1, <2>1, <2>2 DEF Receive, Placed
  <2> QED
    BY <1>1, <2>1, <2>2, <2>3, <2>4 DEF Receive, lineVars, history
<1>2. ASSUME NEW t \in Threads, Lock(t) PROVE TypeOK'
  <2>1. pc' \in [Threads -> Pc] /\ result' \in [Threads -> Result]
    BY <1>2 DEF Lock, Pc, Result
  <2>2. ASSUME NEW u \in Threads PROVE Placed(u)'
    <3>1. pc[t] = "lock" /\ pc'[t] \in {"send", "reply"} /\ Placed(t) /\ Placed(u)
      BY <1>2 DEF Lock
    <3>2. u # t => pc'[u] = pc[u]
      BY <1>2 DEF Lock
    <3> QED
      BY <1>2, <3>1, <3>2 DEF Lock, Placed
  <2> QED
    BY <1>2, <2>1, <2>2 DEF Lock, lineVars, history
<1>3. ASSUME NEW t \in Threads, Send(t) PROVE TypeOK'
  <2>1. lamp' \in Seq(Pending) /\ executed' \in SUBSET Threads /\ owed' \in SUBSET Threads
    <3>1. Begin(t)
      BY <1>3 DEF Send
    <3>2. Aged(lamp, t) \in Seq(Pending)
      BY AgedType
    <3> QED
      BY <3>1, <3>2 DEF Begin, history
  <2>2. pc[t] = "send" /\ tries[t] < 2 /\ tries[t] + 1 \in 1..2
    <3>1. pc[t] = "send" /\ Placed(t) /\ tries[t] \in 0..2
      BY <1>3 DEF Send
    <3> QED
      BY <3>1 DEF Placed
  <2>3. CASE output' = None /\ Return(t, Failure(request[t].kind))
    <3>1. ASSUME NEW u \in Threads PROVE Placed(u)'
      BY <1>3, <2>2, <2>3 DEF Send, Return, Placed
    <3> QED
      BY <1>3, <2>1, <2>3, <3>1, FailureType DEF Send, Return, Pc
  <2>4. CASE /\ output' = t
             /\ pc' = [pc EXCEPT ![t] = "wait"]
             /\ tries' = [tries EXCEPT ![t] = @ + 1]
             /\ buffer' = [buffer EXCEPT ![t] = <<>>]
             /\ UNCHANGED result
    <3>1. tries' \in [Threads -> 0..2] /\ pc' \in [Threads -> Pc]
      BY <2>2, <2>4 DEF Pc
    <3>2. ASSUME NEW u \in Threads PROVE Placed(u)'
      BY <1>3, <2>2, <2>4 DEF Send, Placed
    <3> QED
      BY <1>3, <2>1, <2>4, <3>1, <3>2 DEF Send
  <2> QED
    BY <1>3, <2>3, <2>4 DEF Send, Write
<1>4. ASSUME NEW t \in Threads, Timeout(t) PROVE TypeOK'
  BY <1>4, FailureType DEF Timeout, Return, Placed, Pc, lineVars, history
<1>5. ASSUME NEW t \in Threads, Interrupt(t) PROVE TypeOK'
  BY <1>5 DEF Interrupt, Placed, Pc, lineVars, history
<1>6. ASSUME NEW t \in Threads, Read(t) PROVE TypeOK'
  <2>1. buffer[t] \o input \in Seq(Piece)
    OBVIOUS
  <2>2. ASSUME NEW u \in Threads PROVE Placed(u)'
    BY <1>6 DEF Read, Placed
  <2> QED
    BY <1>6, <2>1, <2>2 DEF Read, Pc, history
<1>7. ASSUME NEW t \in Threads, ReadTimeout(t) PROVE TypeOK'
  BY <1>7 DEF ReadTimeout, Placed, Pc, lineVars, history
<1>8. ASSUME NEW t \in Threads, Evaluate(t) PROVE TypeOK'
  <2>1. CASE pc' = [pc EXCEPT ![t] = "send"] /\ tries[t] < 2 /\ UNCHANGED <<tries, buffer, result>>
    BY <1>8, <2>1 DEF Evaluate, Placed, Pc, lineVars, history
  <2>2. CASE Return(t, Outcome(request[t].kind, Parsed(buffer[t])))
    BY <1>8, <2>2, OutcomeType DEF Evaluate, Return, Placed, Pc, lineVars, history
  <2> QED
    BY <1>8, <2>1, <2>2 DEF Evaluate, TriesLeft
<1>9. ASSUME NEW t \in Threads, Unlock(t) PROVE TypeOK'
  BY <1>9 DEF Unlock, Placed, Pc, lineVars, history
<1>10. ASSUME NEW t \in Threads, Reply(t) PROVE TypeOK'
  BY <1>10 DEF Reply, Placed, Pc, Result, lineVars
<1>11. CASE Transmit
  <2>1. \A says \in Answers : [for |-> output, begun |-> FALSE, says |-> says] \in Pending
    BY <1>11 DEF Transmit, Pending, Sender
  <2>2. lamp' \in Seq(Pending)
    <3>1. \A p \in Pending : Append(lamp, p) \in Seq(Pending)
      OBVIOUS
    <3>2. CASE UNCHANGED lamp
      BY <3>2
    <3>3. CASE \E says \in Answers :
                 lamp' = Append(lamp, [for |-> output, begun |-> FALSE, says |-> says])
      BY <2>1, <3>1, <3>3
    <3> QED
      BY <1>11, <3>2, <3>3 DEF Transmit
  <2> QED
    BY <1>11, <2>2 DEF Transmit, Placed, threadVars, history
<1>12. CASE Answer
  <2>1. lamp # <<>> /\ Head(lamp) \in Pending /\ Tail(lamp) \in Seq(Pending)
    BY <1>12 DEF Answer
  <2>2. \A part \in {"whole", "head"} :
          [for |-> Head(lamp).for, part |-> part, says |-> Head(lamp).says] \in Piece
    BY <2>1 DEF Pending, Piece
  <2>3. <<[Head(lamp) EXCEPT !.begun = TRUE]>> \o Tail(lamp) \in Seq(Pending)
    <3>1. [Head(lamp) EXCEPT !.begun = TRUE] \in Pending
      BY <2>1 DEF Pending
    <3> QED
      BY <2>1, <3>1
  <2>4. input' \in Seq(Piece) /\ lamp' \in Seq(Pending)
    BY <1>12, <2>1, <2>2, <2>3 DEF Answer
  <2> QED
    BY <1>12, <2>4 DEF Answer, Placed, threadVars
<1>13. CASE Finish
  <2>1. lamp # <<>> /\ Head(lamp) \in Pending /\ Tail(lamp) \in Seq(Pending)
    BY <1>13 DEF Finish
  <2>2. [for |-> Head(lamp).for, part |-> "rest", says |-> Head(lamp).says] \in Piece
    BY <2>1 DEF Pending, Piece
  <2> QED
    BY <1>13, <2>1, <2>2 DEF Finish, Placed, threadVars, history
<1>14. CASE Lose
  BY <1>14 DEF Lose, Placed, threadVars, history
<1>15. CASE UNCHANGED vars
  BY <1>15 DEF vars, Placed, threadVars, lineVars, history
<1> QED
  BY <1>1, <1>2, <1>3, <1>4, <1>5, <1>6, <1>7, <1>8, <1>9, <1>10, <1>11, <1>12, <1>13, <1>14, <1>15
  DEF Next, Exchange, Lamp

(* The state of threads, line and lamp always has its type: no thread sends a
   request a third time, and none leaves its handler without a request *)
THEOREM LampTypeCorrect == Spec => []TypeOK
BY InitType, StepType, PTL DEF Spec

-----------------------------------------------------------------------------
(* Whose lines are on the way *)

InExchange(t) == pc[t] \in {"send", "wait", "read", "evaluate", "unlock"}

(* Only the thread that has locked flc_mutex is in an exchange *)
Exclusive == \A t \in Threads : InExchange(t) => flc_mutex = t

(* A piece of a line is an answer to t, and to what the lamp has carried out *)
Fits(p, t) == p.for = t /\ (p.says = "OK" => t \in executed)

AllFit(s, t) == \A i \in 1..Len(s) : Fits(s[i], t)

AllPending(t) ==
  \A i \in 1..Len(lamp) : lamp[i].for = t /\ (lamp[i].begun => Fits(lamp[i], t))

Own(t) == output \in {t, None} /\ AllPending(t) /\ AllFit(input, t) /\ AllFit(buffer[t], t)

Sent(t) == pc[t] \in {"wait", "read", "evaluate"} \/ (pc[t] = "send" /\ tries[t] > 0)

(* Nothing else is on the way if nothing was owed when the request was sent *)
Clean == \A t \in Threads : Sent(t) /\ t \notin owed => Own(t)

LampInv == TypeOK /\ Exclusive /\ Clean /\ MisledOnlyByOwed

LEMMA LampInvInit == Init => LampInv
<1> SUFFICES ASSUME Init PROVE LampInv
  OBVIOUS
<1>1. \A t \in Threads : pc[t] = "idle"
  BY DEF Init
<1> QED
  BY <1>1, InitType DEF LampInv, Exclusive, InExchange, Clean, Sent, MisledOnlyByOwed, Misled

(* Threads enter an exchange only by locking the mutex *)
LEMMA ExclusiveStep == TypeOK /\ Exclusive /\ [Next]_vars => Exclusive'
<1> SUFFICES ASSUME TypeOK, Exclusive, [Next]_vars, NEW u \in Threads, InExchange(u)'
             PROVE  flc_mutex' = u
  BY DEF Exclusive
<1>1. pc \in [Threads -> Pc] /\ None \notin Threads
  BY LampAssumption DEF TypeOK
<1>2. ASSUME NEW t \in Threads, Receive(t) \/ Reply(t) PROVE flc_mutex' = u
  BY <1>1, <1>2 DEF Exclusive, InExchange, Receive, Reply
<1>3. ASSUME NEW t \in Threads, Lock(t) PROVE flc_mutex' = u
  <2>1. u # t => pc'[u] = pc[u]
    BY <1>1, <1>3 DEF Lock
  <2> QED
    BY <1>1, <1>3, <2>1 DEF Exclusive, InExchange, Lock
<1>4. ASSUME NEW t \in Threads, Send(t) PROVE flc_mutex' = u
  <2>1. \E place \in Pc : pc' = [pc EXCEPT ![t] = place]
    BY <1>4 DEF Send, Write, Return, Pc
  <2> QED
    BY <1>1, <1>4, <2>1 DEF Exclusive, InExchange, Send
<1>5. ASSUME NEW t \in Threads, Timeout(t) \/ Interrupt(t) \/ ReadTimeout(t) \/ Read(t)
      PROVE  flc_mutex' = u
  BY <1>1, <1>5 DEF Exclusive, InExchange, Timeout, Return, Interrupt, ReadTimeout, Read
<1>6. ASSUME NEW t \in Threads, Evaluate(t) PROVE flc_mutex' = u
  BY <1>1, <1>6 DEF Exclusive, InExchange, Evaluate, Return
<1>7. ASSUME NEW t \in Threads, Unlock(t) PROVE flc_mutex' = u
  BY <1>1, <1>7 DEF Exclusive, InExchange, Unlock
<1>8. CASE Transmit \/ Lamp \/ UNCHANGED vars
  BY <1>8 DEF Exclusive, InExchange, Transmit, Lamp, Answer, Finish, Lose, vars, threadVars
<1> QED
  BY <1>2, <1>3, <1>4, <1>5, <1>6, <1>7, <1>8 DEF Next, Exchange

(* Two threads are never both in an exchange *)
LEMMA Alone ==
  ASSUME Exclusive, NEW t \in Threads, NEW u \in Threads, InExchange(t), InExchange(u)
  PROVE  t = u
BY DEF Exclusive

LEMMA OwnStays ==
  ASSUME NEW u \in Threads, Own(u), UNCHANGED <<output, lamp, input, executed>>,
         buffer'[u] = buffer[u]
  PROVE  Own(u)'
BY DEF Own, AllPending, AllFit, Fits

(* Appending keeps a sequence of fitting pieces *)
LEMMA AppendFits ==
  ASSUME NEW u, NEW s \in Seq(Piece), NEW p \in Piece, AllFit(s, u), Fits(p, u)
  PROVE  AllFit(Append(s, p), u)
<1> SUFFICES ASSUME NEW i \in 1..Len(Append(s, p)) PROVE Fits(Append(s, p)[i], u)
  BY DEF AllFit
<1>1. CASE i \in 1..Len(s)
  <2>1. Append(s, p)[i] = s[i]
    BY <1>1
  <2> QED
    BY <1>1, <2>1 DEF AllFit
<1>2. CASE i = Len(s) + 1
  <2>1. Append(s, p)[i] = p
    BY <1>2
  <2> QED
    BY <2>1
<1>3. Len(s) \in Nat /\ Len(Append(s, p)) = Len(s) + 1
  OBVIOUS
<1> QED
  BY <1>1, <1>2, <1>3

LEMMA JoinFits ==
  ASSUME NEW u, NEW r \in Seq(Piece), NEW s \in Seq(Piece), AllFit(r, u), AllFit(s, u)
  PROVE  AllFit(r \o s, u)
<1> SUFFICES ASSUME NEW i \in 1..Len(r \o s) PROVE Fits((r \o s)[i], u)
  BY DEF AllFit
<1>1. Len(r) \in Nat /\ Len(s) \in Nat /\ Len(r \o s) = Len(r) + Len(s)
  OBVIOUS
<1>2. CASE i \in 1..Len(r)
  <2>1. (r \o s)[i] = r[i]
    BY <1>2
  <2> QED
    BY <1>2, <2>1 DEF AllFit
<1>3. CASE i > Len(r)
  <2>1. i - Len(r) \in 1..Len(s) /\ (r \o s)[i] = s[i - Len(r)]
    BY <1>1, <1>3
  <2> QED
    BY <2>1 DEF AllFit
<1> QED
  BY <1>1, <1>2, <1>3

(* What is on the way to a thread stays its own *)
LEMMA CleanStep == TypeOK /\ Exclusive /\ Clean /\ [Next]_vars => Clean'
<1> SUFFICES ASSUME TypeOK, Exclusive, Clean, [Next]_vars,
                    NEW u \in Threads, Sent(u)', u \notin owed'
             PROVE  Own(u)'
  BY DEF Clean
<1>1. pc \in [Threads -> Pc] /\ tries \in [Threads -> 0..2] /\ buffer \in [Threads -> Seq(Piece)]
  BY DEF TypeOK
<1>2. lamp \in Seq(Pending) /\ input \in Seq(Piece)
  BY DEF TypeOK
<1>3. Sent(u) => InExchange(u)
  BY DEF Sent, InExchange
<1>4. ASSUME NEW t \in Threads, Receive(t) \/ Lock(t) \/ Unlock(t) \/ Reply(t) PROVE Own(u)'
  <2>1. UNCHANGED <<output, lamp, input, buffer, tries>>
    BY <1>4 DEF Receive, Lock, Unlock, Reply, lineVars
  <2>2. u # t
    <3>1. pc[t] \in {"idle", "lock", "unlock", "reply"}
      BY <1>4 DEF Receive, Lock, Unlock, Reply
    <3>2. tries[t] = 0
      BY <3>1 DEF TypeOK, Placed
    <3>3. pc'[t] \in {"idle", "lock", "send", "reply"}
      BY <1>1, <1>4 DEF Receive, Lock, Unlock, Reply
    <3> QED
      BY <2>1, <3>2, <3>3 DEF Sent
  <2>3. pc'[u] = pc[u]
    BY <1>1, <1>4, <2>2 DEF Receive, Lock, Unlock, Reply
  <2>4. (u \in executed' <=> u \in executed) /\ (u \in owed' <=> u \in owed)
    BY <1>4, <2>2 DEF Receive, Lock, Unlock, Reply, history
  <2>5. Own(u)
    BY <2>1, <2>3, <2>4 DEF Clean, Sent
  <2> QED
    BY <2>1, <2>4, <2>5 DEF Own, AllPending, AllFit, Fits
<1>5. ASSUME NEW t \in Threads, Send(t) PROVE Own(u)'
  <2>1. pc[t] = "send" /\ InExchange(t)
    BY <1>5 DEF Send, InExchange
  <2>2. u = t
    <3>1. u # t => pc'[u] = pc[u] /\ tries'[u] = tries[u]
      BY <1>1, <1>5 DEF Send, Write, Return
    <3> QED
      BY <1>3, <2>1, <3>1, Alone DEF Sent
  <2>3. output' = t /\ buffer'[t] = <<>> /\ input' = <<>>
    <3>1. CASE Return(t, Failure(request[t].kind))
      BY <1>1, <2>2, <3>1 DEF Return, Sent
    <3> QED
      BY <1>1, <1>5, <3>1 DEF Send, Write
  <2>4. CASE tries[t] = 0
    <3>1. lamp = <<>> /\ lamp' = <<>>
      BY <1>5, <2>2, <2>4, AgedEmpty DEF Send, Begin
    <3> QED
      BY <2>2, <2>3, <3>1 DEF Own, AllPending, AllFit
  <2>5. CASE tries[t] > 0
    <3>1. UNCHANGED <<lamp, executed, owed>>
      BY <1>5, <2>5 DEF Send, Begin, history
    <3>2. Own(t)
      BY <2>1, <2>2, <2>5, <3>1 DEF Clean, Sent
    <3> QED
      BY <2>2, <2>3, <3>1, <3>2 DEF Own, AllPending, AllFit, Fits
  <2> QED
    BY <1>1, <2>4, <2>5
<1>6. ASSUME NEW t \in Threads, Timeout(t) \/ Interrupt(t) \/ ReadTimeout(t) \/ Evaluate(t)
      PROVE  Own(u)'
  <2>1. UNCHANGED <<output, lamp, input, executed, owed>>
    BY <1>6 DEF Timeout, Interrupt, ReadTimeout, Evaluate, lineVars, history
  <2>2. InExchange(t)
    BY <1>6 DEF Timeout, Interrupt, ReadTimeout, Evaluate, InExchange
  <2>3. u # t => pc'[u] = pc[u] /\ tries'[u] = tries[u]
    BY <1>1, <1>6 DEF Timeout, Interrupt, ReadTimeout, Evaluate, Return
  <2>4. u = t
    BY <1>3, <2>2, <2>3, Alone DEF Sent
  <2>5. pc[t] \in {"wait", "read", "evaluate"}
    BY <1>6 DEF Timeout, Interrupt, ReadTimeout, Evaluate
  <2>6. buffer'[t] = buffer[t]
    <3>1. pc'[t] # "unlock"
      BY <2>4 DEF Sent
    <3> QED
      BY <1>1, <1>6, <3>1 DEF Timeout, Interrupt, ReadTimeout, Evaluate, Return
  <2>7. Own(t)
    BY <2>1, <2>4, <2>5 DEF Clean, Sent
  <2> QED
    BY <2>1, <2>4, <2>6, <2>7, OwnStays
<1>7. ASSUME NEW t \in Threads, Read(t) PROVE Own(u)'
  <2>1. InExchange(t) /\ UNCHANGED <<output, lamp, tries, executed, owed>>
    BY <1>7 DEF Read, InExchange, history
  <2>2. u # t => pc'[u] = pc[u]
    BY <1>1, <1>7 DEF Read
  <2>3. u = t
    BY <1>3, <2>1, <2>2, Alone DEF Sent
  <2>4. Own(t)
    BY <1>7, <2>1, <2>3 DEF Read, Clean, Sent
  <2>5. buffer'[t] = buffer[t] \o input /\ input' = <<>>
    BY <1>1, <1>7 DEF Read
  <2>6. AllFit(buffer[t] \o input, t)
    BY <1>1, <1>2, <2>4, JoinFits DEF Own
  <2> QED
    BY <2>1, <2>3, <2>4, <2>5, <2>6 DEF Own, AllPending, AllFit, Fits
<1>8. ASSUME Transmit PROVE Own(u)'
  <2>1. UNCHANGED <<pc, tries, buffer, input, executed, owed>> /\ output # None /\ output' = None
    BY <1>8 DEF Transmit, threadVars, history
  <2>2. Own(u)
    BY <2>1 DEF Clean, Sent
  <2>3. output = u
    BY <2>1, <2>2 DEF Own
  <2>4. AllPending(u)'
    <3>1. CASE UNCHANGED lamp
      BY <2>1, <2>2, <3>1 DEF Own, AllPending, Fits
    <3>2. ASSUME NEW says \in Answers,
                 lamp' = Append(lamp, [for |-> output, begun |-> FALSE, says |-> says])
          PROVE  AllPending(u)'
      <4>1. Len(lamp) \in Nat /\ Len(lamp') = Len(lamp) + 1
        BY <1>2, <3>2
      <4>2. ASSUME NEW i \in 1..Len(lamp) PROVE lamp'[i] = lamp[i]
        BY <1>2, <3>2
      <4>3. lamp'[Len(lamp) + 1].for = u /\ ~lamp'[Len(lamp) + 1].begun
        BY <1>2, <2>3, <3>2
      <4> QED
        BY <2>1, <2>2, <4>1, <4>2, <4>3 DEF Own, AllPending, Fits
    <3> QED
      BY <1>8, <3>1, <3>2 DEF Transmit
  <2> QED
    BY <2>1, <2>2, <2>4 DEF Own, AllFit, Fits
<1>9. ASSUME Lose PROVE Own(u)'
  <2>1. UNCHANGED <<pc, tries, output, buffer, input, executed, owed>> /\ lamp # <<>>
    BY <1>9 DEF Lose, threadVars, history
  <2>2. Own(u)
    BY <2>1 DEF Clean, Sent
  <2>3. \A i \in 1..Len(lamp') : i + 1 \in 1..Len(lamp) /\ lamp'[i] = lamp[i + 1]
    BY <1>2, <1>9, <2>1 DEF Lose
  <2> QED
    BY <2>1, <2>2, <2>3 DEF Own, AllPending, AllFit, Fits
<1>10. ASSUME Finish PROVE Own(u)'
  <2>1. UNCHANGED <<pc, tries, output, buffer, executed, owed>> /\ lamp # <<>>
    BY <1>10 DEF Finish, threadVars, history
  <2>2. Own(u)
    BY <2>1 DEF Clean, Sent
  <2>3. \A i \in 1..Len(lamp') : i + 1 \in 1..Len(lamp) /\ lamp'[i] = lamp[i + 1]
    BY <1>2, <1>10, <2>1 DEF Finish
  <2>4. Head(lamp) \in Pending /\ Head(lamp).begun /\ Head(lamp) = lamp[1] /\ 1 \in 1..Len(lamp)
    BY <1>2, <1>10, <2>1 DEF Finish
  <2> DEFINE piece == [for |-> Head(lamp).for, part |-> "rest", says |-> Head(lamp).says]
  <2>5. piece \in Piece /\ Fits(piece, u)
    BY <2>2, <2>4 DEF Own, AllPending, Fits, Pending, Piece
  <2>6. input' = Append(input, piece)
    BY <1>10 DEF Finish
  <2>7. AllFit(Append(input, piece), u)
    BY <1>2, <2>2, <2>5, AppendFits DEF Own
  <2> QED
    BY <2>1, <2>2, <2>3, <2>6, <2>7 DEF Own, AllPending, AllFit, Fits
<1>11. ASSUME Answer PROVE Own(u)'
  <2> DEFINE FitsNow(p) == p.for = u /\ (p.says = "OK" => u \in executed')
  <2>1. UNCHANGED <<pc, tries, output, buffer, owed>> /\ lamp # <<>>
    BY <1>11 DEF Answer, threadVars
  <2>2. Own(u)
    BY <2>1 DEF Clean, Sent
  <2>3. Head(lamp) \in Pending /\ Head(lamp) = lamp[1] /\ 1 \in 1..Len(lamp) /\ Head(lamp).for = u
    BY <1>2, <2>1, <2>2 DEF Own, AllPending
  <2>4. (u \in executed => u \in executed') /\ (Head(lamp).says = "OK" => u \in executed')
    BY <1>11, <2>3 DEF Answer
  <2>5. PICK part \in {"whole", "head"} :
          /\ input' = Append(input, [for |-> Head(lamp).for, part |-> part, says |-> Head(lamp).says])
          /\ lamp' = IF part = "whole" THEN Tail(lamp)
                                       ELSE <<[Head(lamp) EXCEPT !.begun = TRUE]>> \o Tail(lamp)
    BY <1>11 DEF Answer
  <2>6. \A i \in 1..Len(input') : FitsNow(input'[i])
    <3> DEFINE piece == [for |-> Head(lamp).for, part |-> part, says |-> Head(lamp).says]
    <3>1. piece \in Piece /\ FitsNow(piece)
      BY <2>3, <2>4 DEF Pending, Piece
    <3>2. \A i \in 1..Len(input) : FitsNow(input[i])
      BY <2>2, <2>4 DEF Own, AllFit, Fits
    <3>3. input' = Append(input, piece)
      BY <2>5
    <3> HIDE DEF piece
    <3>4. ASSUME NEW i \in 1..Len(input')
          PROVE  input'[i] = piece \/ (i \in 1..Len(input) /\ input'[i] = input[i])
      BY <1>2, <3>1, <3>3
    <3> QED
      BY <3>1, <3>2, <3>4
  <2>7. \A i \in 1..Len(lamp') : lamp'[i].for = u /\ (lamp'[i].begun => FitsNow(lamp'[i]))
    <3>1. \A i \in 1..Len(lamp) : lamp[i].for = u /\ (lamp[i].begun => FitsNow(lamp[i]))
      BY <2>2, <2>4 DEF Own, AllPending, Fits
    <3>2. CASE lamp' = Tail(lamp)
      <4>1. \A i \in 1..Len(lamp') : i + 1 \in 1..Len(lamp) /\ lamp'[i] = lamp[i + 1]
        BY <1>2, <2>1, <3>2
      <4> QED
        BY <3>1, <4>1
    <3>3. CASE lamp' = <<[Head(lamp) EXCEPT !.begun = TRUE]>> \o Tail(lamp)
      <4> DEFINE first == [Head(lamp) EXCEPT !.begun = TRUE]
      <4>1. first \in Pending /\ FitsNow(first)
        BY <2>3, <2>4 DEF Pending
      <4>2. lamp' = <<first>> \o Tail(lamp)
        BY <3>3
      <4> HIDE DEF first
      <4>3. Tail(lamp) \in Seq(Pending) /\ Len(Tail(lamp)) = Len(lamp) - 1 /\ Len(lamp) \in Nat
        BY <1>2, <2>1
      <4>4. \A i \in 1..Len(Tail(lamp)) : Tail(lamp)[i] = lamp[i + 1]
        BY <1>2, <2>1
      <4>5. Len(lamp') = Len(lamp) /\ lamp'[1] = first
        BY <4>1, <4>2, <4>3
      <4>6. ASSUME NEW i \in 2..Len(lamp) PROVE lamp'[i] = lamp[i]
        <5>1. i - 1 \in 1..Len(Tail(lamp)) /\ lamp'[i] = Tail(lamp)[i - 1]
          BY <4>1, <4>2, <4>3
        <5> QED
          BY <4>4, <5>1
      <4> QED
        BY <3>1, <4>1, <4>3, <4>5, <4>6
    <3> QED
      BY <2>5, <3>2, <3>3
  <2>8. \A i \in 1..Len(buffer[u]) : FitsNow(buffer[u][i])
    BY <2>2, <2>4 DEF Own, AllFit, Fits
  <2>9. output' \in {u, None} /\ buffer'[u] = buffer[u]
    BY <2>1, <2>2 DEF Own
  <2> QED
    BY <2>6, <2>7, <2>8, <2>9 DEF Own, AllPending, AllFit, Fits
<1>12. CASE UNCHANGED vars
  <2>1. UNCHANGED <<pc, tries, output, lamp, buffer, input, executed, owed>>
    BY <1>12 DEF vars, threadVars, lineVars, history
  <2> QED
    BY <2>1, OwnStays DEF Clean, Sent
<1> QED
  BY <1>4, <1>5, <1>6, <1>7, <1>8, <1>9, <1>10, <1>11, <1>12 DEF Next, Exchange, Lamp

(* An answer is OK when the first line in the buffer says so *)
LEMMA ParsedOK ==
  ASSUME NEW b \in Seq(Piece), Parsed(b) = "OK"
  PROVE  1 \in 1..Len(b) /\ b[1].says = "OK"
BY DEF Parsed

LEMMA MisledStep == LampInv /\ [Next]_vars => MisledOnlyByOwed'
<1> SUFFICES ASSUME LampInv, [Next]_vars, NEW u \in Threads, Misled(u)'
             PROVE  u \in owed'
  BY DEF MisledOnlyByOwed
<1>1. /\ pc \in [Threads -> Pc]
      /\ result \in [Threads -> Result]
      /\ buffer \in [Threads -> Seq(Piece)]
  BY DEF LampInv, TypeOK
<1>2. Misled(u) => u \in owed
  BY DEF LampInv, MisledOnlyByOwed
<1>3. ASSUME NEW t \in Threads, Receive(t) \/ Lock(t) \/ Unlock(t) \/ Reply(t) PROVE u \in owed'
  <2>1. CASE t = u
    <3>1. CASE Receive(u) \/ Lock(u)
      BY <1>1, <3>1 DEF Receive, Lock, Misled
    <3>2. CASE Unlock(u)
      BY <1>1, <1>2, <3>2 DEF Unlock, Misled, history
    <3>3. CASE Reply(u)
      BY <1>1, <3>3 DEF Reply, Misled
    <3> QED
      BY <1>3, <2>1, <3>1, <3>2, <3>3
  <2>2. CASE t # u
    <3>1. pc'[u] = pc[u] /\ result'[u] = result[u]
      BY <1>1, <1>3, <2>2 DEF Receive, Lock, Unlock, Reply
    <3>2. (u \in executed' <=> u \in executed) /\ (u \in owed' <=> u \in owed)
      BY <1>3, <2>2 DEF Receive, Lock, Unlock, Reply, history
    <3> QED
      BY <1>2, <3>1, <3>2 DEF Misled
  <2> QED
    BY <2>1, <2>2
<1>4. ASSUME NEW t \in Threads, Send(t) PROVE u \in owed'
  <2>1. u # t => (u \in executed' <=> u \in executed) /\ (u \in owed' <=> u \in owed)
    BY <1>4 DEF Send, Begin, history
  <2>2. u # t => pc'[u] = pc[u] /\ result'[u] = result[u]
    BY <1>1, <1>4 DEF Send, Write, Return
  <2>3. u # t
    BY <1>1, <1>4, FailureType DEF Send, Write, Return, Misled
  <2> QED
    BY <1>2, <2>1, <2>2, <2>3 DEF Misled
<1>5. ASSUME NEW t \in Threads, Timeout(t) \/ Interrupt(t) \/ Read(t) \/ ReadTimeout(t)
      PROVE  u \in owed'
  <2>1. UNCHANGED <<executed, owed>>
    BY <1>5 DEF Timeout, Interrupt, Read, ReadTimeout, history
  <2>2. u # t => pc'[u] = pc[u] /\ result'[u] = result[u]
    BY <1>1, <1>5 DEF Timeout, Interrupt, Read, ReadTimeout, Return
  <2>3. u # t
    BY <1>1, <1>5, FailureType DEF Timeout, Interrupt, Read, ReadTimeout, Return, Misled
  <2> QED
    BY <1>2, <2>1, <2>2, <2>3 DEF Misled
<1>6. ASSUME NEW t \in Threads, Evaluate(t) PROVE u \in owed'
  <2>1. UNCHANGED <<executed, owed>> /\ pc[t] = "evaluate"
    BY <1>6 DEF Evaluate, history
  <2>2. CASE u # t
    <3>1. pc'[u] = pc[u] /\ result'[u] = result[u]
      BY <1>1, <1>6, <2>2 DEF Evaluate, Return
    <3> QED
      BY <1>2, <2>1, <3>1 DEF Misled
  <2>3. CASE u = t
    <3>1. pc'[t] = "unlock" /\ result'[t] = Outcome(request[t].kind, Parsed(buffer[t]))
      BY <1>1, <1>6, <2>3 DEF Evaluate, Return, Misled
    <3>2. Parsed(buffer[t]) = "OK"
      BY <2>3, <3>1, OutcomeType DEF Misled
    <3>3. 1 \in 1..Len(buffer[t]) /\ buffer[t][1].says = "OK"
      BY <1>1, <3>2, ParsedOK
    <3>4. Own(t) => t \in executed
      BY <3>3 DEF Own, AllFit, Fits
    <3>5. t \notin owed => Own(t)
      BY <2>1 DEF LampInv, Clean, Sent
    <3> QED
      BY <2>1, <2>3, <3>4, <3>5 DEF Misled
  <2> QED
    BY <2>2, <2>3
<1>7. CASE Transmit \/ Lamp \/ UNCHANGED vars
  <2>1. UNCHANGED <<pc, result, owed>> /\ (u \in executed => u \in executed')
    BY <1>7 DEF Transmit, Lamp, Answer, Finish, Lose, vars, threadVars, history
  <2> QED
    BY <1>2, <2>1 DEF Misled
<1> QED
  BY <1>3, <1>4, <1>5, <1>6, <1>7 DEF Next, Exchange

(* An answer OK is about this request, unless the lamp still owed answers when
   it was sent (flc_transcieve, flc_get_status) *)
THEOREM LampNotMisled == Spec => []MisledOnlyByOwed
<1>1. LampInv /\ [Next]_vars => LampInv'
  BY StepType, ExclusiveStep, CleanStep, MisledStep DEF LampInv
<1>2. LampInv => MisledOnlyByOwed
  BY DEF LampInv
<1> QED
  BY LampInvInit, <1>1, <1>2, PTL DEF Spec

-----------------------------------------------------------------------------
(* A lamp that keeps within the time limits *)

InTime == Faults \cap {"late", "interrupt"} = {}

Waiting(t) == pc[t] \in {"wait", "read"}

LastIsHead(s) == s # <<>> /\ s[Len(s)].part = "head"

(* The lamp and the line have nothing to do unless a thread waits, and at most
   one thing to do when it does *)
Quiet ==
  /\ LampIsDone \/ \E t \in Threads : Waiting(t)
  /\ Len(lamp) <= 1
  /\ output # None => lamp = <<>> /\ input = <<>>
  /\ lamp # <<>> => IF Head(lamp).begun THEN input = <<>> \/ LastIsHead(input) ELSE input = <<>>
  /\ \A t \in Threads : pc[t] = "read" => output = None /\ (lamp # <<>> => Head(lamp).begun)

NothingOwed == owed = {} /\ Quiet

LEMMA NothingOwedInit == Init => NothingOwed
<1> SUFFICES ASSUME Init PROVE NothingOwed
  OBVIOUS
<1>1. owed = {} /\ output = None /\ lamp = <<>> /\ \A t \in Threads : pc[t] = "idle"
  BY DEF Init
<1> QED
  BY <1>1 DEF NothingOwed, Quiet, LampIsDone

(* Steps that leave the line alone and let nobody stop waiting *)
LEMMA QuietStays ==
  ASSUME Quiet, UNCHANGED lineVars,
         \A t \in Threads : Waiting(t)' <=> Waiting(t),
         \A t \in Threads : pc'[t] = "read" => pc[t] = "read"
  PROVE  Quiet'
BY DEF Quiet, LampIsDone, LastIsHead, lineVars

(* In time, each exchange leaves the line as empty as it has found it *)
LEMMA NothingOwedStep ==
  InTime /\ TypeOK /\ Exclusive /\ NothingOwed /\ [Next]_vars => NothingOwed'
<1> SUFFICES ASSUME InTime, TypeOK, Exclusive, NothingOwed, [Next]_vars PROVE NothingOwed'
  OBVIOUS
<1>1. pc \in [Threads -> Pc] /\ lamp \in Seq(Pending) /\ input \in Seq(Piece)
  BY DEF TypeOK
<1>2. owed = {} /\ Quiet
  BY DEF NothingOwed
<1>3. "late" \notin Faults /\ "interrupt" \notin Faults
  BY DEF InTime
<1>4. None \notin Threads
  BY LampAssumption
<1>5. \A t \in Threads : Waiting(t) => InExchange(t)
  BY DEF Waiting, InExchange
<1>6. ASSUME NEW t \in Threads, Receive(t) \/ Lock(t) \/ Unlock(t) \/ Reply(t) PROVE NothingOwed'
  <2>1. UNCHANGED lineVars /\ owed' = {}
    BY <1>2, <1>6 DEF Receive, Lock, Unlock, Reply, history
  <2>2. pc[t] \in {"idle", "lock", "unlock", "reply"}
    BY <1>6 DEF Receive, Lock, Unlock, Reply
  <2>3. pc'[t] \in {"idle", "lock", "send", "reply"} /\ \A u \in Threads \ {t} : pc'[u] = pc[u]
    BY <1>1, <1>6 DEF Receive, Lock, Unlock, Reply
  <2>4. \A u \in Threads : Waiting(u)' <=> Waiting(u)
    BY <2>2, <2>3 DEF Waiting
  <2>5. \A u \in Threads : pc'[u] = "read" => pc[u] = "read"
    BY <2>2, <2>3
  <2> QED
    BY <1>2, <2>1, <2>4, <2>5, QuietStays DEF NothingOwed
<1>7. ASSUME NEW t \in Threads, Send(t) PROVE NothingOwed'
  <2>1. pc[t] = "send" /\ InExchange(t)
    BY <1>7 DEF Send, InExchange
  <2>2. \A u \in Threads : ~Waiting(u)
    BY <1>5, <2>1, Alone DEF Waiting
  <2>3. output = None /\ lamp = <<>>
    BY <1>2, <2>2 DEF Quiet, LampIsDone
  <2>4. lamp' = <<>> /\ owed' = {}
    BY <1>2, <1>7, <2>3, AgedEmpty DEF Send, Begin, history
  <2>5. input' = <<>>
    BY <1>7 DEF Send
  <2>6. output' = None \/ (output' = t /\ Waiting(t)')
    BY <1>1, <1>7 DEF Send, Write, Waiting
  <2>7. \A u \in Threads : pc'[u] # "read"
    <3>1. pc'[t] \in {"wait", "unlock"} /\ \A u \in Threads \ {t} : pc'[u] = pc[u]
      BY <1>1, <1>7 DEF Send, Write, Return
    <3> QED
      BY <2>2, <3>1 DEF Waiting
  <2> QED
    BY <2>4, <2>5, <2>6, <2>7 DEF NothingOwed, Quiet, LampIsDone
<1>8. ASSUME NEW t \in Threads, Timeout(t) \/ ReadTimeout(t) \/ Evaluate(t) PROVE NothingOwed'
  <2>1. UNCHANGED lineVars /\ owed' = {}
    BY <1>2, <1>8 DEF Timeout, ReadTimeout, Evaluate, history
  <2>2. pc'[t] \in {"send", "evaluate", "unlock"} /\ \A u \in Threads \ {t} : pc'[u] = pc[u]
    BY <1>1, <1>8 DEF Timeout, ReadTimeout, Evaluate, Return
  <2>3. CASE Evaluate(t)
    <3>1. pc[t] = "evaluate"
      BY <2>3 DEF Evaluate
    <3>2. \A u \in Threads : Waiting(u)' <=> Waiting(u)
      BY <2>2, <3>1 DEF Waiting
    <3>3. \A u \in Threads : pc'[u] = "read" => pc[u] = "read"
      BY <2>2
    <3> QED
      BY <1>2, <2>1, <3>2, <3>3, QuietStays DEF NothingOwed
  <2>4. CASE LampIsDone
    <3>1. \A u \in Threads : pc'[u] = "read" => pc[u] = "read"
      BY <2>2
    <3> QED
      BY <1>2, <2>1, <2>4, <3>1 DEF NothingOwed, Quiet, LampIsDone, LastIsHead, lineVars
  <2> QED
    BY <1>3, <1>8, <2>3, <2>4 DEF Timeout, ReadTimeout
<1>9. ASSUME NEW t \in Threads, Read(t) PROVE NothingOwed'
  <2>1. input # <<>> /\ input' = <<>> /\ UNCHANGED <<output, lamp>> /\ owed' = {}
    BY <1>2, <1>9 DEF Read, history
  <2>2. output = None
    BY <1>2, <2>1 DEF Quiet
  <2>3. \A u \in Threads \ {t} : pc'[u] = pc[u]
    BY <1>1, <1>9 DEF Read
  <2>4. \A u \in Threads \ {t} : ~Waiting(u)
    BY <1>5, <1>9, Alone DEF Read, InExchange
  <2>5. CASE LastIsHead(input)
    <3>1. pc'[t] = "read"
      BY <1>1, <1>9, <2>5 DEF Read, LastIsHead
    <3>2. lamp # <<>> => Head(lamp).begun
      BY <1>2, <2>1 DEF Quiet
    <3> QED
      BY <1>2, <2>1, <2>2, <3>1, <3>2 DEF NothingOwed, Quiet, Waiting, LastIsHead
  <2>6. CASE ~LastIsHead(input)
    <3>1. pc'[t] = "evaluate"
      BY <1>1, <1>9, <2>1, <2>6 DEF Read, LastIsHead
    <3>2. lamp = <<>>
      BY <1>2, <2>1, <2>6 DEF Quiet
    <3>3. \A u \in Threads : pc'[u] # "read"
      BY <2>3, <2>4, <3>1 DEF Waiting
    <3> QED
      BY <2>1, <2>2, <3>2, <3>3 DEF NothingOwed, Quiet, LampIsDone
  <2> QED
    BY <2>5, <2>6
<1>10. ASSUME NEW t \in Threads, Interrupt(t) PROVE NothingOwed'
  BY <1>3, <1>10 DEF Interrupt
<1>11. CASE Transmit
  <2>1. UNCHANGED <<pc, input, owed>> /\ output # None /\ output' = None
    BY <1>11 DEF Transmit, threadVars, history
  <2>2. lamp = <<>> /\ input = <<>>
    BY <1>2, <2>1 DEF Quiet
  <2>3. \E u \in Threads : Waiting(u)
    BY <1>2, <2>1 DEF Quiet, LampIsDone
  <2>4. \A u \in Threads : pc[u] # "read"
    BY <1>2, <2>1 DEF Quiet
  <2>5. Len(lamp') <= 1 /\ (lamp' # <<>> => ~Head(lamp').begun)
    <3>1. CASE UNCHANGED lamp
      BY <2>2, <3>1
    <3>2. ASSUME NEW says \in Answers,
                 lamp' = Append(lamp, [for |-> output, begun |-> FALSE, says |-> says])
          PROVE  Len(lamp') <= 1 /\ (lamp' # <<>> => ~Head(lamp').begun)
      <4>1. lamp' = <<[for |-> output, begun |-> FALSE, says |-> says]>>
        BY <2>2, <3>2
      <4> QED
        BY <4>1
    <3> QED
      BY <1>11, <3>1, <3>2 DEF Transmit
  <2>6. \E u \in Threads : Waiting(u)'
    BY <2>1, <2>3 DEF Waiting
  <2> QED
    BY <1>2, <2>1, <2>2, <2>4, <2>5, <2>6 DEF NothingOwed, Quiet
<1>12. CASE Lamp
  <2>1. UNCHANGED <<pc, output, owed>> /\ lamp # <<>>
    BY <1>12 DEF Lamp, Answer, Finish, Lose, threadVars, history
  <2>2. output = None /\ Len(lamp) <= 1
    BY <1>2, <2>1 DEF Quiet
  <2>3. Tail(lamp) = <<>> /\ \E u \in Threads : Waiting(u)'
    <3>1. Tail(lamp) = <<>>
      BY <1>1, <2>1, <2>2, SingleTail
    <3>2. \E u \in Threads : Waiting(u)
      BY <1>2, <2>1 DEF Quiet, LampIsDone
    <3> QED
      BY <2>1, <3>1, <3>2 DEF Waiting
  <2>4. CASE lamp' = Tail(lamp)
    <3>1. lamp' = <<>> /\ Len(lamp') <= 1 /\ output' = None /\ owed' = {}
      BY <1>2, <2>1, <2>2, <2>3, <2>4
    <3> QED
      BY <2>3, <3>1 DEF NothingOwed, Quiet
  <2>5. CASE lamp' # Tail(lamp)
    <3>1. /\ Answer
          /\ input' = Append(input, [for |-> Head(lamp).for, part |-> "head", says |-> Head(lamp).says])
          /\ lamp' = <<[Head(lamp) EXCEPT !.begun = TRUE]>> \o Tail(lamp)
      BY <1>12, <2>5 DEF Lamp, Answer, Finish, Lose
    <3>2. Head(lamp) \in Pending
      BY <1>1, <2>1
    <3> DEFINE first == [Head(lamp) EXCEPT !.begun = TRUE]
    <3>3. first \in Pending /\ first.begun
      BY <3>2 DEF Pending
    <3>4. Len(lamp') = 1 /\ Head(lamp') = first
      <4>1. lamp' = <<first>> \o <<>>
        BY <2>3, <3>1
      <4> HIDE DEF first
      <4>2. lamp' = <<first>>
        BY <3>3, <4>1
      <4> QED
        BY <4>2
    <3>5. LastIsHead(input')
      <4> DEFINE piece == [for |-> Head(lamp).for, part |-> "head", says |-> Head(lamp).says]
      <4>1. piece \in Piece /\ piece.part = "head"
        BY <3>2 DEF Pending, Piece
      <4>2. input' = Append(input, piece)
        BY <3>1
      <4> HIDE DEF piece
      <4>3. input' # <<>> /\ input'[Len(input')] = piece
        BY <1>1, <4>1, <4>2
      <4> QED
        BY <4>1, <4>3 DEF LastIsHead
    <3> HIDE DEF first
    <3>6. Len(lamp') <= 1 /\ Head(lamp').begun /\ output' = None
      BY <2>1, <2>2, <3>3, <3>4
    <3> QED
      BY <1>2, <2>1, <2>3, <3>5, <3>6 DEF NothingOwed, Quiet, LastIsHead
  <2> QED
    BY <2>4, <2>5
<1>13. CASE UNCHANGED vars
  BY <1>2, <1>13, QuietStays DEF vars, threadVars, lineVars, history, NothingOwed, Waiting
<1> QED
  BY <1>6, <1>7, <1>8, <1>9, <1>10, <1>11, <1>12, <1>13 DEF Next, Exchange

(* When the lamp keeps within the time limits and no signal ends select, every
   answer OK is about a request that the lamp has carried out *)
THEOREM LampOkIsExecuted == Spec => []OkIsExecuted
<1>1. CASE InTime
  <2>1. Init => LampInv /\ NothingOwed
    BY LampInvInit, NothingOwedInit
  <2>2. LampInv /\ NothingOwed /\ [Next]_vars => (LampInv /\ NothingOwed)'
    BY <1>1, StepType, ExclusiveStep, CleanStep, MisledStep, NothingOwedStep DEF LampInv
  <2>3. LampInv /\ NothingOwed => OkIsExecuted
    BY DEF LampInv, MisledOnlyByOwed, NothingOwed, OkIsExecuted
  <2> QED
    BY <2>1, <2>2, <2>3, PTL DEF Spec
<1>2. CASE ~InTime
  <2>1. OkIsExecuted
    BY <1>2 DEF InTime, OkIsExecuted
  <2> QED
    BY <2>1, PTL
<1> QED
  BY <1>1, <1>2

=============================================================================
