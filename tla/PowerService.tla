----------------------------- MODULE PowerService -----------------------------
(* What the threads of the backend may expect of the coolers board: it carries out one
   request at a time, in one step, before the answer OK, and an error means that nothing
   was done.  The exception is a board that hangs: it does no more until it has started
   anew, with both coolers still, and a request may then be answered OK for nothing.
   BoardService shows that firmware and bus keep to it. *)
EXTENDS Integers

CONSTANTS
  Clients,   \* the threads of the backend
  Coolers,
  Requests   \* to set the power of a cooler, or to get it

VARIABLES
  turns,    \* the power each cooler turns at
  known,    \* the power the board knows for it
  board,    \* "up", it "hangs", or is "down" for a new start
  client,   \* what each client's request has come to
  request,  \* what it asks for
  reply     \* the power it got

vars == <<turns, known, board, client, request, reply>>

NoRequest == [kind |-> "none"]

Still == [c \in Coolers |-> 0]

Powers == [Coolers -> 0..100]

Granted(r) == IF r.power > 100 THEN 100 ELSE r.power

Init ==
  /\ turns = Still
  /\ known \in Powers
  /\ board = "down"
  /\ client = [h \in Clients |-> "idle"]
  /\ request = [h \in Clients |-> NoRequest]
  /\ reply = [h \in Clients |-> 0]

-----------------------------------------------------------------------------

Ask(h) ==
  /\ client[h] = "idle"
  /\ client' = [client EXCEPT ![h] = "asked"]
  /\ \E r \in Requests : request' = [request EXCEPT ![h] = r]
  /\ UNCHANGED <<turns, known, board, reply>>

MayHang == board' = board \/ (board = "up" /\ board' = "hangs")

(* No answer, or a transfer that breaks off, which the board may not get over *)
Refuse(h) ==
  /\ client[h] = "asked"
  /\ client' = [client EXCEPT ![h] = "error"]
  /\ MayHang
  /\ UNCHANGED <<turns, known, request, reply>>

Set(h) ==
  /\ board = "up"
  /\ client[h] = "asked" /\ request[h].kind = "set"
  /\ client' = [client EXCEPT ![h] = "done"]
  /\ turns' = [turns EXCEPT ![request[h].cooler] = Granted(request[h])]
  /\ known' = [known EXCEPT ![request[h].cooler] = Granted(request[h])]
  /\ UNCHANGED <<board, request, reply>>

Get(h) ==
  /\ board = "up"
  /\ client[h] = "asked" /\ request[h].kind = "get"
  /\ client' = [client EXCEPT ![h] = "done"]
  /\ reply' = [reply EXCEPT ![h] = known[request[h].cooler]]
  /\ UNCHANGED <<turns, known, board, request>>

Acknowledge(h) ==
  /\ client[h] = "done" \/ (client[h] = "asked" /\ board = "hangs")
  /\ client' = [client EXCEPT ![h] = "OK"]
  /\ UNCHANGED <<turns, known, board, request, reply>>

Leave(h) ==
  /\ client[h] \in {"OK", "error"}
  /\ client' = [client EXCEPT ![h] = "idle"]
  /\ request' = [request EXCEPT ![h] = NoRequest]
  /\ reply' = [reply EXCEPT ![h] = 0]
  /\ UNCHANGED <<turns, known, board>>

Hang ==
  /\ board = "up"
  /\ board' = "hangs"
  /\ UNCHANGED <<turns, known, client, request, reply>>

(* The watchdog, or the supply.  A request under way stays so, ends with an error, or
   ends as if it were carried out: a power that is read then is all ones *)
Reset ==
  /\ board # "down"
  /\ board' = "down"
  /\ turns' = Still
  /\ \E end \in [Clients -> {"asked", "done", "error"}] :
       /\ client' = [h \in Clients |-> IF client[h] = "asked" THEN end[h] ELSE client[h]]
       /\ reply' = [h \in Clients |->
                      IF client[h] = "asked" /\ end[h] = "done" /\ request[h].kind = "get"
                      THEN 255 ELSE reply[h]]
  /\ UNCHANGED <<known, request>>

(* The powers come back from the flash, as far as it has them *)
Start ==
  /\ board = "down"
  /\ board' = "up"
  /\ known' \in Powers
  /\ turns' = Still
  /\ UNCHANGED <<client, request, reply>>

Next ==
  \/ \E h \in Clients : Ask(h)
  \/ \E h \in Clients : Refuse(h)
  \/ \E h \in Clients : Set(h)
  \/ \E h \in Clients : Get(h)
  \/ \E h \in Clients : Acknowledge(h)
  \/ \E h \in Clients : Leave(h)
  \/ Hang
  \/ Reset
  \/ Start

Spec == Init /\ [][Next]_vars

=============================================================================
