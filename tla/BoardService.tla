----------------------------- MODULE BoardService -----------------------------
(* CoolersBoard implements PowerService: byte by byte, with interrupts between any two
   steps of main and one buffer for everybody, a transfer is one request carried out at
   one moment. *)
EXTENDS CoolersBoard

(* From the address until main sets the timer, or the answer has been read *)
Pending(h) ==
  \/ hpc[h] \in {"address", "register", "value", "restart", "read"}
  \/ hpc[h] \in {"stop", "hold"} /\ req[h].kind = "set" /\ bpc \in {"register", "value", "duty"}

ClientState(h) ==
  CASE hpc[h] \in {"idle", "OK", "error"} -> hpc[h]
    [] Pending(h)                         -> "asked"
    [] OTHER                              -> "done"

BoardState == IF bpc = "boot" THEN "down" ELSE IF Stuck THEN "hangs" ELSE "up"

Reply(h) == IF hpc[h] \in {"hold", "OK"} /\ req[h].kind = "get" THEN answer ELSE 0

Service ==
  INSTANCE PowerService WITH
    Clients <- Hosts,
    turns   <- duty,
    known   <- coolers_pwm,
    board   <- BoardState,
    client  <- [h \in Hosts |-> ClientState(h)],
    request <- req,
    reply   <- [h \in Hosts |-> Reply(h)]

(* set_coolers_power and get_coolers_power look to the backend like one step of the
   board each: nothing is carried out twice or half, for another thread's request, or
   after an error; and an OK for nothing comes only from a board that has both coolers
   still before it does anything else. *)
ServesPowers == Service!Spec

=============================================================================
