---------------------------- MODULE SettingsStore ----------------------------
(* What a client may expect of the settings that requests change: every request
   changes one of them, once and in one step; an OK comes only after that; nothing
   else changes any of them, and they survive the end of the program, which forgets
   the requests.  CoolerStore and SamplerStore show that the handlers keep to it. *)

CONSTANTS
  Clients,  \* the request threads
  Places,   \* the settings
  Changes,  \* what may be asked for: a place and its new value
  Initial   \* what the settings may be when the program is first started

VARIABLES
  store,   \* the value of each setting
  client,  \* what each client's request has come to
  change   \* what it asks for

vars == <<store, client, change>>

ClientStates == {"idle", "asked", "stored", "OK", "error"}

NoChange == [place |-> "none"]

Init ==
  /\ store \in Initial
  /\ client = [h \in Clients |-> "idle"]
  /\ change = [h \in Clients |-> NoChange]

Ask(h) ==
  /\ client[h] = "idle"
  /\ client' = [client EXCEPT ![h] = "asked"]
  /\ \E c \in Changes : change' = [change EXCEPT ![h] = c]
  /\ UNCHANGED store

(* The request makes no sense *)
Reject(h) ==
  /\ client[h] = "idle"
  /\ client' = [client EXCEPT ![h] = "error"]
  /\ UNCHANGED <<store, change>>

Store(h) ==
  /\ client[h] = "asked"
  /\ client' = [client EXCEPT ![h] = "stored"]
  /\ store' = [store EXCEPT ![change[h].place] = change[h].value]
  /\ UNCHANGED change

Answer(h, reply) ==
  /\ client' = [client EXCEPT ![h] = reply]
  /\ change' = [change EXCEPT ![h] = NoChange]
  /\ UNCHANGED store

(* An error may come after the change, but then it is kept nevertheless *)
Fail(h) == client[h] \in {"asked", "stored"} /\ Answer(h, "error")

Acknowledge(h) == client[h] = "stored" /\ Answer(h, "OK")

Leave(h) ==
  /\ client[h] \in {"OK", "error"}
  /\ client' = [client EXCEPT ![h] = "idle"]
  /\ UNCHANGED <<store, change>>

Restart ==
  /\ client' = [h \in Clients |-> "idle"]
  /\ change' = [h \in Clients |-> NoChange]
  /\ UNCHANGED store

Next ==
  \/ \E h \in Clients : Ask(h)
  \/ \E h \in Clients : Reject(h)
  \/ \E h \in Clients : Store(h)
  \/ \E h \in Clients : Fail(h)
  \/ \E h \in Clients : Acknowledge(h)
  \/ \E h \in Clients : Leave(h)
  \/ Restart

Spec == Init /\ [][Next]_vars

=============================================================================
