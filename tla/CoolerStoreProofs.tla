--------------------------- MODULE CoolerStoreProofs ---------------------------
(* CoolerControl implements SettingsStore, proved for every number of request threads,
   every set of requests and every choice of faults. *)
EXTENDS CoolerRaces, CoolerControlProofs

HandlersTyped ==
  /\ hpc \in [Handlers -> HandlerPc]
  /\ req \in [Handlers -> Requests \cup {NoRequest}]
  /\ db \in Settings

-----------------------------------------------------------------------------
(* Saving a request changes the one setting it names *)

LEMMA PlaceOf ==
  ASSUME NEW p \in CoolerPlaces
  PROVE  /\ p = <<p[1], p[2]>>
         /\ p[1] \in Coolers
         /\ p[2] \in {"start", "stop", "wp", "power"}
BY DEF CoolerPlaces

LEMMA OneChanged ==
  ASSUME NEW S, NEW q \in S, NEW v, NEW f, NEW g,
         f = [p \in S |-> f[p]], g = [p \in S |-> g[p]],
         \A p \in S : g[p] = IF p = q THEN v ELSE f[p]
  PROVE  g = [f EXCEPT ![q] = v]
<1>1. DOMAIN f = S /\ DOMAIN g = S
  OBVIOUS
<1>2. [f EXCEPT ![q] = v] = [p \in S |-> IF p = q THEN v ELSE f[p]]
  BY <1>1
<1>3. g = [p \in S |-> IF p = q THEN v ELSE f[p]]
  OBVIOUS
<1> QED
  BY <1>2, <1>3

LEMMA SettingsFunction ==
  ASSUME NEW row
  PROVE  CoolerSettings(row) = [p \in CoolerPlaces |-> CoolerSettings(row)[p]]
BY DEF CoolerSettings

LEMMA PowerSaved ==
  ASSUME NEW r \in PowerRequest, NEW row \in Settings, NEW row2,
         row2 = [row EXCEPT !.power = SetPower(@, r)]
  PROVE  CoolerSettings(row2) =
           [CoolerSettings(row) EXCEPT ![ChangeOf(r).place] = ChangeOf(r).value]
<1>1. r.kind = "power"
  BY RequestKinds
<1>2. PowerTarget(r) \in Coolers
  BY PowerTargetType
<1>3. ChangeOf(r) = [place |-> <<PowerTarget(r), "power">>, value |-> PowerValue(r)]
  BY <1>1 DEF ChangeOf
<1>4. /\ row2.cwt = row.cwt
      /\ row2.power = [row.power EXCEPT ![PowerTarget(r)] = PowerValue(r)]
      /\ row.power \in [Coolers -> Byte]
  BY SettingsType DEF Settings, SetPower
<1>5. ASSUME NEW p \in CoolerPlaces
      PROVE  CoolerSettings(row2)[p] =
               IF p = <<PowerTarget(r), "power">> THEN PowerValue(r) ELSE CoolerSettings(row)[p]
  <2>1. p = <<p[1], p[2]>> /\ p[1] \in Coolers
    BY PlaceOf
  <2>2. /\ CoolerSettings(row2)[p] =
             IF p[2] = "power" THEN row2.power[p[1]] ELSE row2.cwt[p[1]][p[2]]
        /\ CoolerSettings(row)[p] =
             IF p[2] = "power" THEN row.power[p[1]] ELSE row.cwt[p[1]][p[2]]
    BY DEF CoolerSettings
  <2>3. CASE p[2] = "power" /\ p[1] = PowerTarget(r)
    BY <1>2, <1>4, <2>1, <2>2, <2>3
  <2>4. CASE p[2] = "power" /\ p[1] # PowerTarget(r)
    <3>1. p # <<PowerTarget(r), "power">>
      BY <2>4
    <3> QED
      BY <1>2, <1>4, <2>1, <2>2, <2>4, <3>1
  <2>5. CASE p[2] # "power"
    <3>1. p # <<PowerTarget(r), "power">>
      BY <2>5
    <3> QED
      BY <1>4, <2>2, <2>5, <3>1
  <2> QED
    BY <2>3, <2>4, <2>5
<1>6. <<PowerTarget(r), "power">> \in CoolerPlaces
  BY <1>2 DEF CoolerPlaces
<1>7. CoolerSettings(row2) =
        [CoolerSettings(row) EXCEPT ![<<PowerTarget(r), "power">>] = PowerValue(r)]
  BY <1>5, <1>6, SettingsFunction, OneChanged
<1> QED
  BY <1>3, <1>7

LEMMA TimeSaved ==
  ASSUME NEW r \in TimeRequest, NEW row \in Settings, NEW row2,
         row2 = [row EXCEPT !.cwt = SetTime(@, r)]
  PROVE  CoolerSettings(row2) =
           [CoolerSettings(row) EXCEPT ![ChangeOf(r).place] = ChangeOf(r).value]
<1>1. r.kind = "time" /\ r.cooler \in Coolers /\ r.field \in {"start", "stop", "wp"}
  BY RequestKinds DEF TimeFields
<1>2. ChangeOf(r) = [place |-> <<r.cooler, r.field>>, value |-> r.min]
  BY <1>1 DEF ChangeOf
<1>3. /\ row2.power = row.power
      /\ row2.cwt = SetTime(row.cwt, r)
      /\ row.cwt \in [Coolers -> Schedule]
  BY SettingsType DEF Settings
<1>4. /\ row2.cwt[r.cooler] =
           [start |-> IF r.field = "start" THEN r.min ELSE row.cwt[r.cooler].start,
            stop  |-> IF r.field = "stop" THEN r.min ELSE row.cwt[r.cooler].stop,
            wp    |-> IF r.field = "wp" THEN r.min ELSE row.cwt[r.cooler].wp]
      /\ \A c \in Coolers : c # r.cooler => row2.cwt[c] = row.cwt[c]
  BY <1>1, <1>3 DEF SetTime
<1>5. ASSUME NEW f \in {"start", "stop", "wp"}
      PROVE  row2.cwt[r.cooler][f] = IF f = r.field THEN r.min ELSE row.cwt[r.cooler][f]
  <2>1. CASE f = "start"
    BY <1>1, <1>4, <2>1
  <2>2. CASE f = "stop"
    BY <1>1, <1>4, <2>2
  <2>3. CASE f = "wp"
    BY <1>1, <1>4, <2>3
  <2> QED
    BY <2>1, <2>2, <2>3
<1>6. ASSUME NEW p \in CoolerPlaces
      PROVE  CoolerSettings(row2)[p] =
               IF p = <<r.cooler, r.field>> THEN r.min ELSE CoolerSettings(row)[p]
  <2>1. /\ p = <<p[1], p[2]>>
        /\ p[1] \in Coolers
        /\ p[2] \in {"start", "stop", "wp", "power"}
    BY PlaceOf
  <2>2. /\ CoolerSettings(row2)[p] =
             IF p[2] = "power" THEN row2.power[p[1]] ELSE row2.cwt[p[1]][p[2]]
        /\ CoolerSettings(row)[p] =
             IF p[2] = "power" THEN row.power[p[1]] ELSE row.cwt[p[1]][p[2]]
    BY DEF CoolerSettings
  <2>3. CASE p[2] = "power"
    <3>1. p # <<r.cooler, r.field>>
      BY <1>1, <2>3
    <3> QED
      BY <1>3, <2>2, <2>3, <3>1
  <2>4. CASE p[2] # "power" /\ p[1] # r.cooler
    <3>1. p # <<r.cooler, r.field>>
      BY <2>4
    <3> QED
      BY <1>4, <2>1, <2>2, <2>4, <3>1
  <2>5. CASE p[2] # "power" /\ p[1] = r.cooler /\ p[2] # r.field
    <3>1. p # <<r.cooler, r.field>>
      BY <2>5
    <3>2. p[2] \in {"start", "stop", "wp"}
      BY <2>1, <2>5
    <3> QED
      BY <1>5, <2>2, <2>5, <3>1, <3>2
  <2>6. CASE p[1] = r.cooler /\ p[2] = r.field
    BY <1>1, <1>5, <2>1, <2>2, <2>6
  <2> QED
    BY <2>3, <2>4, <2>5, <2>6
<1>7. <<r.cooler, r.field>> \in CoolerPlaces
  BY <1>1 DEF CoolerPlaces
<1>8. CoolerSettings(row2) = [CoolerSettings(row) EXCEPT ![<<r.cooler, r.field>>] = r.min]
  BY <1>6, <1>7, SettingsFunction, OneChanged
<1> QED
  BY <1>2, <1>8

-----------------------------------------------------------------------------
(* Every step is one of the store, or none *)

LEMMA StoreUnchanged ==
  ASSUME UNCHANGED <<db, hpc, req>>
  PROVE  UNCHANGED Store!vars
BY DEF Store!vars

LEMMA StoreReceive ==
  ASSUME TypeOK, NEW h \in Handlers, Receive(h)
  PROVE  Store!Next
<1>1. HandlersTyped
  BY DEF TypeOK, HandlersTyped
<1>2. PICK r \in Requests :
        /\ req' = [req EXCEPT ![h] = r]
        /\ hpc' = [hpc EXCEPT ![h] = IF r = Malformed THEN "error" ELSE "memory"]
  BY DEF Receive
<1>3. hpc[h] = "idle" /\ db' = db
  BY DEF Receive
<1>4. CASE r = Malformed
  <2>1. Store!Reject(h)
    BY <1>1, <1>2, <1>3, <1>4 DEF HandlersTyped, Store!Reject, ClientState, Asked
  <2> QED
    BY <2>1 DEF Store!Next
<1>5. CASE r # Malformed
  <2>1. ChangeOf(r) \in CoolerChanges
    BY <1>5 DEF CoolerChanges
  <2>2. [g \in Handlers |-> ClientState(hpc'[g])] =
          [[g \in Handlers |-> ClientState(hpc[g])] EXCEPT ![h] = "asked"]
    BY <1>1, <1>2, <1>5 DEF HandlersTyped, ClientState
  <2>3. [g \in Handlers |-> Asked(hpc'[g], req'[g])] =
          [[g \in Handlers |-> Asked(hpc[g], req[g])] EXCEPT ![h] = ChangeOf(r)]
    BY <1>1, <1>2, <1>5 DEF HandlersTyped, Asked
  <2>4. Store!Ask(h)
    BY <1>3, <2>1, <2>2, <2>3 DEF Store!Ask, ClientState
  <2> QED
    BY <2>4 DEF Store!Next
<1> QED
  BY <1>4, <1>5

LEMMA StoreSave ==
  ASSUME TypeOK, NEW h \in Handlers, SaveToDatabase(h)
  PROVE  Store!Next
<1>1. HandlersTyped /\ req[h] \in PowerRequest \cup TimeRequest
  BY DEF TypeOK, HandlersTyped, SaveToDatabase
<1>2. hpc[h] = "database" /\ req' = req
  BY DEF SaveToDatabase
<1>3. CASE /\ hpc'[h] \in {"flag", "wakeup"}
           /\ hpc' = [hpc EXCEPT ![h] = hpc'[h]]
           /\ CoolerSettings(db') =
                [CoolerSettings(db) EXCEPT ![ChangeOf(req[h]).place] = ChangeOf(req[h]).value]
  <2>1. [g \in Handlers |-> ClientState(hpc'[g])] =
          [[g \in Handlers |-> ClientState(hpc[g])] EXCEPT ![h] = "stored"]
    BY <1>1, <1>3 DEF HandlersTyped, ClientState
  <2>2. [g \in Handlers |-> Asked(hpc'[g], req'[g])] = [g \in Handlers |-> Asked(hpc[g], req[g])]
    BY <1>1, <1>2, <1>3 DEF HandlersTyped, Asked
  <2>3. ClientState(hpc[h]) = "asked" /\ Asked(hpc[h], req[h]) = ChangeOf(req[h])
    BY <1>2 DEF ClientState, Asked
  <2>4. Store!Store(h)
    BY <1>3, <2>1, <2>2, <2>3 DEF Store!Store
  <2> QED
    BY <2>4 DEF Store!Next
<1>4. CASE /\ req[h].kind = "power"
           /\ db' = [db EXCEPT !.power = SetPower(@, req[h])]
           /\ hpc' = [hpc EXCEPT ![h] = "flag"]
  <2>1. req[h] \in PowerRequest
    BY <1>1, <1>4, RequestKinds
  <2> QED
    BY <1>1, <1>3, <1>4, <2>1, PowerSaved DEF HandlersTyped
<1>5. CASE /\ req[h].kind = "time"
           /\ db' = [db EXCEPT !.cwt = SetTime(@, req[h])]
           /\ hpc' = [hpc EXCEPT ![h] = "wakeup"]
  <2>1. req[h] \in TimeRequest
    BY <1>1, <1>5, RequestKinds
  <2> QED
    BY <1>1, <1>3, <1>5, <2>1, TimeSaved DEF HandlersTyped
<1>6. CASE hpc' = [hpc EXCEPT ![h] = "error"] /\ UNCHANGED db
  <2>1. Store!Fail(h)
    BY <1>1, <1>2, <1>6 DEF HandlersTyped, Store!Fail, Store!Answer, Store!NoChange, ClientState,
                            Asked
  <2> QED
    BY <2>1 DEF Store!Next
<1> QED
  BY <1>4, <1>5, <1>6 DEF SaveToDatabase

(* The sections after the database: the answer, or one more of them *)
LEMMA StoreFinish ==
  ASSUME TypeOK, NEW h \in Handlers, ReadFlag(h) \/ SendPower(h) \/ Wakeup(h)
  PROVE  [Store!Next]_(Store!vars)
<1>1. HandlersTyped
  BY DEF TypeOK, HandlersTyped
<1>2. /\ hpc[h] \in {"flag", "bus", "wakeup"}
      /\ UNCHANGED <<db, req>>
      /\ \E next \in {"bus", "OK", "error"} : hpc' = [hpc EXCEPT ![h] = next]
  BY DEF ReadFlag, SendPower, Wakeup
<1>3. CASE hpc' = [hpc EXCEPT ![h] = "bus"]
  BY <1>1, <1>2, <1>3 DEF HandlersTyped, Store!vars, ClientState, Asked
<1>4. CASE hpc' = [hpc EXCEPT ![h] = "OK"]
  <2>1. Store!Acknowledge(h)
    BY <1>1, <1>2, <1>4 DEF HandlersTyped, Store!Acknowledge, Store!Answer, Store!NoChange,
                            ClientState, Asked
  <2> QED
    BY <2>1 DEF Store!Next
<1>5. CASE hpc' = [hpc EXCEPT ![h] = "error"]
  <2>1. Store!Fail(h)
    BY <1>1, <1>2, <1>5 DEF HandlersTyped, Store!Fail, Store!Answer, Store!NoChange,
                            ClientState, Asked
  <2> QED
    BY <2>1 DEF Store!Next
<1> QED
  BY <1>2, <1>3, <1>4, <1>5

LEMMA StoreOther ==
  ASSUME TypeOK, NEW h \in Handlers, SaveToMemory(h) \/ Reply(h)
  PROVE  [Store!Next]_(Store!vars)
<1>1. HandlersTyped
  BY DEF TypeOK, HandlersTyped
<1>2. CASE SaveToMemory(h)
  BY <1>1, <1>2 DEF HandlersTyped, SaveToMemory, Store!vars, ClientState, Asked
<1>3. CASE Reply(h)
  <2>1. Store!Leave(h)
    BY <1>1, <1>3 DEF HandlersTyped, Reply, Store!Leave, ClientState, Asked
  <2> QED
    BY <2>1 DEF Store!Next
<1> QED
  BY <1>2, <1>3

LEMMA StoreSurroundings ==
  ASSUME Worker \/ Tick \/ Restart \/ UNCHANGED vars
  PROVE  [Store!Next]_(Store!vars)
<1>1. CASE Worker \/ Tick \/ UNCHANGED vars
  <2>1. UNCHANGED <<db, hpc, req>>
    BY <1>1 DEF Worker, CopySettings, ReadClock, CheckSchedule, PublishState, EndSleep, Tick, vars,
                handlerVars
  <2> QED
    BY <2>1, StoreUnchanged
<1>2. CASE Restart
  <2>1. db' = db /\ hpc' = [h \in Handlers |-> "idle"] /\ req' = [h \in Handlers |-> NoRequest]
    BY <1>2 DEF Restart
  <2>2. Store!Restart
    BY <2>1 DEF Store!Restart, Store!NoChange, ClientState, Asked
  <2> QED
    BY <2>2 DEF Store!Next
<1> QED
  BY <1>1, <1>2

(* The handlers implement SettingsStore: each request changes one column of the row,
   once, before its OK; an error leaves the row as it was or as asked for; and neither
   the worker nor a crash at any point changes anything. *)
THEOREM CoolerKeepsSettings == Spec => KeepsSettings
<1>1. Init => Store!Init
  BY DEF Init, Store!Init, Store!NoChange, ClientState, Asked
<1>2. TypeOK /\ [Next]_vars => [Store!Next]_(Store!vars)
  BY StoreReceive, StoreSave, StoreFinish, StoreOther, StoreSurroundings DEF Next, Handler
<1> QED
  BY <1>1, <1>2, TypeCorrect, PTL DEF Spec, KeepsSettings, Store!Spec

-----------------------------------------------------------------------------
(* Memory and database with any number of request threads *)

InProgress(h) == hpc[h] \in {"memory", "database", "flag", "bus", "wakeup", "OK"}

(* Two requests for one setting that are served at the same time ask for the same value *)
Uncontested ==
  \A g, h \in Handlers :
    InProgress(g) /\ InProgress(h) /\ ChangeOf(req[g]).place = ChangeOf(req[h]).place =>
      ChangeOf(req[g]).value = ChangeOf(req[h]).value

(* Where no requests have crossed, a thread has done to memory what it is about to do to
   the database, and a setting that differs has such a thread. *)
InStep(p) ==
  /\ \A h \in Handlers : Between(h, p) => CoolerSettings(Memory)[p] = ChangeOf(req[h]).value
  /\ CoolerSettings(Memory)[p] = CoolerSettings(db)[p] \/ \E h \in Handlers : Between(h, p)

RaceInv == \A p \in CoolerPlaces \ crossed : InStep(p)

(* Past the database, a request is in it. *)
PassedIsStored ==
  \A h \in Handlers :
    hpc[h] \in {"flag", "bus", "wakeup", "OK"} =>
      CoolerSettings(db)[ChangeOf(req[h]).place] = ChangeOf(req[h]).value

(* A thread that answers OK has served a request. *)
AnsweredTyped ==
  \A h \in Handlers : hpc[h] = "OK" => req[h] \in PowerRequest \cup TimeRequest

StoreTyped ==
  /\ HandlersTyped
  /\ Memory \in Settings
  /\ \A h \in Handlers :
       hpc[h] \in {"memory", "database", "flag", "bus", "wakeup"} =>
         req[h] \in PowerRequest \cup TimeRequest

LEMMA TypedStore == TypeOK => StoreTyped
BY DEF TypeOK, StoreTyped, HandlersTyped, Memory, Settings

LEMMA ChangePlace ==
  ASSUME NEW r \in PowerRequest \cup TimeRequest
  PROVE  ChangeOf(r).place \in CoolerPlaces
<1>1. CASE r \in PowerRequest
  BY <1>1, RequestKinds, PowerTargetType DEF ChangeOf, CoolerPlaces
<1>2. CASE r \in TimeRequest
  BY <1>2, RequestKinds DEF ChangeOf, CoolerPlaces, TimeFields
<1> QED
  BY <1>1, <1>2

(* The write to memory *)
LEMMA MemorySaved ==
  ASSUME StoreTyped, NEW h \in Handlers, SaveToMemory(h)
  PROVE  /\ req[h] \in PowerRequest \cup TimeRequest
         /\ hpc[h] = "memory" /\ hpc' = [hpc EXCEPT ![h] = "database"]
         /\ UNCHANGED <<db, req>>
         /\ CoolerSettings(Memory') =
              [CoolerSettings(Memory) EXCEPT ![ChangeOf(req[h]).place] = ChangeOf(req[h]).value]
<1>1. /\ req[h] \in PowerRequest \cup TimeRequest
      /\ hpc[h] = "memory" /\ hpc' = [hpc EXCEPT ![h] = "database"]
      /\ UNCHANGED <<db, req>>
  BY DEF SaveToMemory, StoreTyped
<1>2. Memory \in Settings
  BY DEF StoreTyped
<1>3. CASE req[h].kind = "power" /\ cl_power' = SetPower(cl_power, req[h]) /\ cwt' = cwt
  <2>1. req[h] \in PowerRequest
    BY <1>1, <1>3, RequestKinds
  <2>2. Memory' = [Memory EXCEPT !.power = SetPower(@, req[h])]
    BY <1>3 DEF Memory
  <2> QED
    BY <1>1, <1>2, <2>1, <2>2, PowerSaved
<1>4. CASE req[h].kind = "time" /\ cwt' = SetTime(cwt, req[h]) /\ cl_power' = cl_power
  <2>1. req[h] \in TimeRequest
    BY <1>1, <1>4, RequestKinds
  <2>2. Memory' = [Memory EXCEPT !.cwt = SetTime(@, req[h])]
    BY <1>4 DEF Memory
  <2> QED
    BY <1>1, <1>2, <2>1, <2>2, TimeSaved
<1> QED
  BY <1>3, <1>4 DEF SaveToMemory

(* The write to the database, if it succeeds *)
LEMMA DatabaseSaved ==
  ASSUME StoreTyped, NEW h \in Handlers, SaveToDatabase(h)
  PROVE  /\ req[h] \in PowerRequest \cup TimeRequest
         /\ hpc[h] = "database" /\ UNCHANGED <<cwt, cl_power, req>>
         /\ \/ /\ hpc'[h] \in {"flag", "wakeup"} /\ hpc' = [hpc EXCEPT ![h] = hpc'[h]]
               /\ CoolerSettings(db') =
                    [CoolerSettings(db) EXCEPT ![ChangeOf(req[h]).place] = ChangeOf(req[h]).value]
            \/ "db" \in Faults /\ hpc' = [hpc EXCEPT ![h] = "error"] /\ UNCHANGED db
<1>1. /\ req[h] \in PowerRequest \cup TimeRequest
      /\ hpc[h] = "database" /\ UNCHANGED <<cwt, cl_power, req>>
      /\ hpc \in [Handlers -> HandlerPc] /\ db \in Settings
  BY DEF SaveToDatabase, StoreTyped, HandlersTyped, appVars
<1>2. CASE /\ req[h].kind = "power"
           /\ db' = [db EXCEPT !.power = SetPower(@, req[h])]
           /\ hpc' = [hpc EXCEPT ![h] = "flag"]
  <2>1. req[h] \in PowerRequest
    BY <1>1, <1>2, RequestKinds
  <2> QED
    BY <1>1, <1>2, <2>1, PowerSaved
<1>3. CASE /\ req[h].kind = "time"
           /\ db' = [db EXCEPT !.cwt = SetTime(@, req[h])]
           /\ hpc' = [hpc EXCEPT ![h] = "wakeup"]
  <2>1. req[h] \in TimeRequest
    BY <1>1, <1>3, RequestKinds
  <2> QED
    BY <1>1, <1>3, <2>1, TimeSaved
<1> QED
  BY <1>1, <1>2, <1>3 DEF SaveToDatabase

(* The steps that touch neither memory nor the database *)
LEMMA StoreQuiet ==
  ASSUME StoreTyped, NEW h \in Handlers,
         Receive(h) \/ ReadFlag(h) \/ SendPower(h) \/ Wakeup(h) \/ Reply(h)
  PROVE  /\ UNCHANGED <<cwt, cl_power, db>>
         /\ hpc[h] # "database" /\ hpc' = [hpc EXCEPT ![h] = hpc'[h]]
         /\ \A g \in Handlers \ {h} : req'[g] = req[g]
         /\ \/ hpc'[h] \in {"idle", "memory", "error"}
            \/ /\ hpc[h] \in {"flag", "bus", "wakeup"} /\ hpc'[h] \in {"bus", "OK"}
               /\ req'[h] = req[h]
BY DEF StoreTyped, HandlersTyped, Receive, ReadFlag, SendPower, Wakeup, Reply, appVars

LEMMA PassedHandler ==
  ASSUME StoreTyped, Uncontested, PassedIsStored, NEW h \in Handlers, Receive(h) \/ Handler(h)
  PROVE  PassedIsStored'
<1>1. hpc \in [Handlers -> HandlerPc] /\ req \in [Handlers -> Requests \cup {NoRequest}]
  BY DEF StoreTyped, HandlersTyped
<1>2. CASE Receive(h) \/ ReadFlag(h) \/ SendPower(h) \/ Wakeup(h) \/ Reply(h)
  BY <1>1, <1>2, StoreQuiet DEF PassedIsStored
<1>3. CASE SaveToMemory(h)
  BY <1>1, <1>3, MemorySaved DEF PassedIsStored
<1>4. CASE SaveToDatabase(h)
  <2>1. /\ req[h] \in PowerRequest \cup TimeRequest
        /\ hpc[h] = "database" /\ req' = req
    BY <1>4, DatabaseSaved
  <2>2. CASE /\ hpc' = [hpc EXCEPT ![h] = hpc'[h]]
             /\ CoolerSettings(db') =
                  [CoolerSettings(db) EXCEPT ![ChangeOf(req[h]).place] = ChangeOf(req[h]).value]
    <3>1. ChangeOf(req[h]).place \in DOMAIN CoolerSettings(db)
      BY <2>1, ChangePlace DEF CoolerSettings
    <3>2. CoolerSettings(db')[ChangeOf(req[h]).place] = ChangeOf(req[h]).value
      BY <2>2, <3>1
    <3>3. ASSUME NEW g \in Handlers, g # h, hpc'[g] \in {"flag", "bus", "wakeup", "OK"}
          PROVE  CoolerSettings(db')[ChangeOf(req[g]).place] = ChangeOf(req[g]).value
      <4>1. hpc[g] \in {"flag", "bus", "wakeup", "OK"}
        BY <1>1, <2>2, <3>3
      <4>2. CoolerSettings(db)[ChangeOf(req[g]).place] = ChangeOf(req[g]).value
        BY <4>1 DEF PassedIsStored
      <4>3. CASE ChangeOf(req[g]).place = ChangeOf(req[h]).place
        <5>1. ChangeOf(req[g]).value = ChangeOf(req[h]).value
          BY <2>1, <4>1, <4>3 DEF Uncontested, InProgress
        <5> QED
          BY <3>2, <4>3, <5>1
      <4>4. CASE ChangeOf(req[g]).place # ChangeOf(req[h]).place
        BY <2>2, <4>2, <4>4
      <4> QED
        BY <4>3, <4>4
    <3> QED
      BY <2>1, <3>2, <3>3 DEF PassedIsStored
  <2>3. CASE hpc' = [hpc EXCEPT ![h] = "error"] /\ UNCHANGED db
    BY <1>1, <2>1, <2>3 DEF PassedIsStored
  <2> QED
    BY <1>4, <2>2, <2>3, DatabaseSaved
<1> QED
  BY <1>2, <1>3, <1>4 DEF Handler

LEMMA RaceMemory ==
  ASSUME StoreTyped, RaceInv, NEW h \in Handlers, SaveToMemory(h),
         crossed' = Written(ChangeOf(req[h]).place)
  PROVE  RaceInv'
<1> DEFINE p == ChangeOf(req[h]).place
           v == ChangeOf(req[h]).value
<1>1. /\ req[h] \in PowerRequest \cup TimeRequest
      /\ hpc[h] = "memory" /\ hpc' = [hpc EXCEPT ![h] = "database"]
      /\ UNCHANGED <<db, req>>
      /\ CoolerSettings(Memory') = [CoolerSettings(Memory) EXCEPT ![p] = v]
      /\ hpc \in [Handlers -> HandlerPc]
  BY MemorySaved DEF StoreTyped, HandlersTyped
<1>2. p \in CoolerPlaces /\ DOMAIN CoolerSettings(Memory) = CoolerPlaces
  BY <1>1, ChangePlace DEF CoolerSettings
<1>3. /\ CoolerSettings(Memory')[p] = v
      /\ \A q \in CoolerPlaces \ {p} : CoolerSettings(Memory')[q] = CoolerSettings(Memory)[q]
  BY <1>1, <1>2
<1>4. ASSUME NEW q \in CoolerPlaces \ crossed', q = p PROVE InStep(q)'
  <2>1. hpc'[h] = "database" /\ ChangeOf(req'[h]) = ChangeOf(req[h])
    BY <1>1
  <2>2. Between(h, q)'
    BY <1>4, <2>1 DEF Between
  <2>3. ~Contested(q)'
    BY <1>4, <2>1 DEF Written, Contested, Between
  <2>4. \A g \in Handlers : Between(g, q)' => ChangeOf(req'[g]).value = v
    BY <2>1, <2>2, <2>3 DEF Contested
  <2>5. CoolerSettings(Memory')[q] = v
    BY <1>3, <1>4
  <2> QED
    BY <2>2, <2>4, <2>5 DEF InStep
<1>5. ASSUME NEW q \in CoolerPlaces \ crossed', q # p PROVE InStep(q)'
  <2>1. InStep(q)
    BY <1>5 DEF Written, RaceInv
  <2>2. \A g \in Handlers : Between(g, q)' <=> Between(g, q)
    BY <1>1, <1>5 DEF Between
  <2> QED
    BY <1>1, <1>3, <1>5, <2>1, <2>2 DEF InStep
<1> QED
  BY <1>4, <1>5 DEF RaceInv

LEMMA RaceDatabase ==
  ASSUME "db" \notin Faults, StoreTyped, RaceInv, NEW h \in Handlers, SaveToDatabase(h),
         crossed' = crossed
  PROVE  RaceInv'
<1> DEFINE p == ChangeOf(req[h]).place
           v == ChangeOf(req[h]).value
<1>1. /\ req[h] \in PowerRequest \cup TimeRequest
      /\ hpc[h] = "database" /\ UNCHANGED <<cwt, cl_power, req>>
      /\ hpc'[h] \in {"flag", "wakeup"} /\ hpc' = [hpc EXCEPT ![h] = hpc'[h]]
      /\ CoolerSettings(db') = [CoolerSettings(db) EXCEPT ![p] = v]
      /\ hpc \in [Handlers -> HandlerPc]
  BY DatabaseSaved DEF StoreTyped, HandlersTyped
<1>2. p \in CoolerPlaces /\ DOMAIN CoolerSettings(db) = CoolerPlaces /\ Memory' = Memory
  BY <1>1, ChangePlace DEF CoolerSettings, Memory
<1>3. \A g \in Handlers : g # h => hpc'[g] = hpc[g]
  BY <1>1
<1>4. SUFFICES ASSUME NEW q \in CoolerPlaces \ crossed PROVE InStep(q)'
  BY DEF RaceInv
<1>5. InStep(q)
  BY DEF RaceInv
<1>6. \A g \in Handlers : Between(g, q)' => Between(g, q)
  BY <1>1, <1>3 DEF Between
<1>7. CASE q = p
  <2>1. CoolerSettings(Memory)[p] = v
    BY <1>1, <1>5, <1>7 DEF InStep, Between
  <2>2. CoolerSettings(db')[p] = v
    BY <1>1, <1>2
  <2> QED
    BY <1>1, <1>2, <1>5, <1>6, <1>7, <2>1, <2>2 DEF InStep
<1>8. CASE q # p
  <2>1. CoolerSettings(db')[q] = CoolerSettings(db)[q]
    BY <1>1, <1>2, <1>8
  <2>2. \A g \in Handlers : Between(g, q) => Between(g, q)'
    BY <1>1, <1>3, <1>8 DEF Between
  <2> QED
    BY <1>1, <1>2, <1>5, <1>6, <2>1, <2>2 DEF InStep
<1> QED
  BY <1>7, <1>8

LEMMA SurroundingsQuiet ==
  ASSUME Worker \/ Tick \/ UNCHANGED vars
  PROVE  UNCHANGED <<cwt, cl_power, db, hpc, req>>
BY DEF Worker, CopySettings, ReadClock, CheckSchedule, PublishState, EndSleep, Tick, vars, appVars,
       handlerVars

LEMMA RestartRestores ==
  ASSUME "db" \notin Faults, StoreTyped, Restart
  PROVE  Memory' = [cwt |-> db.cwt, power |-> db.power] /\ db' = db
<1>1. cwt' = db.cwt /\ db' = db /\ cl_power' = [c \in Coolers |-> db.power[c]]
  BY DEF Restart, RestoredPower
<1>2. db.power \in [Coolers -> Byte]
  BY SettingsType DEF StoreTyped, HandlersTyped
<1> QED
  BY <1>1, <1>2 DEF Memory

(* The steps that move neither settings nor a thread that is between the two writes *)
LEMMA RaceUndisturbed ==
  ASSUME RaceInv, UNCHANGED <<cwt, cl_power, db, crossed>>,
         \A h \in Handlers : /\ hpc'[h] = "database" <=> hpc[h] = "database"
                             /\ hpc[h] = "database" => req'[h] = req[h]
  PROVE  RaceInv'
<1>1. Memory' = Memory
  BY DEF Memory
<1>2. ASSUME NEW p \in CoolerPlaces \ crossed PROVE InStep(p)'
  <2>1. InStep(p)
    BY <1>2 DEF RaceInv
  <2>2. \A h \in Handlers : Between(h, p)' <=> Between(h, p)
    BY DEF Between
  <2>3. \A h \in Handlers : Between(h, p) => req'[h] = req[h]
    BY DEF Between
  <2> QED
    BY <1>1, <2>1, <2>2, <2>3 DEF InStep
<1> QED
  BY <1>2 DEF RaceInv

LEMMA RaceOther ==
  ASSUME StoreTyped, RaceInv, crossed' = crossed,
         \/ \E h \in Handlers : OtherSection(h) /\ ~SaveToDatabase(h)
         \/ Worker \/ Tick \/ UNCHANGED vars
  PROVE  RaceInv'
<1>1. CASE Worker \/ Tick \/ UNCHANGED vars
  BY <1>1, SurroundingsQuiet, RaceUndisturbed
<1>2. ASSUME NEW h \in Handlers, OtherSection(h), ~SaveToDatabase(h) PROVE RaceInv'
  <2>1. /\ UNCHANGED <<cwt, cl_power, db>>
        /\ hpc[h] # "database" /\ hpc' = [hpc EXCEPT ![h] = hpc'[h]]
        /\ \A g \in Handlers \ {h} : req'[g] = req[g]
        /\ hpc'[h] # "database"
        /\ hpc \in [Handlers -> HandlerPc]
    BY <1>2, StoreQuiet DEF OtherSection, StoreTyped, HandlersTyped
  <2>2. \A g \in Handlers : /\ hpc'[g] = "database" <=> hpc[g] = "database"
                            /\ hpc[g] = "database" => req'[g] = req[g]
    BY <2>1
  <2> QED
    BY <2>1, <2>2, RaceUndisturbed
<1> QED
  BY <1>1, <1>2

LEMMA RaceRestart ==
  ASSUME "db" \notin Faults, StoreTyped, Restart
  PROVE  RaceInv'
<1>1. \A h \in Handlers : hpc'[h] = "idle"
  BY DEF Restart
<1>2. CoolerSettings(Memory') = CoolerSettings(db')
  BY RestartRestores DEF CoolerSettings
<1> QED
  BY <1>1, <1>2 DEF RaceInv, InStep, Between

LEMMA PassedOther ==
  ASSUME PassedIsStored, Worker \/ Tick \/ Restart \/ UNCHANGED vars
  PROVE  PassedIsStored'
<1>1. CASE Worker \/ Tick \/ UNCHANGED vars
  BY <1>1, SurroundingsQuiet DEF PassedIsStored
<1>2. CASE Restart
  BY <1>2 DEF Restart, PassedIsStored
<1> QED
  BY <1>1, <1>2

LEMMA AnsweredStep ==
  ASSUME StoreTyped, AnsweredTyped,
         \/ \E h \in Handlers : Receive(h) \/ Handler(h)
         \/ Worker \/ Tick \/ Restart \/ UNCHANGED vars
  PROVE  AnsweredTyped'
<1>1. ASSUME NEW h \in Handlers,
             Receive(h) \/ ReadFlag(h) \/ SendPower(h) \/ Wakeup(h) \/ Reply(h)
      PROVE  AnsweredTyped'
  BY <1>1, StoreQuiet DEF AnsweredTyped, StoreTyped, HandlersTyped
<1>2. ASSUME NEW h \in Handlers, SaveToMemory(h) PROVE AnsweredTyped'
  BY <1>2, MemorySaved DEF AnsweredTyped, StoreTyped, HandlersTyped
<1>3. ASSUME NEW h \in Handlers, SaveToDatabase(h) PROVE AnsweredTyped'
  BY <1>3 DEF AnsweredTyped, StoreTyped, HandlersTyped, SaveToDatabase
<1>4. CASE Worker \/ Tick \/ UNCHANGED vars
  BY <1>4, SurroundingsQuiet DEF AnsweredTyped
<1>5. CASE Restart
  BY <1>5 DEF Restart, AnsweredTyped
<1> QED
  BY <1>1, <1>2, <1>3, <1>4, <1>5 DEF Handler

(* CoolerRaces only adds to CoolerControl what it remembers *)
LEMMA RaceIsControl == RaceSpec => Spec
<1>1. [RaceNext]_raceVars => [Next]_vars
  BY DEF RaceNext, OtherSection, Next, Handler, raceVars
<1> QED
  BY <1>1, PTL DEF RaceSpec, Spec

(* While the database works, what app_init would restore of a setting is what is in
   memory, except in the middle of a request, or after two requests for that setting have
   crossed, until the next one: for every number of request threads, all requests, and
   crashes and restarts at any point. *)
THEOREM StoredUnlessRequestsCross ==
  ASSUME "db" \notin Faults
  PROVE  RaceSpec => []StoredUnlessCrossed
<1>1. Init => RaceInv
  BY DEF Init, RaceInv, InStep, Between, Memory, CoolerSettings
<1>2. TypeOK /\ RaceInv /\ [RaceNext]_raceVars => RaceInv'
  BY TypedStore, RaceMemory, RaceDatabase, RaceOther, RaceRestart DEF RaceNext, raceVars
<1>3. RaceInv => StoredUnlessCrossed
  BY DEF RaceInv, InStep, StoredUnlessCrossed
<1> QED
  BY <1>1, <1>2, <1>3, RaceIsControl, TypeCorrect, PTL DEF RaceSpec

(* Whatever fails: a request that is answered OK is in the database, unless another one
   for the same setting, with another value, was served at the same time. *)
THEOREM UncontestedAcknowledged == Spec /\ []Uncontested => []AcknowledgedIsStored
<1> DEFINE I == PassedIsStored /\ AnsweredTyped
<1>1. Init => I
  BY DEF Init, PassedIsStored, AnsweredTyped
<1>2. TypeOK /\ Uncontested /\ I /\ [Next]_vars => I'
  BY TypedStore, PassedHandler, PassedOther, AnsweredStep DEF Next
<1>3. TypeOK /\ I => AcknowledgedIsStored
  <2> SUFFICES ASSUME I, NEW h \in Handlers, hpc[h] = "OK"
               PROVE  IF req[h].kind = "power"
                      THEN db.power[PowerTarget(req[h])] = PowerValue(req[h])
                      ELSE db.cwt[req[h].cooler][req[h].field] = req[h].min
    BY DEF AcknowledgedIsStored
  <2>1. /\ req[h] \in PowerRequest \cup TimeRequest
        /\ CoolerSettings(db)[ChangeOf(req[h]).place] = ChangeOf(req[h]).value
    BY DEF PassedIsStored, AnsweredTyped
  <2>2. CASE req[h] \in PowerRequest
    <3>1. req[h].kind = "power" /\ <<PowerTarget(req[h]), "power">> \in CoolerPlaces
      BY <2>2, RequestKinds, PowerTargetType DEF CoolerPlaces
    <3> QED
      BY <2>1, <3>1 DEF ChangeOf, CoolerSettings
  <2>3. CASE req[h] \in TimeRequest
    <3>1. /\ req[h].kind = "time" /\ req[h].field # "power"
          /\ <<req[h].cooler, req[h].field>> \in CoolerPlaces
      BY <2>3, RequestKinds DEF CoolerPlaces, TimeFields
    <3> QED
      BY <2>1, <3>1 DEF ChangeOf, CoolerSettings
  <2> QED
    BY <2>1, <2>2, <2>3
<1> QED
  BY <1>1, <1>2, <1>3, TypeCorrect, PTL DEF Spec

-----------------------------------------------------------------------------
(* When are requests uncontested?  When there is one request thread, and when all
   requests for one setting ask for the same value *)

OneHandler == \A g, h \in Handlers : g = h

Agreeing ==
  \A r, s \in Requests \ {Malformed} :
    ChangeOf(r).place = ChangeOf(s).place => ChangeOf(r).value = ChangeOf(s).value

LEMMA AloneUncontested == OneHandler => Uncontested
BY DEF OneHandler, Uncontested

LEMMA AgreeingUncontested == Agreeing /\ TypeOK /\ AnsweredTyped => Uncontested
<1>1. ASSUME TypeOK, AnsweredTyped, NEW h \in Handlers, InProgress(h)
      PROVE  req[h] \in Requests \ {Malformed}
  <2>1. req[h] \in PowerRequest \cup TimeRequest /\ req[h] \in Requests \cup {NoRequest}
    BY <1>1 DEF TypeOK, AnsweredTyped, InProgress
  <2>2. req[h].kind \in {"power", "time"}
    BY <2>1, RequestKinds
  <2> QED
    BY <2>1, <2>2 DEF NoRequest, Malformed
<1> QED
  BY <1>1 DEF Agreeing, Uncontested

THEOREM NeverContested ==
  ASSUME OneHandler \/ Agreeing
  PROVE  Spec => []Uncontested
<1>1. Init => AnsweredTyped
  BY DEF Init, AnsweredTyped
<1>2. TypeOK /\ AnsweredTyped /\ [Next]_vars => AnsweredTyped'
  BY TypedStore, AnsweredStep DEF Next
<1>3. TypeOK /\ AnsweredTyped => Uncontested
  BY AloneUncontested, AgreeingUncontested
<1> QED
  BY <1>1, <1>2, <1>3, TypeCorrect, PTL DEF Spec

(* With one request thread, or with requests that agree, a request that is answered OK
   is in the database whatever fails. *)
THEOREM AcknowledgedStored ==
  ASSUME OneHandler \/ Agreeing
  PROVE  Spec => []AcknowledgedIsStored
BY NeverContested, UncontestedAcknowledged, PTL

=============================================================================
