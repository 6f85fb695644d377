------------------------------ MODULE CoolerRaces ------------------------------
(* Memory and database, which app_save_coolers_power and app_set_coolers_time write in
   two sections: CoolerControl with a history variable that tells for which settings two
   request threads have crossed between the two. *)
EXTENDS CoolerStore

VARIABLE crossed  \* settings whose last write to memory came while another one was on its way

raceVars == <<vars, crossed>>

(* The settings in app_data, as a row *)
Memory == [cwt |-> cwt, power |-> cl_power]

Between(h, p) == hpc[h] = "database" /\ ChangeOf(req[h]).place = p

(* Two threads are between memory and database with different values for one setting *)
Contested(p) ==
  \E g, h \in Handlers :
    Between(g, p) /\ Between(h, p) /\ ChangeOf(req[g]).value # ChangeOf(req[h]).value

Written(p) == IF Contested(p)' THEN crossed \cup {p} ELSE crossed \ {p}

OtherSection(h) ==
  \/ Receive(h)
  \/ SaveToDatabase(h)
  \/ ReadFlag(h)
  \/ SendPower(h)
  \/ Wakeup(h)
  \/ Reply(h)

RaceNext ==
  \/ \E h \in Handlers : SaveToMemory(h) /\ crossed' = Written(ChangeOf(req[h]).place)
  \/ \E h \in Handlers : OtherSection(h) /\ UNCHANGED crossed
  \/ Worker /\ UNCHANGED crossed
  \/ Tick /\ UNCHANGED crossed
  \/ Restart /\ crossed' = {}

RaceSpec == Init /\ crossed = {} /\ [][RaceNext]_raceVars

(* The database, from which app_init restores the settings, holds each setting as it is
   in memory, or a request for it is between its two writes, unless two requests with
   different values have crossed there: these may reach memory and database in opposite
   orders, and the two then differ until the next request for that setting, or the next
   start.  (Holds while the database works: after an error memory keeps the new value.) *)
StoredUnlessCrossed ==
  \A p \in CoolerPlaces \ crossed :
    CoolerSettings(Memory)[p] = CoolerSettings(db)[p] \/ \E h \in Handlers : Between(h, p)

=============================================================================
