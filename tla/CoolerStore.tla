------------------------------ MODULE CoolerStore ------------------------------
(* CoolerControl implements SettingsStore: the settings are the columns of the row in
   the database, whatever memory, the worker and the board do in the meantime. *)
EXTENDS CoolerControl

CoolerPlaces == Coolers \X {"start", "stop", "wp", "power"}

CoolerSettings(row) ==
  [p \in CoolerPlaces |-> IF p[2] = "power" THEN row.power[p[1]] ELSE row.cwt[p[1]][p[2]]]

ChangeOf(r) ==
  IF r.kind = "power"
  THEN [place |-> <<PowerTarget(r), "power">>, value |-> PowerValue(r)]
  ELSE [place |-> <<r.cooler, r.field>>, value |-> r.min]

CoolerChanges == {ChangeOf(r) : r \in Requests \ {Malformed}}

ClientState(pc) ==
  CASE pc \in {"memory", "database"}    -> "asked"
    [] pc \in {"flag", "bus", "wakeup"} -> "stored"
    [] OTHER                            -> pc

(* What a request asks for, until it is answered *)
Asked(pc, r) == IF pc \in {"idle", "OK", "error"} THEN [place |-> "none"] ELSE ChangeOf(r)

Store ==
  INSTANCE SettingsStore WITH
    Clients <- Handlers,
    Places  <- CoolerPlaces,
    Changes <- CoolerChanges,
    Initial <- {CoolerSettings(row) : row \in Stored},
    store   <- CoolerSettings(db),
    client  <- [h \in Handlers |-> ClientState(hpc[h])],
    change  <- [h \in Handlers |-> Asked(hpc[h], req[h])]

(* Every step of the handlers, the worker, the clock and a restart is a step of the
   store or does not concern it: app_save_coolers_power and app_set_coolers_time change
   one column, once, before they answer OK, and no one else changes any. *)
KeepsSettings == Store!Spec

=============================================================================
