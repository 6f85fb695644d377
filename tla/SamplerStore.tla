------------------------------ MODULE SamplerStore ------------------------------
(* ThSampler implements SettingsStore, with one setting: th_poll_period in the row of
   the database, whatever a reload and the worker do to the copies in memory. *)
EXTENDS ThSampler

Store ==
  INSTANCE SettingsStore WITH
    Clients <- Handlers,
    Places  <- {"period"},
    Changes <- {[place |-> "period", value |-> PeriodOf(m)] : m \in Minutes},
    Initial <- [{"period"} -> Stored],
    store   <- [p \in {"period"} |-> db_period],
    client  <- [h \in Handlers |-> CASE hpc[h] = "database"             -> "asked"
                                     [] hpc[h] \in {"memory", "wakeup"} -> "stored"
                                     [] OTHER                           -> hpc[h]],
    change  <- [h \in Handlers |-> IF new_period[h] = 0 THEN [place |-> "none"]
                                   ELSE [place |-> "period", value |-> new_period[h]]]

(* Every step of the handlers, the worker, a reload and a restart is a step of the
   store or does not concern it: app_set_th_period changes the period in the database
   once, before it answers OK, and nobody else does. *)
KeepsPeriod == Store!Spec

=============================================================================
