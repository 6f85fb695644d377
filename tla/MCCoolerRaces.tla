----------------------------- MODULE MCCoolerRaces -----------------------------
(* Instance of CoolerRaces for TLC: two request threads. *)
EXTENDS CoolerRaces, TLC

CONSTANTS h1, h2

Threads == Permutations(Handlers)

Time(start, stop, wp) == [start |-> start, stop |-> stop, wp |-> wp]

(* Both coolers have a schedule.  The power of the input cooler changes to more than a
   byte holds, and its work period to one value or another, the stored one *)
RaceStored ==
  {[cwt   |-> [c \in Coolers |-> IF c = "input" THEN Time(0, 2, 1) ELSE Time(1, 2, 1)],
    power |-> [c \in Coolers |-> IF c = "input" THEN 40 ELSE 50]]}

RaceRequests ==
  {[kind |-> "power", in |-> 256 + 120, out |-> -1],
   [kind |-> "time", cooler |-> "input", field |-> "wp", min |-> 2],
   [kind |-> "time", cooler |-> "input", field |-> "wp", min |-> 1]}

=============================================================================
