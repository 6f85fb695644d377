---------------------------- MODULE MCLampControl ----------------------------
(* Instances of LampControl for TLC: two request threads, one request of each
   kind. *)
EXTENDS LampControl, TLC

CONSTANTS t1, t2

Sound(kinds) == [kind : kinds, wellFormed : {TRUE}]

Unsound(kinds) == [kind : kinds, wellFormed : {FALSE}]

(* Bodies that cannot be parsed come to every handler but the one for power *)
ParsedFirst == Sound(Kinds) \cup Unsound({"setting"})

Settings == Sound({"setting"}) \cup Unsound({"setting"})

(* One to the handler that locks first *)
PowerUnparsed == Sound({"setting"}) \cup Unsound({"power"})

Symmetry == Permutations(Threads)

=============================================================================
