------------------------------ MODULE MCThSampler ------------------------------
(* Instance of ThSampler for TLC *)
EXTENDS SamplerStore, TLC

CONSTANTS h1, h2

(* A period that is too short, one that is not, one that is negative *)
SomeMinutes == {2, 3, -1}

(* The database is new, or has grown to the limit *)
SomeTables == {[rows |-> 0, file |-> 0], [rows |-> 2, file |-> 2]}

=============================================================================
