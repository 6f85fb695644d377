---------------------------- MODULE MCCoolersBoard ----------------------------
(* Instance of CoolersBoard for TLC: the worker and one request thread. *)
EXTENDS BoardService

CONSTANTS h1, h2

Set(c, p) == [kind |-> "set", cooler |-> c, power |-> p]

Get(c) == [kind |-> "get", cooler |-> c]

(* One power is beyond the limit *)
BoardRequests == {Set("input", 0), Set("input", 60), Set("output", 120), Get("output")}

=============================================================================
