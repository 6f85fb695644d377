------------------------------- MODULE MCServers -------------------------------
(* Instance of Servers for TLC: two request threads. *)
EXTENDS Servers

CONSTANTS t1, t2

=============================================================================
