----------------------------- MODULE MCConnect -----------------------------
(* Constants of the run of the connections: times in seconds, except the   *)
(* three longest, which only keep their order.                             *)
EXTENDS Connect

Names == 1..5
=============================================================================
