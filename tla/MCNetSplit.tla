----------------------------- MODULE MCNetSplit -----------------------------
(* Constants of the netsplit runs. *)
EXTENDS NetSplit

Long    == {3, 5, 6}
TooMany == {3, 11}
=============================================================================
