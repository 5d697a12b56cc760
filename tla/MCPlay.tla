------------------------------- MODULE MCPlay -------------------------------
(* Instances of Play for TLC. *)
EXTENDS PlayFrames

FrameSizes == {1, 2}
OtherSizes == {1}
=============================================================================
