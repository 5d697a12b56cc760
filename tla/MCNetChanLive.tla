--------------------------- MODULE MCNetChanLive ---------------------------
(* Constants of the liveness run of the netchan. *)
EXTENDS NetChanLive

NoDatagram  == {<<>>}
Size1       == {1}
Size2       == {2}
Written     == [e \in Endpoint |-> IF e = NS_SERVER THEN 2 ELSE 1]
Chaotic     == [e \in Endpoint |-> IF e = NS_SERVER THEN 3 ELSE 2]
Enough      == [e \in Endpoint |-> 9]
=============================================================================
