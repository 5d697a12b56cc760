--------------------------- MODULE MCNetChanDrop ---------------------------
(* Constants of the run that drops a client. *)
EXTENDS NetChanDrop

NoDatagram  == {<<>>}
NoResources == {}
Size1       == {1}
ServerOne   == [e \in Endpoint |-> IF e = NS_SERVER THEN 1 ELSE 0]
FourEach    == [e \in Endpoint |-> 4]
=============================================================================
