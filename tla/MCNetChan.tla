----------------------------- MODULE MCNetChan -----------------------------
(* Constants of the netchan runs. *)
EXTENDS NetChanPipes

D1 == [kind |-> "datagram", n |-> 0]
NoDatagram   == {<<>>}
SomeDatagram == {<<D1>>}
NoResources  == {}

\* server, client
Both(s, c) == [e \in Endpoint |-> IF e = NS_SERVER THEN s ELSE c]
None        == Both(0, 0)
ServerTwo   == Both(2, 0)
ClientOne   == Both(0, 1)
ServerSeven == Both(7, 0)
Seq54       == Both(5, 4)
Seq44       == Both(4, 4)

Size1 == {1}
Size3 == {3}
Size4 == {4}
=============================================================================
