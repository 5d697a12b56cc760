--------------------------- MODULE MCConnectSplit ---------------------------
(* The instance of MCConnect with long packets of the client.              *)
EXTENDS ConnectSplit

Names == 1..5
=============================================================================
