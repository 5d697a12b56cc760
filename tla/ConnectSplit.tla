--------------------------- MODULE ConnectSplit ---------------------------
(***************************************************************************)
(* A client whose packets may be longer than cl_maxoutpacket and so are    *)
(* sent as netsplit packets, which SV_ReadPackets looks up by base address *)
(* on their own.                                                           *)
(***************************************************************************)
EXTENDS Connect

\* Netchan_TransmitBits with chan->split and a long packet.
WriteSplitPacket(c) ==
    /\ Linked(c)
    /\ Cardinality({m \in network : m.kind = "netsplit"}) < MaxNetwork
    /\ network' = network \cup {Datagram("netsplit", c)}
    /\ UNCHANGED <<clientVars, slotVars, userVars>>

\* "find client with this address and enabled netsplit": the loop has no break,
\* so that it always ends with i >= sv_maxclients, whoever the packet is from.
ReadSplitPacket(m) ==
    /\ m.kind = "netsplit"
    /\ Reject(m)

SplitNext ==
    \/ Next
    \/ \E c \in Clients : WriteSplitPacket(c)
    \/ \E m \in network : ReadSplitPacket(m)

SplitSpec == Init /\ [][SplitNext]_vars

\* "a disconnect message from the server, which will happen if the server
\* dropped the connection" (CL_ConnectionlessPacket): unless it answers a connect
\* packet, no disconnect is on its way while client and server hold the same
\* connection.
DisconnectMeansDropped ==
    \A m \in network :
        m.kind = "disconnect" /\ Asking(m.client) = {} =>
            ~\E s \in SlotsOf(m.client) : Linked(m.client) /\ chan[m.client] = schan[s]
=============================================================================
