---------------------------- MODULE NetChanLive ----------------------------
(***************************************************************************)
(* The netchan on a network that loses, repeats and reorders packets for a *)
(* while and then works: from the stable time on the two programs run      *)
(* their frames in turn and every new packet arrives.  Packets sent before *)
(* and not processed by then are lost.  Reliable data handed over before   *)
(* the stable time must come out at the other end.                         *)
(***************************************************************************)
EXTENDS NetChan

CONSTANT ChaosSeq    \* bound: outgoing_sequence of each endpoint until the stable time

ASSUME ChaosAssumption == ChaosSeq \in [Endpoint -> Nat]

VARIABLES stable, turn

liveVars == <<vars, stable, turn>>

LiveInit == Init /\ stable = FALSE /\ turn = NS_SERVER

\* Anything the network and the two programs may do.
Chaos ==
    /\ ~stable
    /\ Next
    /\ \A e \in Endpoint : outgoing_sequence'[e] <= ChaosSeq[e]
    /\ UNCHANGED <<stable, turn>>

Stabilise == ~stable /\ stable' = TRUE /\ UNCHANGED <<vars, turn>>

\* The peer's packet of this round.
Newest(p) == p.seq = outgoing_sequence[p.from] - 1

\* A frame of the server: the packet of the client is read in before the
\* next one goes out.
ServerReads ==
    /\ stable /\ turn = NS_SERVER
    /\ \E p \in network : Newest(p) /\ ServerProcess(p)
    /\ UNCHANGED <<stable, turn>>

ServerSends ==
    /\ stable /\ turn = NS_SERVER
    /\ ~ \E p \in network : p.from = NS_CLIENT /\ Newest(p) /\ Fresh(NS_SERVER, p)
    /\ \E datagram \in Datagrams : Transmit(NS_SERVER, datagram)
    /\ turn' = NS_CLIENT
    /\ UNCHANGED stable

\* A frame of the client: read all there is, then send.
ClientReads ==
    /\ stable /\ turn = NS_CLIENT
    /\ \E p \in network : Newest(p) /\ ClientProcess(p)
    /\ UNCHANGED <<stable, turn>>

ClientReadDone ==
    /\ stable /\ turn = NS_CLIENT
    /\ ~ \E p \in network : p.from = NS_SERVER /\ Newest(p) /\ Fresh(NS_CLIENT, p)
    /\ ReadDone
    /\ UNCHANGED <<stable, turn>>

\* The stable time may find the client already past its read loop.
ClientSends ==
    /\ stable /\ turn = NS_CLIENT
    /\ \E datagram \in Datagrams : Transmit(NS_CLIENT, datagram)
    /\ turn' = NS_SERVER
    /\ UNCHANGED stable

LiveNext ==
    \/ Chaos
    \/ Stabilise
    \/ ServerReads
    \/ ServerSends
    \/ ClientReads
    \/ ClientReadDone
    \/ ClientSends

\* The host frame keeps running both programs, and the bad time ends.
LiveSpec ==
    /\ LiveInit /\ [][LiveNext]_liveVars
    /\ WF_liveVars(Stabilise)
    /\ WF_liveVars(ServerReads \/ ServerSends \/ ClientReads \/ ClientReadDone \/ ClientSends)

-----------------------------------------------------------------------------
\* Every reliable unit handed to the channel, as a message or as fragments,
\* eventually reaches the parser of the peer, whatever was lost before the
\* stable time (resending in TransmitBits, acknowledgements in Process).
Delivered ==
    \A e \in Endpoint : \A n \in 1..MaxWritten[e] :
        written[e] >= n ~> Len(received[Peer(e)]) >= n

\* The sender eventually learns that everything has arrived: the channel
\* comes to rest with nothing left to resend.
ComesToRest ==
    <>[](\A e \in Endpoint : reliable_buf[e] = <<>> /\ composed[e] = Len(accepted[Peer(e)]))
=============================================================================
