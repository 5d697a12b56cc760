---------------------------- MODULE NetChanDrop ----------------------------
(***************************************************************************)
(* SV_DropClient on a channel in use: the disconnect message is staged and *)
(* then SV_CleanupClient calls Netchan_Clear, which forgets the data in    *)
(* flight but neither the sequence numbers nor the even/odd bits.  As a    *)
(* zombie the client still gets packets until its slot is freed.           *)
(***************************************************************************)
EXTENDS NetChan

CONSTANT ZombiePackets   \* bound: packets the zombie gets before it is freed (a natural number)

VARIABLES state,     \* cl->state: "connected", "zombie" or "free"
          last       \* outgoing_sequence when the client was dropped

dropVars == <<vars, state, last>>

DropInit == Init /\ state = "connected" /\ last = 0

Disconnect == [kind |-> "reliable", n |-> written[NS_SERVER] + 1]

\* Netchan_Clear: everything but the numbers, the bits and the staged message.
NetchanClear(e) ==
    /\ reliable_buf' = [reliable_buf EXCEPT ![e] = <<>>]
    /\ reliable_frag' = [reliable_frag EXCEPT ![e] = [i \in Stream |-> NoHeader]]
    /\ waitlist' = [waitlist EXCEPT ![e] = [i \in Stream |-> <<>>]]
    /\ fragbufs' = [fragbufs EXCEPT ![e] = [i \in Stream |-> <<>>]]
    /\ incomingbufs' = [incomingbufs EXCEPT ![e] = [i \in Stream |-> <<>>]]
    /\ incomingready' = [incomingready EXCEPT ![e] = [i \in Stream |-> FALSE]]

DropClient ==
    /\ state = "connected"
    /\ ~overflow[NS_SERVER] /\ Len(message[NS_SERVER]) < MessageSize
    /\ message' = [message EXCEPT ![NS_SERVER] = Append(@, Disconnect)]
    /\ written' = [written EXCEPT ![NS_SERVER] = @ + 1]
    /\ NetchanClear(NS_SERVER)
    /\ state' = "zombie"
    /\ last' = outgoing_sequence[NS_SERVER]
    /\ UNCHANGED <<seqVars, overflow, frame, reconnect, network,
                   sentFiles, received, files, composed, accepted>>

\* A zombie gets no new data, only what the channel still has to send.
Zombie ==
    /\ state = "zombie"
    /\ \/ \E datagram \in Datagrams, e \in Endpoint : Transmit(e, datagram)
       \/ HoldBack
       \/ \E p \in network : ServerProcess(p) \/ ClientProcess(p)
       \/ ReadDone
    /\ UNCHANGED <<state, last>>

\* SV_CheckTimeouts, once the zombie has had its time.
Free ==
    /\ state = "zombie"
    /\ outgoing_sequence[NS_SERVER] >= last + ZombiePackets
    /\ state' = "free"
    /\ UNCHANGED <<vars, last>>

DropNext ==
    \/ state = "connected" /\ Next /\ UNCHANGED <<state, last>>
    \/ DropClient
    \/ Zombie
    \/ Free

DropSpec == DropInit /\ [][DropNext]_dropVars

-----------------------------------------------------------------------------
\* While a client is a zombie, its final reliable message is still in the
\* channel, to be resent if necessary, or has arrived (SV_CheckTimeouts:
\* "to make sure any final reliable message gets resent if necessary").
FinalMessageKept ==
    state = "zombie" =>
        \/ message[NS_SERVER] # <<>>
        \/ reliable_buf[NS_SERVER] # <<>>
        \/ \E k \in 1..Len(received[NS_CLIENT]) :
              received[NS_CLIENT][k].n = written[NS_SERVER]
=============================================================================
