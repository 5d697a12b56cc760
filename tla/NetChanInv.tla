----------------------------- MODULE NetChanInv -----------------------------
(***************************************************************************)
(* The inductive invariant behind InOrderOnce, AckMeansAccepted and        *)
(* OneInFlight, for a channel that is not cleared while in use and whose   *)
(* chunks fit into a reliable payload.  Each part speaks about the         *)
(* reliable payloads that endpoint s sends to its peer.                    *)
(***************************************************************************)
EXTENDS NetChan

\* The peer has taken in everything s has composed.
CaughtUp(s) == Len(accepted[Peer(s)]) = composed[s]

\* It has everything but perhaps the last payload, and the two even/odd
\* bits agree exactly when it has that one too.
Counts(s) ==
    /\ CaughtUp(s) \/ Len(accepted[Peer(s)]) = composed[s] - 1
    /\ \A k \in 1..Len(accepted[Peer(s)]) : accepted[Peer(s)][k] = k
    /\ CaughtUp(s) <=> incoming_reliable_sequence[Peer(s)] = reliable_sequence[s]

\* Nobody is ahead of what has been sent.
Numbers(s) ==
    /\ incoming_sequence[Peer(s)] < outgoing_sequence[s]
    /\ last_reliable_sequence[s] < outgoing_sequence[s]
    /\ incoming_acknowledged[s] <= incoming_sequence[Peer(s)]
    /\ \A p \in network : p.from = s => p.seq < outgoing_sequence[s]
    /\ \A p \in network : p.from = Peer(s) => p.ack <= incoming_sequence[Peer(s)]

\* Only the last copy of the last payload can still be taken in, and only
\* if the peer does not have it.
Payloads(s) ==
    /\ \A p, q \in network : p.from = s /\ q.from = s /\ p.seq = q.seq => p = q
    /\ \A p \in network : p.from = s /\ p.reliable =>
          /\ p.seq <= last_reliable_sequence[s]
          /\ p.seq > incoming_sequence[Peer(s)] =>
                /\ p.seq = last_reliable_sequence[s]
                /\ p.batch = composed[s]
                /\ ~CaughtUp(s)

\* What s has heard, or can still hear, about its last payload is true; once
\* its packet has been passed, the peer reports the payload if it has it.
Acks(s) ==
    /\ \A q \in network : q.from = Peer(s) /\ q.seq > incoming_sequence[s] =>
          /\ q.relack = reliable_sequence[s] => CaughtUp(s)
          /\ CaughtUp(s) /\ q.ack >= last_reliable_sequence[s] => q.relack = reliable_sequence[s]
          /\ reliable_buf[s] = <<>> => q.relack = reliable_sequence[s]
    /\ \A p, q \in network :
          /\ p.from = Peer(s) /\ q.from = Peer(s)
          /\ p.seq > incoming_sequence[s] /\ q.seq > p.seq
          /\ p.relack = reliable_sequence[s]
          => q.relack = reliable_sequence[s]
    /\ CaughtUp(s) /\ incoming_acknowledged[s] >= last_reliable_sequence[s] =>
          incoming_reliable_acknowledged[s] = reliable_sequence[s]
    /\ reliable_buf[s] = <<>> =>
          CaughtUp(s) /\ incoming_reliable_acknowledged[s] = reliable_sequence[s]

\* Every fragment that waits has data, and fits into an empty payload.
FittingFragment == {f \in DataFragment : f.data # <<>> /\ Len(f.data) < MAX_RELIABLE_PAYLOAD}
FragmentsFit ==
    /\ fragbufs \in [Endpoint -> [Stream -> Seq(FittingFragment)]]
    /\ waitlist \in [Endpoint -> [Stream -> Seq(Seq(FittingFragment) \ {<<>>})]]

\* A packet that is marked as reliable begins with reliable data.
ReliableFirst == \A p \in network : p.reliable => p.body # <<>> /\ p.body[1] \in DataUnit

ChannelInv(s) == Counts(s) /\ Numbers(s) /\ Payloads(s) /\ Acks(s)

\* The even/odd bit protocol is right in both directions: the inductive
\* strengthening of InOrderOnce, AckMeansAccepted and OneInFlight.
IInv == \A s \in Endpoint : ChannelInv(s)
=============================================================================
