---------------------------- MODULE NetChanChains ----------------------------
(***************************************************************************)
(* The inductive invariant behind SingleChain and NoReconnect: where the   *)
(* fragments of a stream are.  Only the server has any; those the client   *)
(* has, the one in the payload under way and those the server still holds  *)
(* follow each other.                                                      *)
(***************************************************************************)
EXTENDS NetChanInv

Other(i) == IF i = FRAG_NORMAL_STREAM THEN FRAG_FILE_STREAM ELSE FRAG_NORMAL_STREAM

\* The server never has regular data and a file to send.
Unmixed == MaxFiles = 0 \/ MaxWritten[NS_SERVER] = 0

\* What bufs holds is the end of a chain.
IsTail(bufs) ==
    \A k \in 1..Len(bufs) :
        /\ bufs[k].count = bufs[1].count
        /\ bufs[k].id = bufs[k].count - Len(bufs) + k
        /\ bufs[k].id >= 1

\* ... and a chain from its first fragment on.
IsStart(bufs) ==
    \A k \in 1..Len(bufs) : /\ bufs[k].count = bufs[1].count /\ bufs[k].id = k
                            /\ Len(bufs) <= bufs[k].count

CountOf(bufs) == IF bufs = <<>> THEN 0 ELSE bufs[1].count

\* bufs is what comes after fragment number id of a chain of count.
Follows(bufs, id, count) ==
    IF id = count THEN bufs # <<>> => bufs[1].id = 1
                  ELSE bufs # <<>> /\ bufs[1].id = id + 1 /\ bufs[1].count = count

\* Whole chains wait, and fragments are sent from the front.
Tails  == {bufs \in Seq(FittingFragment) : IsTail(bufs)}
Wholes == {chain \in Tails \ {<<>>} : chain[1].id = 1}

Queues(s) == fragbufs[s] \in [Stream -> Tails] /\ waitlist[s] \in [Stream -> Seq(Wholes)]

\* The client's list and the payload under way, if it has a fragment, are the
\* beginning of what fragbufs is the end of.
Places(s) ==
    \A i \in Stream :
        LET inb == incomingbufs[Peer(s)][i]
            h   == reliable_frag[s][i]
        IN  /\ IsStart(inb)
            /\ incomingready[Peer(s)][i] <=> inb # <<>> /\ Len(inb) = CountOf(inb)
            /\ CaughtUp(s) \/ h.id = 0 => Follows(fragbufs[s][i], Len(inb), CountOf(inb))
            /\ ~CaughtUp(s) /\ h.id # 0 =>
                  /\ h.id = Len(inb) + 1 /\ h.id <= h.count
                  /\ inb # <<>> => CountOf(inb) = h.count
                  /\ Follows(fragbufs[s][i], h.id, h.count)

\* A chain is only complete between the arrival of its last fragment and the
\* end of the client's loop; meanwhile the server waits.
Ready(s) ==
    (\E i \in Stream : incomingready[Peer(s)][i]) =>
        /\ CaughtUp(s) /\ reliable_buf[s] # <<>>
        /\ \A q \in network :
              q.from = Peer(s) /\ q.seq > incoming_sequence[s] => q.relack # reliable_sequence[s]
        /\ frame \notin {"copy", "send"}
        /\ ParseTransmits => frame # "parse"

\* What the packets of s contain.
Packets(s) ==
    \A p \in network : p.from = s =>
        /\ ~p.reliable => p.frag = [i \in Stream |-> NoHeader] /\ p.body \in Datagrams
        /\ p.reliable /\ p.seq > incoming_sequence[Peer(s)] =>
              /\ p.frag = reliable_frag[s]
              /\ \E datagram \in Datagrams : p.body = reliable_buf[s] \o datagram

\* Where regular data and files do not meet, a fragment is alone in its payload.
Alone(s) ==
    Unmixed =>
        /\ MaxFiles = 0 => /\ fragbufs[s][FRAG_FILE_STREAM] = <<>>
                           /\ waitlist[s][FRAG_FILE_STREAM] = <<>>
        /\ MaxWritten[s] = 0 => /\ message[s] = <<>>
                                /\ fragbufs[s][FRAG_NORMAL_STREAM] = <<>>
                                /\ waitlist[s][FRAG_NORMAL_STREAM] = <<>>
        /\ reliable_buf[s] # <<>> => \A i \in Stream : reliable_frag[s][i].id # 0 =>
              /\ reliable_frag[s][i].start = 0
              /\ reliable_frag[s][i].len = Len(reliable_buf[s])
              /\ reliable_frag[s][Other(i)] = NoHeader

\* The client sends its reliable data in one piece.
ClientWhole ==
    /\ \A i \in Stream : /\ fragbufs[NS_CLIENT][i] = <<>> /\ waitlist[NS_CLIENT][i] = <<>>
                         /\ incomingbufs[NS_SERVER][i] = <<>> /\ ~incomingready[NS_SERVER][i]
                         /\ reliable_frag[NS_CLIENT][i] = NoHeader
    /\ \A p \in network : p.from = NS_CLIENT => \A i \in Stream : p.frag[i] = NoHeader

\* Fragments are where they belong: the inductive strengthening of SingleChain
\* and NoReconnect.
ChainsInv ==
    /\ Queues(NS_SERVER) /\ Places(NS_SERVER) /\ Ready(NS_SERVER)
    /\ Packets(NS_SERVER) /\ Alone(NS_SERVER)
    /\ ClientWhole /\ NoReconnect
=============================================================================
