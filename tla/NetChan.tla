------------------------------ MODULE NetChan ------------------------------
(***************************************************************************)
(* engine/common/net_chan.c: the sequenced channel between one client and  *)
(* one server.  A packet may carry one reliable payload, which is repeated *)
(* until the peer's even/odd bit acknowledges it, and an unreliable        *)
(* datagram.  A reliable payload is made of the staged message and of at   *)
(* most one fragment of each of two streams (normal data and files).       *)
(*                                                                         *)
(* The network is the set of all packets ever sent: a packet that is never *)
(* processed is lost, one processed late is reordered, and it stays in the *)
(* set, so that it can be delivered again.                                 *)
(*                                                                         *)
(* Data is counted in units: chunk sizes, payload limits and message sizes *)
(* are numbers of units.                                                   *)
(***************************************************************************)
EXTENDS Integers, Sequences

CONSTANTS
    NormalChunk,          \* net_blocksize of the normal stream: bound(16, net_blocksize, 1400)
    FileChunk,            \* net_blocksize of the file stream: bound(16, net_blocksize, 512)
    MAX_RELIABLE_PAYLOAD, \* biggest packet that has fragment or reliable data
    MessageSize,          \* room in netchan->message
    FileSize,             \* size of the files a client may ask for; an empty one is refused
    Datagrams,            \* the unreliable payloads handed to Netchan_Transmit
    WriteSizes,           \* sizes of the reliable messages written to netchan->message
    ResourceSizes,        \* sizes of the messages SV_SendRes_f fragments
    ParseTransmits,       \* TRUE if CL_CheckingResFile may transmit while parsing
    MaxWritten,           \* bound: reliable units each endpoint writes
    MaxFiles,             \* bound: files the server sends
    MaxSeq                \* bound: outgoing_sequence of each endpoint

NS_CLIENT == "client"
NS_SERVER == "server"
Endpoint  == {NS_CLIENT, NS_SERVER}
Peer(e)   == IF e = NS_CLIENT THEN NS_SERVER ELSE NS_CLIENT

FRAG_NORMAL_STREAM == 0
FRAG_FILE_STREAM   == 1
Stream == {FRAG_NORMAL_STREAM, FRAG_FILE_STREAM}

Unit == [kind : {"reliable", "file", "datagram"}, n : Nat]
DataUnit == {u \in Unit : u.kind # "datagram"}
DatagramUnit == {u \in Unit : u.kind = "datagram"}

ASSUME NetChanAssumption ==
    /\ NormalChunk \in Nat \ {0}
    /\ FileChunk \in Nat \ {0}
    /\ MAX_RELIABLE_PAYLOAD \in Nat
    /\ MessageSize \in Nat
    /\ FileSize \in Nat \ {0}
    /\ Datagrams \subseteq Seq(DatagramUnit)
    /\ WriteSizes \subseteq Nat \ {0}
    /\ ResourceSizes \subseteq Nat \ {0}
    /\ ParseTransmits \in BOOLEAN
    /\ MaxWritten \in [Endpoint -> Nat]
    /\ MaxFiles \in Nat
    /\ MaxSeq \in [Endpoint -> Nat]

VARIABLES
    outgoing_sequence, incoming_sequence,
    incoming_acknowledged, incoming_reliable_acknowledged,
    incoming_reliable_sequence, reliable_sequence, last_reliable_sequence,
    message,        \* staging buffer for reliable data
    overflow,       \* BF_CheckOverflow( &chan->message )
    reliable_buf,   \* the unacknowledged reliable payload, <<>> when reliable_length = 0
    reliable_frag,  \* reliable_fragment, reliable_fragid, frag_startpos, frag_length
    waitlist,       \* per stream, the chains of fragments that wait
    fragbufs,       \* per stream, what is left of the chain being sent
    incomingbufs, incomingready,
    frame,          \* where the client is in its frame, see Frame
    reconnect,      \* Cbuf_AddText( "reconnect\n" ) was queued
    network,        \* every packet sent so far
    \* history, read by no action:
    written,        \* reliable units handed to the channel
    sentFiles,      \* files handed to the channel
    received,       \* reliable units passed on to the message parser
    files,          \* files written by Netchan_CopyFileFragments
    composed,       \* reliable payloads composed
    accepted        \* numbers of the reliable payloads the endpoint took in

seqVars   == <<outgoing_sequence, incoming_sequence, incoming_acknowledged,
               incoming_reliable_acknowledged, incoming_reliable_sequence,
               reliable_sequence, last_reliable_sequence>>
sendVars  == <<message, overflow, reliable_buf, reliable_frag, waitlist, fragbufs>>
inVars    == <<incomingbufs, incomingready, frame, reconnect>>
histVars  == <<written, sentFiles, received, files, composed, accepted>>
vars      == <<seqVars, sendVars, inVars, network, histVars>>

-----------------------------------------------------------------------------
Least(a, b) == IF a <= b THEN a ELSE b

\* The reliable units number a to b of an endpoint.
Reliables(a, b) == [k \in 1..(b - a + 1) |-> [kind |-> "reliable", n |-> a + k - 1]]

\* File number f, unit by unit.
FileData(f) == [k \in 1..FileSize |-> [kind |-> "file", n |-> f * FileSize + k]]

ChainOverlaps(data, chunk) ==
    LET count == (Len(data) + chunk - 1) \div chunk
    IN  [k \in 1..count |->
            [id |-> k, count |-> count,
             data |-> SubSeq(data, (k - 1) * chunk + 1, Least(k * chunk + 1, Len(data)))]]

\* Netchan_CreateFragments_ and Netchan_CreateFileFragments: the chain of
\* fragments of some data.  An empty message makes no chain.
Chain(data, chunk) ==
    LET count == (Len(data) + chunk - 1) \div chunk
    IN  [k \in 1..count |->
            [id |-> k, count |-> count,
             data |-> SubSeq(data, (k - 1) * chunk + 1, Least(k * chunk, Len(data)))]]

\* Add a chain at the end of a stream's waitlist.
Enqueue(waits, chain) == IF chain = <<>> THEN waits ELSE Append(waits, chain)

\* Netchan_FragSend for one stream: when nothing is queued up, the first
\* waiting chain becomes the current one.
Promotes(bufs, waits)      == bufs = <<>> /\ waits # <<>>
PromotedBufs(bufs, waits)  == IF Promotes(bufs, waits) THEN Head(waits) ELSE bufs
PromotedWaits(bufs, waits) == IF Promotes(bufs, waits) THEN Tail(waits) ELSE waits

\* The even/odd bit of the reliable payload: ^= 1.
ToggleAdds(bit) == bit + 1
Toggle(bit) == 1 - bit

-----------------------------------------------------------------------------
NoHeader == [id |-> 0, count |-> 0, start |-> 0, len |-> 0]
Header   == [id : Nat, count : Nat, start : Nat, len : Nat]
Fragment == [id : Nat, count : Nat, data : Seq(Unit)]
DataFragment == {f \in Fragment : f.data \in Seq(DataUnit)}
Packet   == [from : Endpoint, seq : Nat, ack : Nat, reliable : BOOLEAN, relack : {0, 1},
             frag : [Stream -> Header], body : Seq(Unit), batch : Nat]

\* The client's frame: inside the loop of CL_ReadNetMessage, there with a
\* reliable message just parsed, after the loop with a reassembled message
\* just parsed, or on the way to CL_WritePacket.
Frame == {"read", "parse", "copy", "send"}

\* Netchan_Setup on both sides.
Init ==
    /\ outgoing_sequence = [e \in Endpoint |-> 1]
    /\ incoming_sequence = [e \in Endpoint |-> 0]
    /\ incoming_acknowledged = [e \in Endpoint |-> 0]
    /\ incoming_reliable_acknowledged = [e \in Endpoint |-> 0]
    /\ incoming_reliable_sequence = [e \in Endpoint |-> 0]
    /\ reliable_sequence = [e \in Endpoint |-> 0]
    /\ last_reliable_sequence = [e \in Endpoint |-> 0]
    /\ message = [e \in Endpoint |-> <<>>]
    /\ overflow = [e \in Endpoint |-> FALSE]
    /\ reliable_buf = [e \in Endpoint |-> <<>>]
    /\ reliable_frag = [e \in Endpoint |-> [i \in Stream |-> NoHeader]]
    /\ waitlist = [e \in Endpoint |-> [i \in Stream |-> <<>>]]
    /\ fragbufs = [e \in Endpoint |-> [i \in Stream |-> <<>>]]
    /\ incomingbufs = [e \in Endpoint |-> [i \in Stream |-> <<>>]]
    /\ incomingready = [e \in Endpoint |-> [i \in Stream |-> FALSE]]
    /\ frame = "read"
    /\ reconnect = FALSE
    /\ network = {}
    /\ written = [e \in Endpoint |-> 0]
    /\ sentFiles = 0
    /\ received = [e \in Endpoint |-> <<>>]
    /\ files = <<>>
    /\ composed = [e \in Endpoint |-> 0]
    /\ accepted = [e \in Endpoint |-> <<>>]

-----------------------------------------------------------------------------
(* Handing data to the channel. *)

\* BF_Write*( &chan->message, ... ): a write that does not fit sets the overflow
\* flag, after which nothing is sent: the server drops the client when it comes to
\* send.  The code also marks the whole buffer as written, which only a
\* Netchan_CreateFragments before that would notice: SendResources leaves it out.
WriteMessage(e, size) ==
    /\ ~overflow[e]
    /\ \/ /\ Len(message[e]) + size <= MessageSize
          /\ written[e] + size <= MaxWritten[e]
          /\ message' = [message EXCEPT ![e] = @ \o Reliables(written[e] + 1, written[e] + size)]
          /\ written' = [written EXCEPT ![e] = @ + size]
          /\ UNCHANGED overflow
       \/ /\ Len(message[e]) + size > MessageSize
          /\ overflow' = [overflow EXCEPT ![e] = TRUE]
          /\ UNCHANGED <<message, written>>
    /\ UNCHANGED <<seqVars, reliable_buf, reliable_frag, waitlist, fragbufs, inVars, network,
                   sentFiles, received, files, composed, accepted>>

\* SV_SendRes_f: Netchan_CreateFragments, which queues the pending reliable
\* data ahead of the new message, and then Netchan_FragSend.
SendResources(size) ==
    LET e     == NS_SERVER
        data  == Reliables(written[e] + 1, written[e] + size)
        waits == [waitlist[e] EXCEPT ![FRAG_NORMAL_STREAM] =
                    Enqueue(Enqueue(@, Chain(message[e], NormalChunk)), Chain(data, NormalChunk))]
    IN  /\ written[e] + size <= MaxWritten[e]
        /\ ~overflow[e] /\ UNCHANGED overflow
        /\ written' = [written EXCEPT ![e] = @ + size]
        /\ message' = [message EXCEPT ![e] = <<>>]
        /\ waitlist' = [waitlist EXCEPT ![e] =
                          [i \in Stream |-> PromotedWaits(fragbufs[e][i], waits[i])]]
        /\ fragbufs' = [fragbufs EXCEPT ![e] =
                          [i \in Stream |-> PromotedBufs(fragbufs[e][i], waits[i])]]
        /\ UNCHANGED <<seqVars, reliable_buf, reliable_frag, inVars, network,
                       sentFiles, received, files, composed, accepted>>

\* SV_ParseResourceList: Netchan_CreateFileFragments, then Netchan_FragSend.
SendFile ==
    LET e     == NS_SERVER
        waits == [waitlist[e] EXCEPT ![FRAG_FILE_STREAM] =
                    Enqueue(@, Chain(FileData(sentFiles + 1), FileChunk))]
    IN  /\ sentFiles < MaxFiles
        /\ sentFiles' = sentFiles + 1
        /\ waitlist' = [waitlist EXCEPT ![e] =
                          [i \in Stream |-> PromotedWaits(fragbufs[e][i], waits[i])]]
        /\ fragbufs' = [fragbufs EXCEPT ![e] =
                          [i \in Stream |-> PromotedBufs(fragbufs[e][i], waits[i])]]
        /\ UNCHANGED <<seqVars, message, overflow, reliable_buf, reliable_frag, inVars, network,
                       written, received, files, composed, accepted>>

-----------------------------------------------------------------------------
(* Netchan_TransmitBits. *)

NeedsResendNever(e) == FALSE
NeedsResendUnheard(e) == incoming_reliable_acknowledged[e] # reliable_sequence[e]

\* The remote side dropped the last reliable message: resend it.
NeedsResend(e) ==
    /\ incoming_acknowledged[e] > last_reliable_sequence[e]
    /\ incoming_reliable_acknowledged[e] # reliable_sequence[e]

ActiveBufs(e)  == [i \in Stream |-> PromotedBufs(fragbufs[e][i], waitlist[e][i])]
ActiveWaits(e) == [i \in Stream |-> PromotedWaits(fragbufs[e][i], waitlist[e][i])]

StalledNever(e) == FALSE

\* Regular reliable data stalls while the normal stream has fragments to send.
Stalled(e) == message[e] # <<>> /\ ActiveBufs(e)[FRAG_NORMAL_STREAM] # <<>>
Regular(e) == IF Stalled(e) THEN <<>> ELSE message[e]

\* A stalled message that has gotten too big is queued behind everything.
Requeues(e) == Stalled(e) /\ Len(message[e]) > MAX_RELIABLE_PAYLOAD

HasReliable(e) == Regular(e) # <<>> \/ \E i \in Stream : ActiveBufs(e)[i] # <<>>

TakesTight(e, i, used) ==
    /\ ActiveBufs(e)[i] # <<>>
    /\ used + Len(Head(ActiveBufs(e)[i]).data) + 1 < MAX_RELIABLE_PAYLOAD

\* The fragment of stream i is sent if it fits behind the `used' units.
Takes(e, i, used) ==
    /\ ActiveBufs(e)[i] # <<>>
    /\ used + Len(Head(ActiveBufs(e)[i]).data) < MAX_RELIABLE_PAYLOAD

Piece(e, i, used) == IF Takes(e, i, used) THEN Head(ActiveBufs(e)[i]).data ELSE <<>>

HeaderOf(e, i, used) ==
    IF Takes(e, i, used)
    THEN LET f == Head(ActiveBufs(e)[i])
         IN  [id |-> f.id, count |-> f.count, start |-> used, len |-> Len(f.data)]
    ELSE NoHeader

\* The room already used when the loop over the streams comes to stream i.
Used(e, i) == Len(Regular(e)) +
    (IF i = FRAG_FILE_STREAM THEN Len(Piece(e, FRAG_NORMAL_STREAM, Len(Regular(e)))) ELSE 0)

\* Nothing is waiting for an acknowledgement: copy the current message out.
Compose(e) ==
    /\ reliable_buf' = [reliable_buf EXCEPT ![e] =
          Regular(e) \o Piece(e, FRAG_NORMAL_STREAM, Used(e, FRAG_NORMAL_STREAM))
                     \o Piece(e, FRAG_FILE_STREAM, Used(e, FRAG_FILE_STREAM))]
    /\ reliable_frag' = [reliable_frag EXCEPT ![e] =
          [i \in Stream |-> HeaderOf(e, i, Used(e, i))]]
    /\ fragbufs' = [fragbufs EXCEPT ![e] =
          [i \in Stream |-> IF Takes(e, i, Used(e, i)) THEN Tail(ActiveBufs(e)[i])
                                                       ELSE ActiveBufs(e)[i]]]
    /\ waitlist' = [waitlist EXCEPT ![e] =
          [i \in Stream |->
              IF i = FRAG_NORMAL_STREAM /\ Requeues(e)
              THEN Enqueue(ActiveWaits(e)[i], Chain(message[e], NormalChunk))
              ELSE ActiveWaits(e)[i]]]
    /\ message' = [message EXCEPT ![e] = IF Stalled(e) /\ ~Requeues(e) THEN @ ELSE <<>>]
    /\ reliable_sequence' = [reliable_sequence EXCEPT ![e] = IF HasReliable(e) THEN Toggle(@) ELSE @]
    /\ composed' = [composed EXCEPT ![e] = IF HasReliable(e) THEN @ + 1 ELSE @]

\* Build the packet and hand it to the network.  The fragment headers are
\* only written into packets that carry the reliable payload.
SendPacket(e, datagram, send_reliable) ==
    /\ network' = network \cup
         {[from |-> e, seq |-> outgoing_sequence[e], ack |-> incoming_sequence[e],
           reliable |-> send_reliable, relack |-> incoming_reliable_sequence[e],
           frag |-> IF send_reliable THEN reliable_frag'[e] ELSE [i \in Stream |-> NoHeader],
           body |-> IF send_reliable THEN reliable_buf'[e] \o datagram ELSE datagram,
           batch |-> IF send_reliable THEN composed'[e] ELSE 0]}
    /\ outgoing_sequence' = [outgoing_sequence EXCEPT ![e] = @ + 1]
    /\ last_reliable_sequence' =
         [last_reliable_sequence EXCEPT ![e] = IF send_reliable THEN outgoing_sequence[e] ELSE @]

TransmitNew(e, datagram) ==
    /\ reliable_buf[e] = <<>>
    /\ Compose(e)
    /\ SendPacket(e, datagram, HasReliable(e) \/ NeedsResend(e))

TransmitAgain(e, datagram) ==
    /\ reliable_buf[e] # <<>>
    /\ UNCHANGED <<message, reliable_buf, reliable_frag, waitlist, fragbufs, reliable_sequence, composed>>
    /\ SendPacket(e, datagram, NeedsResend(e))

TransmitBits(e, datagram) ==
    /\ ~overflow[e]
    /\ outgoing_sequence[e] < MaxSeq[e]
    /\ TransmitNew(e, datagram) \/ TransmitAgain(e, datagram)
    /\ UNCHANGED <<incoming_sequence, incoming_acknowledged, incoming_reliable_acknowledged,
                   incoming_reliable_sequence, overflow, incomingbufs, incomingready, reconnect,
                   written, sentFiles, received, files, accepted>>

TransmitAnyTime(e, datagram) ==
    /\ TransmitBits(e, datagram)
    /\ IF e = NS_CLIENT THEN frame' = "read" ELSE UNCHANGED frame

\* SV_SendClientMessages and CL_WritePacket.  The client sends once per
\* frame, after it has read all the packets there are.
Transmit(e, datagram) ==
    /\ TransmitBits(e, datagram)
    /\ IF e = NS_CLIENT THEN frame \in {"copy", "send"} /\ frame' = "read"
                        ELSE UNCHANGED frame

\* CL_CheckingResFile, called by the parser for the files the message lists.
TransmitInParse(datagram) ==
    /\ ParseTransmits
    /\ frame \in {"parse", "copy"}
    /\ TransmitBits(NS_CLIENT, datagram)
    /\ UNCHANGED frame

\* CL_WritePacket when the command is held back: only the number is used up.
HoldBack ==
    /\ frame \in {"copy", "send"}
    /\ frame' = "read"
    /\ outgoing_sequence[NS_CLIENT] < MaxSeq[NS_CLIENT]
    /\ outgoing_sequence' = [outgoing_sequence EXCEPT ![NS_CLIENT] = @ + 1]
    /\ UNCHANGED <<incoming_sequence, incoming_acknowledged, incoming_reliable_acknowledged,
                   incoming_reliable_sequence, reliable_sequence, last_reliable_sequence,
                   sendVars, incomingbufs, incomingready, reconnect, network, histVars>>

-----------------------------------------------------------------------------
(* Netchan_Process and what its callers do with the result. *)

FreshOrSame(e, p) == p.seq >= incoming_sequence[e]

\* Discard stale or duplicated packets.
Fresh(e, p) == p.seq > incoming_sequence[e]

AcknowledgesAny(e, p) == incoming_acknowledged[e] + 1 >= last_reliable_sequence[e]

\* The outgoing reliable message has been acknowledged, and it could have been.
Acknowledges(e, p) ==
    /\ p.relack = reliable_sequence[e]
    /\ incoming_acknowledged[e] + 1 >= last_reliable_sequence[e]

\* Netchan_AddBufferToList: the head is never compared, and a buffer that is
\* inserted before another takes its place.
AddBufferToList(list, buf) ==
    LET above == {k \in 2..Len(list) : list[k].id > buf.id}
    IN  IF above = {}
        THEN Append(list, buf)
        ELSE [list EXCEPT ![CHOOSE k \in above : \A m \in above : k <= m] = buf]

\* Netchan_FindBufferById, and the data copied into the buffer it returns.
Store(list, buf) ==
    LET same == {k \in 1..Len(list) : list[k].id = buf.id /\ list[k].count = buf.count}
    IN  IF same = {}
        THEN AddBufferToList(list, buf)
        ELSE [list EXCEPT ![CHOOSE k \in same : TRUE] = buf]

\* The fragment's data is read at the read position of the message itself
\* (bits beyond its end read as zero) ...
Zero == [kind |-> "file", n |-> 0]
DataAt(body, h) == [k \in 1..h.len |-> IF k <= Len(body) THEN body[k] ELSE Zero]

\* ... and the excision is made frag_startpos units further on.  When it runs
\* over the end, the message is only shortened.
Remainder(body, start, len) ==
    LET rest == SubSeq(body, Least(len, Len(body)) + 1, Len(body))
    IN  IF start + len <= Len(rest)
        THEN SubSeq(rest, 1, start) \o SubSeq(rest, start + len + 1, Len(rest))
        ELSE SubSeq(rest, 1, Len(rest) - len)

\* What is left of the body when the loop over the streams comes to stream i.
BodyAt(p, i) ==
    IF i = FRAG_FILE_STREAM /\ p.frag[FRAG_NORMAL_STREAM].id # 0
    THEN Remainder(p.body, p.frag[FRAG_NORMAL_STREAM].start, p.frag[FRAG_NORMAL_STREAM].len)
    ELSE p.body

\* What is passed on to the message queue.
Rest(p) ==
    IF p.frag[FRAG_FILE_STREAM].id # 0
    THEN Remainder(BodyAt(p, FRAG_FILE_STREAM),
                   p.frag[FRAG_FILE_STREAM].start - p.frag[FRAG_NORMAL_STREAM].len,
                   p.frag[FRAG_FILE_STREAM].len)
    ELSE IF p.frag[FRAG_NORMAL_STREAM].id # 0
         THEN Remainder(p.body, p.frag[FRAG_NORMAL_STREAM].start, p.frag[FRAG_NORMAL_STREAM].len)
         ELSE p.body

\* incomingbufs[i] and incomingready[i] after the packet's fragments are in.
BufsAfter(e, p, i) ==
    IF p.frag[i].id = 0 THEN incomingbufs[e][i]
    ELSE Store(incomingbufs[e][i], [id |-> p.frag[i].id, count |-> p.frag[i].count,
                                    data |-> DataAt(BodyAt(p, i), p.frag[i])])

\* Netchan_CheckForCompletion only counts the buffers ...
ReadyAfter(e, p, i) ==
    \/ incomingready[e][i]
    \/ p.frag[i].id # 0 /\ Len(BufsAfter(e, p, i)) = p.frag[i].count

\* ... and on the client asks for a reconnect when their numbers have a gap.
Gap(bufs) == \E k \in 1..Len(bufs) : bufs[k].id # k

\* What the parser gets to see of reliable data: it is in front of the datagram.
Parsed(body) ==
    LET n == CHOOSE n \in 0..Len(body) :
                /\ \A k \in 1..n : body[k].kind # "datagram"
                /\ n < Len(body) => body[n + 1].kind = "datagram"
    IN  SubSeq(body, 1, n)

\* Sequences one after the other.
Concat(seqs) ==
    LET upto[k \in 0..Len(seqs)] == IF k = 0 THEN <<>> ELSE upto[k - 1] \o seqs[k]
    IN  upto[Len(seqs)]

Joined(bufs) == Concat([k \in 1..Len(bufs) |-> bufs[k].data])

\* Netchan_CopyNormalFragments and Netchan_CopyFileFragments: what is
\* handed over when the incoming chain of the stream is ready.
Copied(bufs, ready) == IF ready THEN Joined(bufs) ELSE <<>>

AcceptPacket(e, p) ==
    /\ incoming_sequence' = [incoming_sequence EXCEPT ![e] = p.seq]
    /\ incoming_acknowledged' = [incoming_acknowledged EXCEPT ![e] = p.ack]
    /\ incoming_reliable_acknowledged' = [incoming_reliable_acknowledged EXCEPT ![e] = p.relack]
    /\ incoming_reliable_sequence' =
         [incoming_reliable_sequence EXCEPT ![e] = IF p.reliable THEN Toggle(@) ELSE @]
    /\ reliable_buf' = [reliable_buf EXCEPT ![e] = IF Acknowledges(e, p) THEN <<>> ELSE @]
    /\ accepted' = [accepted EXCEPT ![e] = IF p.reliable THEN Append(@, p.batch) ELSE @]

\* SV_ReadPackets: the chain a packet completes is copied out at once.
ServerProcess(p) ==
    LET e == NS_SERVER
        ready(i) == ReadyAfter(e, p, i)
    IN  /\ p.from = Peer(e)
        /\ Fresh(e, p)
        /\ AcceptPacket(e, p)
        /\ incomingbufs' = [incomingbufs EXCEPT ![e] =
              [i \in Stream |-> IF ready(i) THEN <<>> ELSE BufsAfter(e, p, i)]]
        /\ incomingready' = [incomingready EXCEPT ![e] = [i \in Stream |-> FALSE]]
        /\ received' = [received EXCEPT ![e] = @ \o Parsed(Rest(p)) \o
              Parsed(Copied(BufsAfter(e, p, FRAG_NORMAL_STREAM), ready(FRAG_NORMAL_STREAM)))]
        /\ UNCHANGED <<outgoing_sequence, reliable_sequence, last_reliable_sequence, message,
                       overflow, reliable_frag, waitlist, fragbufs, frame, reconnect, network,
                       written, sentFiles, files, composed>>

\* One turn of the loop of CL_ReadNetMessage.
ClientProcess(p) ==
    LET e == NS_CLIENT
    IN  /\ frame \in {"read", "parse"}
        /\ frame' = IF Parsed(Rest(p)) # <<>> THEN "parse" ELSE "read"
        /\ p.from = Peer(e)
        /\ Fresh(e, p)
        /\ AcceptPacket(e, p)
        /\ incomingbufs' = [incomingbufs EXCEPT ![e] = [i \in Stream |-> BufsAfter(e, p, i)]]
        /\ incomingready' = [incomingready EXCEPT ![e] = [i \in Stream |-> ReadyAfter(e, p, i)]]
        /\ reconnect' = (reconnect \/ \E i \in Stream : p.frag[i].id # 0 /\ Gap(BufsAfter(e, p, i)))
        /\ received' = [received EXCEPT ![e] = @ \o Parsed(Rest(p))]
        /\ UNCHANGED <<outgoing_sequence, reliable_sequence, last_reliable_sequence, message,
                       overflow, reliable_frag, waitlist, fragbufs, network,
                       written, sentFiles, files, composed>>

\* The end of CL_ReadNetMessage: no packet is left, copy the ready chains out.
ReadDone ==
    LET e == NS_CLIENT
    IN  /\ frame \in {"read", "parse"}
        /\ frame' = IF incomingready[e][FRAG_NORMAL_STREAM] THEN "copy" ELSE "send"
        /\ incomingbufs' = [incomingbufs EXCEPT ![e] =
              [i \in Stream |-> IF incomingready[e][i] THEN <<>> ELSE @[i]]]
        /\ incomingready' = [incomingready EXCEPT ![e] = [i \in Stream |-> FALSE]]
        /\ received' = [received EXCEPT ![e] = @ \o
              Parsed(Copied(incomingbufs[e][FRAG_NORMAL_STREAM], incomingready[e][FRAG_NORMAL_STREAM]))]
        /\ files' = IF incomingready[e][FRAG_FILE_STREAM]
                    THEN Append(files, Joined(incomingbufs[e][FRAG_FILE_STREAM])) ELSE files
        /\ UNCHANGED <<seqVars, sendVars, reconnect, network, written, sentFiles, composed, accepted>>

-----------------------------------------------------------------------------
Next ==
    \/ \E e \in Endpoint, size \in WriteSizes : WriteMessage(e, size)
    \/ \E size \in ResourceSizes : SendResources(size)
    \/ SendFile
    \/ \E e \in Endpoint, datagram \in Datagrams : Transmit(e, datagram)
    \/ \E datagram \in Datagrams : TransmitInParse(datagram)
    \/ HoldBack
    \/ \E p \in network : ServerProcess(p)
    \/ \E p \in network : ClientProcess(p)
    \/ ReadDone

Spec == Init /\ [][Next]_vars

-----------------------------------------------------------------------------
(* Properties. *)

\* Every variable has its type, and what is kept for the reliable payload never
\* contains a unit of a datagram (received and files are logs of what
\* ToClientFifo, ToServerFifo and FilesIntact say in full).
TypeOK ==
    /\ outgoing_sequence \in [Endpoint -> Nat]
    /\ incoming_sequence \in [Endpoint -> Nat]
    /\ incoming_acknowledged \in [Endpoint -> Nat]
    /\ incoming_reliable_acknowledged \in [Endpoint -> {0, 1}]
    /\ incoming_reliable_sequence \in [Endpoint -> {0, 1}]
    /\ reliable_sequence \in [Endpoint -> {0, 1}]
    /\ last_reliable_sequence \in [Endpoint -> Nat]
    /\ message \in [Endpoint -> Seq(DataUnit)]
    /\ overflow \in [Endpoint -> BOOLEAN]
    /\ reliable_buf \in [Endpoint -> Seq(DataUnit)]
    /\ reliable_frag \in [Endpoint -> [Stream -> Header]]
    /\ waitlist \in [Endpoint -> [Stream -> Seq(Seq(DataFragment))]]
    /\ fragbufs \in [Endpoint -> [Stream -> Seq(DataFragment)]]
    /\ incomingbufs \in [Endpoint -> [Stream -> Seq(Fragment)]]
    /\ incomingready \in [Endpoint -> [Stream -> BOOLEAN]]
    /\ frame \in Frame
    /\ reconnect \in BOOLEAN
    /\ network \subseteq Packet
    /\ written \in [Endpoint -> Nat]
    /\ sentFiles \in Nat
    /\ composed \in [Endpoint -> Nat]
    /\ accepted \in [Endpoint -> Seq(Nat)]

\* Whatever is lost, repeated or reordered, the receiver takes in the reliable
\* payloads the sender composed one after the other, each exactly once, and
\* never lags more than the one payload in flight (TransmitBits, Process).
InOrderOnce ==
    \A e \in Endpoint :
        /\ Len(accepted[Peer(e)]) \in {composed[e] - 1, composed[e]}
        /\ \A k \in 1..Len(accepted[Peer(e)]) : accepted[Peer(e)][k] = k

\* The retransmission buffer is only given up when the peer has taken in
\* everything composed so far: no acknowledgement of an earlier payload is
\* mistaken for this one's (the check of reliable_ack in Process).
AckMeansAccepted ==
    \A e \in Endpoint : reliable_buf[e] = <<>> => Len(accepted[Peer(e)]) = composed[e]

\* Of all packets with a reliable payload an endpoint has sent, the peer can
\* still take in at most one: a retransmission is only sent when the earlier
\* copy has become stale, so the even/odd bit is never toggled twice for one.
OneInFlight ==
    \A p, q \in network :
        p.reliable /\ q.reliable /\ p.from = q.from
            /\ Fresh(Peer(p.from), p) /\ Fresh(Peer(q.from), q) => p = q

\* The chunk sizes leave room for a fragment in a reliable payload.
ChunksFit == NormalChunk < MAX_RELIABLE_PAYLOAD /\ FileChunk < MAX_RELIABLE_PAYLOAD

\* A packet whose header says that it contains a reliable payload does.
ReliableBitMeansPayload ==
    \A p \in network : p.reliable => Parsed(p.body) # <<>>

\* The chains of two messages never mix in the client's reassembly list: it
\* holds the first fragments of one chain, in order, and is marked ready when
\* and only when they are all there.
SingleChain ==
    \A e \in Endpoint, i \in Stream :
        LET bufs == incomingbufs[e][i]
        IN  /\ \A k \in 1..Len(bufs) : bufs[k].id = k /\ bufs[k].count = bufs[1].count
            /\ incomingready[e][i] <=> bufs # <<>> /\ Len(bufs) = bufs[1].count

\* The client never finds a gap in its fragments and so never has to give up
\* the connection ("Lost/dropped fragment would cause stall").
NoReconnect == ~reconnect

\* Reliable units reach the peer's parser in order, exactly once, whether they
\* travelled as a message, as fragments or re-queued: each direction
\* implements ReliableChannel.
ToClient == INSTANCE ReliableChannel
                WITH sent <- Reliables(1, written[NS_SERVER]), rcvd <- received[NS_CLIENT]
ToServer == INSTANCE ReliableChannel
                WITH sent <- Reliables(1, written[NS_CLIENT]), rcvd <- received[NS_SERVER]
ToClientFifo == ToClient!Spec
ToServerFifo == ToServer!Spec

\* A file the client writes is the file the server sent.
FilesIntact == \A f \in 1..Len(files) : files[f] = FileData(f)
=============================================================================
