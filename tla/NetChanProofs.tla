--------------------------- MODULE NetChanProofs ---------------------------
(***************************************************************************)
(* Proofs about the netchan: its type correctness, and that the even/odd   *)
(* bit protocol delivers the reliable payloads exactly once and in order.  *)
(***************************************************************************)
EXTENDS NetChanInv, SequenceTheorems, WellFoundedInduction, TLAPS

-----------------------------------------------------------------------------
(* Facts about the two endpoints and about sequences. *)

LEMMA PeerFacts ==
    /\ NS_CLIENT \in Endpoint /\ NS_SERVER \in Endpoint /\ NS_CLIENT # NS_SERVER
    /\ \A e \in Endpoint : Peer(e) \in Endpoint /\ Peer(Peer(e)) = e /\ Peer(e) # e
    /\ \A e, f \in Endpoint : f = e \/ f = Peer(e)
    /\ Peer(NS_CLIENT) = NS_SERVER /\ Peer(NS_SERVER) = NS_CLIENT
BY DEF Peer, Endpoint, NS_CLIENT, NS_SERVER

LEMMA StreamFacts ==
    /\ FRAG_NORMAL_STREAM \in Stream /\ FRAG_FILE_STREAM \in Stream
    /\ FRAG_NORMAL_STREAM # FRAG_FILE_STREAM
    /\ \A i \in Stream : i = FRAG_NORMAL_STREAM \/ i = FRAG_FILE_STREAM
BY DEF Stream, FRAG_NORMAL_STREAM, FRAG_FILE_STREAM

LEMMA SubSeqType ==
    ASSUME NEW S, NEW s \in Seq(S), NEW a \in Nat \ {0}, NEW b \in Int, b <= Len(s)
    PROVE  SubSeq(s, a, b) \in Seq(S)
<1>1. \A i \in a..b : s[i] \in S
    BY ElementOfSeq, LenProperties
<1>. QED  BY <1>1, SubSeqProperties

LEMMA ReliablesType ==
    ASSUME NEW a \in Nat, NEW b \in Nat, a >= 1
    PROVE  Reliables(a, b) \in Seq(DataUnit)
<1>. DEFINE n == IF b >= a THEN b - a + 1 ELSE 0
<1>1. n \in Nat /\ 1..n = 1..(b - a + 1)
    OBVIOUS
<1>2. \A k \in 1..n : [kind |-> "reliable", n |-> a + k - 1] \in DataUnit
    BY DEF DataUnit, Unit
<1>3. Reliables(a, b) \in [1..n -> DataUnit]
    BY <1>1, <1>2 DEF Reliables
<1>. QED  BY <1>1, <1>3, SeqDef

LEMMA DatagramsType == \A datagram \in Datagrams : datagram \in Seq(Unit)
<1>1. DatagramUnit \subseteq Unit
    BY DEF DatagramUnit
<1>. QED  BY <1>1, NetChanAssumption, SeqMonotonic

\* A set of numbers has a smallest one, since < is well-founded.
LEMMA SmallestExists ==
    ASSUME NEW S \in SUBSET Nat, S # {}
    PROVE  \E x \in S : \A y \in S : x <= y
<1>. DEFINE R == {ss \in Nat \X Nat : ss[1] < ss[2]}
<1>1. IsWellFoundedOn(R, Nat)
    BY NatLessThanWellFounded DEF OpToRel
<1>2. PICK x \in S : \A y \in S : ~(<<y, x>> \in R)
    <2>. HIDE DEF R
    <2>. QED  BY <1>1, WFMin
<1>3. ASSUME NEW y \in S PROVE x <= y
    <2>1. x \in Nat /\ y \in Nat /\ ~(<<y, x>> \in R)
        BY <1>2
    <2>. QED  BY <2>1
<1>. QED  BY <1>3

\* Induction over the natural numbers, for a set: there is no smallest number
\* outside of it.
LEMMA SetInduction ==
    ASSUME NEW T, 0 \in T, \A n \in Nat : n \in T => n + 1 \in T
    PROVE  \A n \in Nat : n \in T
<1>. DEFINE S == {m \in Nat : m \notin T}
<1>. SUFFICES ASSUME S # {} PROVE FALSE
    OBVIOUS
<1>1. PICK x \in S : \A y \in S : x <= y
    BY SmallestExists
<1>2. x \in Nat \ {0} /\ x \notin T
    OBVIOUS
<1>3. x - 1 \in Nat /\ x - 1 \notin S /\ (x - 1) + 1 = x
    BY <1>1, <1>2
<1>. QED  BY <1>2, <1>3

\* What is kept for the reliable payload consists of units like any other.
LEMMA DataType == \A data \in Seq(DataUnit) : data \in Seq(Unit)
<1>1. DataUnit \subseteq Unit
    BY DEF DataUnit
<1>. QED  BY <1>1, SeqMonotonic

LEMMA ToggleType == \A bit \in {0, 1} : Toggle(bit) \in {0, 1} /\ Toggle(bit) # bit
BY DEF Toggle

-----------------------------------------------------------------------------
(* The chains of fragments. *)

\* The k-th fragment of a chain holds from one unit up to a full chunk.
LEMMA ChunkBounds ==
    ASSUME NEW len \in Nat, NEW chunk \in Nat \ {0},
           NEW k \in 1..((len + chunk - 1) \div chunk)
    PROVE  /\ (len + chunk - 1) \div chunk \in Nat
           /\ (k - 1) * chunk \in Nat /\ k * chunk \in Nat
           /\ (k - 1) * chunk + 1 <= len
           /\ k * chunk = (k - 1) * chunk + chunk
<1>. DEFINE q == (len + chunk - 1) \div chunk
<1>1. q \in Nat /\ q * chunk <= len + chunk - 1
    OBVIOUS
<1>2. k \in Nat /\ k <= q /\ k >= 1
    BY <1>1
<1>. HIDE DEF q
<1>3. k * chunk <= q * chunk /\ k * chunk \in Nat /\ q * chunk \in Nat
    BY <1>1, <1>2
<1>4. k * chunk = (k - 1) * chunk + chunk /\ (k - 1) * chunk \in Nat
    BY <1>2
<1>. QED  BY <1>1, <1>3, <1>4 DEF q

LEMMA ChainType ==
    ASSUME NEW data \in Seq(DataUnit), NEW chunk \in Nat \ {0}
    PROVE  /\ Chain(data, chunk) \in Seq(DataFragment)
           /\ \A k \in 1..Len(Chain(data, chunk)) :
                  LET f == Chain(data, chunk)[k] IN f.data # <<>> /\ Len(f.data) <= chunk
<1>. DEFINE count == (Len(data) + chunk - 1) \div chunk
            piece(k) == SubSeq(data, (k - 1) * chunk + 1, Least(k * chunk, Len(data)))
            frag(k) == [id |-> k, count |-> count, data |-> piece(k)]
<1>1. count \in Nat
    OBVIOUS
<1>2. ASSUME NEW k \in 1..count
      PROVE  piece(k) \in Seq(DataUnit) /\ Len(piece(k)) \in 1..chunk /\ piece(k) # <<>>
    <2>. DEFINE a == (k - 1) * chunk + 1
                b == Least(k * chunk, Len(data))
    <2>1. /\ (k - 1) * chunk \in Nat /\ k * chunk \in Nat
          /\ (k - 1) * chunk + 1 <= Len(data) /\ k * chunk = (k - 1) * chunk + chunk
        BY ChunkBounds
    <2>2. a \in Nat \ {0} /\ b \in Int /\ b <= Len(data) /\ a <= b /\ b - a + 1 <= chunk
        BY <2>1 DEF Least
    <2>. HIDE DEF a, b
    <2>3. SubSeq(data, a, b) \in Seq(DataUnit)
        BY <2>2, SubSeqType
    <2>4. Len(SubSeq(data, a, b)) = b - a + 1
        <3>1. \A i \in a..b : data[i] \in DataUnit
            BY <2>2, ElementOfSeq
        <3>. QED  BY <2>2, <3>1, SubSeqProperties
    <2>5. SubSeq(data, a, b) # <<>> /\ Len(SubSeq(data, a, b)) \in 1..chunk
        BY <2>2, <2>3, <2>4, EmptySeq
    <2>. QED  BY <2>3, <2>5 DEF a, b
<1>3. \A k \in 1..count : frag(k) \in DataFragment
    <2>. SUFFICES ASSUME NEW k \in 1..count PROVE frag(k) \in DataFragment
        OBVIOUS
    <2>1. piece(k) \in Seq(DataUnit)
        BY <1>2
    <2>. HIDE DEF piece, count
    <2>2. piece(k) \in Seq(Unit) /\ k \in Nat
        BY <1>1, <2>1, DataType
    <2>. QED  BY <1>1, <2>1, <2>2 DEF DataFragment, Fragment
<1>4. Chain(data, chunk) = [k \in 1..count |-> frag(k)]
    BY DEF Chain
<1>. HIDE DEF count, piece
<1>5. Chain(data, chunk) \in [1..count -> DataFragment]
    BY <1>3, <1>4
<1>6. Chain(data, chunk) \in Seq(DataFragment)
    BY <1>1, <1>5, SeqDef
<1>7. Len(Chain(data, chunk)) = count
    BY <1>1, <1>5, <1>6, LenProperties
<1>. QED  BY <1>1, <1>2, <1>4, <1>6, <1>7

LEMMA FileDataType == \A f \in Nat : FileData(f) \in Seq(DataUnit)
<1>. SUFFICES ASSUME NEW f \in Nat PROVE FileData(f) \in Seq(DataUnit)
    OBVIOUS
<1>1. FileSize \in Nat
    BY NetChanAssumption
<1>2. \A k \in 1..FileSize : f * FileSize + k \in Nat
    BY <1>1
<1>3. FileData(f) \in [1..FileSize -> DataUnit]
    BY <1>2 DEF FileData, DataUnit, Unit
<1>. QED  BY <1>1, <1>3, SeqDef

\* What the waitlist and the current chain are made of is kept by queueing
\* and by Netchan_FragSend.
LEMMA EnqueueType ==
    ASSUME NEW C, NEW waits \in Seq(C), NEW chain, chain \in C \/ chain = <<>>
    PROVE  Enqueue(waits, chain) \in Seq(C)
BY AppendProperties DEF Enqueue

LEMMA PromotedType ==
    ASSUME NEW F, NEW C, C \subseteq Seq(F), NEW bufs \in Seq(F), NEW waits \in Seq(C)
    PROVE  /\ PromotedBufs(bufs, waits) \in Seq(F)
           /\ PromotedWaits(bufs, waits) \in Seq(C)
BY HeadTailProperties DEF PromotedBufs, PromotedWaits, Promotes

-----------------------------------------------------------------------------
(* Types: what is sent. *)

LEMMA ActiveType ==
    ASSUME TypeOK, NEW e \in Endpoint
    PROVE  /\ ActiveBufs(e) \in [Stream -> Seq(DataFragment)]
           /\ ActiveWaits(e) \in [Stream -> Seq(Seq(DataFragment))]
<1>1. ASSUME NEW i \in Stream
      PROVE  /\ PromotedBufs(fragbufs[e][i], waitlist[e][i]) \in Seq(DataFragment)
             /\ PromotedWaits(fragbufs[e][i], waitlist[e][i]) \in Seq(Seq(DataFragment))
    <2>1. fragbufs[e][i] \in Seq(DataFragment) /\ waitlist[e][i] \in Seq(Seq(DataFragment))
        BY DEF TypeOK
    <2>. QED  BY <2>1, PromotedType
<1>. QED  BY <1>1 DEF ActiveBufs, ActiveWaits

LEMMA PieceType ==
    ASSUME TypeOK, NEW e \in Endpoint, NEW i \in Stream, NEW used \in Nat
    PROVE  /\ Piece(e, i, used) \in Seq(DataUnit)
           /\ HeaderOf(e, i, used) \in Header
           /\ Takes(e, i, used) => Tail(ActiveBufs(e)[i]) \in Seq(DataFragment)
<1>1. ActiveBufs(e)[i] \in Seq(DataFragment)
    BY ActiveType
<1>2. CASE Takes(e, i, used)
    <2>1. ActiveBufs(e)[i] # <<>>
        BY <1>2 DEF Takes
    <2>2. Head(ActiveBufs(e)[i]) \in DataFragment /\ Tail(ActiveBufs(e)[i]) \in Seq(DataFragment)
        BY <1>1, <2>1, HeadTailProperties
    <2>3. Head(ActiveBufs(e)[i]).data \in Seq(DataUnit)
        BY <2>2 DEF DataFragment, Fragment
    <2>4. Len(Head(ActiveBufs(e)[i]).data) \in Nat
        BY <2>3, LenProperties
    <2>. QED  BY <1>2, <2>2, <2>3, <2>4 DEF Piece, HeaderOf, DataFragment, Fragment, Header
<1>3. CASE ~Takes(e, i, used)
    BY <1>3 DEF Piece, HeaderOf, NoHeader, Header
<1>. QED  BY <1>2, <1>3

LEMMA UsedType ==
    ASSUME TypeOK, NEW e \in Endpoint, NEW i \in Stream
    PROVE  Regular(e) \in Seq(DataUnit) /\ Used(e, i) \in Nat
<1>1. Regular(e) \in Seq(DataUnit)
    BY DEF Regular, TypeOK
<1>2. Len(Regular(e)) \in Nat
    BY <1>1, LenProperties
<1>3. Len(Piece(e, FRAG_NORMAL_STREAM, Len(Regular(e)))) \in Nat
    BY <1>2, PieceType, StreamFacts, LenProperties
<1>. QED  BY <1>1, <1>2, <1>3 DEF Used

LEMMA ComposeType ==
    ASSUME TypeOK, NEW e \in Endpoint, Compose(e)
    PROVE  /\ reliable_buf' \in [Endpoint -> Seq(DataUnit)]
           /\ reliable_frag' \in [Endpoint -> [Stream -> Header]]
           /\ fragbufs' \in [Endpoint -> [Stream -> Seq(DataFragment)]]
           /\ waitlist' \in [Endpoint -> [Stream -> Seq(Seq(DataFragment))]]
           /\ message' \in [Endpoint -> Seq(DataUnit)]
           /\ reliable_sequence' \in [Endpoint -> {0, 1}]
           /\ composed' \in [Endpoint -> Nat]
<1>1. reliable_buf' \in [Endpoint -> Seq(DataUnit)]
    <2>1. /\ Regular(e) \in Seq(DataUnit)
          /\ Piece(e, FRAG_NORMAL_STREAM, Used(e, FRAG_NORMAL_STREAM)) \in Seq(DataUnit)
          /\ Piece(e, FRAG_FILE_STREAM, Used(e, FRAG_FILE_STREAM)) \in Seq(DataUnit)
        BY UsedType, PieceType, StreamFacts
    <2>2. Regular(e) \o Piece(e, FRAG_NORMAL_STREAM, Used(e, FRAG_NORMAL_STREAM))
                    \o Piece(e, FRAG_FILE_STREAM, Used(e, FRAG_FILE_STREAM)) \in Seq(DataUnit)
        BY <2>1, ConcatProperties
    <2>. QED  BY <2>2 DEF Compose, TypeOK
<1>2. reliable_frag' \in [Endpoint -> [Stream -> Header]]
    <2>1. [i \in Stream |-> HeaderOf(e, i, Used(e, i))] \in [Stream -> Header]
        BY UsedType, PieceType
    <2>. QED  BY <2>1 DEF Compose, TypeOK
<1>3. fragbufs' \in [Endpoint -> [Stream -> Seq(DataFragment)]]
    <2>1. [i \in Stream |-> IF Takes(e, i, Used(e, i)) THEN Tail(ActiveBufs(e)[i])
                                                       ELSE ActiveBufs(e)[i]]
            \in [Stream -> Seq(DataFragment)]
        BY UsedType, PieceType, ActiveType
    <2>. QED  BY <2>1 DEF Compose, TypeOK
<1>4. waitlist' \in [Endpoint -> [Stream -> Seq(Seq(DataFragment))]]
    <2>1. Chain(message[e], NormalChunk) \in Seq(DataFragment)
        BY ChainType, NetChanAssumption DEF TypeOK
    <2>2. \A i \in Stream : Enqueue(ActiveWaits(e)[i], Chain(message[e], NormalChunk))
                               \in Seq(Seq(DataFragment))
        BY <2>1, ActiveType, EnqueueType
    <2>. QED  BY <2>2, ActiveType DEF Compose, TypeOK
<1>5. message' \in [Endpoint -> Seq(DataUnit)]
    BY DEF Compose, TypeOK
<1>6. reliable_sequence' \in [Endpoint -> {0, 1}]
    BY ToggleType DEF Compose, TypeOK
<1>7. composed' \in [Endpoint -> Nat]
    BY DEF Compose, TypeOK
<1>. QED  BY <1>1, <1>2, <1>3, <1>4, <1>5, <1>6, <1>7

LEMMA TransmitBitsType ==
    ASSUME TypeOK, NEW e \in Endpoint, NEW datagram \in Datagrams,
           TransmitBits(e, datagram), frame' \in Frame
    PROVE  TypeOK'
<1>. DEFINE composes == /\ reliable_buf' \in [Endpoint -> Seq(DataUnit)]
                        /\ reliable_frag' \in [Endpoint -> [Stream -> Header]]
                        /\ fragbufs' \in [Endpoint -> [Stream -> Seq(DataFragment)]]
                        /\ waitlist' \in [Endpoint -> [Stream -> Seq(Seq(DataFragment))]]
                        /\ message' \in [Endpoint -> Seq(DataUnit)]
                        /\ reliable_sequence' \in [Endpoint -> {0, 1}]
                        /\ composed' \in [Endpoint -> Nat]
<1>1. composes
    <2>1. CASE TransmitNew(e, datagram)
        BY <2>1, ComposeType DEF TransmitNew
    <2>2. CASE TransmitAgain(e, datagram)
        BY <2>2 DEF TransmitAgain, TypeOK
    <2>. QED  BY <2>1, <2>2 DEF TransmitBits
<1>2. PICK send_reliable \in BOOLEAN : SendPacket(e, datagram, send_reliable)
    BY DEF TransmitBits, TransmitNew, TransmitAgain, HasReliable, NeedsResend
<1>3. network' \subseteq Packet
    <2>. DEFINE frag == IF send_reliable THEN reliable_frag'[e] ELSE [i \in Stream |-> NoHeader]
                body == IF send_reliable THEN reliable_buf'[e] \o datagram ELSE datagram
                batch == IF send_reliable THEN composed'[e] ELSE 0
                pkt == [from |-> e, seq |-> outgoing_sequence[e], ack |-> incoming_sequence[e],
                        reliable |-> send_reliable, relack |-> incoming_reliable_sequence[e],
                        frag |-> frag, body |-> body, batch |-> batch]
    <2>1. frag \in [Stream -> Header]
        BY <1>1 DEF NoHeader, Header
    <2>2. datagram \in Seq(Unit) /\ reliable_buf'[e] \in Seq(Unit)
        BY <1>1, DatagramsType, DataType
    <2>3. body \in Seq(Unit)
        BY <2>2, ConcatProperties
    <2>4. batch \in Nat
        BY <1>1
    <2>5. /\ outgoing_sequence[e] \in Nat /\ incoming_sequence[e] \in Nat
          /\ incoming_reliable_sequence[e] \in {0, 1} /\ network \subseteq Packet
        BY DEF TypeOK
    <2>6. network' = network \cup {pkt}
        BY <1>2 DEF SendPacket
    <2>. HIDE DEF frag, body, batch
    <2>7. pkt \in Packet
        BY <2>1, <2>3, <2>4, <2>5 DEF Packet
    <2>. QED  BY <2>5, <2>6, <2>7
<1>4. outgoing_sequence' \in [Endpoint -> Nat] /\ last_reliable_sequence' \in [Endpoint -> Nat]
    BY <1>2 DEF SendPacket, TypeOK
<1>. QED  BY <1>1, <1>3, <1>4 DEF TransmitBits, TypeOK

LEMMA WriteMessageType ==
    ASSUME TypeOK, NEW e \in Endpoint, NEW size \in WriteSizes, WriteMessage(e, size)
    PROVE  TypeOK'
<1>1. size \in Nat /\ written[e] \in Nat /\ message[e] \in Seq(DataUnit)
    BY NetChanAssumption DEF TypeOK
<1>2. Reliables(written[e] + 1, written[e] + size) \in Seq(DataUnit)
    <2>1. written[e] + 1 \in Nat /\ written[e] + size \in Nat /\ written[e] + 1 >= 1
        BY <1>1
    <2>. QED  BY <2>1, ReliablesType
<1>3. message[e] \o Reliables(written[e] + 1, written[e] + size) \in Seq(DataUnit)
    BY <1>1, <1>2, ConcatProperties
<1>4. written[e] + size \in Nat
    BY <1>1
<1>5. /\ message' \in [Endpoint -> Seq(DataUnit)] /\ written' \in [Endpoint -> Nat]
      /\ overflow' \in [Endpoint -> BOOLEAN]
    <2>1. CASE Len(message[e]) + size <= MessageSize
        <3>1. ~(Len(message[e]) + size > MessageSize)
            <4>1. Len(message[e]) \in Nat /\ MessageSize \in Nat
                BY <1>1, NetChanAssumption
            <4>. QED  BY <1>1, <2>1, <4>1
        <3>2. /\ message' = [message EXCEPT ![e] =
                               message[e] \o Reliables(written[e] + 1, written[e] + size)]
              /\ written' = [written EXCEPT ![e] = written[e] + size]
              /\ UNCHANGED overflow
            BY <3>1 DEF WriteMessage
        <3>. QED  BY <1>3, <1>4, <3>2 DEF TypeOK
    <2>2. CASE ~(Len(message[e]) + size <= MessageSize)
        BY <2>2 DEF WriteMessage, TypeOK
    <2>. QED  BY <2>1, <2>2
<1>. QED
    BY <1>5 DEF WriteMessage, TypeOK, seqVars, inVars

\* Netchan_FragSend on a typed waitlist.
LEMMA FragSendType ==
    ASSUME TypeOK, NEW e \in Endpoint, NEW waits \in [Stream -> Seq(Seq(DataFragment))]
    PROVE  /\ [i \in Stream |-> PromotedWaits(fragbufs[e][i], waits[i])]
                  \in [Stream -> Seq(Seq(DataFragment))]
           /\ [i \in Stream |-> PromotedBufs(fragbufs[e][i], waits[i])]
                  \in [Stream -> Seq(DataFragment)]
<1>1. \A i \in Stream : fragbufs[e][i] \in Seq(DataFragment)
    BY DEF TypeOK
<1>. QED  BY <1>1, PromotedType

LEMMA SendResourcesType ==
    ASSUME TypeOK, NEW size \in ResourceSizes, SendResources(size)
    PROVE  TypeOK'
<1>. DEFINE e == NS_SERVER
            data == Reliables(written[e] + 1, written[e] + size)
            waits == [waitlist[e] EXCEPT ![FRAG_NORMAL_STREAM] =
                        Enqueue(Enqueue(@, Chain(message[e], NormalChunk)),
                                Chain(data, NormalChunk))]
<1>1. /\ size \in Nat /\ written[e] \in Nat /\ message[e] \in Seq(DataUnit)
      /\ waitlist[e] \in [Stream -> Seq(Seq(DataFragment))] /\ e \in Endpoint
    BY NetChanAssumption, PeerFacts DEF TypeOK
<1>2. data \in Seq(DataUnit)
    BY SMTT(30), <1>1, ReliablesType
<1>3. Chain(message[e], NormalChunk) \in Seq(DataFragment) /\ Chain(data, NormalChunk) \in Seq(DataFragment)
    BY <1>1, <1>2, ChainType, NetChanAssumption
<1>. HIDE DEF data
<1>4. Enqueue(waitlist[e][FRAG_NORMAL_STREAM], Chain(message[e], NormalChunk))
          \in Seq(Seq(DataFragment))
    BY <1>1, <1>3, EnqueueType, StreamFacts
<1>5. Enqueue(Enqueue(waitlist[e][FRAG_NORMAL_STREAM], Chain(message[e], NormalChunk)),
              Chain(data, NormalChunk)) \in Seq(Seq(DataFragment))
    BY <1>3, <1>4, EnqueueType
<1>6. waits \in [Stream -> Seq(Seq(DataFragment))]
    BY <1>1, <1>5
<1>7. written[e] + size \in Nat
    BY <1>1
<1>8. <<>> \in Seq(DataUnit)
    BY EmptySeq
<1>9. waitlist' \in [Endpoint -> [Stream -> Seq(Seq(DataFragment))]]
    <2>1. waitlist' = [waitlist EXCEPT ![e] =
                         [i \in Stream |-> PromotedWaits(fragbufs[e][i], waits[i])]]
        BY DEF SendResources, data
    <2>. HIDE DEF waits
    <2>2. [i \in Stream |-> PromotedWaits(fragbufs[e][i], waits[i])] \in [Stream -> Seq(Seq(DataFragment))]
        BY <1>1, <1>6, FragSendType
    <2>. QED  BY <1>1, <2>1, <2>2 DEF TypeOK
<1>10. fragbufs' \in [Endpoint -> [Stream -> Seq(DataFragment)]]
    <2>1. fragbufs' = [fragbufs EXCEPT ![e] =
                         [i \in Stream |-> PromotedBufs(fragbufs[e][i], waits[i])]]
        BY DEF SendResources, data
    <2>. HIDE DEF waits
    <2>2. [i \in Stream |-> PromotedBufs(fragbufs[e][i], waits[i])] \in [Stream -> Seq(DataFragment)]
        BY <1>1, <1>6, FragSendType
    <2>. QED  BY <1>1, <2>1, <2>2 DEF TypeOK
<1>11. /\ written' \in [Endpoint -> Nat] /\ message' \in [Endpoint -> Seq(DataUnit)]
       /\ overflow' \in [Endpoint -> BOOLEAN]
    BY <1>1, <1>7, <1>8 DEF SendResources, TypeOK
<1>. QED  BY <1>9, <1>10, <1>11 DEF SendResources, TypeOK, seqVars, inVars

LEMMA SendFileType ==
    ASSUME TypeOK, SendFile
    PROVE  TypeOK'
<1>. DEFINE e == NS_SERVER
            waits == [waitlist[e] EXCEPT ![FRAG_FILE_STREAM] =
                        Enqueue(@, Chain(FileData(sentFiles + 1), FileChunk))]
<1>1. /\ sentFiles + 1 \in Nat /\ e \in Endpoint
      /\ waitlist[e] \in [Stream -> Seq(Seq(DataFragment))]
    BY PeerFacts DEF TypeOK
<1>2. Chain(FileData(sentFiles + 1), FileChunk) \in Seq(DataFragment)
    BY <1>1, FileDataType, ChainType, NetChanAssumption
<1>3. Enqueue(waitlist[e][FRAG_FILE_STREAM], Chain(FileData(sentFiles + 1), FileChunk))
          \in Seq(Seq(DataFragment))
    BY <1>1, <1>2, EnqueueType, StreamFacts
<1>4. waits \in [Stream -> Seq(Seq(DataFragment))]
    BY <1>1, <1>3
<1>5. waitlist' \in [Endpoint -> [Stream -> Seq(Seq(DataFragment))]]
    <2>1. waitlist' = [waitlist EXCEPT ![e] =
                         [i \in Stream |-> PromotedWaits(fragbufs[e][i], waits[i])]]
        BY DEF SendFile
    <2>. HIDE DEF waits
    <2>2. [i \in Stream |-> PromotedWaits(fragbufs[e][i], waits[i])] \in [Stream -> Seq(Seq(DataFragment))]
        BY <1>1, <1>4, FragSendType
    <2>. QED  BY <1>1, <2>1, <2>2 DEF TypeOK
<1>6. fragbufs' \in [Endpoint -> [Stream -> Seq(DataFragment)]]
    <2>1. fragbufs' = [fragbufs EXCEPT ![e] =
                         [i \in Stream |-> PromotedBufs(fragbufs[e][i], waits[i])]]
        BY DEF SendFile
    <2>. HIDE DEF waits
    <2>2. [i \in Stream |-> PromotedBufs(fragbufs[e][i], waits[i])] \in [Stream -> Seq(DataFragment)]
        BY <1>1, <1>4, FragSendType
    <2>. QED  BY <1>1, <2>1, <2>2 DEF TypeOK
<1>. QED  BY <1>1, <1>5, <1>6 DEF SendFile, TypeOK, seqVars, inVars

LEMMA HoldBackType ==
    ASSUME TypeOK, HoldBack
    PROVE  TypeOK'
<1>1. outgoing_sequence' \in [Endpoint -> Nat]
    <2>1. outgoing_sequence \in [Endpoint -> Nat] /\ NS_CLIENT \in Endpoint
        BY PeerFacts DEF TypeOK
    <2>2. outgoing_sequence' = [outgoing_sequence EXCEPT ![NS_CLIENT] = @ + 1]
        BY DEF HoldBack
    <2>. QED  BY <2>1, <2>2
<1>2. frame' \in Frame
    BY DEF HoldBack, Frame
<1>. QED  BY <1>1, <1>2 DEF HoldBack, TypeOK, sendVars, histVars

-----------------------------------------------------------------------------
(* Types: what is received. *)

LEMMA StoreType ==
    ASSUME NEW S, NEW list \in Seq(S), NEW buf \in S
    PROVE  Store(list, buf) \in Seq(S)
<1>1. ASSUME NEW x PROVE [list EXCEPT ![x] = buf] \in Seq(S)
    <2>1. list \in [1..Len(list) -> S] /\ Len(list) \in Nat
        BY LenProperties
    <2>2. [list EXCEPT ![x] = buf] \in [1..Len(list) -> S]
        BY <2>1
    <2>. QED  BY <2>1, <2>2, SeqDef
<1>2. Append(list, buf) \in Seq(S)
    BY AppendProperties
<1>. QED  BY <1>1, <1>2 DEF Store, AddBufferToList

LEMMA RemainderType ==
    ASSUME NEW body \in Seq(Unit), NEW start \in Nat, NEW len \in Nat
    PROVE  Remainder(body, start, len) \in Seq(Unit)
<1>. DEFINE rest == SubSeq(body, Least(len, Len(body)) + 1, Len(body))
<1>1. Len(body) \in Nat /\ Least(len, Len(body)) + 1 \in Nat \ {0}
    BY LenProperties DEF Least
<1>2. rest \in Seq(Unit)
    BY <1>1, SubSeqType
<1>. HIDE DEF rest
<1>3. Len(rest) \in Nat
    BY <1>2, LenProperties
<1>4. CASE start + len <= Len(rest)
    <2>1. SubSeq(rest, 1, start) \in Seq(Unit) /\ SubSeq(rest, start + len + 1, Len(rest)) \in Seq(Unit)
        BY <1>2, <1>3, <1>4, SubSeqType
    <2>. QED  BY <1>4, <2>1, ConcatProperties DEF Remainder, rest
<1>5. CASE ~(start + len <= Len(rest))
    <2>1. SubSeq(rest, 1, Len(rest) - len) \in Seq(Unit)
        BY <1>2, <1>3, SubSeqType
    <2>. QED  BY <1>5, <2>1 DEF Remainder, rest
<1>. QED  BY <1>4, <1>5

\* The fragment of stream i in a packet.
LEMMA TakenType ==
    ASSUME TypeOK, NEW i \in Stream, NEW p \in network
    PROVE  /\ BodyAt(p, i) \in Seq(Unit)
           /\ [id |-> p.frag[i].id, count |-> p.frag[i].count,
               data |-> DataAt(BodyAt(p, i), p.frag[i])] \in Fragment
<1>1. p \in Packet
    BY DEF TypeOK
<1>2. /\ p.body \in Seq(Unit) /\ p.frag \in [Stream -> Header]
      /\ \A j \in Stream : p.frag[j] \in Header
    BY <1>1 DEF Packet
<1>3. \A j \in Stream : /\ p.frag[j].id \in Nat /\ p.frag[j].count \in Nat
                        /\ p.frag[j].start \in Nat /\ p.frag[j].len \in Nat
    BY <1>2 DEF Header
<1>4. BodyAt(p, i) \in Seq(Unit)
    BY <1>2, <1>3, StreamFacts, RemainderType DEF BodyAt
<1>5. DataAt(BodyAt(p, i), p.frag[i]) \in Seq(Unit)
    <2>. DEFINE body == BodyAt(p, i)
                n == p.frag[i].len
    <2>. HIDE DEF body, n
    <2>1. n \in Nat /\ body \in Seq(Unit) /\ Zero \in Unit
        BY <1>3, <1>4 DEF n, body, Zero, Unit
    <2>2. \A k \in 1..n : (IF k <= Len(body) THEN body[k] ELSE Zero) \in Unit
        BY <2>1, ElementOfSeq, LenProperties
    <2>3. [k \in 1..n |-> IF k <= Len(body) THEN body[k] ELSE Zero] \in Seq(Unit)
        BY <2>1, <2>2, SeqDef
    <2>. QED  BY <2>3 DEF DataAt, n, body
<1>6. [id |-> p.frag[i].id, count |-> p.frag[i].count,
       data |-> DataAt(BodyAt(p, i), p.frag[i])] \in Fragment
    BY <1>3, <1>5 DEF Fragment
<1>. QED  BY <1>4, <1>6

LEMMA BufsAfterType ==
    ASSUME TypeOK, NEW e \in Endpoint, NEW i \in Stream, NEW p \in network
    PROVE  /\ BufsAfter(e, p, i) \in Seq(Fragment)
           /\ ReadyAfter(e, p, i) \in BOOLEAN
<1>1. incomingbufs[e][i] \in Seq(Fragment) /\ incomingready[e][i] \in BOOLEAN
    BY DEF TypeOK
<1>. QED  BY <1>1, TakenType, StoreType DEF BufsAfter, ReadyAfter

LEMMA AcceptPacketType ==
    ASSUME TypeOK, NEW e \in Endpoint, NEW p \in network, AcceptPacket(e, p)
    PROVE  /\ incoming_sequence' \in [Endpoint -> Nat]
           /\ incoming_acknowledged' \in [Endpoint -> Nat]
           /\ incoming_reliable_acknowledged' \in [Endpoint -> {0, 1}]
           /\ incoming_reliable_sequence' \in [Endpoint -> {0, 1}]
           /\ reliable_buf' \in [Endpoint -> Seq(DataUnit)]
           /\ accepted' \in [Endpoint -> Seq(Nat)]
<1>1. p.seq \in Nat /\ p.ack \in Nat /\ p.relack \in {0, 1} /\ p.batch \in Nat
    BY DEF TypeOK, Packet
<1>2. /\ incoming_sequence' \in [Endpoint -> Nat]
      /\ incoming_acknowledged' \in [Endpoint -> Nat]
      /\ incoming_reliable_acknowledged' \in [Endpoint -> {0, 1}]
    BY <1>1 DEF AcceptPacket, TypeOK
<1>3. incoming_reliable_sequence' \in [Endpoint -> {0, 1}]
    BY ToggleType DEF AcceptPacket, TypeOK
<1>4. reliable_buf' \in [Endpoint -> Seq(DataUnit)]
    BY EmptySeq DEF AcceptPacket, TypeOK
<1>5. accepted' \in [Endpoint -> Seq(Nat)]
    <2>1. accepted[e] \in Seq(Nat)
        BY DEF TypeOK
    <2>2. Append(accepted[e], p.batch) \in Seq(Nat)
        BY <1>1, <2>1, AppendProperties
    <2>. QED  BY <2>2 DEF AcceptPacket, TypeOK
<1>. QED  BY <1>2, <1>3, <1>4, <1>5

LEMMA ServerProcessType ==
    ASSUME TypeOK, NEW p \in network, ServerProcess(p)
    PROVE  TypeOK'
<1>1. AcceptPacket(NS_SERVER, p) /\ NS_SERVER \in Endpoint
    BY PeerFacts DEF ServerProcess
<1>2. [i \in Stream |-> IF ReadyAfter(NS_SERVER, p, i) THEN <<>> ELSE BufsAfter(NS_SERVER, p, i)]
          \in [Stream -> Seq(Fragment)]
    BY <1>1, BufsAfterType, EmptySeq
<1>3. incomingbufs' \in [Endpoint -> [Stream -> Seq(Fragment)]]
    BY <1>1, <1>2 DEF ServerProcess, TypeOK
<1>4. incomingready' \in [Endpoint -> [Stream -> BOOLEAN]]
    BY <1>1 DEF ServerProcess, TypeOK
<1>. QED  BY <1>1, <1>3, <1>4, AcceptPacketType DEF ServerProcess, TypeOK

LEMMA ClientProcessType ==
    ASSUME TypeOK, NEW p \in network, ClientProcess(p)
    PROVE  TypeOK'
<1>1. AcceptPacket(NS_CLIENT, p) /\ NS_CLIENT \in Endpoint
    BY PeerFacts DEF ClientProcess
<1>2. /\ [i \in Stream |-> BufsAfter(NS_CLIENT, p, i)] \in [Stream -> Seq(Fragment)]
      /\ [i \in Stream |-> ReadyAfter(NS_CLIENT, p, i)] \in [Stream -> BOOLEAN]
    BY <1>1, BufsAfterType
<1>3. /\ incomingbufs' \in [Endpoint -> [Stream -> Seq(Fragment)]]
      /\ incomingready' \in [Endpoint -> [Stream -> BOOLEAN]]
    BY <1>1, <1>2 DEF ClientProcess, TypeOK
<1>4. frame' \in Frame /\ reconnect' \in BOOLEAN
    BY DEF ClientProcess, Frame, TypeOK
<1>. QED  BY <1>1, <1>3, <1>4, AcceptPacketType DEF ClientProcess, TypeOK

LEMMA ReadDoneType ==
    ASSUME TypeOK, ReadDone
    PROVE  TypeOK'
<1>1. NS_CLIENT \in Endpoint /\ <<>> \in Seq(Fragment)
    BY PeerFacts, EmptySeq
<1>2. incomingbufs' \in [Endpoint -> [Stream -> Seq(Fragment)]]
    <2>1. [i \in Stream |-> IF incomingready[NS_CLIENT][i] THEN <<>> ELSE incomingbufs[NS_CLIENT][i]]
              \in [Stream -> Seq(Fragment)]
        BY <1>1 DEF TypeOK
    <2>. QED  BY <1>1, <2>1 DEF ReadDone, TypeOK
<1>3. incomingready' \in [Endpoint -> [Stream -> BOOLEAN]]
    BY <1>1 DEF ReadDone, TypeOK
<1>4. frame' \in Frame
    BY DEF ReadDone, Frame
<1>. QED  BY <1>2, <1>3, <1>4 DEF ReadDone, TypeOK, seqVars, sendVars

-----------------------------------------------------------------------------
LEMMA InitType ==
    ASSUME Init
    PROVE  TypeOK
<1>1. /\ <<>> \in Seq(DataUnit) /\ <<>> \in Seq(Nat) /\ <<>> \in Seq(Seq(DataFragment))
      /\ <<>> \in Seq(DataFragment) /\ <<>> \in Seq(Fragment)
    BY EmptySeq
<1>2. NoHeader \in Header
    BY DEF NoHeader, Header
<1>3. /\ outgoing_sequence \in [Endpoint -> Nat] /\ incoming_sequence \in [Endpoint -> Nat]
      /\ incoming_acknowledged \in [Endpoint -> Nat]
      /\ incoming_reliable_acknowledged \in [Endpoint -> {0, 1}]
      /\ incoming_reliable_sequence \in [Endpoint -> {0, 1}]
      /\ reliable_sequence \in [Endpoint -> {0, 1}]
      /\ last_reliable_sequence \in [Endpoint -> Nat]
    BY DEF Init
<1>4. /\ message \in [Endpoint -> Seq(DataUnit)] /\ overflow \in [Endpoint -> BOOLEAN]
      /\ reliable_buf \in [Endpoint -> Seq(DataUnit)]
    BY <1>1 DEF Init
<1>5. reliable_frag \in [Endpoint -> [Stream -> Header]]
    BY <1>2 DEF Init
<1>6. waitlist \in [Endpoint -> [Stream -> Seq(Seq(DataFragment))]]
    BY <1>1 DEF Init
<1>7. /\ fragbufs \in [Endpoint -> [Stream -> Seq(DataFragment)]]
      /\ incomingbufs \in [Endpoint -> [Stream -> Seq(Fragment)]]
    BY <1>1 DEF Init
<1>8. incomingready \in [Endpoint -> [Stream -> BOOLEAN]]
    BY DEF Init
<1>9. frame \in Frame /\ reconnect \in BOOLEAN /\ network \subseteq Packet
    BY DEF Init, Frame
<1>10. /\ written \in [Endpoint -> Nat] /\ sentFiles \in Nat
       /\ composed \in [Endpoint -> Nat] /\ accepted \in [Endpoint -> Seq(Nat)]
    BY <1>1 DEF Init
<1>. QED
    BY <1>3, <1>4, <1>5, <1>6, <1>7, <1>8, <1>9, <1>10 DEF TypeOK

LEMMA NextType ==
    ASSUME TypeOK, [Next]_vars
    PROVE  TypeOK'
<1>1. ASSUME NEW e \in Endpoint, NEW size \in WriteSizes, WriteMessage(e, size) PROVE TypeOK'
    BY <1>1, WriteMessageType
<1>2. ASSUME NEW size \in ResourceSizes, SendResources(size) PROVE TypeOK'
    BY <1>2, SendResourcesType
<1>3. CASE SendFile
    BY <1>3, SendFileType
<1>4. ASSUME NEW e \in Endpoint, NEW datagram \in Datagrams, Transmit(e, datagram) PROVE TypeOK'
    <2>1. frame' \in Frame
        BY <1>4 DEF Transmit, TypeOK, Frame
    <2>. QED  BY <1>4, <2>1, TransmitBitsType DEF Transmit
<1>5. ASSUME NEW datagram \in Datagrams, TransmitInParse(datagram) PROVE TypeOK'
    <2>1. frame' \in Frame
        BY <1>5 DEF TransmitInParse, TypeOK
    <2>2. TransmitBits(NS_CLIENT, datagram) /\ NS_CLIENT \in Endpoint
        BY <1>5, PeerFacts DEF TransmitInParse
    <2>. QED  BY <2>1, <2>2, TransmitBitsType
<1>6. CASE HoldBack
    BY <1>6, HoldBackType
<1>7. ASSUME NEW p \in network, ServerProcess(p) PROVE TypeOK'
    BY <1>7, ServerProcessType
<1>8. ASSUME NEW p \in network, ClientProcess(p) PROVE TypeOK'
    BY <1>8, ClientProcessType
<1>9. CASE ReadDone
    BY <1>9, ReadDoneType
<1>10. CASE UNCHANGED vars
    BY <1>10 DEF vars, seqVars, sendVars, inVars, histVars, TypeOK
<1>. QED
    BY <1>1, <1>2, <1>3, <1>4, <1>5, <1>6, <1>7, <1>8, <1>9, <1>10 DEF Next

\* Every reachable state of the channel is typed, for all chunk sizes, payload
\* limits, message sizes and bounds.
THEOREM TypeCorrect == Spec => []TypeOK
BY InitType, NextType, PTL DEF Spec

-----------------------------------------------------------------------------
(* The fragments that wait fit into a payload if the chunks do. *)

LEMMA ChainFits ==
    ASSUME ChunksFit, NEW data \in Seq(DataUnit), NEW chunk \in {NormalChunk, FileChunk}
    PROVE  Chain(data, chunk) \in Seq(FittingFragment)
<1>. DEFINE chain == Chain(data, chunk)
<1>1. chunk \in Nat \ {0} /\ chunk < MAX_RELIABLE_PAYLOAD /\ MAX_RELIABLE_PAYLOAD \in Nat
    BY NetChanAssumption DEF ChunksFit
<1>2. /\ chain \in Seq(DataFragment)
      /\ \A k \in 1..Len(chain) : chain[k].data # <<>> /\ Len(chain[k].data) <= chunk
    BY <1>1, ChainType
<1>. HIDE DEF chain
<1>3. ASSUME NEW k \in 1..Len(chain) PROVE chain[k] \in FittingFragment
    <2>1. chain[k] \in DataFragment
        BY <1>2, ElementOfSeq
    <2>2. Len(chain[k].data) \in Nat
        BY <2>1, LenProperties DEF DataFragment, Fragment
    <2>. QED  BY <1>1, <1>2, <2>1, <2>2 DEF FittingFragment
<1>4. chain \in Seq(FittingFragment)
    BY <1>2, <1>3, IsASeq, LenProperties, SeqDef
<1>. QED  BY <1>4 DEF chain

\* What Netchan_FragSend makes of fitting fragments.
LEMMA FragSendFits ==
    ASSUME FragmentsFit, NEW e \in Endpoint,
           NEW waits \in [Stream -> Seq(Seq(FittingFragment) \ {<<>>})]
    PROVE  /\ [i \in Stream |-> PromotedWaits(fragbufs[e][i], waits[i])]
                  \in [Stream -> Seq(Seq(FittingFragment) \ {<<>>})]
           /\ [i \in Stream |-> PromotedBufs(fragbufs[e][i], waits[i])]
                  \in [Stream -> Seq(FittingFragment)]
<1>1. \A i \in Stream : fragbufs[e][i] \in Seq(FittingFragment)
    BY DEF FragmentsFit
<1>. QED  BY <1>1, PromotedType

LEMMA SendResourcesFits ==
    ASSUME ChunksFit, TypeOK, FragmentsFit, NEW size \in ResourceSizes, SendResources(size)
    PROVE  FragmentsFit'
<1>. DEFINE e == NS_SERVER
            C == Seq(FittingFragment) \ {<<>>}
            data == Reliables(written[e] + 1, written[e] + size)
            waits == [waitlist[e] EXCEPT ![FRAG_NORMAL_STREAM] =
                        Enqueue(Enqueue(@, Chain(message[e], NormalChunk)),
                                Chain(data, NormalChunk))]
<1>1. /\ size \in Nat /\ written[e] \in Nat /\ message[e] \in Seq(DataUnit)
      /\ waitlist[e] \in [Stream -> Seq(C)] /\ e \in Endpoint
    BY NetChanAssumption, PeerFacts DEF TypeOK, FragmentsFit
<1>2. data \in Seq(DataUnit)
    BY SMTT(30), <1>1, ReliablesType
<1>3. /\ Chain(message[e], NormalChunk) \in Seq(FittingFragment)
      /\ Chain(data, NormalChunk) \in Seq(FittingFragment)
    BY <1>1, <1>2, ChainFits
<1>. HIDE DEF data, C
<1>4. Enqueue(waitlist[e][FRAG_NORMAL_STREAM], Chain(message[e], NormalChunk)) \in Seq(C)
    BY <1>1, <1>3, EnqueueType, StreamFacts DEF C
<1>5. Enqueue(Enqueue(waitlist[e][FRAG_NORMAL_STREAM], Chain(message[e], NormalChunk)),
              Chain(data, NormalChunk)) \in Seq(C)
    BY <1>3, <1>4, EnqueueType DEF C
<1>6. waits \in [Stream -> Seq(C)]
    BY <1>1, <1>5
<1>7. /\ waitlist' = [waitlist EXCEPT ![e] =
                        [i \in Stream |-> PromotedWaits(fragbufs[e][i], waits[i])]]
      /\ fragbufs' = [fragbufs EXCEPT ![e] =
                        [i \in Stream |-> PromotedBufs(fragbufs[e][i], waits[i])]]
    BY DEF SendResources, data
<1>. HIDE DEF waits
<1>8. /\ [i \in Stream |-> PromotedWaits(fragbufs[e][i], waits[i])] \in [Stream -> Seq(C)]
      /\ [i \in Stream |-> PromotedBufs(fragbufs[e][i], waits[i])]
             \in [Stream -> Seq(FittingFragment)]
    BY <1>1, <1>6, FragSendFits DEF C
<1>. QED  BY <1>1, <1>7, <1>8 DEF FragmentsFit, C

LEMMA SendFileFits ==
    ASSUME ChunksFit, TypeOK, FragmentsFit, SendFile
    PROVE  FragmentsFit'
<1>. DEFINE e == NS_SERVER
            C == Seq(FittingFragment) \ {<<>>}
            waits == [waitlist[e] EXCEPT ![FRAG_FILE_STREAM] =
                        Enqueue(@, Chain(FileData(sentFiles + 1), FileChunk))]
<1>1. /\ sentFiles + 1 \in Nat /\ e \in Endpoint /\ waitlist[e] \in [Stream -> Seq(C)]
    <2>1. sentFiles \in Nat /\ e \in Endpoint
        BY PeerFacts DEF TypeOK
    <2>2. waitlist[e] \in [Stream -> Seq(C)]
        BY <2>1 DEF FragmentsFit
    <2>. QED  BY <2>1, <2>2
<1>2. Chain(FileData(sentFiles + 1), FileChunk) \in Seq(FittingFragment)
    BY <1>1, FileDataType, ChainFits
<1>. HIDE DEF C
<1>3. Enqueue(waitlist[e][FRAG_FILE_STREAM], Chain(FileData(sentFiles + 1), FileChunk)) \in Seq(C)
    BY <1>1, <1>2, EnqueueType, StreamFacts DEF C
<1>4. waits \in [Stream -> Seq(C)]
    BY <1>1, <1>3
<1>5. /\ waitlist' = [waitlist EXCEPT ![e] =
                        [i \in Stream |-> PromotedWaits(fragbufs[e][i], waits[i])]]
      /\ fragbufs' = [fragbufs EXCEPT ![e] =
                        [i \in Stream |-> PromotedBufs(fragbufs[e][i], waits[i])]]
    BY DEF SendFile
<1>. HIDE DEF waits
<1>6. /\ [i \in Stream |-> PromotedWaits(fragbufs[e][i], waits[i])] \in [Stream -> Seq(C)]
      /\ [i \in Stream |-> PromotedBufs(fragbufs[e][i], waits[i])]
             \in [Stream -> Seq(FittingFragment)]
    BY <1>1, <1>4, FragSendFits DEF C
<1>. QED  BY <1>1, <1>5, <1>6 DEF FragmentsFit, C

LEMMA ActiveFits ==
    ASSUME FragmentsFit, NEW e \in Endpoint
    PROVE  /\ ActiveBufs(e) \in [Stream -> Seq(FittingFragment)]
           /\ ActiveWaits(e) \in [Stream -> Seq(Seq(FittingFragment) \ {<<>>})]
<1>1. waitlist[e] \in [Stream -> Seq(Seq(FittingFragment) \ {<<>>})]
    BY DEF FragmentsFit
<1>. QED  BY <1>1, FragSendFits DEF ActiveBufs, ActiveWaits

LEMMA ComposeFits ==
    ASSUME ChunksFit, TypeOK, FragmentsFit, NEW e \in Endpoint, Compose(e)
    PROVE  FragmentsFit'
<1>. DEFINE C == Seq(FittingFragment) \ {<<>>}
<1>1. /\ ActiveBufs(e) \in [Stream -> Seq(FittingFragment)]
      /\ ActiveWaits(e) \in [Stream -> Seq(C)]
    BY ActiveFits
<1>2. [i \in Stream |-> IF Takes(e, i, Used(e, i)) THEN Tail(ActiveBufs(e)[i])
                                                   ELSE ActiveBufs(e)[i]]
          \in [Stream -> Seq(FittingFragment)]
    <2>1. ASSUME NEW i \in Stream, Takes(e, i, Used(e, i))
          PROVE  Tail(ActiveBufs(e)[i]) \in Seq(FittingFragment)
        <3>1. ActiveBufs(e)[i] \in Seq(FittingFragment) /\ ActiveBufs(e)[i] # <<>>
            BY <1>1, <2>1 DEF Takes
        <3>. QED  BY <3>1, HeadTailProperties
    <2>. QED  BY <1>1, <2>1
<1>3. Chain(message[e], NormalChunk) \in Seq(FittingFragment)
    BY ChainFits DEF TypeOK
<1>. HIDE DEF C
<1>4. \A i \in Stream : Enqueue(ActiveWaits(e)[i], Chain(message[e], NormalChunk)) \in Seq(C)
    BY <1>1, <1>3, EnqueueType DEF C
<1>5. fragbufs' \in [Endpoint -> [Stream -> Seq(FittingFragment)]]
    BY <1>2 DEF Compose, FragmentsFit
<1>6. waitlist' \in [Endpoint -> [Stream -> Seq(C)]]
    <2>1. waitlist \in [Endpoint -> [Stream -> Seq(C)]]
        BY DEF FragmentsFit, C
    <2>. QED  BY <1>1, <1>4, <2>1 DEF Compose
<1>. QED  BY <1>5, <1>6 DEF FragmentsFit, C

LEMMA NextFits ==
    ASSUME ChunksFit, TypeOK, FragmentsFit, [Next]_vars
    PROVE  FragmentsFit'
<1>1. CASE UNCHANGED <<fragbufs, waitlist>>
    BY <1>1 DEF FragmentsFit
<1>2. ASSUME NEW e \in Endpoint, NEW datagram \in Datagrams, TransmitBits(e, datagram)
      PROVE  FragmentsFit'
    BY <1>1, <1>2, ComposeFits DEF TransmitBits, TransmitNew, TransmitAgain
<1>3. ASSUME NEW size \in ResourceSizes, SendResources(size) PROVE FragmentsFit'
    BY <1>3, SendResourcesFits
<1>4. CASE SendFile
    BY <1>4, SendFileFits
<1>. QED
    BY <1>1, <1>2, <1>3, <1>4, PeerFacts
    DEF Next, WriteMessage, Transmit, TransmitInParse, HoldBack, ServerProcess, ClientProcess,
        AcceptPacket, ReadDone, vars, sendVars

\* No fragment ever waits that could not be sent (the chunk size of
\* Netchan_CreateFragments_ against the limit in Netchan_TransmitBits).
THEOREM FragmentsAlwaysFit ==
    ASSUME ChunksFit
    PROVE  Spec => []FragmentsFit
<1>1. ASSUME Init PROVE FragmentsFit
    <2>1. /\ <<>> \in Seq(FittingFragment)
          /\ <<>> \in Seq(Seq(FittingFragment) \ {<<>>})
        BY EmptySeq
    <2>. QED  BY <1>1, <2>1 DEF Init, FragmentsFit
<1>. QED  BY <1>1, NextFits, TypeCorrect, PTL DEF Spec

-----------------------------------------------------------------------------
(* What a transmission does, as far as the even/odd bit protocol goes. *)

\* A payload that is composed is never empty: data is waiting, and the
\* fragment that is first in line fits.
LEMMA PayloadNotEmpty ==
    ASSUME TypeOK, FragmentsFit, NEW e \in Endpoint, Compose(e)
    PROVE  HasReliable(e) <=> reliable_buf'[e] # <<>>
<1>. DEFINE regular == Regular(e)
            normal == Piece(e, FRAG_NORMAL_STREAM, Used(e, FRAG_NORMAL_STREAM))
            file == Piece(e, FRAG_FILE_STREAM, Used(e, FRAG_FILE_STREAM))
<1>1. reliable_buf'[e] = regular \o normal \o file
    BY DEF Compose, TypeOK
<1>2. regular \in Seq(DataUnit) /\ normal \in Seq(DataUnit) /\ file \in Seq(DataUnit)
    BY UsedType, PieceType, StreamFacts
<1>3. ASSUME NEW i \in Stream, Used(e, i) = 0, ActiveBufs(e)[i] # <<>>
      PROVE  Piece(e, i, Used(e, i)) # <<>>
    <2>1. Head(ActiveBufs(e)[i]) \in FittingFragment
        BY <1>3, ActiveFits, HeadTailProperties
    <2>2. /\ Head(ActiveBufs(e)[i]).data # <<>>
          /\ Len(Head(ActiveBufs(e)[i]).data) < MAX_RELIABLE_PAYLOAD
          /\ Len(Head(ActiveBufs(e)[i]).data) \in Nat
        BY <2>1, LenProperties DEF FittingFragment, DataFragment
    <2>3. Takes(e, i, Used(e, i))
        BY <1>3, <2>2 DEF Takes
    <2>. QED  BY <2>2, <2>3 DEF Piece
<1>4. \A i \in Stream, used \in Nat : ActiveBufs(e)[i] = <<>> => Piece(e, i, used) = <<>>
    BY DEF Piece, Takes
<1>5. regular = <<>> => Len(regular) = 0
    BY EmptySeq
<1>6. regular = <<>> => Used(e, FRAG_NORMAL_STREAM) = 0
    BY <1>5, StreamFacts DEF Used
<1>7. regular = <<>> /\ ActiveBufs(e)[FRAG_NORMAL_STREAM] = <<>> => Used(e, FRAG_FILE_STREAM) = 0
    BY <1>4, <1>5, EmptySeq, StreamFacts DEF Used
<1>8. HasReliable(e) <=> regular # <<>> \/ normal # <<>> \/ file # <<>>
    <2>1. ASSUME HasReliable(e), regular = <<>> PROVE normal # <<>> \/ file # <<>>
        <3>1. CASE ActiveBufs(e)[FRAG_NORMAL_STREAM] # <<>>
            BY <1>3, <1>6, <2>1, <3>1, StreamFacts
        <3>2. CASE ActiveBufs(e)[FRAG_NORMAL_STREAM] = <<>>
            <4>1. ActiveBufs(e)[FRAG_FILE_STREAM] # <<>>
                BY <2>1, <3>2, StreamFacts DEF HasReliable
            <4>. QED  BY <1>3, <1>7, <2>1, <3>2, <4>1, StreamFacts
        <3>. QED  BY <3>1, <3>2
    <2>2. ASSUME ~HasReliable(e) PROVE regular = <<>> /\ normal = <<>> /\ file = <<>>
        BY <1>4, <2>2, UsedType, StreamFacts DEF HasReliable
    <2>. QED  BY <2>1, <2>2 DEF HasReliable
<1>. HIDE DEF regular, normal, file
<1>9. regular \o normal \o file = <<>> <=> regular = <<>> /\ normal = <<>> /\ file = <<>>
    <2>1. /\ regular \o normal \in Seq(DataUnit)
          /\ Len(regular \o normal \o file) = Len(regular) + Len(normal) + Len(file)
          /\ Len(regular) \in Nat /\ Len(normal) \in Nat /\ Len(file) \in Nat
          /\ regular \o normal \o file \in Seq(DataUnit)
        BY <1>2, ConcatProperties, LenProperties
    <2>. QED  BY <1>2, <2>1, EmptySeq
<1>. QED  BY <1>1, <1>8, <1>9

\* The packet p leaves e.
Sends(e, p) ==
    /\ p.from = e /\ p.reliable \in BOOLEAN
    /\ p.seq = outgoing_sequence[e] /\ p.ack = incoming_sequence[e]
    /\ p.relack = incoming_reliable_sequence[e]
    /\ network' = network \cup {p}
    /\ outgoing_sequence' = [outgoing_sequence EXCEPT ![e] = @ + 1]
    /\ last_reliable_sequence' =
          [last_reliable_sequence EXCEPT ![e] = IF p.reliable THEN outgoing_sequence[e] ELSE @]
    /\ UNCHANGED <<incoming_sequence, incoming_acknowledged, incoming_reliable_acknowledged,
                   incoming_reliable_sequence, accepted>>

\* It carries a payload that was just composed, ...
NewPayload(e, p) ==
    /\ p.reliable /\ p.batch = composed[e] + 1
    /\ reliable_buf[e] = <<>> /\ reliable_buf'[e] # <<>>
    /\ reliable_buf'[Peer(e)] = reliable_buf[Peer(e)]
    /\ composed' = [composed EXCEPT ![e] = @ + 1]
    /\ reliable_sequence' = [reliable_sequence EXCEPT ![e] = Toggle(@)]

\* ... or the last one again, or none.
OldPayload(e, p) ==
    /\ p.reliable <=> NeedsResend(e)
    /\ p.reliable => p.batch = composed[e]
    /\ reliable_buf' = reliable_buf
    /\ UNCHANGED <<composed, reliable_sequence>>

LEMMA TransmitBitsSends ==
    ASSUME TypeOK, FragmentsFit, NEW e \in Endpoint, NEW datagram, TransmitBits(e, datagram)
    PROVE  \E p : Sends(e, p) /\ (NewPayload(e, p) \/ OldPayload(e, p))
<1>. DEFINE pkt(rel) ==
        [from |-> e, seq |-> outgoing_sequence[e], ack |-> incoming_sequence[e],
         reliable |-> rel, relack |-> incoming_reliable_sequence[e],
         frag |-> IF rel THEN reliable_frag'[e] ELSE [i \in Stream |-> NoHeader],
         body |-> IF rel THEN reliable_buf'[e] \o datagram ELSE datagram,
         batch |-> IF rel THEN composed'[e] ELSE 0]
<1>1. ASSUME NEW rel \in BOOLEAN, SendPacket(e, datagram, rel)
      PROVE  /\ Sends(e, pkt(rel)) /\ pkt(rel).reliable = rel
             /\ rel => pkt(rel).batch = composed'[e]
    BY <1>1 DEF SendPacket, Sends, TransmitBits, TransmitNew, TransmitAgain
<1>. HIDE DEF pkt
<1>2. CASE TransmitAgain(e, datagram)
    <2>1. SendPacket(e, datagram, NeedsResend(e)) /\ NeedsResend(e) \in BOOLEAN
        BY <1>2 DEF TransmitAgain, NeedsResend
    <2>2. OldPayload(e, pkt(NeedsResend(e)))
        BY <1>1, <1>2, <2>1 DEF TransmitAgain, OldPayload
    <2>. QED  BY <1>1, <2>1, <2>2
<1>3. CASE TransmitNew(e, datagram) /\ HasReliable(e)
    <2>1. SendPacket(e, datagram, TRUE) /\ Compose(e)
        BY <1>3 DEF TransmitNew
    <2>2. reliable_buf'[e] # <<>>
        BY <1>3, <2>1, PayloadNotEmpty
    <2>3. /\ composed' = [composed EXCEPT ![e] = @ + 1] /\ composed'[e] = composed[e] + 1
          /\ reliable_sequence' = [reliable_sequence EXCEPT ![e] = Toggle(@)]
        BY <1>3, <2>1 DEF Compose, TypeOK
    <2>4. reliable_buf'[Peer(e)] = reliable_buf[Peer(e)] /\ reliable_buf[e] = <<>>
        BY <1>3, <2>1, PeerFacts DEF Compose, TransmitNew, TypeOK
    <2>5. NewPayload(e, pkt(TRUE))
        BY <1>1, <2>1, <2>2, <2>3, <2>4 DEF NewPayload
    <2>. QED  BY <1>1, <2>1, <2>5
<1>4. CASE TransmitNew(e, datagram) /\ ~HasReliable(e)
    <2>1. SendPacket(e, datagram, NeedsResend(e)) /\ NeedsResend(e) \in BOOLEAN /\ Compose(e)
        BY <1>4 DEF TransmitNew, NeedsResend
    <2>2. reliable_buf'[e] = <<>> /\ reliable_buf[e] = <<>>
        BY <1>4, <2>1, PayloadNotEmpty DEF TransmitNew
    <2>3. /\ \A f \in Endpoint : reliable_buf'[f] = reliable_buf[f]
          /\ reliable_buf' \in [Endpoint -> Seq(DataUnit)] /\ reliable_buf \in [Endpoint -> Seq(DataUnit)]
        BY <2>1, <2>2, ComposeType DEF Compose, TypeOK
    <2>4. reliable_buf' = reliable_buf
        BY <2>3
    <2>5. composed' = composed /\ reliable_sequence' = reliable_sequence
        BY <1>4, <2>1 DEF Compose, TypeOK
    <2>6. OldPayload(e, pkt(NeedsResend(e)))
        BY <1>1, <2>1, <2>4, <2>5 DEF OldPayload
    <2>. QED  BY <1>1, <2>1, <2>6
<1>. QED  BY <1>2, <1>3, <1>4 DEF TransmitBits

-----------------------------------------------------------------------------
(* The inductive invariant IInv.  For each step, the direction in which a    *)
(* payload travels (from s) and the one in which its acknowledgement does    *)
(* (to s) are looked at apart.                                               *)

LEMMA ProtocolTypes ==
    ASSUME TypeOK, NEW e \in Endpoint
    PROVE  /\ outgoing_sequence[e] \in Nat /\ incoming_sequence[e] \in Nat
           /\ incoming_acknowledged[e] \in Nat /\ last_reliable_sequence[e] \in Nat
           /\ incoming_reliable_acknowledged[e] \in {0, 1}
           /\ incoming_reliable_sequence[e] \in {0, 1} /\ reliable_sequence[e] \in {0, 1}
           /\ composed[e] \in Nat /\ accepted[e] \in Seq(Nat) /\ Len(accepted[e]) \in Nat
           /\ \A p \in network : /\ p.seq \in Nat /\ p.ack \in Nat /\ p.relack \in {0, 1}
                                 /\ p.from \in Endpoint /\ p.reliable \in BOOLEAN
<1>1. /\ outgoing_sequence[e] \in Nat /\ incoming_sequence[e] \in Nat
      /\ incoming_acknowledged[e] \in Nat /\ last_reliable_sequence[e] \in Nat
      /\ incoming_reliable_acknowledged[e] \in {0, 1}
      /\ incoming_reliable_sequence[e] \in {0, 1} /\ reliable_sequence[e] \in {0, 1}
      /\ composed[e] \in Nat /\ accepted[e] \in Seq(Nat)
    BY DEF TypeOK
<1>2. Len(accepted[e]) \in Nat
    BY <1>1, LenProperties
<1>3. ASSUME NEW p \in network
      PROVE  /\ p.seq \in Nat /\ p.ack \in Nat /\ p.relack \in {0, 1}
             /\ p.from \in Endpoint /\ p.reliable \in BOOLEAN
    BY DEF TypeOK, Packet
<1>. QED  BY <1>1, <1>2, <1>3

\* s transmits: its own payloads.
LEMMA SenderTransmits ==
    ASSUME TypeOK, NEW s \in Endpoint, NEW p, ChannelInv(s),
           Sends(s, p), NewPayload(s, p) \/ OldPayload(s, p)
    PROVE  ChannelInv(s)'
<1>. DEFINE r == Peer(s)
<1>1. r \in Endpoint /\ r # s /\ Peer(r) = s
    BY PeerFacts
<1>2. /\ outgoing_sequence'[s] = outgoing_sequence[s] + 1
      /\ last_reliable_sequence'[s] = IF p.reliable THEN outgoing_sequence[s]
                                                    ELSE last_reliable_sequence[s]
    BY DEF Sends, TypeOK
<1>3. /\ network' = network \cup {p} /\ p.from = s /\ p.seq = outgoing_sequence[s]
      /\ incoming_sequence' = incoming_sequence
      /\ incoming_acknowledged' = incoming_acknowledged
      /\ incoming_reliable_acknowledged' = incoming_reliable_acknowledged
      /\ incoming_reliable_sequence' = incoming_reliable_sequence
      /\ accepted' = accepted /\ p.reliable \in BOOLEAN
    BY DEF Sends
<1>4. NewPayload(s, p) =>
          /\ p.reliable /\ p.batch = composed[s] + 1 /\ composed'[s] = composed[s] + 1
          /\ reliable_sequence'[s] \in {0, 1} /\ reliable_sequence'[s] # reliable_sequence[s]
          /\ reliable_buf[s] = <<>> /\ reliable_buf'[s] # <<>>
    <2>. SUFFICES ASSUME NewPayload(s, p)
                  PROVE  /\ composed'[s] = composed[s] + 1
                         /\ reliable_sequence'[s] \in {0, 1}
                         /\ reliable_sequence'[s] # reliable_sequence[s]
        BY DEF NewPayload
    <2>1. /\ composed \in [Endpoint -> Nat] /\ reliable_sequence \in [Endpoint -> {0, 1}]
        BY DEF TypeOK
    <2>2. composed'[s] = composed[s] + 1 /\ reliable_sequence'[s] = Toggle(reliable_sequence[s])
        BY <2>1 DEF NewPayload
    <2>. QED  BY <2>1, <2>2, ToggleType
<1>5. OldPayload(s, p) =>
          /\ composed'[s] = composed[s] /\ reliable_sequence'[s] = reliable_sequence[s]
          /\ reliable_buf'[s] = reliable_buf[s]
          /\ p.reliable => /\ incoming_acknowledged[s] > last_reliable_sequence[s]
                           /\ incoming_reliable_acknowledged[s] # reliable_sequence[s]
                           /\ p.batch = composed[s]
    BY DEF OldPayload, NeedsResend
<1>6. NewPayload(s, p) => CaughtUp(s) /\ ~CaughtUp(s)'
    BY <1>1, <1>3, <1>4, ProtocolTypes DEF ChannelInv, Acks, CaughtUp
<1>7. OldPayload(s, p) => (CaughtUp(s)' <=> CaughtUp(s))
    BY <1>3, <1>5 DEF CaughtUp
<1>8. OldPayload(s, p) /\ p.reliable => ~CaughtUp(s)
    BY <1>5, ProtocolTypes DEF ChannelInv, Acks
<1>9. Counts(s)'
    BY <1>1, <1>3, <1>4, <1>5, <1>6, <1>7, ProtocolTypes DEF ChannelInv, Counts, CaughtUp
<1>10. Numbers(s)'
    BY <1>1, <1>2, <1>3, ProtocolTypes DEF ChannelInv, Numbers
<1>11. Payloads(s)'
    <2>1. ASSUME NEW a \in network', NEW b \in network', a.from = s, b.from = s, a.seq = b.seq
          PROVE  a = b
        BY <1>1, <1>3, <2>1, ProtocolTypes DEF ChannelInv, Numbers, Payloads
    <2>2. ASSUME NEW a \in network', a.from = s, a.reliable
          PROVE  a.seq <= last_reliable_sequence'[s]
        BY <1>1, <1>2, <1>3, <2>2, ProtocolTypes DEF ChannelInv, Numbers, Payloads
    <2>3. ASSUME NEW a \in network', a.from = s, a.reliable, a.seq > incoming_sequence'[r]
          PROVE  /\ a.seq = last_reliable_sequence'[s] /\ a.batch = composed'[s] /\ ~CaughtUp(s)'
        <3>1. CASE NewPayload(s, p)
            BY <1>1, <1>2, <1>3, <1>4, <1>6, <2>3, <3>1 DEF ChannelInv, Payloads
        <3>2. CASE OldPayload(s, p) /\ p.reliable
            <4>1. a = p
                <5>1. incoming_acknowledged[s] > last_reliable_sequence[s]
                    BY <1>5, <3>2
                <5>2. incoming_sequence[r] > last_reliable_sequence[s]
                    BY <1>1, <5>1, ProtocolTypes DEF ChannelInv, Numbers
                <5>. QED  BY <1>1, <1>3, <2>3, <5>2, ProtocolTypes DEF ChannelInv, Payloads
            <4>. QED  BY <1>2, <1>3, <1>5, <1>7, <1>8, <3>2, <4>1
        <3>3. CASE OldPayload(s, p) /\ ~p.reliable
            BY <1>2, <1>3, <1>5, <1>7, <2>3, <3>3 DEF ChannelInv, Payloads
        <3>. QED  BY <3>1, <3>2, <3>3, <1>3
    <2>. QED  BY <2>1, <2>2, <2>3 DEF Payloads
<1>12. Acks(s)'
    <2>1. \A a \in network' : a.from = r => a \in network
        BY <1>1, <1>3
    <2>2. CASE NewPayload(s, p)
        <3>1. \A a \in network : a.from = r /\ a.seq > incoming_sequence[s]
                                    => a.relack # reliable_sequence'[s]
            BY <1>1, <1>4, <2>2 DEF ChannelInv, Acks
        <3>. QED  BY <1>1, <1>3, <1>4, <1>6, <2>1, <2>2, <3>1 DEF Acks
    <2>3. CASE OldPayload(s, p) /\ p.reliable
        BY <1>1, <1>3, <1>5, <1>7, <1>8, <2>1, <2>3 DEF ChannelInv, Acks
    <2>4. CASE OldPayload(s, p) /\ ~p.reliable
        BY <1>1, <1>2, <1>3, <1>5, <1>7, <2>1, <2>4 DEF ChannelInv, Acks
    <2>. QED  BY <2>2, <2>3, <2>4, <1>3
<1>. QED  BY <1>9, <1>10, <1>11, <1>12 DEF ChannelInv

\* The peer of s transmits: it acknowledges what it has taken in from s.
LEMMA ReceiverTransmits ==
    ASSUME TypeOK, NEW s \in Endpoint, NEW p, ChannelInv(s), ChannelInv(Peer(s)),
           Sends(Peer(s), p), NewPayload(Peer(s), p) \/ OldPayload(Peer(s), p)
    PROVE  ChannelInv(s)'
<1>. DEFINE r == Peer(s)
<1>1. r \in Endpoint /\ r # s /\ Peer(r) = s
    BY PeerFacts
<1>2. outgoing_sequence'[s] = outgoing_sequence[s] /\ outgoing_sequence'[r] = outgoing_sequence[r] + 1
    BY <1>1 DEF Sends, TypeOK
<1>3. last_reliable_sequence'[s] = last_reliable_sequence[s]
    BY <1>1 DEF Sends, TypeOK
<1>4. /\ network' = network \cup {p} /\ p.from = r /\ p.seq = outgoing_sequence[r]
      /\ p.ack = incoming_sequence[r] /\ p.relack = incoming_reliable_sequence[r]
      /\ incoming_sequence' = incoming_sequence
      /\ incoming_acknowledged' = incoming_acknowledged
      /\ incoming_reliable_acknowledged' = incoming_reliable_acknowledged
      /\ incoming_reliable_sequence' = incoming_reliable_sequence
      /\ accepted' = accepted
    BY DEF Sends
<1>5. /\ composed'[s] = composed[s] /\ reliable_sequence'[s] = reliable_sequence[s]
      /\ reliable_buf'[s] = reliable_buf[s]
    BY <1>1 DEF NewPayload, OldPayload, TypeOK
<1>6. CaughtUp(s)' <=> CaughtUp(s)
    BY <1>4, <1>5 DEF CaughtUp
<1>7. CaughtUp(s) <=> p.relack = reliable_sequence[s]
    BY <1>4 DEF ChannelInv, Counts
<1>8. \A q \in network : q.from = r => q.seq < p.seq
    BY <1>1, <1>4 DEF ChannelInv, Numbers
<1>9. Counts(s)'
    BY <1>4, <1>5, <1>6 DEF ChannelInv, Counts
<1>10. Numbers(s)'
    BY <1>1, <1>2, <1>3, <1>4, ProtocolTypes DEF ChannelInv, Numbers
<1>11. Payloads(s)'
    BY <1>1, <1>3, <1>4, <1>5, <1>6 DEF ChannelInv, Payloads
<1>12. Acks(s)'
    <2>1. ASSUME NEW q \in network', q.from = r, q.seq > incoming_sequence'[s]
          PROVE  /\ q.relack = reliable_sequence'[s] => CaughtUp(s)'
                 /\ CaughtUp(s)' /\ q.ack >= last_reliable_sequence'[s]
                        => q.relack = reliable_sequence'[s]
                 /\ reliable_buf'[s] = <<>> => q.relack = reliable_sequence'[s]
        <3>1. CASE q \in network
            BY <1>3, <1>4, <1>5, <1>6, <2>1, <3>1 DEF ChannelInv, Acks
        <3>2. CASE q = p
            BY <1>5, <1>6, <1>7, <3>2 DEF ChannelInv, Acks
        <3>. QED  BY <1>4, <3>1, <3>2
    <2>2. ASSUME NEW a \in network', NEW q \in network', a.from = r, q.from = r,
                 a.seq > incoming_sequence'[s], q.seq > a.seq, a.relack = reliable_sequence'[s]
          PROVE  q.relack = reliable_sequence'[s]
        <3>1. CASE a \in network /\ q \in network
            BY <1>4, <1>5, <2>2, <3>1 DEF ChannelInv, Acks
        <3>2. CASE a \in network /\ q = p
            <4>1. CaughtUp(s)
                BY <1>4, <1>5, <2>2, <3>2 DEF ChannelInv, Acks
            <4>. QED  BY <1>5, <1>7, <3>2, <4>1
        <3>3. CASE a = p
            <4>1. p.seq \in Nat /\ q.seq \in Nat
                BY <1>1, <1>4, ProtocolTypes
            <4>. QED  BY <1>4, <1>8, <2>2, <3>3, <4>1
        <3>. QED  BY <1>4, <3>1, <3>2, <3>3
    <2>. QED  BY <1>3, <1>4, <1>5, <1>6, <2>1, <2>2 DEF ChannelInv, Acks
<1>. QED  BY <1>9, <1>10, <1>11, <1>12 DEF ChannelInv

\* The peer of s takes a packet of s in.
LEMMA ReceiverAccepts ==
    ASSUME TypeOK, NEW s \in Endpoint, NEW p \in network, ChannelInv(s),
           p.from = s, Fresh(Peer(s), p), AcceptPacket(Peer(s), p),
           UNCHANGED <<outgoing_sequence, last_reliable_sequence, reliable_sequence, composed, network>>
    PROVE  ChannelInv(s)'
<1>. DEFINE r == Peer(s)
<1>1. r \in Endpoint /\ r # s /\ Peer(r) = s
    BY PeerFacts
<1>2. p.seq > incoming_sequence[r]
    BY DEF Fresh
<1>3. /\ incoming_sequence'[r] = p.seq /\ incoming_sequence'[s] = incoming_sequence[s]
      /\ incoming_acknowledged'[s] = incoming_acknowledged[s]
      /\ incoming_reliable_acknowledged'[s] = incoming_reliable_acknowledged[s]
      /\ reliable_buf'[s] = reliable_buf[s]
    BY <1>1 DEF AcceptPacket, TypeOK
<1>4. /\ incoming_reliable_sequence'[r] = IF p.reliable THEN Toggle(incoming_reliable_sequence[r])
                                          ELSE incoming_reliable_sequence[r]
      /\ accepted'[r] = IF p.reliable THEN Append(accepted[r], p.batch) ELSE accepted[r]
    BY <1>1 DEF AcceptPacket, TypeOK
<1>5. p.reliable => p.seq = last_reliable_sequence[s] /\ p.batch = composed[s] /\ ~CaughtUp(s)
    BY <1>2 DEF ChannelInv, Payloads
<1>6. p.reliable => /\ Len(accepted'[r]) = composed[s]
                    /\ \A k \in 1..Len(accepted'[r]) : accepted'[r][k] = k
    <2>. SUFFICES ASSUME p.reliable
                  PROVE  /\ Len(accepted'[r]) = composed[s]
                         /\ \A k \in 1..Len(accepted'[r]) : accepted'[r][k] = k
        OBVIOUS
    <2>1. Len(accepted[r]) = composed[s] - 1 /\ \A k \in 1..Len(accepted[r]) : accepted[r][k] = k
        BY <1>5 DEF ChannelInv, Counts
    <2>2. accepted'[r] = Append(accepted[r], composed[s])
        BY <1>4, <1>5
    <2>3. accepted[r] \in Seq(Nat) /\ composed[s] \in Nat
        BY <1>1, ProtocolTypes
    <2>. QED  BY <2>1, <2>2, <2>3, AppendProperties, LenProperties
<1>7. p.reliable => CaughtUp(s)'
    BY <1>6 DEF CaughtUp
<1>8. ~p.reliable => (CaughtUp(s)' <=> CaughtUp(s))
    BY <1>4 DEF CaughtUp
<1>9. p.reliable \in BOOLEAN
    BY ProtocolTypes
<1>10. Counts(s)'
    <2>1. CASE p.reliable
        <3>1. incoming_reliable_sequence'[r] = reliable_sequence[s]
            <4>1. incoming_reliable_sequence[r] \in {0, 1} /\ reliable_sequence[s] \in {0, 1}
                BY <1>1, ProtocolTypes
            <4>2. incoming_reliable_sequence[r] # reliable_sequence[s]
                BY <1>5, <2>1 DEF ChannelInv, Counts
            <4>3. incoming_reliable_sequence'[r] = Toggle(incoming_reliable_sequence[r])
                BY <1>4, <2>1
            <4>. QED  BY <4>1, <4>2, <4>3, ToggleType
        <3>. QED  BY <1>3, <1>6, <1>7, <2>1, <3>1 DEF Counts
    <2>2. CASE ~p.reliable
        BY <1>4, <1>8, <2>2 DEF ChannelInv, Counts
    <2>. QED  BY <2>1, <2>2
<1>11. Numbers(s)'
    BY <1>1, <1>2, <1>3, ProtocolTypes DEF ChannelInv, Numbers
<1>12. Payloads(s)'
    <2>1. ASSUME NEW q \in network, q.from = s, q.reliable, q.seq > p.seq
          PROVE  q.seq = last_reliable_sequence[s] /\ q.batch = composed[s] /\ ~CaughtUp(s) /\ ~p.reliable
        <3>1. q.seq > incoming_sequence[r]
            BY <1>1, <1>2, <2>1, ProtocolTypes
        <3>2. q.seq = last_reliable_sequence[s] /\ q.batch = composed[s] /\ ~CaughtUp(s)
            BY <2>1, <3>1 DEF ChannelInv, Payloads
        <3>. QED  BY <1>1, <1>5, <2>1, <3>2, ProtocolTypes
    <2>. QED  BY <1>3, <1>8, <2>1 DEF ChannelInv, Payloads
<1>13. Acks(s)'
    <2>1. p.reliable => /\ incoming_acknowledged[s] < last_reliable_sequence[s]
                        /\ \A q \in network : q.from = r => q.ack < last_reliable_sequence[s]
        BY <1>1, <1>2, <1>5, ProtocolTypes DEF ChannelInv, Numbers
    <2>2. CASE p.reliable
        <3>1. ASSUME NEW q \in network, q.from = r PROVE ~(q.ack >= last_reliable_sequence[s])
            <4>1. q.ack \in Nat /\ last_reliable_sequence[s] \in Nat
                BY ProtocolTypes
            <4>. QED  BY <2>1, <2>2, <3>1, <4>1
        <3>2. ~(incoming_acknowledged[s] >= last_reliable_sequence[s])
            <4>1. incoming_acknowledged[s] \in Nat /\ last_reliable_sequence[s] \in Nat
                BY ProtocolTypes
            <4>. QED  BY <2>1, <2>2, <4>1
        <3>3. ~CaughtUp(s)
            BY <1>5, <2>2
        <3>. QED  BY <1>3, <1>7, <2>2, <3>1, <3>2, <3>3 DEF ChannelInv, Acks
    <2>3. CASE ~p.reliable
        BY <1>3, <1>8, <2>3 DEF ChannelInv, Acks
    <2>. QED  BY <2>2, <2>3
<1>. QED  BY <1>10, <1>11, <1>12, <1>13 DEF ChannelInv

\* s takes a packet of its peer in, and with it an acknowledgement.
LEMMA SenderAccepts ==
    ASSUME TypeOK, NEW s \in Endpoint, NEW p \in network, ChannelInv(s),
           p.from = Peer(s), Fresh(s, p), AcceptPacket(s, p),
           UNCHANGED <<outgoing_sequence, last_reliable_sequence, reliable_sequence, composed, network>>
    PROVE  ChannelInv(s)'
<1>. DEFINE r == Peer(s)
<1>1. r \in Endpoint /\ r # s /\ Peer(r) = s
    BY PeerFacts
<1>2. p.seq > incoming_sequence[s]
    BY DEF Fresh
<1>3. /\ incoming_sequence'[s] = p.seq /\ incoming_sequence'[r] = incoming_sequence[r]
      /\ incoming_acknowledged'[s] = p.ack
      /\ incoming_reliable_acknowledged'[s] = p.relack
    BY <1>1 DEF AcceptPacket, TypeOK
<1>4. /\ incoming_reliable_sequence'[r] = incoming_reliable_sequence[r]
      /\ accepted'[r] = accepted[r]
    BY <1>1 DEF AcceptPacket, TypeOK
<1>5. reliable_buf'[s] = <<>> => reliable_buf[s] = <<>> \/ p.relack = reliable_sequence[s]
    BY DEF AcceptPacket, Acknowledges, TypeOK
<1>6. CaughtUp(s)' <=> CaughtUp(s)
    BY <1>4 DEF CaughtUp
<1>7. Counts(s)'
    BY <1>4, <1>6 DEF ChannelInv, Counts
<1>8. Numbers(s)'
    BY <1>1, <1>3 DEF ChannelInv, Numbers
<1>9. Payloads(s)'
    BY <1>3, <1>6 DEF ChannelInv, Payloads
<1>10. Acks(s)'
    <2>1. /\ p.relack = reliable_sequence[s] => CaughtUp(s)
          /\ CaughtUp(s) /\ p.ack >= last_reliable_sequence[s] => p.relack = reliable_sequence[s]
          /\ reliable_buf[s] = <<>> => p.relack = reliable_sequence[s]
        BY <1>2 DEF ChannelInv, Acks
    <2>2. \A q \in network : q.seq > p.seq => q.seq > incoming_sequence[s]
        BY <1>2, ProtocolTypes
    <2>3. ASSUME NEW q \in network, q.from = r, q.seq > p.seq
          PROVE  /\ q.relack = reliable_sequence[s] => CaughtUp(s)
                 /\ CaughtUp(s) /\ q.ack >= last_reliable_sequence[s]
                        => q.relack = reliable_sequence[s]
                 /\ p.relack = reliable_sequence[s] => q.relack = reliable_sequence[s]
        BY <1>2, <2>2, <2>3 DEF ChannelInv, Acks
    <2>4. reliable_buf'[s] = <<>> => p.relack = reliable_sequence[s]
        BY <1>5, <2>1
    <2>5. \A a, q \in network :
              a.from = r /\ q.from = r /\ a.seq > p.seq /\ q.seq > a.seq
                  /\ a.relack = reliable_sequence[s] => q.relack = reliable_sequence[s]
        BY <2>2 DEF ChannelInv, Acks
    <2>. QED  BY <1>3, <1>6, <2>1, <2>3, <2>4, <2>5 DEF Acks
<1>. QED  BY <1>7, <1>8, <1>9, <1>10 DEF ChannelInv

\* The client uses a number up without sending.
LEMMA HoldBackKeeps ==
    ASSUME TypeOK, NEW s \in Endpoint, ChannelInv(s), HoldBack
    PROVE  ChannelInv(s)'
<1>. DEFINE r == Peer(s)
<1>1. r \in Endpoint /\ r # s /\ Peer(r) = s
    BY PeerFacts
<1>2. /\ UNCHANGED <<incoming_sequence, incoming_acknowledged, incoming_reliable_acknowledged,
                     incoming_reliable_sequence, reliable_sequence, last_reliable_sequence,
                     reliable_buf, network, composed, accepted>>
    BY DEF HoldBack, sendVars, histVars
<1>3. outgoing_sequence'[s] \in {outgoing_sequence[s], outgoing_sequence[s] + 1}
    <2>1. outgoing_sequence \in [Endpoint -> Nat]
        BY DEF TypeOK
    <2>2. outgoing_sequence' = [outgoing_sequence EXCEPT ![NS_CLIENT] = @ + 1]
        BY DEF HoldBack
    <2>. QED  BY <2>1, <2>2, PeerFacts
<1>4. CaughtUp(s)' <=> CaughtUp(s)
    BY <1>2 DEF CaughtUp
<1>5. Counts(s)' /\ Payloads(s)' /\ Acks(s)'
    BY <1>2, <1>4 DEF ChannelInv, Counts, Payloads, Acks
<1>6. Numbers(s)'
    <2>1. ASSUME NEW n \in Nat, n < outgoing_sequence[s] PROVE n < outgoing_sequence'[s]
        BY <1>3, <2>1, ProtocolTypes
    <2>. QED  BY <1>1, <1>2, <2>1, ProtocolTypes DEF ChannelInv, Numbers
<1>. QED  BY <1>5, <1>6 DEF ChannelInv

protocolVars == <<seqVars, reliable_buf, network, composed, accepted>>

LEMMA UntouchedKeeps ==
    ASSUME NEW s \in Endpoint, ChannelInv(s), UNCHANGED protocolVars
    PROVE  ChannelInv(s)'
<1>1. UNCHANGED <<outgoing_sequence, incoming_sequence, incoming_acknowledged,
                  incoming_reliable_acknowledged, incoming_reliable_sequence, reliable_sequence,
                  last_reliable_sequence, reliable_buf, network, composed, accepted>>
    BY DEF protocolVars, seqVars
<1>2. CaughtUp(s)' <=> CaughtUp(s)
    BY <1>1 DEF CaughtUp
<1>. QED  BY <1>1, <1>2 DEF ChannelInv, Counts, Numbers, Payloads, Acks

LEMMA InitIInv ==
    ASSUME Init
    PROVE  IInv
<1>1. ASSUME NEW s \in Endpoint PROVE ChannelInv(s)
    <2>1. Peer(s) \in Endpoint
        BY PeerFacts
    <2>2. /\ outgoing_sequence[s] = 1 /\ incoming_sequence[Peer(s)] = 0
          /\ incoming_acknowledged[s] = 0 /\ last_reliable_sequence[s] = 0
          /\ incoming_reliable_acknowledged[s] = 0 /\ reliable_sequence[s] = 0
          /\ incoming_reliable_sequence[Peer(s)] = 0
          /\ network = {} /\ composed[s] = 0 /\ accepted[Peer(s)] = <<>>
        BY <2>1 DEF Init
    <2>3. Len(accepted[Peer(s)]) = 0
        BY <2>2, EmptySeq
    <2>4. CaughtUp(s)
        BY <2>2, <2>3 DEF CaughtUp
    <2>5. Counts(s)
        BY <2>2, <2>3, <2>4 DEF Counts
    <2>6. Numbers(s) /\ Payloads(s)
        BY <2>2 DEF Numbers, Payloads
    <2>7. Acks(s)
        BY <2>2, <2>4 DEF Acks
    <2>. QED  BY <2>5, <2>6, <2>7 DEF ChannelInv
<1>. QED  BY <1>1 DEF IInv

LEMMA NextIInv ==
    ASSUME TypeOK, FragmentsFit, IInv, [Next]_vars
    PROVE  IInv'
<1>. SUFFICES ASSUME NEW s \in Endpoint PROVE ChannelInv(s)'
    BY DEF IInv
<1>1. ChannelInv(s) /\ ChannelInv(Peer(s)) /\ Peer(s) \in Endpoint /\ Peer(Peer(s)) = s
    BY PeerFacts DEF IInv
<1>2. ASSUME NEW e \in Endpoint, NEW datagram, TransmitBits(e, datagram) PROVE ChannelInv(s)'
    <2>1. PICK p : Sends(e, p) /\ (NewPayload(e, p) \/ OldPayload(e, p))
        BY <1>2, TransmitBitsSends
    <2>2. CASE e = s
        BY <1>1, <2>1, <2>2, SenderTransmits
    <2>3. CASE e = Peer(s)
        BY <1>1, <2>1, <2>3, ReceiverTransmits
    <2>. QED  BY <2>2, <2>3, PeerFacts
<1>3. ASSUME NEW e \in Endpoint, NEW p \in network, p.from = Peer(e), Fresh(e, p),
             AcceptPacket(e, p),
             UNCHANGED <<outgoing_sequence, last_reliable_sequence, reliable_sequence, composed, network>>
      PROVE  ChannelInv(s)'
    <2>1. CASE e = s
        BY <1>1, <1>3, <2>1, SenderAccepts
    <2>2. CASE e = Peer(s)
        BY <1>1, <1>3, <2>2, ReceiverAccepts
    <2>. QED  BY <2>1, <2>2, PeerFacts
<1>4. CASE \E p \in network : ServerProcess(p)
    BY <1>3, <1>4, PeerFacts DEF ServerProcess
<1>5. CASE \E p \in network : ClientProcess(p)
    BY <1>3, <1>5, PeerFacts DEF ClientProcess
<1>6. CASE \/ \E e \in Endpoint, datagram \in Datagrams : Transmit(e, datagram)
           \/ \E datagram \in Datagrams : TransmitInParse(datagram)
    BY <1>2, <1>6, PeerFacts DEF Transmit, TransmitInParse
<1>7. CASE HoldBack
    BY <1>1, <1>7, HoldBackKeeps
<1>8. CASE UNCHANGED protocolVars
    BY <1>1, <1>8, UntouchedKeeps
<1>9. CASE \/ \E e \in Endpoint, size \in WriteSizes : WriteMessage(e, size)
           \/ \E size \in ResourceSizes : SendResources(size)
           \/ SendFile \/ ReadDone \/ UNCHANGED vars
    <2>1. UNCHANGED protocolVars
        BY <1>9 DEF WriteMessage, SendResources, SendFile, ReadDone, vars, sendVars, histVars,
                    protocolVars
    <2>. QED  BY <1>8, <2>1
<1>. QED  BY <1>4, <1>5, <1>6, <1>7, <1>9 DEF Next

\* The even/odd bit protocol: the inductive invariant holds of every channel
\* whose chunks fit into a reliable payload, whatever is sent.
THEOREM IInvHolds ==
    ASSUME ChunksFit
    PROVE  Spec => []IInv
BY InitIInv, NextIInv, TypeCorrect, FragmentsAlwaysFit, PTL DEF Spec

\* Each reliable payload is taken in exactly once and in order (Process).
THEOREM InOrderOnceHolds ==
    ASSUME ChunksFit
    PROVE  Spec => []InOrderOnce
<1>1. IInv => InOrderOnce
    BY DEF IInv, ChannelInv, Counts, CaughtUp, InOrderOnce
<1>. QED  BY <1>1, IInvHolds, PTL

\* The retransmission buffer is never given up for a payload that has not
\* arrived (Process and TransmitBits).
THEOREM AckMeansAcceptedHolds ==
    ASSUME ChunksFit
    PROVE  Spec => []AckMeansAccepted
<1>1. IInv => AckMeansAccepted
    BY DEF IInv, ChannelInv, Acks, CaughtUp, AckMeansAccepted
<1>. QED  BY <1>1, IInvHolds, PTL

\* No two packets with a reliable payload can still be taken in
\* (the condition for resending in TransmitBits).
THEOREM OneInFlightHolds ==
    ASSUME ChunksFit
    PROVE  Spec => []OneInFlight
<1>1. TypeOK /\ IInv => OneInFlight
    <2>. SUFFICES ASSUME TypeOK, IInv, NEW p \in network, NEW q \in network,
                         p.reliable, q.reliable, p.from = q.from,
                         Fresh(Peer(p.from), p), Fresh(Peer(q.from), q)
                  PROVE  p = q
        BY DEF OneInFlight
    <2>1. p.from \in Endpoint /\ ChannelInv(p.from)
        BY DEF TypeOK, Packet, IInv
    <2>2. p.seq = last_reliable_sequence[p.from] /\ q.seq = last_reliable_sequence[p.from]
        BY <2>1 DEF ChannelInv, Payloads, Fresh
    <2>. QED  BY <2>1, <2>2 DEF ChannelInv, Payloads
<1>. QED  BY <1>1, IInvHolds, TypeCorrect, PTL
=============================================================================
