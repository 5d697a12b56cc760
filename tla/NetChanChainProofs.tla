------------------------- MODULE NetChanChainProofs -------------------------
(***************************************************************************)
(* Proofs about the fragments of a netchan: chains do not mix in the       *)
(* client's list, which never has a gap, and a packet whose header says    *)
(* that it contains a reliable payload does.                               *)
(***************************************************************************)
EXTENDS NetChanChains, NetChanProofs

-----------------------------------------------------------------------------
(* Chains and what is left of them. *)

LEMMA ChainShape ==
    ASSUME NEW data \in Seq(DataUnit), NEW chunk \in Nat \ {0}
    PROVE  LET chain == Chain(data, chunk)
               count == (Len(data) + chunk - 1) \div chunk
           IN  /\ count \in Nat /\ Len(chain) = count
               /\ \A k \in 1..count :
                     /\ chain[k].id = k /\ chain[k].count = count
                     /\ chain[k].data = SubSeq(data, (k - 1) * chunk + 1,
                                               Least(k * chunk, Len(data)))
<1>. DEFINE count == (Len(data) + chunk - 1) \div chunk
            chain == Chain(data, chunk)
<1>1. count \in Nat
    BY LenProperties
<1>2. chain = [k \in 1..count |->
                 [id |-> k, count |-> count,
                  data |-> SubSeq(data, (k - 1) * chunk + 1, Least(k * chunk, Len(data)))]]
    BY DEF Chain
<1>3. chain \in Seq(DataFragment)
    BY ChainType
<1>. HIDE DEF count
<1>4. Len(chain) = count
    BY <1>1, <1>2, <1>3, LenProperties
<1>5. \A k \in 1..count :
          /\ chain[k].id = k /\ chain[k].count = count
          /\ chain[k].data = SubSeq(data, (k - 1) * chunk + 1, Least(k * chunk, Len(data)))
    BY <1>2
<1>. HIDE DEF chain
<1>. QED  BY <1>1, <1>4, <1>5 DEF count, chain

LEMMA ChainIsWhole ==
    ASSUME ChunksFit, NEW data \in Seq(DataUnit), NEW chunk \in {NormalChunk, FileChunk}
    PROVE  Chain(data, chunk) \in Wholes \/ Chain(data, chunk) = <<>>
<1>. DEFINE chain == Chain(data, chunk)
            count == (Len(data) + chunk - 1) \div chunk
<1>1. chunk \in Nat \ {0}
    BY NetChanAssumption
<1>2. chain \in Seq(FittingFragment)
    BY ChainFits
<1>3. /\ count \in Nat /\ Len(chain) = count
      /\ \A k \in 1..count : chain[k].id = k /\ chain[k].count = count
    BY <1>1, ChainShape
<1>. HIDE DEF chain, count
<1>4. IsTail(chain)
    BY <1>3 DEF IsTail
<1>5. chain # <<>> => chain[1].id = 1
    BY <1>2, <1>3, EmptySeq
<1>. QED  BY <1>2, <1>4, <1>5 DEF Wholes, Tails, chain

LEMMA FragmentFields ==
    ASSUME NEW f \in FittingFragment
    PROVE  /\ f.id \in Nat /\ f.count \in Nat /\ f.data \in Seq(DataUnit) /\ f.data # <<>>
           /\ Len(f.data) \in Nat /\ Len(f.data) < MAX_RELIABLE_PAYLOAD
BY LenProperties DEF FittingFragment, DataFragment, Fragment

\* What is left after the first fragment follows it.
LEMMA TailFollows ==
    ASSUME NEW bufs \in Tails, bufs # <<>>
    PROVE  /\ Tail(bufs) \in Tails /\ Head(bufs) = bufs[1] /\ bufs[1] \in FittingFragment
           /\ bufs[1].id \in 1..bufs[1].count /\ bufs[1].count \in Nat
           /\ Follows(Tail(bufs), bufs[1].id, bufs[1].count)
<1>. DEFINE rest == Tail(bufs)
<1>1. bufs \in Seq(FittingFragment) /\ IsTail(bufs)
    BY DEF Tails
<1>2. /\ rest \in Seq(FittingFragment) /\ Len(rest) = Len(bufs) - 1
      /\ Len(bufs) \in Nat \ {0} /\ Len(rest) \in Nat
      /\ \A k \in 1..Len(rest) : rest[k] = bufs[k + 1]
    BY <1>1, HeadTailProperties, EmptySeq, LenProperties
<1>3. \A k \in 1..Len(bufs) :
          /\ bufs[k] \in FittingFragment /\ bufs[k].id \in Nat /\ bufs[k].count \in Nat
          /\ bufs[k].count = bufs[1].count
          /\ bufs[k].id = bufs[1].count - Len(bufs) + k /\ bufs[k].id >= 1
    BY <1>1, ElementOfSeq, FragmentFields DEF IsTail
<1>4. Head(bufs) = bufs[1] /\ 1 \in 1..Len(bufs)
    BY <1>1, <1>2
<1>. HIDE DEF rest
<1>5. \A k \in 1..Len(rest) : k + 1 \in 1..Len(bufs)
    BY <1>2
<1>6. IsTail(rest)
    <2>. SUFFICES ASSUME NEW k \in 1..Len(rest)
                  PROVE  /\ rest[k].count = rest[1].count
                         /\ rest[k].id = rest[k].count - Len(rest) + k /\ rest[k].id >= 1
        BY DEF IsTail
    <2>1. k + 1 \in 1..Len(bufs) /\ 2 \in 1..Len(bufs) /\ 1 \in 1..Len(rest)
        BY <1>2, <1>5
    <2>2. rest[k] = bufs[k + 1] /\ rest[1] = bufs[2]
        BY <1>2, <2>1
    <2>. QED  BY SMTT(30), <1>2, <1>3, <2>1, <2>2
<1>7. rest # <<>> => Len(rest) > 0
    BY <1>2, EmptySeq
<1>8. rest = <<>> => Len(rest) = 0
    BY EmptySeq
<1>9. Follows(rest, bufs[1].id, bufs[1].count)
    <2>1. CASE rest = <<>>
        <3>1. Len(bufs) = 1
            BY <1>2, <1>8, <2>1
        <3>2. bufs[1].id = bufs[1].count
            BY <1>3, <1>4, <3>1
        <3>. QED  BY <2>1, <3>2 DEF Follows
    <2>2. CASE rest # <<>>
        <3>1. rest[1] = bufs[2] /\ 2 \in 1..Len(bufs)
            BY <1>2, <1>7, <2>2
        <3>. QED  BY <1>2, <1>3, <1>4, <2>2, <3>1 DEF Follows
    <2>. QED  BY <2>1, <2>2
<1>. QED  BY <1>2, <1>3, <1>4, <1>6, <1>9 DEF Tails, rest

LEMMA EnqueueKeeps ==
    ASSUME NEW waits \in Seq(Wholes), NEW chain, chain \in Wholes \/ chain = <<>>
    PROVE  Enqueue(waits, chain) \in Seq(Wholes)
BY EnqueueType

\* Netchan_FragSend goes on with the next chain only when there is none left.
LEMMA PromotedKeeps ==
    ASSUME NEW bufs \in Tails, NEW waits \in Seq(Wholes)
    PROVE  /\ PromotedBufs(bufs, waits) \in Tails
           /\ PromotedWaits(bufs, waits) \in Seq(Wholes)
           /\ \A id, count : Follows(bufs, id, count) =>
                                Follows(PromotedBufs(bufs, waits), id, count)
<1>1. CASE ~Promotes(bufs, waits)
    BY <1>1 DEF PromotedBufs, PromotedWaits
<1>2. CASE Promotes(bufs, waits)
    <2>1. bufs = <<>> /\ waits # <<>>
        BY <1>2 DEF Promotes
    <2>2. Head(waits) \in Wholes /\ Tail(waits) \in Seq(Wholes)
        BY <2>1, HeadTailProperties
    <2>3. Head(waits) \in Tails /\ Head(waits)[1].id = 1
        BY <2>2 DEF Wholes
    <2>4. PromotedBufs(bufs, waits) = Head(waits) /\ PromotedWaits(bufs, waits) = Tail(waits)
        BY <1>2 DEF PromotedBufs, PromotedWaits
    <2>. QED  BY <2>1, <2>2, <2>3, <2>4 DEF Follows
<1>. QED  BY <1>1, <1>2

-----------------------------------------------------------------------------
(* The client's list. *)

\* The next fragment of a chain goes to the end of the list: no buffer is
\* replaced, and there is no gap.
LEMMA StoreAppends ==
    ASSUME NEW inb \in Seq(Fragment), IsStart(inb), NEW buf \in Fragment,
           buf.id = Len(inb) + 1, buf.id <= buf.count,
           inb # <<>> => CountOf(inb) = buf.count
    PROVE  /\ Store(inb, buf) = Append(inb, buf)
           /\ Append(inb, buf) \in Seq(Fragment)
           /\ Len(Append(inb, buf)) = Len(inb) + 1
           /\ IsStart(Append(inb, buf)) /\ CountOf(Append(inb, buf)) = buf.count
           /\ Append(inb, buf) # <<>> /\ ~Gap(Append(inb, buf))
<1>. DEFINE new == Append(inb, buf)
<1>1. Len(inb) \in Nat /\ buf.id \in Nat /\ buf.count \in Nat
    BY LenProperties DEF Fragment
<1>2. \A k \in 1..Len(inb) : inb[k].id = k /\ inb[k].count = inb[1].count
    BY DEF IsStart
<1>3. {k \in 1..Len(inb) : inb[k].id = buf.id /\ inb[k].count = buf.count} = {}
    BY <1>1, <1>2
<1>4. {k \in 2..Len(inb) : inb[k].id > buf.id} = {}
    BY <1>1, <1>2
<1>5. Store(inb, buf) = new
    BY <1>3, <1>4 DEF Store, AddBufferToList
<1>6. /\ new \in Seq(Fragment) /\ Len(new) = Len(inb) + 1
      /\ \A k \in 1..Len(inb) : new[k] = inb[k]
      /\ new[Len(inb) + 1] = buf
    BY AppendProperties
<1>7. new # <<>>
    BY <1>1, <1>6, EmptySeq
<1>8. inb # <<>> => 1 \in 1..Len(inb) /\ inb[1].count = buf.count
    BY <1>1, EmptySeq DEF CountOf
<1>9. inb = <<>> => Len(inb) = 0
    BY EmptySeq
<1>. HIDE DEF new
<1>10. new[1].count = buf.count /\ CountOf(new) = buf.count
    BY <1>1, <1>6, <1>7, <1>8, <1>9 DEF CountOf
<1>11. \A k \in 1..Len(new) : new[k].id = k /\ new[k].count = buf.count
    <2>. SUFFICES ASSUME NEW k \in 1..Len(new)
                  PROVE  new[k].id = k /\ new[k].count = buf.count
        OBVIOUS
    <2>1. CASE k = Len(inb) + 1
        BY <1>6, <2>1
    <2>2. CASE k # Len(inb) + 1
        <3>1. k \in 1..Len(inb)
            BY <1>1, <1>6, <2>2
        <3>2. inb # <<>>
            BY <1>9, <3>1
        <3>. QED  BY <1>2, <1>6, <1>8, <3>1, <3>2
    <2>. QED  BY <2>1, <2>2
<1>12. IsStart(new) /\ ~Gap(new)
    BY <1>1, <1>6, <1>10, <1>11 DEF IsStart, Gap
<1>. QED  BY <1>5, <1>6, <1>7, <1>10, <1>12 DEF new

-----------------------------------------------------------------------------
(* Handing data to the channel. *)

\* What the hand-over of data to the server's channel may change.
LEMMA HandOverKeeps ==
    ASSUME ChainsInv, UNCHANGED <<seqVars, reliable_buf, reliable_frag, inVars, network,
                                  composed, accepted>>,
           Queues(NS_SERVER)',
           \A i \in Stream : \A id, count :
              Follows(fragbufs[NS_SERVER][i], id, count) =>
                  Follows(fragbufs'[NS_SERVER][i], id, count),
           fragbufs'[NS_CLIENT] = fragbufs[NS_CLIENT],
           waitlist'[NS_CLIENT] = waitlist[NS_CLIENT],
           MaxFiles = 0 => /\ fragbufs'[NS_SERVER][FRAG_FILE_STREAM] = <<>>
                           /\ waitlist'[NS_SERVER][FRAG_FILE_STREAM] = <<>>,
           MaxWritten[NS_SERVER] = 0 =>
              /\ message'[NS_SERVER] = <<>>
              /\ fragbufs'[NS_SERVER][FRAG_NORMAL_STREAM] = <<>>
              /\ waitlist'[NS_SERVER][FRAG_NORMAL_STREAM] = <<>>
    PROVE  ChainsInv'
<1>. USE DEF seqVars, inVars
<1>1. CaughtUp(NS_SERVER)' <=> CaughtUp(NS_SERVER)
    BY DEF CaughtUp
<1>2. Places(NS_SERVER)'
    BY <1>1 DEF ChainsInv, Places
<1>3. Ready(NS_SERVER)'
    BY <1>1 DEF ChainsInv, Ready
<1>4. Packets(NS_SERVER)'
    BY DEF ChainsInv, Packets
<1>5. Alone(NS_SERVER)'
    BY DEF ChainsInv, Alone
<1>6. ClientWhole' /\ NoReconnect'
    BY DEF ChainsInv, ClientWhole, NoReconnect
<1>. QED  BY <1>2, <1>3, <1>4, <1>5, <1>6 DEF ChainsInv

LEMMA WriteMessageChains ==
    ASSUME TypeOK, ChainsInv, NEW e \in Endpoint, NEW size \in WriteSizes, WriteMessage(e, size)
    PROVE  ChainsInv'
<1>1. UNCHANGED <<fragbufs, waitlist>>
    BY DEF WriteMessage
<1>2. UNCHANGED <<seqVars, reliable_buf, reliable_frag, inVars, network, composed, accepted>>
    BY DEF WriteMessage
<1>3. Queues(NS_SERVER)'
    BY <1>1 DEF ChainsInv, Queues
<1>4. MaxWritten[NS_SERVER] = 0 /\ Unmixed => message'[NS_SERVER] = <<>>
    <2>. SUFFICES ASSUME MaxWritten[NS_SERVER] = 0, Unmixed PROVE message'[NS_SERVER] = <<>>
        OBVIOUS
    <2>1. message[NS_SERVER] = <<>>
        BY DEF ChainsInv, Alone
    <2>2. written[e] \in Nat /\ size \in Nat \ {0}
        BY NetChanAssumption DEF TypeOK
    <2>3. message' = message \/ e # NS_SERVER
        <3>1. ASSUME e = NS_SERVER
              PROVE  ~(written[e] + size <= MaxWritten[e])
            BY <2>2, <3>1
        <3>. QED  BY <3>1 DEF WriteMessage
    <2>4. CASE message' = message
        BY <2>1, <2>4
    <2>5. CASE e # NS_SERVER
        <3>1. message \in [Endpoint -> Seq(DataUnit)] /\ NS_SERVER \in Endpoint
            BY PeerFacts DEF TypeOK
        <3>2. \/ message' = message
              \/ \E x : message' = [message EXCEPT ![e] = x]
            BY DEF WriteMessage
        <3>. QED  BY <2>1, <2>5, <3>1, <3>2
    <2>. QED  BY <2>3, <2>4, <2>5
<1>5. MaxWritten[NS_SERVER] = 0 => Unmixed
    BY DEF Unmixed
<1>6. MaxFiles = 0 => Unmixed
    BY DEF Unmixed
<1>. QED  BY <1>1, <1>2, <1>3, <1>4, <1>5, <1>6, HandOverKeeps DEF ChainsInv, Alone

\* The waitlist after chains were queued, and Netchan_FragSend.
LEMMA FragSendKeeps ==
    ASSUME Queues(NS_SERVER), NEW waits \in [Stream -> Seq(Wholes)], TypeOK, TypeOK',
           fragbufs' = [fragbufs EXCEPT ![NS_SERVER] =
                          [i \in Stream |-> PromotedBufs(fragbufs[NS_SERVER][i], waits[i])]],
           waitlist' = [waitlist EXCEPT ![NS_SERVER] =
                          [i \in Stream |-> PromotedWaits(fragbufs[NS_SERVER][i], waits[i])]]
    PROVE  /\ Queues(NS_SERVER)'
           /\ \A i \in Stream : \A id, count :
                 Follows(fragbufs[NS_SERVER][i], id, count) =>
                     Follows(fragbufs'[NS_SERVER][i], id, count)
           /\ fragbufs'[NS_CLIENT] = fragbufs[NS_CLIENT]
           /\ waitlist'[NS_CLIENT] = waitlist[NS_CLIENT]
           /\ \A i \in Stream : waits[i] = <<>> /\ fragbufs[NS_SERVER][i] = <<>> =>
                 fragbufs'[NS_SERVER][i] = <<>> /\ waitlist'[NS_SERVER][i] = <<>>
<1>1. \A i \in Stream : fragbufs[NS_SERVER][i] \in Tails
    BY DEF Queues
<1>2. /\ fragbufs'[NS_SERVER] = [i \in Stream |-> PromotedBufs(fragbufs[NS_SERVER][i], waits[i])]
      /\ waitlist'[NS_SERVER] = [i \in Stream |-> PromotedWaits(fragbufs[NS_SERVER][i], waits[i])]
      /\ fragbufs'[NS_CLIENT] = fragbufs[NS_CLIENT]
      /\ waitlist'[NS_CLIENT] = waitlist[NS_CLIENT]
    BY PeerFacts DEF TypeOK
<1>3. \A i \in Stream :
          /\ PromotedBufs(fragbufs[NS_SERVER][i], waits[i]) \in Tails
          /\ PromotedWaits(fragbufs[NS_SERVER][i], waits[i]) \in Seq(Wholes)
          /\ \A id, count : Follows(fragbufs[NS_SERVER][i], id, count) =>
                Follows(PromotedBufs(fragbufs[NS_SERVER][i], waits[i]), id, count)
    BY <1>1, PromotedKeeps
<1>4. Queues(NS_SERVER)'
    BY <1>2, <1>3 DEF Queues
<1>5. \A i \in Stream : waits[i] = <<>> /\ fragbufs[NS_SERVER][i] = <<>> =>
          fragbufs'[NS_SERVER][i] = <<>> /\ waitlist'[NS_SERVER][i] = <<>>
    BY <1>2 DEF PromotedBufs, PromotedWaits, Promotes
<1>6. \A i \in Stream : \A id, count :
          Follows(fragbufs[NS_SERVER][i], id, count) => Follows(fragbufs'[NS_SERVER][i], id, count)
    <2>. SUFFICES ASSUME NEW i \in Stream, NEW id, NEW count,
                         Follows(fragbufs[NS_SERVER][i], id, count)
                  PROVE  Follows(fragbufs'[NS_SERVER][i], id, count)
        OBVIOUS
    <2>1. fragbufs'[NS_SERVER][i] = PromotedBufs(fragbufs[NS_SERVER][i], waits[i])
        BY <1>2
    <2>2. Follows(PromotedBufs(fragbufs[NS_SERVER][i], waits[i]), id, count)
        BY <1>3
    <2>. QED  BY <2>1, <2>2
<1>. QED  BY <1>2, <1>4, <1>5, <1>6

LEMMA SendResourcesChains ==
    ASSUME ChunksFit, TypeOK, TypeOK', ChainsInv,
           NEW size \in ResourceSizes, SendResources(size)
    PROVE  ChainsInv'
<1>. DEFINE e == NS_SERVER
            data == Reliables(written[e] + 1, written[e] + size)
            waits == [waitlist[e] EXCEPT ![FRAG_NORMAL_STREAM] =
                        Enqueue(Enqueue(@, Chain(message[e], NormalChunk)),
                                Chain(data, NormalChunk))]
<1>1. /\ size \in Nat \ {0} /\ written[e] \in Nat /\ message[e] \in Seq(DataUnit) /\ e \in Endpoint
      /\ written[e] + 1 \in Nat /\ written[e] + 1 >= 1 /\ written[e] + size \in Nat
      /\ written[e] + size <= MaxWritten[e]
    <2>1. written[e] \in Nat /\ message[e] \in Seq(DataUnit) /\ e \in Endpoint
        BY PeerFacts DEF TypeOK
    <2>2. size \in Nat \ {0}
        BY NetChanAssumption
    <2>3. written[e] + size <= MaxWritten[e]
        BY DEF SendResources
    <2>. QED  BY <2>1, <2>2, <2>3
<1>2. waitlist[e] \in [Stream -> Seq(Wholes)] /\ Queues(e)
    BY DEF ChainsInv, Queues
<1>3. data \in Seq(DataUnit)
    BY <1>1, ReliablesType
<1>4. /\ Chain(message[e], NormalChunk) \in Wholes \/ Chain(message[e], NormalChunk) = <<>>
      /\ Chain(data, NormalChunk) \in Wholes \/ Chain(data, NormalChunk) = <<>>
    BY <1>1, <1>3, ChainIsWhole
<1>. HIDE DEF data
<1>5. Enqueue(waitlist[e][FRAG_NORMAL_STREAM], Chain(message[e], NormalChunk)) \in Seq(Wholes)
    BY <1>2, <1>4, EnqueueKeeps, StreamFacts
<1>6. Enqueue(Enqueue(waitlist[e][FRAG_NORMAL_STREAM], Chain(message[e], NormalChunk)),
              Chain(data, NormalChunk)) \in Seq(Wholes)
    BY <1>4, <1>5, EnqueueKeeps
<1>7. waits \in [Stream -> Seq(Wholes)]
    BY <1>2, <1>6
<1>8. waits[FRAG_FILE_STREAM] = waitlist[e][FRAG_FILE_STREAM]
    BY <1>2, StreamFacts
<1>9. /\ fragbufs' = [fragbufs EXCEPT ![e] =
                        [i \in Stream |-> PromotedBufs(fragbufs[e][i], waits[i])]]
      /\ waitlist' = [waitlist EXCEPT ![e] =
                        [i \in Stream |-> PromotedWaits(fragbufs[e][i], waits[i])]]
      /\ UNCHANGED <<seqVars, reliable_buf, reliable_frag, inVars, network, composed, accepted>>
    BY DEF SendResources, data
<1>. HIDE DEF waits
<1>10. MaxWritten[e] # 0
    BY <1>1
<1>11. MaxFiles = 0 => /\ fragbufs[e][FRAG_FILE_STREAM] = <<>>
                       /\ waits[FRAG_FILE_STREAM] = <<>>
    BY <1>8 DEF ChainsInv, Alone, Unmixed
<1>. QED  BY <1>2, <1>7, <1>9, <1>10, <1>11, FragSendKeeps, HandOverKeeps, StreamFacts

LEMMA SendFileChains ==
    ASSUME ChunksFit, TypeOK, TypeOK', ChainsInv, SendFile
    PROVE  ChainsInv'
<1>. DEFINE e == NS_SERVER
            waits == [waitlist[e] EXCEPT ![FRAG_FILE_STREAM] =
                        Enqueue(@, Chain(FileData(sentFiles + 1), FileChunk))]
<1>1. sentFiles + 1 \in Nat /\ e \in Endpoint /\ MaxFiles # 0
    BY NetChanAssumption, PeerFacts DEF TypeOK, SendFile
<1>2. waitlist[e] \in [Stream -> Seq(Wholes)] /\ Queues(e)
    BY DEF ChainsInv, Queues
<1>3. \/ Chain(FileData(sentFiles + 1), FileChunk) \in Wholes
      \/ Chain(FileData(sentFiles + 1), FileChunk) = <<>>
    BY <1>1, FileDataType, ChainIsWhole
<1>4. Enqueue(waitlist[e][FRAG_FILE_STREAM], Chain(FileData(sentFiles + 1), FileChunk))
         \in Seq(Wholes)
    BY <1>2, <1>3, EnqueueKeeps, StreamFacts
<1>5. waits \in [Stream -> Seq(Wholes)]
    BY <1>2, <1>4
<1>6. waits[FRAG_NORMAL_STREAM] = waitlist[e][FRAG_NORMAL_STREAM]
    BY <1>2, StreamFacts
<1>7. /\ fragbufs' = [fragbufs EXCEPT ![e] =
                        [i \in Stream |-> PromotedBufs(fragbufs[e][i], waits[i])]]
      /\ waitlist' = [waitlist EXCEPT ![e] =
                        [i \in Stream |-> PromotedWaits(fragbufs[e][i], waits[i])]]
      /\ message' = message
      /\ UNCHANGED <<seqVars, reliable_buf, reliable_frag, inVars, network, composed, accepted>>
    BY DEF SendFile
<1>. HIDE DEF waits
<1>8. MaxWritten[e] = 0 => /\ message[e] = <<>> /\ fragbufs[e][FRAG_NORMAL_STREAM] = <<>>
                           /\ waits[FRAG_NORMAL_STREAM] = <<>>
    BY <1>6 DEF ChainsInv, Alone, Unmixed
<1>. QED  BY <1>1, <1>2, <1>5, <1>7, <1>8, FragSendKeeps, HandOverKeeps, StreamFacts

-----------------------------------------------------------------------------
(* Netchan_TransmitBits on the server. *)

\* A new payload takes the first fragment of a stream, or none of it.
LEMMA ComposeStream ==
    ASSUME ChunksFit, TypeOK, Queues(NS_SERVER), Compose(NS_SERVER), NEW i \in Stream
    PROVE  /\ ActiveBufs(NS_SERVER)[i] \in Tails
           /\ \A id, count : Follows(fragbufs[NS_SERVER][i], id, count) =>
                                Follows(ActiveBufs(NS_SERVER)[i], id, count)
           /\ fragbufs'[NS_SERVER][i] \in Tails /\ waitlist'[NS_SERVER][i] \in Seq(Wholes)
           /\ Takes(NS_SERVER, i, Used(NS_SERVER, i)) =>
                 /\ ActiveBufs(NS_SERVER)[i] # <<>>
                 /\ reliable_frag'[NS_SERVER][i].id = ActiveBufs(NS_SERVER)[i][1].id
                 /\ reliable_frag'[NS_SERVER][i].count = ActiveBufs(NS_SERVER)[i][1].count
                 /\ reliable_frag'[NS_SERVER][i].start = Used(NS_SERVER, i)
                 /\ reliable_frag'[NS_SERVER][i].len = Len(ActiveBufs(NS_SERVER)[i][1].data)
                 /\ fragbufs'[NS_SERVER][i] = Tail(ActiveBufs(NS_SERVER)[i])
           /\ ~Takes(NS_SERVER, i, Used(NS_SERVER, i)) =>
                 /\ reliable_frag'[NS_SERVER][i] = NoHeader
                 /\ fragbufs'[NS_SERVER][i] = ActiveBufs(NS_SERVER)[i]
<1>. DEFINE e == NS_SERVER
            active == ActiveBufs(e)[i]
            waits == ActiveWaits(e)[i]
<1>1. /\ active = PromotedBufs(fragbufs[e][i], waitlist[e][i])
      /\ waits = PromotedWaits(fragbufs[e][i], waitlist[e][i])
    BY DEF ActiveBufs, ActiveWaits
<1>2. fragbufs[e][i] \in Tails /\ waitlist[e][i] \in Seq(Wholes)
    BY DEF Queues
<1>3. /\ active \in Tails /\ waits \in Seq(Wholes)
      /\ \A id, count : Follows(fragbufs[e][i], id, count) => Follows(active, id, count)
    BY <1>1, <1>2, PromotedKeeps
<1>. HIDE DEF active, waits
<1>4. /\ fragbufs'[e][i] = IF Takes(e, i, Used(e, i)) THEN Tail(active) ELSE active
      /\ waitlist'[e][i] = IF i = FRAG_NORMAL_STREAM /\ Requeues(e)
                           THEN Enqueue(waits, Chain(message[e], NormalChunk)) ELSE waits
      /\ reliable_frag'[e][i] = HeaderOf(e, i, Used(e, i))
    BY PeerFacts DEF Compose, TypeOK, active, waits
<1>5. \/ Chain(message[e], NormalChunk) \in Wholes
      \/ Chain(message[e], NormalChunk) = <<>>
    BY ChainIsWhole, PeerFacts DEF TypeOK
<1>6. waitlist'[e][i] \in Seq(Wholes)
    BY <1>3, <1>4, <1>5, EnqueueKeeps
<1>7. Takes(e, i, Used(e, i)) => active # <<>>
    BY DEF Takes, active
<1>8. active # <<>> => Tail(active) \in Tails /\ Head(active) = active[1]
    BY <1>3, TailFollows
<1>9. Takes(e, i, Used(e, i)) =>
          /\ reliable_frag'[e][i].id = active[1].id
          /\ reliable_frag'[e][i].count = active[1].count
          /\ reliable_frag'[e][i].start = Used(e, i)
          /\ reliable_frag'[e][i].len = Len(active[1].data)
    BY <1>4, <1>7, <1>8 DEF HeaderOf, active
<1>10. ~Takes(e, i, Used(e, i)) => reliable_frag'[e][i] = NoHeader
    BY <1>4 DEF HeaderOf
<1>. QED  BY <1>3, <1>4, <1>6, <1>7, <1>8, <1>9, <1>10 DEF active

\* If the client has everything, and its list is not complete, what is sent
\* next is what the list lacks.
LEMMA ComposePlaces ==
    ASSUME ChunksFit, TypeOK, ChainsInv, Compose(NS_SERVER), NEW i \in Stream,
           CaughtUp(NS_SERVER), ~incomingready[NS_CLIENT][i],
           reliable_frag'[NS_SERVER][i] \in Header
    PROVE  LET inb == incomingbufs[NS_CLIENT][i]
               h   == reliable_frag'[NS_SERVER][i]
           IN  /\ h.id = 0 => Follows(fragbufs'[NS_SERVER][i], Len(inb), CountOf(inb))
               /\ h.id # 0 => /\ h.id = Len(inb) + 1 /\ h.id <= h.count
                              /\ inb # <<>> => CountOf(inb) = h.count
                              /\ Follows(fragbufs'[NS_SERVER][i], h.id, h.count)
<1>. DEFINE e == NS_SERVER
            inb == incomingbufs[NS_CLIENT][i]
            h == reliable_frag'[e][i]
            active == ActiveBufs(e)[i]
<1>1. /\ IsStart(inb)
      /\ ~(inb # <<>> /\ Len(inb) = CountOf(inb))
      /\ Follows(fragbufs[e][i], Len(inb), CountOf(inb))
    BY PeerFacts DEF ChainsInv, Places
<1>2. Len(inb) \in Nat /\ (inb = <<>> => Len(inb) = 0 /\ CountOf(inb) = 0)
    BY LenProperties, EmptySeq, PeerFacts DEF TypeOK, CountOf
<1>3. Follows(active, Len(inb), CountOf(inb)) /\ active \in Tails
    BY <1>1, ComposeStream DEF ChainsInv
<1>. HIDE DEF active, inb
<1>4. CASE Takes(e, i, Used(e, i))
    <2>1. /\ active # <<>> /\ h.id = active[1].id /\ h.count = active[1].count
          /\ fragbufs'[e][i] = Tail(active)
        BY <1>4, ComposeStream DEF ChainsInv, active
    <2>2. /\ active[1].id \in 1..active[1].count /\ active[1].count \in Nat
          /\ Follows(Tail(active), active[1].id, active[1].count)
        BY <1>3, <2>1, TailFollows
    <2>3. h.id = Len(inb) + 1 /\ (inb # <<>> => CountOf(inb) = h.count)
        BY <1>1, <1>2, <1>3, <2>1 DEF Follows
    <2>. QED  BY <2>1, <2>2, <2>3 DEF inb
<1>5. CASE ~Takes(e, i, Used(e, i))
    <2>1. h = NoHeader /\ fragbufs'[e][i] = active
        BY <1>5, ComposeStream DEF ChainsInv, active
    <2>. QED  BY <1>3, <2>1 DEF NoHeader, inb
<1>. QED  BY <1>4, <1>5

\* Where regular data and files do not meet, nothing is in front of a fragment.
LEMMA ComposeAlone ==
    ASSUME ChunksFit, TypeOK, TypeOK', ChainsInv, Compose(NS_SERVER), Unmixed
    PROVE  Alone(NS_SERVER)'
<1>. DEFINE e == NS_SERVER
            N == FRAG_NORMAL_STREAM
            F == FRAG_FILE_STREAM
            none(i) == fragbufs[e][i] = <<>> /\ waitlist[e][i] = <<>>
            active(i) == ActiveBufs(e)[i]
            piece(i) == Piece(e, i, Used(e, i))
            h(i) == reliable_frag'[e][i]
<1>1. /\ e \in Endpoint /\ N \in Stream /\ F \in Stream /\ N # F
      /\ \A i \in Stream : i = N \/ i = F
    BY PeerFacts, StreamFacts
<1>2. /\ MaxFiles = 0 => none(F)
      /\ MaxWritten[e] = 0 => message[e] = <<>> /\ none(N)
    BY DEF ChainsInv, Alone
<1>3. ASSUME NEW i \in Stream, none(i)
      PROVE  active(i) = <<>> /\ ActiveWaits(e)[i] = <<>> /\ ~Takes(e, i, Used(e, i))
    BY <1>3 DEF ActiveBufs, ActiveWaits, PromotedBufs, PromotedWaits, Promotes, Takes
<1>4. /\ Regular(e) \in Seq(DataUnit) /\ Len(Regular(e)) \in Nat
      /\ Used(e, N) = Len(Regular(e)) + 0
      /\ Used(e, F) = Len(Regular(e)) + Len(Piece(e, N, Len(Regular(e))))
    BY <1>1, UsedType, LenProperties DEF Used
<1>5. Used(e, N) = Len(Regular(e)) /\ Used(e, N) \in Nat /\ Used(e, F) \in Nat
    BY <1>1, <1>4, UsedType
<1>6. piece(N) \in Seq(DataUnit) /\ piece(F) \in Seq(DataUnit)
    BY <1>1, <1>5, PieceType
<1>7. reliable_buf'[e] = Regular(e) \o piece(N) \o piece(F)
    BY <1>1 DEF Compose, TypeOK
<1>8. ASSUME NEW i \in Stream, Takes(e, i, Used(e, i))
      PROVE  /\ h(i).start = Used(e, i) /\ h(i).len = Len(piece(i)) /\ active(i) # <<>>
    <2>1. /\ active(i) # <<>> /\ active(i) \in Tails
          /\ h(i).start = Used(e, i) /\ h(i).len = Len(active(i)[1].data)
        BY <1>8, ComposeStream DEF ChainsInv
    <2>2. Head(active(i)) = active(i)[1]
        BY <2>1, TailFollows
    <2>3. piece(i) = Head(active(i)).data
        BY <1>8 DEF Piece
    <2>. QED  BY <2>1, <2>2, <2>3
<1>9. ASSUME NEW i \in Stream, ~Takes(e, i, Used(e, i))
      PROVE  h(i) = NoHeader /\ h(i).id = 0 /\ piece(i) = <<>> /\ fragbufs'[e][i] = active(i)
    BY <1>9, ComposeStream DEF ChainsInv, Piece, NoHeader
<1>10. waitlist'[e][F] = ActiveWaits(e)[F]
    BY <1>1 DEF Compose, TypeOK
<1>11. message[e] = <<>> => /\ message'[e] = <<>> /\ Regular(e) = <<>>
                            /\ waitlist'[e][N] = ActiveWaits(e)[N]
    BY <1>1 DEF Compose, TypeOK, Stalled, Requeues, Regular
<1>12. \A s \in Seq(DataUnit) : <<>> \o s = s /\ s \o <<>> = s
    BY ConcatProperties, EmptySeq
<1>13. \A i \in Stream : h(i).id # 0 => Takes(e, i, Used(e, i))
    BY <1>9
<1>14. Len(<<>>) = 0
    BY EmptySeq
<1>15. CASE MaxFiles = 0
    <2>1. /\ fragbufs'[e][F] = <<>> /\ waitlist'[e][F] = <<>> /\ h(F).id = 0 /\ h(F) = NoHeader /\ piece(F) = <<>>
        BY <1>1, <1>2, <1>3, <1>9, <1>10, <1>15
    <2>2. ASSUME NEW i \in Stream, h(i).id # 0
          PROVE  h(i).start = 0 /\ h(i).len = Len(reliable_buf'[e]) /\ h(Other(i)) = NoHeader
        <3>1. i = N /\ Other(i) = F /\ Takes(e, N, Used(e, N))
            BY <1>1, <1>13, <2>1, <2>2 DEF Other
        <3>2. h(N).start = Used(e, N) /\ h(N).len = Len(piece(N)) /\ active(N) # <<>>
            BY <1>1, <1>8, <3>1
        <3>3. Regular(e) = <<>>
            BY <1>11, <3>2 DEF Regular, Stalled
        <3>4. reliable_buf'[e] = piece(N)
            BY <1>6, <1>7, <1>12, <2>1, <3>3
        <3>. QED  BY <1>5, <1>14, <2>1, <3>1, <3>2, <3>3, <3>4
    <2>3. MaxWritten[e] = 0 => /\ message'[e] = <<>> /\ fragbufs'[e][N] = <<>>
                               /\ waitlist'[e][N] = <<>>
        BY <1>1, <1>2, <1>3, <1>9, <1>11
    <2>. QED  BY <2>1, <2>2, <2>3 DEF Alone
<1>16. CASE MaxFiles # 0 /\ MaxWritten[e] = 0
    <2>1. /\ message'[e] = <<>> /\ Regular(e) = <<>> /\ fragbufs'[e][N] = <<>>
          /\ waitlist'[e][N] = <<>> /\ h(N).id = 0 /\ h(N) = NoHeader /\ piece(N) = <<>>
        BY <1>1, <1>2, <1>3, <1>9, <1>11, <1>16
    <2>2. ASSUME NEW i \in Stream, h(i).id # 0
          PROVE  h(i).start = 0 /\ h(i).len = Len(reliable_buf'[e]) /\ h(Other(i)) = NoHeader
        <3>1. i = F /\ Other(i) = N /\ Takes(e, F, Used(e, F))
            BY <1>1, <1>13, <2>1, <2>2 DEF Other
        <3>2. h(F).start = Used(e, F) /\ h(F).len = Len(piece(F))
            BY <1>1, <1>8, <3>1
        <3>3. reliable_buf'[e] = piece(F)
            BY <1>6, <1>7, <1>12, <2>1
        <3>4. Piece(e, N, Len(Regular(e))) = <<>>
            BY <1>5, <2>1
        <3>5. Used(e, F) = 0
            BY <1>4, <1>14, <2>1, <3>4
        <3>. QED  BY <2>1, <3>1, <3>2, <3>3, <3>5
    <2>. QED  BY <1>16, <2>1, <2>2 DEF Alone
<1>. QED  BY <1>15, <1>16 DEF Unmixed

\* What the packet handed to the network contains.
LEMMA PacketSent ==
    ASSUME NEW e \in Endpoint, NEW datagram \in Datagrams, TransmitBits(e, datagram)
    PROVE  \E p : /\ Sends(e, p)
                  /\ ~p.reliable => p.frag = [i \in Stream |-> NoHeader] /\ p.body = datagram
                  /\ p.reliable => /\ p.frag = reliable_frag'[e]
                                   /\ p.body = reliable_buf'[e] \o datagram
                  /\ p.reliable <=> \/ reliable_buf[e] = <<>> /\ HasReliable(e)
                                    \/ NeedsResend(e)
<1>. DEFINE pkt(rel) ==
        [from |-> e, seq |-> outgoing_sequence[e], ack |-> incoming_sequence[e],
         reliable |-> rel, relack |-> incoming_reliable_sequence[e],
         frag |-> IF rel THEN reliable_frag'[e] ELSE [i \in Stream |-> NoHeader],
         body |-> IF rel THEN reliable_buf'[e] \o datagram ELSE datagram,
         batch |-> IF rel THEN composed'[e] ELSE 0]
<1>1. PICK rel \in BOOLEAN :
          /\ SendPacket(e, datagram, rel)
          /\ rel <=> \/ reliable_buf[e] = <<>> /\ HasReliable(e)
                     \/ NeedsResend(e)
    <2>1. CASE TransmitNew(e, datagram)
        <3>1. HasReliable(e) \/ NeedsResend(e) \in BOOLEAN
            BY DEF HasReliable, NeedsResend
        <3>. QED  BY <2>1, <3>1 DEF TransmitNew
    <2>2. CASE TransmitAgain(e, datagram)
        <3>1. NeedsResend(e) \in BOOLEAN
            BY DEF NeedsResend
        <3>. QED  BY <2>2, <3>1 DEF TransmitAgain
    <2>. QED  BY <2>1, <2>2 DEF TransmitBits
<1>2. /\ Sends(e, pkt(rel)) /\ pkt(rel).reliable = rel
      /\ pkt(rel).frag = IF rel THEN reliable_frag'[e] ELSE [i \in Stream |-> NoHeader]
      /\ pkt(rel).body = IF rel THEN reliable_buf'[e] \o datagram ELSE datagram
    BY <1>1 DEF SendPacket, Sends, TransmitBits
<1>. HIDE DEF pkt
<1>. QED  BY <1>1, <1>2

LEMMA ServerTransmits ==
    ASSUME ChunksFit, TypeOK, TypeOK', FragmentsFit, IInv, ChainsInv,
           NEW datagram \in Datagrams, TransmitBits(NS_SERVER, datagram), UNCHANGED frame
    PROVE  ChainsInv'
<1>. DEFINE e == NS_SERVER
<1>1. e \in Endpoint /\ Peer(e) = NS_CLIENT /\ NS_CLIENT \in Endpoint /\ e # NS_CLIENT
    BY PeerFacts
<1>2. PICK p : /\ Sends(e, p)
               /\ ~p.reliable => p.frag = [i \in Stream |-> NoHeader] /\ p.body = datagram
               /\ p.reliable => /\ p.frag = reliable_frag'[e]
                                /\ p.body = reliable_buf'[e] \o datagram
               /\ p.reliable <=> \/ reliable_buf[e] = <<>> /\ HasReliable(e)
                                 \/ NeedsResend(e)
    BY <1>1, PacketSent
<1>3. /\ network' = network \cup {p} /\ p.from = e /\ UNCHANGED <<incoming_sequence, accepted>>
      /\ UNCHANGED <<incomingbufs, incomingready, reconnect, frame>>
    BY <1>2 DEF Sends, TransmitBits
<1>4. ChannelInv(e)
    BY <1>1 DEF IInv
<1>5. CASE TransmitAgain(e, datagram)
    <2>1. UNCHANGED <<message, reliable_buf, reliable_frag, waitlist, fragbufs,
                      reliable_sequence, composed>>
        BY <1>5 DEF TransmitAgain
    <2>2. CaughtUp(e)' <=> CaughtUp(e)
        BY <1>3, <2>1 DEF CaughtUp
    <2>3. Queues(e)' /\ Places(e)' /\ Alone(e)'
        BY <1>3, <2>1, <2>2 DEF ChainsInv, Queues, Places, Alone
    <2>4. Ready(e)'
        BY <1>1, <1>3, <2>1, <2>2 DEF ChainsInv, Ready
    <2>5. Packets(e)'
        BY <1>1, <1>2, <1>3, <2>1 DEF ChainsInv, Packets
    <2>6. ClientWhole' /\ NoReconnect'
        BY <1>1, <1>3, <2>1 DEF ChainsInv, ClientWhole, NoReconnect
    <2>. QED  BY <2>3, <2>4, <2>5, <2>6 DEF ChainsInv
<1>6. CASE TransmitNew(e, datagram)
    <2>1. reliable_buf[e] = <<>> /\ Compose(e)
        BY <1>6 DEF TransmitNew
    <2>2. /\ CaughtUp(e) /\ ~NeedsResend(e) /\ (p.reliable <=> HasReliable(e))
        BY <1>2, <1>4, <2>1 DEF ChannelInv, Acks, NeedsResend
    <2>3. \A i \in Stream : ~incomingready[NS_CLIENT][i]
        BY <1>1, <2>1 DEF ChainsInv, Ready
    <2>4. \A i \in Stream : reliable_frag'[e][i] \in Header
        BY <1>1 DEF TypeOK
    <2>5. /\ composed'[e] = IF HasReliable(e) THEN composed[e] + 1 ELSE composed[e]
          /\ composed[e] \in Nat
        BY <1>1, <2>1 DEF Compose, TypeOK
    <2>6. CaughtUp(e)' <=> ~HasReliable(e)
        BY <1>1, <1>3, <2>2, <2>5 DEF CaughtUp
    <2>7. ASSUME NEW i \in Stream, ~HasReliable(e)
          PROVE  reliable_frag'[e][i].id = 0
        <3>1. ~Takes(e, i, Used(e, i))
            BY <2>7 DEF HasReliable, Takes
        <3>. QED  BY <2>1, <3>1, ComposeStream DEF ChainsInv, NoHeader
    <2>8. Queues(e)'
        <3>1. fragbufs'[e] \in [Stream -> Seq(DataFragment)] /\ waitlist'[e] \in [Stream -> Seq(Seq(DataFragment))]
            BY <1>1 DEF TypeOK
        <3>2. \A i \in Stream : fragbufs'[e][i] \in Tails /\ waitlist'[e][i] \in Seq(Wholes)
            BY <2>1, ComposeStream DEF ChainsInv
        <3>. QED  BY <3>1, <3>2 DEF Queues
    <2>9. Places(e)'
        <3>. SUFFICES ASSUME NEW i \in Stream
             PROVE  LET inb == incomingbufs[Peer(e)][i]
                        h   == reliable_frag'[e][i]
                    IN  /\ IsStart(inb)
                        /\ incomingready[Peer(e)][i] <=> inb # <<>> /\ Len(inb) = CountOf(inb)
                        /\ CaughtUp(e)' \/ h.id = 0 => Follows(fragbufs'[e][i], Len(inb), CountOf(inb))
                        /\ ~CaughtUp(e)' /\ h.id # 0 =>
                              /\ h.id = Len(inb) + 1 /\ h.id <= h.count
                              /\ inb # <<>> => CountOf(inb) = h.count
                              /\ Follows(fragbufs'[e][i], h.id, h.count)
            BY <1>3 DEF Places
        <3>1. /\ IsStart(incomingbufs[Peer(e)][i])
              /\ incomingready[Peer(e)][i] <=> /\ incomingbufs[Peer(e)][i] # <<>>
                                               /\ Len(incomingbufs[Peer(e)][i]) = CountOf(incomingbufs[Peer(e)][i])
            BY DEF ChainsInv, Places
        <3>. QED  BY <1>1, <2>1, <2>2, <2>3, <2>4, <2>6, <2>7, <3>1, ComposePlaces
    <2>10. Ready(e)'
        BY <1>1, <1>3, <2>3 DEF Ready
    <2>11. Packets(e)'
        <3>1. \A q \in network : q.from = e /\ q.reliable => ~(q.seq > incoming_sequence[Peer(e)])
            BY <1>4, <2>2 DEF ChannelInv, Payloads
        <3>. QED  BY <1>1, <1>2, <1>3, <3>1 DEF ChainsInv, Packets
    <2>12. Alone(e)'
        BY <2>1, ComposeAlone DEF Alone
    <2>13. /\ fragbufs'[NS_CLIENT] = fragbufs[NS_CLIENT]
           /\ waitlist'[NS_CLIENT] = waitlist[NS_CLIENT]
           /\ reliable_frag'[NS_CLIENT] = reliable_frag[NS_CLIENT]
        BY <1>1, <2>1 DEF Compose, TypeOK
    <2>14. ClientWhole' /\ NoReconnect'
        BY <1>1, <1>3, <2>13 DEF ChainsInv, ClientWhole, NoReconnect
    <2>. QED  BY <2>8, <2>9, <2>10, <2>11, <2>12, <2>14 DEF ChainsInv
<1>. QED  BY <1>5, <1>6 DEF TransmitBits

-----------------------------------------------------------------------------
(* The client sends, and the server reads. *)

\* While a chain is complete, the client is in its loop.
LEMMA NothingReady ==
    ASSUME ChainsInv, \/ frame \in {"copy", "send"}
                      \/ ParseTransmits /\ frame \in {"parse", "copy"}
    PROVE  \A i \in Stream : ~incomingready[NS_CLIENT][i]
BY PeerFacts DEF ChainsInv, Ready

LEMMA ClientTransmits ==
    ASSUME ChunksFit, TypeOK, TypeOK', ChainsInv,
           NEW datagram \in Datagrams, TransmitBits(NS_CLIENT, datagram),
           \A i \in Stream : ~incomingready[NS_CLIENT][i]
    PROVE  ChainsInv'
<1>. DEFINE c == NS_CLIENT
            s == NS_SERVER
<1>1. /\ c \in Endpoint /\ s \in Endpoint /\ c # s /\ Peer(s) = c
      /\ FRAG_NORMAL_STREAM \in Stream
    BY PeerFacts, StreamFacts
<1>2. PICK p : /\ Sends(c, p)
               /\ ~p.reliable => p.frag = [i \in Stream |-> NoHeader] /\ p.body = datagram
               /\ p.reliable => /\ p.frag = reliable_frag'[c]
                                /\ p.body = reliable_buf'[c] \o datagram
    BY <1>1, PacketSent
<1>3. /\ network' = network \cup {p} /\ p.from = c /\ UNCHANGED <<incoming_sequence, accepted>>
      /\ UNCHANGED <<incomingbufs, incomingready, reconnect>>
    BY <1>2 DEF Sends, TransmitBits
<1>4. /\ message'[s] = message[s] /\ reliable_buf'[s] = reliable_buf[s]
      /\ reliable_frag'[s] = reliable_frag[s] /\ waitlist'[s] = waitlist[s]
      /\ fragbufs'[s] = fragbufs[s] /\ composed'[s] = composed[s]
      /\ reliable_sequence'[s] = reliable_sequence[s]
    <2>1. CASE TransmitAgain(c, datagram)
        BY <2>1 DEF TransmitAgain
    <2>2. CASE TransmitNew(c, datagram)
        BY <1>1, <2>2 DEF TransmitNew, Compose, TypeOK
    <2>. QED  BY <2>1, <2>2 DEF TransmitBits
<1>5. \A i \in Stream : /\ fragbufs[c][i] = <<>> /\ waitlist[c][i] = <<>>
                        /\ reliable_frag[c][i] = NoHeader
    BY DEF ChainsInv, ClientWhole
<1>6. \A i \in Stream : /\ fragbufs'[c][i] = <<>> /\ waitlist'[c][i] = <<>>
                        /\ reliable_frag'[c][i] = NoHeader
    <2>1. CASE TransmitAgain(c, datagram)
        BY <1>5, <2>1 DEF TransmitAgain
    <2>2. CASE TransmitNew(c, datagram)
        <3>1. \A i \in Stream : ActiveBufs(c)[i] = <<>> /\ ActiveWaits(c)[i] = <<>>
            BY <1>5 DEF ActiveBufs, ActiveWaits, PromotedBufs, PromotedWaits, Promotes
        <3>2. ~Requeues(c) /\ \A i \in Stream : ~Takes(c, i, Used(c, i))
            BY <1>1, <3>1 DEF Requeues, Stalled, Takes
        <3>3. \A i \in Stream : HeaderOf(c, i, Used(c, i)) = NoHeader
            BY <3>2 DEF HeaderOf
        <3>4. /\ reliable_frag'[c] = [i \in Stream |-> HeaderOf(c, i, Used(c, i))]
              /\ fragbufs'[c] = [i \in Stream |-> IF Takes(c, i, Used(c, i))
                                                  THEN Tail(ActiveBufs(c)[i])
                                                  ELSE ActiveBufs(c)[i]]
              /\ waitlist'[c] = [i \in Stream |->
                                    IF i = FRAG_NORMAL_STREAM /\ Requeues(c)
                                    THEN Enqueue(ActiveWaits(c)[i], Chain(message[c], NormalChunk))
                                    ELSE ActiveWaits(c)[i]]
            BY <1>1, <2>2 DEF TransmitNew, Compose, TypeOK
        <3>. QED  BY <3>1, <3>2, <3>3, <3>4
    <2>. QED  BY <2>1, <2>2 DEF TransmitBits
<1>7. \A i \in Stream : p.frag[i] = NoHeader
    BY <1>2, <1>6 DEF Sends
<1>8. ClientWhole' /\ NoReconnect'
    BY <1>1, <1>3, <1>6, <1>7 DEF ChainsInv, ClientWhole, NoReconnect
<1>9. CaughtUp(s)' <=> CaughtUp(s)
    BY <1>3, <1>4 DEF CaughtUp
<1>10. Queues(s)' /\ Places(s)' /\ Alone(s)'
    BY <1>3, <1>4, <1>9 DEF ChainsInv, Queues, Places, Alone
<1>11. Ready(s)'
    BY <1>1, <1>3 DEF Ready
<1>12. Packets(s)'
    BY <1>1, <1>3, <1>4 DEF ChainsInv, Packets
<1>. QED  BY <1>8, <1>10, <1>11, <1>12 DEF ChainsInv

LEMMA HoldBackChains ==
    ASSUME TypeOK, ChainsInv, HoldBack
    PROVE  ChainsInv'
<1>1. \A i \in Stream : ~incomingready[NS_CLIENT][i]
    BY NothingReady DEF HoldBack
<1>2. /\ UNCHANGED <<incoming_sequence, reliable_sequence, sendVars, incomingbufs, incomingready,
                     reconnect, network, histVars>>
    BY DEF HoldBack
<1>. USE DEF sendVars, histVars
<1>3. CaughtUp(NS_SERVER)' <=> CaughtUp(NS_SERVER)
    BY <1>2 DEF CaughtUp
<1>4. Queues(NS_SERVER)' /\ Places(NS_SERVER)' /\ Alone(NS_SERVER)' /\ Packets(NS_SERVER)'
    BY <1>2, <1>3 DEF ChainsInv, Queues, Places, Alone, Packets
<1>5. Ready(NS_SERVER)'
    BY <1>1, <1>2, PeerFacts DEF Ready
<1>6. ClientWhole' /\ NoReconnect'
    BY <1>2 DEF ChainsInv, ClientWhole, NoReconnect
<1>. QED  BY <1>4, <1>5, <1>6 DEF ChainsInv

LEMMA ServerProcessChains ==
    ASSUME TypeOK, IInv, ChainsInv, NEW p \in network, ServerProcess(p)
    PROVE  ChainsInv'
<1>. DEFINE s == NS_SERVER
<1>1. /\ s \in Endpoint /\ NS_CLIENT \in Endpoint /\ Peer(s) = NS_CLIENT /\ s # NS_CLIENT
    BY PeerFacts
<1>2. /\ p.from = NS_CLIENT /\ p.seq > incoming_sequence[s] /\ AcceptPacket(s, p)
      /\ UNCHANGED <<message, reliable_frag, waitlist, fragbufs, frame, reconnect, network,
                     composed, reliable_sequence>>
    BY <1>1 DEF ServerProcess, Fresh
<1>3. /\ incoming_sequence'[s] = p.seq
      /\ incoming_sequence'[NS_CLIENT] = incoming_sequence[NS_CLIENT]
      /\ accepted'[NS_CLIENT] = accepted[NS_CLIENT]
      /\ reliable_buf'[s] = IF Acknowledges(s, p) THEN <<>> ELSE reliable_buf[s]
    BY <1>1, <1>2 DEF AcceptPacket, TypeOK
<1>4. /\ \A q \in network : q.seq \in Nat /\ incoming_sequence[s] \in Nat
      /\ ChannelInv(s)
    BY <1>1, ProtocolTypes DEF IInv
<1>5. \A i \in Stream : p.frag[i] = NoHeader /\ incomingbufs[s][i] = <<>>
    BY <1>2 DEF ChainsInv, ClientWhole
<1>6. \A i \in Stream : BufsAfter(s, p, i) = <<>>
    BY <1>5 DEF BufsAfter, NoHeader
<1>7. /\ \A i \in Stream : incomingbufs'[s][i] = <<>> /\ ~incomingready'[s][i]
      /\ incomingbufs'[NS_CLIENT] = incomingbufs[NS_CLIENT]
      /\ incomingready'[NS_CLIENT] = incomingready[NS_CLIENT]
    BY <1>1, <1>6 DEF ServerProcess, TypeOK
<1>8. CaughtUp(s)' <=> CaughtUp(s)
    BY <1>1, <1>2, <1>3 DEF CaughtUp
<1>9. Acknowledges(s, p) => p.relack = reliable_sequence[s] /\ CaughtUp(s)
    BY <1>1, <1>2, <1>4 DEF Acknowledges, ChannelInv, Acks
<1>10. Queues(s)' /\ Places(s)' /\ Alone(s)'
    BY <1>1, <1>2, <1>3, <1>7, <1>8 DEF ChainsInv, Queues, Places, Alone
<1>11. Ready(s)'
    BY <1>1, <1>2, <1>3, <1>4, <1>7, <1>8, <1>9 DEF ChainsInv, Ready
<1>12. CaughtUp(s) => \A q \in network :
          q.from = s /\ q.reliable => ~(q.seq > incoming_sequence[Peer(s)])
    BY <1>4 DEF ChannelInv, Payloads
<1>13. Packets(s)'
    BY SMTT(30), <1>1, <1>2, <1>3, <1>9, <1>12 DEF ChainsInv, Packets
<1>14. ClientWhole' /\ NoReconnect'
    BY <1>1, <1>2, <1>7 DEF ChainsInv, ClientWhole, NoReconnect
<1>. QED  BY <1>10, <1>11, <1>13, <1>14 DEF ChainsInv

-----------------------------------------------------------------------------
(* The client reads. *)

\* What the parser sees of a message ends where the first unit of a datagram is.
LEMMA ParsedPrefix ==
    ASSUME NEW body \in Seq(Unit)
    PROVE  \E n \in 0..Len(body) :
              /\ Parsed(body) = SubSeq(body, 1, n)
              /\ \A k \in 1..n : body[k].kind # "datagram"
              /\ n < Len(body) => body[n + 1].kind = "datagram"
<1>. DEFINE len == Len(body)
            P(n) == /\ \A k \in 1..n : body[k].kind # "datagram"
                    /\ n < len => body[n + 1].kind = "datagram"
            S == {k \in 1..len : body[k].kind = "datagram"}
<1>1. len \in Nat
    BY LenProperties
<1>2. \E n \in 0..len : P(n)
    <2>1. CASE S = {}
        <3>1. len \in 0..len /\ P(len)
            BY <1>1, <2>1
        <3>. QED  BY <3>1
    <2>2. CASE S # {}
        <3>1. S \in SUBSET Nat
            BY <1>1
        <3>2. PICK x \in S : \A y \in S : x <= y
            BY <2>2, <3>1, SmallestExists
        <3>3. x \in 1..len /\ body[x].kind = "datagram" /\ x - 1 \in 0..len /\ (x - 1) + 1 = x
            BY <1>1
        <3>4. \A k \in 1..(x - 1) : k \in 1..len /\ ~(x <= k)
            BY <1>1, <3>3
        <3>5. P(x - 1)
            BY <3>2, <3>3, <3>4
        <3>. QED  BY <3>3, <3>5
    <2>. QED  BY <2>1, <2>2
<1>3. Parsed(body) = SubSeq(body, 1, CHOOSE n \in 0..len : P(n))
    BY DEF Parsed
<1>. HIDE DEF P
<1>4. (CHOOSE n \in 0..len : P(n)) \in 0..len /\ P(CHOOSE n \in 0..len : P(n))
    BY <1>2
<1>. QED  BY <1>3, <1>4 DEF P

\* The model's parser sees the reliable data and nothing of the datagram behind it.
LEMMA ParsedData ==
    ASSUME NEW data \in Seq(DataUnit), NEW datagram \in Seq(DatagramUnit)
    PROVE  Parsed(data \o datagram) = data
<1>. DEFINE body == data \o datagram
<1>1. DatagramUnit \subseteq Unit /\ DataUnit \subseteq Unit
    BY DEF DatagramUnit, DataUnit
<1>2. data \in Seq(Unit) /\ datagram \in Seq(Unit)
    BY <1>1, SeqMonotonic
<1>3. Len(data) \in Nat /\ Len(datagram) \in Nat
    BY LenProperties
<1>4. /\ body \in Seq(Unit) /\ Len(body) = Len(data) + Len(datagram)
      /\ \A k \in 1..Len(body) : body[k] = IF k <= Len(data) THEN data[k]
                                                          ELSE datagram[k - Len(data)]
    BY <1>2, ConcatProperties
<1>5. /\ \A k \in 1..Len(data) : data[k].kind # "datagram"
      /\ \A k \in 1..Len(datagram) : datagram[k].kind = "datagram"
    BY ElementOfSeq DEF DatagramUnit, DataUnit
<1>. HIDE DEF body
<1>6. PICK n \in 0..Len(body) :
          /\ Parsed(body) = SubSeq(body, 1, n)
          /\ \A k \in 1..n : body[k].kind # "datagram"
          /\ n < Len(body) => body[n + 1].kind = "datagram"
    BY <1>4, ParsedPrefix
<1>7. n = Len(data)
    <2>1. ~(n < Len(data))
        <3>. SUFFICES ASSUME n < Len(data) PROVE FALSE
            OBVIOUS
        <3>1. n + 1 \in 1..Len(data) /\ n + 1 \in 1..Len(body) /\ n < Len(body) /\ n + 1 <= Len(data)
            BY <1>3, <1>4
        <3>. QED  BY <1>4, <1>5, <1>6, <3>1
    <2>2. ~(n > Len(data))
        <3>. SUFFICES ASSUME n > Len(data) PROVE FALSE
            OBVIOUS
        <3>1. /\ Len(data) + 1 \in 1..n /\ Len(data) + 1 \in 1..Len(body)
              /\ (Len(data) + 1) - Len(data) = 1 /\ 1 \in 1..Len(datagram)
              /\ ~(Len(data) + 1 <= Len(data))
            BY <1>3, <1>4
        <3>. QED  BY <1>4, <1>5, <1>6, <3>1
    <2>. QED  BY <1>3, <1>4, <2>1, <2>2
<1>8. SubSeq(body, 1, Len(data)) = data
    <2>1. data = [k \in 1..Len(data) |-> data[k]]
        BY <1>3, LenProperties
    <2>2. SubSeq(body, 1, Len(data)) = [k \in 1..Len(data) |-> body[k]]
        BY <1>3, <1>4
    <2>3. \A k \in 1..Len(data) : body[k] = data[k]
        BY <1>3, <1>4
    <2>. QED  BY <2>1, <2>2, <2>3
<1>. QED  BY <1>6, <1>7, <1>8 DEF body

LEMMA ParsedDatagram ==
    ASSUME NEW datagram \in Seq(DatagramUnit)
    PROVE  Parsed(datagram) = <<>>
<1>1. <<>> \in Seq(DataUnit) /\ <<>> \o datagram = datagram
    BY EmptySeq, ConcatProperties
<1>. QED  BY <1>1, ParsedData

\* Taking all of the payload out of a message leaves the datagram, or less.
LEMMA RemainderOfDatagram ==
    ASSUME NEW payload \in Seq(Unit), NEW datagram \in Seq(DatagramUnit)
    PROVE  Remainder(payload \o datagram, 0, Len(payload)) \in Seq(DatagramUnit)
<1>. DEFINE body == payload \o datagram
            len == Len(payload)
            rest == SubSeq(body, Least(len, Len(body)) + 1, Len(body))
<1>1. datagram \in Seq(Unit) /\ len \in Nat /\ Len(datagram) \in Nat
    BY LenProperties DEF DatagramUnit
<1>2. /\ body \in Seq(Unit) /\ Len(body) = len + Len(datagram)
      /\ \A k \in 1..Len(body) : k > len => body[k] = datagram[k - len]
    BY <1>1, ConcatProperties
<1>3. Least(len, Len(body)) = len
    BY <1>1, <1>2 DEF Least
<1>. HIDE DEF body, len
<1>4. rest = [k \in 1..Len(datagram) |-> body[len + k]]
    BY <1>1, <1>2, <1>3
<1>5. \A k \in 1..Len(datagram) : body[len + k] \in DatagramUnit
    <2>. SUFFICES ASSUME NEW k \in 1..Len(datagram) PROVE body[len + k] \in DatagramUnit
        OBVIOUS
    <2>1. len + k \in 1..Len(body) /\ len + k > len /\ (len + k) - len = k
        BY <1>1, <1>2
    <2>2. body[len + k] = datagram[k]
        BY <1>2, <2>1
    <2>. QED  BY <2>2, ElementOfSeq
<1>6. rest \in Seq(DatagramUnit)
    <2>. DEFINE taken == [k \in 1..Len(datagram) |-> body[len + k]]
    <2>1. taken \in [1..Len(datagram) -> DatagramUnit]
        BY <1>5
    <2>2. taken \in Seq(DatagramUnit)
        BY <1>1, <2>1, SeqDef
    <2>. QED  BY <1>4, <2>2
<1>. HIDE DEF rest
<1>7. Len(rest) \in Nat
    BY <1>6, LenProperties
<1>8. 0 + len <= Len(rest) => /\ SubSeq(rest, 1, 0) \in Seq(DatagramUnit)
                              /\ SubSeq(rest, 0 + len + 1, Len(rest)) \in Seq(DatagramUnit)
    BY <1>1, <1>6, <1>7, SubSeqType
<1>9. SubSeq(rest, 1, Len(rest) - len) \in Seq(DatagramUnit)
    BY <1>1, <1>6, <1>7, SubSeqType
<1>10. Remainder(body, 0, len) \in Seq(DatagramUnit)
    BY <1>8, <1>9, ConcatProperties DEF Remainder, rest
<1>. QED  BY <1>10 DEF body, len

\* When the payload is one fragment, the parser does not see anything of it.
LEMMA AloneParsed ==
    ASSUME NEW p, NEW i \in Stream, NEW payload \in Seq(Unit), NEW datagram \in Datagrams,
           p.body = payload \o datagram, p.frag[i] \in Header,
           p.frag[i].id # 0, p.frag[i].start = 0, p.frag[i].len = Len(payload),
           p.frag[Other(i)] = NoHeader
    PROVE  Parsed(Rest(p)) = <<>>
<1>1. datagram \in Seq(DatagramUnit)
    BY NetChanAssumption
<1>2. Len(payload) \in Nat /\ NoHeader.id = 0 /\ NoHeader.len = 0
    BY LenProperties DEF NoHeader
<1>3. Rest(p) = Remainder(p.body, 0, Len(payload))
    <2>1. CASE i = FRAG_FILE_STREAM
        <3>1. p.frag[FRAG_NORMAL_STREAM] = NoHeader
            BY <2>1, StreamFacts DEF Other
        <3>2. p.frag[FRAG_FILE_STREAM].start - p.frag[FRAG_NORMAL_STREAM].len = 0
            BY <1>2, <2>1, <3>1
        <3>. QED  BY <1>2, <2>1, <3>1, <3>2 DEF Rest, BodyAt
    <2>2. CASE i = FRAG_NORMAL_STREAM
        BY <1>2, <2>2 DEF Rest, Other
    <2>. QED  BY <2>1, <2>2, StreamFacts
<1>4. Rest(p) \in Seq(DatagramUnit)
    BY <1>1, <1>3, RemainderOfDatagram
<1>. QED  BY <1>4, ParsedDatagram

\* One stream of a payload the client takes in.
LEMMA PayloadStream ==
    ASSUME TypeOK, ChainsInv, NEW p \in network, NEW i \in Stream,
           p.frag = reliable_frag[NS_SERVER], ~CaughtUp(NS_SERVER)
    PROVE  LET inb == BufsAfter(NS_CLIENT, p, i)
           IN  /\ IsStart(inb)
               /\ ReadyAfter(NS_CLIENT, p, i) <=> inb # <<>> /\ Len(inb) = CountOf(inb)
               /\ Follows(fragbufs[NS_SERVER][i], Len(inb), CountOf(inb))
               /\ p.frag[i].id # 0 => ~Gap(inb)
               /\ p.frag[i].id = 0 => (ReadyAfter(NS_CLIENT, p, i) <=> incomingready[NS_CLIENT][i])
<1>. DEFINE old == incomingbufs[NS_CLIENT][i]
            h == reliable_frag[NS_SERVER][i]
            bufs == fragbufs[NS_SERVER][i]
            buf == [id |-> h.id, count |-> h.count, data |-> DataAt(BodyAt(p, i), h)]
            inb == BufsAfter(NS_CLIENT, p, i)
<1>1. /\ IsStart(old) /\ incomingready[NS_CLIENT][i] \in BOOLEAN
      /\ incomingready[NS_CLIENT][i] <=> old # <<>> /\ Len(old) = CountOf(old)
      /\ h.id = 0 => Follows(bufs, Len(old), CountOf(old))
      /\ h.id # 0 => /\ h.id = Len(old) + 1 /\ h.id <= h.count
                     /\ old # <<>> => CountOf(old) = h.count
                     /\ Follows(bufs, h.id, h.count)
    BY PeerFacts DEF ChainsInv, Places, TypeOK
<1>2. p.frag[i] = h /\ inb = IF h.id = 0 THEN old ELSE Store(old, buf)
    BY DEF BufsAfter
<1>7. ReadyAfter(NS_CLIENT, p, i) <=>
          incomingready[NS_CLIENT][i] \/ (h.id # 0 /\ Len(inb) = h.count)
    <2>. HIDE DEF h, inb
    <2>. QED  BY <1>1, <1>2 DEF ReadyAfter, inb
<1>3. old \in Seq(Fragment) /\ buf \in Fragment /\ buf.id = h.id /\ buf.count = h.count
    BY ZenonT(30), PeerFacts, TakenType DEF TypeOK
<1>4. ReadyAfter(NS_CLIENT, p, i) \in BOOLEAN
    BY PeerFacts, BufsAfterType
<1>. HIDE DEF old, buf, inb
<1>5. CASE h.id = 0
    BY <1>1, <1>2, <1>4, <1>5, <1>7 DEF inb, old
<1>6. CASE h.id # 0
    <2>1. /\ inb = Append(old, buf) /\ Len(inb) = Len(old) + 1
          /\ IsStart(inb) /\ CountOf(inb) = h.count /\ inb # <<>> /\ ~Gap(inb)
        BY <1>1, <1>2, <1>3, <1>6, StoreAppends
    <2>2. ~incomingready[NS_CLIENT][i]
        <3>1. ~Ready(NS_SERVER) \/ ~incomingready[Peer(NS_SERVER)][i]
            BY DEF Ready
        <3>. QED  BY <3>1, PeerFacts DEF ChainsInv
    <2>. QED  BY <1>1, <1>2, <1>4, <1>6, <1>7, <2>1, <2>2 DEF inb
<1>. QED  BY <1>5, <1>6

LEMMA ClientProcessChains ==
    ASSUME TypeOK, IInv, IInv', ChainsInv, Unmixed \/ ~ParseTransmits,
           NEW p \in network, ClientProcess(p)
    PROVE  ChainsInv'
<1>. DEFINE s == NS_SERVER
            c == NS_CLIENT
<1>1. s \in Endpoint /\ c \in Endpoint /\ Peer(s) = c /\ s # c /\ Peer(c) = s
    BY PeerFacts
<1>2. /\ p.from = s /\ p.seq > incoming_sequence[c] /\ AcceptPacket(c, p)
      /\ UNCHANGED <<message, reliable_frag, waitlist, fragbufs, network, composed,
                     reliable_sequence>>
      /\ frame' = IF Parsed(Rest(p)) # <<>> THEN "parse" ELSE "read"
      /\ reconnect' = (reconnect \/ \E i \in Stream : p.frag[i].id # 0 /\ Gap(BufsAfter(c, p, i)))
    BY <1>1 DEF ClientProcess, Fresh
<1>3. /\ incoming_sequence'[c] = p.seq /\ incoming_sequence'[s] = incoming_sequence[s]
      /\ accepted'[c] = (IF p.reliable THEN Append(accepted[c], p.batch) ELSE accepted[c])
      /\ reliable_buf'[s] = reliable_buf[s]
    BY <1>1, <1>2 DEF AcceptPacket, TypeOK
<1>4. /\ \A q \in network : q.seq \in Nat /\ incoming_sequence[c] \in Nat
      /\ ChannelInv(s) /\ ChannelInv(s)'
    BY <1>1, ProtocolTypes DEF IInv
<1>5. \A i \in Stream : /\ incomingbufs'[c][i] = BufsAfter(c, p, i)
                        /\ incomingready'[c][i] = ReadyAfter(c, p, i)
                        /\ incomingbufs'[s][i] = incomingbufs[s][i]
                        /\ incomingready'[s][i] = incomingready[s][i]
    BY <1>1 DEF ClientProcess, TypeOK
<1>6. Queues(s)' /\ Alone(s)'
    BY <1>2, <1>3 DEF ChainsInv, Queues, Alone
<1>7. Packets(s)'
    <2>1. \A q \in network : q.seq > p.seq => q.seq > incoming_sequence[c]
        BY <1>2, <1>4
    <2>. QED  BY ZenonT(30), <1>1, <1>2, <1>3, <2>1 DEF ChainsInv, Packets
<1>8. ClientWhole'
    BY <1>1, <1>2, <1>5 DEF ChainsInv, ClientWhole
<1>9. CASE ~p.reliable
    <2>1. p.body \in Datagrams /\ \A i \in Stream : p.frag[i] = NoHeader
        BY <1>2, <1>9 DEF ChainsInv, Packets
    <2>2. \A i \in Stream : /\ p.frag[i].id = 0 /\ BufsAfter(c, p, i) = incomingbufs[c][i]
                            /\ ReadyAfter(c, p, i) <=> incomingready[c][i]
        <3>1. \A i \in Stream : p.frag[i].id = 0
            BY <2>1 DEF NoHeader
        <3>2. \A i \in Stream : BufsAfter(c, p, i) = incomingbufs[c][i]
            BY <3>1 DEF BufsAfter
        <3>3. \A i \in Stream : ReadyAfter(c, p, i) <=> incomingready[c][i]
            BY <3>1 DEF ReadyAfter
        <3>. QED  BY <3>1, <3>2, <3>3
    <2>3. CaughtUp(s)' <=> CaughtUp(s)
        BY <1>1, <1>2, <1>3, <1>9 DEF CaughtUp
    <2>4. Places(s)'
        BY <1>1, <1>2, <1>5, <2>2, <2>3 DEF ChainsInv, Places
    <2>5. Rest(p) \in Seq(DatagramUnit)
        BY <2>1, NetChanAssumption, StreamFacts DEF Rest, NoHeader
    <2>6. frame' = "read"
        BY <1>2, <2>5, ParsedDatagram
    <2>7. Ready(s)'
        BY <1>1, <1>2, <1>3, <1>5, <2>2, <2>3, <2>6 DEF ChainsInv, Ready
    <2>8. NoReconnect'
        BY <1>2, <2>2 DEF ChainsInv, NoReconnect
    <2>. QED  BY <1>6, <1>7, <1>8, <2>4, <2>7, <2>8 DEF ChainsInv
<1>10. CASE p.reliable
    <2>1. ~CaughtUp(s)
        BY <1>1, <1>2, <1>4, <1>10 DEF ChannelInv, Payloads
    <2>2. CaughtUp(s)'
        <3>1. accepted[c] \in Seq(Nat) /\ p.batch \in Nat /\ composed[s] \in Nat
            BY <1>1 DEF TypeOK, Packet
        <3>2. Len(accepted'[c]) = Len(accepted[c]) + 1
            BY <1>3, <1>10, <3>1, AppendProperties
        <3>3. Len(accepted[c]) = composed[s] - 1
            BY <1>1, <1>4, <2>1 DEF ChannelInv, Counts
        <3>. QED  BY <1>1, <1>2, <3>1, <3>2, <3>3 DEF CaughtUp
    <2>3. /\ p.frag = reliable_frag[s]
          /\ \E datagram \in Datagrams : p.body = reliable_buf[s] \o datagram
        BY <1>1, <1>2, <1>10 DEF ChainsInv, Packets
    <2>4. \A i \in Stream : ~incomingready[c][i]
        BY <1>1, <2>1 DEF ChainsInv, Ready
    <2>5. ASSUME NEW i \in Stream
          PROVE  LET inb == BufsAfter(c, p, i)
                 IN  /\ IsStart(inb)
                     /\ ReadyAfter(c, p, i) <=> inb # <<>> /\ Len(inb) = CountOf(inb)
                     /\ Follows(fragbufs[s][i], Len(inb), CountOf(inb))
                     /\ p.frag[i].id # 0 => ~Gap(inb)
                     /\ p.frag[i].id = 0 => (ReadyAfter(c, p, i) <=> incomingready[c][i])
        BY <2>1, <2>3, PayloadStream
    <2>6. Places(s)'
        BY <1>1, <1>2, <1>5, <2>2, <2>5 DEF Places
    <2>7. NoReconnect'
        BY <1>2, <2>5 DEF ChainsInv, NoReconnect
    <2>8. reliable_buf[s] # <<>>
        BY <1>4, <2>1 DEF ChannelInv, Acks
    <2>9. \A q \in network : q.from = Peer(s) /\ q.seq > incoming_sequence[s] =>
              q.relack # reliable_sequence[s]
        BY <1>4, <2>1 DEF ChannelInv, Acks
    <2>10. ASSUME NEW i \in Stream, ReadyAfter(c, p, i), ParseTransmits
           PROVE  frame' # "parse"
        <3>1. reliable_frag[s][i].id # 0
            BY <2>3, <2>4, <2>5, <2>10
        <3>2. /\ reliable_frag[s][i].start = 0
              /\ reliable_frag[s][i].len = Len(reliable_buf[s])
              /\ reliable_frag[s][Other(i)] = NoHeader
            BY <2>8, <2>10, <3>1 DEF ChainsInv, Alone
        <3>3. reliable_buf[s] \in Seq(Unit) /\ reliable_frag[s][i] \in Header
            BY <1>1, DataType DEF TypeOK
        <3>4. Parsed(Rest(p)) = <<>>
            BY <2>3, <3>1, <3>2, <3>3, AloneParsed
        <3>. QED  BY <1>2, <3>4
    <2>11. Ready(s)'
        <3>1. frame' \notin {"copy", "send"}
            BY <1>2
        <3>. QED  BY <1>1, <1>2, <1>3, <1>5, <2>2, <2>8, <2>9, <2>10, <3>1 DEF Ready
    <2>. QED  BY <1>6, <1>7, <1>8, <2>6, <2>7, <2>11 DEF ChainsInv
<1>11. p.reliable \in BOOLEAN
    BY <1>1, ProtocolTypes
<1>. QED  BY <1>9, <1>10, <1>11

LEMMA ReadDoneChains ==
    ASSUME TypeOK, ChainsInv, ReadDone
    PROVE  ChainsInv'
<1>. DEFINE s == NS_SERVER
            c == NS_CLIENT
<1>1. s \in Endpoint /\ c \in Endpoint /\ Peer(s) = c /\ s # c
    BY PeerFacts
<1>2. /\ UNCHANGED <<incoming_sequence, reliable_sequence, accepted, composed, network, reconnect>>
      /\ UNCHANGED <<message, reliable_buf, reliable_frag, waitlist, fragbufs>>
    BY DEF ReadDone, seqVars, sendVars
<1>3. \A i \in Stream :
          /\ incomingbufs'[c][i] = IF incomingready[c][i] THEN <<>> ELSE incomingbufs[c][i]
          /\ ~incomingready'[c][i]
          /\ incomingbufs'[s][i] = incomingbufs[s][i]
          /\ incomingready'[s][i] = incomingready[s][i]
    BY <1>1 DEF ReadDone, TypeOK
<1>4. CaughtUp(s)' <=> CaughtUp(s)
    BY <1>2 DEF CaughtUp
<1>5. Places(s)'
    <2>. SUFFICES ASSUME NEW i \in Stream
         PROVE  LET inb == incomingbufs'[c][i]
                    h   == reliable_frag[s][i]
                IN  /\ IsStart(inb) /\ ~(inb # <<>> /\ Len(inb) = CountOf(inb))
                    /\ CaughtUp(s) \/ h.id = 0 => Follows(fragbufs[s][i], Len(inb), CountOf(inb))
                    /\ ~CaughtUp(s) /\ h.id # 0 =>
                          /\ h.id = Len(inb) + 1 /\ h.id <= h.count
                          /\ inb # <<>> => CountOf(inb) = h.count
                          /\ Follows(fragbufs[s][i], h.id, h.count)
        BY <1>1, <1>2, <1>3, <1>4 DEF Places
    <2>. DEFINE old == incomingbufs[c][i]
                h == reliable_frag[s][i]
    <2>1. /\ IsStart(old)
          /\ incomingready[c][i] <=> old # <<>> /\ Len(old) = CountOf(old)
          /\ CaughtUp(s) \/ h.id = 0 => Follows(fragbufs[s][i], Len(old), CountOf(old))
          /\ ~CaughtUp(s) /\ h.id # 0 =>
                /\ h.id = Len(old) + 1 /\ h.id <= h.count
                /\ old # <<>> => CountOf(old) = h.count
                /\ Follows(fragbufs[s][i], h.id, h.count)
        BY <1>1 DEF ChainsInv, Places
    <2>2. CASE ~incomingready[c][i]
        BY <1>3, <2>1, <2>2
    <2>3. CASE incomingready[c][i]
        <3>1. CaughtUp(s)
            BY <1>1, <2>3 DEF ChainsInv, Ready
        <3>2. incomingbufs'[c][i] = <<>> /\ Len(<<>>) = 0 /\ CountOf(<<>>) = 0
            BY <1>3, <2>3, EmptySeq DEF CountOf
        <3>3. IsStart(<<>>)
            BY <3>2 DEF IsStart
        <3>4. Follows(fragbufs[s][i], 0, 0)
            BY <2>1, <2>3, <3>1 DEF Follows
        <3>. QED  BY <3>1, <3>2, <3>3, <3>4
    <2>. QED  BY <2>2, <2>3
<1>6. Queues(s)' /\ Alone(s)' /\ Packets(s)'
    BY <1>2 DEF ChainsInv, Queues, Alone, Packets
<1>7. Ready(s)'
    BY <1>1, <1>3 DEF Ready
<1>8. ClientWhole' /\ NoReconnect'
    BY <1>2, <1>3 DEF ChainsInv, ClientWhole, NoReconnect
<1>. QED  BY <1>5, <1>6, <1>7, <1>8 DEF ChainsInv

-----------------------------------------------------------------------------
(* The theorems about chains. *)

LEMMA InitChains ==
    ASSUME Init
    PROVE  ChainsInv
<1>. USE PeerFacts DEF Init
<1>1. Len(<<>>) = 0 /\ CountOf(<<>>) = 0 /\ <<>> \in Seq(FittingFragment)
      /\ <<>> \in Seq(Wholes)
    BY EmptySeq DEF CountOf
<1>2. IsTail(<<>>) /\ IsStart(<<>>) /\ Follows(<<>>, 0, 0)
    BY <1>1 DEF IsTail, IsStart, Follows
<1>3. Queues(NS_SERVER)
    BY <1>1, <1>2 DEF Queues, Tails
<1>4. NoHeader.id = 0
    BY DEF NoHeader
<1>5. Places(NS_SERVER)
    BY <1>1, <1>2, <1>4 DEF Places
<1>6. Ready(NS_SERVER) /\ Packets(NS_SERVER) /\ Alone(NS_SERVER)
    <2>1. Ready(NS_SERVER)
        BY DEF Ready
    <2>2. Packets(NS_SERVER)
        BY DEF Packets
    <2>3. Alone(NS_SERVER)
        BY StreamFacts DEF Alone
    <2>. QED  BY <2>1, <2>2, <2>3
<1>7. ClientWhole /\ NoReconnect
    BY DEF ClientWhole, NoReconnect
<1>. QED  BY <1>3, <1>5, <1>6, <1>7 DEF ChainsInv

LEMMA NextChains ==
    ASSUME ChunksFit, TypeOK, TypeOK', FragmentsFit, IInv, IInv', ChainsInv,
           Unmixed \/ ~ParseTransmits, [Next]_vars
    PROVE  ChainsInv'
<1>1. ASSUME NEW e \in Endpoint, NEW size \in WriteSizes, WriteMessage(e, size) PROVE ChainsInv'
    BY <1>1, WriteMessageChains
<1>2. ASSUME NEW size \in ResourceSizes, SendResources(size) PROVE ChainsInv'
    BY <1>2, SendResourcesChains
<1>3. CASE SendFile
    BY <1>3, SendFileChains
<1>4. ASSUME NEW e \in Endpoint, NEW datagram \in Datagrams, Transmit(e, datagram)
      PROVE  ChainsInv'
    <2>1. CASE e = NS_SERVER
        BY <1>4, <2>1, ServerTransmits, PeerFacts DEF Transmit
    <2>2. CASE e = NS_CLIENT
        <3>1. TransmitBits(NS_CLIENT, datagram) /\ frame \in {"copy", "send"}
            BY <1>4, <2>2 DEF Transmit
        <3>. QED  BY <3>1, NothingReady, ClientTransmits
    <2>. QED  BY <2>1, <2>2 DEF Endpoint
<1>5. ASSUME NEW datagram \in Datagrams, TransmitInParse(datagram) PROVE ChainsInv'
    <2>1. TransmitBits(NS_CLIENT, datagram) /\ ParseTransmits /\ frame \in {"parse", "copy"}
        BY <1>5 DEF TransmitInParse
    <2>. QED  BY <2>1, NothingReady, ClientTransmits
<1>6. CASE HoldBack
    BY <1>6, HoldBackChains
<1>7. ASSUME NEW p \in network, ServerProcess(p) PROVE ChainsInv'
    BY <1>7, ServerProcessChains
<1>8. ASSUME NEW p \in network, ClientProcess(p) PROVE ChainsInv'
    BY <1>8, ClientProcessChains
<1>9. CASE ReadDone
    BY <1>9, ReadDoneChains
<1>10. CASE UNCHANGED vars
    <2>. USE <1>10 DEF vars, seqVars, sendVars, inVars, histVars
    <2>1. CaughtUp(NS_SERVER)' <=> CaughtUp(NS_SERVER)
        BY DEF CaughtUp
    <2>2. Queues(NS_SERVER)' /\ Places(NS_SERVER)' /\ Ready(NS_SERVER)'
        BY <2>1 DEF ChainsInv, Queues, Places, Ready
    <2>3. Packets(NS_SERVER)' /\ Alone(NS_SERVER)' /\ ClientWhole' /\ NoReconnect'
        BY DEF ChainsInv, Packets, Alone, ClientWhole, NoReconnect
    <2>. QED  BY <2>2, <2>3 DEF ChainsInv
<1>. QED
    BY <1>1, <1>2, <1>3, <1>4, <1>5, <1>6, <1>7, <1>8, <1>9, <1>10 DEF Next

\* The fragments of a stream are where they belong, unless regular data and
\* files meet and the client transmits while it parses.
THEOREM ChainsInvHolds ==
    ASSUME ChunksFit, Unmixed \/ ~ParseTransmits
    PROVE  Spec => []ChainsInv
<1>1. Init => ChainsInv
    BY InitChains
<1>2. ChainsInv /\ TypeOK /\ TypeOK' /\ FragmentsFit /\ IInv /\ IInv' /\ [Next]_vars => ChainsInv'
    BY NextChains
<1>. QED  BY <1>1, <1>2, TypeCorrect, FragmentsAlwaysFit, IInvHolds, PTL DEF Spec

\* The chains of two messages do not mix in the client's list, which is marked
\* ready when the chain is complete (Netchan_Process, CheckForCompletion).
THEOREM SingleChainHolds ==
    ASSUME ChunksFit, Unmixed \/ ~ParseTransmits
    PROVE  Spec => []SingleChain
<1>1. ASSUME ChainsInv, TypeOK PROVE SingleChain
    <2>. SUFFICES ASSUME NEW e \in Endpoint, NEW i \in Stream
         PROVE  LET bufs == incomingbufs[e][i]
                IN  /\ \A k \in 1..Len(bufs) : bufs[k].id = k /\ bufs[k].count = bufs[1].count
                    /\ incomingready[e][i] <=> bufs # <<>> /\ Len(bufs) = bufs[1].count
        BY DEF SingleChain
    <2>1. CASE e = NS_SERVER
        <3>1. incomingbufs[e][i] = <<>> /\ ~incomingready[e][i] /\ Len(<<>>) = 0
            BY <1>1, <2>1, EmptySeq DEF ChainsInv, ClientWhole
        <3>. QED  BY <3>1
    <2>2. CASE e = NS_CLIENT
        <3>1. /\ IsStart(incomingbufs[e][i])
              /\ incomingready[e][i] <=> /\ incomingbufs[e][i] # <<>>
                                         /\ Len(incomingbufs[e][i]) = CountOf(incomingbufs[e][i])
            BY <1>1, <2>2, PeerFacts DEF ChainsInv, Places
        <3>. QED  BY <3>1 DEF IsStart, CountOf
    <2>. QED  BY <2>1, <2>2 DEF Endpoint
<1>. QED  BY <1>1, ChainsInvHolds, TypeCorrect, PTL

\* The client never asks for a reconnect (CheckForCompletion).
THEOREM NoReconnectHolds ==
    ASSUME ChunksFit, Unmixed \/ ~ParseTransmits
    PROVE  Spec => []NoReconnect
<1>1. ChainsInv => NoReconnect
    BY DEF ChainsInv
<1>. QED  BY <1>1, ChainsInvHolds, PTL

-----------------------------------------------------------------------------
(* Packets marked as reliable. *)

LEMMA TransmitReliable ==
    ASSUME TypeOK, TypeOK', FragmentsFit, IInv, ReliableFirst,
           NEW e \in Endpoint, NEW datagram \in Datagrams, TransmitBits(e, datagram)
    PROVE  ReliableFirst'
<1>1. PICK p : /\ Sends(e, p)
               /\ p.reliable => p.body = reliable_buf'[e] \o datagram
               /\ p.reliable <=> \/ reliable_buf[e] = <<>> /\ HasReliable(e)
                                 \/ NeedsResend(e)
    BY PacketSent
<1>2. ASSUME p.reliable PROVE reliable_buf'[e] # <<>>
    <2>1. CASE TransmitAgain(e, datagram)
        BY <2>1 DEF TransmitAgain
    <2>2. CASE TransmitNew(e, datagram)
        <3>1. reliable_buf[e] = <<>> /\ Compose(e)
            BY <2>2 DEF TransmitNew
        <3>2. ~NeedsResend(e)
            BY <3>1 DEF IInv, ChannelInv, Acks, NeedsResend
        <3>. QED  BY <1>1, <1>2, <3>1, <3>2, PayloadNotEmpty
    <2>. QED  BY <2>1, <2>2 DEF TransmitBits
<1>3. ASSUME p.reliable PROVE p.body # <<>> /\ p.body[1] \in DataUnit
    <2>. DEFINE payload == reliable_buf'[e]
    <2>1. payload \in Seq(DataUnit) /\ payload \in Seq(Unit) /\ datagram \in Seq(Unit)
        BY DataType, DatagramsType DEF TypeOK
    <2>2. Len(payload) \in Nat \ {0} /\ Len(datagram) \in Nat /\ payload[1] \in DataUnit
        BY <1>2, <1>3, <2>1, EmptySeq, LenProperties, ElementOfSeq
    <2>. HIDE DEF payload
    <2>3. /\ payload \o datagram \in Seq(Unit)
          /\ Len(payload \o datagram) = Len(payload) + Len(datagram)
          /\ (payload \o datagram)[1] = payload[1]
        BY <2>1, <2>2, ConcatProperties
    <2>4. payload \o datagram # <<>>
        BY <2>2, <2>3, EmptySeq
    <2>. QED  BY <1>1, <1>3, <2>2, <2>3, <2>4 DEF payload
<1>. QED  BY <1>1, <1>3 DEF Sends, ReliableFirst

LEMMA NextReliable ==
    ASSUME TypeOK, TypeOK', FragmentsFit, IInv, ReliableFirst, [Next]_vars
    PROVE  ReliableFirst'
<1>1. CASE UNCHANGED network
    BY <1>1 DEF ReliableFirst
<1>. QED
    BY <1>1, TransmitReliable, PeerFacts
    DEF Next, WriteMessage, SendResources, SendFile, Transmit, TransmitInParse, HoldBack,
        ServerProcess, ClientProcess, ReadDone, vars, inVars

\* A packet whose header says that it contains a reliable payload does: the
\* even/odd bit is not toggled for nothing (TransmitBits).
THEOREM ReliableBitMeansPayloadHolds ==
    ASSUME ChunksFit
    PROVE  Spec => []ReliableBitMeansPayload
<1>1. Init => ReliableFirst
    BY DEF Init, ReliableFirst
<1>2. Spec => []ReliableFirst
    BY <1>1, NextReliable, TypeCorrect, FragmentsAlwaysFit, IInvHolds, PTL DEF Spec
<1>3. ASSUME ReliableFirst, TypeOK PROVE ReliableBitMeansPayload
    <2>. SUFFICES ASSUME NEW p \in network, p.reliable PROVE Parsed(p.body) # <<>>
        BY DEF ReliableBitMeansPayload
    <2>. DEFINE body == p.body
    <2>1. body \in Seq(Unit) /\ body # <<>> /\ body[1].kind # "datagram"
        BY <1>3 DEF ReliableFirst, TypeOK, Packet, DataUnit
    <2>2. Len(body) \in Nat \ {0}
        BY <2>1, EmptySeq, LenProperties
    <2>. HIDE DEF body
    <2>3. PICK n \in 0..Len(body) : /\ Parsed(body) = SubSeq(body, 1, n)
                                    /\ n < Len(body) => body[n + 1].kind = "datagram"
        BY <2>1, ParsedPrefix
    <2>4. n # 0 /\ n \in Nat /\ n >= 1
        BY <2>1, <2>2, <2>3
    <2>5. /\ SubSeq(body, 1, n) = [k \in 1..n |-> body[k]]
          /\ SubSeq(body, 1, n) \in Seq(Unit) /\ Len(SubSeq(body, 1, n)) = n
        BY <2>1, <2>2, <2>4, SubSeqType
    <2>6. SubSeq(body, 1, n) # <<>>
        BY <2>4, <2>5, EmptySeq
    <2>. QED  BY <2>3, <2>6 DEF body
<1>. QED  BY <1>2, <1>3, TypeCorrect, PTL

=============================================================================
