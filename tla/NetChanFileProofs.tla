-------------------------- MODULE NetChanFileProofs --------------------------
(***************************************************************************)
(* Proof that a file arrives as it was sent, where the server sends        *)
(* nothing but files reliably.                                             *)
(***************************************************************************)
EXTENDS NetChanFifoProofs

-----------------------------------------------------------------------------
(* The chain of a file. *)

FragmentsPerFile == (FileSize + FileChunk - 1) \div FileChunk

LEMMA FileChainFacts ==
    ASSUME NEW f \in Nat
    PROVE  /\ FragmentsPerFile \in Nat \ {0} /\ Len(FileChain(f)) = FragmentsPerFile
           /\ FileChain(f) \in Seq(DataFragment) /\ FileChain(f) # <<>>
           /\ \A k \in 1..FragmentsPerFile :
                 /\ FileChain(f)[k].id = k /\ FileChain(f)[k].count = FragmentsPerFile
           /\ Joined(FileChain(f)) = FileData(f) /\ FileData(f) \in Seq(DataUnit)
<1>1. FileData(f) \in Seq(DataUnit) /\ FileChunk \in Nat \ {0} /\ FileSize \in Nat \ {0}
    BY FileDataType, NetChanAssumption
<1>2. Len(FileData(f)) = FileSize
    BY <1>1, LenProperties DEF FileData
<1>3. /\ FragmentsPerFile \in Nat /\ Len(FileChain(f)) = FragmentsPerFile
      /\ \A k \in 1..FragmentsPerFile :
            /\ FileChain(f)[k].id = k /\ FileChain(f)[k].count = FragmentsPerFile
    BY <1>1, <1>2, ChainShape DEF FileChain, FragmentsPerFile
<1>4. FileChain(f) \in Seq(DataFragment) /\ Joined(FileChain(f)) = FileData(f)
    BY <1>1, ChainType, JoinedChain DEF FileChain
<1>5. FileChain(f) # <<>>
    BY <1>1, <1>2, <1>4, JoinedNothing, EmptySeq
<1>6. FragmentsPerFile # 0
    BY <1>3, <1>4, <1>5, EmptySeq
<1>. QED  BY <1>1, <1>3, <1>4, <1>5, <1>6

\* A chain that is promoted is that of the next file.
LEMMA PromoteFiles ==
    ASSUME NEW bufs \in Tails, NEW waits \in Seq(Wholes), NEW promoted \in Nat, NEW begun \in Nat,
           FilesQueued(bufs, waits, promoted, begun)
    PROVE  \E now \in Nat :
              /\ FilesQueued(PromotedBufs(bufs, waits), PromotedWaits(bufs, waits), now, begun)
              /\ now + Len(PromotedWaits(bufs, waits)) = promoted + Len(waits)
<1>1. CASE ~Promotes(bufs, waits)
    <2>1. PromotedBufs(bufs, waits) = bufs /\ PromotedWaits(bufs, waits) = waits
        BY <1>1 DEF PromotedBufs, PromotedWaits
    <2>. QED  BY <2>1
<1>2. CASE Promotes(bufs, waits)
    <2>. DEFINE now == promoted + 1
                rest == Tail(waits)
    <2>1. /\ PromotedBufs(bufs, waits) = Head(waits) /\ PromotedWaits(bufs, waits) = rest
          /\ bufs = <<>> /\ waits # <<>>
        BY <1>2 DEF PromotedBufs, PromotedWaits, Promotes
    <2>2. /\ Len(waits) \in Nat \ {0} /\ Len(rest) = Len(waits) - 1 /\ Head(waits) = waits[1]
          /\ \A j \in 1..Len(rest) : rest[j] = waits[j + 1]
        BY <2>1, HeadTailProperties, EmptySeq, LenProperties
    <2>. HIDE DEF rest
    <2>3. now \in Nat /\ promoted = begun /\ \A j \in 1..Len(waits) : waits[j] = FileChain(promoted + j)
        BY <2>1 DEF FilesQueued
    <2>4. Head(waits) = FileChain(now)
        BY <2>2, <2>3
    <2>5. \A j \in 1..Len(rest) : rest[j] = FileChain(now + j)
        <3>. SUFFICES ASSUME NEW j \in 1..Len(rest) PROVE rest[j] = FileChain(now + j)
            OBVIOUS
        <3>1. j + 1 \in 1..Len(waits) /\ promoted + (j + 1) = now + j
            BY <2>2
        <3>2. waits[j + 1] = FileChain(promoted + (j + 1))
            BY <2>3, <3>1
        <3>. QED  BY <2>2, <3>1, <3>2
    <2>9. now + Len(rest) = promoted + Len(waits)
        BY <2>2
    <2>. HIDE DEF now
    <2>6. AreFragmentsOf(FileChain(now), now)
        BY <2>3, FileChainFacts DEF AreFragmentsOf
    <2>7. FileChain(now) # <<>> /\ FileChain(now)[1].id = 1
        <3>1. FileChain(now) # <<>> /\ FragmentsPerFile \in Nat \ {0}
            BY <2>3, FileChainFacts
        <3>2. 1 \in 1..FragmentsPerFile
            <4>. HIDE DEF FragmentsPerFile
            <4>. QED  BY <3>1
        <3>. QED  BY <2>3, <3>1, <3>2, FileChainFacts
    <2>8. FilesQueued(FileChain(now), rest, now, begun)
        BY <2>3, <2>5, <2>6, <2>7 DEF FilesQueued, now
    <2>. QED  BY <2>1, <2>3, <2>4, <2>8, <2>9
<1>. QED  BY <1>1, <1>2

-----------------------------------------------------------------------------
(* Action by action. *)

LEMMA FileTypes ==
    ASSUME TypeOK, FileInv(NS_SERVER)
    PROVE  /\ Len(files) \in Nat /\ Awaited \in Nat /\ LastBegun(NS_SERVER) \in Nat
           /\ sentFiles \in Nat /\ Len(waitlist[NS_SERVER][FRAG_FILE_STREAM]) \in Nat
           /\ incomingbufs[NS_CLIENT][FRAG_FILE_STREAM] \in Seq(Fragment)
<1>1. Len(files) \in Nat
    BY LenProperties DEF FileInv
<1>2. /\ sentFiles \in Nat /\ incomingbufs[NS_CLIENT][FRAG_FILE_STREAM] \in Seq(Fragment)
      /\ waitlist[NS_SERVER][FRAG_FILE_STREAM] \in Seq(Seq(DataFragment))
    BY PeerFacts, StreamFacts DEF TypeOK
<1>. QED  BY <1>1, <1>2, LenProperties DEF Awaited, LastBegun

\* A step that touches nothing of the files.
LEMMA FileFrame ==
    ASSUME FileInv(NS_SERVER),
           UNCHANGED <<files, sentFiles>>,
           incomingbufs'[NS_CLIENT][FRAG_FILE_STREAM] = incomingbufs[NS_CLIENT][FRAG_FILE_STREAM],
           FragmentUnderWay(NS_SERVER)' <=> FragmentUnderWay(NS_SERVER),
           FragmentUnderWay(NS_SERVER) =>
              /\ reliable_frag'[NS_SERVER][FRAG_FILE_STREAM] = reliable_frag[NS_SERVER][FRAG_FILE_STREAM]
              /\ reliable_buf'[NS_SERVER] = reliable_buf[NS_SERVER],
           fragbufs'[NS_SERVER][FRAG_FILE_STREAM] = fragbufs[NS_SERVER][FRAG_FILE_STREAM],
           waitlist'[NS_SERVER][FRAG_FILE_STREAM] = waitlist[NS_SERVER][FRAG_FILE_STREAM]
    PROVE  FileInv(NS_SERVER)'
<1>1. /\ Awaited' = Awaited /\ LastPromoted(NS_SERVER)' = LastPromoted(NS_SERVER)
      /\ LastBegun(NS_SERVER)' = LastBegun(NS_SERVER) /\ Peer(NS_SERVER) = NS_CLIENT
    BY PeerFacts DEF Awaited, LastPromoted, LastBegun
<1>. QED  BY <1>1 DEF FileInv, FilesIntact

LEMMA SendFileFiles ==
    ASSUME ChunksFit, TypeOK, ChainsInv, FileInv(NS_SERVER), SendFile
    PROVE  FileInv(NS_SERVER)'
<1>. DEFINE s == NS_SERVER
            F == FRAG_FILE_STREAM
            chain == FileChain(sentFiles + 1)
            bufs == fragbufs[s][F]
            old == waitlist[s][F]
            waits == Append(old, chain)
            promoted == LastPromoted(s)
            begun == LastBegun(s)
<1>1. s \in Endpoint /\ F \in Stream /\ sentFiles + 1 \in Nat /\ Peer(s) = NS_CLIENT
    BY PeerFacts, StreamFacts DEF TypeOK
<1>2. /\ bufs \in Tails /\ old \in Seq(Wholes) /\ waitlist[s] \in [Stream -> Seq(Wholes)]
    BY <1>1 DEF ChainsInv, Queues
<1>3. chain \in Wholes /\ chain # <<>>
    BY <1>1, FileChainFacts, FileDataType, ChainIsWhole DEF FileChain
<1>4. /\ waits \in Seq(Wholes) /\ Len(waits) = Len(old) + 1 /\ Len(old) \in Nat
      /\ waits[Len(old) + 1] = chain /\ \A j \in 1..Len(old) : waits[j] = old[j]
    BY <1>2, <1>3, AppendProperties, LenProperties
<1>5. /\ fragbufs'[s][F] = PromotedBufs(bufs, waits)
      /\ waitlist'[s][F] = PromotedWaits(bufs, waits)
      /\ sentFiles' = sentFiles + 1
      /\ UNCHANGED <<files, incomingbufs, accepted, composed, reliable_frag, reliable_buf>>
    <2>. DEFINE all == [waitlist[s] EXCEPT ![F] = Enqueue(@, chain)]
    <2>1. all[F] = waits
        BY <1>1, <1>2, <1>3 DEF Enqueue
    <2>2. /\ waitlist' = [waitlist EXCEPT ![s] =
                             [i \in Stream |-> PromotedWaits(fragbufs[s][i], all[i])]]
          /\ fragbufs' = [fragbufs EXCEPT ![s] =
                             [i \in Stream |-> PromotedBufs(fragbufs[s][i], all[i])]]
          /\ sentFiles' = sentFiles + 1
          /\ UNCHANGED <<files, incomingbufs, accepted, composed, reliable_frag, reliable_buf>>
        BY DEF SendFile, inVars, FileChain
    <2>. HIDE DEF all, waits
    <2>3. /\ waitlist'[s] = [i \in Stream |-> PromotedWaits(fragbufs[s][i], all[i])]
          /\ fragbufs'[s] = [i \in Stream |-> PromotedBufs(fragbufs[s][i], all[i])]
        BY <1>1, <2>2 DEF TypeOK
    <2>. QED  BY <1>1, <2>1, <2>2, <2>3
<1>6. /\ promoted \in Nat /\ begun \in Nat /\ promoted + Len(old) = sentFiles
      /\ FilesQueued(bufs, old, promoted, begun)
    BY <1>1, FileTypes DEF FileInv, LastPromoted
<1>. HIDE DEF chain, waits, promoted, begun
<1>7. FilesQueued(bufs, waits, promoted, begun)
    <2>1. ASSUME NEW j \in 1..Len(waits) PROVE waits[j] = FileChain(promoted + j)
        <3>1. CASE j = Len(old) + 1
            <4>1. promoted + j = sentFiles + 1
                BY <1>4, <1>6, <3>1
            <4>. QED  BY <1>4, <3>1, <4>1 DEF chain
        <3>2. CASE j \in 1..Len(old)
            BY <1>4, <1>6, <3>2 DEF FilesQueued
        <3>. QED  BY <1>4, <3>1, <3>2
    <2>. QED  BY <1>6, <2>1 DEF FilesQueued
<1>8. PICK now \in Nat : /\ FilesQueued(fragbufs'[s][F], waitlist'[s][F], now, begun)
                         /\ now + Len(waitlist'[s][F]) = promoted + Len(waits)
    <2>. HIDE DEF bufs
    <2>1. \E now \in Nat :
              /\ FilesQueued(PromotedBufs(bufs, waits), PromotedWaits(bufs, waits), now, begun)
              /\ now + Len(PromotedWaits(bufs, waits)) = promoted + Len(waits)
        BY <1>2, <1>4, <1>6, <1>7, PromoteFiles
    <2>. QED  BY <1>5, <2>1
<1>9. LastPromoted(s)' = now
    <2>1. Len(waitlist'[s][F]) \in Nat
        <3>1. waitlist'[s][F] \in Seq(Wholes)
            BY <1>2, <1>4, <1>5, PromotedKeeps
        <3>. QED  BY <3>1, LenProperties
    <2>2. now = sentFiles' - Len(waitlist'[s][F])
        BY <1>4, <1>5, <1>6, <1>8, <2>1
    <2>. QED  BY <2>2 DEF LastPromoted
<1>10. CaughtUp(s)' <=> CaughtUp(s)
    BY <1>5 DEF CaughtUp
<1>11. FragmentUnderWay(s)' <=> FragmentUnderWay(s)
    BY <1>5, <1>10 DEF FragmentUnderWay
<1>12. Awaited' = Awaited /\ LastBegun(s)' = begun
    BY <1>5, <1>11 DEF Awaited, LastBegun, begun
<1>. QED  BY <1>5, <1>8, <1>9, <1>11, <1>12 DEF FileInv, FilesIntact

\* The next fragment that is sent is one of the file the client waits for.
LEMMA ComposeFiles ==
    ASSUME ChunksFit, MaxWritten[NS_SERVER] = 0, TypeOK, TypeOK', ChainsInv, FileInv(NS_SERVER),
           CaughtUp(NS_SERVER), \A i \in Stream : ~incomingready[NS_CLIENT][i],
           Compose(NS_SERVER), CaughtUp(NS_SERVER)' <=> ~HasReliable(NS_SERVER),
           UNCHANGED <<files, sentFiles, incomingbufs>>
    PROVE  FileInv(NS_SERVER)'
<1>. DEFINE s == NS_SERVER
            N == FRAG_NORMAL_STREAM
            F == FRAG_FILE_STREAM
            bufs == fragbufs[s][F]
            old == waitlist[s][F]
            active == ActiveBufs(s)[F]
            waits == ActiveWaits(s)[F]
            promoted == LastPromoted(s)
            begun == LastBegun(s)
            inb == incomingbufs[NS_CLIENT][F]
            h == reliable_frag'[s][F]
            taken == Takes(s, F, Used(s, F))
<1>1. s \in Endpoint /\ N \in Stream /\ F \in Stream /\ N # F /\ Peer(s) = NS_CLIENT
    BY PeerFacts, StreamFacts
<1>2. /\ bufs \in Tails /\ old \in Seq(Wholes)
      /\ active = PromotedBufs(bufs, old) /\ waits = PromotedWaits(bufs, old)
    BY <1>1 DEF ChainsInv, Queues, ActiveBufs, ActiveWaits
<1>3. /\ promoted \in Nat /\ begun \in Nat /\ promoted + Len(old) = sentFiles
      /\ FilesQueued(bufs, old, promoted, begun)
      /\ Len(files) \in Nat /\ inb \in Seq(Fragment) /\ Awaited \in Nat
    BY <1>1, FileTypes DEF FileInv, LastPromoted
<1>4. /\ waitlist'[s][F] = waits /\ fragbufs'[s][F] = IF taken THEN Tail(active) ELSE active
    BY <1>1 DEF Compose, TypeOK
<1>5. PICK now \in Nat : FilesQueued(active, waits, now, begun) /\ now + Len(waits) = sentFiles
    <2>. HIDE DEF bufs, old, promoted, begun, active, waits
    <2>. QED  BY ZenonT(30), <1>2, <1>3, PromoteFiles
<1>6. LastPromoted(s)' = now
    <2>1. waits \in Seq(Wholes)
        BY <1>2, PromotedKeeps
    <2>2. Len(waits) \in Nat
        BY <2>1, LenProperties
    <2>. HIDE DEF waits
    <2>3. now = sentFiles - Len(waits)
        BY <1>3, <1>5, <2>2
    <2>. QED  BY <1>4, <2>3 DEF LastPromoted
<1>7. ~FragmentUnderWay(s) /\ Awaited' = Awaited
    BY DEF FragmentUnderWay, Awaited
<1>8. CASE ~taken
    <2>1. h = NoHeader
        BY <1>1, <1>8, ComposeStream DEF ChainsInv
    <2>2. ~FragmentUnderWay(s)'
        BY <2>1 DEF FragmentUnderWay, NoHeader
    <2>3. LastBegun(s)' = begun
        BY <1>1, <1>7, <2>2 DEF LastBegun
    <2>. QED  BY <1>1, <1>4, <1>5, <1>6, <1>7, <1>8, <2>2, <2>3 DEF FileInv, FilesIntact
<1>9. CASE taken
    <2>1. /\ active # <<>> /\ active \in Tails /\ fragbufs'[s][F] = Tail(active)
          /\ h.id = active[1].id /\ h.count = active[1].count
        BY <1>1, <1>9, ComposeStream DEF ChainsInv
    <2>2. /\ Head(active) = active[1] /\ active[1] \in FittingFragment
          /\ active[1].id \in 1..active[1].count /\ active[1].count \in Nat
        BY <2>1, TailFollows
    <2>3. FragmentUnderWay(s)'
        <3>1. HasReliable(s)
            BY <1>1, <2>1 DEF HasReliable
        <3>2. h.id # 0
            BY <2>1, <2>2
        <3>. QED  BY <3>1, <3>2 DEF FragmentUnderWay
    <2>4. LastBegun(s)' = Awaited
        BY <1>7, <2>3 DEF LastBegun
    <2>5. now = Awaited
        <3>1. h.id = Len(inb) + 1
            <4>1. h \in Header
                BY <1>1 DEF TypeOK
            <4>2. h.id # 0
                <5>. HIDE DEF active, h
                <5>. QED  BY <2>1, <2>2
            <4>. QED  BY <1>1, <4>1, <4>2, ComposePlaces
        <3>2. now = IF active[1].id = 1 THEN begun + 1 ELSE begun
            BY <1>5, <2>1 DEF FilesQueued
        <3>3. CASE inb = <<>>
            <4>1. begun = Len(files)
                BY <1>1, <1>7, <3>3 DEF LastBegun
            <4>2. Len(inb) = 0
                BY <3>3, EmptySeq
            <4>3. active[1].id = h.id
                BY <2>1
            <4>. HIDE DEF begun, inb, h, active
            <4>4. active[1].id = 1
                BY <3>1, <4>2, <4>3
            <4>. QED  BY <3>2, <4>1, <4>4 DEF Awaited
        <3>4. CASE inb # <<>>
            <4>1. begun = Awaited
                BY <1>1, <3>4 DEF LastBegun
            <4>2. Len(inb) \in Nat \ {0}
                BY <1>3, <3>4, EmptySeq, LenProperties
            <4>3. active[1].id = h.id
                BY <2>1
            <4>. HIDE DEF begun, inb, h, active
            <4>4. active[1].id # 1
                BY <3>1, <4>2, <4>3
            <4>. QED  BY <3>2, <4>1, <4>4
        <3>. QED  BY <3>3, <3>4
    <2>6. reliable_buf'[s] = active[1].data
        <3>1. message[s] = <<>> /\ ActiveBufs(s)[N] = <<>>
            BY <1>1 DEF ChainsInv, Alone, Unmixed, ActiveBufs, PromotedBufs, Promotes
        <3>2. Regular(s) = <<>> /\ Piece(s, N, Used(s, N)) = <<>>
            BY <3>1 DEF Regular, Piece, Takes
        <3>3. Piece(s, F, Used(s, F)) = active[1].data
            BY <1>9, <2>2 DEF Piece
        <3>4. active[1].data \in Seq(DataUnit)
            BY <2>2, FragmentFields
        <3>5. reliable_buf'[s] = <<>> \o <<>> \o active[1].data
            BY <1>1, <3>2, <3>3 DEF Compose, TypeOK
        <3>6. <<>> \o <<>> = <<>> /\ <<>> \o active[1].data = active[1].data
            BY <3>4, ConcatFacts
        <3>. QED  BY <3>5, <3>6
    <2>7. [id |-> h.id, count |-> h.count, data |-> reliable_buf'[s]] = active[1]
        BY <2>1, <2>2, <2>6 DEF FittingFragment, DataFragment, Fragment
    <2>8. /\ Len(active) \in Nat \ {0} /\ Len(Tail(active)) = Len(active) - 1
          /\ \A k \in 1..Len(Tail(active)) : Tail(active)[k] = active[k + 1]
          /\ \A k \in 1..Len(active) : active[k].id = active[1].count - Len(active) + k
          /\ Tail(active) # <<>> => Len(Tail(active)) # 0
        <3>1. active \in Seq(FittingFragment) /\ IsTail(active) /\ Tail(active) \in Seq(FittingFragment)
            BY <2>1, TailFollows DEF Tails
        <3>. QED  BY <2>1, <3>1, HeadTailProperties, EmptySeq, LenProperties DEF IsTail
    <2>9. \A k \in 1..Len(active) : /\ active[k].id \in 1..Len(FileChain(Awaited))
                                    /\ active[k] = FileChain(Awaited)[active[k].id]
        BY <1>5, <2>5 DEF FilesQueued, AreFragmentsOf
    <2>10. /\ h.id \in 1..Len(FileChain(Awaited))
           /\ [id |-> h.id, count |-> h.count, data |-> reliable_buf'[s]] = FileChain(Awaited)[h.id]
        BY <2>1, <2>7, <2>8, <2>9
    <2>11. FilesQueued(Tail(active), waits, now, Awaited)
        <3>1. AreFragmentsOf(Tail(active), now)
            <4>. HIDE DEF active
            <4>1. \A k \in 1..Len(Tail(active)) : k + 1 \in 1..Len(active)
                BY <2>8
            <4>. QED  BY <2>5, <2>8, <2>9, <4>1 DEF AreFragmentsOf
        <3>2. Tail(active) # <<>> => Tail(active)[1].id # 1
            <4>. HIDE DEF active
            <4>. SUFFICES ASSUME Tail(active) # <<>> PROVE Tail(active)[1].id # 1
                OBVIOUS
            <4>1. Tail(active)[1] = active[2] /\ 2 \in 1..Len(active) /\ 1 \in 1..Len(active)
                BY <2>8
            <4>2. active[2].id = active[1].id + 1
                BY <2>2, <2>8, <4>1
            <4>. QED  BY <2>2, <4>1, <4>2
        <3>. QED  BY <1>5, <2>5, <3>1, <3>2 DEF FilesQueued
    <2>. QED  BY <1>1, <1>4, <1>6, <1>7, <2>1, <2>3, <2>4, <2>5, <2>10, <2>11 DEF FileInv, FilesIntact
<1>. QED  BY <1>8, <1>9

LEMMA TransmitFiles ==
    ASSUME ChunksFit, MaxWritten[NS_SERVER] = 0, TypeOK, TypeOK', IInv, ChainsInv,
           FileInv(NS_SERVER),
           NEW e \in Endpoint, NEW datagram \in Datagrams, TransmitBits(e, datagram)
    PROVE  FileInv(NS_SERVER)'
<1>. DEFINE s == NS_SERVER
<1>1. s \in Endpoint /\ Peer(s) = NS_CLIENT /\ NS_CLIENT \in Endpoint /\ ChannelInv(s)
    BY PeerFacts DEF IInv
<1>2. UNCHANGED <<files, sentFiles, incomingbufs, accepted>>
    BY DEF TransmitBits
<1>3. CASE e # s
    <2>1. /\ reliable_buf'[s] = reliable_buf[s] /\ reliable_frag'[s] = reliable_frag[s]
          /\ fragbufs'[s] = fragbufs[s] /\ waitlist'[s] = waitlist[s] /\ composed'[s] = composed[s]
        BY <1>1, <1>3, TransmitOthers
    <2>2. FragmentUnderWay(s)' <=> FragmentUnderWay(s)
        BY <1>2, <2>1 DEF FragmentUnderWay, CaughtUp
    <2>. QED  BY <1>2, <2>1, <2>2, FileFrame
<1>4. CASE e = s /\ TransmitAgain(e, datagram)
    <2>1. UNCHANGED <<reliable_buf, reliable_frag, fragbufs, waitlist, composed>>
        BY <1>4 DEF TransmitAgain
    <2>2. FragmentUnderWay(s)' <=> FragmentUnderWay(s)
        BY <1>2, <2>1 DEF FragmentUnderWay, CaughtUp
    <2>. QED  BY <1>2, <2>1, <2>2, FileFrame
<1>5. CASE e = s /\ TransmitNew(e, datagram)
    <2>1. reliable_buf[s] = <<>> /\ Compose(s)
        BY <1>5 DEF TransmitNew
    <2>2. CaughtUp(s)
        BY <1>1, <2>1 DEF ChannelInv, Acks
    <2>3. \A i \in Stream : ~incomingready[NS_CLIENT][i]
        BY <1>1, <2>1 DEF ChainsInv, Ready
    <2>4. /\ composed'[s] = IF HasReliable(s) THEN composed[s] + 1 ELSE composed[s]
          /\ composed[s] \in Nat
        BY <1>1, <2>1 DEF Compose, TypeOK
    <2>5. CaughtUp(s)' <=> ~HasReliable(s)
        BY <1>1, <1>2, <2>2, <2>4 DEF CaughtUp
    <2>. QED  BY <1>2, <2>1, <2>2, <2>3, <2>5, ComposeFiles
<1>. QED  BY <1>3, <1>4, <1>5 DEF TransmitBits

LEMMA ClientProcessFiles ==
    ASSUME MaxWritten[NS_SERVER] = 0, TypeOK, IInv, ChainsInv, FileInv(NS_SERVER),
           NEW p \in network, ClientProcess(p)
    PROVE  FileInv(NS_SERVER)'
<1>. DEFINE s == NS_SERVER
            c == NS_CLIENT
            F == FRAG_FILE_STREAM
            inb == incomingbufs[c][F]
            new == BufsAfter(c, p, F)
            h == reliable_frag[s][F]
            rb == reliable_buf[s]
<1>1. /\ s \in Endpoint /\ c \in Endpoint /\ Peer(s) = c /\ s # c /\ Peer(c) = s
      /\ F \in Stream /\ FRAG_NORMAL_STREAM \in Stream
    BY PeerFacts, StreamFacts
<1>2. /\ p.from = s /\ p.seq > incoming_sequence[c] /\ AcceptPacket(c, p)
      /\ UNCHANGED <<reliable_frag, waitlist, fragbufs, composed, files, sentFiles>>
    BY <1>1 DEF ClientProcess, Fresh
<1>3. /\ accepted'[c] = (IF p.reliable THEN Append(accepted[c], p.batch) ELSE accepted[c])
      /\ reliable_buf'[s] = rb /\ incomingbufs'[c][F] = new
    BY <1>1, <1>2 DEF AcceptPacket, ClientProcess, TypeOK
<1>4. ChannelInv(s) /\ p.reliable \in BOOLEAN
    BY <1>1, ProtocolTypes DEF IInv
<1>5. CASE ~p.reliable
    <2>1. p.frag[F].id = 0
        BY <1>1, <1>2, <1>5 DEF ChainsInv, Packets, NoHeader
    <2>2. new = inb
        BY <2>1 DEF BufsAfter
    <2>3. FragmentUnderWay(s)' <=> FragmentUnderWay(s)
        BY <1>1, <1>2, <1>3, <1>5 DEF FragmentUnderWay, CaughtUp
    <2>. QED  BY <1>2, <1>3, <2>2, <2>3, FileFrame
<1>6. CASE p.reliable
    <2>1. ~CaughtUp(s)
        BY <1>1, <1>2, <1>4, <1>6 DEF ChannelInv, Payloads
    <2>2. CaughtUp(s)'
        <3>1. accepted[c] \in Seq(Nat) /\ p.batch \in Nat /\ composed[s] \in Nat
            BY <1>1 DEF TypeOK, Packet
        <3>2. Len(accepted'[c]) = Len(accepted[c]) + 1
            BY <1>3, <1>6, <3>1, AppendProperties
        <3>3. Len(accepted[c]) = composed[s] - 1
            BY <1>1, <1>4, <2>1 DEF ChannelInv, Counts
        <3>. QED  BY <1>1, <1>2, <3>1, <3>2, <3>3 DEF CaughtUp
    <2>3. /\ p.frag = reliable_frag[s]
          /\ \E datagram \in Datagrams : p.body = rb \o datagram
        BY <1>1, <1>2, <1>6 DEF ChainsInv, Packets
    <2>4. ~FragmentUnderWay(s)' /\ (FragmentUnderWay(s) <=> h.id # 0)
        BY <2>1, <2>2 DEF FragmentUnderWay
    <2>5. CASE h.id = 0
        <3>1. new = inb
            BY <2>3, <2>5 DEF BufsAfter
        <3>. QED  BY <1>2, <1>3, <2>4, <2>5, <3>1, FileFrame
    <2>6. CASE h.id # 0
        <3>. DEFINE buf == [id |-> h.id, count |-> h.count, data |-> rb]
        <3>1. rb # <<>>
            BY <1>4, <2>1 DEF ChannelInv, Acks
        <3>2. p.frag[FRAG_NORMAL_STREAM] = NoHeader /\ h.len = Len(rb)
            BY <1>1, <2>3, <2>6, <3>1 DEF ChainsInv, Alone, Unmixed, Other
        <3>3. BodyAt(p, F) = p.body
            BY <3>2 DEF BodyAt, NoHeader
        <3>4. DataAt(p.body, h) = rb
            <4>1. PICK datagram \in Datagrams : p.body = rb \o datagram
                BY <2>3
            <4>2. rb \in Seq(DataUnit)
                BY <1>1 DEF TypeOK
            <4>. HIDE DEF rb, h
            <4>3. DataAt(rb \o datagram, h) = rb
                BY <3>2, <4>2, DataAtFront
            <4>. QED  BY <4>1, <4>3
        <3>5. new = Store(inb, buf)
            BY <2>3, <2>6, <3>3, <3>4 DEF BufsAfter
        <3>6. /\ IsStart(inb) /\ h.id = Len(inb) + 1 /\ h.id <= h.count
              /\ inb # <<>> => CountOf(inb) = h.count
            BY <1>1, <2>1, <2>6 DEF ChainsInv, Places
        <3>7. buf \in Fragment /\ inb \in Seq(Fragment)
            <4>1. h.id \in Nat /\ h.count \in Nat /\ rb \in Seq(Unit)
                BY <1>1, DataType DEF TypeOK, Header
            <4>. QED  BY <1>1, <4>1 DEF Fragment, TypeOK
        <3>8. buf.id \in 1..Len(FileChain(Awaited)) /\ buf = FileChain(Awaited)[buf.id]
            BY <2>4, <2>6 DEF FileInv
        <3>. HIDE DEF buf
        <3>9. new = Append(inb, buf) /\ new # <<>>
            <4>1. buf.id = Len(inb) + 1 /\ buf.id <= buf.count /\ (inb # <<>> => CountOf(inb) = buf.count)
                BY <3>6 DEF buf
            <4>. QED  BY <3>5, <3>6, <3>7, <4>1, StoreAppends
        <3>10. AreFragmentsOf(inb, Awaited)
            BY <1>1 DEF FileInv
        <3>11. AreFragmentsOf(new, Awaited)
            <4>1. /\ Len(new) = Len(inb) + 1 /\ Len(inb) \in Nat /\ new[Len(inb) + 1] = buf
                  /\ \A k \in 1..Len(inb) : new[k] = inb[k]
                BY <3>7, <3>9, AppendProperties, LenProperties
            <4>. HIDE DEF new, inb
            <4>. QED  BY <3>8, <3>10, <4>1 DEF AreFragmentsOf
        <3>12. /\ Awaited' = Awaited /\ LastPromoted(s)' = LastPromoted(s)
               /\ LastBegun(s)' = Awaited /\ LastBegun(s) = Awaited
            BY <1>1, <1>2, <1>3, <2>4, <2>6, <3>9 DEF Awaited, LastPromoted, LastBegun
        <3>13. AreFragmentsOf(incomingbufs'[c][F], Awaited')
            BY <1>3, <3>11, <3>12
        <3>. QED  BY <1>1, <1>2, <2>4, <3>12, <3>13 DEF FileInv, FilesIntact
    <2>. QED  BY <2>5, <2>6
<1>. QED  BY <1>4, <1>5, <1>6

LEMMA ReadDoneFiles ==
    ASSUME TypeOK, ChainsInv, FileInv(NS_SERVER), ReadDone
    PROVE  FileInv(NS_SERVER)'
<1>. DEFINE s == NS_SERVER
            c == NS_CLIENT
            F == FRAG_FILE_STREAM
            inb == incomingbufs[c][F]
<1>1. s \in Endpoint /\ c \in Endpoint /\ Peer(s) = c /\ F \in Stream
    BY PeerFacts, StreamFacts
<1>2. UNCHANGED <<accepted, composed, reliable_buf, reliable_frag, waitlist, fragbufs, sentFiles>>
    BY DEF ReadDone, sendVars
<1>3. /\ incomingbufs'[c][F] = IF incomingready[c][F] THEN <<>> ELSE inb
      /\ files' = IF incomingready[c][F] THEN Append(files, Joined(inb)) ELSE files
    BY <1>1 DEF ReadDone, TypeOK
<1>4. FragmentUnderWay(s)' <=> FragmentUnderWay(s)
    BY <1>2 DEF FragmentUnderWay, CaughtUp
<1>5. CASE ~incomingready[c][F]
    BY <1>2, <1>3, <1>4, <1>5, FileFrame
<1>6. CASE incomingready[c][F]
    <2>1. CaughtUp(s) /\ ~FragmentUnderWay(s)
        BY <1>1, <1>6 DEF ChainsInv, Ready, FragmentUnderWay
    <2>2. IsStart(inb) /\ inb # <<>> /\ Len(inb) = CountOf(inb)
        BY <1>1, <1>6 DEF ChainsInv, Places
    <2>3. inb \in Seq(Fragment) /\ Len(files) \in Nat /\ Awaited \in Nat /\ files \in Seq(Seq(DataUnit))
        BY FileTypes DEF FileInv
    <2>4. inb = FileChain(Awaited)
        <3>1. AreFragmentsOf(inb, Awaited)
            BY <1>1 DEF FileInv
        <3>2. Len(inb) \in Nat \ {0} /\ Len(inb) = inb[1].count /\ 1 \in 1..Len(inb)
            BY <2>2, <2>3, EmptySeq, LenProperties DEF CountOf
        <3>3. \A k \in 1..Len(inb) : inb[k] = FileChain(Awaited)[k]
            BY <2>2, <3>1 DEF IsStart, AreFragmentsOf
        <3>4. 1 \in 1..FragmentsPerFile /\ FileChain(Awaited)[1].count = FragmentsPerFile
              /\ Len(FileChain(Awaited)) = FragmentsPerFile
            <4>1. 1 \in 1..FragmentsPerFile
                BY <2>3, FileChainFacts
            <4>. QED  BY <2>3, <4>1, FileChainFacts
        <3>5. Len(inb) = Len(FileChain(Awaited))
            BY <3>2, <3>3, <3>4
        <3>6. FileChain(Awaited) \in Seq(Fragment)
            <4>1. FileChain(Awaited) \in Seq(DataFragment)
                BY <2>3, FileChainFacts
            <4>2. \A k \in 1..Len(FileChain(Awaited)) : FileChain(Awaited)[k] \in Fragment
                BY <4>1, ElementOfSeq DEF DataFragment
            <4>3. /\ FileChain(Awaited) = [k \in 1..Len(FileChain(Awaited)) |-> FileChain(Awaited)[k]]
                  /\ Len(FileChain(Awaited)) \in Nat
                BY <4>1, LenProperties
            <4>. QED  BY <4>2, <4>3, SeqDef
        <3>. HIDE DEF inb
        <3>. QED  BY <2>3, <3>3, <3>5, <3>6, SeqEqual
    <2>5. Joined(inb) = FileData(Awaited) /\ FileData(Awaited) \in Seq(DataUnit)
        BY <2>3, <2>4, FileChainFacts
    <2>6. /\ files' = Append(files, FileData(Awaited)) /\ incomingbufs'[c][F] = <<>>
        BY <1>3, <1>6, <2>5
    <2>7. /\ files' \in Seq(Seq(DataUnit)) /\ Len(files') = Awaited
          /\ files'[Awaited] = FileData(Awaited) /\ \A f \in 1..Len(files) : files'[f] = files[f]
        BY <2>3, <2>5, <2>6, AppendProperties DEF Awaited
    <2>8. FilesIntact'
        <3>1. \A f \in 1..Len(files) : files[f] = FileData(f)
            BY DEF FileInv, FilesIntact
        <3>2. \A f \in 1..Awaited : f = Awaited \/ f \in 1..Len(files)
            BY <2>3 DEF Awaited
        <3>. QED  BY <2>7, <3>1, <3>2 DEF FilesIntact
    <2>9. LastPromoted(s)' = LastPromoted(s) /\ LastBegun(s)' = Awaited /\ LastBegun(s) = Awaited
        BY <1>1, <1>2, <1>4, <2>1, <2>2, <2>6, <2>7 DEF LastPromoted, LastBegun
    <2>10. AreFragmentsOf(incomingbufs'[c][F], Awaited')
        <3>1. Len(<<>>) = 0
            BY EmptySeq
        <3>. QED  BY <2>6, <3>1 DEF AreFragmentsOf
    <2>. QED  BY <1>1, <1>2, <1>4, <2>1, <2>7, <2>8, <2>9, <2>10 DEF FileInv
<1>. QED  BY <1>5, <1>6

-----------------------------------------------------------------------------
(* The invariant. *)

LEMMA InitFiles ==
    ASSUME Init
    PROVE  FileInv(NS_SERVER)
<1>. USE PeerFacts, StreamFacts
<1>1. Len(<<>>) = 0 /\ NoHeader.id = 0 /\ <<>> \in Seq(Seq(DataUnit))
    BY EmptySeq DEF NoHeader
<1>2. /\ files = <<>> /\ sentFiles = 0 /\ Peer(NS_SERVER) = NS_CLIENT
      /\ incomingbufs[NS_CLIENT][FRAG_FILE_STREAM] = <<>>
      /\ fragbufs[NS_SERVER][FRAG_FILE_STREAM] = <<>>
      /\ waitlist[NS_SERVER][FRAG_FILE_STREAM] = <<>>
      /\ reliable_frag[NS_SERVER][FRAG_FILE_STREAM].id = 0
    BY <1>1 DEF Init
<1>3. ~FragmentUnderWay(NS_SERVER)
    BY <1>2 DEF FragmentUnderWay
<1>4. LastPromoted(NS_SERVER) = 0 /\ LastBegun(NS_SERVER) = 0
    <2>1. Len(files) = 0 /\ Len(waitlist[NS_SERVER][FRAG_FILE_STREAM]) = 0
        BY <1>1, <1>2
    <2>2. LastPromoted(NS_SERVER) = 0 - 0
        BY <1>2, <2>1 DEF LastPromoted
    <2>3. LastBegun(NS_SERVER) = 0
        BY <1>2, <1>3, <2>1 DEF LastBegun
    <2>. QED  BY <2>2, <2>3
<1>5. FilesQueued(<<>>, <<>>, 0, 0)
    BY <1>1 DEF FilesQueued, AreFragmentsOf
<1>. QED  BY <1>1, <1>2, <1>3, <1>4, <1>5 DEF FileInv, FilesIntact, AreFragmentsOf

\* The server neither uses the file stream's list of the client nor gives a
\* payload up that the client does not have.
LEMMA ServerProcessFiles ==
    ASSUME TypeOK, IInv, FileInv(NS_SERVER), NEW p \in network, ServerProcess(p)
    PROVE  FileInv(NS_SERVER)'
<1>. DEFINE s == NS_SERVER
<1>1. s \in Endpoint /\ NS_CLIENT \in Endpoint /\ Peer(s) = NS_CLIENT /\ s # NS_CLIENT /\ ChannelInv(s)
    BY PeerFacts DEF IInv
<1>2. /\ UNCHANGED <<files, sentFiles, composed, reliable_frag, fragbufs, waitlist>>
      /\ p.from = NS_CLIENT /\ p.seq > incoming_sequence[s] /\ AcceptPacket(s, p)
    BY <1>1 DEF ServerProcess, Fresh
<1>3. /\ incomingbufs'[NS_CLIENT] = incomingbufs[NS_CLIENT]
      /\ accepted'[NS_CLIENT] = accepted[NS_CLIENT]
      /\ reliable_buf'[s] = IF Acknowledges(s, p) THEN <<>> ELSE reliable_buf[s]
    BY <1>1, <1>2 DEF ServerProcess, AcceptPacket, TypeOK
<1>4. FragmentUnderWay(s)' <=> FragmentUnderWay(s)
    BY <1>1, <1>2, <1>3 DEF FragmentUnderWay, CaughtUp
<1>5. Acknowledges(s, p) => CaughtUp(s)
    BY <1>1, <1>2 DEF Acknowledges, ChannelInv, Acks
<1>6. FragmentUnderWay(s) => reliable_buf'[s] = reliable_buf[s]
    BY <1>3, <1>5 DEF FragmentUnderWay
<1>. QED  BY <1>2, <1>3, <1>4, <1>6, FileFrame

LEMMA NextFiles ==
    ASSUME ChunksFit, MaxWritten[NS_SERVER] = 0, TypeOK, TypeOK', IInv, ChainsInv,
           FileInv(NS_SERVER), [Next]_vars
    PROVE  FileInv(NS_SERVER)'
<1>1. ASSUME UNCHANGED <<files, sentFiles, incomingbufs, accepted, composed, reliable_buf,
                         reliable_frag, fragbufs, waitlist>>
      PROVE  FileInv(NS_SERVER)'
    <2>1. FragmentUnderWay(NS_SERVER)' <=> FragmentUnderWay(NS_SERVER)
        BY <1>1 DEF FragmentUnderWay, CaughtUp
    <2>. QED  BY <1>1, <2>1, FileFrame
<1>2. ASSUME NEW e \in Endpoint, NEW size \in WriteSizes, WriteMessage(e, size)
      PROVE  FileInv(NS_SERVER)'
    BY <1>1, <1>2 DEF WriteMessage, inVars
<1>3. ASSUME NEW size \in ResourceSizes, SendResources(size) PROVE FileInv(NS_SERVER)'
    <2>1. written[NS_SERVER] \in Nat /\ size \in Nat \ {0}
        BY PeerFacts, NetChanAssumption DEF TypeOK
    <2>. QED  BY <1>3, <2>1 DEF SendResources
<1>4. CASE SendFile
    BY <1>4, SendFileFiles
<1>5. ASSUME NEW e \in Endpoint, NEW datagram \in Datagrams, Transmit(e, datagram)
      PROVE  FileInv(NS_SERVER)'
    BY <1>5, TransmitFiles DEF Transmit
<1>6. ASSUME NEW datagram \in Datagrams, TransmitInParse(datagram) PROVE FileInv(NS_SERVER)'
    BY <1>6, PeerFacts, TransmitFiles DEF TransmitInParse
<1>7. CASE HoldBack
    BY <1>1, <1>7 DEF HoldBack, sendVars, histVars
<1>8. ASSUME NEW p \in network, ServerProcess(p) PROVE FileInv(NS_SERVER)'
    BY <1>8, ServerProcessFiles
<1>9. ASSUME NEW p \in network, ClientProcess(p) PROVE FileInv(NS_SERVER)'
    BY <1>9, ClientProcessFiles
<1>10. CASE ReadDone
    BY <1>10, ReadDoneFiles
<1>11. CASE UNCHANGED vars
    BY <1>1, <1>11 DEF vars, sendVars, inVars, histVars
<1>. QED
    BY <1>2, <1>3, <1>4, <1>5, <1>6, <1>7, <1>8, <1>9, <1>10, <1>11 DEF Next

\* No file is missing between those the client has and those the server has
\* queued, and every fragment is of the file, and at the place, it is taken for.
THEOREM FilesInvHolds ==
    ASSUME ChunksFit, MaxWritten[NS_SERVER] = 0
    PROVE  Spec => []FilesInv
<1>1. Init => FilesInv
    BY InitFiles DEF FilesInv
<1>2. FilesInv /\ ChainsInv /\ TypeOK /\ TypeOK' /\ IInv /\ [Next]_vars => FilesInv'
    BY NextFiles DEF FilesInv
<1>3. Spec => []ChainsInv
    BY ChainsInvHolds DEF Unmixed
<1>. QED  BY <1>1, <1>2, <1>3, TypeCorrect, IInvHolds, PTL DEF Spec

\* A file the client writes is the file the server sent, whatever is lost,
\* repeated or reordered and however many files wait for their turn, as long as
\* the server sends no regular data on the same channel: a fragment is then
\* alone in its payload (Netchan_CopyFileFragments, Netchan_AddBufferToList).
THEOREM FilesIntactHolds ==
    ASSUME ChunksFit, MaxWritten[NS_SERVER] = 0
    PROVE  Spec => []FilesIntact
<1>1. FilesInv => FilesIntact
    BY DEF FilesInv, FileInv
<1>. QED  BY <1>1, FilesInvHolds, PTL

=============================================================================
