---------------------------- MODULE NetChanPipes ----------------------------
(***************************************************************************)
(* The inductive invariants behind ToClientFifo, ToServerFifo and          *)
(* FilesIntact: what has been handed to a netchan is, in its order, what   *)
(* the peer has got, what is in its reassembly list, in the payload under  *)
(* way, in the chains that wait, and in the message that is being staged.  *)
(***************************************************************************)
EXTENDS NetChanChains

-----------------------------------------------------------------------------
(* Regular data. *)

Flat(waits) == Concat([k \in 1..Len(waits) |-> Joined(waits[k])])

\* The payload the peer has not taken in yet.
UnderWay(s) == IF CaughtUp(s) THEN <<>> ELSE reliable_buf[s]

\* What s still has to compose payloads of.
Queued(s) ==
    Joined(fragbufs[s][FRAG_NORMAL_STREAM]) \o Flat(waitlist[s][FRAG_NORMAL_STREAM]) \o message[s]

PipeInv(s) ==
    LET r   == Peer(s)
        inb == incomingbufs[r][FRAG_NORMAL_STREAM]
    IN  /\ received[r] \in Seq(DataUnit)
        /\ inb \in Seq(DataFragment)
        /\ reliable_frag[s][FRAG_FILE_STREAM] = NoHeader
        /\ ~CaughtUp(s) /\ reliable_frag[s][FRAG_NORMAL_STREAM].id = 0 => inb = <<>>
        /\ Packets(s)
        /\ received[r] \o (Joined(inb) \o (UnderWay(s) \o Queued(s))) = Reliables(1, written[s])

\* Whatever the server has handed to its channel is, in its order and once, what
\* the client has parsed, then what it is still putting together, what is under
\* way and what waits (Netchan_Transmit, Netchan_Process).
ServerPipe == PipeInv(NS_SERVER)

\* Only the normal stream is in use, and when the payload was given up and no
\* fragment is left, the peer does not wait for one.
SingleStream(s) ==
    /\ Queues(s)
    /\ fragbufs[s][FRAG_FILE_STREAM] = <<>> /\ waitlist[s][FRAG_FILE_STREAM] = <<>>
    /\ reliable_buf[s] = <<>> /\ fragbufs[s][FRAG_NORMAL_STREAM] = <<>> =>
          incomingbufs[Peer(s)][FRAG_NORMAL_STREAM] = <<>>

\* The fragment under way is all of its payload, and the next the peer waits for.
NextFragment(s) ==
    LET inb == incomingbufs[Peer(s)][FRAG_NORMAL_STREAM]
        h   == reliable_frag[s][FRAG_NORMAL_STREAM]
    IN  ~CaughtUp(s) /\ h.id # 0 =>
            /\ h.start = 0 /\ h.len = Len(reliable_buf[s])
            /\ h.id = Len(inb) + 1 /\ h.id <= h.count
            /\ IsStart(inb) /\ (inb # <<>> => CountOf(inb) = h.count)

-----------------------------------------------------------------------------
(* Files, where nothing else is sent reliably. *)

FileChain(f) == Chain(FileData(f), FileChunk)

\* A fragment of the file stream is on its way to the client.
FragmentUnderWay(s) == ~CaughtUp(s) /\ reliable_frag[s][FRAG_FILE_STREAM].id # 0

\* The number of the file whose fragments the client waits for, and of the last
\* one of which a fragment was sent.
Awaited == Len(files) + 1
LastBegun(s) ==
    IF incomingbufs[Peer(s)][FRAG_FILE_STREAM] # <<>> \/ FragmentUnderWay(s)
    THEN Awaited ELSE Len(files)

\* The number of the last file that has left the list of waiting chains.
LastPromoted(s) == sentFiles - Len(waitlist[s][FRAG_FILE_STREAM])

\* Fragments of file f, each at its number.
AreFragmentsOf(bufs, f) ==
    \A k \in 1..Len(bufs) :
        /\ bufs[k].id \in 1..Len(FileChain(f))
        /\ bufs[k] = FileChain(f)[bufs[k].id]

\* What waits and what is left to be sent.
FilesQueued(bufs, waits, promoted, begun) ==
    /\ \A j \in 1..Len(waits) : waits[j] = FileChain(promoted + j)
    /\ AreFragmentsOf(bufs, promoted)
    /\ promoted = IF bufs # <<>> /\ bufs[1].id = 1 THEN begun + 1 ELSE begun

FileInv(s) ==
    LET h == reliable_frag[s][FRAG_FILE_STREAM]
    IN  /\ files \in Seq(Seq(DataUnit)) /\ FilesIntact
        /\ AreFragmentsOf(incomingbufs[Peer(s)][FRAG_FILE_STREAM], Awaited)
        /\ FragmentUnderWay(s) =>
              /\ h.id \in 1..Len(FileChain(Awaited))
              /\ [id |-> h.id, count |-> h.count, data |-> reliable_buf[s]]
                    = FileChain(Awaited)[h.id]
        /\ LastPromoted(s) \in Nat
        /\ FilesQueued(fragbufs[s][FRAG_FILE_STREAM], waitlist[s][FRAG_FILE_STREAM],
                       LastPromoted(s), LastBegun(s))

\* Between the files the client has and those the server has queued none is
\* missing, none twice: the fragments the client has are of the first file it
\* does not have, so is the one under way, and the chains that wait follow it.
FilesInv == FileInv(NS_SERVER)
=============================================================================
