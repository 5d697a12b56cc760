# Formal models of the Xash3D (Physic3D) engine

TLA+ models of the engine under `src/engine`, the TLC runs that check them on
small instances, and TLAPS proofs of what matters most for every instance. The
core is the network channel (`common/net_chan.c`), on which everything that
client and server tell each other depends; around it are the layer that splits
datagrams, the life of connections, and what a playing client and the server
exchange in every packet.

    tlc -config netchan_files.cfg MCNetChan         a run (see PROJECT.json for the list)
    tlapm NetChanProofs.tla                         the proofs of a module; also
                                                    NetChanChainProofs, NetChanFifoProofs,
                                                    NetChanFileProofs, NetSplitProofs,
                                                    ConnectProofs, PlayProofs,
                                                    PlayFrameProofs

## 1. Inventory of the system

| component | state | operations | what is hard | what makes it correct |
|---|---|---|---|---|
| **network channel** `common/net_chan.c`, `netchan.h` | per peer: sequence and acknowledgement numbers, even/odd bits, staged message, retransmission buffer, waiting chains and current fragments of two streams, reassembly lists | `Netchan_Setup`, `_Clear`, `_CreateFragments`, `_CreateFileFragments`, `_FragSend`, `_TransmitBits`, `_Process`, `_CopyNormalFragments`, `_CopyFileFragments` | loss, duplication and reordering with a one-bit acknowledgement; fragments, regular data and files share a packet; who may transmit when | reliable data arrives once, in order, unaltered; what is given up has arrived; something waiting is eventually sent |
| **netsplit** `net_chan.c:112-240` | ring of partly received datagrams | `NetSplit_SendLong`, `_GetLong` | repeated and late parts, slot reuse, the count's byte | a datagram is handed on whole and once, and only unfinished ones count as lost |
| **transport** `common/network.c` | sockets, loopback rings | `NET_SendPacket`, `NET_GetPacket` | ring overrun | delivers or loses, never invents |
| **server connections** `server/sv_client.c`, `sv_main.c` | client slots (free, zombie, connected, spawned), challenges, `lastmessage` | `SV_GetChallenge`, `SV_DirectConnect`, `SV_DropClient`, `SV_CheckTimeouts`, `SV_ReadPackets` | repeated handshake datagrams, reuse of slots, timeouts against late packets | one slot per client, a slot is reused only when its client is gone |
| **client connection** `client/cl_main.c`, `cl_parse.c` | `cls.state`, retry time, download counters | `CL_CheckForResend`, `CL_ConnectionlessPacket`, `CL_ReadNetMessage`, `CL_WritePacket`, `CL_Reconnect_f` | retries against late replies, reconnect in the middle of a download | ends up connected or disconnected, consistently with the server |
| **snapshots** `server/sv_frame.c`, `client/cl_frame.c`, `common/net_encode.c` | frame rings on both sides, `delta_sequence`, `validsequence` | `SV_SendClientDatagram`, `CL_ParsePacketEntities` | a delta against a frame that rolled off, 8-bit frame numbers | the client reconstructs the server's frame |
| **user commands** `cl_main.c`, `sv_client.c` | command ring, backups, `net_drop` | `CL_WritePacket`, `SV_ParseClientMove` | lost, repeated and held-back commands | each command runs at most once, in order |
| **events** `sv_game.c`, `cl_events.c` | per-client event slots | playback, queueing, parsing | full queues | |
| **command buffer, cvars** `common/cmd.c`, `cvar.c` | text buffer, aliases, `wait` | `Cbuf_AddText`, `_InsertText`, `_Execute` | insertion while executing, overflow | commands run in the documented order |
| **level change, host frame** `server/sv_init.c`, `common/host.c` | server state, spawn count | `SV_ActivateServer`, `Host_Frame` | channels cleared on one side only | |
| memory zones, filesystem, HPAK, ban filters, master list | lists and files | | sequential code | |
| world, physics, sound, renderer, models, demos, save games, console, input, menus, platform | | | out of reach of model checking or pure I/O | |

How they interact: once per host frame (`Host_Frame`) the server times clients
out, reads all packets (`Netchan_Process`, then the message handlers), runs the
game and sends (`Netchan_Transmit`); then the client reads all packets, copies
finished fragment chains out and sends its commands. Handlers write reliable
data by appending to `netchan.message`, or queue fragments. Two handlers reach
back into the channel while a packet is being processed: the server's
`SV_ParseResourceList` queues a file, and the client's `CL_CheckingResFile`
transmits a packet from inside the parser. `SV_DropClient`,
`SV_ActivateServer` and `CL_Reconnect_f` clear a channel that is in use.

`PROJECT.json` lists every component with its status, and the hazards of the
code line by line with the properties that cover them, or why none does yet.

## 2. Plan

Done:

1. `ReliableChannel`, `NetChan`, `NetChanInv`: the channel, its abstract
   specification, its inductive invariant; `NetChanLive`: the channel under
   fairness; `NetChanDrop`: the channel together with `SV_DropClient`.
2. `NetChanProofs`: type correctness, the invariant, and what follows from it.
3. `DatagramService`, `NetSplit`, `NetSplitProofs`: what the channel needs from
   the layer below, reassembly of split datagrams, its inductive invariant, and
   that it implements the service, proved.
4. `Connect`, `ConnectProofs`: handshake, slots, zombies, timeouts, and
   `ConnectSplit`: the lookup of netsplit clients by address.
5. `Play`, `PlayProofs`: user commands and snapshots of a playing client, which
   the first plan had as two modules; they are one because each says in its
   packets what the other needs (a command packet asks for the delta).

6. `NetChanChains` and `NetChanPipes` (where fragments are, and what has been
   handed over and what not), `PlayFrames` (what both rings hold), with
   `NetChanChainProofs`, `NetChanFifoProofs`, `NetChanFileProofs` and
   `PlayFrameProofs`; `Agreement` of `Connect`. Every safety property of the
   runs that find none violated now has a theorem.

Next, in this order:

7. `FileChunks`: the chunk arithmetic of `Netchan_CreateFileFragments` against
   a reference, with the name in the first chunk and 16-bit positions.
8. `Cbuf`: insertion, `wait`, aliases.
9. Level change: `Connect` with `NetChanDrop!NetchanClear` on one side only.

## 3. The modules and the code

**`NetChan`** models one client and one server. The state variables are the
fields of `netchan_t` under their own names, one function per variable from
endpoints to values; `waitlist`, `fragbufs` and `incomingbufs` are sequences of
fragments per stream. Payloads are sequences of units. A unit has a kind
(reliable, file, datagram) and a number, so the model can tell where each piece
of data came from. `Takes`, `HeaderOf` and `Remainder` count units where the
code counts bits and bytes. The chain arithmetic and the placement of the parts
in a packet are those of the code, including the place where `Netchan_Process`
reads and excises fragments.

| action | code |
|---|---|
| `WriteMessage` | `BF_Write*` on `chan->message`, with overflow |
| `SendResources` | `SV_SendRes_f`: `Netchan_CreateFragments`, `Netchan_FragSend` |
| `SendFile` | `SV_ParseResourceList`: `Netchan_CreateFileFragments`, `Netchan_FragSend` |
| `Transmit` | `Netchan_TransmitBits` from `SV_SendClientMessages` and `CL_WritePacket` |
| `TransmitInParse` | `Netchan_Transmit` from `CL_CheckingResFile` |
| `HoldBack` | `CL_WritePacket` when the command is held back |
| `ServerProcess` | `SV_ReadPackets`: `Netchan_Process`, chains copied out at once |
| `ClientProcess` | one turn of the loop in `CL_ReadNetMessage` |
| `ReadDone` | the end of `CL_ReadNetMessage`: chains copied out |

`frame` records where the client is in its frame, because when it may transmit
matters. The network is the set of all packets ever sent: any of them may
be processed at any time, any number of times, or never.

**`NetChanLive`** adds a stable time: before it anything may happen, after it
server and client run their frames in turn and each newly sent packet arrives.
**`NetChanDrop`** adds `SV_DropClient`, the zombie's packets and
`SV_CheckTimeouts`. **`ReliableChannel`** is what one direction promises: what
comes out is a prefix of what went in. **`NetChanInv`** states the inductive
invariant of payloads and acknowledgements, **`NetChanChains`** that of fragments,
**`NetChanPipes`** those of the data itself; the modules `NetChan*Proofs` prove
them. `MC*.tla` hold constants only.

**`NetSplit`** is the layer below: `SendLong` cuts a datagram into parts
(`NetSplit_SendLong`), `GetLong` is `NetSplit_GetLong` for one part that
arrives: `Claim` is the slot's change of datagram, `Lost` the warning,
`Duplicate`, `InBounds`, `Store` and `Whole` the tests and the copy in the order
of the code. `packets`, `recieved_v`, `received`, `count` are the fields of
`netsplit_t`; a byte of data is the number of the datagram it came from. The
receiver is a client in `ca_connected`, where `CL_WarnLostSplitPacket` counts
lost datagrams and disconnects at the eighth (`MaxLost`). The channel above sees
a split packet only as a packet that arrives or does not, which is what
`NetChan`'s network allows. **`DatagramService`** states just that (datagrams are
lost, late, repeated, but whole), and `NetSplit` implements it
(`ServesDatagrams`).

**`Connect`** is the life of a connection. Clients keep `cls.state`, whether
`cls.serveradr` is set, and a channel; slots keep `cl->state`, an address and a
channel. Channels are known by the connection that set them up, and what goes on
in them is `NetChan`'s subject: here a channel may take in or refuse any packet
that its lookup finds it for. Times are ages (`connect_age`, `heard`,
`lastmessage`, `lastconnect`); `Tick` makes everything older, datagrams too, and
waits while something is due in the next frame, because frames are far shorter
than a unit of time. The network may lose a connectionless datagram, deliver it
late, and deliver it again: reading one leaves it where it is, until it is older
than `Lifetime`. One that is sent again while an equal one is about takes its
place (`Sent`), which can then arrive whenever either could have.

| action | code |
|---|---|
| `GetChallenge`, `DirectConnect` | `SV_GetChallenge`, `SV_DirectConnect`: quick reject, reuse of the client's slot, first free slot, "Server is full." |
| `ReadPacket` | `SV_ReadPackets`: the first slot of that address that is not free, a zombie's too; the message may end the sign-on or be "disconnect" |
| `CheckTimeouts` | `SV_CheckTimeouts`: zombies and silent clients, all slots at once |
| `SendClientMessages` | `SV_SendClientMessages`: answers, frames until `sv_failuretime`, a zombie's `svc_disconnect` |
| `Kick` | `SV_DropClient` for the server's own reasons |
| `CheckForResend` | `CL_CheckForResend` |
| `Challenge`, `ClientConnect`, `Obey` | `CL_ConnectionlessPacket`, each only from the server the client is connecting to (`CL_IsFromConnectingServer`) |
| `ClientProcess`, `Timeout` | `CL_ReadNetMessage`, the timeout in `CL_ReadPackets` |
| `WritePacket` | `CL_WritePacket` |
| `UserDisconnect`, `Retry` | `CL_Disconnect_f`, `CL_Retry_f`, `CL_Connect_f` |

`CL_Disconnect` leaves its final message on the network three times and in
whatever channel there is (`Farewell`), also one of an earlier connection.
`crossed` is a history variable that no action reads. It is set when something
cuts into a handshake: a user's command while datagrams of a handshake of that
client are still about, the drop of a client that has its answer while its
questions still go round (`AskingStill`; by the server, or by the client's own
final message), and the end of a sign-on while a copy of its `client_connect` is
still about.
**`ConnectSplit`** adds packets longer than `cl_maxoutpacket` and the branch of
`SV_ReadPackets` that handles them.

**`Play`** follows a client that plays. A command or frame is known by the number
of the packet it was made for, so the rings (`commands`, `frames`, `sv_frames`)
hold numbers, and a delta that is decoded against anything but the frame it was
made from gives `None`. The buffers of entities are known by how far they have
been written (`first`, `next_entity`, `sv_next_entity`): that is what both sides
compare. `CL_ParsePacketEntities` looks before it reads whether its base leaves
128 entities clear (`Margin`), but a frame may have 512: where a longer one
writes over its base while it reads it, the model lets it come out right or
wrong (`Intact`, `Entities`). `short` is history in each frame: neither it nor
the frames it came of were longer than the entities kept clear.

| action | code |
|---|---|
| `WritePacket`, `HoldBack` | `CL_CreateCmd` and `CL_WritePacket`, sending or holding the command back |
| `ParseMove` | `Netchan_Process`, `SV_ExecuteClientMessage`, `SV_ParseClientMove`; `Batch` is what `SV_RunCmd` runs, 0 a repetition of the last command |
| `SendClientDatagram` | `SV_WriteClientdataToMessage`, `SV_WriteEntitiesToClient`, `SV_EmitPacketEntities`; frames of other clients before it |
| `Flush`, `ParsePacketEntities` | `CL_ParseClientData`, then `CL_ParsePacketEntities` with its three tests for a base that is too old |

The numbers of frames stay whole, and `Byte` is what they are on the wire.

## 4. The runs

| run | shows |
|---|---|
| `netchan_fragments` | a fragmented message of 3 units (2 chunks) and a regular message of 4, more than the payload limit of 3, which stalls behind it and is queued as fragments. Chains never mix, no gap is found, and the server's direction implements `ReliableChannel`, although the client may transmit while it parses; the invariants `IInv`, `ChainsInv` and `ServerPipe` of the proofs. A second message of 4 before the first is sent overflows the server's staged message, whose channel then falls silent. |
| `netchan_files` | two files of 2 chunks, one after the other, with datagrams in the same packets, no other reliable data of the server's, and a message of the client's: payloads once and in order, acknowledgements, one packet in flight; each file arrives intact, and the client's direction implements `ReliableChannel`; the invariant `FilesInv`. |
| `netchan_live` | after a time in which two packets of the server and one of the client were lost, repeated or reordered at will, whatever was handed over is delivered, and the senders come to rest. |
| `netchan_file_mixed` | **violation**: a file fragment behind regular data in its packet is read from the wrong place. |
| `netchan_block` | **violation**: with `net_blocksize` above the payload limit the packets marked reliable are empty. |
| `netchan_drop` | **violation**: dropping a client with a payload in flight can lose the final message for good. |
| `netsplit` | three datagrams of 2 or 3 parts, one of them too long for a slot, in two slots, so that the third shares its slot with the first; parts lost, repeated and late at will: whatever is handed on is whole, is handed on once with its last part, and is not counted as lost later; the refinement of `DatagramService`; the invariant of the proofs. |
| `netsplit_parts` | **violation**: with a count that does not fit its byte, a datagram is handed on although some of its parts were never sent. |
| `connect` | one client that may give two commands (connect, retry, disconnect, also while it is connecting) and be dropped once, over a network where each datagram of the handshake may be lost, be late and come again; two slots, so that a zombie may stand in front of a new connection: one slot each, the same connection on both sides, a zombie hides the new slot no longer than `zombietime`; the invariant `HandshakeInv` of the proofs. |
| `connect_live` | the same with three commands, and datagrams that do not outlast a unit of time: each attempt ends and no connection stays half open. |
| `connect_split` | **violation**: a long packet of a client gets it disconnected. |
| `play` | 4 packets of commands against 5 frames, rings of 4: commands once and in order, no more time than has passed, nothing missed within the backups, frames that came of short ones decoded as sent although both buffers of entities roll over and longer frames come between; the invariant `FrameInv` of the proofs. |

What the violations mean:

* *Files mixed with messages.* `Netchan_Process` sets a second reader up at the
  fragment (`temp`, `net_chan.c:1806`) and then reads from `msg` (1807), so the
  fragment gets the bytes at the front of the packet, and the excision is off
  by as much. A fragment alone at the front (`netchan_files`) is where `msg` stands
  and is read right. That is all: a datagram behind it is left to what the code's
  reading and excision make of it, in the model as in the code, and no property
  says that it comes out right. The normal stream is safe because regular data
  stalls while it sends.
* *Chunk size.* The cvar is bounded by 1400 for the normal stream
  (`net_chan.c:725`), but a fragment of 1200 bytes or more never satisfies
  `newpayloadsize < MAX_RELIABLE_PAYLOAD` (1429).
* *Dropped clients.* `Netchan_Clear` forgets the payload in flight but keeps
  `reliable_sequence`. The next payload toggles the bit back to what the peer has
  acknowledged before, so the acknowledgement of an older payload passes for
  its own; if its packet is lost, nothing resends it.
* *Too many parts.* `packet.count = ( length - 1 ) / part + 1` is stored in a
  byte (`net_chan.c:220`). With the smallest packet size, 100, a datagram of
  more than 20910 bytes has more than 255 parts, while messages may have 80000.
* *Long packets of a client.* The loop that looks the sender up
  (`sv_main.c:393-404`) never breaks, so the packet always counts as one from an
  unknown address and is answered with `disconnect`, which the client obeys.

A few operators are used by no action: `FreshOrSame`, `NeedsResendNever`,
`ClaimKeepsMarks` and the like, each next to the definition it varies. They are
plausible mistakes in that place of the code; put in for the definition, each
makes TLC find the property violated that `PROJECT.json` ("mutants") names.

Bounds. `MaxSeq` bounds the packets of each side (4 of the server and 3 of the
client, 8 each in the live run), `MaxWritten` the reliable units and
`MaxFiles` the files. An even/odd error needs two payloads in one direction and
the acknowledgement of the first, repeated or late: three packets of the sender
and two of the peer. A chain needs two fragments to mix with another of two,
which takes four packets of the server and the answers to three of them. Sizes are the smallest with a full
chunk, a last partial chunk, and a message above the payload limit. For the
netsplit, `NETSPLIT_BACKUP` is 2 instead of 8 and `MaxSent` 3, the fewest
datagrams of which two share a slot; bytes have 2 bits (`CountRange`), so three
parts are the most that can be counted, as 255 are in the code. For
the connections, zombies stay 2, as in the code; the reconnect limit is 4 (3 in
the code, where a unit of time may be shorter than a second), and a getchallenge
is sent again after 5 (10). The two timeouts are 3 and 4, while the code's 60 and
100 seconds are longer than everything else: each can then end a connection
between two getchallenges, which is the harder case. In `connect` a datagram of the
handshake may be on the way for one unit, which is the most that `HandshakeShort`
allows with these limits, so that the copies of all four kinds overlap. `connect_live`
has datagrams that last less than a unit, to afford the third command: a user who
leaves and connects again, whose final message then comes to a zombie or is lost
for good. A frame sends only onto a network without packets of channels
(`MaxNetwork`); the handshake's datagrams and final messages have no such bound;
five names are enough to tell the connections apart that can be known of at the
same time. For a playing client, 4 packets are enough to lose more commands than
the one backup and then to get a packet; `MAX_TOTAL_CMDS` and `MaxCmds` are both 3,
so that a packet with its backup and as many new commands as it may have is one
that the server drops the client for. Five frames wrap the rings of 4; the buffers
of entities hold 8 and 3 entities, frames have one or two, one is kept clear, and
before each frame another client's takes one: frames roll off both buffers, and
frames longer than what is kept clear meet bases that they overwrite. A delta
whose number has come round again (`outrun` 2) takes more frames than there are
in the run; what holds until then is a theorem. Only the last packet
of the client and the last two of the server are on the way: an older one is
lost. A number on the wire has 3 bits, twice the ring, as 256 is at least twice
the ring in the code. The runs
end when the sequence bounds are used up, and a channel with an overflowed message
sends nothing more, so deadlock is not checked.

Some properties have conditions, and they are not for show. `Agreement` holds
until something cuts into a handshake (`crossed`), and as long as a handshake and
all copies of its datagrams are over in time (`HandshakeShort`, in units of the
time `L` that a datagram may be on the way):

* `4 L` below the 10 seconds of `CL_CheckForResend`, or what came of one
  getchallenge meets what comes of the next;
* `3 L` below `sv_reconnect_limit`, or a copy of a getchallenge or challenge ends
  in a `connect` that is no longer turned away, but sets the slot up anew
  (`sv_client.c:288-292`, 371), while the client, which is signing on, ignores the
  new `client_connect` (`cl_main.c:1896`);
* `3 L` within `sv_timeout`, or the slot is given up before the last such copy.

With the code's defaults (10, 3 and 100 seconds) it is the second that counts: a
datagram must not be on the way for a second. TLC finds `Agreement` or
`HandshakeInv` violated without any one of these bounds, and without any one of
the cases of `crossed`. Within them, a copy that comes too soon for the reconnect
limit is answered with `disconnect`, which the client obeys although its
connection was good. That is no disagreement, since the client then holds no
channel; its final message drops the slot, or if that is lost `sv_timeout` does, as
`HalfOpenEnds` says. `OneSlotEach`, `HiddenShortly`, `ConnectingEnds` and
`HalfOpenEnds` have no such condition.

`EntitiesRight` and `ClientDataRight` hold as long as no delta is asked for
against a frame that is too old (`outrun`), `EntitiesRight` moreover only of frames
that came of differences no longer than the 128 entities the client keeps clear
(`short`): a frame may have 512 (`MAX_VISIBLE_PACKET`), and TLC finds one that
overwrote its base if the condition is left out. A frame is too old for the client
data (1) once the server's ring has come round: `SV_EmitPacketEntities` often
notices, by the entities, and then sends a full update, but the client data of
the same packet are still a delta (`sv_frame.c:500`), against the frame that is
in the slot by then, and `CL_ParseClientData` has no test for it; with the
condition removed, TLC finds the client with wrong data. It is too old for the
entities (2) once its byte stands for another frame. Both take a time in which
the server hears the client (else `sv_failuretime` stops its frames) and the
client does not hear the server: one ring is about two seconds of frames at
`cl_updaterate` 60, and the client stops asking for deltas after
`CONNECTION_PROBLEM_TIME`, three seconds, if it has by then also sent
`CL_UPDATE_MASK` packets that are not acknowledged (`cl_main.c:645-647`); the client data are right again with the next delta
from a good frame or the next full update.

Fairness. `NetChanLive` and `Connect` have some. In `NetChanLive` it is weak
fairness of the end of the bad time, and of the disjunction of the frame steps. The host loop keeps calling
`Host_Frame`, which runs the server's frame and then the client's, each
reading all packets there are before it sends. There is no fairness on the
network before the stable time. Without an end of the bad time nothing can be
promised, since every packet may be lost. In `Connect`, time passes (strongly
fair, since frames come between), `SV_CheckTimeouts`, `SV_SendClientMessages`,
`CL_CheckForResend` and the client's timeout run in every frame (weakly fair),
and of the datagrams that the handshake sends again and again some arrive
(strongly fair per kind and client; a network that loses every one of a kind
connects nobody). No fairness is asked of packets in a channel, of the final
messages, or of users.

## 5. What is proved

`NetChanProofs`, checked by TLAPS for every value of the constants that
satisfies `NetChanAssumption` (sizes are numbers, chunks and files are not empty:
`Netchan_CreateFileFragments` refuses a file of size 0, `net_chan.c:950`):

* `TypeCorrect`: `Spec => []TypeOK`.
* `FragmentsAlwaysFit`: under `ChunksFit` (both chunk sizes are below the payload
  limit) no queued fragment is empty or too big. `netchan_block` shows what
  happens without `ChunksFit`.
* `IInvHolds`: under `ChunksFit`, `Spec => []IInv`.
* `InOrderOnceHolds`, `AckMeansAcceptedHolds`, `OneInFlightHolds`: consequences
  of the invariant.

The argument. None of the three properties is inductive: whether a packet that
is still on the network is harmless depends on what its sender knew when it was
sent. `IInv` says, for the payloads that `s` sends to its peer:

* `Counts`: the peer lacks at most the last payload, and the two bits agree
  exactly when it lacks none;
* `Numbers`: nobody is ahead of what was sent;
* `Payloads`: only the last copy of the last payload can still be taken in, and
  only if the peer does not have it. A copy is repeated only when the peer has
  acknowledged a later packet (`incoming_acknowledged > last_reliable_sequence`)
  and thus can no longer take the earlier copy in;
* `Acks`: an acknowledgement that can still be heard and says "received" is
  true, a later one then says so too, and one that answers the last copy says
  it if it is so. While nothing is unacknowledged, all of them say "received".

A payload is composed only when nothing is unacknowledged, which by `Acks` means
the peer has everything and no contradicting answer is on the way; so toggling
the bit makes every answer on the way a "not received". That a composed payload
is not empty (`PayloadNotEmpty`) is needed here, because an empty buffer counts
as acknowledged. The proof has one lemma per step and direction
(`SenderTransmits`, `ReceiverTransmits`, `ReceiverAccepts`, `SenderAccepts`,
`HoldBackKeeps`, `UntouchedKeeps`). It uses neither the bound on packets nor
the client's frame, and it does not use the test `incoming_acknowledged + 1 >=
last_reliable_sequence` in `Netchan_Process`: the safety of the protocol does
not rest on it.

`NetChanChainProofs`, under `ChunksFit`:

* `ReliableBitMeansPayloadHolds`: no packet is marked reliable and empty.
* `ChainsInvHolds`, `SingleChainHolds` and `NoReconnectHolds`: chains never mix, no
  gap is found; if the server does not have both regular data and files to send
  (`Unmixed`), or the client does not transmit while it parses
  (`ParseTransmits`).

`Netchan_AddBufferToList` and `Netchan_CheckForCompletion` only count, so that
what they count is one chain must come from where the fragments are. `ChainsInv`
says that the client's list is the beginning of a chain, the fragment under way
the next of it, and what the server still holds the end of the same chain or the
beginning of another (`Places`); that what waits are whole chains (`Queues`);
what a packet that can still be taken in contains (`Packets`); and that while a
complete chain waits to be copied out nothing can make the server go on
(`Ready`), because the client has not yet told it. The condition is there for
`Ready`: a client that transmits in the middle of parsing tells the server
before the end of its read loop. If regular data and files do not meet, a
fragment is alone in its packet and none is parsed after it (`Alone`); if they
do, TLC finds `Ready` violated with the constants of `netchan_file_mixed`: the
server hears of the last fragment while the chain still waits to be copied out.

`NetChanFifoProofs`, under `ChunksFit`:

* `ToServerFifoHolds`: the client's direction implements `ReliableChannel`.
* `ServerPipeHolds`, `ToClientFifoHolds`: so does the server's, fragments and
  stalled data included, if no file is sent (`MaxFiles = 0`: see
  `netchan_file_mixed` for what a file next to regular data does).

`PipeInv` says that what was written is, in this order, what the peer's parser
has got, the fragments in its list, the payload under way, the rest of the
current chain, the chains that wait, and the staged message. Each step moves
data across one of these borders: one lemma each (composing a payload, promoting
a chain, queueing a message as fragments, taking a packet in, copying a chain
out). That a step then is a step of `ReliableChannel` or none follows from the
equation before and after it (`ToServerFlow`, `ToClientFlow`). Cutting a message
into fragments and joining them again gives the message: since an induction
theorem cannot be used here, `Concat` is followed along its partial results,
whose existence is shown with the least number for which they would not exist.

`NetChanFileProofs`, under `ChunksFit` and with no regular data of the server's
(`MaxWritten[NS_SERVER] = 0`, without which `netchan_file_mixed` shows it false):
`FilesInvHolds` and `FilesIntactHolds`. Every fragment, waiting, under way or
in the client's list, is of the file, and is the fragment of it, that it is
taken for, and the numbers of the files run on from the client's to the
server's (`FilesQueued`). As the client takes fragment by fragment in order, a
complete list is the whole file.

`NetSplitProofs`, for every number of slots, size of parts and set of lengths:

* `TypeCorrect`: `Spec => []TypeOK`, also for lengths that do not fit.
* Under `CountsFit` (no length has more parts than the count's byte can say;
  `netsplit_parts` shows what happens without it): `IInvHolds`,
  `WholeDatagramHolds`, `CompletesWhenWholeHolds`, `OnlyUnfinishedLostHolds`,
  and `ServesDatagramsHolds`, the refinement of `DatagramService`: what has been
  sent stays sent (`OriginalsStay`), and what is handed on is a datagram that was
  sent (`HandedOnIsOriginal`, from `WholeDatagram` after the step).

`NetSplit_GetLong` only compares two counters, so that the datagram is whole
must come from elsewhere. `IInv` says that every part on the network describes
its datagram truly (`Headers`), that `received` is the number of marks and all
marks are parts of the datagram the slot belongs to (`Marks`), that the bytes of
every marked part are in the buffer (`Contents`), and that a datagram has been
handed on exactly if all its parts are marked (`Completions`). A set of marks
below `n` that has `n` members is all of them (`AllMarked`), and every byte is in
one of the parts (`PartOfByte`). `ClaimedSlot` and `StoredSlot` follow the slot
through `NetSplit_GetLong`.

`ConnectProofs`, for any set of clients, number of slots and limits of time:

* `TypeCorrect`: ages stay within their caps and a slot in use has an owner.
* `OneSlotEachHolds`: no client ever holds two slots in use. The invariant is
  inductive with the types: only `SV_DirectConnect` fills a slot, and it takes the
  client's own if it has one.
* `HiddenShortlyHolds`: a slot that is in use has been heard of at its
  `SV_DirectConnect` or later, and a zombie of the same client in front of it was
  dropped before that (while it lived, the client would have been given that very
  slot) and does not grow younger, because what it takes in does not touch its
  `lastmessage`. So the hidden slot has not been silent for longer than the zombie,
  and `SV_CheckTimeouts` ends the zombie in time.
* `HandshakeInvHolds` and, from it, `AgreementHolds`, under `HandshakeShort`. A
  datagram that is read stays on the network, so each may be answered any number
  of times; what bounds them is age: one of a kind is at most `Before(kind)` plus
  its own age younger than the getchallenge it came of. While the client is
  connecting, nothing on the way is thus older than its last getchallenge
  (`Way`). As soon as one connect is accepted, the slot is younger than the
  questions still on the way allow (`AskingStill`), so it is below the reconnect
  limit when the others come, and they are turned away; the slot cannot be
  given up by a timeout meanwhile. Hence all copies of `client_connect` name one
  connection, the slot's. When the client asks again, `Way` has left nothing of the
  handshake before. Most steps only answer or lose questions (`Quiet`), which
  disturbs nothing; what would disturb it sets `crossed`.

`PlayProofs`, for any sizes of rings, buffers and frames, under
`PlayAssumption`. It asks that backups and new commands together fit the ring of
commands: at most 16 and 16 against the 128 slots of multiplayer; the 16 slots of
single player are left out. It does not ask that they are at most 28, for which
the server drops the client:

* `TypeCorrect`.
* `CommandInvariant`, and from it `CommandsOnceHolds`, `TimeKeptHolds` and
  `NothingMissedHolds`.

`CommandsOnce` alone is not inductive. `SendInv` adds what the client and the
network know: the ring holds the commands of the last packets (`Ring`, by
`SlotsDiffer`: numbers less than a ring apart have different slots); a packet on
the way carries just these, has a number the server has not seen, and announces
no more new commands than were made since any packet that the server has seen or
may yet see before it (`MoveInv`, `NewBetween`). So the commands a packet makes
the server run all have numbers after the last packet seen (`BatchRuns`), and
they are at most as many as the packets in between, repetitions included.
`RunInv` says that what was run lies before the last packet seen.

`PlayFrameProofs`, under `PlayAssumption` and `RingsFit` (the ring's size divides
256: `netchan.h:61` has it a power of 2): `FrameInvHolds`, and from it
`EntitiesRightHolds` and `ClientDataRightHolds`. The client decodes a delta from
the ring slot that a byte names, so the question is what is in that slot when the
update arrives, which may be late or one of several. `FrameInv` says of every
frame that the client has asked for a delta from, in its state, in a packet on
the way or at the server, and of every one that an update on the way was made
from, that the client still has it, right, until the slot comes round
(`Held`); that an update was made from that frame as long as the server's ring
held it (`DifferenceTo`), entities only as far as the frames were `short`; and that the server's ring holds the last frames
sent (`ServerRing`). A byte names the slot of the number it came from since the
ring's size divides 256 (`ByteSlot`), and numbers less than 256 apart have
different bytes (`ByteApart`). Frames may have any length: a base that passes the
test for `Margin` is not overwritten by a frame of at most `Margin` entities, and
of a longer one nothing is claimed. This proof showed that two cases of `Outruns` and
of `Entities` in `Play` overlapped, where TLA+ leaves open which one is taken
(TLC takes the first): they are now alternatives in the order of the code.

Only model-checked: liveness (`Delivered`, `ComesToRest`, `ConnectingEnds`,
`HalfOpenEnds`), which this prover cannot do. What a run finds violated has no
theorem; the hypotheses `ChunksFit`, `CountsFit`, `Unmixed` and those on
`MaxFiles` and `MaxWritten` mark the places.

## 6. What is left out

Of the channel: out-of-band packets, the rate limit, flow statistics, Huffman
and file compression, qport, file names and progress; widths (sequence numbers
are unbounded, `frag_startpos` is not 16 bits wide); fragments sent by the
client (no caller queues any); several clients (each has a channel of its own); `SV_SendRes_f`
between an overflow of the server's message and the drop that follows it within
the frame (it would queue the whole overflowed buffer).
The messages' contents are not interpreted, so that a client asks for a file is
not tied to what it received: `SendFile` may happen at any time, which is
more than the code does.

Of the netsplit: compression (`Huff_CompressData` before cutting, decompression
after merging), the flow counters, datagrams of an earlier connection that are
still on the way, and the wrap of the 32-bit datagram number.

Of the connections: sequence numbers (a channel may take in a packet of an
earlier connection, which is more than the code does), the contents of
challenges and their replacement when there are too many, passwords, userinfo
and other reasons to refuse a client (each ends in the same `disconnect`), the
commands of the sign-on one by one and its downloads, level change
(`svc_changing`, `CL_Reconnect_f`), servers that shut down, single player and
local clients, bots, the choke of the rate limit, and `cl.timeoutcount`.
`DisconnectMeansDropped` leaves out a `disconnect` that may answer a `connect`.

Of a playing client: what a command does, pause and frozen players,
`SV_EstablishTimeBase`, checksums (a packet that fails one counts as lost), which
entities a frame has and how fields are encoded, a message that overflows and is
sent empty, the choke, demos, the counter of entities near its limit, and when
exactly the client forgets its frame (`MayForget` may happen at any time). The
packet of the sign-on that carries no command (`CL_CheckingResFile`) and the
shorter rings of single player are left out as well.

### Not modelled

The components that `PROJECT.json` lists as `not_modelled` are floating-point
geometry and signal processing (physics, sound, rendering), file formats and
file I/O (models, images, save games, demos, HPAK), user interface, platform glue
and game code, none of which has state that model checking would say much about,
and sequential lists and allocators, for which tests do as well. These are by far
most of the repository's lines. Within the reach of the method, and still to do,
are the command buffer, event queues and level change.
