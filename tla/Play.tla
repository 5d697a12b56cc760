-------------------------------- MODULE Play --------------------------------
(***************************************************************************)
(* A client that plays: the user commands it sends, of which every packet  *)
(* repeats some in case earlier packets were lost, and the frames the      *)
(* server sends it, each as a difference to one the client says it has.    *)
(* The two meet in the packets: a packet with commands asks for the delta, *)
(* and a frame acknowledges the packets.                                   *)
(*                                                                         *)
(* The channels number packets and drop late and repeated ones; reliable   *)
(* payloads are the subject of NetChan.  What a frame says is known by the *)
(* number of the packet it was made for, what a command says by the number *)
(* of the packet it was made for.                                          *)
(***************************************************************************)
EXTENDS Integers, Sequences, FiniteSets

CONSTANTS
    UpdateBackup,    \* CL_UPDATE_BACKUP and SV_UPDATE_BACKUP, slots of the rings
    ByteValues,      \* 256: what a delta's number on the wire can tell apart
    ServerEntities,  \* svs.num_client_entities, shared by all clients
    ClientEntities,  \* cls.num_client_entities
    Margin,          \* 128: entities the client keeps clear for a new frame
    Sizes,           \* entities in a frame
    Others,          \* entities in the frames sent to another client
    CmdBackup,       \* cl_cmdbackup
    MaxTotalCmds,    \* MAX_TOTAL_CMDS
    MaxCmds,         \* 28, the most commands the server takes in a packet
    MaxDrop,         \* 24: with as many packets missing none is made up for
    MaxPackets,      \* bound: the client's packets
    MaxFrames,       \* bound: the server's packets
    MovesOnTheWay,   \* bound: how many of the client's last packets may still
                     \* arrive
    UpdatesOnTheWay, \* bound: how many of the server's
    None             \* the content of a frame that was decoded wrongly

ASSUME PlayAssumption ==
    /\ UpdateBackup \in Nat \ {0, 1} /\ ByteValues \in Nat \ {0}
    /\ ServerEntities \in Nat /\ ClientEntities \in Nat /\ Margin \in Nat
    /\ Sizes \subseteq Nat /\ Others \subseteq Nat
    /\ {CmdBackup, MaxTotalCmds, MaxCmds, MaxDrop} \subseteq Nat
    /\ CmdBackup + MaxTotalCmds <= UpdateBackup /\ CmdBackup < MaxDrop
    /\ {MaxPackets, MaxFrames, MovesOnTheWay, UpdatesOnTheWay} \subseteq Nat
    /\ None \notin Nat

\* Powers of two: a frame's slot can be told from its number on the wire.
ASSUME RingsFit == ByteValues % UpdateBackup = 0

VARIABLES
    \* the client
    state,            \* cls.state: "connected" or "active"
    outgoing,         \* netchan.outgoing_sequence
    lastoutgoing,     \* cls.lastoutgoingcommand
    commands,         \* cl.commands: the command in each slot
    force_send,       \* cl.force_send_usercmd
    incoming,         \* netchan.incoming_sequence
    validsequence,    \* cl.validsequence
    frames,           \* cl.frames; history: short, as long as neither this one nor
                      \* those it came of have more entities than are kept clear
    next_entity,      \* cls.next_client_entities
    \* the server
    sv_outgoing, sv_incoming,
    delta_sequence,   \* cl->delta_sequence
    sv_frames,        \* cl->frames
    sv_next_entity,   \* svs.next_client_entities
    ran,              \* the commands SV_RunCmd has run, 0 for cl->lastcmd
    dropped,          \* SV_DropClient was called
    \* packets on the way
    moves, updates,
    \* history: 1 once a delta was made from a frame that the server's ring no
    \* longer held, 2 once from one so old that its number was mistaken
    outrun

cmdVars    == <<outgoing, lastoutgoing, commands, force_send>>
frameVars  == <<state, incoming, validsequence, frames, next_entity>>
runVars    == <<sv_incoming, delta_sequence, ran, dropped>>
sendVars   == <<sv_outgoing, sv_frames, sv_next_entity, outrun>>
vars == <<cmdVars, frameVars, runVars, sendVars, moves, updates>>

NoDelta == -1

\* The numbers of frames stay whole here; this is what they are on the wire.
Byte(n) == IF n = NoDelta THEN NoDelta ELSE n % ByteValues

Slot(n) == n % UpdateBackup

\* What stays of the packets on the way when number n is sent, as the last of k.
OnTheWay(packets, n, k) == {p \in packets : p.seq > n - k}

Init ==
    /\ state = "connected"
    /\ outgoing = 1
    /\ lastoutgoing = -1
    /\ commands = [i \in 0..UpdateBackup - 1 |-> 0]
    /\ force_send = FALSE
    /\ incoming = 0
    /\ validsequence = 0
    /\ frames = [i \in 0..UpdateBackup - 1 |->
                   [ents |-> None, data |-> None, first |-> 0, short |-> FALSE]]
    /\ next_entity = 0
    /\ sv_outgoing = 1
    /\ sv_incoming = 0
    /\ delta_sequence = NoDelta
    /\ sv_frames = [i \in 0..UpdateBackup - 1 |-> [id |-> None, first |-> 0]]
    /\ sv_next_entity = 0
    /\ ran = <<>>
    /\ dropped = FALSE
    /\ moves = {}
    /\ updates = {}
    /\ outrun = 0

-----------------------------------------------------------------------------
(* The client sends (CL_SendCmd).                                          *)

\* CL_CreateCmd makes a command in every frame.
CreateCmd == commands' = [commands EXCEPT ![Slot(outgoing)] = outgoing]

\* With a connection problem, and while cl_nodelta is set, the client forgets
\* which frame it has.
MayForget == UNCHANGED validsequence \/ validsequence' = 0

Bound(low, n, high) == IF n < low THEN low ELSE IF n > high THEN high ELSE n

\* The new command counted with the backups.
NumBackupInclusive == IF state = "active" THEN CmdBackup + 1 ELSE 0

NumBackup == IF state = "active" THEN CmdBackup ELSE 0

\* How many real commands have queued up.
NewCmds ==
    IF state # "active" \/ lastoutgoing = -1 THEN 0
    ELSE Bound(0, outgoing - lastoutgoing, MaxTotalCmds)

\* The last packet's commands stay in the ring: cmds[i] is the command made i
\* packets ago.
Move ==
    [seq    |-> outgoing,
     backup |-> NumBackup,
     new    |-> NewCmds,
     cmds   |-> [i \in 0..NumBackup + NewCmds - 1 |-> commands'[Slot(outgoing - i)]],
     delta  |-> IF validsequence' # 0 /\ state = "active"
                  THEN validsequence' ELSE NoDelta]

WritePacket ==
    /\ outgoing <= MaxPackets
    /\ CreateCmd
    /\ MayForget
    /\ moves' = OnTheWay(moves, outgoing, MovesOnTheWay) \cup {Move}
    /\ lastoutgoing' = outgoing
    /\ outgoing' = outgoing + 1
    /\ force_send' = FALSE
    /\ UNCHANGED <<state, incoming, frames, next_entity,
                   runVars, sendVars, updates>>

\* The packet is held back; its number is not used.
HoldBack ==
    /\ outgoing <= MaxPackets
    /\ ~force_send
    /\ CreateCmd
    /\ MayForget
    /\ outgoing' = outgoing + 1
    /\ UNCHANGED <<lastoutgoing, force_send, state, incoming, frames,
                   next_entity, runVars, sendVars, moves, updates>>

-----------------------------------------------------------------------------
(* The server receives (SV_ParseClientMove, SV_ExecuteClientMessage).      *)

NetDropOfAll(m) == m.seq - (sv_incoming + 1)

NetDropLess(m) == m.seq - (sv_incoming + 1) - m.new

\* net_drop: packets missing before this one, those whose commands come with it
\* as new ones not counted.
NetDrop(m) == m.seq - (sv_incoming + 1) + 1 - m.new

\* Packets of which nothing is made up for are missing without effect.
Missing(m) == IF NetDrop(m) < MaxDrop THEN Bound(0, NetDrop(m), NetDrop(m)) ELSE 0

Repeats(m) == IF Missing(m) > m.backup THEN Missing(m) - m.backup ELSE 0

Total(m) == Missing(m) + m.new

BatchNewestFirst(m) ==
    [k \in 1..Total(m) |-> IF k > Total(m) - Repeats(m) THEN 0 ELSE m.cmds[k - 1]]

\* The commands in the order they are run: for missing packets first the last
\* command again, as far as there are no backups, then backups, then the new ones.
Batch(m) ==
    [k \in 1..Total(m) |-> IF k <= Repeats(m) THEN 0 ELSE m.cmds[Total(m) - k]]

ParseMove(m) ==
    /\ ~dropped
    /\ m.seq > sv_incoming
    /\ sv_incoming' = m.seq
    /\ moves' = {p \in moves : p.seq > m.seq}
    /\ IF m.backup + m.new > MaxCmds
         THEN dropped' = TRUE /\ UNCHANGED <<ran, delta_sequence>>
         ELSE /\ ran' = ran \o Batch(m)
              /\ delta_sequence' = m.delta
              /\ UNCHANGED dropped
    /\ UNCHANGED <<cmdVars, frameVars, sendVars, updates>>

-----------------------------------------------------------------------------
(* The server sends (SV_SendClientDatagram).                               *)

\* The entities of a frame may have rolled off the buffer.
OutOfDate(from, next) == from.first <= next - ServerEntities

Outruns == IF delta_sequence = NoDelta \/ sv_outgoing - delta_sequence < UpdateBackup THEN 0
           ELSE IF sv_outgoing - delta_sequence < ByteValues THEN 1 ELSE 2

LastSlot == Slot(sv_outgoing - 1)

BaseSlot == Slot(Byte(delta_sequence))

\* Frames for other clients, which take entities of the same buffer, come first.
\* The frame is in its slot before the one it is a difference to is looked up.
SendClientDatagram ==
    /\ ~dropped
    /\ sv_outgoing <= MaxFrames
    /\ \E n \in Sizes, k \in Others :
          LET to     == [id |-> sv_outgoing, first |-> sv_next_entity + k]
              next   == sv_next_entity + k + n
              base   == Byte(delta_sequence)
              from   == sv_frames'[BaseSlot]
          IN  /\ sv_frames' = [sv_frames EXCEPT ![Slot(sv_outgoing)] = to]
              /\ sv_next_entity' = next
              /\ updates' = OnTheWay(updates, sv_outgoing, UpdatesOnTheWay) \cup
                    {[seq  |-> sv_outgoing, num |-> n,
                      from |-> from.id, data |-> base,
                      ents |-> IF OutOfDate(from, next) THEN NoDelta ELSE base]}
    /\ outrun' = IF Outruns > outrun THEN Outruns ELSE outrun
    /\ sv_outgoing' = sv_outgoing + 1
    /\ UNCHANGED <<cmdVars, frameVars, runVars, moves>>

-----------------------------------------------------------------------------
(* The client receives (CL_ParseClientData, CL_ParsePacketEntities).       *)

\* What comes of a difference to frame `from' that is applied to `base'.
Decoded(base, u) == IF base = u.from THEN u.seq ELSE None

ClientData(u) ==
    IF u.data = NoDelta THEN u.seq ELSE Decoded(frames[Slot(u.data)].data, u)

\* How many frames ago the base was, as far as a byte can tell.
Subtracted(u) == (Byte(u.seq) - u.ents) % ByteValues

RolledOffWhenFull(old) == next_entity - old.first > ClientEntities

RolledOff(old) == next_entity - old.first > ClientEntities - Margin

TooOldRolledOff(u) == u.ents # NoDelta /\ RolledOff(frames[Slot(u.ents)])

TooOld(u) ==
    /\ u.ents # NoDelta
    /\ \/ Subtracted(u) = 0
       \/ Subtracted(u) >= UpdateBackup - 1
       \/ RolledOff(frames[Slot(u.ents)])

\* The entities of the base are still there when the last new one is written.
Intact(old, u) == next_entity + u.num - old.first <= ClientEntities

\* Entities of the base that new ones overwrite may have been read before, or not.
Entities(u) ==
    LET old == frames[Slot(u.ents)]
    IN  IF u.ents = NoDelta THEN {u.seq}
        ELSE {Decoded(old.ents, u)} \cup (IF Intact(old, u) THEN {} ELSE {None})

Short(u) == u.ents = NoDelta \/ (u.num <= Margin /\ frames[Slot(u.ents)].short)

Receive(u) ==
    /\ u.seq > incoming
    /\ incoming' = u.seq
    /\ updates' = {p \in updates : p.seq > u.seq}
    /\ UNCHANGED <<outgoing, lastoutgoing, commands, runVars, sendVars, moves>>

Frame(u, ents) ==
    frames' = [frames EXCEPT ![Slot(u.seq)] =
                 [ents |-> ents, data |-> ClientData(u), first |-> next_entity,
                  short |-> Short(u)]]

\* CL_FlushEntityPacket
Flush(u) ==
    /\ TooOld(u)
    /\ Receive(u)
    /\ Frame(u, None)
    /\ validsequence' = 0
    /\ UNCHANGED <<state, next_entity, force_send>>

\* A full update is answered at once.
ParsePacketEntities(u) ==
    /\ ~TooOld(u)
    /\ Receive(u)
    /\ \E ents \in Entities(u) : Frame(u, ents)
    /\ next_entity' = next_entity + u.num
    /\ validsequence' = u.seq
    /\ state' = "active"
    /\ force_send' = (force_send \/ u.ents = NoDelta)

Next ==
    \/ WritePacket \/ HoldBack
    \/ \E m \in moves : ParseMove(m)
    \/ SendClientDatagram
    \/ \E u \in updates : Flush(u) \/ ParsePacketEntities(u)

Spec == Init /\ [][Next]_vars

-----------------------------------------------------------------------------
Rings == 0..UpdateBackup - 1

MoveOK(m) ==
    /\ m.seq \in 1..MaxPackets
    /\ m.backup \in 0..CmdBackup
    /\ m.new \in 0..MaxTotalCmds
    /\ m.cmds \in [0..m.backup + m.new - 1 -> 0..MaxPackets]
    /\ m.delta \in 1..MaxFrames \cup {NoDelta}

Update == [seq : 1..MaxFrames, num : Sizes, from : 1..MaxFrames \cup {None},
           data : 0..ByteValues - 1 \cup {NoDelta}, ents : 0..ByteValues - 1 \cup {NoDelta}]

TypeOK ==
    /\ state \in {"connected", "active"}
    /\ outgoing \in 1..MaxPackets + 1
    /\ lastoutgoing \in 0..MaxPackets \cup {-1}
    /\ commands \in [Rings -> 0..MaxPackets]
    /\ force_send \in BOOLEAN
    /\ incoming \in 0..MaxFrames
    /\ validsequence \in 0..MaxFrames
    /\ frames \in [Rings -> [ents : 1..MaxFrames \cup {None},
                              data : 1..MaxFrames \cup {None}, first : Nat,
                              short : BOOLEAN]]
    /\ next_entity \in Nat
    /\ sv_outgoing \in 1..MaxFrames + 1
    /\ sv_incoming \in 0..MaxPackets
    /\ delta_sequence \in 1..MaxFrames \cup {NoDelta}
    /\ sv_frames \in [Rings -> [id : 1..MaxFrames \cup {None}, first : Nat]]
    /\ sv_next_entity \in Nat
    /\ ran \in Seq(0..MaxPackets)
    /\ dropped \in BOOLEAN
    /\ \A m \in moves : MoveOK(m)
    /\ updates \subseteq Update
    /\ outrun \in 0..2

\* However often packets repeat a command and whichever of them get lost or
\* overtake each other, the server runs it at most once, and commands in the
\* order in which they were made (SV_ParseClientMove).
CommandsOnce ==
    \A i, j \in 1..Len(ran) : i < j /\ ran[i] # 0 /\ ran[j] # 0 => ran[i] < ran[j]

\* The player moves no longer than the client has: the commands run, those that
\* fill in for lost ones with them, are not more than the packets.
TimeKept == Len(ran) <= sv_incoming

\* What the client takes for a good frame is what the server has sent, unless a
\* difference was to a frame so old that its number came round again, or one of the
\* differences it came of had more entities than the client keeps clear.
EntitiesRight ==
    LET frame == frames[Slot(validsequence)]
    IN  outrun < 2 /\ validsequence # 0 /\ frame.short => frame.ents = validsequence

\* Its client data too, unless a difference was to a frame the server's ring no
\* longer held.
ClientDataRight ==
    outrun < 1 /\ validsequence # 0 => frames[Slot(validsequence)].data = validsequence

\* As long as no more commands are missing than there are backups, also in front
\* of commands that were held back, every command is run, and none is filled in for.
NothingMissed ==
    [][\A m \in moves :
          ParseMove(m) /\ m.backup # 0 /\ NetDrop(m) <= m.backup /\ ~dropped'
             => ran' = ran \o [k \in 1..m.seq - sv_incoming |-> sv_incoming + k]]_vars
=============================================================================
