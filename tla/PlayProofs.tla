----------------------------- MODULE PlayProofs -----------------------------
EXTENDS Play, TLAPS, SequenceTheorems

LEMMA SlotType ==
    ASSUME NEW n \in Int
    PROVE  Slot(n) \in Rings
BY PlayAssumption, SMTT(30) DEF Slot, Rings

LEMMA Division ==
    ASSUME NEW x \in Int, NEW d \in Nat, d > 0
    PROVE  x \div d \in Int /\ x % d = x - d * (x \div d)
<1>1. x \div d \in Int
  BY SMTT(30)
<1>2. x % d = x - d * (x \div d)
  BY SMTT(30)
<1> QED
  BY <1>1, <1>2

LEMMA SlotsDiffer ==
    ASSUME NEW a \in Int, NEW b \in Int, a < b, b < a + UpdateBackup
    PROVE  Slot(a) # Slot(b)
<1> DEFINE R == UpdateBackup
<1>1. R \in Nat /\ R > 0
  BY PlayAssumption
<1>2. SUFFICES ASSUME a % R = b % R PROVE FALSE
  BY DEF Slot
<1>3. /\ a % R = a - R * (a \div R)
      /\ b % R = b - R * (b \div R)
      /\ a \div R \in Int /\ b \div R \in Int
  BY <1>1, Division
<1> DEFINE q == b \div R - a \div R
<1>4. q \in Int
  BY <1>3
<1>5. b - a = R * q
  BY <1>1, <1>2, <1>3, SMTT(30)
<1> HIDE DEF q
<1>6. CASE q <= 0
  <2>1. R * q <= 0
    BY <1>1, <1>4, <1>6, SMTT(30)
  <2> QED
    BY <1>5, <2>1
<1>7. CASE q >= 1
  <2>1. R * q >= R
    BY <1>1, <1>4, <1>7, SMTT(30)
  <2> QED
    BY <1>1, <1>5, <2>1
<1> QED
  BY <1>4, <1>6, <1>7

LEMMA Parameters ==
    /\ UpdateBackup \in Nat \ {0, 1} /\ ByteValues \in Nat \ {0}
    /\ CmdBackup \in Nat /\ MaxTotalCmds \in Nat /\ MaxCmds \in Nat /\ MaxDrop \in Nat
    /\ MaxPackets \in Nat /\ MaxFrames \in Nat
    /\ MovesOnTheWay \in Nat /\ UpdatesOnTheWay \in Nat
    /\ CmdBackup + MaxTotalCmds <= UpdateBackup
    /\ CmdBackup < MaxDrop
    /\ Sizes \subseteq Nat /\ Others \subseteq Nat
BY PlayAssumption

-----------------------------------------------------------------------------
(* Type correctness.                                                       *)

ClientType ==
    /\ state \in {"connected", "active"}
    /\ outgoing \in 1..MaxPackets + 1
    /\ lastoutgoing \in 0..MaxPackets \cup {-1}
    /\ commands \in [Rings -> 0..MaxPackets]
    /\ force_send \in BOOLEAN
    /\ incoming \in 0..MaxFrames
    /\ validsequence \in 0..MaxFrames
    /\ frames \in [Rings -> [ents : 1..MaxFrames \cup {None},
                             data : 1..MaxFrames \cup {None}, first : Nat, short : BOOLEAN]]
    /\ next_entity \in Nat

ServerType ==
    /\ sv_outgoing \in 1..MaxFrames + 1
    /\ sv_incoming \in 0..MaxPackets
    /\ delta_sequence \in 1..MaxFrames \cup {NoDelta}
    /\ sv_frames \in [Rings -> [id : 1..MaxFrames \cup {None}, first : Nat]]
    /\ sv_next_entity \in Nat
    /\ ran \in Seq(0..MaxPackets)
    /\ dropped \in BOOLEAN
    /\ outrun \in 0..2

NetworkType ==
    /\ \A m \in moves : MoveOK(m)
    /\ updates \subseteq Update

LEMMA TypeOKParts == TypeOK <=> ClientType /\ ServerType /\ NetworkType
BY DEF TypeOK, ClientType, ServerType, NetworkType

LEMMA TypeOKPartsNext == ClientType' /\ ServerType' /\ NetworkType' => TypeOK'
BY DEF TypeOK, ClientType, ServerType, NetworkType

LEMMA SameClient ==
    ClientType /\ UNCHANGED <<cmdVars, frameVars>> => ClientType'
BY DEF ClientType, cmdVars, frameVars

LEMMA SameServer ==
    ServerType /\ UNCHANGED <<runVars, sendVars>> => ServerType'
BY DEF ServerType, runVars, sendVars

LEMMA BoundType ==
    ASSUME NEW n \in Int, NEW high \in Nat
    PROVE  /\ Bound(0, n, high) \in 0..high
           /\ n >= 0 => Bound(0, n, high) <= n
BY DEF Bound

\* A packet has room for as many commands as it announces, and not too many.
LEMMA CountsType ==
    ASSUME ClientType
    PROVE  NumBackup \in 0..CmdBackup /\ NewCmds \in 0..MaxTotalCmds
<1>1. NumBackup \in 0..CmdBackup
  BY Parameters DEF NumBackup
<1>2. outgoing - lastoutgoing \in Int
  BY Parameters DEF ClientType
<1>3. Bound(0, outgoing - lastoutgoing, MaxTotalCmds) \in 0..MaxTotalCmds
  BY <1>2, Parameters, BoundType
<1>4. 0 \in 0..MaxTotalCmds
  BY Parameters
<1> QED
  BY <1>1, <1>3, <1>4 DEF NewCmds

\* Which part of a packet's commands the server takes.
LEMMA BatchShape ==
    ASSUME NEW m, MoveOK(m), sv_incoming \in Nat
    PROVE  /\ NetDrop(m) \in Int
           /\ Missing(m) \in Nat
           /\ Missing(m) <= NetDrop(m) \/ Missing(m) = 0
           /\ Total(m) \in Nat /\ Total(m) = Missing(m) + m.new
           /\ Repeats(m) \in 0..Missing(m)
           /\ m.backup + m.new \in Nat
           /\ \A k \in 1..Total(m) :
                 k > Repeats(m) => Total(m) - k \in 0..m.backup + m.new - 1
<1>1. m.seq \in Nat /\ m.backup \in Nat /\ m.new \in Nat
  BY Parameters DEF MoveOK
<1>2. NetDrop(m) \in Int
  BY <1>1 DEF NetDrop
<1>3. Missing(m) \in Nat /\ (Missing(m) <= NetDrop(m) \/ Missing(m) = 0)
  BY <1>2, Parameters DEF Missing, Bound
<1>4. Repeats(m) \in 0..Missing(m) /\ Missing(m) - Repeats(m) <= m.backup
  BY <1>1, <1>3 DEF Repeats
<1>5. Total(m) \in Nat /\ Total(m) = Missing(m) + m.new
  BY <1>1, <1>3 DEF Total
<1> QED
  BY <1>1, <1>2, <1>3, <1>4, <1>5

LEMMA IntervalEquality ==
    ASSUME NEW a \in Nat, NEW b \in Nat, 1..a = 1..b
    PROVE  a = b
<1>1. CASE a < b
  <2>1. b \in 1..b /\ b \notin 1..a
    BY <1>1
  <2> QED
    BY <2>1
<1>2. CASE b < a
  <2>1. a \in 1..a /\ a \notin 1..b
    BY <1>2
  <2> QED
    BY <2>1
<1> QED
  BY <1>1, <1>2

LEMMA BatchType ==
    ASSUME NEW m, MoveOK(m), sv_incoming \in Nat
    PROVE  /\ Batch(m) \in Seq(0..MaxPackets)
           /\ Len(Batch(m)) = Total(m)
           /\ \A k \in 1..Total(m) :
                 Batch(m)[k] = IF k <= Repeats(m) THEN 0 ELSE m.cmds[Total(m) - k]
<1>1. Total(m) \in Nat /\ Repeats(m) \in Nat
  BY BatchShape
<1>2. ASSUME NEW k \in 1..Total(m)
      PROVE  (IF k <= Repeats(m) THEN 0 ELSE m.cmds[Total(m) - k]) \in 0..MaxPackets
  <2>1. CASE k <= Repeats(m)
    BY <2>1, Parameters
  <2>2. CASE ~(k <= Repeats(m))
    <3>1. k > Repeats(m)
      BY <2>2, <1>1
    <3>2. Total(m) - k \in 0..m.backup + m.new - 1
      BY <3>1, BatchShape
    <3>3. m.cmds[Total(m) - k] \in 0..MaxPackets
      BY <3>2 DEF MoveOK
    <3> QED
      BY <3>3, <2>2
  <2> QED
    BY <2>1, <2>2
<1>3. Batch(m) \in [1..Total(m) -> 0..MaxPackets]
  BY <1>2 DEF Batch
<1>4. Batch(m) \in Seq(0..MaxPackets) /\ Len(Batch(m)) = Total(m)
  <2>1. Batch(m) \in Seq(0..MaxPackets)
    BY <1>1, <1>3, SeqDef, Zenon
  <2>2. DOMAIN Batch(m) = 1..Total(m)
    BY DEF Batch
  <2>3. Len(Batch(m)) \in Nat /\ DOMAIN Batch(m) = 1..Len(Batch(m))
    BY <2>1, LenProperties
  <2> QED
    BY <2>1, <2>2, <2>3, <1>1, IntervalEquality
<1> QED
  BY <1>4 DEF Batch

LEMMA InitType == Init => TypeOK
<1> SUFFICES ASSUME Init PROVE TypeOK
  OBVIOUS
<1>1. /\ commands \in [Rings -> 0..MaxPackets]
      /\ sv_frames \in [Rings -> [id : 1..MaxFrames \cup {None}, first : Nat]]
      /\ frames \in [Rings -> [ents : 1..MaxFrames \cup {None},
                               data : 1..MaxFrames \cup {None}, first : Nat, short : BOOLEAN]]
  BY Parameters DEF Init, Rings
<1>2. outgoing \in 1..MaxPackets + 1 /\ sv_outgoing \in 1..MaxFrames + 1
  BY Parameters DEF Init
<1>3. /\ incoming \in 0..MaxFrames /\ validsequence \in 0..MaxFrames
      /\ sv_incoming \in 0..MaxPackets /\ ran \in Seq(0..MaxPackets)
  BY Parameters DEF Init
<1>4. ClientType
  BY <1>1, <1>2, <1>3 DEF Init, ClientType
<1>5. ServerType
  <2>1. sv_next_entity \in Nat /\ outrun \in 0..2
    BY DEF Init
  <2>2. dropped \in BOOLEAN /\ delta_sequence \in 1..MaxFrames \cup {NoDelta}
    BY DEF Init
  <2> QED
    BY <1>1, <1>2, <1>3, <2>1, <2>2 DEF ServerType
<1>6. NetworkType
  BY DEF Init, NetworkType
<1> QED
  BY <1>4, <1>5, <1>6, TypeOKParts

LEMMA CreateCmdType ==
    ASSUME ClientType, outgoing <= MaxPackets, CreateCmd
    PROVE  commands' \in [Rings -> 0..MaxPackets]
<1>1. outgoing \in 0..MaxPackets /\ outgoing \in Int
  BY Parameters DEF ClientType
<1>2. Slot(outgoing) \in Rings
  BY <1>1, SlotType
<1> QED
  BY <1>1, <1>2 DEF CreateCmd, ClientType

LEMMA MoveType ==
    ASSUME ClientType, outgoing <= MaxPackets, CreateCmd, MayForget
    PROVE  MoveOK(Move) /\ validsequence' \in 0..MaxFrames
<1>1. commands' \in [Rings -> 0..MaxPackets]
  BY CreateCmdType
<1>2. NumBackup \in 0..CmdBackup /\ NewCmds \in 0..MaxTotalCmds
  BY CountsType
<1>3. outgoing \in 1..MaxPackets
  BY Parameters DEF ClientType
<1>4. ASSUME NEW i \in 0..NumBackup + NewCmds - 1
      PROVE  commands'[Slot(outgoing - i)] \in 0..MaxPackets
  <2>1. outgoing - i \in Int
    BY <1>2, <1>3, Parameters
  <2> QED
    BY <2>1, <1>1, SlotType
<1>5. validsequence' \in 0..MaxFrames
  BY Parameters DEF MayForget, ClientType
<1>6. Move.delta \in 1..MaxFrames \cup {NoDelta}
  BY <1>5, Parameters DEF Move
<1>7. Move.cmds \in [0..Move.backup + Move.new - 1 -> 0..MaxPackets]
  BY <1>4 DEF Move
<1> QED
  BY <1>2, <1>3, <1>5, <1>6, <1>7 DEF MoveOK, Move

LEMMA WritePacketType == TypeOK /\ WritePacket => TypeOK'
<1> SUFFICES ASSUME TypeOK, WritePacket PROVE TypeOK'
  OBVIOUS
<1>1. ClientType /\ ServerType /\ NetworkType
  BY TypeOKParts
<1>2. outgoing \in 1..MaxPackets
  BY <1>1, Parameters DEF WritePacket, ClientType
<1>3. commands' \in [Rings -> 0..MaxPackets]
  BY <1>1, CreateCmdType DEF WritePacket
<1>4. MoveOK(Move) /\ validsequence' \in 0..MaxFrames
  BY <1>1, MoveType DEF WritePacket
<1>5. ClientType'
  <2>1. outgoing' \in 1..MaxPackets + 1 /\ lastoutgoing' \in 0..MaxPackets \cup {-1}
    BY <1>1, <1>2, Parameters DEF ClientType, WritePacket
  <2>2. force_send' \in BOOLEAN /\ UNCHANGED <<state, incoming, frames, next_entity>>
    BY <1>1 DEF ClientType, WritePacket
  <2> QED
    BY <1>1, <1>3, <1>4, <2>1, <2>2 DEF ClientType
<1>6. ServerType'
  BY <1>1, SameServer DEF WritePacket
<1>7. NetworkType'
  BY <1>1, <1>4 DEF NetworkType, WritePacket, OnTheWay
<1> QED
  BY <1>5, <1>6, <1>7, TypeOKPartsNext

LEMMA HoldBackType == TypeOK /\ HoldBack => TypeOK'
<1> SUFFICES ASSUME TypeOK, HoldBack PROVE TypeOK'
  OBVIOUS
<1>1. ClientType /\ ServerType /\ NetworkType
  BY TypeOKParts
<1>2. outgoing \in 1..MaxPackets
  BY <1>1, Parameters DEF HoldBack, ClientType
<1>3. commands' \in [Rings -> 0..MaxPackets]
  BY <1>1, CreateCmdType DEF HoldBack
<1>4. validsequence' \in 0..MaxFrames
  BY <1>1, MoveType DEF HoldBack
<1>5. ClientType'
  <2>1. outgoing' \in 1..MaxPackets + 1 /\ lastoutgoing' \in 0..MaxPackets \cup {-1}
    BY <1>1, <1>2, Parameters DEF ClientType, HoldBack
  <2>2. force_send' \in BOOLEAN /\ UNCHANGED <<state, incoming, frames, next_entity>>
    BY <1>1 DEF ClientType, HoldBack
  <2> QED
    BY <1>1, <1>3, <1>4, <2>1, <2>2 DEF ClientType
<1>6. ServerType'
  BY <1>1, SameServer DEF HoldBack
<1>7. NetworkType'
  BY <1>1 DEF NetworkType, HoldBack
<1> QED
  BY <1>5, <1>6, <1>7, TypeOKPartsNext

LEMMA ParseMoveType ==
    ASSUME TypeOK, NEW m \in moves, ParseMove(m)
    PROVE  TypeOK'
<1>1. ClientType /\ ServerType /\ NetworkType
  BY TypeOKParts
<1>2. MoveOK(m) /\ sv_incoming \in Nat
  BY <1>1, Parameters DEF NetworkType, ServerType
<1>3. ran' \in Seq(0..MaxPackets)
  <2>1. Batch(m) \in Seq(0..MaxPackets) /\ ran \in Seq(0..MaxPackets)
    BY <1>1, <1>2, BatchType DEF ServerType
  <2>2. ran \o Batch(m) \in Seq(0..MaxPackets)
    BY <2>1
  <2> QED
    BY <2>1, <2>2 DEF ParseMove
<1>4. ServerType'
  <2>1. sv_incoming' \in 0..MaxPackets
    BY <1>2, Parameters DEF ParseMove, MoveOK
  <2>2. delta_sequence' \in 1..MaxFrames \cup {NoDelta} /\ dropped' \in BOOLEAN
    BY <1>1, <1>2 DEF ParseMove, MoveOK, ServerType
  <2> QED
    BY <1>1, <1>3, <2>1, <2>2 DEF ServerType, ParseMove, sendVars
<1>5. ClientType'
  BY <1>1, SameClient DEF ParseMove
<1>6. NetworkType'
  BY <1>1 DEF NetworkType, ParseMove
<1> QED
  BY <1>4, <1>5, <1>6, TypeOKPartsNext

LEMMA SendClientDatagramType == TypeOK /\ SendClientDatagram => TypeOK'
<1> SUFFICES ASSUME TypeOK, SendClientDatagram PROVE TypeOK'
  OBVIOUS
<1>1. ClientType /\ ServerType /\ NetworkType
  BY TypeOKParts
<1>2. PICK n \in Sizes, k \in Others :
        LET to   == [id |-> sv_outgoing, first |-> sv_next_entity + k]
            next == sv_next_entity + k + n
            base == Byte(delta_sequence)
            from == sv_frames'[BaseSlot]
        IN  /\ sv_frames' = [sv_frames EXCEPT ![Slot(sv_outgoing)] = to]
            /\ sv_next_entity' = next
            /\ updates' = OnTheWay(updates, sv_outgoing, UpdatesOnTheWay) \cup
                  {[seq  |-> sv_outgoing, num |-> n,
                    from |-> from.id, data |-> base,
                    ents |-> IF OutOfDate(from, next) THEN NoDelta ELSE base]}
  BY DEF SendClientDatagram
<1>3. sv_outgoing \in 1..MaxFrames /\ sv_next_entity \in Nat /\ n \in Nat /\ k \in Nat
  BY <1>1, Parameters DEF ServerType, SendClientDatagram
<1>4. Byte(delta_sequence) \in 0..ByteValues - 1 \cup {NoDelta}
  <2>1. CASE delta_sequence = NoDelta
    BY <2>1 DEF Byte
  <2>2. CASE delta_sequence # NoDelta
    <3>1. delta_sequence \in Nat
      BY <1>1, <2>2, Parameters DEF ServerType
    <3>2. delta_sequence % ByteValues \in 0..ByteValues - 1
      BY <3>1, Parameters
    <3> QED
      BY <3>2, <2>2 DEF Byte
  <2> QED
    BY <2>1, <2>2
<1>5. Byte(delta_sequence) \in Int
  BY <1>4, Parameters DEF NoDelta
<1>6. BaseSlot \in Rings /\ Slot(sv_outgoing) \in Rings
  BY <1>3, <1>5, SlotType DEF BaseSlot
<1>7. sv_frames' \in [Rings -> [id : 1..MaxFrames \cup {None}, first : Nat]]
  <2>1. [id |-> sv_outgoing, first |-> sv_next_entity + k]
          \in [id : 1..MaxFrames \cup {None}, first : Nat]
    BY <1>3
  <2>2. sv_frames' = [sv_frames EXCEPT ![Slot(sv_outgoing)] =
                        [id |-> sv_outgoing, first |-> sv_next_entity + k]]
    BY <1>2
  <2>3. sv_frames \in [Rings -> [id : 1..MaxFrames \cup {None}, first : Nat]]
    BY <1>1 DEF ServerType
  <2> QED
    BY <1>6, <2>1, <2>2, <2>3
<1>8. updates' \subseteq Update
  <2>1. sv_frames'[BaseSlot].id \in 1..MaxFrames \cup {None}
    BY <1>6, <1>7
  <2> DEFINE from == sv_frames'[BaseSlot]
             ents == IF OutOfDate(from, sv_next_entity + k + n)
                       THEN NoDelta ELSE Byte(delta_sequence)
             u == [seq  |-> sv_outgoing, num |-> n, from |-> from.id,
                   data |-> Byte(delta_sequence), ents |-> ents]
  <2>2. ents \in 0..ByteValues - 1 \cup {NoDelta}
    BY <1>4
  <2>3. u \in Update
    BY <1>3, <1>4, <2>1, <2>2 DEF Update
  <2>4. updates' = OnTheWay(updates, sv_outgoing, UpdatesOnTheWay) \cup {u}
    BY <1>2
  <2> HIDE DEF u
  <2> QED
    BY <1>1, <2>3, <2>4 DEF OnTheWay, NetworkType
<1>9. ServerType'
  <2>1. sv_next_entity' \in Nat
    BY <1>2, <1>3
  <2>2. outrun' \in 0..2
    BY <1>1, Parameters DEF SendClientDatagram, Outruns, ServerType
  <2>3. sv_outgoing' \in 1..MaxFrames + 1
    BY <1>3, Parameters DEF SendClientDatagram
  <2> QED
    BY <1>1, <1>7, <2>1, <2>2, <2>3 DEF ServerType, SendClientDatagram, runVars
<1>10. ClientType'
  BY <1>1, SameClient DEF SendClientDatagram
<1>11. NetworkType'
  BY <1>1, <1>8 DEF NetworkType, SendClientDatagram
<1> QED
  BY <1>9, <1>10, <1>11, TypeOKPartsNext

LEMMA FrameType ==
    ASSUME TypeOK, NEW u \in updates, NEW ents \in 1..MaxFrames \cup {None},
           Receive(u), Frame(u, ents)
    PROVE  /\ u \in Update
           /\ incoming' \in 0..MaxFrames
           /\ frames' \in [Rings -> [ents : 1..MaxFrames \cup {None},
                                     data : 1..MaxFrames \cup {None}, first : Nat, short : BOOLEAN]]
           /\ ServerType' /\ NetworkType'
<1>1. ClientType /\ ServerType /\ NetworkType
  BY TypeOKParts
<1>2. u \in Update
  BY <1>1 DEF NetworkType
<1>3. u.seq \in 1..MaxFrames /\ u.seq \in Int
  BY <1>2, Parameters DEF Update
<1>4. ClientData(u) \in 1..MaxFrames \cup {None} /\ Short(u) \in BOOLEAN
  BY <1>3 DEF ClientData, Decoded, Short
<1>5. frames' \in [Rings -> [ents : 1..MaxFrames \cup {None},
                             data : 1..MaxFrames \cup {None}, first : Nat, short : BOOLEAN]]
  <2>1. Slot(u.seq) \in Rings
    BY <1>3, SlotType
  <2>2. [ents |-> ents, data |-> ClientData(u), first |-> next_entity, short |-> Short(u)]
          \in [ents : 1..MaxFrames \cup {None}, data : 1..MaxFrames \cup {None}, first : Nat, short : BOOLEAN]
    BY <1>1, <1>4 DEF ClientType
  <2> QED
    BY <1>1, <2>1, <2>2 DEF Frame, ClientType
<1>6. ServerType'
  BY <1>1, SameServer DEF Receive
<1>7. NetworkType'
  BY <1>1 DEF NetworkType, Receive
<1> QED
  BY <1>2, <1>3, <1>5, <1>6, <1>7 DEF Receive

LEMMA FlushType ==
    ASSUME TypeOK, NEW u \in updates, Flush(u)
    PROVE  TypeOK'
<1>1. ClientType
  BY TypeOKParts
<1>2. /\ incoming' \in 0..MaxFrames /\ ServerType' /\ NetworkType'
      /\ frames' \in [Rings -> [ents : 1..MaxFrames \cup {None},
                                data : 1..MaxFrames \cup {None}, first : Nat, short : BOOLEAN]]
  BY FrameType DEF Flush
<1>3. UNCHANGED <<outgoing, lastoutgoing, commands, state, next_entity, force_send>>
  BY DEF Flush, Receive
<1>4. ClientType'
  BY <1>1, <1>2, <1>3, Parameters DEF ClientType, Flush
<1> QED
  BY <1>2, <1>4, TypeOKPartsNext

LEMMA ParsePacketEntitiesType ==
    ASSUME TypeOK, NEW u \in updates, ParsePacketEntities(u)
    PROVE  TypeOK'
<1>1. ClientType /\ NetworkType
  BY TypeOKParts
<1>2. u.seq \in 1..MaxFrames /\ u.num \in Nat
  BY <1>1, Parameters DEF NetworkType, Update
<1>3. Entities(u) \subseteq 1..MaxFrames \cup {None}
  BY <1>2 DEF Entities, Decoded
<1>4. /\ incoming' \in 0..MaxFrames /\ ServerType' /\ NetworkType'
      /\ frames' \in [Rings -> [ents : 1..MaxFrames \cup {None},
                                data : 1..MaxFrames \cup {None}, first : Nat, short : BOOLEAN]]
  BY <1>3, FrameType DEF ParsePacketEntities
<1>5. UNCHANGED <<outgoing, lastoutgoing, commands>>
  BY DEF ParsePacketEntities, Receive
<1>6. /\ state' \in {"connected", "active"}
      /\ next_entity' \in Nat /\ validsequence' \in 0..MaxFrames /\ force_send' \in BOOLEAN
  BY <1>1, <1>2, Parameters DEF ClientType, ParsePacketEntities
<1>7. ClientType'
  BY <1>1, <1>4, <1>5, <1>6 DEF ClientType
<1> QED
  BY <1>4, <1>7, TypeOKPartsNext

LEMMA StutterType == TypeOK /\ UNCHANGED vars => TypeOK'
<1> SUFFICES ASSUME TypeOK, UNCHANGED vars PROVE TypeOK'
  OBVIOUS
<1>1. ClientType /\ ServerType /\ NetworkType
  BY TypeOKParts
<1>2. ClientType' /\ ServerType'
  BY <1>1, SameClient, SameServer DEF vars
<1>3. NetworkType'
  BY <1>1 DEF vars, NetworkType
<1> QED
  BY <1>2, <1>3, TypeOKPartsNext

LEMMA NextType == TypeOK /\ [Next]_vars => TypeOK'
<1> SUFFICES ASSUME TypeOK, [Next]_vars PROVE TypeOK'
  OBVIOUS
<1>1. CASE WritePacket
  BY <1>1, WritePacketType
<1>2. CASE HoldBack
  BY <1>2, HoldBackType
<1>3. ASSUME NEW m \in moves, ParseMove(m) PROVE TypeOK'
  BY <1>3, ParseMoveType
<1>4. CASE SendClientDatagram
  BY <1>4, SendClientDatagramType
<1>5. ASSUME NEW u \in updates, Flush(u) PROVE TypeOK'
  BY <1>5, FlushType
<1>6. ASSUME NEW u \in updates, ParsePacketEntities(u) PROVE TypeOK'
  BY <1>6, ParsePacketEntitiesType
<1>7. CASE UNCHANGED vars
  BY <1>7, StutterType
<1> QED
  BY <1>1, <1>2, <1>3, <1>4, <1>5, <1>6, <1>7 DEF Next

\* Every variable keeps its type: no packet announces more commands than it may,
\* no delta names a frame that a byte cannot hold.
THEOREM TypeCorrect == Spec => []TypeOK
<1>1. Init => TypeOK
  BY InitType
<1>2. TypeOK /\ [Next]_vars => TypeOK'
  BY NextType
<1> QED
  BY <1>1, <1>2, PTL DEF Spec

-----------------------------------------------------------------------------
(* Commands are run once and in order.                                     *)

\* The ring holds the commands of the last packets.
Ring ==
    \A n \in 1..outgoing - 1 : n >= outgoing - UpdateBackup => commands[Slot(n)] = n

\* A packet has the commands of the packets before it, and no more of them are
\* new than were made since a packet the server may have seen.
MoveInv(m) ==
    /\ m.seq <= lastoutgoing /\ m.seq > sv_incoming
    /\ m.new <= m.seq - sv_incoming
    /\ \A i \in 0..m.backup + m.new - 1 : m.seq - i >= 1 => m.cmds[i] = m.seq - i

NewBetween == \A p, m \in moves : p.seq < m.seq => m.new <= m.seq - p.seq

RanBefore == \A i \in 1..Len(ran) : ran[i] <= sv_incoming

SendInv ==
    /\ Ring
    /\ lastoutgoing < outgoing
    /\ sv_incoming = 0 \/ sv_incoming <= lastoutgoing
    /\ \A m \in moves : MoveInv(m)
    /\ NewBetween

RunInv == RanBefore /\ CommandsOnce /\ TimeKept

LEMMA RingKept ==
    ASSUME TypeOK, Ring, outgoing <= MaxPackets, CreateCmd, outgoing' = outgoing + 1
    PROVE  Ring'
<1>1. outgoing \in Nat /\ outgoing >= 1 /\ Slot(outgoing) \in Rings
  BY Parameters, SlotType DEF TypeOK
<1>2. ASSUME NEW n \in 1..outgoing, n >= outgoing + 1 - UpdateBackup
      PROVE  commands'[Slot(n)] = n
  <2>1. n \in Int /\ Slot(n) \in Rings
    BY <1>1, SlotType
  <2>2. CASE n = outgoing
    BY <1>1, <2>2 DEF CreateCmd, TypeOK
  <2>3. CASE n < outgoing
    <3>1. outgoing < n + UpdateBackup
      BY <1>1, <1>2, <2>1, Parameters
    <3>2. Slot(n) # Slot(outgoing)
      BY <3>1, <2>1, <2>3, <1>1, SlotsDiffer
    <3>3. n \in 1..outgoing - 1 /\ n >= outgoing - UpdateBackup
      BY <1>1, <1>2, <2>3, Parameters
    <3>4. commands[Slot(n)] = n
      BY <3>3 DEF Ring
    <3> QED
      BY <3>2, <3>4, <1>1, <2>1 DEF CreateCmd, TypeOK
  <2> QED
    BY <2>2, <2>3, <1>1
<1>3. ASSUME NEW n \in 1..outgoing' - 1, n >= outgoing' - UpdateBackup
      PROVE  commands'[Slot(n)] = n
  <2>1. n \in 1..outgoing /\ n >= outgoing + 1 - UpdateBackup
    BY <1>1, <1>3, Parameters
  <2> QED
    BY <2>1, <1>2
<1> QED
  BY <1>3 DEF Ring, Slot

\* What a packet that is sent now says.
LEMMA MoveSent ==
    ASSUME TypeOK, SendInv, WritePacket
    PROVE  /\ Move.seq = outgoing
           /\ Move.new \in Nat
           /\ Move.new <= outgoing - lastoutgoing
           /\ lastoutgoing = -1 => Move.new = 0
           /\ \A i \in 0..Move.backup + Move.new - 1 :
                 Move.seq - i >= 1 => Move.cmds[i] = Move.seq - i
<1>1. ClientType
  BY TypeOKParts
<1>2. NumBackup \in 0..CmdBackup /\ NewCmds \in 0..MaxTotalCmds
  BY <1>1, CountsType
<1>3. /\ Move.seq = outgoing /\ Move.new = NewCmds /\ Move.backup = NumBackup
      /\ Move.cmds = [i \in 0..NumBackup + NewCmds - 1 |-> commands'[Slot(outgoing - i)]]
  BY DEF Move
<1>4. outgoing \in Nat /\ lastoutgoing \in Int /\ lastoutgoing < outgoing
  BY <1>1, Parameters DEF ClientType, SendInv
<1>5. NewCmds \in Nat /\ NewCmds <= outgoing - lastoutgoing
      /\ (lastoutgoing = -1 => NewCmds = 0)
  <2>1. outgoing - lastoutgoing \in Nat
    BY <1>4
  <2>2. Bound(0, outgoing - lastoutgoing, MaxTotalCmds) <= outgoing - lastoutgoing
    BY <2>1, Parameters, BoundType
  <2> QED
    BY <2>1, <2>2, <1>2, Parameters DEF NewCmds
<1>6. Ring'
  BY RingKept DEF WritePacket, SendInv
<1>7. ASSUME NEW i \in 0..NumBackup + NewCmds - 1, outgoing - i >= 1
      PROVE  commands'[Slot(outgoing - i)] = outgoing - i
  <2>1. outgoing' = outgoing + 1
    BY DEF WritePacket
  <2>2. /\ outgoing - i \in 1..outgoing' - 1
        /\ outgoing - i >= outgoing' - UpdateBackup
    BY <1>2, <1>4, <1>7, <2>1, Parameters
  <2> QED
    BY <2>2, <1>6 DEF Ring, Slot
<1> QED
  BY <1>3, <1>5, <1>7

LEMMA WritePacketSend == TypeOK /\ SendInv /\ WritePacket => SendInv'
<1> SUFFICES ASSUME TypeOK, SendInv, WritePacket PROVE SendInv'
  OBVIOUS
<1>1. /\ outgoing \in Nat /\ outgoing >= 1 /\ lastoutgoing \in Int /\ lastoutgoing < outgoing
      /\ lastoutgoing >= -1 /\ sv_incoming \in Nat
      /\ sv_incoming = 0 \/ sv_incoming <= lastoutgoing
  BY Parameters DEF TypeOK, SendInv
<1>2. /\ lastoutgoing' = outgoing /\ outgoing' = outgoing + 1 /\ sv_incoming' = sv_incoming
      /\ moves' \subseteq moves \cup {Move}
  BY DEF WritePacket, runVars, OnTheWay
<1>3. Ring'
  BY RingKept DEF WritePacket, SendInv
<1>4. /\ Move.seq = outgoing /\ Move.new \in Nat /\ Move.new <= outgoing - lastoutgoing
      /\ lastoutgoing = -1 => Move.new = 0
      /\ \A i \in 0..Move.backup + Move.new - 1 :
            Move.seq - i >= 1 => Move.cmds[i] = Move.seq - i
  BY MoveSent
<1>5. ASSUME NEW m \in moves'
      PROVE  /\ m.seq <= outgoing /\ m.seq > sv_incoming
             /\ m.new <= m.seq - sv_incoming
             /\ \A i \in 0..m.backup + m.new - 1 : m.seq - i >= 1 => m.cmds[i] = m.seq - i
  <2>1. CASE m = Move
    <3>1. outgoing > sv_incoming /\ Move.new <= outgoing - sv_incoming
      BY <1>1, <1>4
    <3> QED
      BY <2>1, <3>1, <1>1, <1>4
  <2>2. CASE m \in moves
    <3>1. MoveInv(m) /\ m.seq \in Int
      BY <2>2, Parameters DEF SendInv, TypeOK, MoveOK
    <3> QED
      BY <3>1, <1>1 DEF MoveInv
  <2> QED
    BY <2>1, <2>2, <1>2
<1>6. \A m \in moves' : MoveInv(m)'
  BY <1>2, <1>5 DEF MoveInv
<1>7. ASSUME NEW p \in moves', NEW m \in moves', p.seq < m.seq
      PROVE  m.new <= m.seq - p.seq
  <2>1. CASE p \in moves /\ m \in moves
    BY <2>1, <1>7 DEF SendInv, NewBetween
  <2>2. CASE p \in moves /\ m = Move
    <3>1. p.seq \in Nat /\ p.seq <= lastoutgoing
      BY <2>2, Parameters DEF SendInv, MoveInv, TypeOK, MoveOK
    <3> QED
      BY <2>2, <3>1, <1>1, <1>4
  <2>3. CASE p = Move
    <3>1. m.seq \in Int /\ m.seq <= outgoing
      <4>1. CASE m \in moves
        BY <4>1, <1>5, Parameters DEF TypeOK, MoveOK
      <4>2. CASE m = Move
        BY <4>2, <1>4, <1>1
      <4> QED
        BY <4>1, <4>2, <1>2
    <3> QED
      BY <2>3, <3>1, <1>4, <1>1, <1>7
  <2> QED
    BY <2>1, <2>2, <2>3, <1>2
<1>8. NewBetween'
  BY <1>7 DEF NewBetween
<1>9. lastoutgoing' < outgoing' /\ (sv_incoming' = 0 \/ sv_incoming' <= lastoutgoing')
  BY <1>1, <1>2
<1> QED
  BY <1>3, <1>6, <1>8, <1>9 DEF SendInv

LEMMA HoldBackSend == TypeOK /\ SendInv /\ HoldBack => SendInv'
<1> SUFFICES ASSUME TypeOK, SendInv, HoldBack PROVE SendInv'
  OBVIOUS
<1>1. Ring'
  BY RingKept DEF HoldBack, SendInv
<1>2. /\ outgoing' = outgoing + 1 /\ lastoutgoing' = lastoutgoing
      /\ sv_incoming' = sv_incoming /\ moves' = moves
  BY DEF HoldBack, runVars
<1>3. lastoutgoing' < outgoing'
  BY <1>2, Parameters DEF SendInv, TypeOK
<1>4. \A m \in moves' : MoveInv(m)'
  BY <1>2 DEF SendInv, MoveInv
<1>5. NewBetween'
  BY <1>2 DEF SendInv, NewBetween
<1> QED
  BY <1>1, <1>2, <1>3, <1>4, <1>5 DEF SendInv

LEMMA ParseMoveSend ==
    ASSUME TypeOK, SendInv, NEW m \in moves, ParseMove(m)
    PROVE  SendInv'
<1>1. /\ UNCHANGED <<outgoing, lastoutgoing, commands>> /\ sv_incoming' = m.seq
      /\ moves' = {p \in moves : p.seq > m.seq}
  BY DEF ParseMove, cmdVars
<1>2. Ring' /\ lastoutgoing' < outgoing'
  BY <1>1 DEF Ring, SendInv, Slot
<1>3. sv_incoming' <= lastoutgoing'
  BY <1>1 DEF SendInv, MoveInv
<1>4. ASSUME NEW p \in moves' PROVE MoveInv(p)'
  <2>1. p \in moves /\ p.seq > m.seq /\ MoveInv(p) /\ p.seq \in Int /\ m.seq \in Int
    BY <1>1, Parameters DEF SendInv, TypeOK, MoveOK
  <2>2. p.new <= p.seq - m.seq
    BY <2>1 DEF SendInv, NewBetween
  <2> QED
    BY <1>1, <2>1, <2>2 DEF MoveInv
<1>5. NewBetween'
  BY <1>1 DEF SendInv, NewBetween
<1> QED
  BY <1>2, <1>3, <1>4, <1>5 DEF SendInv

LEMMA OtherSend ==
    SendInv /\ UNCHANGED <<outgoing, lastoutgoing, commands, sv_incoming, moves>> => SendInv'
<1> SUFFICES ASSUME SendInv, UNCHANGED <<outgoing, lastoutgoing, commands, sv_incoming, moves>>
             PROVE  SendInv'
  OBVIOUS
<1>1. Ring' /\ NewBetween'
  BY DEF SendInv, Ring, NewBetween, Slot
<1>2. \A m \in moves' : MoveInv(m)'
  BY DEF SendInv, MoveInv
<1> QED
  BY <1>1, <1>2 DEF SendInv

LEMMA NextSend == TypeOK /\ SendInv /\ [Next]_vars => SendInv'
<1> SUFFICES ASSUME TypeOK, SendInv, [Next]_vars PROVE SendInv'
  OBVIOUS
<1>1. CASE WritePacket
  BY <1>1, WritePacketSend
<1>2. CASE HoldBack
  BY <1>2, HoldBackSend
<1>3. ASSUME NEW m \in moves, ParseMove(m) PROVE SendInv'
  BY <1>3, ParseMoveSend
<1>4. CASE SendClientDatagram \/ UNCHANGED vars
  <2>1. UNCHANGED <<outgoing, lastoutgoing, commands, sv_incoming, moves>>
    BY <1>4 DEF SendClientDatagram, vars, cmdVars, runVars
  <2> QED
    BY <2>1, OtherSend
<1>5. ASSUME NEW u \in updates, Flush(u) \/ ParsePacketEntities(u) PROVE SendInv'
  <2>1. UNCHANGED <<outgoing, lastoutgoing, commands, sv_incoming, moves>>
    BY <1>5 DEF Flush, ParsePacketEntities, Receive, runVars
  <2> QED
    BY <2>1, OtherSend
<1> QED
  BY <1>1, <1>2, <1>3, <1>4, <1>5 DEF Next

\* The commands the server takes from a packet: each is one made for a packet
\* after the last one it has seen, and they follow each other.
LEMMA BatchRuns ==
    ASSUME TypeOK, SendInv, NEW m \in moves
    PROVE  /\ sv_incoming \in Nat /\ m.seq \in Nat /\ Total(m) \in Nat
           /\ Total(m) <= m.seq - sv_incoming
           /\ Len(Batch(m)) = Total(m)
           /\ \A k \in 1..Total(m) :
                 \/ k <= Repeats(m) /\ Batch(m)[k] = 0
                 \/ k > Repeats(m) /\ Batch(m)[k] = m.seq - (Total(m) - k)
<1>1. MoveOK(m) /\ MoveInv(m) /\ sv_incoming \in Nat /\ m.seq \in Nat /\ m.new \in Nat
  BY Parameters DEF TypeOK, SendInv, MoveOK
<1>2. /\ Total(m) \in Nat /\ Total(m) = Missing(m) + m.new
      /\ Missing(m) \in Nat /\ Repeats(m) \in Nat
      /\ Missing(m) <= NetDrop(m) \/ Missing(m) = 0
      /\ NetDrop(m) = m.seq - sv_incoming - m.new
  <2>1. NetDrop(m) = m.seq - sv_incoming - m.new
    BY <1>1 DEF NetDrop
  <2>2. Missing(m) \in Nat /\ Repeats(m) \in 0..Missing(m)
    BY <1>1, BatchShape
  <2> QED
    BY <2>1, <2>2, <1>1, BatchShape
<1>3. Total(m) <= m.seq - sv_incoming
  BY <1>1, <1>2 DEF MoveInv
<1>4. ASSUME NEW k \in 1..Total(m)
      PROVE  \/ k <= Repeats(m) /\ Batch(m)[k] = 0
             \/ k > Repeats(m) /\ Batch(m)[k] = m.seq - (Total(m) - k)
  <2>1. Batch(m)[k] = IF k <= Repeats(m) THEN 0 ELSE m.cmds[Total(m) - k]
    BY <1>1, BatchType
  <2>2. CASE k <= Repeats(m)
    BY <2>1, <2>2
  <2>3. CASE ~(k <= Repeats(m))
    <3>1. k > Repeats(m)
      BY <1>2, <2>3
    <3>2. Total(m) - k \in 0..m.backup + m.new - 1
      BY <1>1, <3>1, BatchShape
    <3>3. m.seq - (Total(m) - k) >= 1
      BY <1>1, <1>2, <1>3
    <3>4. m.cmds[Total(m) - k] = m.seq - (Total(m) - k)
      BY <1>1, <3>2, <3>3 DEF MoveInv
    <3> QED
      BY <2>1, <2>3, <3>1, <3>4
  <2> QED
    BY <2>2, <2>3
<1> QED
  BY <1>1, <1>2, <1>3, <1>4, BatchType

LEMMA ParseMoveRun ==
    ASSUME TypeOK, SendInv, RunInv, NEW m \in moves, ParseMove(m)
    PROVE  RunInv'
<1>1. /\ sv_incoming \in Nat /\ m.seq \in Nat /\ m.seq > sv_incoming
      /\ sv_incoming' = m.seq
      /\ ran \in Seq(0..MaxPackets) /\ Len(ran) \in Nat
      /\ \A i \in 1..Len(ran) : ran[i] \in Nat
  <2>1. ran \in Seq(0..MaxPackets)
    BY DEF TypeOK
  <2>2. Len(ran) \in Nat /\ ran \in [1..Len(ran) -> 0..MaxPackets]
    BY <2>1, LenProperties
  <2>3. \A i \in 1..Len(ran) : ran[i] \in Nat
    BY <2>2, Parameters
  <2>4. MoveOK(m) /\ sv_incoming \in Nat
    BY Parameters DEF TypeOK
  <2>5. m.seq \in Nat
    BY <2>4, Parameters DEF MoveOK
  <2>6. m.seq > sv_incoming /\ sv_incoming' = m.seq
    BY DEF ParseMove
  <2> QED
    BY <2>1, <2>2, <2>3, <2>4, <2>5, <2>6
<1>2. CASE ran' = ran
  <2>1. RanBefore'
    BY <1>1, <1>2 DEF RunInv, RanBefore
  <2>2. CommandsOnce'
    BY <1>2 DEF RunInv, CommandsOnce
  <2>3. TimeKept'
    BY <1>1, <1>2 DEF RunInv, TimeKept
  <2> QED
    BY <2>1, <2>2, <2>3 DEF RunInv
<1>3. CASE ran' = ran \o Batch(m)
  <2> DEFINE L == Len(ran)
             T == Total(m)
             B == Batch(m)
             R == Repeats(m)
  <2>1. /\ L \in Nat /\ T \in Nat /\ Len(B) = T /\ R \in Nat
        /\ T <= m.seq - sv_incoming
        /\ \A k \in 1..T : \/ k <= R /\ B[k] = 0
                           \/ k > R /\ B[k] = m.seq - (T - k)
    <3>1. MoveOK(m)
      BY DEF TypeOK
    <3> QED
      BY <1>1, <3>1, BatchRuns, BatchShape
  <2>2. B \in Seq(0..MaxPackets)
    BY <1>1, BatchType DEF TypeOK
  <2> HIDE DEF L, T, B, R
  <2>3. /\ Len(ran') = L + T
        /\ \A i \in 1..L : ran'[i] = ran[i]
        /\ \A i \in L + 1..L + T : ran'[i] = B[i - L]
    <3>1. ran' = ran \o B
      BY <1>3 DEF B
    <3>2. /\ Len(ran \o B) = Len(ran) + Len(B)
          /\ \A i \in 1..Len(ran) + Len(B) :
                (ran \o B)[i] = IF i <= Len(ran) THEN ran[i] ELSE B[i - Len(ran)]
      BY <1>1, <2>2, ConcatProperties
    <3> QED
      BY <3>1, <3>2, <2>1 DEF L
  <2>4. \A i \in 1..L : ran'[i] \in Nat /\ ran'[i] <= sv_incoming
    BY <1>1, <2>3 DEF RunInv, RanBefore, L
  <2>5. \A i \in L + 1..L + T :
           ran'[i] = 0 \/ ran'[i] = m.seq - (L + T - i)
    <3> SUFFICES ASSUME NEW i \in L + 1..L + T
                 PROVE  ran'[i] = 0 \/ ran'[i] = m.seq - (L + T - i)
      OBVIOUS
    <3>1. i - L \in 1..T
      BY <2>1
    <3>2. B[i - L] = 0 \/ B[i - L] = m.seq - (T - (i - L))
      BY <2>1, <3>1
    <3> QED
      BY <2>1, <2>3, <3>2, <1>1
  <2>6. RanBefore'
    <3>1. ASSUME NEW i \in 1..L + T PROVE ran'[i] <= m.seq
      <4>1. CASE i <= L
        BY <4>1, <2>1, <2>4, <1>1
      <4>2. CASE i > L
        BY SMTT(30), <4>2, <2>1, <2>5, <1>1
      <4> QED
        BY <4>1, <4>2, <2>1
    <3> QED
      BY <3>1, <2>3, <1>1 DEF RanBefore
  <2>7. CommandsOnce'
    <3>1. ASSUME NEW i \in 1..L + T, NEW j \in 1..L + T,
                 i < j, ran'[i] # 0, ran'[j] # 0
          PROVE  ran'[i] < ran'[j]
      <4>1. CASE j <= L
        <5>1. i \in 1..L /\ j \in 1..L
          BY <2>1, <3>1, <4>1
        <5>2. ran'[i] = ran[i] /\ ran'[j] = ran[j]
          BY <5>1, <2>3
        <5> QED
          BY <5>1, <5>2, <3>1 DEF RunInv, CommandsOnce, L
      <4>2. CASE j > L
        <5>1. ran'[j] = m.seq - (L + T - j)
          BY <2>1, <2>5, <3>1, <4>2
        <5>2. CASE i <= L
          <6>1. ran'[i] \in Nat /\ ran'[i] <= sv_incoming
            BY <2>1, <2>4, <5>2
          <6>2. sv_incoming < m.seq - (L + T - j)
            BY <2>1, <4>2, <1>1
          <6> QED
            BY <6>1, <6>2, <5>1, <2>1, <1>1
        <5>3. CASE i > L
          <6>1. ran'[i] = m.seq - (L + T - i)
            BY <2>1, <2>5, <3>1, <5>3
          <6> QED
            BY <2>1, <3>1, <5>1, <6>1, <1>1
        <5> QED
          BY <5>2, <5>3, <2>1
      <4> QED
        BY <4>1, <4>2, <2>1
    <3> QED
      BY <3>1, <2>3 DEF CommandsOnce
  <2>8. TimeKept'
    <3>1. L <= sv_incoming
      BY DEF RunInv, TimeKept, L
    <3>2. L + T <= m.seq
      BY <3>1, <2>1, <1>1
    <3> QED
      BY <3>2, <2>3, <1>1 DEF TimeKept
  <2> QED
    BY <2>6, <2>7, <2>8 DEF RunInv
<1> QED
  BY <1>2, <1>3 DEF ParseMove

LEMMA OtherRun == RunInv /\ UNCHANGED runVars => RunInv'
<1> SUFFICES ASSUME RunInv, UNCHANGED runVars PROVE RunInv'
  OBVIOUS
<1>1. UNCHANGED <<ran, sv_incoming>>
  BY DEF runVars
<1> QED
  BY <1>1 DEF RunInv, RanBefore, CommandsOnce, TimeKept

LEMMA NextRun == TypeOK /\ SendInv /\ RunInv /\ [Next]_vars => RunInv'
<1> SUFFICES ASSUME TypeOK, SendInv, RunInv, [Next]_vars PROVE RunInv'
  OBVIOUS
<1>1. ASSUME NEW m \in moves, ParseMove(m) PROVE RunInv'
  BY <1>1, ParseMoveRun
<1>2. CASE WritePacket \/ HoldBack \/ SendClientDatagram \/ UNCHANGED vars
  <2>1. UNCHANGED runVars
    BY <1>2 DEF WritePacket, HoldBack, SendClientDatagram, vars
  <2> QED
    BY <2>1, OtherRun
<1>3. ASSUME NEW u \in updates, Flush(u) \/ ParsePacketEntities(u) PROVE RunInv'
  <2>1. UNCHANGED runVars
    BY <1>3 DEF Flush, ParsePacketEntities, Receive
  <2> QED
    BY <2>1, OtherRun
<1> QED
  BY <1>1, <1>2, <1>3 DEF Next

LEMMA InitInv == Init => SendInv /\ RunInv
<1> SUFFICES ASSUME Init PROVE SendInv /\ RunInv
  OBVIOUS
<1>1. Ring /\ NewBetween
  BY DEF Init, Ring, NewBetween
<1>2. lastoutgoing < outgoing /\ sv_incoming = 0
  BY DEF Init
<1>3. \A m \in moves : MoveInv(m)
  BY DEF Init
<1>4. RanBefore /\ CommandsOnce /\ TimeKept
  BY DEF Init, RanBefore, CommandsOnce, TimeKept
<1> QED
  BY <1>1, <1>2, <1>3, <1>4 DEF SendInv, RunInv

THEOREM CommandInvariant == Spec => [](SendInv /\ RunInv)
<1>1. Init => SendInv /\ RunInv
  BY InitInv
<1>2. TypeOK /\ SendInv /\ RunInv /\ [Next]_vars => (SendInv /\ RunInv)'
  BY NextSend, NextRun
<1> QED
  BY <1>1, <1>2, TypeCorrect, PTL DEF Spec

\* Whatever is lost, and however often packets repeat a command, the server runs
\* no command twice and none before an earlier one.
THEOREM CommandsOnceHolds == Spec => []CommandsOnce
<1>1. RunInv => CommandsOnce
  BY DEF RunInv
<1> QED
  BY <1>1, CommandInvariant, PTL

\* The server runs no more commands, repetitions for lost ones included, than
\* the client has made packets.
THEOREM TimeKeptHolds == Spec => []TimeKept
<1>1. RunInv => TimeKept
  BY DEF RunInv
<1> QED
  BY <1>1, CommandInvariant, PTL

LEMMA NothingMissedBy ==
    ASSUME TypeOK, SendInv, NEW m \in moves, ParseMove(m),
           NetDrop(m) <= m.backup, ~dropped'
    PROVE  ran' = ran \o [k \in 1..m.seq - sv_incoming |-> sv_incoming + k]
<1>1. /\ MoveOK(m) /\ MoveInv(m) /\ sv_incoming \in Nat /\ m.seq \in Nat
      /\ m.new \in Nat /\ m.backup \in 0..CmdBackup
  BY Parameters DEF TypeOK, SendInv, MoveOK
<1>2. NetDrop(m) = m.seq - sv_incoming - m.new /\ NetDrop(m) \in Nat
  BY <1>1 DEF NetDrop, MoveInv
<1>3. Missing(m) = NetDrop(m)
  BY <1>1, <1>2, Parameters DEF Missing, Bound
<1>4. Repeats(m) = 0 /\ Total(m) = m.seq - sv_incoming
  BY <1>1, <1>2, <1>3 DEF Repeats, Total
<1>5. ASSUME NEW k \in 1..Total(m)
      PROVE  Batch(m)[k] = sv_incoming + k
  <2>1. k > Repeats(m) /\ ~(k <= Repeats(m))
    BY <1>1, <1>4
  <2>2. Batch(m)[k] = m.seq - (Total(m) - k)
    BY <2>1, BatchRuns
  <2> QED
    BY <2>2, <1>1, <1>4
<1>6. Batch(m) = [k \in 1..m.seq - sv_incoming |-> sv_incoming + k]
  BY <1>4, <1>5 DEF Batch
<1>7. ran' = ran \o Batch(m)
  BY DEF ParseMove
<1> QED
  BY <1>6, <1>7

\* As long as a packet's backups reach back to the last packet seen, every
\* command is run, and none is filled in for.
THEOREM NothingMissedHolds == Spec => NothingMissed
<1> DEFINE Act == \A m \in moves :
          ParseMove(m) /\ m.backup # 0 /\ NetDrop(m) <= m.backup /\ ~dropped'
             => ran' = ran \o [k \in 1..m.seq - sv_incoming |-> sv_incoming + k]
<1>1. TypeOK /\ SendInv /\ [Next]_vars => [Act]_vars
  BY NothingMissedBy
<1> HIDE DEF Act
<1>2. Spec => [][Act]_vars
  BY <1>1, TypeCorrect, CommandInvariant, PTL DEF Spec
<1> QED
  BY <1>2 DEF NothingMissed, Act

=============================================================================
