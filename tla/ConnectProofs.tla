--------------------------- MODULE ConnectProofs ---------------------------
(***************************************************************************)
(* What holds of the slots for any number of clients and slots and for all *)
(* times and bounds: types, one slot in use for each client, how long a    *)
(* zombie can hide it, and the same connection on both sides.              *)
(***************************************************************************)
EXTENDS Connect, TLAPS

ClientsOK ==
    /\ state \in [Clients -> ClientState]
    /\ serveradr \in [Clients -> BOOLEAN]
    /\ connect_age \in [Clients -> 0..ResendTime]
    /\ chan \in [Clients -> Connections \cup {None, Old}]
    /\ heard \in [Clients -> 0..ClientTimeout + 1]

SlotsOK ==
    /\ sstate \in [Slots -> SlotState]
    /\ owner \in [Slots -> Clients \cup {None}]
    /\ \A s \in Slots : sstate[s] # "free" => owner[s] \in Clients
    /\ schan \in [Slots -> Connections \cup {None}]
    /\ lastmessage \in [Slots -> 0..ServerTimeout + 1]
    /\ lastconnect \in [Slots -> 0..ReconnectLimit]
    /\ send_message \in [Slots -> BOOLEAN]

Datagrams == [kind : ToServer \cup ToClient, client : Clients,
              conn : Connections \cup {None}, age : 0..Lifetime]

NetworkOK == network \subseteq Datagrams

\* The type invariant has a part for each group of variables.
LEMMA TypeOKParts == TypeOK <=> ClientsOK /\ SlotsOK /\ NetworkOK
BY DEF TypeOK, ClientsOK, SlotsOK, NetworkOK, Datagrams

LEMMA TypeOKPartsNext == ClientsOK' /\ SlotsOK' /\ NetworkOK' => TypeOK'
BY DEF TypeOK, ClientsOK, SlotsOK, NetworkOK, Datagrams

LEMMA Times ==
    /\ Lifetime \in Nat /\ ZombieTime \in Nat /\ ReconnectLimit \in Nat
    /\ ResendTime \in Nat /\ ClientTimeout \in Nat /\ ServerTimeout \in Nat
BY ConnectAssumption

\* Every datagram anyone sends is one.
LEMMA DatagramType ==
    ASSUME NEW k \in ToServer \cup ToClient, NEW c \in Clients
    PROVE  Datagram(k, c) \in Datagrams
BY Times DEF Datagram, Datagrams

LEMMA ConnectReplyType ==
    ASSUME NEW c \in Clients, NEW n \in Connections
    PROVE  ConnectReply(c, n) \in Datagrams
<1>1. Datagram("client_connect", c) \in Datagrams
  BY DatagramType DEF ToClient
<1> QED
  BY <1>1 DEF ConnectReply, Datagrams

LEMMA FarewellType ==
    ASSUME NEW c \in Clients
    PROVE  Farewell(c) \subseteq Datagrams
BY DatagramType DEF Farewell, ToServer

LEMMA SentType ==
    ASSUME NetworkOK, NEW d \in Datagrams, network' = Sent(d)
    PROVE  NetworkOK'
BY DEF NetworkOK, Sent

\* A name that is not in use is a name.
LEMMA NewNameType ==
    ASSUME Connections \ Used # {}
    PROVE  NewName \in Connections
BY DEF NewName

\* Where a loop over slots stops is a slot that meets its condition.
LEMMA FirstIsIn ==
    ASSUME NEW S, NEW s \in First(S)
    PROVE  s \in S
BY DEF First

\* SV_DirectConnect: the slot it takes is the client's own, or it is free and
\* the client has none.
LEMMA SlotForIsRight ==
    ASSUME NEW c, NEW s \in SlotFor(c)
    PROVE  /\ s \in Slots
           /\ s \in SlotsOf(c) \/ (SlotsOf(c) = {} /\ sstate[s] = "free")
<1>1. CASE SlotsOf(c) # {}
  BY <1>1, FirstIsIn DEF SlotFor, SlotsOf
<1>2. CASE SlotsOf(c) = {}
  BY <1>2, FirstIsIn DEF SlotFor, FreeSlots
<1> QED
  BY <1>1, <1>2

\* Nothing gets older than the cap.
LEMMA OlderType ==
    ASSUME NEW cap \in Nat, NEW age \in 0..cap
    PROVE  Older(age, cap) \in 0..cap
BY DEF Older

-----------------------------------------------------------------------------
(* Type correctness.                                                       *)

LEMMA InitType == Init => TypeOK
<1> SUFFICES ASSUME Init PROVE TypeOK
  OBVIOUS
<1>1. ClientsOK
  BY Times DEF Init, ClientsOK, ClientState
<1>2. SlotsOK
  BY Times DEF Init, SlotsOK, SlotState
<1>3. NetworkOK
  BY DEF Init, NetworkOK
<1> QED
  BY <1>1, <1>2, <1>3, TypeOKParts

\* What leaves the clients alone keeps their types, and so on.
LEMMA SameClients == ClientsOK /\ UNCHANGED clientVars => ClientsOK'
BY DEF ClientsOK, clientVars

LEMMA SameSlots == SlotsOK /\ UNCHANGED slotVars => SlotsOK'
BY DEF SlotsOK, slotVars

LEMMA AcceptType ==
    ASSUME TypeOK, NEW m \in network, NEW s \in SlotFor(m.client), Accept(m, s)
    PROVE  TypeOK'
<1>1. ClientsOK /\ SlotsOK /\ NetworkOK
  BY TypeOKParts
<1>2. m.client \in Clients
  BY <1>1 DEF NetworkOK, Datagrams
<1>3. s \in Slots
  BY SlotForIsRight
<1>4. NewName \in Connections
  BY NewNameType DEF Accept
<1>5. ClientsOK'
  BY <1>1, SameClients DEF Accept
<1>6. SlotsOK'
  BY <1>1, <1>2, <1>3, <1>4, Times DEF Accept, SlotsOK, SlotState
<1>7. NetworkOK'
  BY <1>1, <1>2, <1>4, ConnectReplyType, SentType DEF Accept
<1> QED
  BY <1>5, <1>6, <1>7, TypeOKPartsNext

LEMMA ServerReadsType == TypeOK /\ ServerReads => TypeOK'
<1> SUFFICES ASSUME TypeOK, NEW m \in network,
                    GetChallenge(m) \/ DirectConnect(m) \/ ReadPacket(m)
             PROVE  TypeOK'
  BY DEF ServerReads
<1>1. ClientsOK /\ SlotsOK /\ NetworkOK
  BY TypeOKParts
<1>2. m.client \in Clients
  BY <1>1 DEF NetworkOK, Datagrams
<1>3. CASE GetChallenge(m)
  <2>1. NetworkOK'
    BY <1>1, <1>2, <1>3, DatagramType, SentType DEF GetChallenge, ToClient
  <2> QED
    BY <1>1, <1>3, <2>1, SameClients, SameSlots, TypeOKPartsNext DEF GetChallenge
<1>4. CASE DirectConnect(m)
  <2>1. CASE Reject(m)
    <3>1. NetworkOK'
      BY <1>1, <1>2, <2>1, DatagramType, SentType DEF Reject, ToClient
    <3> QED
      BY <1>1, <2>1, <3>1, SameClients, SameSlots, TypeOKPartsNext DEF Reject
  <2>2. CASE \E s \in SlotFor(m.client) : Accept(m, s)
    BY <2>2, AcceptType
  <2> QED
    BY <1>4, <2>1, <2>2 DEF DirectConnect
<1>5. CASE ReadPacket(m)
  <2>1. NetworkOK' /\ ClientsOK'
    BY <1>1, <1>5, SameClients DEF ReadPacket, After, NetworkOK
  <2>2. UNCHANGED <<owner, schan, lastconnect>>
    BY <1>5 DEF ReadPacket
  <2>3. CASE UNCHANGED <<sstate, lastmessage, send_message>>
    BY <1>1, <2>2, <2>3, SameSlots, <2>1, TypeOKPartsNext DEF slotVars
  <2>4. ASSUME NEW s \in First(Receivers(m.client)), ServerProcess(m, s)
        PROVE  SlotsOK'
    <3>1. s \in Slots
      BY <2>4, FirstIsIn DEF Receivers
    <3>2. CASE Swallow(s)
      BY <1>1, <2>2, <3>1, <3>2 DEF Swallow, SlotsOK
    <3>3. CASE ~Swallow(s)
      <4>1. lastmessage' \in [Slots -> 0..ServerTimeout + 1]
        BY <1>1, <2>4, <3>1, <3>3, Times DEF ServerProcess, SlotsOK
      <4>2. sstate' \in [Slots -> SlotState]
        BY <1>1, <2>4, <3>1, <3>3 DEF ServerProcess, DropClient, SlotsOK, SlotState
      <4>3. send_message' \in [Slots -> BOOLEAN]
        BY <1>1, <2>4, <3>1, <3>3 DEF ServerProcess, SlotsOK
      <4>4. \A t \in Slots : sstate'[t] # "free" => sstate[t] # "free"
        BY <1>1, <2>4, <3>1, <3>3 DEF ServerProcess, DropClient, Live, SlotsOK, SlotState
      <4> QED
        BY <1>1, <2>2, <4>1, <4>2, <4>3, <4>4 DEF SlotsOK
    <3> QED
      BY <3>2, <3>3
  <2> QED
    BY <1>5, <2>1, <2>3, <2>4, TypeOKPartsNext DEF ReadPacket
<1> QED
  BY <1>3, <1>4, <1>5

LEMMA ServerFrameType ==
    ASSUME TypeOK, CheckTimeouts \/ SendClientMessages \/ \E s \in Slots : Kick(s)
    PROVE  TypeOK'
<1>1. ClientsOK /\ SlotsOK /\ NetworkOK
  BY TypeOKParts
<1>2. CASE CheckTimeouts
  <2>1. SlotsOK'
    <3>1. sstate' \in [Slots -> SlotState] /\ owner' \in [Slots -> Clients \cup {None}]
          /\ schan' \in [Slots -> Connections \cup {None}]
      BY <1>1, <1>2 DEF CheckTimeouts, SlotsOK, SlotState
    <3>2. lastmessage' \in [Slots -> 0..ServerTimeout + 1]
          /\ lastconnect' \in [Slots -> 0..ReconnectLimit]
      BY <1>1, <1>2, Times DEF CheckTimeouts, SlotsOK
    <3>3. send_message' \in [Slots -> BOOLEAN]
      BY <1>1, <1>2 DEF CheckTimeouts, SlotsOK
    <3>4. \A s \in Slots : sstate'[s] # "free" => owner'[s] \in Clients
      BY <1>1, <1>2 DEF CheckTimeouts, SlotsOK
    <3> QED
      BY <3>1, <3>2, <3>3, <3>4 DEF SlotsOK
  <2>2. ClientsOK' /\ NetworkOK'
    BY <1>1, <1>2, SameClients DEF CheckTimeouts, NetworkOK
  <2> QED
    BY <2>1, <2>2, TypeOKPartsNext
<1>3. CASE SendClientMessages
  <2>1. SlotsOK' /\ ClientsOK'
    BY <1>1, <1>3, SameClients DEF SendClientMessages, SlotsOK
  <2>2. ASSUME NEW s \in Slots, Sends(s)
        PROVE  Datagram(Message(s), owner[s]) \in Datagrams
    <3>1. Message(s) \in ToServer \cup ToClient
      BY <1>1, <2>2 DEF Message, Sends, SlotsOK, SlotState, ToClient
    <3>2. owner[s] \in Clients
      BY <1>1, <2>2 DEF SlotsOK, Sends
    <3> QED
      BY <3>1, <3>2, DatagramType
  <2>3. NetworkOK'
    BY <1>1, <1>3, <2>2 DEF SendClientMessages, NetworkOK
  <2> QED
    BY <2>1, <2>3, TypeOKPartsNext
<1>4. ASSUME NEW s \in Slots, Kick(s)
      PROVE  TypeOK'
  <2>1. SlotsOK'
    BY <1>1, <1>4 DEF Kick, Live, DropClient, SlotsOK, SlotState
  <2>2. ClientsOK' /\ NetworkOK'
    BY <1>1, <1>4, SameClients DEF Kick, NetworkOK
  <2> QED
    BY <2>1, <2>2, TypeOKPartsNext
<1> QED
  BY <1>2, <1>3, <1>4

\* CL_Disconnect, whoever calls it, if what it leaves on the network is sound.
LEMMA DisconnectType ==
    ASSUME TypeOK, NEW c \in Clients, NEW rest \in SUBSET network, Disconnect(c, rest)
    PROVE  TypeOK'
<1>1. ClientsOK /\ SlotsOK /\ NetworkOK
  BY TypeOKParts
<1>2. ClientsOK'
  BY <1>1, Times DEF Disconnect, ClientsOK, ClientState
<1>3. NetworkOK'
  BY <1>1, FarewellType DEF Disconnect, NetworkOK
<1> QED
  BY <1>1, <1>2, <1>3, SameSlots, TypeOKPartsNext DEF Disconnect

LEMMA ClientReadsType ==
    ASSUME TypeOK, NEW c \in Clients, ClientReads(c)
    PROVE  TypeOK'
<1> PICK m \in network :
      m.client = c /\ (Challenge(m) \/ ClientConnect(m) \/ Obey(m) \/ ClientProcess(m))
  BY DEF ClientReads
<1>1. ClientsOK /\ SlotsOK /\ NetworkOK
  BY TypeOKParts
<1>2. network \ {m} \in SUBSET network /\ network \ {m} \subseteq Datagrams
  BY <1>1 DEF NetworkOK
<1>4. CASE Challenge(m)
  <2>1. NetworkOK'
    BY <1>1, <1>4, DatagramType, SentType DEF Challenge, ToServer
  <2> QED
    BY <1>1, <1>4, <2>1, SameClients, SameSlots, TypeOKPartsNext DEF Challenge
<1>5. CASE ClientConnect(m)
  <2>1. m.conn \in Connections \cup {None}
    BY <1>1 DEF NetworkOK, Datagrams
  <2>2. ClientsOK'
    BY <1>1, <1>5, <2>1, Times DEF ClientConnect, ClientsOK, ClientState
  <2> QED
    BY <1>1, <1>2, <1>5, <2>2, SameSlots, TypeOKPartsNext DEF ClientConnect, NetworkOK
<1>6. CASE Obey(m)
  BY <1>2, <1>6, DisconnectType DEF Obey
<1>7. CASE ClientProcess(m)
  <2>1. CASE Disconnect(c, network \ {m})
    BY <1>2, <2>1, DisconnectType
  <2>2. CASE ~Disconnect(c, network \ {m})
    <3>1. ClientsOK'
      BY <1>1, <1>7, <2>2, SameClients, Times DEF ClientProcess, ClientsOK, ClientState
    <3>2. NetworkOK' /\ UNCHANGED slotVars
      BY <1>2, <1>7, <2>2 DEF ClientProcess, NetworkOK
    <3> QED
      BY <1>1, <3>1, <3>2, SameSlots, TypeOKPartsNext
  <2> QED
    BY <2>1, <2>2
<1> QED
  BY <1>4, <1>5, <1>6, <1>7

LEMMA ClientFrameType ==
    ASSUME TypeOK, NEW c \in Clients,
           UserDisconnect(c) \/ Retry(c) \/ CheckForResend(c) \/ WritePacket(c) \/ Timeout(c)
    PROVE  TypeOK'
<1>1. ClientsOK /\ SlotsOK /\ NetworkOK
  BY TypeOKParts
<1>2. CASE UserDisconnect(c) \/ Timeout(c)
  BY <1>2, DisconnectType DEF UserDisconnect, Timeout
<1>3. CASE Retry(c)
  <2>1. ClientsOK'
    <3>1. state' \in [Clients -> ClientState] /\ connect_age' \in [Clients -> 0..ResendTime]
      BY <1>1, <1>3, Times DEF Retry, ClientsOK, ClientState
    <3>2. serveradr' \in [Clients -> BOOLEAN]
      BY <1>1, <1>3 DEF Retry, ClientsOK
    <3>3. chan' \in [Clients -> Connections \cup {None, Old}]
      BY <1>1, <1>3 DEF Retry, ClientsOK
    <3>4. heard' \in [Clients -> 0..ClientTimeout + 1]
      BY <1>1, <1>3, Times DEF Retry, ClientsOK
    <3> QED
      BY <3>1, <3>2, <3>3, <3>4 DEF ClientsOK
  <2>2. NetworkOK' /\ UNCHANGED slotVars
    BY <1>1, <1>3, FarewellType DEF Retry, NetworkOK
  <2> QED
    BY <1>1, <2>1, <2>2, SameSlots, TypeOKPartsNext
<1>4. CASE CheckForResend(c)
  <2>1. ClientsOK'
    BY <1>1, <1>4, Times DEF CheckForResend, ClientsOK, ClientState
  <2>2. NetworkOK' /\ UNCHANGED slotVars
    BY <1>1, <1>4, DatagramType, SentType DEF CheckForResend, ToServer
  <2> QED
    BY <1>1, <2>1, <2>2, SameSlots, TypeOKPartsNext
<1>5. CASE WritePacket(c)
  <2>1. NetworkOK'
    BY <1>1, <1>5, DatagramType DEF WritePacket, NetworkOK, ToServer
  <2> QED
    BY <1>1, <1>5, <2>1, SameClients, SameSlots, TypeOKPartsNext DEF WritePacket
<1> QED
  BY <1>2, <1>3, <1>4, <1>5

LEMMA TickType ==
    ASSUME TypeOK, Tick
    PROVE  TypeOK'
<1>1. ClientsOK /\ SlotsOK /\ NetworkOK
  BY TypeOKParts
<1>2. ClientsOK'
  <2>1. connect_age' \in [Clients -> 0..ResendTime]
    BY <1>1, Times, OlderType DEF Tick, ClientsOK
  <2>2. heard' \in [Clients -> 0..ClientTimeout + 1]
    <3>1. ClientTimeout + 1 \in Nat /\ 0 \in 0..ClientTimeout + 1
      BY Times
    <3>2. \A c \in Clients : Older(heard[c], ClientTimeout + 1) \in 0..ClientTimeout + 1
      BY <1>1, <3>1, OlderType DEF ClientsOK
    <3> QED
      BY <3>1, <3>2 DEF Tick
  <2> QED
    BY <1>1, <2>1, <2>2 DEF Tick, ClientsOK
<1>3. SlotsOK'
  <2>1. lastmessage' \in [Slots -> 0..ServerTimeout + 1]
    <3>1. ServerTimeout + 1 \in Nat /\ 0 \in 0..ServerTimeout + 1
      BY Times
    <3>2. \A s \in Slots : Older(lastmessage[s], ServerTimeout + 1) \in 0..ServerTimeout + 1
      BY <1>1, <3>1, OlderType DEF SlotsOK
    <3> QED
      BY <3>1, <3>2 DEF Tick
  <2>2. lastconnect' \in [Slots -> 0..ReconnectLimit]
    <3>1. \A s \in Slots : Older(lastconnect[s], ReconnectLimit) \in 0..ReconnectLimit
      BY <1>1, Times, OlderType DEF SlotsOK
    <3> QED
      BY <3>1, Times DEF Tick
  <2>3. UNCHANGED <<sstate, owner, schan, send_message>>
    BY DEF Tick
  <2> QED
    BY <1>1, <2>1, <2>2, <2>3 DEF SlotsOK
<1>4. NetworkOK'
  <2>1. ASSUME NEW d \in network, d.age < Lifetime
        PROVE  [d EXCEPT !.age = @ + 1] \in Datagrams
    BY <1>1, <2>1, Times DEF NetworkOK, Datagrams
  <2> QED
    BY <2>1 DEF Tick, NetworkOK
<1> QED
  BY <1>2, <1>3, <1>4, TypeOKPartsNext

\* Every variable keeps to its type, the ages to their caps, and a slot that is
\* not free has an address.
THEOREM TypeCorrect == Spec => []TypeOK
<1>1. Init => TypeOK
  BY InitType
<1>2. TypeOK /\ [Next]_vars => TypeOK'
  <2> SUFFICES ASSUME TypeOK, [Next]_vars PROVE TypeOK'
    OBVIOUS
  <2>1. CASE Next
    <3>1. CASE ServerReads
      BY <3>1, ServerReadsType
    <3>2. CASE CheckTimeouts \/ SendClientMessages \/ \E s \in Slots : Kick(s)
      BY <3>2, ServerFrameType
    <3>3. ASSUME NEW c \in Clients, ClientReads(c)
          PROVE  TypeOK'
      BY <3>3, ClientReadsType
    <3>4. ASSUME NEW c \in Clients,
                 UserDisconnect(c) \/ Retry(c) \/ CheckForResend(c) \/ WritePacket(c) \/ Timeout(c)
          PROVE  TypeOK'
      BY <3>4, ClientFrameType
    <3>5. CASE Tick
      BY <3>5, TickType
    <3> QED
      BY <2>1, <3>1, <3>2, <3>3, <3>4, <3>5 DEF Next
  <2>2. CASE UNCHANGED vars
    BY <2>2 DEF TypeOK, vars, clientVars, slotVars
  <2> QED
    BY <2>1, <2>2
<1> QED
  BY <1>1, <1>2, PTL DEF Spec

-----------------------------------------------------------------------------
(* One slot in use for each client.                                        *)

\* No slot comes into use, none changes hands.
Kept == \A s \in Slots : Live(s)' => Live(s) /\ owner'[s] = owner[s]

LEMMA KeptIsEnough ==
    ASSUME OneSlotEach, Kept
    PROVE  OneSlotEach'
BY DEF OneSlotEach, Kept, SlotsOf, Slots

LEMMA SlotsSame ==
    ASSUME UNCHANGED <<sstate, owner>>
    PROVE  Kept
BY DEF Kept, Live

\* A dropped client's slot is no longer in use.
LEMMA DropKeeps ==
    ASSUME TypeOK, NEW s \in Slots, DropClient(s), UNCHANGED owner
    PROVE  Kept
<1>1. SlotsOK
  BY TypeOKParts
<1> QED
  BY <1>1 DEF DropClient, Kept, Live, SlotsOK

\* The only step that puts a slot into use.
LEMMA AcceptKeepsOne ==
    ASSUME TypeOK, OneSlotEach, NEW m \in network, NEW s \in SlotFor(m.client), Accept(m, s)
    PROVE  OneSlotEach'
<1>1. SlotsOK
  BY TypeOKParts
<1> DEFINE c == m.client
<1>2. /\ s \in Slots
      /\ s \in SlotsOf(c) \/ (SlotsOf(c) = {} /\ sstate[s] = "free")
  BY SlotForIsRight
<1>3. owner'[s] = c
  BY <1>1, <1>2 DEF Accept, SlotsOK
<1>4. \A t \in Slots \ {s} : Live(t)' => Live(t) /\ owner'[t] = owner[t]
  BY <1>1, <1>2 DEF Accept, SlotsOK, Live
<1>5. SUFFICES ASSUME NEW d \in Clients, NEW t \in Slots, NEW u \in Slots,
                      Live(t)', Live(u)', owner'[t] = d, owner'[u] = d
               PROVE  t = u
  BY DEF OneSlotEach, SlotsOf, Slots
<1>6. CASE t # s /\ u # s
  BY <1>4, <1>5, <1>6 DEF OneSlotEach, SlotsOf
<1>7. ASSUME NEW v \in Slots \ {s}, Live(v)', owner'[v] = c
      PROVE  FALSE
  <2>1. v \in SlotsOf(c)
    BY <1>4, <1>7 DEF SlotsOf
  <2>2. c \in Clients
    BY <2>1, TypeOKParts DEF NetworkOK, Datagrams
  <2> QED
    BY <1>2, <2>1, <2>2 DEF OneSlotEach
<1>8. CASE t = s \/ u = s
  BY <1>3, <1>5, <1>7, <1>8
<1> QED
  BY <1>6, <1>8

LEMMA ReadPacketKeeps ==
    ASSUME TypeOK, NEW m \in network, ReadPacket(m)
    PROVE  Kept
<1>1. SlotsOK /\ UNCHANGED owner
  BY TypeOKParts DEF ReadPacket
<1>2. ASSUME NEW s \in First(Receivers(m.client)), ServerProcess(m, s)
      PROVE  Kept
  <2>1. s \in Slots
    BY FirstIsIn DEF Receivers
  <2>2. CASE UNCHANGED sstate
    BY <1>1, <2>2, SlotsSame
  <2>3. CASE DropClient(s)
    BY <1>1, <2>1, <2>3, DropKeeps
  <2>4. CASE Live(s) /\ sstate' = [sstate EXCEPT ![s] = "spawned"]
    BY <1>1, <2>1, <2>4 DEF Kept, Live, SlotsOK
  <2> QED
    BY <1>2, <2>2, <2>3, <2>4 DEF ServerProcess, Swallow
<1>3. CASE UNCHANGED sstate
  BY <1>1, <1>3, SlotsSame
<1> QED
  BY <1>2, <1>3 DEF ReadPacket

LEMMA ServerKeepsOne ==
    ASSUME TypeOK, OneSlotEach,
           ServerReads \/ CheckTimeouts \/ SendClientMessages \/ \E s \in Slots : Kick(s)
    PROVE  OneSlotEach'
<1>1. ASSUME NEW m \in network, GetChallenge(m) \/ DirectConnect(m) \/ ReadPacket(m)
      PROVE  OneSlotEach'
  <2>1. CASE GetChallenge(m) \/ Reject(m)
    BY <2>1, SlotsSame, KeptIsEnough DEF GetChallenge, Reject, slotVars
  <2>2. ASSUME NEW s \in SlotFor(m.client), Accept(m, s)
        PROVE  OneSlotEach'
    BY <2>2, AcceptKeepsOne
  <2>3. CASE ReadPacket(m)
    BY <2>3, ReadPacketKeeps, KeptIsEnough
  <2> QED
    BY <1>1, <2>1, <2>2, <2>3 DEF DirectConnect
<1>2. CASE CheckTimeouts
  <2>1. SlotsOK
    BY TypeOKParts
  <2>2. Kept
    BY <1>2, <2>1 DEF CheckTimeouts, Kept, Live, SlotsOK
  <2> QED
    BY <2>2, KeptIsEnough
<1>3. CASE SendClientMessages
  <2>1. UNCHANGED <<sstate, owner>>
    BY <1>3 DEF SendClientMessages
  <2> QED
    BY <2>1, SlotsSame, KeptIsEnough
<1>4. ASSUME NEW s \in Slots, Kick(s)
      PROVE  OneSlotEach'
  BY <1>4, DropKeeps, KeptIsEnough DEF Kick
<1> QED
  BY <1>1, <1>2, <1>3, <1>4 DEF ServerReads

\* Nothing a client does touches the slots.
LEMMA ClientSlots ==
    ASSUME NEW c \in Clients,
           \/ ClientReads(c)
           \/ UserDisconnect(c) \/ Retry(c) \/ CheckForResend(c) \/ WritePacket(c) \/ Timeout(c)
    PROVE  UNCHANGED slotVars
<1>1. CASE ClientReads(c)
  BY <1>1 DEF ClientReads, Challenge, ClientConnect, Obey, ClientProcess, Disconnect
<1>2. CASE UserDisconnect(c) \/ Retry(c) \/ CheckForResend(c) \/ WritePacket(c) \/ Timeout(c)
  BY <1>2 DEF UserDisconnect, Retry, CheckForResend, WritePacket, Timeout, Disconnect
<1> QED
  BY <1>1, <1>2

\* A client never holds two slots in use, for any number of clients and slots.
THEOREM OneSlotEachHolds == Spec => []OneSlotEach
<1>1. Init => OneSlotEach
  BY DEF Init, OneSlotEach, SlotsOf, Live
<1>2. TypeOK /\ OneSlotEach /\ [Next]_vars => OneSlotEach'
  <2> SUFFICES ASSUME TypeOK, OneSlotEach, [Next]_vars PROVE OneSlotEach'
    OBVIOUS
  <2>1. CASE ServerReads \/ CheckTimeouts \/ SendClientMessages \/ \E s \in Slots : Kick(s)
    BY <2>1, ServerKeepsOne
  <2>2. CASE \E c \in Clients : \/ ClientReads(c)
                                \/ UserDisconnect(c) \/ Retry(c) \/ CheckForResend(c)
                                \/ WritePacket(c) \/ Timeout(c)
    BY <2>2, ClientSlots, SlotsSame, KeptIsEnough DEF slotVars
  <2>3. CASE Tick \/ UNCHANGED vars
    BY <2>3, SlotsSame, KeptIsEnough DEF Tick, vars, slotVars
  <2> QED
    BY <2>1, <2>2, <2>3 DEF Next
<1> QED
  BY <1>1, <1>2, TypeCorrect, PTL DEF Spec

-----------------------------------------------------------------------------
(* A zombie in front of a new connection of the same client.               *)

\* A slot in use was taken after every zombie of the same client was dropped, and
\* no time passes while a zombie is due to be freed.
Younger(s, t) == lastmessage[s] <= lastmessage[t] /\ lastmessage[s] <= ZombieTime + 1

Behind(s, t) == Live(s) /\ sstate[t] = "zombie" /\ owner[s] = owner[t]

HiddenInv == \A s, t \in Slots : Behind(s, t) => Younger(s, t)

LEMMA LastMessageType ==
    ASSUME TypeOK, NEW s \in Slots
    PROVE  lastmessage[s] \in Nat /\ lastmessage[s] <= ServerTimeout + 1
<1>1. lastmessage[s] \in 0..ServerTimeout + 1
  BY TypeOKParts DEF SlotsOK
<1> QED
  BY <1>1, Times

\* Two slots that stay as they are, but for a message that arrives in the first.
StillBehind(s, t) ==
    /\ Behind(s, t)
    /\ lastmessage'[t] = lastmessage[t]
    /\ lastmessage'[s] = lastmessage[s] \/ lastmessage'[s] = 0

LEMMA HiddenKept ==
    ASSUME TypeOK, HiddenInv, \A s, t \in Slots : Behind(s, t)' => StillBehind(s, t)
    PROVE  HiddenInv'
<1> SUFFICES ASSUME NEW s \in Slots, NEW t \in Slots, Behind(s, t)'
             PROVE  Younger(s, t)'
  BY DEF HiddenInv, Slots
<1>1. StillBehind(s, t) /\ Younger(s, t)
  BY DEF HiddenInv, StillBehind
<1>2. lastmessage[s] \in Nat /\ lastmessage[t] \in Nat /\ ZombieTime \in Nat
  BY LastMessageType, Times
<1> QED
  BY <1>1, <1>2 DEF Younger, StillBehind

\* A client that is dropped has no other slot in use.
LEMMA DropHides ==
    ASSUME TypeOK, OneSlotEach, NEW k \in Slots, Live(k), DropClient(k), UNCHANGED owner,
           NEW s \in Slots, NEW t \in Slots, Behind(s, t)'
    PROVE  Behind(s, t) /\ s # k
<1>1. SlotsOK
  BY TypeOKParts
<1>2. s # k /\ Live(s) /\ owner[s] = owner[t]
  BY <1>1 DEF Behind, DropClient, Live, SlotsOK
<1>3. owner[s] \in Clients
  BY <1>1, <1>2 DEF SlotsOK, Live
<1>4. t # k
  BY <1>2, <1>3 DEF OneSlotEach, SlotsOf
<1> QED
  BY <1>1, <1>2, <1>4 DEF Behind, DropClient, SlotsOK

LEMMA AcceptHides ==
    ASSUME TypeOK, HiddenInv, NEW c, NEW m, m.client = c, NEW k \in SlotFor(c), Accept(m, k)
    PROVE  HiddenInv'
<1> SUFFICES ASSUME NEW s \in Slots, NEW t \in Slots, Behind(s, t)'
             PROVE  Younger(s, t)'
  BY DEF HiddenInv, Slots
<1>1. SlotsOK /\ k \in Slots
  BY TypeOKParts, SlotForIsRight
<1>2. t # k /\ lastmessage'[t] = lastmessage[t] /\ sstate[t] = "zombie" /\ owner'[t] = owner[t]
  BY <1>1 DEF Accept, Behind, SlotsOK
<1>3. lastmessage[s] \in Nat /\ lastmessage[t] \in Nat /\ ZombieTime \in Nat
  BY LastMessageType, Times
<1>4. CASE s = k
  <2>1. lastmessage'[s] = 0
    BY <1>1, <1>4 DEF Accept, SlotsOK
  <2> QED
    BY <1>2, <1>3, <2>1 DEF Younger
<1>5. CASE s # k
  <2>1. Behind(s, t) /\ lastmessage'[s] = lastmessage[s]
    BY <1>1, <1>2, <1>5 DEF Accept, Behind, Live, SlotsOK
  <2> QED
    BY <1>2, <2>1 DEF HiddenInv, Younger
<1> QED
  BY <1>4, <1>5

LEMMA ReadPacketHides ==
    ASSUME TypeOK, OneSlotEach, HiddenInv, NEW m, ReadPacket(m)
    PROVE  HiddenInv'
<1>1. SlotsOK /\ UNCHANGED owner
  BY TypeOKParts DEF ReadPacket
<1>2. ASSUME NEW k \in First(Receivers(m.client)), ServerProcess(m, k),
             NEW s \in Slots, NEW t \in Slots, Behind(s, t)'
      PROVE  StillBehind(s, t)
  <2>1. k \in Slots
    BY <1>2, FirstIsIn DEF Receivers
  <2>2. CASE Swallow(k)
    BY <1>1, <1>2, <2>2 DEF Swallow, StillBehind, Behind, Live
  <2>3. CASE ~Swallow(k)
    <3>1. Live(k) /\ lastmessage' = [lastmessage EXCEPT ![k] = 0]
      BY <1>2, <2>3 DEF ServerProcess
    <3>2. Behind(s, t)
      <4>1. CASE DropClient(k)
        BY <1>1, <1>2, <2>1, <3>1, <4>1, DropHides
      <4>2. CASE UNCHANGED sstate
        BY <1>1, <1>2, <4>2 DEF Behind, Live
      <4>3. CASE sstate' = [sstate EXCEPT ![k] = "spawned"]
        BY <1>1, <1>2, <2>1, <3>1, <4>3 DEF Behind, Live, SlotsOK
      <4> QED
        BY <1>2, <2>3, <4>1, <4>2, <4>3 DEF ServerProcess
    <3>3. t # k
      BY <3>1, <3>2 DEF Behind, Live
    <3> QED
      BY <1>1, <2>1, <3>1, <3>2, <3>3 DEF StillBehind, SlotsOK
  <2> QED
    BY <2>2, <2>3
<1>3. CASE UNCHANGED <<sstate, lastmessage>>
  BY <1>1, <1>3, HiddenKept DEF StillBehind, Behind, Live
<1> QED
  BY <1>2, <1>3, HiddenKept DEF ReadPacket

LEMMA TickHides ==
    ASSUME TypeOK, HiddenInv, Tick
    PROVE  HiddenInv'
<1> SUFFICES ASSUME NEW s \in Slots, NEW t \in Slots, Behind(s, t)'
             PROVE  Younger(s, t)'
  BY DEF HiddenInv, Slots
<1>1. Behind(s, t) /\ Younger(s, t)
  BY DEF Tick, Behind, Live, HiddenInv
<1>2. ~Expired(t) /\ sstate[t] = "zombie"
  BY <1>1 DEF Tick, Due, Behind
<1>3. /\ lastmessage[s] \in Nat /\ lastmessage[t] \in Nat
      /\ ZombieTime \in Nat /\ ServerTimeout \in Nat /\ ZombieTime <= ServerTimeout
  BY LastMessageType, Times, ConnectAssumption
<1>4. lastmessage[t] <= ZombieTime
  BY <1>2, <1>3 DEF Expired
<1>5. lastmessage'[s] = lastmessage[s] + 1 /\ lastmessage'[t] = lastmessage[t] + 1
  <2>1. sstate[s] # "free" /\ sstate[t] # "free"
    BY <1>1 DEF Behind, Live
  <2>2. lastmessage[s] < ServerTimeout + 1 /\ lastmessage[t] < ServerTimeout + 1
    BY <1>1, <1>3, <1>4 DEF Younger
  <2> QED
    BY <2>1, <2>2 DEF Tick, Older
<1> QED
  BY <1>1, <1>3, <1>4, <1>5 DEF Younger

\* A zombie keeps a new connection of its client from hearing anything no longer
\* than zombietime (SV_ReadPackets, SV_CheckTimeouts), for any number of clients
\* and slots: the zombie's time runs out first, since it was dropped before.
THEOREM HiddenShortlyHolds == Spec => []HiddenShortly
<1>1. Init => HiddenInv
  BY DEF Init, HiddenInv, Behind, Live
<1>2. TypeOK /\ OneSlotEach /\ HiddenInv /\ [Next]_vars => HiddenInv'
  <2> SUFFICES ASSUME TypeOK, OneSlotEach, HiddenInv, [Next]_vars PROVE HiddenInv'
    OBVIOUS
  <2>1. CASE UNCHANGED <<sstate, owner, lastmessage>>
    BY <2>1, HiddenKept DEF StillBehind, Behind, Live
  <2>2. CASE ServerReads
    <3>1. PICK m \in network : GetChallenge(m) \/ DirectConnect(m) \/ ReadPacket(m)
      BY <2>2 DEF ServerReads
    <3>2. CASE GetChallenge(m) \/ Reject(m)
      BY <2>1, <3>2 DEF GetChallenge, Reject, slotVars
    <3>3. CASE \E k \in SlotFor(m.client) : Accept(m, k)
      BY <3>3, AcceptHides
    <3> QED
      BY <3>1, <3>2, <3>3, ReadPacketHides DEF DirectConnect
  <2>3. CASE CheckTimeouts
    <3>1. SlotsOK
      BY TypeOKParts
    <3>2. ASSUME NEW s \in Slots, NEW t \in Slots, Behind(s, t)'
          PROVE  StillBehind(s, t)
      BY <2>3, <3>1, <3>2 DEF CheckTimeouts, StillBehind, Behind, Live, SlotsOK
    <3> QED
      BY <3>2, HiddenKept
  <2>4. ASSUME NEW k \in Slots, Kick(k)
        PROVE  HiddenInv'
    <3>1. UNCHANGED <<owner, lastmessage>> /\ Live(k) /\ DropClient(k)
      BY <2>4 DEF Kick
    <3> QED
      BY <3>1, DropHides, HiddenKept DEF StillBehind
  <2>5. CASE SendClientMessages
    BY <2>1, <2>5 DEF SendClientMessages
  <2>6. ASSUME NEW c \in Clients,
               \/ ClientReads(c)
               \/ UserDisconnect(c) \/ Retry(c) \/ CheckForResend(c) \/ WritePacket(c) \/ Timeout(c)
        PROVE  HiddenInv'
    BY <2>1, <2>6, ClientSlots DEF slotVars
  <2>7. CASE Tick
    BY <2>7, TickHides
  <2>8. CASE UNCHANGED vars
    BY <2>1, <2>8 DEF vars, slotVars
  <2> QED
    BY <2>2, <2>3, <2>4, <2>5, <2>6, <2>7, <2>8 DEF Next
<1>3. TypeOK /\ HiddenInv => HiddenShortly
  BY FirstIsIn DEF HiddenInv, HiddenShortly, Hidden, Behind, Younger, Receivers
<1> QED
  BY <1>1, <1>2, <1>3, TypeCorrect, OneSlotEachHolds, PTL DEF Spec

-----------------------------------------------------------------------------
(* The same connection on both sides.                                      *)

HandshakeKind == {"getchallenge", "challenge", "connect", "client_connect", "disconnect"}

\* How long what a datagram comes of may have been on the way, its own way
\* included.
Way(m) == Before(m.kind) + m.age

\* What HandshakeInv says of each client.
Waiting(c) == state[c] = "connecting" => \A m \in Handshake(c) : connect_age[c] <= Way(m)

Young(c, s) == \A m \in Asking(c) : lastconnect[s] <= Way(m) /\ lastmessage[s] <= Way(m)

Settled(c) == AskingStill(c) => \E s \in SlotsOf(c) : Young(c, s)

Told(c) == \A m \in Replies(c), s \in SlotsOf(c) : schan[s] = m.conn

Playing(c) == state[c] = "active" => Replies(c) = {}

Same(c) == Linked(c) => \A s \in SlotsOf(c) : chan[c] = schan[s]

Agreed(c) == Waiting(c) /\ Settled(c) /\ Told(c) /\ Playing(c) /\ Same(c)

LEMMA HandshakeInvParts == HandshakeInv <=> (~crossed => \A c \in Clients : Agreed(c))
BY DEF HandshakeInv, Agreed, Waiting, Settled, Young, Told, Playing, Same, Way

LEMMA HandshakeInvPartsNext == (~crossed' => \A c \in Clients : Agreed(c)') => HandshakeInv'
BY DEF HandshakeInv, Agreed, Waiting, Settled, Young, Told, Playing, Same, Way

\* The datagrams of a client's handshakes, now and in the next state.
LEMMA HandshakeDef ==
    ASSUME NEW c, NEW m
    PROVE  /\ m \in Handshake(c) <=> m \in network /\ m.client = c /\ m.kind \in HandshakeKind
           /\ m \in Asking(c) <=> /\ m \in network /\ m.client = c
                                  /\ m.kind \in {"getchallenge", "challenge", "connect"}
           /\ m \in Replies(c) <=> m \in network /\ m.client = c /\ m.kind = "client_connect"
BY DEF Handshake, Asking, Replies, Rejections, HandshakeKind

LEMMA HandshakeDefNext ==
    ASSUME NEW c, NEW m
    PROVE  /\ m \in Handshake(c)' <=> m \in network' /\ m.client = c /\ m.kind \in HandshakeKind
           /\ m \in Asking(c)' <=> /\ m \in network' /\ m.client = c
                                   /\ m.kind \in {"getchallenge", "challenge", "connect"}
           /\ m \in Replies(c)' <=> m \in network' /\ m.client = c /\ m.kind = "client_connect"
BY DEF Handshake, Asking, Replies, Rejections, HandshakeKind

\* A handshake's datagram has been on the way for less than its limit.
LEMMA WayType ==
    ASSUME NetworkOK, NEW m \in network
    PROVE  /\ Way(m) \in Nat
           /\ Way(m) <= 4 * Lifetime
           /\ m.kind \in {"getchallenge", "challenge", "connect"} => Way(m) <= 3 * Lifetime
<1>1. m.age \in Nat /\ m.age <= Lifetime /\ Lifetime \in Nat
  BY Times DEF NetworkOK, Datagrams
<1>2. Before(m.kind) \in Nat /\ Before(m.kind) <= 3 * Lifetime
  BY Times DEF Before
<1>3. m.kind \in {"getchallenge", "challenge", "connect"} => Before(m.kind) <= 2 * Lifetime
  BY Times DEF Before
<1> QED
  BY <1>1, <1>2, <1>3 DEF Way

\* What answers a question on the way, but for the client_connect.
Answers(n, m) ==
    /\ <<m.kind, n.kind>> \in {<<"getchallenge", "challenge">>, <<"challenge", "connect">>,
                               <<"connect", "disconnect">>}
    /\ n.client = m.client /\ n.age = 0

LEMMA AnswerWay ==
    ASSUME NetworkOK, NEW m \in network, NEW n, Answers(n, m)
    PROVE  Way(m) <= Way(n) /\ Way(n) \in Nat
<1>1. m.age \in Nat /\ m.age <= Lifetime /\ Lifetime \in Nat
  BY Times DEF NetworkOK, Datagrams
<1>2. Before(m.kind) \in Nat /\ Before(m.kind) + Lifetime <= Before(n.kind) /\ Before(n.kind) \in Nat
  BY Times DEF Before, Answers
<1> QED
  BY <1>1, <1>2 DEF Way, Answers

\* A slot of this client was one before, with the connection it had.
SlotsKept(c) == \A s \in SlotsOf(c)' : s \in SlotsOf(c) /\ schan'[s] = schan[s]

\* A slot that is in use stays in use and gets no older.
NoOlder(s) == /\ Live(s)' /\ owner'[s] = owner[s]
              /\ lastconnect'[s] = lastconnect[s]
              /\ lastmessage'[s] = lastmessage[s] \/ lastmessage'[s] = 0

\* Nothing happens to a client's handshake, except that its questions are answered
\* or lost, and that its slot hears of the client, or goes while none is open.
Quiet(c) ==
    /\ state'[c] = state[c] /\ connect_age'[c] = connect_age[c] /\ chan'[c] = chan[c]
    /\ SlotsKept(c)
    /\ AskingStill(c) => \A s \in SlotsOf(c) : NoOlder(s)
    /\ \A n \in network' : n.client = c /\ n.kind \in HandshakeKind =>
          n \in network \/ \E m \in network : Answers(n, m)

LEMMA QuietAgrees ==
    ASSUME TypeOK, NEW c \in Clients, Agreed(c), Quiet(c)
    PROVE  Agreed(c)'
<1>1. ClientsOK /\ NetworkOK
  BY TypeOKParts
<1>2. ASSUME NEW n \in Handshake(c)'
      PROVE  /\ Way(n) \in Nat
             /\ \E m \in Handshake(c) :
                   /\ Way(m) <= Way(n)
                   /\ n \in Asking(c)' => m \in Asking(c)
                   /\ n \in Replies(c)' => m = n
  <2>1. n \in network' /\ n.client = c /\ n.kind \in HandshakeKind
    BY <1>2, HandshakeDefNext
  <2>2. CASE n \in network
    <3>1. n \in Handshake(c) /\ Way(n) \in Nat
      BY <1>1, <2>1, <2>2, HandshakeDef, WayType
    <3>2. n \in Asking(c)' => n \in Asking(c)
      BY <2>2, HandshakeDef, HandshakeDefNext
    <3> QED
      BY <3>1, <3>2
  <2>3. ASSUME NEW m \in network, Answers(n, m)
        PROVE  /\ Way(m) <= Way(n) /\ Way(n) \in Nat
               /\ m \in Handshake(c) /\ m \in Asking(c) /\ n \notin Replies(c)'
    <3>1. m.client = c /\ m.kind \in {"getchallenge", "challenge", "connect"}
          /\ n.kind # "client_connect"
      BY <2>1, <2>3 DEF Answers
    <3> QED
      BY <1>1, <2>3, <3>1, AnswerWay, HandshakeDef, HandshakeDefNext DEF HandshakeKind
  <2> QED
    BY <2>1, <2>2, <2>3 DEF Quiet
<1>3. Asking(c)' \subseteq Handshake(c)' /\ Replies(c)' \subseteq Handshake(c)'
  BY DEF Handshake
<1>4. Replies(c)' \subseteq Replies(c)
  BY <1>2, <1>3, HandshakeDef, HandshakeDefNext
<1>5. Waiting(c)'
  <2>1. connect_age[c] \in Nat
    BY <1>1 DEF ClientsOK
  <2>2. \A m \in Handshake(c) : Way(m) \in Nat
    BY <1>1, HandshakeDef, WayType
  <2> QED
    BY <1>2, <2>1, <2>2 DEF Agreed, Waiting, Quiet
<1>6. Settled(c)'
  <2> SUFFICES ASSUME AskingStill(c)'
               PROVE  \E s \in SlotsOf(c)' : Young(c, s)'
    BY DEF Settled
  <2>1. AskingStill(c)
    BY <1>2, <1>3, <1>4 DEF AskingStill, Linked, Quiet
  <2>2. PICK s \in SlotsOf(c) : Young(c, s)
    BY <2>1 DEF Agreed, Settled
  <2>3. s \in SlotsOf(c)' /\ NoOlder(s)
    BY <2>1, <2>2 DEF Quiet, NoOlder, SlotsOf, Slots
  <2>4. lastconnect[s] \in Nat /\ lastmessage[s] \in Nat
    BY <2>2, TypeOKParts, Times DEF SlotsOK, SlotsOf
  <2>5. ASSUME NEW n \in Asking(c)'
        PROVE  lastconnect'[s] <= Way(n) /\ lastmessage'[s] <= Way(n)
    <3>1. PICK m \in Asking(c) : Way(m) <= Way(n) /\ Way(n) \in Nat
      BY <1>2, <1>3, <2>5
    <3>2. Way(m) \in Nat
      BY <1>1, HandshakeDef, WayType
    <3>3. lastconnect[s] <= Way(m) /\ lastmessage[s] <= Way(m)
      BY <2>2 DEF Young
    <3> QED
      BY <2>3, <2>4, <3>1, <3>2, <3>3 DEF NoOlder
  <2> QED
    BY <2>3, <2>5 DEF Young, Way
<1>7. Told(c)' /\ Playing(c)' /\ Same(c)'
  BY <1>4 DEF Agreed, Told, Playing, Same, Quiet, SlotsKept, Linked
<1> QED
  BY <1>5, <1>6, <1>7 DEF Agreed

LEMMA SameSlotsQuiet ==
    ASSUME UNCHANGED slotVars, NEW c
    PROVE  SlotsKept(c) /\ \A s \in SlotsOf(c) : NoOlder(s)
BY DEF SlotsKept, NoOlder, SlotsOf, Live, slotVars, Slots

LEMMA DatagramFields ==
    ASSUME NEW k, NEW c
    PROVE  /\ Datagram(k, c).kind = k /\ Datagram(k, c).client = c
           /\ Datagram(k, c).age = 0
BY DEF Datagram

\* The final message is none of the handshake's.
LEMMA FarewellApart ==
    ASSUME NEW c, NEW m \in Farewell(c)
    PROVE  m.kind \notin HandshakeKind
BY DatagramFields DEF Farewell, HandshakeKind

\* A question that is answered: GetChallenge, Challenge and Reject.
LEMMA AnswerQuiet ==
    ASSUME NEW m \in network, NEW n, Answers(n, m), network' = Sent(n),
           UNCHANGED clientVars, UNCHANGED slotVars, NEW d
    PROVE  Quiet(d)
<1>1. \A k \in network' : k \in network \/ k = n
  BY DEF Sent
<1> QED
  BY <1>1, SameSlotsQuiet DEF Quiet, clientVars

\* SV_DirectConnect takes a connect for a new connection only if the client has no
\* connection yet, nor an answer on its way: else its slot is so young that the
\* quick reject applies.
LEMMA TakenIsAnew ==
    ASSUME HandshakeShort, TypeOK, OneSlotEach, NEW m \in network, m.kind = "connect",
           m.client \in Clients, Agreed(m.client), ~TooSoon(m.client)
    PROVE  ~AskingStill(m.client)
<1> SUFFICES ASSUME AskingStill(m.client) PROVE FALSE
  OBVIOUS
<1>1. PICK s \in SlotsOf(m.client) : Young(m.client, s)
  BY DEF Agreed, Settled
<1>2. m \in Asking(m.client)
  BY HandshakeDef
<1>3. Way(m) \in Nat /\ Way(m) <= 3 * Lifetime
  BY WayType, TypeOKParts
<1>4. lastconnect[s] \in Nat
  BY <1>1, TypeOKParts, Times DEF SlotsOK, SlotsOf
<1>5. lastconnect[s] < ReconnectLimit
  BY <1>1, <1>2, <1>3, <1>4, Times DEF Young, HandshakeShort
<1>6. \A t \in SlotsOf(m.client) : s = t
  BY <1>1 DEF OneSlotEach
<1>7. s \in First(SlotsOf(m.client))
  <2>1. s <= s
    BY <1>1 DEF SlotsOf, Slots
  <2> QED
    BY <1>1, <1>6, <2>1 DEF First
<1> QED
  BY <1>5, <1>7 DEF TooSoon

\* Whichever slot it takes, the client has no other, and is told that slot's new
\* connection.
LEMMA AcceptAgrees ==
    ASSUME HandshakeShort, TypeOK, OneSlotEach, NEW m \in network, m.kind = "connect",
           ~TooSoon(m.client), NEW s \in SlotFor(m.client), Accept(m, s),
           \A d \in Clients : Agreed(d)
    PROVE  \A d \in Clients : Agreed(d)'
<1> DEFINE c == m.client
           n == ConnectReply(c, NewName)
<1>1. ClientsOK /\ SlotsOK /\ NetworkOK
  BY TypeOKParts
<1>2. c \in Clients
  BY <1>1 DEF NetworkOK, Datagrams
<1>3. ~AskingStill(c)
  BY <1>2, TakenIsAnew
<1>4. m \in Asking(c) /\ m \in Handshake(c)
  BY HandshakeDef DEF HandshakeKind
<1>5. ~Linked(c) /\ Replies(c) = {}
  BY <1>3, <1>4 DEF AskingStill
<1>6. /\ s \in Slots
      /\ s \in SlotsOf(c) \/ (SlotsOf(c) = {} /\ sstate[s] = "free")
  BY SlotForIsRight
<1>7. n.client = c /\ n.kind = "client_connect" /\ n.age = 0 /\ n.conn = NewName
  BY DEF ConnectReply, Datagram
<1>8. /\ schan'[s] = NewName /\ owner'[s] = c /\ Live(s)'
      /\ lastconnect'[s] = 0 /\ lastmessage'[s] = 0
  BY <1>1, <1>6 DEF Accept, SlotsOK, Live
<1>9. \A t \in Slots \ {s} : /\ Live(t)' <=> Live(t)
                             /\ owner'[t] = owner[t] /\ schan'[t] = schan[t]
                             /\ lastconnect'[t] = lastconnect[t]
                             /\ lastmessage'[t] = lastmessage[t]
  BY <1>1, <1>6 DEF Accept, SlotsOK, Live
<1>10. s \in SlotsOf(c)' /\ \A t \in SlotsOf(c)' : t = s
  <2>1. s \in SlotsOf(c)'
    BY <1>6, <1>8 DEF SlotsOf, Slots
  <2>2. ASSUME NEW t \in Slots \ {s}, t \in SlotsOf(c)'
        PROVE  FALSE
    <3>1. t \in SlotsOf(c)
      BY <1>9, <2>2 DEF SlotsOf
    <3> QED
      BY <1>2, <1>6, <2>2, <3>1 DEF OneSlotEach
  <2> QED
    BY <2>1, <2>2 DEF SlotsOf, Slots
<1>11. \A k \in network' : k \in network \/ k = n
  BY DEF Accept, Sent
<1>12. UNCHANGED clientVars
  BY DEF Accept
<1>13. Agreed(c)'
  <2>1. Way(n) \in Nat /\ Way(m) <= Way(n)
    <3>1. m.age \in Nat /\ m.age <= Lifetime
      BY <1>1, Times DEF NetworkOK, Datagrams
    <3>2. Way(n) = 3 * Lifetime /\ Way(m) = 2 * Lifetime + m.age
      BY <1>7, Times DEF Way, Before
    <3> QED
      BY <3>1, <3>2, Times
  <2>2. Waiting(c)'
    <3>1. connect_age[c] \in Nat /\ Way(m) \in Nat
      BY <1>1, <1>2, WayType DEF ClientsOK
    <3>2. \A k \in Handshake(c)' : k \in Handshake(c) \/ k = n
      BY <1>11, HandshakeDef, HandshakeDefNext
    <3>3. state[c] = "connecting" => connect_age[c] <= Way(m)
      BY <1>2, <1>4 DEF Agreed, Waiting
    <3>4. state[c] = "connecting" => connect_age[c] <= Way(n)
      BY <2>1, <3>1, <3>3
    <3> QED
      BY <1>2, <1>12, <3>2, <3>4 DEF Agreed, Waiting, clientVars
  <2>3. Settled(c)'
    <3>1. ASSUME NEW k \in Asking(c)'
          PROVE  Way(k) \in Nat
      <4>1. k \in network
        BY <1>7, <1>11, <3>1, HandshakeDefNext
      <4> QED
        BY <1>1, <4>1, WayType
    <3>2. Young(c, s)'
      BY <1>8, <3>1 DEF Young, Way
    <3> QED
      BY <1>10, <3>2 DEF Settled
  <2>4. Told(c)'
    <3>1. \A k \in Replies(c)' : k = n
      BY <1>5, <1>11, HandshakeDef, HandshakeDefNext
    <3> QED
      BY <1>7, <1>8, <1>10, <3>1 DEF Told
  <2>5. Playing(c)' /\ Same(c)'
    BY <1>5, <1>12 DEF Playing, Same, Linked, clientVars
  <2> QED
    BY <2>2, <2>3, <2>4, <2>5 DEF Agreed
<1>14. ASSUME NEW d \in Clients \ {c}
       PROVE  Agreed(d)'
  <2>1. \A t \in SlotsOf(d)' : t # s /\ t \in Slots
    BY <1>8, <1>14 DEF SlotsOf, Slots
  <2>2. \A t \in SlotsOf(d) : t # s /\ t \in Slots
    BY <1>6, <1>14 DEF SlotsOf, Live
  <2>3. SlotsKept(d)
    BY <1>9, <2>1 DEF SlotsKept, SlotsOf, Slots
  <2>4. \A t \in SlotsOf(d) : NoOlder(t)
    BY <1>9, <2>2 DEF NoOlder, SlotsOf
  <2>5. Quiet(d)
    BY <1>7, <1>11, <1>12, <1>14, <2>3, <2>4 DEF Quiet, clientVars
  <2> QED
    BY <1>14, <2>5, QuietAgrees
<1> QED
  BY <1>13, <1>14

\* A client that is dropped without its questions still going round.
LEMMA DropQuiet ==
    ASSUME TypeOK, NEW k \in Slots, Live(k), DropClient(k), ~crossed',
           UNCHANGED <<owner, schan, lastconnect>>,
           \A s \in Slots : lastmessage'[s] = lastmessage[s] \/ lastmessage'[s] = 0,
           NEW d
    PROVE  SlotsKept(d) /\ (AskingStill(d) => \A s \in SlotsOf(d) : NoOlder(s))
<1>1. SlotsOK /\ ~AskingStill(owner[k])
  BY TypeOKParts DEF DropClient
<1>2. \A s \in Slots : Live(s)' => Live(s) /\ s # k
  BY <1>1 DEF DropClient, Live, SlotsOK
<1>3. \A s \in Slots : Live(s) /\ s # k => Live(s)'
  BY <1>1 DEF DropClient, Live, SlotsOK
<1>4. SlotsKept(d)
  BY <1>2 DEF SlotsKept, SlotsOf, Slots
<1>5. ASSUME AskingStill(d), NEW s \in SlotsOf(d)
      PROVE  NoOlder(s)
  <2>1. s # k /\ s \in Slots /\ Live(s)
    BY <1>1, <1>5 DEF SlotsOf
  <2> QED
    BY <1>3, <2>1 DEF NoOlder
<1> QED
  BY <1>4, <1>5

LEMMA ReadPacketQuiet ==
    ASSUME TypeOK, NEW m \in network, ReadPacket(m), ~crossed', NEW d
    PROVE  Quiet(d)
<1>1. SlotsOK
  BY TypeOKParts
<1>2. UNCHANGED clientVars /\ UNCHANGED <<owner, schan, lastconnect>> /\ network' \subseteq network
  BY DEF ReadPacket, After
<1>3. SlotsKept(d) /\ (AskingStill(d) => \A s \in SlotsOf(d) : NoOlder(s))
  <2>1. CASE UNCHANGED <<sstate, lastmessage>>
    BY <1>2, <2>1 DEF SlotsKept, NoOlder, SlotsOf, Live, Slots
  <2>2. ASSUME NEW k \in First(Receivers(m.client)), ServerProcess(m, k), ~Swallow(k)
        PROVE  SlotsKept(d) /\ (AskingStill(d) => \A s \in SlotsOf(d) : NoOlder(s))
    <3>1. k \in Slots
      BY <2>2, FirstIsIn DEF Receivers
    <3>2. Live(k) /\ lastmessage' = [lastmessage EXCEPT ![k] = 0]
      BY <2>2 DEF ServerProcess
    <3>3. \A s \in Slots : lastmessage'[s] = lastmessage[s] \/ lastmessage'[s] = 0
      BY <1>1, <3>2 DEF SlotsOK
    <3>4. CASE DropClient(k)
      BY <1>2, <3>1, <3>2, <3>3, <3>4, DropQuiet
    <3>5. CASE \A s \in Slots : Live(s)' <=> Live(s)
      BY <1>2, <3>3, <3>5 DEF SlotsKept, NoOlder, SlotsOf, Slots
    <3>6. CASE sstate' = [sstate EXCEPT ![k] = "spawned"] \/ UNCHANGED sstate
      BY <1>1, <3>1, <3>2, <3>5, <3>6 DEF Live, SlotsOK
    <3> QED
      BY <2>2, <3>4, <3>6 DEF ServerProcess
  <2> QED
    BY <2>1, <2>2 DEF ReadPacket, Swallow
<1> QED
  BY <1>2, <1>3 DEF Quiet, clientVars

LEMMA ServerReadsAgrees ==
    ASSUME HandshakeShort, TypeOK, OneSlotEach, ServerReads, ~crossed',
           \A d \in Clients : Agreed(d)
    PROVE  \A d \in Clients : Agreed(d)'
<1> PICK m \in network : GetChallenge(m) \/ DirectConnect(m) \/ ReadPacket(m)
  BY DEF ServerReads
<1>1. CASE GetChallenge(m)
  <2>1. Answers(Datagram("challenge", m.client), m)
    BY <1>1, DatagramFields DEF GetChallenge, Answers
  <2> QED
    BY <1>1, <2>1, AnswerQuiet, QuietAgrees DEF GetChallenge
<1>2. CASE DirectConnect(m)
  <2>1. CASE Reject(m)
    <3>1. Answers(Datagram("disconnect", m.client), m)
      BY <1>2, DatagramFields DEF DirectConnect, Answers
    <3> QED
      BY <2>1, <3>1, AnswerQuiet, QuietAgrees DEF Reject
  <2>2. CASE ~TooSoon(m.client) /\ \E s \in SlotFor(m.client) : Accept(m, s)
    BY <1>2, <2>2, AcceptAgrees DEF DirectConnect
  <2> QED
    BY <1>2, <2>1, <2>2 DEF DirectConnect
<1>3. CASE ReadPacket(m)
  BY <1>3, ReadPacketQuiet, QuietAgrees
<1> QED
  BY <1>1, <1>2, <1>3

\* A slot whose client's questions still go round does not time out.
LEMMA TimeoutsQuiet ==
    ASSUME HandshakeShort, TypeOK, OneSlotEach, CheckTimeouts, NEW d \in Clients, Agreed(d)
    PROVE  Quiet(d)
<1>1. SlotsOK /\ NetworkOK
  BY TypeOKParts
<1>2. UNCHANGED <<clientVars, network>>
  BY DEF CheckTimeouts
<1>3. \A s \in Slots : Live(s)' <=> Live(s) /\ ~Expired(s)
  BY <1>1 DEF CheckTimeouts, Live, SlotsOK
<1>4. \A s \in Slots : ~Expired(s) => /\ owner'[s] = owner[s] /\ schan'[s] = schan[s]
                                      /\ lastmessage'[s] = lastmessage[s]
                                      /\ lastconnect'[s] = lastconnect[s]
  BY DEF CheckTimeouts
<1>5. SlotsKept(d)
  BY <1>3, <1>4 DEF SlotsKept, SlotsOf, Slots
<1>6. ASSUME AskingStill(d), NEW s \in SlotsOf(d)
      PROVE  NoOlder(s)
  <2>1. PICK t \in SlotsOf(d) : Young(d, t)
    BY <1>6 DEF Agreed, Settled
  <2>2. t = s
    BY <1>6, <2>1 DEF OneSlotEach
  <2>3. PICK m : m \in Asking(d)
    BY <1>6 DEF AskingStill
  <2>4. Way(m) \in Nat /\ Way(m) <= 3 * Lifetime
    BY <1>1, <2>3, HandshakeDef, WayType
  <2>5. s \in Slots /\ Live(s) /\ lastmessage[s] \in Nat
    BY <1>1, <1>6, Times DEF SlotsOf, SlotsOK
  <2>6. lastmessage[s] <= ServerTimeout
    BY <2>1, <2>2, <2>3, <2>4, <2>5, Times DEF Young, HandshakeShort
  <2>7. ~Expired(s)
    BY <2>5, <2>6, Times DEF Expired, Live
  <2> QED
    BY <1>3, <1>4, <2>5, <2>7 DEF NoOlder
<1> QED
  BY <1>2, <1>5, <1>6 DEF Quiet, clientVars

LEMMA KickQuiet ==
    ASSUME TypeOK, NEW k \in Slots, Kick(k), ~crossed', NEW d
    PROVE  Quiet(d)
<1>1. /\ Live(k) /\ DropClient(k)
      /\ UNCHANGED clientVars /\ UNCHANGED <<owner, schan, lastmessage, lastconnect, network>>
  BY DEF Kick
<1> QED
  BY <1>1, DropQuiet DEF Quiet, clientVars

LEMMA SendQuiet ==
    ASSUME TypeOK, SendClientMessages, NEW d
    PROVE  Quiet(d)
<1>1. UNCHANGED clientVars /\ UNCHANGED <<sstate, owner, schan, lastmessage, lastconnect>>
  BY DEF SendClientMessages
<1>2. \A n \in network' : n.kind \in HandshakeKind => n \in network
  <2> SUFFICES ASSUME NEW s \in Slots, Sends(s)
               PROVE  Datagram(Message(s), owner[s]).kind \notin HandshakeKind
    BY DEF SendClientMessages
  <2>1. sstate[s] \in {"zombie", "connected", "spawned"}
    BY TypeOKParts DEF Sends, SlotsOK, SlotState
  <2>2. Message(s) \notin HandshakeKind
    BY <2>1 DEF Message, HandshakeKind
  <2> QED
    BY <2>2, DatagramFields
<1>3. SlotsKept(d) /\ \A s \in SlotsOf(d) : NoOlder(s)
  BY <1>1 DEF SlotsKept, NoOlder, SlotsOf, Live, Slots
<1> QED
  BY <1>1, <1>2, <1>3 DEF Quiet, clientVars

\* What one client does is nothing to the others.
NoneNew == \A n \in network' : n.kind \in HandshakeKind => n \in network

LEMMA OthersAgree ==
    ASSUME TypeOK, UNCHANGED slotVars, NEW d \in Clients, Agreed(d),
           state'[d] = state[d], connect_age'[d] = connect_age[d], chan'[d] = chan[d],
           \A n \in network' : n.client = d /\ n.kind \in HandshakeKind => n \in network
    PROVE  Agreed(d)'
BY SameSlotsQuiet, QuietAgrees DEF Quiet

\* A client that goes takes nothing with it.
LEMMA LeaveAgrees ==
    ASSUME TypeOK, UNCHANGED slotVars, NEW c \in Clients, Agreed(c), NoneNew,
           state'[c] = "disconnected"
    PROVE  Agreed(c)'
<1>1. Asking(c)' \subseteq Asking(c) /\ Replies(c)' \subseteq Replies(c)
  BY HandshakeDef, HandshakeDefNext DEF NoneNew, HandshakeKind
<1>2. ~Linked(c)' /\ state'[c] # "connecting"
  BY DEF Linked
<1>3. SlotsOf(c)' = SlotsOf(c) /\ UNCHANGED <<schan, lastconnect, lastmessage>>
  BY DEF SlotsOf, Live, slotVars, Slots
<1>4. Settled(c)'
  <2>1. AskingStill(c)' => AskingStill(c)
    BY <1>1, <1>2 DEF AskingStill
  <2> QED
    BY <1>1, <1>3, <2>1 DEF Agreed, Settled, Young, Way
<1> QED
  BY <1>1, <1>2, <1>3, <1>4 DEF Agreed, Waiting, Told, Playing, Same

LEMMA DisconnectAgrees ==
    ASSUME TypeOK, NEW c \in Clients, NEW rest, rest \subseteq network, Disconnect(c, rest),
           NEW d \in Clients, Agreed(d)
    PROVE  Agreed(d)'
<1>1. ClientsOK
  BY TypeOKParts
<1>2. NoneNew
  BY FarewellApart DEF Disconnect, NoneNew
<1>3. CASE d = c
  BY <1>1, <1>2, <1>3, LeaveAgrees DEF Disconnect, ClientsOK
<1>4. CASE d # c
  <2>1. state'[d] = state[d] /\ connect_age'[d] = connect_age[d] /\ chan'[d] = chan[d]
    BY <1>1, <1>4 DEF Disconnect, ClientsOK
  <2> QED
    BY <1>2, <2>1, OthersAgree DEF Disconnect, NoneNew
<1> QED
  BY <1>3, <1>4

\* The client takes its answer for what the slot has: it is not yet playing.
LEMMA ClientConnectAgrees ==
    ASSUME TypeOK, NEW m \in network, ClientConnect(m), NEW d \in Clients, Agreed(d)
    PROVE  Agreed(d)'
<1> DEFINE c == m.client
<1>1. ClientsOK /\ UNCHANGED slotVars /\ UNCHANGED <<connect_age, network>>
  BY TypeOKParts DEF ClientConnect
<1>2. CASE d # c \/ state[c] = "connected"
  <2>1. state'[d] = state[d] /\ chan'[d] = chan[d]
    BY <1>1, <1>2 DEF ClientConnect, ClientsOK
  <2> QED
    BY <1>1, <2>1, OthersAgree
<1>3. CASE d = c /\ state[c] # "connected"
  <2>1. m \in Replies(c)
    BY HandshakeDef DEF ClientConnect
  <2>2. state[c] # "active"
    BY <1>3, <2>1 DEF Agreed, Playing
  <2>3. state'[c] = "connected" /\ chan'[c] = m.conn
    BY <1>1, <1>3, <2>2 DEF ClientConnect, ClientsOK
  <2>4. /\ Asking(c)' = Asking(c) /\ Replies(c)' = Replies(c)
        /\ SlotsOf(c)' = SlotsOf(c) /\ UNCHANGED <<schan, lastconnect, lastmessage>>
    BY <1>1 DEF Asking, Replies, SlotsOf, Live, slotVars, Slots
  <2>5. Settled(c)'
    <3>1. AskingStill(c)' => AskingStill(c)
      BY <2>1, <2>4 DEF AskingStill
    <3> QED
      BY <1>3, <2>4, <3>1 DEF Agreed, Settled, Young, Way
  <2>6. Told(c)' /\ Same(c)'
    BY <1>3, <2>1, <2>3, <2>4 DEF Agreed, Told, Same
  <2>7. Waiting(c)' /\ Playing(c)'
    BY <2>3 DEF Waiting, Playing
  <2> QED
    BY <1>3, <2>5, <2>6, <2>7 DEF Agreed
<1> QED
  BY <1>2, <1>3

LEMMA ClientProcessAgrees ==
    ASSUME TypeOK, NEW m \in network, ClientProcess(m), ~crossed',
           NEW d \in Clients, Agreed(d)
    PROVE  Agreed(d)'
<1> DEFINE c == m.client
<1>1. ClientsOK /\ c \in Clients
  BY TypeOKParts DEF NetworkOK, Datagrams
<1>2. CASE Disconnect(c, network \ {m})
  BY <1>1, <1>2, DisconnectAgrees
<1>3. CASE ~Disconnect(c, network \ {m})
  <2>1. network' \subseteq network /\ UNCHANGED slotVars /\ UNCHANGED <<connect_age, chan>>
    BY <1>3 DEF ClientProcess, clientVars
  <2>2. CASE state'[d] = state[d]
    BY <2>1, <2>2, OthersAgree
  <2>3. CASE state'[d] # state[d]
    <3>1. d = c /\ Linked(c) /\ state'[c] = "active" /\ Replies(c) = {}
      BY <1>1, <1>3, <2>3 DEF ClientProcess, clientVars, ClientsOK
    <3>2. /\ Asking(c)' \subseteq Asking(c) /\ Replies(c)' = {}
          /\ SlotsOf(c)' = SlotsOf(c) /\ UNCHANGED <<schan, lastconnect, lastmessage>>
      <4>1. Asking(c)' \subseteq Asking(c) /\ Replies(c)' = {}
        BY <2>1, <3>1, HandshakeDef, HandshakeDefNext
      <4> QED
        BY <2>1, <4>1 DEF SlotsOf, Live, slotVars, Slots
    <3>3. Settled(c)'
      <4>1. AskingStill(c)' => AskingStill(c)
        BY <3>1, <3>2 DEF AskingStill
      <4> QED
        BY <3>1, <3>2, <4>1 DEF Agreed, Settled, Young, Way
    <3>4. Told(c)' /\ Playing(c)' /\ Waiting(c)'
      BY <3>1, <3>2 DEF Told, Playing, Waiting
    <3>5. Same(c)'
      BY <2>1, <3>1, <3>2 DEF Agreed, Same
    <3> QED
      BY <3>1, <3>3, <3>4, <3>5 DEF Agreed
  <2> QED
    BY <2>2, <2>3
<1> QED
  BY <1>2, <1>3

\* A client asks again only when nothing of its last question is left.
LEMMA ResendAgrees ==
    ASSUME HandshakeShort, TypeOK, NEW c \in Clients, CheckForResend(c),
           NEW d \in Clients, Agreed(d)
    PROVE  Agreed(d)'
<1> DEFINE n == Datagram("getchallenge", c)
<1>1. ClientsOK /\ NetworkOK /\ UNCHANGED slotVars /\ UNCHANGED <<state, chan>>
  BY TypeOKParts DEF CheckForResend
<1>2. n.client = c /\ n.kind = "getchallenge" /\ n.age = 0
  BY DatagramFields
<1>3. \A k \in network' : k \in network \/ k = n
  BY DEF CheckForResend, Sent
<1>4. CASE d # c
  <2>1. connect_age'[d] = connect_age[d]
    BY <1>1, <1>4 DEF CheckForResend, ClientsOK
  <2> QED
    BY <1>1, <1>2, <1>3, <1>4, <2>1, OthersAgree
<1>5. CASE d = c
  <2>1. Handshake(c) = {}
    <3> SUFFICES ASSUME NEW m \in Handshake(c) PROVE FALSE
      OBVIOUS
    <3>1. connect_age[c] >= ResendTime /\ connect_age[c] <= Way(m)
      BY <1>5 DEF CheckForResend, Agreed, Waiting
    <3>2. Way(m) \in Nat /\ Way(m) <= 4 * Lifetime
      BY <1>1, HandshakeDef, WayType
    <3>3. connect_age[c] \in Nat
      BY <1>1 DEF ClientsOK
    <3> QED
      BY <3>1, <3>2, <3>3, Times DEF HandshakeShort
  <2>2. \A k \in Handshake(c)' : k = n
    BY <1>3, <2>1, HandshakeDef, HandshakeDefNext
  <2>3. Replies(c)' = {}
    BY <1>2, <2>2, HandshakeDefNext DEF Handshake
  <2>4. Waiting(c)'
    <3>1. connect_age'[c] = 0
      BY <1>1 DEF CheckForResend, ClientsOK
    <3>2. Way(n) = 0
      BY <1>2 DEF Way, Before
    <3> QED
      BY <2>2, <3>1, <3>2 DEF Waiting, Way
  <2>5. ~Linked(c)'
    BY <1>1 DEF CheckForResend, Linked
  <2> QED
    BY <1>5, <2>3, <2>4, <2>5 DEF Agreed, Settled, AskingStill, Told, Playing, Same
<1> QED
  BY <1>4, <1>5

\* A user's command cuts into no handshake if nothing of one is on the way.
LEMMA RetryAgrees ==
    ASSUME TypeOK, NEW c \in Clients, Retry(c), ~crossed', NEW d \in Clients, Agreed(d)
    PROVE  Agreed(d)'
<1>1. ClientsOK /\ UNCHANGED slotVars
  BY TypeOKParts DEF Retry
<1>2. NoneNew
  BY FarewellApart DEF Retry, NoneNew
<1>3. CASE d # c
  <2>1. state'[d] = state[d] /\ connect_age'[d] = connect_age[d] /\ chan'[d] = chan[d]
    BY <1>1, <1>3 DEF Retry, ClientsOK
  <2> QED
    BY <1>1, <1>2, <2>1, OthersAgree DEF NoneNew
<1>4. CASE d = c
  <2>1. Handshake(c) = {}
    BY DEF Retry, Command
  <2>2. Handshake(c)' = {}
    BY <1>2, <2>1, HandshakeDef, HandshakeDefNext DEF NoneNew
  <2>3. Replies(c)' = {}
    BY <2>2 DEF Handshake
  <2>4. state'[c] = "connecting"
    BY <1>1 DEF Retry, ClientsOK
  <2>5. ~Linked(c)'
    BY <2>4 DEF Linked
  <2> QED
    BY <1>4, <2>2, <2>3, <2>5 DEF Agreed, Waiting, Settled, AskingStill, Told, Playing, Same
<1> QED
  BY <1>3, <1>4

LEMMA ClientReadsAgrees ==
    ASSUME TypeOK, NEW c \in Clients, ClientReads(c), ~crossed', NEW d \in Clients, Agreed(d)
    PROVE  Agreed(d)'
<1>1. PICK m \in network : /\ m.client = c
                           /\ Challenge(m) \/ ClientConnect(m) \/ Obey(m) \/ ClientProcess(m)
  BY DEF ClientReads
<1>2. CASE Challenge(m)
  <2>1. Answers(Datagram("connect", m.client), m)
    BY <1>2, DatagramFields DEF Challenge, Answers
  <2> QED
    BY <1>2, <2>1, AnswerQuiet, QuietAgrees DEF Challenge
<1>3. CASE Obey(m)
  BY <1>1, <1>3, DisconnectAgrees DEF Obey
<1> QED
  BY <1>1, <1>2, <1>3, ClientConnectAgrees, ClientProcessAgrees

LEMMA ClientFrameAgrees ==
    ASSUME HandshakeShort, TypeOK, NEW c \in Clients, ~crossed',
           \/ UserDisconnect(c) \/ Retry(c) \/ CheckForResend(c)
           \/ WritePacket(c) \/ Timeout(c),
           NEW d \in Clients, Agreed(d)
    PROVE  Agreed(d)'
<1>1. CASE UserDisconnect(c) \/ Timeout(c)
  BY <1>1, DisconnectAgrees DEF UserDisconnect, Timeout
<1>2. CASE WritePacket(c)
  <2>1. \A n \in network' : n.kind \in HandshakeKind => n \in network
    BY <1>2, DatagramFields DEF WritePacket, HandshakeKind
  <2> QED
    BY <1>2, <2>1, OthersAgree DEF WritePacket, clientVars
<1> QED
  BY <1>1, <1>2, RetryAgrees, ResendAgrees

\* Nothing that is on the way grows older more slowly than what it is compared
\* with.
LEMMA TickAgrees ==
    ASSUME TypeOK, Tick, NEW c \in Clients, Agreed(c)
    PROVE  Agreed(c)'
<1>1. ClientsOK /\ SlotsOK /\ NetworkOK
  BY TypeOKParts
<1>2. ASSUME NEW n \in network'
      PROVE  \E m \in network : /\ n.kind = m.kind /\ n.client = m.client /\ n.conn = m.conn
                                /\ Way(n) = Way(m) + 1 /\ Way(m) \in Nat
  <2>1. PICK m \in network : n = [m EXCEPT !.age = @ + 1]
    BY <1>2 DEF Tick
  <2>2. /\ m.age \in Nat /\ Before(m.kind) \in Nat
        /\ n.kind = m.kind /\ n.client = m.client /\ n.conn = m.conn /\ n.age = m.age + 1
    BY <1>1, <2>1, Times DEF NetworkOK, Datagrams, Before
  <2>3. Way(m) \in Nat
    BY <1>1, WayType
  <2> QED
    BY <2>2, <2>3 DEF Way
<1>3. \A n \in Handshake(c)' : \E m \in Handshake(c) : Way(n) = Way(m) + 1 /\ Way(m) \in Nat
  BY <1>2, HandshakeDef, HandshakeDefNext
<1>4. \A n \in Asking(c)' : \E m \in Asking(c) : Way(n) = Way(m) + 1 /\ Way(m) \in Nat
  BY <1>2, HandshakeDef, HandshakeDefNext
<1>5. \A n \in Replies(c)' : \E m \in Replies(c) : n.conn = m.conn
  BY <1>2, HandshakeDef, HandshakeDefNext
<1>6. UNCHANGED <<state, chan, sstate, owner, schan>> /\ SlotsOf(c)' = SlotsOf(c)
  BY DEF Tick, SlotsOf, Live, Slots
<1>7. Waiting(c)'
  <2> SUFFICES ASSUME state[c] = "connecting", NEW n \in Handshake(c)'
               PROVE  connect_age'[c] <= Way(n)
    BY <1>6 DEF Waiting, Way
  <2>1. PICK m \in Handshake(c) : Way(n) = Way(m) + 1 /\ Way(m) \in Nat
    BY <1>3
  <2>2. connect_age[c] <= Way(m) /\ connect_age[c] \in Nat
    BY <1>1 DEF Agreed, Waiting, ClientsOK
  <2>3. connect_age'[c] \in {connect_age[c], connect_age[c] + 1}
    BY DEF Tick, Older
  <2> QED
    BY <2>1, <2>2, <2>3
<1>8. Settled(c)'
  <2> SUFFICES ASSUME AskingStill(c)' PROVE \E s \in SlotsOf(c)' : Young(c, s)'
    BY DEF Settled
  <2>1. AskingStill(c)
    BY <1>4, <1>5, <1>6 DEF AskingStill, Linked
  <2>2. PICK s \in SlotsOf(c) : Young(c, s)
    BY <2>1 DEF Agreed, Settled
  <2>3. /\ s \in Slots /\ Live(s)
        /\ lastconnect[s] \in Nat /\ lastmessage[s] \in Nat
    BY <1>1, <2>2, Times DEF SlotsOf, SlotsOK
  <2>4. /\ lastconnect'[s] \in {lastconnect[s], lastconnect[s] + 1}
        /\ lastmessage'[s] \in {lastmessage[s], lastmessage[s] + 1}
    BY <2>3 DEF Tick, Older, Live
  <2>5. ASSUME NEW n \in Asking(c)'
        PROVE  lastconnect'[s] <= Way(n) /\ lastmessage'[s] <= Way(n)
    <3>1. PICK m \in Asking(c) : Way(n) = Way(m) + 1 /\ Way(m) \in Nat
      BY <1>4, <2>5
    <3>2. lastconnect[s] <= Way(m) /\ lastmessage[s] <= Way(m)
      BY <2>2 DEF Young
    <3> QED
      BY <2>3, <2>4, <3>1, <3>2
  <2> QED
    BY <1>6, <2>2, <2>5 DEF Young, Way
<1>9. Told(c)' /\ Playing(c)' /\ Same(c)'
  BY <1>5, <1>6 DEF Agreed, Told, Playing, Same, Linked
<1> QED
  BY <1>7, <1>8, <1>9 DEF Agreed

\* What cut into a handshake is not forgotten.
LEMMA CrossedStays ==
    ASSUME [Next]_vars, ~crossed'
    PROVE  ~crossed
<1>1. CASE ServerReads
  BY <1>1 DEF ServerReads, GetChallenge, DirectConnect, Accept, Reject, ReadPacket,
              ServerProcess, Swallow, DropClient, userVars
<1>2. ASSUME NEW c \in Clients,
             \/ ClientReads(c)
             \/ UserDisconnect(c) \/ Retry(c) \/ CheckForResend(c) \/ WritePacket(c) \/ Timeout(c)
      PROVE  ~crossed
  BY <1>2 DEF ClientReads, Challenge, ClientConnect, Obey, ClientProcess, UserDisconnect,
              Retry, CheckForResend, WritePacket, Timeout, Command, userVars
<1>3. CASE CheckTimeouts \/ SendClientMessages \/ Tick \/ UNCHANGED vars
  BY <1>3 DEF CheckTimeouts, SendClientMessages, Tick, vars, userVars
<1>4. ASSUME NEW s \in Slots, Kick(s)
      PROVE  ~crossed
  BY <1>4 DEF Kick, DropClient
<1> QED
  BY <1>1, <1>2, <1>3, <1>4 DEF Next

\* A getchallenge and all that comes of it, copies included, is gone before the
\* client asks again, before the server would take another connect of its for a new
\* connection and before the slot times out, if HandshakeShort and as long as nothing
\* cut into a handshake: for any number of clients, slots and connections
\* (CL_CheckForResend, SV_DirectConnect, CL_ConnectionlessPacket).
THEOREM HandshakeInvHolds == ASSUME HandshakeShort PROVE Spec => []HandshakeInv
<1>1. Init => HandshakeInv
  BY DEF Init, HandshakeInv, Handshake, Asking, Replies, Rejections, AskingStill, Linked
<1>2. TypeOK /\ OneSlotEach /\ HandshakeInv /\ [Next]_vars => HandshakeInv'
  <2> SUFFICES ASSUME TypeOK, OneSlotEach, HandshakeInv, [Next]_vars, ~crossed'
               PROVE  \A d \in Clients : Agreed(d)'
    BY HandshakeInvPartsNext
  <2>1. \A d \in Clients : Agreed(d)
    BY HandshakeInvParts, CrossedStays
  <2>2. CASE ServerReads
    BY <2>1, <2>2, ServerReadsAgrees
  <2>3. CASE CheckTimeouts
    BY <2>1, <2>3, TimeoutsQuiet, QuietAgrees
  <2>4. CASE SendClientMessages
    BY <2>1, <2>4, SendQuiet, QuietAgrees
  <2>5. ASSUME NEW s \in Slots, Kick(s)
        PROVE  \A d \in Clients : Agreed(d)'
    BY <2>1, <2>5, KickQuiet, QuietAgrees
  <2>6. ASSUME NEW c \in Clients, ClientReads(c)
        PROVE  \A d \in Clients : Agreed(d)'
    BY <2>1, <2>6, ClientReadsAgrees
  <2>7. ASSUME NEW c \in Clients,
               \/ UserDisconnect(c) \/ Retry(c) \/ CheckForResend(c)
               \/ WritePacket(c) \/ Timeout(c)
        PROVE  \A d \in Clients : Agreed(d)'
    BY <2>1, <2>7, ClientFrameAgrees
  <2>8. CASE Tick
    BY <2>1, <2>8, TickAgrees
  <2>9. CASE UNCHANGED vars
    BY <2>1, <2>9, OthersAgree DEF vars, clientVars
  <2> QED
    BY <2>2, <2>3, <2>4, <2>5, <2>6, <2>7, <2>8, <2>9 DEF Next
<1> QED
  BY <1>1, <1>2, TypeCorrect, OneSlotEachHolds, PTL DEF Spec

\* Client and server do not come to hold channels of different connections,
\* whichever datagrams of the handshake are lost, late or delivered again, if
\* HandshakeShort and as long as nothing cut into a handshake (SV_DirectConnect,
\* CL_ConnectionlessPacket).
THEOREM AgreementHolds == ASSUME HandshakeShort PROVE Spec => []Agreement
<1>1. HandshakeInv => Agreement
  BY DEF HandshakeInv, Agreement
<1> QED
  BY <1>1, HandshakeInvHolds, PTL

=============================================================================
