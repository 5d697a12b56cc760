------------------------------ MODULE Connect ------------------------------
(***************************************************************************)
(* How clients get, keep and lose a slot of the server: the handshake of   *)
(* connectionless datagrams, the life of a slot (free, connected, spawned, *)
(* zombie), the client's state, the timeouts of both sides and the lookup  *)
(* of a slot by address.                                                   *)
(*                                                                         *)
(* A network channel is known by the connection it was set up for; the     *)
(* conversation in it is the subject of NetChan.  Sequence numbers are     *)
(* left out: a channel may take in any packet of its client, also one of   *)
(* an earlier connection, and may refuse any, as one that came late.       *)
(* Times are kept as ages, capped where the code no longer tells them      *)
(* apart; what a free slot holds is never looked at.                       *)
(*                                                                         *)
(* The network loses datagrams and delivers them late, and connectionless  *)
(* ones more than once: reading one does not take it out of the network,   *)
(* where it stays until it is too old.                                     *)
(***************************************************************************)
EXTENDS Naturals, FiniteSets

CONSTANTS
    Clients,         \* clients; each stands for an address and a qport
    MaxClients,      \* sv_maxclients
    Connections,     \* bound: names to tell connections apart
    MaxNetwork,      \* bound: packets of channels on the way when a frame sends another
    MaxCommands,     \* bound: commands of each user
    MaxKicks,        \* bound: clients the server drops of its own accord
    Lifetime,        \* how long a datagram may be on the way
    FailureTime,     \* sv_failuretime
    ZombieTime,      \* zombietime
    ReconnectLimit,  \* sv_reconnect_limit
    ResendTime,      \* the 10 seconds of CL_CheckForResend
    ClientTimeout,   \* cl_timeout
    ServerTimeout,   \* sv_timeout
    None,            \* no client, no connection
    Old              \* the connection of a channel that was given up

ASSUME ConnectAssumption ==
    /\ MaxClients \in Nat \ {0}
    /\ MaxNetwork \in Nat
    /\ {Lifetime, FailureTime, ZombieTime, ReconnectLimit, ResendTime,
        ClientTimeout, ServerTimeout} \subseteq Nat
    /\ None \notin Connections \cup Clients /\ Old \notin Connections
    /\ IsFiniteSet(Connections)
    /\ FailureTime <= ServerTimeout /\ ZombieTime <= ServerTimeout

VARIABLES
    state,         \* per client: cls.state
    serveradr,     \* per client: cls.serveradr is set
    connect_age,   \* per client: time since cls.connect_time
    chan,          \* per client: the connection of cls.netchan
    heard,         \* per client: time since cls.netchan.last_received
    sstate,        \* per slot: cl->state
    owner,         \* per slot: netchan.remote_address and qport
    schan,         \* per slot: the connection of cl->netchan
    lastmessage,   \* per slot: time since cl->lastmessage
    lastconnect,   \* per slot: time since cl->lastconnect
    send_message,  \* per slot: cl->send_message
    network,       \* the datagrams on the way
    commands,      \* per client: commands its user has given
    crossed,       \* history: something cut into a handshake, see Agreement
    kicks          \* clients the server has dropped of its own accord

clientVars == <<state, serveradr, connect_age, chan, heard>>
slotVars   == <<sstate, owner, schan, lastmessage, lastconnect, send_message>>
userVars == <<commands, crossed, kicks>>
vars == <<clientVars, slotVars, network, userVars>>

Slots == 1..MaxClients

ClientState == {"disconnected", "connecting", "connected", "active"}
SlotState   == {"free", "zombie", "connected", "spawned"}

\* Connectionless datagrams, and packets of a channel; "disconnect_cmd" is the
\* client's last message, "svc_disconnect" the server's.
ToServer == {"getchallenge", "connect", "move", "disconnect_cmd"}
ToClient == {"challenge", "client_connect", "disconnect",
             "signon", "frame", "svc_disconnect"}

ChannelKind == {"move", "disconnect_cmd", "signon", "frame", "svc_disconnect"}

Datagram(k, c) == [kind |-> k, client |-> c, conn |-> None, age |-> 0]

\* A datagram that is sent takes the place of an older one that says the same: it
\* may arrive, and arrive again, whenever the older one might have.
Sent(d) == {m \in network : [m EXCEPT !.age = 0] # d} \cup {d}

ConnectReply(c, n) == [Datagram("client_connect", c) EXCEPT !.conn = n]

\* SV_DropClient keeps the slot's address and channel; only SV_DirectConnect
\* sets them up.
Live(s) == sstate[s] \in {"connected", "spawned"}

Linked(c) == state[c] \in {"connected", "active"}

\* Where a loop over svs.clients stops: the first of S, if there is one.
First(S) == {s \in S : \A t \in S : s <= t}

SlotsOf(c) == {s \in Slots : Live(s) /\ owner[s] = c}

Used == {chan[c] : c \in Clients} \cup {schan[s] : s \in Slots}
            \cup {m.conn : m \in network}

NewName == CHOOSE n \in Connections \ Used : TRUE

Init ==
    /\ state = [c \in Clients |-> "disconnected"]
    /\ serveradr = [c \in Clients |-> FALSE]
    /\ connect_age = [c \in Clients |-> 0]
    /\ chan = [c \in Clients |-> None]
    /\ heard = [c \in Clients |-> 0]
    /\ sstate = [s \in Slots |-> "free"]
    /\ owner = [s \in Slots |-> None]
    /\ schan = [s \in Slots |-> None]
    /\ lastmessage = [s \in Slots |-> 0]
    /\ lastconnect = [s \in Slots |-> 0]
    /\ send_message = [s \in Slots |-> FALSE]
    /\ network = {}
    /\ commands = [c \in Clients |-> 0]
    /\ crossed = FALSE
    /\ kicks = 0

\* What is on the way of the handshakes of a client: its questions, what comes of
\* them, and the answers.
Asking(c) == {m \in network : m.client = c /\ m.kind \in {"getchallenge", "challenge", "connect"}}
Replies(c) == {m \in network : m.client = c /\ m.kind = "client_connect"}
Rejections(c) == {m \in network : m.client = c /\ m.kind = "disconnect"}
Handshake(c) == Asking(c) \cup Replies(c) \cup Rejections(c)

\* Packets of channels.
Packets == {m \in network : m.kind \in ChannelKind}

\* A client that has its answer, or will get it, and whose questions still go
\* round.
AskingStill(c) == Asking(c) # {} /\ (Linked(c) \/ Replies(c) # {})

-----------------------------------------------------------------------------
(* The server: connectionless datagrams (SV_ConnectionlessPacket).         *)

GetChallenge(m) ==
    /\ m.kind = "getchallenge"
    /\ network' = Sent(Datagram("challenge", m.client))
    /\ UNCHANGED <<clientVars, slotVars, userVars>>

Reject(m) ==
    /\ network' = Sent(Datagram("disconnect", m.client))
    /\ UNCHANGED <<clientVars, slotVars, userVars>>

Accept(m, s) ==
    /\ Connections \ Used # {}
    /\ sstate' = [sstate EXCEPT ![s] = "connected"]
    /\ owner' = [owner EXCEPT ![s] = m.client]
    /\ schan' = [schan EXCEPT ![s] = NewName]
    /\ lastmessage' = [lastmessage EXCEPT ![s] = 0]
    /\ lastconnect' = [lastconnect EXCEPT ![s] = 0]
    /\ send_message' = [send_message EXCEPT ![s] = FALSE]
    /\ network' = Sent(ConnectReply(m.client, NewName))
    /\ UNCHANGED <<clientVars, userVars>>

\* The quick reject looks at the first slot in use by this address.
TooSoon(c) == \E s \in First(SlotsOf(c)) : lastconnect[s] < ReconnectLimit

FreeSlots == {s \in Slots : sstate[s] = "free"}

SlotForAnew(c) == IF FreeSlots # {} THEN First(FreeSlots) ELSE First(SlotsOf(c))

\* "if there is already a slot for this ip, reuse it", else the first free one.
SlotFor(c) == IF SlotsOf(c) # {} THEN First(SlotsOf(c)) ELSE First(FreeSlots)

DirectConnect(m) ==
    /\ m.kind = "connect"
    /\ IF TooSoon(m.client) \/ SlotFor(m.client) = {}
         THEN Reject(m)
         ELSE \E s \in SlotFor(m.client) : Accept(m, s)

-----------------------------------------------------------------------------
(* The server: packets of a channel, timeouts and sending.                 *)

\* SV_DropClient: the slot becomes a zombie, whose channel has the message
\* svc_disconnect staged.
DropClient(s) ==
    /\ sstate' = [sstate EXCEPT ![s] = "zombie"]
    /\ crossed' = (crossed \/ AskingStill(owner[s]))

\* The first slot of that address that is not free, a zombie's too.
Receivers(c) == {s \in Slots : sstate[s] # "free" /\ owner[s] = c}

\* The final message is sent three times, so it may arrive again; other
\* packets leave the network, also when the channel refuses them.
After(m) == IF m.kind = "disconnect_cmd" THEN network ELSE network \ {m}

SwallowRefreshing(s) ==
    /\ sstate[s] = "zombie"
    /\ send_message' = [send_message EXCEPT ![s] = TRUE]
    /\ lastmessage' = [lastmessage EXCEPT ![s] = 0]
    /\ UNCHANGED <<sstate, crossed>>

\* A zombie takes no notice of what it is sent, but answers.
Swallow(s) ==
    /\ sstate[s] = "zombie"
    /\ send_message' = [send_message EXCEPT ![s] = TRUE]
    /\ UNCHANGED <<sstate, lastmessage, crossed>>

ServerProcess(m, s) ==
    \/ Swallow(s)
    \/ /\ Live(s)
       /\ lastmessage' = [lastmessage EXCEPT ![s] = 0]
       /\ send_message' = [send_message EXCEPT ![s] = @ \/ sstate[s] = "connected"]
       /\ \/ m.kind = "disconnect_cmd" /\ DropClient(s)
          \/ m.kind = "move" /\ UNCHANGED <<sstate, crossed>>
          \/ \* the last message of the sign-on, clc "begin"
             /\ m.kind = "move" /\ sstate' = [sstate EXCEPT ![s] = "spawned"]
             /\ UNCHANGED crossed

ReadPacket(m) ==
    /\ m.kind \in {"move", "disconnect_cmd"}
    /\ network' = After(m)
    /\ UNCHANGED <<clientVars, owner, schan, lastconnect, commands, kicks>>
    /\ \/ \E s \in First(Receivers(m.client)) : ServerProcess(m, s)
       \/ UNCHANGED <<sstate, lastmessage, send_message, crossed>>

\* SV_CheckTimeouts, for all slots.
Expired(s) ==
    \/ sstate[s] = "zombie" /\ lastmessage[s] > ZombieTime
    \/ Live(s) /\ lastmessage[s] > ServerTimeout

CheckTimeouts ==
    /\ \E s \in Slots : Expired(s)
    /\ sstate' = [s \in Slots |-> IF Expired(s) THEN "free" ELSE sstate[s]]
    /\ owner' = [s \in Slots |-> IF Expired(s) THEN None ELSE owner[s]]
    /\ schan' = [s \in Slots |-> IF Expired(s) THEN None ELSE schan[s]]
    /\ lastmessage' = [s \in Slots |-> IF Expired(s) THEN 0 ELSE lastmessage[s]]
    /\ lastconnect' = [s \in Slots |-> IF Expired(s) THEN 0 ELSE lastconnect[s]]
    /\ send_message' = [s \in Slots |-> IF Expired(s) THEN FALSE ELSE send_message[s]]
    /\ UNCHANGED <<clientVars, network, userVars>>

Message(s) == CASE sstate[s] = "zombie"    -> "svc_disconnect"
                [] sstate[s] = "connected" -> "signon"
                [] sstate[s] = "spawned"   -> "frame"

\* SV_SendClientMessages, for all slots: a client that is playing gets frames
\* as long as it was heard of lately, the others get answers only.
Sends(s) ==
    /\ sstate[s] # "free"
    /\ send_message[s] \/ (sstate[s] = "spawned" /\ lastmessage[s] <= FailureTime)

SendClientMessages ==
    LET sending == {s \in Slots : Sends(s)}
    IN  /\ sending # {}
        /\ send_message' = [s \in Slots |-> send_message[s] /\ s \notin sending]
        /\ network' = IF Cardinality(Packets) < MaxNetwork
                        THEN network \cup {Datagram(Message(s), owner[s]) : s \in sending}
                        ELSE network
        /\ UNCHANGED <<clientVars, sstate, owner, schan, lastmessage, lastconnect, userVars>>

\* SV_DropClient for reasons of the server's: kicked, bad packet, or a reliable
\* overflow, after which the zombie sends at once.
Kick(s) ==
    /\ Live(s) /\ kicks < MaxKicks
    /\ DropClient(s)
    /\ kicks' = kicks + 1 /\ UNCHANGED commands
    /\ \E overflow \in BOOLEAN :
          send_message' = [send_message EXCEPT ![s] = @ \/ overflow]
    /\ UNCHANGED <<clientVars, owner, schan, lastmessage, lastconnect, network>>

-----------------------------------------------------------------------------
(* The client.                                                             *)

\* What CL_Disconnect leaves on the network: the final message in the channel
\* there is, which need not be one of this attempt to connect.
Farewell(c) ==
    IF chan[c] = None THEN {} ELSE {Datagram("disconnect_cmd", c)}

Disconnect(c, rest) ==
    /\ state[c] # "disconnected"
    /\ state' = [state EXCEPT ![c] = "disconnected"]
    /\ serveradr' = [serveradr EXCEPT ![c] = FALSE]
    /\ connect_age' = [connect_age EXCEPT ![c] = 0]
    /\ chan' = [chan EXCEPT ![c] = IF @ = None THEN None ELSE Old]
    /\ heard' = [heard EXCEPT ![c] = 0]
    /\ network' = rest \cup Farewell(c)
    /\ UNCHANGED slotVars

Command(c) ==
    /\ commands[c] < MaxCommands
    /\ commands' = [commands EXCEPT ![c] = @ + 1]
    /\ crossed' = (crossed \/ Handshake(c) # {})
    /\ UNCHANGED kicks

\* CL_Disconnect_f
UserDisconnect(c) == Linked(c) /\ Disconnect(c, network) /\ Command(c)

\* CL_Retry_f and CL_Connect_f: CL_CheckForResend will fire immediately.  Only
\* CL_Connect_f disconnects a client that is still connecting.
Retry(c) ==
    /\ Command(c)
    /\ state' = [state EXCEPT ![c] = "connecting"]
    /\ connect_age' = [connect_age EXCEPT ![c] = ResendTime]
    /\ \/ /\ state[c] # "disconnected"
          /\ serveradr' = [serveradr EXCEPT ![c] = FALSE]
          /\ chan' = [chan EXCEPT ![c] = IF @ = None THEN None ELSE Old]
          /\ heard' = [heard EXCEPT ![c] = 0]
          /\ network' = network \cup Farewell(c)
       \/ /\ ~Linked(c)
          /\ UNCHANGED <<serveradr, chan, heard, network>>
    /\ UNCHANGED slotVars

CheckForResendEager(c) ==
    /\ state[c] = "connecting"
    /\ connect_age[c] # 0
    /\ connect_age' = [connect_age EXCEPT ![c] = 0]
    /\ serveradr' = [serveradr EXCEPT ![c] = TRUE]
    /\ network' = Sent(Datagram("getchallenge", c))
    /\ UNCHANGED <<state, chan, heard, slotVars, userVars>>

CheckForResendOnce(c) ==
    /\ state[c] = "connecting"
    /\ connect_age[c] >= ResendTime
    /\ ~serveradr[c]
    /\ connect_age' = [connect_age EXCEPT ![c] = 0]
    /\ serveradr' = [serveradr EXCEPT ![c] = TRUE]
    /\ network' = Sent(Datagram("getchallenge", c))
    /\ UNCHANGED <<state, chan, heard, slotVars, userVars>>

CheckForResend(c) ==
    /\ state[c] = "connecting"
    /\ connect_age[c] >= ResendTime
    /\ connect_age' = [connect_age EXCEPT ![c] = 0]
    /\ serveradr' = [serveradr EXCEPT ![c] = TRUE]
    /\ network' = Sent(Datagram("getchallenge", c))
    /\ UNCHANGED <<state, chan, heard, slotVars, userVars>>

\* CL_ConnectionlessPacket, only from the server the client is connecting to
\* (CL_IsFromConnectingServer).  Any challenge makes the client send a connect
\* packet, in any state.
Challenge(m) ==
    /\ m.kind = "challenge"
    /\ serveradr[m.client]
    /\ network' = Sent(Datagram("connect", m.client))
    /\ UNCHANGED <<clientVars, slotVars, userVars>>

\* "Dup connect received. Ignored." only by a client that is signing on; one that
\* plays sets its channel up anew, which is then no longer the slot's counterpart.
ClientConnect(m) ==
    /\ m.kind = "client_connect"
    /\ LET c == m.client
       IN  /\ serveradr[c]
           /\ IF state[c] = "connected"
                THEN UNCHANGED <<state, chan, heard>>
                ELSE /\ state' = [state EXCEPT ![c] = "connected"]
                     /\ chan' = [chan EXCEPT ![c] =
                                    IF state[c] = "active" /\ @ = m.conn THEN Old ELSE m.conn]
                     /\ heard' = [heard EXCEPT ![c] = 0]
    /\ UNCHANGED <<serveradr, connect_age, slotVars, network, userVars>>

Obey(m) ==
    /\ m.kind = "disconnect"
    /\ serveradr[m.client]
    /\ Disconnect(m.client, network)
    /\ UNCHANGED userVars

\* CL_ReadNetMessage: sequenced packets need a connection.
ClientProcess(m) ==
    /\ m.kind \in {"signon", "frame", "svc_disconnect"}
    /\ LET c == m.client
       IN  \/ /\ Linked(c)
              /\ m.kind = "svc_disconnect"
              /\ Disconnect(c, network \ {m})
              /\ UNCHANGED userVars
           \/ /\ Linked(c)
              /\ m.kind # "svc_disconnect"
              /\ heard' = [heard EXCEPT ![c] = 0]
              /\ \/ UNCHANGED <<state, crossed>>
                 \/ /\ m.kind = "frame" /\ state' = [state EXCEPT ![c] = "active"]
                    /\ crossed' = (crossed \/ Replies(c) # {})
              /\ network' = network \ {m}
              /\ UNCHANGED <<serveradr, connect_age, chan, slotVars, commands, kicks>>
           \/ /\ network' = network \ {m}
              /\ UNCHANGED <<clientVars, slotVars, userVars>>

\* CL_WritePacket
WritePacket(c) ==
    /\ Linked(c)
    /\ Cardinality(Packets) < MaxNetwork
    /\ network' = network \cup {Datagram("move", c)}
    /\ UNCHANGED <<clientVars, slotVars, userVars>>

TimedOutActive(c) == state[c] = "active" /\ heard[c] > ClientTimeout

\* CL_ReadPackets
TimedOut(c) == Linked(c) /\ heard[c] > ClientTimeout

Timeout(c) == TimedOut(c) /\ Disconnect(c, network) /\ UNCHANGED userVars

-----------------------------------------------------------------------------
(* Time.  Frames are far shorter than a unit of time: none passes while    *)
(* something is due in the next frame.                                     *)

OlderUncapped(age, cap) == age + 1

Older(age, cap) == IF age < cap THEN age + 1 ELSE age

Due ==
    \/ \E c \in Clients : state[c] = "connecting" /\ connect_age[c] >= ResendTime
    \/ \E c \in Clients : TimedOut(c)
    \/ \E s \in Slots : Expired(s) \/ (sstate[s] # "free" /\ send_message[s])

Tick ==
    /\ ~Due
    /\ connect_age' = [c \in Clients |-> IF state[c] = "connecting"
                          THEN Older(connect_age[c], ResendTime) ELSE 0]
    /\ heard' = [c \in Clients |-> IF Linked(c)
                    THEN Older(heard[c], ClientTimeout + 1) ELSE 0]
    /\ lastmessage' = [s \in Slots |-> IF sstate[s] = "free" THEN 0
                          ELSE Older(lastmessage[s], ServerTimeout + 1)]
    /\ lastconnect' = [s \in Slots |-> IF Live(s)
                          THEN Older(lastconnect[s], ReconnectLimit) ELSE 0]
    /\ network' = {[m EXCEPT !.age = @ + 1] : m \in {d \in network : d.age < Lifetime}}
    /\ UNCHANGED <<state, serveradr, chan, sstate, owner, schan, send_message, userVars>>

ServerReads == \E m \in network : GetChallenge(m) \/ DirectConnect(m) \/ ReadPacket(m)

ClientReads(c) ==
    \E m \in network : m.client = c /\
        (Challenge(m) \/ ClientConnect(m) \/ Obey(m) \/ ClientProcess(m))

Next ==
    \/ ServerReads
    \/ CheckTimeouts
    \/ SendClientMessages
    \/ \E s \in Slots : Kick(s)
    \/ \E c \in Clients :
          \/ ClientReads(c)
          \/ UserDisconnect(c) \/ Retry(c) \/ CheckForResend(c)
          \/ WritePacket(c) \/ Timeout(c)
    \/ Tick

Spec == Init /\ [][Next]_vars

-----------------------------------------------------------------------------
TypeOK ==
    /\ state \in [Clients -> ClientState]
    /\ serveradr \in [Clients -> BOOLEAN]
    /\ connect_age \in [Clients -> 0..ResendTime]
    /\ chan \in [Clients -> Connections \cup {None, Old}]
    /\ heard \in [Clients -> 0..ClientTimeout + 1]
    /\ sstate \in [Slots -> SlotState]
    /\ owner \in [Slots -> Clients \cup {None}]
    /\ \A s \in Slots : sstate[s] # "free" => owner[s] \in Clients
    /\ schan \in [Slots -> Connections \cup {None}]
    /\ lastmessage \in [Slots -> 0..ServerTimeout + 1]
    /\ lastconnect \in [Slots -> 0..ReconnectLimit]
    /\ send_message \in [Slots -> BOOLEAN]
    /\ network \subseteq [kind : ToServer \cup ToClient, client : Clients,
                          conn : Connections \cup {None}, age : 0..Lifetime]

\* A client never holds two slots in use, however often its connect packets
\* come, late or again (SV_DirectConnect: "if there is already a slot for this
\* ip, reuse it").
OneSlotEach == \A c \in Clients : \A s, t \in SlotsOf(c) : s = t

\* Client and server do not come to hold channels of different connections,
\* although each side sets its own up at a time of its own (SV_DirectConnect,
\* CL_ConnectionlessPacket), lets go of it without the other, and each datagram of
\* the handshake may be lost, late or come again.  It need not hold once something
\* has cut into a handshake: a user's command while its datagrams are still about; the
\* drop of a client whose questions still go round; the end of a sign-on before the
\* last copy of client_connect is gone.
Agreement ==
    ~crossed => \A c \in Clients : \A s \in SlotsOf(c) : Linked(c) => chan[c] = schan[s]

\* Why Agreement holds: a getchallenge and all that comes of it, copies included,
\* is gone before the client asks again, and before the server would take another
\* connect of the same client for a new connection or give the first one up.
HandshakeShort ==
    /\ 4 * Lifetime < ResendTime
    /\ 3 * Lifetime < ReconnectLimit
    /\ 3 * Lifetime <= ServerTimeout

\* How long the datagrams before one of this kind may have been on their way.
Before(k) == CASE k = "getchallenge" -> 0
               [] k = "challenge"    -> Lifetime
               [] k = "connect"      -> 2 * Lifetime
               [] OTHER              -> 3 * Lifetime

\* While the client waits, nothing on the way is older than its last
\* getchallenge; once it has its answer its slot is so young that further copies of
\* the question are turned away, and that it does not time out; and what a client is
\* told, or has been told, is the connection its slot has.
HandshakeInv ==
    ~crossed => \A c \in Clients :
        /\ state[c] = "connecting" =>
              \A m \in Handshake(c) : connect_age[c] <= Before(m.kind) + m.age
        /\ AskingStill(c) =>
              \E s \in SlotsOf(c) : \A m \in Asking(c) :
                  /\ lastconnect[s] <= Before(m.kind) + m.age
                  /\ lastmessage[s] <= Before(m.kind) + m.age
        /\ \A m \in Replies(c), s \in SlotsOf(c) : schan[s] = m.conn
        /\ state[c] = "active" => Replies(c) = {}
        /\ Linked(c) => \A s \in SlotsOf(c) : chan[c] = schan[s]

\* A slot whose client's packets all go to a zombie of that client, which comes
\* first in the loop of SV_ReadPackets.
Hidden(s) == Live(s) /\ \E t \in First(Receivers(owner[s])) : sstate[t] = "zombie"

\* A zombie keeps a new connection of its client from hearing anything no longer
\* than zombietime, however many of its packets it swallows (SV_ReadPackets,
\* SV_CheckTimeouts).
HiddenShortly == \A s \in Slots : Hidden(s) => lastmessage[s] <= ZombieTime + 1

-----------------------------------------------------------------------------
(* Fairness: time passes, each side keeps running its frames, and of what  *)
(* is sent again and again something arrives.                              *)

Arrives(c, k) ==
    \E m \in network :
        /\ m.client = c /\ m.kind = k
        /\ GetChallenge(m) \/ DirectConnect(m) \/ Challenge(m)

Answered(c) ==
    \E m \in network : m.client = c /\ (ClientConnect(m) \/ Obey(m))

Fairness ==
    /\ SF_vars(Tick)
    /\ WF_vars(CheckTimeouts)
    /\ WF_vars(SendClientMessages)
    /\ \A c \in Clients :
          /\ WF_vars(CheckForResend(c) \/ Timeout(c))
          /\ \A k \in {"getchallenge", "challenge", "connect"} : SF_vars(Arrives(c, k))
          /\ SF_vars(Answered(c))

FairSpec == Spec /\ Fairness

\* A client that asks for a connection gets one or is told that it does not,
\* whichever datagrams of the handshake are lost (CL_CheckForResend).
ConnectingEnds == \A c \in Clients : []<>(state[c] # "connecting")

\* No connection stays half open: neither does a slot wait for ever for a client
\* that has left, nor a client for a server that has given its slot up.
HalfOpen(c) ==
    \/ state[c] = "disconnected" /\ SlotsOf(c) # {}
    \/ Linked(c) /\ SlotsOf(c) = {}

HalfOpenEnds == \A c \in Clients : []<>~HalfOpen(c)
=============================================================================
