------------------------------ MODULE NetSplit ------------------------------
(***************************************************************************)
(* The layer below the channel (engine/common/net_chan.c): a datagram that *)
(* is longer than maxpacket travels in parts, which the receiver collects  *)
(* in a ring of slots.  The network loses, repeats and reorders parts; the *)
(* sequence numbers of the channel above deal with whole datagrams.        *)
(*                                                                         *)
(* Data is bytes that know which datagram they come from.  The receiver is  *)
(* a client that is signing on (cls.state = ca_connected): only then are   *)
(* lost datagrams counted.                                                 *)
(***************************************************************************)
EXTENDS Integers, Sequences, FiniteSets

CONSTANTS
    NETSPLIT_BACKUP,  \* slots in the ring
    CountRange,       \* values of the byte fields count, index and received: 2^8
    NET_MAX_PAYLOAD,  \* size of a slot's buffer
    part,             \* maxpacket - NETSPLIT_HEADER_SIZE
    Lengths,          \* lengths of the datagrams to split
    MaxLost,          \* lost datagrams that make the client give up, see CL_WarnLostSplitPacket
    MaxSent           \* bound: datagrams split

ASSUME NetSplitAssumption ==
    /\ NETSPLIT_BACKUP \in Nat \ {0}
    /\ CountRange \in Nat \ {0}
    /\ NET_MAX_PAYLOAD \in Nat
    /\ part \in Nat \ {0}
    /\ Lengths \subseteq Nat \ {0}
    /\ MaxLost \in Nat
    /\ MaxSent \in Nat

VARIABLES
    splitid,      \* the number of the next datagram
    network,      \* every part sent so far
    packets,      \* ns->packets: the slots
    lostpackets,  \* cl.lostpackets
    \* history, read by no action:
    sent,         \* lengths of the datagrams sent, number 0 first
    merged,       \* datagrams handed on, put together from their parts
    completed     \* how often a slot's datagram was handed on since it took the slot

vars == <<splitid, network, packets, lostpackets, sent, merged, completed>>

-----------------------------------------------------------------------------
Slot   == 0..NETSPLIT_BACKUP - 1
Offset == 0..NET_MAX_PAYLOAD - 1
Nothing == -1

Part == [id : Nat, length : Nat, count : 0..CountRange - 1, index : 0..CountRange - 1]

Init ==
    /\ splitid = 0
    /\ network = {}
    /\ packets = [k \in Slot |-> [id |-> 0, count |-> 0, received |-> 0, recieved_v |-> {},
                                  data |-> [j \in Offset |-> Nothing]]]
    /\ lostpackets = 0
    /\ sent = <<>>
    /\ merged = {}
    /\ completed = [k \in Slot |-> 0]

\* Parts a datagram is cut into, and what is left of it in the count's byte.
Parts(length) == (length - 1) \div part + 1
Count(length) == Parts(length) % CountRange

\* NetSplit_SendLong, called for a packet longer than maxpacket.
SendLong(length) ==
    /\ splitid < MaxSent
    /\ network' = network \cup
         {[id |-> splitid, length |-> length, count |-> Count(length), index |-> i] :
             i \in 0..Count(length) - 1}
    /\ splitid' = splitid + 1
    /\ sent' = Append(sent, length)
    /\ UNCHANGED <<packets, lostpackets, merged, completed>>

-----------------------------------------------------------------------------
(* NetSplit_GetLong. *)

\* The bytes of the datagram that part p brings.
Bytes(p) == {j \in 0..p.length - 1 : p.index * part <= j /\ j < p.index * part + part}

ClaimKeepsMarks(s, p) ==
    IF p.id = s.id THEN s ELSE [s EXCEPT !.id = p.id, !.count = p.count]

\* A part with another number takes the slot over.
Claim(s, p) ==
    IF p.id = s.id THEN s
    ELSE [s EXCEPT !.id = p.id, !.count = p.count, !.received = 0, !.recieved_v = {}]

LostOrDone(s, p) == p.id # s.id /\ s.received <= s.count

\* The datagram that had the slot was not received completely.
Lost(s, p) == p.id # s.id /\ s.received < s.count

DuplicateNever(s, p) == FALSE
Duplicate(s, p) == p.index \in s.recieved_v

\* Prevent overflow.
InBounds(p) == p.index * part <= NET_MAX_PAYLOAD /\ p.length <= NET_MAX_PAYLOAD

\* The part is counted and marked before the bounds are checked.
Store(s, p) ==
    [s EXCEPT !.received = (@ + 1) % CountRange, !.recieved_v = @ \cup {p.index},
              !.data = [j \in Offset |-> IF InBounds(p) /\ j \in Bytes(p) THEN p.id ELSE @[j]]]

Whole(s, p) == InBounds(p) /\ s.received = p.count

MergedLonger(s, p) ==
    [id |-> p.id, length |-> p.length,
     data |-> [j \in 0..p.length |-> IF j \in Offset THEN s.data[j] ELSE Nothing]]

\* What is handed on: as many bytes of the slot as the header says.
Merged(s, p) ==
    [id |-> p.id, length |-> p.length, data |-> [j \in 0..p.length - 1 |-> s.data[j]]]

\* A duplicate changes nothing.  CL_WarnLostSplitPacket disconnects the
\* client when it has counted MaxLost lost datagrams.
GetLong(p) ==
    LET k == p.id % NETSPLIT_BACKUP
        s == Store(Claim(packets[k], p), p)
        tenure == IF p.id = packets[k].id THEN completed[k] ELSE 0
    IN  /\ lostpackets < MaxLost
        /\ ~Duplicate(Claim(packets[k], p), p)
        /\ packets' = [packets EXCEPT ![k] = s]
        /\ lostpackets' = IF Lost(packets[k], p) THEN lostpackets + 1 ELSE lostpackets
        /\ merged' = IF Whole(s, p) THEN merged \cup {Merged(s, p)} ELSE merged
        /\ completed' = [completed EXCEPT ![k] = IF Whole(s, p) THEN tenure + 1 ELSE tenure]
        /\ UNCHANGED <<splitid, network, sent>>

Next ==
    \/ \E length \in Lengths : SendLong(length)
    \/ \E p \in network : GetLong(p)

Spec == Init /\ [][Next]_vars

-----------------------------------------------------------------------------
(* Properties. *)

\* Every variable has its type.
TypeOK ==
    /\ splitid \in Nat
    /\ network \subseteq Part
    /\ packets \in [Slot -> [id : Nat, count : 0..CountRange - 1, received : 0..CountRange - 1,
                             recieved_v : SUBSET (0..CountRange - 1),
                             data : [Offset -> Nat \cup {Nothing}]]]
    /\ lostpackets \in Nat
    /\ sent \in Seq(Nat)
    /\ \A d \in merged : d.id \in Nat /\ d.length \in Nat
                         /\ d.data \in [0..d.length - 1 -> Nat \cup {Nothing}]
    /\ completed \in [Slot -> Nat]

\* The number of parts fits the count's byte ("max 256 parts").
CountsFit == \A length \in Lengths : Parts(length) < CountRange

\* Whatever is lost, repeated or late, a datagram that is handed on is one
\* that was sent, of its full length, without a byte of another one that had
\* the slot before (NetSplit_GetLong).
WholeDatagram ==
    \A d \in merged :
        /\ d.id < splitid
        /\ d.length = sent[d.id + 1]
        /\ d.data = [j \in 0..d.length - 1 |-> d.id]

\* While a datagram has its slot it is handed on when its last missing part
\* comes in, and only then: repeated parts neither complete it early nor
\* complete it again.
CompletesWhenWhole ==
    \A k \in Slot :
        LET s == packets[k]
        IN  s.id < splitid /\ s.id % NETSPLIT_BACKUP = k =>
                completed[k] =
                    IF s.recieved_v = 0..Parts(sent[s.id + 1]) - 1 /\ sent[s.id + 1] <= NET_MAX_PAYLOAD
                    THEN 1 ELSE 0

\* A datagram that was handed on is never counted among the lost ones, which
\* after MaxLost of them end the connection (CL_WarnLostSplitPacket).
OnlyUnfinishedLost ==
    [][\A k \in Slot : lostpackets' # lostpackets /\ packets'[k].id # packets[k].id
           => completed[k] = 0]_vars

\* The datagram that was sent with number n - 1, every byte its own.
Original(n) ==
    [id |-> n - 1, length |-> sent[n], data |-> [j \in 0..sent[n] - 1 |-> n - 1]]

\* To the channel above, NetSplit_SendLong and NetSplit_GetLong are a network of
\* whole datagrams: each step of theirs sends one, hands on one that was sent, or
\* is none of the channel's business.
Service == INSTANCE DatagramService
               WITH sent <- {Original(n) : n \in 1..Len(sent)}, delivered <- merged
ServesDatagrams == Service!Spec

-----------------------------------------------------------------------------
(* The inductive invariant. *)

\* A slot that holds parts of a datagram, and that datagram's length.
Taken(k) == packets[k].recieved_v # {}
LengthIn(k) == sent[packets[k].id + 1]

Headers ==
    \A p \in network :
        /\ p.id < splitid
        /\ p.length = sent[p.id + 1]
        /\ p.count = Count(p.length)
        /\ p.index < p.count

Marks ==
    \A k \in Slot :
        LET s == packets[k]
        IN  /\ s.received = Cardinality(s.recieved_v)
            /\ Taken(k) => /\ s.id < splitid
                           /\ s.count \in {0, Parts(LengthIn(k))}
                           /\ s.recieved_v \subseteq 0..Parts(LengthIn(k)) - 1
            /\ ~Taken(k) => s.count = 0

Contents ==
    \A k \in Slot :
        LET s == packets[k]
        IN  Taken(k) /\ LengthIn(k) <= NET_MAX_PAYLOAD =>
                \A j \in 0..LengthIn(k) - 1 : j \div part \in s.recieved_v => s.data[j] = s.id

Completions ==
    \A k \in Slot :
        LET s == packets[k]
        IN  completed[k] =
                IF /\ Taken(k)
                   /\ s.recieved_v = 0..Parts(LengthIn(k)) - 1
                   /\ LengthIn(k) <= NET_MAX_PAYLOAD
                THEN 1 ELSE 0

\* A marked part's bytes are in the slot, parts are counted once, and a
\* datagram is handed on exactly when the last of its parts is marked.
IInv ==
    /\ TypeOK
    /\ sent \in Seq(Lengths) /\ Len(sent) = splitid
    /\ Headers
    /\ Marks
    /\ Contents
    /\ Completions
    /\ WholeDatagram
=============================================================================
