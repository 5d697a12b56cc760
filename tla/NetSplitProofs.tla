--------------------------- MODULE NetSplitProofs ---------------------------
(***************************************************************************)
(* Proofs about the netsplit: its type correctness, and that a datagram is *)
(* handed on whole, once, and not counted as lost after that.              *)
(***************************************************************************)
EXTENDS NetSplit, FiniteSetTheorems, TLAPS

-----------------------------------------------------------------------------
(* Facts about parts and slots. *)

LEMMA DivUnique ==
    ASSUME NEW n \in Nat, NEW d \in Nat \ {0}, NEW i \in Nat
    PROVE  n \div d = i <=> i * d <= n /\ n < i * d + d
BY SMTT(30)

LEMMA PartsType ==
    ASSUME NEW length \in Nat \ {0}
    PROVE  /\ Parts(length) \in Nat \ {0}
           /\ Count(length) \in 0..CountRange - 1
BY NetSplitAssumption DEF Parts, Count

\* Every byte belongs to one of the parts.
LEMMA PartOfByte ==
    ASSUME NEW length \in Nat \ {0}, NEW j \in 0..length - 1
    PROVE  j \div part \in 0..Parts(length) - 1
BY NetSplitAssumption, SMTT(30) DEF Parts

LEMMA SlotType == ASSUME NEW id \in Nat PROVE id % NETSPLIT_BACKUP \in Slot
BY NetSplitAssumption DEF Slot

-----------------------------------------------------------------------------
(* Type correctness. *)

LEMMA StoreType ==
    ASSUME TypeOK, NEW k \in Slot, NEW p \in network
    PROVE  Store(Claim(packets[k], p), p) \in
             [id : Nat, count : 0..CountRange - 1, received : 0..CountRange - 1,
              recieved_v : SUBSET (0..CountRange - 1), data : [Offset -> Nat \cup {Nothing}]]
<1>. DEFINE R == [id : Nat, count : 0..CountRange - 1, received : 0..CountRange - 1,
                  recieved_v : SUBSET (0..CountRange - 1), data : [Offset -> Nat \cup {Nothing}]]
<1>1. p \in Part /\ packets[k] \in R
    BY DEF TypeOK
<1>2. Claim(packets[k], p) \in R
    <2>1. CASE p.id = packets[k].id
        BY <1>1, <2>1 DEF Claim
    <2>2. CASE p.id # packets[k].id
        <3>1. Claim(packets[k], p) =
                [id |-> p.id, count |-> p.count, received |-> 0, recieved_v |-> {},
                 data |-> packets[k].data]
            BY <1>1, <2>2 DEF Claim
        <3>2. p.id \in Nat /\ p.count \in 0..CountRange - 1 /\ 0 \in 0..CountRange - 1
            BY <1>1, NetSplitAssumption DEF Part
        <3>3. packets[k].data \in [Offset -> Nat \cup {Nothing}]
            BY <1>1
        <3>. QED  BY <3>1, <3>2, <3>3
    <2>. QED  BY <2>1, <2>2
<1>3. ASSUME NEW s \in R PROVE Store(s, p) \in R
    <2>1. (s.received + 1) % CountRange \in 0..CountRange - 1
        BY NetSplitAssumption
    <2>2. s.recieved_v \cup {p.index} \in SUBSET (0..CountRange - 1)
        BY <1>1 DEF Part
    <2>3. [j \in Offset |-> IF InBounds(p) /\ j \in Bytes(p) THEN p.id ELSE s.data[j]]
              \in [Offset -> Nat \cup {Nothing}]
        BY <1>1 DEF Part
    <2>. QED  BY <2>1, <2>2, <2>3 DEF Store
<1>. QED  BY <1>2, <1>3

LEMMA MergedType ==
    ASSUME NEW s, s.data \in [Offset -> Nat \cup {Nothing}], NEW p \in Part, Whole(s, p)
    PROVE  /\ Merged(s, p).id \in Nat /\ Merged(s, p).length \in Nat
           /\ Merged(s, p).data \in [0..Merged(s, p).length - 1 -> Nat \cup {Nothing}]
<1>1. p.length <= NET_MAX_PAYLOAD /\ p.length \in Nat /\ p.id \in Nat
    BY DEF Whole, InBounds, Part
<1>2. 0..p.length - 1 \subseteq Offset
    BY <1>1, NetSplitAssumption DEF Offset
<1>. QED  BY <1>1, <1>2 DEF Merged

LEMMA TypeInit == Init => TypeOK
<1>. SUFFICES ASSUME Init PROVE TypeOK
    OBVIOUS
<1>1. 0 \in 0..CountRange - 1
    BY NetSplitAssumption
<1>. QED  BY <1>1 DEF Init, TypeOK, Part, Nothing

LEMMA TypeStep == TypeOK /\ [Next]_vars => TypeOK'
<1>. SUFFICES ASSUME TypeOK, [Next]_vars PROVE TypeOK'
    OBVIOUS
<1>1. ASSUME NEW length \in Lengths, SendLong(length) PROVE TypeOK'
    <2>1. length \in Nat \ {0} /\ Count(length) \in 0..CountRange - 1
        BY NetSplitAssumption, PartsType
    <2>2. {[id |-> splitid, length |-> length, count |-> Count(length), index |-> i] :
              i \in 0..Count(length) - 1} \subseteq Part
        BY <2>1, NetSplitAssumption DEF Part, TypeOK
    <2>. QED  BY <1>1, <2>1, <2>2 DEF TypeOK, SendLong
<1>2. ASSUME NEW p \in network, GetLong(p) PROVE TypeOK'
    <2>. DEFINE k == p.id % NETSPLIT_BACKUP
                s == Store(Claim(packets[k], p), p)
                tenure == IF p.id = packets[k].id THEN completed[k] ELSE 0
    <2>1. p \in Part /\ k \in Slot
        BY SlotType DEF TypeOK, Part
    <2>2. s \in [id : Nat, count : 0..CountRange - 1, received : 0..CountRange - 1,
                 recieved_v : SUBSET (0..CountRange - 1), data : [Offset -> Nat \cup {Nothing}]]
        BY <2>1, StoreType
    <2>3. /\ packets' = [packets EXCEPT ![k] = s]
          /\ lostpackets' = IF Lost(packets[k], p) THEN lostpackets + 1 ELSE lostpackets
          /\ merged' = IF Whole(s, p) THEN merged \cup {Merged(s, p)} ELSE merged
          /\ completed' = [completed EXCEPT ![k] = IF Whole(s, p) THEN tenure + 1 ELSE tenure]
          /\ UNCHANGED <<splitid, network, sent>>
        BY <1>2 DEF GetLong
    <2>. HIDE DEF s, k
    <2>4. \A d \in merged' : d.id \in Nat /\ d.length \in Nat
                             /\ d.data \in [0..d.length - 1 -> Nat \cup {Nothing}]
        <3>1. Whole(s, p) => /\ Merged(s, p).id \in Nat /\ Merged(s, p).length \in Nat
                             /\ Merged(s, p).data \in [0..Merged(s, p).length - 1 -> Nat \cup {Nothing}]
            BY <2>1, <2>2, MergedType
        <3>. QED  BY <2>3, <3>1 DEF TypeOK
    <2>5. completed' \in [Slot -> Nat]
        BY <2>1, <2>3 DEF TypeOK
    <2>. QED  BY SMTT(30), <2>1, <2>2, <2>3, <2>4, <2>5 DEF TypeOK
<1>3. CASE UNCHANGED vars
    BY <1>3 DEF TypeOK, vars
<1>. QED  BY <1>1, <1>2, <1>3 DEF Next

\* Every variable of the netsplit keeps its type, whatever the lengths: the
\* count of parts may be truncated, the counter of received parts may wrap.
THEOREM TypeCorrect == Spec => []TypeOK
BY TypeInit, TypeStep, PTL DEF Spec

-----------------------------------------------------------------------------
(* The inductive invariant, for lengths whose parts can be counted. *)

\* A part starts before the end of the datagram.
LEMMA PartStart ==
    ASSUME NEW length \in Nat \ {0}, NEW i \in 0..Parts(length) - 1
    PROVE  i * part <= length - 1
<1>. DEFINE q == (length - 1) \div part
<1>1. q \in Nat /\ q * part <= length - 1
    BY NetSplitAssumption, DivUnique
<1>2. i <= q /\ i \in Nat
    BY <1>1 DEF Parts
<1>3. i * part <= q * part
    BY <1>1, <1>2, NetSplitAssumption
<1>. QED  BY <1>1, <1>2, <1>3, NetSplitAssumption

\* Marks below a number of parts: all of them exactly when they are as many.
LEMMA AllMarked ==
    ASSUME NEW n \in Nat, NEW S \in SUBSET (0..n - 1)
    PROVE  /\ IsFiniteSet(S)
           /\ Cardinality(S) \in Nat /\ Cardinality(S) <= n
           /\ Cardinality(S) = n <=> S = 0..n - 1
<1>1. IsFiniteSet(0..n - 1) /\ Cardinality(0..n - 1) = n
    BY FS_Interval
<1>. QED  BY <1>1, FS_Subset, FS_CardinalityType

\* What a part on the network says of the datagram it belongs to.
LEMMA HeaderFacts ==
    ASSUME IInv, CountsFit, NEW p \in network
    PROVE  /\ p \in Part /\ p.id < splitid /\ p.length = sent[p.id + 1]
           /\ p.length \in Lengths /\ p.length \in Nat \ {0}
           /\ p.count = Parts(p.length) /\ Parts(p.length) < CountRange
           /\ p.index \in 0..Parts(p.length) - 1
<1>1. /\ p \in Part /\ p.id < splitid /\ p.length = sent[p.id + 1]
      /\ p.count = Count(p.length) /\ p.index < p.count
    BY DEF IInv, TypeOK, Headers
<1>2. p.length \in Lengths
    BY <1>1 DEF IInv, Part
<1>3. p.length \in Nat \ {0}
    BY <1>2, NetSplitAssumption
<1>4. Parts(p.length) \in Nat \ {0} /\ Parts(p.length) < CountRange
    BY <1>2, <1>3, PartsType DEF CountsFit
<1>5. Count(p.length) = Parts(p.length)
    BY <1>4, NetSplitAssumption DEF Count
<1>. QED  BY <1>1, <1>2, <1>3, <1>4, <1>5 DEF Part

\* The slot that a part goes into, once it is claimed for the part's
\* datagram: nothing of another datagram is marked.
LEMMA ClaimedSlot ==
    ASSUME IInv, CountsFit, NEW p \in network, NEW k \in Slot
    PROVE  LET c == Claim(packets[k], p)
           IN  /\ c.id = p.id
               /\ c.count \in {0, Parts(p.length)}
               /\ c.recieved_v \in SUBSET (0..Parts(p.length) - 1)
               /\ c.received = Cardinality(c.recieved_v)
               /\ c.data = packets[k].data
               /\ p.length <= NET_MAX_PAYLOAD =>
                      \A j \in 0..p.length - 1 : j \div part \in c.recieved_v => c.data[j] = p.id
<1>. DEFINE c == Claim(packets[k], p)
<1>1. /\ packets[k].id \in Nat /\ p.id \in Nat /\ p.length = sent[p.id + 1] /\ p.count = Parts(p.length)
    BY HeaderFacts DEF IInv, TypeOK, Part
<1>2. CASE p.id = packets[k].id
    <2>1. c = packets[k]
        BY <1>2 DEF Claim
    <2>2. LengthIn(k) = p.length
        BY <1>1, <1>2 DEF LengthIn
    <2>3. packets[k].received = Cardinality(packets[k].recieved_v)
        BY DEF IInv, Marks
    <2>4. CASE Taken(k)
        <3>1. /\ packets[k].count \in {0, Parts(p.length)}
              /\ packets[k].recieved_v \subseteq 0..Parts(p.length) - 1
            BY <2>2, <2>4 DEF IInv, Marks
        <3>2. p.length <= NET_MAX_PAYLOAD =>
                  \A j \in 0..p.length - 1 :
                      j \div part \in packets[k].recieved_v => packets[k].data[j] = p.id
            BY <1>2, <2>2, <2>4 DEF IInv, Contents
        <3>. QED  BY <1>2, <2>1, <2>3, <3>1, <3>2
    <2>5. CASE ~Taken(k)
        <3>1. packets[k].count = 0 /\ packets[k].recieved_v = {}
            BY <2>5 DEF IInv, Marks, Taken
        <3>. QED  BY <1>2, <2>1, <2>3, <3>1
    <2>. QED  BY <2>4, <2>5
<1>3. CASE p.id # packets[k].id
    <2>1. c = [id |-> p.id, count |-> p.count, received |-> 0, recieved_v |-> {},
               data |-> packets[k].data]
        BY <1>3 DEF Claim, IInv, TypeOK
    <2>. QED  BY <1>1, <2>1, FS_EmptySet
<1>. QED  BY <1>2, <1>3

\* The slot after a part that is not a duplicate is stored.
LEMMA StoredSlot ==
    ASSUME IInv, CountsFit, NEW p \in network, NEW k \in Slot,
           ~Duplicate(Claim(packets[k], p), p)
    PROVE  LET s == Store(Claim(packets[k], p), p)
           IN  /\ s.id = p.id
               /\ s.count \in {0, Parts(p.length)}
               /\ s.recieved_v # {} /\ s.recieved_v \in SUBSET (0..Parts(p.length) - 1)
               /\ s.received = Cardinality(s.recieved_v)
               /\ p.length <= NET_MAX_PAYLOAD =>
                      \A j \in 0..p.length - 1 : j \div part \in s.recieved_v => s.data[j] = p.id
               /\ Whole(s, p) <=> /\ p.length <= NET_MAX_PAYLOAD
                                  /\ s.recieved_v = 0..Parts(p.length) - 1
<1>. DEFINE c == Claim(packets[k], p)
            s == Store(c, p)
            n == Parts(p.length)
<1>1. /\ p \in Part /\ p.length \in Nat \ {0} /\ p.count = n /\ n < CountRange
      /\ p.index \in 0..n - 1 /\ n \in Nat
    BY HeaderFacts, PartsType
<1>2. /\ c.id = p.id /\ c.count \in {0, n} /\ c.recieved_v \in SUBSET (0..n - 1)
      /\ c.received = Cardinality(c.recieved_v) /\ c.data = packets[k].data
      /\ p.length <= NET_MAX_PAYLOAD =>
             \A j \in 0..p.length - 1 : j \div part \in c.recieved_v => c.data[j] = p.id
    BY ClaimedSlot
<1>3. c.data \in [Offset -> Nat \cup {Nothing}]
    BY <1>2 DEF IInv, TypeOK
<1>4. /\ s.id = c.id /\ s.count = c.count
      /\ s.received = (c.received + 1) % CountRange
      /\ s.recieved_v = c.recieved_v \cup {p.index}
      /\ s.data = [j \in Offset |-> IF InBounds(p) /\ j \in Bytes(p) THEN p.id ELSE c.data[j]]
    <2>1. c = [id |-> c.id, count |-> c.count, received |-> c.received,
               recieved_v |-> c.recieved_v, data |-> c.data]
        BY DEF Claim, IInv, TypeOK
    <2>. HIDE DEF c
    <2>. QED  BY <2>1 DEF Store
<1>5. p.index \notin c.recieved_v
    BY DEF Duplicate
<1>. HIDE DEF c, s, n
<1>6. s.recieved_v # {} /\ s.recieved_v \in SUBSET (0..n - 1)
    BY <1>1, <1>2, <1>4
<1>7. s.received = Cardinality(s.recieved_v)
    <2>1. IsFiniteSet(c.recieved_v) /\ Cardinality(c.recieved_v) \in Nat
        BY <1>1, <1>2, AllMarked
    <2>2. Cardinality(s.recieved_v) = Cardinality(c.recieved_v) + 1
        BY <1>4, <1>5, <2>1, FS_AddElement
    <2>3. Cardinality(s.recieved_v) <= n
        BY <1>1, <1>6, AllMarked
    <2>. QED  BY <1>1, <1>2, <1>4, <2>1, <2>2, <2>3, NetSplitAssumption
<1>8. p.length <= NET_MAX_PAYLOAD => InBounds(p)
    BY <1>1, PartStart, NetSplitAssumption DEF InBounds, n, Part
<1>9. ASSUME p.length <= NET_MAX_PAYLOAD, NEW j \in 0..p.length - 1, j \div part \in s.recieved_v
      PROVE  s.data[j] = p.id
    <2>1. j \in Offset
        BY <1>1, <1>9, NetSplitAssumption DEF Offset
    <2>2. CASE j \div part = p.index
        <3>1. p.index * part <= j /\ j < p.index * part + part
            BY <1>1, <2>2, DivUnique, NetSplitAssumption
        <3>2. j \in Bytes(p)
            BY <3>1, <1>1 DEF Bytes
        <3>. QED  BY <1>4, <1>8, <1>9, <2>1, <3>2
    <2>3. CASE j \div part # p.index
        <3>1. c.data[j] = p.id
            BY <1>2, <1>4, <1>9, <2>3
        <3>. QED  BY <1>4, <2>1, <3>1
    <2>. QED  BY <2>2, <2>3
<1>10. Whole(s, p) <=> p.length <= NET_MAX_PAYLOAD /\ s.recieved_v = 0..n - 1
    BY <1>1, <1>6, <1>7, <1>8, AllMarked DEF Whole, InBounds
<1>. QED  BY <1>2, <1>4, <1>6, <1>7, <1>9, <1>10 DEF n, s, c

LEMMA IInvInit == Init => IInv
<1>. SUFFICES ASSUME Init PROVE IInv
    OBVIOUS
<1>1. TypeOK
    BY TypeInit
<1>2. sent \in Seq(Lengths) /\ Len(sent) = splitid
    BY DEF Init
<1>3. \A k \in Slot : ~Taken(k) /\ packets[k].count = 0 /\ packets[k].received = 0
                      /\ packets[k].recieved_v = {}
    BY DEF Init, Taken
<1>4. Headers /\ WholeDatagram
    BY DEF Init, Headers, WholeDatagram
<1>5. Marks /\ Contents
    BY <1>3, FS_EmptySet DEF Marks, Contents
<1>6. Completions
    BY <1>3 DEF Init, Completions
<1>. QED  BY <1>1, <1>2, <1>4, <1>5, <1>6 DEF IInv

\* Splitting another datagram leaves the lengths of the earlier ones alone.
LEMMA SendLongKeeps ==
    ASSUME IInv, NEW length \in Lengths, SendLong(length), TypeOK'
    PROVE  IInv'
<1>1. /\ splitid \in Nat /\ sent \in Seq(Lengths) /\ Len(sent) = splitid
      /\ splitid' = splitid + 1 /\ sent' = Append(sent, length)
      /\ UNCHANGED <<packets, lostpackets, merged, completed>>
    BY DEF IInv, TypeOK, SendLong
<1>2. \A id \in Nat : id < splitid => sent'[id + 1] = sent[id + 1]
    BY <1>1
<1>3. sent'[splitid + 1] = length /\ sent' \in Seq(Lengths) /\ Len(sent') = splitid'
    BY <1>1
<1>4. Headers'
    <2>. SUFFICES ASSUME NEW p \in network'
                  PROVE  /\ p.id < splitid' /\ p.length = sent'[p.id + 1]
                         /\ p.count = Count(p.length) /\ p.index < p.count
        BY DEF Headers
    <2>1. CASE p \in network
        <3>1. p \in Part /\ p.id < splitid /\ p.length = sent[p.id + 1]
              /\ p.count = Count(p.length) /\ p.index < p.count
            BY <2>1 DEF IInv, TypeOK, Headers
        <3>. QED  BY <3>1, <1>1, <1>2 DEF Part
    <2>2. CASE p \notin network
        <3>1. PICK i \in 0..Count(length) - 1 :
                  p = [id |-> splitid, length |-> length, count |-> Count(length), index |-> i]
            BY <2>2 DEF SendLong
        <3>2. Count(length) \in 0..CountRange - 1
            BY NetSplitAssumption, PartsType
        <3>. QED  BY <3>1, <3>2, <1>1, <1>3, NetSplitAssumption
    <2>. QED  BY <2>1, <2>2
<1>5. \A k \in Slot : /\ packets[k].id \in Nat
                      /\ Taken(k)' = Taken(k)
                      /\ Taken(k) => packets[k].id < splitid /\ LengthIn(k)' = LengthIn(k)
    BY <1>1, <1>2 DEF IInv, TypeOK, Marks, Taken, LengthIn
<1>6. Marks'
    <2>. SUFFICES ASSUME NEW k \in Slot
                  PROVE  /\ packets[k].received = Cardinality(packets[k].recieved_v)
                         /\ Taken(k) => /\ packets[k].id < splitid'
                                        /\ packets[k].count \in {0, Parts(LengthIn(k)')}
                                        /\ packets[k].recieved_v \subseteq 0..Parts(LengthIn(k)') - 1
                         /\ ~Taken(k) => packets[k].count = 0
        BY <1>1, <1>5 DEF Marks
    <2>1. /\ packets[k].received = Cardinality(packets[k].recieved_v)
          /\ Taken(k) => /\ packets[k].id < splitid
                         /\ packets[k].count \in {0, Parts(LengthIn(k))}
                         /\ packets[k].recieved_v \subseteq 0..Parts(LengthIn(k)) - 1
          /\ ~Taken(k) => packets[k].count = 0
        BY DEF IInv, Marks
    <2>. QED  BY <1>1, <1>5, <2>1
<1>7. Contents'
    <2>. SUFFICES ASSUME NEW k \in Slot, Taken(k), LengthIn(k) <= NET_MAX_PAYLOAD,
                         NEW j \in 0..LengthIn(k) - 1, j \div part \in packets[k].recieved_v
                  PROVE  packets[k].data[j] = packets[k].id
        BY <1>1, <1>5 DEF Contents
    <2>. QED  BY DEF IInv, Contents
<1>8. Completions'
    <2>. SUFFICES ASSUME NEW k \in Slot
                  PROVE  completed[k] =
                           IF /\ Taken(k)
                              /\ packets[k].recieved_v = 0..Parts(LengthIn(k)') - 1
                              /\ LengthIn(k)' <= NET_MAX_PAYLOAD
                           THEN 1 ELSE 0
        BY <1>1, <1>5 DEF Completions
    <2>. QED  BY <1>5 DEF IInv, Completions
<1>9. WholeDatagram'
    <2>. SUFFICES ASSUME NEW d \in merged
                  PROVE  /\ d.id < splitid' /\ d.length = sent'[d.id + 1]
                         /\ d.data = [j \in 0..d.length - 1 |-> d.id]
        BY <1>1 DEF WholeDatagram
    <2>1. /\ d.id \in Nat /\ d.id < splitid /\ d.length = sent[d.id + 1]
          /\ d.data = [j \in 0..d.length - 1 |-> d.id]
        BY DEF IInv, TypeOK, WholeDatagram
    <2>. QED  BY <1>1, <1>2, <2>1
<1>. QED  BY <1>3, <1>4, <1>6, <1>7, <1>8, <1>9 DEF IInv

LEMMA GetLongKeeps ==
    ASSUME IInv, CountsFit, NEW p \in network, GetLong(p), TypeOK'
    PROVE  IInv'
<1>. DEFINE k == p.id % NETSPLIT_BACKUP
            s == Store(Claim(packets[k], p), p)
            n == Parts(p.length)
            tenure == IF p.id = packets[k].id THEN completed[k] ELSE 0
<1>1. k \in Slot /\ p \in Part /\ p.id \in Nat /\ p.id < splitid /\ p.length = sent[p.id + 1]
      /\ n \in Nat \ {0} /\ p.length \in Nat \ {0}
    BY HeaderFacts, SlotType, PartsType DEF Part
<1>2. /\ ~Duplicate(Claim(packets[k], p), p)
      /\ packets' = [packets EXCEPT ![k] = s]
      /\ merged' = IF Whole(s, p) THEN merged \cup {Merged(s, p)} ELSE merged
      /\ completed' = [completed EXCEPT ![k] = IF Whole(s, p) THEN tenure + 1 ELSE tenure]
      /\ UNCHANGED <<splitid, network, sent>>
    BY DEF GetLong
<1>3. /\ s.id = p.id /\ s.count \in {0, n}
      /\ s.recieved_v # {} /\ s.recieved_v \in SUBSET (0..n - 1)
      /\ s.received = Cardinality(s.recieved_v)
      /\ p.length <= NET_MAX_PAYLOAD =>
             \A j \in 0..p.length - 1 : j \div part \in s.recieved_v => s.data[j] = p.id
      /\ Whole(s, p) <=> p.length <= NET_MAX_PAYLOAD /\ s.recieved_v = 0..n - 1
    BY <1>1, <1>2, StoredSlot
<1>4. tenure = 0
    <2>1. CASE p.id = packets[k].id
        <3>1. LengthIn(k) = p.length
            BY <1>1, <2>1 DEF LengthIn
        <3>2. p.index \notin packets[k].recieved_v
            BY <1>2, <2>1 DEF Duplicate, Claim
        <3>3. p.index \in 0..n - 1
            BY HeaderFacts
        <3>4. completed[k] = 0
            BY <1>1, <3>1, <3>2, <3>3 DEF IInv, Completions
        <3>. QED  BY <2>1, <3>4
    <2>. QED  BY <2>1
<1>. HIDE DEF s, k, n, tenure
<1>5. /\ packets'[k] = s
      /\ \A m \in Slot : m # k => packets'[m] = packets[m] /\ completed'[m] = completed[m]
      /\ completed'[k] = IF Whole(s, p) THEN 1 ELSE 0
    BY <1>1, <1>2, <1>4 DEF IInv, TypeOK
<1>6. Taken(k)' /\ LengthIn(k)' = p.length
    BY <1>1, <1>2, <1>3, <1>5 DEF Taken, LengthIn
<1>7. \A m \in Slot : m # k => Taken(m)' = Taken(m) /\ LengthIn(m)' = LengthIn(m)
    BY <1>2, <1>5 DEF Taken, LengthIn
<1>8. Headers' /\ sent' \in Seq(Lengths) /\ Len(sent') = splitid'
    BY <1>2 DEF IInv, Headers
<1>9. Marks'
    <2>. SUFFICES ASSUME NEW m \in Slot
                  PROVE  /\ packets'[m].received = Cardinality(packets'[m].recieved_v)
                         /\ Taken(m)' => /\ packets'[m].id < splitid'
                                         /\ packets'[m].count \in {0, Parts(LengthIn(m)')}
                                         /\ packets'[m].recieved_v \subseteq 0..Parts(LengthIn(m)') - 1
                         /\ ~Taken(m)' => packets'[m].count = 0
        BY DEF Marks
    <2>1. CASE m = k
        BY <1>1, <1>2, <1>3, <1>5, <1>6, <2>1 DEF n
    <2>2. CASE m # k
        <3>1. /\ packets[m].received = Cardinality(packets[m].recieved_v)
              /\ Taken(m) => /\ packets[m].id < splitid
                             /\ packets[m].count \in {0, Parts(LengthIn(m))}
                             /\ packets[m].recieved_v \subseteq 0..Parts(LengthIn(m)) - 1
              /\ ~Taken(m) => packets[m].count = 0
            BY DEF IInv, Marks
        <3>. QED  BY <1>2, <1>5, <1>7, <2>2, <3>1
    <2>. QED  BY <2>1, <2>2
<1>10. Contents'
    <2>. SUFFICES ASSUME NEW m \in Slot, Taken(m)', LengthIn(m)' <= NET_MAX_PAYLOAD,
                         NEW j \in 0..LengthIn(m)' - 1, j \div part \in packets'[m].recieved_v
                  PROVE  packets'[m].data[j] = packets'[m].id
        BY DEF Contents
    <2>1. CASE m = k
        BY <1>3, <1>5, <1>6, <2>1
    <2>2. CASE m # k
        BY <1>5, <1>7, <2>2 DEF IInv, Contents
    <2>. QED  BY <2>1, <2>2
<1>11. Completions'
    <2>. SUFFICES ASSUME NEW m \in Slot
                  PROVE  completed'[m] =
                           IF /\ Taken(m)'
                              /\ packets'[m].recieved_v = 0..Parts(LengthIn(m)') - 1
                              /\ LengthIn(m)' <= NET_MAX_PAYLOAD
                           THEN 1 ELSE 0
        BY DEF Completions
    <2>1. CASE m = k
        BY <1>3, <1>5, <1>6, <2>1 DEF n
    <2>2. CASE m # k
        BY <1>5, <1>7, <2>2 DEF IInv, Completions
    <2>. QED  BY <2>1, <2>2
<1>12. WholeDatagram'
    <2>1. ASSUME Whole(s, p)
          PROVE  /\ Merged(s, p).id < splitid
                 /\ Merged(s, p).length = sent[Merged(s, p).id + 1]
                 /\ Merged(s, p).data = [j \in 0..Merged(s, p).length - 1 |-> Merged(s, p).id]
        <3>1. \A j \in 0..p.length - 1 : s.data[j] = p.id
            BY <1>1, <1>3, <2>1, PartOfByte DEF n
        <3>. QED  BY <1>1, <3>1 DEF Merged
    <2>. QED  BY <1>2, <2>1 DEF IInv, WholeDatagram
<1>. QED  BY <1>8, <1>9, <1>10, <1>11, <1>12 DEF IInv

LEMMA IInvStep == CountsFit /\ IInv /\ [Next]_vars => IInv'
<1>. SUFFICES ASSUME CountsFit, IInv, [Next]_vars PROVE IInv'
    OBVIOUS
<1>1. TypeOK'
    BY TypeStep DEF IInv
<1>2. ASSUME NEW length \in Lengths, SendLong(length) PROVE IInv'
    BY <1>1, <1>2, SendLongKeeps
<1>3. ASSUME NEW p \in network, GetLong(p) PROVE IInv'
    BY <1>1, <1>3, GetLongKeeps
<1>4. CASE UNCHANGED vars
    BY <1>1, <1>4 DEF vars, IInv, Headers, Marks, Contents, Completions, WholeDatagram,
                      Taken, LengthIn
<1>. QED  BY <1>2, <1>3, <1>4 DEF Next

\* If no datagram has more parts than the count's byte can say, the slots of
\* NetSplit_GetLong stay as the invariant describes them, whatever is lost,
\* repeated or reordered.
THEOREM IInvHolds ==
    ASSUME CountsFit
    PROVE  Spec => []IInv
<1>1. Init => IInv
    BY IInvInit
<1>2. IInv /\ [Next]_vars => IInv'
    BY IInvStep
<1>. QED  BY <1>1, <1>2, PTL DEF Spec

\* Under the same condition, whatever NetSplit_GetLong hands on is a datagram
\* that was sent, whole and unmixed.
THEOREM WholeDatagramHolds ==
    ASSUME CountsFit
    PROVE  Spec => []WholeDatagram
<1>1. IInv => WholeDatagram
    BY DEF IInv
<1>. QED  BY <1>1, IInvHolds, PTL

\* And it hands it on once, with its last missing part.
THEOREM CompletesWhenWholeHolds ==
    ASSUME CountsFit
    PROVE  Spec => []CompletesWhenWhole
<1>1. IInv => CompletesWhenWhole
    <2>. SUFFICES ASSUME IInv, NEW k \in Slot, packets[k].id < splitid
                  PROVE  completed[k] =
                           IF /\ packets[k].recieved_v = 0..Parts(LengthIn(k)) - 1
                              /\ LengthIn(k) <= NET_MAX_PAYLOAD
                           THEN 1 ELSE 0
        BY DEF CompletesWhenWhole, LengthIn
    <2>1. packets[k].id \in Nat
        BY DEF IInv, TypeOK
    <2>2. LengthIn(k) \in Lengths
        BY <2>1 DEF IInv, TypeOK, LengthIn
    <2>3. Parts(LengthIn(k)) \in Nat \ {0}
        BY <2>2, NetSplitAssumption, PartsType
    <2>4. 0 \in 0..Parts(LengthIn(k)) - 1
        BY <2>3
    <2>. QED  BY <2>4 DEF IInv, Completions, Taken
<1>. QED  BY <1>1, IInvHolds, PTL

\* A datagram that was handed on is not counted as lost when its slot is
\* taken over.
THEOREM OnlyUnfinishedLostHolds ==
    ASSUME CountsFit
    PROVE  Spec => OnlyUnfinishedLost
<1>1. IInv /\ [Next]_vars =>
          [\A k \in Slot : lostpackets' # lostpackets /\ packets'[k].id # packets[k].id
               => completed[k] = 0]_vars
    <2>. SUFFICES ASSUME IInv, Next, NEW k \in Slot,
                         lostpackets' # lostpackets, packets'[k].id # packets[k].id
                  PROVE  completed[k] = 0
        OBVIOUS
    <2>1. PICK p \in network : GetLong(p)
        BY DEF Next, SendLong
    <2>2. k = p.id % NETSPLIT_BACKUP /\ Lost(packets[k], p)
        BY <2>1 DEF GetLong, IInv, TypeOK
    <2>3. packets[k].received < packets[k].count
        BY <2>2 DEF Lost
    <2>4. /\ packets[k].received = Cardinality(packets[k].recieved_v)
          /\ Taken(k) => packets[k].count \in {0, Parts(LengthIn(k))}
        BY DEF IInv, Marks
    <2>5. packets[k].received \in Nat
        BY DEF IInv, TypeOK
    <2>6. SUFFICES ASSUME Taken(k), packets[k].recieved_v = 0..Parts(LengthIn(k)) - 1
                   PROVE  FALSE
        BY DEF IInv, Completions
    <2>7. packets[k].id \in Nat /\ packets[k].id < splitid
        BY <2>6 DEF IInv, TypeOK, Marks
    <2>8. Parts(LengthIn(k)) \in Nat \ {0}
        <3>1. LengthIn(k) \in Lengths
            BY <2>7 DEF IInv, TypeOK, LengthIn
        <3>. QED  BY <3>1, NetSplitAssumption, PartsType
    <2>9. packets[k].received = Parts(LengthIn(k))
        BY <2>4, <2>6, <2>8, AllMarked
    <2>. QED  BY <2>3, <2>4, <2>6, <2>8, <2>9
<1>. QED  BY <1>1, IInvHolds, PTL DEF Spec, OnlyUnfinishedLost

\* What has been sent stays what it was.
LEMMA OriginalsStay ==
    ASSUME IInv, NEW length \in Lengths, SendLong(length)
    PROVE  {Original(n) : n \in 1..Len(sent)} \subseteq {Original(n)' : n \in 1..Len(sent')}
<1>1. sent \in Seq(Lengths) /\ sent' = Append(sent, length)
    BY DEF IInv, SendLong
<1>2. Len(sent) \in Nat /\ Len(sent') = Len(sent) + 1
    BY <1>1
<1>3. \A n \in 1..Len(sent) : sent'[n] = sent[n]
    BY <1>1
<1>4. ASSUME NEW n \in 1..Len(sent)
      PROVE  Original(n)' = Original(n) /\ n \in 1..Len(sent')
    <2>1. sent'[n] = sent[n]
        BY <1>3
    <2>2. Original(n)' = [id |-> n - 1, length |-> sent'[n],
                          data |-> [j \in 0..sent'[n] - 1 |-> n - 1]]
        BY DEF Original
    <2>3. Original(n)' = Original(n)
        BY <2>1, <2>2, Zenon DEF Original
    <2>. QED  BY <1>2, <2>3
<1>. QED  BY <1>4, Zenon

\* What NetSplit_GetLong hands on is one of them.
LEMMA HandedOnIsOriginal ==
    ASSUME IInv', NEW s, NEW p, Merged(s, p) \in merged', UNCHANGED <<sent, splitid>>
    PROVE  Merged(s, p) \in {Original(n) : n \in 1..Len(sent)}
<1>. DEFINE d == Merged(s, p)
<1>1. /\ d.id < splitid /\ d.length = sent[d.id + 1]
      /\ d.data = [j \in 0..d.length - 1 |-> d.id]
    BY DEF IInv, WholeDatagram
<1>2. d.id \in Nat /\ Len(sent) = splitid /\ splitid \in Nat
    BY DEF IInv, TypeOK
<1>3. d = [id |-> d.id, length |-> d.length, data |-> d.data]
    BY DEF Merged
<1>4. d.id + 1 \in 1..Len(sent) /\ (d.id + 1) - 1 = d.id
    BY <1>1, <1>2
<1>5. d = Original(d.id + 1)
    <2>. HIDE DEF d
    <2>. QED  BY <1>1, <1>3, <1>4 DEF Original
<1>. QED  BY <1>4, <1>5

\* Under the same condition, netsplit gives the channel above a network of whole
\* datagrams: it implements DatagramService.
THEOREM ServesDatagramsHolds ==
    ASSUME CountsFit
    PROVE  Spec => ServesDatagrams
<1>. DEFINE originals == {Original(n) : n \in 1..Len(sent)}
<1>1. Init => Service!Init
    BY DEF Init, Service!Init
<1>2. IInv /\ IInv' /\ [Next]_vars => [Service!Next]_<<originals, merged>>
    <2>. SUFFICES ASSUME IInv, IInv', [Next]_vars
                  PROVE  [Service!Next]_<<originals, merged>>
        OBVIOUS
    <2>1. ASSUME NEW length \in Lengths, SendLong(length)
          PROVE  Service!Send
        BY <2>1, OriginalsStay DEF SendLong, Service!Send
    <2>2. ASSUME NEW p \in network, GetLong(p)
          PROVE  [Service!Deliver]_<<originals, merged>>
        <3>. DEFINE s == Store(Claim(packets[p.id % NETSPLIT_BACKUP], p), p)
        <3>1. UNCHANGED <<sent, splitid>> /\ UNCHANGED originals
            BY <2>2 DEF GetLong, Original
        <3>2. CASE Whole(s, p)
            <4>1. merged' = merged \cup {Merged(s, p)}
                BY <2>2, <3>2 DEF GetLong
            <4>2. Merged(s, p) \in originals
                BY <3>1, <4>1, HandedOnIsOriginal
            <4>. QED  BY <3>1, <4>1, <4>2 DEF Service!Deliver
        <3>3. CASE ~Whole(s, p)
            BY <2>2, <3>1, <3>3 DEF GetLong
        <3>. QED  BY <3>2, <3>3
    <2>3. CASE UNCHANGED vars
        BY <2>3 DEF vars, Original
    <2>. QED  BY <2>1, <2>2, <2>3 DEF Next, Service!Next
<1>3. Spec => []IInv
    BY IInvHolds
<1>. QED  BY <1>1, <1>2, <1>3, PTL DEF Spec, ServesDatagrams, Service!Spec

=============================================================================
