--------------------------- MODULE PlayFrameProofs ---------------------------
(***************************************************************************)
(* Proof that the frames the client takes for good are those the server    *)
(* sent.                                                                   *)
(***************************************************************************)
EXTENDS PlayFrames, PlayProofs

-----------------------------------------------------------------------------
(* Numbers on the wire. *)

LEMMA Quotient ==
    ASSUME NEW x \in Int, NEW d \in Nat \ {0}
    PROVE  /\ x % d \in 0..d - 1
           /\ \E q \in Int : x = d * q + (x % d)
<1>1. x % d \in 0..d - 1
  BY SMTT(30)
<1>2. d > 0 /\ d \in Nat
  OBVIOUS
<1>3. x \div d \in Int /\ x % d = x - d * (x \div d)
  BY <1>2, Division
<1>4. \A q, r \in Int : r = x - d * q => x = d * q + r
  BY SMTT(30)
<1>5. x = d * (x \div d) + (x % d)
  BY <1>1, <1>3, <1>4
<1> QED
  BY <1>1, <1>3, <1>5

LEMMA RemainderOf ==
    ASSUME NEW d \in Nat \ {0}, NEW q \in Int, NEW r \in 0..d - 1, NEW x \in Int, x = d * q + r
    PROVE  x % d = r
<1> DEFINE s == x % d
<1>1. s \in 0..d - 1
  BY Quotient
<1>2. PICK t \in Int : x = d * t + s
  BY Quotient
<1> HIDE DEF s
<1> DEFINE p == q - t
<1>3. p \in Int /\ s - r = d * p
  BY <1>1, <1>2, SMTT(30)
<1> HIDE DEF p
<1>4. CASE p = 0
  BY <1>1, <1>3, <1>4 DEF s
<1>5. CASE p >= 1
  <2>1. d * p >= d
    BY <1>3, <1>5, SMTT(30)
  <2> QED
    BY <1>1, <1>3, <2>1
<1>6. CASE p <= -1
  <2>1. d * p <= -d
    BY <1>3, <1>6, SMTT(30)
  <2> QED
    BY <1>1, <1>3, <2>1
<1> QED
  BY <1>3, <1>4, <1>5, <1>6

LEMMA RingInByte ==
    /\ UpdateBackup <= ByteValues
    /\ \E k \in Int : ByteValues = UpdateBackup * k
<1> DEFINE R == UpdateBackup
           B == ByteValues
<1>1. R \in Nat \ {0, 1} /\ B \in Nat \ {0} /\ B % R = 0
  BY Parameters, RingsFit
<1>2. B \div R \in Int /\ B = R * (B \div R)
  BY <1>1, Division
<1>3. ~(B < R)
  <2> SUFFICES ASSUME B < R PROVE FALSE
    OBVIOUS
  <2>1. B \in 0..R - 1 /\ B = R * 0 + B
    BY <1>1
  <2>2. B % R = B
    BY <1>1, <2>1, RemainderOf
  <2> QED
    BY <1>1, <2>2
<1> QED
  BY <1>1, <1>2, <1>3

\* A byte is enough to find a frame's slot.
LEMMA ByteSlot ==
    ASSUME NEW n \in Nat
    PROVE  Slot(n % ByteValues) = Slot(n)
<1> DEFINE R == UpdateBackup
           B == ByteValues
           b == n % B
           r == n % R
<1>1. R \in Nat \ {0} /\ B \in Nat \ {0} /\ n \in Int
  BY Parameters
<1>2. PICK k \in Int : B = R * k
  BY RingInByte
<1>3. b \in Int /\ r \in 0..R - 1
  <2>1. b \in 0..B - 1 /\ r \in 0..R - 1
    BY <1>1, Quotient
  <2> QED
    BY <1>1, <2>1
<1>4. PICK p \in Int : n = B * p + b
  BY <1>1, Quotient
<1>5. PICK t \in Int : n = R * t + r
  BY <1>1, Quotient
<1> HIDE DEF R, B, b, r
<1> DEFINE q == t - k * p
<1>6. q \in Int /\ b = R * q + r
  <2>1. k * p \in Int
    OBVIOUS
  <2>2. B * p = R * (k * p)
    BY <1>1, <1>2, SMTT(30)
  <2>3. R * q = R * t - R * (k * p)
    BY <1>1, <2>1, SMTT(30)
  <2> QED
    BY <1>1, <1>3, <1>4, <1>5, <2>1, <2>2, <2>3, SMTT(30)
<1> HIDE DEF q
<1>7. b % R = r
  BY <1>1, <1>3, <1>6, RemainderOf
<1> QED
  BY <1>7 DEF Slot, R, B, b, r

\* ... and to tell how long ago it was, up to its range.
LEMMA ByteApart ==
    ASSUME NEW m \in Nat, NEW n \in Nat, m < n, n - m < ByteValues
    PROVE  ((n % ByteValues) - (m % ByteValues)) % ByteValues = n - m
<1> DEFINE B == ByteValues
           a == m % B
           b == n % B
<1>1. B \in Nat \ {0} /\ m \in Int /\ n \in Int
  BY Parameters
<1>2. a \in Int /\ b \in Int /\ n - m \in 0..B - 1
  <2>1. a \in 0..B - 1 /\ b \in 0..B - 1
    BY <1>1, Quotient
  <2> QED
    BY <1>1, <2>1
<1>3. PICK p \in Int : m = B * p + a
  BY <1>1, Quotient
<1>4. PICK t \in Int : n = B * t + b
  BY <1>1, Quotient
<1> HIDE DEF B, a, b
<1> DEFINE q == p - t
<1>5. q \in Int /\ b - a \in Int /\ b - a = B * q + (n - m)
  <2>1. B * q = B * p - B * t
    BY <1>1, SMTT(30)
  <2> QED
    BY <1>1, <1>2, <1>3, <1>4, <2>1, SMTT(30)
<1> DEFINE x == b - a
           r == n - m
<1>6. q \in Int /\ x \in Int /\ r \in 0..B - 1 /\ x = B * q + r
  BY <1>2, <1>5
<1> HIDE DEF x, r
<1>7. x % B = r
  BY <1>1, <1>6, RemainderOf
<1>8. x = (n % ByteValues) - (m % ByteValues)
  BY DEF x, B, a, b
<1> QED
  BY <1>7, <1>8 DEF B, r

-----------------------------------------------------------------------------
(* What the rings hold. *)

LEMMA FrameTypes ==
    ASSUME TypeOK
    PROVE  /\ incoming \in Nat /\ validsequence \in Nat /\ sv_outgoing \in Nat /\ outrun \in 0..2
           /\ sv_outgoing >= 1 /\ NoDelta = -1
           /\ delta_sequence \in Nat \cup {NoDelta} /\ (delta_sequence \in Nat => delta_sequence # 0)
           /\ UpdateBackup \in Nat \ {0, 1} /\ ByteValues \in Nat \ {0} /\ MaxFrames \in Nat
BY Parameters DEF TypeOK, NoDelta

LEMMA NumberFacts ==
    ASSUME NEW d \in Nat
    PROVE  /\ d # NoDelta /\ Byte(d) = d % ByteValues /\ Byte(d) # NoDelta /\ Byte(d) \in Nat
           /\ Slot(Byte(d)) = Slot(d) /\ Slot(d) \in Rings
<1>1. d # NoDelta /\ Byte(d) = d % ByteValues
  BY DEF Byte, NoDelta
<1>2. Byte(d) \in Nat
  <2>1. ByteValues \in Nat \ {0}
    BY Parameters
  <2>2. d % ByteValues \in 0..ByteValues - 1
    BY <2>1, Quotient
  <2> QED
    BY <1>1, <2>1, <2>2
<1>3. Byte(d) # NoDelta
  BY <1>2 DEF NoDelta
<1> QED
  BY <1>1, <1>2, <1>3, ByteSlot, SlotType

\* What is held stays so while the client receives nothing.
LEMMA HeldKept ==
    ASSUME TypeOK, TypeOK', UNCHANGED <<incoming, frames>>, outrun' >= outrun,
           NEW d, Held(d)
    PROVE  Held(d)'
<1>1. outrun \in Int /\ outrun' \in Int
  BY SMTT(30) DEF TypeOK
<1> QED
  BY <1>1 DEF Held, Slot

LEMMA UpdateKept ==
    ASSUME TypeOK, TypeOK', outrun' >= outrun, sv_outgoing' >= sv_outgoing,
           \A d \in Nat : Held(d) => Held(d)',
           NEW u \in updates, UpdateRight(u)
    PROVE  UpdateRight(u)'
<1>1. /\ outrun \in Int /\ outrun' \in Int /\ sv_outgoing \in Int /\ sv_outgoing' \in Int
      /\ u.seq \in Nat
  BY SMTT(30), Parameters DEF TypeOK, Update
<1>2. CASE u.data = NoDelta /\ u.ents = NoDelta
  BY <1>1, <1>2 DEF UpdateRight
<1>3. ASSUME NEW d \in 1..u.seq - 1, DifferenceTo(u, d)
      PROVE  DifferenceTo(u, d)'
  <2>1. Held(d)'
    BY <1>1, <1>3 DEF DifferenceTo
  <2> QED
    BY <1>1, <1>3, <2>1 DEF DifferenceTo, Byte
<1> QED
  BY <1>1, <1>2, <1>3 DEF UpdateRight

LEMMA MoveHeld ==
    ASSUME TypeOK, FrameInv, NEW m \in moves, m.delta # NoDelta
    PROVE  m.delta \in Nat /\ Held(m.delta)
<1>1. MoveOK(m)
  BY DEF TypeOK
<1>2. m.delta \in Nat
  BY <1>1, Parameters DEF MoveOK
<1>3. Held(m.delta)
  BY DEF FrameInv
<1> QED
  BY <1>2, <1>3

LEMMA InitFrames ==
    ASSUME Init
    PROVE  FrameInv
BY DEF Init, FrameInv, ServerRing

-----------------------------------------------------------------------------
(* Action by action. *)

LEMMA CommandsFrames ==
    ASSUME TypeOK, TypeOK', FrameInv, MayForget,
           \A m \in moves' : m \in moves \/ m = Move,
           UNCHANGED <<incoming, frames, updates, sv_outgoing, sv_frames, outrun, delta_sequence>>
    PROVE  FrameInv'
<1>1. outrun' >= outrun /\ sv_outgoing' >= sv_outgoing
  BY DEF TypeOK
<1>2. \A d \in Nat : Held(d) => Held(d)'
  BY <1>1, HeldKept
<1>3. validsequence' # 0 => validsequence' = validsequence /\ validsequence \in Nat
  BY Parameters DEF MayForget, TypeOK
<1>4. validsequence' # 0 => validsequence' = incoming' /\ Held(validsequence)'
  BY <1>2, <1>3 DEF FrameInv, Held
<1>5. \A m \in moves' : m.delta # NoDelta => Held(m.delta)'
  <2> SUFFICES ASSUME NEW m \in moves', m.delta # NoDelta PROVE Held(m.delta)'
    OBVIOUS
  <2>1. CASE m \in moves
    <3>1. m.delta \in Nat /\ Held(m.delta)
      BY <2>1, MoveHeld
    <3> QED
      BY <1>2, <3>1
  <2>2. CASE m = Move
    <3>1. m.delta = validsequence' /\ validsequence' # 0
      BY <2>2 DEF Move
    <3> QED
      BY <1>4, <3>1 DEF Held
  <2> QED
    BY <2>1, <2>2
<1>6. delta_sequence' # NoDelta => Held(delta_sequence)'
  BY <1>2, FrameTypes DEF FrameInv, Held
<1>7. \A u \in updates' : UpdateRight(u)'
  BY <1>1, <1>2, UpdateKept DEF FrameInv
<1>8. ServerRing' /\ incoming' < sv_outgoing'
  BY DEF FrameInv, ServerRing, Slot
<1> QED
  BY <1>4, <1>5, <1>6, <1>7, <1>8 DEF FrameInv

LEMMA ParseMoveFrames ==
    ASSUME TypeOK, TypeOK', FrameInv, NEW m \in moves, ParseMove(m)
    PROVE  FrameInv'
<1>1. /\ UNCHANGED <<incoming, frames, validsequence, updates, sv_outgoing, sv_frames, outrun>>
      /\ moves' \subseteq moves
      /\ delta_sequence' \in {delta_sequence, m.delta}
  BY DEF ParseMove, frameVars, sendVars
<1>2. outrun' >= outrun /\ sv_outgoing' >= sv_outgoing
  BY <1>1 DEF TypeOK
<1>3. \A d \in Nat : Held(d) => Held(d)'
  BY <1>1, <1>2, HeldKept
<1>4. validsequence' # 0 => validsequence' = incoming' /\ Held(validsequence)'
  BY <1>1, <1>3, FrameTypes DEF FrameInv, Held
<1>5. ASSUME NEW p \in moves, p.delta # NoDelta PROVE Held(p.delta)'
  <2>1. p.delta \in Nat /\ Held(p.delta)
    BY <1>5, MoveHeld
  <2> QED
    BY <1>3, <2>1
<1>6. delta_sequence' # NoDelta => Held(delta_sequence)'
  <2>1. CASE delta_sequence' = m.delta
    BY <1>5, <2>1 DEF Held
  <2>2. CASE delta_sequence' = delta_sequence
    BY <1>3, <2>2, FrameTypes DEF FrameInv, Held
  <2> QED
    BY <1>1, <2>1, <2>2
<1>7. \A u \in updates' : UpdateRight(u)'
  BY <1>1, <1>2, <1>3, UpdateKept DEF FrameInv
<1>8. ServerRing' /\ incoming' < sv_outgoing'
  BY <1>1 DEF FrameInv, ServerRing, Slot
<1> QED
  BY <1>1, <1>4, <1>5, <1>6, <1>7, <1>8 DEF FrameInv

\* A frame is sent as a difference to what the ring holds after it has taken its slot.
LEMMA ServerRingKept ==
    ASSUME TypeOK, ServerRing, NEW first \in Nat, sv_outgoing' = sv_outgoing + 1,
           sv_frames' = [sv_frames EXCEPT ![Slot(sv_outgoing)] = [id |-> sv_outgoing, first |-> first]]
    PROVE  ServerRing'
<1>1. sv_outgoing \in Nat /\ Slot(sv_outgoing) \in Rings /\ UpdateBackup \in Nat
  BY FrameTypes, NumberFacts
<1>2. ASSUME NEW n \in 1..sv_outgoing, n >= sv_outgoing + 1 - UpdateBackup
      PROVE  sv_frames'[Slot(n)].id = n
  <2>1. n \in Int /\ n \in Nat /\ Slot(n) \in Rings
    BY NumberFacts
  <2>2. CASE n = sv_outgoing
    BY <1>1, <2>2 DEF TypeOK
  <2>3. CASE n < sv_outgoing
    <3>1. Slot(n) # Slot(sv_outgoing)
      BY <1>1, <1>2, <2>1, <2>3, SlotsDiffer
    <3>2. sv_frames[Slot(n)].id = n
      BY <1>1, <1>2, <2>3 DEF ServerRing
    <3>3. sv_frames'[Slot(n)] = sv_frames[Slot(n)]
      BY <1>1, <2>1, <3>1 DEF TypeOK
    <3> QED
      BY <3>2, <3>3
  <2> QED
    BY <1>1, <2>2, <2>3
<1>3. \A n \in 1..sv_outgoing' - 1 :
         n >= sv_outgoing' - UpdateBackup => n \in 1..sv_outgoing /\ n >= sv_outgoing + 1 - UpdateBackup
  BY <1>1
<1> QED
  BY <1>2, <1>3 DEF ServerRing, Slot

LEMMA SendFrames ==
    ASSUME TypeOK, TypeOK', FrameInv, SendClientDatagram
    PROVE  FrameInv'
<1>1. PICK n \in Sizes, k \in Others :
        LET to   == [id |-> sv_outgoing, first |-> sv_next_entity + k]
            next == sv_next_entity + k + n
            base == Byte(delta_sequence)
            from == sv_frames'[BaseSlot]
        IN  /\ sv_frames' = [sv_frames EXCEPT ![Slot(sv_outgoing)] = to]
            /\ sv_next_entity' = next
            /\ updates' = OnTheWay(updates, sv_outgoing, UpdatesOnTheWay) \cup
                  {[seq  |-> sv_outgoing, num |-> n,
                    from |-> from.id, data |-> base,
                    ents |-> IF OutOfDate(from, next) THEN NoDelta ELSE base]}
  BY DEF SendClientDatagram
<1>base. PICK d, from : d = delta_sequence /\ from = sv_frames'[BaseSlot]
  OBVIOUS
<1>sent. PICK u : /\ u.seq = sv_outgoing /\ u.data = Byte(d) /\ u.ents \in {NoDelta, Byte(d)}
               /\ u.from = from.id
               /\ updates' = OnTheWay(updates, sv_outgoing, UpdatesOnTheWay) \cup {u}
  <2> DEFINE ents == IF OutOfDate(from, sv_next_entity + k + n) THEN NoDelta ELSE Byte(d)
             sent == [seq |-> sv_outgoing, num |-> n, from |-> from.id,
                      data |-> Byte(d), ents |-> ents]
  <2>1. updates' = OnTheWay(updates, sv_outgoing, UpdatesOnTheWay) \cup {sent}
    BY <1>base, <1>1
  <2>2. /\ sent.seq = sv_outgoing /\ sent.data = Byte(d) /\ sent.ents \in {NoDelta, Byte(d)}
        /\ sent.from = from.id
    OBVIOUS
  <2> HIDE DEF sent
  <2> QED
    BY <2>1, <2>2
<1>2. /\ UNCHANGED <<incoming, frames, validsequence, delta_sequence, moves>>
      /\ sv_outgoing' = sv_outgoing + 1
      /\ outrun' = IF Outruns > outrun THEN Outruns ELSE outrun
      /\ \A p \in updates' : p \in updates \/ p = u
  BY <1>sent DEF SendClientDatagram, frameVars, runVars, OnTheWay
<1>3. /\ sv_outgoing \in Nat /\ incoming \in Nat /\ outrun \in 0..2 /\ outrun' \in 0..2
      /\ UpdateBackup \in Nat /\ ByteValues \in Nat
      /\ d \in Nat \cup {NoDelta}
  BY <1>base, FrameTypes DEF TypeOK
<1>4. ServerRing'
  <2>1. sv_next_entity + k \in Nat
    BY Parameters DEF TypeOK
  <2> QED
    BY <1>1, <1>2, <2>1, ServerRingKept DEF FrameInv
<1>5. Outruns \in 0..2 /\ outrun' >= Outruns /\ outrun' >= outrun
  BY <1>base, <1>2, <1>3 DEF Outruns
<1>6. \A j \in Nat : Held(j) => Held(j)'
  BY <1>2, <1>5, HeldKept
<1>7. UpdateRight(u)'
  <2>2. CASE d = NoDelta
    <3>1. Byte(d) = NoDelta
      BY <2>2 DEF Byte
    <3>2. u.seq < sv_outgoing'
      BY <1>2, <1>3, <1>sent
    <3> QED
      BY <1>sent, <3>1, <3>2 DEF UpdateRight
  <2>3. CASE d # NoDelta
    <3>1. d \in Nat /\ Held(d) /\ d \in 1..incoming
      BY <1>base, <1>3, <2>3 DEF FrameInv, Held
    <3>2. d \in 1..sv_outgoing - 1
      BY <1>3, <3>1 DEF FrameInv
    <3>3. outrun' < 2 => sv_outgoing - d < ByteValues
      BY <1>3, <1>5, <2>3, <3>1, <1>base, RingInByte DEF Outruns
    <3>4. outrun' < 1 => sv_outgoing - d < UpdateBackup
      BY <1>3, <1>5, <2>3, <3>1, <1>base DEF Outruns
    <3>5. sv_outgoing - d < UpdateBackup => from.id = d
      <4>1. from = sv_frames'[Slot(d)]
        BY <1>base, <3>1, NumberFacts DEF BaseSlot
      <4>2. sv_outgoing - d < UpdateBackup =>
               d \in 1..sv_outgoing' - 1 /\ d >= sv_outgoing' - UpdateBackup
        BY <1>2, <1>3, <3>1, <3>2
      <4> QED
        BY <1>4, <4>1, <4>2 DEF ServerRing, Slot
    <3>6. Held(d)'
      BY <1>2, <1>6, <3>1 DEF Held
    <3>7. DifferenceTo(u, d)'
      BY <1>2, <1>sent, <3>3, <3>4, <3>5, <3>6 DEF DifferenceTo, Byte, Held
    <3>8. u.seq < sv_outgoing' /\ d \in 1..u.seq - 1
      BY <1>2, <1>3, <1>sent, <3>2
    <3> QED
      BY <1>2, <3>7, <3>8 DEF UpdateRight, DifferenceTo, Held
  <2> QED
    BY <2>2, <2>3
<1>8. \A p \in updates' : UpdateRight(p)'
  <2>1. \A p \in updates : UpdateRight(p)'
    BY <1>2, <1>3, <1>5, <1>6, UpdateKept DEF FrameInv
  <2> QED
    BY <1>2, <1>7, <2>1
<1>9. \A m \in moves' : m.delta # NoDelta => Held(m.delta)'
  <2> SUFFICES ASSUME NEW m \in moves, m.delta # NoDelta PROVE Held(m.delta)'
    BY <1>2
  <2>1. m.delta \in Nat /\ Held(m.delta)
    BY MoveHeld
  <2> QED
    BY <1>6, <2>1
<1>10. delta_sequence' # NoDelta => Held(delta_sequence)'
  BY <1>2, <1>6, FrameTypes DEF FrameInv, Held
<1>11. validsequence' # 0 => validsequence' = incoming' /\ Held(validsequence)'
  BY <1>2, <1>6, FrameTypes DEF FrameInv, Held
<1>12. incoming' < sv_outgoing'
  BY <1>2, <1>3 DEF FrameInv
<1> QED
  BY <1>4, <1>8, <1>9, <1>10, <1>11, <1>12 DEF FrameInv

\* A frame's slot is not used again before as many frames have come as there are.
LEMMA ReceiveHeld ==
    ASSUME TypeOK, TypeOK', NEW u \in updates, Receive(u), NEW ents, Frame(u, ents),
           NEW d \in Nat, Held(d)
    PROVE  Held(d)'
<1>1. /\ u.seq \in Nat /\ incoming \in Nat /\ UpdateBackup \in Nat
      /\ incoming' = u.seq /\ u.seq > incoming /\ outrun' = outrun
  BY Parameters DEF TypeOK, Update, Receive, sendVars
<1>2. d \in 1..incoming
  BY DEF Held
<1>3. ASSUME incoming' < d + UpdateBackup
      PROVE  /\ outrun' < 2 /\ frames'[Slot(d)].short => frames'[Slot(d)].ents = d
             /\ outrun' < 1 => frames'[Slot(d)].data = d
  <2>1. Slot(d) # Slot(u.seq) /\ Slot(d) \in Rings
    BY <1>1, <1>2, <1>3, SlotsDiffer, NumberFacts
  <2>2. frames'[Slot(d)] = frames[Slot(d)]
    BY <2>1 DEF Frame, TypeOK
  <2>3. incoming < d + UpdateBackup
    BY <1>1, <1>3
  <2> QED
    BY <1>1, <2>2, <2>3 DEF Held
<1> QED
  BY <1>1, <1>2, <1>3 DEF Held, Slot

LEMMA ReceiveFrames ==
    ASSUME TypeOK, TypeOK', FrameInv, NEW u \in updates, Receive(u), NEW ents, Frame(u, ents),
           validsequence' # 0 => validsequence' = incoming' /\ Held(validsequence)'
    PROVE  FrameInv'
<1>1. /\ UNCHANGED <<delta_sequence, moves, sv_outgoing, sv_frames, outrun>>
      /\ updates' \subseteq updates /\ incoming' = u.seq
  BY DEF Receive, runVars, sendVars
<1>2. \A d \in Nat : Held(d) => Held(d)'
  BY ReceiveHeld
<1>3. outrun' >= outrun /\ sv_outgoing' >= sv_outgoing
  BY <1>1 DEF TypeOK
<1>4. \A p \in updates' : UpdateRight(p)'
  BY <1>1, <1>2, <1>3, UpdateKept DEF FrameInv
<1>5. \A m \in moves' : m.delta # NoDelta => Held(m.delta)'
  <2> SUFFICES ASSUME NEW m \in moves, m.delta # NoDelta PROVE Held(m.delta)'
    BY <1>1
  <2>1. m.delta \in Nat /\ Held(m.delta)
    BY MoveHeld
  <2> QED
    BY <1>2, <2>1
<1>6. delta_sequence' # NoDelta => Held(delta_sequence)'
  BY <1>1, <1>2, FrameTypes DEF FrameInv, Held
<1>7. incoming' < sv_outgoing' /\ ServerRing'
  BY <1>1 DEF FrameInv, UpdateRight, ServerRing, Slot
<1> QED
  BY <1>4, <1>5, <1>6, <1>7 DEF FrameInv

\* What is made of an update that is not too old is the frame that was sent: what is
\* kept clear is enough for the entities of a short one.
LEMMA RightFrame ==
    ASSUME TypeOK, FrameInv, NEW u \in updates, u.seq > incoming, ~TooOld(u)
    PROVE  /\ outrun < 2 /\ Short(u) => Entities(u) = {u.seq}
           /\ outrun < 1 => ClientData(u) = u.seq
<1>1. /\ u.seq \in Nat /\ incoming \in Nat /\ u.num \in Nat /\ UpdateRight(u)
      /\ UpdateBackup \in Nat \ {0, 1} /\ ByteValues \in Nat \ {0}
      /\ ClientEntities \in Nat /\ Margin \in Nat /\ next_entity \in Nat
  <2>1. u \in Update /\ UpdateRight(u) /\ incoming \in Nat /\ next_entity \in Nat
    BY Parameters DEF TypeOK, FrameInv
  <2>2. u.seq \in 1..MaxFrames /\ u.num \in Sizes
    BY <2>1 DEF Update
  <2>3. Sizes \subseteq Nat /\ ClientEntities \in Nat /\ Margin \in Nat
    BY PlayAssumption
  <2>4. u.seq \in Nat
    BY <2>2, Parameters
  <2> QED
    BY <2>1, <2>2, <2>3, <2>4, Parameters
<1>2. CASE u.data = NoDelta /\ u.ents = NoDelta
  BY <1>2 DEF Entities, ClientData
<1>3. ASSUME NEW d \in 1..u.seq - 1, DifferenceTo(u, d)
      PROVE  /\ outrun < 2 /\ Short(u) => Entities(u) = {u.seq}
             /\ outrun < 1 => ClientData(u) = u.seq
  <2>1. /\ d \in Nat /\ d \in 1..incoming /\ u.data = Byte(d) /\ u.ents \in {NoDelta, Byte(d)}
        /\ u.data # NoDelta /\ Slot(Byte(d)) = Slot(d) /\ Slot(d) \in Rings
    BY <1>1, <1>3, NumberFacts DEF DifferenceTo, Held
  <2>2. u.seq - d < UpdateBackup => u.from = d /\ incoming < d + UpdateBackup
    BY <1>1, <1>3, <2>1 DEF DifferenceTo
  <2>3. outrun < 1 => ClientData(u) = u.seq
    BY <1>3, <2>1, <2>2 DEF DifferenceTo, Held, ClientData, Decoded
  <2>4. CASE u.ents = NoDelta
    BY <2>3, <2>4 DEF Entities
  <2>5. CASE u.ents # NoDelta
    <3>1. u.ents = Byte(d)
      BY <2>1, <2>5
    <3>2. ASSUME outrun < 2 PROVE u.seq - d < UpdateBackup
      <4>1. u.seq - d < ByteValues
        BY <1>3, <3>2 DEF DifferenceTo
      <4>2. Subtracted(u) = ((u.seq % ByteValues) - (d % ByteValues)) % ByteValues
        BY <1>1, <2>1, <3>1, NumberFacts DEF Subtracted
      <4>3. Subtracted(u) = u.seq - d
        <5>1. d < u.seq
          BY <1>1, <2>1
        <5> QED
          BY <1>1, <2>1, <4>1, <4>2, <5>1, ByteApart
      <4> QED
        BY <1>1, <2>1, <2>5, <4>3 DEF TooOld
    <3>3. Short(u) => Intact(frames[Slot(u.ents)], u) /\ frames[Slot(u.ents)].short
      <4>1. ~RolledOff(frames[Slot(u.ents)])
        BY <2>5 DEF TooOld
      <4>2. frames[Slot(u.ents)].first \in Nat
        BY <2>1, <3>1 DEF TypeOK
      <4> QED
        BY <1>1, <2>5, <4>1, <4>2 DEF RolledOff, Intact, Short
    <3>4. outrun < 2 /\ Short(u) => Entities(u) = {u.seq}
      BY <1>3, <2>1, <2>2, <2>5, <3>1, <3>2, <3>3 DEF DifferenceTo, Held, Entities, Decoded
    <3> QED
      BY <2>3, <3>4
  <2> QED
    BY <2>4, <2>5
<1> QED
  BY <1>1, <1>2, <1>3 DEF UpdateRight

LEMMA ParsePacketEntitiesFrames ==
    ASSUME TypeOK, TypeOK', FrameInv, NEW u \in updates, ParsePacketEntities(u)
    PROVE  FrameInv'
<1>1. /\ Receive(u) /\ ~TooOld(u)
      /\ validsequence' = u.seq /\ incoming' = u.seq /\ u.seq > incoming /\ outrun' = outrun
  BY DEF ParsePacketEntities, Receive, sendVars
<1>ents. PICK ents \in Entities(u) : Frame(u, ents)
  BY DEF ParsePacketEntities
<1>2. u.seq \in Nat /\ u.seq # 0 /\ Slot(u.seq) \in Rings
  <2>1. u \in Update
    BY DEF TypeOK
  <2>2. u.seq \in Nat /\ u.seq # 0
    BY <2>1, Parameters DEF Update
  <2> QED
    BY <2>2, NumberFacts
<1>3. frames'[Slot(u.seq)] = [ents |-> ents, data |-> ClientData(u), first |-> next_entity,
                              short |-> Short(u)]
  BY <1>ents, <1>2 DEF Frame, TypeOK
<1>4. /\ outrun < 2 /\ Short(u) => ents = u.seq
      /\ outrun < 1 => ClientData(u) = u.seq
  BY <1>1, <1>ents, RightFrame
<1>5. Held(validsequence)'
  BY <1>1, <1>2, <1>3, <1>4 DEF Held, Slot
<1> QED
  BY <1>1, <1>ents, <1>5, ReceiveFrames

LEMMA NextFrames ==
    ASSUME TypeOK, TypeOK', FrameInv, [Next]_vars
    PROVE  FrameInv'
<1>1. CASE WritePacket \/ HoldBack
  <2>1. /\ MayForget /\ \A m \in moves' : m \in moves \/ m = Move
        /\ UNCHANGED <<incoming, frames, updates, sv_outgoing, sv_frames, outrun, delta_sequence>>
    BY <1>1 DEF WritePacket, HoldBack, OnTheWay, runVars, sendVars
  <2> QED
    BY <2>1, CommandsFrames
<1>2. ASSUME NEW m \in moves, ParseMove(m) PROVE FrameInv'
  BY <1>2, ParseMoveFrames
<1>3. CASE SendClientDatagram
  BY <1>3, SendFrames
<1>4. ASSUME NEW u \in updates, Flush(u) PROVE FrameInv'
  <2>1. Receive(u) /\ Frame(u, None) /\ validsequence' = 0
    BY <1>4 DEF Flush
  <2> QED
    BY <2>1, ReceiveFrames
<1>5. ASSUME NEW u \in updates, ParsePacketEntities(u) PROVE FrameInv'
  BY <1>5, ParsePacketEntitiesFrames
<1>6. CASE UNCHANGED vars
  BY <1>6 DEF vars, cmdVars, frameVars, runVars, sendVars, FrameInv, ServerRing, Slot, UpdateRight,
              DifferenceTo, Held, Byte
<1> QED
  BY <1>1, <1>2, <1>3, <1>4, <1>5, <1>6 DEF Next

-----------------------------------------------------------------------------
THEOREM FrameInvHolds == Spec => []FrameInv
<1>1. Init => FrameInv
  BY InitFrames
<1>2. TypeOK /\ TypeOK' /\ FrameInv /\ [Next]_vars => FrameInv'
  BY NextFrames
<1> QED
  BY <1>1, <1>2, TypeCorrect, PTL DEF Spec

\* The entities the client takes for a good frame are those the server sent it
\* (CL_ParsePacketEntities, CL_DeltaEntity), whatever updates and claims were
\* lost or came late, unless a difference was to a frame so old that its number
\* came round again, or the frame came of a difference with more entities than the
\* client keeps clear of the base (128 in CL_ParsePacketEntities).
THEOREM EntitiesRightHolds == Spec => []EntitiesRight
<1>1. TypeOK /\ FrameInv => EntitiesRight
  BY FrameTypes DEF FrameInv, EntitiesRight, Held
<1> QED
  BY <1>1, TypeCorrect, FrameInvHolds, PTL

\* So is its client data, for which the client makes no check of the age
\* (CL_ParseClientData), unless a difference was to a frame that the server's
\* ring no longer held.
THEOREM ClientDataRightHolds == Spec => []ClientDataRight
<1>1. TypeOK /\ FrameInv => ClientDataRight
  BY FrameTypes DEF FrameInv, ClientDataRight, Held
<1> QED
  BY <1>1, TypeCorrect, FrameInvHolds, PTL

=============================================================================
