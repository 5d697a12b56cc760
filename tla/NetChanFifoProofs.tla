-------------------------- MODULE NetChanFifoProofs --------------------------
(***************************************************************************)
(* Proofs that reliable data reaches the peer's parser in order and        *)
(* exactly once, whether it travels as a message, as fragments or          *)
(* re-queued, and that files arrive as they were sent.                     *)
(***************************************************************************)
EXTENDS NetChanPipes, NetChanChainProofs

-----------------------------------------------------------------------------
(* Sequences one after the other. *)

LEMMA ConcatFacts ==
    ASSUME NEW S
    PROVE  /\ <<>> \in Seq(S)
           /\ \A a \in Seq(S) : a \o <<>> = a /\ <<>> \o a = a
           /\ \A a, b \in Seq(S) : a \o b \in Seq(S)
           /\ \A a, b, c \in Seq(S) : (a \o b) \o c = a \o (b \o c)
BY EmptySeq, ConcatEmptySeq, ConcatProperties, ConcatAssociative

\* The same, for data.
LEMMA DataConcat == \A a, b \in Seq(DataUnit) : a \o b \in Seq(DataUnit)
BY ConcatProperties

LEMMA Rebracket3 ==
    \A a, b, c \in Seq(DataUnit) : (a \o b) \o c = a \o (b \o c)
BY ConcatAssociative

\* What Concat computes, step by step.
LEMMA ConcatSteps ==
    ASSUME NEW S, NEW seqs \in Seq(Seq(S))
    PROVE  \E u \in [0..Len(seqs) -> Seq(S)] :
              /\ u[0] = <<>> /\ \A k \in 1..Len(seqs) : u[k] = u[k - 1] \o seqs[k]
              /\ Concat(seqs) = u[Len(seqs)]
<1>. DEFINE len == Len(seqs)
            Steps(u, n) == /\ u \in [0..n -> Seq(S)] /\ u[0] = <<>>
                           /\ \A k \in 1..n : u[k] = u[k - 1] \o seqs[k]
            Possible(n) == \E u : Steps(u, n)
            T == {n \in Nat : n <= len => Possible(n)}
<1>1. len \in Nat /\ \A k \in 1..len : seqs[k] \in Seq(S)
    BY LenProperties, ElementOfSeq
<1>2. 0 \in T
    <2>1. Steps([k \in 0..0 |-> <<>>], 0)
        BY EmptySeq
    <2>. QED  BY <2>1
<1>3. ASSUME NEW n \in Nat, n + 1 <= len, Possible(n)
      PROVE  Possible(n + 1)
    <2>1. PICK u : Steps(u, n)
        BY <1>3
    <2>. DEFINE v == [k \in 0..(n + 1) |-> IF k <= n THEN u[k] ELSE u[n] \o seqs[k]]
    <2>2. n + 1 \in 1..len /\ u[n] \in Seq(S)
        BY <1>1, <1>3, <2>1
    <2>3. u[n] \o seqs[n + 1] \in Seq(S)
        BY <1>1, <2>2, ConcatProperties
    <2>4. v \in [0..(n + 1) -> Seq(S)]
        BY <2>1, <2>3
    <2>5. ASSUME NEW k \in 1..(n + 1) PROVE v[k] = v[k - 1] \o seqs[k]
        <3>1. k \in 0..(n + 1) /\ k - 1 \in 0..(n + 1) /\ k - 1 <= n
            OBVIOUS
        <3>2. v[k - 1] = u[k - 1] /\ v[k] = IF k <= n THEN u[k] ELSE u[n] \o seqs[k]
            BY <3>1
        <3>. HIDE DEF v
        <3>3. CASE k <= n
            <4>1. k \in 1..n
                BY <1>3, <3>3
            <4>2. u[k] = u[k - 1] \o seqs[k]
                BY <2>1, <4>1
            <4>. QED  BY <3>2, <3>3, <4>2
        <3>4. CASE ~(k <= n)
            <4>1. k - 1 = n
                BY <1>3, <3>4
            <4>. QED  BY <3>2, <3>4, <4>1
        <3>. QED  BY <3>3, <3>4
    <2>6. v[0] = <<>>
        BY <2>1
    <2>. HIDE DEF v
    <2>7. Steps(v, n + 1)
        BY <2>4, <2>5, <2>6
    <2>. QED  BY <2>7
<1>. HIDE DEF Possible
<1>4. \A n \in Nat : n \in T => n + 1 \in T
    BY <1>1, <1>3
<1>5. Possible(len)
    <2>. HIDE DEF T
    <2>1. \A n \in Nat : n \in T
        BY <1>2, <1>4, SetInduction
    <2>. QED  BY <1>1, <2>1 DEF T
<1>10. PICK u : Steps(u, len)
    BY <1>5 DEF Possible
<1>6. u = [k \in 0..len |-> IF k = 0 THEN <<>> ELSE u[k - 1] \o seqs[k]]
    <2>1. u = [k \in 0..len |-> u[k]]
        BY <1>10
    <2>2. ASSUME NEW k \in 0..len PROVE u[k] = IF k = 0 THEN <<>> ELSE u[k - 1] \o seqs[k]
        <3>1. k # 0 => k \in 1..len
            BY <1>1
        <3>. QED  BY <1>10, <3>1
    <2>. QED  BY <2>1, <2>2
<1>. DEFINE g == CHOOSE g : g = [k \in 0..len |-> IF k = 0 THEN <<>> ELSE g[k - 1] \o seqs[k]]
<1>7. g = [k \in 0..len |-> IF k = 0 THEN <<>> ELSE g[k - 1] \o seqs[k]]
    BY <1>6
<1>8. Concat(seqs) = g[len]
    BY DEF Concat
<1>. HIDE DEF g
<1>9. \A k \in Nat : k <= len => g[k] = u[k]
    <2>. DEFINE E == {k \in Nat : k <= len => g[k] = u[k]}
    <2>1. 0 \in E
        BY <1>1, <1>10, <1>7
    <2>2. \A k \in Nat : k \in E => k + 1 \in E
        <3>. SUFFICES ASSUME NEW k \in Nat, k + 1 <= len, g[k] = u[k]
                      PROVE  g[k + 1] = u[k + 1]
            BY <1>1
        <3>1. k + 1 \in 1..len /\ k + 1 \in 0..len /\ k + 1 # 0 /\ (k + 1) - 1 = k
            BY <1>1
        <3>. QED  BY <1>10, <1>7, <3>1
    <2>. HIDE DEF E
    <2>3. \A k \in Nat : k \in E
        BY <2>1, <2>2, SetInduction
    <2>. QED  BY <2>3 DEF E
<1>11. len <= len /\ Concat(seqs) = u[len]
    BY <1>1, <1>8, <1>9
<1>. QED  BY <1>10, <1>11

\* It is determined by its steps.
LEMMA ConcatIs ==
    ASSUME NEW S, NEW seqs \in Seq(Seq(S)), NEW v,
           v[0] = <<>>, \A k \in 1..Len(seqs) : v[k] = v[k - 1] \o seqs[k]
    PROVE  Concat(seqs) = v[Len(seqs)] /\ Concat(seqs) \in Seq(S)
<1>1. PICK u \in [0..Len(seqs) -> Seq(S)] :
          /\ u[0] = <<>> /\ \A k \in 1..Len(seqs) : u[k] = u[k - 1] \o seqs[k]
          /\ Concat(seqs) = u[Len(seqs)]
    BY ConcatSteps
<1>. DEFINE len == Len(seqs)
            T == {k \in Nat : k <= len => u[k] = v[k]}
<1>2. len \in Nat /\ len <= len /\ len \in 0..len
    BY LenProperties
<1>3. 0 \in T
    BY <1>1
<1>4. \A k \in Nat : k \in T => k + 1 \in T
    <2>. SUFFICES ASSUME NEW k \in Nat, k + 1 <= len, u[k] = v[k] PROVE u[k + 1] = v[k + 1]
        BY <1>2
    <2>1. k + 1 \in 1..len /\ (k + 1) - 1 = k
        BY <1>2
    <2>. QED  BY <1>1, <2>1
<1>. HIDE DEF T
<1>5. \A k \in Nat : k \in T
    BY <1>3, <1>4, SetInduction
<1>6. u[len] = v[len]
    BY <1>2, <1>5 DEF T
<1>. QED  BY <1>1, <1>2, <1>6

LEMMA ConcatType ==
    ASSUME NEW S, NEW seqs \in Seq(Seq(S))
    PROVE  Concat(seqs) \in Seq(S)
<1>1. PICK u \in [0..Len(seqs) -> Seq(S)] : Concat(seqs) = u[Len(seqs)]
    BY ConcatSteps
<1>2. Len(seqs) \in 0..Len(seqs)
    BY LenProperties
<1>. QED  BY <1>1, <1>2

LEMMA ConcatNothing == Concat(<<>>) = <<>>
<1>. DEFINE v == [k \in {0} |-> <<>>]
<1>1. <<>> \in Seq(Seq({})) /\ Len(<<>>) = 0 /\ v[0] = <<>>
    BY EmptySeq
<1>2. \A k \in 1..Len(<<>>) : v[k] = v[k - 1] \o <<>>[k]
    BY <1>1
<1>. HIDE DEF v
<1>3. Concat(<<>>) = v[Len(<<>>)]
    BY <1>1, <1>2, ConcatIs
<1>. QED  BY <1>1, <1>3

LEMMA ConcatAppend ==
    ASSUME NEW S, NEW seqs \in Seq(Seq(S)), NEW last \in Seq(S)
    PROVE  Concat(Append(seqs, last)) = Concat(seqs) \o last
<1>. DEFINE all == Append(seqs, last)
            len == Len(seqs)
<1>1. /\ all \in Seq(Seq(S)) /\ Len(all) = len + 1 /\ len \in Nat
      /\ \A k \in 1..len : all[k] = seqs[k]
      /\ all[len + 1] = last
    BY AppendProperties, LenProperties
<1>. HIDE DEF all
<1>2. PICK u \in [0..Len(all) -> Seq(S)] :
          /\ u[0] = <<>> /\ \A k \in 1..Len(all) : u[k] = u[k - 1] \o all[k]
          /\ Concat(all) = u[Len(all)]
    BY <1>1, ConcatSteps
<1>3. ASSUME NEW k \in 1..len PROVE u[k] = u[k - 1] \o seqs[k]
    <2>1. k \in 1..Len(all) /\ all[k] = seqs[k]
        BY <1>1
    <2>. QED  BY <1>2, <2>1
<1>4. Concat(seqs) = u[len]
    BY <1>2, <1>3, ConcatIs
<1>5. len + 1 \in 1..Len(all) /\ (len + 1) - 1 = len
    BY <1>1
<1>. QED  BY <1>1, <1>2, <1>4, <1>5 DEF all

LEMMA ConcatHeadTail ==
    ASSUME NEW S, NEW seqs \in Seq(Seq(S)), seqs # <<>>
    PROVE  Concat(seqs) = Head(seqs) \o Concat(Tail(seqs))
<1>. DEFINE first == Head(seqs)
            rest == Tail(seqs)
            len == Len(seqs)
<1>1. /\ first \in Seq(S) /\ rest \in Seq(Seq(S)) /\ Len(rest) = len - 1 /\ len \in Nat \ {0}
      /\ \A k \in 1..Len(rest) : rest[k] = seqs[k + 1]
      /\ first = seqs[1]
    BY HeadTailProperties, LenProperties, EmptySeq
<1>. HIDE DEF first, rest
<1>2. PICK u \in [0..Len(rest) -> Seq(S)] :
          /\ u[0] = <<>> /\ \A k \in 1..Len(rest) : u[k] = u[k - 1] \o rest[k]
          /\ Concat(rest) = u[Len(rest)]
    BY <1>1, ConcatSteps
<1>. DEFINE v == [k \in 0..len |-> IF k = 0 THEN <<>> ELSE first \o u[k - 1]]
<1>3. ASSUME NEW k \in 1..len PROVE v[k] = v[k - 1] \o seqs[k]
    <2>1. CASE k = 1
        <3>1. v[1] = first \o <<>> /\ v[0] = <<>> /\ 1 - 1 = 0
            BY <1>1, <1>2, <2>1
        <3>2. first \o <<>> = <<>> \o first
            BY <1>1, ConcatEmptySeq
        <3>. QED  BY <1>1, <2>1, <3>1, <3>2
    <2>2. CASE k # 1
        <3>1. k - 1 \in 1..Len(rest) /\ (k - 1) - 1 = k - 2 /\ k - 2 \in 0..Len(rest) /\ (k - 1) + 1 = k
            BY <1>1, <2>2
        <3>2. v[k] = first \o u[k - 1] /\ v[k - 1] = first \o u[k - 2]
            <4>1. k \in 0..len /\ k - 1 \in 0..len /\ k # 0 /\ k - 1 # 0
                BY <1>1, <2>2
            <4>2. v[k] = first \o u[k - 1] /\ v[k - 1] = first \o u[(k - 1) - 1]
                BY <4>1
            <4>. QED  BY <3>1, <4>2
        <3>3. u[k - 1] = u[k - 2] \o seqs[k]
            BY <1>1, <1>2, <3>1
        <3>4. u[k - 2] \in Seq(S) /\ seqs[k] \in Seq(S)
            BY <1>2, <3>1, ElementOfSeq
        <3>. HIDE DEF v
        <3>5. (first \o u[k - 2]) \o seqs[k] = first \o (u[k - 2] \o seqs[k])
            <4>1. first \in Seq(S)
                BY <1>1
            <4>2. \A a, b, c \in Seq(S) : (a \o b) \o c = a \o (b \o c)
                BY ConcatFacts
            <4>. DEFINE b == u[k - 2]
                        c == seqs[k]
            <4>3. b \in Seq(S) /\ c \in Seq(S)
                BY <3>4
            <4>. HIDE DEF b, c
            <4>4. (first \o b) \o c = first \o (b \o c)
                BY <4>1, <4>2, <4>3
            <4>. QED  BY <4>4 DEF b, c
        <3>. QED  BY <3>2, <3>3, <3>5
    <2>. QED  BY <2>1, <2>2
<1>4. v[0] = <<>> /\ v[len] = first \o u[Len(rest)]
    <2>1. 0 \in 0..len /\ len \in 0..len /\ len # 0
        BY <1>1
    <2>2. v[0] = <<>> /\ v[len] = first \o u[len - 1]
        BY <2>1
    <2>. QED  BY <1>1, <2>2
<1>. HIDE DEF v
<1>5. Concat(seqs) = v[len]
    BY <1>3, <1>4, ConcatIs
<1>. QED  BY <1>2, <1>4, <1>5 DEF first, rest

-----------------------------------------------------------------------------
(* The data of fragments, and of the chains that wait. *)

LEMMA JoinedType ==
    ASSUME NEW bufs \in Seq(DataFragment)
    PROVE  /\ [k \in 1..Len(bufs) |-> bufs[k].data] \in Seq(Seq(DataUnit))
           /\ Len([k \in 1..Len(bufs) |-> bufs[k].data]) = Len(bufs)
           /\ Joined(bufs) \in Seq(DataUnit)
<1>. DEFINE datas == [k \in 1..Len(bufs) |-> bufs[k].data]
<1>1. Len(bufs) \in Nat /\ \A k \in 1..Len(bufs) : bufs[k].data \in Seq(DataUnit)
    BY LenProperties, ElementOfSeq DEF DataFragment
<1>2. datas \in [1..Len(bufs) -> Seq(DataUnit)]
    BY <1>1
<1>3. datas \in Seq(Seq(DataUnit))
    BY <1>1, <1>2, SeqDef
<1>4. Len(datas) = Len(bufs)
    BY <1>1, <1>2, <1>3, LenProperties
<1>. QED  BY <1>3, <1>4, ConcatType DEF Joined

LEMMA JoinedNothing == Joined(<<>>) = <<>>
<1>1. <<>> \in Seq(DataFragment) /\ Len(<<>>) = 0
    BY EmptySeq
<1>. DEFINE datas == [k \in 1..Len(<<>>) |-> <<>>[k].data]
<1>2. datas \in Seq(Seq(DataUnit)) /\ Len(datas) = 0
    BY <1>1, JoinedType
<1>3. datas = <<>>
    BY <1>2, EmptySeq
<1>. QED  BY <1>3, ConcatNothing DEF Joined

LEMMA JoinedAppend ==
    ASSUME NEW bufs \in Seq(DataFragment), NEW f \in DataFragment
    PROVE  Joined(Append(bufs, f)) = Joined(bufs) \o f.data
<1>. DEFINE all == Append(bufs, f)
            old == [k \in 1..Len(bufs) |-> bufs[k].data]
            new == [k \in 1..Len(all) |-> all[k].data]
<1>1. /\ all \in Seq(DataFragment) /\ Len(all) = Len(bufs) + 1 /\ Len(bufs) \in Nat
      /\ \A k \in 1..Len(bufs) : all[k] = bufs[k]
      /\ all[Len(bufs) + 1] = f
    BY AppendProperties, LenProperties
<1>2. f.data \in Seq(DataUnit)
    BY DEF DataFragment
<1>. HIDE DEF all
<1>3. /\ old \in Seq(Seq(DataUnit)) /\ Len(old) = Len(bufs)
      /\ new \in Seq(Seq(DataUnit)) /\ Len(new) = Len(all)
    BY <1>1, JoinedType
<1>4. /\ Append(old, f.data) \in Seq(Seq(DataUnit)) /\ Len(Append(old, f.data)) = Len(bufs) + 1
      /\ \A k \in 1..Len(bufs) : Append(old, f.data)[k] = old[k]
      /\ Append(old, f.data)[Len(bufs) + 1] = f.data
    BY <1>2, <1>3, AppendProperties
<1>5. ASSUME NEW k \in 1..Len(new) PROVE new[k] = Append(old, f.data)[k]
    <2>1. k \in 1..Len(all) /\ new[k] = all[k].data
        BY <1>3
    <2>2. CASE k = Len(bufs) + 1
        BY <1>1, <1>4, <2>1, <2>2
    <2>3. CASE k # Len(bufs) + 1
        <3>1. k \in 1..Len(bufs)
            BY <1>1, <2>1, <2>3
        <3>2. old[k] = bufs[k].data
            BY <3>1
        <3>. QED  BY <1>1, <1>4, <2>1, <3>1, <3>2
    <2>. QED  BY <2>2, <2>3
<1>. HIDE DEF old, new
<1>6. new = Append(old, f.data)
    BY <1>1, <1>3, <1>4, <1>5, SeqEqual
<1>7. Concat(new) = Concat(old) \o f.data
    BY <1>2, <1>3, <1>6, ConcatAppend
<1>. QED  BY <1>7 DEF Joined, old, new, all

LEMMA JoinedHeadTail ==
    ASSUME NEW bufs \in Seq(DataFragment), bufs # <<>>
    PROVE  Joined(bufs) = Head(bufs).data \o Joined(Tail(bufs))
<1>. DEFINE rest == Tail(bufs)
            all == [k \in 1..Len(bufs) |-> bufs[k].data]
            datas == [k \in 1..Len(rest) |-> rest[k].data]
<1>1. /\ rest \in Seq(DataFragment) /\ Len(rest) = Len(bufs) - 1 /\ Len(bufs) \in Nat \ {0}
      /\ \A k \in 1..Len(rest) : rest[k] = bufs[k + 1]
      /\ Head(bufs) = bufs[1]
    BY HeadTailProperties, LenProperties, EmptySeq
<1>. HIDE DEF rest
<1>2. /\ all \in Seq(Seq(DataUnit)) /\ Len(all) = Len(bufs)
      /\ datas \in Seq(Seq(DataUnit)) /\ Len(datas) = Len(rest)
    BY <1>1, JoinedType
<1>3. all[1] = Head(bufs).data
    BY <1>1
<1>4. \A k \in 1..Len(rest) : datas[k] = all[k + 1]
    <2>. SUFFICES ASSUME NEW k \in 1..Len(rest) PROVE datas[k] = all[k + 1]
        OBVIOUS
    <2>1. k + 1 \in 1..Len(bufs)
        BY <1>1
    <2>2. all[k + 1] = bufs[k + 1].data /\ datas[k] = rest[k].data
        BY <2>1
    <2>. QED  BY <1>1, <2>2
<1>. HIDE DEF all, datas
<1>5. all # <<>>
    BY <1>1, <1>2, EmptySeq
<1>6. /\ Tail(all) \in Seq(Seq(DataUnit)) /\ Len(Tail(all)) = Len(bufs) - 1
      /\ \A k \in 1..Len(Tail(all)) : Tail(all)[k] = all[k + 1]
      /\ Head(all) = all[1]
    BY <1>2, <1>5, HeadTailProperties
<1>7. Tail(all) = datas
    BY <1>1, <1>2, <1>4, <1>6, SeqEqual
<1>8. Concat(all) = Head(all) \o Concat(Tail(all))
    BY <1>2, <1>5, ConcatHeadTail
<1>. QED  BY <1>3, <1>6, <1>7, <1>8 DEF Joined, all, datas, rest

LEMMA FlatType ==
    ASSUME NEW waits \in Seq(Seq(DataFragment))
    PROVE  /\ [k \in 1..Len(waits) |-> Joined(waits[k])] \in Seq(Seq(DataUnit))
           /\ Len([k \in 1..Len(waits) |-> Joined(waits[k])]) = Len(waits)
           /\ Flat(waits) \in Seq(DataUnit)
<1>. DEFINE datas == [k \in 1..Len(waits) |-> Joined(waits[k])]
<1>1. Len(waits) \in Nat /\ \A k \in 1..Len(waits) : Joined(waits[k]) \in Seq(DataUnit)
    BY LenProperties, ElementOfSeq, JoinedType
<1>2. datas \in [1..Len(waits) -> Seq(DataUnit)]
    BY <1>1
<1>3. datas \in Seq(Seq(DataUnit))
    BY <1>1, <1>2, SeqDef
<1>4. Len(datas) = Len(waits)
    BY <1>1, <1>2, <1>3, LenProperties
<1>. QED  BY <1>3, <1>4, ConcatType DEF Flat

LEMMA FlatNothing == Flat(<<>>) = <<>>
<1>1. <<>> \in Seq(Seq(DataFragment)) /\ Len(<<>>) = 0
    BY EmptySeq
<1>. DEFINE datas == [k \in 1..Len(<<>>) |-> Joined(<<>>[k])]
<1>2. datas \in Seq(Seq(DataUnit)) /\ Len(datas) = 0
    BY <1>1, FlatType
<1>3. datas = <<>>
    BY <1>2, EmptySeq
<1>. QED  BY <1>3, ConcatNothing DEF Flat

LEMMA FlatAppend ==
    ASSUME NEW waits \in Seq(Seq(DataFragment)), NEW chain \in Seq(DataFragment)
    PROVE  Flat(Append(waits, chain)) = Flat(waits) \o Joined(chain)
<1>. DEFINE all == Append(waits, chain)
            old == [k \in 1..Len(waits) |-> Joined(waits[k])]
            new == [k \in 1..Len(all) |-> Joined(all[k])]
<1>1. /\ all \in Seq(Seq(DataFragment)) /\ Len(all) = Len(waits) + 1 /\ Len(waits) \in Nat
      /\ \A k \in 1..Len(waits) : all[k] = waits[k]
      /\ all[Len(waits) + 1] = chain
    BY AppendProperties, LenProperties
<1>2. Joined(chain) \in Seq(DataUnit)
    BY JoinedType
<1>. HIDE DEF all
<1>3. /\ old \in Seq(Seq(DataUnit)) /\ Len(old) = Len(waits)
      /\ new \in Seq(Seq(DataUnit)) /\ Len(new) = Len(all)
    BY <1>1, FlatType
<1>4. /\ Append(old, Joined(chain)) \in Seq(Seq(DataUnit)) /\ Len(Append(old, Joined(chain))) = Len(waits) + 1
      /\ \A k \in 1..Len(waits) : Append(old, Joined(chain))[k] = old[k]
      /\ Append(old, Joined(chain))[Len(waits) + 1] = Joined(chain)
    BY <1>2, <1>3, AppendProperties
<1>5. ASSUME NEW k \in 1..Len(new) PROVE new[k] = Append(old, Joined(chain))[k]
    <2>1. k \in 1..Len(all) /\ new[k] = Joined(all[k])
        BY <1>3
    <2>2. CASE k = Len(waits) + 1
        BY <1>1, <1>4, <2>1, <2>2
    <2>3. CASE k # Len(waits) + 1
        <3>1. k \in 1..Len(waits)
            BY <1>1, <2>1, <2>3
        <3>2. old[k] = Joined(waits[k])
            BY <3>1
        <3>. QED  BY <1>1, <1>4, <2>1, <3>1, <3>2
    <2>. QED  BY <2>2, <2>3
<1>. HIDE DEF old, new
<1>6. new = Append(old, Joined(chain))
    BY <1>1, <1>3, <1>4, <1>5, SeqEqual
<1>7. Concat(new) = Concat(old) \o Joined(chain)
    BY <1>2, <1>3, <1>6, ConcatAppend
<1>. QED  BY <1>7 DEF Flat, old, new, all

LEMMA FlatHeadTail ==
    ASSUME NEW waits \in Seq(Seq(DataFragment)), waits # <<>>
    PROVE  Flat(waits) = Joined(Head(waits)) \o Flat(Tail(waits))
<1>. DEFINE rest == Tail(waits)
            all == [k \in 1..Len(waits) |-> Joined(waits[k])]
            datas == [k \in 1..Len(rest) |-> Joined(rest[k])]
<1>1. /\ rest \in Seq(Seq(DataFragment)) /\ Len(rest) = Len(waits) - 1 /\ Len(waits) \in Nat \ {0}
      /\ \A k \in 1..Len(rest) : rest[k] = waits[k + 1]
      /\ Head(waits) = waits[1]
    BY HeadTailProperties, LenProperties, EmptySeq
<1>. HIDE DEF rest
<1>2. /\ all \in Seq(Seq(DataUnit)) /\ Len(all) = Len(waits)
      /\ datas \in Seq(Seq(DataUnit)) /\ Len(datas) = Len(rest)
    BY <1>1, FlatType
<1>3. all[1] = Joined(Head(waits))
    BY <1>1
<1>4. \A k \in 1..Len(rest) : datas[k] = all[k + 1]
    <2>. SUFFICES ASSUME NEW k \in 1..Len(rest) PROVE datas[k] = all[k + 1]
        OBVIOUS
    <2>1. k + 1 \in 1..Len(waits)
        BY <1>1
    <2>2. all[k + 1] = Joined(waits[k + 1]) /\ datas[k] = Joined(rest[k])
        BY <2>1
    <2>. QED  BY <1>1, <2>2
<1>. HIDE DEF all, datas
<1>5. all # <<>>
    BY <1>1, <1>2, EmptySeq
<1>6. /\ Tail(all) \in Seq(Seq(DataUnit)) /\ Len(Tail(all)) = Len(waits) - 1
      /\ \A k \in 1..Len(Tail(all)) : Tail(all)[k] = all[k + 1]
      /\ Head(all) = all[1]
    BY <1>2, <1>5, HeadTailProperties
<1>7. Tail(all) = datas
    BY <1>1, <1>2, <1>4, <1>6, SeqEqual
<1>8. Concat(all) = Head(all) \o Concat(Tail(all))
    BY <1>2, <1>5, ConcatHeadTail
<1>. QED  BY <1>3, <1>6, <1>7, <1>8 DEF Flat, all, datas, rest

LEMMA FlatEnqueue ==
    ASSUME NEW waits \in Seq(Seq(DataFragment)), NEW chain \in Seq(DataFragment)
    PROVE  Flat(Enqueue(waits, chain)) = Flat(waits) \o Joined(chain)
<1>1. CASE chain = <<>>
    <2>1. Flat(waits) \in Seq(DataUnit) /\ Joined(chain) = <<>>
        BY <1>1, FlatType, JoinedNothing
    <2>. QED  BY <1>1, <2>1, ConcatFacts DEF Enqueue
<1>2. CASE chain # <<>>
    BY <1>2, FlatAppend DEF Enqueue
<1>. QED  BY <1>1, <1>2

\* Netchan_FragSend moves data, it does not change what is to be sent.
LEMMA PromotedFlow ==
    ASSUME NEW bufs \in Seq(DataFragment), NEW waits \in Seq(Seq(DataFragment))
    PROVE  Joined(PromotedBufs(bufs, waits)) \o Flat(PromotedWaits(bufs, waits))
               = Joined(bufs) \o Flat(waits)
<1>1. CASE Promotes(bufs, waits)
    <2>1. bufs = <<>> /\ waits # <<>>
        BY <1>1 DEF Promotes
    <2>2. Flat(waits) = Joined(Head(waits)) \o Flat(Tail(waits)) /\ Flat(waits) \in Seq(DataUnit)
        BY <2>1, FlatHeadTail, FlatType
    <2>3. Joined(bufs) \o Flat(waits) = Flat(waits)
        BY <2>1, <2>2, JoinedNothing, ConcatFacts
    <2>. QED  BY <1>1, <2>2, <2>3 DEF PromotedBufs, PromotedWaits
<1>2. CASE ~Promotes(bufs, waits)
    BY <1>2 DEF PromotedBufs, PromotedWaits
<1>. QED  BY <1>1, <1>2

\* Netchan_CreateFragments_ cuts the data up and loses nothing of it.
LEMMA JoinedChain ==
    ASSUME NEW data \in Seq(DataUnit), NEW chunk \in Nat \ {0}
    PROVE  Joined(Chain(data, chunk)) = data
<1>. DEFINE len == Len(data)
            count == (len + chunk - 1) \div chunk
            chain == Chain(data, chunk)
            datas == [k \in 1..Len(chain) |-> chain[k].data]
            v == [k \in 0..count |-> SubSeq(data, 1, Least(k * chunk, len))]
<1>1. len \in Nat
    BY LenProperties
<1>2. /\ count \in Nat /\ Len(chain) = count /\ chain \in Seq(DataFragment)
      /\ \A k \in 1..count :
            chain[k].data = SubSeq(data, (k - 1) * chunk + 1, Least(k * chunk, len))
    BY ChainShape, ChainType
<1>3. count * chunk \in Nat /\ count * chunk >= len
    <2>1. (len + chunk - 1) < count * chunk + chunk /\ count * chunk \in Nat
        BY <1>1, <1>2
    <2>. HIDE DEF count, len
    <2>. QED  BY <1>1, <2>1
<1>4. \A k \in 1..count : /\ (k - 1) * chunk \in Nat /\ k * chunk \in Nat
                          /\ (k - 1) * chunk + 1 <= len
                          /\ k * chunk = (k - 1) * chunk + chunk
    BY <1>1, ChunkBounds
<1>5. /\ datas \in Seq(Seq(DataUnit)) /\ Len(datas) = count
      /\ \A k \in 1..count : datas[k] = chain[k].data
    BY <1>2, JoinedType
<1>. HIDE DEF count, chain, datas, len
<1>6. ASSUME NEW k \in 1..count PROVE v[k] = v[k - 1] \o datas[k]
    <2>7. k \in 0..count /\ k - 1 \in 0..count
        BY <1>2
    <2>8. \A m \in 0..count : v[m] = SubSeq(data, 1, Least(m * chunk, len))
        OBVIOUS
    <2>. HIDE DEF v
    <2>1. /\ v[k] = SubSeq(data, 1, Least(k * chunk, len))
          /\ v[k - 1] = SubSeq(data, 1, Least((k - 1) * chunk, len))
        BY <2>7, <2>8
    <2>. DEFINE a == (k - 1) * chunk
                b == Least(k * chunk, len)
    <2>2. a \in Nat /\ k * chunk \in Nat /\ a + 1 <= len /\ k * chunk = a + chunk
        BY <1>4
    <2>. HIDE DEF a
    <2>3. Least(a, len) = a /\ b \in a..len
        BY <1>1, <2>2 DEF Least
    <2>. HIDE DEF b
    <2>4. 1 \in 1..(len + 1) /\ a \in (1 - 1)..len /\ b \in a..len
        BY <1>1, <2>2, <2>3
    <2>5. SubSeq(data, 1, a) \o SubSeq(data, a + 1, b) = SubSeq(data, 1, b)
        BY <2>4, ConcatAdjacentSubSeq DEF len
    <2>. QED  BY <1>2, <1>5, <2>1, <2>3, <2>5 DEF a, b
<1>7. v[0] = <<>> /\ v[count] = data
    <2>1. 0 \in 0..count /\ count \in 0..count /\ 0 * chunk = 0
        BY <1>2
    <2>2. Least(0, len) = 0 /\ Least(count * chunk, len) = len
        BY <1>1, <1>3 DEF Least
    <2>3. SubSeq(data, 1, 0) = <<>> /\ SubSeq(data, 1, len) = data
        BY SubSeqEmpty, SubSeqFull DEF len
    <2>. QED  BY <2>1, <2>2, <2>3
<1>. HIDE DEF v
<1>8. Concat(datas) = v[Len(datas)]
    BY <1>5, <1>6, <1>7, ConcatIs
<1>. QED  BY <1>5, <1>7, <1>8 DEF Joined, datas, chain

-----------------------------------------------------------------------------
(* The numbered units. *)

LEMMA ReliablesConcat ==
    ASSUME NEW a \in Nat, NEW n \in Nat
    PROVE  /\ Reliables(1, a) \o Reliables(a + 1, a + n) = Reliables(1, a + n)
           /\ Reliables(1, a) \in Seq(DataUnit) /\ Len(Reliables(1, a)) = a
           /\ Reliables(a + 1, a + n) \in Seq(DataUnit)
<1>1. \A x \in Nat, y \in Nat : x >= 1 => Reliables(x, y) \in Seq(DataUnit)
    BY ReliablesType
<1>2. \A x \in Nat, y \in Nat : x >= 1 /\ y >= x - 1 =>
          /\ Len(Reliables(x, y)) = y - x + 1
          /\ \A k \in 1..(y - x + 1) : Reliables(x, y)[k] = [kind |-> "reliable", n |-> x + k - 1]
    <2>. SUFFICES ASSUME NEW x \in Nat, NEW y \in Nat, x >= 1, y >= x - 1
                  PROVE  /\ Len(Reliables(x, y)) = y - x + 1
                         /\ \A k \in 1..(y - x + 1) :
                               Reliables(x, y)[k] = [kind |-> "reliable", n |-> x + k - 1]
        OBVIOUS
    <2>1. Reliables(x, y) = [k \in 1..(y - x + 1) |-> [kind |-> "reliable", n |-> x + k - 1]]
        BY DEF Reliables
    <2>2. Reliables(x, y) \in Seq(DataUnit)
        BY <1>1
    <2>. QED  BY <2>1, <2>2, LenProperties
<1>. DEFINE s == Reliables(1, a)
            t == Reliables(a + 1, a + n)
            u == Reliables(1, a + n)
<1>3. /\ s \in Seq(DataUnit) /\ t \in Seq(DataUnit) /\ u \in Seq(DataUnit)
      /\ Len(s) = a /\ Len(t) = n /\ Len(u) = a + n
      /\ \A k \in 1..a : s[k] = [kind |-> "reliable", n |-> 1 + k - 1]
      /\ \A k \in 1..n : t[k] = [kind |-> "reliable", n |-> (a + 1) + k - 1]
      /\ \A k \in 1..(a + n) : u[k] = [kind |-> "reliable", n |-> 1 + k - 1]
    <2>1. /\ a + n \in Nat /\ a + 1 \in Nat /\ 1 \in Nat /\ 1 >= 1 /\ a + 1 >= 1
          /\ a >= 1 - 1 /\ a + n >= (a + 1) - 1 /\ a + n >= 1 - 1
          /\ a - 1 + 1 = a /\ (a + n) - (a + 1) + 1 = n /\ (a + n) - 1 + 1 = a + n
        OBVIOUS
    <2>2. /\ s \in Seq(DataUnit) /\ Len(s) = a - 1 + 1
          /\ \A k \in 1..(a - 1 + 1) : s[k] = [kind |-> "reliable", n |-> 1 + k - 1]
        BY <1>1, <1>2, <2>1
    <2>3. /\ t \in Seq(DataUnit) /\ Len(t) = (a + n) - (a + 1) + 1
          /\ \A k \in 1..((a + n) - (a + 1) + 1) :
                t[k] = [kind |-> "reliable", n |-> (a + 1) + k - 1]
        BY <1>1, <1>2, <2>1
    <2>4. /\ u \in Seq(DataUnit) /\ Len(u) = (a + n) - 1 + 1
          /\ \A k \in 1..((a + n) - 1 + 1) : u[k] = [kind |-> "reliable", n |-> 1 + k - 1]
        BY <1>1, <1>2, <2>1
    <2>. HIDE DEF s, t, u
    <2>. QED  BY <2>1, <2>2, <2>3, <2>4
<1>. HIDE DEF s, t, u
<1>4. /\ s \o t \in Seq(DataUnit) /\ Len(s \o t) = a + n
      /\ \A k \in 1..(a + n) : (s \o t)[k] = IF k <= a THEN s[k] ELSE t[k - a]
    BY <1>3, ConcatProperties
<1>5. ASSUME NEW k \in 1..(a + n) PROVE (s \o t)[k] = u[k]
    <2>1. CASE k <= a
        <3>1. k \in 1..a
            BY <2>1
        <3>. QED  BY <1>3, <1>4, <2>1, <3>1
    <2>2. CASE ~(k <= a)
        <3>1. k - a \in 1..n /\ (a + 1) + (k - a) - 1 = 1 + k - 1
            BY <2>2
        <3>2. t[k - a] = [kind |-> "reliable", n |-> (a + 1) + (k - a) - 1]
            BY <1>3, <3>1
        <3>. QED  BY <1>3, <1>4, <2>2, <3>1, <3>2
    <2>. QED  BY <2>1, <2>2
<1>6. s \o t = u
    BY <1>3, <1>4, <1>5, SeqEqual
<1>. QED  BY <1>3, <1>6 DEF s, t, u

-----------------------------------------------------------------------------
(* The client's reliable data is never fragmented. *)

LEMMA ComposeNoFragments ==
    ASSUME TypeOK, NEW e \in Endpoint, Compose(e),
           \A i \in Stream : fragbufs[e][i] = <<>> /\ waitlist[e][i] = <<>>
    PROVE  /\ \A i \in Stream : /\ fragbufs'[e][i] = <<>> /\ waitlist'[e][i] = <<>>
                                /\ reliable_frag'[e][i] = NoHeader
           /\ \A f \in Endpoint \ {e} : /\ fragbufs'[f] = fragbufs[f] /\ waitlist'[f] = waitlist[f]
                                        /\ reliable_frag'[f] = reliable_frag[f]
<1>1. \A i \in Stream : ActiveBufs(e)[i] = <<>> /\ ActiveWaits(e)[i] = <<>>
    BY DEF ActiveBufs, ActiveWaits, PromotedBufs, PromotedWaits, Promotes
<1>2. ~Requeues(e) /\ \A i \in Stream : ~Takes(e, i, Used(e, i))
    BY <1>1, StreamFacts DEF Requeues, Stalled, Takes
<1>3. \A i \in Stream : HeaderOf(e, i, Used(e, i)) = NoHeader
    BY <1>2 DEF HeaderOf
<1>4. /\ reliable_frag'[e] = [i \in Stream |-> HeaderOf(e, i, Used(e, i))]
      /\ fragbufs'[e] = [i \in Stream |-> IF Takes(e, i, Used(e, i))
                                          THEN Tail(ActiveBufs(e)[i]) ELSE ActiveBufs(e)[i]]
      /\ waitlist'[e] = [i \in Stream |->
                            IF i = FRAG_NORMAL_STREAM /\ Requeues(e)
                            THEN Enqueue(ActiveWaits(e)[i], Chain(message[e], NormalChunk))
                            ELSE ActiveWaits(e)[i]]
      /\ \A f \in Endpoint \ {e} : /\ fragbufs'[f] = fragbufs[f] /\ waitlist'[f] = waitlist[f]
                                   /\ reliable_frag'[f] = reliable_frag[f]
    BY DEF Compose, TypeOK
<1>. QED  BY <1>1, <1>2, <1>3, <1>4

\* What Compose leaves alone.
LEMMA ComposeOthers ==
    ASSUME TypeOK, NEW e \in Endpoint, Compose(e), NEW f \in Endpoint \ {e}
    PROVE  /\ message'[f] = message[f] /\ reliable_buf'[f] = reliable_buf[f]
           /\ reliable_frag'[f] = reliable_frag[f] /\ waitlist'[f] = waitlist[f]
           /\ fragbufs'[f] = fragbufs[f] /\ composed'[f] = composed[f]
BY DEF Compose, TypeOK

LEMMA TransmitOthers ==
    ASSUME TypeOK, NEW e \in Endpoint, NEW datagram \in Datagrams, TransmitBits(e, datagram)
    PROVE  /\ \A f \in Endpoint \ {e} :
                 /\ message'[f] = message[f] /\ reliable_buf'[f] = reliable_buf[f]
                 /\ reliable_frag'[f] = reliable_frag[f] /\ waitlist'[f] = waitlist[f]
                 /\ fragbufs'[f] = fragbufs[f] /\ composed'[f] = composed[f]
           /\ \A q \in network' : q \in network \/ q.from = e
           /\ UNCHANGED <<incoming_sequence, incomingbufs, incomingready, accepted, received,
                          written, files, sentFiles>>
<1>1. \A f \in Endpoint \ {e} :
          /\ message'[f] = message[f] /\ reliable_buf'[f] = reliable_buf[f]
          /\ reliable_frag'[f] = reliable_frag[f] /\ waitlist'[f] = waitlist[f]
          /\ fragbufs'[f] = fragbufs[f] /\ composed'[f] = composed[f]
    <2>1. CASE TransmitNew(e, datagram)
        BY <2>1, ComposeOthers DEF TransmitNew
    <2>2. CASE TransmitAgain(e, datagram)
        BY <2>2 DEF TransmitAgain
    <2>. QED  BY <2>1, <2>2 DEF TransmitBits
<1>2. PICK p : Sends(e, p)
    BY PacketSent
<1>3. p.from = e /\ network' = network \cup {p}
    BY <1>2 DEF Sends
<1>. QED  BY <1>1, <1>3 DEF TransmitBits

LEMMA TransmitClientWhole ==
    ASSUME TypeOK, ClientWhole, NEW e \in Endpoint, NEW datagram \in Datagrams,
           TransmitBits(e, datagram)
    PROVE  ClientWhole'
<1>1. CASE e = NS_SERVER
    <2>1. NS_CLIENT \in Endpoint \ {e} /\ NS_CLIENT # e
        BY <1>1, PeerFacts
    <2>2. /\ reliable_frag'[NS_CLIENT] = reliable_frag[NS_CLIENT]
          /\ waitlist'[NS_CLIENT] = waitlist[NS_CLIENT] /\ fragbufs'[NS_CLIENT] = fragbufs[NS_CLIENT]
          /\ \A q \in network' : q.from = NS_CLIENT => q \in network
          /\ UNCHANGED <<incomingbufs, incomingready>>
        BY <2>1, TransmitOthers
    <2>. QED  BY <2>2 DEF ClientWhole
<1>2. CASE e = NS_CLIENT
    <2>1. PICK p : /\ Sends(e, p)
                   /\ ~p.reliable => p.frag = [i \in Stream |-> NoHeader] /\ p.body = datagram
                   /\ p.reliable => /\ p.frag = reliable_frag'[e]
                                    /\ p.body = reliable_buf'[e] \o datagram
        BY PacketSent
    <2>2. \A i \in Stream : /\ fragbufs'[e][i] = <<>> /\ waitlist'[e][i] = <<>>
                            /\ reliable_frag'[e][i] = NoHeader
        <3>1. CASE TransmitAgain(e, datagram)
            BY <1>2, <3>1 DEF TransmitAgain, ClientWhole
        <3>2. CASE TransmitNew(e, datagram)
            BY <1>2, <3>2, ComposeNoFragments DEF TransmitNew, ClientWhole
        <3>. QED  BY <3>1, <3>2 DEF TransmitBits
    <2>3. network' = network \cup {p} /\ \A i \in Stream : p.frag[i] = NoHeader
        BY <2>1, <2>2 DEF Sends
    <2>. QED  BY <1>2, <2>2, <2>3 DEF ClientWhole, TransmitBits
<1>. QED  BY <1>1, <1>2 DEF Endpoint

LEMMA NextClientWhole ==
    ASSUME TypeOK, ClientWhole, [Next]_vars
    PROVE  ClientWhole'
<1>1. ASSUME NEW e \in Endpoint, NEW size \in WriteSizes, WriteMessage(e, size)
      PROVE  ClientWhole'
    BY <1>1 DEF WriteMessage, ClientWhole, inVars
<1>2. ASSUME NEW size \in ResourceSizes, SendResources(size) PROVE ClientWhole'
    <2>1. fragbufs'[NS_CLIENT] = fragbufs[NS_CLIENT] /\ waitlist'[NS_CLIENT] = waitlist[NS_CLIENT]
        BY <1>2, PeerFacts DEF SendResources, TypeOK
    <2>. QED  BY <1>2, <2>1 DEF SendResources, ClientWhole, inVars
<1>3. CASE SendFile
    <2>1. fragbufs'[NS_CLIENT] = fragbufs[NS_CLIENT] /\ waitlist'[NS_CLIENT] = waitlist[NS_CLIENT]
        BY <1>3, PeerFacts DEF SendFile, TypeOK
    <2>. QED  BY <1>3, <2>1 DEF SendFile, ClientWhole, inVars
<1>4. ASSUME NEW e \in Endpoint, NEW datagram \in Datagrams, Transmit(e, datagram)
      PROVE  ClientWhole'
    BY <1>4, TransmitClientWhole DEF Transmit
<1>5. ASSUME NEW datagram \in Datagrams, TransmitInParse(datagram) PROVE ClientWhole'
    BY <1>5, TransmitClientWhole, PeerFacts DEF TransmitInParse
<1>6. CASE HoldBack
    BY <1>6 DEF HoldBack, ClientWhole, sendVars
<1>7. ASSUME NEW p \in network, ServerProcess(p) PROVE ClientWhole'
    <2>1. p.from = NS_CLIENT /\ UNCHANGED <<reliable_frag, waitlist, fragbufs, network>>
        BY <1>7, PeerFacts DEF ServerProcess
    <2>2. \A i \in Stream : p.frag[i] = NoHeader /\ incomingbufs[NS_SERVER][i] = <<>>
        BY <2>1 DEF ClientWhole
    <2>3. \A i \in Stream : BufsAfter(NS_SERVER, p, i) = <<>>
        BY <2>2 DEF BufsAfter, NoHeader
    <2>4. \A i \in Stream : incomingbufs'[NS_SERVER][i] = <<>> /\ ~incomingready'[NS_SERVER][i]
        BY <1>7, <2>3, PeerFacts DEF ServerProcess, TypeOK
    <2>. QED  BY <2>1, <2>4 DEF ClientWhole
<1>8. ASSUME NEW p \in network, ClientProcess(p) PROVE ClientWhole'
    <2>1. /\ incomingbufs'[NS_SERVER] = incomingbufs[NS_SERVER]
          /\ incomingready'[NS_SERVER] = incomingready[NS_SERVER]
        BY <1>8, PeerFacts DEF ClientProcess, TypeOK
    <2>. QED  BY <1>8, <2>1 DEF ClientProcess, ClientWhole
<1>9. CASE ReadDone
    <2>1. /\ incomingbufs'[NS_SERVER] = incomingbufs[NS_SERVER]
          /\ incomingready'[NS_SERVER] = incomingready[NS_SERVER]
        BY <1>9, PeerFacts DEF ReadDone, TypeOK
    <2>. QED  BY <1>9, <2>1 DEF ReadDone, ClientWhole, sendVars
<1>10. CASE UNCHANGED vars
    BY <1>10 DEF vars, sendVars, inVars, ClientWhole
<1>. QED
    BY <1>1, <1>2, <1>3, <1>4, <1>5, <1>6, <1>7, <1>8, <1>9, <1>10 DEF Next

-----------------------------------------------------------------------------
(* Regular data, action by action. *)

LEMMA PipeTypes ==
    ASSUME TypeOK, NEW s \in Endpoint
    PROVE  /\ fragbufs[s][FRAG_NORMAL_STREAM] \in Seq(DataFragment)
           /\ waitlist[s][FRAG_NORMAL_STREAM] \in Seq(Seq(DataFragment))
           /\ message[s] \in Seq(DataUnit) /\ reliable_buf[s] \in Seq(DataUnit)
           /\ Joined(fragbufs[s][FRAG_NORMAL_STREAM]) \in Seq(DataUnit)
           /\ Flat(waitlist[s][FRAG_NORMAL_STREAM]) \in Seq(DataUnit)
           /\ UnderWay(s) \in Seq(DataUnit) /\ Queued(s) \in Seq(DataUnit)
           /\ written[s] \in Nat
<1>1. /\ fragbufs[s][FRAG_NORMAL_STREAM] \in Seq(DataFragment)
      /\ waitlist[s][FRAG_NORMAL_STREAM] \in Seq(Seq(DataFragment))
      /\ message[s] \in Seq(DataUnit) /\ reliable_buf[s] \in Seq(DataUnit)
      /\ written[s] \in Nat
    BY StreamFacts DEF TypeOK
<1>2. /\ Joined(fragbufs[s][FRAG_NORMAL_STREAM]) \in Seq(DataUnit)
      /\ Flat(waitlist[s][FRAG_NORMAL_STREAM]) \in Seq(DataUnit)
    BY <1>1, JoinedType, FlatType
<1>3. UnderWay(s) \in Seq(DataUnit) /\ Queued(s) \in Seq(DataUnit)
    BY <1>1, <1>2, ConcatFacts DEF UnderWay, Queued
<1>. QED  BY <1>1, <1>2, <1>3

\* A step that touches nothing of the direction from s, except perhaps that
\* s gives up the payload its peer has.
LEMMA PipeFrame ==
    ASSUME TypeOK, NEW s \in Endpoint, ChannelInv(s), PipeInv(s),
           received'[Peer(s)] = received[Peer(s)],
           incomingbufs'[Peer(s)] = incomingbufs[Peer(s)],
           accepted'[Peer(s)] = accepted[Peer(s)],
           incoming_sequence'[Peer(s)] = incoming_sequence[Peer(s)],
           composed'[s] = composed[s], reliable_frag'[s] = reliable_frag[s],
           fragbufs'[s] = fragbufs[s], waitlist'[s] = waitlist[s],
           message'[s] = message[s], written'[s] = written[s],
           CaughtUp(s) \/ reliable_buf'[s] = reliable_buf[s],
           \A q \in network' : q \in network \/ q.from # s
    PROVE  PipeInv(s)'
<1>1. CaughtUp(s)' <=> CaughtUp(s)
    BY DEF CaughtUp
<1>2. UnderWay(s)' = UnderWay(s) /\ Queued(s)' = Queued(s)
    BY <1>1 DEF UnderWay, Queued
<1>3. CaughtUp(s) => \A q \in network :
          q.from = s /\ q.reliable => ~(q.seq > incoming_sequence[Peer(s)])
    BY DEF ChannelInv, Payloads
<1>4. Packets(s)'
    <2>. SUFFICES ASSUME NEW p \in network', p.from = s
         PROVE  /\ ~p.reliable => p.frag = [i \in Stream |-> NoHeader] /\ p.body \in Datagrams
                /\ p.reliable /\ p.seq > incoming_sequence'[Peer(s)] =>
                      /\ p.frag = reliable_frag'[s]
                      /\ \E datagram \in Datagrams : p.body = reliable_buf'[s] \o datagram
        BY DEF Packets
    <2>1. p \in network
        OBVIOUS
    <2>2. /\ ~p.reliable => p.frag = [i \in Stream |-> NoHeader] /\ p.body \in Datagrams
          /\ p.reliable /\ p.seq > incoming_sequence[Peer(s)] =>
                /\ p.frag = reliable_frag[s]
                /\ \E datagram \in Datagrams : p.body = reliable_buf[s] \o datagram
        BY <2>1 DEF PipeInv, Packets
    <2>3. p.reliable /\ p.seq > incoming_sequence[Peer(s)] => reliable_buf'[s] = reliable_buf[s]
        BY <1>3, <2>1
    <2>4. p.reliable /\ p.seq > incoming_sequence'[Peer(s)] =>
              /\ p.frag = reliable_frag'[s]
              /\ \E datagram \in Datagrams : p.body = reliable_buf'[s] \o datagram
        <3>. SUFFICES ASSUME p.reliable, p.seq > incoming_sequence'[Peer(s)]
                      PROVE  /\ p.frag = reliable_frag[s]
                             /\ \E datagram \in Datagrams : p.body = reliable_buf'[s] \o datagram
            OBVIOUS
        <3>1. p.reliable /\ p.seq > incoming_sequence[Peer(s)]
            OBVIOUS
        <3>. QED  BY <2>2, <2>3, <3>1
    <2>. QED  BY <2>2, <2>4
<1>. QED  BY <1>1, <1>2, <1>4 DEF PipeInv

\* Data handed to the channel comes after everything else.
LEMMA PipeHandOver ==
    ASSUME TypeOK, TypeOK', NEW s \in Endpoint, PipeInv(s), NEW size \in Nat,
           Queued(s)' = Queued(s) \o Reliables(written[s] + 1, written[s] + size),
           written'[s] = written[s] + size,
           UNCHANGED <<received, incomingbufs, accepted, composed, reliable_frag, reliable_buf,
                       network, incoming_sequence>>
    PROVE  PipeInv(s)'
<1>. DEFINE r == Peer(s)
            rcvd == received[r]
            inb == Joined(incomingbufs[r][FRAG_NORMAL_STREAM])
            way == UnderWay(s)
            queued == Queued(s)
            data == Reliables(written[s] + 1, written[s] + size)
<1>1. CaughtUp(s)' <=> CaughtUp(s)
    BY DEF CaughtUp
<1>2. way' = way
    BY <1>1 DEF UnderWay
<1>3. Packets(s)'
    BY DEF PipeInv, Packets
<1>4. rcvd \in Seq(DataUnit) /\ inb \in Seq(DataUnit)
      /\ way \in Seq(DataUnit) /\ queued \in Seq(DataUnit) /\ written[s] \in Nat
    BY PipeTypes, JoinedType DEF PipeInv
<1>5. /\ data \in Seq(DataUnit)
      /\ Reliables(1, written[s]) \o data = Reliables(1, written[s] + size)
    BY <1>4, ReliablesConcat
<1>6. rcvd \o (inb \o (way \o queued)) = Reliables(1, written[s])
    BY DEF PipeInv
<1>7. (rcvd \o (inb \o (way \o queued)))' = rcvd \o (inb \o (way \o (queued \o data)))
    BY <1>2
<1>. HIDE DEF rcvd, inb, way, queued, data
<1>8. /\ \A a, b \in Seq(DataUnit) : a \o b \in Seq(DataUnit)
      /\ \A a, b, c \in Seq(DataUnit) : (a \o b) \o c = a \o (b \o c)
    BY ConcatFacts
<1>9. rcvd \o (inb \o (way \o (queued \o data))) = (rcvd \o (inb \o (way \o queued))) \o data
    <2>1. way \o (queued \o data) = (way \o queued) \o data /\ way \o queued \in Seq(DataUnit)
        BY <1>4, <1>5, <1>8
    <2>2. /\ inb \o ((way \o queued) \o data) = (inb \o (way \o queued)) \o data
          /\ inb \o (way \o queued) \in Seq(DataUnit)
        BY <1>4, <1>5, <1>8, <2>1
    <2>3. rcvd \o ((inb \o (way \o queued)) \o data) = (rcvd \o (inb \o (way \o queued))) \o data
        BY <1>4, <1>5, <1>8, <2>2
    <2>. QED  BY <2>1, <2>2, <2>3
<1>10. (rcvd \o (inb \o (way \o queued)))' = Reliables(1, written[s] + size)
    BY <1>5, <1>6, <1>7, <1>9
<1>. QED  BY <1>1, <1>3, <1>10 DEF PipeInv, rcvd, inb, way, queued

LEMMA WriteMessagePipe ==
    ASSUME TypeOK, TypeOK', NEW s \in Endpoint, ChannelInv(s), PipeInv(s),
           NEW e \in Endpoint, NEW size \in WriteSizes, WriteMessage(e, size)
    PROVE  PipeInv(s)'
<1>1. UNCHANGED <<received, incomingbufs, accepted, composed, reliable_frag, reliable_buf,
                  network, incoming_sequence, fragbufs, waitlist>>
    BY DEF WriteMessage, seqVars, inVars
<1>2. CASE e = s /\ Len(message[e]) + size <= MessageSize
    <2>1. /\ message'[s] = message[s] \o Reliables(written[s] + 1, written[s] + size)
          /\ written'[s] = written[s] + size /\ size \in Nat
        <3>1. size \in Nat /\ Len(message[e]) \in Nat /\ MessageSize \in Nat
            BY NetChanAssumption DEF TypeOK
        <3>2. ~(Len(message[e]) + size > MessageSize)
            BY <1>2, <3>1
        <3>. QED  BY <1>2, <3>1, <3>2 DEF WriteMessage, TypeOK
    <2>2. Queued(s)' = Queued(s) \o Reliables(written[s] + 1, written[s] + size)
        <3>. DEFINE a == Joined(fragbufs[s][FRAG_NORMAL_STREAM])
                         \o Flat(waitlist[s][FRAG_NORMAL_STREAM])
                    data == Reliables(written[s] + 1, written[s] + size)
        <3>1. a \in Seq(DataUnit) /\ message[s] \in Seq(DataUnit) /\ data \in Seq(DataUnit)
            BY <2>1, PipeTypes, ConcatFacts, ReliablesConcat
        <3>2. Queued(s) = a \o message[s] /\ Queued(s)' = a \o (message[s] \o data)
            BY <1>1, <2>1 DEF Queued
        <3>. HIDE DEF a, data
        <3>4. \A x, y, z \in Seq(DataUnit) : (x \o y) \o z = x \o (y \o z)
            BY ConcatFacts
        <3>3. (a \o message[s]) \o data = a \o (message[s] \o data)
            BY <3>1, <3>4
        <3>. QED  BY <3>2, <3>3 DEF data
    <2>. QED  BY <1>1, <2>1, <2>2, PipeHandOver
<1>3. CASE ~(e = s /\ Len(message[e]) + size <= MessageSize)
    <2>1. message'[s] = message[s] /\ written'[s] = written[s]
        BY <1>3 DEF WriteMessage, TypeOK
    <2>. QED  BY <1>1, <2>1, PipeFrame
<1>. QED  BY <1>2, <1>3

LEMMA SendResourcesPipe ==
    ASSUME TypeOK, TypeOK', PipeInv(NS_SERVER), NEW size \in ResourceSizes, SendResources(size)
    PROVE  PipeInv(NS_SERVER)'
<1>. DEFINE s == NS_SERVER
            bufs == fragbufs[s][FRAG_NORMAL_STREAM]
            old == waitlist[s][FRAG_NORMAL_STREAM]
            staged == message[s]
            data == Reliables(written[s] + 1, written[s] + size)
            between == Enqueue(old, Chain(staged, NormalChunk))
            waits == Enqueue(between, Chain(data, NormalChunk))
<1>1. /\ s \in Endpoint /\ size \in Nat /\ NormalChunk \in Nat \ {0}
      /\ FRAG_NORMAL_STREAM \in Stream
    BY PeerFacts, StreamFacts, NetChanAssumption
<1>2. /\ bufs \in Seq(DataFragment) /\ old \in Seq(Seq(DataFragment))
      /\ staged \in Seq(DataUnit) /\ data \in Seq(DataUnit) /\ written[s] \in Nat
    BY <1>1, PipeTypes, ReliablesConcat
<1>3. /\ fragbufs'[s][FRAG_NORMAL_STREAM] = PromotedBufs(bufs, waits)
      /\ waitlist'[s][FRAG_NORMAL_STREAM] = PromotedWaits(bufs, waits)
      /\ message'[s] = <<>> /\ written'[s] = written[s] + size
      /\ UNCHANGED <<received, incomingbufs, accepted, composed, reliable_frag, reliable_buf,
                     network, incoming_sequence>>
    <2>. DEFINE all == [waitlist[s] EXCEPT ![FRAG_NORMAL_STREAM] =
                          Enqueue(Enqueue(@, Chain(staged, NormalChunk)), Chain(data, NormalChunk))]
    <2>1. /\ waitlist' = [waitlist EXCEPT ![s] =
                             [i \in Stream |-> PromotedWaits(fragbufs[s][i], all[i])]]
          /\ fragbufs' = [fragbufs EXCEPT ![s] =
                             [i \in Stream |-> PromotedBufs(fragbufs[s][i], all[i])]]
          /\ message' = [message EXCEPT ![s] = <<>>]
          /\ written' = [written EXCEPT ![s] = @ + size]
          /\ UNCHANGED <<seqVars, reliable_buf, reliable_frag, inVars, network, received,
                         composed, accepted>>
        BY DEF SendResources
    <2>2. all[FRAG_NORMAL_STREAM] = waits
        BY <1>1 DEF TypeOK
    <2>. HIDE DEF all, waits
    <2>3. /\ fragbufs'[s] = [i \in Stream |-> PromotedBufs(fragbufs[s][i], all[i])]
          /\ waitlist'[s] = [i \in Stream |-> PromotedWaits(fragbufs[s][i], all[i])]
        BY <1>1, <2>1 DEF TypeOK
    <2>4. message'[s] = <<>> /\ written'[s] = written[s] + size
        BY <1>1, <2>1 DEF TypeOK
    <2>. QED  BY <1>1, <2>1, <2>2, <2>3, <2>4 DEF seqVars, inVars
<1>4. /\ Queued(s) = Joined(bufs) \o Flat(old) \o staged
      /\ Queued(s)' = Joined(PromotedBufs(bufs, waits)) \o Flat(PromotedWaits(bufs, waits)) \o <<>>
    BY <1>3 DEF Queued
<1>. HIDE DEF bufs, old, staged, data
<1>5. /\ Chain(staged, NormalChunk) \in Seq(DataFragment)
      /\ Joined(Chain(staged, NormalChunk)) = staged
      /\ Chain(data, NormalChunk) \in Seq(DataFragment)
      /\ Joined(Chain(data, NormalChunk)) = data
    BY <1>1, <1>2, ChainType, JoinedChain
<1>6. between \in Seq(Seq(DataFragment)) /\ Flat(between) = Flat(old) \o staged
    BY <1>2, <1>5, EnqueueType, FlatEnqueue
<1>. HIDE DEF between
<1>7. waits \in Seq(Seq(DataFragment)) /\ Flat(waits) = (Flat(old) \o staged) \o data
    BY <1>5, <1>6, EnqueueType, FlatEnqueue
<1>. HIDE DEF waits
<1>8. Joined(bufs) \in Seq(DataUnit) /\ Flat(old) \in Seq(DataUnit)
    BY <1>2, JoinedType, FlatType
<1>. DEFINE b == Joined(bufs)
            o == Flat(old)
<1>9. Queued(s)' = b \o ((o \o staged) \o data)
    <2>1. Queued(s)' = (b \o ((o \o staged) \o data)) \o <<>>
        BY <1>2, <1>4, <1>7, PromotedFlow
    <2>2. b \o ((o \o staged) \o data) \in Seq(DataUnit)
        BY <1>2, <1>8, ConcatFacts
    <2>. QED  BY <2>1, <2>2, ConcatFacts
<1>10. Queued(s) = (b \o o) \o staged
    BY <1>4
<1>11. Queued(s)' = Queued(s) \o data
    <2>. HIDE DEF b, o
    <2>1. b \in Seq(DataUnit) /\ o \in Seq(DataUnit)
        BY <1>8 DEF b, o
    <2>2. /\ \A x, y \in Seq(DataUnit) : x \o y \in Seq(DataUnit)
          /\ \A x, y, z \in Seq(DataUnit) : (x \o y) \o z = x \o (y \o z)
        BY ConcatFacts
    <2>3. (b \o o) \o staged = b \o (o \o staged) /\ o \o staged \in Seq(DataUnit)
        BY <1>2, <2>1, <2>2
    <2>4. (b \o (o \o staged)) \o data = b \o ((o \o staged) \o data)
        BY <1>2, <2>1, <2>2, <2>3
    <2>. QED  BY <1>9, <1>10, <2>3, <2>4
<1>. QED  BY <1>1, <1>3, <1>11, PipeHandOver DEF data

\* A new payload takes the first of what is queued, and nothing overtakes.
LEMMA ComposePipe ==
    ASSUME ChunksFit, TypeOK, FragmentsFit, NEW s \in Endpoint,
           SingleStream(s), reliable_buf[s] = <<>>, Compose(s)
    PROVE  /\ reliable_buf'[s] \o Queued(s)' = Queued(s)
           /\ reliable_frag'[s][FRAG_FILE_STREAM] = NoHeader
           /\ reliable_frag'[s][FRAG_NORMAL_STREAM].id = 0 =>
                 incomingbufs[Peer(s)][FRAG_NORMAL_STREAM] = <<>>
<1>. DEFINE N == FRAG_NORMAL_STREAM
            F == FRAG_FILE_STREAM
            bufs == fragbufs[s][N]
            old == waitlist[s][N]
            active == ActiveBufs(s)[N]
            waits == ActiveWaits(s)[N]
            staged == message[s]
            chain == Chain(staged, NormalChunk)
<1>1. N \in Stream /\ F \in Stream /\ N # F /\ NormalChunk \in Nat \ {0}
    BY StreamFacts, NetChanAssumption
<1>2. /\ bufs \in Seq(DataFragment) /\ old \in Seq(Seq(DataFragment)) /\ staged \in Seq(DataUnit)
      /\ bufs \in Tails /\ old \in Seq(Wholes)
      /\ active = PromotedBufs(bufs, old) /\ waits = PromotedWaits(bufs, old)
      /\ active \in Seq(DataFragment) /\ waits \in Seq(Seq(DataFragment))
    BY <1>1, PipeTypes, ActiveType DEF SingleStream, Queues, ActiveBufs, ActiveWaits
<1>3. ActiveBufs(s)[F] = <<>> /\ \A used : ~Takes(s, F, used)
    BY <1>1 DEF SingleStream, ActiveBufs, PromotedBufs, Promotes, Takes
<1>4. \A used : Piece(s, F, used) = <<>> /\ HeaderOf(s, F, used) = NoHeader
    BY <1>3 DEF Piece, HeaderOf
<1>5. Regular(s) \in Seq(DataUnit) /\ Used(s, N) = Len(Regular(s)) + 0 /\ Used(s, N) \in Nat
    BY <1>1, UsedType DEF Used
<1>6. Piece(s, N, Used(s, N)) \in Seq(DataUnit)
    BY <1>1, <1>5, PieceType
<1>7. /\ reliable_buf'[s] = Regular(s) \o Piece(s, N, Used(s, N)) \o Piece(s, F, Used(s, F))
      /\ reliable_frag'[s] = [i \in Stream |-> HeaderOf(s, i, Used(s, i))]
      /\ fragbufs'[s] = [i \in Stream |-> IF Takes(s, i, Used(s, i)) THEN Tail(ActiveBufs(s)[i])
                                                                     ELSE ActiveBufs(s)[i]]
      /\ waitlist'[s] = [i \in Stream |-> IF i = N /\ Requeues(s)
                                          THEN Enqueue(ActiveWaits(s)[i], chain)
                                          ELSE ActiveWaits(s)[i]]
      /\ message'[s] = IF Stalled(s) /\ ~Requeues(s) THEN staged ELSE <<>>
    BY <1>1 DEF Compose, TypeOK
<1>8. /\ reliable_buf'[s] = Regular(s) \o Piece(s, N, Used(s, N))
      /\ reliable_frag'[s][F] = NoHeader /\ reliable_frag'[s][N] = HeaderOf(s, N, Used(s, N))
      /\ fragbufs'[s][N] = IF Takes(s, N, Used(s, N)) THEN Tail(active) ELSE active
      /\ waitlist'[s][N] = IF Requeues(s) THEN Enqueue(waits, chain) ELSE waits
    <2>1. Regular(s) \o Piece(s, N, Used(s, N)) \in Seq(DataUnit)
        BY <1>5, <1>6, ConcatFacts
    <2>2. (Regular(s) \o Piece(s, N, Used(s, N))) \o <<>> = Regular(s) \o Piece(s, N, Used(s, N))
        BY <2>1, ConcatFacts
    <2>3. reliable_buf'[s] = Regular(s) \o Piece(s, N, Used(s, N)) \o <<>>
        BY <1>4, <1>7
    <2>4. /\ reliable_frag'[s][F] = HeaderOf(s, F, Used(s, F))
          /\ reliable_frag'[s][N] = HeaderOf(s, N, Used(s, N))
          /\ fragbufs'[s][N] = IF Takes(s, N, Used(s, N)) THEN Tail(active) ELSE active
          /\ waitlist'[s][N] = IF Requeues(s) THEN Enqueue(waits, chain) ELSE waits
        BY <1>1, <1>7
    <2>. QED  BY <1>4, <2>2, <2>3, <2>4
<1>9. Joined(active) \o Flat(waits) = Joined(bufs) \o Flat(old)
    BY <1>2, PromotedFlow
<1>10. chain \in Seq(DataFragment) /\ Joined(chain) = staged
    BY <1>1, <1>2, ChainType, JoinedChain
<1>11. /\ Queued(s) = (Joined(active) \o Flat(waits)) \o staged
       /\ Queued(s)' = (Joined(fragbufs'[s][N]) \o Flat(waitlist'[s][N])) \o message'[s]
    BY <1>9 DEF Queued
<1>12. /\ Stalled(s) <=> staged # <<>> /\ active # <<>>
       /\ Regular(s) = IF Stalled(s) THEN <<>> ELSE staged
       /\ Requeues(s) => Stalled(s)
       /\ \A used : Takes(s, N, used) <=>
             active # <<>> /\ used + Len(Head(active).data) < MAX_RELIABLE_PAYLOAD
       /\ \A used : Takes(s, N, used) => /\ Piece(s, N, used) = Head(active).data
                                         /\ HeaderOf(s, N, used).id = Head(active).id
       /\ \A used : ~Takes(s, N, used) => /\ Piece(s, N, used) = <<>>
                                          /\ HeaderOf(s, N, used) = NoHeader
    BY DEF Stalled, Regular, Requeues, Takes, Piece, HeaderOf
<1>13. Joined(active) \in Seq(DataUnit) /\ Flat(waits) \in Seq(DataUnit)
    BY <1>2, JoinedType, FlatType
<1>14. Joined(<<>>) = <<>> /\ Flat(<<>>) = <<>> /\ Len(<<>>) = 0
    BY JoinedNothing, FlatNothing, EmptySeq
<1>15. CASE active = <<>>
    <2>1. bufs = <<>> /\ waits = <<>>
        <3>1. CASE Promotes(bufs, old)
            <4>1. old # <<>> /\ active = Head(old)
                BY <1>2, <3>1 DEF Promotes, PromotedBufs
            <4>2. Head(old) \in Wholes
                BY <1>2, <4>1, HeadTailProperties
            <4>. QED  BY <1>15, <4>1, <4>2 DEF Wholes
        <3>2. CASE ~Promotes(bufs, old)
            BY <1>2, <1>15, <3>2 DEF Promotes, PromotedBufs, PromotedWaits
        <3>. QED  BY <3>1, <3>2
    <2>2. incomingbufs[Peer(s)][N] = <<>>
        BY <2>1 DEF SingleStream
    <2>3. ~Stalled(s) /\ ~Requeues(s) /\ ~Takes(s, N, Used(s, N)) /\ Regular(s) = staged
        BY <1>12, <1>15
    <2>4. reliable_buf'[s] = staged
        BY <1>2, <1>8, <1>12, <2>3, ConcatFacts
    <2>5. /\ fragbufs'[s][N] = <<>> /\ waitlist'[s][N] = <<>> /\ message'[s] = <<>>
        BY <1>7, <1>8, <1>15, <2>1, <2>3
    <2>8. <<>> \o <<>> = <<>> /\ <<>> \o staged = staged
        BY <1>2, ConcatFacts
    <2>6. Queued(s)' = <<>> /\ Queued(s) = staged
        BY <1>11, <1>14, <1>15, <2>1, <2>5, <2>8
    <2>7. staged \o <<>> = staged
        BY <1>2, ConcatFacts
    <2>. QED  BY <1>8, <2>2, <2>4, <2>6, <2>7
<1>16. CASE active # <<>>
    <2>1. /\ active \in Tails /\ Head(active) = active[1] /\ active[1] \in FittingFragment
          /\ active[1].id \in 1..active[1].count /\ active[1].count \in Nat
        BY <1>2, <1>16, PromotedKeeps, TailFollows
    <2>. DEFINE data == Head(active).data
                rest == Joined(Tail(active))
                after == Flat(waits)
    <2>2. /\ data \in Seq(DataUnit) /\ Len(data) \in Nat /\ Len(data) < MAX_RELIABLE_PAYLOAD
          /\ Head(active).id # 0
        BY <2>1, FragmentFields
    <2>3. Regular(s) = <<>>
        BY <1>12, <1>16
    <2>4. Used(s, N) = 0
        BY <1>5, <1>14, <2>3
    <2>5. Takes(s, N, Used(s, N))
        <3>1. 0 + Len(data) < MAX_RELIABLE_PAYLOAD
            BY <2>2
        <3>. QED  BY <1>12, <1>16, <2>4, <3>1
    <2>6. /\ reliable_buf'[s] = data /\ reliable_frag'[s][N].id # 0
          /\ fragbufs'[s][N] = Tail(active)
        <3>1. <<>> \o data = data
            BY <2>2, ConcatFacts
        <3>. QED  BY <1>8, <1>12, <2>2, <2>3, <2>5, <3>1
    <2>7. Joined(active) = data \o rest /\ rest \in Seq(DataUnit)
        BY <1>2, <1>16, HeadTailProperties, JoinedHeadTail, JoinedType
    <2>8. Flat(waitlist'[s][N]) \o message'[s] = after \o staged
          /\ Flat(waitlist'[s][N]) \in Seq(DataUnit) /\ message'[s] \in Seq(DataUnit)
        <3>1. CASE Requeues(s)
            <4>1. waitlist'[s][N] = Enqueue(waits, chain) /\ message'[s] = <<>>
                BY <1>7, <1>8, <3>1
            <4>2. Flat(waitlist'[s][N]) = after \o staged
                BY <1>2, <1>10, <4>1, FlatEnqueue
            <4>3. after \o staged \in Seq(DataUnit)
                BY <1>2, <1>13, ConcatFacts
            <4>. QED  BY <4>1, <4>2, <4>3, ConcatFacts
        <3>2. CASE ~Requeues(s)
            <4>1. waitlist'[s][N] = waits /\ message'[s] = staged
                BY <1>7, <1>8, <1>12, <1>16, <3>2
            <4>. QED  BY <1>2, <1>13, <4>1
        <3>. QED  BY <3>1, <3>2
    <2>9. /\ Queued(s)' = (rest \o Flat(waitlist'[s][N])) \o message'[s]
          /\ Queued(s) = ((data \o rest) \o after) \o staged
        BY <1>11, <2>6, <2>7
    <2>. DEFINE w == Flat(waitlist'[s][N])
                m == message'[s]
    <2>11. /\ data \in Seq(DataUnit) /\ rest \in Seq(DataUnit) /\ after \in Seq(DataUnit)
           /\ staged \in Seq(DataUnit) /\ w \in Seq(DataUnit) /\ m \in Seq(DataUnit)
           /\ w \o m = after \o staged
        BY <1>2, <1>13, <2>2, <2>7, <2>8
    <2>12. Queued(s)' = (rest \o w) \o m /\ Queued(s) = ((data \o rest) \o after) \o staged
        BY <2>9
    <2>. HIDE DEF data, rest, after, staged, w, m
    <2>13. (rest \o w) \o m = rest \o (after \o staged)
        <3>1. (rest \o w) \o m = rest \o (w \o m)
            BY ZenonT(30), <2>11, Rebracket3
        <3>. QED  BY <2>11, <3>1
    <2>14. ((data \o rest) \o after) \o staged = data \o (rest \o (after \o staged))
        <3>1. /\ data \in Seq(DataUnit) /\ rest \in Seq(DataUnit) /\ after \in Seq(DataUnit)
              /\ staged \in Seq(DataUnit)
            BY <2>11
        <3>. DEFINE dr == data \o rest
                    as == after \o staged
        <3>2. dr \in Seq(DataUnit) /\ as \in Seq(DataUnit)
            BY <3>1, DataConcat
        <3>3. (dr \o after) \o staged = dr \o as
            <4>. HIDE DEF dr
            <4>. QED  BY SMTT(30), <3>1, <3>2, ConcatAssociative
        <3>4. dr \o as = data \o (rest \o as)
            <4>. HIDE DEF as
            <4>. QED  BY ZenonT(30), <3>1, <3>2, Rebracket3
        <3>. QED  BY <3>3, <3>4
    <2>15. data \o Queued(s)' = Queued(s)
        BY <2>12, <2>13, <2>14
    <2>. QED  BY <1>8, <2>6, <2>15 DEF data
<1>. QED  BY <1>15, <1>16

LEMMA TransmitPipe ==
    ASSUME ChunksFit, TypeOK, TypeOK', FragmentsFit, NEW s \in Endpoint, ChannelInv(s),
           SingleStream(s), PipeInv(s), NEW datagram \in Datagrams, TransmitBits(s, datagram)
    PROVE  PipeInv(s)'
<1>. DEFINE r == Peer(s)
            N == FRAG_NORMAL_STREAM
<1>1. PICK p : /\ Sends(s, p)
               /\ ~p.reliable => p.frag = [i \in Stream |-> NoHeader] /\ p.body = datagram
               /\ p.reliable => /\ p.frag = reliable_frag'[s]
                                /\ p.body = reliable_buf'[s] \o datagram
               /\ p.reliable <=> \/ reliable_buf[s] = <<>> /\ HasReliable(s)
                                 \/ NeedsResend(s)
    BY PacketSent
<1>2. /\ network' = network \cup {p} /\ p.from = s
      /\ UNCHANGED <<incoming_sequence, incomingbufs, accepted, received, written>>
    BY <1>1, TransmitOthers DEF Sends
<1>3. Packets(s)
    BY DEF PipeInv
<1>4. CASE TransmitAgain(s, datagram)
    <2>1. UNCHANGED <<message, reliable_buf, reliable_frag, waitlist, fragbufs, composed>>
        BY <1>4 DEF TransmitAgain
    <2>2. CaughtUp(s)' <=> CaughtUp(s)
        BY <1>2, <2>1 DEF CaughtUp
    <2>3. UnderWay(s)' = UnderWay(s) /\ Queued(s)' = Queued(s)
        BY <2>1, <2>2 DEF UnderWay, Queued
    <2>4. Packets(s)'
        BY <1>1, <1>2, <1>3, <2>1 DEF Packets
    <2>. QED  BY <1>2, <2>1, <2>2, <2>3, <2>4 DEF PipeInv
<1>5. CASE TransmitNew(s, datagram)
    <2>1. reliable_buf[s] = <<>> /\ Compose(s)
        BY <1>5 DEF TransmitNew
    <2>2. CaughtUp(s) /\ ~NeedsResend(s) /\ (p.reliable <=> HasReliable(s))
        BY <1>1, <2>1 DEF ChannelInv, Acks, NeedsResend
    <2>3. /\ composed'[s] = IF HasReliable(s) THEN composed[s] + 1 ELSE composed[s]
          /\ composed[s] \in Nat
        BY <2>1 DEF Compose, TypeOK
    <2>4. CaughtUp(s)' <=> ~HasReliable(s)
        BY <1>2, <2>2, <2>3 DEF CaughtUp
    <2>5. /\ reliable_buf'[s] \o Queued(s)' = Queued(s)
          /\ reliable_frag'[s][FRAG_FILE_STREAM] = NoHeader
          /\ reliable_frag'[s][N].id = 0 => incomingbufs[r][N] = <<>>
        BY <2>1, ComposePipe
    <2>6. UnderWay(s) = <<>> /\ UnderWay(s)' = reliable_buf'[s]
        BY <2>1, <2>2, <2>4, PayloadNotEmpty DEF UnderWay
    <2>7. <<>> \o Queued(s) = Queued(s)
        BY PipeTypes, ConcatFacts
    <2>8. \A q \in network : q.from = s /\ q.reliable => ~(q.seq > incoming_sequence[r])
        BY <2>2 DEF ChannelInv, Payloads
    <2>9. Packets(s)'
        BY <1>1, <1>2, <1>3, <2>8 DEF Packets
    <2>10. (UnderWay(s) \o Queued(s))' = UnderWay(s) \o Queued(s)
        BY <2>5, <2>6, <2>7
    <2>. QED  BY <1>2, <2>5, <2>9, <2>10 DEF PipeInv
<1>. QED  BY <1>4, <1>5 DEF TransmitBits

\* The fragment that is all of the payload is cut out right.
LEMMA DataAtFront ==
    ASSUME NEW payload \in Seq(DataUnit), NEW datagram \in Datagrams, NEW h, h.len = Len(payload)
    PROVE  DataAt(payload \o datagram, h) = payload
<1>. DEFINE body == payload \o datagram
<1>1. datagram \in Seq(Unit) /\ payload \in Seq(Unit)
    BY DatagramsType, DataType
<1>2. /\ Len(payload) \in Nat /\ Len(datagram) \in Nat
      /\ Len(body) = Len(payload) + Len(datagram)
      /\ \A k \in 1..Len(payload) : body[k] = payload[k]
    BY <1>1, ConcatProperties, LenProperties
<1>3. DataAt(body, h) = [k \in 1..Len(payload) |-> payload[k]]
    BY <1>2 DEF DataAt
<1>. QED  BY <1>3, LenProperties

\* What the peer gets out of a packet.
LEMMA AcceptedFlow ==
    ASSUME TypeOK, NEW s \in Endpoint, ChannelInv(s), PipeInv(s), NextFragment(s),
           NEW p \in network, p.from = s, p.seq > incoming_sequence[Peer(s)]
    PROVE  LET inb == incomingbufs[Peer(s)][FRAG_NORMAL_STREAM]
               new == BufsAfter(Peer(s), p, FRAG_NORMAL_STREAM)
           IN  /\ Parsed(Rest(p)) \in Seq(DataUnit) /\ new \in Seq(DataFragment)
               /\ ~p.reliable => Parsed(Rest(p)) = <<>> /\ new = inb
               /\ p.reliable => /\ ~CaughtUp(s)
                                /\ Parsed(Rest(p)) \o Joined(new) = Joined(inb) \o reliable_buf[s]
<1>. DEFINE r == Peer(s)
            N == FRAG_NORMAL_STREAM
            F == FRAG_FILE_STREAM
            inb == incomingbufs[r][N]
            new == BufsAfter(r, p, N)
            h == reliable_frag[s][N]
            rb == reliable_buf[s]
<1>1. /\ N \in Stream /\ F \in Stream /\ r \in Endpoint /\ NoHeader.id = 0
    BY StreamFacts, PeerFacts DEF NoHeader
<1>2. /\ inb \in Seq(DataFragment) /\ rb \in Seq(DataUnit) /\ Joined(inb) \in Seq(DataUnit)
      /\ p.reliable \in BOOLEAN /\ h \in Header /\ Joined(<<>>) = <<>>
    BY <1>1, PipeTypes, JoinedType, JoinedNothing, ProtocolTypes DEF PipeInv, TypeOK
<1>3. CASE ~p.reliable
    <2>1. p.frag = [i \in Stream |-> NoHeader] /\ p.body \in Seq(DatagramUnit)
        BY <1>3, NetChanAssumption DEF PipeInv, Packets
    <2>2. new = inb /\ Rest(p) = p.body
        BY <1>1, <2>1 DEF BufsAfter, Rest
    <2>3. Parsed(Rest(p)) = <<>> /\ <<>> \in Seq(DataUnit)
        BY <2>1, <2>2, ParsedDatagram, ConcatFacts
    <2>. QED  BY <1>2, <1>3, <2>2, <2>3
<1>4. CASE p.reliable
    <2>1. ~CaughtUp(s) /\ p.frag = reliable_frag[s] /\ p.frag[F] = NoHeader
        BY <1>4 DEF PipeInv, Packets, ChannelInv, Payloads
    <2>2. PICK datagram \in Datagrams : p.body = rb \o datagram
        BY <1>4 DEF PipeInv, Packets
    <2>3. datagram \in Seq(DatagramUnit)
        BY NetChanAssumption
    <2>4. CASE h.id = 0
        <3>1. inb = <<>>
            BY <2>1, <2>4 DEF PipeInv
        <3>2. new = inb /\ Rest(p) = p.body
            BY <1>1, <2>1, <2>4 DEF BufsAfter, Rest
        <3>3. Parsed(Rest(p)) = rb
            BY <1>2, <2>2, <2>3, <3>2, ParsedData
        <3>4. rb \o <<>> = rb /\ <<>> \o rb = rb
            BY <1>2, ConcatFacts
        <3>. QED  BY <1>2, <1>4, <2>1, <3>1, <3>2, <3>3, <3>4
    <2>5. CASE h.id # 0
        <3>1. /\ h.start = 0 /\ h.len = Len(rb)
              /\ h.id = Len(inb) + 1 /\ h.id <= h.count
              /\ IsStart(inb) /\ (inb # <<>> => CountOf(inb) = h.count)
            BY <2>1, <2>5 DEF NextFragment
        <3>. DEFINE buf == [id |-> h.id, count |-> h.count, data |-> DataAt(p.body, h)]
        <3>2. new = Store(inb, buf)
            BY <1>1, <2>1, <2>5, StreamFacts DEF BufsAfter, BodyAt
        <3>3. DataAt(p.body, h) = rb
            BY SMTT(30), <1>2, <2>2, <3>1, DataAtFront
        <3>4. buf \in DataFragment /\ buf.data = rb /\ buf.id = h.id /\ buf.count = h.count
              /\ buf \in Fragment
            <4>1. h.id \in Nat /\ h.count \in Nat
                BY <1>2 DEF Header
            <4>2. rb \in Seq(Unit)
                BY <1>2, DataType
            <4>. QED  BY <1>2, <3>3, <4>1, <4>2 DEF DataFragment, Fragment
        <3>. HIDE DEF buf
        <3>5. inb \in Seq(Fragment)
            BY <1>1 DEF TypeOK
        <3>6. new = Append(inb, buf)
            BY <3>1, <3>2, <3>4, <3>5, StoreAppends
        <3>7. new \in Seq(DataFragment) /\ Joined(new) = Joined(inb) \o rb
            BY ZenonT(30), <1>2, <3>4, <3>6, AppendProperties, JoinedAppend
        <3>8. Parsed(Rest(p)) = <<>>
            <4>1. rb \in Seq(Unit)
                BY <1>2, DataType
            <4>2. Other(N) = F
                BY DEF Other
            <4>. QED  BY <1>1, <1>2, <2>1, <2>2, <2>5, <3>1, <4>1, <4>2, AloneParsed
        <3>9. <<>> \o Joined(new) = Joined(new) /\ <<>> \in Seq(DataUnit)
            BY <3>7, JoinedType, ConcatFacts
        <3>. QED  BY <1>4, <2>1, <3>7, <3>8, <3>9
    <2>. QED  BY <2>4, <2>5
<1>. QED  BY <1>2, <1>3, <1>4

LEMMA AcceptPipe ==
    ASSUME TypeOK, NEW s \in Endpoint, ChannelInv(s), PipeInv(s), NextFragment(s),
           NEW p \in network, p.from = s, p.seq > incoming_sequence[Peer(s)],
           AcceptPacket(Peer(s), p),
           UNCHANGED <<message, reliable_frag, waitlist, fragbufs, network, written, composed>>,
           received'[Peer(s)] = received[Peer(s)] \o Parsed(Rest(p)),
           incomingbufs'[Peer(s)][FRAG_NORMAL_STREAM] = BufsAfter(Peer(s), p, FRAG_NORMAL_STREAM)
    PROVE  PipeInv(s)'
<1>. DEFINE r == Peer(s)
            inb == incomingbufs[r][FRAG_NORMAL_STREAM]
            new == BufsAfter(r, p, FRAG_NORMAL_STREAM)
            rb == reliable_buf[s]
            rcvd == received[r]
            seen == Parsed(Rest(p))
            queued == Queued(s)
<1>1. /\ r \in Endpoint /\ r # s /\ p.reliable \in BOOLEAN /\ p.seq \in Nat
      /\ incoming_sequence[r] \in Nat /\ \A q \in network : q.seq \in Nat
    BY PeerFacts, ProtocolTypes
<1>2. /\ incoming_sequence'[r] = p.seq /\ reliable_buf'[s] = rb
      /\ accepted'[r] = (IF p.reliable THEN Append(accepted[r], p.batch) ELSE accepted[r])
    BY <1>1 DEF AcceptPacket, TypeOK
<1>3. /\ seen \in Seq(DataUnit) /\ new \in Seq(DataFragment)
      /\ ~p.reliable => seen = <<>> /\ new = inb
      /\ p.reliable => ~CaughtUp(s) /\ seen \o Joined(new) = Joined(inb) \o rb
    BY AcceptedFlow
<1>4. /\ rcvd \in Seq(DataUnit) /\ inb \in Seq(DataFragment) /\ rb \in Seq(DataUnit)
      /\ queued \in Seq(DataUnit) /\ Joined(inb) \in Seq(DataUnit)
      /\ rcvd \o (Joined(inb) \o (UnderWay(s) \o queued)) = Reliables(1, written[s])
    BY PipeTypes, JoinedType DEF PipeInv
<1>5. queued' = queued
    BY DEF Queued
<1>6. Packets(s)'
    <2>1. \A q \in network : q.seq > p.seq => q.seq > incoming_sequence[r]
        BY <1>1
    <2>. QED  BY ZenonT(30), <1>1, <1>2, <2>1 DEF PipeInv, Packets
<1>7. received'[r] \in Seq(DataUnit)
    BY <1>3, <1>4, ConcatFacts
<1>8. CASE ~p.reliable
    <2>1. CaughtUp(s)' <=> CaughtUp(s)
        BY <1>2, <1>8 DEF CaughtUp
    <2>2. UnderWay(s)' = UnderWay(s)
        BY <1>2, <2>1 DEF UnderWay
    <2>3. received'[r] = rcvd
        BY <1>3, <1>4, <1>8, ConcatFacts
    <2>. QED  BY <1>3, <1>4, <1>5, <1>6, <1>7, <1>8, <2>1, <2>2, <2>3 DEF PipeInv
<1>9. CASE p.reliable
    <2>1. CaughtUp(s)'
        <3>1. accepted[r] \in Seq(Nat) /\ p.batch \in Nat /\ composed[s] \in Nat
            BY <1>1 DEF TypeOK, Packet
        <3>2. Len(accepted'[r]) = Len(accepted[r]) + 1
            BY <1>2, <1>9, <3>1, AppendProperties
        <3>3. Len(accepted[r]) = composed[s] - 1
            BY <1>3, <1>9 DEF ChannelInv, Counts
        <3>. QED  BY <3>1, <3>2, <3>3 DEF CaughtUp
    <2>2. UnderWay(s) = rb /\ UnderWay(s)' = <<>>
        BY <1>3, <1>9, <2>1 DEF UnderWay
    <2>. DEFINE j == Joined(inb)
                jn == Joined(new)
    <2>3. j \in Seq(DataUnit) /\ jn \in Seq(DataUnit) /\ seen \o jn = j \o rb
        BY <1>3, <1>4, <1>9, JoinedType
    <2>4. (received[r] \o (j \o (UnderWay(s) \o queued)))'
              = (rcvd \o seen) \o (jn \o (<<>> \o queued))
        BY <1>5, <2>2
    <2>5. rcvd \o (j \o (rb \o queued)) = Reliables(1, written[s])
        BY <1>4, <2>2
    <2>. HIDE DEF j, jn, seen, rcvd, queued, rb
    <2>6. <<>> \o queued = queued
        BY <1>4, ConcatFacts
    <2>7. (rcvd \o seen) \o (jn \o queued) = rcvd \o (seen \o (jn \o queued))
        <3>. DEFINE tail == jn \o queued
        <3>1. tail \in Seq(DataUnit)
            BY <1>4, <2>3, DataConcat
        <3>. HIDE DEF tail
        <3>2. rcvd \in Seq(DataUnit) /\ seen \in Seq(DataUnit)
            BY <1>3, <1>4
        <3>3. (rcvd \o seen) \o tail = rcvd \o (seen \o tail)
            BY SMTT(30), <3>1, <3>2, ConcatAssociative
        <3>. QED  BY <3>3 DEF tail
    <2>8. seen \o (jn \o queued) = (seen \o jn) \o queued
        <3>1. seen \in Seq(DataUnit) /\ jn \in Seq(DataUnit) /\ queued \in Seq(DataUnit)
            BY <1>3, <1>4, <2>3
        <3>. QED  BY SMTT(30), <3>1, ConcatAssociative
    <2>9. (j \o rb) \o queued = j \o (rb \o queued)
        <3>1. j \in Seq(DataUnit) /\ rb \in Seq(DataUnit) /\ queued \in Seq(DataUnit)
            BY <1>4, <2>3
        <3>. QED  BY SMTT(30), <3>1, ConcatAssociative
    <2>10. (rcvd \o seen) \o (jn \o (<<>> \o queued)) = Reliables(1, written[s])
        BY <2>3, <2>5, <2>6, <2>7, <2>8, <2>9
    <2>11. (received[r] \o (j \o (UnderWay(s) \o queued)))' = Reliables(1, written[s])
        BY <2>4, <2>10
    <2>. QED  BY <1>3, <1>6, <1>7, <2>1, <2>11 DEF PipeInv, j, queued
<1>. QED  BY <1>1, <1>8, <1>9

\* The chain that is complete is copied out.
LEMMA ReadDoneReceives ==
    ASSUME DOMAIN received = Endpoint, PipeInv(NS_SERVER), ReadDone
    PROVE  LET data == IF incomingready[NS_CLIENT][FRAG_NORMAL_STREAM]
                       THEN Joined(incomingbufs[NS_CLIENT][FRAG_NORMAL_STREAM]) ELSE <<>>
           IN  data \in Seq(DataUnit) /\ received'[NS_CLIENT] = received[NS_CLIENT] \o data
<1>. DEFINE inb == incomingbufs[NS_CLIENT][FRAG_NORMAL_STREAM]
            ready == incomingready[NS_CLIENT][FRAG_NORMAL_STREAM]
<1>1. /\ NS_CLIENT \in Endpoint /\ inb \in Seq(DataFragment) /\ Joined(inb) \in Seq(DataUnit)
      /\ <<>> \in Seq(DataUnit)
    BY PeerFacts, JoinedType, EmptySeq DEF PipeInv
<1>2. received' = [received EXCEPT ![NS_CLIENT] = @ \o Parsed(Copied(inb, ready))]
    BY DEF ReadDone
<1>3. \A data \in Seq(DataUnit) : Parsed(data) = data
    <2>1. <<>> \in Seq(DatagramUnit) /\ \A data \in Seq(DataUnit) : data \o <<>> = data
        BY EmptySeq, ConcatFacts
    <2>. QED  BY <2>1, ParsedData
<1>. QED  BY <1>1, <1>2, <1>3 DEF Copied

LEMMA ReadDonePipe ==
    ASSUME TypeOK, DOMAIN received = Endpoint, PipeInv(NS_SERVER), ReadDone
    PROVE  PipeInv(NS_SERVER)'
<1>. DEFINE s == NS_SERVER
            c == NS_CLIENT
            inb == incomingbufs[c][FRAG_NORMAL_STREAM]
            ready == incomingready[c][FRAG_NORMAL_STREAM]
            rcvd == received[c]
            after == UnderWay(s) \o Queued(s)
<1>1. /\ s \in Endpoint /\ c \in Endpoint /\ Peer(s) = c /\ FRAG_NORMAL_STREAM \in Stream
    BY PeerFacts, StreamFacts
<1>2. /\ UNCHANGED <<incoming_sequence, accepted, composed, network, written>>
      /\ UNCHANGED <<message, reliable_buf, reliable_frag, waitlist, fragbufs>>
    BY DEF ReadDone, seqVars, sendVars
<1>3. /\ rcvd \in Seq(DataUnit) /\ inb \in Seq(DataFragment) /\ after \in Seq(DataUnit)
      /\ rcvd \o (Joined(inb) \o after) = Reliables(1, written[s])
      /\ Joined(inb) \in Seq(DataUnit)
    BY <1>1, PipeTypes, JoinedType, DataConcat DEF PipeInv
<1>4. incomingbufs'[c][FRAG_NORMAL_STREAM] = IF ready THEN <<>> ELSE inb
    BY <1>1 DEF ReadDone, TypeOK
<1>6. CaughtUp(s)' <=> CaughtUp(s)
    BY <1>2 DEF CaughtUp
<1>7. UnderWay(s)' = UnderWay(s) /\ Queued(s)' = Queued(s)
    BY <1>2, <1>6 DEF UnderWay, Queued
<1>8. Packets(s)'
    BY <1>2 DEF PipeInv, Packets
<1>10. Joined(<<>>) = <<>> /\ <<>> \in Seq(DataUnit) /\ <<>> \in Seq(DataFragment)
    BY JoinedNothing, EmptySeq
<1>11. received'[c] = rcvd \o (IF ready THEN Joined(inb) ELSE <<>>)
    BY ReadDoneReceives
<1>12. received'[c] \in Seq(DataUnit)
    BY <1>3, <1>10, <1>11, DataConcat
<1>13. received'[c] \o (Joined(incomingbufs'[c][FRAG_NORMAL_STREAM]) \o after)
          = rcvd \o (Joined(inb) \o after)
    <2>1. CASE ready
        <3>1. received'[c] = rcvd \o Joined(inb) /\ incomingbufs'[c][FRAG_NORMAL_STREAM] = <<>>
            BY <1>4, <1>11, <2>1
        <3>2. <<>> \o after = after
            BY <1>3, ConcatFacts
        <3>. DEFINE j == Joined(inb)
        <3>3. rcvd \in Seq(DataUnit) /\ j \in Seq(DataUnit) /\ after \in Seq(DataUnit)
            BY <1>3
        <3>. HIDE DEF after, j, rcvd
        <3>4. (rcvd \o j) \o after = rcvd \o (j \o after)
            BY <3>3, ConcatAssociative
        <3>. QED  BY <1>10, <3>1, <3>2, <3>4 DEF j
    <2>2. CASE ~ready
        BY <1>3, <1>4, <1>11, <2>2, ConcatFacts
    <2>. QED  BY <2>1, <2>2
<1>. QED  BY <1>1, <1>2, <1>3, <1>4, <1>6, <1>7, <1>8, <1>10, <1>12, <1>13 DEF PipeInv

\* A packet is processed: it belongs to the one direction, and to the other
\* its acknowledgement matters.
LEMMA ProcessPipe ==
    ASSUME TypeOK, NEW s \in Endpoint, ChannelInv(s), PipeInv(s), NextFragment(s),
           NEW e \in Endpoint, NEW p \in network, p.from = Peer(e), Fresh(e, p),
           AcceptPacket(e, p),
           UNCHANGED <<message, reliable_frag, waitlist, fragbufs, network, written, composed>>,
           received'[Peer(e)] = received[Peer(e)],
           incomingbufs'[Peer(e)] = incomingbufs[Peer(e)],
           s = Peer(e) => /\ received'[e] = received[e] \o Parsed(Rest(p))
                          /\ incomingbufs'[e][FRAG_NORMAL_STREAM] = BufsAfter(e, p, FRAG_NORMAL_STREAM)
    PROVE  PipeInv(s)'
<1>1. /\ Peer(e) \in Endpoint /\ Peer(e) # e /\ Peer(Peer(e)) = e /\ (s = e \/ s = Peer(e))
      /\ p.seq > incoming_sequence[e]
    BY PeerFacts DEF Fresh, Endpoint, Peer
<1>2. CASE s = Peer(e)
    BY <1>1, <1>2, AcceptPipe
<1>3. CASE s = e
    <2>1. /\ incoming_sequence'[Peer(s)] = incoming_sequence[Peer(s)]
          /\ accepted'[Peer(s)] = accepted[Peer(s)]
          /\ reliable_buf'[s] = IF Acknowledges(s, p) THEN <<>> ELSE reliable_buf[s]
        BY <1>1, <1>3 DEF AcceptPacket, TypeOK
    <2>2. Acknowledges(s, p) => CaughtUp(s)
        BY <1>1, <1>3 DEF Acknowledges, ChannelInv, Acks
    <2>. QED  BY <1>1, <1>3, <2>1, <2>2, PipeFrame
<1>. QED  BY <1>1, <1>2, <1>3

\* What the steps below need of the direction from s.
LEMMA ClientSingle ==
    ASSUME TypeOK, ClientWhole
    PROVE  SingleStream(NS_CLIENT) /\ NextFragment(NS_CLIENT)
<1>. DEFINE s == NS_CLIENT
<1>1. /\ s \in Endpoint /\ Peer(s) = NS_SERVER
      /\ FRAG_NORMAL_STREAM \in Stream /\ FRAG_FILE_STREAM \in Stream
    BY PeerFacts, StreamFacts
<1>2. \A i \in Stream : /\ fragbufs[s][i] = <<>> /\ waitlist[s][i] = <<>>
                        /\ incomingbufs[NS_SERVER][i] = <<>> /\ reliable_frag[s][i] = NoHeader
    BY DEF ClientWhole
<1>3. fragbufs[s] \in [Stream -> Tails] /\ waitlist[s] \in [Stream -> Seq(Wholes)]
    <2>1. <<>> \in Tails /\ <<>> \in Seq(Wholes)
        <3>1. Len(<<>>) = 0 /\ 1..0 = {}
            BY EmptySeq
        <3>. QED  BY <3>1, EmptySeq DEF Tails, IsTail
    <2>2. fragbufs[s] = [i \in Stream |-> <<>>] /\ waitlist[s] = [i \in Stream |-> <<>>]
        BY <1>1, <1>2 DEF TypeOK
    <2>. QED  BY <2>1, <2>2
<1>. QED  BY <1>1, <1>2, <1>3 DEF SingleStream, Queues, NextFragment, NoHeader

LEMMA ServerSingle ==
    ASSUME MaxFiles = 0, TypeOK, ChannelInv(NS_SERVER), ChainsInv
    PROVE  SingleStream(NS_SERVER) /\ NextFragment(NS_SERVER)
<1>. DEFINE s == NS_SERVER
            N == FRAG_NORMAL_STREAM
            inb == incomingbufs[NS_CLIENT][N]
            h == reliable_frag[s][N]
<1>1. s \in Endpoint /\ Peer(s) = NS_CLIENT /\ N \in Stream
    BY PeerFacts, StreamFacts
<1>2. reliable_buf[s] = <<>> => CaughtUp(s)
    BY DEF ChannelInv, Acks
<1>3. /\ IsStart(inb)
      /\ incomingready[NS_CLIENT][N] <=> inb # <<>> /\ Len(inb) = CountOf(inb)
      /\ CaughtUp(s) => Follows(fragbufs[s][N], Len(inb), CountOf(inb))
      /\ ~CaughtUp(s) /\ h.id # 0 => /\ h.id = Len(inb) + 1 /\ h.id <= h.count
                                     /\ inb # <<>> => CountOf(inb) = h.count
    BY <1>1 DEF ChainsInv, Places
<1>4. ASSUME reliable_buf[s] = <<>>, fragbufs[s][N] = <<>> PROVE inb = <<>>
    <2>1. Len(inb) = CountOf(inb)
        BY <1>2, <1>3, <1>4 DEF Follows
    <2>2. ~incomingready[NS_CLIENT][N]
        BY <1>1, <1>4 DEF ChainsInv, Ready
    <2>. QED  BY <1>3, <2>1, <2>2
<1>5. SingleStream(s)
    BY <1>1, <1>4 DEF SingleStream, ChainsInv, Alone, Unmixed
<1>6. ASSUME ~CaughtUp(s), h.id # 0 PROVE h.start = 0 /\ h.len = Len(reliable_buf[s])
    BY <1>1, <1>2, <1>6 DEF ChainsInv, Alone, Unmixed
<1>7. NextFragment(s)
    BY <1>1, <1>3, <1>6 DEF NextFragment
<1>. QED  BY <1>5, <1>7

\* The steps that do not depend on which direction it is.
LEMMA TransmitAnyPipe ==
    ASSUME ChunksFit, TypeOK, TypeOK', FragmentsFit, NEW s \in Endpoint, ChannelInv(s),
           SingleStream(s), PipeInv(s), UNCHANGED received,
           NEW e \in Endpoint, NEW datagram \in Datagrams, TransmitBits(e, datagram)
    PROVE  PipeInv(s)'
<1>1. CASE e = s
    BY <1>1, TransmitPipe
<1>2. CASE e # s
    <2>1. UNCHANGED <<incoming_sequence, incomingbufs, accepted, written>>
        BY DEF TransmitBits
    <2>2. e = Peer(s)
        BY <1>2 DEF Endpoint, Peer
    <2>. QED  BY <1>2, <2>1, <2>2, TransmitOthers, PipeFrame
<1>. QED  BY <1>1, <1>2

LEMMA OtherSendsPipe ==
    ASSUME TypeOK, ChannelInv(NS_CLIENT), PipeInv(NS_CLIENT), NEW size,
           SendResources(size) \/ SendFile
    PROVE  PipeInv(NS_CLIENT)'
<1>1. NS_CLIENT \in Endpoint /\ NS_CLIENT # NS_SERVER
    BY PeerFacts
<1>2. /\ fragbufs'[NS_CLIENT] = fragbufs[NS_CLIENT] /\ waitlist'[NS_CLIENT] = waitlist[NS_CLIENT]
      /\ message'[NS_CLIENT] = message[NS_CLIENT] /\ written'[NS_CLIENT] = written[NS_CLIENT]
    BY <1>1 DEF SendResources, SendFile, TypeOK
<1>3. UNCHANGED <<received, incomingbufs, accepted, incoming_sequence, composed, reliable_frag,
                  reliable_buf, network>>
    BY DEF SendResources, SendFile, seqVars, inVars
<1>. QED  BY <1>1, <1>2, <1>3, PipeFrame

LEMMA UntouchedPipe ==
    ASSUME TypeOK, NEW s \in Endpoint, ChannelInv(s), PipeInv(s), HoldBack \/ UNCHANGED vars
    PROVE  PipeInv(s)'
<1>1. UNCHANGED <<received, incomingbufs, accepted, incoming_sequence, composed, reliable_frag,
                  fragbufs, waitlist, message, written, reliable_buf, network>>
    BY DEF HoldBack, vars, seqVars, sendVars, inVars, histVars
<1>. QED  BY <1>1, PipeFrame

\* The server gets no fragments, only what is in the packet.
LEMMA ServerProcessReceives ==
    ASSUME TypeOK, ChannelInv(NS_CLIENT), ClientWhole, DOMAIN received = Endpoint,
           PipeInv(NS_CLIENT), NEW p \in network, ServerProcess(p)
    PROVE  /\ Parsed(Rest(p)) \in Seq(DataUnit)
           /\ received'[NS_SERVER] = received[NS_SERVER] \o Parsed(Rest(p))
           /\ received'[NS_CLIENT] = received[NS_CLIENT]
<1>. DEFINE s == NS_CLIENT
            e == NS_SERVER
            N == FRAG_NORMAL_STREAM
<1>1. /\ s \in Endpoint /\ e \in Endpoint /\ Peer(s) = e /\ Peer(e) = s /\ s # e /\ N \in Stream
    BY PeerFacts, StreamFacts
<1>2. p.from = s /\ p.seq > incoming_sequence[Peer(s)]
    BY <1>1 DEF ServerProcess, Fresh
<1>3. BufsAfter(e, p, N) = <<>> /\ ~ReadyAfter(e, p, N)
    BY <1>1, <1>2 DEF ClientWhole, BufsAfter, ReadyAfter, NoHeader
<1>4. Parsed(Copied(BufsAfter(e, p, N), ReadyAfter(e, p, N))) = <<>>
    <2>1. <<>> \in Seq(DatagramUnit)
        BY EmptySeq
    <2>. QED  BY <1>3, <2>1, ParsedDatagram DEF Copied
<1>5. received' = [received EXCEPT ![e] = @ \o Parsed(Rest(p)) \o <<>>]
    BY <1>4 DEF ServerProcess
<1>6. received[e] \in Seq(DataUnit) /\ Parsed(Rest(p)) \in Seq(DataUnit)
    BY <1>1, <1>2, ClientSingle, AcceptedFlow DEF PipeInv
<1>7. (received[e] \o Parsed(Rest(p))) \o <<>> = received[e] \o Parsed(Rest(p))
    BY <1>6, DataConcat, ConcatFacts
<1>. QED  BY <1>1, <1>5, <1>6, <1>7

\* What the client sends arrives in order.
LEMMA NextToServer ==
    ASSUME ChunksFit, TypeOK, TypeOK', FragmentsFit, IInv, ClientWhole,
           DOMAIN received = Endpoint, PipeInv(NS_CLIENT), [Next]_vars
    PROVE  PipeInv(NS_CLIENT)'
<1>. DEFINE s == NS_CLIENT
            e == NS_SERVER
            N == FRAG_NORMAL_STREAM
<1>1. /\ s \in Endpoint /\ e \in Endpoint /\ Peer(s) = e /\ Peer(e) = s /\ s # e /\ N \in Stream
      /\ ChannelInv(s)
    BY PeerFacts, StreamFacts DEF IInv
<1>2. SingleStream(s) /\ NextFragment(s)
    BY ClientSingle
<1>3. CASE \E f \in Endpoint, size \in WriteSizes : WriteMessage(f, size)
    BY <1>1, <1>3, WriteMessagePipe
<1>4. CASE (\E size \in ResourceSizes : SendResources(size)) \/ SendFile
    BY <1>1, <1>4, OtherSendsPipe
<1>5. CASE \/ \E f \in Endpoint, datagram \in Datagrams : Transmit(f, datagram)
           \/ \E datagram \in Datagrams : TransmitInParse(datagram)
    <2>1. PICK f \in Endpoint, datagram \in Datagrams : TransmitBits(f, datagram)
        BY <1>1, <1>5 DEF Transmit, TransmitInParse
    <2>2. UNCHANGED received
        BY <2>1 DEF TransmitBits
    <2>. QED  BY <1>1, <1>2, <2>1, <2>2, TransmitAnyPipe
<1>6. CASE HoldBack \/ UNCHANGED vars
    BY <1>1, <1>6, UntouchedPipe
<1>7. ASSUME NEW p \in network, ServerProcess(p) PROVE PipeInv(s)'
    <2>1. /\ p.from = s /\ Fresh(e, p) /\ AcceptPacket(e, p)
          /\ UNCHANGED <<message, reliable_frag, waitlist, fragbufs, network, written, composed>>
        BY <1>1, <1>7 DEF ServerProcess
    <2>2. BufsAfter(e, p, N) = <<>> /\ ~ReadyAfter(e, p, N)
        BY <1>1, <2>1 DEF ClientWhole, BufsAfter, ReadyAfter, NoHeader
    <2>3. /\ incomingbufs'[e][N] = BufsAfter(e, p, N) /\ incomingbufs'[s] = incomingbufs[s]
        BY <1>1, <1>7, <2>2 DEF ServerProcess, TypeOK
    <2>4. received'[s] = received[s] /\ received'[e] = received[e] \o Parsed(Rest(p))
        BY <1>1, <1>7, ServerProcessReceives
    <2>. QED  BY <1>1, <1>2, <2>1, <2>3, <2>4, ProcessPipe
<1>8. ASSUME NEW p \in network, ClientProcess(p) PROVE PipeInv(s)'
    <2>1. /\ p.from = e /\ Fresh(s, p) /\ AcceptPacket(s, p)
          /\ UNCHANGED <<message, reliable_frag, waitlist, fragbufs, network, written, composed>>
        BY <1>1, <1>8 DEF ClientProcess
    <2>2. incomingbufs'[e] = incomingbufs[e] /\ received'[e] = received[e]
        BY <1>1, <1>8 DEF ClientProcess, TypeOK
    <2>. QED  BY <1>1, <1>2, <2>1, <2>2, ProcessPipe
<1>9. CASE ReadDone
    <2>1. incomingbufs'[e] = incomingbufs[e] /\ received'[e] = received[e]
        BY <1>1, <1>9 DEF ReadDone, TypeOK
    <2>2. UNCHANGED <<accepted, incoming_sequence, composed, reliable_frag, fragbufs, waitlist,
                      message, written, reliable_buf, network>>
        BY <1>9 DEF ReadDone, seqVars, sendVars
    <2>. QED  BY <1>1, <2>1, <2>2, PipeFrame
<1>. QED  BY <1>3, <1>4, <1>5, <1>6, <1>7, <1>8, <1>9 DEF Next

\* What the server sends arrives in order where no file is sent.
LEMMA NextToClient ==
    ASSUME ChunksFit, MaxFiles = 0, TypeOK, TypeOK', FragmentsFit, IInv, ChainsInv,
           DOMAIN received = Endpoint, PipeInv(NS_SERVER), [Next]_vars
    PROVE  PipeInv(NS_SERVER)'
<1>. DEFINE s == NS_SERVER
            e == NS_CLIENT
            N == FRAG_NORMAL_STREAM
<1>1. /\ s \in Endpoint /\ e \in Endpoint /\ Peer(s) = e /\ Peer(e) = s /\ s # e /\ N \in Stream
      /\ ChannelInv(s)
    BY PeerFacts, StreamFacts DEF IInv
<1>2. SingleStream(s) /\ NextFragment(s)
    BY <1>1, ServerSingle
<1>3. CASE \E f \in Endpoint, size \in WriteSizes : WriteMessage(f, size)
    BY <1>1, <1>3, WriteMessagePipe
<1>4. CASE \E size \in ResourceSizes : SendResources(size)
    BY <1>4, SendResourcesPipe
<1>5. ~SendFile
    BY DEF SendFile, TypeOK
<1>6. CASE \/ \E f \in Endpoint, datagram \in Datagrams : Transmit(f, datagram)
           \/ \E datagram \in Datagrams : TransmitInParse(datagram)
    <2>1. PICK f \in Endpoint, datagram \in Datagrams : TransmitBits(f, datagram)
        BY <1>1, <1>6 DEF Transmit, TransmitInParse
    <2>2. UNCHANGED received
        BY <2>1 DEF TransmitBits
    <2>. QED  BY <1>1, <1>2, <2>1, <2>2, TransmitAnyPipe
<1>7. CASE HoldBack \/ UNCHANGED vars
    BY <1>1, <1>7, UntouchedPipe
<1>8. ASSUME NEW p \in network, ServerProcess(p) PROVE PipeInv(s)'
    <2>1. /\ p.from = e /\ Fresh(s, p) /\ AcceptPacket(s, p)
          /\ UNCHANGED <<message, reliable_frag, waitlist, fragbufs, network, written, composed>>
        BY <1>1, <1>8 DEF ServerProcess
    <2>2. incomingbufs'[e] = incomingbufs[e] /\ received'[e] = received[e]
        BY <1>1, <1>8 DEF ServerProcess, TypeOK
    <2>. QED  BY <1>1, <1>2, <2>1, <2>2, ProcessPipe
<1>9. ASSUME NEW p \in network, ClientProcess(p) PROVE PipeInv(s)'
    <2>1. /\ p.from = s /\ Fresh(e, p) /\ AcceptPacket(e, p)
          /\ UNCHANGED <<message, reliable_frag, waitlist, fragbufs, network, written, composed>>
        BY <1>1, <1>9 DEF ClientProcess
    <2>2. /\ incomingbufs'[s] = incomingbufs[s]
          /\ incomingbufs'[e][N] = BufsAfter(e, p, N)
        BY <1>1, <1>9 DEF ClientProcess, TypeOK
    <2>3. received'[s] = received[s] /\ received'[e] = received[e] \o Parsed(Rest(p))
        BY <1>1, <1>9 DEF ClientProcess
    <2>. QED  BY <1>1, <1>2, <2>1, <2>2, <2>3, ProcessPipe
<1>10. CASE ReadDone
    BY <1>10, ReadDonePipe
<1>. QED  BY <1>3, <1>4, <1>5, <1>6, <1>7, <1>8, <1>9, <1>10 DEF Next

-----------------------------------------------------------------------------
(* Each direction is a reliable channel. *)

LEMMA InitPipe ==
    ASSUME Init, NEW s \in Endpoint
    PROVE  PipeInv(s) /\ written[s] = 0 /\ received[Peer(s)] = <<>>
<1>1. Peer(s) \in Endpoint /\ FRAG_NORMAL_STREAM \in Stream /\ FRAG_FILE_STREAM \in Stream
    BY PeerFacts, StreamFacts
<1>2. /\ CaughtUp(s)
      /\ received[Peer(s)] = <<>> /\ incomingbufs[Peer(s)][FRAG_NORMAL_STREAM] = <<>>
      /\ reliable_frag[s][FRAG_FILE_STREAM] = NoHeader /\ network = {} /\ written[s] = 0
      /\ fragbufs[s][FRAG_NORMAL_STREAM] = <<>> /\ waitlist[s][FRAG_NORMAL_STREAM] = <<>>
      /\ message[s] = <<>>
    BY <1>1, EmptySeq DEF Init, CaughtUp
<1>3. /\ <<>> \in Seq(DataUnit) /\ <<>> \in Seq(DataFragment) /\ <<>> \o <<>> = <<>>
      /\ Joined(<<>>) = <<>> /\ Flat(<<>>) = <<>>
    BY ConcatFacts, EmptySeq, JoinedNothing, FlatNothing
<1>4. UnderWay(s) = <<>> /\ Queued(s) = <<>>
    BY <1>2, <1>3 DEF UnderWay, Queued
<1>5. Reliables(1, 0) = <<>>
    BY ReliablesConcat
<1>. QED  BY <1>2, <1>3, <1>4, <1>5 DEF PipeInv, Packets

\* One step of a direction: either something is handed over, or something
\* comes out, or neither.
LEMMA ToServerFlow ==
    ASSUME TypeOK, IInv, ClientWhole, DOMAIN received = Endpoint, PipeInv(NS_CLIENT), [Next]_vars
    PROVE  \/ written'[NS_CLIENT] = written[NS_CLIENT]
              /\ \E x \in Seq(DataUnit) : received'[NS_SERVER] = received[NS_SERVER] \o x
           \/ received'[NS_SERVER] = received[NS_SERVER]
              /\ \E n \in Nat : written'[NS_CLIENT] = written[NS_CLIENT] + n
<1>1. /\ NS_CLIENT \in Endpoint /\ NS_SERVER \in Endpoint /\ NS_CLIENT # NS_SERVER
      /\ Peer(NS_CLIENT) = NS_SERVER /\ ChannelInv(NS_CLIENT) /\ written[NS_CLIENT] \in Nat
    BY PeerFacts DEF IInv, TypeOK
<1>2. written[NS_CLIENT] = written[NS_CLIENT] + 0
    BY <1>1
<1>3. CASE \E e \in Endpoint, size \in WriteSizes : WriteMessage(e, size)
    <2>1. PICK e \in Endpoint, size \in WriteSizes : WriteMessage(e, size)
        BY <1>3
    <2>2. size \in Nat /\ received'[NS_SERVER] = received[NS_SERVER]
        BY <2>1, NetChanAssumption DEF WriteMessage
    <2>3. \/ written'[NS_CLIENT] = written[NS_CLIENT] + size
          \/ written'[NS_CLIENT] = written[NS_CLIENT]
        <3>1. written' = [written EXCEPT ![e] = @ + size] \/ written' = written
            BY <2>1 DEF WriteMessage
        <3>2. written \in [Endpoint -> Nat]
            BY DEF TypeOK
        <3>. QED  BY <1>1, <3>1, <3>2
    <2>. QED  BY <1>2, <2>2, <2>3
<1>4. CASE \E p \in network : ServerProcess(p)
    BY <1>1, <1>4, ServerProcessReceives DEF ServerProcess
<1>5. CASE ~(\E e \in Endpoint, size \in WriteSizes : WriteMessage(e, size))
           /\ ~(\E p \in network : ServerProcess(p))
    <2>1. written'[NS_CLIENT] = written[NS_CLIENT] /\ received'[NS_SERVER] = received[NS_SERVER]
        <3>1. ASSUME NEW size \in ResourceSizes, SendResources(size)
              PROVE  written'[NS_CLIENT] = written[NS_CLIENT] /\ received' = received
            BY <1>1, <3>1 DEF SendResources, TypeOK
        <3>2. CASE SendFile
            BY <3>2 DEF SendFile
        <3>3. ASSUME NEW e \in Endpoint, NEW datagram \in Datagrams, Transmit(e, datagram)
              PROVE  UNCHANGED <<written, received>>
            BY <3>3 DEF Transmit, TransmitBits
        <3>4. ASSUME NEW datagram \in Datagrams, TransmitInParse(datagram)
              PROVE  UNCHANGED <<written, received>>
            BY <3>4 DEF TransmitInParse, TransmitBits
        <3>5. CASE HoldBack \/ UNCHANGED vars
            BY <3>5 DEF HoldBack, vars, histVars
        <3>6. ASSUME NEW p \in network, ClientProcess(p)
              PROVE  UNCHANGED written /\ received'[NS_SERVER] = received[NS_SERVER]
            BY <1>1, <3>6 DEF ClientProcess
        <3>7. CASE ReadDone
            BY <1>1, <3>7 DEF ReadDone
        <3>. QED  BY <1>5, <3>1, <3>2, <3>3, <3>4, <3>5, <3>6, <3>7 DEF Next
    <2>. QED  BY <1>2, <2>1
<1>. QED  BY <1>3, <1>4, <1>5

LEMMA ToClientFlow ==
    ASSUME MaxFiles = 0, TypeOK, IInv, ChainsInv, DOMAIN received = Endpoint,
           PipeInv(NS_SERVER), [Next]_vars
    PROVE  \/ written'[NS_SERVER] = written[NS_SERVER]
              /\ \E x \in Seq(DataUnit) : received'[NS_CLIENT] = received[NS_CLIENT] \o x
           \/ received'[NS_CLIENT] = received[NS_CLIENT]
              /\ \E n \in Nat : written'[NS_SERVER] = written[NS_SERVER] + n
<1>1. /\ NS_CLIENT \in Endpoint /\ NS_SERVER \in Endpoint /\ NS_CLIENT # NS_SERVER
      /\ Peer(NS_SERVER) = NS_CLIENT /\ ChannelInv(NS_SERVER) /\ written[NS_SERVER] \in Nat
    BY PeerFacts DEF IInv, TypeOK
<1>2. written[NS_SERVER] = written[NS_SERVER] + 0
    BY <1>1
<1>3. CASE \/ \E e \in Endpoint, size \in WriteSizes : WriteMessage(e, size)
           \/ \E size \in ResourceSizes : SendResources(size)
    <2>1. PICK size \in Nat : \/ \E e \in Endpoint : WriteMessage(e, size)
                              \/ SendResources(size)
        BY <1>3, NetChanAssumption
    <2>2. received'[NS_CLIENT] = received[NS_CLIENT]
        BY <2>1 DEF WriteMessage, SendResources
    <2>3. \/ written'[NS_SERVER] = written[NS_SERVER] + size
          \/ written'[NS_SERVER] = written[NS_SERVER]
        <3>1. \/ \E e \in Endpoint : written' = [written EXCEPT ![e] = @ + size]
              \/ written' = written
            BY <1>1, <2>1 DEF WriteMessage, SendResources
        <3>2. written \in [Endpoint -> Nat]
            BY DEF TypeOK
        <3>. QED  BY <1>1, <3>1, <3>2
    <2>. QED  BY <1>2, <2>2, <2>3
<1>4. ASSUME NEW p \in network, ClientProcess(p)
      PROVE  /\ written' = written /\ Parsed(Rest(p)) \in Seq(DataUnit)
             /\ received'[NS_CLIENT] = received[NS_CLIENT] \o Parsed(Rest(p))
    <2>1. p.from = NS_SERVER /\ p.seq > incoming_sequence[Peer(NS_SERVER)]
        BY <1>1, <1>4, PeerFacts DEF ClientProcess, Fresh
    <2>2. Parsed(Rest(p)) \in Seq(DataUnit)
        BY <1>1, <2>1, ServerSingle, AcceptedFlow
    <2>. QED  BY <1>1, <1>4, <2>2 DEF ClientProcess
<1>5. CASE ReadDone
    <2>1. written' = written
        BY <1>5 DEF ReadDone
    <2>. QED  BY <1>5, <2>1, ReadDoneReceives
<1>6. CASE ~(\E e \in Endpoint, size \in WriteSizes : WriteMessage(e, size))
           /\ ~(\E size \in ResourceSizes : SendResources(size))
           /\ ~(\E p \in network : ClientProcess(p)) /\ ~ReadDone
    <2>1. written'[NS_SERVER] = written[NS_SERVER] /\ received'[NS_CLIENT] = received[NS_CLIENT]
        <3>2. CASE SendFile
            BY <3>2 DEF SendFile
        <3>3. ASSUME NEW e \in Endpoint, NEW datagram \in Datagrams, Transmit(e, datagram)
              PROVE  UNCHANGED <<written, received>>
            BY <3>3 DEF Transmit, TransmitBits
        <3>4. ASSUME NEW datagram \in Datagrams, TransmitInParse(datagram)
              PROVE  UNCHANGED <<written, received>>
            BY <3>4 DEF TransmitInParse, TransmitBits
        <3>5. CASE HoldBack \/ UNCHANGED vars
            BY <3>5 DEF HoldBack, vars, histVars
        <3>6. ASSUME NEW p \in network, ServerProcess(p)
              PROVE  UNCHANGED written /\ received'[NS_CLIENT] = received[NS_CLIENT]
            BY <1>1, <3>6 DEF ServerProcess
        <3>. QED  BY <1>6, <3>2, <3>3, <3>4, <3>5, <3>6 DEF Next
    <2>. QED  BY <1>2, <2>1
<1>. QED  BY <1>3, <1>4, <1>5, <1>6

LEMMA NextDomain == DOMAIN received = Endpoint /\ [Next]_vars => DOMAIN received' = Endpoint
<1>1. CASE \/ \E p \in network : ServerProcess(p) \/ ClientProcess(p)
           \/ ReadDone
    BY <1>1 DEF ServerProcess, ClientProcess, ReadDone
<1>2. ASSUME [Next]_vars, ~(\E p \in network : ServerProcess(p) \/ ClientProcess(p)), ~ReadDone
      PROVE  received' = received
    BY <1>2 DEF Next, WriteMessage, SendResources, SendFile, Transmit, TransmitInParse,
                TransmitBits, HoldBack, vars, histVars
<1>. QED  BY <1>1, <1>2

\* What is handed over later comes later, and nothing comes out that was not
\* handed over.
LEMMA PrefixOfConcat ==
    ASSUME NEW a \in Seq(DataUnit), NEW b \in Seq(DataUnit)
    PROVE  Len(a) <= Len(a \o b) /\ a = SubSeq(a \o b, 1, Len(a))
<1>1. /\ a \o b \in Seq(DataUnit) /\ Len(a) \in Nat /\ Len(b) \in Nat
      /\ Len(a \o b) = Len(a) + Len(b)
      /\ \A k \in 1..Len(a) : (a \o b)[k] = a[k]
    BY ConcatProperties, LenProperties
<1>2. \A k \in 1..Len(a) : (a \o b)[k] \in DataUnit
    BY <1>1, ElementOfSeq
<1>3. /\ SubSeq(a \o b, 1, Len(a)) \in Seq(DataUnit)
      /\ Len(SubSeq(a \o b, 1, Len(a))) = Len(a)
      /\ \A k \in 1..Len(a) : SubSeq(a \o b, 1, Len(a))[k] = (a \o b)[1 + k - 1]
    BY <1>1, <1>2, SubSeqProperties
<1>4. \A k \in 1..Len(a) : a[k] = SubSeq(a \o b, 1, Len(a))[k]
    BY <1>1, <1>3
<1>. QED  BY <1>1, <1>3, <1>4, SeqEqual

\* What comes of the invariant and of a step for the two ends of a direction.
LEMMA Channelled ==
    ASSUME NEW s \in Endpoint, TypeOK, TypeOK', PipeInv(s), PipeInv(s)',
           \/ /\ written'[s] = written[s]
              /\ \E x \in Seq(DataUnit) : received'[Peer(s)] = received[Peer(s)] \o x
           \/ /\ received'[Peer(s)] = received[Peer(s)]
              /\ \E n \in Nat : written'[s] = written[s] + n
    PROVE  LET sent == Reliables(1, written[s])
               rcvd == received[Peer(s)]
               Prefix(a, b) == Len(a) <= Len(b) /\ a = SubSeq(b, 1, Len(a))
           IN  \/ UNCHANGED <<sent, rcvd>>
               \/ Len(sent') > Len(sent) /\ Prefix(sent, sent') /\ UNCHANGED rcvd
               \/ /\ Len(rcvd') > Len(rcvd)
                  /\ Prefix(rcvd, rcvd') /\ Prefix(rcvd', sent)
                  /\ UNCHANGED sent
<1>. DEFINE sent == Reliables(1, written[s])
            rcvd == received[Peer(s)]
            Prefix(a, b) == Len(a) <= Len(b) /\ a = SubSeq(b, 1, Len(a))
<1>1. CASE /\ written'[s] = written[s]
           /\ \E x \in Seq(DataUnit) : received'[Peer(s)] = received[Peer(s)] \o x
    <2>1. PICK x \in Seq(DataUnit) : rcvd' = rcvd \o x
        BY <1>1
    <2>2. rcvd \in Seq(DataUnit) /\ rcvd' \in Seq(DataUnit) /\ sent' = sent
        BY <1>1 DEF PipeInv
    <2>3. Prefix(rcvd, rcvd')
        BY <2>1, <2>2, PrefixOfConcat
    <2>4. PICK y \in Seq(DataUnit) : rcvd' \o y = sent'
        <3>. DEFINE inb == incomingbufs[Peer(s)][FRAG_NORMAL_STREAM]
                    y == (Joined(inb) \o (UnderWay(s) \o Queued(s)))'
        <3>1. rcvd' \o y = sent'
            BY DEF PipeInv
        <3>2. Joined(inb)' \in Seq(DataUnit)
            BY JoinedType DEF PipeInv
        <3>3. UnderWay(s)' \in Seq(DataUnit) /\ Queued(s)' \in Seq(DataUnit)
            <4>. DEFINE j == Joined(fragbufs'[s][FRAG_NORMAL_STREAM])
                        w == Flat(waitlist'[s][FRAG_NORMAL_STREAM])
            <4>1. /\ fragbufs'[s][FRAG_NORMAL_STREAM] \in Seq(DataFragment)
                  /\ waitlist'[s][FRAG_NORMAL_STREAM] \in Seq(Seq(DataFragment))
                  /\ message'[s] \in Seq(DataUnit) /\ reliable_buf'[s] \in Seq(DataUnit)
                BY StreamFacts DEF TypeOK
            <4>2. j \in Seq(DataUnit) /\ w \in Seq(DataUnit) /\ <<>> \in Seq(DataUnit)
                BY <4>1, JoinedType, FlatType, EmptySeq
            <4>3. Queued(s)' = (j \o w) \o message'[s]
                BY DEF Queued
            <4>. HIDE DEF j, w
            <4>4. (j \o w) \o message'[s] \in Seq(DataUnit)
                BY <4>1, <4>2, DataConcat
            <4>. QED  BY <4>1, <4>2, <4>3, <4>4 DEF UnderWay
        <3>4. y \in Seq(DataUnit)
            BY <3>2, <3>3, DataConcat
        <3>. QED  BY <3>1, <3>4
    <2>5. Prefix(rcvd', sent)
        BY <2>2, <2>4, PrefixOfConcat
    <2>6. Len(rcvd') > Len(rcvd) \/ rcvd' = rcvd
        <3>1. Len(rcvd') = Len(rcvd) + Len(x) /\ Len(rcvd) \in Nat /\ Len(x) \in Nat
            BY <2>1, <2>2, ConcatProperties, LenProperties
        <3>2. Len(x) = 0 => x = <<>>
            BY EmptySeq
        <3>. QED  BY <2>1, <2>2, <3>1, <3>2, ConcatFacts
    <2>. QED  BY <2>2, <2>3, <2>5, <2>6
<1>2. CASE /\ received'[Peer(s)] = received[Peer(s)]
           /\ \E n \in Nat : written'[s] = written[s] + n
    <2>1. PICK n \in Nat : written'[s] = written[s] + n
        BY <1>2
    <2>2. written[s] \in Nat /\ written'[s] \in Nat
        BY <2>1 DEF TypeOK
    <2>3. /\ sent' = sent \o Reliables(written[s] + 1, written[s] + n)
          /\ sent \in Seq(DataUnit) /\ Reliables(written[s] + 1, written[s] + n) \in Seq(DataUnit)
          /\ Len(sent) = written[s] /\ Len(sent') = written[s] + n
        BY <2>1, <2>2, ReliablesConcat
    <2>4. Prefix(sent, sent')
        BY <2>3, PrefixOfConcat
    <2>5. Len(sent') > Len(sent) \/ sent' = sent
        <3>1. n = 0 => written'[s] = written[s]
            BY <2>1, <2>2
        <3>. QED  BY <2>1, <2>2, <2>3, <3>1
    <2>. QED  BY <1>2, <2>4, <2>5
<1>. QED  BY <1>1, <1>2

\* What the client sends reliably reaches the server's parser complete, in
\* order and once: it is a reliable channel, whatever the network does.
THEOREM ToServerFifoHolds ==
    ASSUME ChunksFit
    PROVE  Spec => ToServerFifo
<1>. DEFINE Pipe == ClientWhole /\ DOMAIN received = Endpoint /\ PipeInv(NS_CLIENT)
<1>1. /\ NS_CLIENT \in Endpoint /\ Peer(NS_CLIENT) = NS_SERVER /\ NS_SERVER \in Endpoint
    BY PeerFacts
<1>2. Init => Pipe /\ ToServer!Init
    <2>. SUFFICES ASSUME Init PROVE Pipe /\ ToServer!Init
        OBVIOUS
    <2>1. ClientWhole /\ DOMAIN received = Endpoint
        BY <1>1 DEF Init, ClientWhole
    <2>2. PipeInv(NS_CLIENT) /\ written[NS_CLIENT] = 0 /\ received[NS_SERVER] = <<>>
        BY <1>1, InitPipe
    <2>3. Reliables(1, 0) = <<>>
        BY ReliablesConcat
    <2>. QED  BY <2>1, <2>2, <2>3 DEF ToServer!Init
<1>3. /\ Pipe /\ TypeOK /\ TypeOK' /\ FragmentsFit /\ IInv /\ [Next]_vars
      => Pipe' /\ [ToServer!Next]_<<Reliables(1, written[NS_CLIENT]), received[NS_SERVER]>>
    <2>. SUFFICES ASSUME Pipe, TypeOK, TypeOK', FragmentsFit, IInv, [Next]_vars
                  PROVE  /\ Pipe'
                         /\ [ToServer!Next]_<<Reliables(1, written[NS_CLIENT]), received[NS_SERVER]>>
        OBVIOUS
    <2>1. Pipe'
        BY NextClientWhole, NextDomain, NextToServer
    <2>. QED
        BY <1>1, <2>1, ToServerFlow, Channelled
        DEF ToServer!Next, ToServer!Send, ToServer!Receive, ToServer!IsPrefixOf
<1>. HIDE DEF Pipe
<1>4. Spec => []Pipe /\ [][ToServer!Next]_<<Reliables(1, written[NS_CLIENT]), received[NS_SERVER]>>
    BY <1>2, <1>3, TypeCorrect, FragmentsAlwaysFit, IInvHolds, PTL DEF Spec
<1>. QED  BY <1>2, <1>4, PTL DEF ToServerFifo, ToServer!Spec, Spec

\* What the server sends reliably reaches the client's parser complete, in
\* order and once, as long as no file travels on the same channel: behind a
\* file, the client may see the end of a message before its fragments.
THEOREM ToClientFifoHolds ==
    ASSUME ChunksFit, MaxFiles = 0
    PROVE  Spec => ToClientFifo
<1>. DEFINE Pipe == DOMAIN received = Endpoint /\ PipeInv(NS_SERVER)
<1>1. /\ NS_SERVER \in Endpoint /\ Peer(NS_SERVER) = NS_CLIENT /\ NS_CLIENT \in Endpoint
    BY PeerFacts
<1>2. Init => Pipe /\ ToClient!Init
    <2>. SUFFICES ASSUME Init PROVE Pipe /\ ToClient!Init
        OBVIOUS
    <2>1. DOMAIN received = Endpoint
        BY DEF Init
    <2>2. PipeInv(NS_SERVER) /\ written[NS_SERVER] = 0 /\ received[NS_CLIENT] = <<>>
        BY <1>1, InitPipe
    <2>3. Reliables(1, 0) = <<>>
        BY ReliablesConcat
    <2>. QED  BY <2>1, <2>2, <2>3 DEF ToClient!Init
<1>3. /\ Pipe /\ ChainsInv /\ TypeOK /\ TypeOK' /\ FragmentsFit /\ IInv /\ [Next]_vars
      => Pipe' /\ [ToClient!Next]_<<Reliables(1, written[NS_SERVER]), received[NS_CLIENT]>>
    <2>. SUFFICES ASSUME Pipe, ChainsInv, TypeOK, TypeOK', FragmentsFit, IInv, [Next]_vars
                  PROVE  /\ Pipe'
                         /\ [ToClient!Next]_<<Reliables(1, written[NS_SERVER]), received[NS_CLIENT]>>
        OBVIOUS
    <2>1. Pipe'
        BY NextDomain, NextToClient
    <2>. QED
        BY <1>1, <2>1, ToClientFlow, Channelled
        DEF ToClient!Next, ToClient!Send, ToClient!Receive, ToClient!IsPrefixOf
<1>. HIDE DEF Pipe
<1>4. Spec => []ChainsInv
    BY ChainsInvHolds DEF Unmixed
<1>5. Spec => []Pipe /\ [][ToClient!Next]_<<Reliables(1, written[NS_SERVER]), received[NS_CLIENT]>>
    BY <1>2, <1>3, <1>4, TypeCorrect, FragmentsAlwaysFit, IInvHolds, PTL DEF Spec
<1>. QED  BY <1>2, <1>5, PTL DEF ToClientFifo, ToClient!Spec, Spec

\* The invariant behind it: nothing the server has handed to its channel is
\* missing, twice or out of order between the client's parser and the message
\* that is being staged.
THEOREM ServerPipeHolds ==
    ASSUME ChunksFit, MaxFiles = 0
    PROVE  Spec => []ServerPipe
<1>. DEFINE Pipe == DOMAIN received = Endpoint /\ PipeInv(NS_SERVER)
<1>1. NS_SERVER \in Endpoint
    BY PeerFacts
<1>2. Init => Pipe
    BY <1>1, InitPipe DEF Init
<1>3. Pipe /\ ChainsInv /\ TypeOK /\ TypeOK' /\ FragmentsFit /\ IInv /\ [Next]_vars => Pipe'
    BY NextDomain, NextToClient
<1>4. Pipe => ServerPipe
    BY DEF ServerPipe
<1>. HIDE DEF Pipe
<1>5. Spec => []ChainsInv
    BY ChainsInvHolds DEF Unmixed
<1>. QED  BY <1>2, <1>3, <1>4, <1>5, TypeCorrect, FragmentsAlwaysFit, IInvHolds, PTL DEF Spec

=============================================================================
