----------------------------- MODULE PlayFrames -----------------------------
(***************************************************************************)
(* The inductive invariant behind EntitiesRight and ClientDataRight: what  *)
(* both rings hold of a frame from which the server may still make a       *)
(* difference, or may have made one that is still on its way.              *)
(***************************************************************************)
EXTENDS Play

\* The client has received frame d, and has it right until its slot is used again,
\* its entities if it came of short ones only.
Held(d) ==
    /\ d \in 1..incoming
    /\ incoming < d + UpdateBackup =>
          /\ outrun < 2 /\ frames[Slot(d)].short => frames[Slot(d)].ents = d
          /\ outrun < 1 => frames[Slot(d)].data = d

\* Update u is a difference to a frame d that the client holds, unless the
\* server's ring did not hold d any more.
DifferenceTo(u, d) ==
    /\ u.data = Byte(d) /\ u.ents \in {NoDelta, Byte(d)}
    /\ Held(d)
    /\ outrun < 2 => u.seq - d < ByteValues
    /\ outrun < 1 => u.seq - d < UpdateBackup
    /\ u.seq - d < UpdateBackup => u.from = d

UpdateRight(u) ==
    /\ u.seq < sv_outgoing
    /\ \/ u.data = NoDelta /\ u.ents = NoDelta
       \/ \E d \in 1..u.seq - 1 : DifferenceTo(u, d)

\* The server's ring holds the last frames sent.
ServerRing ==
    \A n \in 1..sv_outgoing - 1 :
        n >= sv_outgoing - UpdateBackup => sv_frames[Slot(n)].id = n

\* Every frame that the client says it has, and every one the server has made a
\* difference to, is held.
FrameInv ==
    /\ incoming < sv_outgoing
    /\ validsequence # 0 => validsequence = incoming /\ Held(validsequence)
    /\ \A m \in moves : m.delta # NoDelta => Held(m.delta)
    /\ delta_sequence # NoDelta => Held(delta_sequence)
    /\ \A u \in updates : UpdateRight(u)
    /\ ServerRing
=============================================================================
