-------------------------- MODULE ReliableChannel --------------------------
(***************************************************************************)
(* What one direction of a netchan promises for reliable data: it comes    *)
(* out in the order it went in, without loss, duplication or alteration.   *)
(* How and when the data is packed into packets is of no concern here.     *)
(***************************************************************************)
EXTENDS Sequences, Naturals

VARIABLES sent, rcvd

IsPrefixOf(s, t) == Len(s) <= Len(t) /\ s = SubSeq(t, 1, Len(s))

Init == sent = <<>> /\ rcvd = <<>>

\* The sender hands over some more data.
Send ==
    /\ Len(sent') > Len(sent)
    /\ IsPrefixOf(sent, sent')
    /\ UNCHANGED rcvd

\* The receiver gets some more of it.
Receive ==
    /\ Len(rcvd') > Len(rcvd)
    /\ IsPrefixOf(rcvd, rcvd')
    /\ IsPrefixOf(rcvd', sent)
    /\ UNCHANGED sent

Next == Send \/ Receive

Spec == Init /\ [][Next]_<<sent, rcvd>>
=============================================================================
