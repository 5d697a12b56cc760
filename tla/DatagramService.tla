-------------------------- MODULE DatagramService --------------------------
(***************************************************************************)
(* What netsplit promises to the channel above it, and all that the        *)
(* channel needs: what comes out is, each time, a datagram that went in,   *)
(* whole.  It may be lost, come late, and come again.                      *)
(***************************************************************************)
VARIABLES sent, delivered

Init == sent = {} /\ delivered = {}

\* Some more is sent.
Send == sent \subseteq sent' /\ UNCHANGED delivered

\* One of the datagrams sent so far arrives.
Deliver ==
    /\ \E d \in sent : delivered' = delivered \cup {d}
    /\ UNCHANGED sent

Next == Send \/ Deliver

Spec == Init /\ [][Next]_<<sent, delivered>>
=============================================================================
