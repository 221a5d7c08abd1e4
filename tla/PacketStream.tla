----------------------------- MODULE PacketStream -----------------------------
(***************************************************************************)
(* What a connected input port promises to the signal it listens to: a     *)
(* stream of packets, taken on in lists, handed out oldest first, none     *)
(* lost, none twice, and all of them in the end unless the stream is       *)
(* closed under it and stays closed.  How the owner of the port learns of  *)
(* them is not said.                                                       *)
(***************************************************************************)
EXTENDS Naturals, Sequences

CONSTANT Limit      \* bound: packets taken on in one behaviour

VARIABLES
    accepted,       \* number of packets taken on
    waiting,        \* the numbers of the packets not yet handed out
    delivered,      \* number of packets handed out
    closed

streamVars == <<accepted, waiting, delivered, closed>>

StreamInit == accepted = 0 /\ waiting = <<>> /\ delivered = 0 /\ closed = FALSE

Accept(n) ==
    /\ accepted' = accepted + n
    /\ waiting' = waiting \o [i \in 1 .. n |-> accepted + i]
    /\ UNCHANGED <<delivered, closed>>

Deliver(n) ==
    /\ waiting' = SubSeq(waiting, n + 1, Len(waiting))
    /\ delivered' = delivered + n
    /\ UNCHANGED <<accepted, closed>>

Close ==
    /\ closed' = TRUE
    /\ UNCHANGED <<accepted, waiting, delivered>>

Open ==
    /\ closed' = FALSE
    /\ UNCHANGED <<accepted, waiting, delivered>>

StreamNext ==
    \/ \E n \in 1 .. Limit : Accept(n)
    \/ \E n \in 1 .. Len(waiting) : Deliver(n)
    \/ Close
    \/ Open

AllDelivered == \A n \in 1 .. Limit : (accepted >= n) ~> (delivered >= n \/ []closed)

StreamSafe == StreamInit /\ [][StreamNext]_streamVars
StreamSpec == StreamSafe /\ AllDelivered
================================================================================
