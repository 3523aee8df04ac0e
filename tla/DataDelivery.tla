---------------------------- MODULE DataDelivery ----------------------------
(***************************************************************************)
(* What a sender of the multicast group promises its listener about data   *)
(* ("received-data" of GibberRMulticastSender): from the data start on,    *)
(* the messages of the remote stream are delivered in the order in which   *)
(* they end, each exactly once.  How packets get lost, repeated, held back *)
(* or reassembled is module SenderWindow, which implements this one.       *)
(***************************************************************************)
EXTENDS Integers, Sequences

CONSTANTS Length, None

VARIABLES
    stream, \* what the remote sends: position -> packet
    start,  \* the data start, or None
    log     \* the last fragments of the messages delivered so far

vars == <<stream, start, log>>

Sent == 0..(Length - 1)
IsData(p) == stream[p].kind = "data"

\* Where the message that ends at e may have begun; it began at the latest one.
Starts(e) == {s \in 0..e : IsData(s) /\ stream[s].first /\ stream[s].stream = stream[e].stream}

\* The messages that begin at or after the data start, by their last fragment.
Eligible == {e \in Sent : /\ IsData(e) /\ stream[e].last
                          /\ start # None
                          /\ \E s \in Starts(e) : start <= s}

Delivered == {log[i] : i \in 1..Len(log)}

Init == start = None /\ log = <<>>

Join ==
    /\ start = None /\ start' \in 0..Length
    /\ UNCHANGED <<stream, log>>

Deliver ==
    /\ \E e \in Eligible \ Delivered :
        /\ \A f \in Eligible \ Delivered : e <= f
        /\ log' = Append(log, e)
    /\ UNCHANGED <<stream, start>>

Next == Join \/ Deliver
Spec == Init /\ [][Next]_vars
=============================================================================
