-------------------------- MODULE CausalBroadcast --------------------------
(***************************************************************************)
(* What the multicast group promises about order: a node puts out the      *)
(* packets of every sender in the order they were sent, and a packet only  *)
(* after everything its sender had put out when it sent it.  Who crashes,  *)
(* which packets are lost and how the members agree on a failed one is     *)
(* module CausalGroup, which implements this one.                          *)
(***************************************************************************)
EXTENDS Integers, Sequences

CONSTANT Nodes

VARIABLES
    past, \* past[s][i]: what s had put out when it sent its i-th packet
    out   \* out[n][s]: how many packets of s node n has put out

vars == <<past, out>>

Init ==
    /\ past = [n \in Nodes |-> <<>>]
    /\ out = [n \in Nodes |-> [s \in Nodes |-> 0]]

\* n, which has put out `seen`, sends a packet that names `known` of it; its own
\* packets count as put out.
Sends(n, seen, known) ==
    /\ past' = [past EXCEPT ![n] = Append(@, known)]
    /\ out' = [out EXCEPT ![n] = [seen EXCEPT ![n] = @ + 1]]

Broadcast(n) == Sends(n, out[n], out[n])

\* The last packet of a member that leaves is only ordered after its own.
Farewell(n) == Sends(n, out[n], [s \in Nodes |-> IF s = n THEN out[n][n] ELSE 0])

\* n puts out the next packet of s, and may answer it at once.
Deliver(n, s) ==
    LET next == out[n][s] + 1
        seen == [out[n] EXCEPT ![s] = next]
    IN  /\ n # s /\ next <= Len(past[s])
        /\ \A u \in Nodes : past[s][next][u] <= out[n][u]
        /\ \/ out' = [out EXCEPT ![n] = seen] /\ UNCHANGED past
           \/ Sends(n, seen, seen)

Next == \E n \in Nodes : Broadcast(n) \/ Farewell(n) \/ \E s \in Nodes : Deliver(n, s)

Spec == Init /\ [][Next]_vars
=============================================================================
