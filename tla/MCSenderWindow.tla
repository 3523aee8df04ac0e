--------------------------- MODULE MCSenderWindow ---------------------------
(***************************************************************************)
(* Model checking instances of SenderWindow: short streams that contain a  *)
(* join, control packets between the fragments of a message, two data      *)
(* streams interleaved and a message that began before the join.  Start is *)
(* chosen so that the identifiers wrap inside the stream.                  *)
(***************************************************************************)
EXTENDS SenderWindow

Pkt(k, s, f, l) == [kind |-> k, stream |-> s, first |-> f, last |-> l]
J == Pkt("join", 1, FALSE, FALSE)
C == Pkt("control", 1, FALSE, FALSE)
N == Pkt("nodata", 1, FALSE, FALSE)
Whole == Pkt("data", 1, TRUE, TRUE)
Open == Pkt("data", 1, TRUE, FALSE)
Close == Pkt("data", 1, FALSE, TRUE)
Open2 == Pkt("data", 2, TRUE, FALSE)
Close2 == Pkt("data", 2, FALSE, TRUE)

\* The sequence <<a, b, ...>> as a stream that starts at position 0.
FromZero(s) == [p \in Sent |-> s[p + 1]]

JoinThenMessage == FromZero(<<J, Open, C, Close, Whole>>)
LateFragment == FromZero(<<Close, J, Whole, N, C>>)
Interleaved == FromZero(<<J, Open, Open2, Close, Close2>>)
TwoJoins == FromZero(<<J, Whole, J, Open, Close>>)

Repaired == FromZero(<<C, Whole, C, Open, Close>>)

With(streams, evs) == {[stream |-> s, events |-> evs] : s \in streams}

\* Reassembly and delivery under holding, dependencies and failure.
Reassembly ==
    With({JoinThenMessage}, {"hold", "depends", "fail"})
    \cup With({JoinThenMessage, LateFragment, Interleaved, TwoJoins}, {"ack", "hold", "fail"})
    \cup With({LateFragment, TwoJoins}, {"hold", "depends"})

\* Dependencies while every member acknowledges.
Dependent == With({JoinThenMessage, LateFragment, Interleaved}, {"ack", "depends"})

\* Requests by others, repeated packets, failure, removal and stop.
Repair ==
    With({Repaired}, {"repair", "fail", "repeat", "ack"})
    \cup With({Repaired}, {"repair", "stop", "fail", "repeat", "remove"})

\* A start that moves forward.
Jump == With({JoinThenMessage, LateFragment}, {"jump", "ack"})

MCScenarios == Reassembly \cup Dependent \cup Repair \cup Jump
=============================================================================
