------------------------- MODULE MCCausalGroupFour -------------------------
(* Four members of a CausalGroup and one order of the events that come from *)
(* outside: who sends, what arrives where, who crashes and who notices.     *)
(* The pop loops in between visit the senders in every order.  Each event   *)
(* is an action of CausalGroup, so every behaviour here is one of its.      *)
EXTENDS CausalGroup

CONSTANTS a, b, c, d

VARIABLE step  \* how many of the events have happened

Four == {a, b, c, d}

\* d, c and b send one packet each, and d and c crash.
TwoCrash == { [data |-> [n \in Nodes |-> IF n = a THEN 0 ELSE 1],
               faulty |-> {c, d}, suspects |-> {}] }

\* The i-th packet of s reaches n.
Arrives(n, s, i) == Receive(n, s) /\ i - 1 \in have'[n][s]

Event ==
    \/ \* c answers the packet of d; only b gets both, after it has failed d.
       \/ step = 0 /\ SendData(d)
       \/ step = 1 /\ Arrives(c, d, 1)
       \/ step = 2 /\ SendData(c)
       \/ step = 3 /\ Crash(d)
       \/ step = 4 /\ Suspect(b, d)
       \/ step = 5 /\ Arrives(b, c, 1)
       \/ step = 6 /\ Arrives(b, d, 1)
       \/ step = 7 /\ SendData(b)
       \/ step = 8 /\ Crash(c)
    \/ \* a has nothing yet and fails d and c; then it hears that b failed d.
       \/ step = 9 /\ Suspect(a, d)
       \/ step = 10 /\ Suspect(a, c)
       \/ step = 11 /\ Arrives(a, b, 1)
    \/ \* the data of b waits for c's answer, which b repairs.
       \/ step = 12 /\ Arrives(a, b, 2)
       \/ step = 13 /\ Arrives(a, c, 1)

ScriptInit == Init /\ step = 0

ScriptNext ==
    /\ \/ Idle /\ Event /\ step' = step + 1
       \/ \E n, s \in Nodes : (Pop(n, s) \/ Visit(n, s)) /\ UNCHANGED step
    /\ UNCHANGED scenario

ScriptSpec == ScriptInit /\ [][ScriptNext]_<<vars, step>> /\ WF_<<vars, step>>(ScriptNext)
============================================================================
