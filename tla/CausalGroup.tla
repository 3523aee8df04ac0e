---------------------------- MODULE CausalGroup ----------------------------
(***************************************************************************)
(* A group of members of the reliable multicast in its normal state: every *)
(* packet names what its sender had put out of the other members, packets  *)
(* wait until those dependencies are met, acknowledged packets leave the   *)
(* caches, and a member that crashes, leaves or is suspected is failed by  *)
(* the others together (gibber-r-multicast-sender.c: dependencies,         *)
(* acknowledgements and garbage collection of the sender group;            *)
(* gibber-r-multicast-causal-transport.c: sending; and                     *)
(* gibber-r-multicast-transport.c: the failure process).                   *)
(*                                                                         *)
(* Each node keeps one GibberRMulticastSender per member.  How a single    *)
(* sender repairs gaps and reassembles data is module SenderWindow; here a *)
(* packet arrives at any time, in any order, or never.                     *)
(***************************************************************************)
EXTENDS Integers, Sequences, FiniteSets

CONSTANTS
    Nodes,
    MaxData,   \* bound: data packets a node may send
    Scenarios  \* bound: how many data packets each node sends, who may crash or
               \* leave, and who may be failed by the watchdog though it is well

ASSUME GroupAssumption ==
    /\ MaxData \in Nat
    /\ Scenarios \subseteq [data : [Nodes -> 0..MaxData], faulty : SUBSET Nodes, suspects : SUBSET Nodes]

None == "none"
NoDepend == -1

VARIABLES
    sent,     \* sent[s]: the packets of s
    have,     \* have[n][s]: positions of s's packets that reached n
    out,      \* out[n][s]: next_output_packet of sender s at n
    tried,    \* tried[n][s]: packets of s whose acknowledgements n has read
    acked,    \* acked[n][s]: packets of s below are acknowledged by all, at n
    phase,    \* phase[n][s]: "member", "failing" (sender FAILED) or "removed"
    endPoint, \* endPoint[n][s]: end_point of a failed sender
    failures, \* failures[n][m]: members that m has failed, as n has heard
    freed,    \* freed[n]: removed senders whose cache is gone at n
    scenario, \* the scenario of this behaviour
    gone,     \* nodes that crashed, left or were reset
    queue     \* queue[n]: the senders n's pop loop has still to visit; {}: not running

nodeVars == <<have, out, tried, acked, phase, endPoint, failures, freed>>
vars == <<sent, nodeVars, gone, queue, scenario>>

PerPair(v) == [n \in Nodes |-> [s \in Nodes |-> v]]

Init ==
    /\ sent = [s \in Nodes |-> <<>>]
    /\ have = PerPair({}) /\ out = PerPair(0) /\ tried = PerPair(0)
    /\ acked = PerPair(0) /\ phase = PerPair("member") /\ endPoint = PerPair(0)
    /\ failures = PerPair({})
    /\ freed = [n \in Nodes |-> {}]
    /\ scenario \in Scenarios
    /\ gone = {} /\ queue = [n \in Nodes |-> {}]

Live == Nodes \ gone

\* A pop loop runs to its end before the node serves a timer or a packet; the
\* loops of two nodes share nothing, so they run one after the other.
Idle == \A n \in Nodes : queue[n] = {}
Minimum(S) == CHOOSE x \in S : \A y \in S : x <= y
Maximum(S) == CHOOSE x \in S : \A y \in S : x >= y

\* The senders in sender_group->senders of n, n itself among them.
Group(n) == {s \in Nodes : phase[n][s] # "removed"}

\* next_input_packet of s at n.
NextInput(n, s) == Maximum({out[n][s]} \cup {i + 1 : i \in have[n][s]})

\* What n still has of s and can send again on a repair request: all but the
\* packets that were put out and that everybody has acknowledged.
Cached(n, s) ==
    IF s \in freed[n] THEN {}
    ELSE {i \in have[n][s] : i >= acked[n][s] \/ i >= out[n][s]}

-----------------------------------------------------------------------------
(* Sending *)

\* add_packet_depends with next_input_packet for next_output_packet.
DependsOnInput(n, seen) ==
    [t \in Nodes |-> IF t = n \/ phase[n][t] # "member" THEN NoDepend ELSE NextInput(n, t)]

\* add_packet_depends: what n has put out of every sender that has not failed,
\* where seen is out[n] at the time of the call.
Depends(n, seen) ==
    [t \in Nodes |-> IF t = n \/ phase[n][t] # "member" THEN NoDepend ELSE seen[t]]

\* Push of an own packet, for what it says see Packet: the node caches it.
\* The history `past` is all that n had put out, of failed senders too.
Sends(n, kind, about, seen) ==
    /\ sent' = [sent EXCEPT ![n] = Append(@,
                    [kind |-> kind, about |-> about, deps |-> Depends(n, seen),
                     past |-> [seen EXCEPT ![n] = Len(sent[n])]])]
    /\ have' = [have EXCEPT ![n][n] = @ \cup {Len(sent[n])}]

\* causal_transport_send and send_keepalive_cb; the handler of data that is
\* being put out may send too.
SendData(n) ==
    /\ n \in Live /\ \A m \in Nodes \ {n} : queue[m] = {}
    /\ Cardinality({i \in 1..Len(sent[n]) : sent[n][i].kind = "data"}) < scenario.data[n]
    /\ Sends(n, "data", None, out[n])
    /\ queue' = [queue EXCEPT ![n] = @ \cup {n}]
    /\ UNCHANGED <<out, tried, acked, phase, endPoint, failures, freed, gone>>

\* do_disconnect: a BYE packet, without dependencies, is the last of n.
Leave(n) ==
    /\ n \in Live \cap scenario.faulty /\ Idle
    /\ sent' = [sent EXCEPT ![n] = Append(@,
                    [kind |-> "bye", about |-> n, deps |-> [t \in Nodes |-> NoDepend],
                     past |-> [t \in Nodes |-> IF t = n THEN Len(sent[n]) ELSE 0]])]
    /\ gone' = gone \cup {n}
    /\ UNCHANGED <<nodeVars, queue>>

Crash(n) ==
    /\ n \in Live \cap scenario.faulty /\ Idle
    /\ gone' = gone \cup {n}
    /\ UNCHANGED <<sent, nodeVars, queue>>

\* A reliable packet reaches n, from its sender or from a member that repairs
\* it; push drops the packets n has put out.
Receive(n, s) ==
    /\ n \in Live /\ Idle /\ n # s /\ s \in Group(n)
    /\ \E i \in 0..(Len(sent[s]) - 1) :
        /\ i >= out[n][s] /\ i \notin have[n][s]
        /\ have' = [have EXCEPT ![n][s] = @ \cup {i}]
    /\ queue' = [queue EXCEPT ![n] = {s}]
    /\ UNCHANGED <<sent, out, tried, acked, phase, endPoint, failures, freed, gone>>

-----------------------------------------------------------------------------
(* Acknowledgements and garbage collection *)

\* ack_info of t about s at n, once n has read the first k packets of t: the
\* latest dependency on s among them, and the packet that first had it.
AckOf(n, t, s, k) == Maximum({NoDepend} \cup {sent[t][i].deps[s] : i \in 1..k[t]})
FirstAck(n, t, s, k) == Minimum({i - 1 : i \in {j \in 1..k[t] : sent[t][j].deps[s] = AckOf(n, t, s, k)}})

\* update_sender_acks that does not remove a sender somebody has not acked yet.
AckedByKnown(n, s, k) ==
    Minimum({NextInput(n, s)} \cup ({AckOf(n, t, s, k) : t \in Group(n) \ {s}} \ {NoDepend}))

\* create_sender_array and update_sender_acks: everybody in the group has
\* acknowledged the packets of s below this one; nothing new if someone has
\* not acknowledged s at all.
AckedByAll(n, s, k) ==
    Minimum({NextInput(n, s)} \cup {AckOf(n, t, s, k) : t \in Group(n) \ {s}})

\* can_gc_sender: t knows the last packet of the removed s that n put out, by
\* a dependency of its own or of a packet that t acknowledged.
DirectAck(n, t, s, k) == AckOf(n, t, s, k) >= out[n][s]
IndirectAck(n, t, s, k) ==
    \E x \in Group(n) \ {t} :
        DirectAck(n, x, s, k) /\ AckOf(n, t, x, k) > FirstAck(n, x, s, k)
CanGcSender(n, s, k) == \A t \in Group(n) : DirectAck(n, t, s, k) \/ IndirectAck(n, t, s, k)

\* update_acks: n reads the next packet of t, before it looks at whether the
\* dependencies are met, and collects garbage if an acknowledgement is new.
AcksRead(n, t) ==
    LET k == [tried[n] EXCEPT ![t] = out[n][t] + 1]
        new == \E s \in Nodes : AckOf(n, t, s, k) > AckOf(n, t, s, tried[n])
    IN  [tried |-> k,
         acked |-> [s \in Nodes |-> IF new /\ s \in Group(n)
                                    THEN Maximum({acked[n][s], AckedByAll(n, s, k)})
                                    ELSE acked[n][s]],
         freed |-> freed[n] \cup {s \in Nodes \ Group(n) : new /\ CanGcSender(n, s, k)}]

-----------------------------------------------------------------------------
(* Failure *)

\* find_unfailed_member that waits for failing members too.
UnfailedOrFailing(n, id, ph, fl) ==
    {m \in Nodes \ {n, id} : ph[m] # "removed" /\ id \notin fl[m]}

\* find_unfailed_member: the live members of n that have not failed `id`.
Unfailed(n, id, ph, fl) == {m \in Nodes \ {n} : ph[m] = "member" /\ id \notin fl[m]}

\* check_failure_completion and recheck_failures: the failing members that
\* every live member has failed.
Completed(n, ph, fl) == {id \in Nodes : ph[id] = "failing" /\ Unfailed(n, id, ph, fl) = {}}

\* fail_member: the caller says who reported the failure (or None), what n has
\* put out, what it knows to be acknowledged, and which caches it has freed.
\* sender_group_remove keeps a removed sender while its cache is not empty.
FailMember(n, id, reporter, seen, ack, free) ==
    \/ \* "Someone regarded us as a failure": the transport is reset.
       /\ id = n
       /\ gone' = gone \cup {n} /\ queue' = [queue EXCEPT ![n] = {}]
       /\ freed' = [freed EXCEPT ![n] = free]
       /\ UNCHANGED <<sent, have, phase, endPoint, failures>>
    \/ \* Removed before.
       /\ id # n /\ phase[n][id] = "removed"
       /\ freed' = [freed EXCEPT ![n] = free]
       /\ UNCHANGED <<sent, have, phase, endPoint, failures, gone>>
       /\ queue' = [queue EXCEPT ![n] = IF Idle THEN {} ELSE Group(n)]
    \/ LET new == phase[n][id] = "member"
           ph == [phase[n] EXCEPT ![id] = "failing"]
           told == IF reporter = None THEN failures[n]
                   ELSE [failures[n] EXCEPT ![reporter] = @ \cup {id}]
           ended == IF new THEN [endPoint[n] EXCEPT ![id] = seen[id]] ELSE endPoint[n]
           done == IF Unfailed(n, id, ph, told) = {} THEN Completed(n, ph, told) ELSE {}
       IN  /\ id # n /\ phase[n][id] # "removed"
           /\ IF new THEN Sends(n, "failure", id, seen) ELSE UNCHANGED <<sent, have>>
           /\ endPoint' = [endPoint EXCEPT ![n] = ended]
           /\ phase' = [phase EXCEPT ![n] =
                           [m \in Nodes |-> IF m \in done THEN "removed" ELSE ph[m]]]
           /\ failures' = [failures EXCEPT ![n] =
                           [m \in Nodes |-> IF m \in done THEN {} ELSE told[m] \ done]]
           /\ freed' = [freed EXCEPT ![n] = free \cup {m \in done : ack[m] >= ended[m]}]
           /\ queue' = [queue EXCEPT ![n] = IF Idle THEN {n} ELSE Group(n) \ done]
           /\ UNCHANGED gone

\* The watchdog of module SenderWatchdog: sender_failed_cb.
Suspect(n, id) ==
    /\ n \in Live /\ Idle /\ n # id /\ phase[n][id] = "member"
    /\ id \in gone \cup scenario.suspects
    /\ FailMember(n, id, None, out[n], acked[n], freed[n])
    /\ UNCHANGED <<out, tried, acked>>

\* fail_member_timeout_cb: a member that did not fail `id` in time is failed
\* itself (with three nodes there is at most one).
FailTimeout(n, id) ==
    /\ n \in Live /\ Idle /\ phase[n][id] = "failing"
    /\ \E m \in Unfailed(n, id, phase[n], failures[n]) :
        /\ m \in gone \cup scenario.suspects
        /\ FailMember(n, m, None, out[n], acked[n], freed[n])
    /\ UNCHANGED <<out, tried, acked>>

-----------------------------------------------------------------------------
(* The pop loop *)

\* pop_packet looks at a packet of s: it is here and not behind the end point.
Poppable(n, s) ==
    /\ s \in Group(n) /\ out[n][s] \in have[n][s]
    /\ ~(phase[n][s] = "failing" /\ out[n][s] >= endPoint[n][s])

NextPacket(n, s) == sent[s][out[n][s] + 1]

\* check_depends that passes over failed senders.
MissingMembers(n, s) ==
    {t \in Group(n) : phase[n][t] = "member" /\ NextPacket(n, s).deps[t] > out[n][t]}

\* check_depends: the senders of the group that the next packet of s waits for.
Missing(n, s) == {t \in Group(n) : NextPacket(n, s).deps[t] > out[n][t]}

\* pop_packet of a packet whose dependencies are met: after a pop the loop
\* visits every sender of the group.
Pop(n, s) ==
    LET p == NextPacket(n, s)
        seen == [out[n] EXCEPT ![s] = @ + 1]
        read == AcksRead(n, s)
    IN  /\ s \in queue[n] /\ Poppable(n, s) /\ Missing(n, s) = {}
        /\ tried' = [tried EXCEPT ![n] = read.tried]
        /\ acked' = [acked EXCEPT ![n] = read.acked]
        /\ out' = [out EXCEPT ![n] = seen]
        /\ \/ /\ p.kind = "data" \/ s = n
              /\ freed' = [freed EXCEPT ![n] = read.freed]
              /\ queue' = [queue EXCEPT ![n] = Group(n)]
              /\ UNCHANGED <<sent, have, phase, endPoint, failures, gone>>
           \/ /\ p.kind = "failure" /\ s # n
              /\ FailMember(n, p.about, s, seen, read.acked, read.freed)
           \/ /\ p.kind = "bye"
              /\ FailMember(n, s, None, seen, read.acked, read.freed)

\* The loop visits a sender that has nothing to put out.  If its next packet
\* waits for a failed sender, that one is asked for more (update_end) and
\* queued; the search ends at the first sender that is missing.
Visit(n, s) ==
    /\ s \in queue[n]
    /\ \/ /\ ~Poppable(n, s)
          /\ queue' = [queue EXCEPT ![n] = @ \ {s}]
          /\ UNCHANGED <<tried, acked, freed, endPoint>>
       \/ /\ Poppable(n, s)
          /\ LET read == AcksRead(n, s)
             IN  /\ tried' = [tried EXCEPT ![n] = read.tried]
                 /\ acked' = [acked EXCEPT ![n] = read.acked]
                 /\ freed' = [freed EXCEPT ![n] = read.freed]
          /\ \E t \in Missing(n, s) :
              LET asked == phase[n][t] = "failing" /\ endPoint[n][t] < NextPacket(n, s).deps[t]
              IN  /\ endPoint' = IF asked THEN [endPoint EXCEPT ![n][t] = NextPacket(n, s).deps[t]]
                                          ELSE endPoint
                  /\ queue' = [queue EXCEPT ![n] = (@ \ {s}) \cup (IF asked THEN {t} ELSE {})]
    /\ UNCHANGED <<sent, have, out, phase, failures, gone>>

Next ==
    /\ \/ \E n \in Nodes : SendData(n) \/ Leave(n) \/ Crash(n)
       \/ \E n, s \in Nodes : Receive(n, s) \/ Suspect(n, s) \/ FailTimeout(n, s)
                              \/ Pop(n, s) \/ Visit(n, s)
    /\ UNCHANGED scenario

Spec == Init /\ [][Next]_vars

\* A packet that some live node can send again.
Repairable(n, s) == \E i \in 0..(Len(sent[s]) - 1) :
    i >= out[n][s] /\ i \notin have[n][s] /\ \E x \in Live : i \in Cached(x, s)

\* What happens in time: the pop loops run, a gap that can be repaired is
\* (module SenderWindow), and the timers about a member that is gone expire.
Progress(n, s) ==
    \/ Pop(n, s) \/ Visit(n, s)
    \/ Repairable(n, s) /\ Receive(n, s)
    \/ s \in gone /\ Suspect(n, s)
    \/ FailTimeout(n, s)

\* Every behaviour has finitely many such steps, so fairness to one of them is
\* fairness to each.
Fairness == WF_vars(UNCHANGED scenario /\ \E n, s \in Nodes : Progress(n, s))

FairSpec == Spec /\ Fairness

-----------------------------------------------------------------------------
(* Properties *)

Positions == 0..(MaxData + Cardinality(Nodes))

\* Every packet is put out after everything its sender had put out, that of
\* failed and removed senders included, which packets do not name any more.
Order == INSTANCE CausalBroadcast WITH
            past <- [s \in Nodes |-> [i \in 1..Len(sent[s]) |-> sent[s][i].past]],
            out <- [n \in Nodes |-> [out[n] EXCEPT ![n] = Len(sent[n])]]
CausalOrder == Order!Spec

\* Two nodes that regard each other as members.
Together(n, m) == {n, m} \subseteq Live /\ phase[n][m] = "member" /\ phase[m][n] = "member"

\* The survivors of a failure agree on the last packet of the failed member:
\* whoever removed it put out at least what any other survivor did.
RemovedAtTheSameEnd ==
    \A n, m, s \in Nodes :
        n # m /\ Together(n, m) /\ phase[n][s] = "removed" => out[m][s] <= out[n][s]

\* A packet that a survivor put out can still be had by another that needs it:
\* the caches never drop a packet that some member is missing.
NothingNeededIsCollected ==
    \A n, m, s \in Nodes : \A i \in 0..(out[m][s] - 1) :
        n # m /\ Together(n, m) /\ phase[n][s] # "removed" /\ i \notin have[n][s]
            => \E x \in Live : i \in Cached(x, s)

\* In the end everybody who is left has removed every member that is gone,
\* but for a node that the others failed before they could tell it.
GoneIsRemoved ==
    <>[](\A s \in gone : \A n \in Live :
            phase[n][s] = "removed" \/ \E m \in Live \ {n} : phase[m][n] # "member")
=============================================================================
