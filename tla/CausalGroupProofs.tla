------------------------- MODULE CausalGroupProofs -------------------------
(***************************************************************************)
(* Proof that the caches of a multicast group keep what a member may still *)
(* need, for every number of members (module CausalGroup).                 *)
(***************************************************************************)
EXTENDS CausalGroup, WellFoundedInduction, TLAPS

Packets ==
    {p \in [kind : {"data", "failure", "bye"}, about : Nodes \cup {None},
            deps : [Nodes -> Nat \cup {NoDepend}], past : [Nodes -> Nat]] :
        p.kind = "failure" => p.about \in Nodes}

Phases == {"member", "failing", "removed"}

\* The types of what the proofs below speak about.
GroupType ==
    /\ sent \in [Nodes -> Seq(Packets)]
    /\ have \in [Nodes -> [Nodes -> SUBSET Nat]]
    /\ out \in [Nodes -> [Nodes -> Nat]]
    /\ tried \in [Nodes -> [Nodes -> Nat]]
    /\ acked \in [Nodes -> [Nodes -> Nat]]
    /\ phase \in [Nodes -> [Nodes -> Phases]]
    /\ endPoint \in [Nodes -> [Nodes -> Nat]]
    /\ freed \in [Nodes -> SUBSET Nodes]

\* Only packets that were sent arrive, what is put out has arrived, and a live
\* node has all of its own.
Arrived ==
    /\ \A n, s \in Nodes : \A i \in have[n][s] : i < Len(sent[s])
    /\ \A n, s \in Nodes : \A i \in Nat : i < out[n][s] => i \in have[n][s]
    /\ \A n \in Nodes : n \in Live => \A i \in Nat : i < Len(sent[n]) => i \in have[n][n]

\* A packet names no more than its sender has put out, and acknowledgements
\* are read of packets that were sent.
Named ==
    /\ \A s, t \in Nodes : \A i \in 1..Len(sent[s]) : sent[s][i].deps[t] <= out[s][t]
    /\ \A n, s \in Nodes : tried[n][s] <= Len(sent[s])

\* What n put out came after what it names of the senders n still has.
Met ==
    \A n, s, t \in Nodes : \A i \in 1..Len(sent[s]) :
        i <= out[n][s] /\ phase[n][t] # "removed" => sent[s][i].deps[t] <= out[n][t]

\* n holds a packet acknowledged by all only when everybody it knows put it out.
AckedIsOut ==
    \A n, m, s \in Nodes : phase[n][m] # "removed" /\ m # s => acked[n][s] <= out[m][s]

\* A failed sender is put out up to its end point.
EndAhead ==
    \A n, s \in Nodes : phase[n][s] = "failing" => out[n][s] <= endPoint[n][s]

\* The cache of a removed sender goes when everybody has put out as much of it,
\* or has removed it.
FreedIsOut ==
    \A n, m, s \in Nodes : s \in freed[n] =>
        /\ phase[n][s] = "removed"
        /\ phase[n][m] # "removed" => phase[m][s] = "removed" \/ out[n][s] <= out[m][s]

IInv == GroupType /\ Arrived /\ Named /\ Met /\ AckedIsOut /\ EndAhead /\ FreedIsOut

-----------------------------------------------------------------------------
(* Least and greatest elements *)

Less == OpToRel(<, Nat)

\* The order of the naturals as a set of pairs.
LEMMA LessDef == \A x, y \in Nat : x < y => <<x, y>> \in Less
BY DEF Less, OpToRel

\* A set of integers with a lower bound has a least element.
LEMMA LeastExists ==
    ASSUME NEW lo \in Int, NEW S, \A x \in S : x \in Int /\ lo <= x, S # {}
    PROVE  \E x \in S : \A y \in S : x <= y
<1>. DEFINE T == {x - lo : x \in S}
<1>1. T \subseteq Nat /\ T # {}
  OBVIOUS
<1>2. IsWellFoundedOn(Less, Nat)
  BY NatLessThanWellFounded DEF Less
<1>3. PICK t \in T : \A u \in T : ~ (<<u, t>> \in Less)
  <2>. HIDE DEF T
  <2>. QED BY <1>1, <1>2, WFMin
<1>4. PICK x \in S : t = x - lo
  BY <1>3
<1>5. ASSUME NEW y \in S PROVE x <= y
  <2>1. y - lo \in T /\ y - lo \in Nat /\ x - lo \in Nat
    OBVIOUS
  <2>2. ~(y - lo < x - lo)
    BY <1>3, <1>4, <2>1, LessDef
  <2>. QED BY <2>2
<1>. QED BY <1>5

\* Minimum of a set of integers with a lower bound.
LEMMA MinimumIs ==
    ASSUME NEW lo \in Int, NEW S, \A x \in S : x \in Int /\ lo <= x, S # {}
    PROVE  Minimum(S) \in S /\ \A y \in S : Minimum(S) <= y
BY LeastExists DEF Minimum

\* Maximum of a set of integers between two bounds.
LEMMA MaximumIs ==
    ASSUME NEW lo \in Int, NEW hi \in Int, NEW S, \A x \in S : x \in Int /\ lo <= x /\ x <= hi, S # {}
    PROVE  Maximum(S) \in S /\ \A y \in S : y <= Maximum(S)
<1>. DEFINE T == {hi - x : x \in S}
<1>1. (\A t \in T : t \in Int /\ 0 <= t) /\ T # {}
  OBVIOUS
<1>2. PICK t \in T : \A u \in T : t <= u
  <2>. HIDE DEF T
  <2>. QED BY <1>1, LeastExists
<1>3. PICK x \in S : t = hi - x
  BY <1>2
<1>4. ASSUME NEW y \in S PROVE y <= x
  <2>1. hi - y \in T
    OBVIOUS
  <2>2. hi - x <= hi - y
    BY <2>1, <1>2, <1>3
  <2>. QED BY <2>2
<1>. QED BY <1>4 DEF Maximum

-----------------------------------------------------------------------------
(* What a node reads from acknowledgements *)

\* NextInput is a count of packets that were sent, and no less than is out.
LEMMA NextInputIs ==
    ASSUME GroupType, Arrived, NEW n \in Nodes, NEW s \in Nodes
    PROVE  NextInput(n, s) \in Nat
<1>. DEFINE S == {out[n][s]} \cup {i + 1 : i \in have[n][s]}
            hi == Len(sent[s]) + out[n][s]
<1>1. out[n][s] \in Nat /\ have[n][s] \subseteq Nat /\ Len(sent[s]) \in Nat
  BY DEF GroupType
<1>2. \A i \in have[n][s] : i < Len(sent[s])
  BY DEF Arrived
<1>3. \A x \in S : x \in Int /\ 0 <= x /\ x <= hi
  BY <1>1, <1>2
<1>4. S # {} /\ hi \in Int
  BY <1>1
<1>5. Maximum(S) \in S
  <2>. HIDE DEF S, hi
  <2>. QED BY <1>3, <1>4, MaximumIs
<1>. QED BY <1>3, <1>5 DEF NextInput

\* AckOf is the greatest dependency read, if there is one.
LEMMA AckOfIs ==
    ASSUME GroupType, Named, NEW n \in Nodes, NEW t \in Nodes, NEW s \in Nodes,
           NEW k \in [Nodes -> Nat], k[t] <= Len(sent[t])
    PROVE  /\ AckOf(n, t, s, k) \in Int
           /\ NoDepend <= AckOf(n, t, s, k) /\ AckOf(n, t, s, k) <= out[t][s]
           /\ AckOf(n, t, s, k) # NoDepend =>
                 \E i \in 1..k[t] : sent[t][i].deps[s] = AckOf(n, t, s, k)
<1>. DEFINE S == {NoDepend} \cup {sent[t][i].deps[s] : i \in 1..k[t]}
            hi == out[t][s]
<1>1. hi \in Nat /\ k[t] \in Nat /\ Len(sent[t]) \in Nat
  BY DEF GroupType
<1>2. ASSUME NEW i \in 1..k[t] PROVE sent[t][i].deps[s] \in Nat \cup {NoDepend} /\ sent[t][i].deps[s] <= hi
  <2>1. i \in 1..Len(sent[t])
    BY <1>1
  <2>2. sent[t] \in Seq(Packets)
    BY DEF GroupType
  <2>3. sent[t][i] \in Packets
    BY <2>1, <2>2
  <2>. QED BY <2>1, <2>3 DEF Packets, Named
<1>3. \A x \in S : x \in Int /\ NoDepend <= x /\ x <= hi
  <2>1. \A x \in Nat \cup {NoDepend} : x \in Int /\ NoDepend <= x
    BY DEF NoDepend
  <2>2. NoDepend <= hi
    BY <1>1 DEF NoDepend
  <2>3. \A x \in S : x \in Nat \cup {NoDepend} /\ x <= hi
    BY <1>2, <2>2
  <2>. QED BY <2>1, <2>3
<1>4. S # {} /\ hi \in Int /\ NoDepend \in Int
  BY <1>1 DEF NoDepend
<1>5. Maximum(S) \in S
  <2>. HIDE DEF S, hi
  <2>. QED BY <1>3, <1>4, MaximumIs
<1>. QED BY <1>3, <1>5 DEF AckOf

\* FirstAck is the position of a packet that has the dependency AckOf.
LEMMA FirstAckIs ==
    ASSUME GroupType, Named, NEW n \in Nodes, NEW t \in Nodes, NEW s \in Nodes,
           NEW k \in [Nodes -> Nat], k[t] <= Len(sent[t]), AckOf(n, t, s, k) # NoDepend
    PROVE  \E i \in 1..k[t] : FirstAck(n, t, s, k) = i - 1 /\ sent[t][i].deps[s] = AckOf(n, t, s, k)
<1>. DEFINE S == {i - 1 : i \in {j \in 1..k[t] : sent[t][j].deps[s] = AckOf(n, t, s, k)}}
<1>1. S # {}
  BY AckOfIs
<1>2. \A x \in S : x \in Int /\ 0 <= x
  OBVIOUS
<1>3. Minimum(S) \in S
  <2>. HIDE DEF S
  <2>. QED BY <1>1, <1>2, MinimumIs
<1>. QED BY <1>3 DEF FirstAck

\* Nobody else in the group has put out less than AckedByAll says.
LEMMA AckedByAllIs ==
    ASSUME GroupType, Arrived, Named, NEW n \in Nodes, NEW s \in Nodes,
           NEW k \in [Nodes -> Nat], \A t \in Nodes : k[t] <= Len(sent[t])
    PROVE  /\ AckedByAll(n, s, k) \in Int
           /\ \A t \in Group(n) : t # s => AckedByAll(n, s, k) <= out[t][s]
<1>. DEFINE S == {NextInput(n, s)} \cup {AckOf(n, t, s, k) : t \in Group(n) \ {s}}
<1>1. \A t \in Nodes : /\ AckOf(n, t, s, k) \in Int
                       /\ NoDepend <= AckOf(n, t, s, k) /\ AckOf(n, t, s, k) <= out[t][s]
  BY AckOfIs
<1>2. \A x \in S : x \in Int /\ NoDepend <= x
  BY <1>1, NextInputIs DEF Group, NoDepend
<1>3. Minimum(S) \in S /\ \A y \in S : Minimum(S) <= y
  <2>1. S # {} /\ NoDepend \in Int
    BY DEF NoDepend
  <2>. HIDE DEF S
  <2>. QED BY <1>2, <2>1, MinimumIs
<1>4. Minimum(S) = AckedByAll(n, s, k)
  BY DEF AckedByAll
<1>5. ASSUME NEW t \in Group(n), t # s PROVE AckedByAll(n, s, k) <= out[t][s]
  <2>1. t \in Nodes /\ AckOf(n, t, s, k) \in S
    BY <1>5 DEF Group
  <2>2. AckedByAll(n, s, k) <= AckOf(n, t, s, k) /\ AckedByAll(n, s, k) \in Int
    BY <1>2, <1>3, <1>4, <2>1
  <2>3. out[t][s] \in Nat
    BY <2>1 DEF GroupType
  <2>. QED BY <1>1, <2>1, <2>2, <2>3
<1>. QED BY <1>2, <1>3, <1>4, <1>5

\* can_gc_sender: everybody in the group has put out as much of s as n has, or
\* has removed it.  A member that did not say so itself has put out a packet
\* whose sender said it.
LEMMA CanGcSenderIs ==
    ASSUME GroupType, Named, Met, NEW n \in Nodes, NEW s \in Nodes,
           NEW k \in [Nodes -> Nat], \A t \in Nodes : k[t] <= Len(sent[t]),
           CanGcSender(n, s, k), NEW t \in Group(n)
    PROVE  phase[t][s] = "removed" \/ out[n][s] <= out[t][s]
<1>1. t \in Nodes /\ out[n][s] \in Nat /\ out[t][s] \in Nat
  BY DEF Group, GroupType
<1>2. DirectAck(n, t, s, k) \/ IndirectAck(n, t, s, k)
  BY DEF CanGcSender
<1>3. CASE DirectAck(n, t, s, k)
  <2>1. AckOf(n, t, s, k) \in Int /\ AckOf(n, t, s, k) <= out[t][s]
    BY <1>1, AckOfIs
  <2>. QED BY <1>1, <1>3, <2>1 DEF DirectAck
<1>4. CASE IndirectAck(n, t, s, k)
  <2>1. PICK x \in Group(n) : DirectAck(n, x, s, k) /\ AckOf(n, t, x, k) > FirstAck(n, x, s, k)
    BY <1>4 DEF IndirectAck
  <2>2. x \in Nodes
    BY DEF Group
  <2>3. AckOf(n, x, s, k) \in Int /\ out[n][s] <= AckOf(n, x, s, k) /\ AckOf(n, x, s, k) # NoDepend
    <3>1. AckOf(n, x, s, k) \in Int
      BY <2>2, AckOfIs
    <3>. QED BY <1>1, <2>1, <3>1 DEF DirectAck, NoDepend
  <2>4. PICK i \in 1..k[x] : FirstAck(n, x, s, k) = i - 1 /\ sent[x][i].deps[s] = AckOf(n, x, s, k)
    BY <2>2, <2>3, FirstAckIs
  <2>5. AckOf(n, t, x, k) \in Int /\ AckOf(n, t, x, k) <= out[t][x] /\ out[t][x] \in Nat
    BY <1>1, <2>2, AckOfIs DEF GroupType
  <2>6. i <= out[t][x] /\ i \in 1..Len(sent[x])
    <3>1. k[x] \in Nat /\ k[x] <= Len(sent[x]) /\ Len(sent[x]) \in Nat
      BY <2>2 DEF GroupType
    <3>. QED BY <2>1, <2>4, <2>5, <3>1
  <2>7. phase[t][s] # "removed" => sent[x][i].deps[s] <= out[t][s]
    BY <1>1, <2>2, <2>6 DEF Met
  <2>. QED BY <1>1, <2>3, <2>4, <2>7
<1>. QED BY <1>2, <1>3, <1>4

\* update_acks and the garbage collection that follows: what n then takes for
\* acknowledged, and the caches it frees.
LEMMA AcksReadIs ==
    ASSUME IInv, NEW n \in Nodes, NEW t \in Nodes, Poppable(n, t),
           NEW r, r = AcksRead(n, t)
    PROVE  /\ r.tried \in [Nodes -> Nat] /\ \A s \in Nodes : r.tried[s] <= Len(sent[s])
           /\ r.acked \in [Nodes -> Nat]
           /\ \A s, m \in Nodes : phase[n][m] # "removed" /\ m # s => r.acked[s] <= out[m][s]
           /\ r.freed \subseteq Nodes
           /\ \A s \in r.freed : \/ s \in freed[n]
                                 \/ /\ phase[n][s] = "removed"
                                    /\ \A m \in Nodes : phase[n][m] # "removed" =>
                                          phase[m][s] = "removed" \/ out[n][s] <= out[m][s]
<1>. DEFINE k == [tried[n] EXCEPT ![t] = out[n][t] + 1]
            new == \E s \in Nodes : AckOf(n, t, s, k) > AckOf(n, t, s, tried[n])
            top(s) == Maximum({acked[n][s], AckedByAll(n, s, k)})
<1>t. GroupType /\ Arrived /\ Named /\ Met /\ AckedIsOut /\ FreedIsOut
  BY DEF IInv
<1>1. /\ r.tried = k
      /\ r.acked = [s \in Nodes |-> IF new /\ s \in Group(n) THEN top(s) ELSE acked[n][s]]
      /\ r.freed = freed[n] \cup {s \in Nodes \ Group(n) : new /\ CanGcSender(n, s, k)}
  BY DEF AcksRead
<1>2. /\ tried[n] \in [Nodes -> Nat] /\ out[n][t] \in Nat /\ freed[n] \subseteq Nodes
      /\ acked[n] \in [Nodes -> Nat]
  <2>1. /\ tried \in [Nodes -> [Nodes -> Nat]] /\ out \in [Nodes -> [Nodes -> Nat]]
        /\ acked \in [Nodes -> [Nodes -> Nat]] /\ freed \in [Nodes -> SUBSET Nodes]
    BY <1>t DEF GroupType
  <2>. QED BY <2>1
<1>3. k \in [Nodes -> Nat] /\ \A s \in Nodes : k[s] <= Len(sent[s])
  <2>1. k \in [Nodes -> Nat] /\ k[t] = out[n][t] + 1 /\ \A s \in Nodes : s # t => k[s] = tried[n][s]
    BY <1>2
  <2>2. out[n][t] \in have[n][t] /\ Len(sent[t]) \in Nat
    BY <1>t DEF Poppable, GroupType
  <2>3. out[n][t] + 1 <= Len(sent[t])
    BY <1>t, <1>2, <2>2 DEF Arrived
  <2>. QED BY <1>t, <2>1, <2>3 DEF Named
<1>. HIDE DEF k
<1>4. ASSUME NEW s \in Nodes
      PROVE  /\ top(s) \in Nat
             /\ \A m \in Nodes : phase[n][m] # "removed" /\ m # s => top(s) <= out[m][s]
  <2>1. AckedByAll(n, s, k) \in Int /\ \A m \in Group(n) : m # s => AckedByAll(n, s, k) <= out[m][s]
    BY <1>t, <1>3, AckedByAllIs
  <2>2. acked[n][s] \in Nat
    BY <1>2
  <2>. DEFINE x == acked[n][s]
              y == AckedByAll(n, s, k)
  <2>3. top(s) \in {x, y} /\ x <= top(s)
    <3>. HIDE DEF x, y
    <3>1. x \in Nat /\ y \in Int
      BY <2>1, <2>2 DEF x, y
    <3>2. CASE x <= y
      <4>. DEFINE S == {x, y}
      <4>1. (\A z \in S : z \in Int /\ x <= z /\ z <= y) /\ S # {} /\ x \in S
        BY <3>1, <3>2
      <4>2. Maximum(S) \in S /\ \A z \in S : z <= Maximum(S)
        <5>. HIDE DEF S
        <5>. QED BY <3>1, <4>1, MaximumIs
      <4>. QED BY <4>1, <4>2 DEF x, y
    <3>3. CASE y <= x
      <4>. DEFINE S == {x, y}
      <4>1. (\A z \in S : z \in Int /\ y <= z /\ z <= x) /\ S # {} /\ x \in S
        BY <3>1, <3>3
      <4>2. Maximum(S) \in S /\ \A z \in S : z <= Maximum(S)
        <5>. HIDE DEF S
        <5>. QED BY <3>1, <4>1, MaximumIs
      <4>. QED BY <4>1, <4>2 DEF x, y
    <3>. QED BY <3>1, <3>2, <3>3
  <2>4. \A m \in Nodes : phase[n][m] # "removed" /\ m # s => x <= out[m][s] /\ y <= out[m][s]
    BY <1>t, <2>1 DEF AckedIsOut, Group
  <2>. QED BY <2>1, <2>2, <2>3, <2>4
<1>5. \A s \in Nodes : r.acked[s] = top(s) \/ r.acked[s] = acked[n][s]
  BY <1>1
<1>6. r.acked \in [Nodes -> Nat]
  BY <1>1, <1>2, <1>4
<1>7. \A s, m \in Nodes : phase[n][m] # "removed" /\ m # s => r.acked[s] <= out[m][s]
  BY <1>t, <1>4, <1>5 DEF AckedIsOut
<1>8. ASSUME NEW s \in r.freed, s \notin freed[n]
      PROVE  /\ phase[n][s] = "removed"
             /\ \A m \in Nodes : phase[n][m] # "removed" => phase[m][s] = "removed" \/ out[n][s] <= out[m][s]
  <2>1. s \in Nodes /\ s \notin Group(n) /\ CanGcSender(n, s, k)
    BY <1>1, <1>8
  <2>. QED BY <1>t, <1>3, <2>1, CanGcSenderIs DEF Group
<1>. QED BY <1>1, <1>2, <1>3, <1>6, <1>7, <1>8

-----------------------------------------------------------------------------
(* Steps *)

\* What a step of n may do to the packets: it adds some of n's own, which name
\* no more than n has put out, and packets that were sent arrive at n.
Grown(n) ==
    /\ sent' \in [Nodes -> Seq(Packets)] /\ have' \in [Nodes -> [Nodes -> SUBSET Nat]]
    /\ \A s \in Nodes : /\ Len(sent[s]) <= Len(sent'[s])
                        /\ \A i \in 1..Len(sent[s]) : sent'[s][i] = sent[s][i]
    /\ \A s, t \in Nodes : \A i \in 1..Len(sent'[s]) :
          i > Len(sent[s]) => sent'[s][i].deps[t] <= out'[s][t]
    /\ \A m, s \in Nodes : have[m][s] \subseteq have'[m][s]
    /\ \A m, s \in Nodes : \A i \in have'[m][s] : i < Len(sent'[s])
    /\ \A m \in Nodes : m \in Live' => \A i \in Nat : i < Len(sent'[m]) => i \in have'[m][m]

\* What it may do to the records of n; the others keep theirs.
Advances(n) ==
    /\ out' \in [Nodes -> [Nodes -> Nat]] /\ tried' \in [Nodes -> [Nodes -> Nat]]
    /\ acked' \in [Nodes -> [Nodes -> Nat]] /\ phase' \in [Nodes -> [Nodes -> Phases]]
    /\ endPoint' \in [Nodes -> [Nodes -> Nat]] /\ freed' \in [Nodes -> SUBSET Nodes]
    /\ \A m \in Nodes : m # n =>
          /\ out'[m] = out[m] /\ tried'[m] = tried[m] /\ acked'[m] = acked[m]
          /\ phase'[m] = phase[m] /\ endPoint'[m] = endPoint[m] /\ freed'[m] = freed[m]
    /\ \A s \in Nodes : /\ out[n][s] <= out'[n][s]
                        /\ phase[n][s] = "removed" => phase'[n][s] = "removed" /\ out'[n][s] = out[n][s]
                        /\ out'[n][s] <= Len(sent[s])
                        /\ \A i \in Nat : i < out'[n][s] => i \in have[n][s]
                        /\ tried'[n][s] <= Len(sent[s])
                        /\ phase'[n][s] = "failing" => out'[n][s] <= endPoint'[n][s]
    /\ \A s, t \in Nodes : \A i \in 1..Len(sent[s]) :
          out[n][s] < i /\ i <= out'[n][s] /\ phase[n][t] # "removed" => sent[s][i].deps[t] <= out'[n][t]
    /\ \A s, m \in Nodes : phase[n][m] # "removed" /\ m # s => acked'[n][s] <= out[m][s]
    /\ \A s, m \in Nodes : s \in freed'[n] /\ s \notin freed[n] =>
          /\ phase'[n][s] = "removed"
          /\ phase'[n][m] # "removed" /\ m # n => phase[m][s] = "removed" \/ out'[n][s] <= out[m][s]

\* Such a step keeps the invariant.
LEMMA Keeps ==
    ASSUME IInv, NEW n \in Nodes, Grown(n), Advances(n)
    PROVE  IInv'
<1>t. GroupType /\ Arrived /\ Named /\ Met /\ AckedIsOut /\ EndAhead /\ FreedIsOut
  BY DEF IInv
<1>1. GroupType'
  BY DEF GroupType, Grown, Advances
<1>s. sent \in [Nodes -> Seq(Packets)] /\ sent' \in [Nodes -> Seq(Packets)]
  BY <1>t, <1>1 DEF GroupType
<1>o. out \in [Nodes -> [Nodes -> Nat]] /\ out' \in [Nodes -> [Nodes -> Nat]]
  BY <1>t, <1>1 DEF GroupType
<1>h. \A m \in Nodes : m # n =>
          /\ out'[m] = out[m] /\ tried'[m] = tried[m] /\ acked'[m] = acked[m]
          /\ phase'[m] = phase[m] /\ endPoint'[m] = endPoint[m] /\ freed'[m] = freed[m]
  BY DEF Advances
<1>d. ASSUME NEW s \in Nodes, NEW i \in 1..Len(sent[s]), NEW t \in Nodes PROVE sent[s][i].deps[t] \in Int
  <2>1. sent[s] \in Seq(Packets)
    BY <1>s
  <2>2. sent[s][i] \in Packets
    BY <2>1
  <2>. QED BY <2>2 DEF Packets, NoDepend
<1>2. /\ \A s \in Nodes : Len(sent[s]) \in Nat /\ Len(sent'[s]) \in Nat
      /\ \A m, s \in Nodes : out[m][s] \in Nat /\ out'[m][s] \in Nat /\ out[m][s] <= out'[m][s]
  <2>1. \A s \in Nodes : Len(sent[s]) \in Nat /\ Len(sent'[s]) \in Nat
    <3>. SUFFICES ASSUME NEW s \in Nodes PROVE Len(sent[s]) \in Nat /\ Len(sent'[s]) \in Nat
      OBVIOUS
    <3>1. sent[s] \in Seq(Packets) /\ sent'[s] \in Seq(Packets)
      BY <1>s
    <3>. QED BY <3>1
  <2>2. \A m, s \in Nodes : out[m][s] \in Nat /\ out'[m][s] \in Nat
    BY <1>o
  <2>3. \A m, s \in Nodes : out[m][s] <= out'[m][s]
    <3>. SUFFICES ASSUME NEW m \in Nodes, NEW s \in Nodes PROVE out[m][s] <= out'[m][s]
      OBVIOUS
    <3>1. CASE m = n
      BY <3>1 DEF Advances
    <3>2. CASE m # n
      BY <3>2, <2>2, <1>h
    <3>. QED BY <3>1, <3>2
  <2>. QED BY <2>1, <2>2, <2>3
<1>3. ASSUME NEW m \in Nodes, NEW s \in Nodes PROVE phase[m][s] = "removed" => phase'[m][s] = "removed" /\ out'[m][s] = out[m][s]
  <2>1. CASE m = n
    BY <2>1 DEF Advances
  <2>2. CASE m # n
    BY <2>2 DEF Advances
  <2>. QED BY <2>1, <2>2
<1>4. Arrived'
  <2>1. ASSUME NEW m \in Nodes, NEW s \in Nodes, NEW i \in Nat, i < out'[m][s] PROVE i \in have'[m][s]
    <3>1. CASE m = n
      BY <2>1, <3>1 DEF Advances, Grown
    <3>2. CASE m # n
      BY <1>t, <2>1, <3>2 DEF Advances, Grown, Arrived
    <3>. QED BY <3>1, <3>2
  <2>. QED BY <2>1 DEF Arrived, Grown
<1>5. Named'
  <2>1. ASSUME NEW s \in Nodes, NEW t \in Nodes, NEW i \in 1..Len(sent'[s])
        PROVE  sent'[s][i].deps[t] <= out'[s][t]
    <3>1. CASE i > Len(sent[s])
      BY <3>1 DEF Grown
    <3>2. CASE ~(i > Len(sent[s]))
      <4>1. i \in 1..Len(sent[s])
        BY <1>2, <3>2
      <4>2. sent'[s][i] = sent[s][i] /\ sent[s][i].deps[t] <= out[s][t]
        BY <1>t, <4>1 DEF Grown, Named
      <4>3. sent[s][i].deps[t] \in Int
        BY <4>1, <1>d
      <4>. QED BY <1>2, <4>2, <4>3
    <3>. QED BY <3>1, <3>2
  <2>2. ASSUME NEW m \in Nodes, NEW s \in Nodes PROVE tried'[m][s] <= Len(sent'[s])
    <3>1. tried'[m][s] <= Len(sent[s]) /\ tried'[m][s] \in Nat
      <4>1. CASE m = n
        BY <4>1, <1>1 DEF Advances, GroupType
      <4>2. CASE m # n
        <5>1. tried'[m][s] \in Nat
          BY <1>1 DEF GroupType
        <5>. QED BY <1>t, <1>h, <4>2, <5>1 DEF Named
      <4>. QED BY <4>1, <4>2
    <3>2. Len(sent[s]) <= Len(sent'[s])
      BY DEF Grown
    <3>. QED BY <3>1, <3>2, <1>2
  <2>. QED BY <2>1, <2>2 DEF Named
<1>6. Met'
  <2>. SUFFICES ASSUME NEW m \in Nodes, NEW s \in Nodes, NEW t \in Nodes, NEW i \in 1..Len(sent'[s]),
                       i <= out'[m][s], phase'[m][t] # "removed"
                PROVE  sent'[s][i].deps[t] <= out'[m][t]
    BY DEF Met
  <2>1. i \in 1..Len(sent[s])
    <3>1. out'[m][s] <= Len(sent[s])
      <4>1. CASE m = n
        BY <4>1 DEF Advances
      <4>2. CASE m # n
        <5>0. out[m][s] \in Nat
          BY <1>2
        <5>1. out[m][s] = 0 \/ out[m][s] - 1 \in have[m][s]
          <6>1. \A j \in Nat : j < out[m][s] => j \in have[m][s]
            BY <1>t DEF Arrived
          <6>2. out[m][s] # 0 => out[m][s] - 1 \in Nat /\ out[m][s] - 1 < out[m][s]
            BY <5>0
          <6>. QED BY <6>1, <6>2
        <5>2. out[m][s] = 0 \/ out[m][s] - 1 < Len(sent[s])
          BY <1>t, <5>1 DEF Arrived
        <5>3. out'[m][s] = out[m][s] /\ Len(sent[s]) \in Nat
          BY <1>2, <1>h, <4>2
        <5>. QED BY <5>0, <5>2, <5>3
      <4>. QED BY <4>1, <4>2
    <3>. QED BY <1>2, <3>1
  <2>2. sent'[s][i] = sent[s][i] /\ phase[m][t] # "removed"
    BY <2>1, <1>3 DEF Grown
  <2>3. sent[s][i].deps[t] \in Int
    BY <2>1, <1>d
  <2>4. CASE i <= out[m][s]
    <3>1. sent[s][i].deps[t] <= out[m][t]
      BY <1>t, <2>1, <2>2, <2>4 DEF Met
    <3>. QED BY <1>2, <2>2, <2>3, <3>1
  <2>5. CASE ~(i <= out[m][s])
    <3>1. out[m][s] < i /\ m = n
      <4>1. out[m][s] \in Nat
        BY <1>2
      <4>2. m # n => out'[m][s] = out[m][s]
        BY <1>h
      <4>. QED BY <2>1, <2>5, <4>1, <4>2
    <3>. QED BY <2>1, <2>2, <3>1 DEF Advances
  <2>. QED BY <2>4, <2>5
<1>7. AckedIsOut'
  <2>. SUFFICES ASSUME NEW m \in Nodes, NEW x \in Nodes, NEW s \in Nodes, phase'[m][x] # "removed", x # s
                PROVE  acked'[m][s] <= out'[x][s]
    BY DEF AckedIsOut
  <2>1. phase[m][x] # "removed" /\ acked'[m][s] \in Nat
    BY <1>1, <1>3 DEF GroupType
  <2>2. acked'[m][s] <= out[x][s]
    <3>1. CASE m = n
      BY <2>1, <3>1 DEF Advances
    <3>2. CASE m # n
      BY <1>t, <2>1, <3>2 DEF Advances, AckedIsOut
    <3>. QED BY <3>1, <3>2
  <2>. QED BY <1>2, <2>1, <2>2
<1>8. EndAhead'
  <2>. SUFFICES ASSUME NEW m \in Nodes, NEW s \in Nodes, phase'[m][s] = "failing"
                PROVE  out'[m][s] <= endPoint'[m][s]
    BY DEF EndAhead
  <2>1. CASE m = n
    BY <2>1 DEF Advances
  <2>2. CASE m # n
    BY <1>t, <2>2 DEF Advances, EndAhead
  <2>. QED BY <2>1, <2>2
<1>9. FreedIsOut'
  <2>. SUFFICES ASSUME NEW m \in Nodes, NEW x \in Nodes, NEW s \in Nodes, s \in freed'[m]
                PROVE  /\ phase'[m][s] = "removed"
                       /\ phase'[m][x] # "removed" => phase'[x][s] = "removed" \/ out'[m][s] <= out'[x][s]
    BY DEF FreedIsOut
  <2>1. CASE s \in freed[m]
    <3>1. phase[m][s] = "removed" /\ (phase[m][x] # "removed" => phase[x][s] = "removed" \/ out[m][s] <= out[x][s])
      BY <1>t, <2>1 DEF FreedIsOut
    <3>. QED BY <1>2, <1>3, <3>1
  <2>2. CASE s \notin freed[m]
    <3>1. m = n
      BY <2>2 DEF Advances
    <3>2. /\ phase'[m][s] = "removed"
          /\ phase'[m][x] # "removed" /\ x # m => phase[x][s] = "removed" \/ out'[m][s] <= out[x][s]
      BY <2>2, <3>1 DEF Advances
    <3>3. CASE x = m
      BY <1>2, <3>2, <3>3
    <3>4. CASE x # m
      BY <1>2, <1>3, <3>2, <3>4
    <3>. QED BY <3>3, <3>4
  <2>. QED BY <2>1, <2>2
<1>. QED BY <1>1, <1>4, <1>5, <1>6, <1>7, <1>8, <1>9 DEF IInv

\* Nobody puts out what was not sent.
LEMMA OutIsSent ==
    ASSUME GroupType, Arrived, NEW n \in Nodes, NEW s \in Nodes
    PROVE  out[n][s] \in Nat /\ out[n][s] <= Len(sent[s])
<1>1. out[n][s] \in Nat /\ Len(sent[s]) \in Nat
  BY DEF GroupType
<1>2. out[n][s] # 0 => out[n][s] - 1 \in Nat /\ out[n][s] - 1 < out[n][s]
  BY <1>1
<1>3. out[n][s] # 0 => out[n][s] - 1 < Len(sent[s])
  BY <1>2 DEF Arrived
<1>. QED BY <1>1, <1>3

\* A packet that n sends names what n has put out, seen.
LEMMA SendsIs ==
    ASSUME GroupType, NEW n \in Nodes, NEW kind \in {"data", "failure"}, NEW about \in Nodes \cup {None},
           kind = "failure" => about \in Nodes,
           NEW seen \in [Nodes -> Nat], Sends(n, kind, about, seen), Arrived,
           gone \subseteq gone', out' \in [Nodes -> [Nodes -> Nat]], \A t \in Nodes : seen[t] <= out'[n][t]
    PROVE  Grown(n)
<1>. DEFINE len == Len(sent[n])
            p == [kind |-> kind, about |-> about, deps |-> Depends(n, seen),
                  past |-> [seen EXCEPT ![n] = len]]
<1>1. sent[n] \in Seq(Packets) /\ len \in Nat /\ have \in [Nodes -> [Nodes -> SUBSET Nat]]
      /\ sent \in [Nodes -> Seq(Packets)]
  <2>1. sent \in [Nodes -> Seq(Packets)]
    BY DEF GroupType
  <2>2. have \in [Nodes -> [Nodes -> SUBSET Nat]]
    BY DEF GroupType
  <2>3. sent[n] \in Seq(Packets)
    BY <2>1
  <2>. QED BY <2>1, <2>2, <2>3
<1>2. Depends(n, seen) \in [Nodes -> Nat \cup {NoDepend}]
  <2>1. phase[n] \in [Nodes -> Phases]
    BY DEF GroupType
  <2>2. \A t \in Nodes : (IF t = n \/ phase[n][t] # "member" THEN NoDepend ELSE seen[t]) \in Nat \cup {NoDepend}
    OBVIOUS
  <2>. QED BY <2>2 DEF Depends
<1>3. p \in Packets
  <2>1. [seen EXCEPT ![n] = len] \in [Nodes -> Nat]
    BY <1>1
  <2>. QED BY <1>2, <2>1 DEF Packets
<1>4. \A t \in Nodes : p.deps[t] <= out'[n][t]
  <2>. SUFFICES ASSUME NEW t \in Nodes PROVE p.deps[t] <= out'[n][t]
    OBVIOUS
  <2>1. p.deps[t] = NoDepend \/ p.deps[t] = seen[t]
    BY DEF Depends
  <2>2. out'[n][t] \in Nat
    OBVIOUS
  <2>. QED BY <2>1, <2>2 DEF NoDepend
<1>5. sent' = [sent EXCEPT ![n] = Append(@, p)] /\ have' = [have EXCEPT ![n][n] = @ \cup {len}]
  BY DEF Sends
<1>. HIDE DEF p, len
<1>6. /\ sent'[n] = Append(sent[n], p) /\ Append(sent[n], p) \in Seq(Packets)
      /\ \A s \in Nodes : s # n => sent'[s] = sent[s]
  BY <1>1, <1>3, <1>5
<1>7. /\ Len(sent'[n]) = len + 1 /\ sent'[n][len + 1] = p
      /\ \A i \in 1..len : sent'[n][i] = sent[n][i]
  <2>1. ASSUME NEW q \in Seq(Packets)
        PROVE  /\ Len(Append(q, p)) = Len(q) + 1 /\ Append(q, p)[Len(q) + 1] = p
               /\ \A i \in 1..Len(q) : Append(q, p)[i] = q[i]
    BY <1>3
  <2>. QED BY <1>1, <1>6, <2>1 DEF len
<1>8. sent' \in [Nodes -> Seq(Packets)]
  BY <1>1, <1>5, <1>6
<1>9. /\ \A m, s \in Nodes : have'[m][s] = IF m = n /\ s = n THEN have[n][n] \cup {len} ELSE have[m][s]
      /\ have' \in [Nodes -> [Nodes -> SUBSET Nat]]
  <2>1. \A m, s \in Nodes : have'[m][s] = IF m = n /\ s = n THEN have[n][n] \cup {len} ELSE have[m][s]
    BY <1>1, <1>5
  <2>2. \A m, s \in Nodes : have[m][s] \in SUBSET Nat
    BY <1>1
  <2>3. DOMAIN have' = Nodes /\ \A m \in Nodes : have'[m] \in [Nodes -> SUBSET Nat]
    BY <1>1, <1>5
  <2>4. have' \in [Nodes -> [Nodes -> SUBSET Nat]]
    BY <1>1, <1>5
  <2>. QED BY <2>1, <2>4
<1>10. \A s \in Nodes : /\ Len(sent[s]) <= Len(sent'[s])
                        /\ \A i \in 1..Len(sent[s]) : sent'[s][i] = sent[s][i]
  <2>. SUFFICES ASSUME NEW s \in Nodes
                PROVE  /\ Len(sent[s]) <= Len(sent'[s])
                       /\ \A i \in 1..Len(sent[s]) : sent'[s][i] = sent[s][i]
    OBVIOUS
  <2>1. CASE s = n
    BY <1>1, <1>7, <2>1 DEF len
  <2>2. CASE s # n
    <3>1. Len(sent[s]) \in Nat
      BY <1>1
    <3>. QED BY <1>6, <2>2, <3>1
  <2>. QED BY <2>1, <2>2
<1>11. \A s, t \in Nodes : \A i \in 1..Len(sent'[s]) :
          i > Len(sent[s]) => sent'[s][i].deps[t] <= out'[s][t]
  <2>. SUFFICES ASSUME NEW s \in Nodes, NEW t \in Nodes, NEW i \in 1..Len(sent'[s]), i > Len(sent[s])
                PROVE  sent'[s][i].deps[t] <= out'[s][t]
    OBVIOUS
  <2>1. CASE s = n
    <3>1. i = len + 1
      BY <1>1, <1>7, <2>1 DEF len
    <3>. QED BY <1>4, <1>7, <2>1, <3>1
  <2>2. CASE s # n
    <3>1. Len(sent[s]) \in Nat
      BY <1>1
    <3>. QED BY <1>6, <2>2, <3>1
  <2>. QED BY <2>1, <2>2
<1>12. \A m, s \in Nodes : \A i \in have'[m][s] : i < Len(sent'[s])
  <2>. SUFFICES ASSUME NEW m \in Nodes, NEW s \in Nodes, NEW i \in have'[m][s] PROVE i < Len(sent'[s])
    OBVIOUS
  <2>1. Len(sent[s]) \in Nat /\ Len(sent'[s]) \in Nat /\ Len(sent[s]) <= Len(sent'[s]) /\ have[m][s] \subseteq Nat
    <3>1. sent[s] \in Seq(Packets) /\ sent'[s] \in Seq(Packets)
      BY <1>1, <1>8
    <3>2. have[m][s] \subseteq Nat
      BY <1>1
    <3>3. Len(sent[s]) \in Nat /\ Len(sent'[s]) \in Nat
      <4>1. \A q \in Seq(Packets) : Len(q) \in Nat
        OBVIOUS
      <4>. QED BY <3>1, <4>1
    <3>4. Len(sent[s]) <= Len(sent'[s])
      BY <1>10
    <3>. QED BY <3>2, <3>3, <3>4
  <2>2. CASE i \in have[m][s]
    BY <2>1, <2>2 DEF Arrived
  <2>3. CASE i \notin have[m][s]
    <3>1. s = n /\ i = len
      BY <1>9, <2>3
    <3>. QED BY <1>1, <1>7, <3>1
  <2>. QED BY <2>2, <2>3
<1>13. \A m \in Nodes : m \in Live' => \A i \in Nat : i < Len(sent'[m]) => i \in have'[m][m]
  <2>. SUFFICES ASSUME NEW m \in Nodes, m \in Live', NEW i \in Nat, i < Len(sent'[m]) PROVE i \in have'[m][m]
    OBVIOUS
  <2>1. m \in Live
    BY DEF Live
  <2>2. \A j \in Nat : j < Len(sent[m]) => j \in have[m][m]
    BY <2>1 DEF Arrived
  <2>3. CASE m = n
    <3>1. i < len \/ i = len
      BY <1>1, <1>7, <2>3
    <3>. QED BY <1>9, <2>2, <2>3, <3>1 DEF len
  <2>4. CASE m # n
    BY <1>6, <1>9, <2>2, <2>4
  <2>. QED BY <2>3, <2>4
<1>. QED BY <1>8, <1>9, <1>10, <1>11, <1>12, <1>13 DEF Grown

\* Where no packet is sent and none arrives.
LEMMA QuietGrows ==
    ASSUME IInv, NEW n \in Nodes, UNCHANGED <<sent, have>>, gone \subseteq gone'
    PROVE  Grown(n)
<1>1. GroupType /\ Arrived
  BY DEF IInv
<1>2. sent' = sent /\ have' = have /\ sent \in [Nodes -> Seq(Packets)] /\ have \in [Nodes -> [Nodes -> SUBSET Nat]]
  BY <1>1 DEF GroupType
<1>3. \A s \in Nodes : Len(sent[s]) \in Nat
  BY <1>2
<1>4. \A m \in Nodes : m \in Live' => m \in Live
  BY DEF Live
<1>5. \A s, t \in Nodes : \A i \in 1..Len(sent[s]) : ~(i > Len(sent[s]))
  BY <1>3
<1>. QED BY <1>1, <1>2, <1>3, <1>4, <1>5 DEF Grown, Arrived

\* Where nothing is put out and nobody fails.
LEMMA RecordsStay ==
    ASSUME IInv, NEW n \in Nodes, UNCHANGED <<out, tried, acked, phase, endPoint, freed>>
    PROVE  Advances(n)
<1>1. GroupType /\ Arrived /\ Named /\ AckedIsOut /\ EndAhead
  BY DEF IInv
<1>2. /\ out' = out /\ tried' = tried /\ acked' = acked /\ phase' = phase /\ endPoint' = endPoint
      /\ freed' = freed
  OBVIOUS
<1>3. ASSUME NEW s \in Nodes
      PROVE  /\ out[n][s] \in Nat /\ out[n][s] <= Len(sent[s])
             /\ \A i \in Nat : i < out[n][s] => i \in have[n][s]
  BY <1>1, OutIsSent DEF Arrived, GroupType
<1>4. \A s \in Nodes : tried[n][s] <= Len(sent[s])
  BY <1>1 DEF Named
<1>5. \A s, m \in Nodes : phase[n][m] # "removed" /\ m # s => acked[n][s] <= out[m][s]
  BY <1>1 DEF AckedIsOut
<1>6. \A s \in Nodes : phase[n][s] = "failing" => out[n][s] <= endPoint[n][s]
  BY <1>1 DEF EndAhead
<1>7. \A s, t \in Nodes : \A i \in 1..Len(sent[s]) : ~(out[n][s] < i /\ i <= out[n][s])
  BY <1>3
<1>8. /\ out \in [Nodes -> [Nodes -> Nat]] /\ tried \in [Nodes -> [Nodes -> Nat]]
      /\ acked \in [Nodes -> [Nodes -> Nat]] /\ phase \in [Nodes -> [Nodes -> Phases]]
      /\ endPoint \in [Nodes -> [Nodes -> Nat]] /\ freed \in [Nodes -> SUBSET Nodes]
  BY <1>1 DEF GroupType
<1>9. \A s \in Nodes : out[n][s] <= out[n][s]
  BY <1>3
<1>. QED BY <1>2, <1>3, <1>4, <1>5, <1>6, <1>7, <1>8, <1>9 DEF Advances

\* fail_member: n may report the failure, has an end point for whom it fails
\* and removes whom everybody has failed; a removed sender's cache goes at once
\* if all that n put out of it is acknowledged.
LEMMA FailMemberIs ==
    ASSUME IInv, NEW n \in Nodes, NEW id \in Nodes, NEW reporter,
           NEW seen \in [Nodes -> Nat], NEW ack \in [Nodes -> Nat], NEW free \in SUBSET Nodes,
           FailMember(n, id, reporter, seen, ack, free),
           out' \in [Nodes -> [Nodes -> Nat]], out'[n] = seen,
           \A s \in Nodes : phase[n][s] = "failing" => seen[s] <= endPoint[n][s]
    PROVE  /\ Grown(n)
           /\ phase' \in [Nodes -> [Nodes -> Phases]] /\ endPoint' \in [Nodes -> [Nodes -> Nat]]
           /\ freed' \in [Nodes -> SUBSET Nodes]
           /\ \A m \in Nodes : m # n => /\ phase'[m] = phase[m] /\ endPoint'[m] = endPoint[m]
                                        /\ freed'[m] = freed[m]
           /\ \A s \in Nodes : /\ phase[n][s] = "removed" => phase'[n][s] = "removed"
                               /\ phase'[n][s] = "failing" => seen[s] <= endPoint'[n][s]
                               /\ s \in freed'[n] => \/ s \in free
                                                     \/ phase'[n][s] = "removed" /\ seen[s] <= ack[s]
<1>. DEFINE new == phase[n][id] = "member"
            ph == [phase[n] EXCEPT ![id] = "failing"]
            told == IF reporter = None THEN failures[n]
                    ELSE [failures[n] EXCEPT ![reporter] = @ \cup {id}]
            ended == IF new THEN [endPoint[n] EXCEPT ![id] = seen[id]] ELSE endPoint[n]
            done == IF Unfailed(n, id, ph, told) = {} THEN Completed(n, ph, told) ELSE {}
<1>t. /\ GroupType /\ Arrived
      /\ phase \in [Nodes -> [Nodes -> Phases]] /\ endPoint \in [Nodes -> [Nodes -> Nat]]
      /\ freed \in [Nodes -> SUBSET Nodes]
  BY DEF IInv, GroupType
<1>1. CASE UNCHANGED <<sent, have, phase, endPoint>> /\ freed' = [freed EXCEPT ![n] = free] /\ gone \subseteq gone'
  <2>1. Grown(n)
    BY <1>1, QuietGrows
  <2>2. /\ freed' \in [Nodes -> SUBSET Nodes] /\ freed'[n] = free
        /\ \A m \in Nodes : m # n => freed'[m] = freed[m]
    BY <1>t, <1>1
  <2>3. phase' = phase /\ endPoint' = endPoint
    BY <1>1
  <2>. QED BY <1>t, <2>1, <2>2, <2>3
<1>2. CASE /\ id # n /\ phase[n][id] # "removed"
           /\ IF new THEN Sends(n, "failure", id, seen) ELSE UNCHANGED <<sent, have>>
           /\ endPoint' = [endPoint EXCEPT ![n] = ended]
           /\ phase' = [phase EXCEPT ![n] = [m \in Nodes |-> IF m \in done THEN "removed" ELSE ph[m]]]
           /\ freed' = [freed EXCEPT ![n] = free \cup {m \in done : ack[m] >= ended[m]}]
           /\ UNCHANGED gone
  <2>1. Grown(n)
    <3>1. CASE new
      <4>1. Sends(n, "failure", id, seen)
        BY <1>2, <3>1
      <4>2. gone \subseteq gone' /\ \A t \in Nodes : seen[t] <= out'[n][t]
        BY <1>2
      <4>. HIDE DEF new, ph, told, ended, done
      <4>. QED BY <1>t, <4>1, <4>2, SendsIs
    <3>2. CASE ~new
      BY <1>2, <3>2, QuietGrows
    <3>. QED BY <3>1, <3>2
  <2>2. /\ ph \in [Nodes -> Phases] /\ ended \in [Nodes -> Nat]
        /\ ph[id] = "failing" /\ \A s \in Nodes : s # id => ph[s] = phase[n][s]
        /\ \A s \in Nodes : ended[s] = IF new /\ s = id THEN seen[id] ELSE endPoint[n][s]
    BY <1>t DEF Phases
  <2>3. /\ done \subseteq Nodes
        /\ \A s \in done : ph[s] = "failing"
    BY DEF Completed
  <2>4. ASSUME NEW s \in Nodes, ph[s] = "failing" PROVE seen[s] <= ended[s]
    <3>1. CASE new /\ s = id
      <4>1. seen[id] \in Nat
        OBVIOUS
      <4>. QED BY <2>2, <3>1, <4>1
    <3>2. CASE ~(new /\ s = id)
      <4>1. phase[n][s] = "failing"
        <5>1. CASE s = id
          <6>1. phase[n][id] \in Phases
            BY <1>t
          <6>. QED BY <1>2, <3>2, <5>1, <6>1 DEF Phases
        <5>2. CASE s # id
          BY <2>2, <2>4, <5>2
        <5>. QED BY <5>1, <5>2
      <4>. QED BY <2>2, <3>2, <4>1
    <3>. QED BY <3>1, <3>2
  <2>5. id \notin {s \in Nodes : phase[n][s] = "removed"}
    BY <1>2
  <2>. HIDE DEF ph, told, ended, done, new
  <2>6. /\ phase' \in [Nodes -> [Nodes -> Phases]]
        /\ \A s \in Nodes : phase'[n][s] = IF s \in done THEN "removed" ELSE ph[s]
        /\ \A m \in Nodes : m # n => phase'[m] = phase[m]
    <3>. DEFINE f == [m \in Nodes |-> IF m \in done THEN "removed" ELSE ph[m]]
    <3>1. f \in [Nodes -> Phases] /\ \A s \in Nodes : f[s] = IF s \in done THEN "removed" ELSE ph[s]
      BY <2>2 DEF Phases
    <3>2. phase' = [phase EXCEPT ![n] = f]
      BY <1>2
    <3>. HIDE DEF f
    <3>. QED BY <1>t, <3>1, <3>2
  <2>7. /\ endPoint' \in [Nodes -> [Nodes -> Nat]] /\ endPoint'[n] = ended
        /\ \A m \in Nodes : m # n => endPoint'[m] = endPoint[m]
    BY <1>t, <1>2, <2>2
  <2>8. /\ freed' \in [Nodes -> SUBSET Nodes]
        /\ freed'[n] = free \cup {m \in done : ack[m] >= ended[m]}
        /\ \A m \in Nodes : m # n => freed'[m] = freed[m]
    <3>1. free \cup {m \in done : ack[m] >= ended[m]} \subseteq Nodes
      BY <2>3
    <3>. QED BY <1>t, <1>2, <3>1
  <2>9. ASSUME NEW s \in Nodes
        PROVE  /\ phase[n][s] = "removed" => phase'[n][s] = "removed"
               /\ phase'[n][s] = "failing" => seen[s] <= endPoint'[n][s]
               /\ s \in freed'[n] => \/ s \in free
                                     \/ phase'[n][s] = "removed" /\ seen[s] <= ack[s]
    <3>1. phase[n][s] = "removed" => phase'[n][s] = "removed"
      BY <2>2, <2>5, <2>6
    <3>2. phase'[n][s] = "failing" => seen[s] <= endPoint'[n][s]
      BY <2>4, <2>6, <2>7
    <3>3. ASSUME s \in freed'[n], s \notin free PROVE phase'[n][s] = "removed" /\ seen[s] <= ack[s]
      <4>1. s \in done /\ ack[s] >= ended[s]
        BY <2>8, <3>3
      <4>2. seen[s] <= ended[s]
        BY <2>3, <2>4, <4>1
      <4>3. seen[s] \in Nat /\ ack[s] \in Nat /\ ended[s] \in Nat
        BY <2>2
      <4>. QED BY <2>6, <4>1, <4>2, <4>3
    <3>. QED BY <3>1, <3>2, <3>3
  <2>. QED BY <2>1, <2>6, <2>7, <2>8, <2>9
<1>3. \/ UNCHANGED <<sent, have, phase, endPoint>> /\ freed' = [freed EXCEPT ![n] = free] /\ gone \subseteq gone'
      \/ /\ id # n /\ phase[n][id] # "removed"
         /\ IF new THEN Sends(n, "failure", id, seen) ELSE UNCHANGED <<sent, have>>
         /\ endPoint' = [endPoint EXCEPT ![n] = ended]
         /\ phase' = [phase EXCEPT ![n] = [m \in Nodes |-> IF m \in done THEN "removed" ELSE ph[m]]]
         /\ freed' = [freed EXCEPT ![n] = free \cup {m \in done : ack[m] >= ended[m]}]
         /\ UNCHANGED gone
  BY Zenon DEF FailMember
<1>. QED BY <1>1, <1>2, <1>3

-----------------------------------------------------------------------------
(* The steps of a group *)

\* Before anything is sent there is nothing to lack.
LEMMA InitHolds == Init => IInv
<1>. SUFFICES ASSUME Init PROVE IInv
  OBVIOUS
<1>1. /\ sent = [s \in Nodes |-> <<>>] /\ have = [n \in Nodes |-> [s \in Nodes |-> {}]]
      /\ out = [n \in Nodes |-> [s \in Nodes |-> 0]] /\ tried = [n \in Nodes |-> [s \in Nodes |-> 0]]
      /\ acked = [n \in Nodes |-> [s \in Nodes |-> 0]] /\ phase = [n \in Nodes |-> [s \in Nodes |-> "member"]]
      /\ endPoint = [n \in Nodes |-> [s \in Nodes |-> 0]] /\ freed = [n \in Nodes |-> {}]
  BY DEF Init, PerPair
<1>2. GroupType
  <2>1. <<>> \in Seq(Packets)
    OBVIOUS
  <2>2. "member" \in Phases
    BY DEF Phases
  <2>. QED BY <1>1, <2>1, <2>2 DEF GroupType
<1>3. \A s \in Nodes : Len(sent[s]) = 0
  BY <1>1
<1>4. Arrived
  BY <1>1, <1>3 DEF Arrived
<1>5. Named
  BY <1>1, <1>3 DEF Named
<1>6. Met
  BY <1>3 DEF Met
<1>7. AckedIsOut /\ EndAhead /\ FreedIsOut
  BY <1>1 DEF AckedIsOut, EndAhead, FreedIsOut
<1>. QED BY <1>2, <1>4, <1>5, <1>6, <1>7 DEF IInv

\* Sending, leaving, crashing and receiving leave what n put out alone.
LEMMA QuietSteps ==
    ASSUME IInv, NEW n \in Nodes
    PROVE  /\ SendData(n) \/ Leave(n) \/ Crash(n) => IInv'
           /\ \A s \in Nodes : Receive(n, s) => IInv'
<1>t. /\ GroupType /\ Arrived /\ sent \in [Nodes -> Seq(Packets)] /\ have \in [Nodes -> [Nodes -> SUBSET Nat]]
      /\ out \in [Nodes -> [Nodes -> Nat]]
  BY DEF IInv, GroupType
<1>1. ASSUME SendData(n) PROVE IInv'
  <2>1. /\ Sends(n, "data", None, out[n]) /\ gone \subseteq gone'
        /\ UNCHANGED <<out, tried, acked, phase, endPoint, freed>>
    BY <1>1 DEF SendData
  <2>2. out' = out /\ out[n] \in [Nodes -> Nat]
    BY <1>t, <2>1
  <2>3. \A t \in Nodes : out[n][t] <= out'[n][t]
    <3>1. \A t \in Nodes : out[n][t] \in Nat
      BY <2>2
    <3>. QED BY <2>2, <3>1
  <2>4. Grown(n)
    BY <1>t, <2>1, <2>2, <2>3, SendsIs
  <2>5. Advances(n)
    BY <2>1, RecordsStay
  <2>. QED BY <2>4, <2>5, Keeps
<1>2. ASSUME Leave(n) PROVE IInv'
  <2>. DEFINE len == Len(sent[n])
              p == [kind |-> "bye", about |-> n, deps |-> [t \in Nodes |-> NoDepend],
                    past |-> [t \in Nodes |-> IF t = n THEN len ELSE 0]]
  <2>1. /\ sent' = [sent EXCEPT ![n] = Append(@, p)] /\ gone' = gone \cup {n}
        /\ UNCHANGED <<have, out, tried, acked, phase, endPoint, freed>>
    BY <1>2 DEF Leave, nodeVars
  <2>2. sent[n] \in Seq(Packets) /\ len \in Nat
    BY <1>t
  <2>3. p \in Packets
    BY <2>2 DEF Packets
  <2>4. \A t \in Nodes : p.deps[t] = NoDepend
    OBVIOUS
  <2>. HIDE DEF p, len
  <2>5. /\ sent'[n] = Append(sent[n], p) /\ Append(sent[n], p) \in Seq(Packets)
        /\ \A s \in Nodes : s # n => sent'[s] = sent[s]
    BY <1>t, <2>1, <2>2, <2>3
  <2>6. sent' \in [Nodes -> Seq(Packets)]
    BY <1>t, <2>1, <2>5
  <2>7. /\ Len(sent'[n]) = len + 1 /\ sent'[n][len + 1] = p
        /\ \A i \in 1..len : sent'[n][i] = sent[n][i]
    <3>1. ASSUME NEW q \in Seq(Packets)
          PROVE  /\ Len(Append(q, p)) = Len(q) + 1 /\ Append(q, p)[Len(q) + 1] = p
                 /\ \A i \in 1..Len(q) : Append(q, p)[i] = q[i]
      BY <2>3
    <3>. QED BY <2>2, <2>5, <3>1 DEF len
  <2>8. \A s \in Nodes : Len(sent[s]) \in Nat
    <3>1. \A q \in Seq(Packets) : Len(q) \in Nat
      OBVIOUS
    <3>. QED BY <1>t, <3>1
  <2>9. ASSUME NEW s \in Nodes
        PROVE  /\ Len(sent[s]) <= Len(sent'[s]) /\ \A i \in 1..Len(sent[s]) : sent'[s][i] = sent[s][i]
               /\ \A t \in Nodes : \A i \in 1..Len(sent'[s]) :
                     i > Len(sent[s]) => sent'[s][i].deps[t] <= out'[s][t]
    <3>1. CASE s = n
      <4>1. Len(sent[s]) <= Len(sent'[s]) /\ \A i \in 1..Len(sent[s]) : sent'[s][i] = sent[s][i]
        BY <2>2, <2>7, <3>1 DEF len
      <4>2. ASSUME NEW t \in Nodes, NEW i \in 1..Len(sent'[s]), i > Len(sent[s])
            PROVE  sent'[s][i].deps[t] <= out'[s][t]
        <5>1. i = len + 1
          BY <2>2, <2>7, <3>1, <4>2 DEF len
        <5>2. sent'[s][i].deps[t] = NoDepend
          BY <2>4, <2>7, <3>1, <5>1
        <5>3. out'[s][t] \in Nat
          BY <1>t, <2>1
        <5>. QED BY <5>2, <5>3 DEF NoDepend
      <4>. QED BY <4>1, <4>2
    <3>2. CASE s # n
      BY <2>5, <2>8, <3>2
    <3>. QED BY <3>1, <3>2
  <2>10. \A m, s \in Nodes : \A i \in have'[m][s] : i < Len(sent'[s])
    <3>. SUFFICES ASSUME NEW m \in Nodes, NEW s \in Nodes, NEW i \in have'[m][s] PROVE i < Len(sent'[s])
      OBVIOUS
    <3>1. i \in have[m][s] /\ i \in Nat /\ i < Len(sent[s])
      BY <1>t, <2>1 DEF Arrived
    <3>2. Len(sent'[s]) \in Nat
      <4>1. \A q \in Seq(Packets) : Len(q) \in Nat
        OBVIOUS
      <4>. QED BY <2>6, <4>1
    <3>. QED BY <2>8, <2>9, <3>1, <3>2
  <2>11. \A m \in Nodes : m \in Live' => \A i \in Nat : i < Len(sent'[m]) => i \in have'[m][m]
    <3>. SUFFICES ASSUME NEW m \in Nodes, m \in Live' PROVE \A i \in Nat : i < Len(sent'[m]) => i \in have'[m][m]
      OBVIOUS
    <3>1. m # n /\ m \in Live
      BY <2>1 DEF Live
    <3>. QED BY <1>t, <2>1, <2>5, <3>1 DEF Arrived
  <2>12. Grown(n)
    <3>1. have' = have
      BY <2>1
    <3>. QED BY <1>t, <2>6, <2>9, <2>10, <2>11, <3>1 DEF Grown
  <2>13. Advances(n)
    BY <2>1, RecordsStay
  <2>. QED BY <2>12, <2>13, Keeps
<1>3. ASSUME Crash(n) PROVE IInv'
  <2>1. /\ UNCHANGED <<sent, have>> /\ gone \subseteq gone'
        /\ UNCHANGED <<out, tried, acked, phase, endPoint, freed>>
    BY <1>3 DEF Crash, nodeVars
  <2>2. Grown(n) /\ Advances(n)
    BY <2>1, QuietGrows, RecordsStay
  <2>. QED BY <2>2, Keeps
<1>4. ASSUME NEW s \in Nodes, Receive(n, s) PROVE IInv'
  <2>1. PICK i \in 0..(Len(sent[s]) - 1) : have' = [have EXCEPT ![n][s] = @ \cup {i}]
    BY <1>4 DEF Receive
  <2>2. UNCHANGED <<sent, gone, out, tried, acked, phase, endPoint, freed>>
    BY <1>4 DEF Receive
  <2>3. Len(sent[s]) \in Nat
    <3>1. \A q \in Seq(Packets) : Len(q) \in Nat
      OBVIOUS
    <3>. QED BY <1>t, <3>1
  <2>4. i \in Nat /\ i < Len(sent[s])
    BY <2>3
  <2>5. \A m, t \in Nodes : have'[m][t] = IF m = n /\ t = s THEN have[n][s] \cup {i} ELSE have[m][t]
    BY <1>t, <2>1
  <2>6. have' \in [Nodes -> [Nodes -> SUBSET Nat]]
    <3>1. have[n] \in [Nodes -> SUBSET Nat] /\ have[n][s] \cup {i} \in SUBSET Nat
      BY <1>t, <2>4
    <3>. QED BY <1>t, <2>1, <3>1
  <2>7. sent' = sent /\ Live' = Live
    BY <2>2 DEF Live
  <2>8. \A m, t \in Nodes : have[m][t] \subseteq have'[m][t]
    BY <2>5
  <2>9. ASSUME NEW m \in Nodes, NEW t \in Nodes, NEW j \in have'[m][t] PROVE j < Len(sent[t])
    <3>1. j \in have[m][t] \/ (t = s /\ j = i)
      BY <2>5
    <3>. QED BY <1>t, <2>4, <3>1 DEF Arrived
  <2>10. \A m \in Nodes : m \in Live => \A j \in Nat : j < Len(sent[m]) => j \in have'[m][m]
    BY <1>t, <2>8 DEF Arrived
  <2>11. \A t \in Nodes : Len(sent[t]) \in Nat
    <3>1. \A q \in Seq(Packets) : Len(q) \in Nat
      OBVIOUS
    <3>. QED BY <1>t, <3>1
  <2>12. \A t \in Nodes : Len(sent[t]) <= Len(sent[t]) /\ \A j \in 1..Len(sent[t]) : ~(j > Len(sent[t]))
    BY <2>11
  <2>13. Grown(n)
    BY <1>t, <2>6, <2>7, <2>8, <2>9, <2>10, <2>12 DEF Grown
  <2>14. Advances(n)
    BY <2>2, RecordsStay
  <2>. QED BY <2>13, <2>14, Keeps
<1>. QED BY <1>1, <1>2, <1>3, <1>4

\* What n has put out, read and taken for acknowledged after a step in which it
\* puts out at most what has arrived and waits for nobody it still has.
Pops(n) ==
    /\ out' \in [Nodes -> [Nodes -> Nat]] /\ tried' \in [Nodes -> [Nodes -> Nat]]
    /\ acked' \in [Nodes -> [Nodes -> Nat]]
    /\ \A m \in Nodes : m # n => out'[m] = out[m] /\ tried'[m] = tried[m] /\ acked'[m] = acked[m]
    /\ \A s \in Nodes : /\ out[n][s] <= out'[n][s]
                        /\ phase[n][s] = "removed" => out'[n][s] = out[n][s]
                        /\ out'[n][s] <= Len(sent[s])
                        /\ \A i \in Nat : i < out'[n][s] => i \in have[n][s]
                        /\ tried'[n][s] <= Len(sent[s])
                        /\ phase[n][s] = "failing" => out'[n][s] <= endPoint[n][s]
    /\ \A s, t \in Nodes : \A i \in 1..Len(sent[s]) :
          out[n][s] < i /\ i <= out'[n][s] /\ phase[n][t] # "removed" => sent[s][i].deps[t] <= out'[n][t]
    /\ \A s, m \in Nodes : phase[n][m] # "removed" /\ m # s => acked'[n][s] <= out[m][s]

\* The caches that n may free.
MayFree(n, free) ==
    /\ free \subseteq Nodes
    /\ \A s \in free : s \notin freed[n] =>
          /\ phase[n][s] = "removed"
          /\ \A m \in Nodes : phase[n][m] # "removed" => phase[m][s] = "removed" \/ out[n][s] <= out[m][s]

\* A step in which n fails somebody, or nobody.
LEMMA FailsOrNot ==
    ASSUME IInv, NEW n \in Nodes, Pops(n), NEW free, MayFree(n, free),
           \/ /\ UNCHANGED <<sent, have, phase, gone>> /\ freed' = [freed EXCEPT ![n] = free]
              /\ endPoint' \in [Nodes -> [Nodes -> Nat]]
              /\ \A m \in Nodes : m # n => endPoint'[m] = endPoint[m]
              /\ \A s \in Nodes : phase[n][s] = "failing" => endPoint[n][s] <= endPoint'[n][s]
           \/ \E id \in Nodes : \E reporter \in Nodes \cup {None} :
                 FailMember(n, id, reporter, out'[n], acked'[n], free)
    PROVE  IInv'
<1>t. /\ GroupType /\ Arrived /\ freed \in [Nodes -> SUBSET Nodes] /\ phase \in [Nodes -> [Nodes -> Phases]]
      /\ endPoint \in [Nodes -> [Nodes -> Nat]] /\ out \in [Nodes -> [Nodes -> Nat]]
      /\ out' \in [Nodes -> [Nodes -> Nat]] /\ acked' \in [Nodes -> [Nodes -> Nat]]
  BY DEF IInv, GroupType, Pops
<1>1. /\ Grown(n)
      /\ phase' \in [Nodes -> [Nodes -> Phases]] /\ endPoint' \in [Nodes -> [Nodes -> Nat]]
      /\ freed' \in [Nodes -> SUBSET Nodes]
      /\ \A m \in Nodes : m # n => /\ phase'[m] = phase[m] /\ endPoint'[m] = endPoint[m]
                                   /\ freed'[m] = freed[m]
      /\ \A s \in Nodes : /\ phase[n][s] = "removed" => phase'[n][s] = "removed"
                          /\ phase'[n][s] = "failing" => out'[n][s] <= endPoint'[n][s]
                          /\ s \in freed'[n] => \/ s \in free
                                                \/ phase'[n][s] = "removed" /\ out'[n][s] <= acked'[n][s]
  <2>1. CASE /\ UNCHANGED <<sent, have, phase, gone>> /\ freed' = [freed EXCEPT ![n] = free]
             /\ endPoint' \in [Nodes -> [Nodes -> Nat]]
             /\ \A m \in Nodes : m # n => endPoint'[m] = endPoint[m]
             /\ \A s \in Nodes : phase[n][s] = "failing" => endPoint[n][s] <= endPoint'[n][s]
    <3>1. Grown(n)
      BY <2>1, QuietGrows
    <3>2. free \subseteq Nodes
      BY DEF MayFree
    <3>3. /\ freed' \in [Nodes -> SUBSET Nodes] /\ freed'[n] = free
          /\ \A m \in Nodes : m # n => freed'[m] = freed[m]
      BY <1>t, <2>1, <3>2
    <3>4. ASSUME NEW s \in Nodes, phase[n][s] = "failing" PROVE out'[n][s] <= endPoint'[n][s]
      <4>1. out'[n][s] <= endPoint[n][s] /\ endPoint[n][s] <= endPoint'[n][s]
        BY <2>1, <3>4 DEF Pops
      <4>2. out'[n][s] \in Nat /\ endPoint[n][s] \in Nat /\ endPoint'[n][s] \in Nat
        BY <1>t, <2>1
      <4>. QED BY <4>1, <4>2
    <3>. QED BY <1>t, <2>1, <3>1, <3>3, <3>4
  <2>2. ASSUME NEW id \in Nodes, NEW reporter \in Nodes \cup {None},
               FailMember(n, id, reporter, out'[n], acked'[n], free)
        PROVE  <1>1!:
    <3>1. out'[n] \in [Nodes -> Nat] /\ acked'[n] \in [Nodes -> Nat]
      BY <1>t
    <3>2. free \in SUBSET Nodes
      BY DEF MayFree
    <3>3. \A s \in Nodes : phase[n][s] = "failing" => out'[n][s] <= endPoint[n][s]
      BY DEF Pops
    <3>. QED BY <1>t, <2>2, <3>1, <3>2, <3>3, FailMemberIs
  <2>. QED BY <2>1, <2>2
<1>2. ASSUME NEW s \in Nodes, NEW m \in Nodes, s \in freed'[n], s \notin freed[n]
      PROVE  /\ phase'[n][s] = "removed"
             /\ phase'[n][m] # "removed" /\ m # n => phase[m][s] = "removed" \/ out'[n][s] <= out[m][s]
  <2>1. CASE s \in free
    <3>1. /\ phase[n][s] = "removed"
          /\ phase[n][m] # "removed" => phase[m][s] = "removed" \/ out[n][s] <= out[m][s]
      BY <1>2, <2>1 DEF MayFree
    <3>2. out'[n][s] = out[n][s]
      BY <3>1 DEF Pops
    <3>3. phase[n][m] = "removed" => phase'[n][m] = "removed"
      BY <1>1
    <3>. QED BY <1>1, <3>1, <3>2, <3>3
  <2>2. CASE s \notin free
    <3>1. phase'[n][s] = "removed" /\ out'[n][s] <= acked'[n][s]
      BY <1>1, <1>2, <2>2
    <3>2. phase'[n][m] # "removed" => phase[n][m] # "removed" /\ m # s
      BY <1>1, <3>1
    <3>3. phase'[n][m] # "removed" => acked'[n][s] <= out[m][s]
      BY <3>2 DEF Pops
    <3>4. out'[n][s] \in Nat /\ acked'[n][s] \in Nat /\ out[m][s] \in Nat
      BY <1>t
    <3>. QED BY <3>1, <3>3, <3>4
  <2>. QED BY <2>1, <2>2
<1>3. Advances(n)
  <2>1. \A m \in Nodes : m # n =>
          /\ out'[m] = out[m] /\ tried'[m] = tried[m] /\ acked'[m] = acked[m]
          /\ phase'[m] = phase[m] /\ endPoint'[m] = endPoint[m] /\ freed'[m] = freed[m]
    BY <1>1 DEF Pops
  <2>2. \A s \in Nodes : /\ out[n][s] <= out'[n][s]
                         /\ phase[n][s] = "removed" => phase'[n][s] = "removed" /\ out'[n][s] = out[n][s]
                         /\ out'[n][s] <= Len(sent[s])
                         /\ \A i \in Nat : i < out'[n][s] => i \in have[n][s]
                         /\ tried'[n][s] <= Len(sent[s])
                         /\ phase'[n][s] = "failing" => out'[n][s] <= endPoint'[n][s]
    BY <1>1 DEF Pops
  <2>. QED BY <1>1, <1>2, <2>1, <2>2 DEF Pops, Advances
<1>. QED BY <1>1, <1>3, Keeps

\* The watchdog and the timeout of a failure put out nothing.
LEMMA FailureSteps ==
    ASSUME IInv, NEW n \in Nodes, NEW id \in Nodes, Suspect(n, id) \/ FailTimeout(n, id)
    PROVE  IInv'
<1>t. /\ GroupType /\ out \in [Nodes -> [Nodes -> Nat]] /\ tried \in [Nodes -> [Nodes -> Nat]]
      /\ acked \in [Nodes -> [Nodes -> Nat]] /\ freed \in [Nodes -> SUBSET Nodes]
  BY DEF IInv, GroupType
<1>1. UNCHANGED <<out, tried, acked>>
  BY DEF Suspect, FailTimeout
<1>2. Pops(n)
  <2>1. out' = out /\ tried' = tried /\ acked' = acked
    BY <1>1
  <2>2. ASSUME NEW s \in Nodes
        PROVE  /\ out[n][s] <= out[n][s] /\ out[n][s] <= Len(sent[s])
               /\ \A i \in Nat : i < out[n][s] => i \in have[n][s]
               /\ tried[n][s] <= Len(sent[s])
               /\ phase[n][s] = "failing" => out[n][s] <= endPoint[n][s]
    <3>1. out[n][s] \in Nat /\ out[n][s] <= Len(sent[s])
      BY <1>t, OutIsSent DEF IInv
    <3>. QED BY <3>1 DEF IInv, Arrived, Named, EndAhead
  <2>3. \A s \in Nodes : \A i \in 1..Len(sent[s]) : ~(out[n][s] < i /\ i <= out[n][s])
    <3>1. \A s \in Nodes : out[n][s] \in Nat
      BY <1>t
    <3>2. \A x \in Nat : \A i \in Int : ~(x < i /\ i <= x)
      OBVIOUS
    <3>. QED BY <3>1, <3>2
  <2>4. \A s, m \in Nodes : phase[n][m] # "removed" /\ m # s => acked[n][s] <= out[m][s]
    BY DEF IInv, AckedIsOut
  <2>. QED BY <1>t, <2>1, <2>2, <2>3, <2>4 DEF Pops
<1>3. MayFree(n, freed[n])
  BY <1>t DEF MayFree
<1>4. \E x \in Nodes : \E reporter \in Nodes \cup {None} :
         FailMember(n, x, reporter, out'[n], acked'[n], freed[n])
  <2>1. CASE Suspect(n, id)
    BY <1>1, <2>1 DEF Suspect
  <2>2. CASE FailTimeout(n, id)
    <3>1. PICK x \in Unfailed(n, id, phase[n], failures[n]) : FailMember(n, x, None, out[n], acked[n], freed[n])
      BY <2>2 DEF FailTimeout
    <3>2. x \in Nodes
      BY DEF Unfailed
    <3>. QED BY <1>1, <3>1, <3>2
  <2>. QED BY <2>1, <2>2
<1>. QED BY <1>2, <1>3, <1>4, FailsOrNot

\* What n frees when it reads acknowledgements.
LEMMA ReadMayFree ==
    ASSUME IInv, NEW n \in Nodes, NEW s \in Nodes, Poppable(n, s)
    PROVE  MayFree(n, AcksRead(n, s).freed)
<1>. DEFINE r == AcksRead(n, s)
<1>1. r = AcksRead(n, s)
  OBVIOUS
<1>. HIDE DEF r
<1>2. /\ r.freed \subseteq Nodes
      /\ \A x \in r.freed : \/ x \in freed[n]
                            \/ /\ phase[n][x] = "removed"
                               /\ \A m \in Nodes : phase[n][m] # "removed" =>
                                     phase[m][x] = "removed" \/ out[n][x] <= out[m][x]
  BY <1>1, AcksReadIs
<1>. QED BY <1>1, <1>2 DEF MayFree

\* A step of the pop loop in which n reads the acknowledgements of s.
LEMMA ReadPops ==
    ASSUME IInv, NEW n \in Nodes, NEW s \in Nodes, Poppable(n, s),
           tried' = [tried EXCEPT ![n] = AcksRead(n, s).tried],
           acked' = [acked EXCEPT ![n] = AcksRead(n, s).acked],
           \/ out' = out
           \/ Missing(n, s) = {} /\ out' = [out EXCEPT ![n][s] = @ + 1]
    PROVE  Pops(n)
<1>t. /\ GroupType /\ out \in [Nodes -> [Nodes -> Nat]] /\ tried \in [Nodes -> [Nodes -> Nat]]
      /\ acked \in [Nodes -> [Nodes -> Nat]] /\ endPoint \in [Nodes -> [Nodes -> Nat]]
      /\ sent \in [Nodes -> Seq(Packets)]
  BY DEF IInv, GroupType
<1>. DEFINE r == AcksRead(n, s)
<1>1. r = AcksRead(n, s)
  OBVIOUS
<1>. HIDE DEF r
<1>2. /\ r.tried \in [Nodes -> Nat] /\ \A x \in Nodes : r.tried[x] <= Len(sent[x])
      /\ r.acked \in [Nodes -> Nat]
      /\ \A x, m \in Nodes : phase[n][m] # "removed" /\ m # x => r.acked[x] <= out[m][x]
  BY <1>1, AcksReadIs
<1>3. /\ tried' \in [Nodes -> [Nodes -> Nat]] /\ tried'[n] = r.tried
      /\ \A m \in Nodes : m # n => tried'[m] = tried[m]
  BY <1>t, <1>1, <1>2
<1>4. /\ acked' \in [Nodes -> [Nodes -> Nat]] /\ acked'[n] = r.acked
      /\ \A m \in Nodes : m # n => acked'[m] = acked[m]
  BY <1>t, <1>1, <1>2
<1>5. /\ out' \in [Nodes -> [Nodes -> Nat]] /\ \A m \in Nodes : m # n => out'[m] = out[m]
      /\ \A x \in Nodes : \/ out'[n][x] = out[n][x]
                          \/ x = s /\ Missing(n, s) = {} /\ out'[n][x] = out[n][x] + 1
  <2>1. CASE out' = out
    BY <1>t, <2>1
  <2>2. CASE Missing(n, s) = {} /\ out' = [out EXCEPT ![n][s] = @ + 1]
    <3>1. out[n] \in [Nodes -> Nat] /\ out[n][s] + 1 \in Nat
      <4>1. out[n] \in [Nodes -> Nat]
        BY <1>t
      <4>2. out[n][s] \in Nat
        BY <4>1
      <4>3. out[n][s] + 1 \in Nat
        BY <4>2
      <4>. QED BY <4>1, <4>3
    <3>. DEFINE f == [out[n] EXCEPT ![s] = out[n][s] + 1]
    <3>2. f \in [Nodes -> Nat] /\ \A x \in Nodes : f[x] = IF x = s THEN out[n][s] + 1 ELSE out[n][x]
      BY <3>1
    <3>3. out' = [out EXCEPT ![n] = f]
      BY <2>2
    <3>. HIDE DEF f
    <3>4. /\ out' \in [Nodes -> [Nodes -> Nat]] /\ out'[n] = f
          /\ \A m \in Nodes : m # n => out'[m] = out[m]
      BY <1>t, <3>2, <3>3
    <3>. QED BY <2>2, <3>2, <3>4
  <2>. QED BY <2>1, <2>2
<1>6. /\ phase[n][s] # "removed" /\ out[n][s] \in have[n][s] /\ out[n][s] < Len(sent[s])
      /\ phase[n][s] = "failing" => out[n][s] < endPoint[n][s]
  <2>1. /\ s \in Group(n) /\ out[n][s] \in have[n][s]
        /\ ~(phase[n][s] = "failing" /\ out[n][s] >= endPoint[n][s])
    BY DEF Poppable
  <2>2. out[n][s] \in Nat /\ endPoint[n][s] \in Nat
    BY <1>t
  <2>. QED BY <2>1, <2>2 DEF Group, IInv, Arrived
<1>7. ASSUME NEW x \in Nodes
      PROVE  /\ out[n][x] <= out'[n][x]
             /\ phase[n][x] = "removed" => out'[n][x] = out[n][x]
             /\ out'[n][x] <= Len(sent[x])
             /\ \A i \in Nat : i < out'[n][x] => i \in have[n][x]
             /\ tried'[n][x] <= Len(sent[x])
             /\ phase[n][x] = "failing" => out'[n][x] <= endPoint[n][x]
  <2>1. out[n][x] \in Nat /\ out[n][x] <= Len(sent[x]) /\ endPoint[n][x] \in Nat /\ Len(sent[x]) \in Nat
    <3>1. \A q \in Seq(Packets) : Len(q) \in Nat
      OBVIOUS
    <3>. QED BY <1>t, <3>1, OutIsSent DEF IInv
  <2>2. /\ \A i \in Nat : i < out[n][x] => i \in have[n][x]
        /\ phase[n][x] = "failing" => out[n][x] <= endPoint[n][x]
    BY DEF IInv, Arrived, EndAhead
  <2>3. CASE out'[n][x] = out[n][x]
    BY <1>2, <1>3, <2>1, <2>2, <2>3
  <2>4. CASE x = s /\ out'[n][x] = out[n][x] + 1
    <3>1. ASSUME NEW i \in Nat, i < out'[n][x] PROVE i \in have[n][x]
      <4>1. i < out[n][x] \/ i = out[n][x]
        BY <2>1, <2>4, <3>1
      <4>. QED BY <1>6, <2>2, <2>4, <4>1
    <3>2. out[n][x] <= out'[n][x] /\ out'[n][x] <= Len(sent[x])
      BY <1>6, <2>1, <2>4
    <3>3. phase[n][x] = "failing" => out'[n][x] <= endPoint[n][x]
      BY <1>6, <2>1, <2>4
    <3>. QED BY <1>2, <1>3, <1>6, <2>4, <3>1, <3>2, <3>3
  <2>. QED BY <1>5, <2>3, <2>4
<1>8. ASSUME NEW x \in Nodes, NEW t \in Nodes, NEW i \in 1..Len(sent[x]),
             out[n][x] < i, i <= out'[n][x], phase[n][t] # "removed"
      PROVE  sent[x][i].deps[t] <= out'[n][t]
  <2>1. out[n][x] \in Nat /\ i \in Int
    BY <1>t
  <2>2. x = s /\ Missing(n, s) = {} /\ i = out[n][s] + 1
    <3>1. out'[n][x] # out[n][x]
      BY <1>8, <2>1
    <3>2. x = s /\ Missing(n, s) = {} /\ out'[n][x] = out[n][x] + 1
      BY <1>5, <3>1
    <3>3. i = out[n][x] + 1
      BY <1>8, <2>1, <3>2
    <3>. QED BY <3>2, <3>3
  <2>3. ~(sent[x][i].deps[t] > out[n][t])
    BY <1>8, <2>2 DEF Missing, NextPacket, Group
  <2>4. sent[x][i].deps[t] \in Nat \cup {NoDepend}
    <3>1. \A q \in Seq(Packets) : \A j \in 1..Len(q) : q[j] \in Packets
      OBVIOUS
    <3>2. sent[x][i] \in Packets
      BY <1>t, <3>1
    <3>. QED BY <3>2 DEF Packets
  <2>5. out[n][t] \in Nat /\ out'[n][t] \in Nat /\ out[n][t] <= out'[n][t]
    BY <1>t, <1>5, <1>7
  <2>. QED BY <2>3, <2>4, <2>5 DEF NoDepend
<1>9. \A x, m \in Nodes : phase[n][m] # "removed" /\ m # x => acked'[n][x] <= out[m][x]
  BY <1>2, <1>4
<1>. QED BY <1>3, <1>4, <1>5, <1>7, <1>8, <1>9 DEF Pops

\* A packet is put out when all it names is; who it reports or whose it is fails.
LEMMA PopStep ==
    ASSUME IInv, NEW n \in Nodes, NEW s \in Nodes, Pop(n, s)
    PROVE  IInv'
<1>t. /\ GroupType /\ Arrived /\ out \in [Nodes -> [Nodes -> Nat]] /\ endPoint \in [Nodes -> [Nodes -> Nat]]
      /\ acked \in [Nodes -> [Nodes -> Nat]] /\ sent \in [Nodes -> Seq(Packets)]
  BY DEF IInv, GroupType
<1>. DEFINE p == NextPacket(n, s)
            r == AcksRead(n, s)
<1>1. /\ Poppable(n, s) /\ Missing(n, s) = {}
      /\ tried' = [tried EXCEPT ![n] = r.tried] /\ acked' = [acked EXCEPT ![n] = r.acked]
      /\ out' = [out EXCEPT ![n] = [out[n] EXCEPT ![s] = @ + 1]]
      /\ \/ freed' = [freed EXCEPT ![n] = r.freed] /\ UNCHANGED <<sent, have, phase, endPoint, gone>>
         \/ p.kind = "failure" /\ FailMember(n, p.about, s, [out[n] EXCEPT ![s] = @ + 1], r.acked, r.freed)
         \/ FailMember(n, s, None, [out[n] EXCEPT ![s] = @ + 1], r.acked, r.freed)
  BY Zenon DEF Pop
<1>2. out' = [out EXCEPT ![n][s] = @ + 1]
  BY <1>1
<1>3. out'[n] = [out[n] EXCEPT ![s] = @ + 1] /\ acked'[n] = r.acked
  BY <1>t, <1>1
<1>4. MayFree(n, r.freed)
  BY <1>1, ReadMayFree
<1>5. p \in Packets
  <2>1. out[n][s] \in Nat /\ out[n][s] < Len(sent[s]) /\ Len(sent[s]) \in Nat
    <3>1. \A q \in Seq(Packets) : Len(q) \in Nat
      OBVIOUS
    <3>. QED BY <1>t, <1>1, <3>1 DEF Poppable, Arrived
  <2>2. out[n][s] + 1 \in 1..Len(sent[s])
    BY <2>1
  <2>3. \A q \in Seq(Packets) : \A j \in 1..Len(q) : q[j] \in Packets
    OBVIOUS
  <2>. QED BY <1>t, <2>2, <2>3 DEF NextPacket
<1>6. p.kind = "failure" => p.about \in Nodes
  BY <1>5 DEF Packets
<1>. HIDE DEF p
<1>7. Pops(n)
  BY <1>1, <1>2, ReadPops
<1>. HIDE DEF r
<1>8. CASE freed' = [freed EXCEPT ![n] = r.freed] /\ UNCHANGED <<sent, have, phase, endPoint, gone>>
  <2>1. /\ endPoint' \in [Nodes -> [Nodes -> Nat]] /\ endPoint' = endPoint
        /\ \A x \in Nodes : endPoint[n][x] <= endPoint'[n][x]
    BY <1>t, <1>8
  <2>. QED BY <1>4, <1>7, <1>8, <2>1, FailsOrNot
<1>9. CASE \E id \in Nodes : \E reporter \in Nodes \cup {None} :
              FailMember(n, id, reporter, out'[n], acked'[n], r.freed)
  BY <1>4, <1>7, <1>9, FailsOrNot
<1>10. CASE p.kind = "failure" /\ FailMember(n, p.about, s, [out[n] EXCEPT ![s] = @ + 1], r.acked, r.freed)
  <2>1. FailMember(n, p.about, s, out'[n], acked'[n], r.freed)
    BY <1>3, <1>10
  <2>. QED BY <1>6, <1>9, <1>10, <2>1
<1>11. CASE FailMember(n, s, None, [out[n] EXCEPT ![s] = @ + 1], r.acked, r.freed)
  <2>1. FailMember(n, s, None, out'[n], acked'[n], r.freed)
    BY <1>3, <1>11
  <2>. QED BY <1>9, <2>1
<1>. QED BY <1>1, <1>8, <1>10, <1>11

\* The loop visits a sender that puts out nothing; the end point of a failed
\* one may rise.
LEMMA VisitStep ==
    ASSUME IInv, NEW n \in Nodes, NEW s \in Nodes, Visit(n, s)
    PROVE  IInv'
<1>t. /\ GroupType /\ Arrived /\ endPoint \in [Nodes -> [Nodes -> Nat]] /\ sent \in [Nodes -> Seq(Packets)]
      /\ out \in [Nodes -> [Nodes -> Nat]]
  BY DEF IInv, GroupType
<1>1. UNCHANGED <<sent, have, out, phase, gone>>
  BY DEF Visit
<1>2. CASE UNCHANGED <<tried, acked, freed, endPoint>>
  <2>1. gone \subseteq gone' /\ UNCHANGED <<out, tried, acked, phase, endPoint, freed>>
        /\ UNCHANGED <<sent, have>>
    BY <1>1, <1>2
  <2>2. Grown(n) /\ Advances(n)
    BY <2>1, QuietGrows, RecordsStay
  <2>. QED BY <2>2, Keeps
<1>3. CASE /\ Poppable(n, s)
           /\ tried' = [tried EXCEPT ![n] = AcksRead(n, s).tried]
           /\ acked' = [acked EXCEPT ![n] = AcksRead(n, s).acked]
           /\ freed' = [freed EXCEPT ![n] = AcksRead(n, s).freed]
           /\ \E t \in Missing(n, s) :
                 endPoint' = IF phase[n][t] = "failing" /\ endPoint[n][t] < NextPacket(n, s).deps[t]
                             THEN [endPoint EXCEPT ![n][t] = NextPacket(n, s).deps[t]]
                             ELSE endPoint
  <2>1. Pops(n)
    <3>1. out' = out
      BY <1>1
    <3>. QED BY <1>3, <3>1, ReadPops
  <2>2. MayFree(n, AcksRead(n, s).freed)
    BY <1>3, ReadMayFree
  <2>3. PICK t \in Missing(n, s) :
                 endPoint' = IF phase[n][t] = "failing" /\ endPoint[n][t] < NextPacket(n, s).deps[t]
                             THEN [endPoint EXCEPT ![n][t] = NextPacket(n, s).deps[t]]
                             ELSE endPoint
    BY <1>3
  <2>4. t \in Nodes
    BY DEF Missing, Group
  <2>. DEFINE d == NextPacket(n, s).deps[t]
  <2>5. d \in Nat \cup {NoDepend}
    <3>1. out[n][s] \in Nat /\ out[n][s] < Len(sent[s]) /\ Len(sent[s]) \in Nat
      <4>1. \A q \in Seq(Packets) : Len(q) \in Nat
        OBVIOUS
      <4>. QED BY <1>t, <1>3, <4>1 DEF Poppable, Arrived
    <3>2. out[n][s] + 1 \in 1..Len(sent[s])
      BY <3>1
    <3>3. \A q \in Seq(Packets) : \A j \in 1..Len(q) : q[j] \in Packets
      OBVIOUS
    <3>4. NextPacket(n, s) \in Packets
      BY <1>t, <3>2, <3>3 DEF NextPacket
    <3>. QED BY <2>4, <3>4 DEF Packets
  <2>6. endPoint' = endPoint \/ (d \in Nat /\ endPoint[n][t] < d /\ endPoint' = [endPoint EXCEPT ![n][t] = d])
    <3>1. endPoint[n][t] \in Nat
      BY <1>t, <2>4
    <3>2. endPoint' = endPoint \/ (endPoint[n][t] < d /\ endPoint' = [endPoint EXCEPT ![n][t] = d])
      BY <2>3
    <3>. HIDE DEF d
    <3>3. endPoint[n][t] < d => d \in Nat
      BY <2>5, <3>1 DEF NoDepend
    <3>. QED BY <3>2, <3>3
  <2>. HIDE DEF d
  <2>7. /\ endPoint' \in [Nodes -> [Nodes -> Nat]]
        /\ \A m \in Nodes : m # n => endPoint'[m] = endPoint[m]
        /\ \A x \in Nodes : endPoint[n][x] <= endPoint'[n][x]
    <3>1. CASE endPoint' = endPoint
      BY <1>t, <3>1
    <3>2. CASE d \in Nat /\ endPoint[n][t] < d /\ endPoint' = [endPoint EXCEPT ![n][t] = d]
      <4>. DEFINE f == [endPoint[n] EXCEPT ![t] = d]
      <4>1. endPoint[n] \in [Nodes -> Nat]
        BY <1>t
      <4>2. f \in [Nodes -> Nat] /\ \A x \in Nodes : f[x] = IF x = t THEN d ELSE endPoint[n][x]
        BY <2>4, <3>2, <4>1
      <4>3. endPoint' = [endPoint EXCEPT ![n] = f]
        BY <3>2
      <4>. HIDE DEF f
      <4>4. /\ endPoint' \in [Nodes -> [Nodes -> Nat]] /\ endPoint'[n] = f
            /\ \A m \in Nodes : m # n => endPoint'[m] = endPoint[m]
        BY <1>t, <4>2, <4>3
      <4>5. ASSUME NEW x \in Nodes PROVE endPoint[n][x] <= f[x]
        <5>1. endPoint[n][x] \in Nat /\ f[x] = IF x = t THEN d ELSE endPoint[n][x]
          BY <4>1, <4>2
        <5>. QED BY <3>2, <5>1
      <4>. QED BY <4>4, <4>5
    <3>. QED BY <2>6, <3>1, <3>2
  <2>. QED BY <1>1, <1>3, <2>1, <2>2, <2>7, FailsOrNot
<1>4. \/ UNCHANGED <<tried, acked, freed, endPoint>>
      \/ /\ Poppable(n, s)
         /\ tried' = [tried EXCEPT ![n] = AcksRead(n, s).tried]
         /\ acked' = [acked EXCEPT ![n] = AcksRead(n, s).acked]
         /\ freed' = [freed EXCEPT ![n] = AcksRead(n, s).freed]
         /\ \E t \in Missing(n, s) :
               endPoint' = IF phase[n][t] = "failing" /\ endPoint[n][t] < NextPacket(n, s).deps[t]
                           THEN [endPoint EXCEPT ![n][t] = NextPacket(n, s).deps[t]]
                           ELSE endPoint
  BY Zenon DEF Visit
<1>. QED BY <1>2, <1>3, <1>4

-----------------------------------------------------------------------------
(* The theorems *)

\* What the members know of each other is never more than what they put out,
\* however many they are and in whatever order packets and failures come.
THEOREM CachesHold == Spec => []IInv
<1>1. IInv /\ [Next]_vars => IInv'
  <2>. SUFFICES ASSUME IInv, [Next]_vars PROVE IInv'
    OBVIOUS
  <2>1. CASE UNCHANGED vars
    <3>1. UNCHANGED <<sent, have, out, tried, acked, phase, endPoint, freed, gone>>
      BY <2>1 DEF vars, nodeVars
    <3>. QED BY <3>1 DEF IInv, GroupType, Arrived, Named, Met, AckedIsOut, EndAhead, FreedIsOut, Live
  <2>2. CASE \E n \in Nodes : SendData(n) \/ Leave(n) \/ Crash(n)
    BY <2>2, QuietSteps
  <2>3. ASSUME NEW n \in Nodes, NEW s \in Nodes,
               Receive(n, s) \/ Suspect(n, s) \/ FailTimeout(n, s) \/ Pop(n, s) \/ Visit(n, s)
        PROVE  IInv'
    <3>1. CASE Receive(n, s)
      BY <3>1, QuietSteps
    <3>2. CASE Suspect(n, s) \/ FailTimeout(n, s)
      BY <3>2, FailureSteps
    <3>3. CASE Pop(n, s)
      BY <3>3, PopStep
    <3>4. CASE Visit(n, s)
      BY <3>4, VisitStep
    <3>. QED BY <2>3, <3>1, <3>2, <3>3, <3>4
  <2>. QED BY <2>1, <2>2, <2>3 DEF Next
<1>. QED BY <1>1, InitHolds, PTL DEF Spec

\* A packet that a member put out and another one lacks is still cached by a
\* live node: garbage collection never goes ahead of the slowest member.
THEOREM WhatIsNeededIsKept == Spec => []NothingNeededIsCollected
<1>1. IInv => NothingNeededIsCollected
  <2>. SUFFICES ASSUME IInv, NEW n \in Nodes, NEW m \in Nodes, NEW s \in Nodes, NEW i \in 0..(out[m][s] - 1),
                       n # m, Together(n, m), phase[n][s] # "removed", i \notin have[n][s]
                PROVE  \E x \in Live : i \in Cached(x, s)
    BY DEF NothingNeededIsCollected
  <2>t. /\ out[m][s] \in Nat /\ out[n][s] \in Nat /\ acked[m][s] \in Nat /\ Len(sent[s]) \in Nat
        /\ i \in Nat /\ i < out[m][s]
    <3>1. \A q \in Seq(Packets) : Len(q) \in Nat
      OBVIOUS
    <3>2. out[m][s] \in Nat /\ out[n][s] \in Nat /\ acked[m][s] \in Nat /\ sent[s] \in Seq(Packets)
      BY DEF IInv, GroupType
    <3>. QED BY <3>1, <3>2
  <2>1. n \in Live /\ m \in Live /\ phase[m][n] # "removed"
    BY DEF Together
  <2>2. i \in have[m][s] /\ i < Len(sent[s]) /\ out[n][s] <= i
    <3>1. i \in have[m][s]
      BY <2>t DEF IInv, Arrived
    <3>2. i < Len(sent[s])
      BY <3>1 DEF IInv, Arrived
    <3>3. ~(i < out[n][s])
      BY <2>t DEF IInv, Arrived
    <3>. QED BY <2>t, <3>1, <3>2, <3>3
  <2>3. n # s
    BY <2>t, <2>1, <2>2 DEF IInv, Arrived
  <2>4. acked[m][s] <= i
    <3>1. acked[m][s] <= out[n][s]
      BY <2>1, <2>3 DEF IInv, AckedIsOut
    <3>. QED BY <2>t, <2>2, <3>1
  <2>5. s \notin freed[m]
    <3>1. s \in freed[m] => phase[n][s] = "removed" \/ out[m][s] <= out[n][s]
      BY <2>1 DEF IInv, FreedIsOut
    <3>. QED BY <2>t, <2>2, <3>1
  <2>6. i \in Cached(m, s)
    BY <2>t, <2>2, <2>4, <2>5 DEF Cached
  <2>. QED BY <2>1, <2>6
<1>. QED BY <1>1, CachesHold, PTL

============================================================================
