------------------------ MODULE CausalLifecycleProofs ------------------------
(***************************************************************************)
(* The life cycle of the nodes of a group, for all nodes, identifiers and    *)
(* numbers of requests: the states of the two transports fit, and two nodes  *)
(* never share an identifier while fewer packets are lost than a node sends  *)
(* requests.                                                               *)
(*                                                                         *)
(* Of two nodes with one identifier one chose it later.  Each of its         *)
(* requests meets the other and its answer, so each round of it costs a lost  *)
(* packet, or makes one of the two choose again.                            *)
(***************************************************************************)
EXTENDS CausalLifecycle, TLAPS

Names == Ids \cup {Zero}

NodeType ==
    [state : {"disconnected", "connecting", "connected", "disconnecting"},
     id : Names, self : Names,
     timer : {"none", "join", "session", "bye"}, requests : Nat, seen : Nat, byes : Nat,
     resetting : BOOLEAN, known : SUBSET Names,
     replies : SUBSET [id : Names, due : SUBSET Nodes],
     upper : {"disconnected", "connected", "disconnecting"},
     mode : {"normal", "resetting", "disconnected"}, starts : Nat, resettable : BOOLEAN]

PacketType ==
    [type : {"whois_request", "whois_reply", "bye"}, sender : Names, asked : Names, nr : Nat]

WireType == [to : Nodes, from : Nodes, packet : PacketType, due : SUBSET Nodes]

TypeOK == node \in [Nodes -> NodeType] /\ wire \in SUBSET WireType /\ lost \in Nat

\* What the state of the causal transport says of the rest of a node.
Fits(r) ==
    /\ r.state = "disconnected" => r.timer = "none" /\ ~r.resetting /\ r.upper = "disconnected"
    /\ r.state = "connecting" =>
          r.timer = "join" /\ ~r.resetting /\ r.id \in Ids /\ ~(r.upper = "connected" /\ r.mode = "normal")
    /\ r.state = "connected" =>
          /\ r.timer = "session" /\ ~r.resetting /\ r.id \in Ids /\ r.self = r.id
          /\ r.requests >= Requests
    /\ r.state = "disconnecting" =>
          /\ r.timer = "bye" /\ r.self # Zero /\ ~(r.upper = "connected" /\ r.mode = "normal")
          /\ r.resetting => r.mode = "resetting"

-----------------------------------------------------------------------------
(* Identifiers *)

\* A request of n is under way and n's timer does not end before it is there.
OwnPending(n) ==
    \E p \in wire : p.from = n /\ p.to = n /\ p.packet.type = "whois_request" /\ p.packet.asked = node[n].id

\* A node that joins has seen its own requests, but for one that comes before its timer.
SeesItself(n) ==
    node[n].state = "connecting" =>
        /\ node[n].seen <= node[n].requests
        /\ node[n].seen < node[n].requests => OwnPending(n) /\ node[n].seen + 1 = node[n].requests

\* n will see one request too many.
Doomed(n) == node[n].state = "connecting" /\ OwnPending(n) /\ node[n].seen = node[n].requests

\* m's last request, or an answer to it, comes before m's timer.
Threatened(m, n) ==
    \/ \E p \in wire : /\ p.from = m /\ p.to = n /\ m \in p.due
                       /\ p.packet.type = "whois_request" /\ p.packet.asked = node[m].id
    \/ \E w \in node[n].replies : node[n].state = "connected" /\ w.id = node[m].id /\ m \in w.due
    \/ \E p \in wire : p.to = m /\ p.from # m /\ m \in p.due /\ p.packet.sender = node[m].id

\* m's requests cost lost packets, unless n chooses again.
Costs(m, n) ==
    \/ lost >= node[m].requests
    \/ node[m].state = "connecting" /\ lost + 1 >= node[m].requests /\ Threatened(m, n)
    \/ Doomed(n)

Active(r) == r.state \in {"connecting", "connected"}
Share(m, n) == m # n /\ Active(node[m]) /\ Active(node[n]) /\ node[m].id = node[n].id

RequestsComeBack ==
    \A p \in wire : p.packet.type = "whois_request" => p.from \in p.due /\ p.packet.sender = Zero

SharingCosts == \A m, n \in Nodes : Share(m, n) => Costs(m, n) \/ Costs(n, m)

IdInv ==
    /\ RequestsComeBack
    /\ \A n \in Nodes : SeesItself(n)
    /\ SharingCosts

FitInv == TypeOK /\ \A n \in Nodes : Fits(node[n])
IInv == FitInv /\ IdInv

-----------------------------------------------------------------------------
(* Types and life cycle *)

LEMMA Constants == Ids \subseteq Names /\ Zero \in Names /\ Zero \notin Ids /\ Names \subseteq Nat
BY CausalLifecycleAssumption DEF Names, Zero

\* A node of which only the names it knows and its answers differ.
Beside(s, r) ==
    /\ s.state = r.state /\ s.id = r.id /\ s.self = r.self /\ s.timer = r.timer
    /\ s.requests = r.requests /\ s.seen = r.seen /\ s.resetting = r.resetting
    /\ s.upper = r.upper /\ s.mode = r.mode

\* What start_joining makes of a node.
LEMMA StartJoiningMakes ==
    ASSUME NEW r \in NodeType, NEW id \in Ids
    PROVE  LET s == StartJoining(r, id)
           IN  /\ s \in NodeType /\ s.id = id /\ s.requests = 0 /\ s.seen = 0 /\ s.timer = "join"
               /\ s.state = r.state /\ s.self = r.self /\ s.resetting = r.resetting
               /\ s.upper = r.upper /\ s.mode = r.mode /\ s.replies = r.replies
<1>1. id \in Names /\ r.starts + 1 \in Nat
  BY Constants DEF NodeType
<1> QED
  BY <1>1 DEF StartJoining, NodeType

\* A node that starts to connect asks whether its identifier is free.
LEMMA ConnectCausalMakes ==
    ASSUME NEW r \in NodeType, NEW id \in Ids
    PROVE  LET s == ConnectCausal(r, id)
           IN  /\ s \in NodeType /\ s.id = id /\ s.requests = 0 /\ s.seen = 0 /\ s.timer = "join"
               /\ s.state = "connecting" /\ s.self = r.self /\ s.resetting = r.resetting
               /\ s.upper = r.upper /\ s.mode = r.mode /\ s.replies = r.replies
<1> DEFINE c == [r EXCEPT !.state = "connecting"]
<1>1. /\ c \in NodeType /\ c.state = "connecting" /\ c.self = r.self /\ c.resetting = r.resetting
      /\ c.upper = r.upper /\ c.mode = r.mode /\ c.replies = r.replies
  BY DEF NodeType
<1> HIDE DEF c
<1>2. StartJoining(c, id) = ConnectCausal(r, id)
  BY DEF ConnectCausal, c
<1> QED
  BY <1>1, <1>2, StartJoiningMakes

\* A node that is connected keeps the identifier it asked for.
LEMMA ConnectedMakes ==
    ASSUME NEW r \in NodeType
    PROVE  LET s == Connected(r)
           IN  /\ s \in NodeType /\ s.id = r.id /\ s.self = r.id /\ s.requests = r.requests
               /\ s.timer = "session" /\ s.state = "connected" /\ s.resetting = r.resetting
               /\ s.replies = r.replies
BY DEF Connected, NodeType

\* A node that disconnects says BYE and answers nobody any more.
LEMMA DoDisconnectMakes ==
    ASSUME NEW r \in NodeType
    PROVE  LET s == DoDisconnect(r)
           IN  /\ s \in NodeType /\ s.timer = "bye" /\ s.state = "disconnecting" /\ s.self = r.self
               /\ s.resetting = r.resetting /\ s.upper = r.upper /\ s.mode = r.mode /\ s.replies = {}
BY DEF DoDisconnect, NodeType

\* A node that is disconnected has no timer.
LEMMA DisconnectDoneMakes ==
    ASSUME NEW r \in NodeType
    PROVE  LET s == DisconnectDone(r)
           IN  /\ s \in NodeType /\ s.timer = "none" /\ s.state = "disconnected"
               /\ s.resetting = r.resetting /\ s.upper = "disconnected"
BY Constants DEF DisconnectDone, NodeType

\* A node that is told to leave does not reset any more.
LEMMA LeavingMakes ==
    ASSUME NEW r \in NodeType
    PROVE  LET s == Leaving(r)
           IN  /\ s \in NodeType /\ s.timer = r.timer /\ s.state = r.state /\ s.self = r.self
               /\ ~s.resetting /\ s.upper = "disconnecting" /\ s.mode = "disconnected"
BY DEF Leaving, NodeType

\* A reset ends where the node connects again.
LEMMA ReconnectMakes ==
    ASSUME NEW r \in NodeType
    PROVE  LET s == Reconnect(r)
           IN  s \in NodeType /\ ~s.resetting /\ s.upper = r.upper /\ s.mode = r.mode
BY DEF Reconnect, NodeType

\* Another BYE changes only the number of them.
LEMMA NextByeMakes ==
    ASSUME NEW r \in NodeType
    PROVE  LET s == NextBye(r)
           IN  /\ s \in NodeType /\ s.timer = "bye" /\ s.state = r.state /\ s.self = r.self
               /\ s.resetting = r.resetting /\ s.upper = r.upper /\ s.mode = r.mode
<1>1. r.byes + 1 \in Nat
  BY DEF NodeType
<1> QED
  BY <1>1 DEF NextBye, NodeType

\* To receive in the group changes nothing but names and answers.
LEMMA JoinedMakes ==
    ASSUME NEW r \in NodeType, NEW p \in PacketType, NEW due \in SUBSET Nodes, NEW s \in Joined(r, p, due)
    PROVE  s \in NodeType /\ Beside(s, r)
<1> DEFINE reply == [id |-> p.asked,
                     due |-> due \cup UNION {w.due : w \in {v \in r.replies : v.id = p.asked}}]
           replies == (r.replies \ {v \in r.replies : v.id = p.asked}) \cup {reply}
<1>1. reply \in [id : Names, due : SUBSET Nodes]
  BY DEF NodeType, PacketType
<1>2. replies \subseteq [id : Names, due : SUBSET Nodes]
  BY <1>1 DEF NodeType
<1>3. Answer(r, p, due) = r \/ Answer(r, p, due) = [r EXCEPT !.replies = replies]
  BY DEF Answer
<1> DEFINE q == [r EXCEPT !.replies = {w \in r.replies : w.id # p.sender}]
           known == [q EXCEPT !.known = q.known \cup {p.sender}]
           bye == [r EXCEPT !.known = r.known \ {p.sender}]
<1>4. s = r \/ s = [r EXCEPT !.replies = replies] \/ s = q \/ s = known \/ s = bye
  BY <1>3 DEF Joined
<1> HIDE DEF replies
<1>5. CASE s = r
  BY <1>5 DEF NodeType, Beside
<1>6. CASE s = [r EXCEPT !.replies = replies]
  BY <1>2, <1>6 DEF NodeType, Beside
<1>7. CASE s = q
  BY <1>7 DEF NodeType, Beside
<1>8. CASE s = known
  <2>1. p.sender \in Names
    BY DEF PacketType
  <2> QED
    BY <1>8, <2>1 DEF NodeType, Beside
<1>9. CASE s = bye
  BY <1>9 DEF NodeType, Beside
<1> QED
  BY <1>4, <1>5, <1>6, <1>7, <1>8, <1>9

\* What a node counts of the requests that come back.
LEMMA SeenMakes ==
    ASSUME NEW r \in NodeType, NEW p
    PROVE  /\ Seen(r, p) \in NodeType
           /\ Seen(r, p) = [r EXCEPT !.seen = Seen(r, p).seen]
           /\ Seen(r, p).seen = IF p.type = "whois_request" /\ p.asked = r.id /\ p.sender = Zero
                                THEN r.seen + 1 ELSE r.seen
<1>1. r.seen \in Nat /\ r.seen + 1 \in Nat
  BY DEF NodeType
<1> QED
  BY <1>1 DEF Seen, NodeType

\* q is p, perhaps with more timers after it; w and v the same of answers.
Later(p, q) == q.to = p.to /\ q.from = p.from /\ q.packet = p.packet /\ p.due \subseteq q.due
LaterAnswer(w, v) == v.id = w.id /\ w.due \subseteq v.due

\* A node that differs in its answers or its requests only fits as before.
LEMMA FitsBeside == ASSUME NEW r, NEW s, Beside(s, r), Fits(r) PROVE Fits(s)
BY DEF Beside, Fits

\* What is sent to the group is on its way to everybody who listens.
LEMMA SentType ==
    ASSUME NEW n \in Nodes, NEW p \in PacketType, NEW due \in SUBSET Nodes
    PROVE  /\ Sent(n, p, due) \in SUBSET WireType
           /\ \A q \in Sent(n, p, due) : q.from = n /\ q.packet = p /\ q.due = due
           /\ \A k \in Nodes : Listening(node[k]) \/ k = n => \E q \in Sent(n, p, due) : q.to = k
<1>1. \A k \in Nodes : [to |-> k, from |-> n, packet |-> p, due |-> due] \in WireType
  BY DEF WireType
<1>2. Sent(n, p, due) \in SUBSET WireType
  BY <1>1 DEF Sent
<1>3. \A q \in Sent(n, p, due) : q.from = n /\ q.packet = p /\ q.due = due
  BY DEF Sent
<1>4. ASSUME NEW k \in Nodes, Listening(node[k]) \/ k = n PROVE \E q \in Sent(n, p, due) : q.to = k
  <2>1. [to |-> k, from |-> n, packet |-> p, due |-> due] \in Sent(n, p, due)
    BY <1>4 DEF Sent
  <2> QED
    BY <2>1
<1> QED
  BY <1>2, <1>3, <1>4

\* Answers that wait already come before the timer that is set now.
LEMMA DueRepliesType ==
    ASSUME NEW f \in [Nodes -> NodeType], NEW n \in Nodes
    PROVE  /\ DueReplies(n, f) \in [Nodes -> NodeType]
           /\ \A k \in Nodes :
                 /\ Beside(DueReplies(n, f)[k], f[k])
                 /\ \A w \in f[k].replies :
                       \E v \in DueReplies(n, f)[k].replies : LaterAnswer(w, v) /\ n \in v.due
<1> DEFINE due(k) == {[w EXCEPT !.due = w.due \cup {n}] : w \in f[k].replies}
<1>1. ASSUME NEW k \in Nodes PROVE due(k) \in SUBSET [id : Names, due : SUBSET Nodes]
  BY DEF NodeType
<1>2. ASSUME NEW k \in Nodes
      PROVE  \A w \in f[k].replies : \E v \in due(k) : LaterAnswer(w, v) /\ n \in v.due
  <2> SUFFICES ASSUME NEW w \in f[k].replies PROVE \E v \in due(k) : LaterAnswer(w, v) /\ n \in v.due
    OBVIOUS
  <2>1. w \in [id : Names, due : SUBSET Nodes]
    BY DEF NodeType
  <2> WITNESS [w EXCEPT !.due = w.due \cup {n}] \in due(k)
  <2> QED
    BY <2>1 DEF LaterAnswer
<1>3. \A k \in Nodes : DueReplies(n, f)[k] = [f[k] EXCEPT !.replies = due(k)]
  BY DEF DueReplies
<1> HIDE DEF due
<1>4. ASSUME NEW k \in Nodes
      PROVE  /\ DueReplies(n, f)[k] \in NodeType /\ DueReplies(n, f)[k].replies = due(k)
             /\ Beside(DueReplies(n, f)[k], f[k])
  <2> DEFINE r == f[k]
  <2>1. r \in NodeType /\ due(k) \in SUBSET [id : Names, due : SUBSET Nodes]
    BY <1>1
  <2>2. DueReplies(n, f)[k] = [r EXCEPT !.replies = due(k)]
    BY <1>3
  <2> HIDE DEF r
  <2>3. /\ [r EXCEPT !.replies = due(k)] \in NodeType /\ [r EXCEPT !.replies = due(k)].replies = due(k)
        /\ Beside([r EXCEPT !.replies = due(k)], r)
    BY <2>1 DEF NodeType, Beside
  <2> QED
    BY <2>2, <2>3 DEF r
<1>5. DueReplies(n, f) \in [Nodes -> NodeType]
  BY <1>4 DEF DueReplies
<1> QED
  BY <1>2, <1>4, <1>5

\* Packets on their way come before the timer that is set now.
LEMMA DueOnType ==
    ASSUME NEW packets \in SUBSET WireType, NEW n \in Nodes
    PROVE  /\ DueOn(n, packets) \in SUBSET WireType
           /\ \A p \in packets : \E q \in DueOn(n, packets) : Later(p, q) /\ n \in q.due
           /\ \A q \in DueOn(n, packets) : n \in q.due /\ \E p \in packets : Later(p, q) /\ q.due = p.due \cup {n}
<1>1. \A p \in packets : /\ [p EXCEPT !.due = p.due \cup {n}] \in WireType
                         /\ Later(p, [p EXCEPT !.due = p.due \cup {n}])
                         /\ [p EXCEPT !.due = p.due \cup {n}].due = p.due \cup {n}
  BY DEF WireType, Later
<1> QED
  BY <1>1 DEF DueOn

\* A timer that starts comes after everything that is under way.
LEMMA StartTimerMakes ==
    ASSUME TypeOK, NEW n \in Nodes, NEW r \in NodeType, NEW packets \in SUBSET WireType,
           StartTimer(n, r, packets)
    PROVE  /\ TypeOK' /\ lost' = lost
           /\ Beside(node'[n], r)
           /\ \A k \in Nodes \ {n} : Beside(node'[k], node[k])
           /\ \A w \in r.replies : \E v \in node'[n].replies : LaterAnswer(w, v)
           /\ \A k \in Nodes \ {n} : \A w \in node[k].replies : \E v \in node'[k].replies : LaterAnswer(w, v)
           /\ \A p \in wire \cup packets : \E q \in wire' : Later(p, q) /\ n \in q.due
           /\ \A q \in wire' : \E p \in wire \cup packets : Later(p, q) /\ n \in q.due
<1> DEFINE f == [node EXCEPT ![n] = r]
<1>1. f \in [Nodes -> NodeType] /\ f[n] = r /\ \A k \in Nodes \ {n} : f[k] = node[k]
  BY DEF TypeOK
<1>2. node' = DueReplies(n, f) /\ wire' = DueOn(n, wire \cup packets) /\ lost' = lost
  BY DEF StartTimer
<1> HIDE DEF f
<1>3. wire \cup packets \in SUBSET WireType
  BY DEF TypeOK
<1>4. TypeOK'
  BY <1>1, <1>2, <1>3, DueRepliesType, DueOnType DEF TypeOK
<1>5. \A p \in wire \cup packets : \E q \in wire' : Later(p, q) /\ n \in q.due
  BY <1>2, <1>3, DueOnType
<1>6. \A q \in wire' : \E p \in wire \cup packets : Later(p, q) /\ n \in q.due
  BY <1>2, <1>3, DueOnType
<1>7. \A k \in Nodes : /\ Beside(node'[k], f[k])
                       /\ \A w \in f[k].replies : \E v \in node'[k].replies : LaterAnswer(w, v)
  BY <1>1, <1>2, DueRepliesType
<1> QED
  BY <1>1, <1>2, <1>4, <1>5, <1>6, <1>7

\* A step that sets the timer of a node keeps the invariant.
LEMMA StartTimerFits ==
    ASSUME FitInv, NEW n \in Nodes, NEW r \in NodeType, Fits(r), NEW packets \in SUBSET WireType,
           StartTimer(n, r, packets)
    PROVE  FitInv'
<1>1. /\ TypeOK' /\ Beside(node'[n], r)
      /\ \A k \in Nodes \ {n} : Beside(node'[k], node[k])
  BY StartTimerMakes DEF FitInv
<1>2. \A k \in Nodes : Fits(node'[k])
  BY <1>1, FitsBeside DEF FitInv
<1> QED
  BY <1>1, <1>2 DEF FitInv

\* A node on its own becomes r.
LEMMA BecomesFits ==
    ASSUME FitInv, NEW n \in Nodes, NEW r \in NodeType, Fits(r), node' = [node EXCEPT ![n] = r],
           wire' \in SUBSET WireType, lost' \in Nat
    PROVE  FitInv'
BY DEF FitInv, TypeOK

\* A BYE is a packet.
LEMMA ByeType ==
    ASSUME NEW r \in NodeType PROVE Bye(r) \in PacketType
BY Constants DEF Bye, Packet, PacketType, NodeType

\* Every step keeps the types and the fit of the life cycles.
LEMMA NextFits == FitInv /\ [Next]_vars => FitInv'
<1> SUFFICES ASSUME FitInv, [Next]_vars PROVE FitInv'
  OBVIOUS
<1>t. node \in [Nodes -> NodeType] /\ wire \in SUBSET WireType /\ lost \in Nat
  BY DEF FitInv, TypeOK
<1>f. \A n \in Nodes : node[n] \in NodeType /\ Fits(node[n])
  BY <1>t DEF FitInv
<1>e. {} \in SUBSET WireType
  OBVIOUS
<1>1. ASSUME NEW n \in Nodes, Connect(n) PROVE FitInv'
  <2> DEFINE r == [node[n] EXCEPT !.mode = "normal"]
  <2>1. PICK id \in Ids : StartTimer(n, ConnectCausal(r, id), {})
    BY <1>1 DEF Connect
  <2>2. node[n] \in NodeType /\ node[n].state = "disconnected" /\ Fits(node[n])
    BY <1>1, <1>f DEF Connect
  <2>3. r \in NodeType /\ ~r.resetting /\ r.upper = "disconnected"
    BY <2>2 DEF NodeType, Fits
  <2> HIDE DEF r
  <2>4. ConnectCausal(r, id) \in NodeType /\ Fits(ConnectCausal(r, id))
    BY <2>3, ConnectCausalMakes DEF Fits
  <2> QED
    BY <2>1, <2>4, <1>e, StartTimerFits
<1>2. ASSUME NEW n \in Nodes, Step(n) PROVE FitInv'
  <2> DEFINE r == node[n]
             q == [r EXCEPT !.requests = r.requests + 1]
  <2>1. r \in NodeType /\ r.state = "connecting" /\ Fits(r)
    BY <1>2, <1>f DEF Step
  <2>2. CASE r.requests < Requests
    <3>1. StartTimer(n, q, Sent(n, Packet("whois_request", Zero, r.id, r.requests + 1), {}))
      BY <1>2, <2>2 DEF Step
    <3>2. q \in NodeType /\ Beside([q EXCEPT !.requests = r.requests], r)
      BY <2>1 DEF NodeType, Beside
    <3>3. Fits(q)
      BY <2>1 DEF Fits, NodeType
    <3>4. Packet("whois_request", Zero, r.id, r.requests + 1) \in PacketType
      BY <2>1, Constants DEF Packet, PacketType, NodeType
    <3>5. Sent(n, Packet("whois_request", Zero, r.id, r.requests + 1), {}) \in SUBSET WireType
      BY <3>4, SentType
    <3> QED
      BY <3>1, <3>2, <3>3, <3>5, StartTimerFits
  <2>3. CASE ~(r.requests < Requests)
    <3>1. StartTimer(n, Connected(r), Sent(n, Packet("whois_reply", r.id, Zero, 0), {}))
      BY <1>2, <2>3 DEF Step
    <3>2. Packet("whois_reply", r.id, Zero, 0) \in PacketType
      BY <2>1, Constants DEF Packet, PacketType, NodeType
    <3>3. Sent(n, Packet("whois_reply", r.id, Zero, 0), {}) \in SUBSET WireType
      BY <3>2, SentType
    <3>4. r.requests >= Requests
      BY <2>1, <2>3, CausalLifecycleAssumption DEF NodeType
    <3>5. Connected(r) \in NodeType /\ Fits(Connected(r))
      BY <2>1, <3>4, ConnectedMakes DEF Fits
    <3> QED
      BY <3>1, <3>3, <3>5, StartTimerFits
  <2> QED
    BY <2>2, <2>3
<1>3. ASSUME NEW n \in Nodes, Reset(n) PROVE FitInv'
  <2> DEFINE r == node[n]
             q == [r EXCEPT !.mode = "resetting", !.resetting = TRUE, !.resettable = FALSE]
             b == [r EXCEPT !.byes = 0]
  <2>1. r \in NodeType /\ r.state = "connected" /\ Fits(r)
    BY <1>3, <1>f DEF Reset
  <2>2. q \in NodeType /\ b \in NodeType /\ q.mode = "resetting" /\ q.self = r.self /\ q.resetting
    BY <2>1 DEF NodeType
  <2>3. StartTimer(n, DoDisconnect(q), Sent(n, Bye(b), {}))
    BY <1>3 DEF Reset
  <2>4. r.self # Zero
    BY <2>1, Constants DEF Fits
  <2> HIDE DEF q, b
  <2>5. DoDisconnect(q) \in NodeType /\ Fits(DoDisconnect(q))
    BY <2>2, <2>4, DoDisconnectMakes DEF Fits
  <2>6. Sent(n, Bye(b), {}) \in SUBSET WireType
    BY <2>2, ByeType, SentType
  <2> QED
    BY <2>3, <2>5, <2>6, StartTimerFits
<1>4. ASSUME NEW n \in Nodes, Disconnect(n) PROVE FitInv'
  <2> DEFINE r == Leaving(node[n])
             b == [r EXCEPT !.byes = 0]
  <2>1. /\ r \in NodeType /\ r.state = node[n].state /\ r.self = node[n].self /\ r.timer = node[n].timer
        /\ ~r.resetting /\ r.upper = "disconnecting" /\ Fits(node[n])
    BY <1>f, LeavingMakes
  <2>2. node[n].state # "disconnected"
    BY <1>4 DEF Disconnect
  <2>3. CASE node[n].state = "connecting"
    <3>1. node' = [node EXCEPT ![n] = DisconnectDone(r)] /\ UNCHANGED <<wire, lost>>
      BY <1>4, <2>1, <2>3 DEF Disconnect
    <3>2. DisconnectDone(r) \in NodeType /\ Fits(DisconnectDone(r))
      BY <2>1, DisconnectDoneMakes DEF Fits
    <3> HIDE DEF r
    <3> QED
      BY <1>t, <3>1, <3>2, BecomesFits
  <2>4. CASE node[n].state = "connected"
    <3>1. StartTimer(n, DoDisconnect(r), Sent(n, Bye(b), {}))
      BY <1>4, <2>1, <2>4 DEF Disconnect
    <3>2. b \in NodeType
      BY <2>1 DEF NodeType
    <3>3. Sent(n, Bye(b), {}) \in SUBSET WireType
      BY <3>2, ByeType, SentType
    <3>4. DoDisconnect(r) \in NodeType /\ Fits(DoDisconnect(r))
      BY <2>1, <2>4, Constants, DoDisconnectMakes DEF Fits
    <3> HIDE DEF r, b
    <3> QED
      BY <3>1, <3>3, <3>4, StartTimerFits
  <2>5. CASE node[n].state = "disconnecting"
    <3>1. node' = [node EXCEPT ![n] = r] /\ UNCHANGED <<wire, lost>>
      BY <1>4, <2>1, <2>5 DEF Disconnect
    <3>2. Fits(r)
      BY <2>1, <2>5 DEF Fits
    <3> HIDE DEF r
    <3> QED
      BY <1>t, <2>1, <3>1, <3>2, BecomesFits
  <2> QED
    BY <2>2, <2>3, <2>4, <2>5, <1>f DEF NodeType
<1>5. ASSUME NEW n \in Nodes, ByeTimer(n) PROVE FitInv'
  <2> DEFINE r == node[n]
  <2>1. r \in NodeType /\ Fits(r) /\ r.timer = "bye"
    BY <1>5, <1>f DEF ByeTimer
  <2>2. r.state = "disconnecting"
    BY <2>1 DEF Fits, NodeType
  <2>3. Sent(n, Bye(r), {}) \in SUBSET WireType
    BY <2>1, ByeType, SentType
  <2>4. CASE r.byes + 1 < Byes
    <3>1. StartTimer(n, NextBye(r), Sent(n, Bye(r), {}))
      BY <1>5, <2>4 DEF ByeTimer
    <3>2. NextBye(r) \in NodeType /\ Fits(NextBye(r))
      BY <2>1, <2>2, NextByeMakes DEF Fits
    <3> QED
      BY <2>3, <3>1, <3>2, StartTimerFits
  <2>5. CASE ~(r.byes + 1 < Byes) /\ r.resetting
    <3>1. PICK id \in Ids : StartTimer(n, ConnectCausal(Reconnect(r), id), Sent(n, Bye(r), {}))
      BY <1>5, <2>5 DEF ByeTimer
    <3>2. Reconnect(r) \in NodeType /\ ~Reconnect(r).resetting /\ Reconnect(r).mode = "resetting"
      BY <2>1, <2>2, <2>5, ReconnectMakes DEF Fits
    <3>3. ConnectCausal(Reconnect(r), id) \in NodeType /\ Fits(ConnectCausal(Reconnect(r), id))
      BY <3>2, ConnectCausalMakes DEF Fits
    <3> QED
      BY <2>3, <3>1, <3>3, StartTimerFits
  <2>6. CASE ~(r.byes + 1 < Byes) /\ ~r.resetting
    <3>1. node' = [node EXCEPT ![n] = DisconnectDone(r)] /\ wire' = wire \cup Sent(n, Bye(r), {}) /\ lost' = lost
      BY <1>5, <2>6 DEF ByeTimer
    <3>2. DisconnectDone(r) \in NodeType /\ Fits(DisconnectDone(r))
      BY <2>1, <2>6, DisconnectDoneMakes DEF Fits
    <3>3. wire' \in SUBSET WireType /\ lost' \in Nat
      BY <1>t, <2>3, <3>1
    <3> QED
      BY <3>1, <3>2, <3>3, BecomesFits
  <2> QED
    BY <2>4, <2>5, <2>6
<1>6. ASSUME NEW n \in Nodes, Receive(n) PROVE FitInv'
  <2> DEFINE r == node[n]
  <2>1. PICK p \in wire : p.to = n /\
           LET rest == wire \ {p}
           IN  CASE r.state = "connecting" /\ Taken(r, p.packet) ->
                       IF r.starts < MaxStarts
                       THEN \E id \in Ids :
                              /\ node' = DueReplies(n, [node EXCEPT ![n] = StartJoining(r, id)])
                              /\ wire' = DueOn(n, rest)
                       ELSE node' = [node EXCEPT ![n] = DisconnectDone(r)] /\ wire' = rest
                 [] r.state = "connecting" /\ ~Taken(r, p.packet) ->
                       node' = [node EXCEPT ![n] = Seen(r, p.packet)] /\ wire' = rest
                 [] r.state = "connected" ->
                       \E q \in Joined(r, p.packet, p.due) : node' = [node EXCEPT ![n] = q] /\ wire' = rest
                 [] OTHER -> UNCHANGED node /\ wire' = rest
    BY <1>6 DEF Receive
  <2>2. lost' = lost /\ wire \ {p} \in SUBSET WireType /\ p.packet \in PacketType /\ p.due \in SUBSET Nodes
    BY <1>6, <1>t DEF Receive, WireType
  <2>3. r \in NodeType /\ Fits(r)
    BY <1>f
  <2>4. CASE r.state = "connecting" /\ Taken(r, p.packet) /\ r.starts < MaxStarts
    <3>1. PICK id \in Ids : /\ node' = DueReplies(n, [node EXCEPT ![n] = StartJoining(r, id)])
                            /\ wire' = DueOn(n, wire \ {p})
      BY <2>1, <2>4
    <3> DEFINE s == StartJoining(r, id)
    <3>2. s \in NodeType /\ Fits(s)
      BY <2>3, <2>4, StartJoiningMakes DEF Fits
    <3> HIDE DEF s
    <3>3. [node EXCEPT ![n] = s] \in [Nodes -> NodeType]
      BY <1>t, <3>2
    <3>4. /\ node' \in [Nodes -> NodeType] /\ wire' \in SUBSET WireType
          /\ \A k \in Nodes : Beside(node'[k], [node EXCEPT ![n] = s][k])
      BY <2>2, <3>1, <3>3, DueRepliesType, DueOnType DEF s
    <3>5. \A k \in Nodes : Fits(node'[k])
      BY <1>t, <1>f, <3>2, <3>4, FitsBeside
    <3> QED
      BY <1>t, <2>2, <3>4, <3>5 DEF FitInv, TypeOK
  <2>5. CASE r.state = "connecting" /\ Taken(r, p.packet) /\ ~(r.starts < MaxStarts)
    <3>1. node' = [node EXCEPT ![n] = DisconnectDone(r)] /\ wire' = wire \ {p}
      BY <2>1, <2>5
    <3>2. DisconnectDone(r) \in NodeType /\ Fits(DisconnectDone(r))
      BY <2>3, <2>5, DisconnectDoneMakes DEF Fits
    <3> QED
      BY <1>t, <2>2, <3>1, <3>2, BecomesFits
  <2>6. CASE r.state = "connecting" /\ ~Taken(r, p.packet)
    <3>1. node' = [node EXCEPT ![n] = Seen(r, p.packet)] /\ wire' = wire \ {p}
      BY <2>1, <2>6
    <3>2. Seen(r, p.packet) \in NodeType /\ Seen(r, p.packet) = [r EXCEPT !.seen = Seen(r, p.packet).seen]
      BY <2>3, SeenMakes
    <3>3. Fits(Seen(r, p.packet))
      BY <2>3, <3>2 DEF Fits, NodeType
    <3> QED
      BY <1>t, <2>2, <3>1, <3>2, <3>3, BecomesFits
  <2>7. CASE r.state = "connected"
    <3>1. PICK q \in Joined(r, p.packet, p.due) : node' = [node EXCEPT ![n] = q] /\ wire' = wire \ {p}
      BY <2>1, <2>7
    <3> HIDE DEF r
    <3>2. q \in NodeType /\ Beside(q, r)
      <4>1. r \in NodeType /\ p.packet \in PacketType /\ p.due \in SUBSET Nodes /\ q \in Joined(r, p.packet, p.due)
        BY <2>2, <2>3
      <4> QED
        BY <4>1, JoinedMakes
    <3>3. q \in NodeType /\ Fits(q)
      BY <2>3, <3>2, FitsBeside
    <3>4. wire' \in SUBSET WireType /\ lost' \in Nat
      BY <1>t, <2>2, <3>1
    <3> QED
      BY <3>1, <3>3, <3>4, BecomesFits
  <2>8. CASE r.state \notin {"connecting", "connected"}
    <3>1. node' = node /\ wire' = wire \ {p}
      BY <2>1, <2>8
    <3> QED
      BY <1>t, <1>f, <2>2, <3>1 DEF FitInv, TypeOK
  <2> QED
    BY <2>4, <2>5, <2>6, <2>7, <2>8
<1>7. ASSUME NEW n \in Nodes, WhoisReply(n) PROVE FitInv'
  <2> DEFINE r == node[n]
  <2>1. PICK w \in r.replies :
           /\ node' = [node EXCEPT ![n].replies = @ \ {w}]
           /\ wire' = wire \cup Sent(n, Packet("whois_reply", w.id, Zero, 1), w.due) /\ lost' = lost
    BY <1>7 DEF WhoisReply
  <2> DEFINE q == [r EXCEPT !.replies = r.replies \ {w}]
  <2>2. r \in NodeType /\ Fits(r) /\ w \in [id : Names, due : SUBSET Nodes]
    BY <1>f DEF NodeType
  <2>3. q \in NodeType /\ Beside(q, r)
    BY <2>2 DEF NodeType, Beside
  <2>4. Packet("whois_reply", w.id, Zero, 1) \in PacketType
    BY <2>2, Constants DEF Packet, PacketType
  <2>5. wire' \in SUBSET WireType /\ lost' \in Nat
    BY <1>t, <2>1, <2>2, <2>4, SentType
  <2>6. node' = [node EXCEPT ![n] = q]
    BY <2>1
  <2> HIDE DEF q
  <2> QED
    BY <2>2, <2>3, <2>5, <2>6, FitsBeside, BecomesFits
<1>8. CASE Lose
  BY <1>8, <1>t, <1>f DEF Lose, FitInv, TypeOK
<1>9. CASE UNCHANGED vars
  BY <1>9, <1>t, <1>f DEF vars, FitInv, TypeOK
<1> QED
  BY <1>1, <1>2, <1>3, <1>4, <1>5, <1>6, <1>7, <1>8, <1>9 DEF Next

\* The nodes fit when nobody has started.
LEMMA InitFits == Init => FitInv
<1> SUFFICES ASSUME Init PROVE FitInv
  OBVIOUS
<1>1. NewNode \in NodeType /\ Fits(NewNode)
  BY Constants DEF NewNode, NodeType, Fits
<1> QED
  BY <1>1 DEF Init, FitInv, TypeOK

\* Every node and every packet keeps its type, and the timer, the reset and the
\* state above of a node are always those of the state of its causal transport.
THEOREM LifeCycle == Spec => []FitInv
BY InitFits, NextFits, PTL DEF Spec

\* In every execution the life cycles of both transports fit: whoever may send
\* is connected below, and a BYE never lacks a sender.
THEOREM StatesAlwaysFit == Spec => []StatesFit
<1>1. FitInv => StatesFit
  BY DEF FitInv, TypeOK, Fits, NodeType, StatesFit
<1> QED
  BY <1>1, LifeCycle, PTL

-----------------------------------------------------------------------------
(* Identifiers: what a step of a node leaves alone *)

LEMMA OwnStays ==
    ASSUME NEW n \in Nodes, OwnPending(n), node'[n].id = node[n].id,
           \A p \in wire : p.to = n /\ p.from = n => \E q \in wire' : Later(p, q)
    PROVE  OwnPending(n)'
BY DEF OwnPending, Later

\* A node that will choose again still will.
LEMMA DoomStays ==
    ASSUME NEW n \in Nodes, Doomed(n), Beside(node'[n], node[n]),
           \A p \in wire : p.to = n /\ p.from = n => \E q \in wire' : Later(p, q)
    PROVE  Doomed(n)'
BY OwnStays DEF Doomed, Beside

\* A node sees its own requests still.
LEMMA SightStays ==
    ASSUME NEW n \in Nodes, SeesItself(n), Beside(node'[n], node[n]),
           \A p \in wire : p.to = n /\ p.from = n => \E q \in wire' : Later(p, q)
    PROVE  SeesItself(n)'
BY OwnStays DEF SeesItself, Beside

\* What makes a node choose again is still on its way.
LEMMA ThreatStays ==
    ASSUME NEW m \in Nodes, NEW n \in Nodes, Threatened(m, n), node'[m].id = node[m].id,
           node[n].state = "connected" =>
              /\ node'[n].state = "connected"
              /\ \A w \in node[n].replies : w.id = node[m].id => \E v \in node'[n].replies : LaterAnswer(w, v),
           \A p \in wire : p.to \in {m, n} => \E q \in wire' : Later(p, q)
    PROVE  Threatened(m, n)'
<1>1. ASSUME NEW p \in wire, p.from = m, p.to = n, m \in p.due,
             p.packet.type = "whois_request", p.packet.asked = node[m].id
      PROVE  Threatened(m, n)'
  BY <1>1 DEF Threatened, Later
<1>2. ASSUME NEW w \in node[n].replies, node[n].state = "connected", w.id = node[m].id, m \in w.due
      PROVE  Threatened(m, n)'
  BY <1>2 DEF Threatened, LaterAnswer
<1>3. ASSUME NEW p \in wire, p.to = m, p.from # m, m \in p.due, p.packet.sender = node[m].id
      PROVE  Threatened(m, n)'
  BY <1>3 DEF Threatened, Later
<1> QED
  BY <1>1, <1>2, <1>3 DEF Threatened

\* A step of a: it changes the others' answers at most in what comes after
\* them, and takes no packet to another.
StepOf(a) ==
    /\ lost' = lost
    /\ \A k \in Nodes \ {a} :
          /\ Beside(node'[k], node[k])
          /\ \A w \in node[k].replies : \E v \in node'[k].replies : LaterAnswer(w, v)
    /\ \A p \in wire : p.to # a => \E q \in wire' : Later(p, q)

\* After a step of a only the pairs of a matter.
LEMMA OnlyPairsOf ==
    ASSUME FitInv, FitInv', IdInv, NEW a \in Nodes, StepOf(a), RequestsComeBack', SeesItself(a)',
           \A n \in Nodes \ {a} : Share(a, n)' => Costs(a, n)' \/ Costs(n, a)'
    PROVE  IdInv'
<1>1. ASSUME NEW n \in Nodes \ {a} PROVE SeesItself(n)'
  BY SightStays DEF IdInv, StepOf
<1>2. ASSUME NEW m \in Nodes \ {a}, NEW n \in Nodes \ {a}, Share(m, n)', Costs(m, n)
      PROVE  Costs(m, n)'
  <2>1. Beside(node'[m], node[m]) /\ Beside(node'[n], node[n])
    BY DEF StepOf
  <2>2. \A p \in wire : p.to \in {m, n} => \E q \in wire' : Later(p, q)
    BY DEF StepOf
  <2>3. CASE lost >= node[m].requests
    BY <2>1, <2>3 DEF Costs, StepOf, Beside
  <2>4. CASE node[m].state = "connecting" /\ lost + 1 >= node[m].requests /\ Threatened(m, n)
    <3>1. Threatened(m, n)'
      BY <2>1, <2>2, <2>4, ThreatStays DEF StepOf, Beside
    <3> QED
      BY <2>1, <2>4, <3>1 DEF Costs, StepOf, Beside
  <2>5. CASE Doomed(n)
    <3>1. Doomed(n)'
      BY <2>1, <2>2, <2>5, DoomStays
    <3> QED
      BY <3>1 DEF Costs
  <2> QED
    BY <1>2, <2>3, <2>4, <2>5 DEF Costs
<1>3. ASSUME NEW m \in Nodes, NEW n \in Nodes, Share(m, n)' PROVE Costs(m, n)' \/ Costs(n, m)'
  <2>1. Share(n, m)' /\ m # n
    BY <1>3 DEF Share
  <2>2. CASE m # a /\ n # a
    <3>1. Share(m, n)
      BY <1>3, <2>2 DEF StepOf, Share, Active, Beside
    <3>2. Costs(m, n) \/ Costs(n, m)
      BY <3>1 DEF IdInv, SharingCosts
    <3> QED
      BY <1>2, <1>3, <2>1, <2>2, <3>2
  <2> QED
    BY <1>3, <2>1, <2>2
<1>4. SharingCosts'
  BY <1>3 DEF SharingCosts
<1> QED
  BY <1>1, <1>4 DEF IdInv

\* Who starts to join, and who is not in the group, threatens nobody.
LEMMA FreshOf ==
    ASSUME FitInv, FitInv', IdInv, NEW a \in Nodes, StepOf(a), RequestsComeBack',
           \/ ~Active(node'[a])
           \/ node'[a].requests = 0 /\ node'[a].seen = 0
    PROVE  IdInv'
<1>1. SeesItself(a)'
  BY DEF SeesItself, Active
<1>2. lost' \in Nat
  BY DEF FitInv, TypeOK
<1>3. ASSUME NEW n \in Nodes \ {a}, Share(a, n)' PROVE Costs(a, n)'
  <2>1. node'[a].requests = 0
    BY <1>3 DEF Share
  <2>2. lost' >= node'[a].requests
    BY <1>2, <2>1
  <2> QED
    BY <2>2 DEF Costs
<1> QED
  BY <1>1, <1>3, OnlyPairsOf

\* Setting a timer is a step of its node alone.
LEMMA StartTimerIsStepOf ==
    ASSUME TypeOK, NEW a \in Nodes, NEW r \in NodeType, NEW packets \in SUBSET WireType,
           StartTimer(a, r, packets)
    PROVE  StepOf(a)
BY StartTimerMakes DEF StepOf

\* Requests come back to who sent them, after a step that sets a timer.
LEMMA RequestsComeBackTimer ==
    ASSUME FitInv, IdInv, NEW a \in Nodes, NEW r \in NodeType, NEW packets \in SUBSET WireType,
           StartTimer(a, r, packets),
           \A p \in packets : p.packet.type = "whois_request" => p.from = a /\ p.packet.sender = Zero
    PROVE  RequestsComeBack'
<1> SUFFICES ASSUME NEW q \in wire', q.packet.type = "whois_request"
             PROVE  q.from \in q.due /\ q.packet.sender = Zero
  BY DEF RequestsComeBack
<1>1. PICK p \in wire \cup packets : Later(p, q) /\ a \in q.due
  BY StartTimerMakes DEF FitInv
<1>2. CASE p \in wire
  BY <1>1, <1>2 DEF Later, IdInv, RequestsComeBack
<1>3. CASE p \in packets
  BY <1>1, <1>3 DEF Later
<1> QED
  BY <1>2, <1>3

\* Nobody whose timer may end is threatened, or waits for its own request.
LEMMA QuietMeans ==
    ASSUME IdInv, NEW a \in Nodes, Quiet(a)
    PROVE  /\ ~OwnPending(a)
           /\ \A n \in Nodes : ~Threatened(a, n)
BY DEF IdInv, RequestsComeBack, Quiet, OwnPending, Threatened

\* What an answer in the group leaves of r's own name: it waits, and to ask for
\* the name makes one wait.
LEMMA JoinedAnswers ==
    ASSUME NEW r \in NodeType, NEW p \in PacketType, NEW due \in SUBSET Nodes, NEW s \in Joined(r, p, due),
           r.self = r.id
    PROVE  /\ \A w \in r.replies : w.id = r.id => \E v \in s.replies : LaterAnswer(w, v)
           /\ p.type = "whois_request" /\ p.asked = r.id =>
                 \E v \in s.replies : v.id = r.id /\ due \subseteq v.due
<1> DEFINE same == {v \in r.replies : v.id = p.asked}
           reply == [id |-> p.asked, due |-> due \cup UNION {w.due : w \in same}]
           answered == [r EXCEPT !.replies = (r.replies \ same) \cup {reply}]
<1>1. CASE p.type = "whois_request" /\ Has(r, p)
  <2>1. s = answered
    BY <1>1 DEF Joined, Answer
  <2>2. s.replies = (r.replies \ same) \cup {reply}
    BY <2>1 DEF NodeType
  <2>3. reply \in s.replies /\ reply.id = p.asked /\ due \subseteq reply.due
    BY <2>2
  <2>4. ASSUME NEW w \in r.replies PROVE \E v \in s.replies : LaterAnswer(w, v)
    <3>1. CASE w.id = p.asked
      <4>1. w \in same
        BY <3>1
      <4>2. w.due \subseteq UNION {v.due : v \in same}
        BY <4>1
      <4>3. LaterAnswer(w, reply)
        BY <3>1, <4>2 DEF LaterAnswer
      <4> QED
        BY <2>3, <4>3
    <3>2. CASE w.id # p.asked
      BY <2>2, <3>2 DEF LaterAnswer
    <3> QED
      BY <3>1, <3>2
  <2> HIDE DEF reply
  <2> QED
    BY <2>3, <2>4
<1>2. CASE p.type = "whois_request" /\ ~Has(r, p)
  BY <1>2 DEF Joined, Answer, Has, LaterAnswer
<1>3. CASE p.type = "whois_reply" /\ p.sender # r.id
  <2> DEFINE q == [r EXCEPT !.replies = {w \in r.replies : w.id # p.sender}]
  <2>1. q \in NodeType /\ q.replies = {w \in r.replies : w.id # p.sender}
    BY DEF NodeType
  <2>2. s = q \/ s = [q EXCEPT !.known = q.known \cup {p.sender}]
    BY <1>3 DEF Joined
  <2> HIDE DEF q
  <2>3. s.replies = q.replies
    BY <2>1, <2>2 DEF NodeType
  <2> QED
    BY <1>3, <2>1, <2>3 DEF LaterAnswer
<1>4. CASE p.type # "whois_request" /\ ~(p.type = "whois_reply" /\ p.sender # r.id)
  <2>1. s = r \/ s = [r EXCEPT !.known = r.known \ {p.sender}]
    BY <1>4 DEF Joined
  <2>2. s.replies = r.replies
    BY <2>1 DEF NodeType
  <2> QED
    BY <1>4, <2>2 DEF LaterAnswer
<1> QED
  BY <1>1, <1>2, <1>3, <1>4

\* The same of a node of the group.
LEMMA JoinedInGroup ==
    ASSUME FitInv, NEW a \in Nodes, node[a].state = "connected", NEW p \in wire,
           NEW s \in Joined(node[a], p.packet, p.due)
    PROVE  /\ s \in NodeType /\ Beside(s, node[a])
           /\ \A w \in node[a].replies : w.id = node[a].id => \E v \in s.replies : LaterAnswer(w, v)
           /\ p.packet.type = "whois_request" /\ p.packet.asked = node[a].id =>
                 \E v \in s.replies : v.id = node[a].id /\ p.due \subseteq v.due
<1> DEFINE r == node[a]
<1>1. r.self = r.id
  BY DEF FitInv, Fits
<1>2. /\ r \in NodeType /\ p.packet \in PacketType /\ p.due \in SUBSET Nodes
      /\ s \in Joined(r, p.packet, p.due)
  BY DEF FitInv, TypeOK, WireType
<1> HIDE DEF r
<1>3. s \in NodeType /\ Beside(s, r)
  BY <1>2, JoinedMakes
<1>4. /\ \A w \in r.replies : w.id = r.id => \E v \in s.replies : LaterAnswer(w, v)
      /\ p.packet.type = "whois_request" /\ p.packet.asked = r.id =>
            \E v \in s.replies : v.id = r.id /\ p.due \subseteq v.due
  BY <1>1, <1>2, JoinedAnswers
<1> QED
  BY <1>3, <1>4 DEF r

-----------------------------------------------------------------------------
(* Identifiers: one step *)

\* A round of a costs those who share its identifier a packet, or one of them chooses again.
LEMMA StepKeepsIds ==
    ASSUME FitInv, FitInv', IdInv, NEW a \in Nodes, Step(a)
    PROVE  IdInv'
<1> DEFINE r == node[a]
           q == [r EXCEPT !.requests = r.requests + 1]
           asking == Packet("whois_request", Zero, r.id, r.requests + 1)
           naming == Packet("whois_reply", r.id, Zero, 0)
<1>1. r \in NodeType /\ r.state = "connecting" /\ Quiet(a) /\ Fits(r) /\ lost \in Nat /\ r.requests \in Nat
      /\ TypeOK
  BY DEF Step, FitInv, TypeOK, NodeType
<1>2. ~OwnPending(a) /\ ~Doomed(a) /\ r.seen = r.requests /\ \A n \in Nodes : ~Threatened(a, n)
  <2>1. ~OwnPending(a) /\ \A n \in Nodes : ~Threatened(a, n)
    BY <1>1, QuietMeans
  <2>2. SeesItself(a)
    BY DEF IdInv
  <2>3. r.seen \in Nat
    BY <1>1 DEF NodeType
  <2> QED
    BY <1>1, <2>1, <2>2, <2>3 DEF SeesItself, Doomed
<1>3. asking \in PacketType /\ naming \in PacketType
  BY <1>1, Constants DEF Packet, PacketType, NodeType
<1>4. Sent(a, asking, {}) \in SUBSET WireType /\ Sent(a, naming, {}) \in SUBSET WireType
  BY <1>3, SentType
\* The others that share the identifier threaten and wait as before.
<1>5. ASSUME NEW s \in NodeType, s.state \in {"connecting", "connected"}, s.id = r.id,
             NEW packets \in SUBSET WireType, StartTimer(a, s, packets),
             NEW n \in Nodes \ {a}, Share(a, n)'
      PROVE  /\ node[n].state = node'[n].state /\ Share(a, n)
             /\ Doomed(n) => Doomed(n)'
             /\ Costs(n, a) => Costs(n, a)'
  <2>1. StepOf(a) /\ Beside(node'[a], s)
    BY <1>1, <1>5, StartTimerIsStepOf, StartTimerMakes
  <2>2. Beside(node'[n], node[n]) /\ node'[a].id = node[a].id
    BY <1>5, <2>1 DEF StepOf, Beside
  <2>3. Share(a, n)
    BY <1>1, <1>5, <2>2 DEF Share, Active, Beside
  <2>4. \A p \in wire : \E z \in wire' : Later(p, z)
    BY <1>1, <1>5, StartTimerMakes
  <2>5. Doomed(n) => Doomed(n)'
    BY <2>2, <2>4, DoomStays
  <2>6. ASSUME Costs(n, a) PROVE Costs(n, a)'
    <3>1. CASE lost >= node[n].requests
      BY <2>1, <2>2, <3>1 DEF Costs, StepOf, Beside
    <3>2. CASE node[n].state = "connecting" /\ lost + 1 >= node[n].requests /\ Threatened(n, a)
      <4>1. Threatened(n, a)'
        BY <1>1, <2>2, <2>4, <3>2, ThreatStays DEF Beside
      <4> QED
        BY <2>1, <2>2, <3>2, <4>1 DEF Costs, StepOf, Beside
    <3> QED
      BY <1>2, <2>6, <3>1, <3>2 DEF Costs
  <2> QED
    BY <2>2, <2>3, <2>5, <2>6 DEF Beside
<1>6. CASE r.requests < Requests
  <2>1. StartTimer(a, q, Sent(a, asking, {}))
    BY <1>6 DEF Step
  <2>2. q \in NodeType /\ q.state = "connecting" /\ q.id = r.id /\ q.requests = r.requests + 1 /\ q.seen = r.seen
    BY <1>1 DEF NodeType
  <2>3. RequestsComeBack'
    BY <1>3, <1>4, <2>1, <2>2, SentType, RequestsComeBackTimer DEF Packet
  <2> HIDE DEF q
  <2>4. StepOf(a) /\ Beside(node'[a], q)
    BY <1>1, <1>4, <2>1, <2>2, StartTimerIsStepOf, StartTimerMakes
  <2>5. \A z \in Sent(a, asking, {}) : \E y \in wire' : Later(z, y) /\ a \in y.due
    BY <1>1, <1>4, <2>1, <2>2, StartTimerMakes
  <2>6. asking.type = "whois_request" /\ asking.asked = r.id
    BY DEF Packet
  <2> HIDE DEF asking
  <2>7. OwnPending(a)'
    <3>1. PICK z \in Sent(a, asking, {}) : z.to = a
      BY <1>3, SentType
    <3>2. z.from = a /\ z.packet = asking
      BY <1>3, SentType
    <3>3. node'[a].id = r.id
      BY <2>2, <2>4 DEF Beside
    <3> QED
      BY <2>5, <2>6, <3>1, <3>2, <3>3 DEF OwnPending, Later
  <2>8. SeesItself(a)'
    BY <1>1, <1>2, <2>2, <2>4, <2>7 DEF SeesItself, Beside
  <2>9. ASSUME NEW n \in Nodes \ {a}, Share(a, n)' PROVE Costs(a, n)' \/ Costs(n, a)'
    <3>1. Share(a, n) /\ (Doomed(n) => Doomed(n)') /\ (Costs(n, a) => Costs(n, a)')
      BY <1>4, <1>5, <2>1, <2>2, <2>9
    <3>2. Costs(a, n) \/ Costs(n, a)
      BY <3>1 DEF IdInv, SharingCosts
    <3>3. CASE lost >= r.requests
      <4>1. PICK z \in Sent(a, asking, {}) : z.to = n
        BY <1>3, <3>1, SentType DEF Share, Active, Listening
      <4>2. z.from = a /\ z.packet = asking
        BY <1>3, SentType
      <4>3. node'[a].id = r.id /\ node'[a].state = "connecting" /\ node'[a].requests = r.requests + 1 /\ lost' = lost
        BY <2>2, <2>4 DEF Beside, StepOf
      <4>4. Threatened(a, n)'
        BY <2>5, <2>6, <4>1, <4>2, <4>3 DEF Threatened, Later
      <4>5. lost' + 1 >= node'[a].requests
        BY <1>1, <3>3, <4>3
      <4> QED
        BY <4>3, <4>4, <4>5 DEF Costs
    <3>4. CASE Doomed(n)
      BY <3>1, <3>4 DEF Costs
    <3> QED
      BY <1>2, <3>1, <3>2, <3>3, <3>4 DEF Costs
  <2> QED
    BY <2>3, <2>4, <2>8, <2>9, OnlyPairsOf
<1>7. CASE ~(r.requests < Requests)
  <2>1. StartTimer(a, Connected(r), Sent(a, naming, {}))
    BY <1>7 DEF Step
  <2>2. Connected(r) \in NodeType /\ Connected(r).state = "connected" /\ Connected(r).id = r.id
        /\ Connected(r).requests = r.requests
    BY <1>1, ConnectedMakes
  <2>3. RequestsComeBack'
    BY <1>3, <1>4, <2>1, <2>2, SentType, RequestsComeBackTimer DEF Packet
  <2>4. StepOf(a) /\ Beside(node'[a], Connected(r))
    BY <1>1, <1>4, <2>1, <2>2, StartTimerIsStepOf, StartTimerMakes
  <2>5. SeesItself(a)'
    BY <2>2, <2>4 DEF SeesItself, Beside
  <2>6. ASSUME NEW n \in Nodes \ {a}, Share(a, n)' PROVE Costs(a, n)' \/ Costs(n, a)'
    <3>1. Share(a, n) /\ (Doomed(n) => Doomed(n)') /\ (Costs(n, a) => Costs(n, a)')
      BY <1>4, <1>5, <2>1, <2>2, <2>6
    <3>2. Costs(a, n) \/ Costs(n, a)
      BY <3>1 DEF IdInv, SharingCosts
    <3>3. CASE lost >= r.requests
      BY <2>2, <2>4, <3>3 DEF Costs, Beside, StepOf
    <3>4. CASE Doomed(n)
      BY <3>1, <3>4 DEF Costs
    <3> QED
      BY <1>2, <3>1, <3>2, <3>3, <3>4 DEF Costs
  <2> QED
    BY <2>3, <2>4, <2>5, <2>6, OnlyPairsOf
<1> QED
  BY <1>6, <1>7

\* A node that joins hears a packet and does not choose again.
LEMMA HearKeepsIds ==
    ASSUME FitInv, FitInv', IdInv, NEW a \in Nodes, NEW p \in wire, p.to = a,
           node[a].state = "connecting", ~Taken(node[a], p.packet),
           node' = [node EXCEPT ![a] = Seen(node[a], p.packet)], wire' = wire \ {p}, lost' = lost
    PROVE  IdInv'
<1> DEFINE r == node[a]
           counted == p.packet.type = "whois_request" /\ p.packet.asked = r.id /\ p.packet.sender = Zero
           s == node'[a]
<1>1. /\ r \in NodeType /\ r.seen \in Nat /\ r.requests \in Nat /\ r.id # Zero /\ lost \in Nat
      /\ node \in [Nodes -> NodeType] /\ wire \in SUBSET WireType
  BY Constants DEF FitInv, TypeOK, NodeType, Fits
<1>2. /\ s = [r EXCEPT !.seen = s.seen] /\ s.seen = IF counted THEN r.seen + 1 ELSE r.seen
      /\ s \in NodeType
  BY <1>1, SeenMakes
<1>3. s.state = "connecting" /\ s.id = r.id /\ s.requests = r.requests
  BY <1>1, <1>2 DEF NodeType
<1>4. \A k \in Nodes \ {a} : node'[k] = node[k]
  BY <1>1
<1>5. \A z \in wire : z # p => z \in wire' /\ Later(z, z)
  BY DEF Later
<1>6. StepOf(a)
  BY <1>4, <1>5 DEF StepOf, Beside, LaterAnswer
<1>7. RequestsComeBack'
  BY DEF IdInv, RequestsComeBack
<1>8. counted => r.requests >= r.seen + 1
  BY <1>1 DEF Taken, Probed
<1>9. /\ r.seen <= r.requests
      /\ r.seen < r.requests => OwnPending(a) /\ r.seen + 1 = r.requests
  BY DEF IdInv, SeesItself
\* Its own request is another packet, or it is counted.
<1>10. OwnPending(a) /\ (~counted \/ p.from # a) => OwnPending(a)'
  <2> SUFFICES ASSUME OwnPending(a), ~counted \/ p.from # a PROVE OwnPending(a)'
    OBVIOUS
  <2>1. PICK z \in wire : /\ z.from = a /\ z.to = a /\ z.packet.type = "whois_request" /\ z.packet.asked = r.id
    BY DEF OwnPending
  <2>2. z.packet.sender = Zero
    BY <2>1 DEF IdInv, RequestsComeBack
  <2>3. z # p
    BY <2>1, <2>2
  <2> QED
    BY <1>3, <2>1, <2>3 DEF OwnPending
<1>11. SeesItself(a)'
  <2>1. CASE counted
    BY <1>1, <1>2, <1>3, <1>8, <1>9, <2>1 DEF SeesItself
  <2>2. CASE ~counted
    <3>1. s.seen = r.seen
      BY <1>2, <2>2
    <3> HIDE DEF counted
    <3> QED
      BY <1>1, <1>3, <1>9, <1>10, <2>2, <3>1 DEF SeesItself
  <2> QED
    BY <2>1, <2>2
<1>12. ASSUME NEW n \in Nodes \ {a}, Share(a, n)' PROVE Costs(a, n)' \/ Costs(n, a)'
  <2>1. Share(a, n) /\ Beside(node'[n], node[n]) /\ n # a /\ n \in Nodes
    BY <1>3, <1>4, <1>12 DEF Share, Active, Beside
  <2>2. node[n].id = r.id
    BY <2>1 DEF Share
  <2>3. Doomed(n) => Doomed(n)'
    BY <1>5, <2>1, DoomStays
  <2>4. ASSUME Threatened(a, n) PROVE Threatened(a, n)'
    <3>1. ASSUME NEW z \in wire, z.from = a, z.to = n, a \in z.due,
                 z.packet.type = "whois_request", z.packet.asked = r.id
          PROVE  Threatened(a, n)'
      BY <1>3, <1>5, <2>1, <3>1 DEF Threatened
    <3>2. ASSUME NEW w \in node[n].replies, node[n].state = "connected", w.id = r.id, a \in w.due
          PROVE  Threatened(a, n)'
      BY <1>3, <1>4, <3>2 DEF Threatened
    <3>3. ASSUME NEW z \in wire, z.to = a, z.from # a, a \in z.due, z.packet.sender = r.id
          PROVE  Threatened(a, n)'
      <4>1. z # p
        BY <3>3 DEF Taken
      <4> QED
        BY <1>3, <1>5, <3>3, <4>1 DEF Threatened
    <3> QED
      BY <2>4, <3>1, <3>2, <3>3 DEF Threatened
  <2>5. ASSUME Doomed(a) PROVE Doomed(a)'
    <3>1. r.seen = r.requests /\ OwnPending(a)
      BY <2>5 DEF Doomed
    <3>2. ~counted
      BY <1>1, <1>8, <3>1
    <3> QED
      BY <1>2, <1>3, <1>10, <3>1, <3>2 DEF Doomed
  <2>6. ASSUME Threatened(n, a) PROVE Threatened(n, a)' \/ Doomed(a)'
    <3>1. ASSUME NEW z \in wire, z.from = n, z.to = a, n \in z.due,
                 z.packet.type = "whois_request", z.packet.asked = node[n].id
          PROVE  Threatened(n, a)' \/ Doomed(a)'
      <4>1. CASE z # p
        BY <1>4, <1>5, <3>1, <4>1 DEF Threatened
      <4>2. CASE z = p
        <5>1. counted
          BY <2>2, <3>1, <4>2 DEF IdInv, RequestsComeBack
        <5>2. s.seen = r.requests /\ OwnPending(a)
          BY <1>1, <1>2, <1>8, <1>9, <5>1
        <5>3. OwnPending(a)'
          BY <1>10, <2>1, <3>1, <4>2, <5>2
        <5> QED
          BY <1>3, <5>2, <5>3 DEF Doomed
      <4> QED
        BY <4>1, <4>2
    <3>2. ASSUME NEW z \in wire, z.to = n, z.from # n, n \in z.due, z.packet.sender = node[n].id
          PROVE  Threatened(n, a)'
      BY <1>4, <1>5, <2>1, <3>2 DEF Threatened
    <3> QED
      BY <2>6, <3>1, <3>2 DEF Threatened
  <2>7. CASE Costs(a, n)
    BY <1>3, <2>3, <2>4, <2>7 DEF Costs
  <2>8. CASE Costs(n, a)
    <3>1. node'[n].requests = node[n].requests /\ node'[n].state = node[n].state
      BY <2>1 DEF Beside
    <3> QED
      BY <2>5, <2>6, <2>8, <3>1 DEF Costs
  <2> QED
    BY <2>1, <2>7, <2>8 DEF IdInv, SharingCosts
<1> QED
  BY <1>6, <1>7, <1>11, <1>12, OnlyPairsOf

\* A node in the group receives: who asks for its identifier will be answered.
LEMMA ReceiveKeepsIds ==
    ASSUME FitInv, FitInv', IdInv, NEW a \in Nodes, NEW p \in wire, p.to = a,
           node[a].state = "connected", NEW s \in Joined(node[a], p.packet, p.due),
           node' = [node EXCEPT ![a] = s], wire' = wire \ {p}, lost' = lost
    PROVE  IdInv'
<1> DEFINE r == node[a]
<1>1. /\ r \in NodeType /\ r.self = r.id /\ lost \in Nat
      /\ node \in [Nodes -> NodeType] /\ p.packet \in PacketType /\ p.due \in SUBSET Nodes
  BY DEF FitInv, TypeOK, WireType, Fits
<1>2. /\ s \in NodeType /\ Beside(s, r)
      /\ \A w \in r.replies : w.id = r.id => \E v \in s.replies : LaterAnswer(w, v)
      /\ p.packet.type = "whois_request" /\ p.packet.asked = r.id =>
            \E v \in s.replies : v.id = r.id /\ p.due \subseteq v.due
  BY JoinedInGroup
<1>3. node'[a] = s /\ s.state = "connected" /\ s.id = r.id
  BY <1>1, <1>2 DEF Beside
<1>4. \A k \in Nodes \ {a} : node'[k] = node[k]
  BY <1>1
<1>5. \A z \in wire : z # p => z \in wire' /\ Later(z, z)
  BY DEF Later
<1>6. StepOf(a)
  BY <1>4, <1>5 DEF StepOf, Beside, LaterAnswer
<1>7. RequestsComeBack'
  BY DEF IdInv, RequestsComeBack
<1>8. SeesItself(a)'
  BY <1>3 DEF SeesItself
<1>9. ASSUME NEW n \in Nodes \ {a}, Share(a, n)' PROVE Costs(a, n)' \/ Costs(n, a)'
  <2>1. Share(a, n) /\ Beside(node'[n], node[n]) /\ n # a /\ n \in Nodes
    BY <1>3, <1>4, <1>9 DEF Share, Active, Beside
  <2>2. node[n].id = r.id
    BY <2>1 DEF Share
  <2>3. Doomed(n) => Doomed(n)'
    BY <1>5, <2>1, DoomStays
  <2>4. s.requests = r.requests
    BY <1>2 DEF Beside
  <2>5. ASSUME Threatened(n, a) PROVE Threatened(n, a)'
    <3>1. ASSUME NEW z \in wire, z.from = n, z.to = a, n \in z.due,
                 z.packet.type = "whois_request", z.packet.asked = node[n].id
          PROVE  Threatened(n, a)'
      <4>1. CASE z # p
        BY <1>4, <1>5, <3>1, <4>1 DEF Threatened
      <4>2. CASE z = p
        <5>1. PICK v \in s.replies : v.id = r.id /\ n \in v.due
          BY <1>2, <2>2, <3>1, <4>2
        <5> QED
          BY <1>3, <1>4, <2>2, <5>1 DEF Threatened
      <4> QED
        BY <4>1, <4>2
    <3>2. ASSUME NEW w \in r.replies, w.id = node[n].id, n \in w.due
          PROVE  Threatened(n, a)'
      <4>1. PICK v \in s.replies : v.id = r.id /\ n \in v.due
        BY <1>2, <2>2, <3>2 DEF LaterAnswer
      <4> QED
        BY <1>3, <1>4, <2>2, <4>1 DEF Threatened
    <3>3. ASSUME NEW z \in wire, z.to = n, z.from # n, n \in z.due, z.packet.sender = node[n].id
          PROVE  Threatened(n, a)'
      BY <1>4, <1>5, <2>1, <3>3 DEF Threatened
    <3> QED
      BY <2>5, <3>1, <3>2, <3>3 DEF Threatened
  <2>6. CASE Costs(a, n)
    BY <1>3, <2>3, <2>4, <2>6 DEF Costs
  <2>7. CASE Costs(n, a)
    <3>1. node'[n].requests = node[n].requests /\ node'[n].state = node[n].state
      BY <2>1 DEF Beside
    <3> QED
      BY <2>5, <2>7, <3>1 DEF Costs, Doomed
  <2> QED
    BY <2>1, <2>6, <2>7 DEF IdInv, SharingCosts
<1> QED
  BY <1>6, <1>7, <1>8, <1>9, OnlyPairsOf

\* A node answers, to all nodes of the group.
LEMMA AnswerKeepsIds ==
    ASSUME FitInv, FitInv', IdInv, NEW a \in Nodes, WhoisReply(a)
    PROVE  IdInv'
<1> DEFINE r == node[a]
<1>1. r \in NodeType /\ node \in [Nodes -> NodeType] /\ lost \in Nat
  BY DEF FitInv, TypeOK
<1>2. PICK w \in r.replies :
           /\ node' = [node EXCEPT ![a].replies = @ \ {w}]
           /\ wire' = wire \cup Sent(a, Packet("whois_reply", w.id, Zero, 1), w.due) /\ lost' = lost
  BY DEF WhoisReply
<1> DEFINE s == [r EXCEPT !.replies = r.replies \ {w}]
           naming == Packet("whois_reply", w.id, Zero, 1)
<1>3. w.id \in Names /\ w.due \in SUBSET Nodes
  BY <1>1 DEF NodeType
<1>4. naming \in PacketType /\ naming.type # "whois_request" /\ naming.sender = w.id
  BY <1>3, Constants DEF Packet, PacketType
<1>5. node'[a] = s /\ Beside(s, r) /\ s.replies = r.replies \ {w}
  BY <1>1, <1>2 DEF NodeType, Beside
<1> HIDE DEF naming
<1>6. wire' = wire \cup Sent(a, naming, w.due)
  BY <1>2 DEF naming
<1>7. \A k \in Nodes \ {a} : node'[k] = node[k]
  BY <1>1, <1>2
<1>8. \A z \in wire : z \in wire' /\ Later(z, z)
  BY <1>6 DEF Later
<1>9. StepOf(a)
  BY <1>2, <1>7, <1>8 DEF StepOf, Beside, LaterAnswer
<1>10. RequestsComeBack'
  BY <1>3, <1>4, <1>6, SentType DEF IdInv, RequestsComeBack
<1>11. SeesItself(a)'
  BY <1>5, <1>8, SightStays DEF IdInv
<1>12. ASSUME NEW n \in Nodes \ {a}, Share(a, n)' PROVE Costs(a, n)' \/ Costs(n, a)'
  <2>1. Share(a, n) /\ Beside(node'[n], node[n]) /\ n # a /\ n \in Nodes
    BY <1>5, <1>7, <1>12 DEF Share, Active, Beside
  <2>2. (Doomed(n) => Doomed(n)') /\ (Doomed(a) => Doomed(a)')
    BY <1>5, <1>8, <2>1, DoomStays
  <2>3. Threatened(a, n) => Threatened(a, n)'
    BY <1>5, <1>7, <1>8, <2>1, ThreatStays DEF Beside, LaterAnswer
  <2>4. ASSUME Threatened(n, a) PROVE Threatened(n, a)'
    <3>1. CASE \E v \in r.replies : r.state = "connected" /\ v.id = node[n].id /\ n \in v.due
      <4>1. PICK v \in r.replies : r.state = "connected" /\ v.id = node[n].id /\ n \in v.due
        BY <3>1
      <4>2. CASE v # w
        <5>1. v \in node'[a].replies /\ node'[a].state = "connected" /\ node'[n].id = node[n].id
          BY <1>5, <1>7, <4>1, <4>2 DEF Beside
        <5> QED
          BY <4>1, <5>1 DEF Threatened
      <4>3. CASE v = w
        <5>1. PICK z \in Sent(a, naming, w.due) : z.to = n
          BY <1>3, <1>4, <2>1, SentType DEF Share, Active, Listening
        <5>2. z \in wire' /\ z.from = a /\ z.packet = naming /\ z.due = w.due
          BY <1>3, <1>4, <1>6, SentType
        <5> QED
          BY <1>4, <1>7, <2>1, <4>1, <4>3, <5>1, <5>2 DEF Threatened
      <4> QED
        BY <4>2, <4>3
    <3>2. CASE ~ \E v \in r.replies : r.state = "connected" /\ v.id = node[n].id /\ n \in v.due
      BY <1>7, <1>8, <2>1, <2>4, <3>2 DEF Threatened
    <3> QED
      BY <3>1, <3>2
  <2>5. node'[n].requests = node[n].requests /\ node'[n].state = node[n].state
        /\ node'[a].requests = r.requests /\ node'[a].state = r.state
    BY <1>5, <2>1 DEF Beside
  <2>6. lost' = lost
    BY <1>2
  <2>7. Costs(a, n) => Costs(a, n)'
    BY <2>2, <2>3, <2>5, <2>6 DEF Costs
  <2>8. Costs(n, a) => Costs(n, a)'
    BY <2>2, <2>4, <2>5, <2>6 DEF Costs
  <2> QED
    BY <2>1, <2>7, <2>8 DEF IdInv, SharingCosts
<1> QED
  BY <1>9, <1>10, <1>11, <1>12, OnlyPairsOf

\* A lost packet is one that was counted on.
LEMMA LossKeepsIds ==
    ASSUME FitInv, IdInv, Lose
    PROVE  IdInv'
<1>1. PICK p \in wire : p.to # p.from /\ wire' = wire \ {p}
  BY DEF Lose
<1>2. node' = node /\ lost' = lost + 1 /\ lost \in Nat /\ node \in [Nodes -> NodeType]
  BY DEF Lose, FitInv, TypeOK
<1>3. \A z \in wire : z.to = z.from => z \in wire' /\ Later(z, z)
  BY <1>1 DEF Later
<1>4. ASSUME NEW n \in Nodes PROVE SeesItself(n)' /\ (Doomed(n) => Doomed(n)')
  <2>1. Beside(node'[n], node[n])
    BY <1>2 DEF Beside
  <2> QED
    BY <1>3, <2>1, SightStays, DoomStays DEF IdInv
<1>5. RequestsComeBack'
  BY <1>1 DEF IdInv, RequestsComeBack
<1>6. ASSUME NEW m \in Nodes, NEW n \in Nodes, Costs(m, n) PROVE Costs(m, n)'
  <2>1. node[m].requests \in Nat
    BY <1>2 DEF NodeType
  <2>2. lost + 1 >= node[m].requests => lost' >= node'[m].requests
    BY <1>2, <2>1
  <2>3. lost >= node[m].requests => lost' >= node'[m].requests
    BY <1>2, <2>1
  <2> QED
    BY <1>4, <1>6, <2>2, <2>3 DEF Costs
<1>7. SharingCosts'
  BY <1>2, <1>6 DEF IdInv, SharingCosts, Share
<1> QED
  BY <1>4, <1>5, <1>7 DEF IdInv

\* Every step keeps the price of sharing an identifier.
LEMMA NextIds == FitInv /\ IdInv /\ [Next]_vars => IdInv'
<1> SUFFICES ASSUME FitInv, IdInv, [Next]_vars PROVE IdInv'
  OBVIOUS
<1>t. FitInv' /\ TypeOK
  BY NextFits DEF FitInv
<1>f. \A n \in Nodes : node[n] \in NodeType /\ Fits(node[n])
  BY DEF FitInv, TypeOK
<1>w. wire \in SUBSET WireType
  BY DEF FitInv, TypeOK
\* Many steps start a timer and leave a node that has not asked yet or is not in the group.
<1>s. ASSUME NEW a \in Nodes, NEW r \in NodeType, NEW packets \in SUBSET WireType, StartTimer(a, r, packets),
             \A p \in packets : p.packet.type # "whois_request",
             ~Active(r) \/ (r.requests = 0 /\ r.seen = 0)
      PROVE  IdInv'
  <2>1. StepOf(a) /\ RequestsComeBack'
    BY <1>t, <1>s, StartTimerIsStepOf, RequestsComeBackTimer
  <2>2. Beside(node'[a], r)
    BY <1>t, <1>s, StartTimerMakes
  <2> QED
    BY <1>t, <1>s, <2>1, <2>2, FreshOf DEF Beside, Active
<1>b. ASSUME NEW a \in Nodes, NEW b \in NodeType
      PROVE  /\ Sent(a, Bye(b), {}) \in SUBSET WireType
             /\ \A p \in Sent(a, Bye(b), {}) : p.packet.type # "whois_request"
  BY ByeType, SentType DEF Bye, Packet
<1>i. ASSUME NEW a \in Nodes, NEW r \in NodeType, NEW b \in NodeType, ~Active(r),
             StartTimer(a, r, Sent(a, Bye(b), {}))
      PROVE  IdInv'
  <2>1. /\ Sent(a, Bye(b), {}) \in SUBSET WireType
        /\ \A p \in Sent(a, Bye(b), {}) : p.packet.type # "whois_request"
    BY <1>b
  <2> DEFINE packets == Sent(a, Bye(b), {})
  <2> HIDE DEF packets
  <2>2. packets \in SUBSET WireType /\ StartTimer(a, r, packets) /\ \A p \in packets : p.packet.type # "whois_request"
    BY <1>i, <2>1 DEF packets
  <2>3. ~Active(r) \/ (r.requests = 0 /\ r.seen = 0)
    BY <1>i
  <2> QED
    BY <2>2, <2>3, <1>s
\* Others stop on their own, and send at most a BYE.
<1>d. ASSUME NEW a \in Nodes, NEW r, ~Active(r), node' = [node EXCEPT ![a] = r], lost' = lost,
             \A p \in wire : p.to # a => p \in wire',
             \A p \in wire' \ wire : p.packet.type # "whois_request"
      PROVE  IdInv'
  <2>1. node'[a] = r /\ \A k \in Nodes \ {a} : node'[k] = node[k]
    BY <1>d DEF FitInv, TypeOK
  <2>2. StepOf(a)
    BY <1>d, <2>1 DEF StepOf, Beside, LaterAnswer, Later
  <2>3. RequestsComeBack'
    BY <1>d DEF IdInv, RequestsComeBack
  <2> QED
    BY <1>t, <1>d, <2>1, <2>2, <2>3, FreshOf
<1>1. ASSUME NEW a \in Nodes, Connect(a) PROVE IdInv'
  <2> DEFINE r == [node[a] EXCEPT !.mode = "normal"]
  <2>1. PICK id \in Ids : StartTimer(a, ConnectCausal(r, id), {})
    BY <1>1 DEF Connect
  <2>2. r \in NodeType
    BY <1>f DEF NodeType
  <2> HIDE DEF r
  <2>3. /\ ConnectCausal(r, id) \in NodeType
        /\ ConnectCausal(r, id).requests = 0 /\ ConnectCausal(r, id).seen = 0
    BY <2>2, ConnectCausalMakes
  <2>4. {} \in SUBSET WireType /\ \A p \in {} : p.packet.type # "whois_request"
    OBVIOUS
  <2> QED
    BY <1>s, <2>1, <2>3, <2>4
<1>2. ASSUME NEW a \in Nodes, Step(a) PROVE IdInv'
  BY <1>2, <1>t, StepKeepsIds
<1>3. ASSUME NEW a \in Nodes, Reset(a) PROVE IdInv'
  <2> DEFINE q == [node[a] EXCEPT !.mode = "resetting", !.resetting = TRUE, !.resettable = FALSE]
             b == [node[a] EXCEPT !.byes = 0]
  <2>1. q \in NodeType /\ b \in NodeType
    <3>1. q \in NodeType
      <4> DEFINE x == [node[a] EXCEPT !.mode = "resetting"]
                 y == [x EXCEPT !.resetting = TRUE]
      <4>1. x \in NodeType
        BY <1>f DEF NodeType
      <4>2. y \in NodeType
        <5> HIDE DEF x
        <5> QED
          BY <4>1 DEF NodeType
      <4>3. [y EXCEPT !.resettable = FALSE] \in NodeType
        <5> HIDE DEF y
        <5> QED
          BY <4>2 DEF NodeType
      <4>4. q = [y EXCEPT !.resettable = FALSE]
        OBVIOUS
      <4> QED
        BY <4>3, <4>4
    <3>2. b \in NodeType
      BY <1>f DEF NodeType
    <3> QED
      BY <3>1, <3>2
  <2>2. StartTimer(a, DoDisconnect(q), Sent(a, Bye(b), {}))
    BY <1>3 DEF Reset
  <2> HIDE DEF q, b
  <2>3. DoDisconnect(q) \in NodeType /\ ~Active(DoDisconnect(q))
    BY <2>1, DoDisconnectMakes DEF Active
  <2> QED
    BY <1>i, <2>1, <2>2, <2>3
<1>4. ASSUME NEW a \in Nodes, Disconnect(a) PROVE IdInv'
  <2> DEFINE r == Leaving(node[a])
             b == [r EXCEPT !.byes = 0]
  <2>1. r \in NodeType /\ r.state = node[a].state
    BY <1>f, LeavingMakes
  <2>2. DoDisconnect(r) \in NodeType /\ ~Active(DoDisconnect(r)) /\ ~Active(DisconnectDone(r))
    BY <2>1, DoDisconnectMakes, DisconnectDoneMakes DEF Active
  <2>3. b \in NodeType
    BY <2>1 DEF NodeType
  <2>4. \/ r.state = "connecting" /\ node' = [node EXCEPT ![a] = DisconnectDone(r)] /\ UNCHANGED <<wire, lost>>
        \/ r.state = "connected" /\ StartTimer(a, DoDisconnect(r), Sent(a, Bye(b), {}))
        \/ /\ r.state \notin {"connecting", "connected"}
           /\ node' = [node EXCEPT ![a] = r] /\ UNCHANGED <<wire, lost>>
    BY <1>4 DEF Disconnect
  <2> HIDE DEF r, b
  <2>5. CASE node' = [node EXCEPT ![a] = DisconnectDone(r)] /\ UNCHANGED <<wire, lost>>
    BY <1>d, <2>2, <2>5
  <2>6. CASE StartTimer(a, DoDisconnect(r), Sent(a, Bye(b), {}))
    BY <1>i, <2>2, <2>3, <2>6
  <2>7. CASE /\ r.state \notin {"connecting", "connected"}
             /\ node' = [node EXCEPT ![a] = r] /\ UNCHANGED <<wire, lost>>
    <3>1. ~Active(r)
      BY <2>7 DEF Active
    <3> QED
      BY <1>d, <2>7, <3>1
  <2> QED
    BY <2>4, <2>5, <2>6, <2>7
<1>5. ASSUME NEW a \in Nodes, ByeTimer(a) PROVE IdInv'
  <2> DEFINE r == node[a]
  <2>1. r \in NodeType /\ r.state = "disconnecting"
    BY <1>5, <1>f DEF ByeTimer, Fits, NodeType
  <2>2. \/ StartTimer(a, NextBye(r), Sent(a, Bye(r), {}))
        \/ \E id \in Ids : StartTimer(a, ConnectCausal(Reconnect(r), id), Sent(a, Bye(r), {}))
        \/ /\ node' = [node EXCEPT ![a] = DisconnectDone(r)] /\ lost' = lost
           /\ wire' = wire \cup Sent(a, Bye(r), {})
    BY <1>5 DEF ByeTimer
  <2> HIDE DEF r
  <2>3. NextBye(r) \in NodeType /\ ~Active(NextBye(r)) /\ ~Active(DisconnectDone(r)) /\ Reconnect(r) \in NodeType
    BY <2>1, NextByeMakes, DisconnectDoneMakes, ReconnectMakes DEF Active
  <2>4. CASE StartTimer(a, NextBye(r), Sent(a, Bye(r), {}))
    BY <1>i, <2>1, <2>3, <2>4
  <2>5. CASE \E id \in Ids : StartTimer(a, ConnectCausal(Reconnect(r), id), Sent(a, Bye(r), {}))
    <3>1. PICK id \in Ids : StartTimer(a, ConnectCausal(Reconnect(r), id), Sent(a, Bye(r), {}))
      BY <2>5
    <3> DEFINE s == ConnectCausal(Reconnect(r), id)
    <3>2. s \in NodeType /\ s.requests = 0 /\ s.seen = 0
      BY <2>3, ConnectCausalMakes
    <3> QED
      BY <1>s, <1>b, <2>1, <3>1, <3>2
  <2>6. CASE /\ node' = [node EXCEPT ![a] = DisconnectDone(r)] /\ lost' = lost
             /\ wire' = wire \cup Sent(a, Bye(r), {})
    BY <1>d, <1>b, <2>1, <2>3, <2>6
  <2> QED
    BY <2>2, <2>4, <2>5, <2>6
<1>6. ASSUME NEW a \in Nodes, Receive(a) PROVE IdInv'
  <2> DEFINE r == node[a]
  <2>1. PICK p \in wire : p.to = a /\
           LET rest == wire \ {p}
           IN  CASE r.state = "connecting" /\ Taken(r, p.packet) ->
                       IF r.starts < MaxStarts
                       THEN \E id \in Ids :
                              /\ node' = DueReplies(a, [node EXCEPT ![a] = StartJoining(r, id)])
                              /\ wire' = DueOn(a, rest)
                       ELSE node' = [node EXCEPT ![a] = DisconnectDone(r)] /\ wire' = rest
                 [] r.state = "connecting" /\ ~Taken(r, p.packet) ->
                       node' = [node EXCEPT ![a] = Seen(r, p.packet)] /\ wire' = rest
                 [] r.state = "connected" ->
                       \E q \in Joined(r, p.packet, p.due) : node' = [node EXCEPT ![a] = q] /\ wire' = rest
                 [] OTHER -> UNCHANGED node /\ wire' = rest
    BY <1>6 DEF Receive
  <2>2. lost' = lost /\ r \in NodeType /\ wire \ {p} \in SUBSET WireType
    BY <1>6, <1>f, <1>w DEF Receive
  <2>3. CASE r.state = "connecting" /\ Taken(r, p.packet) /\ r.starts < MaxStarts
    <3>1. PICK id \in Ids : /\ node' = DueReplies(a, [node EXCEPT ![a] = StartJoining(r, id)])
                            /\ wire' = DueOn(a, wire \ {p})
      BY <2>1, <2>3
    <3> DEFINE s == StartJoining(r, id)
               f == [node EXCEPT ![a] = s]
    <3>2. s \in NodeType /\ s.requests = 0 /\ s.seen = 0
      BY <2>2, StartJoiningMakes
    <3> HIDE DEF s
    <3>3. f \in [Nodes -> NodeType] /\ f[a] = s /\ \A k \in Nodes \ {a} : f[k] = node[k]
      BY <1>t, <3>2 DEF TypeOK
    <3>4. node' = DueReplies(a, f)
      BY <3>1 DEF s
    <3> HIDE DEF f
    <3>5. \A k \in Nodes : /\ Beside(node'[k], f[k])
                           /\ \A w \in f[k].replies : \E v \in node'[k].replies : LaterAnswer(w, v)
      BY <3>3, <3>4, DueRepliesType
    <3>6. \A z \in wire \ {p} : \E q \in wire' : Later(z, q)
      BY <2>2, <3>1, DueOnType
    <3>7. StepOf(a)
      BY <2>1, <2>2, <3>3, <3>5, <3>6 DEF StepOf
    <3>8. RequestsComeBack'
      <4> SUFFICES ASSUME NEW q \in wire', q.packet.type = "whois_request"
                   PROVE  q.from \in q.due /\ q.packet.sender = Zero
        BY DEF RequestsComeBack
      <4>1. PICK z \in wire \ {p} : Later(z, q)
        BY <2>2, <3>1, DueOnType
      <4> QED
        BY <4>1 DEF Later, IdInv, RequestsComeBack
    <3>9. node'[a].requests = 0 /\ node'[a].seen = 0
      BY <3>2, <3>3, <3>5 DEF Beside
    <3> QED
      BY <1>t, <3>7, <3>8, <3>9, FreshOf
  <2>4. CASE r.state = "connecting" /\ Taken(r, p.packet) /\ ~(r.starts < MaxStarts)
    <3>1. node' = [node EXCEPT ![a] = DisconnectDone(r)] /\ wire' = wire \ {p}
      BY <2>1, <2>4
    <3>2. ~Active(DisconnectDone(r))
      BY <2>2, DisconnectDoneMakes DEF Active
    <3> QED
      BY <1>d, <2>1, <2>2, <3>1, <3>2
  <2>5. CASE r.state = "connecting" /\ ~Taken(r, p.packet)
    <3>1. node' = [node EXCEPT ![a] = Seen(r, p.packet)] /\ wire' = wire \ {p}
      BY <2>1, <2>5
    <3> QED
      BY <1>t, <2>1, <2>2, <2>5, <3>1, HearKeepsIds
  <2>6. CASE r.state = "connected"
    <3>1. PICK q \in Joined(r, p.packet, p.due) : node' = [node EXCEPT ![a] = q] /\ wire' = wire \ {p}
      BY <2>1, <2>6
    <3> QED
      BY <1>t, <2>1, <2>2, <2>6, <3>1, ReceiveKeepsIds
  <2>7. CASE r.state \notin {"connecting", "connected"}
    <3>1. node' = [node EXCEPT ![a] = r] /\ wire' = wire \ {p}
      BY <1>t, <2>1, <2>7 DEF TypeOK
    <3>2. ~Active(r)
      BY <2>7 DEF Active
    <3> HIDE DEF r
    <3> QED
      BY <1>d, <2>1, <2>2, <3>1, <3>2
  <2> QED
    BY <2>3, <2>4, <2>5, <2>6, <2>7
<1>7. ASSUME NEW a \in Nodes, WhoisReply(a) PROVE IdInv'
  BY <1>7, <1>t, AnswerKeepsIds
<1>8. CASE Lose
  BY <1>8, LossKeepsIds
<1>9. CASE UNCHANGED vars
  BY <1>9 DEF vars, IdInv, RequestsComeBack, SeesItself, SharingCosts, Share, Costs, Threatened, Doomed,
              OwnPending, Active
<1> QED
  BY <1>1, <1>2, <1>3, <1>4, <1>5, <1>6, <1>7, <1>8, <1>9 DEF Next

\* Two nodes that share an identifier cost as many packets as a node sends requests.
THEOREM SharingIsPaidFor == Spec => [](FitInv /\ IdInv)
<1>1. Init => IdInv
  BY DEF Init, NewNode, IdInv, RequestsComeBack, SeesItself, SharingCosts, Share, Active
<1> QED
  BY <1>1, InitFits, NextFits, NextIds, PTL DEF Spec

\* No more packets are lost than the bound allows.
LEMMA LossIsBounded == FitInv /\ lost <= MaxLost /\ [Next]_vars => (lost <= MaxLost)'
<1> SUFFICES ASSUME FitInv, lost <= MaxLost, [Next]_vars PROVE lost' <= MaxLost
  OBVIOUS
<1>1. CASE Lose
  BY <1>1, CausalLifecycleAssumption DEF Lose, FitInv, TypeOK
<1>2. CASE ~Lose
  <2>1. lost' = lost
    BY <1>2 DEF Next, vars, Connect, Step, Reset, Disconnect, ByeTimer, Receive, WhoisReply, StartTimer
  <2> QED
    BY <2>1
<1> QED
  BY <1>1, <1>2

\* When fewer packets are lost than a node sends requests before it joins, two
\* nodes in the group never have the same identifier, whoever joins, leaves or
\* is reset at the same time.
THEOREM IdentifiersStayUnique ==
    ASSUME MaxLost < Requests PROVE Spec => []UniqueIdentifiers
<1>1. Init => lost <= MaxLost
  BY CausalLifecycleAssumption DEF Init
<1>2. FitInv /\ IdInv /\ lost <= MaxLost => UniqueIdentifiers
  <2> SUFFICES ASSUME FitInv, IdInv, lost <= MaxLost, NEW m \in Nodes, NEW n \in Nodes,
                      node[m].state = "connected", node[n].state = "connected",
                      node[m].id = node[n].id, m # n
               PROVE  FALSE
    BY DEF UniqueIdentifiers
  <2>1. Share(m, n)
    BY DEF Share, Active
  <2>2. lost >= node[m].requests \/ lost >= node[n].requests
    BY <2>1 DEF IdInv, SharingCosts, Costs, Doomed
  <2>3. /\ node[m].requests >= Requests /\ node[n].requests >= Requests
        /\ node[m].requests \in Nat /\ node[n].requests \in Nat /\ lost \in Nat
    BY DEF FitInv, TypeOK, NodeType, Fits
  <2> QED
    BY <2>2, <2>3, CausalLifecycleAssumption
<1> QED
  BY <1>1, <1>2, LifeCycle, SharingIsPaidFor, LossIsBounded, PTL DEF Spec
=============================================================================
