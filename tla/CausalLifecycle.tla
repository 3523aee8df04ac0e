--------------------------- MODULE CausalLifecycle ---------------------------
(***************************************************************************)
(* How nodes enter and leave a multicast group: the causal transport picks  *)
(* an identifier, asks three times whether somebody has it, joins, says BYE  *)
(* three times, and on a reset of the transport above does it all again      *)
(* (gibber-r-multicast-causal-transport.c, gibber-r-multicast-transport.c,   *)
(* gibber-transport.c).  What a node sends comes back to it.                *)
(*                                                                         *)
(* Time: a packet and the answer to it arrive before a join or BYE timer     *)
(* that was started after the packet was sent (MAX_WHOIS_REPLY_TIMEOUT is    *)
(* 200 ms, ACTIVE_JOIN_INTERVAL 250 ms).  "due" says which nodes' timers a   *)
(* packet or a reply under way comes before.  Packets to others may be lost. *)
(***************************************************************************)
EXTENDS Integers, FiniteSets, TLC

CONSTANTS
    Nodes,
    Ids,            \* identifiers, not 0
    Requests,       \* NR_JOIN_REQUESTS_TO_SEND
    Byes,           \* NR_BYE_TO_SEND
    MaxLost,        \* bound: packets lost
    MaxStarts,      \* bound: start_joining of a node, which then gives up
    Resettable      \* bound: nodes that may be reset, once each

ASSUME CausalLifecycleAssumption ==
    /\ Ids \subseteq Nat \ {0} /\ Requests \in Nat \ {0} /\ Byes \in Nat \ {0}
    /\ {MaxLost, MaxStarts} \subseteq Nat /\ Resettable \subseteq Nodes

VARIABLES
    node,       \* node[n]: both transports of n
    wire,       \* packets under way, each to one node
    lost        \* packets lost

vars == <<node, wire, lost>>

Zero == 0   \* the sender of a WHOIS_REQUEST of a node without an identifier

\* gibber_r_multicast_causal_transport_init, gibber_r_multicast_transport_init
NewNode ==
    [state |-> "disconnected",       \* of the causal transport
     id |-> Zero, self |-> Zero,     \* sender_id, and the id of priv->self
     timer |-> "none", requests |-> 0, seen |-> 0, byes |-> 0, resetting |-> FALSE,
     known |-> {},                   \* other senders of the group whose name is known
     replies |-> {},                 \* [id, due]: whois_timer of a sender of the group
     upper |-> "disconnected",       \* state of the transport above
     mode |-> "normal",              \* its priv->state
     starts |-> 0, resettable |-> TRUE]

Init == node = [n \in Nodes |-> NewNode] /\ wire = {} /\ lost = 0

-----------------------------------------------------------------------------
(* Sending *)

\* The socket of the multicast transport is open.
Listening(r) == r.state # "disconnected"

Packet(type, sender, asked, nr) == [type |-> type, sender |-> sender, asked |-> asked, nr |-> nr]

\* sendout_packet, gibber_multicast_transport_send: to every node of the group.
Sent(n, p, due) == {[to |-> m, from |-> n, packet |-> p, due |-> due] :
                        m \in {k \in Nodes : Listening(node[k])} \cup {n}}

\* g_timeout_add of n: what is under way comes first.
DueOn(n, packets) == {[p EXCEPT !.due = @ \cup {n}] : p \in packets}
DueReplies(n, f) ==
    [m \in Nodes |-> [f[m] EXCEPT !.replies = {[w EXCEPT !.due = @ \cup {n}] : w \in @}]]

\* The timer of n may end.
Quiet(n) ==
    /\ \A p \in wire : n \notin p.due
    /\ \A m \in Nodes : \A w \in node[m].replies : n \notin w.due

\* n is r from now on, its timer starts, and it has sent the packets.
StartTimer(n, r, packets) ==
    /\ node' = DueReplies(n, [node EXCEPT ![n] = r])
    /\ wire' = DueOn(n, wire \cup packets)
    /\ UNCHANGED lost

-----------------------------------------------------------------------------
(* Joining *)

\* start_joining
StartJoining(r, id) ==
    [r EXCEPT !.id = id, !.requests = 0, !.seen = 0, !.timer = "join", !.starts = @ + 1]

\* gibber_r_multicast_causal_transport_connect
ConnectCausal(r, id) == StartJoining([r EXCEPT !.state = "connecting"], id)

\* gibber_muc_connection_connect
Connect(n) ==
    /\ node[n].state = "disconnected" /\ node[n].starts = 0
    /\ \E id \in Ids : StartTimer(n, ConnectCausal([node[n] EXCEPT !.mode = "normal"], id), {})

\* connected; its handlers are gibber_r_multicast_transport_connect the first
\* time and transport_reconnected after a reset.
Connected(r) ==
    [r EXCEPT !.state = "connected", !.self = r.id, !.timer = "session",
              !.upper = "connected", !.mode = "normal"]

\* next_join_step
Step(n) ==
    LET r == node[n]
    IN  /\ r.state = "connecting" /\ r.timer = "join" /\ Quiet(n)
        /\ IF r.requests < Requests
           THEN StartTimer(n, [r EXCEPT !.requests = @ + 1],
                           Sent(n, Packet("whois_request", Zero, r.id, r.requests + 1), {}))
           ELSE StartTimer(n, Connected(r), Sent(n, Packet("whois_reply", r.id, Zero, 0), {}))

\* joining_multicast_receive: what makes the node pick another identifier
Probed(r, p) == p.sender = Zero /\ r.requests < r.seen + 1
TakenByMembers(r, p) ==
    \/ p.sender = r.id
    \/ p.type = "whois_request" /\ p.asked = r.id /\ p.sender # Zero
Taken(r, p) ==
    \/ p.sender = r.id
    \/ p.type = "whois_request" /\ p.asked = r.id /\ (p.sender # Zero \/ Probed(r, p))

Seen(r, p) == IF p.type = "whois_request" /\ p.asked = r.id /\ p.sender = Zero
              THEN [r EXCEPT !.seen = @ + 1] ELSE r

-----------------------------------------------------------------------------
(* Leaving *)

Bye(r) == Packet("bye", r.self, Zero, r.byes + 1)

\* send_next_bye while more are to come
NextBye(r) == [r EXCEPT !.byes = @ + 1, !.timer = "bye"]

\* do_disconnect, gibber_r_multicast_sender_group_stop: nobody is answered.
\* send_next_bye follows at once.
DoDisconnect(r) == [r EXCEPT !.state = "disconnecting", !.replies = {}, !.byes = 1, !.timer = "bye"]

\* disconnect_done, transport_disconnected
DisconnectDone(r) ==
    [r EXCEPT !.state = "disconnected", !.self = Zero, !.timer = "none", !.upper = "disconnected",
              !.known = {}, !.replies = {}]

\* gibber_r_multicast_transport_reset: the transport above is excluded.
Reset(n) ==
    LET r == node[n]
    IN  /\ r.state = "connected" /\ r.mode = "normal" /\ r.upper = "connected"
        /\ n \in Resettable /\ r.resettable /\ r.starts < MaxStarts
        /\ StartTimer(n, DoDisconnect([r EXCEPT !.mode = "resetting", !.resetting = TRUE, !.resettable = FALSE]),
                      Sent(n, Bye([r EXCEPT !.byes = 0]), {}))

\* gibber_muc_connection_disconnect, gibber_r_multicast_transport_disconnect
LeavingLater(r) == [r EXCEPT !.mode = "disconnected", !.upper = "disconnecting"]
Leaving(r) == [r EXCEPT !.mode = "disconnected", !.upper = "disconnecting", !.resetting = FALSE]
Disconnect(n) ==
    LET r == Leaving(node[n])
    IN  /\ node[n].state # "disconnected" /\ node[n].upper # "disconnecting"
        /\ CASE r.state = "connecting" ->
                  node' = [node EXCEPT ![n] = DisconnectDone(r)] /\ UNCHANGED <<wire, lost>>
             [] r.state = "connected" -> StartTimer(n, DoDisconnect(r), Sent(n, Bye([r EXCEPT !.byes = 0]), {}))
             [] OTHER -> node' = [node EXCEPT ![n] = r] /\ UNCHANGED <<wire, lost>>

\* send_next_bye: the last one is followed by reconnect or by disconnect_done.
ReconnectStillResetting(r) == [r EXCEPT !.known = {}, !.replies = {}]
Reconnect(r) == [r EXCEPT !.resetting = FALSE, !.known = {}, !.replies = {}]
ByeTimer(n) ==
    LET r == node[n]
    IN  /\ r.timer = "bye" /\ Quiet(n)
        /\ IF r.byes + 1 < Byes
           THEN StartTimer(n, NextBye(r), Sent(n, Bye(r), {}))
           ELSE IF r.resetting
           THEN \E id \in Ids :
                    StartTimer(n, ConnectCausal(Reconnect(r), id), Sent(n, Bye(r), {}))
           ELSE /\ node' = [node EXCEPT ![n] = DisconnectDone(r)]
                /\ wire' = wire \cup Sent(n, Bye(r), {})
                /\ UNCHANGED lost

-----------------------------------------------------------------------------
(* Receiving *)

\* gibber_r_multicast_sender_group_push_packet: the sender that a request is
\* about, if the group has it
Has(r, p) == p.asked \in {r.self} \cup r.known

\* gibber_r_multicast_sender_whois_push: a sender with a name answers later,
\* once; an answer that waits already is sent no later for the new request.
Answer(r, p, due) ==
    LET same == {w \in r.replies : w.id = p.asked}
        reply == [id |-> p.asked, due |-> due \cup UNION {w.due : w \in same}]
    IN  IF Has(r, p) THEN [r EXCEPT !.replies = (@ \ same) \cup {reply}] ELSE r

\* joined_multicast_receive.  Whether the transport above makes a sender of
\* whoever told its name is not decided here.
Joined(r, p, due) ==
    CASE p.type = "whois_request" -> {Answer(r, p, due)}
      [] p.type = "whois_reply" /\ p.sender # r.id ->
            LET q == [r EXCEPT !.replies = {w \in @ : w.id # p.sender}]
            IN  {q, [q EXCEPT !.known = @ \cup {p.sender}]}
      [] p.type = "bye" /\ p.sender # r.id -> {[r EXCEPT !.known = @ \ {p.sender}]}
      [] OTHER -> {r}

\* r_multicast_receive
Receive(n) ==
    \E p \in wire :
        /\ p.to = n
        /\ LET r == node[n]
               rest == wire \ {p}
           IN  CASE r.state = "connecting" /\ Taken(r, p.packet) ->
                       IF r.starts < MaxStarts
                       THEN \E id \in Ids :
                              /\ node' = DueReplies(n, [node EXCEPT ![n] = StartJoining(r, id)])
                              /\ wire' = DueOn(n, rest)
                       ELSE node' = [node EXCEPT ![n] = DisconnectDone(r)] /\ wire' = rest
                 [] r.state = "connecting" /\ ~Taken(r, p.packet) ->
                       node' = [node EXCEPT ![n] = Seen(r, p.packet)] /\ wire' = rest
                 [] r.state = "connected" ->
                       \E q \in Joined(r, p.packet, p.due) : node' = [node EXCEPT ![n] = q] /\ wire' = rest
                 [] OTHER -> UNCHANGED node /\ wire' = rest
        /\ UNCHANGED lost

\* do_whois_reply, whois_reply_cb
WhoisReply(n) ==
    \E w \in node[n].replies :
        /\ node' = [node EXCEPT ![n].replies = @ \ {w}]
        /\ wire' = wire \cup Sent(n, Packet("whois_reply", w.id, Zero, 1), w.due)
        /\ UNCHANGED lost

Lose ==
    /\ lost < MaxLost /\ lost' = lost + 1
    /\ \E p \in wire : p.to # p.from /\ wire' = wire \ {p}
    /\ UNCHANGED node

Next ==
    \/ \E n \in Nodes :
          \/ Connect(n) \/ Step(n) \/ Reset(n) \/ Disconnect(n) \/ ByeTimer(n)
          \/ Receive(n) \/ WhoisReply(n)
    \/ Lose

Spec == Init /\ [][Next]_vars

\* Timers end and packets arrive or are lost; nobody has to leave.
FairSpec == Spec /\ \A n \in Nodes : WF_vars(ByeTimer(n)) /\ WF_vars(Receive(n)) /\ WF_vars(WhoisReply(n))

-----------------------------------------------------------------------------
(* Properties *)

\* Two nodes that are in the group never have the same identifier.
UniqueIdentifiers ==
    \A m, n \in Nodes :
        node[m].state = "connected" /\ node[n].state = "connected" /\ node[m].id = node[n].id => m = n

\* The life cycles of both transports fit: whoever above is connected and in
\* its normal mode can send, and a BYE or an answer never lacks priv->self.
StatesFit ==
    \A n \in Nodes :
        LET r == node[n]
        IN  /\ r.upper = "connected" /\ r.mode = "normal" => r.state = "connected" /\ r.self = r.id
            /\ r.timer = "bye" => r.self # Zero /\ r.state = "disconnecting"
            /\ r.resetting => r.mode = "resetting" /\ r.state = "disconnecting"

\* Who leaves is out in the end, even if it was being reset.
LeavingEnds == \A n \in Nodes : node[n].upper = "disconnecting" ~> node[n].upper = "disconnected"
=============================================================================
