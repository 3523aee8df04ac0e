------------------------------ MODULE MucTubes ------------------------------
(***************************************************************************)
(* The tubes of one room, at every node of it: how the members tell each    *)
(* other which tubes they are in (muc-channel.c) and how the programs on a  *)
(* D-Bus tube talk (tube-dbus.c, gibber-bytestream-muc.c).  MucRoom has the *)
(* room as one client sees it, CausalGroup the group below: what a node     *)
(* sends reaches each member once and in the order sent, and that is all    *)
(* that is used of it here.                                                *)
(*                                                                         *)
(* The D-Bus name of a node is the node: generate_dbus_unique_name makes it *)
(* from the nick, and every node checks it.                                 *)
(***************************************************************************)
EXTENDS Integers, Sequences, FiniteSets, TLC

CONSTANTS
    Nodes,
    Tubes,          \* ids, which salut_muc_channel_tube_request draws at random
    MaxStreams,     \* bound: who has allocated as many streams closes no tube
    MaxMessages,    \* bound: messages a node sends on a tube
    QueueSize,      \* MAX_QUEUE_SIZE, each message counting 1
    All,            \* destination of a signal
    Scenarios

ASSUME MucTubesAssumption ==
    /\ MaxStreams \in Nat /\ MaxMessages \in Nat /\ QueueSize \in Nat
    /\ Tubes \subseteq Nat /\ IsFiniteSet(Tubes)
    /\ All \notin Nodes
    /\ \A sc \in Scenarios :
           sc \in [owner : UNION {[ts -> Nodes] : ts \in SUBSET Tubes}, streams : SUBSET Tubes,
                   first : SUBSET Nodes, late : SUBSET Nodes, fragile : SUBSET Nodes,
                   closers : SUBSET (Nodes \X Tubes), programs : SUBSET Nodes, talkers : SUBSET Nodes,
                   fickle : SUBSET Nodes, users : SUBSET (Nodes \X Tubes),
                   dests : SUBSET (Nodes \cup {All})]

VARIABLES
    scenario,   \* owner: tubes and who asks for them; streams: the stream tubes; first,
                \* late: who is in the room and who joins later; fragile: who may vanish;
                \* users, closers: who accepts, who closes which tube; programs, talkers,
                \* fickle: where programs connect, speak, hang up; dests: to whom
    joined,     \* nodes that are in the room
    gone,       \* nodes that have left
    met,        \* met[n]: the members of the room, for n
    tubes,      \* tubes[n]: the tubes table of n, by id
    last,       \* last_stream_allocated
    mail,       \* mail[m][n]: what m has sent and n has not handled
    said,       \* said[n][t]: destinations of the messages that n has sent
    closed      \* closed[n]: tubes that n has closed

tubeVars == <<scenario, joined, gone, met, tubes, last, mail, said, closed>>

IsStream(t) == t \in scenario.streams

\* salut_tube_dbus_constructor, gibber_bytestream_muc_init
NewTube(state, stream) ==
    [state |-> state, stream |-> stream,
     names |-> {},              \* dbus_names
     senders |-> <<>>,          \* senders of the bytestream, with their streams
     program |-> "none",        \* dbus_conn: none, on, or hung up
     queue |-> <<>>,            \* dbus_msg_queue
     got |-> <<>>, lost |-> FALSE]  \* what this program was given; the queue was full

TubesInit ==
    /\ scenario \in Scenarios
    /\ joined = scenario.first
    /\ gone = {}
    /\ met = [n \in Nodes |-> IF n \in joined THEN joined ELSE {}]
    /\ tubes = [n \in Nodes |-> <<>>]
    /\ last = [n \in Nodes |-> 0]
    /\ mail = [m \in Nodes |-> [n \in Nodes |-> <<>>]]
    /\ said = [n \in Nodes |-> [t \in Tubes |-> <<>>]]
    /\ closed = [n \in Nodes |-> {}]

-----------------------------------------------------------------------------
(* What a node does to its tables and sends *)

Has(n, t) == t \in DOMAIN tubes[n]
In(n, t) == Has(n, t) /\ tubes[n][t].state = "open"

\* g_hash_table_insert
With(table, t, x) == [u \in DOMAIN table \cup {t} |-> IF u = t THEN x ELSE table[u]]

\* tube_closed_cb, g_hash_table_remove
Without(table, t) == [u \in DOMAIN table \ {t} |-> table[u]]

\* gibber_muc_connection_send, gibber_muc_connection_send_raw: to the other members
Sent(box, n, members, message) ==
    [box EXCEPT ![n] = [m \in Nodes |-> IF m \in members \ {n} THEN Append(@[m], message) ELSE @[m]]]

\* publish_tube_in_node
Publish(tube) == tube.stream

\* update_tube_info: all the tubes n is in, or nothing if one of them is the
\* stream tube of another.
Announce(box, n, members, table) ==
    LET open == {t \in DOMAIN table : table[t].state = "open"}
    IN  IF \E t \in open : IsStream(t) /\ scenario.owner[t] # n THEN box
        ELSE Sent(box, n, members, [kind |-> "tubes", list |-> [t \in open |-> Publish(table[t])]])

\* gibber_muc_connection_new_stream, none of the 65535 being used again
NewStream(n) == last[n] + 1

\* salut_tube_dbus_add_name, gibber_bytestream_muc_add_sender
AddName(tube, m, stream) ==
    [tube EXCEPT !.names = @ \cup {m}, !.senders = With(@, m, stream)]

\* Mutant of RemoveName: only the sender goes.
RemoveSenderOnly(tube, m) == [tube EXCEPT !.senders = Without(@, m)]

\* salut_tube_dbus_remove_name, gibber_bytestream_muc_remove_sender
RemoveName(tube, m) == [tube EXCEPT !.names = @ \ {m}, !.senders = Without(@, m)]

\* muc_channel_handle_tubes: what m is in, and no longer in.  A new tube gets
\* the next stream.  With a stream tube in the table nothing is looked at.
NewOnes(n, list) == {t \in DOMAIN list \ DOMAIN tubes[n] : ~IsStream(t)}
StreamOf(n, t, list) ==
    IF IsStream(t) THEN 0 ELSE last[n] + Cardinality({u \in NewOnes(n, list) : u <= t})
HandleTubes(n, m, list) ==
    IF \E t \in DOMAIN tubes[n] : IsStream(t) THEN tubes[n]
    ELSE [t \in DOMAIN tubes[n] \cup DOMAIN list |->
            LET tube == IF Has(n, t) THEN tubes[n][t]
                        ELSE NewTube("pending", StreamOf(n, t, list))
            IN  IF IsStream(t) THEN tube
                ELSE IF t \notin DOMAIN list THEN RemoveName(tube, m)
                ELSE IF m \in tube.names THEN tube
                ELSE AddName(tube, m, list[t])]

\* message_received without a program
Queue(tube, message) ==
    IF Len(tube.queue) < QueueSize THEN [tube EXCEPT !.queue = Append(@, message)]
    ELSE [tube EXCEPT !.lost = TRUE]

\* message_received: for this node, and from the owner of the name.
Deliver(tube, n, m, message) ==
    IF message.dest \notin {All, n} \/ m \notin tube.names \/ message.from # m THEN tube
    ELSE CASE tube.program = "none" -> Queue(tube, message)
           [] tube.program = "on" -> [tube EXCEPT !.got = Append(@, message)]
           [] OTHER -> tube

\* Mutant of Hears: any stream of the sender is heard.
HearsAnyStream(tube, m, stream) == m \in DOMAIN tube.senders /\ tube.state = "open"

\* muc_connection_received_data_cb: every bytestream hears it; data_received_cb
\* is connected when the tube is open.
Hears(tube, m, stream) ==
    m \in DOMAIN tube.senders /\ tube.senders[m] = stream /\ tube.state = "open"
HandleData(n, m, stream, message) ==
    [t \in DOMAIN tubes[n] |-> IF Hears(tubes[n][t], m, stream)
                               THEN Deliver(tubes[n][t], n, m, message) ELSE tubes[n][t]]

-----------------------------------------------------------------------------
(* The clients *)

Client(n) == n \in joined /\ UNCHANGED <<scenario, joined, gone, met, said>>

\* salut_muc_channel_tube_request, create_new_tube
Request(n, t) ==
    /\ Client(n) /\ t \in DOMAIN scenario.owner /\ scenario.owner[t] = n /\ ~Has(n, t) /\ t \notin closed[n]
    /\ LET stream == IF IsStream(t) THEN 0 ELSE NewStream(n)
       IN  /\ tubes' = [tubes EXCEPT ![n] = With(@, t, NewTube("requested", stream))]
           /\ last' = [last EXCEPT ![n] = IF IsStream(t) THEN @ ELSE NewStream(n)]
    /\ UNCHANGED <<mail, closed>>

\* bytestream_state_changed_cb, tube_opened_cb
Opened(n, t) ==
    [tubes[n] EXCEPT ![t].state = "open", ![t].names = IF IsStream(t) THEN @ ELSE @ \cup {n}]

\* salut_tube_dbus_offer_async, salut_tube_stream_offer_async: not offered yet
Offerable(n, t) == Client(n) /\ Has(n, t) /\ tubes[n][t].state = "requested"

\* salut_tube_dbus_offer, salut_tube_stream_offer: opened, then offered
Offer(n, t) ==
    /\ Offerable(n, t)
    /\ tubes' = [tubes EXCEPT ![n] = Opened(n, t)]
    /\ mail' = Announce(Announce(mail, n, met[n], Opened(n, t)), n, met[n], Opened(n, t))
    /\ UNCHANGED <<last, closed>>

\* salut_tube_dbus_accept_async, salut_tube_stream_accept_async
Acceptable(n, t) ==
    Client(n) /\ <<n, t>> \in scenario.users /\ Has(n, t) /\ tubes[n][t].state = "pending"

\* salut_tube_dbus_accept, salut_tube_stream_accept
Accept(n, t) ==
    /\ Acceptable(n, t)
    /\ tubes' = [tubes EXCEPT ![n] = Opened(n, t)]
    /\ mail' = Announce(mail, n, met[n], Opened(n, t))
    /\ UNCHANGED <<last, closed>>

\* tube_closed_cb
Closed(n, t) ==
    /\ tubes' = [tubes EXCEPT ![n] = Without(@, t)]
    /\ mail' = Announce(mail, n, met[n], Without(tubes[n], t))
    /\ closed' = [closed EXCEPT ![n] = @ \cup {t}]
    /\ UNCHANGED last

\* tube_stream_open cannot listen
AcceptFails(n, t) == Acceptable(n, t) /\ IsStream(t) /\ Closed(n, t)

\* do_close, gibber_bytestream_muc_close
Close(n, t) ==
    /\ Client(n) /\ <<n, t>> \in scenario.closers /\ Has(n, t) /\ ~IsStream(t)
    /\ last[n] < MaxStreams
    /\ Closed(n, t)

-----------------------------------------------------------------------------
(* The programs, each at the D-Bus server of a tube *)

Program(n, t) ==
    n \in joined /\ In(n, t) /\ ~IsStream(t) /\ UNCHANGED <<scenario, joined, gone, met, last, closed>>

\* new_connection_cb: the first program gets what has waited.
Attach(n, t) ==
    /\ Program(n, t) /\ n \in scenario.programs /\ tubes[n][t].program = "none"
    /\ tubes' = [tubes EXCEPT ![n][t].program = "on", ![n][t].got = tubes[n][t].queue,
                              ![n][t].queue = <<>>]
    /\ UNCHANGED <<mail, said>>

\* A program hangs up, and filter_cb gets Disconnected.
HangUp(n, t) ==
    /\ Program(n, t) /\ n \in scenario.fickle /\ tubes[n][t].program = "on"
    /\ tubes' = [tubes EXCEPT ![n][t].program = "hung up"]
    /\ UNCHANGED <<mail, said>>
Disconnected(n, t) ==
    /\ Program(n, t) /\ tubes[n][t].program = "hung up"
    /\ tubes' = [tubes EXCEPT ![n][t].program = "none", ![n][t].got = <<>>, ![n][t].lost = FALSE]
    /\ UNCHANGED <<mail, said>>

\* filter_cb: a message of the program goes to the room, and back to the
\* program if it is for it too.
Say(n, t, dest) ==
    LET message == [from |-> n, tube |-> t, dest |-> dest, number |-> Len(said[n][t]) + 1]
    IN
    /\ Program(n, t) /\ n \in scenario.talkers /\ tubes[n][t].program = "on"
    /\ Len(said[n][t]) < MaxMessages
    /\ said' = [said EXCEPT ![n][t] = Append(@, dest)]
    /\ tubes' = [tubes EXCEPT ![n][t].got = IF dest \in {All, n} THEN Append(@, message) ELSE @]
    /\ mail' = Sent(mail, n, met[n], [kind |-> "data", stream |-> tubes[n][t].stream,
                                      what |-> message])

-----------------------------------------------------------------------------
(* The room *)

Join(n) ==
    /\ n \in scenario.late \ (joined \cup gone)
    /\ joined' = joined \cup {n} /\ met' = [met EXCEPT ![n] = {n}]
    /\ UNCHANGED <<scenario, gone, tubes, last, mail, said, closed>>

\* Mutant of NewSender: who comes late is not told.
NewSenderQuietly(n, m) ==
    /\ n \in joined /\ m \in joined \ met[n]
    /\ met' = [met EXCEPT ![n] = @ \cup {m}]
    /\ UNCHANGED <<scenario, joined, gone, tubes, last, mail, said, closed>>

\* salut_muc_channel_new_senders
NewSender(n, m) ==
    /\ n \in joined /\ m \in joined \ met[n]
    /\ met' = [met EXCEPT ![n] = @ \cup {m}]
    /\ mail' = Announce(mail, n, met[n] \cup {m}, tubes[n])
    /\ UNCHANGED <<scenario, joined, gone, tubes, last, said, closed>>

\* A node vanishes, tubes and all.
Gone(n) ==
    /\ joined' = joined \ {n} /\ gone' = gone \cup {n}
    /\ tubes' = [tubes EXCEPT ![n] = <<>>]
    /\ met' = [met EXCEPT ![n] = {}]
    /\ mail' = [m \in Nodes |-> [mail[m] EXCEPT ![n] = <<>>]]
    /\ UNCHANGED <<scenario, last, said, closed>>
Vanish(n) == n \in joined \cap scenario.fragile /\ Gone(n)

\* salut_muc_channel_lost_senders: the names in the tubes remain.
LostSender(n, m) ==
    /\ n \in joined /\ m \in met[n] \cap gone
    /\ met' = [met EXCEPT ![n] = @ \ {m}]
    /\ mail' = [mail EXCEPT ![m][n] = <<>>]
    /\ UNCHANGED <<scenario, joined, gone, tubes, last, said, closed>>

\* What m sent first arrives at n, who knows m.
Arrives(n, m, kind) ==
    /\ n \in joined /\ m \in met[n] /\ mail[m][n] # <<>> /\ Head(mail[m][n]).kind = kind

Read(n, m) ==
    mail' = [mail EXCEPT ![m][n] = Tail(@)] /\ UNCHANGED <<scenario, joined, gone, met, said, closed>>

\* salut_muc_channel_received_stanza
ReceiveTubes(n, m) ==
    /\ Arrives(n, m, "tubes") /\ Read(n, m)
    /\ LET list == Head(mail[m][n]).list
           table == HandleTubes(n, m, list)
           new == NewOnes(n, list) \cap DOMAIN table
       IN  /\ tubes' = [tubes EXCEPT ![n] = table]
           /\ last' = [last EXCEPT ![n] = @ + Cardinality(new)]

\* _connection_received_data, on a stream
ReceiveData(n, m) ==
    /\ Arrives(n, m, "data") /\ Read(n, m)
    /\ LET d == Head(mail[m][n])
       IN  tubes' = [tubes EXCEPT ![n] = HandleData(n, m, d.stream, d.what)]
    /\ UNCHANGED last

\* The bytestream of a closed tube is freed but still hears: anything may come of it.
FreedHears(n, m) ==
    /\ Arrives(n, m, "data") /\ \E t \in closed[n] : ~IsStream(t)
    /\ Gone(n)

-----------------------------------------------------------------------------

RoomStep ==
    \E n, m \in Nodes :
        NewSender(n, m) \/ LostSender(n, m) \/ ReceiveTubes(n, m) \/ ReceiveData(n, m)

ClientStep ==
    \E n \in Nodes, t \in Tubes :
        \/ Request(n, t) \/ Offer(n, t) \/ Accept(n, t) \/ AcceptFails(n, t)
        \/ Close(n, t)
        \/ Attach(n, t) \/ HangUp(n, t) \/ Disconnected(n, t)
        \/ \E dest \in scenario.dests : Say(n, t, dest)

-----------------------------------------------------------------------------

\* Stream ids and names keep the tubes of a room apart on one ordered group: what
\* a program was given since it connected was said on its tube, to it or to
\* all, and, node by node, in order, once, and without a gap unless
\* MAX_QUEUE_SIZE was reached before the program came.  In rooms with a stream tube
\* gaps are possible: who has one in its table does not look at what the others are in
\* (muc_channel_handle_tubes), and may miss that a tube was closed and asked for again.
MessagesInOrder ==
    \A n \in Nodes : \A t \in DOMAIN tubes[n] :
        LET got == tubes[n][t].got
            Given(m) == {got[i].number : i \in {j \in DOMAIN got : got[j].from = m}}
        IN
        /\ \A i \in DOMAIN got : got[i].tube = t /\ got[i].dest \in {All, n}
        /\ \A i, j \in DOMAIN got :
               i < j /\ got[i].from = got[j].from =>
                  /\ got[i].number < got[j].number
                  /\ \/ tubes[n][t].lost \/ scenario.streams # {}
                     \/ \A k \in got[i].number .. got[j].number :
                            said[got[i].from][t][k] \in {All, n} => k \in Given(got[i].from)

\* Announcements, meetings and closings cross; in the end every node knows who is
\* in a D-Bus tube: nobody who is not, and everybody who is unless it closed the tube
\* itself.  Rooms with a stream tube are left out: update_tube_info and
\* muc_channel_handle_tubes then return early.  So are nodes that have vanished.
NamesConverge ==
    <>[](scenario.streams = {} =>
            \A n \in joined : \A m \in joined \ {n} : \A t \in Tubes :
                /\ Has(n, t) /\ m \in tubes[n][t].names => In(m, t)
                /\ In(m, t) /\ t \notin closed[n] => Has(n, t) /\ m \in tubes[n][t].names)

=============================================================================
