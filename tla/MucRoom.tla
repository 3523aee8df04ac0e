------------------------------- MODULE MucRoom -------------------------------
(***************************************************************************)
(* One chat room of one client: the manager that answers requests for it    *)
(* (muc-manager.c), the text channel with its members and its tubes          *)
(* (muc-channel.c) and the connection to the multicast group                *)
(* (gibber-muc-connection.c), whose transports CausalLifecycle and          *)
(* Membership model.                                                       *)
(*                                                                         *)
(* A tube is named after the request for it or after the contact that       *)
(* offers it, and so is its place in memory, which a later tube may take.   *)
(* Clients only use channels they were told of.                             *)
(***************************************************************************)
EXTENDS Naturals, FiniteSets, TLC

CONSTANTS
    Contacts,
    Texts,          \* requests for the text channel
    Creates,        \* those of them that want a new one
    TubeRequests,
    Streams,        \* those of them for stream tubes
    MaxRooms        \* bound: text channels made

ASSUME MucRoomAssumption ==
    /\ Creates \subseteq Texts /\ Streams \subseteq TubeRequests
    /\ MaxRooms \in Nat
    /\ "text" \notin TubeRequests \cup Contacts
    /\ Texts \cap TubeRequests = {} /\ 0 \notin TubeRequests

Requests == Texts \cup TubeRequests
Tubes == TubeRequests \cup Contacts
Text == "text"
Nowhere == 0
None == "none"
Places == 1..MaxRooms   \* where text channels lie in memory
NoRoom == [conn |-> "none"]

VARIABLES
    room,       \* the text channel, or NoRoom
    queued,     \* queued_requests: the place of the channel that q waits for, or Nowhere
    needed,     \* text_needed_for_tube: tubes that wait for the text channel at a place
    sending,    \* invitations under way, and the place of the channel that sends them
    asked,      \* requests made
    answers,    \* answers[q]: answers that q got
    shown,      \* channels announced and not closed
    online,     \* the account is connected
    rooms,      \* text channels made
    fault       \* the freed object that was used: None, "tube" or "channel"

vars == <<room, queued, needed, sending, asked, answers, shown, online, rooms, fault>>

\* salut_muc_channel_init, _constructed.  self: where the group mixin has us.
NewRoom(at, conn, creator, registered, self) ==
    [at |-> at,          \* its place in memory, perhaps that of a room that is gone
     conn |-> conn,      \* state of the GibberMucConnection
     \* calls of salut_muc_channel_connect, 2: or more
     handlers |-> IF conn = "disconnected" THEN 0 ELSE 1,
     creator |-> creator, registered |-> registered,
     ready |-> FALSE, timer |-> FALSE, autoclose |-> FALSE,
     self |-> self, members |-> {}, senders |-> {}, invited |-> {}, tubes |-> {}]

Exists == room.conn # "none"

Init ==
    /\ room = NoRoom /\ asked = {} /\ answers = [q \in Requests |-> 0]
    /\ queued = [q \in Requests |-> Nowhere] /\ needed = [p \in Places |-> {}] /\ sending = {}
    /\ shown = {} /\ online = TRUE /\ rooms = 0 /\ fault = None

-----------------------------------------------------------------------------

\* tp_channel_manager_emit_new_channel, _request_failed, _already_satisfied
Answer(qs) == answers' = [q \in Requests |-> IF q \in qs THEN answers[q] + 1 ELSE answers[q]]

\* The requests that wait for the text channel at p, or for a tube in its list.
TextWaiters(p) == {q \in Texts : queued[q] = p}
TubeWaiters(p) == {q \in TubeRequests : queued[q] \in needed[p]}

\* The entries of the manager for the channel at p are looked up and removed.
\* It reads every tube in the list, one that was freed too.
ForgetNobody(qs) == queued
Forget(qs) == [q \in Requests |-> IF q \in qs THEN Nowhere ELSE queued[q]]
ServeWaiters(r) ==
    /\ queued' = Forget(TextWaiters(r.at) \cup TubeWaiters(r.at))
    /\ needed' = [needed EXCEPT ![r.at] = {}]
    /\ fault' = IF needed[r.at] \subseteq r.tubes THEN fault ELSE "tube"

\* salut_muc_channel_add_self_to_members
AddSelf(r) == [r EXCEPT !.ready = TRUE, !.timer = FALSE, !.self = "member"]

\* muc_channel_ready_cb: a channel that is not on the bus is not announced, and
\* who asked for it is forgotten.
BecomeReady(r) ==
    /\ room' = AddSelf(r)
    /\ Answer(TubeWaiters(r.at) \cup IF r.registered THEN TextWaiters(r.at) ELSE {})
    /\ shown' = shown \cup needed[r.at] \cup IF r.registered THEN {Text} ELSE {}
    /\ ServeWaiters(r)

\* muc_channel_closed_cb, salut_muc_channel_dispose: the tubes close with it.
\* Its entries in the tables of the manager stay, and so do the invitations.
Destroy == room' = NoRoom /\ shown' = {}

\* muc_channel_join_error_cb
JoinError(r) ==
    Answer(TextWaiters(r.at) \cup TubeWaiters(r.at)) /\ ServeWaiters(r) /\ Destroy

-----------------------------------------------------------------------------
(* Requests and invitations *)

Asks(q) == online /\ q \notin asked /\ asked' = asked \cup {q} /\ UNCHANGED <<online, sending, fault>>
MakeRoom == rooms < MaxRooms /\ rooms' = rooms + 1

\* salut_muc_manager_request_new_muc_channel: the room is on the network or
\* not, and we join at once.
JoinedRooms(registered) ==
    {NewRoom(at, "connecting", creator, registered, "remote") : at \in 1..(rooms + 1), creator \in BOOLEAN}

\* associate_channel_to_data
Queue(q, place) == queued' = [queued EXCEPT ![q] = place]

\* salut_muc_manager_request of a text channel.  When the group cannot be
\* joined the request is not answered.
RequestText(q) ==
    /\ Asks(q) /\ UNCHANGED needed
    /\ \/ /\ ~Exists /\ MakeRoom /\ UNCHANGED <<answers, shown>>
          /\ \/ \E r \in JoinedRooms(TRUE) : room' = r /\ Queue(q, r.at)
             \/ UNCHANGED <<room, queued>>
       \/ /\ Exists /\ UNCHANGED rooms
          /\ IF room.registered \* satisfied already, or failed if q wants a new one
             THEN Answer({q}) /\ UNCHANGED <<room, queued, shown>>
             ELSE /\ room' = [room EXCEPT !.registered = TRUE]
                  /\ IF room.ready
                     THEN Answer({q}) /\ shown' = shown \cup {Text} /\ UNCHANGED queued
                     ELSE Queue(q, room.at) /\ UNCHANGED <<answers, shown>>

\* handle_tube_channel_request on a room that is not ready: the tube lies at t.
ShowTube(r, t) == [r EXCEPT !.tubes = @ \cup {t}]
NeedsNothing(r, t) == needed
Needs(r, t) == [needed EXCEPT ![r.at] = @ \cup {t}]
QueueTube(r, q, t) == room' = ShowTube(r, t) /\ Queue(q, t) /\ needed' = Needs(r, t)

\* Where a new tube may lie: a place of its own or one of the same kind that
\* was freed (an object of another size does not fit).
Freed(q, tubes) == {t \in (asked \cap TubeRequests) \ tubes : t \in Streams <=> q \in Streams}
TubePlaces(q, tubes) == {q} \cup Freed(q, tubes)

RequestTube(q) ==
    /\ Asks(q)
    /\ \/ /\ ~Exists /\ MakeRoom /\ UNCHANGED shown
          /\ \/ /\ \E r \in JoinedRooms(FALSE), t \in TubePlaces(q, {}) : QueueTube(r, q, t)
                /\ UNCHANGED answers
             \/ Answer({q}) /\ UNCHANGED <<room, queued, needed>>
       \/ /\ Exists /\ UNCHANGED rooms
          /\ \E t \in TubePlaces(q, room.tubes) :
                IF room.ready
                THEN /\ room' = ShowTube(room, t) /\ Answer({q}) /\ shown' = shown \cup {t}
                     /\ UNCHANGED <<queued, needed>>
                ELSE QueueTube(room, q, t) /\ UNCHANGED <<answers, shown>>

\* salut_muc_channel_invited
InvitedTo(r) == [r EXCEPT !.self = IF @ = "member" THEN @ ELSE "local"]

\* invite_stanza_callback
Invited ==
    /\ online /\ UNCHANGED <<asked, answers, online, queued, needed, sending, fault>>
    /\ \/ /\ ~Exists /\ MakeRoom /\ shown' = shown \cup {Text}
          /\ \E at \in 1..(rooms + 1) : room' = NewRoom(at, "disconnected", FALSE, TRUE, "local")
       \/ Exists /\ room' = InvitedTo(room) /\ UNCHANGED <<shown, rooms>>

-----------------------------------------------------------------------------
(* The group *)

UsesUnannounced(channel) == Exists /\ channel \in shown \cup room.tubes
Uses(channel) == Exists /\ channel \in shown
Still == UNCHANGED <<asked, online, rooms, sending>>
NothingServed == UNCHANGED <<answers, queued, needed, fault>>
Only == Still /\ NothingServed

\* salut_muc_channel_connect
Connect(r) ==
    [r EXCEPT !.handlers = IF @ < 2 THEN @ + 1 ELSE @,
              !.conn = IF @ = "disconnected" THEN "connecting" ELSE @]

\* salut_muc_channel_add_member of ourselves.  If the group cannot be joined
\* the connection says disconnected.
Accept ==
    /\ Uses(Text) /\ room.self = "local" /\ Still
    /\ \/ /\ room' = [Connect(room) EXCEPT !.self = "remote"]
          /\ NothingServed /\ UNCHANGED shown
       \/ room.conn = "disconnected" /\ JoinError(room)

\* _rmtransport_connected_cb, muc_connection_connected_cb
WaitWithoutTimer(r) == r
AwaitSenders(r) == [r EXCEPT !.timer = TRUE]
Connected ==
    /\ Exists /\ room.conn = "connecting" /\ Still
    /\ LET r == [room EXCEPT !.conn = "connected"]
       IN  IF r.creator THEN BecomeReady(r)
           ELSE room' = AwaitSenders(r) /\ NothingServed /\ UNCHANGED shown

\* connected_timeout_cb
SendersTimeout == Exists /\ room.timer /\ BecomeReady(room) /\ Still

\* salut_muc_channel_new_senders, salut_muc_channel_add_members
NewSender(c) ==
    /\ Exists /\ room.conn = "connected" /\ c \notin room.senders /\ Still
    /\ LET r == [room EXCEPT !.members = @ \cup {c}, !.senders = @ \cup {c}, !.invited = @ \ {c}]
       IN  IF r.self # "member" THEN BecomeReady(r)
           ELSE room' = r /\ NothingServed /\ UNCHANGED shown

\* salut_muc_channel_lost_senders, salut_muc_channel_remove_members
LostSender(c) ==
    /\ Exists /\ room.conn = "connected" /\ c \in room.senders /\ Only
    /\ room' = [room EXCEPT !.members = @ \ {c}, !.senders = @ \ {c}] /\ UNCHANGED shown

\* salut_muc_channel_add_member of a contact, salut_muc_channel_send_invitation
Invite(c) ==
    /\ Uses(Text) /\ room.conn # "disconnected" /\ c \notin room.members \cup room.invited
    /\ room' = [room EXCEPT !.invited = @ \cup {c}] /\ sending' = sending \cup {<<c, room.at>>}
    /\ NothingServed /\ UNCHANGED <<asked, online, rooms, shown>>

\* send_invite_cb of the channel at p: it is gone, or is the room there by now.
InviteSent(c, p) ==
    /\ <<c, p>> \in sending /\ sending' = sending \ {<<c, p>>}
    /\ UNCHANGED <<asked, online, rooms, shown, answers, queued, needed>>
    /\ IF Exists /\ room.at = p
       THEN /\ room' \in {room, [room EXCEPT !.invited = @ \ {c}, !.members = @ \ {c}]}
            /\ UNCHANGED fault
       ELSE fault' = "channel" /\ UNCHANGED room

\* salut_muc_channel_received_stanza, muc_channel_handle_tubes: a hidden room
\* reappears.  A tube of the sender is seen unless a stream tube is here.
ReceiveStanza(c) ==
    /\ Exists /\ room.conn = "connected" /\ c \in room.senders /\ Only
    /\ LET r == [room EXCEPT !.registered = TRUE, !.autoclose = FALSE]
       IN  \/ room' = r /\ shown' = shown \cup {Text}
           \/ /\ r.tubes \cap (Streams \cup {c}) = {}
              /\ room' = ShowTube(r, c) /\ shown' = shown \cup {Text, c}

-----------------------------------------------------------------------------
(* Closing *)

\* salut_muc_channel_can_be_closed
CanBeClosed(r) == r.tubes = {}

\* salut_muc_channel_close.  Only the first BYE of the group gets out.
Close(r) ==
    IF ~CanBeClosed(r)
    THEN room' = [r EXCEPT !.autoclose = TRUE, !.registered = FALSE] /\ shown' = shown \ {Text}
    ELSE Destroy
CloseText == Uses(Text) /\ Close(room) /\ Only

\* salut_muc_channel_leave, gibber_muc_connection_disconnect
Leave ==
    /\ Uses(Text) /\ Only
    /\ IF room.ready THEN room' = [room EXCEPT !.conn = "disconnecting"] /\ UNCHANGED shown
       ELSE Destroy

\* _transport_disconnected_cb, salut_muc_channel_disconnected
Left == Exists /\ room.conn = "disconnecting" /\ Destroy /\ Only

\* tube_closed_cb of the channel, then muc_channel_tube_closed_cb of the manager
AutoclosesFirst(before, after) == CanBeClosed(before) /\ before.autoclose
Autocloses(before, after) == CanBeClosed(after) /\ after.autoclose
CloseTube(t) ==
    /\ Uses(t) /\ t \in room.tubes /\ room.conn = "connected" /\ Only
    /\ LET r == [room EXCEPT !.tubes = @ \ {t}]
       IN  IF Autocloses(room, r) THEN Destroy ELSE room' = r /\ shown' = shown \ {t}

\* salut_muc_manager_close_all
GoOffline ==
    /\ online /\ online' = FALSE /\ UNCHANGED <<asked, rooms, sending, fault>>
    /\ Answer({q \in Requests : queued[q] # Nowhere}) /\ Destroy
    /\ queued' = [q \in Requests |-> Nowhere] /\ needed' = [p \in Places |-> {}]

Step ==
    \/ \E q \in Texts : RequestText(q)
    \/ \E q \in TubeRequests : RequestTube(q)
    \/ Invited \/ Accept \/ Connected \/ SendersTimeout
    \/ \E c \in Contacts :
          NewSender(c) \/ LostSender(c) \/ Invite(c) \/ ReceiveStanza(c)
    \/ \E c \in Contacts, p \in Places : InviteSent(c, p)
    \/ CloseText \/ Leave \/ Left \/ GoOffline
    \/ \E t \in Tubes : CloseTube(t)

\* After the use of a freed object anything may happen; nothing more is said.
Running == fault = None
Next == Running /\ Step

Spec == Init /\ [][Next]_vars

\* The group is joined and left in the end (CausalLifecycle), timers end.
FairSpec ==
    /\ Spec /\ WF_vars(Running /\ Connected)
    /\ WF_vars(Running /\ SendersTimeout) /\ WF_vars(Running /\ Left)

-----------------------------------------------------------------------------
(* Properties *)

\* A request is answered at most once, whatever happens to the room: also when
\* the room goes while it waits, and another room at the same place, or the end
\* of the connection, answers what is left in the tables of the manager.
AnsweredOnce == \A q \in Requests : answers[q] <= 1

\* What clients were told of is there: no channel of a room that is gone, no
\* tube before the room is joined, the room itself as soon as it is joined
\* and not hidden; and a room its user closed stays hidden only for its tubes.
\* It holds until a tube that was freed with an earlier room is announced.
BusMatchesRoom ==
    Running =>
      /\ ~Exists => shown = {}
      /\ Exists =>
          /\ shown \ {Text} \subseteq room.tubes
          /\ shown \cap Tubes # {} => room.ready
          /\ Text \in shown => room.registered
          /\ room.ready => shown = room.tubes \cup IF room.registered THEN {Text} ELSE {}
          /\ room.autoclose => room.tubes # {}

\* The tubes of the first room are there when it is ready to announce them, for
\* nobody can close them before: a freed tube is only used in a later room, when
\* an earlier one at its place went while its tubes waited (muc-manager.c:507-521).
FreedTubesAreEarlier == rooms <= 1 => fault # "tube"

\* Who waits for a room that is being joined gets an answer, or the room was
\* closed before.
WaitsForRoom(q) == Exists /\ q \in TextWaiters(room.at) \cup TubeWaiters(room.at)
WaitingEnds ==
    \A q \in Requests :
        (WaitsForRoom(q) /\ room.conn = "connecting") ~> (~WaitsForRoom(q) \/ ~Running)
=============================================================================
