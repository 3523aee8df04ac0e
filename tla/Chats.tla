------------------------------- MODULE Chats -------------------------------
(***************************************************************************)
(* The text chats of one client with its contacts: the manager that opens a *)
(* channel for a request or for any message (im-manager.c), the channel      *)
(* that sends and receives (im-channel.c) and what becomes of a text on the  *)
(* way (text-helper.c).  A contact stays while a chat has it.               *)
(*                                                                         *)
(* A line is what its writer meant, with the event that iChat adds.  The     *)
(* porter brings a contact's stanzas one at a time and in their order.       *)
(***************************************************************************)
EXTENDS Contacts

CONSTANTS
    Lines,          \* [type, text, event] that are written
    Messages        \* messages that our user sends

Types == {"normal", "action", "notice"}
Me == "/me"
Composing == "composing"
Nobody == "nobody"

ASSUME ChatsAssumption ==
    \A l \in Lines : l.type \in Types \cup {"invite"} /\ l.text \in Seq(STRING)

VARIABLES
    said,       \* said[p]: lines of p for us, the oldest first
    unread,     \* unread[p]: how many of them are still on the way
    heard,      \* heard[p]: what our user was shown of them
    fate,       \* fate[m]: what became of our message m
    reader      \* reader[m]: who it is for

chatVars == <<said, unread, heard, fate, reader>>

ChatsInit ==
    /\ said = [p \in Peers |-> <<>>] /\ unread = [p \in Peers |-> 0]
    /\ heard = [p \in Peers |-> <<>>] /\ fate = [m \in Messages |-> "none"]
    /\ reader = [m \in Messages |-> Nobody]

-----------------------------------------------------------------------------
(* Texts *)

\* add_text, create_message_stanza, text_helper_create_message
Create(l) ==
    [type |-> IF l.type = "notice" THEN "normal" ELSE IF l.type = "invite" THEN "invite" ELSE "chat",
     body |-> IF l.type = "action" THEN <<Me>> \o l.text ELSE l.text,
     event |-> l.event]

\* text_helper_validate_tp_message
Valid(l) == l.type \in Types /\ l.text # <<>>

\* text_helper_parse_incoming_message: iChat's typing notifications, whose
\* last one is the message, and the rest
IsComposing(s) == Composing \in s.event
IsTyping(s) == {Composing, "id"} \subseteq s.event
Parse(s) ==
    IF s.body # <<>> /\ Head(s.body) = Me
    THEN [type |-> "action", text |-> Tail(s.body)]
    ELSE [type |-> IF s.type = "chat" THEN "normal" ELSE "notice", text |-> s.body]

\* salut_im_channel_received_stanza: a text without a body is nothing.
Shown(s) == IF IsTyping(s) \/ s.body = <<>> THEN <<>> ELSE <<Parse(s)>>

-----------------------------------------------------------------------------
(* Channels *)

HasChat(p) == "channel" \in contact[p].talk
Known(p) == Alive(p, contact[p], waiting, flights)
ChatStill == UNCHANGED <<record, up, due, list, listed, told, known, failed>>
Talk(p, t) == Replace(p, [contact[p] EXCEPT !.talk = t], {})

\* salut_im_manager_requestotron, salut_im_manager_new_channel.  A request for
\* a contact that is not there, for ourselves, or for a new channel next to an
\* open one fails at once, and others are satisfied by the open one.
RequestChat(p) ==
    /\ Running /\ Known(p) /\ ~HasChat(p) /\ Spend("chats") /\ ChatStill
    /\ Talk(p, contact[p].talk \cup {"channel"}) /\ UNCHANGED chatVars

\* A line of a contact that we see gets onto the stream.
Says(p, l) ==
    /\ Running /\ p \in up /\ contact[p].found /\ Spend("says") /\ ChatStill
    /\ said' = [said EXCEPT ![p] = Append(@, l)] /\ unread' = [unread EXCEPT ![p] = @ + 1]
    /\ Talk(p, contact[p].talk \cup {"stream"}) /\ UNCHANGED <<heard, fate, reader>>

\* message_stanza_callback of the manager, new_message_cb of the channel: the
\* one that is there takes it.  An invitation to a room goes to another.
Opens(s) == IF s.type = "invite" THEN {} ELSE {"channel"}
Arrives(p) ==
    /\ Running /\ unread[p] > 0 /\ ChatStill /\ UNCHANGED <<scenario, said, fate, reader>>
    /\ LET s == Create(said[p][Len(said[p]) - unread[p] + 1])
           left == IF unread[p] = 1 THEN {"stream"} ELSE {}
       IN  /\ Talk(p, (contact[p].talk \ left) \cup Opens(s))
           /\ heard' = [heard EXCEPT ![p] = @ \o IF s.type = "invite" THEN <<>> ELSE Shown(s)]
    /\ unread' = [unread EXCEPT ![p] = @ - 1]

\* salut_im_channel_close, im_channel_closed_cb.  Nobody tells the messages
\* that are being sent.
Orphan(ms) == fate' = [m \in Messages |-> IF m \in ms /\ fate[m] = "flying" THEN "orphan" ELSE fate[m]]
CloseChat(p) ==
    /\ HasChat(p) /\ ChatStill /\ UNCHANGED <<scenario, said, unread, heard, reader>>
    /\ Talk(p, contact[p].talk \ {"channel"})
    /\ Orphan({m \in Messages : reader[m] = p})

-----------------------------------------------------------------------------
(* Our messages *)

Flying(f, p) == \E m \in Messages : reader'[m] = p /\ f[m] \in {"flying", "orphan"}
Fate(m, p, f) ==
    LET g == [fate EXCEPT ![m] = f]
    IN  /\ fate' = g /\ ChatStill /\ UNCHANGED <<said, unread, heard>>
        /\ reader' = [reader EXCEPT ![m] = IF f = "flying" THEN p ELSE Nobody]
        /\ Talk(p, (contact[p].talk \ {"sends"}) \cup IF Flying(g, p) THEN {"sends"} ELSE {})

\* _salut_im_channel_send, _send_message
Send(m, p, l) ==
    /\ HasChat(p) /\ fate[m] = "none" /\ Spend("sends")
    /\ Fate(m, p, IF Valid(l) THEN "flying" ELSE "refused")

\* sent_message_cb
Sent(m) ==
    /\ fate[m] \in {"flying", "orphan"} /\ reader[m] \in up /\ UNCHANGED scenario
    /\ Fate(m, reader[m], "sent")

\* sent_message_cb with an error, text_helper_report_delivery_error.  Without
\* its channel the report goes nowhere (to freed memory; that the process may
\* die of it is left out).
SendFails(m) ==
    /\ fate[m] \in {"flying", "orphan"}
    /\ IF reader[m] \in up /\ Running THEN Spend("failures") ELSE UNCHANGED scenario
    /\ Fate(m, reader[m], IF fate[m] = "flying" THEN "reported" ELSE "lost")

\* salut_im_factory_close_all, with CloseContacts
CloseChats == Orphan(Messages) /\ unread' = [p \in Peers |-> 0] /\ UNCHANGED <<said, heard, reader>>

-----------------------------------------------------------------------------
(* Properties *)

\* What a line says to who reads it.
Meaning(l) ==
    IF l.type = "invite" \/ {Composing, "id"} \subseteq l.event \/ (l.text = <<>> /\ l.type # "action") THEN <<>>
    ELSE IF l.type # "action" /\ Head(l.text) = Me THEN <<[type |-> "action", text |-> Tail(l.text)]>>
    ELSE <<[type |-> l.type, text |-> l.text]>>

\* Everything that a contact said and that has come was heard once, in its
\* order and as what it was, whether its channel was open, was closed before,
\* or had to be opened for it.
HeardAsSaid ==
    \A p \in Peers : Running =>
        heard[p] = FlattenSeq([i \in 1..(Len(said[p]) - unread[p]) |-> Meaning(said[p][i])])
=============================================================================
