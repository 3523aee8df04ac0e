----------------------------- MODULE Activities -----------------------------
(***************************************************************************)
(* The activity that a room is for (OLPC): its id, properties and privacy   *)
(* at every node, which travel two ways.  Members tell the room of a change  *)
(* (connection.c, olpc-activity.c), on the ordered group of MucTubes; and a  *)
(* public activity is announced as a DNS-SD service by every member of it    *)
(* (avahi-olpc-activity.c), which the others browse and resolve.  Who is      *)
(* invited to a private one is told by invitations, one to one and ordered.  *)
(*                                                                         *)
(* Name stands for name, color, type and tags.  What is announced succeeds.  *)
(* The uninvitation is left out: it names a contact with the handle of the   *)
(* room, and nobody recognises it.                                          *)
(***************************************************************************)
EXTENDS MucTubes

CONSTANTS
    Names, Unset,   \* of the activity
    Off,            \* no announcement
    Plans(_)        \* what clients do with the activity, by scenario

VARIABLES
    plan,           \* adders, setters, hosts: nodes; leavers: those that leave once (a bound);
                    \* changes: how many may come
    act,            \* act[n]: the activity object of n
    told,           \* told[n]: contacts that n's client was told are in the activity
    published,      \* published[n]: the service of n
    seen,           \* seen[n]: whose services the browser of n has reported
    resolvers,      \* resolvers[n]: by whose service, the record it gave last
    inviters,       \* inviters[n]: of the room that n is invited to and has not joined
    invitations     \* invitations[m][n]: sent by m and not handled by n

actVars == <<plan, act, told, published, seen, resolvers, inviters, invitations>>
vars == <<tubeVars, actVars>>

\* salut_olpc_activity_manager_create_activity
Fresh == [id |-> FALSE, name |-> Unset, private |-> TRUE,
          in |-> FALSE,         \* muc is set, and it is one of our own activities
          invited |-> {},
          listed |-> {}]        \* contacts that it is an activity of

Init ==
    /\ TubesInit
    /\ plan \in Plans(scenario)
    /\ act = [n \in Nodes |-> Fresh]
    /\ told = [n \in Nodes |-> {}]
    /\ published = [n \in Nodes |-> Off]
    /\ seen = [n \in Nodes |-> {}]
    /\ resolvers = [n \in Nodes |-> <<>>]
    /\ inviters = [n \in Nodes |-> {}]
    /\ invitations = [m \in Nodes |-> [n \in Nodes |-> <<>>]]

-----------------------------------------------------------------------------
(* What a node does to its activity *)

Alive == Nodes \ gone

\* salut_olpc_activity_create_properties_table
Properties(a) == [kind |-> "properties", id |-> a.id, name |-> a.name, private |-> a.private]

\* salut_olpc_activity_update, as far as the object goes
Updated(a, id, name, private) ==
    [a EXCEPT !.id = @ \/ id, !.name = IF name = Unset THEN @ ELSE name, !.private = private]

\* salut_avahi_olpc_activity_announce, stop_announce, update_activity_service:
\* the id is put in when the service is made.
Announcement(old, a, service) ==
    IF ~a.in \/ a.private THEN Off
    ELSE IF service = Off THEN [id |-> a.id, name |-> a.name]
    ELSE IF a = old THEN service ELSE [service EXCEPT !.name = a.name]

\* send_properties_change_msg, once connected
ToRoom(box, n, a) == IF a.in THEN Sent(box, n, met[n], Properties(a)) ELSE box

\* Mutant of Resent: who was invited keeps what it was told then.
ResentNever(n, a) == invitations[n]

\* resend_invite
Resent(n, a) ==
    [m \in Nodes |-> IF a.in /\ a.private /\ m \in a.invited THEN Append(invitations[n][m], Properties(a))
                     ELSE invitations[n][m]]

\* activity_changed, after salut_olpc_activity_update; box is the mail
Changes(n, old, a, service, box) ==
    /\ published' = [published EXCEPT ![n] = Announcement(old, a, service)]
    /\ mail' = IF a = old THEN box ELSE ToRoom(box, n, a)
    /\ invitations' = IF a = old THEN invitations ELSE [invitations EXCEPT ![n] = Resent(n, a)]

\* salut_contact_joined_activity, contact_manager_contact_change_cb: who shows up
\* is no longer invited.
Listed(a, m) ==
    [a EXCEPT !.listed = @ \cup {m},
              !.invited = IF a.in /\ m \notin a.listed THEN @ \ {m} ELSE @]

\* salut_contact_left_activity
Unlisted(a, ms) == [a EXCEPT !.listed = @ \ ms]

\* activity_valid_cb: contacts are told of once the id is known.
Telling(old, a) == IF a.id THEN a.listed ELSE {}

\* activity_finalized_cb: nobody holds the object, neither channel nor contact.
Kept(a, channel) == IF channel \/ a.in \/ a.listed # {} THEN a ELSE Fresh

\* The object of n goes on as a, with its resolvers, or goes.
Becomes(n, a, channel, resolved) ==
    /\ act' = [act EXCEPT ![n] = Kept(a, channel)]
    /\ told' = [told EXCEPT ![n] = Telling(act[n], a)]
    /\ resolvers' = [resolvers EXCEPT ![n] = IF Kept(a, channel) = Fresh THEN <<>> ELSE resolved]

HasChannel(n) == n \in joined \/ inviters[n] # {}

RoomStill == UNCHANGED <<scenario, joined, gone, met, tubes, last, said, closed>>
Browsing == UNCHANGED <<plan, inviters>> /\ RoomStill

-----------------------------------------------------------------------------
(* The client *)

\* Bound: clients enter and change an activity when the members have met and all
\* know of the last change.  Two changes at once, or a change and somebody who
\* enters with what was before, are sent back and forth for ever.
Settled ==
    /\ \A n, m \in joined : m \in met[n]
    /\ \A n \in joined, m \in Nodes :
          \A i \in DOMAIN mail[m][n] : mail[m][n][i].kind # "properties"
    /\ \A n \in Alive, m \in Nodes :
          /\ invitations[m][n] = <<>>
          /\ m # n /\ published[m] # Off =>
                m \in seen[n] /\ (m \in DOMAIN resolvers[n] => resolvers[n][m] = published[m])

\* salut_self_add_olpc_activity: joined and announced, then updated with the id.
\* The client is in the room, and knows of the activity or starts it.
AddActivity(n) ==
    LET a == [act[n] EXCEPT !.in = TRUE]
        b == Updated(a, TRUE, Unset, a.private)
    IN
    /\ n \in plan.adders \cap joined /\ ~act[n].in /\ Settled
    /\ act[n].id \/ \A m \in Nodes : ~act[m].in
    /\ Becomes(n, b, TRUE, resolvers[n])
    /\ Changes(n, a, b, Announcement(act[n], a, Off), mail)
    /\ UNCHANGED seen /\ Browsing

\* salut_connection_act_set_properties, salut_self_set_olpc_activity_properties
SetProperties(n, name, private) ==
    LET b == Updated(act[n], TRUE, name, private)
    IN
    /\ n \in plan.setters /\ act[n].in /\ b # act[n] /\ Settled
    /\ plan.changes > 0 /\ plan' = [plan EXCEPT !.changes = @ - 1]
    /\ Becomes(n, b, TRUE, resolvers[n])
    /\ Changes(n, act[n], b, published[n], mail)
    /\ UNCHANGED <<seen, inviters>> /\ RoomStill

Leaves(n) == n \in plan.leavers /\ plan' = [plan EXCEPT !.leavers = @ \ {n}]

\* salut_self_set_olpc_activities without it: salut_olpc_activity_left
RemoveActivity(n) ==
    /\ Leaves(n) /\ act[n].in
    /\ Becomes(n, [act[n] EXCEPT !.in = FALSE], TRUE, resolvers[n])
    /\ published' = [published EXCEPT ![n] = Off]
    /\ UNCHANGED <<mail, seen, invitations>> /\ UNCHANGED inviters /\ RoomStill

\* salut_muc_channel_send_invitation, salut_olpc_activity_augment_invitation
Invite(n, m) ==
    /\ n \in plan.hosts /\ act[n].in /\ m \in scenario.late \ (joined \cup gone)
    /\ m \notin act[n].invited
    /\ act' = [act EXCEPT ![n].invited = @ \cup {m}]
    /\ invitations' = [invitations EXCEPT ![n][m] = Append(@, Properties(act[n]))]
    /\ UNCHANGED <<told, published, mail, seen, resolvers>> /\ Browsing

\* salut_connection_olpc_observe_invitation, got_invitation: the room is there
\* or is made; what is said of privacy is not looked at.
ReceiveInvitation(n, m) ==
    LET news == Head(invitations[m][n])
        b == Updated(act[n], news.id, news.name, act[n].private)
    IN
    /\ n \in Alive /\ invitations[m][n] # <<>>
    /\ Becomes(n, Listed(b, m), TRUE, resolvers[n])
    /\ published' = [published EXCEPT ![n] = Announcement(act[n], b, @)]
    /\ mail' = IF b = act[n] THEN mail ELSE ToRoom(mail, n, b)
    /\ invitations' = [invitations EXCEPT ![m][n] = Tail(@),
                                          ![n] = IF b = act[n] THEN @ ELSE Resent(n, b)]
    /\ inviters' = IF n \in joined THEN inviters ELSE [inviters EXCEPT ![n] = @ \cup {m}]
    /\ UNCHANGED <<plan, seen>> /\ RoomStill

-----------------------------------------------------------------------------
(* The room *)

\* muc_ready_cb: the inviters are forgotten.
Enter(n) ==
    /\ Join(n)
    /\ Becomes(n, Unlisted(act[n], inviters[n]), TRUE, resolvers[n])
    /\ inviters' = [inviters EXCEPT ![n] = {}]
    /\ UNCHANGED <<plan, published, seen, invitations>>

\* muc_closed_cb
Decline(n) ==
    /\ Leaves(n) /\ n \notin joined /\ inviters[n] # {}
    /\ Becomes(n, act[n], FALSE, resolvers[n])
    /\ inviters' = [inviters EXCEPT ![n] = {}]
    /\ UNCHANGED <<published, mail, seen, invitations>> /\ RoomStill

\* The node is gone, and its service with it.
Departed(n) ==
    /\ Becomes(n, [act[n] EXCEPT !.in = FALSE], FALSE, resolvers[n])
    /\ published' = [published EXCEPT ![n] = Off]
    /\ UNCHANGED <<seen, inviters, invitations>>

\* muc_channel_closed_cb of the connection: salut_self_remove_olpc_activity
CloseRoom(n) == Leaves(n) /\ n \in joined /\ Gone(n) /\ Departed(n)
Crash(n) == Vanish(n) /\ Departed(n) /\ UNCHANGED plan
CrashOnData(n, m) == FreedHears(n, m) /\ Departed(n) /\ UNCHANGED plan

\* salut_connection_olpc_observe_muc_stanza
ReceiveProperties(n, m) ==
    LET news == Head(mail[m][n])
        box == [mail EXCEPT ![m][n] = Tail(@)]
        b == Updated(act[n], news.id, news.name, news.private)
    IN
    /\ Arrives(n, m, "properties")
    /\ Becomes(n, b, TRUE, resolvers[n])
    /\ Changes(n, act[n], b, published[n], box)
    /\ UNCHANGED seen /\ Browsing

-----------------------------------------------------------------------------
(* The services *)

\* browser_found: a resolver, and the contact is in the activity.
BrowserFound(n, m) ==
    /\ n \in Alive \ {m} /\ published[m] # Off /\ m \notin seen[n]
    /\ seen' = [seen EXCEPT ![n] = @ \cup {m}]
    /\ Becomes(n, Listed(act[n], m), TRUE, (m :> Off) @@ resolvers[n])
    /\ UNCHANGED <<published, mail, invitations>> /\ Browsing

\* browser_removed
BrowserRemoved(n, m) ==
    LET a == Unlisted(act[n], {m})
    IN
    /\ n \in Alive /\ published[m] = Off /\ m \in seen[n]
    /\ seen' = [seen EXCEPT ![n] = @ \ {m}]
    /\ Becomes(n, a, HasChannel(n), Without(resolvers[n], m))
    /\ UNCHANGED <<published, mail, invitations>> /\ Browsing

\* activity_resolved_cb: whatever a service says is of a public activity.
ActivityResolved(n, m) ==
    LET b == Updated(act[n], published[m].id, published[m].name, FALSE)
    IN
    /\ n \in Alive /\ m \in DOMAIN resolvers[n] /\ published[m] \notin {Off, resolvers[n][m]}
    /\ Becomes(n, b, TRUE, [resolvers[n] EXCEPT ![m] = published[m]])
    /\ Changes(n, act[n], b, published[n], mail)
    /\ UNCHANGED seen /\ Browsing

-----------------------------------------------------------------------------

News ==
    \E n, m \in Nodes :
        \/ ReceiveProperties(n, m) \/ ReceiveInvitation(n, m)
        \/ BrowserFound(n, m) \/ BrowserRemoved(n, m) \/ ActivityResolved(n, m)

TubeStep == (RoomStep \/ ClientStep) /\ UNCHANGED actVars

Next ==
    \/ TubeStep
    \/ \E n \in Nodes : Enter(n) \/ Decline(n) \/ CloseRoom(n) \/ Crash(n)
    \/ \E n, m \in Nodes : CrashOnData(n, m)
    \/ \E n \in Nodes : AddActivity(n) \/ RemoveActivity(n)
    \/ \E n \in Nodes, name \in Names \cup {Unset}, private \in BOOLEAN : SetProperties(n, name, private)
    \/ \E n, m \in Nodes : Invite(n, m)
    \/ News

Spec == Init /\ [][Next]_vars

\* The group goes on, and so do browsers and what is on its way between two; nothing
\* is owed by clients and programs.
FairSpec == Spec /\ WF_vars(News \/ (RoomStep /\ UNCHANGED actVars))

-----------------------------------------------------------------------------

\* One change travels by the room, by the services of all who are in the activity
\* and by invitations, and each who hears of it tells it on; members join, leave
\* and vanish meanwhile.  In the end all who are in the activity agree on its
\* properties, whoever announces it announces these, with the id that makes
\* the service of use, and without invitations every client is told of exactly
\* the contacts that announce it.  (Whoever joins forgets that its inviters
\* announce the activity too.)
ActivityConverges ==
    <>[](/\ \A n, m \in joined : act[n].in /\ act[m].in =>
               act[n].name = act[m].name /\ act[n].private = act[m].private
         /\ \A n \in joined :
               published[n] = IF act[n].in /\ ~act[n].private THEN [id |-> TRUE, name |-> act[n].name]
                              ELSE Off
         /\ plan.hosts = {} => \A n \in Alive : told[n] = {m \in Nodes \ {n} : published[m] # Off})

=============================================================================
