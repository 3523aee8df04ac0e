------------------------------- MODULE Client -------------------------------
(***************************************************************************)
(* One client: its Account, its Contacts with their Chats, and its RoomList, *)
(* which share the way up and the way down.  The managers start when our     *)
(* own record is established, and close when the connection does, for        *)
(* whatever reason; what the account publishes, the cache of capabilities    *)
(* learns.                                                                  *)
(***************************************************************************)
EXTENDS Account, Chats, RoomList

CONSTANT Scenarios      \* what peers and users may do, and where we start

ASSUME ClientAssumption == \A s \in Scenarios : s.record.uri \in Uris \cup {Basic}

VARIABLE disposed       \* the connection object is gone

vars == <<accountVars, contactVars, chatVars, roomVars, disposed>>

\* Offline with an account, or already connected when peers appear.
StartOffline == AccountInit /\ list = "none" /\ browsing = FALSE
StartConnected ==
    /\ status = "connected" /\ client = "running" /\ list = "waiting" /\ browsing = TRUE
    /\ published = Profile(Available, NoCaps) /\ wanted = published /\ entry = published
    /\ unsent = FALSE
    /\ own = Self("established", published)
    /\ pre = [status |-> Available, caps |-> NoCaps] /\ changed = MaxOwn
    /\ closing = [porter |-> "open", timer |-> FALSE, force |-> FALSE] /\ finished = 0
    /\ sidecars = {} /\ pending = [i \in Interfaces |-> {}] /\ loading = {}
    /\ replies = [r \in Ensures |-> 0]

Init ==
    /\ ContactsInit /\ ChatsInit /\ RoomsInit /\ scenario \in Scenarios /\ disposed = FALSE
    /\ up \in SUBSET scenario.peers /\ record = [p \in Peers |-> scenario.record]
    /\ IF scenario.owner THEN StartOffline ELSE StartConnected

-----------------------------------------------------------------------------

TalkStill == UNCHANGED <<accountVars, roomVars, disposed>>
AccountStill == TalkStill /\ UNCHANGED chatVars
Alone == ContactsIdle /\ UNCHANGED <<chatVars, roomVars, known, disposed>>

\* announce_self_caps, salut_presence_cache_learn_caps: only of capabilities
\* that got to the network.
LearnsOwn ==
    /\ Learn(IF unsent' THEN {} ELSE {own'.caps} \cap CapSets) /\ ContactsIdle
    /\ UNCHANGED <<chatVars, roomVars, disposed>>
Shuts == CloseContacts /\ CloseChats /\ CloseRooms /\ UNCHANGED <<known, disposed>>

PeerPublishes(p) == p \in scenario.peers /\ Publish(p) /\ AccountStill
PeerDeparts(p) == Depart(p) /\ AccountStill
ServiceFound(p, s) == s \in scenario.services /\ BrowserFound(p, s) /\ AccountStill
ServiceRemoved(p, s) == BrowserRemoved(p, s) /\ AccountStill
ServiceResolved(p, s) == Resolved(p, s) /\ AccountStill
ServiceFails(p, s) == ResolverFails(p, s) /\ AccountStill
ServiceTimeout(p) == ResolverTimeout(p) /\ AccountStill
ListReceived == AllForNow /\ AccountStill
CapsError(p, u) == ~disposed /\ DiscoError(p, u) /\ AccountStill
CapsSilence(p, u) == ~disposed /\ DiscoSilence(p, u) /\ AccountStill
CapsAnswer(p, u) == Running /\ DiscoAnswer(p, u) /\ AccountStill
CapsForged(p, u) == Running /\ DiscoForged(p, u) /\ AccountStill
UserHolds(p) == p \in scenario.peers /\ Hold(p) /\ AccountStill
UserReleases(p) == Release(p) /\ AccountStill
AvatarAsked(p, q) == p \in scenario.peers /\ RequestAvatar(p, q) /\ AccountStill
AvatarComes(p) == AvatarArrives(p) /\ AccountStill
ChatAsked(p) == RequestChat(p) /\ TalkStill
LineSaid(p, l) == p \in scenario.peers /\ Says(p, l) /\ TalkStill
LineArrives(p) == Arrives(p) /\ TalkStill
ChatClosed(p) == CloseChat(p) /\ TalkStill
MessageSent(m, p, l) == Send(m, p, l) /\ TalkStill
MessageDelivered(m) == Sent(m) /\ TalkStill
MessageFails(m) == SendFails(m) /\ TalkStill

RoomStill == UNCHANGED <<accountVars, contactVars, chatVars, disposed>>
RoomAnnounced(r, a) == scenario.rooms /\ Announces(r, a) /\ RoomStill
RoomWithdrawn(r, a) == Withdraws(r, a) /\ RoomStill
RoomAppears(r, l) == RoomFound(r, l) /\ RoomStill
RoomDisappears(r, l) == RoomRemoved(r, l) /\ RoomStill
ListAsked(q) == scenario.rooms /\ OpenList(q) /\ RoomStill
ListClosed(q) == CloseList(q) /\ RoomStill
RoomAsked(r) == scenario.rooms /\ JoinRoom(r) /\ RoomStill
RoomEntered(r) == RoomJoined(r) /\ RoomStill
RoomLeft(r) == LeaveRoom(r) /\ RoomStill

Connects == StartConnecting /\ Alone
OwnAnnounced == Announce /\ LearnsOwn
OwnEstablished == Established /\ StartContacts /\ StartRooms /\ UNCHANGED <<chatVars, known, disposed>>
ClientFailure == ClientFails /\ Shuts
ManagersFailure == ManagersFail /\ Shuts
UserDisconnects == Disconnect /\ Shuts
CloseTimeout == DisconnectTimeout /\ Alone
CloseDone == PorterClosed /\ Alone
ForceDone == ForceClosed /\ Alone
OwnPresence(s) == SetPresence(s) /\ Alone
OwnCaps(c) == UpdateCaps(c) /\ LearnsOwn
OwnAlias(a) == SetAlias(a) /\ Alone
OwnAvatar(q) == SetAvatar(q) /\ Alone
NoAvatar == ClearAvatar /\ Alone
SidecarAsked(r, i) == scenario.owner /\ EnsureSidecar(r, i) /\ Alone
SidecarMade(i) == SidecarCreated(i) /\ Alone

\* salut_connection_dispose: nobody has a reference any more.
Dispose ==
    /\ finished > 0 /\ closing.porter = "closed" /\ ~closing.force /\ loading = {} /\ ~disposed
    /\ disposed' = TRUE /\ DisposeCache /\ UNCHANGED <<accountVars, chatVars, roomVars>>

Next ==
    \/ \E p \in Peers : PeerPublishes(p) \/ PeerDeparts(p)
    \/ \E p \in Peers, s \in Services : ServiceFound(p, s) \/ ServiceRemoved(p, s)
    \/ \E p \in Peers, s \in Services : ServiceResolved(p, s) \/ ServiceFails(p, s)
    \/ \E p \in Peers : ServiceTimeout(p) \/ UserHolds(p) \/ UserReleases(p) \/ AvatarComes(p)
    \/ \E p \in Peers, u \in Uris :
          CapsError(p, u) \/ CapsSilence(p, u) \/ CapsAnswer(p, u) \/ CapsForged(p, u)
    \/ \E p \in Peers, q \in Avatars : AvatarAsked(p, q)
    \/ \E p \in Peers : ChatAsked(p) \/ LineArrives(p) \/ ChatClosed(p)
    \/ \E p \in Peers, l \in Lines : LineSaid(p, l)
    \/ \E m \in Messages : MessageDelivered(m) \/ MessageFails(m)
    \/ \E m \in Messages, p \in Peers, l \in Lines : MessageSent(m, p, l)
    \/ \E r \in Rooms, a \in Announcers : RoomAnnounced(r, a) \/ RoomWithdrawn(r, a)
    \/ \E r \in Rooms, l \in Links : RoomAppears(r, l) \/ RoomDisappears(r, l)
    \/ \E q \in Lists : ListAsked(q) \/ ListClosed(q)
    \/ \E r \in Rooms : RoomAsked(r) \/ RoomEntered(r) \/ RoomLeft(r)
    \/ ListReceived \/ Connects \/ OwnAnnounced \/ OwnEstablished
    \/ ClientFailure \/ ManagersFailure \/ UserDisconnects
    \/ CloseTimeout \/ CloseDone \/ ForceDone \/ Dispose
    \/ \E s \in Statuses : OwnPresence(s)
    \/ \E c \in CapSets : OwnCaps(c)
    \/ \E a \in Aliases : OwnAlias(a)
    \/ \E q \in Pictures : OwnAvatar(q)
    \/ NoAvatar
    \/ \E r \in Ensures, i \in Interfaces : SidecarAsked(r, i)
    \/ \E i \in Interfaces : SidecarMade(i)

Spec == Init /\ [][Next]_vars

\* Avahi reports what is on the network in the end, a peer that is asked
\* answers or goes, an avatar or an error comes, stanzas arrive and are sent or
\* not, rooms are joined, timers end, a porter that is closed by force closes,
\* and a plugin makes a sidecar or does not.
Reports == \E p \in Peers, s \in Services :
    ServiceFound(p, s) \/ ServiceRemoved(p, s) \/ ServiceResolved(p, s)
RoomReports == \E r \in Rooms : RoomEntered(r) \/ \E l \in Links : RoomAppears(r, l) \/ RoomDisappears(r, l)
Replies == \E p \in Peers, u \in Uris : CapsAnswer(p, u) \/ CapsError(p, u) \/ CapsSilence(p, u)
Stanzas == (\E p \in Peers : LineArrives(p)) \/ \E m \in Messages : MessageDelivered(m) \/ MessageFails(m)
FairSpec ==
    /\ Spec /\ WF_vars(Reports \/ RoomReports) /\ WF_vars(Replies) /\ WF_vars(Stanzas)
    /\ WF_vars(\E p \in Peers : AvatarComes(p) \/ ServiceTimeout(p))
    /\ WF_vars(CloseTimeout \/ ForceDone) /\ WF_vars(CloseDone /\ ~closing.timer)
    /\ WF_vars(Dispose) /\ WF_vars(\E i \in Interfaces : SidecarMade(i))

-----------------------------------------------------------------------------
(* What clients of the connection read *)

\* get_contact_statuses
GetStatus(p) == IF Known(p) THEN contact[p].status ELSE "offline"

\* salut_connection_get_handle_contact_capabilities: of who is not known, none
GetCaps(p) == IF Known(p) THEN {contact[p].caps} ELSE {}

\* salut_connection_get_known_avatar_tokens: of who is not known, none
GetTokens(p) == IF Known(p) THEN {contact[p].token} ELSE {}

-----------------------------------------------------------------------------
(* Properties *)

\* A contact has the basic capabilities or a set that hashes to the uri it was
\* asked for, and so has the cache: forged answers reach nobody.
NothingForged ==
    /\ \A p \in Peers : Forged \notin GetCaps(p)
    /\ \A u \in Uris : known[u] \in {Basic, u}

\* Nobody is in the contact list that no resolver sees (that those who are seen
\* get there is ListConverges), and clients were told of the presence that
\* they read, but that one that nobody has resolved yet reads as available.
\* Whoever waits for an avatar waits for one that is known of.  And an open
\* list of rooms has the rooms that some resolver sees.
ListedAreThere ==
    /\ listed \subseteq {p \in Peers : contact[p].found /\ contact[p].services # {}}
    /\ list # "closed" => \A p \in Peers :
          told[p] = IF Known(p) /\ ~contact[p].found THEN "offline" ELSE GetStatus(p)
    /\ \A p \in Peers : contact[p].wants # {} => GetTokens(p) \notin {{}, {NoToken}}
    /\ ListsShowRooms

\* "if a discovery request fails, we will ask another contact" (the comment on
\* struct _DiscoWaiter in presence-cache.c): while somebody who was not asked
\* yet waits for the capabilities behind a uri, another is being asked.
AnotherIsAsked ==
    \A u \in Uris : (\E i \in DOMAIN waiting[u] : ~waiting[u][i].asked) => \E p \in Peers : InFlight(p, u)

\* A request for an avatar or a sidecar gets one answer at most, whatever
\* contacts and the connection go through; and the connection goes down once.
OneAnswerEach ==
    /\ \A q \in Avatars : answers[q] <= 1
    /\ \A r \in Ensures : replies[r] <= 1
    /\ finished <= 1

\* Once an update gets to the network, what is there (presence, capabilities,
\* alias, token of the avatar) is all that was asked for last, before or after
\* the connection came up, with what earlier updates failed to publish and
\* without an avatar that was refused.  Between a failed update and the next
\* only the picture is: the others are as they were, which for the presence
\* nobody is told.
PublishedIsWanted ==
    status = "connected" =>
        /\ ~unsent => published = wanted
        /\ published.picture = wanted.picture

\* When the peers leave their records alone, the list shows who is there; and
\* a room that we are in is seen, whoever announced it before and left.
ListConverges == <>[]((Running => up = listed) /\ RoomsAreSeen)

\* Who waits for capabilities gets them, whoever forges an answer, changes or
\* goes, unless a request about that uri failed, of which AnotherIsAsked says
\* what the code does not do; every request for an avatar or, once connected, a
\* sidecar is answered; what is said arrives, and what is sent comes to an end;
\* and the way down ends.
EverythingEnds ==
    <>[](/\ \A u \in Uris : waiting[u] = <<>> \/ u \in failed
         /\ \A p \in Peers : contact[p].wants = {} /\ unread[p] = 0
         /\ \A m \in Messages : fate[m] \notin {"flying", "orphan"}
         /\ status = "connected" => \A r \in Ensures : ~Waits(r)
         /\ status = "disconnected" => finished > 0)
=============================================================================
