------------------------------- MODULE RoomList -------------------------------
(***************************************************************************)
(* The rooms on the network, as one client sees and announces them: the      *)
(* browser (avahi-roomlist-manager.c), the lists that are open              *)
(* (roomlist-manager.c, roomlist-channel.c) and the services of the rooms    *)
(* the client is in (avahi-muc-channel.c), which it announces again when a   *)
(* room disappears.  MucRoom models what happens in a room.                 *)
(*                                                                         *)
(* A room's service is one on the network, however many announce it, and     *)
(* seen on each link.  Another client on this host that announces it keeps   *)
(* us from doing so.                                                        *)
(***************************************************************************)
EXTENDS Naturals, FiniteSets

CONSTANTS
    Rooms,
    Announcers,     \* other clients
    Local,          \* those of them on this host
    Links,          \* interfaces and protocols of the browser
    Lists,          \* requests for lists
    NewLists,       \* those of them that want a new one
    MaxMoves        \* bound: services of others announced, rooms joined

Ourselves == "ourselves"

ASSUME RoomListAssumption ==
    /\ Local \subseteq Announcers /\ Ourselves \notin Announcers
    /\ NewLists \subseteq Lists /\ MaxMoves \in Nat

VARIABLES
    browsing,   \* the browser is attached
    announced,  \* announced[r]: who announces the service of r
    resolvers,  \* resolvers[r]: links with a resolver for r
    leaving,    \* leaving[r]: those whose removal was not yet reported
    mine,       \* mine[r]: our text channel, "none", "invited", "connecting" or "connected"
    lists,      \* lists[q]: "none", "open" or "closed"
    entries,    \* entries[q][r]: how often the list shows r
    moves

roomVars == <<browsing, announced, resolvers, leaving, mine, lists, entries, moves>>

RoomsInit ==
    /\ announced = [r \in Rooms |-> {}] /\ resolvers = [r \in Rooms |-> {}]
    /\ leaving = [r \in Rooms |-> {}] /\ mine = [r \in Rooms |-> "none"]
    /\ lists = [q \in Lists |-> "none"] /\ entries = [q \in Lists |-> [r \in Rooms |-> 0]]
    /\ moves = 0

\* The rooms that a new list is given.
Shows(r) == resolvers[r] # {}

Move == browsing /\ moves < MaxMoves /\ moves' = moves + 1
Open(q) == lists[q] = "open"

-----------------------------------------------------------------------------
(* Services *)

\* When nobody is left to announce it, its removal is under way.
Withdrawn(r, a) ==
    /\ announced' = [announced EXCEPT ![r] = @ \ {a}]
    /\ leaving' = [leaving EXCEPT ![r] = IF announced[r] \subseteq {a} THEN resolvers[r] ELSE @]

Announces(r, a) ==
    /\ Move /\ a \notin announced[r] /\ announced' = [announced EXCEPT ![r] = @ \cup {a}]
    /\ UNCHANGED <<browsing, resolvers, leaving, mine, lists, entries>>

\* Even a service that was there for a moment is reported before its removal.
Withdraws(r, a) ==
    /\ a \in announced[r] /\ (announced[r] = {a} => resolvers[r] \ leaving[r] # {})
    /\ Withdrawn(r, a) /\ UNCHANGED <<browsing, resolvers, mine, lists, entries, moves>>

\* salut_avahi_muc_channel_publish_service
AlreadyPublished(r) == Ourselves \in announced[r]
Published(r) ==
    IF AlreadyPublished(r) \/ announced[r] \cap Local # {} THEN announced
    ELSE [announced EXCEPT ![r] = @ \cup {Ourselves}]

-----------------------------------------------------------------------------
(* The browser and the lists *)

\* salut_roomlist_manager_room_discovered.  A list is twice among the open
\* lists: make_roomlist_channel and salut_roomlist_manager_request put it there.
AddRoom(e, r) == [q \in Lists |-> IF Open(q) THEN [e[q] EXCEPT ![r] = @ + 2] ELSE e[q]]

\* salut_roomlist_manager_room_removed, remove_room_foreach
RemoveTwice(n) == IF n < 2 THEN 0 ELSE n - 2
RemoveRoom(e, r) == [q \in Lists |-> [e[q] EXCEPT ![r] = RemoveTwice(@)]]

\* browser_found
RoomFound(r, l) ==
    /\ browsing /\ announced[r] # {} /\ l \notin resolvers[r]
    /\ resolvers' = [resolvers EXCEPT ![r] = @ \cup {l}]
    /\ entries' = IF Shows(r) THEN entries ELSE AddRoom(entries, r)
    /\ UNCHANGED <<browsing, announced, leaving, mine, lists, moves>>

\* browser_removed; with the last resolver the room goes, and one that we
\* are in is announced again.
RoomRemoved(r, l) ==
    /\ browsing /\ l \in leaving[r] /\ leaving' = [leaving EXCEPT ![r] = @ \ {l}]
    /\ resolvers' = [resolvers EXCEPT ![r] = @ \ {l}]
    /\ IF resolvers[r] = {l}
       THEN /\ entries' = RemoveRoom(entries, r)
            /\ announced' = IF mine[r] = "connected" THEN Published(r) ELSE announced
       ELSE UNCHANGED <<entries, announced>>
    /\ UNCHANGED <<browsing, mine, lists, moves>>

\* salut_roomlist_manager_request, make_roomlist_channel: other requests are
\* satisfied by the list that is open.
OpenList(q) ==
    /\ browsing /\ lists[q] = "none" /\ (q \in NewLists \/ \A o \in Lists : ~Open(o))
    /\ lists' = [lists EXCEPT ![q] = "open"]
    /\ entries' = [entries EXCEPT ![q] = [r \in Rooms |-> IF Shows(r) THEN 1 ELSE 0]]
    /\ UNCHANGED <<browsing, announced, resolvers, leaving, mine, moves>>

\* roomlist_channel_closed_cb
Closed(q) == entries' = [entries EXCEPT ![q] = [r \in Rooms |-> 0]]
CloseList(q) ==
    /\ Open(q) /\ lists' = [lists EXCEPT ![q] = "closed"] /\ Closed(q)
    /\ UNCHANGED <<browsing, announced, resolvers, leaving, mine, moves>>

-----------------------------------------------------------------------------
(* Our rooms *)

ListsStill == UNCHANGED <<browsing, resolvers, lists, entries>>

\* salut_muc_manager_request_new_muc_channel, invite_stanza_callback,
\* salut_muc_channel_add_member
JoinRoom(r) ==
    /\ \/ mine[r] = "none" /\ Move /\ \E s \in {"invited", "connecting"} : mine' = [mine EXCEPT ![r] = s]
       \/ mine[r] = "invited" /\ mine' = [mine EXCEPT ![r] = "connecting"] /\ UNCHANGED moves
    /\ ListsStill /\ UNCHANGED <<announced, leaving>>

\* muc_connection_connected_cb
RoomJoined(r) ==
    /\ mine[r] = "connecting" /\ mine' = [mine EXCEPT ![r] = "connected"]
    /\ announced' = Published(r) /\ ListsStill /\ UNCHANGED <<leaving, moves>>

\* salut_avahi_muc_channel_dispose
LeaveRoom(r) ==
    /\ mine[r] # "none" /\ mine' = [mine EXCEPT ![r] = "none"]
    /\ Withdrawn(r, Ourselves) /\ ListsStill /\ UNCHANGED moves

-----------------------------------------------------------------------------
(* With the account *)

\* salut_avahi_roomlist_manager_start
StartRooms == browsing' = TRUE /\ UNCHANGED <<announced, resolvers, leaving, mine, lists, entries, moves>>

\* salut_roomlist_manager_close_all, salut_muc_manager_close_all,
\* salut_avahi_roomlist_manager_dispose: nobody is left to look.
CloseRooms ==
    /\ browsing' = FALSE /\ lists' = [q \in Lists |-> IF Open(q) THEN "closed" ELSE lists[q]]
    /\ entries' = [q \in Lists |-> [r \in Rooms |-> 0]] /\ mine' = [r \in Rooms |-> "none"]
    /\ announced' = [r \in Rooms |-> announced[r] \ {Ourselves}]
    /\ leaving' = [r \in Rooms |-> {}] /\ resolvers' = [r \in Rooms |-> {}] /\ UNCHANGED moves

-----------------------------------------------------------------------------
(* Properties *)

\* An open list shows the rooms that some resolver sees, and no others.
ListsShowRooms == \A q \in Lists, r \in Rooms : Open(q) => (entries[q][r] > 0 <=> Shows(r))

\* A room is seen if somebody announces it; and somebody does if we are in it.
RoomsAreSeen ==
    browsing => \A r \in Rooms :
        /\ Shows(r) <=> announced[r] # {}
        /\ mine[r] = "connected" => announced[r] # {}
=============================================================================
