------------------------------- MODULE Account -------------------------------
(***************************************************************************)
(* The connection object of one account (connection.c): the client of the   *)
(* discovery service (avahi-discovery-client.c), our own record (self.c,     *)
(* avahi-self.c), plugins' sidecars, and the way down, in which the porter  *)
(* is closed in time or by force.  Client composes it with the contacts,    *)
(* which is why its actions leave out what happens to them.                 *)
(***************************************************************************)
EXTENDS Naturals, FiniteSets, TLC

CONSTANTS
    Statuses,       \* own presences
    CapSets,        \* own capability sets
    Aliases,        \* own aliases that are set
    Pictures,       \* own avatars that are set
    Interfaces,     \* sidecar interfaces
    Ensures,        \* requests for sidecars
    MaxOwn          \* bound: changes of what we publish

NoCaps == "no caps"
Available == "available"
Nickname == "nickname"
NoPicture == "no picture"

ASSUME AccountAssumption == NoCaps \notin CapSets /\ NoPicture \notin Pictures /\ MaxOwn \in Nat

VARIABLES
    status,     \* of the TpBaseConnection
    client,     \* state of the discovery client
    own,        \* the SalutSelf, or NoSelf
    pre,        \* pre_connect_presence and pre_connect_caps
    entry,      \* our record as the entry group's service object holds it
    published,  \* our record on the network
    unsent,     \* the last change of entry did not get to the network
    wanted,     \* what was asked for last; of a refused avatar, none
    changed,    \* number of such requests
    closing,    \* the porter on the way down
    finished,   \* calls of tp_base_connection_finish_shutdown
    sidecars,   \* interfaces whose sidecar is there
    pending,    \* pending[i]: requests that wait for one
    loading,    \* interfaces a plugin is making a sidecar for
    replies     \* replies[r]: answers to a request for a sidecar

ownVars == <<own, pre, entry, published, unsent, wanted, changed>>
downVars == <<closing, finished>>
sidecarVars == <<sidecars, pending, loading, replies>>
accountVars == <<status, client, ownVars, downVars, sidecarVars>>

\* A record has the token of the picture next to it, on the network and in
\* our own object.
Profile(s, c) ==
    [status |-> s, caps |-> c, alias |-> Nickname, token |-> NoPicture, picture |-> NoPicture]
Self(st, p) ==
    [state |-> st, status |-> p.status, caps |-> p.caps, alias |-> p.alias, token |-> p.token]
NoSelf == Self("none", Profile(Available, NoCaps))
Nothing == Profile("offline", NoCaps)

\* salut_connection_init, salut_connection_constructed
AccountInit ==
    /\ status = "new" /\ client = "none" /\ own = NoSelf
    /\ pre = [status |-> Available, caps |-> NoCaps]
    /\ entry = Nothing /\ published = Nothing /\ unsent = FALSE
    /\ wanted = Profile(Available, NoCaps) /\ changed = 0
    /\ closing = [porter |-> "open", timer |-> FALSE, force |-> FALSE] /\ finished = 0
    /\ sidecars = {} /\ pending = [i \in Interfaces |-> {}] /\ loading = {}
    /\ replies = [r \in Ensures |-> 0]

Up == status \in {"connecting", "connected"}

-----------------------------------------------------------------------------
(* The way down *)

Reply(rs) == replies' = [r \in Ensures |-> IF r \in rs THEN replies[r] + 1 ELSE replies[r]]

\* sidecars_conn_status_changed_cb: those that wait are told, once.
FailSidecars ==
    /\ sidecars' = {} /\ pending' = [i \in Interfaces |-> {}] /\ UNCHANGED loading
    /\ Reply(UNION {pending[i] : i \in Interfaces})

\* tp_base_connection_change_status to disconnected, salut_connection_shut_down,
\* _salut_connection_disconnect
GoDown ==
    /\ Up /\ status' = "disconnected" /\ client' = "none"
    /\ own' = NoSelf /\ entry' = Nothing /\ published' = Nothing /\ unsent' = FALSE
    /\ UNCHANGED <<pre, wanted, changed>>
    /\ closing' = [porter |-> "closing", timer |-> TRUE, force |-> FALSE] /\ UNCHANGED finished
    /\ FailSidecars

\* disconnect_timeout_cb
DisconnectTimeout ==
    /\ closing.timer /\ UNCHANGED <<status, client, ownVars, finished, sidecarVars>>
    /\ closing' = [closing EXCEPT !.timer = FALSE, !.force = TRUE]

\* closed_cb: the porter is closed, the close failed, or force closed it.
FinishesAlways(c) == TRUE
Finishes(c) == c.timer
PorterClosed ==
    /\ closing.porter = "closing" /\ UNCHANGED <<status, client, ownVars, sidecarVars>>
    /\ closing' = [closing EXCEPT !.porter = "closed", !.timer = FALSE]
    /\ finished' = IF Finishes(closing) THEN finished + 1 ELSE finished

\* force_close_cb, before closed_cb or after
ForceClosed ==
    /\ closing.force /\ UNCHANGED <<status, client, ownVars, sidecarVars>>
    /\ closing' = [closing EXCEPT !.force = FALSE] /\ finished' = finished + 1

-----------------------------------------------------------------------------
(* Connecting *)

\* salut_connection_start_connecting, salut_avahi_discovery_client_start
StartConnecting ==
    /\ status = "new" /\ status' = "connecting" /\ client' = "connecting"
    /\ UNCHANGED <<ownVars, downVars, sidecarVars>>

\* discovery_client_running: our record is out when the group is committed.
TakeCaps(s) == [s EXCEPT !.caps = pre.caps]
Announce ==
    /\ client = "connecting" /\ status = "connecting" /\ client' = "running"
    /\ own' = [TakeCaps(NoSelf) EXCEPT !.state = "announced"]
    /\ entry' = Profile(Available, own'.caps) /\ published' = entry' /\ unsent' = FALSE
    /\ pre' = [pre EXCEPT !.caps = NoCaps]
    /\ UNCHANGED <<status, wanted, changed, downVars, sidecarVars>>

\* discovery_client_running that cannot announce, or a discovery client that
\* fails: _ga_client_failure_cb, _discovery_client_state_changed_cb
ClientFails == client # "none" /\ GoDown

\* sidecars_conn_status_changed_cb: those that were asked for before
Queued == {i \in Interfaces : pending[i] # {}}

\* The service object of the entry group keeps what it is given, and each
\* update gives all of it to the network, which may fail.  The picture is in a
\* group of its own.
Updates(e) ==
    /\ entry' = e
    /\ \E ok \in BOOLEAN :
          /\ unsent' = ~ok
          /\ published' = IF ok THEN e ELSE [published EXCEPT !.picture = e.picture]
OwnStill == UNCHANGED <<own, entry, published, unsent>>

\* _self_established_cb: what was asked for before is published now; that it
\* could not be is only logged.
ForgetPreConnect(s) == s
SetPreConnect(s) == [s EXCEPT !.status = pre.status]
Established ==
    /\ own.state = "announced" /\ status = "connecting" /\ status' = "connected"
    /\ own' = [SetPreConnect(own) EXCEPT !.state = "established"]
    /\ Updates([entry EXCEPT !.status = own'.status])
    /\ loading' = loading \cup Queued
    /\ UNCHANGED <<client, pre, wanted, changed, downVars, sidecars, pending, replies>>

\* The contact manager or the room list does not start.
ManagersFail == own.state = "announced" /\ GoDown

\* tp_base_connection Disconnect
Disconnect == GoDown

-----------------------------------------------------------------------------
(* Our record *)

Change == status # "disconnected" /\ changed < MaxOwn /\ changed' = changed + 1

\* set_own_status, set_self_presence: TRUE is returned even if the network
\* does not get it.
SetPresence(s) ==
    /\ Change /\ wanted' = [wanted EXCEPT !.status = s]
    /\ IF own.state # "established"
       THEN pre' = [pre EXCEPT !.status = s] /\ OwnStill
       ELSE /\ own' = [own EXCEPT !.status = s] /\ Updates([entry EXCEPT !.status = s])
            /\ UNCHANGED pre
    /\ UNCHANGED <<status, client, downVars, sidecarVars>>

\* salut_connection_update_capabilities, announce_self_caps: with an object
\* that is not announced yet, or has these capabilities, nothing is published.
UpdateCaps(c) ==
    /\ Change /\ wanted' = [wanted EXCEPT !.caps = c]
    /\ CASE own.state = "none" -> pre' = [pre EXCEPT !.caps = c] /\ OwnStill
         [] own.state # "none" /\ own.caps = c -> UNCHANGED pre /\ OwnStill
         [] own.state # "none" /\ own.caps # c ->
              /\ own' = [own EXCEPT !.caps = c] /\ Updates([entry EXCEPT !.caps = c])
              /\ UNCHANGED pre
    /\ UNCHANGED <<status, client, downVars, sidecarVars>>

\* salut_connection_set_aliases, salut_self_set_alias, salut_avahi_self_set_alias:
\* our own object has the alias even if the network does not get it and the
\* user is told so.
SetAlias(a) ==
    /\ Change /\ status = "connected" /\ own' = [own EXCEPT !.alias = a]
    /\ Updates([entry EXCEPT !.alias = a]) /\ wanted' = [wanted EXCEPT !.alias = a]
    /\ UNCHANGED <<status, client, pre, downVars, sidecarVars>>

\* salut_avahi_self_remove_avatar
RemoveAvatar(p) == [p EXCEPT !.token = NoPicture, !.picture = NoPicture]

\* salut_connection_clear_avatar, salut_self_set_avatar of nothing
ClearAvatar ==
    /\ Change /\ status = "connected" /\ own' = [own EXCEPT !.token = NoPicture]
    /\ Updates(RemoveAvatar(entry)) /\ wanted' = RemoveAvatar(wanted)
    /\ UNCHANGED <<status, client, pre, downVars, sidecarVars>>

\* salut_connection_set_avatar, salut_self_set_avatar: the picture, then its
\* token, get to the network; if either does not, the avatar is removed, and
\* our own object keeps the token of a picture that got there.
PublishToken(p, q) == [p EXCEPT !.token = q]
PublishPicture(p, q) == [p EXCEPT !.picture = q]
SetAvatar(q) ==
    /\ Change /\ status = "connected"
    /\ \/ /\ own' = [own EXCEPT !.token = q]
          /\ entry' = PublishToken(PublishPicture(entry, q), q)
          /\ published' = entry' /\ unsent' = FALSE
          /\ wanted' = [wanted EXCEPT !.token = q, !.picture = q]
       \/ /\ \E there \in BOOLEAN : own' = [own EXCEPT !.token = IF there THEN q ELSE NoPicture]
          /\ Updates(RemoveAvatar(entry)) /\ wanted' = RemoveAvatar(wanted)
    /\ UNCHANGED <<status, client, pre, downVars, sidecarVars>>

-----------------------------------------------------------------------------
(* Sidecars *)

SidecarStill == UNCHANGED <<status, client, ownVars, downVars>>
Waits(r) == \E i \in Interfaces : r \in pending[i]

\* salut_connection_ensure_sidecar: made once, however many ask.
MustLoad(i) == pending[i] = {} /\ status = "connected"
EnsureSidecar(r, i) ==
    /\ replies[r] = 0 /\ ~Waits(r) /\ SidecarStill /\ UNCHANGED sidecars
    /\ IF status = "disconnected" \/ i \in sidecars
       THEN Reply({r}) /\ UNCHANGED <<pending, loading>>
       ELSE /\ pending' = [pending EXCEPT ![i] = @ \cup {r}] /\ UNCHANGED replies
            /\ loading' = IF MustLoad(i) THEN loading \cup {i} ELSE loading

\* create_sidecar_cb: a sidecar that comes after the end is thrown away.
Jettisons(i) == pending[i] = {}
ClearQueue(i) == [pending EXCEPT ![i] = {}]
SidecarCreated(i) ==
    /\ i \in loading /\ loading' = loading \ {i} /\ SidecarStill
    /\ IF Jettisons(i) THEN UNCHANGED <<sidecars, pending, replies>>
       ELSE /\ Reply(pending[i]) /\ pending' = ClearQueue(i)
            /\ sidecars' \in {sidecars, sidecars \cup {i}}
=============================================================================
