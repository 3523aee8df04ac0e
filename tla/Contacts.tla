------------------------------ MODULE Contacts ------------------------------
(***************************************************************************)
(* The contacts of one client: the browser and the resolvers that find them *)
(* on the network (avahi-contact-manager.c, avahi-contact.c), the contact   *)
(* objects and the list (contact.c, contact-manager.c), and the cache of     *)
(* their capabilities (presence-cache.c), which asks one contact for the     *)
(* capabilities behind a uri and believes the answer if its hash fits       *)
(* (disco.c).  Client composes it with the account.                         *)
(*                                                                         *)
(* A peer publishes a record on every interface, and changes it.  Capability *)
(* sets are named after the uri that is their hash; Forged is any set that   *)
(* does not hash to the uri it was asked for.                               *)
(***************************************************************************)
EXTENDS Naturals, Sequences, FiniteSets, SequencesExt, FiniteSetsExt, TLC

CONSTANTS
    Peers,
    Services,       \* interfaces on which a peer is seen
    Uris,           \* capability uris
    Records,        \* records a peer may publish: [status, uri, token]
    Avatars         \* requests for avatars

Basic == "basic"            \* not_xep_capabilities
Forged == "forged"
NoStatus == "no status"     \* a record without the key
NoToken == "no token"

ASSUME ContactsAssumption ==
    /\ Basic \notin Uris /\ Forged \notin Uris
    /\ \A r \in Records : r.uri \in Uris \cup {Basic}

VARIABLES
    record,     \* record[p]: what p publishes now
    up,         \* the peers on the network
    due,        \* due[p]: interfaces whose resolver has not yet seen record[p]
    list,       \* the contact list: "none", "waiting", "received" or "closed"
    listed,     \* handles of the contact list
    contact,    \* contact[p]: the SalutContact of that name, or Fresh
    told,       \* told[p]: the last presence of p that clients were told
    known,      \* known[u]: the capabilities cached for u
    waiting,    \* waiting[u]: disco_pending, the latest waiter first
    flights,    \* flights[p, u]: unanswered requests to p about u
    failed,     \* uris of which a request got an error or no answer
    answers,    \* answers[q]: answers to a request for an avatar
    scenario    \* what is left for the peers and the users to do

contactVars ==
    <<record, up, due, list, listed, contact, told, known, waiting, flights, failed, answers, scenario>>

\* salut_contact_init, salut_avahi_contact_init
Fresh == [services |-> {}, held |-> FALSE, found |-> FALSE, status |-> "available",
          timer |-> FALSE, caps |-> Basic, token |-> NoToken,
          wants |-> {},             \* avatar_requests
          fetching |-> FALSE,       \* record_browser
          talk |-> {}]              \* what the text chat has it for

ContactsInit ==
    /\ due = [p \in Peers |-> Services]
    /\ listed = {} /\ contact = [p \in Peers |-> Fresh] /\ told = [p \in Peers |-> "offline"]
    /\ known = [u \in Uris |-> Basic] /\ waiting = [u \in Uris |-> <<>>]
    /\ flights = [p \in Peers, u \in Uris |-> 0] /\ failed = {}
    /\ answers = [q \in Avatars |-> 0]

Running == list \in {"waiting", "received"}
Spend(what) == scenario[what] > 0 /\ scenario' = [scenario EXCEPT ![what] = @ - 1]

-----------------------------------------------------------------------------
(* References *)

Waiters(ws, u) == {w.contact : w \in ToSet(ws[u])}

\* A contact lives while a resolver, a user, a chat, a waiter or a request has it.
Alive(p, c, ws, fs) ==
    \/ c.services # {} \/ c.held \/ c.talk # {}
    \/ \E u \in Uris : p \in Waiters(ws, u) \/ fs[p, u] > 0

\* The contacts after a step of the handlers gave cs, ws and fs, with the
\* avatar requests in done answered.  A contact that is disposed of answers
\* those that are left (salut_contact_dispose, _contact_finalized_cb).
Become(cs, ws, fs, done) ==
    LET dead == {p \in Peers : ~Alive(p, cs[p], ws, fs)}
        all == done \cup UNION {cs[p].wants : p \in dead}
    IN  /\ contact' = [p \in Peers |-> IF p \in dead THEN Fresh ELSE cs[p]]
        /\ waiting' = ws /\ flights' = fs
        /\ answers' = [q \in Avatars |-> IF q \in all THEN answers[q] + 1 ELSE answers[q]]

With(p, c) == [contact EXCEPT ![p] = c]
Replace(p, c, done) == Become(With(p, c), waiting, flights, done)

-----------------------------------------------------------------------------
(* The network *)

\* A peer appears, or changes its record: every resolver will see it.
Publish(p) ==
    /\ Spend("changes")
    /\ \E r \in Records \ (IF p \in up THEN {record[p]} ELSE {}) : record' = [record EXCEPT ![p] = r]
    /\ up' = up \cup {p} /\ due' = [due EXCEPT ![p] = Services]
    /\ UNCHANGED <<list, listed, contact, told, known, waiting, flights, failed, answers>>

Depart(p) ==
    /\ p \in up /\ Spend("changes") /\ up' = up \ {p}
    /\ UNCHANGED <<record, due, list, listed, contact, told, known, waiting, flights, failed, answers>>

NetworkStill == UNCHANGED <<record, up, due, scenario>>

\* browser_found, salut_avahi_contact_add_service
BrowserFound(p, s) ==
    /\ Running /\ p \in up /\ s \notin contact[p].services
    /\ Replace(p, [contact[p] EXCEPT !.services = @ \cup {s}], {})
    /\ NetworkStill /\ UNCHANGED <<list, listed, told, known, failed>>

\* salut_contact_lost
Lose(p, c) ==
    /\ Replace(p, [c EXCEPT !.status = "offline", !.found = FALSE], {})
    /\ told' = IF c.found THEN [told EXCEPT ![p] = "offline"] ELSE told
    /\ listed' = IF c.found THEN listed \ {p} ELSE listed

\* browser_removed, salut_avahi_contact_remove_service, contact_drop_resolver
IsNeverGone(c) == FALSE
IsGone(c) == c.services = {}
BrowserRemoved(p, s) ==
    /\ Running /\ p \notin up /\ s \in contact[p].services
    /\ LET c == [contact[p] EXCEPT !.services = @ \ {s}]
       IN  IF IsGone(c) THEN Lose(p, c) ELSE Replace(p, c, {}) /\ UNCHANGED <<told, listed>>
    /\ NetworkStill /\ UNCHANGED <<list, known, failed>>

\* contact_failed_cb: the resolver may come back.
ResolverFails(p, s) ==
    /\ Running /\ s \in contact[p].services /\ Spend("failures")
    /\ Replace(p, [contact[p] EXCEPT !.timer = TRUE], {})
    /\ due' = [due EXCEPT ![p] = @ \cup {s}]
    /\ UNCHANGED <<record, up, list, listed, told, known, failed>>

\* presence_resolver_failed_timeout
ResolverTimeout(p) ==
    /\ Running /\ contact[p].timer
    /\ Lose(p, [contact[p] EXCEPT !.timer = FALSE])
    /\ NetworkStill /\ UNCHANGED <<list, known, failed>>

\* browser_all_for_now, salut_contact_manager_all_for_now_cb
AllForNow ==
    /\ list = "waiting" /\ list' = "received" /\ NetworkStill
    /\ UNCHANGED <<listed, contact, told, known, waiting, flights, failed, answers>>

-----------------------------------------------------------------------------
(* Capabilities *)

\* salut_disco_request
Ask(fs, ps, u) == [f \in DOMAIN fs |-> IF f \in ps \X {u} THEN fs[f] + 1 ELSE fs[f]]

\* salut_presence_cache_process_caps: from the cache, or from who is asked
MustAsk(ws, u) == ws[u] = <<>>
FromCache(u) == u = Basic \/ known[u] # Basic
CapsOf(u) == IF u = Basic THEN Basic ELSE known[u]
Wait(p, u) ==
    [waiting EXCEPT ![u] = <<[contact |-> p, asked |-> MustAsk(waiting, u)]>> \o @]

\* salut_avahi_contact_retrieve_avatar: without a token all get nothing.
Retrieve(c) ==
    IF c.token = NoToken THEN [c EXCEPT !.fetching = FALSE, !.wants = {}]
    ELSE [c EXCEPT !.fetching = TRUE]

\* salut_contact_change_avatar_token, purge_cached_avatar
ChangeToken(c, token) ==
    IF token = c.token THEN c
    ELSE LET d == [c EXCEPT !.token = token, !.fetching = FALSE]
         IN  IF c.wants = {} THEN d ELSE Retrieve(d)

\* contact_resolved_cb
KeepTimer(c) == c
StopTimer(c) == [c EXCEPT !.timer = FALSE]
Resolved(p, s) ==
    /\ Running /\ p \in up /\ s \in contact[p].services \cap due[p]
    /\ LET r == record[p]
           c == [ChangeToken(StopTimer(contact[p]), r.token) EXCEPT
                   !.found = TRUE,
                   !.status = IF r.status = NoStatus THEN @ ELSE r.status,
                   !.caps = IF FromCache(r.uri) THEN CapsOf(r.uri) ELSE @]
       IN  /\ IF FromCache(r.uri) THEN Replace(p, c, contact[p].wants \ c.wants)
              ELSE Become(With(p, c), Wait(p, r.uri),
                          IF MustAsk(waiting, r.uri) THEN Ask(flights, {p}, r.uri) ELSE flights,
                          contact[p].wants \ c.wants)
           /\ told' = [told EXCEPT ![p] = c.status]
    /\ listed' = listed \cup {p} /\ due' = [due EXCEPT ![p] = @ \ {s}]
    /\ UNCHANGED <<record, up, list, known, failed, scenario>>

InFlight(p, u) == flights[p, u] > 0
Landed(p, u) == [flights EXCEPT ![<<p, u>>] = @ - 1]
DiscoStill == NetworkStill /\ UNCHANGED <<list, listed, told>>

\* _caps_disco_cb without a result: the request ends, and nothing else.
DiscoError(p, u) ==
    /\ InFlight(p, u) /\ IF p \in up THEN Spend("failures") ELSE UNCHANGED scenario
    /\ Become(contact, waiting, Landed(p, u), {}) /\ failed' = failed \cup {u}
    /\ UNCHANGED <<record, up, due, list, listed, told, known>>

\* caps_req_stanza_callback, at the peer: only the current uri is answered.
DiscoSilence(p, u) ==
    /\ InFlight(p, u) /\ p \in up /\ record[p].uri # u /\ u \notin failed
    /\ failed' = failed \cup {u} /\ DiscoStill /\ UNCHANGED <<contact, known, waiting, flights, answers>>

\* _caps_disco_cb with capabilities that hash to the uri
DiscoAnswer(p, u) ==
    /\ InFlight(p, u) /\ p \in up /\ record[p].uri = u /\ DiscoStill /\ UNCHANGED failed
    /\ IF p \in Waiters(waiting, u)
       THEN /\ known' = [known EXCEPT ![u] = u]
            /\ Become([q \in Peers |-> IF q \in Waiters(waiting, u) THEN [contact[q] EXCEPT !.caps = u]
                                       ELSE contact[q]],
                      [waiting EXCEPT ![u] = <<>>], Landed(p, u), {})
       ELSE Become(contact, waiting, Landed(p, u), {}) /\ UNCHANGED known

\* ... with others: p gets nothing, everyone who was not asked yet is asked.
ServeForged(p, u) ==
    [q \in Peers |-> IF q \in Waiters(waiting, u) THEN [contact[q] EXCEPT !.caps = Forged] ELSE contact[q]]
ServeNobody(p, u) == contact
AskNobodyElse(p, u) == {}
AskTheRest(p, u) == {w.contact : w \in {x \in ToSet(waiting[u]) : ~x.asked /\ x.contact # p}}
DiscoForged(p, u) ==
    /\ InFlight(p, u) /\ p \in up /\ Spend("forgeries") /\ UNCHANGED <<record, up, due, failed, list, listed, told, known>>
    /\ IF p \in Waiters(waiting, u)
       THEN LET left == SelectSeq(waiting[u], LAMBDA w : w.contact # p)
            IN  Become(ServeNobody(p, u),
                       [waiting EXCEPT ![u] = [i \in DOMAIN left |-> [left[i] EXCEPT !.asked = TRUE]]],
                       Ask(Landed(p, u), AskTheRest(p, u), u), {})
       ELSE Become(contact, waiting, Landed(p, u), {})

\* salut_presence_cache_learn_caps
Learn(us) == known' = [u \in Uris |-> IF u \in us THEN u ELSE known[u]]

-----------------------------------------------------------------------------
(* Users of contacts *)

UserStill == UNCHANGED <<record, up, due, list, listed, told, known, failed>>

\* salut_contact_manager_ensure_contact, and its unref
Hold(p) ==
    /\ Running /\ ~contact[p].held /\ Spend("holds") /\ UserStill
    /\ Replace(p, [contact[p] EXCEPT !.held = TRUE], {})
Release(p) ==
    /\ contact[p].held /\ UserStill /\ UNCHANGED scenario
    /\ Replace(p, [contact[p] EXCEPT !.held = FALSE], {})

Unasked(q) == answers[q] = 0 /\ \A p \in Peers : q \notin contact[p].wants

\* salut_connection_request_avatar, salut_contact_get_avatar
RequestAvatar(p, q) ==
    /\ Running /\ Unasked(q) /\ Spend("avatars") /\ UserStill
    /\ LET c == contact[p]
       IN  IF c.token = NoToken THEN Replace(p, c, {q})
           ELSE Replace(p, Retrieve([c EXCEPT !.wants = @ \cup {q}]), {})

\* salut_contact_avatar_found, _all_for_now or _failure: all are answered,
\* with the avatar or an error.
AvatarArrives(p) ==
    /\ contact[p].fetching /\ UserStill /\ UNCHANGED scenario
    /\ Replace(p, [contact[p] EXCEPT !.wants = {}, !.fetching = FALSE], contact[p].wants)

-----------------------------------------------------------------------------
(* With the account *)

\* salut_contact_manager_start
StartContacts ==
    /\ list = "none" /\ list' = "waiting"
    /\ UNCHANGED <<listed, contact, told, waiting, flights, failed, answers>> /\ NetworkStill

ContactsIdle ==
    UNCHANGED <<list, listed, contact, told, waiting, flights, failed, answers>> /\ NetworkStill

\* salut_contact_manager_close_all: the contacts with resolvers are dropped.
\* The resolvers of those that others keep have nobody to tell any more.
DropResolvers(c) == [c EXCEPT !.services = {}, !.timer = FALSE, !.found = FALSE, !.talk = @ \cap {"sends"}]
CloseContacts ==
    /\ list' = "closed" /\ listed' = {} /\ NetworkStill /\ UNCHANGED <<told, failed>>
    /\ Become([p \in Peers |-> DropResolvers(contact[p])], waiting, flights, {})

\* salut_disco_dispose
DisposeDisco == [f \in DOMAIN flights |-> 0]

\* salut_presence_cache_dispose
DisposeCache ==
    /\ NetworkStill /\ UNCHANGED <<list, listed, told, known, failed>>
    /\ Become(contact, [u \in Uris |-> <<>>], DisposeDisco, {})
=============================================================================
