--------------------------- MODULE SenderWatchdog ---------------------------
(***************************************************************************)
(* The two timers that watch one member of the multicast group             *)
(* (lib/gibber/gibber-r-multicast-sender.c): the whois timer, which asks   *)
(* for or answers with the sender's name, and the fail timer, which first  *)
(* bounds the discovery of the name and then the time between two popped   *)
(* packets.  The slice of GibberRMulticastSender kept here is state, name, *)
(* whois_timer and fail_timer; the packet window of the same object is     *)
(* module SenderWindow.                                                    *)
(***************************************************************************)
EXTENDS Integers

\* GibberRMulticastSenderState: the code compares these with < and >=.
New == 0
Preparing == 1
Running == 2
DataRunning == 3
Failed == 4
UnknownFailed == 5
Stopped == 6
PendingRemoval == 7

VARIABLES
    state,     \* sender->state
    named,     \* sender->name != NULL
    whois,     \* whois_timer: 0, a request or reply source, or the id of a dead source
    fail,      \* fail_timer: 0, name_discovery_failed_cb or progress_failed_cb
    place,     \* in group->senders, in group->pending_removal, or disposed
    stopped,   \* group->stopped: the transport is disconnecting
    signalled, \* "failed" is being emitted, its handler has not answered yet
    alive,     \* the remote process still sends packets
    aborted,   \* a g_assert failed
    cancelled  \* history: a later reply came since the last packet that was popped

vars == <<state, named, whois, fail, place, stopped, signalled, alive, aborted, cancelled>>

Init ==
    /\ state = New /\ named = FALSE
    /\ whois = "request" /\ fail = "name"
    /\ place = "group" /\ stopped = FALSE
    /\ signalled = FALSE /\ alive = TRUE /\ aborted = FALSE
    /\ cancelled = FALSE

Later(s) == IF state < s THEN s ELSE state

\* Main-loop callbacks and packets are served one at a time, never in the
\* middle of the emission of "failed".
Idle == ~signalled /\ ~aborted /\ place # "freed"

\* schedule_progress_timer that removes the running timer and starts none.
ProgressTimerOnce(st, nm, f) == IF nm /\ st < Failed THEN "none" ELSE f

\* schedule_progress_timer, given the state, name and fail timer it sees.
ProgressTimer(st, nm, f) == IF nm /\ st < Failed THEN "progress" ELSE f

-----------------------------------------------------------------------------
(* Packets *)

UpdateStart ==
    /\ Idle /\ place = "group" /\ ~stopped /\ state = New
    /\ state' = Preparing
    /\ UNCHANGED <<named, whois, fail, place, stopped, signalled, alive, aborted, cancelled>>

\* do_pop_packets popped something: plain data already seen, a control
\* packet (at least Running) or data (at least DataRunning).
PopPackets ==
    /\ Idle /\ place = "group" /\ ~stopped /\ alive
    /\ state \in Preparing..Failed
    /\ \E reached \in {state, Later(Running), Later(DataRunning)}:
        /\ state' = reached
        /\ fail' = ProgressTimer(reached, named, fail)
    /\ cancelled' = FALSE
    /\ UNCHANGED <<named, whois, place, stopped, signalled, alive, aborted>>

\* The remote process dies or leaves radio range.
PeerDies ==
    /\ alive /\ alive' = FALSE
    /\ UNCHANGED <<state, named, whois, fail, place, stopped, signalled, aborted, cancelled>>

-----------------------------------------------------------------------------
(* Failure *)

\* signal_failure: cancel both timers and emit "failed", unless it is known.
SignalFailure(w, f) ==
    IF state >= Failed
    THEN whois' = w /\ fail' = f /\ UNCHANGED signalled
    ELSE whois' = "none" /\ fail' = "none" /\ signalled' = TRUE

\* The acknowledgements went backward or a message had the wrong size.
BadPacket ==
    /\ Idle /\ place = "group" /\ ~stopped /\ alive
    /\ state \in Preparing..Failed
    /\ SignalFailure(whois, fail)
    /\ UNCHANGED <<state, named, place, stopped, alive, aborted, cancelled>>

\* name_discovery_failed_cb that clears the whois timer and signals nothing.
NameTimeoutSilent ==
    /\ Idle /\ fail = "name"
    /\ IF whois = "none" THEN aborted' = TRUE /\ UNCHANGED <<whois, fail>>
                         ELSE whois' = "none" /\ fail' = "none" /\ UNCHANGED aborted
    /\ UNCHANGED <<state, named, place, stopped, signalled, alive, cancelled>>

\* name_discovery_failed_cb
NameTimeout ==
    /\ Idle /\ fail = "name"
    /\ IF whois = "none"
       THEN aborted' = TRUE /\ UNCHANGED <<whois, fail, signalled>>
       ELSE SignalFailure("none", "none") /\ UNCHANGED aborted
    /\ UNCHANGED <<state, named, place, stopped, alive, cancelled>>

\* progress_failed_cb
ProgressTimeout ==
    /\ Idle /\ fail = "progress"
    /\ SignalFailure(whois, "none")
    /\ UNCHANGED <<state, named, place, stopped, alive, aborted, cancelled>>

\* set_failed, from the handler of "failed" or because another member failed it.
SetFailed ==
    /\ ~aborted /\ place = "group" /\ ~stopped /\ state < Failed
    /\ state' = (IF state < Preparing THEN UnknownFailed ELSE Failed)
    /\ whois' = "none" /\ fail' = "none" /\ signalled' = FALSE
    /\ UNCHANGED <<named, place, stopped, alive, aborted, cancelled>>

-----------------------------------------------------------------------------
(* Names *)

\* do_whois_request without the call of schedule_whois_request.
WhoisRequestTimeoutOnce ==
    /\ Idle /\ whois = "request"
    /\ whois' = "none"
    /\ UNCHANGED <<state, named, fail, place, stopped, signalled, alive, aborted, cancelled>>

\* do_whois_request: schedule_whois_request returns at once for a failed
\* sender and leaves the id of the source that is now destroyed.
WhoisRequestTimeout ==
    /\ Idle /\ whois = "request"
    /\ whois' = (IF state >= Failed THEN "dead" ELSE "request")
    /\ UNCHANGED <<state, named, fail, place, stopped, signalled, alive, aborted, cancelled>>

\* do_whois_reply
WhoisReplyTimeout ==
    /\ Idle /\ whois = "reply"
    /\ whois' = "none"
    /\ UNCHANGED <<state, named, fail, place, stopped, signalled, alive, aborted, cancelled>>

\* whois_push of a WHOIS_REQUEST of another member: senders pending removal are asked too.
WhoisRequest ==
    /\ Idle /\ ~stopped
    /\ \/ named /\ whois = "none" /\ whois' = "reply"
       \/ ~named /\ state < Failed /\ whois' = "request"
    /\ UNCHANGED <<state, named, fail, place, stopped, signalled, alive, aborted, cancelled>>

\* whois_push of the first WHOIS_REPLY: name_discovered.
NameDiscovered ==
    /\ Idle /\ place = "group" /\ ~stopped /\ ~named
    /\ named' = TRUE
    /\ whois' = "none"
    /\ fail' = ProgressTimer(state, TRUE, "none")
    /\ UNCHANGED <<state, place, stopped, signalled, alive, aborted, cancelled>>

\* whois_push of a later WHOIS_REPLY.  Replies are multicast and every member
\* that knows the name answers a request, ours and its repetitions included, so
\* one may come at any time, whoever asked and whether or not the member lives.
\* stop_whois_discovery removes whichever fail timer runs, the progress watchdog
\* included.
RedundantReply ==
    /\ Idle /\ place = "group" /\ ~stopped /\ named
    /\ whois' = "none" /\ fail' = "none" /\ cancelled' = TRUE
    /\ UNCHANGED <<state, named, place, stopped, signalled, alive, aborted>>

-----------------------------------------------------------------------------
(* The sender group *)

\* sender_group_remove: the state is PendingRemoval before sender_stop is
\* called, so sender_stop returns at once.  With nothing left in its cache the
\* sender is disposed instead, and dispose removes the timers.
GroupRemove ==
    /\ ~aborted /\ place = "group" /\ ~stopped
    /\ state' = PendingRemoval
    /\ \/ place' = "pending" /\ UNCHANGED <<whois, fail>>
       \/ place' = "freed" /\ whois' = "none" /\ fail' = "none"
    /\ signalled' = FALSE
    /\ UNCHANGED <<named, stopped, alive, aborted, cancelled>>

\* group_gc drops a pending sender; group_free drops all of them.
Dispose ==
    /\ Idle
    /\ \/ place = "pending"
       \/ stopped
    /\ place' = "freed" /\ whois' = "none" /\ fail' = "none"
    /\ UNCHANGED <<state, named, stopped, signalled, alive, aborted, cancelled>>

\* sender_group_stop: sender_stop of every sender still in group->senders;
\* the fail timer is not touched.
GroupStop ==
    /\ Idle /\ ~stopped
    /\ stopped' = TRUE
    /\ IF place = "group" /\ state < Stopped
       THEN state' = Stopped /\ whois' = "none"
       ELSE UNCHANGED <<state, whois>>
    /\ UNCHANGED <<named, fail, place, signalled, alive, aborted, cancelled>>

Next ==
    \/ UpdateStart \/ PopPackets \/ PeerDies \/ BadPacket
    \/ NameTimeout \/ ProgressTimeout \/ SetFailed
    \/ WhoisRequestTimeout \/ WhoisReplyTimeout \/ WhoisRequest
    \/ NameDiscovered \/ RedundantReply
    \/ GroupRemove \/ GroupStop \/ Dispose

\* GLib fires a timer that stays armed, and emits signals synchronously.
Fairness ==
    /\ WF_vars(NameTimeout)
    /\ WF_vars(ProgressTimeout)
    /\ WF_vars(signalled /\ (SetFailed \/ GroupRemove))

Spec == Init /\ [][Next]_vars
FairSpec == Spec /\ Fairness

-----------------------------------------------------------------------------
(* Properties *)

TypeOK ==
    /\ state \in New..PendingRemoval
    /\ named \in BOOLEAN /\ stopped \in BOOLEAN /\ signalled \in BOOLEAN
    /\ alive \in BOOLEAN /\ aborted \in BOOLEAN /\ cancelled \in BOOLEAN
    /\ whois \in {"none", "request", "reply", "dead"}
    /\ fail \in {"none", "name", "progress"}
    /\ place \in {"group", "pending", "freed"}

Watched == place = "group" /\ ~stopped /\ ~signalled /\ state < Failed

\* A member whose name is not known yet is always being asked for it and
\* always has the name timer running: neither is lost in any order of
\* requests, replies and timeouts.
NamelessIsWatched ==
    Watched /\ ~named => whois = "request" /\ fail = "name"

\* A member that failed has no watchdog left, so it is not failed a second
\* time and not asked for its name ("failed, no need to get our name
\* anymore", gibber-r-multicast-sender.c:903).
FailedIsNotWatched ==
    state \in {Failed, UnknownFailed} => fail = "none" /\ whois # "request"

\* The state only moves forward, which set_state asserts.
StateAdvances == [][state' >= state]_state

\* Within the name timer a member is named or leaves the group of live senders.
NameOrFailure == (Watched /\ ~named) ~> (named \/ state >= Failed)

\* A member whose name is known is always under the progress watchdog, which
\* every popped packet starts anew, unless a later WHOIS_REPLY came since the
\* last one: the timer is lost in no other order of pops, failures and requests.
NamedIsWatched ==
    Watched /\ named /\ ~cancelled => fail = "progress"

\* A live member is always under the watchdog that its name calls for: the two
\* share one timer id, and none is lost where the other is started or stopped.
LiveIsWatched == NamelessIsWatched /\ NamedIsWatched

\* A member that fell silent is eventually failed, unless a later WHOIS_REPLY
\* took its watchdog away: the code stops the timer then, although "at least one
\* packet must be popped every 5 minutes" (gibber-r-multicast-sender.c:55), and
\* only another packet of the member starts it.
SilentIsFailedUnlessCancelled ==
    (Watched /\ ~alive /\ ~cancelled) ~> (state >= Failed \/ cancelled)

=============================================================================
