----------------------------- MODULE Membership -----------------------------
(***************************************************************************)
(* How the members of a room come to agree on who is in it                 *)
(* (gibber-r-multicast-transport.c).  A node that hears a foreign packet    *)
(* gathers: ATTEMPT_JOIN packets collect the start of everybody's stream.  *)
(* After some quiet it sends a JOIN with its view, members by dependency   *)
(* and failures by name, and waits until everybody in the view has sent    *)
(* the same; a JOIN that knows more starts the phase again.  Meanwhile     *)
(* data is held back, and members crash, leave or are suspected.           *)
(*                                                                         *)
(* The stream of every node is reliable and causally ordered, which is     *)
(* CausalGroup's subject: here a packet is read at any time once what it    *)
(* depends on was, or never.  A node is one record, and a handler an        *)
(* operator from record to record; what it sends is appended to `sent`.    *)
(***************************************************************************)
EXTENDS Integers, Sequences, FiniteSets, FiniteSetsExt

CONSTANTS
    Ids,         \* identifiers, numbers: an equal ATTEMPT_JOIN of a higher one wins
    Scenarios,   \* bound: who is together at first, sends, fails, ...
    MaxAttempts, \* bound: ATTEMPT_JOIN packets of a node
    MaxJoins     \* bound: JOIN packets of a node that its own timer starts

ASSUME MembershipAssumption ==
    /\ Ids \subseteq Nat \ {0}
    /\ MaxAttempts \in Nat /\ MaxJoins \in Nat
    /\ \A sc \in Scenarios :
        sc \in [name : [Ids -> STRING], group : [Ids -> Nat], data : [Ids -> Nat], faulty : SUBSET Ids,
                suspects : SUBSET Ids, slow : SUBSET Ids, hasty : BOOLEAN]

VARIABLES
    node,     \* node[n]: the transport of n
    scenario  \* the scenario of this behaviour; name[i]: who has identifier i

vars == <<node, scenario>>

None == "none"
NoPos == -1
Nobody == 0   \* no identifier

\* MemberState; Absent: no MemberInfo.
Absent == -1
Unknown == 0
AttemptJoinStarted == 1
AttemptJoinRepeat == 2
AttemptJoinDone == 3
Member == 5
Failing == 6
MemberFailing == 7
InstantFailure == 8

Each(v) == [m \in Ids |-> v]

\* A transport that shares its group with the others of `together`: nobody has
\* sent anything yet, and packets are counted from the last JOIN.
NewNode(n, together) ==
    [mode |-> "normal",
     state |-> [m \in Ids |-> IF m \in together \ {n} THEN Member ELSE Absent],
     \* the GibberRMulticastSender of m: "none", "new" (no start), "running", "failed"
     link |-> [m \in Ids |-> IF m \in together \ {n} THEN "running" ELSE "none"],
     named |-> together \ {n},   \* senders whose name is known
     out |-> Each(0),            \* next_output_packet
     end |-> Each(0),            \* end_point of a failed sender
     start |-> [m \in Ids |-> IF m \in together \ {n} THEN 0 ELSE NoPos], \* data start
     held |-> Each(NoPos),       \* holding_point
     waiting |-> Each({}),       \* data read and held back
     agreed |-> {},              \* agreed_join
     join |-> Each(NoPos),       \* join_packet_id
     failures |-> Each({}),      \* what each member has failed
     failTimers |-> {},
     sendJoin |-> {}, sendFailures |-> {}, pending |-> {},
     timeout |-> None,           \* source of priv->timeout: None, "attempt", "join", "stale"
     joiningTimeout |-> FALSE,
     repeating |-> FALSE, sendEmpty |-> FALSE,
     sent |-> <<>>,
     shown |-> {scenario.name[m] : m \in together \ {n}},  \* what new- and lost-senders have said
     view |-> [at |-> Each(NoPos), who |-> together], \* the last view agreed on, by which JOINs
     fault |-> None]             \* the assertion or NULL pointer that ended the process

Init ==
    /\ scenario \in Scenarios
    /\ node = [n \in Ids |->
        IF scenario.group[n] = Nobody THEN [NewNode(n, {n}) EXCEPT !.mode = "left"]
        ELSE NewNode(n, {m \in Ids : scenario.group[m] = scenario.group[n]})]

Running == {"normal", "gathering", "joining"}
Live == {n \in Ids : node[n].mode \in Running /\ node[n].fault = None}

Faulted(r, what) == [r EXCEPT !.fault = IF @ = None THEN what ELSE @]

-----------------------------------------------------------------------------
(* The causal transport, as this module uses it *)

\* add_packet_depends, and packet_id++.
Send(r, n, kind, ids) ==
    [r EXCEPT !.sent = Append(@,
        [kind |-> kind, ids |-> ids,
         deps |-> [m \in Ids |-> IF m # n /\ r.link[m] = "running" THEN r.out[m] ELSE NoPos]])]

\* add_sender: a name is asked for and known soon, or after a while.
AddSenders(r, S) ==
    LET fresh == {m \in S : r.link[m] = "none"}
    IN  [r EXCEPT !.link = [m \in Ids |-> IF m \in fresh THEN "new" ELSE @[m]],
                  !.named = @ \cup (fresh \ scenario.slow)]

\* remove_sender
RemoveSender(r, id) ==
    [r EXCEPT !.link[id] = "none", !.named = @ \ {id}, !.out[id] = 0, !.end[id] = 0,
              !.start[id] = NoPos, !.held[id] = NoPos, !.waiting[id] = {}]

\* sender_set_failed
SetFailed(r, S) ==
    [r EXCEPT !.link = [m \in Ids |-> IF m \in S /\ r.link[m] \in {"new", "running"} THEN "failed" ELSE @[m]],
              !.end = [m \in Ids |-> IF m \in S /\ r.link[m] = "running" THEN r.out[m] ELSE @[m]],
              !.fault = IF \E m \in S : r.link[m] = "none" THEN "get_sender" ELSE @]

RemoveMember(r, id) ==
    [r EXCEPT !.state[id] = Absent, !.agreed = @ \ {id}, !.join[id] = NoPos,
              !.failures[id] = {}, !.failTimers = @ \ {id}]

\* received_data of a packet at or behind the data start.
DeliverData(r, s, i) ==
    IF r.start[s] = NoPos \/ i < r.start[s] THEN r
    ELSE IF r.state[s] \in {Member, MemberFailing} THEN r
    ELSE Faulted(r, "received_data")

\* release_data of the senders of S.
ReleaseData(r, S) ==
    LET released == [r EXCEPT !.held = [m \in Ids |-> IF m \in S THEN NoPos ELSE @[m]],
                              !.waiting = [m \in Ids |-> IF m \in S THEN {} ELSE @[m]]]
        early == \E m \in S : \E i \in r.waiting[m] : DeliverData(r, m, i).fault # None
    IN  IF \E m \in S : r.link[m] = "none" THEN Faulted(released, "get_sender")
        ELSE IF early THEN Faulted(released, "received_data") ELSE released

FlushState(r) ==
    [r EXCEPT !.repeating = FALSE, !.sendEmpty = FALSE, !.timeout = None,
              !.joiningTimeout = FALSE, !.sendJoin = {}, !.sendFailures = {}, !.pending = {},
              !.state = Each(Absent), !.agreed = {}, !.join = Each(NoPos),
              !.failures = Each({}), !.failTimers = {}]

\* reset: this identifier ends with a BYE; the node comes back as another one.
Reset(r, n) ==
    [FlushState(r) EXCEPT !.mode = "resetting",
        !.sent = Append(@, [kind |-> "bye", ids |-> {n}, deps |-> Each(NoPos)])]

-----------------------------------------------------------------------------
(* Gathering *)

Level(r, id) == IF r.state[id] = Absent THEN Unknown ELSE r.state[id]

\* update_member of the members in the domain of `at`: their state rises to
\* `new`, and one that gains a start point is followed from there.
UpdateMembers(r, n, at, new) ==
    LET S == DOMAIN at \ {n}
        q == AddSenders(r, S)
        changed == {m \in S : Level(r, m) < new}
        started == {m \in changed : new >= AttemptJoinRepeat /\ (q.link[m] = "new" \/ q.out[m] < at[m])}
    IN  [q EXCEPT
            !.state = [m \in Ids |-> IF m \in changed THEN new
                                     ELSE IF m \in S THEN Level(r, m) ELSE @[m]],
            !.link = [m \in Ids |-> IF m \in started THEN "running" ELSE @[m]],
            !.out = [m \in Ids |-> IF m \in started THEN at[m] ELSE @[m]],
            !.waiting = [m \in Ids |-> IF m \in started THEN {} ELSE @[m]],
            !.fault = IF \E m \in changed : new >= AttemptJoinRepeat /\ q.link[m] = "failed"
                      THEN "update_start" ELSE @]

Changes(r, n, S, new) == \E m \in S \ {n} : Level(r, m) < new

Mentioned(p) == {m \in Ids : p.deps[m] # NoPos}

\* update_foreign_member_list: the sender s of packet i, and whom it names.
PacketStarts(s, i, p) == [m \in Mentioned(p) \cup {s} |-> IF m = s THEN i + 1 ELSE p.deps[m]]

\* continue_gathering_phase
ContinueGathering(r) ==
    IF r.mode = "joining" THEN Faulted(r, "continue_gathering_phase")
    ELSE [r EXCEPT !.mode = "gathering", !.joiningTimeout = TRUE]

\* send_attempt_join
SendAttemptJoin(r, empty) ==
    [ContinueGathering(r) EXCEPT !.sendEmpty = @ \/ empty,
                                 !.timeout = IF @ = None THEN "attempt" ELSE @]

\* stop_send_attempt_join
StopSendAttemptJoin(r) == [r EXCEPT !.repeating = FALSE, !.timeout = None]

\* A member that misses the start of the sender of an ATTEMPT_JOIN may take the
\* start points in it; the same packet may also answer its own question.
ForeignAttempt(r, n, s, i, p) ==
    IF n \in p.ids
    THEN SendAttemptJoin(UpdateMembers(r, n, PacketStarts(s, i, p), AttemptJoinRepeat), TRUE)
    ELSE IF r.state[s] = AttemptJoinStarted
    THEN SendAttemptJoin(UpdateMembers(r, n, PacketStarts(s, i, p), AttemptJoinDone), TRUE)
    ELSE r

\* received_foreign_packet_cb of anything but BYE.
ReceivedForeign(r, n, s, i, p) ==
    LET known == AddSenders(r, {s})
    IN  IF r.mode = "joining" THEN r
        ELSE IF p.kind = "attempt" /\ (n \in p.ids \/ n \in Mentioned(p))
        THEN ForeignAttempt(known, n, s, i, p)
        ELSE SendAttemptJoin(UpdateMembers(known, n, PacketStarts(s, i, p), Unknown), FALSE)

\* do_send_attempt_join
DoSendAttemptJoin(r, n) ==
    LET asked == {m \in Ids : r.state[m] \in {Unknown, AttemptJoinStarted}}
        repeat == asked # {} \/ \E m \in Ids : r.state[m] = AttemptJoinRepeat
        q == [r EXCEPT !.timeout = None, !.repeating = repeat,
                       !.state = [m \in Ids |-> IF m \in asked THEN AttemptJoinStarted ELSE @[m]]]
    IN  IF r.sendEmpty \/ repeat
        THEN [Send(q, n, "attempt", asked) EXCEPT !.sendEmpty = FALSE]
        ELSE q

\* cmp_attempt_join_state: 1 if the packet knows all that we do and more.
CompareAttempt(r, n, p) ==
    LET members == {m \in Ids : r.state[m] # Absent}
    IN  IF \/ \E m \in members : IF m \in p.ids THEN r.state[m] > AttemptJoinStarted
                                                 ELSE m \notin Mentioned(p)
           \/ n \notin p.ids \cup Mentioned(p)
        THEN -1
        ELSE IF Cardinality(members) + 1 = Cardinality(p.ids) + Cardinality(Mentioned(p)) THEN 0 ELSE 1

\* ATTEMPT_JOIN of a member: packet i of s.
ReceivedAttempt(r, n, s, i, p) ==
    LET compared == CompareAttempt(r, n, p)
        asks == [m \in p.ids |-> 0]
        new == IF n \in p.ids THEN AttemptJoinRepeat ELSE AttemptJoinDone
        q == UpdateMembers(r, n, asks, AttemptJoinStarted)
        changed == Changes(r, n, p.ids, AttemptJoinStarted) \/ Changes(q, n, Mentioned(p) \cup {s}, new)
        g == ContinueGathering(UpdateMembers(q, n, PacketStarts(s, i, p), new))
    IN  IF r.mode = "joining" THEN r
        ELSE CASE compared = 1 -> IF changed THEN StopSendAttemptJoin(g) ELSE Faulted(g, "changed")
               [] compared = 0 -> IF g.timeout # None \/ s > n THEN StopSendAttemptJoin(g) ELSE g
               [] OTHER -> IF changed THEN SendAttemptJoin(g, FALSE) ELSE g

-----------------------------------------------------------------------------
(* Joining *)

\* check_join_state and fail_duplicated: who has no start is failed at once,
\* who has no name is failing, and so is a member whose name a new one has; of
\* two new ones with a name, the one that comes first in the table stays.
Nameless(r) == {m \in Ids : r.state[m] \in AttemptJoinRepeat..Member /\ m \notin r.named}
Duplicated(r) ==
    LET candidates == {m \in Ids : r.state[m] \in AttemptJoinRepeat..Member} \cap r.named
        newcomers == {m \in candidates : r.state[m] < Member}
    IN  {m \in candidates : \E k \in newcomers \ {m} :
            scenario.name[k] = scenario.name[m] /\ (m \in newcomers => k < m)}

SilentAtFirst(r) == {m \in Ids : r.state[m] = Unknown}
Silent(r) == {m \in Ids : r.state[m] \in Unknown..AttemptJoinStarted}
CheckJoinState(r) ==
    LET failing == Nameless(r) \cup Duplicated(r)
        q == FoldSet(LAMBDA m, acc : RemoveSender(acc, m), r, Silent(r))
    IN  [q EXCEPT !.state = [m \in Ids |-> IF m \in Silent(r) THEN InstantFailure
                                           ELSE IF m \in failing THEN Failing ELSE @[m]],
                  !.pending = @ \cup failing]

\* setup_joining_phase and add_to_join
SetupJoining(r) ==
    LET q == IF r.mode = "gathering"
             THEN [CheckJoinState(StopSendAttemptJoin(r)) EXCEPT !.joiningTimeout = FALSE]
             ELSE r
    IN  [q EXCEPT !.mode = "joining", !.agreed = {},
                  !.sendJoin = {m \in Ids : q.state[m] \in AttemptJoinRepeat..Member},
                  !.sendFailures = {m \in Ids : q.state[m] >= Failing},
                  !.fault = IF \E m \in Ids : q.state[m] \in Unknown..AttemptJoinStarted
                            THEN "add_to_join" ELSE @]

\* start_joining_phase: what failed since the last packet goes with the JOIN.
StartJoining(r, n) ==
    LET q == SetupJoining(r)
    IN  [SetFailed(Send(q, n, "join", q.sendFailures), q.pending) EXCEPT
            !.pending = {}, !.timeout = "join"]

\* Ours has a failure or a member that the JOIN does not have; only the numbers
\* are compared.
KnowsMoreMembers(r, n, p) == Cardinality(Mentioned(p) \cap (r.sendJoin \cup {n})) # Cardinality(r.sendJoin)
KnowsMore(r, n, p) ==
    \/ Cardinality(r.sendFailures) # Cardinality(p.ids)
    \/ Cardinality(Mentioned(p) \cap (r.sendJoin \cup {n})) # Cardinality(r.sendJoin)

\* What a JOIN names that ours does not.
Strangers(r, n, p) == Mentioned(p) \ (r.sendJoin \cup r.sendFailures \cup {n})

\* check_join: a JOIN of s against ours, and what we learn from its failures.
CheckJoin(r, n, s, p) ==
    LET news == {m \in p.ids : r.state[m] < Failing}
        started == {m \in news : r.state[m] >= AttemptJoinRepeat}
        strangers == Strangers(r, n, p)
        judged == [r EXCEPT
            !.state = [m \in Ids |-> IF m \notin news THEN @[m]
                                     ELSE IF m \notin started THEN InstantFailure
                                     ELSE IF r.state[m] = Member THEN MemberFailing ELSE Failing],
            !.pending = @ \cup started]
    IN  IF n \in p.ids THEN [result |-> "failed", r |-> Reset(r, n)]
        ELSE IF news # {} THEN [result |-> "less", r |-> judged]
        ELSE IF n \notin Mentioned(p) THEN [result |-> "failed", r |-> Reset(r, n)]
        ELSE IF strangers # {}
        THEN [result |-> "less",
              r |-> [r EXCEPT !.state = [m \in Ids |-> IF m \in strangers THEN InstantFailure ELSE @[m]]]]
        ELSE [result |-> IF KnowsMore(r, n, p) THEN "more" ELSE "equal", r |-> r]

\* The members of our JOIN whose answer is still missing; one whose failure is
\* complete need not answer.
Awaited(r) == {m \in r.sendJoin : r.state[m] \in Unknown..MemberFailing /\ m \notin r.agreed}

LastJoin(r) == Max({i - 1 : i \in {k \in 1..Len(r.sent) : r.sent[k].kind = "join"}})

\* The end of check_join_agreement.
EndJoinKeepingTimeout(r) == [r EXCEPT !.mode = "normal", !.sendJoin = {}, !.sendFailures = {}]
EndJoin(r) == [r EXCEPT !.mode = "normal", !.timeout = None, !.sendJoin = {}, !.sendFailures = {}]

\* What is left of the view: the failures of the JOIN go, with their senders;
\* who agreed and was failed afterwards goes from the table only.
FinishJoin(r, n) ==
    LET gone == {m \in r.sendFailures : r.state[m] \in {Failing, MemberFailing}}
        lost == {m \in gone : r.state[m] = MemberFailing}
        new == {m \in r.sendJoin : r.state[m] \in Unknown..(Member - 1)}
        leaving == r.sendFailures \cup {m \in r.sendJoin : r.state[m] >= Failing}
        cut == FoldSet(LAMBDA m, acc : RemoveSender(acc, m), r, gone)
        left == FoldSet(LAMBDA m, acc : RemoveMember(acc, m),
                        [cut EXCEPT !.failures = [m \in Ids |-> @[m] \ gone]], leaving)
        members == {m \in Ids : left.state[m] # Absent}
    IN  ReleaseData(
          EndJoin([left EXCEPT
            !.state = [m \in Ids |-> IF m \in new THEN Member ELSE @[m]],
            !.start = [m \in Ids |-> IF m \in new THEN r.join[m] ELSE @[m]],
            !.shown = (@ \ {scenario.name[m] : m \in lost}) \cup {scenario.name[m] : m \in new},
            !.view = [at |-> [m \in Ids |-> IF m = n THEN LastJoin(r)
                                            ELSE IF m \in r.agreed THEN r.join[m] ELSE NoPos],
                      who |-> {n} \cup r.sendJoin],
            !.fault = IF @ # None THEN @
                      ELSE IF \E m \in r.sendFailures : r.state[m] < Failing THEN "check_join_agreement"
                      ELSE IF \E m \in lost \cup new : r.link[m] = "none" THEN "get_sender" ELSE @]),
          members)

\* check_join_agreement; it trusts that there is a JOIN to agree on.
CheckJoinAgreement(r, n) ==
    IF r.mode # "joining" THEN Faulted(r, "send_join")
    ELSE IF Awaited(r) # {} THEN r ELSE FinishJoin(r, n)

-----------------------------------------------------------------------------
(* Failure *)

\* find_unfailed_member
Unfailed(r, id) == {m \in Ids : r.state[m] \in AttemptJoinDone..Member /\ id \notin r.failures[m]}

\* check_failure_completion once all have failed id.  While joining the entry
\* stays, for the JOIN has to name it.
CompleteFailure(r, n, id) ==
    LET told == [r EXCEPT !.failures = [m \in Ids |-> @[m] \ {id}],
                          !.shown = IF r.state[id] = MemberFailing THEN @ \ {scenario.name[id]} ELSE @]
        q == RemoveSender(told, id)
    IN  IF r.mode = "joining"
        THEN CheckJoinAgreement([q EXCEPT !.state[id] = InstantFailure, !.failTimers = @ \ {id}], n)
        ELSE RemoveMember(q, id)

\* recheck_failures: one completed failure may complete others.
RecheckFailures(r, n) ==
    LET complete(q) == {m \in Ids : q.state[m] \in {Failing, MemberFailing} /\ Unfailed(q, m) = {}}
        after[k \in 0..Cardinality(Ids)] ==
            IF k = 0 THEN r
            ELSE LET q == after[k - 1]
                 IN  IF complete(q) = {} THEN q
                     ELSE CompleteFailure(q, n, CHOOSE m \in complete(q) : TRUE)
    IN  after[Cardinality(Ids)]

CheckFailureCompletion(r, n, id) ==
    IF Unfailed(r, id) # {} THEN r ELSE RecheckFailures(CompleteFailure(r, n, id), n)

\* fail_member, reported by `reporter` or by Nobody.
FailMember(r, n, reporter, id) ==
    LET new == r.state[id] < Failing
        marked == IF new THEN [r EXCEPT !.state[id] = IF @ = Member THEN MemberFailing ELSE Failing,
                                        !.failTimers = @ \cup {id}]
                  ELSE r
        announced == IF new THEN SetFailed(Send(marked, n, "failure", {id}), {id}) ELSE marked
        noted == IF reporter = Nobody \/ r.state[reporter] = Absent THEN announced
                 ELSE [announced EXCEPT !.failures[reporter] = @ \cup {id}]
    IN  IF id = n THEN Reset(r, n)
        ELSE IF r.state[id] < AttemptJoinRepeat
        THEN [RemoveSender(r, id) EXCEPT !.state[id] = IF @ = Absent THEN Absent ELSE InstantFailure]
        ELSE CheckFailureCompletion(noted, n, id)

\* handle_failure_packet: the sender has an entry afterwards, if it had none.
ReceivedFailure(r, n, s, p) ==
    FoldSet(LAMBDA id, acc : FailMember(acc, n, s, id),
            [r EXCEPT !.state[s] = Level(r, s)], p.ids)

-----------------------------------------------------------------------------
(* Control packets *)

\* JOIN: packet i of s.  NULL pointers: a sender without MemberInfo.
ReceivedJoin(r, n, s, i, p) ==
    LET noted == [r EXCEPT !.held[s] = i, !.join[s] = i]
        set == SetupJoining(noted)
        first == CheckJoin(set, n, s, p)
        ours == IF r.mode = "joining" THEN noted ELSE StartJoining(first.r, n)
        check == CheckJoin(ours, n, s, p)
        again == CheckJoin(StartJoining(check.r, n), n, s, p)
        agrees(q) == [q EXCEPT !.agreed = @ \cup {s}]
    IN  IF r.mode = "normal" THEN r
        ELSE IF r.state[s] = Absent THEN Faulted(r, "info")
        ELSE IF r.mode = "gathering" /\ first.result = "failed" THEN first.r
        ELSE CASE check.result = "equal" -> CheckJoinAgreement(agrees(ours), n)
               [] check.result = "more" -> ReleaseData(ours, {s})
               [] check.result = "less" ->
                    CheckJoinAgreement(IF again.result = "equal" THEN agrees(again.r) ELSE again.r, n)
               [] check.result = "failed" -> check.r

ReceivedControl(r, n, s, i, p) ==
    CASE p.kind = "attempt" -> ReceivedAttempt(r, n, s, i, p)
      [] p.kind = "join" -> ReceivedJoin(r, n, s, i, p)
      [] p.kind = "failure" -> ReceivedFailure(r, n, s, p)
      [] p.kind = "bye" -> FailMember(r, n, Nobody, s)

-----------------------------------------------------------------------------
(* Actions *)

Becomes(n, r) == node' = [node EXCEPT ![n] = r] /\ UNCHANGED scenario

Count(n, kind) == Cardinality({i \in 1..Len(node[n].sent) : node[n].sent[i].kind = kind})

SendData(n) ==
    /\ n \in Live /\ Count(n, "data") < scenario.data[n]
    /\ Becomes(n, Send(node[n], n, "data", {}))

Crash(n) == n \in Live \cap scenario.faulty /\ Becomes(n, [node[n] EXCEPT !.mode = "crashed"])

\* gibber_r_multicast_transport_disconnect
Leave(n) ==
    /\ n \in Live \cap scenario.faulty
    /\ Becomes(n, [Reset(node[n], n) EXCEPT !.mode = "left"])

\* A packet of s that n does not follow reaches it: the last it sent, ...
Foreign(n, s) ==
    /\ {n, s} \subseteq Live /\ n # s /\ node[n].link[s] \in {"none", "new"}
    /\ LET i == Len(node[s].sent)  p == node[s].sent[i]
       IN  i # 0 /\ p.kind # "bye" /\ Becomes(n, ReceivedForeign(node[n], n, s, i - 1, p))

\* ... or a session message (sendout_session_cb), which names those it follows.
ForeignSession(n, s) ==
    /\ {n, s} \subseteq Live /\ n # s /\ node[n].link[s] \in {"none", "new"}
    /\ Becomes(n, ReceivedForeign(node[n], n, s, 0,
            [kind |-> "session", ids |-> {},
             deps |-> [m \in Ids |-> IF node[s].link[m] = "running" THEN node[s].out[m] ELSE NoPos]]))

\* The next packet of s at n is here.
Readable(n, s) ==
    /\ n \in Live /\ node[n].link[s] \in {"running", "failed"}
    /\ node[n].out[s] < Len(node[s].sent)
    /\ node[n].link[s] = "failed" => node[n].out[s] < node[n].end[s]
NextPacket(n, s) == node[s].sent[node[n].out[s] + 1]

\* check_depends
Missing(n, s) == {t \in Ids \ {n} :
    node[n].link[t] \in {"running", "failed"} /\ NextPacket(n, s).deps[t] > node[n].out[t]}

\* pop_packet, pop_data_packet
Read(n, s) ==
    LET i == node[n].out[s]
        p == NextPacket(n, s)
        r == [node[n] EXCEPT !.out[s] = i + 1]
        holds == r.held[s] # NoPos /\ i >= r.held[s]
    IN  /\ Readable(n, s) /\ Missing(n, s) = {}
        /\ Becomes(n, IF p.kind # "data" THEN ReceivedControl(r, n, s, i, p)
                      ELSE IF holds THEN [r EXCEPT !.waiting[s] = @ \cup {i}]
                      ELSE DeliverData(r, s, i))

\* check_depends of a packet that waits for a failed sender asks it for more.
AskFailed(n, s, t) ==
    /\ Readable(n, s) /\ t \in Missing(n, s) /\ node[n].link[t] = "failed"
    /\ node[n].end[t] < NextPacket(n, s).deps[t]
    /\ Becomes(n, [node[n] EXCEPT !.end[t] = NextPacket(n, s).deps[t]])

\* The name of a sender is discovered.
Learn(n, s) ==
    /\ n \in Live /\ node[n].link[s] # "none" /\ s \in Live \ node[n].named
    /\ Becomes(n, [node[n] EXCEPT !.named = @ \cup {s}])

\* The watchdogs of module SenderWatchdog: sender_failed_cb.  A live node is
\* suspected before the first FAILURE only (bound).
Suspect(n, s) ==
    /\ n \in Live /\ node[n].link[s] \in {"new", "running"}
    /\ s \notin Live \/ (s \in scenario.suspects /\ Count(n, "failure") = 0)
    /\ Becomes(n, FailMember(node[n], n, Nobody, s))

AttemptTimeout(n) ==
    /\ n \in Live /\ node[n].timeout = "attempt" /\ Count(n, "attempt") < MaxAttempts
    /\ Becomes(n, DoSendAttemptJoin(node[n], n))

\* Nothing that was sent is still to be read.
Quiet == \A n, s \in Ids :
    Readable(n, s) => \E t \in Missing(n, s) :
        node[n].link[t] = "failed" /\ node[n].end[t] >= NextPacket(n, s).deps[t]

\* do_start_joining_phase; it waits for a quiet time, unless the scenario is hasty.
JoiningTimeout(n) ==
    /\ n \in Live /\ node[n].joiningTimeout /\ Count(n, "join") < MaxJoins
    /\ scenario.hasty \/ (Quiet /\ \A m \in Ids : node[m].timeout # "attempt")
    /\ Becomes(n, CheckJoinAgreement(StartJoining(node[n], n), n))

\* The long timers expire about members that are gone, or when all else is done.
Overdue(n, late) ==
    \/ late \cap (scenario.suspects \cup (Ids \ Live)) # {}
    \/ Quiet /\ \A m \in Live : node[m].timeout # "attempt" /\ ~node[m].joiningTimeout

\* fail_unjoined_members
LateNewcomers(r) == {m \in Ids : r.state[m] \in AttemptJoinRepeat..AttemptJoinDone} \ r.agreed
Late(r) == {m \in Ids : r.state[m] # Absent} \ r.agreed

\* join_timeout_cb: the source ends, and priv->timeout still has its id.
JoinTimeout(n) ==
    LET late == Late(node[n])
        fails(m, r) == IF r.state[m] = Absent \/ m \in r.agreed THEN r ELSE FailMember(r, n, Nobody, m)
        q == FoldSet(fails, node[n], late)
    IN  /\ n \in Live /\ node[n].timeout = "join" /\ Overdue(n, late)
        /\ Becomes(n, [q EXCEPT !.timeout = IF @ = "join" THEN "stale" ELSE @])

\* fail_member_timeout_cb: whoever has not failed id is failed.  The loop reads
\* info->id after info may be gone with the failure it completes; what it
\* finds then is id still, or (wild) an identifier that nobody has failed.
FailTimeout(n, id) ==
    \E wild \in BOOLEAN :
    LET awaited(r) == Unfailed(r, IF wild /\ r.state[id] = Absent THEN Nobody ELSE id)
        loop[k \in 0..Cardinality(Ids)] ==
            IF k = 0 THEN [node[n] EXCEPT !.failTimers = @ \ {id}]
            ELSE LET r == loop[k - 1]
                 IN  IF awaited(r) = {} THEN r ELSE FailMember(r, n, Nobody, Min(awaited(r)))
    IN  /\ n \in Live /\ id \in node[n].failTimers /\ Overdue(n, awaited(node[n]))
        /\ Becomes(n, loop[Cardinality(Ids)])

Next ==
    \/ \E n \in Ids : SendData(n) \/ Crash(n) \/ Leave(n)
                      \/ AttemptTimeout(n) \/ JoiningTimeout(n) \/ JoinTimeout(n)
    \/ \E n, s \in Ids : Foreign(n, s) \/ ForeignSession(n, s) \/ Read(n, s)
                         \/ Learn(n, s) \/ Suspect(n, s) \/ FailTimeout(n, s)
    \/ \E n, s, t \in Ids : AskFailed(n, s, t)

Spec == Init /\ [][Next]_vars

-----------------------------------------------------------------------------
(* Properties *)

\* In whatever order packets, timers and failures come, no assertion of the
\* transport fails in a handler, no sender that is looked up is missing, no
\* MemberInfo is NULL, and one thing alone goes wrong ("send_join"), when three
\* nodes meet: a JOIN that lacks us may have failures that are news, at which the
\* first check returns, the second check of it resets us, and check_join_agreement
\* reads the JOIN of ours that is gone, although "either we send the same join,
\* or we send more info" (gibber-r-multicast-transport.c:1641).
NoOtherFault == \A n \in Ids : node[n].fault \in {None, "send_join"}

\* Two nodes that finished a join on each other's JOIN joined with the same
\* members, and on the same JOIN of every member that both heard.
ViewsAgree ==
    \A n, m \in Live :
        LET v == node[n].view  w == node[m].view
        IN  v.at[n] # NoPos /\ v.at[m] # NoPos /\ v.at[n] = w.at[n] /\ v.at[m] = w.at[m]
                => /\ v.who = w.who
                   /\ \A s \in Ids : {v.at[s], w.at[s]} \ {NoPos} \in {{}, {v.at[s]}, {w.at[s]}}

\* priv->timeout of a live node never holds the id of a finished source outside
\* a join, where it would keep ATTEMPT_JOIN from being sent.
StaleEndsWithJoin == \A n \in Live : node[n].timeout = "stale" => node[n].mode = "joining"

\* While a node is in the joining phase, a packet is still to be read or a timer
\* of its own is running.
JoinsGoOn == \A n \in Live :
    node[n].mode = "joining" => \/ node[n].timeout = "join" \/ node[n].failTimers # {}
                                \/ ~Quiet

\* Nobody waits for ever, neither in the joining phase nor, after it, for a timer
\* that is not there.
NobodyWaitsForEver == JoinsGoOn /\ StaleEndsWithJoin
=============================================================================
