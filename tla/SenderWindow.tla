---------------------------- MODULE SenderWindow ----------------------------
(***************************************************************************)
(* The receive window of one GibberRMulticastSender: reliable packets that *)
(* arrive in any order, more than once or not at all are put in order,     *)
(* missing ones are asked for again, data fragments are reassembled, and   *)
(* what every member acknowledged is dropped from the cache                *)
(* (lib/gibber/gibber-r-multicast-sender.c).                               *)
(*                                                                         *)
(* A packet is named by its position in the remote stream; Wire(p) is the  *)
(* guint32 it carries, and positions are compared only the way the code    *)
(* compares identifiers.  The dependencies on other senders appear as two  *)
(* thresholds that the rest of the group raises.  The timers that watch    *)
(* the sender itself are module SenderWatchdog.                            *)
(***************************************************************************)
EXTENDS PacketId, Sequences

CONSTANTS
    CacheSize, \* PACKET_CACHE_SIZE
    Start,     \* the identifier of the first packet of the stream
    Length,    \* bound: packets the remote sends
    Scenarios  \* the streams considered, each with what may happen around it

Positions == 0..Length
Sent == 0..(Length - 1)

Packet == [kind: {"data", "control", "join", "nodata"}, stream: {1, 2},
           first: BOOLEAN, last: BOOLEAN]

\* What the environment may do besides losing, reordering and repeating packets:
\* other members ask for packets, acknowledgements complete, our own joining
\* phase holds data, packets depend on other senders, the member fails, is
\* removed, the start moves forward, attempt-joins repeat, the group stops.
Event == {"repair", "ack", "hold", "depends", "fail", "remove", "jump", "repeat", "stop"}

ASSUME WindowAssumption ==
    /\ CacheSize \in Nat \ {0} /\ Length \in Nat
    /\ Length + CacheSize <= Window
    /\ Start \in Ids
    /\ \A s \in Scenarios : s.stream \in [Sent -> Packet] /\ s.events \subseteq Event

\* A member sends the fragments of a message one after the other, the first and
\* the last of them marked: what follows a last fragment begins a message
\* (gibber_r_multicast_causal_transport_send).
ASSUME StreamAssumption ==
    \A s \in Scenarios : \A p, q \in Sent :
        LET Fragment(r) == s.stream[r].kind = "data" /\ s.stream[r].stream = s.stream[p].stream
        IN  p < q /\ Fragment(p) /\ s.stream[p].last /\ Fragment(q)
                => \E r \in (p + 1)..q : Fragment(r) /\ s.stream[r].first

\* GibberRMulticastSenderState: the code compares these with < and >=.
New == 0
Preparing == 1
Running == 2
DataRunning == 3
Failed == 4
UnknownFailed == 5
Stopped == 6
PendingRemoval == 7

VARIABLES
    stream,      \* what the remote sends (never changes)
    events,      \* what may happen around it (never changes)
    state,       \* sender->state
    nextInput, nextOutput, nextData, \* next_input_packet, next_output_packet, next_output_data_packet
    firstPacket, \* first_packet
    have,        \* packet_cache: packets that arrived
    holes,       \* packet_cache: entries whose packet is NULL
    timers,      \* entries with a timeout: request_repair for a hole, do_repair for a packet
    repeating, acked, popped, \* the flags of the entries
    hold,        \* holding_data and holding_point
    dataStart,   \* start_data and start_point
    endPoint,    \* end_point
    ready,       \* the dependencies of packets below these positions are met
    popping,     \* group->popping: the pop loop is running
    delivered,   \* history: last fragments of the messages signalled
    fault        \* "none", or how the process would go wrong

cursors == <<nextInput, nextOutput, nextData, firstPacket>>
entries == <<have, holes, timers, repeating, acked, popped>>
control == <<stream, events, state, hold, dataStart, endPoint, ready, popping, delivered, fault>>
vars == <<cursors, entries, control>>

None == -1

Wire(p) == Plus(Start, p)
Diff(p, q) == PacketDiff(Wire(p), Wire(q))

Cached == have \cup holes
Minimum(S) == CHOOSE x \in S : \A y \in S : x <= y
Maximum(S) == CHOOSE x \in S : \A y \in S : x >= y
Later(s) == IF state < s THEN s ELSE state

Init ==
    /\ \E s \in Scenarios : stream = s.stream /\ events = s.events
    /\ state = New
    /\ nextInput = 0 /\ nextOutput = 0 /\ nextData = 0 /\ firstPacket = 0
    /\ have = {} /\ holes = {} /\ timers = {}
    /\ repeating = {} /\ acked = {} /\ popped = {}
    /\ hold = None /\ dataStart = None /\ endPoint = 0
    /\ ready = (IF "depends" \in events THEN [out |-> 0, data |-> 0]
                                        ELSE [out |-> Length, data |-> Length])
    /\ popping = FALSE /\ delivered = <<>> /\ fault = "none"

Sound == fault = "none"

\* Timers and packets are served by the main loop, never inside the pop loop.
Idle == Sound /\ ~popping

-----------------------------------------------------------------------------
(* Repair *)

\* schedule_repair for every position of S: a timer for those that are
\* neither here nor asked for yet.
ScheduleRepair(S) ==
    LET asked == IF state > Stopped THEN {} ELSE S \ have
    IN  holes' = holes \cup asked /\ timers' = timers \cup asked

\* insert_packet without the loop that asks for the gap before the packet.
InsertNoRepair(p) ==
    /\ have' = have \cup {p} /\ holes' = holes \ {p} /\ timers' = timers \ {p}
    /\ nextInput' = IF Diff(nextInput, p) >= 0 THEN p + 1 ELSE nextInput

\* insert_packet, for a packet that is not cached yet.
Insert(p) ==
    LET gap == IF Diff(nextInput, p) >= 0 THEN nextInput..(p - 1) ELSE {}
        asked == IF state > Stopped THEN {} ELSE gap \ have
    IN  /\ have' = have \cup {p}
        /\ holes' = (holes \cup asked) \ {p}
        /\ timers' = (timers \ {p}) \cup asked
        /\ nextInput' = IF Diff(nextInput, p) >= 0 THEN p + 1 ELSE nextInput

\* The window test of sender_push with <= for <.
InWindowOffByOne(p) == Diff(nextOutput, p) >= 0 /\ Diff(nextOutput, p) <= CacheSize

\* The window test of sender_push and sender_repair_request.
InWindow(p) == Diff(nextOutput, p) >= 0 /\ Diff(nextOutput, p) < CacheSize

\* sender_push: packets of senders pending removal are not pushed
\* (group_push_packet), and those out of the window are dropped.
Push(p) ==
    /\ Idle /\ state \in Preparing..Stopped
    /\ InWindow(p) /\ p \notin have
    /\ Insert(p)
    /\ popping' = TRUE
    /\ UNCHANGED <<nextOutput, nextData, firstPacket, repeating, acked, popped,
                   stream, events, state, hold, dataStart, endPoint, ready, delivered, fault>>

\* sender_repair_request: another member misses packet p.
RepairRequest(p) ==
    /\ "repair" \in events
    /\ Idle /\ state >= Preparing
    /\ \/ /\ p \in have
          /\ timers' = timers \cup {p}
          /\ UNCHANGED <<holes, fault>>
       \/ /\ p \notin Cached /\ InWindow(p) /\ state < Stopped
          /\ ScheduleRepair(nextOutput..p)
          /\ UNCHANGED fault
       \/ /\ p \in holes /\ InWindow(p) /\ state < Stopped
          /\ fault' = IF p \in timers THEN "none" ELSE "assert"
          /\ UNCHANGED <<holes, timers>>
    /\ UNCHANGED <<cursors, have, repeating, acked, popped,
                   stream, events, state, hold, dataStart, endPoint, ready, popping, delivered>>

\* sender_seen: a session message or a dependency names p as the next packet.
\* The loop ends at `last` by !=, so starting past it would never end.
Seen(p) ==
    LET full == Plus(Wire(nextOutput), CacheSize)
        last == IF PacketDiff(full, Wire(p)) > 0 THEN nextOutput + CacheSize ELSE p
    IN  /\ Idle /\ state \in Preparing..Failed
        /\ Diff(nextInput, p) >= 0
        /\ IF nextInput <= last
           THEN ScheduleRepair(nextInput..(last - 1)) /\ UNCHANGED fault
           ELSE fault' = "endless" /\ UNCHANGED <<holes, timers>>
        /\ UNCHANGED <<cursors, have, repeating, acked, popped,
                       stream, events, state, hold, dataStart, endPoint, ready, popping, delivered>>

\* request_repair that sends its request once.
RequestTimeoutOnce(p) ==
    /\ Idle /\ p \in holes \cap timers
    /\ timers' = timers \ {p}
    /\ UNCHANGED <<cursors, have, holes, repeating, acked, popped, control>>

\* request_repair: the request goes out and the timer is armed again, except
\* in a sender that schedule_repair ignores.
RequestTimeout(p) ==
    /\ Idle /\ p \in holes \cap timers
    /\ timers' = IF state > Stopped THEN timers \ {p} ELSE timers
    /\ UNCHANGED <<cursors, have, holes, repeating, acked, popped, control>>

\* do_repair: the packet goes out again, once or until repeating is cleared.
RepairTimeout(p) ==
    /\ Idle /\ p \in have \cap timers
    /\ timers' = IF p \in repeating THEN timers ELSE timers \ {p}
    /\ UNCHANGED <<cursors, have, holes, repeating, acked, popped, control>>

-----------------------------------------------------------------------------
(* Garbage collection *)

\* packet_info_try_gc for each entry of S in ascending order, where `ack`,
\* `pop` and `rep` are the flags and `limit` the next_output_data_packet it sees.
Collect(S, ack, pop, rep, limit) ==
    LET gone == (S \cap have \cap ack \cap pop) \ rep
        left == Cached \ gone
    IN  /\ have' = have \ gone /\ timers' = timers \ gone
        /\ acked' = ack \ gone /\ popped' = pop \ gone /\ repeating' = rep
        /\ firstPacket' = IF firstPacket \in gone
                          THEN Minimum({x \in firstPacket..limit : x \in left \/ x = limit})
                          ELSE firstPacket

\* sender_ack, from the garbage collection of the group: every member has
\* acknowledged the packets before n, which are packets we saw ourselves.
Ack(n) ==
    /\ "ack" \in events
    /\ Sound /\ state \in Preparing..UnknownFailed
    /\ Diff(firstPacket, n) >= 0 /\ n <= nextInput
    /\ LET told == firstPacket..(n - 1)
       IN  Collect(told, acked \cup (told \cap Cached), popped, repeating, nextData)
    /\ UNCHANGED <<nextInput, nextOutput, nextData, holes, control>>

\* sender_set_packet_repeat: an attempt-join packet of our own is repeated
\* until the join attempt ends.
SetPacketRepeat(p) ==
    /\ "repeat" \in events
    /\ Sound /\ p \in have /\ stream[p].kind = "control"
    /\ \/ /\ p \notin repeating /\ repeating' = repeating \cup {p}
          /\ timers' = timers \cup {p}
          /\ UNCHANGED <<have, acked, popped, firstPacket>>
       \/ /\ p \in repeating
          /\ Collect({p}, acked, popped, repeating \ {p}, nextData)
    /\ UNCHANGED <<nextInput, nextOutput, nextData, holes, control>>

-----------------------------------------------------------------------------
(* Reassembly of data *)

IsData(p) == stream[p].kind = "data"
HeldBack(p) == hold # None /\ Diff(p, hold) <= 0

\* The backward search of pop_data_packet for the first fragment of the
\* message that ends at e, over the entries still in the cache.
StartsOf(e) == {s \in firstPacket..e : /\ s \in have /\ IsData(s) /\ stream[s].first
                                       /\ stream[s].stream = stream[e].stream}
FirstOf(e) == Maximum(StartsOf(e))
Searched(e) == IF StartsOf(e) = {} THEN firstPacket..e ELSE FirstOf(e)..e

\* The fragments gathered, and those the message really has: the length check
\* compares the two.
Fragments(e) == {p \in FirstOf(e)..e : p \in have /\ IsData(p)
                                       /\ stream[p].stream = stream[e].stream}
MessageOf(e) == {p \in FirstOf(e)..e : IsData(p) /\ stream[p].stream = stream[e].stream}

\* The comparison with the data start point left out.
DataFateFromAnywhere(e) ==
    IF HeldBack(e) THEN "held"
    ELSE IF Searched(e) \cap holes # {} THEN "null"
    ELSE IF StartsOf(e) = {} \/ dataStart = None THEN "ignored"
    ELSE IF FirstOf(e) >= ready.data THEN "blocked"
    ELSE IF Fragments(e) # MessageOf(e) THEN "size"
    ELSE "delivered"

\* What pop_data_packet does with the message that ends at e.
DataFate(e) ==
    IF HeldBack(e) THEN "held"
    ELSE IF Searched(e) \cap holes # {} THEN "null"
    ELSE IF StartsOf(e) = {} THEN "ignored"
    ELSE IF dataStart = None THEN "ignored"
    ELSE IF Diff(dataStart, FirstOf(e)) < 0 THEN "ignored"
    ELSE IF FirstOf(e) >= ready.data THEN "blocked"
    ELSE IF Fragments(e) # MessageOf(e) THEN "size"
    ELSE "delivered"

Moves(e) == DataFate(e) \notin {"held", "blocked"}

\* update_next_data_output_state, where `out` is next_output_packet.
NextEnd(e, out) ==
    LET ends == {p \in (e + 1)..(out - 1) : p \in have /\ IsData(p) /\ stream[p].last}
    IN  IF ends = {} THEN out ELSE Minimum(ends)

\* pop_data_packet for the message that ends at e.  The only fragment of a
\* message is collected after next_output_data_packet moved on, the fragments
\* of a longer one before.
PopData(e, out) ==
    LET fate == DataFate(e)
        done == NextEnd(e, out)
    IN  \/ /\ fate = "ignored"
           /\ nextData' = done
           /\ UNCHANGED <<firstPacket, entries, state, delivered, fault>>
        \/ /\ fate = "delivered"
           /\ nextData' = done
           /\ state' = Later(DataRunning)
           /\ delivered' = Append(delivered, e)
           /\ Collect(Fragments(e), acked, popped \cup Fragments(e), repeating,
                      IF FirstOf(e) = e THEN done ELSE e)
           /\ UNCHANGED <<holes, fault>>
        \/ /\ fate \in {"null", "size"}
           /\ fault' = fate
           /\ UNCHANGED <<nextData, firstPacket, entries, state, delivered>>

-----------------------------------------------------------------------------
(* The pop loop *)

\* do_pop_packets runs for this sender.
Runs == Sound /\ popping /\ state \in Preparing..Failed

DataPending == nextData # nextOutput

\* pop_packet, first part: a message whose end was passed already.
PopPending ==
    /\ Runs /\ DataPending /\ Moves(nextData)
    /\ PopData(nextData, nextOutput)
    /\ UNCHANGED <<nextInput, nextOutput, stream, events, hold, dataStart, endPoint, ready, popping>>

\* check_depends: only the first packet of a message carries dependencies.
DependsMet(p) == (IsData(p) /\ ~stream[p].first) \/ p < ready.out

CanPop ==
    /\ DataPending => ~Moves(nextData)
    /\ ~(state = Failed /\ Diff(endPoint, nextOutput) >= 0)
    /\ nextOutput \in have
    /\ DependsMet(nextOutput)

\* pop_packet: a fragment that does not end a message, or one that comes while
\* an earlier message is pending.
PopFragment ==
    /\ Runs /\ CanPop /\ IsData(nextOutput)
    /\ DataPending \/ ~stream[nextOutput].last
    /\ nextOutput' = nextOutput + 1
    /\ nextData' = IF DataPending THEN nextData ELSE nextData + 1
    /\ UNCHANGED <<nextInput, firstPacket, entries, control>>

\* next_output_data_packet moves on although the message cannot be delivered.
PopEndAdvances ==
    /\ Runs /\ CanPop /\ IsData(nextOutput)
    /\ ~DataPending /\ stream[nextOutput].last
    /\ nextOutput' = nextOutput + 1
    /\ IF Moves(nextOutput)
       THEN PopData(nextOutput, nextOutput + 1)
       ELSE nextData' = nextData + 1 /\ UNCHANGED <<firstPacket, entries, state, delivered, fault>>
    /\ UNCHANGED <<nextInput, stream, events, hold, dataStart, endPoint, ready, popping>>

\* pop_packet: the last fragment of a message with nothing pending before it.
PopEnd ==
    /\ Runs /\ CanPop /\ IsData(nextOutput)
    /\ ~DataPending /\ stream[nextOutput].last
    /\ nextOutput' = nextOutput + 1
    /\ IF Moves(nextOutput)
       THEN PopData(nextOutput, nextOutput + 1)
       ELSE UNCHANGED <<nextData, firstPacket, entries, state, delivered, fault>>
    /\ UNCHANGED <<nextInput, stream, events, hold, dataStart, endPoint, ready, popping>>

\* pop_packet: a packet without data.  The handler of a JOIN packet holds the
\* data from there on if the transport is gathering or joining
\* (received_control_packet_cb).
PopControl ==
    /\ Runs /\ CanPop /\ ~IsData(nextOutput)
    /\ nextOutput' = nextOutput + 1
    /\ nextData' = IF DataPending THEN nextData ELSE nextData + 1
    /\ state' = IF stream[nextOutput].kind = "nodata" THEN state ELSE Later(Running)
    /\ \/ UNCHANGED hold
       \/ stream[nextOutput].kind = "join" /\ hold' = nextOutput
    /\ Collect({nextOutput}, acked, popped \cup {nextOutput}, repeating, nextData')
    /\ UNCHANGED <<nextInput, holes, stream, events, dataStart, endPoint, ready, popping,
                   delivered, fault>>

\* Nothing more can be popped.
PopDone ==
    /\ Sound /\ popping
    /\ ~(Runs /\ ((DataPending /\ Moves(nextData)) \/ CanPop))
    /\ popping' = FALSE
    /\ UNCHANGED <<cursors, entries, stream, events, state, hold, dataStart, endPoint, ready,
                   delivered, fault>>

-----------------------------------------------------------------------------
(* Calls of the transport *)

\* The clearing loop of sender_update_start left out.
CancelledNone(p) == {}

\* Every packet before p is someone else's business.  The clearing loop
\* compares raw identifiers ("i < packet_id").
CancelledBefore(p) ==
    {h \in holes : h >= firstPacket /\ h < p
                   /\ \A i \in firstPacket..h : Wire(i) < Wire(p)}

\* sender_update_start, until the member has joined.
UpdateStart(p) ==
    /\ Sound /\ state < Failed /\ dataStart = None /\ hold = None
    /\ \/ /\ state = New
          /\ state' = Preparing /\ firstPacket' = p
          /\ UNCHANGED timers
       \/ /\ "jump" \in events
          /\ state # New /\ Diff(nextInput, p) > 0
          /\ timers' = timers \ CancelledBefore(p)
          /\ UNCHANGED <<state, firstPacket>>
    /\ nextInput' = p /\ nextOutput' = p /\ nextData' = p
    /\ UNCHANGED <<have, holes, repeating, acked, popped, stream, events, hold, dataStart,
                   endPoint, ready, popping, delivered, fault>>

\* sender_set_data_start: at its own first packet for ourselves, at its JOIN
\* packet for a member whose join was agreed.
SetDataStart ==
    /\ Sound /\ state \in Preparing..Running /\ dataStart = None
    /\ \/ hold # None /\ dataStart' = hold
       \/ nextInput = firstPacket /\ hold = None /\ dataStart' = nextOutput
    /\ UNCHANGED <<cursors, entries, stream, events, state, hold, endPoint, ready, popping,
                   delivered, fault>>

\* sender_hold_data of ourselves, when we start the joining phase.
HoldData ==
    /\ "hold" \in events
    /\ Sound /\ dataStart # None /\ state \in Preparing..DataRunning
    /\ hold' = nextInput
    /\ popping' = TRUE
    /\ UNCHANGED <<cursors, entries, stream, events, state, dataStart, endPoint, ready,
                   delivered, fault>>

\* sender_release_data
ReleaseData ==
    /\ Sound /\ hold # None
    /\ hold' = None
    /\ popping' = TRUE
    /\ UNCHANGED <<cursors, entries, stream, events, state, dataStart, endPoint, ready,
                   delivered, fault>>

\* sender_set_failed
SetFailed ==
    /\ "fail" \in events
    /\ Sound /\ state < Failed
    /\ state' = IF state < Preparing THEN UnknownFailed ELSE Failed
    /\ endPoint' = IF state < Preparing THEN endPoint ELSE nextOutput
    /\ UNCHANGED <<cursors, entries, stream, events, hold, dataStart, ready, popping, delivered, fault>>

\* sender_update_end, when another sender's packet depends on the failed one.
UpdateEnd(p) ==
    /\ Sound /\ state = Failed
    /\ Diff(endPoint, p) > 0
    /\ endPoint' = p
    /\ popping' = TRUE
    /\ UNCHANGED <<cursors, entries, stream, events, state, hold, dataStart, ready, delivered, fault>>

\* sender_stop, from sender_group_stop.
Stop ==
    /\ "stop" \in events
    /\ Idle /\ state < Stopped
    /\ state' = Stopped
    /\ timers' = {}
    /\ UNCHANGED <<cursors, have, holes, repeating, acked, popped, stream, events, hold, dataStart,
                   endPoint, ready, popping, delivered, fault>>

\* sender_group_remove: the state is PendingRemoval before sender_stop looks.
Remove ==
    /\ "remove" \in events
    /\ Sound /\ state < Stopped
    /\ state' = PendingRemoval
    /\ UNCHANGED <<cursors, entries, stream, events, hold, dataStart, endPoint, ready, popping,
                   delivered, fault>>

\* Other senders output packets this one depends on; the pop loop of the
\* group then visits every sender.
DependsAdvance ==
    /\ Sound
    /\ \/ ready.out < Length /\ ready' = [ready EXCEPT !.out = @ + 1]
       \/ ready.data < ready.out /\ ready' = [ready EXCEPT !.data = @ + 1]
    /\ popping' = TRUE
    /\ UNCHANGED <<cursors, entries, stream, events, state, hold, dataStart, endPoint,
                   delivered, fault>>

Pop == PopPending \/ PopFragment \/ PopEnd \/ PopControl \/ PopDone

Next ==
    \/ \E p \in Sent : Push(p) \/ RepairRequest(p) \/ SetPacketRepeat(p)
                       \/ RequestTimeout(p) \/ RepairTimeout(p)
    \/ \E p \in Positions : Seen(p) \/ Ack(p) \/ UpdateStart(p) \/ UpdateEnd(p)
    \/ SetDataStart \/ HoldData \/ ReleaseData \/ SetFailed \/ Stop \/ Remove
    \/ DependsAdvance
    \/ Pop

Spec == Init /\ [][Next]_vars

\* The loop runs to its end, session messages are repeated and served between
\* the calls of the transport, requests that are repeated are answered in the
\* end (each answer is pushed once, so fairness to some answer is fairness to
\* each), and the other senders make progress.
Fairness ==
    /\ WF_vars(Pop)
    /\ SF_vars(Seen(Length))
    /\ SF_vars(\E p \in Sent : p \in timers /\ Push(p))
    /\ WF_vars(DependsAdvance)

FairSpec == Spec /\ Fairness

-----------------------------------------------------------------------------
(* Properties *)

TypeOK ==
    /\ \E s \in Scenarios : stream = s.stream /\ events = s.events
    /\ state \in New..PendingRemoval
    /\ nextInput \in Positions /\ nextOutput \in Positions
    /\ nextData \in Positions /\ firstPacket \in Positions
    /\ have \subseteq Sent /\ holes \subseteq Sent /\ timers \subseteq Cached
    /\ repeating \subseteq have /\ acked \subseteq Cached /\ popped \subseteq have
    /\ hold \in Positions \cup {None} /\ dataStart \in Positions \cup {None}
    /\ endPoint \in Positions
    /\ ready \in [out : Positions, data : Positions]
    /\ popping \in BOOLEAN
    /\ delivered \in Seq(Sent)
    /\ fault \in {"none", "null", "size", "assert", "endless"}

\* The cursors stay ordered and the window never exceeds the cache: what
\* keeps the != loops of insert_packet, sender_seen and sender_ack finite and
\* next_output_data_packet <= next_output_packet ("Guaranteed to be",
\* gibber-r-multicast-sender.h:81).
CursorsOrdered ==
    /\ firstPacket <= nextData /\ nextData <= nextOutput
    /\ nextOutput <= nextInput /\ nextInput <= nextOutput + CacheSize
    /\ \A p \in have : p < nextInput

\* Every packet between the output and the newest one seen is either here or
\* being asked for, until the sender is stopped: no gap is forgotten, whatever
\* the order of arrivals, session messages and repair requests.
GapIsAskedFor ==
    state \in Preparing..UnknownFailed =>
        \A p \in nextOutput..(nextInput - 1) : p \in have \/ p \in holes \cap timers

Promise == INSTANCE DataDelivery WITH start <- dataStart, log <- delivered

\* Data is delivered as the abstract specification promises: from the data
\* start on, in order, no message twice and none skipped for a later one.
DeliversInOrder == Promise!Spec

\* No message that belongs to the listener is passed over: when the data
\* cursor is beyond its end, it was delivered.  Holding, ignoring data from
\* before the start and garbage collection never swallow one.
NothingLost == \A e \in Promise!Eligible : e < nextData => e \in Promise!Delivered

\* The start of the remote does not move once it is known.
StartStays == "jump" \notin events

\* No call brings the process down while the start stays: no NULL packet is
\* dereferenced, no message loses a fragment, no repair request finds a hole
\* without timer (the g_assert of sender_repair_request) and no != loop misses
\* its end.  A start that jumps over a hole leaves an entry without a packet,
\* which the search for a first fragment reads (gibber-r-multicast-sender.c:1300).
NoFault == StartStays => fault = "none"

\* "Remove all repair requests for packets up to this packet_id"
\* (gibber-r-multicast-sender.c:1743): none is left for packets that the
\* window has passed, which push would drop.  A start that jumps over the wrap
\* of the identifiers does leave them.
Unwrapped == Start + nextOutput <= MaxId
NothingStaleIsAskedFor ==
    state \in Preparing..DataRunning /\ (StartStays \/ Unwrapped) =>
        \A h \in holes \cap timers : h >= nextOutput

\* Once the start is known, every packet of the stream is eventually put out,
\* whatever is lost, as long as requests are eventually answered and the start
\* does not move again.
EverythingIsOutput ==
    (state \in Preparing..DataRunning /\ StartStays)
        ~> (nextOutput = Length \/ state >= Failed)
=============================================================================
