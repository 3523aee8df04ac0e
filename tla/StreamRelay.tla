---------------------------- MODULE StreamRelay ----------------------------
(***************************************************************************)
(* One connection through a stream tube of a room.  A program connects to   *)
(* the socket of the tube at the recipient; its salut asks the initiator    *)
(* for a bytestream (tube-stream.c, si-bytestream-manager.c), the two salut *)
(* agree on a TCP connection (gibber-bytestream-oob.c), the initiator       *)
(* connects to the program that offered the tube, and then both relay:      *)
(*                                                                         *)
(*   program - T - [tube stream] - bytestream - N - network - N - ... - T   *)
(*                                                                         *)
(* T and N are non-blocking sockets with an output buffer                   *)
(* (gibber-fd-transport.c).  A side is one record, a callback an operator   *)
(* from record to record; the callbacks of one event run to its end, as in  *)
(* the main loop.  Stanzas stay in order, the network may break.            *)
(***************************************************************************)
EXTENDS Integers, Sequences

CONSTANTS
    Capacity,   \* bound: units the network holds in one direction
    Units,      \* bound: units a program writes
    Scenarios   \* bound: who writes, what closes and breaks, the kind of the offered socket

Sides == {"recipient", "initiator"}
Peer(s) == CHOOSE p \in Sides : p # s

ASSUME StreamRelayAssumption ==
    /\ Capacity \in Nat \ {0} /\ Units \in Nat
    /\ \A sc \in Scenarios : sc \in [writers : SUBSET Sides, leavers : SUBSET Sides,
                                     closers : SUBSET Sides, early : BOOLEAN, breaks : BOOLEAN,
                                     socket : {"unix", "tcp"}, refuses : BOOLEAN]

VARIABLES
    side,       \* side[s]: the tube, its sockets and the bytestream
    mail,       \* mail[s]: stanzas under way to s
    scenario

vars == <<side, mail, scenario>>

\* salut_tube_stream_init, gibber_fd_transport_init, gibber_bytestream_oob_init
NewSide ==
    [tube |-> "open",               \* offered, or accepted: the socket of the tube listens
     program |-> "none",            \* the other end of T
     sent |-> 0, in |-> <<>>,       \* written by the program; what T has not read of it
     got |-> <<>>,                  \* what the program has been given
     T |-> "none", stopT |-> FALSE, outT |-> <<>>,
     onT |-> FALSE,                 \* the tube listens to the signals of T
     B |-> "none",                  \* state of the bytestream
     onB |-> FALSE,                 \* the tube listens to the signals of the bytestream
     stopWrite |-> FALSE, stopRead |-> FALSE, answers |-> FALSE,
     N |-> "none", outN |-> <<>>,
     wire |-> <<>>,                 \* sent by N, not yet read by the peer
     toT |-> FALSE, toB |-> FALSE,  \* bytestream_to_transport, transport_to_bytestream
     id |-> "none",                 \* transport_to_id: none, live, fired
     asking |-> FALSE, listening |-> FALSE, opening |-> FALSE,
     post |-> <<>>,                 \* stanzas to be sent when the event is handled
     fault |-> "none"]

Init ==
    /\ scenario \in Scenarios
    /\ side = [s \in Sides |-> NewSide]
    /\ mail = [s \in Sides |-> <<>>]

Fault(x, what) == [x EXCEPT !.fault = what]
Post(x, stanza) == [x EXCEPT !.post = Append(@, stanza)]

-----------------------------------------------------------------------------
(* Closing *)

\* _do_disconnect, the signal aside: what was not written is lost.
DropT(x) == [x EXCEPT !.T = "disconnected", !.outT = <<>>]
DropN(x) == IF x.N = "connected" THEN [x EXCEPT !.N = "disconnected", !.outN = <<>>] ELSE x

\* fire_connection_closed
FireConnectionClosed(x) == IF x.id = "live" THEN [x EXCEPT !.id = "fired"] ELSE x

\* Mutant of RemoveTransport: the client is not told.
RemoveTransportQuietly(x) == [DropT(x) EXCEPT !.onT = FALSE, !.toT = FALSE, !.toB = FALSE]

\* remove_transport
RemoveTransport(x) ==
    [FireConnectionClosed(DropT(x)) EXCEPT !.onT = FALSE, !.toT = FALSE, !.toB = FALSE]

\* extra_bytestream_state_changed_cb, CLOSED: the program gets what is buffered.
BytestreamGone(x) ==
    IF x.onB /\ x.toT /\ x.outT = <<>> THEN RemoveTransport(x) ELSE x

\* bytestream_closed
BytestreamClosed(x) ==
    LET told == IF x.answers THEN Post(x, "oob_result") ELSE x
    IN  BytestreamGone([DropN(told) EXCEPT !.B = "closed", !.listening = FALSE])

\* gibber_bytestream_oob_do_close, gibber_bytestream_oob_decline: what is
\* buffered goes first.
CloseBytestream(x) ==
    IF x.B \in {"none", "closed"} THEN x
    ELSE LET y == [(IF x.B = "local_pending" THEN Post(x, "si_no") ELSE x) EXCEPT !.B = "closing"]
         IN  IF y.outN # <<>> THEN y ELSE BytestreamClosed(y)

\* transport_disconnected_cb of the bytestream
BreakN(x) == CloseBytestream(DropN(x))

\* transport_disconnected_cb of the tube
BreakT(x) ==
    LET y == DropT(x)
    IN  IF ~x.onT THEN y
        ELSE IF x.toB THEN CloseBytestream(FireConnectionClosed(y)) ELSE FireConnectionClosed(y)

-----------------------------------------------------------------------------
(* Relaying *)

\* Mutant of BlockReading: a reader is never stopped.
BlockReadingOnce(x, block) == IF block THEN x ELSE [x EXCEPT !.stopRead = FALSE]

\* gibber_bytestream_oob_block_reading
BlockReading(x, block) ==
    IF x.stopRead = block THEN x
    ELSE IF x.N # "connected" THEN Fault(x, "no_transport")
    ELSE [x EXCEPT !.stopRead = block]

\* transport_buffer_empty_cb of the tube
EmptyT(x) ==
    IF ~x.onT THEN x
    ELSE IF ~x.toB THEN Fault(x, "no_bytestream")
    ELSE IF x.B = "closed" THEN RemoveTransport(x)
    ELSE BlockReading(x, FALSE)

\* change_write_blocked_state and bytestream_write_blocked_cb
BlockWriting(x, block) ==
    IF x.stopWrite = block THEN x
    ELSE IF x.onB /\ ~x.toT THEN Fault(x, "no_socket")
    ELSE [x EXCEPT !.stopWrite = block, !.stopT = IF x.onB THEN block ELSE @]

\* transport_buffer_empty_cb of the bytestream
EmptyN(x) == IF x.B = "closing" THEN BytestreamClosed(x) ELSE BlockWriting(x, FALSE)

\* _writeout and _try_write of T: the program has gone, takes the unit, or is slow.
WriteT(x, unit) ==
    IF x.outT # <<>> THEN {[x EXCEPT !.outT = Append(@, unit)]}
    ELSE IF x.program = "closed" THEN {BreakT(x)}
    ELSE {EmptyT([x EXCEPT !.got = Append(@, unit)]), [x EXCEPT !.outT = <<unit>>]}

\* data_received_cb, gibber_transport_send: what is not written at once stops the reading.
Receive(x, unit) ==
    IF ~x.onB THEN {x}
    ELSE IF ~x.toT THEN {Fault(x, "no_socket")}
    ELSE IF x.T # "connected" THEN {Fault(x, "send")}
    ELSE {IF y.outT = <<>> THEN y ELSE BlockReading(y, TRUE) : y \in WriteT(x, unit)}

\* gibber_bytestream_oob_send
Send(x, unit, broken) ==
    IF x.B # "open" THEN x
    ELSE IF x.N # "connected" THEN Fault(x, "send")
    ELSE IF x.outN # <<>> THEN BlockWriting([x EXCEPT !.outN = Append(@, unit)], TRUE)
    ELSE IF broken THEN BreakN(x)
    ELSE IF Len(x.wire) < Capacity THEN EmptyN([x EXCEPT !.wire = Append(@, unit)])
    ELSE BlockWriting([x EXCEPT !.outN = <<unit>>], TRUE)

\* transport_handler of the tube
Relay(x, unit, broken) == IF x.toB THEN Send(x, unit, broken) ELSE x

\* add_transport
AddTransport(x) == [x EXCEPT !.toB = TRUE, !.onT = TRUE, !.stopT = FALSE]

\* set_transport, the bytestream being open; extra_bytestream_state_changed_cb
SetTransport(x) ==
    LET y == [x EXCEPT !.N = "connected", !.B = "open"]
    IN  IF ~x.onB THEN y ELSE IF ~x.toT THEN Fault(y, "no_socket") ELSE AddTransport(y)

-----------------------------------------------------------------------------
(* The events *)

Running == \A s \in Sides : side[s].fault = "none"

\* The callbacks of an event at s have run and left x.
Handled(s, x) ==
    /\ Running /\ UNCHANGED scenario
    /\ side' = [side EXCEPT ![s] = [x EXCEPT !.post = <<>>]]
    /\ mail' = [mail EXCEPT ![Peer(s)] = @ \o x.post]

\* ... the event being a stanza.
HandledStanza(s, x) ==
    /\ Running /\ UNCHANGED scenario
    /\ side' = [side EXCEPT ![s] = [x EXCEPT !.post = <<>>]]
    /\ mail' = [mail EXCEPT ![s] = Tail(@), ![Peer(s)] = @ \o x.post]

Stanza(s, what) == mail[s] # <<>> /\ Head(mail[s]) = what

\* The programs, at the other ends of the sockets.
Write(s) ==
    LET x == side[s] IN
    /\ s \in scenario.writers /\ x.program = "open" /\ x.sent < Units
    /\ Handled(s, [x EXCEPT !.sent = @ + 1, !.in = Append(@, x.sent + 1)])
Leave(s) ==
    /\ s \in scenario.leavers /\ side[s].program = "open"
    /\ Handled(s, [side[s] EXCEPT !.program = "closed"])

\* salut_si_bytestream_manager_negotiate_stream
NegotiateStream(x) == Post([x EXCEPT !.asking = TRUE], "si")

\* start_stream_initiation
StartStreamInitiation(x) == [NegotiateStream(x) EXCEPT !.stopT = TRUE]

\* local_new_connection_cb, fire_new_local_connection
NewLocalConnection ==
    LET x == side["recipient"] IN
    /\ x.tube = "open" /\ x.program = "none"
    /\ Handled("recipient",
           [StartStreamInitiation([x EXCEPT !.program = "open", !.T = "connected"])
            EXCEPT !.id = "live"])

\* gibber_unix_transport_connect: at once, and a failure has no place for its GError.
ConnectUnix(x) ==
    {[x EXCEPT !.T = "connected", !.program = "open"]}
    \cup (IF scenario.refuses THEN {Fault(x, "connect")} ELSE {})

\* gibber_tcp_transport_connect: in the background
ConnectTcp(x) == {[x EXCEPT !.T = "connecting"]}

\* new_connection_to_socket, fire_new_remote_connection
ConnectToProgram(x) ==
    LET y == [x EXCEPT !.stopT = TRUE, !.id = "live", !.toT = TRUE, !.onB = TRUE]
    IN  IF scenario.socket = "tcp" THEN ConnectTcp(y) ELSE ConnectUnix(y)

\* gibber_bytestream_oob_accept
AcceptBytestream(x) == Post([x EXCEPT !.B = "accepted"], "si_ok")

\* salut_tube_stream_add_bytestream
AddBytestream(x) ==
    IF x.tube = "closed" THEN {CloseBytestream(x)}
    ELSE {AcceptBytestream(y) : y \in ConnectToProgram(x)}

\* streaminit_parse_request; others are answered with an error.
ParsedRequest == Stanza("initiator", "si")

\* choose_bytestream_method: all of them offer OOB.
ChooseMethod(x) == [x EXCEPT !.B = "local_pending"]

\* si_request_cb, salut_muc_channel_bytestream_offered
SiRequest ==
    /\ ParsedRequest
    /\ \E y \in AddBytestream(ChooseMethod(side["initiator"])) :
           HandledStanza("initiator", y)

\* new_connect_attempt and try_to_connect of a TCP transport
TcpConnected(s) ==
    LET x == side[s] IN
    /\ x.T = "connecting"
    /\ \/ Handled(s, [x EXCEPT !.T = "connected", !.program = "open"])
       \/ scenario.refuses /\ Handled(s, BreakT(x))

\* The callback of the request has the address of the tube and no reference.
Negotiated(x, y) == IF x.tube = "closed" THEN Fault(x, "freed") ELSE y

\* gibber_bytestream_oob_initiate: it listens and says where, or cannot.
Initiate(x) ==
    {Post([x EXCEPT !.B = "initiating", !.listening = TRUE], "oob")}
    \cup (IF scenario.breaks THEN {[x EXCEPT !.B = "closed"]} ELSE {})

\* si_request_sent_cb, the answer being an error; extra_bytestream_negotiate_cb
SiRefused ==
    LET x == side["recipient"] IN
    /\ Stanza("recipient", "si_no")
    /\ HandledStanza("recipient",
           Negotiated(x, FireConnectionClosed([DropT(x) EXCEPT !.asking = FALSE])))

\* si_request_sent_cb, the request being accepted; extra_bytestream_negotiate_cb
SiAccepted ==
    LET x == [side["recipient"] EXCEPT !.asking = FALSE] IN
    /\ Stanza("recipient", "si_ok")
    /\ \E y \in Initiate(x) :
           HandledStanza("recipient",
               Negotiated(x, IF y.B = "closed" THEN FireConnectionClosed(DropT(y))
                             ELSE [y EXCEPT !.toT = TRUE, !.onB = TRUE]))

\* parse_oob_init_iq of a bytestream that is still there
OobInit ==
    LET x == side["initiator"] IN
    /\ Stanza("initiator", "oob")
    /\ HandledStanza("initiator", IF x.B = "accepted"
                                  THEN [x EXCEPT !.answers = TRUE, !.opening = TRUE] ELSE x)

\* connect_to_url, gibber_ll_transport_open_sockaddr; a failure of the second is
\* not looked at.
ConnectToUrl(x) ==
         (IF side["recipient"].listening THEN {SetTransport(x)} ELSE {})
    \cup (IF scenario.breaks \/ ~side["recipient"].listening THEN {CloseBytestream(x)} ELSE {})
    \cup (IF scenario.breaks THEN {x} ELSE {})

\* opened_cb has the address of the bytestream and no reference: one that was
\* closed while the porter opened its connection has been freed.
Opened ==
    LET x == [side["initiator"] EXCEPT !.opening = FALSE] IN
    /\ side["initiator"].opening
    /\ IF x.B = "closed" THEN Handled("initiator", Fault(x, "freed"))
       ELSE \E y \in ConnectToUrl(x) : Handled("initiator", y)

\* check_bytestream_oob_peer_addr: a network that breaks may have changed the address.
KnownAddress == ~scenario.breaks

\* listener_io_in_cb and new_connection_cb
NewConnection ==
    LET x == side["recipient"] IN
    /\ x.listening /\ x.N = "none" /\ side["initiator"].N # "none"
    /\ \/ Handled("recipient", SetTransport(x))
       \/ ~KnownAddress /\ Handled("recipient", [x EXCEPT !.N = "refused"])

\* parse_oob_iq_result
OobResult ==
    /\ Stanza("recipient", "oob_result")
    /\ HandledStanza("recipient", side["recipient"])

\* The peer has closed; with data of ours unread, what it sent may be lost too.
Hung(s) ==
    \/ side[Peer(s)].N \in {"disconnected", "refused"}
    \/ side[Peer(s)].N = "none" /\ ~side[Peer(s)].listening
Reset(s) == Hung(s) /\ side[s].wire # <<>>

\* gibber_fd_transport_block_receiving: the socket is watched.
Readable(socket, stopped) == socket = "connected" /\ ~stopped

\* Mutant of ReadT: a hang-up is heard before the last data.
ReadTHangUp(s) ==
    LET x == side[s] IN
    /\ Readable(x.T, x.stopT)
    /\ IF x.program = "closed" THEN Handled(s, BreakT(x))
       ELSE x.in # <<>> /\ Handled(s, Relay([x EXCEPT !.in = Tail(@)], Head(x.in), FALSE))

\* _channel_io_in of T: data, or the end
ReadT(s) ==
    LET x == side[s]
        rest == [x EXCEPT !.in = Tail(@)]
    IN
    /\ Readable(x.T, x.stopT)
    /\ \/ x.in # <<>> /\ \E broken \in {FALSE, Reset(s)} : Handled(s, Relay(rest, Head(x.in), broken))
       \/ x.in = <<>> /\ x.program = "closed" /\ Handled(s, BreakT(x))

\* _channel_io_err of T: the program has left without reading what it was given.
ErrT(s) ==
    LET x == side[s] IN
    /\ x.T = "connected" /\ x.program = "closed" /\ x.got # <<>>
    /\ Handled(s, BreakT(x))

\* _channel_io_out of T
FlushT(s) ==
    LET x == side[s]
        y == [x EXCEPT !.outT = Tail(@), !.got = Append(@, Head(x.outT))]
    IN
    /\ x.T = "connected" /\ x.outT # <<>>
    /\ IF x.program = "closed" THEN Handled(s, BreakT(x))
       ELSE Handled(s, IF y.outT = <<>> THEN EmptyT(y) ELSE y)

\* _channel_io_out of N
FlushN(s) ==
    LET x == side[s]
        y == [x EXCEPT !.outN = Tail(@), !.wire = Append(@, Head(x.outN))]
    IN
    /\ x.N = "connected" /\ x.outN # <<>> /\ Len(x.wire) < Capacity
    /\ Handled(s, IF y.outN = <<>> THEN EmptyN(y) ELSE y)

\* _channel_io_in of N, with data
ReadN(s) ==
    LET p == Peer(s)
        x == side[s]
    IN
    /\ Readable(x.N, x.stopRead) /\ side[p].wire # <<>>
    /\ \E y \in Receive(x, Head(side[p].wire)) :
           /\ Running /\ UNCHANGED scenario
           /\ side' = [side EXCEPT ![s] = [y EXCEPT !.post = <<>>], ![p].wire = Tail(@)]
           /\ mail' = [mail EXCEPT ![p] = @ \o y.post]

\* _channel_io_in of N, at the end of what the peer sent
EndN(s) ==
    LET x == side[s] IN
    /\ Readable(x.N, x.stopRead) /\ side[Peer(s)].wire = <<>> /\ Hung(s)
    /\ Handled(s, BreakN(x))

\* _channel_io_err and failing reads of N: the network has broken, or was reset.
ErrN(s) ==
    LET x == side[s] IN
    /\ x.N = "connected" /\ (scenario.breaks \/ Reset(s))
    /\ Handled(s, BreakN(x))

\* salut_tube_stream_close, close_each_extra_bytestream
CloseExtra(x) ==
    IF x.toT
    THEN FireConnectionClosed(
             [DropT(CloseBytestream([x EXCEPT !.onB = FALSE, !.onT = FALSE]))
              EXCEPT !.toB = FALSE, !.toT = FALSE])
    ELSE x
Close(s) ==
    LET x == side[s] IN
    /\ x.tube = "open" /\ (scenario.early \/ ~x.asking)
    /\ \/ s \in scenario.closers
       \/ s = "recipient" /\ side["initiator"].tube = "closed"
    /\ Handled(s, [CloseExtra(x) EXCEPT !.tube = "closed"])

-----------------------------------------------------------------------------

Negotiation ==
    \/ NewLocalConnection \/ SiRequest \/ SiRefused \/ SiAccepted \/ OobInit \/ Opened
    \/ NewConnection \/ OobResult

Next ==
    \/ Negotiation
    \/ \E s \in Sides :
          \/ Write(s) \/ Leave(s) \/ Close(s)
          \/ TcpConnected(s) \/ ReadT(s) \/ ErrT(s) \/ FlushT(s)
          \/ FlushN(s) \/ ReadN(s) \/ EndN(s) \/ ErrN(s)

Spec == Init /\ [][Next]_vars

\* The main loops go on, and a program reads what it is given; nothing is owed by
\* a program that writes or leaves, nor by a network that breaks.
Fairness ==
    /\ WF_vars(Negotiation)
    /\ \A s \in Sides :
           /\ WF_vars(ReadT(s)) /\ WF_vars(ReadN(s)) /\ WF_vars(EndN(s))
           /\ WF_vars(FlushT(s)) /\ WF_vars(FlushN(s))
FairSpec == Spec /\ Fairness

-----------------------------------------------------------------------------

(* gibber_bytestream_oob_do_close waits for the buffer, and a FIXME of its   *)
(* own asks whether data still comes through: what a program is given is a   *)
(* prefix of what the other wrote, and all of it when only the writer left,   *)
(* nobody closed the tube and nothing broke.                                  *)
StreamIntegrity ==
    \A s \in Sides :
        LET p == Peer(s) IN
        /\ Len(side[p].got) <= side[s].sent
        /\ \A i \in 1 .. Len(side[p].got) : side[p].got[i] = i
        /\ scenario = [writers |-> {s}, leavers |-> {s}, closers |-> {}, early |-> FALSE,
                       breaks |-> FALSE, socket |-> "unix", refuses |-> FALSE]
           /\ side[p].T = "disconnected"
           => Len(side[p].got) = side[s].sent

\* block_reading and write_blocked: a program that does not read stops the one
\* that writes, and no more than one piece waits at each socket on the way.  A
\* callback fails in four ways only.  gibber_transport_send asserts that there is
\* a connection: data may come for a program that has left while the bytestream
\* waits to write what came from it, or for one reached by TCP that is not there
\* yet or never.  Two asynchronous calls use what a close of the tube has freed
\* meanwhile: the tube (the SI request), the bytestream (opened_cb).  And the
\* failure to connect to a Unix socket has no GError to be put in.
FlowControl ==
    \A s \in Sides :
        LET x == side[s] IN
        /\ Len(x.outT) <= 1 /\ Len(x.outN) <= 1
        /\ x.outT # <<>> /\ x.onB /\ x.N = "connected" => x.stopRead
        /\ x.outN # <<>> /\ x.onB /\ x.B = "open" => x.stopT
        /\ \/ x.fault = "none"
           \/ x.fault = "send" /\ (x.B # "closing" => s = "initiator" /\ scenario.socket = "tcp")
           \/ x.fault = "freed" /\ x.tube = "closed"
           \/ x.fault = "connect" /\ scenario.socket = "unix" /\ scenario.refuses

\* fire_connection_closed: when one client has been told that the connection is
\* closed while its peer is connected to it, so is the other, unless it was never
\* told of the connection.  (Of an initiator whose connection fails to come about
\* the recipient never learns.)
ClosesTravel ==
    \A s \in Sides :
        (side[s].id = "fired" /\ side[Peer(s)].N = "connected")
            ~> (side[Peer(s)].id # "live" \/ ~Running)

=============================================================================
