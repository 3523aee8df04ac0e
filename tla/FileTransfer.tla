---------------------------- MODULE FileTransfer ----------------------------
(***************************************************************************)
(* One file sent from a salut to another: the channels on both sides        *)
(* (file-transfer-channel.c, made by ft-manager.c), the transfers under     *)
(* them (gibber-file-transfer.c, gibber-oob-file-transfer.c) and what goes   *)
(* between: the offer and its answer as IQ stanzas, the file as the chunks   *)
(* of an HTTP response.  On either side a client talks to the channel over  *)
(* D-Bus and gives or takes the file through a local socket.                *)
(*                                                                         *)
(* A side is one record; a handler is an operator from record to record.   *)
(* Stanzas stay in order; the HTTP connection may break.                    *)
(***************************************************************************)
EXTENDS Integers, Sequences

CONSTANT
    Scenarios   \* bound: who closes, what breaks, chunks announced and chunks of the file

ASSUME FileTransferAssumption ==
    \A sc \in Scenarios : sc \in [closes : SUBSET {"sender", "receiver"}, breaks : BOOLEAN,
                                  loses : BOOLEAN, size : Nat, file : Nat]

VARIABLES
    sender,     \* the outgoing channel and its transfer
    receiver,   \* the incoming channel and its transfer
    http,       \* the HTTP exchange
    stanzas,    \* stanzas[to]: IQs under way
    scenario

vars == <<sender, receiver, http, stanzas, scenario>>

Size == scenario.size   \* 0 also when the offer has no size
Ended == {"completed", "cancelled"}

\* Channel and transfer as _new, _constructed and the init functions leave them.
NewSender ==
    [life |-> "none",            \* none, alive, gone (closed or never made), crashed
     state |-> "none", holds |-> 0,
     transferred |-> 0, emitted |-> 0, timer |-> FALSE,
     socket |-> FALSE,           \* ProvideFile or AcceptFile made the local socket
     client |-> FALSE,           \* a client has connected to it
     cancelled |-> FALSE,        \* of the transfer
     opening |-> FALSE, serving |-> FALSE, remoteAccepted |-> FALSE,
     parked |-> FALSE, input |-> FALSE, watch |-> FALSE, file |-> scenario.file]
NewReceiver ==
    [life |-> "none", state |-> "none", holds |-> 0,
     transferred |-> 0, emitted |-> 0, timer |-> FALSE,
     socket |-> FALSE, client |-> FALSE, cancelled |-> FALSE,
     fetching |-> FALSE, received |-> 0, written |-> 0]

Init ==
    /\ scenario \in Scenarios /\ sender = NewSender /\ receiver = NewReceiver
    /\ http = [state |-> "none", ok |-> TRUE, body |-> 0, complete |-> FALSE]
    /\ stanzas = [sender |-> <<>>, receiver |-> <<>>]

Alive(c) == c.life = "alive"

-----------------------------------------------------------------------------
(* Both channels *)

\* salut_file_transfer_channel_set_state
SetState(c, state) == [c EXCEPT !.state = state]

\* emit_progress_update
EmitProgress(c) == [c EXCEPT !.emitted = c.transferred, !.timer = FALSE]

\* ft_transferred_chunk_cb: TransferredBytesChanged now, or when the timer ends.
SkipProgress(c) == c
LaterProgress(c) == [c EXCEPT !.timer = TRUE]
Transferred(c, n) ==
    LET r == [c EXCEPT !.transferred = @ + n]
    IN  IF r.transferred >= Size THEN {EmitProgress(r)}
        ELSE IF r.timer THEN {r}
        ELSE {EmitProgress(r), LaterProgress(r)}

\* wocky_meta_porter_unhold after the end of the transfer.
Unhold(c) == [c EXCEPT !.holds = @ - 1]

\* ft_finished_cb
Finished(c) == Unhold(SetState(c, "completed"))

\* gibber_oob_file_transfer_cancel: only the receiver has somebody to tell.
CancelTransfer(c) == [c EXCEPT !.cancelled = TRUE]

\* dispose and finalize of channel and transfer.
Gone(c) == [c EXCEPT !.life = "gone", !.timer = FALSE]

\* gibber_oob_file_transfer_new_from_stanza_with_from, or a new outgoing one
NewTransfer(c) == [c EXCEPT !.life = "alive"]

\* salut_file_transfer_channel_constructed: the channel holds the porter.
Registered(c) == [c EXCEPT !.state = "pending", !.holds = 1]

\* setup_local_socket for ProvideFile and AcceptFile
LocalSocket(c) == [c EXCEPT !.socket = TRUE]

\* create_transfer_offer, and what the other side takes for one
TransferOffer == "offer"
IsFileOffer(stanza) == stanza = TransferOffer

-----------------------------------------------------------------------------
(* The sender *)

\* The connection ends, for whoever is on it.
Break == IF http.state = "open" THEN http' = [http EXCEPT !.state = "broken", !.ok = FALSE]
         ELSE UNCHANGED http

\* gibber_oob_file_transfer_offer: no server yet, so the porter is opened first.
OpenPorter(c) == [c EXCEPT !.opening = TRUE]

\* salut_ft_manager_handle_request: the channel is made and the porter opened.
Offer ==
    /\ sender.life = "none"
    /\ sender' = OpenPorter(Registered(NewTransfer(sender)))
    /\ UNCHANGED <<receiver, http, stanzas, scenario>>

\* porter_open_cb: the server runs and the offer goes out, or error_cb.  The
\* transfer may be gone by then: nothing keeps it for the callback.
PorterOpened ==
    /\ sender.opening
    /\ IF ~Alive(sender)
       THEN /\ sender' = [sender EXCEPT !.life = "crashed", !.opening = FALSE]
            /\ UNCHANGED stanzas
       ELSE \/ /\ sender' = [sender EXCEPT !.opening = FALSE, !.serving = TRUE]
               /\ stanzas' = [stanzas EXCEPT !.receiver = Append(@, TransferOffer)]
            \/ /\ scenario.breaks
               /\ sender' = SetState([sender EXCEPT !.opening = FALSE], "cancelled")
               /\ UNCHANGED stanzas
    /\ UNCHANGED <<receiver, http, scenario>>

\* http_server_wrote_chunk_cb
WroteChunk(c) == IF c.input /\ ~c.cancelled THEN [c EXCEPT !.watch = TRUE] ELSE c

\* gibber_oob_file_transfer_send
StartSending(c) == WroteChunk([c EXCEPT !.input = TRUE])

\* remote_accepted_cb; a channel of the client that came early is sent now.
RemoteAcceptedLater(c) ==
    SetState([c EXCEPT !.remoteAccepted = TRUE, !.parked = FALSE],
             IF c.socket THEN "open" ELSE "accepted")
RemoteAccepted(c) ==
    LET r == [c EXCEPT !.remoteAccepted = TRUE, !.parked = FALSE]
    IN  SetState(IF c.parked THEN StartSending(r) ELSE r, IF c.socket THEN "open" ELSE "accepted")

\* http_server_cb: the GET is here; without a server it is refused.
Serve ==
    /\ http.state = "asked"
    /\ IF Alive(sender) /\ sender.serving
       THEN /\ http' = [http EXCEPT !.state = "open"]
            /\ sender' = RemoteAccepted(sender)
       ELSE /\ http' = [http EXCEPT !.state = "broken", !.ok = FALSE]
            /\ UNCHANGED sender
    /\ UNCHANGED <<receiver, stanzas, scenario>>

\* salut_file_transfer_channel_provide_file
ProvideFile ==
    /\ Alive(sender) /\ ~sender.socket
    /\ sender' = SetState(LocalSocket(sender),
                          IF sender.remoteAccepted THEN "open" ELSE sender.state)
    /\ UNCHANGED <<receiver, http, stanzas, scenario>>

\* accept_local_socket_connection of an outgoing transfer
SenderClient ==
    /\ Alive(sender) /\ sender.socket /\ ~sender.client
    /\ LET r == [sender EXCEPT !.client = TRUE]
       IN  sender' = IF sender.remoteAccepted THEN StartSending(r) ELSE [r EXCEPT !.parked = TRUE]
    /\ UNCHANGED <<receiver, http, stanzas, scenario>>

\* input_channel_readable_cb.  The message is freed when its connection ends,
\* and the transfer is not told.
InputReadable ==
    /\ Alive(sender) /\ sender.watch
    /\ IF http.state # "open"
       THEN sender' = [sender EXCEPT !.life = "crashed"] /\ UNCHANGED http
       ELSE IF sender.file > 0
       THEN /\ sender' \in Transferred([sender EXCEPT !.watch = FALSE, !.file = @ - 1], 1)
            /\ http' = [http EXCEPT !.body = @ + 1]
       ELSE /\ sender' = [sender EXCEPT !.watch = FALSE, !.input = FALSE, !.serving = FALSE]
            /\ http' = [http EXCEPT !.complete = TRUE]
    /\ UNCHANGED <<receiver, stanzas, scenario>>

\* received_stanza_cb, gibber_oob_file_transfer_received_stanza: "finished" is
\* heard once the remote side has accepted.
ReceivedAnswer(c, answer) ==
    CASE answer = "result" -> IF c.remoteAccepted THEN Finished(c) ELSE c
      [] answer = "406" -> Unhold(SetState(CancelTransfer(c), "cancelled"))
      [] answer = "404" -> SetState(CancelTransfer(c), "cancelled")
SenderStanza ==
    /\ stanzas.sender # <<>>
    /\ stanzas' = [stanzas EXCEPT !.sender = Tail(@)]
    /\ sender' = IF Alive(sender) THEN ReceivedAnswer(sender, Head(stanzas.sender)) ELSE sender
    /\ UNCHANGED <<receiver, http, scenario>>

\* salut_file_transfer_channel_close, file_channel_closed
CloseSender ==
    /\ Alive(sender) /\ "sender" \in scenario.closes
    /\ sender' = Gone(IF sender.state \in Ended THEN sender
                      ELSE SetState(CancelTransfer(sender), "cancelled"))
    /\ Break
    /\ UNCHANGED <<receiver, stanzas, scenario>>

\* contact_lost_cb of both sides
ContactLost(c) == IF c.state = "pending" THEN SetState(c, "cancelled") ELSE c
SenderContactLost ==
    /\ Alive(sender) /\ scenario.loses
    /\ sender' = ContactLost(sender)
    /\ UNCHANGED <<receiver, http, stanzas, scenario>>

-----------------------------------------------------------------------------
(* The receiver *)

Answer(stanza) == stanzas' = [stanzas EXCEPT !.sender = Append(@, stanza)]

\* salut_file_transfer_channel_new_from_stanza
NewFromStanza(c) == Registered(NewTransfer(c))

\* message_stanza_callback
ReceiverStanza ==
    /\ stanzas.receiver # <<>> /\ IsFileOffer(Head(stanzas.receiver))
    /\ stanzas' = [stanzas EXCEPT !.receiver = Tail(@)]
    /\ receiver' = NewFromStanza(receiver)
    /\ UNCHANGED <<sender, http, scenario>>

\* salut_file_transfer_channel_accept_file
AcceptFile ==
    /\ Alive(receiver) /\ receiver.state = "pending"
    /\ receiver' = SetState(LocalSocket(receiver), "open")
    /\ UNCHANGED <<sender, http, stanzas, scenario>>

\* gibber_oob_file_transfer_receive
Fetch(c) == [c EXCEPT !.fetching = TRUE]

\* accept_local_socket_connection of an incoming transfer
ReceiverClient ==
    /\ Alive(receiver) /\ receiver.socket /\ ~receiver.client
    /\ receiver' = Fetch([receiver EXCEPT !.client = TRUE])
    /\ http' = [http EXCEPT !.state = "asked"]
    /\ UNCHANGED <<sender, stanzas, scenario>>

\* A chunk is written at the sender (wrote-chunk) and read at the receiver,
\* http_client_chunk_cb.
Chunk ==
    /\ http.state = "open" /\ http.body > 0 /\ Alive(receiver) /\ receiver.fetching
    /\ http' = [http EXCEPT !.body = @ - 1]
    /\ sender' = IF Alive(sender) THEN WroteChunk(sender) ELSE sender
    /\ receiver' \in IF receiver.cancelled THEN {receiver}
                     ELSE Transferred([receiver EXCEPT !.received = @ + 1, !.written = @ + 1], 1)
    /\ UNCHANGED <<stanzas, scenario>>

\* http_client_finished_chunks_cb: the exchange is over, well or not.
IncompleteByStatus(c) == ~http.ok
Incomplete(c) == Size > c.received
FetchEnds ==
    LET r == [receiver EXCEPT !.fetching = FALSE]
    IN  /\ Alive(receiver) /\ receiver.fetching
        /\ \/ http.state = "broken"
           \/ http.state = "open" /\ http.complete /\ http.body = 0
        /\ http' = [http EXCEPT !.state = "closed"]
        /\ IF Incomplete(receiver)
           THEN /\ receiver' = Unhold(SetState(CancelTransfer(r), "cancelled"))
                /\ IF r.cancelled THEN UNCHANGED stanzas ELSE Answer("406")
           ELSE IF ~http.ok
           THEN /\ receiver' = SetState(CancelTransfer(r), "cancelled")
                /\ IF r.cancelled THEN UNCHANGED stanzas ELSE Answer("404")
           ELSE /\ receiver' \in {Finished(q) : q \in Transferred(r, 0)}
                /\ Answer("result")
        /\ UNCHANGED <<sender, scenario>>

CloseReceiver ==
    /\ Alive(receiver) /\ "receiver" \in scenario.closes
    /\ IF receiver.state \in Ended
       THEN receiver' = Gone(receiver) /\ UNCHANGED stanzas
       ELSE /\ receiver' = Gone(SetState(CancelTransfer(receiver), "cancelled"))
            /\ IF receiver.cancelled THEN UNCHANGED stanzas ELSE Answer("406")
    /\ Break
    /\ UNCHANGED <<sender, scenario>>

ReceiverContactLost ==
    /\ Alive(receiver) /\ scenario.loses
    /\ receiver' = ContactLost(receiver)
    /\ UNCHANGED <<sender, http, stanzas, scenario>>

-----------------------------------------------------------------------------
(* Both *)

\* emit_progress_update_cb
ProgressTimeout ==
    \/ /\ sender.timer /\ sender' = EmitProgress(sender)
       /\ UNCHANGED <<receiver, http, stanzas, scenario>>
    \/ /\ receiver.timer /\ receiver' = EmitProgress(receiver)
       /\ UNCHANGED <<sender, http, stanzas, scenario>>

\* The connection breaks, by itself or with a process.
ConnectionBreaks ==
    /\ http.state = "open" /\ (scenario.breaks \/ sender.life = "crashed")
    /\ Break
    /\ UNCHANGED <<sender, receiver, stanzas, scenario>>

Next ==
    \/ Offer \/ PorterOpened \/ Serve \/ ProvideFile \/ SenderClient \/ InputReadable
    \/ SenderStanza \/ CloseSender \/ SenderContactLost
    \/ ReceiverStanza \/ AcceptFile \/ ReceiverClient \/ Chunk \/ FetchEnds
    \/ CloseReceiver \/ ReceiverContactLost \/ ProgressTimeout \/ ConnectionBreaks

Spec == Init /\ [][Next]_vars

\* The main loops run: what is ready is dispatched.  Clients may do nothing.
FairSpec ==
    /\ Spec /\ WF_vars(PorterOpened) /\ WF_vars(Serve) /\ WF_vars(InputReadable)
    /\ WF_vars(SenderStanza) /\ WF_vars(Chunk) /\ WF_vars(FetchEnds) /\ WF_vars(ConnectionBreaks)

-----------------------------------------------------------------------------
(* Properties *)

\* A sender whose channel says Completed has a receiver that got, and wrote to
\* its client, all of the file that was announced.
CompletedMeansDelivered ==
    sender.state = "completed" => receiver.written >= Size /\ receiver.state = "completed"

\* The last count that TransferredBytesChanged told is the count, or a timer
\* will tell it.
ProgressIsTold ==
    \A c \in {sender, receiver} : Alive(c) => c.emitted = c.transferred \/ c.timer

\* When both clients are connected before either side has ended, the transfer
\* ends on both sides, whatever order they came in and whoever closes or breaks
\* off: no GET is left unanswered, no early client is left parked.
Ends(c) == c.life # "alive" \/ c.state \in Ended
Moving(c) == c.client /\ ~Ends(c)
TransferEnds ==
    (Moving(sender) /\ Moving(receiver)) ~> (Ends(sender) /\ Ends(receiver))
=============================================================================
