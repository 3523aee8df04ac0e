-------------------------- MODULE FileTransferProofs --------------------------
(***************************************************************************)
(* The safety of one file transfer, for all scenarios: how long the file is, *)
(* who closes and what breaks.                                             *)
(*                                                                         *)
(* A sender that completes has heard "result"; the receiver says that when   *)
(* it has all of the file, and says no more after it.  It is offered a file   *)
(* once, before it has done anything, so its channel is not started anew.     *)
(***************************************************************************)
EXTENDS FileTransfer, SequenceTheorems, TLAPS

States == {"none", "pending", "accepted", "open", "completed", "cancelled"}
Lives == {"none", "alive", "gone", "crashed"}

SenderType ==
    [life : Lives, state : States, holds : Int, transferred : Nat, emitted : Nat, timer : BOOLEAN,
     socket : BOOLEAN, client : BOOLEAN, cancelled : BOOLEAN,
     opening : BOOLEAN, serving : BOOLEAN, remoteAccepted : BOOLEAN, parked : BOOLEAN,
     input : BOOLEAN, watch : BOOLEAN, file : Nat]

ReceiverType ==
    [life : Lives, state : States, holds : Int, transferred : Nat, emitted : Nat, timer : BOOLEAN,
     socket : BOOLEAN, client : BOOLEAN, cancelled : BOOLEAN,
     fetching : BOOLEAN, received : Nat, written : Nat]

TypeOK ==
    /\ sender \in SenderType /\ receiver \in ReceiverType
    /\ http \in [state : {"none", "asked", "open", "broken", "closed"}, ok : BOOLEAN, body : Nat, complete : BOOLEAN]
    /\ stanzas \in [sender : Seq({"result", "406", "404"}), receiver : Seq({TransferOffer})]
    /\ scenario \in Scenarios

\* The sender offers the file once, to a receiver that has done nothing yet.
OfferedOnce ==
    /\ sender.life = "none" => ~sender.opening
    /\ sender.life = "none" \/ sender.opening => stanzas.receiver = <<>>
    /\ Len(stanzas.receiver) <= 1
    /\ sender.life = "none" \/ sender.opening \/ stanzas.receiver # <<>> =>
          receiver.life = "none" /\ receiver.state = "none"

\* What was received was written; who fetches has a client, and has not completed.
Fetches ==
    /\ receiver.written = receiver.received
    /\ receiver.fetching => receiver.client
    /\ receiver.state = "completed" => receiver.client /\ ~receiver.fetching

\* "result" is said, and heard, of a file that is there.
Delivered == receiver.state = "completed" /\ receiver.written >= Size
ResultMeansDelivered ==
    sender.state = "completed" \/ (\E i \in DOMAIN stanzas.sender : stanzas.sender[i] = "result") => Delivered

\* A channel, made or not, has told its count, or will, while there is somebody to.
Told(c) == c.life \in {"gone", "crashed"} \/ c.emitted = c.transferred \/ c.timer

IInv == TypeOK /\ OfferedOnce /\ Fetches /\ ResultMeansDelivered /\ Told(sender) /\ Told(receiver)

-----------------------------------------------------------------------------
(* Channels *)

\* A sender of which only what the file is and how it is sent differ.
SameSender(s, c) ==
    /\ s.life = c.life /\ s.opening = c.opening /\ s.emitted = c.emitted
    /\ s.transferred = c.transferred /\ s.timer = c.timer

\* What the helpers make of a sender is a sender.
LEMMA SenderMakes ==
    ASSUME NEW c \in SenderType
    PROVE  /\ \A state \in States :
                 /\ SetState(c, state) \in SenderType /\ SameSender(SetState(c, state), c)
                 /\ SetState(c, state).state = state
           /\ CancelTransfer(c) \in SenderType /\ SameSender(CancelTransfer(c), c)
              /\ CancelTransfer(c).state = c.state
           /\ Unhold(c) \in SenderType /\ SameSender(Unhold(c), c) /\ Unhold(c).state = c.state
           /\ Gone(c) \in SenderType /\ Gone(c).life = "gone" /\ Gone(c).opening = c.opening
              /\ Gone(c).state = c.state
           /\ WroteChunk(c) \in SenderType /\ SameSender(WroteChunk(c), c) /\ WroteChunk(c).state = c.state
           /\ StartSending(c) \in SenderType /\ SameSender(StartSending(c), c) /\ StartSending(c).state = c.state
           /\ EmitProgress(c) \in SenderType /\ EmitProgress(c).life = c.life
              /\ EmitProgress(c).opening = c.opening /\ EmitProgress(c).state = c.state
              /\ EmitProgress(c).emitted = EmitProgress(c).transferred
<1> USE DEF SenderType
<1>1. \A state \in States : /\ SetState(c, state) \in SenderType /\ SameSender(SetState(c, state), c)
                            /\ SetState(c, state).state = state
  BY DEF SetState, SameSender
<1>2. CancelTransfer(c) \in SenderType /\ SameSender(CancelTransfer(c), c) /\ CancelTransfer(c).state = c.state
  BY DEF CancelTransfer, SameSender
<1>3. Unhold(c) \in SenderType /\ SameSender(Unhold(c), c) /\ Unhold(c).state = c.state
  <2>1. c.holds \in Int /\ c.holds - 1 \in Int
    OBVIOUS
  <2> QED
    BY <2>1 DEF Unhold, SameSender
<1>4. /\ Gone(c) \in SenderType /\ Gone(c).life = "gone" /\ Gone(c).opening = c.opening
      /\ Gone(c).state = c.state
  <2>1. "gone" \in Lives
    BY DEF Lives
  <2>2. Gone(c) \in SenderType
    BY <2>1 DEF Gone
  <2>3. Gone(c).life = "gone" /\ Gone(c).opening = c.opening /\ Gone(c).state = c.state
    BY DEF Gone
  <2> QED
    BY <2>2, <2>3
<1>5. WroteChunk(c) \in SenderType /\ SameSender(WroteChunk(c), c) /\ WroteChunk(c).state = c.state
  <2>1. WroteChunk(c) \in SenderType
    BY DEF WroteChunk
  <2>2. SameSender(WroteChunk(c), c) /\ WroteChunk(c).state = c.state
    BY DEF WroteChunk, SameSender
  <2> QED
    BY <2>1, <2>2
<1>6. StartSending(c) \in SenderType /\ SameSender(StartSending(c), c) /\ StartSending(c).state = c.state
  <2> DEFINE i == [c EXCEPT !.input = TRUE]
  <2>1. i \in SenderType /\ SameSender(i, c) /\ i.state = c.state
    BY DEF SameSender
  <2> HIDE DEF i
  <2>2. WroteChunk(i) \in SenderType /\ SameSender(WroteChunk(i), i) /\ WroteChunk(i).state = i.state
    <3>1. WroteChunk(i) \in SenderType
      BY <2>1 DEF WroteChunk
    <3>2. SameSender(WroteChunk(i), i) /\ WroteChunk(i).state = i.state
      BY <2>1 DEF WroteChunk, SameSender
    <3> QED
      BY <3>1, <3>2
  <2>3. StartSending(c) = WroteChunk(i)
    BY DEF StartSending, i
  <2> QED
    BY <2>1, <2>2, <2>3 DEF SameSender
<1>7. /\ EmitProgress(c) \in SenderType /\ EmitProgress(c).life = c.life
      /\ EmitProgress(c).opening = c.opening /\ EmitProgress(c).state = c.state
      /\ EmitProgress(c).emitted = EmitProgress(c).transferred
  BY DEF EmitProgress
<1> QED
  BY <1>1, <1>2, <1>3, <1>4, <1>5, <1>6, <1>7

\* A receiver of which only the state differs.
SameReceiver(s, c) ==
    /\ s.life = c.life /\ s.written = c.written /\ s.received = c.received
    /\ s.client = c.client /\ s.fetching = c.fetching
    /\ s.emitted = c.emitted /\ s.transferred = c.transferred /\ s.timer = c.timer

\* What the helpers make of a receiver is a receiver.
LEMMA ReceiverMakes ==
    ASSUME NEW c \in ReceiverType
    PROVE  /\ \A state \in States :
                 /\ SetState(c, state) \in ReceiverType /\ SameReceiver(SetState(c, state), c)
                 /\ SetState(c, state).state = state
           /\ CancelTransfer(c) \in ReceiverType /\ SameReceiver(CancelTransfer(c), c)
              /\ CancelTransfer(c).state = c.state
           /\ Unhold(c) \in ReceiverType /\ SameReceiver(Unhold(c), c) /\ Unhold(c).state = c.state
           /\ Gone(c) \in ReceiverType /\ Gone(c).life = "gone" /\ Gone(c).state = c.state
              /\ Gone(c).written = c.written /\ Gone(c).received = c.received
              /\ Gone(c).client = c.client /\ Gone(c).fetching = c.fetching
           /\ EmitProgress(c) \in ReceiverType /\ EmitProgress(c).life = c.life
              /\ EmitProgress(c).written = c.written /\ EmitProgress(c).received = c.received
              /\ EmitProgress(c).client = c.client /\ EmitProgress(c).fetching = c.fetching
              /\ EmitProgress(c).state = c.state
              /\ EmitProgress(c).emitted = EmitProgress(c).transferred
<1> USE DEF ReceiverType
<1>1. \A state \in States : /\ SetState(c, state) \in ReceiverType /\ SameReceiver(SetState(c, state), c)
                            /\ SetState(c, state).state = state
  BY DEF SetState, SameReceiver
<1>2. CancelTransfer(c) \in ReceiverType /\ SameReceiver(CancelTransfer(c), c) /\ CancelTransfer(c).state = c.state
  BY DEF CancelTransfer, SameReceiver
<1>3. Unhold(c) \in ReceiverType /\ SameReceiver(Unhold(c), c) /\ Unhold(c).state = c.state
  <2>1. c.holds \in Int /\ c.holds - 1 \in Int
    OBVIOUS
  <2> QED
    BY <2>1 DEF Unhold, SameReceiver
<1>4. /\ Gone(c) \in ReceiverType /\ Gone(c).life = "gone" /\ Gone(c).state = c.state
      /\ Gone(c).written = c.written /\ Gone(c).received = c.received
      /\ Gone(c).client = c.client /\ Gone(c).fetching = c.fetching
  BY DEF Gone, Lives
<1>5. /\ EmitProgress(c) \in ReceiverType /\ EmitProgress(c).life = c.life
      /\ EmitProgress(c).written = c.written /\ EmitProgress(c).received = c.received
      /\ EmitProgress(c).client = c.client /\ EmitProgress(c).fetching = c.fetching
      /\ EmitProgress(c).state = c.state
      /\ EmitProgress(c).emitted = EmitProgress(c).transferred
  BY DEF EmitProgress
<1> QED
  BY <1>1, <1>2, <1>3, <1>4, <1>5

\* After progress the count is told, now or by a timer.
LEMMA SenderProgress ==
    ASSUME NEW c \in SenderType, NEW n \in Nat, NEW s \in Transferred(c, n)
    PROVE  s \in SenderType /\ s.life = c.life /\ s.opening = c.opening /\ s.state = c.state /\ Told(s)
<1> DEFINE r == [c EXCEPT !.transferred = c.transferred + n]
<1>1. c.transferred + n \in Nat
  BY DEF SenderType
<1>2. r \in SenderType /\ r.life = c.life /\ r.opening = c.opening /\ r.state = c.state
  BY <1>1 DEF SenderType
<1>3. s = EmitProgress(r) \/ (s = r /\ r.timer) \/ s = LaterProgress(r)
  BY DEF Transferred
<1> HIDE DEF r
<1>4. CASE s = EmitProgress(r)
  BY <1>2, <1>4, SenderMakes DEF Told
<1>5. CASE s = r /\ r.timer
  BY <1>2, <1>5 DEF Told
<1>6. CASE s = LaterProgress(r)
  BY <1>2, <1>6 DEF LaterProgress, SenderType, Told
<1> QED
  BY <1>3, <1>4, <1>5, <1>6

\* A receiver that counts more tells it now or has its timer set.
LEMMA ReceiverProgress ==
    ASSUME NEW c \in ReceiverType, NEW n \in Nat, NEW s \in Transferred(c, n)
    PROVE  /\ s \in ReceiverType /\ s.life = c.life /\ s.state = c.state /\ s.client = c.client
           /\ s.fetching = c.fetching /\ s.received = c.received /\ s.written = c.written /\ Told(s)
<1> DEFINE r == [c EXCEPT !.transferred = c.transferred + n]
<1>1. c.transferred + n \in Nat
  BY DEF ReceiverType
<1>2. /\ r \in ReceiverType /\ r.life = c.life /\ r.state = c.state /\ r.client = c.client
      /\ r.fetching = c.fetching /\ r.received = c.received /\ r.written = c.written
  BY <1>1 DEF ReceiverType
<1>3. s = EmitProgress(r) \/ (s = r /\ r.timer) \/ s = LaterProgress(r)
  BY DEF Transferred
<1> HIDE DEF r
<1>4. CASE s = EmitProgress(r)
  BY <1>2, <1>4, ReceiverMakes DEF Told
<1>5. CASE s = r /\ r.timer
  BY <1>2, <1>5 DEF Told
<1>6. CASE s = LaterProgress(r)
  BY <1>2, <1>6 DEF LaterProgress, ReceiverType, Told
<1> QED
  BY <1>3, <1>4, <1>5, <1>6

-----------------------------------------------------------------------------
(* Steps *)

HttpType == [state : {"none", "asked", "open", "broken", "closed"}, ok : BOOLEAN, body : Nat, complete : BOOLEAN]
Stanzas == [sender : Seq({"result", "406", "404"}), receiver : Seq({TransferOffer})]

\* Before the offer nothing is transferred.
LEMMA InitIInv == Init => IInv
<1> SUFFICES ASSUME Init PROVE IInv
  OBVIOUS
<1>1. scenario.file \in Nat
  BY FileTransferAssumption DEF Init
<1>2. TypeOK
  BY <1>1 DEF Init, TypeOK, NewSender, NewReceiver, SenderType, ReceiverType, States, Lives, TransferOffer
<1>3. OfferedOnce /\ Fetches /\ ResultMeansDelivered /\ Told(sender) /\ Told(receiver)
  BY DEF Init, NewSender, NewReceiver, OfferedOnce, Fetches, ResultMeansDelivered, Told
<1> QED
  BY <1>2, <1>3 DEF IInv

\* The size of the file is a number in every scenario.
LEMMA SizeIsNat == ASSUME scenario \in Scenarios PROVE Size \in Nat
BY FileTransferAssumption DEF Size

\* A connection that breaks is a connection.
LEMMA BreakType == ASSUME http \in HttpType, Break PROVE http' \in HttpType
BY DEF Break, HttpType

\* A step of a sender that was offered already, or that says nothing.
LEMMA SenderSteps ==
    ASSUME IInv, sender' \in SenderType, http' \in HttpType, UNCHANGED <<receiver, stanzas, scenario>>,
           sender'.life = "none" => sender.life = "none" /\ ~sender'.opening,
           sender'.opening => sender.life = "none" \/ sender.opening,
           sender'.state = "completed" => sender.state = "completed",
           Told(sender')
    PROVE  IInv'
<1>1. TypeOK'
  BY DEF IInv, TypeOK, HttpType
<1>2. OfferedOnce'
  BY DEF IInv, OfferedOnce
<1>3. Fetches' /\ Told(receiver)'
  BY DEF IInv, Fetches, Told
<1>4. ResultMeansDelivered'
  BY DEF IInv, ResultMeansDelivered, Delivered, Size
<1> QED
  BY <1>1, <1>2, <1>3, <1>4 DEF IInv, Told

\* A step of a receiver that has got the offer, and answers nothing.
LEMMA ReceiverSteps ==
    ASSUME IInv, receiver' \in ReceiverType, http' \in HttpType, UNCHANGED <<sender, stanzas, scenario>>,
           receiver.life # "none", Fetches', Told(receiver'), Delivered => Delivered'
    PROVE  IInv'
<1>1. TypeOK'
  BY DEF IInv, TypeOK, HttpType
<1>2. OfferedOnce'
  BY DEF IInv, OfferedOnce
<1>3. ResultMeansDelivered'
  BY DEF IInv, ResultMeansDelivered
<1>4. Told(sender)'
  BY DEF IInv, Told
<1> QED
  BY <1>1, <1>2, <1>3, <1>4 DEF IInv, Told

\* Steps at the sender, but for stanzas that arrive and chunks.
LEMMA SenderKeeps ==
    IInv /\ (Offer \/ Serve \/ ProvideFile \/ SenderClient \/ InputReadable \/ CloseSender \/ SenderContactLost)
        => IInv'
<1> SUFFICES ASSUME IInv PROVE Offer \/ Serve \/ ProvideFile \/ SenderClient \/ InputReadable
                               \/ CloseSender \/ SenderContactLost => IInv'
  OBVIOUS
<1>t. sender \in SenderType /\ http \in HttpType /\ Told(sender)
  BY DEF IInv, TypeOK, HttpType
<1>1. ASSUME Offer PROVE IInv'
  <2> DEFINE n == NewTransfer(sender)
             r == Registered(n)
  <2>a. n \in SenderType /\ n.life = "alive" /\ Told(n)
    BY <1>t, <1>1 DEF Offer, NewTransfer, SenderType, Lives, Told
  <2> HIDE DEF n
  <2>b. r \in SenderType /\ r.life = "alive" /\ r.state = "pending" /\ Told(r)
    <3> DEFINE m == [n EXCEPT !.state = "pending"]
    <3>1. m \in SenderType /\ m.life = "alive" /\ m.state = "pending" /\ Told(m)
      BY <2>a DEF SenderType, States, Told
    <3>2. r = [m EXCEPT !.holds = 1]
      BY DEF Registered
    <3> HIDE DEF m, r
    <3>3. r \in SenderType
      BY <3>1, <3>2 DEF SenderType
    <3>4. r.life = "alive" /\ r.state = "pending" /\ Told(r)
      BY <3>1, <3>2 DEF SenderType, Told
    <3> QED
      BY <3>3, <3>4
  <2>c. sender' = OpenPorter(r)
    BY <1>1 DEF Offer, n
  <2> HIDE DEF r
  <2>1. sender' \in SenderType
    BY <2>b, <2>c DEF OpenPorter, SenderType
  <2>2. sender'.life = "alive" /\ sender'.state = "pending" /\ Told(sender')
    BY <2>b, <2>c DEF OpenPorter, SenderType, Told
  <2>3. sender.life = "none" /\ UNCHANGED <<receiver, http, stanzas, scenario>>
    BY <1>1 DEF Offer
  <2> QED
    BY <1>t, <2>1, <2>2, <2>3, SenderSteps
<1>2. ASSUME Serve PROVE IInv'
  <2>1. http' \in HttpType
    BY <1>t, <1>2 DEF Serve, HttpType
  <2>2. UNCHANGED <<receiver, stanzas, scenario>>
    BY <1>2 DEF Serve
  <2>3. CASE sender' = sender
    BY <1>t, <2>1, <2>2, <2>3, SenderSteps DEF IInv, OfferedOnce
  <2>4. CASE sender' = RemoteAccepted(sender) /\ Alive(sender)
    <3> DEFINE r == [sender EXCEPT !.remoteAccepted = TRUE, !.parked = FALSE]
               q == IF sender.parked THEN StartSending(r) ELSE r
               state == IF sender.socket THEN "open" ELSE "accepted"
    <3>1. r \in SenderType /\ SameSender(r, sender)
      BY <1>t DEF SenderType, SameSender
    <3>2. sender' = SetState(q, state) /\ state \in States /\ state # "completed"
      BY <2>4 DEF RemoteAccepted, States
    <3> HIDE DEF r
    <3>3. q \in SenderType /\ SameSender(q, r)
      BY <3>1, SenderMakes DEF SameSender
    <3> HIDE DEF q, state
    <3>4. sender' \in SenderType /\ SameSender(sender', q) /\ sender'.state # "completed"
      BY <3>2, <3>3, SenderMakes
    <3>5. SameSender(sender', sender)
      BY <3>1, <3>3, <3>4 DEF SameSender
    <3>6. Told(sender') /\ sender'.life = "alive" /\ (sender'.opening => sender.opening)
      BY <1>t, <2>4, <3>5 DEF Told, SameSender, Alive
    <3> QED
      BY <2>1, <2>2, <3>4, <3>6, SenderSteps
  <2> QED
    BY <1>2, <2>3, <2>4 DEF Serve
<1>3. ASSUME ProvideFile PROVE IInv'
  <2> DEFINE l == LocalSocket(sender)
             state == IF sender.remoteAccepted THEN "open" ELSE sender.state
  <2>1. l \in SenderType /\ SameSender(l, sender)
    BY <1>t DEF LocalSocket, SenderType, SameSender
  <2>2. /\ sender' = SetState(l, state) /\ state \in States /\ (state = "completed" => sender.state = "completed")
        /\ Alive(sender) /\ UNCHANGED <<receiver, http, stanzas, scenario>>
    BY <1>t, <1>3 DEF ProvideFile, States, SenderType
  <2> HIDE DEF l, state
  <2>3. sender' \in SenderType /\ SameSender(sender', l) /\ sender'.state = state
    BY <2>1, <2>2, SenderMakes
  <2>4. Told(sender') /\ sender'.life = "alive" /\ (sender'.opening => sender.opening)
    BY <1>t, <2>1, <2>2, <2>3 DEF Told, SameSender, Alive
  <2> QED
    BY <1>t, <2>2, <2>3, <2>4, SenderSteps
<1>4. ASSUME SenderClient PROVE IInv'
  <2> DEFINE r == [sender EXCEPT !.client = TRUE]
  <2>1. r \in SenderType /\ SameSender(r, sender) /\ r.state = sender.state
    BY <1>t DEF SenderType, SameSender
  <2>2. /\ sender' = StartSending(r) \/ sender' = [r EXCEPT !.parked = TRUE]
        /\ Alive(sender) /\ UNCHANGED <<receiver, http, stanzas, scenario>>
    BY <1>4 DEF SenderClient
  <2> HIDE DEF r
  <2>3. [r EXCEPT !.parked = TRUE] \in SenderType /\ SameSender([r EXCEPT !.parked = TRUE], r)
        /\ [r EXCEPT !.parked = TRUE].state = r.state
    BY <2>1 DEF SenderType, SameSender
  <2>4. sender' \in SenderType /\ SameSender(sender', r) /\ sender'.state = r.state
    BY <2>1, <2>2, <2>3, SenderMakes
  <2>5. Told(sender') /\ sender'.life = "alive" /\ (sender'.opening => sender.opening)
    BY <1>t, <2>1, <2>2, <2>4 DEF Told, SameSender, Alive
  <2> QED
    BY <1>t, <2>1, <2>2, <2>4, <2>5, SenderSteps
<1>5. ASSUME InputReadable PROVE IInv'
  <2>0. Alive(sender) /\ UNCHANGED <<receiver, stanzas, scenario>>
    BY <1>5 DEF InputReadable
  <2>1. http' \in HttpType
    <3>1. http.body + 1 \in Nat
      BY <1>t DEF HttpType
    <3> QED
      BY <1>t, <1>5, <3>1 DEF InputReadable, HttpType
  <2>2. CASE sender' = [sender EXCEPT !.life = "crashed"]
    <3>1. sender' \in SenderType /\ sender'.life = "crashed" /\ sender'.state = sender.state
          /\ sender'.opening = sender.opening /\ Told(sender')
      BY <1>t, <2>0, <2>2 DEF SenderType, Lives, Told, Alive
    <3> QED
      BY <2>0, <2>1, <3>1, SenderSteps
  <2>3. CASE sender.file > 0 /\ sender' \in Transferred([sender EXCEPT !.watch = FALSE, !.file = sender.file - 1], 1)
    <3> DEFINE r == [sender EXCEPT !.watch = FALSE, !.file = sender.file - 1]
    <3>1. sender.file - 1 \in Nat
      BY <1>t, <2>3 DEF SenderType
    <3>2. r \in SenderType /\ r.life = "alive" /\ r.opening = sender.opening /\ r.state = sender.state
      BY <1>t, <2>0, <3>1 DEF SenderType, Alive
    <3>3. sender' \in Transferred(r, 1)
      BY <2>3
    <3> HIDE DEF r
    <3>4. sender' \in SenderType /\ sender'.life = r.life /\ sender'.opening = r.opening
          /\ sender'.state = r.state /\ Told(sender')
      BY <3>2, <3>3, SenderProgress
    <3> QED
      BY <2>0, <2>1, <3>2, <3>4, SenderSteps
  <2>4. CASE sender' = [sender EXCEPT !.watch = FALSE, !.input = FALSE, !.serving = FALSE]
    <3>1. sender' \in SenderType /\ sender'.life = "alive" /\ sender'.state = sender.state
          /\ sender'.opening = sender.opening /\ Told(sender')
      BY <1>t, <2>0, <2>4 DEF SenderType, Told, Alive
    <3> QED
      BY <2>0, <2>1, <3>1, SenderSteps
  <2> QED
    BY <1>5, <2>2, <2>3, <2>4 DEF InputReadable
<1>6. ASSUME CloseSender PROVE IInv'
  <2> DEFINE k == CancelTransfer(sender)
             q == SetState(k, "cancelled")
  <2>1. k \in SenderType /\ SameSender(k, sender)
    BY <1>t, SenderMakes
  <2> HIDE DEF k
  <2>2. q \in SenderType /\ SameSender(q, k) /\ q.state = "cancelled"
    BY <2>1, SenderMakes DEF States
  <2>3. sender' = Gone(sender) \/ sender' = Gone(q)
    BY <1>6 DEF CloseSender, k
  <2> HIDE DEF q
  <2>4. sender' \in SenderType /\ sender'.life = "gone" /\ sender'.opening = sender.opening
        /\ (sender'.state = "completed" => sender.state = "completed")
    BY <1>t, <2>1, <2>2, <2>3, SenderMakes DEF SameSender
  <2>5. http' \in HttpType /\ UNCHANGED <<receiver, stanzas, scenario>>
    BY <1>t, <1>6, BreakType DEF CloseSender
  <2> QED
    BY <2>4, <2>5, SenderSteps DEF Told
<1>7. ASSUME SenderContactLost PROVE IInv'
  <2>1. /\ sender' = SetState(sender, "cancelled") \/ sender' = sender
        /\ Alive(sender) /\ UNCHANGED <<receiver, http, stanzas, scenario>>
    BY <1>7 DEF SenderContactLost, ContactLost
  <2>2. SetState(sender, "cancelled") \in SenderType /\ SameSender(SetState(sender, "cancelled"), sender)
        /\ SetState(sender, "cancelled").state = "cancelled"
    BY <1>t, SenderMakes DEF States
  <2>3. sender' \in SenderType /\ SameSender(sender', sender) /\ (sender'.state = "completed" => sender.state = "completed")
    BY <1>t, <2>1, <2>2 DEF SameSender
  <2>4. Told(sender') /\ sender'.life = "alive" /\ (sender'.opening => sender.opening)
    BY <1>t, <2>1, <2>3 DEF Told, SameSender, Alive
  <2> QED
    BY <1>t, <2>1, <2>3, <2>4, SenderSteps
<1> QED
  BY <1>1, <1>2, <1>3, <1>4, <1>5, <1>6, <1>7

\* What is appended to what was said is said last.
LEMMA Said ==
    ASSUME NEW q \in Seq({"result", "406", "404"}), NEW x \in {"result", "406", "404"}
    PROVE  /\ Append(q, x) \in Seq({"result", "406", "404"})
           /\ \A i \in DOMAIN Append(q, x) : Append(q, x)[i] = x \/ \E j \in DOMAIN q : Append(q, x)[i] = q[j]
<1>1. Append(q, x) \in Seq({"result", "406", "404"}) /\ Len(Append(q, x)) = Len(q) + 1
  OBVIOUS
<1>2. \A i \in 1 .. Len(q) : Append(q, x)[i] = q[i]
  OBVIOUS
<1>3. Append(q, x)[Len(q) + 1] = x
  OBVIOUS
<1>4. DOMAIN q = 1 .. Len(q) /\ DOMAIN Append(q, x) = 1 .. Len(q) + 1 /\ Len(q) \in Nat
  BY <1>1
<1> QED
  BY <1>1, <1>2, <1>3, <1>4

\* The stream to the receiver is there, or is not.
LEMMA PorterOpenedKeeps == IInv /\ PorterOpened => IInv'
<1> SUFFICES ASSUME IInv, PorterOpened PROVE IInv'
  OBVIOUS
<1>t. sender \in SenderType /\ http \in HttpType /\ Told(sender) /\ stanzas \in Stanzas
  BY DEF IInv, TypeOK, HttpType, Stanzas
<1>1. sender.opening /\ UNCHANGED <<receiver, http, scenario>>
  BY DEF PorterOpened
<1>2. CASE sender' = [sender EXCEPT !.life = "crashed", !.opening = FALSE] /\ UNCHANGED stanzas
  <2>1. sender' \in SenderType /\ sender'.life = "crashed" /\ sender'.state = sender.state
        /\ ~sender'.opening /\ Told(sender')
    <3> DEFINE m == [sender EXCEPT !.life = "crashed"]
    <3>1. m \in SenderType /\ m.life = "crashed" /\ m.state = sender.state
      BY <1>t DEF SenderType, Lives
    <3>2. sender' = [m EXCEPT !.opening = FALSE]
      BY <1>2
    <3> HIDE DEF m
    <3>3. sender' \in SenderType /\ sender'.life = m.life /\ sender'.state = m.state /\ ~sender'.opening
      BY <3>1, <3>2 DEF SenderType
    <3> QED
      BY <3>1, <3>3 DEF Told
  <2> QED
    BY <1>t, <1>1, <1>2, <2>1, SenderSteps
<1>3. CASE /\ Alive(sender) /\ sender' = [sender EXCEPT !.opening = FALSE, !.serving = TRUE]
           /\ stanzas' = [stanzas EXCEPT !.receiver = Append(@, TransferOffer)]
  <2>1. sender' \in SenderType /\ sender'.life = "alive" /\ sender'.state = sender.state
        /\ ~sender'.opening /\ Told(sender')
    BY <1>t, <1>3 DEF SenderType, Told, Alive
  <2>2. stanzas.receiver = <<>> /\ receiver.life = "none" /\ receiver.state = "none"
    BY <1>1 DEF IInv, OfferedOnce
  <2>3. Append(stanzas.receiver, TransferOffer) \in Seq({TransferOffer}) /\ Len(Append(stanzas.receiver, TransferOffer)) = 1
    BY <2>2
  <2>4. stanzas' \in Stanzas /\ stanzas'.sender = stanzas.sender
        /\ stanzas'.receiver = Append(stanzas.receiver, TransferOffer)
    BY <1>t, <1>3, <2>3 DEF Stanzas
  <2>5. TypeOK'
    BY <1>1, <2>1, <2>4 DEF IInv, TypeOK, Stanzas
  <2>6. OfferedOnce'
    BY <1>1, <2>1, <2>2, <2>3, <2>4 DEF OfferedOnce
  <2>7. ResultMeansDelivered'
    BY <1>1, <2>1, <2>4 DEF IInv, ResultMeansDelivered, Delivered, Size
  <2>8. Fetches' /\ Told(receiver)'
    BY <1>1 DEF IInv, Fetches, Told
  <2> QED
    BY <2>1, <2>5, <2>6, <2>7, <2>8 DEF IInv, Told
<1>4. CASE sender' = SetState([sender EXCEPT !.opening = FALSE], "cancelled") /\ Alive(sender) /\ UNCHANGED stanzas
  <2> DEFINE r == [sender EXCEPT !.opening = FALSE]
  <2>1. r \in SenderType /\ r.life = "alive" /\ ~r.opening /\ Told(r) /\ sender' = SetState(r, "cancelled")
    BY <1>t, <1>4 DEF SenderType, Told, Alive
  <2> HIDE DEF r
  <2>2. sender' \in SenderType /\ SameSender(sender', r) /\ sender'.state = "cancelled"
    BY <2>1, SenderMakes DEF States
  <2>3. sender'.life = "alive" /\ ~sender'.opening /\ Told(sender')
    BY <2>1, <2>2 DEF SameSender, Told
  <2> QED
    BY <1>t, <1>1, <1>4, <2>2, <2>3, SenderSteps
<1> QED
  BY <1>2, <1>3, <1>4 DEF PorterOpened

\* The sender hears of the receiver's end.
LEMMA SenderStanzaKeeps == IInv /\ SenderStanza => IInv'
<1> SUFFICES ASSUME IInv, SenderStanza PROVE IInv'
  OBVIOUS
<1>t. sender \in SenderType /\ http \in HttpType /\ Told(sender) /\ stanzas \in Stanzas
  BY DEF IInv, TypeOK, HttpType, Stanzas
<1> DEFINE answer == Head(stanzas.sender)
<1>1. /\ UNCHANGED <<receiver, http, scenario>>
      /\ sender' = sender \/ (Alive(sender) /\ sender' = ReceivedAnswer(sender, answer))
  BY DEF SenderStanza
<1>2. /\ answer \in {"result", "406", "404"} /\ Tail(stanzas.sender) \in Seq({"result", "406", "404"})
      /\ stanzas'.receiver = stanzas.receiver /\ stanzas'.sender = Tail(stanzas.sender) /\ stanzas' \in Stanzas
  <2>1. stanzas.sender \in Seq({"result", "406", "404"}) /\ stanzas.sender # <<>>
    BY <1>t DEF Stanzas, SenderStanza
  <2>2. answer \in {"result", "406", "404"} /\ Tail(stanzas.sender) \in Seq({"result", "406", "404"})
    BY <2>1
  <2> QED
    BY <1>t, <2>2 DEF Stanzas, SenderStanza
<1>3. /\ 1 \in DOMAIN stanzas.sender /\ stanzas.sender[1] = answer
      /\ \A i \in DOMAIN Tail(stanzas.sender) : \E j \in DOMAIN stanzas.sender : Tail(stanzas.sender)[i] = stanzas.sender[j]
  <2>1. stanzas.sender \in Seq({"result", "406", "404"}) /\ stanzas.sender # <<>>
    BY <1>t DEF Stanzas, SenderStanza
  <2> QED
    BY <2>1
<1> HIDE DEF answer
<1>4. sender' \in SenderType /\ SameSender(sender', sender)
      /\ (sender'.state = "completed" => sender.state = "completed" \/ answer = "result")
  <2>1. CASE sender' = sender
    BY <1>t, <2>1 DEF SameSender
  <2>2. CASE answer = "result" /\ sender' = Finished(sender)
    <3> DEFINE q == SetState(sender, "completed")
    <3>1. q \in SenderType /\ SameSender(q, sender)
      BY <1>t, SenderMakes DEF States
    <3>2. sender' = Unhold(q)
      BY <2>2 DEF Finished
    <3> HIDE DEF q
    <3>3. sender' \in SenderType /\ SameSender(sender', q)
      BY <3>1, <3>2, SenderMakes
    <3> QED
      BY <2>2, <3>1, <3>3 DEF SameSender
  <2>3. CASE sender' = Unhold(SetState(CancelTransfer(sender), "cancelled"))
             \/ sender' = SetState(CancelTransfer(sender), "cancelled")
    <3> DEFINE k == CancelTransfer(sender)
               q == SetState(k, "cancelled")
    <3>1. k \in SenderType /\ SameSender(k, sender)
      BY <1>t, SenderMakes
    <3>2. sender' = Unhold(q) \/ sender' = q
      BY <2>3
    <3> HIDE DEF k
    <3>3. q \in SenderType /\ SameSender(q, k) /\ q.state = "cancelled"
      BY <3>1, SenderMakes DEF States
    <3> HIDE DEF q
    <3>4. sender' \in SenderType /\ SameSender(sender', q) /\ sender'.state = q.state
      BY <3>2, <3>3, SenderMakes DEF SameSender
    <3> QED
      BY <3>1, <3>3, <3>4 DEF SameSender
  <2> QED
    BY <1>1, <1>2, <2>1, <2>2, <2>3 DEF ReceivedAnswer
<1>5. TypeOK'
  BY <1>1, <1>2, <1>4 DEF IInv, TypeOK, Stanzas
<1>6. OfferedOnce'
  BY <1>1, <1>2, <1>4 DEF IInv, OfferedOnce, SameSender
<1>7. Fetches' /\ Told(receiver)' /\ Told(sender)'
  BY <1>1, <1>4 DEF IInv, Fetches, Told, SameSender
<1>8. ResultMeansDelivered'
  BY <1>1, <1>2, <1>3, <1>4 DEF IInv, ResultMeansDelivered, Delivered, Size
<1> QED
  BY <1>5, <1>6, <1>7, <1>8 DEF IInv

\* What the receiver does of its own keeps that it fetches for a client.
LEMMA ReceiverKeeps ==
    IInv /\ (AcceptFile \/ ReceiverClient \/ ReceiverContactLost) => IInv'
<1> SUFFICES ASSUME IInv, Alive(receiver) PROVE AcceptFile \/ ReceiverClient \/ ReceiverContactLost => IInv'
  BY DEF AcceptFile, ReceiverClient, ReceiverContactLost
<1>t. receiver \in ReceiverType /\ http \in HttpType /\ Told(receiver) /\ receiver.life = "alive" /\ Fetches
  BY DEF IInv, TypeOK, HttpType, Alive
<1>1. ASSUME AcceptFile PROVE IInv'
  <2> DEFINE l == LocalSocket(receiver)
  <2>1. l \in ReceiverType /\ SameReceiver(l, receiver)
    BY <1>t DEF LocalSocket, ReceiverType, SameReceiver
  <2>2. receiver' = SetState(l, "open") /\ receiver.state = "pending" /\ UNCHANGED <<sender, http, stanzas, scenario>>
    BY <1>1 DEF AcceptFile
  <2> HIDE DEF l
  <2>3. receiver' \in ReceiverType /\ SameReceiver(receiver', l) /\ receiver'.state = "open"
    BY <2>1, <2>2, ReceiverMakes DEF States
  <2>4. Told(receiver') /\ Fetches' /\ ~Delivered
    BY <1>t, <2>1, <2>2, <2>3 DEF Told, SameReceiver, Fetches, Delivered
  <2> QED
    BY <1>t, <2>2, <2>3, <2>4, ReceiverSteps
<1>2. ASSUME ReceiverClient PROVE IInv'
  <2> DEFINE r == [receiver EXCEPT !.client = TRUE]
  <2>1. r \in ReceiverType /\ r.client
    BY <1>t DEF ReceiverType
  <2>2. /\ r.state = receiver.state /\ r.received = receiver.received /\ r.written = receiver.written
        /\ r.emitted = receiver.emitted /\ r.transferred = receiver.transferred /\ r.timer = receiver.timer
        /\ r.life = receiver.life
    BY <1>t DEF ReceiverType
  <2>3. receiver' = Fetch(r) /\ ~receiver.client /\ UNCHANGED <<sender, stanzas, scenario>>
    BY <1>2 DEF ReceiverClient
  <2>4. http' \in HttpType
    BY <1>t, <1>2 DEF ReceiverClient, HttpType
  <2> HIDE DEF r
  <2>5. receiver' \in ReceiverType
    BY <2>1, <2>3 DEF Fetch, ReceiverType
  <2>6. /\ receiver'.state = r.state /\ receiver'.received = r.received /\ receiver'.written = r.written
        /\ receiver'.emitted = r.emitted /\ receiver'.transferred = r.transferred /\ receiver'.timer = r.timer
        /\ receiver'.life = r.life /\ receiver'.client
    BY <2>1, <2>3 DEF Fetch, ReceiverType
  <2>7. Told(receiver') /\ Fetches' /\ ~Delivered
    BY <1>t, <2>2, <2>3, <2>6 DEF Told, Fetches, Delivered
  <2> QED
    BY <1>t, <2>3, <2>4, <2>5, <2>7, ReceiverSteps
<1>3. ASSUME ReceiverContactLost PROVE IInv'
  <2>1. /\ (receiver' = SetState(receiver, "cancelled") /\ receiver.state = "pending") \/ receiver' = receiver
        /\ UNCHANGED <<sender, http, stanzas, scenario>>
    BY <1>3 DEF ReceiverContactLost, ContactLost
  <2>2. SetState(receiver, "cancelled") \in ReceiverType /\ SameReceiver(SetState(receiver, "cancelled"), receiver)
        /\ SetState(receiver, "cancelled").state = "cancelled"
    BY <1>t, ReceiverMakes DEF States
  <2>3. UNCHANGED <<sender, http, stanzas, scenario>>
    BY <1>3 DEF ReceiverContactLost
  <2>4. receiver' = receiver \/ (receiver.state = "pending" /\ receiver' = SetState(receiver, "cancelled"))
    BY <1>3 DEF ReceiverContactLost, ContactLost
  <2>5. receiver' \in ReceiverType /\ SameReceiver(receiver', receiver)
        /\ (receiver'.state # receiver.state => receiver.state = "pending" /\ receiver'.state = "cancelled")
    BY <1>t, <2>2, <2>4 DEF SameReceiver
  <2>6. Told(receiver') /\ Fetches' /\ (Delivered => Delivered')
    BY <1>t, <2>3, <2>5 DEF Told, SameReceiver, Fetches, Delivered, Size
  <2> QED
    BY <1>t, <2>3, <2>5, <2>6, ReceiverSteps
<1> QED
  BY <1>1, <1>2, <1>3

\* The offer finds a receiver that has done nothing, and is the only one.
LEMMA ReceiverStanzaKeeps == IInv /\ ReceiverStanza => IInv'
<1> SUFFICES ASSUME IInv, ReceiverStanza PROVE IInv'
  OBVIOUS
<1>t. receiver \in ReceiverType /\ stanzas \in Stanzas /\ Told(receiver) /\ Fetches
  BY DEF IInv, TypeOK, Stanzas
<1>1. /\ stanzas.receiver # <<>> /\ UNCHANGED <<sender, http, scenario>>
      /\ stanzas' = [stanzas EXCEPT !.receiver = Tail(stanzas.receiver)]
      /\ receiver' = NewFromStanza(receiver)
  BY DEF ReceiverStanza
<1>2. receiver.life = "none" /\ receiver.state = "none" /\ sender.life # "none" /\ ~sender.opening
  BY <1>1 DEF IInv, OfferedOnce
<1>3. /\ Tail(stanzas.receiver) \in Seq({TransferOffer}) /\ Tail(stanzas.receiver) = <<>>
      /\ Len(Tail(stanzas.receiver)) = 0
  <2>1. stanzas.receiver \in Seq({TransferOffer}) /\ Len(stanzas.receiver) <= 1
    BY <1>t DEF Stanzas, IInv, OfferedOnce
  <2>2. Tail(stanzas.receiver) \in Seq({TransferOffer}) /\ Len(Tail(stanzas.receiver)) = 0
    <3>1. stanzas.receiver # <<>>
      BY <1>1
    <3>2. /\ Tail(stanzas.receiver) \in Seq({TransferOffer})
          /\ Len(Tail(stanzas.receiver)) = Len(stanzas.receiver) - 1
      BY <2>1, <3>1, HeadTailProperties
    <3>3. Len(stanzas.receiver) \in Nat /\ Len(stanzas.receiver) # 0
      BY <2>1, <3>1, EmptySeq
    <3>4. Len(stanzas.receiver) <= 1
      BY <2>1
    <3>5. \A n \in Nat : n # 0 /\ n <= 1 => n = 1 /\ n - 1 = 0
      OBVIOUS
    <3> QED
      BY <3>2, <3>3, <3>4, <3>5, Zenon
  <2> QED
    BY <2>2, EmptySeq
<1>4. stanzas' \in Stanzas /\ stanzas'.sender = stanzas.sender /\ stanzas'.receiver = <<>>
  BY <1>t, <1>1, <1>3 DEF Stanzas
<1>5. receiver' \in ReceiverType /\ SameReceiver([receiver' EXCEPT !.life = "none"], receiver) /\ receiver'.state = "pending"
      /\ receiver'.life = "alive"
  <2> DEFINE n == NewTransfer(receiver)
             m == [n EXCEPT !.state = "pending"]
  <2>1. n \in ReceiverType /\ n.life = "alive"
    BY <1>t DEF NewTransfer, ReceiverType, Lives
  <2>2. /\ n.written = receiver.written /\ n.received = receiver.received /\ n.client = receiver.client
        /\ n.fetching = receiver.fetching /\ n.emitted = receiver.emitted
        /\ n.transferred = receiver.transferred /\ n.timer = receiver.timer
    BY <1>t DEF NewTransfer, ReceiverType
  <2> HIDE DEF n
  <2>3. m \in ReceiverType /\ SameReceiver(m, n) /\ m.state = "pending"
    BY <2>1 DEF ReceiverType, States, SameReceiver
  <2>4. receiver' = [m EXCEPT !.holds = 1]
    BY <1>1 DEF NewFromStanza, Registered, n
  <2> HIDE DEF m
  <2>5. receiver' \in ReceiverType /\ SameReceiver(receiver', m) /\ receiver'.state = m.state
    BY <2>3, <2>4 DEF ReceiverType, SameReceiver
  <2>6. SameReceiver([receiver' EXCEPT !.life = "none"], receiver)
    BY <1>2, <2>1, <2>2, <2>3, <2>5 DEF SameReceiver, ReceiverType
  <2> QED
    BY <2>1, <2>3, <2>5, <2>6 DEF SameReceiver
<1>6. /\ receiver'.written = receiver.written /\ receiver'.received = receiver.received
      /\ receiver'.client = receiver.client /\ receiver'.fetching = receiver.fetching
      /\ receiver'.emitted = receiver.emitted /\ receiver'.transferred = receiver.transferred
      /\ receiver'.timer = receiver.timer
  BY <1>5 DEF SameReceiver, ReceiverType
<1>7. TypeOK'
  BY <1>1, <1>4, <1>5 DEF IInv, TypeOK, Stanzas
<1>8. OfferedOnce'
  BY <1>1, <1>2, <1>3, <1>4 DEF OfferedOnce
<1>9. Fetches' /\ Told(receiver)' /\ Told(sender)'
  BY <1>t, <1>1, <1>2, <1>5, <1>6 DEF IInv, Fetches, Told
<1>10. ResultMeansDelivered'
  BY <1>1, <1>2, <1>4 DEF IInv, ResultMeansDelivered, Delivered
<1> QED
  BY <1>7, <1>8, <1>9, <1>10 DEF IInv

\* A chunk arrives and is written or waits.
LEMMA ChunkKeeps == IInv /\ Chunk => IInv'
<1> SUFFICES ASSUME IInv, Chunk PROVE IInv'
  OBVIOUS
<1>t. /\ sender \in SenderType /\ receiver \in ReceiverType /\ http \in HttpType
      /\ Told(sender) /\ Told(receiver) /\ Fetches
  BY DEF IInv, TypeOK, HttpType
<1>1. receiver.fetching /\ Alive(receiver) /\ UNCHANGED <<stanzas, scenario>>
  BY DEF Chunk
<1>2. http' \in HttpType
  <2>1. http.body - 1 \in Nat /\ http' = [http EXCEPT !.body = http.body - 1]
    BY <1>t DEF Chunk, HttpType
  <2> QED
    BY <1>t, <2>1 DEF HttpType
<1>3. sender' \in SenderType /\ SameSender(sender', sender) /\ sender'.state = sender.state
  BY <1>t, SenderMakes DEF Chunk, SameSender
<1>4. /\ receiver' \in ReceiverType /\ receiver'.life = receiver.life /\ receiver'.state = receiver.state
      /\ receiver'.client = receiver.client /\ receiver'.written = receiver'.received /\ Told(receiver')
  <2>1. CASE receiver' = receiver
    BY <1>t, <2>1 DEF Fetches
  <2>2. CASE receiver' \in Transferred([receiver EXCEPT !.received = receiver.received + 1,
                                                        !.written = receiver.written + 1], 1)
    <3> DEFINE m == [receiver EXCEPT !.received = receiver.received + 1]
               r == [m EXCEPT !.written = receiver.written + 1]
    <3>1. receiver.received + 1 \in Nat /\ receiver.written + 1 \in Nat
      BY <1>t DEF ReceiverType
    <3>2. /\ m \in ReceiverType /\ m.life = receiver.life /\ m.state = receiver.state
          /\ m.client = receiver.client /\ m.received = receiver.received + 1
      BY <1>t, <3>1 DEF ReceiverType
    <3>3. receiver' \in Transferred(r, 1)
      BY <2>2
    <3> HIDE DEF m
    <3>4. /\ r \in ReceiverType /\ r.life = m.life /\ r.state = m.state /\ r.client = m.client
          /\ r.received = m.received /\ r.written = receiver.written + 1
      BY <3>1, <3>2 DEF ReceiverType
    <3> HIDE DEF r
    <3>5. /\ receiver' \in ReceiverType /\ receiver'.life = r.life /\ receiver'.state = r.state
          /\ receiver'.client = r.client /\ receiver'.received = r.received
          /\ receiver'.written = r.written /\ Told(receiver')
      BY <3>3, <3>4, ReceiverProgress
    <3> QED
      BY <1>t, <3>2, <3>4, <3>5 DEF Fetches
  <2> QED
    BY <2>1, <2>2 DEF Chunk
<1>5. receiver.client /\ receiver.state # "completed"
  BY <1>t, <1>1 DEF Fetches
<1>6. TypeOK'
  BY <1>1, <1>2, <1>3, <1>4 DEF IInv, TypeOK, HttpType
<1>7. OfferedOnce'
  BY <1>1, <1>3, <1>4 DEF IInv, OfferedOnce, SameSender
<1>8. Fetches' /\ Told(receiver)' /\ Told(sender)'
  BY <1>t, <1>3, <1>4, <1>5 DEF Fetches, Told, SameSender
<1>9. ResultMeansDelivered'
  BY <1>1, <1>3, <1>5 DEF IInv, ResultMeansDelivered, Delivered
<1> QED
  BY <1>6, <1>7, <1>8, <1>9 DEF IInv

\* The receiver answers, once it has ended, and says "result" of what is there.
LEMMA ReceiverAnswers ==
    ASSUME IInv, receiver' \in ReceiverType, http' \in HttpType, UNCHANGED <<sender, scenario>>,
           receiver.life # "none", ~Delivered, Fetches', Told(receiver'),
           \/ UNCHANGED stanzas
           \/ Answer("406") \/ Answer("404")
           \/ Answer("result") /\ Delivered'
    PROVE  IInv'
<1>t. stanzas \in Stanzas
  BY DEF IInv, TypeOK, Stanzas
<1>1. PICK x \in {"result", "406", "404"} :
          /\ UNCHANGED stanzas \/ Answer(x)
          /\ Answer(x) /\ x = "result" => Delivered'
  <2>1. CASE UNCHANGED stanzas \/ Answer("406")
    <3>1. Answer("406") => "406" # "result"
      OBVIOUS
    <3> QED
      BY <2>1, <3>1
  <2>2. CASE Answer("404")
    <3>1. "404" # "result"
      OBVIOUS
    <3> QED
      BY <2>2, <3>1
  <2>3. CASE Answer("result") /\ Delivered'
    BY <2>3
  <2> QED
    BY <2>1, <2>2, <2>3
<1>2. CASE UNCHANGED stanzas
  <2>1. TypeOK' /\ OfferedOnce'
    BY <1>2 DEF IInv, TypeOK, HttpType, OfferedOnce
  <2>2. ResultMeansDelivered'
    BY <1>2 DEF IInv, ResultMeansDelivered
  <2> QED
    BY <2>1, <2>2 DEF IInv, Told
<1>3. CASE Answer(x)
  <2>1. stanzas.sender \in Seq({"result", "406", "404"})
    BY <1>t DEF Stanzas
  <2>2. Append(stanzas.sender, x) \in Seq({"result", "406", "404"})
    BY <2>1, Said
  <2>3. \A i \in DOMAIN Append(stanzas.sender, x) :
            Append(stanzas.sender, x)[i] = x \/ \E j \in DOMAIN stanzas.sender : Append(stanzas.sender, x)[i] = stanzas.sender[j]
    BY <2>1, Said
  <2>4. stanzas' \in Stanzas /\ stanzas'.sender = Append(stanzas.sender, x) /\ stanzas'.receiver = stanzas.receiver
    BY <1>t, <1>3, <2>2 DEF Answer, Stanzas
  <2>5. TypeOK'
    BY <2>4 DEF IInv, TypeOK, HttpType, Stanzas
  <2>6. OfferedOnce'
    BY <2>4 DEF IInv, OfferedOnce
  <2>7. ResultMeansDelivered'
    BY <1>1, <1>3, <2>3, <2>4 DEF IInv, ResultMeansDelivered
  <2> QED
    BY <2>5, <2>6, <2>7 DEF IInv, Told
<1> QED
  BY <1>1, <1>2, <1>3

\* The response ends, whole or broken.
LEMMA FetchEndsKeeps == IInv /\ FetchEnds => IInv'
<1> SUFFICES ASSUME IInv, FetchEnds PROVE IInv'
  OBVIOUS
<1>t. receiver \in ReceiverType /\ http \in HttpType /\ Told(receiver) /\ Fetches /\ Size \in Nat
  BY SizeIsNat DEF IInv, TypeOK, HttpType
<1>1. /\ receiver.fetching /\ receiver.life = "alive" /\ UNCHANGED <<sender, scenario>>
      /\ http' = [http EXCEPT !.state = "closed"]
  BY DEF FetchEnds, Alive
<1>2. http' \in HttpType
  BY <1>t, <1>1 DEF HttpType
<1>3. ~Delivered /\ receiver.client
  BY <1>t, <1>1 DEF Fetches, Delivered
<1> DEFINE r == [receiver EXCEPT !.fetching = FALSE]
<1>4. /\ r \in ReceiverType /\ r.life = "alive" /\ ~r.fetching /\ Told(r)
      /\ r.received = receiver.received /\ r.written = receiver.written /\ r.client
  BY <1>t, <1>1, <1>3 DEF ReceiverType, Told
<1>5. \/ /\ Incomplete(receiver) /\ receiver' = Unhold(SetState(CancelTransfer(r), "cancelled"))
         /\ UNCHANGED stanzas \/ Answer("406")
      \/ /\ receiver' = SetState(CancelTransfer(r), "cancelled")
         /\ UNCHANGED stanzas \/ Answer("404")
      \/ /\ ~Incomplete(receiver) /\ receiver' \in {Finished(q) : q \in Transferred(r, 0)}
         /\ Answer("result")
  BY DEF FetchEnds
<1> HIDE DEF r
<1>6. CASE /\ \/ receiver' = Unhold(SetState(CancelTransfer(r), "cancelled"))
              \/ receiver' = SetState(CancelTransfer(r), "cancelled")
           /\ UNCHANGED stanzas \/ Answer("406") \/ Answer("404")
  <2> DEFINE k == CancelTransfer(r)
             q == SetState(k, "cancelled")
  <2>1. k \in ReceiverType /\ SameReceiver(k, r)
    BY <1>4, ReceiverMakes
  <2>2. receiver' = Unhold(q) \/ receiver' = q
    BY <1>6
  <2> HIDE DEF k
  <2>3. q \in ReceiverType /\ SameReceiver(q, k) /\ q.state = "cancelled"
    BY <2>1, ReceiverMakes DEF States
  <2> HIDE DEF q
  <2>4. receiver' \in ReceiverType /\ SameReceiver(receiver', q) /\ receiver'.state = q.state
    BY <2>2, <2>3, ReceiverMakes DEF SameReceiver
  <2>5. Fetches' /\ Told(receiver')
    BY <1>t, <1>4, <2>1, <2>3, <2>4 DEF Fetches, Told, SameReceiver
  <2> QED
    BY <1>1, <1>2, <1>3, <1>6, <2>4, <2>5, ReceiverAnswers
<1>7. CASE /\ ~Incomplete(receiver) /\ receiver' \in {Finished(q) : q \in Transferred(r, 0)}
           /\ Answer("result")
  <2>1. PICK q \in Transferred(r, 0) : receiver' = Finished(q)
    BY <1>7
  <2>2. /\ q \in ReceiverType /\ q.life = r.life /\ q.client = r.client
        /\ q.fetching = r.fetching /\ q.received = r.received /\ q.written = r.written /\ Told(q)
    BY <1>4, ReceiverProgress
  <2> DEFINE k == SetState(q, "completed")
  <2>3. k \in ReceiverType /\ SameReceiver(k, q) /\ k.state = "completed"
    BY <2>2, ReceiverMakes DEF States
  <2>4. receiver' = Unhold(k)
    BY <2>1 DEF Finished
  <2> HIDE DEF k
  <2>5. receiver' \in ReceiverType /\ SameReceiver(receiver', k) /\ receiver'.state = "completed"
    BY <2>3, <2>4, ReceiverMakes
  <2>6. Fetches' /\ Told(receiver')
    BY <1>t, <1>4, <2>2, <2>3, <2>5 DEF Fetches, Told, SameReceiver
  <2>7. receiver.received \in Nat /\ receiver.written = receiver.received /\ ~(Size > receiver.received)
    BY <1>t, <1>7 DEF Incomplete, ReceiverType, Fetches
  <2>8. receiver'.written = receiver.written /\ receiver'.state = "completed" /\ Size' = Size
    BY <1>1, <1>4, <2>2, <2>3, <2>5 DEF SameReceiver, Size
  <2>9. Delivered'
    BY <1>t, <2>7, <2>8 DEF Delivered
  <2> QED
    BY <1>1, <1>2, <1>3, <1>7, <2>5, <2>6, <2>9, ReceiverAnswers
<1> QED
  BY <1>5, <1>6, <1>7

\* The receiver closes.
LEMMA CloseReceiverKeeps == IInv /\ CloseReceiver => IInv'
<1> SUFFICES ASSUME IInv, CloseReceiver PROVE IInv'
  OBVIOUS
<1>t. receiver \in ReceiverType /\ http \in HttpType /\ Told(receiver) /\ Fetches
  BY DEF IInv, TypeOK, HttpType
<1>1. receiver.life = "alive" /\ http' \in HttpType /\ UNCHANGED <<sender, scenario>>
  BY <1>t, BreakType DEF CloseReceiver, Alive
<1>2. CASE receiver' = Gone(receiver) /\ UNCHANGED stanzas
  <2>1. /\ receiver' \in ReceiverType /\ receiver'.life = "gone" /\ receiver'.state = receiver.state
        /\ receiver'.written = receiver.written /\ receiver'.received = receiver.received
        /\ receiver'.client = receiver.client /\ receiver'.fetching = receiver.fetching
    BY <1>t, <1>2, ReceiverMakes
  <2>2. Fetches' /\ Told(receiver') /\ (Delivered => Delivered')
    BY <1>t, <1>1, <2>1 DEF Fetches, Told, Delivered, Size
  <2> QED
    BY <1>1, <1>2, <2>1, <2>2, ReceiverSteps
<1>3. CASE /\ receiver.state \notin Ended /\ receiver' = Gone(SetState(CancelTransfer(receiver), "cancelled"))
           /\ UNCHANGED stanzas \/ Answer("406")
  <2> DEFINE k == CancelTransfer(receiver)
             q == SetState(k, "cancelled")
  <2>1. k \in ReceiverType /\ SameReceiver(k, receiver)
    BY <1>t, ReceiverMakes
  <2>2. receiver' = Gone(q)
    BY <1>3
  <2> HIDE DEF k
  <2>3. q \in ReceiverType /\ SameReceiver(q, k) /\ q.state = "cancelled"
    BY <2>1, ReceiverMakes DEF States
  <2> HIDE DEF q
  <2>4. /\ receiver' \in ReceiverType /\ receiver'.life = "gone" /\ receiver'.state = q.state
        /\ receiver'.written = q.written /\ receiver'.received = q.received
        /\ receiver'.client = q.client /\ receiver'.fetching = q.fetching
    BY <2>2, <2>3, ReceiverMakes
  <2>5. Fetches' /\ Told(receiver') /\ ~Delivered
    BY <1>t, <1>3, <2>1, <2>3, <2>4 DEF Fetches, Told, SameReceiver, Delivered, Ended
  <2> QED
    BY <1>1, <1>3, <2>4, <2>5, ReceiverAnswers
<1> QED
  BY <1>2, <1>3 DEF CloseReceiver

\* Timers, a broken stream, and steps of nobody.
LEMMA OthersKeep == IInv /\ (ProgressTimeout \/ ConnectionBreaks \/ UNCHANGED vars) => IInv'
<1> SUFFICES ASSUME IInv PROVE ProgressTimeout \/ ConnectionBreaks \/ UNCHANGED vars => IInv'
  OBVIOUS
<1>t. /\ sender \in SenderType /\ receiver \in ReceiverType /\ http \in HttpType
      /\ Told(sender) /\ Told(receiver) /\ Fetches
  BY DEF IInv, TypeOK, HttpType
<1>1. ASSUME sender' = EmitProgress(sender), UNCHANGED <<receiver, http, stanzas, scenario>> PROVE IInv'
  <2>1. /\ sender' \in SenderType /\ sender'.life = sender.life /\ sender'.opening = sender.opening
        /\ sender'.state = sender.state /\ Told(sender')
    BY <1>t, <1>1, SenderMakes DEF Told
  <2>2. sender.life = "none" => ~sender.opening
    BY DEF IInv, OfferedOnce
  <2> QED
    BY <1>t, <1>1, <2>1, <2>2, SenderSteps
<1>2. ASSUME receiver.timer, receiver' = EmitProgress(receiver), UNCHANGED <<sender, http, stanzas, scenario>> PROVE IInv'
  <2>1. /\ receiver' \in ReceiverType /\ receiver'.life = receiver.life /\ receiver'.state = receiver.state
        /\ receiver'.written = receiver.written /\ receiver'.received = receiver.received
        /\ receiver'.client = receiver.client /\ receiver'.fetching = receiver.fetching /\ Told(receiver')
    BY <1>t, <1>2, ReceiverMakes DEF Told
  <2>2. TypeOK' /\ OfferedOnce'
    BY <1>2, <2>1 DEF IInv, TypeOK, OfferedOnce
  <2>3. ResultMeansDelivered' /\ Fetches' /\ Told(sender)'
    BY <1>t, <1>2, <2>1 DEF IInv, ResultMeansDelivered, Delivered, Size, Fetches, Told
  <2> QED
    BY <2>1, <2>2, <2>3 DEF IInv, Told
<1>3. ASSUME ConnectionBreaks PROVE IInv'
  <2>1. http' \in HttpType /\ sender' = sender /\ UNCHANGED <<receiver, stanzas, scenario>>
    BY <1>t, <1>3, BreakType DEF ConnectionBreaks
  <2> QED
    BY <1>t, <2>1, SenderSteps DEF IInv, OfferedOnce
<1>4. ASSUME UNCHANGED vars PROVE IInv'
  BY <1>4 DEF vars, IInv, TypeOK, OfferedOnce, Fetches, ResultMeansDelivered, Delivered, Size, Told
<1> QED
  BY <1>1, <1>2, <1>3, <1>4 DEF ProgressTimeout

-----------------------------------------------------------------------------
(* Theorems *)

LEMMA Inductive == Spec => []IInv
<1>1. IInv /\ [Next]_vars => IInv'
  BY SenderKeeps, PorterOpenedKeeps, SenderStanzaKeeps, ReceiverKeeps, ReceiverStanzaKeeps, ChunkKeeps,
     FetchEndsKeeps, CloseReceiverKeeps, OthersKeep DEF Next
<1> QED
  BY InitIInv, <1>1, PTL DEF Spec

\* In every transfer the variables have their types: no chunk is counted below
\* zero and no side leaves the states of a Telepathy file transfer.
THEOREM TypeCorrect == Spec => []TypeOK
<1>1. IInv => TypeOK
  BY DEF IInv
<1> QED
  BY Inductive, <1>1, PTL

\* In every transfer: a sender whose channel says Completed has a receiver that
\* wrote all of the announced file to its client and says Completed too
\* (received_stanza, http_client_finished_chunks_cb).
THEOREM CompletedAlwaysDelivered == Spec => []CompletedMeansDelivered
<1>1. IInv => CompletedMeansDelivered
  BY DEF IInv, ResultMeansDelivered, Delivered, CompletedMeansDelivered
<1> QED
  BY Inductive, <1>1, PTL

\* In every transfer: what TransferredBytesChanged told last is the count, or
\* the timer of emit_progress_update is set.
THEOREM ProgressAlwaysTold == Spec => []ProgressIsTold
<1>1. IInv => ProgressIsTold
  BY DEF IInv, Told, ProgressIsTold, Alive
<1> QED
  BY Inductive, <1>1, PTL
=============================================================================
