---------------------------- MODULE MucRoomProofs ----------------------------
(***************************************************************************)
(* The safety of one room, for all contacts, requests and tubes: no request *)
(* is answered twice, and the bus shows the room that is there, until the   *)
(* manager uses an object that is freed.                                    *)
(*                                                                         *)
(* Both hang on the time when a room becomes ready.  Before, its tubes are  *)
(* among those the manager has for its place and none is on the bus; after, *)
(* all its tubes are on the bus.  The manager's tables outlive the room:    *)
(* what is in them for a room that is gone was never answered, and a room   *)
(* at the same place finds it there.                                        *)
(***************************************************************************)
EXTENDS MucRoom, TLAPS

\* A room: it is never at the state of NoRoom.
RoomType ==
    [at : Places, conn : {"disconnected", "connecting", "connected", "disconnecting"},
     handlers : Nat, creator : BOOLEAN, registered : BOOLEAN,
     ready : BOOLEAN, timer : BOOLEAN, autoclose : BOOLEAN,
     self : {"local", "remote", "member"},
     members : SUBSET Contacts, senders : SUBSET Contacts, invited : SUBSET Contacts,
     tubes : SUBSET Tubes]

\* What the manager keeps of those who wait, and whether it used what is freed.
TablesType ==
    /\ queued \in [Requests -> Places \cup TubeRequests \cup {Nowhere}]
    /\ needed \in [Places -> SUBSET TubeRequests]
    /\ fault \in {None, "tube", "channel"}

TypeOK ==
    /\ room \in RoomType \cup {NoRoom} /\ TablesType
    /\ sending \in SUBSET (Contacts \X Places)
    /\ asked \in SUBSET Requests /\ answers \in [Requests -> Nat]
    /\ shown \in SUBSET (Tubes \cup {Text}) /\ online \in BOOLEAN /\ rooms \in Nat

\* Before a room is ready it has met nobody, and its tubes are in the list nd
\* for its place; when it is, we are a member.
ReadyMeans(nd, r) ==
    IF r.ready
    THEN r.self = "member" /\ ~r.timer /\ r.conn \in {"connected", "disconnecting"}
    ELSE /\ r.self # "member" /\ r.senders = {} /\ r.tubes \subseteq nd[r.at]
         /\ r.timer => r.conn = "connected"
         /\ r.conn # "disconnecting"

\* The channels of sh are those that clients should see of r.
Shows(sh, r) ==
    /\ IF r.ready THEN sh = r.tubes \cup IF r.registered THEN {Text} ELSE {}
                  ELSE sh \subseteq IF r.registered THEN {Text} ELSE {}
    /\ r.autoclose => r.tubes # {}

RoomInv ==
    Running => IF Exists THEN ReadyMeans(needed, room) /\ Shows(shown, room) ELSE shown = {}

\* Who is in the tables was not answered, and who did not ask is neither there
\* nor was answered.
Waiting == {q \in Requests : queued[q] # Nowhere}
OneByOne ==
    \A q \in Requests :
        /\ answers[q] <= 1
        /\ q \notin asked \/ q \in Waiting => answers[q] = 0
        /\ q \notin asked => q \notin Waiting

-----------------------------------------------------------------------------
(* Types *)

\* The operators that make rooms of rooms make rooms.
LEMMA RoomsStayRooms ==
    /\ NoRoom \notin RoomType /\ NoRoom.conn = "none" /\ \A r \in RoomType : r.conn # "none"
    /\ \A r \in RoomType : AddSelf(r) \in RoomType /\ Connect(r) \in RoomType /\ InvitedTo(r) \in RoomType
    /\ \A r \in RoomType : \A t \in Tubes : ShowTube(r, t) \in RoomType
<1> USE DEF RoomType
<1>1. \A r \in RoomType : r.conn # "none"
  OBVIOUS
<1>2. NoRoom.conn = "none"
  BY DEF NoRoom
<1>3. \A r \in RoomType : AddSelf(r) \in RoomType /\ Connect(r) \in RoomType /\ InvitedTo(r) \in RoomType
  <2> SUFFICES ASSUME NEW r \in RoomType
               PROVE  AddSelf(r) \in RoomType /\ Connect(r) \in RoomType /\ InvitedTo(r) \in RoomType
    OBVIOUS
  <2>1. AddSelf(r) \in RoomType /\ InvitedTo(r) \in RoomType
    BY DEF AddSelf, InvitedTo
  <2>2. r.handlers \in Nat /\ (IF r.handlers < 2 THEN r.handlers + 1 ELSE r.handlers) \in Nat
    OBVIOUS
  <2>3. (IF r.conn = "disconnected" THEN "connecting" ELSE r.conn)
            \in {"disconnected", "connecting", "connected", "disconnecting"}
    OBVIOUS
  <2> QED
    BY <2>1, <2>2, <2>3 DEF Connect
<1>4. \A r \in RoomType : \A t \in Tubes : ShowTube(r, t) \in RoomType
  BY DEF ShowTube
<1> QED
  BY <1>1, <1>2, <1>3, <1>4

\* New rooms lie at a place and are rooms.
LEMMA NewRooms ==
    ASSUME TypeOK, MakeRoom
    PROVE  /\ \A registered \in BOOLEAN : JoinedRooms(registered) \subseteq RoomType
           /\ \A at \in 1..(rooms + 1) :
                 at \in Places /\ NewRoom(at, "disconnected", FALSE, TRUE, "local") \in RoomType
           /\ rooms' \in Nat
<1>1. rooms' \in Nat /\ \A at \in 1..(rooms + 1) : at \in Places
  <2>1. rooms \in Nat /\ MaxRooms \in Nat /\ rooms < MaxRooms /\ rooms' = rooms + 1
    BY MucRoomAssumption DEF MakeRoom, TypeOK
  <2> QED
    BY <2>1 DEF Places
<1>2. \A at \in Places : NewRoom(at, "disconnected", FALSE, TRUE, "local") \in RoomType
  BY DEF NewRoom, RoomType
<1>3. \A at \in Places : \A registered, creator \in BOOLEAN :
          NewRoom(at, "connecting", creator, registered, "remote") \in RoomType
  BY DEF NewRoom, RoomType
<1>4. ASSUME NEW registered \in BOOLEAN, NEW r \in JoinedRooms(registered) PROVE r \in RoomType
  <2>1. PICK at \in 1..(rooms + 1), creator \in BOOLEAN :
            r = NewRoom(at, "connecting", creator, registered, "remote")
    BY DEF JoinedRooms
  <2>2. at \in Places
    BY <1>1
  <2> QED
    BY <2>1, <2>2, <1>3
<1> QED
  BY <1>1, <1>2, <1>4

\* Answers stay counts.
LEMMA AnswersCount ==
    ASSUME answers \in [Requests -> Nat], NEW qs, Answer(qs)
    PROVE  answers' \in [Requests -> Nat]
BY DEF Answer

\* Serving those who wait, and a new one that waits, keep the tables' types.
LEMMA TablesStay ==
    ASSUME TablesType, NEW r \in RoomType
    PROVE  /\ ServeWaiters(r) => TablesType'
           /\ \A q \in Requests, t \in Places \cup TubeRequests :
                 Queue(q, t) => queued' \in [Requests -> Places \cup TubeRequests \cup {Nowhere}]
           /\ \A t \in TubeRequests : Needs(r, t) \in [Places -> SUBSET TubeRequests]
<1>0. r.at \in Places
  BY DEF RoomType
<1>1. ASSUME ServeWaiters(r) PROVE TablesType'
  <2>1. queued' \in [Requests -> Places \cup TubeRequests \cup {Nowhere}]
    BY <1>1 DEF ServeWaiters, Forget, TablesType
  <2>2. needed' \in [Places -> SUBSET TubeRequests]
    BY <1>1 DEF ServeWaiters, TablesType
  <2>3. fault' \in {None, "tube", "channel"}
    BY <1>1 DEF ServeWaiters, TablesType
  <2> QED
    BY <2>1, <2>2, <2>3 DEF TablesType
<1>2. ASSUME NEW q \in Requests, NEW t \in Places \cup TubeRequests, Queue(q, t)
      PROVE  queued' \in [Requests -> Places \cup TubeRequests \cup {Nowhere}]
  BY <1>2 DEF Queue, TablesType
<1>3. \A t \in TubeRequests : Needs(r, t) \in [Places -> SUBSET TubeRequests]
  BY <1>0 DEF Needs, TablesType
<1> QED
  BY <1>1, <1>2, <1>3

\* What becomes ready keeps its type.
LEMMA ReadyType ==
    ASSUME TypeOK, NEW r \in RoomType, BecomeReady(r), Still
    PROVE  TypeOK'
<1>1. room' \in RoomType
  BY RoomsStayRooms DEF BecomeReady
<1>2. answers' \in [Requests -> Nat]
  BY AnswersCount DEF BecomeReady, TypeOK
<1>3. shown' \in SUBSET (Tubes \cup {Text})
  <2>1. needed[r.at] \subseteq TubeRequests
    BY DEF TypeOK, TablesType, RoomType
  <2> QED
    BY <2>1 DEF BecomeReady, TypeOK, Tubes
<1>4. TablesType'
  BY TablesStay DEF BecomeReady, TypeOK
<1> QED
  BY <1>1, <1>2, <1>3, <1>4 DEF TypeOK, Still

\* Who comes, goes or is invited changes nothing else of the room.
LEMMA OnlyMembersChange ==
    ASSUME room \in RoomType, NEW c \in Contacts, NEW p \in Places,
           LostSender(c) \/ Invite(c) \/ InviteSent(c, p)
    PROVE  /\ room' \in RoomType /\ room'.at = room.at
           /\ room'.ready = room.ready /\ room'.self = room.self /\ room'.timer = room.timer
           /\ room'.tubes = room.tubes /\ room'.conn = room.conn
           /\ room'.registered = room.registered /\ room'.autoclose = room.autoclose
           /\ room'.senders \subseteq room.senders
<1>1. CASE LostSender(c)
  BY <1>1 DEF LostSender, RoomType
<1>2. CASE Invite(c)
  BY <1>2 DEF Invite, RoomType
<1>3. CASE InviteSent(c, p)
  <2> DEFINE s == [room EXCEPT !.invited = @ \ {c}, !.members = @ \ {c}]
  <2>1. room' = room \/ room' = s
    BY <1>3 DEF InviteSent
  <2>2. CASE room' = s
    BY <2>2 DEF RoomType
  <2> QED
    BY <2>1, <2>2
<1> QED
  BY <1>1, <1>2, <1>3

\* Nothing is served: the tables keep their types.
LEMMA UnservedType == TablesType /\ NothingServed => TablesType'
BY DEF TablesType, NothingServed

\* Every step keeps the types.
LEMMA NextType == TypeOK /\ [Next]_vars => TypeOK'
<1> SUFFICES ASSUME TypeOK, [Next]_vars PROVE TypeOK'
  OBVIOUS
<1>r. Exists => room \in RoomType
  BY RoomsStayRooms DEF TypeOK, Exists
<1>t. TablesType
  BY DEF TypeOK
\* Most steps leave the tables and what was asked alone.
<1>o. ASSUME Only, room' \in RoomType \cup {NoRoom}, shown' \in SUBSET (Tubes \cup {Text}) PROVE TypeOK'
  BY <1>o, UnservedType DEF Only, Still, NothingServed, TypeOK
<1>1. ASSUME NEW q \in Texts, RequestText(q) PROVE TypeOK'
  <2>0. q \in Requests
    BY DEF Requests
  <2>1. asked' \in SUBSET Requests /\ online' \in BOOLEAN /\ sending' \in SUBSET (Contacts \X Places)
        /\ needed' = needed /\ fault' = fault
    BY <1>1, <2>0 DEF RequestText, Asks, TypeOK
  <2>2. rooms' \in Nat
    <3>1. MakeRoom \/ rooms' = rooms
      BY <1>1 DEF RequestText
    <3> QED
      BY <3>1, NewRooms DEF TypeOK
  <2>3. answers' \in [Requests -> Nat]
    BY <1>1, AnswersCount DEF RequestText, TypeOK
  <2>4. shown' \in SUBSET (Tubes \cup {Text})
    BY <1>1 DEF RequestText, TypeOK
  <2>5. room' \in RoomType \cup {NoRoom} /\ queued' \in [Requests -> Places \cup TubeRequests \cup {Nowhere}]
    <3>q. ASSUME NEW r \in RoomType, Queue(q, r.at)
          PROVE  queued' \in [Requests -> Places \cup TubeRequests \cup {Nowhere}]
      <4>1. r.at \in Places \cup TubeRequests
        BY DEF RoomType
      <4> QED
        BY <3>q, <4>1, <2>0, <1>t, TablesStay
    <3>u. ASSUME UNCHANGED queued PROVE queued' \in [Requests -> Places \cup TubeRequests \cup {Nowhere}]
      BY <3>u, <1>t DEF TablesType
    <3>1. CASE ~Exists
      <4>1. \A r \in JoinedRooms(TRUE) : r \in RoomType
        BY <1>1, <3>1, NewRooms DEF RequestText
      <4>2. UNCHANGED <<room, queued>> \/ \E r \in JoinedRooms(TRUE) : room' = r /\ Queue(q, r.at)
        BY <1>1, <3>1 DEF RequestText
      <4> QED
        BY <4>1, <4>2, <3>q, <3>u DEF TypeOK
    <3>2. CASE Exists
      <4>1. room \in RoomType
        BY <1>r, <3>2
      <4>2. [room EXCEPT !.registered = TRUE] \in RoomType
        BY <4>1 DEF RoomType
      <4>3. UNCHANGED queued \/ Queue(q, room.at)
        BY <1>1, <3>2 DEF RequestText
      <4>4. room' = room \/ room' = [room EXCEPT !.registered = TRUE]
        BY <1>1, <3>2 DEF RequestText
      <4> QED
        BY <4>1, <4>2, <4>3, <4>4, <3>q, <3>u
    <3> QED
      BY <3>1, <3>2
  <2> QED
    BY <2>1, <2>2, <2>3, <2>4, <2>5 DEF TypeOK, TablesType
<1>2. ASSUME NEW q \in TubeRequests, RequestTube(q) PROVE TypeOK'
  <2>0. q \in Requests
    BY DEF Requests
  <2>p. \A tubes : \A t \in TubePlaces(q, tubes) : t \in TubeRequests /\ t \in Tubes
    BY DEF TubePlaces, Freed, Tubes
  <2>1. asked' \in SUBSET Requests /\ online' \in BOOLEAN /\ sending' \in SUBSET (Contacts \X Places)
        /\ fault' = fault
    BY <1>2, <2>0 DEF RequestTube, Asks, TypeOK
  <2>2. rooms' \in Nat
    <3>1. MakeRoom \/ rooms' = rooms
      BY <1>2 DEF RequestTube
    <3> QED
      BY <3>1, NewRooms DEF TypeOK
  <2>3. answers' \in [Requests -> Nat]
    BY <1>2, AnswersCount DEF RequestTube, TypeOK
  <2>4. shown' \in SUBSET (Tubes \cup {Text})
    <3>1. shown' = shown \/ \E t \in TubePlaces(q, room.tubes) : shown' = shown \cup {t}
      BY <1>2 DEF RequestTube
    <3> QED
      BY <2>p, <3>1 DEF TypeOK
  <2> DEFINE Good == /\ room' \in RoomType \cup {NoRoom}
                     /\ queued' \in [Requests -> Places \cup TubeRequests \cup {Nowhere}]
                     /\ needed' \in [Places -> SUBSET TubeRequests]
  <2>q. ASSUME NEW r \in RoomType, NEW t \in TubeRequests, QueueTube(r, q, t) PROVE Good
    <3>1. room' \in RoomType
      BY <2>q, RoomsStayRooms DEF QueueTube, Tubes
    <3>2. queued' \in [Requests -> Places \cup TubeRequests \cup {Nowhere}]
      BY <2>q, <2>0, <1>t, TablesStay DEF QueueTube
    <3>3. needed' \in [Places -> SUBSET TubeRequests]
      BY <2>q, <1>t, TablesStay DEF QueueTube
    <3> QED
      BY <3>1, <3>2, <3>3
  <2>5. Good
    <3>1. CASE ~Exists
      <4>1. \A r \in JoinedRooms(FALSE) : r \in RoomType
        BY <1>2, <3>1, NewRooms DEF RequestTube
      <4>2. \/ UNCHANGED <<room, queued, needed>>
            \/ \E r \in JoinedRooms(FALSE), t \in TubePlaces(q, {}) : QueueTube(r, q, t)
        BY <1>2, <3>1 DEF RequestTube
      <4>3. CASE UNCHANGED <<room, queued, needed>>
        BY <4>3 DEF TypeOK, TablesType
      <4>4. ASSUME NEW r \in JoinedRooms(FALSE), NEW t \in TubePlaces(q, {}), QueueTube(r, q, t) PROVE Good
        <5>1. r \in RoomType /\ t \in TubeRequests
          BY <4>1, <2>p
        <5> HIDE DEF Good
        <5> QED
          BY <4>4, <5>1, <2>q
      <4> HIDE DEF Good
      <4> QED
        BY <4>2, <4>3, <4>4
    <3>2. CASE Exists
      <4>1. room \in RoomType
        BY <1>r, <3>2
      <4>2. PICK t \in TubePlaces(q, room.tubes) :
                \/ room' = ShowTube(room, t) /\ UNCHANGED <<queued, needed>>
                \/ QueueTube(room, q, t)
        BY <1>2, <3>2 DEF RequestTube
      <4>3. CASE room' = ShowTube(room, t) /\ UNCHANGED <<queued, needed>>
        BY <4>1, <4>3, <2>p, <1>t, RoomsStayRooms DEF TablesType
      <4>4. CASE QueueTube(room, q, t)
        <5> HIDE DEF Good
        <5> QED
          BY <4>1, <4>4, <2>p, <2>q
      <4> HIDE DEF Good
      <4> QED
        BY <4>2, <4>3, <4>4
    <3> QED
      BY <3>1, <3>2
  <2> QED
    BY <2>1, <2>2, <2>3, <2>4, <2>5 DEF TypeOK, TablesType
<1>3. CASE Invited
  <2>1. UNCHANGED <<asked, answers, online, queued, needed, sending, fault>>
    BY <1>3 DEF Invited
  <2>2. rooms' \in Nat
    <3>1. MakeRoom \/ rooms' = rooms
      BY <1>3 DEF Invited
    <3> QED
      BY <3>1, NewRooms DEF TypeOK
  <2>3. room' \in RoomType
    BY <1>3, <1>r, NewRooms, RoomsStayRooms DEF Invited
  <2>4. shown' \in SUBSET (Tubes \cup {Text})
    BY <1>3 DEF Invited, TypeOK
  <2> QED
    BY <2>1, <2>2, <2>3, <2>4 DEF TypeOK, TablesType
<1>4. CASE Accept
  <2>1. UNCHANGED <<asked, online, rooms, sending>> /\ room \in RoomType
    BY <1>4, <1>r DEF Accept, Still, Uses
  <2> DEFINE s == [Connect(room) EXCEPT !.self = "remote"]
  <2>2. CASE room' = s /\ NothingServed /\ UNCHANGED shown
    <3>1. Connect(room) \in RoomType
      BY <2>1, RoomsStayRooms
    <3>2. s \in RoomType
      BY <3>1 DEF RoomType
    <3> QED
      BY <2>1, <2>2, <3>2, <1>o DEF Only, Still, TypeOK
  <2>3. CASE JoinError(room)
    <3>1. answers' \in [Requests -> Nat]
      BY <2>3, AnswersCount DEF JoinError, TypeOK
    <3>2. TablesType'
      BY <2>1, <2>3, <1>t, TablesStay DEF JoinError
    <3>3. room' = NoRoom /\ shown' = {}
      BY <2>3 DEF JoinError, Destroy
    <3> QED
      BY <2>1, <3>1, <3>2, <3>3 DEF TypeOK
  <2>4. (room' = s /\ NothingServed /\ UNCHANGED shown) \/ JoinError(room)
    <3> HIDE DEF NothingServed
    <3> QED
      BY <1>4, Zenon DEF Accept
  <2> HIDE DEF s
  <2> QED
    BY <2>2, <2>3, <2>4
<1>5. CASE Connected
  <2> DEFINE r == [room EXCEPT !.conn = "connected"]
  <2>1. r \in RoomType /\ Still
    BY <1>5, <1>r DEF Connected, RoomType
  <2>2. CASE r.creator
    <3>1. BecomeReady(r)
      BY <1>5, <2>2 DEF Connected
    <3> HIDE DEF r
    <3> QED
      BY <2>1, <3>1, ReadyType
  <2>3. CASE ~r.creator
    <3>1. room' = [r EXCEPT !.timer = TRUE] /\ NothingServed /\ UNCHANGED shown
      BY <1>5, <2>3 DEF Connected, AwaitSenders
    <3>2. [r EXCEPT !.timer = TRUE] \in RoomType
      BY <2>1 DEF RoomType
    <3> QED
      BY <2>1, <3>1, <3>2, <1>o DEF Only, TypeOK
  <2> QED
    BY <2>2, <2>3
<1>6. CASE SendersTimeout
  BY <1>6, <1>r, ReadyType DEF SendersTimeout
<1>7. ASSUME NEW c \in Contacts, NewSender(c) PROVE TypeOK'
  <2> DEFINE r == [room EXCEPT !.members = @ \cup {c}, !.senders = @ \cup {c}, !.invited = @ \ {c}]
  <2>1. r \in RoomType /\ Still
    BY <1>7, <1>r DEF NewSender, RoomType
  <2>2. CASE r.self # "member"
    <3>1. BecomeReady(r)
      BY <1>7, <2>2 DEF NewSender
    <3> HIDE DEF r
    <3> QED
      BY <2>1, <3>1, ReadyType
  <2>3. CASE r.self = "member"
    BY <1>7, <2>1, <2>3, <1>o DEF NewSender, Only, TypeOK
  <2> QED
    BY <2>2, <2>3
<1>8. ASSUME NEW c \in Contacts, LostSender(c) \/ Invite(c) PROVE TypeOK'
  <2>1. room \in RoomType /\ UNCHANGED <<asked, online, rooms, shown>> /\ NothingServed
    BY <1>8, <1>r DEF LostSender, Invite, Uses, Only, Still
  <2>2. room' \in RoomType
    <3>1. CASE LostSender(c)
      BY <2>1, <3>1 DEF LostSender, RoomType
    <3>2. CASE Invite(c)
      BY <2>1, <3>2 DEF Invite, RoomType
    <3> QED
      BY <1>8, <3>1, <3>2
  <2>3. sending' \in SUBSET (Contacts \X Places)
    <3>1. room.at \in Places
      BY <2>1 DEF RoomType
    <3>2. sending' = sending \/ sending' = sending \cup {<<c, room.at>>}
      BY <1>8 DEF LostSender, Invite, Only, Still
    <3> QED
      BY <3>1, <3>2 DEF TypeOK
  <2> QED
    BY <2>1, <2>2, <2>3, <1>t, UnservedType DEF TypeOK, NothingServed
<1>9. ASSUME NEW c \in Contacts, ReceiveStanza(c) PROVE TypeOK'
  <2> DEFINE r == [room EXCEPT !.registered = TRUE, !.autoclose = FALSE]
  <2>1. r \in RoomType /\ Only
    BY <1>9, <1>r DEF ReceiveStanza, RoomType
  <2>2. ShowTube(r, c) \in RoomType
    BY <2>1, RoomsStayRooms DEF Tubes
  <2>3. room' \in RoomType
    BY <1>9, <2>1, <2>2 DEF ReceiveStanza
  <2>4. shown' \in SUBSET (Tubes \cup {Text})
    BY <1>9 DEF ReceiveStanza, TypeOK, Tubes
  <2> QED
    BY <2>1, <2>3, <2>4, <1>o
<1>10. ASSUME NEW c \in Contacts, NEW p \in Places, InviteSent(c, p) PROVE TypeOK'
  <2>1. UNCHANGED <<asked, online, rooms, shown, answers, queued, needed>> /\ sending' \subseteq sending
    BY <1>10 DEF InviteSent
  <2>2. room' \in RoomType \cup {NoRoom}
    <3>1. CASE Exists /\ room.at = p
      BY <1>10, <3>1, <1>r, OnlyMembersChange
    <3>2. CASE ~(Exists /\ room.at = p)
      BY <1>10, <3>2 DEF InviteSent, TypeOK
    <3> QED
      BY <3>1, <3>2
  <2>3. fault' = fault \/ fault' = "channel"
    BY <1>10 DEF InviteSent
  <2> QED
    BY <2>1, <2>2, <2>3 DEF TypeOK, TablesType
<1>11. CASE CloseText \/ Leave \/ Left
  <2>1. room \in RoomType /\ Only
    BY <1>11, <1>r DEF CloseText, Leave, Left, Uses
  <2>2. [room EXCEPT !.autoclose = TRUE, !.registered = FALSE] \in RoomType
    BY <2>1 DEF RoomType
  <2>3. [room EXCEPT !.conn = "disconnecting"] \in RoomType
    BY <2>1 DEF RoomType
  <2>4. room' \in RoomType \cup {NoRoom} /\ shown' \in SUBSET (Tubes \cup {Text})
    BY <1>11, <2>2, <2>3 DEF CloseText, Close, Leave, Left, Destroy, TypeOK
  <2> QED
    BY <2>1, <2>4, <1>o
<1>12. CASE GoOffline
  <2>1. answers' \in [Requests -> Nat]
    BY <1>12, AnswersCount DEF GoOffline, TypeOK
  <2>2. TablesType'
    BY <1>12 DEF GoOffline, TypeOK, TablesType
  <2> QED
    BY <1>12, <2>1, <2>2 DEF GoOffline, Destroy, TypeOK
<1>13. ASSUME NEW t \in Tubes, CloseTube(t) PROVE TypeOK'
  <2>1. room \in RoomType /\ Only
    BY <1>13, <1>r DEF CloseTube, Uses
  <2>2. [room EXCEPT !.tubes = @ \ {t}] \in RoomType
    BY <2>1 DEF RoomType
  <2>3. room' \in RoomType \cup {NoRoom} /\ shown' \in SUBSET (Tubes \cup {Text})
    BY <1>13, <2>2 DEF CloseTube, Destroy, TypeOK
  <2> QED
    BY <2>1, <2>3, <1>o
<1>14. CASE UNCHANGED vars
  BY <1>14 DEF vars, TypeOK, TablesType
<1> QED
  BY <1>1, <1>2, <1>3, <1>4, <1>5, <1>6, <1>7, <1>8, <1>9, <1>10, <1>11, <1>12, <1>13, <1>14 DEF Next, Step

\* Every variable keeps its type, whatever clients, contacts and the group do.
THEOREM TypeCorrect == Spec => []TypeOK
<1>1. Init => TypeOK
  BY DEF Init, TypeOK, TablesType
<1> QED
  BY <1>1, NextType, PTL DEF Spec

-----------------------------------------------------------------------------
(* The bus *)

\* The channel and its tubes have different names.
LEMMA TextIsNoTube == Text \notin Tubes
BY MucRoomAssumption DEF Text, Tubes

\* A room that becomes ready shows all that it has, or a freed tube was used.
LEMMA BecomesReady ==
    ASSUME TypeOK, NEW r \in RoomType, BecomeReady(r), Running, ~r.ready, r.tubes \subseteq needed[r.at],
           r.conn = "connected", Shows(shown, r)
    PROVE  RoomInv'
<1> SUFFICES ASSUME Running' PROVE RoomInv'
  BY DEF RoomInv
<1>1. room' = AddSelf(r) /\ room' \in RoomType
  BY RoomsStayRooms DEF BecomeReady
<1>2. /\ room'.ready /\ ~room'.timer /\ room'.self = "member"
      /\ room'.conn = r.conn /\ room'.registered = r.registered
      /\ room'.tubes = r.tubes /\ room'.autoclose = r.autoclose
  BY <1>1 DEF AddSelf, RoomType
\* All that waited is the room's own, for else the fault would be there.
<1>3. needed[r.at] = r.tubes
  <2>1. fault' = IF needed[r.at] \subseteq r.tubes THEN fault ELSE "tube"
    BY DEF BecomeReady, ServeWaiters
  <2>2. fault' # "tube"
    BY DEF Running, None
  <2> QED
    BY <2>1, <2>2
<1>4. shown' = room'.tubes \cup IF room'.registered THEN {Text} ELSE {}
  BY <1>2, <1>3 DEF BecomeReady, Shows
<1>5. Exists'
  BY <1>1, RoomsStayRooms DEF Exists
<1>6. ReadyMeans(needed, room)'
  BY <1>2 DEF ReadyMeans
<1>7. Shows(shown, room)'
  BY <1>2, <1>4 DEF Shows
<1> QED
  BY <1>5, <1>6, <1>7 DEF RoomInv

\* Every step keeps what the bus knows of the room and what the room is together.
LEMMA NextRoomInv == TypeOK /\ RoomInv /\ [Next]_vars => RoomInv'
<1> SUFFICES ASSUME TypeOK, RoomInv, [Next]_vars PROVE RoomInv'
  OBVIOUS
<1>0. CASE UNCHANGED vars
  BY <1>0 DEF vars, RoomInv, Running, Exists, ReadyMeans, Shows
<1> SUFFICES ASSUME Running, Step PROVE RoomInv'
  BY <1>0 DEF Next
<1>r. ASSUME Exists PROVE room \in RoomType /\ ReadyMeans(needed, room) /\ Shows(shown, room)
  BY <1>r, RoomsStayRooms DEF TypeOK, Exists, RoomInv
<1>n. ASSUME ~Exists PROVE shown = {}
  BY <1>n DEF RoomInv
<1>d. ASSUME Destroy PROVE RoomInv'
  BY <1>d, RoomsStayRooms DEF Destroy, RoomInv, Exists
<1>s. ASSUME UNCHANGED <<room, shown, needed>> PROVE RoomInv'
  BY <1>s DEF RoomInv, Exists, ReadyMeans, Shows
\* It is enough to show it for the room that there is.
<1>g. ASSUME NEW r \in RoomType, room' = r, ReadyMeans(needed', r), Shows(shown', r) PROVE RoomInv'
  BY <1>g, RoomsStayRooms DEF RoomInv, Exists
<1>h. ASSUME NEW r \in RoomType, room' = r, needed' = needed, ReadyMeans(needed, r), Shows(shown', r)
      PROVE  RoomInv'
  BY <1>h, <1>g
<1>j. ASSUME NEW registered \in BOOLEAN, NEW r \in JoinedRooms(registered)
      PROVE  /\ ~r.ready /\ r.self = "remote" /\ r.senders = {} /\ r.tubes = {}
             /\ ~r.timer /\ ~r.autoclose /\ r.registered = registered /\ r.conn = "connecting"
  BY <1>j DEF JoinedRooms, NewRoom
\* A tube that waits: the room stays as it is but for the tube.
<1>q. ASSUME NEW r \in RoomType, NEW t \in TubeRequests, NEW q, QueueTube(r, q, t),
             ~r.ready, ReadyMeans(needed, r), Shows(shown, r), shown' = shown
      PROVE  RoomInv'
  <2> DEFINE s == ShowTube(r, t)
  <2>1. room' = s /\ needed' = Needs(r, t) /\ s \in RoomType
    BY <1>q, RoomsStayRooms DEF QueueTube, Tubes
  <2>2. /\ s.at = r.at /\ s.ready = r.ready /\ s.self = r.self /\ s.senders = r.senders
        /\ s.tubes = r.tubes \cup {t} /\ s.timer = r.timer /\ s.conn = r.conn
        /\ s.registered = r.registered /\ s.autoclose = r.autoclose
    BY DEF ShowTube, RoomType
  <2>3. r.at \in Places /\ needed'[r.at] = needed[r.at] \cup {t}
    BY <2>1 DEF RoomType, Needs, TypeOK, TablesType
  <2>4. ReadyMeans(needed', s) /\ Shows(shown', s)
    BY <1>q, <2>2, <2>3 DEF ReadyMeans, Shows
  <2> QED
    BY <2>1, <2>4, <1>g
<1>1. ASSUME NEW q \in Texts, RequestText(q) PROVE RoomInv'
  <2>0. needed' = needed
    BY <1>1 DEF RequestText
  <2>1. CASE ~Exists
    <3>0. \A r \in JoinedRooms(TRUE) : r \in RoomType
      BY <1>1, <2>1, NewRooms DEF RequestText
    <3>1. CASE UNCHANGED room
      BY <1>1, <2>0, <2>1, <3>1, <1>s DEF RequestText
    <3>2. ASSUME NEW r \in JoinedRooms(TRUE), room' = r PROVE RoomInv'
      <4>1. r \in RoomType
        BY <3>0
      <4>2. shown' = {}
        BY <1>1, <2>1, <1>n DEF RequestText
      <4>3. ReadyMeans(needed, r) /\ Shows(shown', r)
        BY <4>2, <1>j DEF ReadyMeans, Shows
      <4> QED
        BY <2>0, <3>2, <4>1, <4>3, <1>h
    <3> QED
      BY <1>1, <2>1, <3>1, <3>2 DEF RequestText
  <2>2. CASE Exists
    <3>1. CASE room.registered
      BY <1>1, <2>0, <2>2, <3>1, <1>s DEF RequestText
    <3>2. CASE ~room.registered
      <4> DEFINE s == [room EXCEPT !.registered = TRUE]
      <4>1. room' = s /\ shown' = IF room.ready THEN shown \cup {Text} ELSE shown
        BY <1>1, <2>2, <3>2 DEF RequestText
      <4>2. s \in RoomType /\ ReadyMeans(needed, s)
        BY <2>2, <1>r DEF RoomType, ReadyMeans
      <4>3. Shows(shown', s)
        BY <2>2, <3>2, <4>1, <1>r DEF RoomType, Shows
      <4> QED
        BY <2>0, <4>1, <4>2, <4>3, <1>h
    <3> QED
      BY <3>1, <3>2
  <2> QED
    BY <2>1, <2>2
<1>2. ASSUME NEW q \in TubeRequests, RequestTube(q) PROVE RoomInv'
  <2>p. \A tubes : \A t \in TubePlaces(q, tubes) : t \in TubeRequests /\ t \in Tubes
    BY DEF TubePlaces, Freed, Tubes
  <2>1. CASE ~Exists
    <3>0. \A r \in JoinedRooms(FALSE) : r \in RoomType
      BY <1>2, <2>1, NewRooms DEF RequestTube
    <3>1. CASE UNCHANGED <<room, queued, needed>>
      BY <1>2, <2>1, <3>1, <1>s DEF RequestTube
    <3>2. ASSUME NEW r \in JoinedRooms(FALSE), NEW t \in TubePlaces(q, {}), QueueTube(r, q, t) PROVE RoomInv'
      <4>1. r \in RoomType /\ t \in TubeRequests
        BY <3>0, <2>p
      <4>2. shown = {} /\ shown' = shown
        BY <1>2, <2>1, <1>n DEF RequestTube
      <4>3. ~r.ready /\ ReadyMeans(needed, r) /\ Shows(shown, r)
        BY <4>2, <1>j DEF ReadyMeans, Shows
      <4> QED
        BY <3>2, <4>1, <4>2, <4>3, <1>q
    <3> QED
      BY <1>2, <2>1, <3>1, <3>2 DEF RequestTube
  <2>2. CASE Exists /\ room.ready
    <3>1. PICK t \in TubePlaces(q, room.tubes) :
              room' = ShowTube(room, t) /\ shown' = shown \cup {t} /\ needed' = needed
      BY <1>2, <2>2 DEF RequestTube
    <3>2. ShowTube(room, t) \in RoomType
      BY <2>2, <2>p, <1>r, RoomsStayRooms
    <3>3. ReadyMeans(needed, ShowTube(room, t)) /\ Shows(shown', ShowTube(room, t))
      BY <2>2, <3>1, <1>r DEF ShowTube, RoomType, ReadyMeans, Shows
    <3> QED
      BY <3>1, <3>2, <3>3, <1>h
  <2>3. CASE Exists /\ ~room.ready
    <3>1. PICK t \in TubePlaces(q, room.tubes) : QueueTube(room, q, t) /\ shown' = shown
      BY <1>2, <2>3 DEF RequestTube
    <3> QED
      BY <2>3, <2>p, <3>1, <1>r, <1>q
  <2> QED
    BY <2>1, <2>2, <2>3
<1>3. CASE Invited
  <2>0. needed' = needed
    BY <1>3 DEF Invited
  <2>1. CASE ~Exists
    <3>1. PICK at \in 1..(rooms + 1) : room' = NewRoom(at, "disconnected", FALSE, TRUE, "local")
      BY <1>3, <2>1 DEF Invited
    <3> DEFINE s == NewRoom(at, "disconnected", FALSE, TRUE, "local")
    <3>2. shown' = {Text} /\ MakeRoom
      BY <1>3, <2>1, <1>n DEF Invited
    <3>3. s \in RoomType
      BY <3>2, NewRooms
    <3>4. ReadyMeans(needed, s) /\ Shows(shown', s)
      BY <3>2 DEF NewRoom, ReadyMeans, Shows
    <3> QED
      BY <2>0, <3>1, <3>3, <3>4, <1>h
  <2>2. CASE Exists
    <3>1. room' = InvitedTo(room) /\ shown' = shown /\ InvitedTo(room) \in RoomType
      BY <1>3, <2>2, <1>r, RoomsStayRooms DEF Invited
    <3>2. ReadyMeans(needed, InvitedTo(room)) /\ Shows(shown', InvitedTo(room))
      BY <2>2, <3>1, <1>r DEF InvitedTo, RoomType, ReadyMeans, Shows
    <3> QED
      BY <2>0, <3>1, <3>2, <1>h
  <2> QED
    BY <2>1, <2>2
<1>4. CASE Accept
  <2> DEFINE s == [Connect(room) EXCEPT !.self = "remote"]
  <2>1. Exists /\ room \in RoomType /\ Connect(room) \in RoomType /\ room.self = "local"
    BY <1>4, <1>r, RoomsStayRooms DEF Accept, Uses
  <2>2. CASE room' = s /\ NothingServed /\ UNCHANGED shown
    <3>1. s \in RoomType
      BY <2>1 DEF RoomType
    <3>2. /\ s.self = "remote" /\ s.ready = room.ready /\ s.senders = room.senders /\ s.tubes = room.tubes
          /\ s.timer = room.timer /\ s.autoclose = room.autoclose /\ s.at = room.at
          /\ s.registered = room.registered
          /\ s.conn = IF room.conn = "disconnected" THEN "connecting" ELSE room.conn
      BY <2>1 DEF Connect, RoomType
    <3>3. shown' = shown /\ needed' = needed /\ room' = s
      BY <2>2 DEF NothingServed
    <3>4. ReadyMeans(needed, s) /\ Shows(shown', s)
      BY <2>1, <3>2, <3>3, <1>r DEF ReadyMeans, Shows
    <3> QED
      BY <3>1, <3>3, <3>4, <1>h
  <2>3. CASE JoinError(room)
    BY <2>3, <1>d DEF JoinError
  <2>4. (room' = s /\ NothingServed /\ UNCHANGED shown) \/ JoinError(room)
    <3> HIDE DEF NothingServed
    <3> QED
      BY <1>4, Zenon DEF Accept
  <2> HIDE DEF s
  <2> QED
    BY <2>2, <2>3, <2>4
<1>5. CASE Connected
  <2> DEFINE r == [room EXCEPT !.conn = "connected"]
  <2>0. Exists /\ room \in RoomType /\ room.conn = "connecting"
    BY <1>5, <1>r DEF Connected
  <2>1. r \in RoomType /\ ~r.ready /\ r.tubes \subseteq needed[r.at] /\ Shows(shown, r) /\ r.conn = "connected"
    BY <2>0, <1>r DEF RoomType, ReadyMeans, Shows
  <2>2. CASE r.creator
    <3>1. BecomeReady(r)
      BY <1>5, <2>2 DEF Connected
    <3> HIDE DEF r
    <3> QED
      BY <2>1, <3>1, BecomesReady
  <2>3. CASE ~r.creator
    <3> DEFINE s == [r EXCEPT !.timer = TRUE]
    <3>1. room' = s /\ shown' = shown /\ needed' = needed
      BY <1>5, <2>3 DEF Connected, AwaitSenders, NothingServed
    <3>2. s \in RoomType
      BY <2>1 DEF RoomType
    <3>3. ReadyMeans(needed, s) /\ Shows(shown, s)
      BY <2>0, <2>1, <1>r DEF RoomType, ReadyMeans, Shows
    <3> QED
      BY <3>1, <3>2, <3>3, <1>h
  <2> QED
    BY <2>2, <2>3
<1>6. CASE SendersTimeout
  <2>1. Exists /\ room.timer /\ BecomeReady(room)
    BY <1>6 DEF SendersTimeout
  <2>2. ~room.ready /\ room.tubes \subseteq needed[room.at] /\ room.conn = "connected"
    BY <2>1, <1>r DEF ReadyMeans
  <2> QED
    BY <2>1, <2>2, <1>r, BecomesReady
<1>7. ASSUME NEW c \in Contacts, NewSender(c) PROVE RoomInv'
  <2> DEFINE r == [room EXCEPT !.members = @ \cup {c}, !.senders = @ \cup {c}, !.invited = @ \ {c}]
  <2>1. Exists /\ room \in RoomType /\ room.conn = "connected"
    BY <1>7, <1>r DEF NewSender
  <2>2. r \in RoomType
    BY <2>1 DEF RoomType
  <2>3. /\ r.ready = room.ready /\ r.self = room.self /\ r.tubes = room.tubes /\ r.at = room.at
        /\ r.conn = room.conn /\ r.registered = room.registered /\ r.autoclose = room.autoclose
        /\ r.timer = room.timer
    BY <2>1 DEF RoomType
  <2>4. CASE r.self # "member"
    <3>1. ~r.ready /\ r.tubes \subseteq needed[r.at] /\ Shows(shown, r)
      BY <2>1, <2>3, <2>4, <1>r DEF ReadyMeans, Shows
    <3>2. BecomeReady(r)
      BY <1>7, <2>4 DEF NewSender
    <3> HIDE DEF r
    <3> QED
      BY <2>1, <2>2, <2>3, <3>1, <3>2, BecomesReady
  <2>5. CASE r.self = "member"
    <3>1. room' = r /\ shown' = shown /\ needed' = needed
      BY <1>7, <2>5 DEF NewSender, NothingServed
    <3>2. ReadyMeans(needed, r) /\ Shows(shown, r)
      BY <2>1, <2>3, <2>5, <1>r DEF ReadyMeans, Shows
    <3> QED
      BY <2>2, <3>1, <3>2, <1>h
  <2> QED
    BY <2>4, <2>5
\* These leave the time before and after alone.
<1>8. ASSUME NEW c \in Contacts, NEW p \in Places,
             LostSender(c) \/ Invite(c) \/ InviteSent(c, p)
      PROVE  RoomInv'
  <2>0. shown' = shown /\ needed' = needed
    BY <1>8 DEF LostSender, Invite, InviteSent, Only, NothingServed
  <2>1. CASE ~Exists
    BY <1>8, <2>0, <2>1, <1>s DEF LostSender, Invite, InviteSent, Uses
  <2>2. CASE Exists
    <3>1. /\ room' \in RoomType /\ room'.at = room.at
          /\ room'.ready = room.ready /\ room'.self = room.self /\ room'.timer = room.timer
          /\ room'.tubes = room.tubes /\ room'.conn = room.conn
          /\ room'.registered = room.registered /\ room'.autoclose = room.autoclose
          /\ room'.senders \subseteq room.senders
      BY <1>8, <2>2, <1>r, OnlyMembersChange
    <3>2. ReadyMeans(needed, room') /\ Shows(shown', room')
      BY <2>0, <2>2, <3>1, <1>r DEF ReadyMeans, Shows
    <3> QED
      BY <2>0, <3>1, <3>2, <1>h
  <2> QED
    BY <2>1, <2>2
<1>9. ASSUME NEW c \in Contacts, ReceiveStanza(c) PROVE RoomInv'
  <2> DEFINE r == [room EXCEPT !.registered = TRUE, !.autoclose = FALSE]
  <2>1. Exists /\ room \in RoomType /\ room.ready /\ needed' = needed
    BY <1>9, <1>r DEF ReceiveStanza, ReadyMeans, Only, NothingServed
  <2>2. r \in RoomType /\ ReadyMeans(needed, r) /\ r.ready /\ r.registered /\ ~r.autoclose /\ r.tubes = room.tubes
    BY <2>1, <1>r DEF RoomType, ReadyMeans
  <2>3. CASE room' = r /\ shown' = shown \cup {Text}
    <3>1. Shows(shown', r)
      BY <2>1, <2>2, <2>3, <1>r DEF Shows
    <3> QED
      BY <2>1, <2>2, <2>3, <3>1, <1>h
  <2>4. CASE room' = ShowTube(r, c) /\ shown' = shown \cup {Text, c}
    <3> DEFINE s == ShowTube(r, c)
    <3>1. s \in RoomType
      BY <2>2, RoomsStayRooms DEF Tubes
    <3>2. ReadyMeans(needed, s) /\ s.ready /\ s.registered /\ ~s.autoclose /\ s.tubes = r.tubes \cup {c}
      BY <2>2 DEF ShowTube, RoomType, ReadyMeans
    <3>3. Shows(shown', s)
      BY <2>1, <2>2, <2>4, <3>2, <1>r DEF Shows
    <3> QED
      BY <2>1, <2>4, <3>1, <3>2, <3>3, <1>h
  <2> QED
    BY <1>9, <2>3, <2>4 DEF ReceiveStanza
<1>10. CASE CloseText
  <2>1. Exists /\ room \in RoomType /\ needed' = needed
    BY <1>10, <1>r DEF CloseText, Uses, Only, NothingServed
  <2>2. CASE CanBeClosed(room)
    BY <1>10, <2>2, <1>d DEF CloseText, Close
  <2>3. CASE ~CanBeClosed(room)
    <3> DEFINE s == [room EXCEPT !.autoclose = TRUE, !.registered = FALSE]
    <3>1. room' = s /\ shown' = shown \ {Text} /\ room.tubes # {}
      BY <1>10, <2>3 DEF CloseText, Close, CanBeClosed
    <3>2. s \in RoomType /\ ReadyMeans(needed, s)
      BY <2>1, <1>r DEF RoomType, ReadyMeans
    <3>3. s.tubes = room.tubes /\ s.ready = room.ready /\ ~s.registered /\ s.tubes \subseteq Tubes
      BY <2>1 DEF RoomType
    <3>4. Shows(shown', s)
      BY <2>1, <3>1, <3>3, <1>r, TextIsNoTube DEF Shows
    <3> QED
      BY <2>1, <3>1, <3>2, <3>4, <1>h
  <2> QED
    BY <2>2, <2>3
<1>11. CASE Leave
  <2>1. Exists /\ room \in RoomType /\ needed' = needed
    BY <1>11, <1>r DEF Leave, Uses, Only, NothingServed
  <2>2. CASE room.ready
    <3> DEFINE s == [room EXCEPT !.conn = "disconnecting"]
    <3>1. room' = s /\ shown' = shown
      BY <1>11, <2>2 DEF Leave
    <3>2. s \in RoomType /\ ReadyMeans(needed, s) /\ Shows(shown, s)
      BY <2>1, <2>2, <1>r DEF RoomType, ReadyMeans, Shows
    <3> QED
      BY <2>1, <3>1, <3>2, <1>h
  <2>3. CASE ~room.ready
    BY <1>11, <2>3, <1>d DEF Leave
  <2> QED
    BY <2>2, <2>3
<1>12. CASE Left \/ GoOffline
  BY <1>12, <1>d DEF Left, GoOffline
<1>13. ASSUME NEW t \in Tubes, CloseTube(t) PROVE RoomInv'
  <2> DEFINE r == [room EXCEPT !.tubes = @ \ {t}]
  <2>1. Exists /\ room \in RoomType /\ t \in shown /\ t # Text /\ needed' = needed
    BY <1>13, <1>r, TextIsNoTube DEF CloseTube, Uses, Only, NothingServed
  <2>2. room.ready
    BY <2>1, <1>r DEF Shows
  <2>3. /\ r \in RoomType /\ r.ready /\ r.tubes = room.tubes \ {t} /\ r.registered = room.registered
        /\ r.autoclose = room.autoclose /\ ReadyMeans(needed, r)
    BY <2>1, <2>2, <1>r DEF RoomType, ReadyMeans
  <2>4. CASE Autocloses(room, r)
    BY <1>13, <2>4, <1>d DEF CloseTube
  <2>5. CASE ~Autocloses(room, r)
    <3>1. room' = r /\ shown' = shown \ {t}
      BY <1>13, <2>5 DEF CloseTube
    <3>2. r.autoclose => r.tubes # {}
      BY <2>5 DEF Autocloses, CanBeClosed
    <3>3. Shows(shown', r)
      BY <2>1, <2>2, <2>3, <3>1, <3>2, <1>r DEF Shows
    <3> QED
      BY <2>1, <2>3, <3>1, <3>3, <1>h
  <2> QED
    BY <2>4, <2>5
<1> QED
  <2>1. ASSUME NEW c \in Contacts, LostSender(c) \/ Invite(c) PROVE RoomInv'
    <3>1. Exists /\ room \in RoomType
      BY <2>1, <1>r DEF LostSender, Invite, Uses
    <3>2. room.at \in Places
      BY <3>1 DEF RoomType
    <3> QED
      BY <2>1, <3>2, <1>8
  <2> QED
    BY <2>1, <1>1, <1>2, <1>3, <1>4, <1>5, <1>6, <1>7, <1>8, <1>9, <1>10, <1>11, <1>12, <1>13 DEF Step

\* The parts of a room fit together, with the manager's table of its tubes, and
\* with what the bus knows of it, in every reachable state up to the use of a
\* freed object (muc-manager.c, muc-channel.c).
THEOREM RoomHolds == Spec => [](TypeOK /\ RoomInv)
<1>1. Init => RoomInv
  BY DEF Init, RoomInv, Exists, NoRoom
<1> QED
  BY <1>1, NextRoomInv, TypeCorrect, PTL DEF Spec

\* In every execution clients were told of exactly the channels that are there,
\* as long as no freed object was used: what the bus shows of a room, its tubes
\* and its hiding fits its state, whatever earlier rooms left in the tables.
THEOREM BusAlwaysMatchesRoom == Spec => []BusMatchesRoom
<1>1. TypeOK /\ RoomInv => BusMatchesRoom
  <2> SUFFICES ASSUME TypeOK, RoomInv, Running PROVE BusMatchesRoom
    BY DEF BusMatchesRoom
  <2>1. CASE ~Exists
    BY <2>1 DEF RoomInv, BusMatchesRoom
  <2>2. CASE Exists
    <3>1. Shows(shown, room) /\ room \in RoomType
      BY <2>2, RoomsStayRooms DEF RoomInv, TypeOK, Exists
    <3>2. room.tubes \subseteq Tubes
      BY <3>1 DEF RoomType
    <3> QED
      BY <2>2, <3>1, <3>2, TextIsNoTube DEF Shows, BusMatchesRoom
  <2> QED
    BY <2>1, <2>2
<1> QED
  BY <1>1, RoomHolds, PTL

-----------------------------------------------------------------------------
(* Answers *)

\* A step is in order when those it answers waited or have just asked, and
\* when whom it leaves waiting is among these and was not answered.
LEMMA InOrder ==
    ASSUME TypeOK, OneByOne, NEW qs, Answer(qs), NEW fresh \in SUBSET (Requests \ asked),
           asked' = asked \cup fresh,
           qs \subseteq Waiting \cup fresh,
           Waiting' \subseteq (Waiting \cup fresh) \ qs
    PROVE  OneByOne'
<1> SUFFICES ASSUME NEW q \in Requests
             PROVE  /\ answers'[q] <= 1
                    /\ q \notin asked' \/ q \in Waiting' => answers'[q] = 0
                    /\ q \notin asked' => q \notin Waiting'
  BY DEF OneByOne
<1>1. /\ answers[q] <= 1
      /\ q \notin asked \/ q \in Waiting => answers[q] = 0
      /\ q \notin asked => q \notin Waiting
  BY DEF OneByOne
<1>2. answers[q] \in Nat /\ answers'[q] = IF q \in qs THEN answers[q] + 1 ELSE answers[q]
  BY DEF TypeOK, Answer
<1>3. CASE q \in qs
  BY <1>1, <1>2, <1>3
<1>4. CASE q \notin qs
  BY <1>1, <1>2, <1>4
<1> QED
  BY <1>3, <1>4

\* As long as nobody is answered, that is a matter of who waits.
LEMMA InOrderUnanswered ==
    ASSUME TypeOK, OneByOne, UNCHANGED answers, NEW fresh \in SUBSET (Requests \ asked),
           asked' = asked \cup fresh, Waiting' \subseteq Waiting \cup fresh
    PROVE  OneByOne'
<1>1. Answer({})
  BY DEF Answer, TypeOK
<1> QED
  BY <1>1, InOrder

\* Who is served for a room waited, and waits no more; nobody else starts to.
LEMMA Served ==
    ASSUME TypeOK, NEW r \in RoomType
    PROVE  /\ TextWaiters(r.at) \cup TubeWaiters(r.at) \subseteq Waiting
           /\ ServeWaiters(r) => Waiting' = Waiting \ (TextWaiters(r.at) \cup TubeWaiters(r.at))
<1> DEFINE qs == TextWaiters(r.at) \cup TubeWaiters(r.at)
<1>1. r.at \in Places /\ r.at # Nowhere /\ needed[r.at] \subseteq TubeRequests /\ Nowhere \notin TubeRequests
  BY MucRoomAssumption DEF RoomType, TypeOK, TablesType, Places, Nowhere
<1>2. qs \subseteq Waiting
  BY <1>1 DEF TextWaiters, TubeWaiters, Waiting, Requests
<1>3. ASSUME ServeWaiters(r) PROVE Waiting' = Waiting \ qs
  <2>1. \A q \in Requests : queued'[q] = IF q \in qs THEN Nowhere ELSE queued[q]
    BY <1>3 DEF ServeWaiters, Forget
  <2> HIDE DEF qs
  <2> QED
    BY <2>1 DEF Waiting
<1> QED
  BY <1>2, <1>3

\* A room that becomes ready answers those who wait, and forgets them.
LEMMA ReadyInOrder ==
    ASSUME TypeOK, OneByOne, NEW r \in RoomType, BecomeReady(r), UNCHANGED asked
    PROVE  OneByOne'
<1> DEFINE qs == TubeWaiters(r.at) \cup IF r.registered THEN TextWaiters(r.at) ELSE {}
<1>1. Answer(qs) /\ ServeWaiters(r)
  BY DEF BecomeReady
<1>2. qs \subseteq Waiting /\ Waiting' \subseteq Waiting \ qs
  BY <1>1, Served
<1>3. {} \in SUBSET (Requests \ asked) /\ asked' = asked \cup {}
  OBVIOUS
<1> HIDE DEF qs
<1> QED
  BY <1>1, <1>2, <1>3, InOrder

\* Every step answers only those who wait, each of them once.
LEMMA NextOneByOne == TypeOK /\ OneByOne /\ [Next]_vars => OneByOne'
<1> SUFFICES ASSUME TypeOK, OneByOne, [Next]_vars PROVE OneByOne'
  OBVIOUS
<1>r. ASSUME Exists PROVE room \in RoomType
  BY <1>r, RoomsStayRooms DEF TypeOK, Exists
\* Most steps answer nobody, and nobody starts to wait.
<1>s. ASSUME UNCHANGED <<asked, answers, queued>> PROVE OneByOne'
  BY <1>s DEF OneByOne, Waiting
<1>o. ASSUME Only PROVE OneByOne'
  BY <1>o, <1>s DEF Only, Still, NothingServed
<1>b. ASSUME NEW r \in RoomType, BecomeReady(r) \/ JoinError(r), Still PROVE OneByOne'
  <2>0. asked' = asked
    BY <1>b DEF Still
  <2>1. CASE BecomeReady(r)
    BY <2>0, <2>1, ReadyInOrder
  <2>2. CASE JoinError(r)
    <3> DEFINE qs == TextWaiters(r.at) \cup TubeWaiters(r.at)
    <3>1. Answer(qs) /\ ServeWaiters(r)
      BY <2>2 DEF JoinError
    <3>2. qs \subseteq Waiting /\ Waiting' \subseteq Waiting \ qs
      BY <3>1, Served
    <3>3. {} \in SUBSET (Requests \ asked) /\ asked' = asked \cup {}
      BY <2>0
    <3> HIDE DEF qs
    <3> QED
      BY <3>1, <3>2, <3>3, InOrder
  <2> QED
    BY <1>b, <2>1, <2>2
\* Who asks is answered at once or waits.
<1>a. ASSUME NEW q \in Requests, Asks(q),
             \/ UNCHANGED answers /\ \E p : Queue(q, p)
             \/ UNCHANGED <<answers, queued>>
             \/ Answer({q}) /\ UNCHANGED queued
      PROVE  OneByOne'
  <2>1. {q} \in SUBSET (Requests \ asked) /\ asked' = asked \cup {q}
    BY <1>a DEF Asks
  <2>2. CASE UNCHANGED answers /\ \E p : Queue(q, p)
    <3>1. Waiting' \subseteq Waiting \cup {q}
      BY <2>2 DEF Queue, Waiting, TypeOK, TablesType
    <3> QED
      BY <2>1, <2>2, <3>1, InOrderUnanswered
  <2>3. CASE UNCHANGED <<answers, queued>>
    <3>1. Waiting' \subseteq Waiting \cup {q}
      BY <2>3 DEF Waiting
    <3> QED
      BY <2>1, <2>3, <3>1, InOrderUnanswered
  <2>4. CASE Answer({q}) /\ UNCHANGED queued
    <3>1. Waiting' = Waiting
      BY <2>4 DEF Waiting
    <3>2. q \notin Waiting
      BY <1>a DEF OneByOne, Asks
    <3> QED
      BY <2>1, <2>4, <3>1, <3>2, InOrder
  <2> QED
    BY <1>a, <2>2, <2>3, <2>4
<1>1. ASSUME NEW q \in Texts, RequestText(q) PROVE OneByOne'
  <2>1. q \in Requests /\ Asks(q)
    BY <1>1 DEF RequestText, Requests
  <2>2. \/ UNCHANGED answers /\ \E p : Queue(q, p)
        \/ UNCHANGED <<answers, queued>>
        \/ Answer({q}) /\ UNCHANGED queued
    BY <1>1 DEF RequestText
  <2> QED
    BY <2>1, <2>2, <1>a
<1>2. ASSUME NEW q \in TubeRequests, RequestTube(q) PROVE OneByOne'
  <2>1. q \in Requests /\ Asks(q)
    BY <1>2 DEF RequestTube, Requests
  <2>2. \/ UNCHANGED answers /\ \E p : Queue(q, p)
        \/ Answer({q}) /\ UNCHANGED queued
    BY <1>2 DEF RequestTube, QueueTube
  <2> QED
    BY <2>1, <2>2, <1>a
<1>3. CASE Invited
  BY <1>3, <1>s DEF Invited
<1>4. CASE Accept
  <2>1. room \in RoomType /\ Still
    BY <1>4, <1>r DEF Accept, Uses
  <2>2. NothingServed \/ JoinError(room)
    BY <1>4 DEF Accept
  <2> QED
    BY <2>1, <2>2, <1>b, <1>o DEF Only
<1>5. CASE Connected
  <2> DEFINE r == [room EXCEPT !.conn = "connected"]
  <2>1. r \in RoomType /\ Still
    BY <1>5, <1>r DEF Connected, RoomType
  <2>2. BecomeReady(r) \/ NothingServed
    BY <1>5 DEF Connected
  <2> HIDE DEF r
  <2> QED
    BY <2>1, <2>2, <1>b, <1>o DEF Only
<1>6. CASE SendersTimeout
  BY <1>6, <1>r, <1>b DEF SendersTimeout
<1>7. ASSUME NEW c \in Contacts, NewSender(c) PROVE OneByOne'
  <2> DEFINE r == [room EXCEPT !.members = @ \cup {c}, !.senders = @ \cup {c}, !.invited = @ \ {c}]
  <2>1. r \in RoomType /\ Still
    BY <1>7, <1>r DEF NewSender, RoomType
  <2>2. BecomeReady(r) \/ NothingServed
    BY <1>7 DEF NewSender
  <2> HIDE DEF r
  <2> QED
    BY <2>1, <2>2, <1>b, <1>o DEF Only
<1>8. ASSUME NEW c \in Contacts, LostSender(c) \/ Invite(c) \/ ReceiveStanza(c) PROVE OneByOne'
  BY <1>8, <1>s DEF LostSender, Invite, ReceiveStanza, Only, Still, NothingServed
<1>9. ASSUME NEW c \in Contacts, NEW p \in Places, InviteSent(c, p) PROVE OneByOne'
  BY <1>9, <1>s DEF InviteSent
<1>10. CASE CloseText \/ Leave \/ Left
  BY <1>10, <1>o DEF CloseText, Leave, Left
<1>11. CASE GoOffline
  <2>1. Answer(Waiting) /\ asked' = asked
    BY <1>11 DEF GoOffline, Waiting
  <2>2. Waiting' = {}
    BY <1>11 DEF GoOffline, Waiting
  <2>3. {} \in SUBSET (Requests \ asked) /\ asked' = asked \cup {}
    BY <2>1
  <2> QED
    BY <2>1, <2>2, <2>3, InOrder
<1>12. ASSUME NEW t \in Tubes, CloseTube(t) PROVE OneByOne'
  BY <1>12, <1>o DEF CloseTube
<1>13. CASE UNCHANGED vars
  BY <1>13, <1>s DEF vars
<1> QED
  BY <1>1, <1>2, <1>3, <1>4, <1>5, <1>6, <1>7, <1>8, <1>9, <1>10, <1>11, <1>12, <1>13 DEF Next, Step

\* No request is answered twice: whoever waits is answered when the room for
\* which the manager has the request is ready or cannot be joined, or when the
\* account goes, and then forgotten; also when the room it asked for is gone and
\* another one at its place answers.
THEOREM AnsweredOnlyOnce == Spec => []AnsweredOnce
<1>1. Init => OneByOne
  BY DEF Init, OneByOne, Waiting
<1>2. OneByOne => AnsweredOnce
  BY DEF OneByOne, AnsweredOnce
<1> QED
  BY <1>1, <1>2, NextOneByOne, TypeCorrect, PTL DEF Spec
=============================================================================
