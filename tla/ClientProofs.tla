----------------------------- MODULE ClientProofs -----------------------------
(***************************************************************************)
(* The safety of one client, for every set of peers, interfaces, requests, *)
(* rooms and scenario: forged capabilities reach nobody, the contact list   *)
(* and the lists of rooms show who and what is there, what was asked for is *)
(* what is published, every request gets one answer at most, and what a     *)
(* contact says is heard as it was said.                                    *)
(*                                                                         *)
(* The account, the contacts, the rooms and the chats have an invariant     *)
(* each; a step of the client is a step of some of them, and the others     *)
(* stand still.                                                             *)
(***************************************************************************)
EXTENDS Client, WellFoundedInduction, TLAPS

-----------------------------------------------------------------------------
(* The account *)

Shape == [status : Statuses \cup {Available, "offline"}, caps : CapSets \cup {NoCaps},
          alias : Aliases \cup {Nickname}, token : Pictures \cup {NoPicture},
          picture : Pictures \cup {NoPicture}]

AccountType ==
    /\ status \in {"new", "connecting", "connected", "disconnected"}
    /\ client \in {"none", "connecting", "running"}
    /\ own \in [state : {"none", "announced", "established"}, status : Statuses \cup {Available, "offline"},
                caps : CapSets \cup {NoCaps}, alias : Aliases \cup {Nickname},
                token : Pictures \cup {NoPicture}]
    /\ pre \in [status : Statuses \cup {Available}, caps : CapSets \cup {NoCaps}]
    /\ entry \in Shape /\ published \in Shape /\ unsent \in BOOLEAN /\ wanted \in Shape
    /\ changed \in Nat
    /\ closing \in [porter : {"open", "closing", "closed"}, timer : BOOLEAN, force : BOOLEAN]
    /\ finished \in Nat
    /\ sidecars \subseteq Interfaces /\ loading \subseteq Interfaces
    /\ pending \in [Interfaces -> SUBSET Ensures]
    /\ replies \in [Ensures -> Nat]

\* The network has what our record says, but for updates that failed, and the
\* picture in any case.
NetworkFits == (~unsent => published = entry) /\ published.picture = entry.picture

\* Where the record is on its way to the network: what was asked for before is
\* kept in pre, but for the capabilities of a record that is announced.
NotYet ==
    /\ wanted.alias = Nickname /\ wanted.token = NoPicture /\ wanted.picture = NoPicture
    /\ wanted.status = pre.status
RecordFits ==
    /\ NetworkFits
    /\ status = "new" => own.state = "none" /\ client = "none" /\ NotYet /\ wanted.caps = pre.caps
    /\ status = "connecting" =>
          /\ NotYet
          /\ \/ client = "connecting" /\ own.state = "none" /\ wanted.caps = pre.caps
             \/ client = "running" /\ own.state = "announced" /\ own.caps = wanted.caps
                /\ entry = [wanted EXCEPT !.status = Available]
    /\ status = "connected" => own.state = "established" /\ entry = wanted /\ own.caps = wanted.caps

\* The way down is taken once, and ends with the porter or by force.
DownOnce ==
    /\ Up \/ status = "new" => closing.porter = "open"
    /\ closing.porter = "open" => ~closing.timer /\ ~closing.force /\ finished = 0
    /\ closing.timer => ~closing.force
    /\ closing.timer \/ closing.force => finished = 0
    /\ finished <= 1

\* Who waits for a sidecar was not answered yet, and waits for one.
SidecarsWait ==
    /\ \A i \in Interfaces : \A r \in pending[i] : replies[r] = 0
    /\ \A i, j \in Interfaces : \A r \in pending[i] : r \in pending[j] => i = j
    /\ \A r \in Ensures : replies[r] <= 1

AccountInv == AccountType /\ RecordFits /\ DownOnce /\ SidecarsWait

\* What a step does to the account.
AccountStep ==
    \/ StartConnecting \/ Announce \/ Established \/ GoDown
    \/ DisconnectTimeout \/ PorterClosed \/ ForceClosed \/ ClearAvatar
    \/ \E s \in Statuses : SetPresence(s)
    \/ \E c \in CapSets : UpdateCaps(c)
    \/ \E a \in Aliases : SetAlias(a)
    \/ \E q \in Pictures : SetAvatar(q)
    \/ \E r \in Ensures, i \in Interfaces : EnsureSidecar(r, i)
    \/ \E i \in Interfaces : SidecarCreated(i)

\* Both ways to start fit.
LEMMA AccountStarts == Init => AccountInv
<1>. SUFFICES ASSUME Init PROVE AccountInv
  OBVIOUS
<1>. USE DEF Profile, Self, NoSelf, Nothing
<1>1. NoCaps \notin CapSets /\ NoPicture \notin Pictures /\ MaxOwn \in Nat
  BY AccountAssumption
<1>2. CASE StartOffline
  <2>1. AccountType
    BY <1>2 DEF StartOffline, AccountInit, AccountType, Shape
  <2>2. RecordFits
    BY <1>2 DEF StartOffline, AccountInit, RecordFits, NotYet, NetworkFits
  <2>3. DownOnce /\ SidecarsWait
    BY <1>2 DEF StartOffline, AccountInit, DownOnce, SidecarsWait, Up
  <2>. QED BY <2>1, <2>2, <2>3 DEF AccountInv
<1>3. CASE StartConnected
  <2>1. AccountType
    BY <1>1, <1>3 DEF StartConnected, AccountType, Shape
  <2>2. RecordFits
    BY <1>3 DEF StartConnected, RecordFits, NetworkFits
  <2>3. DownOnce /\ SidecarsWait
    BY <1>3 DEF StartConnected, DownOnce, SidecarsWait, Up
  <2>. QED BY <2>1, <2>2, <2>3 DEF AccountInv
<1>. QED BY <1>2, <1>3 DEF Init

\* The way down.
LEMMA DownKeeps ==
    ASSUME AccountInv, GoDown \/ DisconnectTimeout \/ PorterClosed \/ ForceClosed
    PROVE  AccountInv'
<1>. USE DEF AccountInv, DownOnce, Up
<1>0. AccountType /\ finished \in Nat
  BY DEF AccountType
<1>1. CASE GoDown
  <2>1. /\ status' = "disconnected" /\ client' = "none" /\ own' = NoSelf
        /\ entry' = Nothing /\ published' = Nothing /\ unsent' = FALSE
        /\ UNCHANGED <<pre, wanted, changed, finished, loading>>
        /\ closing' = [porter |-> "closing", timer |-> TRUE, force |-> FALSE]
        /\ sidecars' = {} /\ pending' = [i \in Interfaces |-> {}] /\ Up
    BY <1>1 DEF GoDown, FailSidecars
  <2>. DEFINE waiters == UNION {pending[i] : i \in Interfaces}
  <2>2. replies' = [r \in Ensures |-> IF r \in waiters THEN replies[r] + 1 ELSE replies[r]]
    BY <1>1 DEF GoDown, FailSidecars, Reply
  <2>3. \A r \in waiters : r \in Ensures => replies[r] = 0
    BY DEF SidecarsWait
  <2>. HIDE DEF waiters
  <2>4. \A r \in Ensures : replies'[r] \in Nat /\ replies'[r] <= 1
    BY <1>0, <2>2, <2>3 DEF AccountType, SidecarsWait
  <2>5. AccountType'
    <3>1. own' \in [state : {"none", "announced", "established"}, status : Statuses \cup {Available, "offline"},
                caps : CapSets \cup {NoCaps}, alias : Aliases \cup {Nickname},
                token : Pictures \cup {NoPicture}]
      BY <2>1 DEF NoSelf, Self, Profile
    <3>2. entry' \in Shape /\ published' \in Shape
      BY <2>1 DEF Nothing, Profile, Shape
    <3>3. replies' \in [Ensures -> Nat]
      BY <2>2, <2>4
    <3>. QED BY <1>0, <2>1, <3>1, <3>2, <3>3 DEF AccountType
  <2>6. RecordFits' /\ DownOnce' /\ SidecarsWait'
    BY <2>1, <2>4 DEF RecordFits, NetworkFits, SidecarsWait
  <2>. QED BY <2>5, <2>6
<1>2. CASE DisconnectTimeout
  <2>1. /\ UNCHANGED <<status, client, ownVars, finished, sidecarVars>> /\ closing.timer
        /\ closing' = [closing EXCEPT !.timer = FALSE, !.force = TRUE]
    BY <1>2 DEF DisconnectTimeout
  <2>2. closing' \in [porter : {"open", "closing", "closed"}, timer : BOOLEAN, force : BOOLEAN]
        /\ closing'.timer = FALSE /\ closing'.force = TRUE /\ closing'.porter = closing.porter
    BY <1>0, <2>1 DEF AccountType
  <2>3. AccountType' /\ RecordFits' /\ SidecarsWait'
    BY <1>0, <2>1, <2>2 DEF AccountType, RecordFits, NotYet, NetworkFits, SidecarsWait, ownVars, sidecarVars
  <2>. QED BY <2>1, <2>2, <2>3
<1>3. CASE PorterClosed
  <2>1. /\ UNCHANGED <<status, client, ownVars, sidecarVars>> /\ closing.porter = "closing"
        /\ closing' = [closing EXCEPT !.porter = "closed", !.timer = FALSE]
        /\ finished' = IF closing.timer THEN finished + 1 ELSE finished
    BY <1>3 DEF PorterClosed, Finishes
  <2>2. closing' \in [porter : {"open", "closing", "closed"}, timer : BOOLEAN, force : BOOLEAN]
        /\ closing'.timer = FALSE /\ closing'.force = closing.force /\ closing'.porter = "closed"
    BY <1>0, <2>1 DEF AccountType
  <2>3. AccountType' /\ RecordFits' /\ SidecarsWait'
    BY <1>0, <2>1, <2>2 DEF AccountType, RecordFits, NotYet, NetworkFits, SidecarsWait, ownVars, sidecarVars
  <2>. QED BY <1>0, <2>1, <2>2, <2>3
<1>4. CASE ForceClosed
  <2>1. /\ UNCHANGED <<status, client, ownVars, sidecarVars>> /\ closing.force
        /\ closing' = [closing EXCEPT !.force = FALSE] /\ finished' = finished + 1
    BY <1>4 DEF ForceClosed
  <2>2. closing' \in [porter : {"open", "closing", "closed"}, timer : BOOLEAN, force : BOOLEAN]
        /\ closing'.timer = closing.timer /\ closing'.force = FALSE /\ closing'.porter = closing.porter
    BY <1>0, <2>1 DEF AccountType
  <2>3. AccountType' /\ RecordFits' /\ SidecarsWait'
    BY <1>0, <2>1, <2>2 DEF AccountType, RecordFits, NotYet, NetworkFits, SidecarsWait, ownVars, sidecarVars
  <2>. QED BY <1>0, <2>1, <2>2, <2>3
<1>. QED BY <1>1, <1>2, <1>3, <1>4

\* What an update leaves, whether it gets to the network or not.
LEMMA UpdatesFit ==
    ASSUME NEW e \in Shape, published \in Shape, Updates(e)
    PROVE  entry' = e /\ unsent' \in BOOLEAN /\ published' \in Shape /\ NetworkFits'
<1>1. PICK ok \in BOOLEAN :
        unsent' = ~ok /\ published' = IF ok THEN e ELSE [published EXCEPT !.picture = e.picture]
  BY DEF Updates
<1>2. entry' = e
  BY DEF Updates
<1>3. CASE ok
  BY <1>1, <1>2, <1>3 DEF NetworkFits
<1>4. CASE ~ok
  <2>1. [published EXCEPT !.picture = e.picture] \in Shape
        /\ [published EXCEPT !.picture = e.picture].picture = e.picture
    BY DEF Shape
  <2>. QED BY <1>1, <1>2, <1>4, <2>1 DEF NetworkFits
<1>. QED BY <1>3, <1>4

OwnType == [state : {"none", "announced", "established"}, status : Statuses \cup {Available, "offline"},
            caps : CapSets \cup {NoCaps}, alias : Aliases \cup {Nickname},
            token : Pictures \cup {NoPicture}]
PreType == [status : Statuses \cup {Available}, caps : CapSets \cup {NoCaps}]

\* The way up.
LEMMA UpKeeps ==
    ASSUME AccountInv, StartConnecting \/ Announce \/ Established
    PROVE  AccountInv'
<1>. USE DEF AccountInv, Up
<1>0. AccountType
  OBVIOUS
<1>1. CASE StartConnecting
  <2>1. /\ status = "new" /\ status' = "connecting" /\ client' = "connecting"
        /\ UNCHANGED <<ownVars, downVars, sidecarVars>>
    BY <1>1 DEF StartConnecting
  <2>. QED BY <1>0, <2>1 DEF AccountType, RecordFits, NotYet, NetworkFits, DownOnce, SidecarsWait, ownVars, downVars, sidecarVars
<1>2. CASE Announce
  <2>1. /\ client = "connecting" /\ status = "connecting" /\ client' = "running"
        /\ entry' = Profile(Available, own'.caps) /\ published' = entry' /\ unsent' = FALSE
        /\ pre' = [pre EXCEPT !.caps = NoCaps]
        /\ UNCHANGED <<status, wanted, changed, downVars, sidecarVars>>
    BY <1>2 DEF Announce
  <2>2. own' = [[NoSelf EXCEPT !.caps = pre.caps] EXCEPT !.state = "announced"]
    BY <1>2 DEF Announce, TakeCaps
  <2>3. own' \in OwnType /\ own'.state = "announced" /\ own'.caps = pre.caps
    BY <1>0, <2>2 DEF AccountType, OwnType, NoSelf, Self, Profile
  <2>4. /\ wanted.caps = pre.caps /\ wanted.alias = Nickname /\ wanted.token = NoPicture
        /\ wanted.picture = NoPicture /\ wanted.status = pre.status
    BY <2>1 DEF RecordFits, NotYet
  <2>5. entry' = [wanted EXCEPT !.status = Available]
    BY <1>0, <2>1, <2>3, <2>4 DEF AccountType, Shape, Profile
  <2>6. entry' \in Shape
    BY <1>0, <2>5 DEF AccountType, Shape
  <2>7. pre' \in PreType /\ pre'.status = pre.status
    BY <1>0, <2>1 DEF AccountType, PreType
  <2>8. AccountType'
    BY <1>0, <2>1, <2>3, <2>6, <2>7 DEF AccountType, OwnType, PreType, downVars, sidecarVars
  <2>9. RecordFits'
    BY <2>1, <2>3, <2>4, <2>5, <2>7 DEF RecordFits, NotYet, NetworkFits
  <2>10. DownOnce' /\ SidecarsWait'
    BY <2>1 DEF DownOnce, SidecarsWait, downVars, sidecarVars
  <2>. QED BY <2>8, <2>9, <2>10
<1>3. CASE Established
  <2>1. /\ own.state = "announced" /\ status = "connecting" /\ status' = "connected"
        /\ own' = [[own EXCEPT !.status = pre.status] EXCEPT !.state = "established"]
        /\ Updates([entry EXCEPT !.status = own'.status])
        /\ loading' = loading \cup Queued
        /\ UNCHANGED <<client, pre, wanted, changed, downVars, sidecars, pending, replies>>
    BY <1>3 DEF Established, SetPreConnect
  <2>2. own' \in OwnType /\ own'.state = "established" /\ own'.status = pre.status /\ own'.caps = own.caps
    BY <1>0, <2>1 DEF AccountType, OwnType
  <2>3. [entry EXCEPT !.status = own'.status] = wanted
    <3>1. wanted.status = pre.status /\ entry = [wanted EXCEPT !.status = Available]
      BY <2>1 DEF RecordFits, NotYet
    <3>2. [entry EXCEPT !.status = own'.status] = [entry EXCEPT !.status = wanted.status]
      BY <2>2, <3>1
    <3>. QED BY <1>0, <3>1, <3>2 DEF AccountType, Shape
  <2>4. Updates(wanted)
    BY <2>1, <2>3
  <2>5. entry' = wanted /\ unsent' \in BOOLEAN /\ published' \in Shape /\ NetworkFits'
    BY <1>0, <2>4, UpdatesFit DEF AccountType
  <2>6. own.caps = wanted.caps
    BY <2>1 DEF RecordFits
  <2>7. AccountType'
    BY <1>0, <2>1, <2>2, <2>5 DEF AccountType, OwnType, downVars, Queued
  <2>8. RecordFits' /\ DownOnce' /\ SidecarsWait'
    BY <2>1, <2>2, <2>5, <2>6 DEF RecordFits, DownOnce, SidecarsWait, downVars
  <2>. QED BY <2>7, <2>8
<1>. QED BY <1>1, <1>2, <1>3

\* What is asked for is in our record, refused, or kept until the record is
\* there.
LEMMA OwnKeeps ==
    ASSUME AccountInv,
           \/ \E s \in Statuses : SetPresence(s)
           \/ \E c \in CapSets : UpdateCaps(c)
           \/ \E a \in Aliases : SetAlias(a)
           \/ \E q \in Pictures : SetAvatar(q)
           \/ ClearAvatar
    PROVE  AccountInv'
<1>. USE DEF AccountInv
<1>0. AccountType
  OBVIOUS
<1>1. changed' \in Nat /\ UNCHANGED <<status, client, downVars, sidecarVars>> /\ status # "disconnected"
  <2>1. Change /\ UNCHANGED <<status, client, downVars, sidecarVars>>
    BY Zenon DEF SetPresence, UpdateCaps, SetAlias, SetAvatar, ClearAvatar
  <2>2. changed \in Nat
    BY <1>0 DEF AccountType
  <2>. QED BY <2>1, <2>2 DEF Change
<1>2. DownOnce' /\ SidecarsWait'
  BY <1>1 DEF DownOnce, Up, SidecarsWait, downVars, sidecarVars
<1>3. ASSUME own' \in OwnType, pre' \in PreType, entry' \in Shape, published' \in Shape,
             unsent' \in BOOLEAN, wanted' \in Shape
      PROVE  AccountType'
  BY <1>0, <1>1, <1>3 DEF AccountType, OwnType, PreType, downVars, sidecarVars
<1>4. /\ own \in OwnType /\ pre \in PreType /\ entry \in Shape /\ published \in Shape
      /\ unsent \in BOOLEAN /\ wanted \in Shape
  BY <1>0 DEF AccountType, OwnType, PreType
<1>5. status = "connected" => own.state = "established" /\ entry = wanted /\ own.caps = wanted.caps
  BY DEF RecordFits
<1>6. ASSUME status = "connected", own' \in OwnType, own'.state = own.state, own'.caps = wanted'.caps,
             wanted' \in Shape, Updates(wanted'), pre' = pre
      PROVE  AccountInv'
  <2>1. entry' = wanted' /\ unsent' \in BOOLEAN /\ published' \in Shape /\ NetworkFits'
    BY <1>4, <1>6, UpdatesFit
  <2>2. AccountType'
    BY <1>3, <1>4, <1>6, <2>1
  <2>3. RecordFits'
    BY <1>1, <1>5, <1>6, <2>1 DEF RecordFits
  <2>. QED BY <1>2, <2>2, <2>3
<1>7. ASSUME NEW s \in Statuses, SetPresence(s) PROVE AccountInv'
  <2>1. /\ wanted' = [wanted EXCEPT !.status = s]
        /\ IF own.state # "established"
           THEN pre' = [pre EXCEPT !.status = s] /\ UNCHANGED <<own, entry, published, unsent>>
           ELSE /\ own' = [own EXCEPT !.status = s] /\ Updates([entry EXCEPT !.status = s])
                /\ UNCHANGED pre
    BY <1>7 DEF SetPresence, OwnStill
  <2>2. wanted' \in Shape /\ wanted'.status = s /\ wanted'.caps = wanted.caps /\ wanted'.alias = wanted.alias
        /\ wanted'.token = wanted.token /\ wanted'.picture = wanted.picture
    BY <1>4, <2>1 DEF Shape
  <2>3. CASE own.state # "established"
    <3>1. pre' \in PreType /\ pre'.status = s /\ pre'.caps = pre.caps
      BY <1>4, <2>1, <2>3 DEF PreType
    <3>2. [wanted' EXCEPT !.status = Available] = [wanted EXCEPT !.status = Available]
      BY <1>4, <2>1, <2>2 DEF Shape
    <3>3. status # "connected" /\ UNCHANGED <<own, entry, published, unsent>>
      BY <1>5, <2>1, <2>3
    <3>4. RecordFits'
      BY <1>1, <2>2, <3>1, <3>2, <3>3 DEF RecordFits, NotYet, NetworkFits
    <3>. QED BY <1>2, <1>3, <1>4, <2>2, <3>1, <3>3, <3>4
  <2>4. CASE own.state = "established"
    <3>1. status = "connected"
      BY <1>0, <1>1, <2>4 DEF RecordFits, AccountType
    <3>2. own' \in OwnType /\ own'.state = own.state /\ own'.caps = own.caps /\ pre' = pre
      BY <1>4, <2>1, <2>4 DEF OwnType
    <3>3. Updates(wanted')
      BY <1>5, <2>1, <2>4, <3>1
    <3>. QED BY <1>5, <1>6, <2>2, <3>1, <3>2, <3>3
  <2>. QED BY <2>3, <2>4
<1>8. ASSUME NEW c \in CapSets, UpdateCaps(c) PROVE AccountInv'
  <2>1. /\ wanted' = [wanted EXCEPT !.caps = c]
        /\ own.state = "none" => pre' = [pre EXCEPT !.caps = c] /\ OwnStill
        /\ own.state # "none" /\ own.caps = c => UNCHANGED pre /\ OwnStill
        /\ own.state # "none" /\ own.caps # c =>
              /\ own' = [own EXCEPT !.caps = c] /\ Updates([entry EXCEPT !.caps = c])
              /\ UNCHANGED pre
    BY <1>8 DEF UpdateCaps
  <2>2. wanted' \in Shape /\ wanted'.status = wanted.status /\ wanted'.caps = c
        /\ wanted'.alias = wanted.alias /\ wanted'.token = wanted.token /\ wanted'.picture = wanted.picture
    BY <1>4, <2>1 DEF Shape
  <2>3. CASE own.state = "none"
    <3>1. pre' \in PreType /\ pre'.status = pre.status /\ pre'.caps = c
      BY <1>4, <2>1, <2>3 DEF PreType
    <3>2. status # "connected" /\ UNCHANGED <<own, entry, published, unsent>>
      BY <1>5, <2>1, <2>3 DEF OwnStill
    <3>3. RecordFits'
      BY <1>1, <2>2, <2>3, <3>1, <3>2 DEF RecordFits, NotYet, NetworkFits
    <3>. QED BY <1>2, <1>3, <1>4, <2>2, <3>1, <3>2, <3>3
  <2>4. CASE own.state # "none" /\ own.caps = c
    <3>1. UNCHANGED <<own, entry, published, unsent, pre>>
      BY <2>1, <2>4 DEF OwnStill
    <3>2. status \in {"connecting", "connected"} /\ own.caps = wanted.caps
      BY <1>0, <1>1, <2>4 DEF RecordFits, AccountType
    <3>3. wanted' = wanted
      BY <1>4, <2>1, <2>4, <3>2 DEF Shape
    <3>4. RecordFits'
      BY <1>1, <3>1, <3>3 DEF RecordFits, NotYet, NetworkFits
    <3>. QED BY <1>2, <1>3, <1>4, <3>1, <3>3, <3>4
  <2>5. CASE own.state # "none" /\ own.caps # c
    <3>1. own' = [own EXCEPT !.caps = c] /\ Updates([entry EXCEPT !.caps = c]) /\ pre' = pre
      BY <2>1, <2>5
    <3>2. own' \in OwnType /\ own'.state = own.state /\ own'.caps = c
      BY <1>4, <3>1 DEF OwnType
    <3>3. CASE status = "connected"
      <4>1. Updates(wanted')
        BY <1>5, <2>1, <3>1, <3>3
      <4>. QED BY <1>6, <2>2, <3>1, <3>2, <3>3, <4>1
    <3>4. CASE status # "connected"
      <4>1. status = "connecting" /\ client = "running" /\ own.state = "announced" /\ NotYet
            /\ entry = [wanted EXCEPT !.status = Available]
        BY <1>0, <1>1, <2>5, <3>4 DEF RecordFits, AccountType
      <4>2. [entry EXCEPT !.caps = c] = [wanted' EXCEPT !.status = Available]
            /\ [entry EXCEPT !.caps = c] \in Shape
        BY <1>4, <2>1, <4>1 DEF Shape
      <4>3. entry' = [wanted' EXCEPT !.status = Available] /\ entry' \in Shape
            /\ unsent' \in BOOLEAN /\ published' \in Shape /\ NetworkFits'
        BY <1>4, <3>1, <4>2, UpdatesFit
      <4>4. RecordFits'
        BY <1>1, <2>2, <3>1, <3>2, <4>1, <4>3 DEF RecordFits, NotYet
      <4>. QED BY <1>2, <1>3, <1>4, <2>2, <3>1, <3>2, <4>3, <4>4
    <3>. QED BY <3>3, <3>4
  <2>. QED BY <2>3, <2>4, <2>5
<1>9. ASSUME NEW a \in Aliases, SetAlias(a) PROVE AccountInv'
  <2>1. /\ status = "connected" /\ own' = [own EXCEPT !.alias = a] /\ pre' = pre
        /\ Updates([entry EXCEPT !.alias = a]) /\ wanted' = [wanted EXCEPT !.alias = a]
    BY <1>9 DEF SetAlias
  <2>2. own' \in OwnType /\ own'.state = own.state /\ own'.caps = own.caps
    BY <1>4, <2>1 DEF OwnType
  <2>3. wanted' \in Shape /\ wanted'.caps = wanted.caps
    BY <1>4, <2>1 DEF Shape
  <2>. QED BY <1>5, <1>6, <2>1, <2>2, <2>3
<1>10. ASSUME status = "connected", NEW t \in Pictures \cup {NoPicture}, own' = [own EXCEPT !.token = t],
              Updates(RemoveAvatar(entry)), wanted' = RemoveAvatar(wanted), pre' = pre
       PROVE  AccountInv'
  <2>1. own' \in OwnType /\ own'.state = own.state /\ own'.caps = own.caps
    BY <1>4, <1>10 DEF OwnType
  <2>2. wanted' \in Shape /\ wanted'.caps = wanted.caps
    BY <1>4, <1>10 DEF Shape, RemoveAvatar
  <2>. QED BY <1>5, <1>6, <1>10, <2>1, <2>2
<1>11. ASSUME NEW q \in Pictures, SetAvatar(q) PROVE AccountInv'
  <2>1. status = "connected" /\ pre' = pre
    BY <1>11 DEF SetAvatar
  <2>2. CASE /\ own' = [own EXCEPT !.token = q]
             /\ entry' = PublishToken(PublishPicture(entry, q), q)
             /\ published' = entry' /\ unsent' = FALSE
             /\ wanted' = [wanted EXCEPT !.token = q, !.picture = q]
    <3>1. own' \in OwnType /\ own'.state = own.state /\ own'.caps = own.caps
      BY <1>4, <2>2 DEF OwnType
    <3>2. wanted' \in Shape /\ wanted'.caps = wanted.caps
      BY <1>4, <2>2 DEF Shape
    <3>3. PublishToken(PublishPicture(wanted, q), q) = [wanted EXCEPT !.token = q, !.picture = q]
      BY <1>4 DEF Shape, PublishToken, PublishPicture
    <3>4. entry' = wanted' /\ NetworkFits'
      BY <1>5, <2>1, <2>2, <3>3 DEF NetworkFits
    <3>5. RecordFits'
      BY <1>1, <1>5, <2>1, <3>1, <3>2, <3>4 DEF RecordFits
    <3>. QED BY <1>2, <1>3, <1>4, <2>1, <2>2, <3>1, <3>2, <3>4, <3>5
  <2>3. CASE /\ \E there \in BOOLEAN : own' = [own EXCEPT !.token = IF there THEN q ELSE NoPicture]
             /\ Updates(RemoveAvatar(entry)) /\ wanted' = RemoveAvatar(wanted)
    <3>1. PICK t \in Pictures \cup {NoPicture} : own' = [own EXCEPT !.token = t]
      BY <2>3
    <3>. QED BY <1>10, <2>1, <2>3, <3>1
  <2>. QED BY <1>11, <2>2, <2>3 DEF SetAvatar
<1>12. CASE ClearAvatar
  BY <1>10, <1>12 DEF ClearAvatar
<1>. QED BY <1>7, <1>8, <1>9, <1>11, <1>12

\* The sidecars.
LEMMA SidecarsKeep ==
    ASSUME AccountInv,
           \/ \E r \in Ensures, i \in Interfaces : EnsureSidecar(r, i)
           \/ \E i \in Interfaces : SidecarCreated(i)
    PROVE  AccountInv'
<1>. USE DEF AccountInv
<1>0. AccountType /\ UNCHANGED <<status, client, ownVars, downVars>>
  BY DEF EnsureSidecar, SidecarCreated, SidecarStill
<1>1. RecordFits' /\ DownOnce'
  BY <1>0 DEF RecordFits, NotYet, NetworkFits, DownOnce, Up, ownVars, downVars
<1>2. ASSUME sidecars' \subseteq Interfaces, loading' \subseteq Interfaces,
             pending' \in [Interfaces -> SUBSET Ensures], replies' \in [Ensures -> Nat]
      PROVE  AccountType'
  BY <1>0, <1>2 DEF AccountType, ownVars, downVars
<1>3. /\ sidecars \subseteq Interfaces /\ loading \subseteq Interfaces
      /\ pending \in [Interfaces -> SUBSET Ensures] /\ replies \in [Ensures -> Nat]
  BY <1>0 DEF AccountType
<1>4. ASSUME NEW r \in Ensures, NEW i \in Interfaces, EnsureSidecar(r, i) PROVE AccountInv'
  <2>1. replies[r] = 0 /\ (\A j \in Interfaces : r \notin pending[j]) /\ sidecars' = sidecars
    BY <1>4 DEF EnsureSidecar, Waits
  <2>2. CASE status = "disconnected" \/ i \in sidecars
    <3>1. UNCHANGED <<pending, loading>>
          /\ replies' = [x \in Ensures |-> IF x \in {r} THEN replies[x] + 1 ELSE replies[x]]
      BY <1>4, <2>2 DEF EnsureSidecar, Reply
    <3>2. replies' \in [Ensures -> Nat] /\ \A x \in Ensures : replies'[x] <= 1
      BY <1>3, <2>1, <3>1 DEF SidecarsWait
    <3>3. \A j \in Interfaces : \A x \in pending[j] : replies'[x] = 0
      BY <1>3, <2>1, <3>1 DEF SidecarsWait
    <3>4. SidecarsWait'
      BY <3>1, <3>2, <3>3 DEF SidecarsWait
    <3>. QED BY <1>1, <1>2, <1>3, <2>1, <3>1, <3>2, <3>4
  <2>3. CASE ~(status = "disconnected" \/ i \in sidecars)
    <3>1. /\ pending' = [pending EXCEPT ![i] = @ \cup {r}] /\ UNCHANGED replies
          /\ loading' = IF MustLoad(i) THEN loading \cup {i} ELSE loading
      BY <1>4, <2>3 DEF EnsureSidecar
    <3>2. loading' \subseteq Interfaces /\ pending' \in [Interfaces -> SUBSET Ensures]
      BY <1>3, <3>1
    <3>3. \A j \in Interfaces : pending'[j] = IF j = i THEN pending[j] \cup {r} ELSE pending[j]
      BY <1>3, <3>1
    <3>4. SidecarsWait'
      BY <1>3, <2>1, <3>1, <3>2, <3>3 DEF SidecarsWait
    <3>. QED BY <1>1, <1>2, <1>3, <2>1, <3>1, <3>2, <3>4
  <2>. QED BY <2>2, <2>3
<1>5. ASSUME NEW i \in Interfaces, SidecarCreated(i) PROVE AccountInv'
  <2>1. /\ loading' = loading \ {i}
        /\ IF pending[i] = {} THEN UNCHANGED <<sidecars, pending, replies>>
           ELSE /\ replies' = [x \in Ensures |-> IF x \in pending[i] THEN replies[x] + 1 ELSE replies[x]]
                /\ pending' = [pending EXCEPT ![i] = {}]
                /\ sidecars' \in {sidecars, sidecars \cup {i}}
    BY <1>5 DEF SidecarCreated, Jettisons, ClearQueue, Reply
  <2>2. CASE pending[i] = {}
    <3>1. SidecarsWait'
      BY <2>1, <2>2 DEF SidecarsWait
    <3>. QED BY <1>1, <1>2, <1>3, <2>1, <2>2, <3>1
  <2>3. CASE pending[i] # {}
    <3>1. \A x \in Ensures : /\ x \in pending[i] => replies[x] = 0 /\ replies'[x] = 1
                             /\ x \notin pending[i] => replies'[x] = replies[x]
      BY <1>3, <2>1, <2>3 DEF SidecarsWait
    <3>2. replies' \in [Ensures -> Nat] /\ \A x \in Ensures : replies'[x] <= 1
      <4>1. \A x \in Ensures : replies'[x] \in Nat /\ replies'[x] <= 1
        BY <1>3, <3>1 DEF SidecarsWait
      <4>. QED BY <2>1, <2>3, <4>1
    <3>3. /\ pending' \in [Interfaces -> SUBSET Ensures]
          /\ \A j \in Interfaces : pending'[j] = IF j = i THEN {} ELSE pending[j]
      BY <1>3, <2>1, <2>3
    <3>4. \A j \in Interfaces : \A x \in pending'[j] : j # i /\ x \in pending[j] /\ x \in Ensures /\ x \notin pending[i]
      BY <1>3, <3>3 DEF SidecarsWait
    <3>5. SidecarsWait'
      BY <3>1, <3>2, <3>4 DEF SidecarsWait
    <3>. QED BY <1>1, <1>2, <1>3, <2>1, <2>3, <3>2, <3>3, <3>5
  <2>. QED BY <2>2, <2>3
<1>. QED BY <1>4, <1>5

\* Every step of the account keeps its invariant.
LEMMA AccountKeeps == AccountInv /\ (AccountStep \/ UNCHANGED accountVars) => AccountInv'
<1>1. AccountInv /\ UNCHANGED accountVars => AccountInv'
  BY DEF AccountInv, AccountType, RecordFits, NotYet, NetworkFits, DownOnce, Up, SidecarsWait, accountVars, ownVars, downVars, sidecarVars
<1>. QED BY <1>1, DownKeeps, UpKeeps, OwnKeeps, SidecarsKeep DEF AccountStep

-----------------------------------------------------------------------------
(* The rooms *)

\* A room is on an open list once, since the list was opened, or twice, since it
\* was found; so that what its removal takes from a list is all there is.
RoomInv ==
    /\ lists \in [Lists -> {"none", "open", "closed"}]
    /\ entries \in [Lists -> [Rooms -> Nat]]
    /\ resolvers \in [Rooms -> SUBSET Links]
    /\ \A q \in Lists, r \in Rooms : Open(q) => entries[q][r] \in IF Shows(r) THEN {1, 2} ELSE {0}

\* What a step does to the lists and the resolvers.
RoomStep ==
    \/ UNCHANGED <<lists, entries, resolvers>>
    \/ \E r \in Rooms, l \in Links : RoomFound(r, l) \/ RoomRemoved(r, l)
    \/ \E q \in Lists : OpenList(q) \/ CloseList(q)
    \/ CloseRooms

\* No list is open at first.
LEMMA RoomsStart == Init => RoomInv
BY DEF Init, RoomsInit, RoomInv, Open, Shows

\* The invariant of the rooms is the property of their lists.
LEMMA ListsShow == RoomInv => ListsShowRooms
<1>. SUFFICES ASSUME RoomInv, NEW q \in Lists, NEW r \in Rooms, Open(q)
              PROVE  entries[q][r] > 0 <=> Shows(r)
  BY DEF ListsShowRooms
<1>. QED BY DEF RoomInv

\* Every step of the rooms keeps their invariant.
LEMMA RoomsKeep == RoomInv /\ RoomStep => RoomInv'
<1>. SUFFICES ASSUME RoomInv, RoomStep PROVE RoomInv'
  OBVIOUS
<1>0. /\ lists \in [Lists -> {"none", "open", "closed"}]
      /\ entries \in [Lists -> [Rooms -> Nat]] /\ resolvers \in [Rooms -> SUBSET Links]
  BY DEF RoomInv
<1>1. CASE UNCHANGED <<lists, entries, resolvers>>
  BY <1>1 DEF RoomInv, Open, Shows
<1>2. ASSUME NEW r \in Rooms, NEW l \in Links, RoomFound(r, l) PROVE RoomInv'
  <2>1. /\ resolvers' = [resolvers EXCEPT ![r] = @ \cup {l}] /\ lists' = lists
        /\ entries' = IF Shows(r) THEN entries
                      ELSE [q \in Lists |-> IF Open(q) THEN [entries[q] EXCEPT ![r] = @ + 2] ELSE entries[q]]
    BY <1>2 DEF RoomFound, AddRoom
  <2>2. resolvers' \in [Rooms -> SUBSET Links]
    BY <1>0, <2>1
  <2>3. \A s \in Rooms : resolvers'[s] # {} <=> (Shows(s) \/ s = r)
    BY <1>0, <2>1 DEF Shows
  <2>4. CASE Shows(r)
    BY <1>0, <2>1, <2>2, <2>3, <2>4 DEF RoomInv, Open, Shows
  <2>5. CASE ~Shows(r)
    <3>1. \A q \in Lists : /\ entries'[q] \in [Rooms -> Nat]
                           /\ Open(q) => \A s \in Rooms : entries'[q][s] = IF s = r THEN entries[q][s] + 2 ELSE entries[q][s]
      BY <1>0, <2>1, <2>5
    <3>2. entries' \in [Lists -> [Rooms -> Nat]]
      BY <2>1, <2>5, <3>1
    <3>3. \A q \in Lists : Open(q) => entries[q][r] = 0
      BY <2>5 DEF RoomInv
    <3>. QED BY <1>0, <2>1, <2>2, <2>3, <3>1, <3>2, <3>3 DEF RoomInv, Open, Shows
  <2>. QED BY <2>4, <2>5
<1>3. ASSUME NEW r \in Rooms, NEW l \in Links, RoomRemoved(r, l) PROVE RoomInv'
  <2>1. /\ resolvers' = [resolvers EXCEPT ![r] = @ \ {l}] /\ lists' = lists
        /\ entries' = IF resolvers[r] = {l}
                      THEN [q \in Lists |-> [entries[q] EXCEPT ![r] = RemoveTwice(@)]] ELSE entries
    BY <1>3 DEF RoomRemoved, RemoveRoom
  <2>2. resolvers' \in [Rooms -> SUBSET Links]
    BY <1>0, <2>1
  <2>3. \A s \in Rooms : resolvers'[s] = IF s = r THEN resolvers[s] \ {l} ELSE resolvers[s]
    BY <1>0, <2>1
  <2>4. CASE resolvers[r] = {l}
    <3>1. \A q \in Lists : \A s \in Rooms :
             entries'[q][s] = IF s = r THEN RemoveTwice(entries[q][s]) ELSE entries[q][s]
      BY <1>0, <2>1, <2>4
    <3>2. \A q \in Lists : entries'[q] \in [Rooms -> Nat]
      <4>1. \A q \in Lists : \A s \in Rooms : RemoveTwice(entries[q][s]) \in Nat
        BY <1>0 DEF RemoveTwice
      <4>. QED BY <1>0, <2>1, <2>4, <4>1
    <3>3. entries' \in [Lists -> [Rooms -> Nat]]
      BY <2>1, <2>4, <3>2
    <3>4. \A q \in Lists : Open(q) => entries'[q][r] = 0
      <4>1. \A q \in Lists : Open(q) => entries[q][r] \in {1, 2}
        BY <2>4 DEF RoomInv, Shows
      <4>. QED BY <3>1, <4>1 DEF RemoveTwice
    <3>5. ASSUME NEW q \in Lists, NEW s \in Rooms, Open(q)
          PROVE  entries'[q][s] \in IF resolvers'[s] # {} THEN {1, 2} ELSE {0}
      <4>1. CASE s = r
        <5>1. resolvers'[s] = {} /\ entries'[q][s] = 0
          BY <2>3, <2>4, <3>4, <3>5, <4>1
        <5>. QED BY <5>1
      <4>2. CASE s # r
        <5>1. resolvers'[s] = resolvers[s] /\ entries'[q][s] = entries[q][s]
          BY <2>3, <3>1, <4>2
        <5>2. entries[q][s] \in IF resolvers[s] # {} THEN {1, 2} ELSE {0}
          BY <3>5 DEF RoomInv, Shows
        <5>. QED BY <5>1, <5>2
      <4>. QED BY <4>1, <4>2
    <3>. QED BY <1>0, <2>1, <2>2, <3>3, <3>5 DEF RoomInv, Open, Shows
  <2>5. CASE resolvers[r] # {l}
    <3>1. \A s \in Rooms : resolvers'[s] # {} <=> Shows(s)
      BY <2>3, <2>5 DEF Shows
    <3>. QED BY <1>0, <2>1, <2>2, <2>5, <3>1 DEF RoomInv, Open, Shows
  <2>. QED BY <2>4, <2>5
<1>4. ASSUME NEW q \in Lists, OpenList(q) \/ CloseList(q) PROVE RoomInv'
  <2>1. /\ resolvers' = resolvers
        /\ \/ /\ lists' = [lists EXCEPT ![q] = "open"]
              /\ entries' = [entries EXCEPT ![q] = [r \in Rooms |-> IF Shows(r) THEN 1 ELSE 0]]
           \/ /\ lists' = [lists EXCEPT ![q] = "closed"]
              /\ entries' = [entries EXCEPT ![q] = [r \in Rooms |-> 0]]
    BY <1>4 DEF OpenList, CloseList, Closed
  <2>2. PICK e \in [Rooms -> Nat], st \in {"open", "closed"} :
          /\ lists' = [lists EXCEPT ![q] = st] /\ entries' = [entries EXCEPT ![q] = e]
          /\ st = "open" => \A r \in Rooms : e[r] = IF Shows(r) THEN 1 ELSE 0
    <3>1. /\ [r \in Rooms |-> IF Shows(r) THEN 1 ELSE 0] \in [Rooms -> Nat]
          /\ [r \in Rooms |-> 0] \in [Rooms -> Nat]
      OBVIOUS
    <3>. QED BY <2>1, <3>1
  <2>3. entries' \in [Lists -> [Rooms -> Nat]] /\ lists' \in [Lists -> {"none", "open", "closed"}]
    BY <1>0, <2>2
  <2>4. /\ lists'[q] = st /\ entries'[q] = e
        /\ \A o \in Lists : o # q => entries'[o] = entries[o] /\ lists'[o] = lists[o]
    BY <1>0, <2>2
  <2>. QED BY <1>0, <2>1, <2>2, <2>3, <2>4 DEF RoomInv, Open, Shows
<1>5. CASE CloseRooms
  <2>1. /\ lists' = [q \in Lists |-> IF Open(q) THEN "closed" ELSE lists[q]]
        /\ entries' = [q \in Lists |-> [r \in Rooms |-> 0]] /\ resolvers' = [r \in Rooms |-> {}]
    BY <1>5 DEF CloseRooms
  <2>2. /\ lists' \in [Lists -> {"none", "open", "closed"}]
        /\ \A q \in Lists : lists'[q] # "open"
    BY <1>0, <2>1 DEF Open
  <2>. QED BY <2>1, <2>2 DEF RoomInv, Open
<1>. QED BY <1>1, <1>2, <1>3, <1>4, <1>5 DEF RoomStep

-----------------------------------------------------------------------------
(* The contacts *)

Presences == {r.status : r \in Records} \cup {s.record.status : s \in Scenarios} \cup {"available", "offline"}
Tokens == {r.token : r \in Records} \cup {s.record.token : s \in Scenarios} \cup {NoToken}
ContactType ==
    [services : SUBSET Services, held : BOOLEAN, found : BOOLEAN, status : Presences,
     timer : BOOLEAN, caps : Uris \cup {Basic}, token : Tokens, wants : SUBSET Avatars,
     fetching : BOOLEAN, talk : SUBSET {"channel", "stream", "sends"}]
ContactsType ==
    /\ record \in [Peers -> Records \cup {s.record : s \in Scenarios}]
    /\ told \in [Peers -> Presences]
    /\ known \in [Uris -> Uris \cup {Basic}] /\ \A u \in Uris : known[u] \in {Basic, u}
    /\ answers \in [Avatars -> Nat] /\ \A q \in Avatars : answers[q] <= 1

\* Contacts that are found are seen somewhere, and those whose avatar is wanted
\* have one.
Sound(cs) ==
    /\ cs \in [Peers -> ContactType]
    /\ \A p \in Peers : cs[p].found => cs[p].services # {}
    /\ \A p \in Peers : cs[p].wants # {} => cs[p].token # NoToken

\* Who waits for an avatar, or gets the answer now, was not answered yet, and
\* waits for one.
Unanswered(cs, done) ==
    /\ \A q \in Avatars : q \in done => answers[q] = 0
    /\ \A p \in Peers : \A q \in Avatars : q \in cs[p].wants => answers[q] = 0 /\ q \notin done
    /\ \A p, o \in Peers : \A q \in Avatars : q \in cs[p].wants /\ q \in cs[o].wants => p = o

\* A contact that nobody has any more is a new one.
Forgotten == \A p \in Peers : ~Known(p) => contact[p] = Fresh

\* Clients were told what the contacts are.
Tells ==
    /\ listed \subseteq {p \in Peers : contact[p].found}
    /\ list # "closed" => \A p \in Peers :
          told[p] = IF contact[p].found THEN contact[p].status ELSE "offline"

ContactsInv == ContactsType /\ Sound(contact) /\ Unanswered(contact, {}) /\ Forgotten /\ Tells

\* A new contact is not found and nobody waits for its avatar.
LEMMA FreshFits == Fresh \in ContactType /\ ~Fresh.found /\ Fresh.wants = {} /\ Fresh.services = {}
BY DEF Fresh, ContactType, Presences, Tokens

\* What becomes of the contacts when the handlers are done with them.
LEMMA BecomeFits ==
    ASSUME ContactsType, NEW cs, NEW ws, NEW fs, NEW done,
           Sound(cs), Unanswered(cs, done), Become(cs, ws, fs, done)
    PROVE  /\ Sound(contact)' /\ Unanswered(contact, {})' /\ Forgotten'
           /\ answers' \in [Avatars -> Nat] /\ \A q \in Avatars : answers'[q] <= 1
           /\ \A p \in Peers : contact'[p].found = cs[p].found
           /\ \A p \in Peers : cs[p].found => contact'[p] = cs[p]
<1>. DEFINE dead == {p \in Peers : ~Alive(p, cs[p], ws, fs)}
            all == done \cup UNION {cs[p].wants : p \in dead}
<1>1. /\ contact' = [p \in Peers |-> IF p \in dead THEN Fresh ELSE cs[p]]
      /\ waiting' = ws /\ flights' = fs
      /\ answers' = [q \in Avatars |-> IF q \in all THEN answers[q] + 1 ELSE answers[q]]
  BY DEF Become
<1>2. \A p \in Peers : cs[p] \in ContactType
  BY DEF Sound
<1>3. \A p \in Peers : cs[p].services # {} => p \notin dead
  BY DEF Alive
<1>4. \A q \in Avatars : q \in all => answers[q] = 0
  BY DEF Unanswered
<1>5. \A p \in Peers : \A q \in Avatars : q \in cs[p].wants /\ p \notin dead => q \notin all
  BY DEF Unanswered
<1>6. \A p \in Peers : ~Alive(p, Fresh, ws, fs) \/ p \notin dead
  <2>. SUFFICES ASSUME NEW p \in Peers, Alive(p, Fresh, ws, fs) PROVE Alive(p, cs[p], ws, fs)
    OBVIOUS
  <2>1. \E u \in Uris : p \in Waiters(ws, u) \/ fs[p, u] > 0
    BY DEF Alive, Fresh
  <2>. QED BY <2>1 DEF Alive
<1>7. \A p \in Peers : p \notin dead => Alive(p, cs[p], ws, fs)
  OBVIOUS
<1>. HIDE DEF dead, all
<1>8. \A p \in Peers : contact'[p] = IF p \in dead THEN Fresh ELSE cs[p]
  BY <1>1
<1>9. contact' \in [Peers -> ContactType]
  BY <1>1, <1>2, FreshFits
<1>10. \A p \in Peers : contact'[p].found = cs[p].found /\ (cs[p].found => contact'[p] = cs[p])
  <2>. SUFFICES ASSUME NEW p \in Peers
                PROVE  contact'[p].found = cs[p].found /\ (cs[p].found => contact'[p] = cs[p])
    OBVIOUS
  <2>1. cs[p].found \in BOOLEAN /\ Fresh.found = FALSE
    BY <1>2 DEF ContactType, Fresh
  <2>2. p \in dead => ~cs[p].found
    BY <1>3 DEF Sound
  <2>3. CASE p \in dead
    BY <1>8, <2>1, <2>2, <2>3
  <2>4. CASE p \notin dead
    BY <1>8, <2>4
  <2>. QED BY <2>3, <2>4
<1>11. Sound(contact)'
  BY <1>8, <1>9, FreshFits DEF Sound
<1>12. \A q \in Avatars : /\ answers'[q] \in Nat /\ answers'[q] <= 1
                          /\ q \notin all => answers'[q] = answers[q]
  <2>1. answers \in [Avatars -> Nat] /\ \A q \in Avatars : answers[q] <= 1
    BY DEF ContactsType
  <2>. QED BY <1>1, <1>4, <2>1
<1>13. answers' \in [Avatars -> Nat]
  BY <1>1, <1>12
<1>14. \A p \in Peers : \A q \in Avatars :
          q \in contact'[p].wants => q \in cs[p].wants /\ p \notin dead
  BY <1>8, FreshFits
<1>15. Unanswered(contact, {})'
  <2>1. \A p \in Peers : \A q \in Avatars : q \in contact'[p].wants => answers'[q] = 0
    BY <1>5, <1>12, <1>14 DEF Unanswered
  <2>2. \A p, o \in Peers : \A q \in Avatars : q \in contact'[p].wants /\ q \in contact'[o].wants => p = o
    BY <1>14 DEF Unanswered
  <2>. QED BY <2>1, <2>2 DEF Unanswered
<1>16. Forgotten'
  BY <1>1, <1>6, <1>7, <1>8 DEF Forgotten, Known
<1>. QED BY <1>10, <1>11, <1>12, <1>13, <1>15, <1>16

\* One contact that changes.
LEMMA WithFits ==
    ASSUME ContactsInv, NEW p \in Peers, NEW c \in ContactType, NEW done,
           c.found => c.services # {}, c.wants # {} => c.token # NoToken,
           \A q \in Avatars : q \in c.wants => q \notin done,
           \A q \in Avatars : q \in c.wants \/ q \in done =>
              answers[q] = 0 /\ \A o \in Peers : q \in contact[o].wants => o = p
    PROVE  Sound(With(p, c)) /\ Unanswered(With(p, c), done)
<1>1. contact \in [Peers -> ContactType]
  BY DEF ContactsInv, Sound
<1>2. With(p, c) \in [Peers -> ContactType] /\ \A o \in Peers : With(p, c)[o] = IF o = p THEN c ELSE contact[o]
  BY <1>1 DEF With
<1>3. Sound(With(p, c))
  BY <1>2 DEF ContactsInv, Sound
<1>4. Unanswered(contact, {})
  BY DEF ContactsInv
<1>5. Unanswered(With(p, c), done)
  BY <1>2, <1>4 DEF Unanswered
<1>. QED BY <1>3, <1>5

\* Steps that tell nobody anything.
LEMMA QuietKeeps ==
    ASSUME ContactsInv, NEW cs, NEW ws, NEW fs, NEW done,
           Sound(cs), Unanswered(cs, done), Become(cs, ws, fs, done),
           \A p \in Peers : cs[p].found = contact[p].found,
           \A p \in Peers : cs[p].found => cs[p].status = contact[p].status,
           record' \in [Peers -> Records \cup {s.record : s \in Scenarios}],
           known' \in [Uris -> Uris \cup {Basic}], \A u \in Uris : known'[u] \in {Basic, u},
           UNCHANGED <<list, listed, told>>
    PROVE  ContactsInv'
<1>1. ContactsType /\ Tells
  BY DEF ContactsInv
<1>2. /\ Sound(contact)' /\ Unanswered(contact, {})' /\ Forgotten'
      /\ answers' \in [Avatars -> Nat] /\ \A q \in Avatars : answers'[q] <= 1
      /\ \A p \in Peers : contact'[p].found = cs[p].found
      /\ \A p \in Peers : cs[p].found => contact'[p] = cs[p]
  BY <1>1, BecomeFits
<1>3. ContactsType'
  BY <1>1, <1>2 DEF ContactsType
<1>4. \A p \in Peers : /\ contact'[p].found = contact[p].found
                       /\ contact[p].found => contact'[p].status = contact[p].status
  BY <1>2
<1>5. Tells'
  BY <1>1, <1>4 DEF Tells
<1>. QED BY <1>2, <1>3, <1>5 DEF ContactsInv

\* Steps that change one contact without telling anybody.
LEMMA ReplaceKeeps ==
    ASSUME ContactsInv, NEW p \in Peers, NEW c \in ContactType, NEW done,
           c.found = contact[p].found, c.found => c.status = contact[p].status,
           c.found => c.services # {}, c.wants # {} => c.token # NoToken,
           \A q \in Avatars : q \in c.wants => q \notin done,
           \A q \in Avatars : q \in c.wants \/ q \in done =>
              answers[q] = 0 /\ \A o \in Peers : q \in contact[o].wants => o = p,
           Replace(p, c, done),
           UNCHANGED <<record, known, list, listed, told>>
    PROVE  ContactsInv'
<1>1. Sound(With(p, c)) /\ Unanswered(With(p, c), done)
  BY WithFits
<1>2. Become(With(p, c), waiting, flights, done)
  BY DEF Replace
<1>3. \A o \in Peers : With(p, c)[o] = IF o = p THEN c ELSE contact[o]
  BY DEF With, ContactsInv, Sound
<1>4. record' \in [Peers -> Records \cup {s.record : s \in Scenarios}] /\ known' \in [Uris -> Uris \cup {Basic}]
      /\ \A u \in Uris : known'[u] \in {Basic, u}
  BY DEF ContactsInv, ContactsType
<1>5. (\A o \in Peers : With(p, c)[o].found = contact[o].found)
      /\ \A o \in Peers : With(p, c)[o].found => With(p, c)[o].status = contact[o].status
  BY <1>3
<1>. QED BY <1>1, <1>2, <1>4, <1>5, QuietKeeps

\* What is known of a contact.
LEMMA ContactFacts ==
    ASSUME ContactsInv, NEW p \in Peers
    PROVE  /\ contact[p] \in ContactType
           /\ contact[p].found => contact[p].services # {}
           /\ contact[p].wants # {} => contact[p].token # NoToken
           /\ \A q \in Avatars : q \in contact[p].wants =>
                 answers[q] = 0 /\ \A o \in Peers : q \in contact[o].wants => o = p
BY DEF ContactsInv, Sound, Unanswered

\* What a step does to the contacts.
ContactsStill == UNCHANGED <<record, list, listed, contact, told, known, waiting, flights, answers>>
TalkStep == \E p, t :
    /\ p \in Peers => t \subseteq {"channel", "stream", "sends"}
    /\ Talk(p, t) /\ UNCHANGED <<record, list, listed, told, known>>
LearnStep == \E us : Learn(us) /\ ContactsIdle
NetworkStep ==
    \/ \E p \in Peers : Publish(p) \/ ResolverTimeout(p)
    \/ \E p \in Peers, s \in Services :
          BrowserFound(p, s) \/ BrowserRemoved(p, s) \/ Resolved(p, s) \/ ResolverFails(p, s)
UserStep ==
    \/ \E p \in Peers : Hold(p) \/ Release(p) \/ AvatarArrives(p)
    \/ \E p \in Peers, q \in Avatars : RequestAvatar(p, q)
DiscoStep == \E p \in Peers, u \in Uris :
    DiscoError(p, u) \/ DiscoSilence(p, u) \/ DiscoAnswer(p, u) \/ DiscoForged(p, u)
ContactsStep ==
    \/ ContactsStill \/ TalkStep \/ LearnStep \/ NetworkStep \/ UserStep \/ DiscoStep
    \/ AllForNow \/ DisposeCache
    \/ StartContacts /\ UNCHANGED known
    \/ CloseContacts /\ UNCHANGED known

\* There are no contacts at first.
LEMMA ContactsStart == Init => ContactsInv
<1>. SUFFICES ASSUME Init PROVE ContactsInv
  OBVIOUS
<1>1. /\ contact = [p \in Peers |-> Fresh] /\ told = [p \in Peers |-> "offline"]
      /\ known = [u \in Uris |-> Basic] /\ answers = [q \in Avatars |-> 0] /\ listed = {}
      /\ scenario \in Scenarios /\ record = [p \in Peers |-> scenario.record]
  BY DEF Init, ContactsInit
<1>2. ContactsType
  BY <1>1 DEF ContactsType, Presences
<1>3. Sound(contact) /\ Unanswered(contact, {}) /\ Forgotten /\ Tells
  BY <1>1, FreshFits DEF Sound, Unanswered, Forgotten, Tells
<1>. QED BY <1>2, <1>3 DEF ContactsInv

\* Steps that leave the contacts and what was told of them alone.
LEMMA StillKeeps ==
    ASSUME ContactsInv, UNCHANGED <<contact, waiting, flights, answers, told, listed>>,
           record' \in [Peers -> Records \cup {s.record : s \in Scenarios}],
           known' \in [Uris -> Uris \cup {Basic}], \A u \in Uris : known'[u] \in {Basic, u},
           list' = "closed" \/ list # "closed" \/ list' = list
    PROVE  ContactsInv'
<1>1. ContactsType' /\ Tells'
  BY DEF ContactsInv, ContactsType, Tells
<1>2. Sound(contact)' /\ Unanswered(contact, {})' /\ Forgotten'
  BY DEF ContactsInv, Sound, Unanswered, Forgotten, Known, Alive, Waiters
<1>. QED BY <1>1, <1>2 DEF ContactsInv

\* Chats change what a contact is needed for and nothing else.
LEMMA TalkKeeps == ContactsInv /\ TalkStep => ContactsInv'
<1>. SUFFICES ASSUME ContactsInv, NEW p, NEW t, p \in Peers => t \subseteq {"channel", "stream", "sends"},
                     Talk(p, t), UNCHANGED <<record, list, listed, told, known>>
              PROVE  ContactsInv'
  BY DEF TalkStep
<1>. DEFINE c == [contact[p] EXCEPT !.talk = t]
<1>1. Replace(p, c, {})
  BY DEF Talk
<1>2. CASE p \in Peers
  <2>1. c \in ContactType
    BY <1>2, ContactFacts DEF ContactType
  <2>2. /\ c.found = contact[p].found /\ c.status = contact[p].status /\ c.services = contact[p].services
        /\ c.wants = contact[p].wants /\ c.token = contact[p].token
    BY <1>2, ContactFacts DEF ContactType
  <2>. HIDE DEF c
  <2>. QED BY <1>1, <1>2, <2>1, <2>2, ContactFacts, ReplaceKeeps
<1>3. CASE p \notin Peers
  <2>1. Sound(contact) /\ Unanswered(contact, {}) /\ ContactsType
    BY DEF ContactsInv
  <2>2. With(p, c) = contact
    BY <1>3, <2>1 DEF With, Sound
  <2>. HIDE DEF c
  <2>3. Become(contact, waiting, flights, {})
    BY <1>1, <2>2 DEF Replace
  <2>. QED BY <2>1, <2>3, QuietKeeps DEF ContactsType
<1>. QED BY <1>2, <1>3

\* Users hold contacts and ask for avatars, which come or do not.
LEMMA UserKeeps == ContactsInv /\ UserStep => ContactsInv'
<1>. SUFFICES ASSUME ContactsInv, UserStep PROVE ContactsInv'
  OBVIOUS
<1>1. UNCHANGED <<record, known, list, listed, told>>
  BY Zenon DEF UserStep, Hold, Release, AvatarArrives, RequestAvatar, UserStill
<1>2. ASSUME NEW p \in Peers, Hold(p) \/ Release(p) PROVE ContactsInv'
  <2>1. PICK b \in BOOLEAN : Replace(p, [contact[p] EXCEPT !.held = b], {})
    BY <1>2 DEF Hold, Release
  <2>. DEFINE c == [contact[p] EXCEPT !.held = b]
  <2>2. c \in ContactType
    BY ContactFacts DEF ContactType
  <2>3. /\ c.found = contact[p].found /\ c.status = contact[p].status /\ c.services = contact[p].services
        /\ c.wants = contact[p].wants /\ c.token = contact[p].token
    BY ContactFacts DEF ContactType
  <2>. HIDE DEF c
  <2>4. Replace(p, c, {})
    BY <2>1 DEF c
  <2>. QED BY <1>1, <2>2, <2>3, <2>4, ContactFacts, ReplaceKeeps
<1>3. ASSUME NEW p \in Peers, AvatarArrives(p) PROVE ContactsInv'
  <2>. DEFINE c == [contact[p] EXCEPT !.wants = {}, !.fetching = FALSE]
  <2>1. Replace(p, c, contact[p].wants)
    BY <1>3 DEF AvatarArrives
  <2>2. c \in ContactType
    <3>1. [contact[p] EXCEPT !.wants = {}] \in ContactType
      BY ContactFacts DEF ContactType
    <3>. QED BY <3>1 DEF ContactType
  <2>3. /\ c.found = contact[p].found /\ c.status = contact[p].status /\ c.services = contact[p].services
        /\ c.wants = {} /\ c.token = contact[p].token
    BY ContactFacts DEF ContactType
  <2>. HIDE DEF c
  <2>. QED BY <1>1, <2>1, <2>2, <2>3, ContactFacts, ReplaceKeeps
<1>4. ASSUME NEW p \in Peers, NEW q \in Avatars, RequestAvatar(p, q) PROVE ContactsInv'
  <2>1. answers[q] = 0 /\ \A o \in Peers : q \notin contact[o].wants
    BY <1>4 DEF RequestAvatar, Unasked
  <2>2. CASE contact[p].token = NoToken
    <3>1. Replace(p, contact[p], {q})
      BY <1>4, <2>2 DEF RequestAvatar
    <3>2. contact[p].wants = {}
      BY <2>2, ContactFacts
    <3>. QED BY <1>1, <2>1, <3>1, <3>2, ContactFacts, ReplaceKeeps
  <2>3. CASE contact[p].token # NoToken
    <3>. DEFINE d == [contact[p] EXCEPT !.wants = @ \cup {q}]
                c == [d EXCEPT !.fetching = TRUE]
    <3>1. d \in ContactType /\ d.token = contact[p].token
      BY ContactFacts DEF ContactType
    <3>2. Replace(p, c, {})
      <4>1. Retrieve(d) = c
        BY <2>3, <3>1 DEF Retrieve
      <4>. HIDE DEF c
      <4>. QED BY <1>4, <2>3, <4>1 DEF RequestAvatar
    <3>3. c \in ContactType
      BY <3>1 DEF ContactType
    <3>4. /\ c.found = contact[p].found /\ c.status = contact[p].status /\ c.services = contact[p].services
          /\ c.wants = contact[p].wants \cup {q} /\ c.token = contact[p].token
      BY ContactFacts DEF ContactType
    <3>. HIDE DEF c, d
    <3>5. \A x \in Avatars : x \in c.wants =>
             answers[x] = 0 /\ \A o \in Peers : x \in contact[o].wants => o = p
      BY <2>1, <3>4, ContactFacts
    <3>. QED BY <1>1, <2>3, <3>2, <3>3, <3>4, <3>5, ContactFacts, ReplaceKeeps
  <2>. QED BY <2>2, <2>3
<1>. QED BY <1>2, <1>3, <1>4 DEF UserStep

\* Answers to requests for capabilities, true, forged or missing.
LEMMA DiscoKeeps == ContactsInv /\ DiscoStep => ContactsInv'
<1>. SUFFICES ASSUME ContactsInv, NEW p \in Peers, NEW u \in Uris,
                     DiscoError(p, u) \/ DiscoSilence(p, u) \/ DiscoAnswer(p, u) \/ DiscoForged(p, u)
              PROVE  ContactsInv'
  BY DEF DiscoStep
<1>1. UNCHANGED <<record, list, listed, told>>
  BY Zenon DEF DiscoError, DiscoSilence, DiscoAnswer, DiscoForged, DiscoStill, NetworkStill
<1>2. record' \in [Peers -> Records \cup {s.record : s \in Scenarios}]
  BY <1>1 DEF ContactsInv, ContactsType
<1>3. Sound(contact) /\ Unanswered(contact, {})
  BY DEF ContactsInv
<1>4. known' = known => known' \in [Uris -> Uris \cup {Basic}] /\ \A x \in Uris : known'[x] \in {Basic, x}
  BY DEF ContactsInv, ContactsType
<1>5. CASE DiscoSilence(p, u)
  <2>1. UNCHANGED <<contact, known, waiting, flights, answers>>
    BY <1>5 DEF DiscoSilence
  <2>. QED BY <1>1, <1>2, <1>4, <2>1, StillKeeps
<1>6. ASSUME NEW ws, NEW fs, Become(contact, ws, fs, {}), UNCHANGED known PROVE ContactsInv'
  BY <1>1, <1>2, <1>3, <1>4, <1>6, QuietKeeps
<1>7. CASE DiscoError(p, u) \/ DiscoForged(p, u)
  <2>1. \E ws, fs : Become(contact, ws, fs, {}) /\ UNCHANGED known
    BY <1>7 DEF DiscoError, DiscoForged, ServeNobody
  <2>. QED BY <1>6, <2>1
<1>8. CASE DiscoAnswer(p, u)
  <2>. DEFINE cs == [q \in Peers |-> IF q \in Waiters(waiting, u) THEN [contact[q] EXCEPT !.caps = u]
                                      ELSE contact[q]]
  <2>1. CASE p \in Waiters(waiting, u)
    <3>1. /\ known' = [known EXCEPT ![u] = u]
          /\ Become(cs, [waiting EXCEPT ![u] = <<>>], Landed(p, u), {})
      BY <1>8, <2>1 DEF DiscoAnswer
    <3>2. \A q \in Peers : /\ cs[q] \in ContactType /\ cs[q].found = contact[q].found /\ cs[q].status = contact[q].status
                           /\ cs[q].services = contact[q].services /\ cs[q].wants = contact[q].wants
                           /\ cs[q].token = contact[q].token
      <4>. SUFFICES ASSUME NEW q \in Peers
                    PROVE  /\ cs[q] \in ContactType /\ cs[q].found = contact[q].found /\ cs[q].status = contact[q].status
                           /\ cs[q].services = contact[q].services /\ cs[q].wants = contact[q].wants
                           /\ cs[q].token = contact[q].token
        OBVIOUS
      <4>1. cs[q] \in {contact[q], [contact[q] EXCEPT !.caps = u]}
        OBVIOUS
      <4>. HIDE DEF cs
      <4>. QED BY <4>1, ContactFacts DEF ContactType
    <3>3. Sound(cs) /\ Unanswered(cs, {})
      <4>1. cs \in [Peers -> ContactType]
        BY <3>2
      <4>. HIDE DEF cs
      <4>2. Sound(cs)
        BY <1>3, <3>2, <4>1 DEF Sound
      <4>3. Unanswered(cs, {})
        BY <1>3, <3>2 DEF Unanswered
      <4>. QED BY <4>2, <4>3
    <3>4. known' \in [Uris -> Uris \cup {Basic}] /\ \A x \in Uris : known'[x] \in {Basic, x}
      BY <3>1 DEF ContactsInv, ContactsType
    <3>. HIDE DEF cs
    <3>. QED BY <1>1, <1>2, <3>1, <3>2, <3>3, <3>4, QuietKeeps
  <2>2. CASE p \notin Waiters(waiting, u)
    <3>1. Become(contact, waiting, Landed(p, u), {}) /\ UNCHANGED known
      BY <1>8, <2>2 DEF DiscoAnswer
    <3>. QED BY <1>6, <3>1
  <2>. QED BY <2>1, <2>2
<1>. QED BY <1>5, <1>7, <1>8

\* A contact that is lost is told of if it was found.
LEMMA LoseKeeps ==
    ASSUME ContactsInv, NEW p \in Peers, NEW c \in ContactType, Lose(p, c),
           c.found = contact[p].found, c.wants = contact[p].wants, c.token = contact[p].token,
           UNCHANGED <<record, known, list>>
    PROVE  ContactsInv'
<1>. DEFINE d == [c EXCEPT !.status = "offline", !.found = FALSE]
<1>1. /\ Replace(p, d, {})
      /\ told' = IF c.found THEN [told EXCEPT ![p] = "offline"] ELSE told
      /\ listed' = IF c.found THEN listed \ {p} ELSE listed
  BY DEF Lose
<1>2. /\ d \in ContactType /\ d.found = FALSE /\ d.wants = c.wants /\ d.token = c.token
  <2>1. [c EXCEPT !.status = "offline"] \in ContactType
    BY DEF ContactType, Presences
  <2>. QED BY <2>1 DEF ContactType
<1>. HIDE DEF d
<1>3. ContactsType /\ Tells /\ contact \in [Peers -> ContactType]
  BY DEF ContactsInv, Sound
<1>4. Sound(With(p, d)) /\ Unanswered(With(p, d), {})
  BY <1>2, ContactFacts, WithFits
<1>5. Become(With(p, d), waiting, flights, {})
  BY <1>1 DEF Replace
<1>6. /\ Sound(contact)' /\ Unanswered(contact, {})' /\ Forgotten'
      /\ answers' \in [Avatars -> Nat] /\ \A q \in Avatars : answers'[q] <= 1
      /\ \A o \in Peers : contact'[o].found = With(p, d)[o].found
      /\ \A o \in Peers : With(p, d)[o].found => contact'[o] = With(p, d)[o]
  BY <1>3, <1>4, <1>5, BecomeFits
<1>7. \A o \in Peers : With(p, d)[o] = IF o = p THEN d ELSE contact[o]
  BY <1>3 DEF With
<1>8. told' \in [Peers -> Presences] /\ \A o \in Peers : o # p => told'[o] = told[o]
  BY <1>1, <1>3 DEF ContactsType, Presences
<1>9. ContactsType'
  BY <1>3, <1>6, <1>8 DEF ContactsType
<1>10. list # "closed" => told'[p] = "offline"
  <2>1. list # "closed" /\ ~c.found => told[p] = "offline"
    BY <1>3 DEF Tells
  <2>2. c.found => told'[p] = "offline"
    BY <1>1, <1>3 DEF ContactsType
  <2>. QED BY <1>1, <2>1, <2>2
<1>11. \A o \in Peers : o # p => /\ contact'[o].found = contact[o].found
                                 /\ contact[o].found => contact'[o] = contact[o]
  BY <1>6, <1>7
<1>12. contact'[p].found = FALSE
  BY <1>2, <1>6, <1>7
<1>13. listed' \subseteq listed /\ p \notin listed'
  BY <1>1, <1>3 DEF Tells
<1>14. Tells'
  BY <1>3, <1>8, <1>10, <1>11, <1>12, <1>13 DEF Tells
<1>. QED BY <1>6, <1>9, <1>14 DEF ContactsInv

\* What a resolver makes of a contact: nobody's request for the avatar is
\* lost, and none is left if there is no avatar.
LEMMA ResolvedGives ==
    ASSUME ContactsInv, NEW p \in Peers, NEW s \in Services, Resolved(p, s)
    PROVE  \E c \in ContactType :
              /\ c.found = TRUE /\ c.services # {} /\ c.wants \subseteq contact[p].wants
              /\ c.wants # {} => c.token # NoToken
              /\ told' = [told EXCEPT ![p] = c.status]
              /\ \E ws, fs : Become(With(p, c), ws, fs, contact[p].wants \ c.wants)
<1>. DEFINE r == record[p]
            f == [contact[p] EXCEPT !.timer = FALSE]
            t == ChangeToken(f, r.token)
            st == IF r.status = NoStatus THEN t.status ELSE r.status
            ca == IF FromCache(r.uri) THEN CapsOf(r.uri) ELSE t.caps
            c == [t EXCEPT !.found = TRUE, !.status = st, !.caps = ca]
            done == contact[p].wants \ c.wants
<1>1. /\ s \in contact[p].services
      /\ told' = [told EXCEPT ![p] = c.status] /\ listed' = listed \cup {p}
      /\ UNCHANGED <<record, list, known>>
  BY DEF Resolved, StopTimer
<1>2. PICK ws, fs : Become(With(p, c), ws, fs, done)
  <2>1. \/ Replace(p, c, done)
        \/ Become(With(p, c), Wait(p, r.uri),
                  IF MustAsk(waiting, r.uri) THEN Ask(flights, {p}, r.uri) ELSE flights, done)
    BY DEF Resolved, StopTimer
  <2>. QED BY <2>1 DEF Replace
<1>3. /\ record \in [Peers -> Records \cup {x.record : x \in Scenarios}]
      /\ r \in Records \cup {x.record : x \in Scenarios}
      /\ contact \in [Peers -> ContactType] /\ ContactsType /\ Tells
  BY DEF ContactsInv, ContactsType, Sound
<1>4. r.status \in Presences /\ r.token \in Tokens /\ r.uri \in Uris \cup {Basic}
  BY <1>3, ContactsAssumption, ClientAssumption DEF Presences, Tokens
<1>5. /\ f \in ContactType /\ f.services = contact[p].services /\ f.wants = contact[p].wants
      /\ f.token = contact[p].token
  BY ContactFacts DEF ContactType
<1>6. /\ t \in ContactType /\ t.services = f.services /\ t.wants \subseteq f.wants
      /\ t.wants # {} => t.token # NoToken
  <2>. DEFINE d == [f EXCEPT !.token = r.token]
              e == [d EXCEPT !.fetching = FALSE]
  <2>1. d \in ContactType /\ d.services = f.services /\ d.wants = f.wants /\ d.token = r.token
    BY <1>4, <1>5 DEF ContactType
  <2>2. e \in ContactType /\ e.services = f.services /\ e.wants = f.wants /\ e.token = r.token
    BY <2>1 DEF ContactType
  <2>. HIDE DEF f
  <2>3. t = IF r.token = f.token THEN f ELSE IF f.wants = {} THEN e ELSE Retrieve(e)
    BY DEF ChangeToken
  <2>. HIDE DEF d, e
  <2>4. CASE r.token = f.token
    BY <1>5, <2>3, <2>4, ContactFacts
  <2>5. CASE r.token # f.token /\ f.wants = {}
    BY <2>2, <2>3, <2>5
  <2>6. CASE r.token # f.token /\ f.wants # {}
    <3>1. t = IF e.token = NoToken THEN [e EXCEPT !.fetching = FALSE, !.wants = {}]
              ELSE [e EXCEPT !.fetching = TRUE]
      BY <2>3, <2>6 DEF Retrieve
    <3>2. CASE e.token = NoToken
      <4>1. [e EXCEPT !.fetching = FALSE] \in ContactType
        BY <2>2 DEF ContactType
      <4>2. t = [[e EXCEPT !.fetching = FALSE] EXCEPT !.wants = {}]
        BY <3>1, <3>2
      <4>3. t \in ContactType /\ t.wants = {} /\ t.services = e.services
        BY <2>2, <4>1, <4>2 DEF ContactType
      <4>. QED BY <2>2, <4>3
    <3>3. CASE e.token # NoToken
      <4>1. t \in ContactType /\ t.wants = e.wants /\ t.services = e.services /\ t.token = e.token
        BY <2>2, <3>1, <3>3 DEF ContactType
      <4>. QED BY <2>2, <3>3, <4>1
    <3>. QED BY <3>2, <3>3
  <2>. QED BY <2>4, <2>5, <2>6
<1>. HIDE DEF t
<1>7. st \in Presences
  BY <1>4, <1>6 DEF ContactType
<1>8. ca \in Uris \cup {Basic}
  BY <1>3, <1>4, <1>6 DEF ContactType, ContactsType, CapsOf, FromCache
<1>. HIDE DEF st, ca, r
<1>9. /\ c \in ContactType /\ c.found = TRUE /\ c.services = contact[p].services
      /\ c.wants \subseteq contact[p].wants /\ (c.wants # {} => c.token # NoToken)
  <2>. DEFINE d == [t EXCEPT !.found = TRUE]
              e == [d EXCEPT !.status = st]
  <2>1. d \in ContactType /\ d.found = TRUE /\ d.services = t.services /\ d.wants = t.wants /\ d.token = t.token
    BY <1>6 DEF ContactType
  <2>. HIDE DEF d
  <2>2. e \in ContactType /\ e.found = TRUE /\ e.services = t.services /\ e.wants = t.wants /\ e.token = t.token
    BY <1>7, <2>1 DEF ContactType
  <2>3. c = [e EXCEPT !.caps = ca]
    BY DEF d
  <2>. HIDE DEF e, c
  <2>4. c \in ContactType /\ c.found = TRUE /\ c.services = t.services /\ c.wants = t.wants /\ c.token = t.token
    BY <1>8, <2>2, <2>3 DEF ContactType
  <2>. QED BY <1>5, <1>6, <2>4
<1>. HIDE DEF c
<1>. QED BY <1>1, <1>2, <1>9

\* A contact that a resolver sees is told of and listed.
LEMMA ResolvedKeeps ==
    ASSUME ContactsInv, NEW p \in Peers, NEW s \in Services, Resolved(p, s)
    PROVE  ContactsInv'
<1>1. listed' = listed \cup {p} /\ UNCHANGED <<record, list, known>>
  BY DEF Resolved
<1>2. PICK c \in ContactType :
        /\ c.found = TRUE /\ c.services # {} /\ c.wants \subseteq contact[p].wants
        /\ c.wants # {} => c.token # NoToken
        /\ told' = [told EXCEPT ![p] = c.status]
        /\ \E ws, fs : Become(With(p, c), ws, fs, contact[p].wants \ c.wants)
  BY ResolvedGives
<1>3. PICK ws, fs : Become(With(p, c), ws, fs, contact[p].wants \ c.wants)
  BY <1>2
<1>4. contact \in [Peers -> ContactType] /\ ContactsType /\ Tells
  BY DEF ContactsInv, Sound
<1>5. Sound(With(p, c)) /\ Unanswered(With(p, c), contact[p].wants \ c.wants)
  BY <1>2, ContactFacts, WithFits
<1>6. /\ Sound(contact)' /\ Unanswered(contact, {})' /\ Forgotten'
      /\ answers' \in [Avatars -> Nat] /\ \A q \in Avatars : answers'[q] <= 1
      /\ \A o \in Peers : contact'[o].found = With(p, c)[o].found
      /\ \A o \in Peers : With(p, c)[o].found => contact'[o] = With(p, c)[o]
  BY <1>3, <1>4, <1>5, BecomeFits
<1>7. \A o \in Peers : With(p, c)[o] = IF o = p THEN c ELSE contact[o]
  BY <1>4 DEF With
<1>8. \A o \in Peers : o # p => /\ contact'[o].found = contact[o].found
                                /\ contact[o].found => contact'[o] = contact[o]
  BY <1>6, <1>7
<1>9. contact'[p] = c
  BY <1>2, <1>6, <1>7
<1>10. told' \in [Peers -> Presences] /\ \A o \in Peers : told'[o] = IF o = p THEN c.status ELSE told[o]
  BY <1>2, <1>4 DEF ContactsType, ContactType
<1>11. ContactsType'
  BY <1>1, <1>4, <1>6, <1>10 DEF ContactsType
<1>12. Tells'
  BY <1>1, <1>2, <1>4, <1>8, <1>9, <1>10 DEF Tells
<1>. QED BY <1>6, <1>11, <1>12 DEF ContactsInv

\* What the network does to the contacts.
LEMMA NetworkKeeps == ContactsInv /\ NetworkStep => ContactsInv'
<1>. SUFFICES ASSUME ContactsInv, NetworkStep PROVE ContactsInv'
  OBVIOUS
<1>1. ASSUME NEW p \in Peers, Publish(p) PROVE ContactsInv'
  <2>1. /\ UNCHANGED <<list, listed, contact, told, known, waiting, flights, answers>>
        /\ \E r \in Records : record' = [record EXCEPT ![p] = r]
    BY <1>1 DEF Publish
  <2>2. record' \in [Peers -> Records \cup {s.record : s \in Scenarios}]
    BY <2>1 DEF ContactsInv, ContactsType
  <2>. QED BY <2>1, <2>2, StillKeeps DEF ContactsInv, ContactsType
<1>2. ASSUME NEW p \in Peers, ResolverTimeout(p) PROVE ContactsInv'
  <2>. DEFINE c == [contact[p] EXCEPT !.timer = FALSE]
  <2>1. Lose(p, c) /\ UNCHANGED <<record, known, list>>
    BY <1>2 DEF ResolverTimeout, NetworkStill
  <2>2. /\ c \in ContactType /\ c.found = contact[p].found /\ c.wants = contact[p].wants
        /\ c.token = contact[p].token
    BY ContactFacts DEF ContactType
  <2>. HIDE DEF c
  <2>. QED BY <2>1, <2>2, LoseKeeps
<1>3. ASSUME NEW p \in Peers, NEW s \in Services, BrowserFound(p, s) PROVE ContactsInv'
  <2>. DEFINE c == [contact[p] EXCEPT !.services = @ \cup {s}]
  <2>1. Replace(p, c, {}) /\ UNCHANGED <<record, known, list, listed, told>>
    BY <1>3 DEF BrowserFound, NetworkStill
  <2>2. /\ c \in ContactType /\ c.found = contact[p].found /\ c.status = contact[p].status
        /\ c.services = contact[p].services \cup {s} /\ c.wants = contact[p].wants /\ c.token = contact[p].token
    BY ContactFacts DEF ContactType
  <2>. HIDE DEF c
  <2>. QED BY <2>1, <2>2, ContactFacts, ReplaceKeeps
<1>4. ASSUME NEW p \in Peers, NEW s \in Services, BrowserRemoved(p, s) PROVE ContactsInv'
  <2>. DEFINE c == [contact[p] EXCEPT !.services = @ \ {s}]
  <2>1. /\ IF c.services = {} THEN Lose(p, c) ELSE Replace(p, c, {}) /\ UNCHANGED <<told, listed>>
        /\ UNCHANGED <<record, known, list>>
    BY <1>4 DEF BrowserRemoved, NetworkStill, IsGone
  <2>2. /\ c \in ContactType /\ c.found = contact[p].found /\ c.status = contact[p].status
        /\ c.wants = contact[p].wants /\ c.token = contact[p].token
    BY ContactFacts DEF ContactType
  <2>. HIDE DEF c
  <2>3. CASE c.services = {}
    BY <2>1, <2>2, <2>3, LoseKeeps
  <2>4. CASE c.services # {}
    BY <2>1, <2>2, <2>4, ContactFacts, ReplaceKeeps
  <2>. QED BY <2>3, <2>4
<1>5. ASSUME NEW p \in Peers, NEW s \in Services, ResolverFails(p, s) PROVE ContactsInv'
  <2>. DEFINE c == [contact[p] EXCEPT !.timer = TRUE]
  <2>1. Replace(p, c, {}) /\ UNCHANGED <<record, known, list, listed, told>>
    BY <1>5 DEF ResolverFails
  <2>2. /\ c \in ContactType /\ c.found = contact[p].found /\ c.status = contact[p].status
        /\ c.services = contact[p].services /\ c.wants = contact[p].wants /\ c.token = contact[p].token
    BY ContactFacts DEF ContactType
  <2>. HIDE DEF c
  <2>. QED BY <2>1, <2>2, ContactFacts, ReplaceKeeps
<1>. QED BY <1>1, <1>2, <1>3, <1>4, <1>5, ResolvedKeeps DEF NetworkStep

\* Every step of the contacts keeps their invariant.
LEMMA ContactsKeep == ContactsInv /\ ContactsStep => ContactsInv'
<1>. SUFFICES ASSUME ContactsInv, ContactsStep PROVE ContactsInv'
  OBVIOUS
<1>1. /\ record \in [Peers -> Records \cup {s.record : s \in Scenarios}]
      /\ known \in [Uris -> Uris \cup {Basic}] /\ \A u \in Uris : known[u] \in {Basic, u}
      /\ contact \in [Peers -> ContactType] /\ ContactsType /\ Tells
      /\ Sound(contact) /\ Unanswered(contact, {})
  BY DEF ContactsInv, ContactsType, Sound
<1>2. CASE ContactsStill \/ (StartContacts /\ UNCHANGED known) \/ AllForNow
  <2>1. /\ UNCHANGED <<record, known, contact, waiting, flights, answers, told, listed>>
        /\ list # "closed" \/ list' = list
    BY <1>2 DEF ContactsStill, StartContacts, AllForNow, NetworkStill
  <2>. QED BY <1>1, <2>1, StillKeeps
<1>3. CASE LearnStep
  <2>1. PICK us : Learn(us) /\ ContactsIdle
    BY <1>3 DEF LearnStep
  <2>2. /\ UNCHANGED <<record, list, contact, waiting, flights, answers, told, listed>>
        /\ known' = [u \in Uris |-> IF u \in us THEN u ELSE known[u]]
    BY <2>1 DEF Learn, ContactsIdle, NetworkStill
  <2>3. known' \in [Uris -> Uris \cup {Basic}] /\ \A u \in Uris : known'[u] \in {Basic, u}
    BY <1>1, <2>2
  <2>. QED BY <1>1, <2>2, <2>3, StillKeeps
<1>4. CASE DisposeCache
  <2>1. /\ UNCHANGED <<record, known, list, listed, told>>
        /\ Become(contact, [u \in Uris |-> <<>>], DisposeDisco, {})
    BY <1>4 DEF DisposeCache, NetworkStill
  <2>. QED BY <1>1, <2>1, QuietKeeps
<1>5. CASE CloseContacts /\ UNCHANGED known
  <2>. DEFINE cs == [p \in Peers |-> DropResolvers(contact[p])]
  <2>1. /\ list' = "closed" /\ listed' = {} /\ UNCHANGED <<record, known, told>>
        /\ Become(cs, waiting, flights, {})
    BY <1>5 DEF CloseContacts, NetworkStill
  <2>2. \A p \in Peers : /\ cs[p] \in ContactType /\ cs[p].found = FALSE
                         /\ cs[p].wants = contact[p].wants /\ cs[p].token = contact[p].token
    <3>. SUFFICES ASSUME NEW p \in Peers
                  PROVE  /\ DropResolvers(contact[p]) \in ContactType /\ DropResolvers(contact[p]).found = FALSE
                         /\ DropResolvers(contact[p]).wants = contact[p].wants
                         /\ DropResolvers(contact[p]).token = contact[p].token
      OBVIOUS
    <3>. DEFINE a == [contact[p] EXCEPT !.services = {}]
                b == [a EXCEPT !.timer = FALSE]
                d == [b EXCEPT !.found = FALSE]
    <3>1. a \in ContactType /\ a.wants = contact[p].wants /\ a.token = contact[p].token
      BY ContactFacts DEF ContactType
    <3>2. DropResolvers(contact[p]) = [d EXCEPT !.talk = @ \cap {"sends"}]
      BY DEF DropResolvers
    <3>. HIDE DEF a
    <3>3. b \in ContactType /\ b.wants = a.wants /\ b.token = a.token
      BY <3>1 DEF ContactType
    <3>. HIDE DEF b
    <3>4. d \in ContactType /\ d.wants = b.wants /\ d.token = b.token /\ d.found = FALSE
      BY <3>3 DEF ContactType
    <3>. HIDE DEF d
    <3>. QED BY <3>1, <3>2, <3>3, <3>4 DEF ContactType
  <2>3. cs \in [Peers -> ContactType]
    BY <2>2
  <2>. HIDE DEF cs
  <2>4. Sound(cs) /\ Unanswered(cs, {})
    BY <1>1, <2>2, <2>3 DEF Sound, Unanswered
  <2>5. /\ Sound(contact)' /\ Unanswered(contact, {})' /\ Forgotten'
        /\ answers' \in [Avatars -> Nat] /\ \A q \in Avatars : answers'[q] <= 1
    BY <1>1, <2>1, <2>4, BecomeFits
  <2>6. ContactsType' /\ Tells'
    BY <1>1, <2>1, <2>5 DEF ContactsType, Tells
  <2>. QED BY <2>5, <2>6 DEF ContactsInv
<1>. QED BY <1>2, <1>3, <1>4, <1>5, TalkKeeps, UserKeeps, DiscoKeeps, NetworkKeeps DEF ContactsStep

-----------------------------------------------------------------------------
(* The client *)

IInv == AccountInv /\ RoomInv /\ ContactsInv

\* Every step is one of the account, of the contacts and of the rooms, or leaves
\* them alone.
LEMMA StepParts ==
    ASSUME ContactsInv, [Next]_vars
    PROVE  (AccountStep \/ UNCHANGED accountVars) /\ RoomStep /\ ContactsStep
<1>. USE DEF AccountStep, RoomStep, roomVars
<1>1. CASE UNCHANGED vars
  BY <1>1 DEF vars, contactVars, ContactsStep, ContactsStill
<1>2. ASSUME AccountStill, ContactsStep PROVE UNCHANGED accountVars /\ RoomStep
  BY <1>2 DEF AccountStill, TalkStill
<1>3. ASSUME RoomStill PROVE UNCHANGED accountVars /\ ContactsStep
  BY <1>3 DEF RoomStill, contactVars, ContactsStep, ContactsStill
<1>4. ASSUME Alone PROVE RoomStep /\ ContactsStep
  BY <1>4 DEF Alone, ContactsIdle, NetworkStill, ContactsStep, ContactsStill
<1>5. ASSUME LearnsOwn PROVE RoomStep /\ ContactsStep
  BY <1>5 DEF LearnsOwn, ContactsStep, LearnStep
<1>6. ASSUME Shuts PROVE RoomStep /\ ContactsStep
  BY <1>6 DEF Shuts, ContactsStep
<1>7. ASSUME NEW p \in Peers, PeerPublishes(p) \/ PeerDeparts(p) PROVE AccountStill /\ ContactsStep
  BY <1>7 DEF PeerPublishes, PeerDeparts, Depart, ContactsStep, NetworkStep, ContactsStill
<1>8. ASSUME NEW p \in Peers, NEW s \in Services,
             ServiceFound(p, s) \/ ServiceRemoved(p, s) \/ ServiceResolved(p, s) \/ ServiceFails(p, s)
      PROVE  AccountStill /\ ContactsStep
  BY <1>8 DEF ServiceFound, ServiceRemoved, ServiceResolved, ServiceFails, ContactsStep, NetworkStep
<1>9. ASSUME NEW p \in Peers, ServiceTimeout(p) \/ UserHolds(p) \/ UserReleases(p) \/ AvatarComes(p)
      PROVE  AccountStill /\ ContactsStep
  BY <1>9 DEF ServiceTimeout, UserHolds, UserReleases, AvatarComes, ContactsStep, NetworkStep, UserStep
<1>10. ASSUME NEW p \in Peers, NEW u \in Uris,
              CapsError(p, u) \/ CapsSilence(p, u) \/ CapsAnswer(p, u) \/ CapsForged(p, u)
       PROVE  AccountStill /\ ContactsStep
  BY <1>10 DEF CapsError, CapsSilence, CapsAnswer, CapsForged, ContactsStep, DiscoStep
<1>11. ASSUME NEW p \in Peers, NEW q \in Avatars, AvatarAsked(p, q) PROVE AccountStill /\ ContactsStep
  BY <1>11 DEF AvatarAsked, ContactsStep, UserStep
<1>12. ASSUME NEW p, NEW t, Talk(p, t), ChatStill, p \in Peers => t \subseteq {"channel", "stream", "sends"}
       PROVE  ContactsStep
  BY <1>12 DEF ChatStill, ContactsStep, TalkStep
<1>13. \A p \in Peers : contact[p].talk \subseteq {"channel", "stream", "sends"}
  BY ContactFacts DEF ContactType
<1>14. ASSUME TalkStill PROVE UNCHANGED accountVars /\ RoomStep
  BY <1>14 DEF TalkStill
<1>15. ASSUME NEW p \in Peers, ChatAsked(p) \/ ChatClosed(p) PROVE TalkStill /\ ContactsStep
  <2>1. /\ TalkStill /\ ChatStill
        /\ Talk(p, contact[p].talk \cup {"channel"}) \/ Talk(p, contact[p].talk \ {"channel"})
    BY <1>15 DEF ChatAsked, ChatClosed, RequestChat, CloseChat
  <2>. QED BY <1>12, <1>13, <2>1
<1>16. ASSUME NEW p \in Peers, LineArrives(p) PROVE TalkStill /\ ContactsStep
  <2>1. PICK l \in SUBSET {"stream"}, o \in SUBSET {"channel"} :
           TalkStill /\ ChatStill /\ Talk(p, (contact[p].talk \ l) \cup o)
    BY <1>16 DEF LineArrives, Arrives, Opens
  <2>. QED BY <1>12, <1>13, <2>1
<1>17. ASSUME NEW p \in Peers, NEW l \in Lines, LineSaid(p, l) PROVE TalkStill /\ ContactsStep
  <2>1. TalkStill /\ ChatStill /\ Talk(p, contact[p].talk \cup {"stream"})
    BY <1>17 DEF LineSaid, Says
  <2>. QED BY <1>12, <1>13, <2>1
<1>18. ASSUME NEW m, NEW p, NEW f, Fate(m, p, f) PROVE ContactsStep
  <2>1. PICK s \in SUBSET {"sends"} : ChatStill /\ Talk(p, (contact[p].talk \ {"sends"}) \cup s)
    BY <1>18 DEF Fate
  <2>. QED BY <1>12, <1>13, <2>1
<1>19. ASSUME NEW m \in Messages, MessageDelivered(m) \/ MessageFails(m) PROVE TalkStill /\ ContactsStep
  BY <1>18, <1>19 DEF MessageDelivered, MessageFails, Sent, SendFails
<1>20. ASSUME NEW m \in Messages, NEW p \in Peers, NEW l \in Lines, MessageSent(m, p, l)
       PROVE  TalkStill /\ ContactsStep
  BY <1>18, <1>20 DEF MessageSent, Send
<1>21. ASSUME NEW r \in Rooms, NEW a \in Announcers, RoomAnnounced(r, a) \/ RoomWithdrawn(r, a)
       PROVE  RoomStill /\ RoomStep
  BY <1>21 DEF RoomAnnounced, RoomWithdrawn, Announces, Withdraws
<1>22. ASSUME NEW r \in Rooms, NEW l \in Links, RoomAppears(r, l) \/ RoomDisappears(r, l)
       PROVE  RoomStill /\ RoomStep
  BY <1>22 DEF RoomAppears, RoomDisappears
<1>23. ASSUME NEW q \in Lists, ListAsked(q) \/ ListClosed(q) PROVE RoomStill /\ RoomStep
  BY <1>23 DEF ListAsked, ListClosed
<1>24. ASSUME NEW r \in Rooms, RoomAsked(r) \/ RoomEntered(r) \/ RoomLeft(r) PROVE RoomStill /\ RoomStep
  BY <1>24 DEF RoomAsked, RoomEntered, RoomLeft, JoinRoom, RoomJoined, LeaveRoom, ListsStill
<1>25. CASE ListReceived
  BY <1>25 DEF ListReceived, AccountStill, TalkStill, ContactsStep
<1>26. CASE OwnEstablished
  BY <1>26 DEF OwnEstablished, StartRooms, ContactsStep
<1>27. CASE OwnAnnounced
  BY <1>5, <1>27 DEF OwnAnnounced
<1>28. CASE ClientFailure \/ ManagersFailure \/ UserDisconnects
  BY <1>6, <1>28 DEF ClientFailure, ManagersFailure, UserDisconnects, ClientFails, ManagersFail, Disconnect
<1>29. CASE Connects \/ CloseTimeout \/ CloseDone \/ ForceDone \/ NoAvatar
  BY <1>4, <1>29 DEF Connects, CloseTimeout, CloseDone, ForceDone, NoAvatar
<1>30. CASE Dispose
  BY <1>30 DEF Dispose, ContactsStep
<1>31. ASSUME NEW s \in Statuses, OwnPresence(s) PROVE AccountStep /\ RoomStep /\ ContactsStep
  BY <1>4, <1>31 DEF OwnPresence
<1>32. ASSUME NEW c \in CapSets, OwnCaps(c) PROVE AccountStep /\ RoomStep /\ ContactsStep
  BY <1>5, <1>32 DEF OwnCaps
<1>33. ASSUME NEW a \in Aliases, OwnAlias(a) PROVE AccountStep /\ RoomStep /\ ContactsStep
  BY <1>4, <1>33 DEF OwnAlias
<1>34. ASSUME NEW q \in Pictures, OwnAvatar(q) PROVE AccountStep /\ RoomStep /\ ContactsStep
  BY <1>4, <1>34 DEF OwnAvatar
<1>35. ASSUME NEW r \in Ensures, NEW i \in Interfaces, SidecarAsked(r, i) PROVE AccountStep /\ RoomStep /\ ContactsStep
  BY <1>4, <1>35 DEF SidecarAsked
<1>36. ASSUME NEW i \in Interfaces, SidecarMade(i) PROVE AccountStep /\ RoomStep /\ ContactsStep
  BY <1>4, <1>36 DEF SidecarMade
<1>. HIDE DEF AccountStep, RoomStep, roomVars
<1>. QED BY Zenon, <1>1, <1>2, <1>3, <1>7, <1>8, <1>9, <1>10, <1>11, <1>14, <1>15, <1>16, <1>17, <1>19, <1>20, <1>21,
            <1>22, <1>23, <1>24, <1>25, <1>26, <1>27, <1>28, <1>29, <1>30, <1>31, <1>32, <1>33, <1>34,
            <1>35, <1>36 DEF Next

\* Account, contacts and rooms stay as their invariants say, whatever the
\* network, the users and the discovery service do.
THEOREM ClientHolds == Spec => []IInv
<1>1. Init => IInv
  BY AccountStarts, RoomsStart, ContactsStart DEF IInv
<1>2. IInv /\ [Next]_vars => IInv'
  <2>. SUFFICES ASSUME IInv, [Next]_vars PROVE IInv'
    OBVIOUS
  <2>1. (AccountStep \/ UNCHANGED accountVars) /\ RoomStep /\ ContactsStep
    BY StepParts DEF IInv
  <2>. QED BY <2>1, AccountKeeps, RoomsKeep, ContactsKeep DEF IInv
<1>. QED BY <1>1, <1>2, PTL DEF Spec

\* While an account is connected, whatever updates of its record failed and
\* whether anybody was told: once one gets to the network, what is there
\* (presence, capabilities, alias, token of the avatar) is all that was asked
\* for last, before the record was there or after; and the picture is in any
\* case (connection.c, self.c, avahi-self.c).
THEOREM PublishedStaysWanted == Spec => []PublishedIsWanted
<1>1. IInv => PublishedIsWanted
  BY DEF IInv, AccountInv, RecordFits, NetworkFits, PublishedIsWanted
<1>. QED BY <1>1, ClientHolds, PTL

\* No request for an avatar or a sidecar is answered twice, though changed
\* tokens, lost contacts and the end of the connection answer all that wait;
\* and the connection finishes its way down once (contact.c,
\* avahi-contact.c, connection.c).
THEOREM OneAnswerAtMost == Spec => []OneAnswerEach
<1>1. IInv => OneAnswerEach
  <2>. SUFFICES ASSUME IInv PROVE OneAnswerEach
    OBVIOUS
  <2>1. /\ \A q \in Avatars : answers[q] <= 1
        /\ \A r \in Ensures : replies[r] <= 1
        /\ finished <= 1
    BY DEF IInv, ContactsInv, ContactsType, AccountInv, SidecarsWait, DownOnce
  <2>. QED BY <2>1 DEF OneAnswerEach
<1>. QED BY <1>1, ClientHolds, PTL

\* Capabilities that do not hash to the uri they were asked for reach neither a
\* contact nor the cache, with any number of peers that forge them, wait for
\* them and go (presence-cache.c, disco.c).
THEOREM NothingForgedGetsIn == Spec => []NothingForged
<1>1. IInv => NothingForged
  <2>. SUFFICES ASSUME IInv PROVE NothingForged
    OBVIOUS
  <2>1. \A p \in Peers : contact[p].caps \in Uris \cup {Basic}
    BY ContactFacts DEF IInv, ContactType
  <2>2. Forged \notin Uris \cup {Basic}
    BY ContactsAssumption DEF Forged, Basic
  <2>3. \A p \in Peers : Forged \notin GetCaps(p)
    BY <2>1, <2>2 DEF GetCaps
  <2>. QED BY <2>3 DEF IInv, ContactsInv, ContactsType, NothingForged
<1>. QED BY <1>1, ClientHolds, PTL

\* The contact list and the lists of rooms show who and what some resolver
\* sees, with the presence that clients were told of; and an avatar that
\* somebody waits for is one that is known of (contact-manager.c, contact.c,
\* roomlist-manager.c).
THEOREM ListedStayThere == Spec => []ListedAreThere
<1>1. IInv => ListedAreThere
  <2>. SUFFICES ASSUME IInv PROVE ListedAreThere
    OBVIOUS
  <2>. USE DEF IInv, ContactsInv
  <2>1. \A p \in Peers : contact[p].found => contact[p].services # {} /\ Known(p)
    BY DEF Sound, Known, Alive
  <2>2. listed \subseteq {p \in Peers : contact[p].found /\ contact[p].services # {}}
    BY <2>1 DEF Tells
  <2>3. ASSUME list # "closed", NEW p \in Peers
        PROVE  told[p] = IF Known(p) /\ ~contact[p].found THEN "offline" ELSE GetStatus(p)
    <3>1. told[p] = IF contact[p].found THEN contact[p].status ELSE "offline"
      BY <2>3 DEF Tells
    <3>. QED BY <2>1, <3>1 DEF GetStatus
  <2>4. ASSUME NEW p \in Peers, contact[p].wants # {}
        PROVE  GetTokens(p) \notin {{}, {NoToken}}
    <3>1. Known(p) /\ contact[p].token # NoToken
      BY <2>4, FreshFits DEF Forgotten, Sound
    <3>2. GetTokens(p) = {contact[p].token}
      BY <3>1 DEF GetTokens
    <3>. QED BY <3>1, <3>2
  <2>5. ListsShowRooms
    BY ListsShow
  <2>. QED BY <2>2, <2>3, <2>4, <2>5 DEF ListedAreThere
<1>. QED BY <1>1, ClientHolds, PTL

-----------------------------------------------------------------------------
(* The chats *)

Before == OpToRel(<, Nat)

\* A set of naturals that is not empty has a least element.
LEMMA LeastOf == ASSUME NEW S \in SUBSET Nat, S # {} PROVE \E n \in S : \A m \in S : n <= m
<1>1. IsWellFoundedOn(Before, Nat)
  BY NatLessThanWellFounded DEF Before
<1>2. PICK n \in S : \A m \in S : ~ (<<m, n>> \in Before)
  <2>1. S \subseteq Nat
    OBVIOUS
  <2>. QED BY <1>1, <2>1, WFMin
<1>3. ASSUME NEW m \in S PROVE n <= m
  <2>1. Before = {ss \in Nat \X Nat : ss[1] < ss[2]}
    BY DEF Before, OpToRel
  <2>2. <<m, n>> \notin Before /\ <<m, n>> \in Nat \X Nat
    BY <1>2
  <2>. QED BY <2>1, <2>2
<1>. QED BY <1>3

\* The sequences q[1], q[1] \o q[2] and so on up to n, which FlattenSeq adds up.
Sums(q, n, f) == f = [i \in 1..n |-> IF i = 1 THEN q[i] ELSE f[i - 1] \o q[i]]

\* There are such sums for every sequence of sequences.
LEMMA SumsExist ==
    ASSUME NEW V, NEW q \in Seq(Seq(V)), NEW n \in 0..Len(q)
    PROVE  \E f \in [1..n -> Seq(V)] : Sums(q, n, f)
<1>. DEFINE Bad == {k \in 0..Len(q) : ~ \E f \in [1..k -> Seq(V)] : Sums(q, k, f)}
<1>1. SUFFICES ASSUME Bad # {} PROVE FALSE
  OBVIOUS
<1>2. Len(q) \in Nat /\ Bad \in SUBSET Nat
  OBVIOUS
<1>3. PICK k \in Bad : \A m \in Bad : k <= m
  <2>. HIDE DEF Bad
  <2>. QED BY <1>1, <1>2, LeastOf
<1>4. k \in 0..Len(q) /\ ~ \E f \in [1..k -> Seq(V)] : Sums(q, k, f)
  OBVIOUS
<1>5. k # 0
  <2>1. SUFFICES ASSUME k = 0 PROVE \E f \in [1..0 -> Seq(V)] : Sums(q, 0, f)
    BY <1>4
  <2>. DEFINE f == [i \in 1..0 |-> <<>>]
  <2>2. 1..0 = {}
    OBVIOUS
  <2>3. f \in [1..0 -> Seq(V)]
    BY <2>2
  <2>4. f = [i \in 1..0 |-> IF i = 1 THEN q[i] ELSE f[i - 1] \o q[i]]
    BY <2>2
  <2>. QED BY <2>3, <2>4 DEF Sums
<1>6. k - 1 \in 0..Len(q) /\ k \in 1..Len(q) /\ k - 1 \notin Bad
  <2>1. k - 1 \in 0..Len(q) /\ k \in 1..Len(q) /\ ~(k <= k - 1)
    BY <1>2, <1>4, <1>5
  <2>. HIDE DEF Bad
  <2>. QED BY <1>3, <2>1
<1>7. PICK f \in [1..(k - 1) -> Seq(V)] : Sums(q, k - 1, f)
  BY <1>6
<1>. DEFINE g == [i \in 1..k |-> IF i = k THEN IF k = 1 THEN q[k] ELSE f[k - 1] \o q[k] ELSE f[i]]
<1>8. q[k] \in Seq(V)
  BY <1>6
<1>9. \A i \in 1..(k - 1) : f[i] \in Seq(V) /\ f[i] = IF i = 1 THEN q[i] ELSE f[i - 1] \o q[i]
  <2>1. \A i \in 1..(k - 1) : f[i] \in Seq(V)
    BY <1>7
  <2>. QED BY <1>7, <2>1 DEF Sums
<1>10. g \in [1..k -> Seq(V)]
  <2>1. k # 1 => f[k - 1] \o q[k] \in Seq(V)
    <3>1. ASSUME k # 1 PROVE k - 1 \in 1..(k - 1)
      BY <1>6, <3>1
    <3>. QED BY <1>8, <1>9, <3>1
  <2>2. \A i \in 1..k : i # k => i \in 1..(k - 1)
    BY <1>6
  <2>. QED BY <1>8, <1>9, <2>1, <2>2
<1>11. ASSUME NEW i \in 1..k PROVE g[i] = IF i = 1 THEN q[i] ELSE g[i - 1] \o q[i]
  <2>1. CASE i = k
    <3>1. k # 1 => g[k - 1] = f[k - 1]
      BY <1>6
    <3>. QED BY <2>1, <3>1
  <2>2. CASE i # k
    <3>1. i \in 1..(k - 1) /\ g[i] = f[i]
      BY <1>6, <2>2
    <3>2. i # 1 => i - 1 \in 1..k /\ i - 1 # k
      BY <1>6, <2>2
    <3>3. i # 1 => g[i - 1] = f[i - 1]
      BY <3>2
    <3>. QED BY <1>9, <3>1, <3>3
  <2>. QED BY <2>1, <2>2
<1>12. g = [i \in 1..k |-> g[i]]
  BY <1>10
<1>13. Sums(q, k, g)
  <2>. HIDE DEF g
  <2>. QED BY <1>11, <1>12 DEF Sums
<1>. QED BY <1>4, <1>10, <1>13

Alike(f, g, n) == \A i \in 1..n : f[i] = g[i]

\* The sums of two sequences are the same as far as the sequences are.
LEMMA SumsAgree ==
    ASSUME NEW q, NEW r, NEW n \in Nat, NEW m \in Nat, n <= m, Alike(q, r, n),
           NEW f, Sums(q, n, f), NEW g, Sums(r, m, g)
    PROVE  Alike(f, g, n)
<1>. USE DEF Alike
<1>. DEFINE Bad == {i \in 1..n : f[i] # g[i]}
<1>1. SUFFICES ASSUME Bad # {} PROVE FALSE
  OBVIOUS
<1>2. PICK k \in Bad : \A i \in Bad : k <= i
  <2>1. Bad \in SUBSET Nat
    OBVIOUS
  <2>. HIDE DEF Bad
  <2>. QED BY <1>1, <2>1, LeastOf
<1>3. k \in 1..n /\ k \in 1..m /\ f[k] # g[k] /\ q[k] = r[k]
  OBVIOUS
<1>4. f[k] = (IF k = 1 THEN q[k] ELSE f[k - 1] \o q[k]) /\ g[k] = (IF k = 1 THEN r[k] ELSE g[k - 1] \o r[k])
  BY <1>3 DEF Sums
<1>5. k # 1 => f[k - 1] = g[k - 1]
  <2>1. SUFFICES ASSUME k # 1 PROVE k - 1 \in 1..n /\ k - 1 \notin Bad
    OBVIOUS
  <2>. QED BY <1>2, <1>3, <2>1
<1>. QED BY <1>3, <1>4, <1>5

\* FlattenSeq is the last of the sums.
LEMMA FlattenIs ==
    ASSUME NEW q, Len(q) # 0, NEW f, Sums(q, Len(q), f)
    PROVE  \E g : Sums(q, Len(q), g) /\ FlattenSeq(q) = g[Len(q)]
<1>. DEFINE g == CHOOSE g : Sums(q, Len(q), g)
<1>1. Sums(q, Len(q), g)
  OBVIOUS
<1>2. FlattenSeq(q) = g[Len(q)]
  BY DEF FlattenSeq, Sums
<1>. QED BY <1>1, <1>2

\* A sequence without elements is the empty one.
LEMMA NothingIn == ASSUME NEW V, NEW q \in Seq(V), Len(q) = 0 PROVE q = <<>>
OBVIOUS

\* One more sequence is one more to add.
LEMMA FlattenAppend ==
    ASSUME NEW V, NEW q \in Seq(Seq(V)), NEW x \in Seq(V)
    PROVE  FlattenSeq(Append(q, x)) = FlattenSeq(q) \o x
<1>. SUFFICES ASSUME NEW n, n = Len(q), NEW r, r = Append(q, x)
              PROVE  FlattenSeq(r) = FlattenSeq(q) \o x
  OBVIOUS
<1>1. n \in Nat /\ r \in Seq(Seq(V)) /\ Len(r) = n + 1 /\ r[n + 1] = x /\ \A i \in 1..n : q[i] = r[i]
  OBVIOUS
<1>2. PICK f : Sums(r, n + 1, f) /\ FlattenSeq(r) = f[n + 1]
  <2>1. n + 1 \in 0..Len(r)
    BY <1>1
  <2>2. PICK h : Sums(r, n + 1, h)
    BY <1>1, <2>1, SumsExist
  <2>3. Len(r) # 0
    BY <1>1
  <2>. QED BY <1>1, <2>2, <2>3, FlattenIs
<1>3. f[n + 1] = IF n + 1 = 1 THEN x ELSE f[n] \o x
  <2>1. n + 1 \in 1..(n + 1) /\ (n + 1) - 1 = n
    BY <1>1
  <2>2. f[n + 1] = IF n + 1 = 1 THEN r[n + 1] ELSE f[(n + 1) - 1] \o r[n + 1]
    BY <1>2, <2>1 DEF Sums
  <2>. QED BY <1>1, <2>1, <2>2
<1>4. CASE n = 0
  <2>1. FlattenSeq(q) = q
    BY <1>4 DEF FlattenSeq
  <2>2. q = <<>>
    BY <1>1, <1>4, NothingIn
  <2>3. <<>> \o x = x
    OBVIOUS
  <2>. QED BY <1>2, <1>3, <1>4, <2>1, <2>2, <2>3
<1>5. CASE n # 0
  <2>1. PICK g : Sums(q, n, g) /\ FlattenSeq(q) = g[n]
    <3>1. n \in 0..Len(q)
      BY <1>1
    <3>2. PICK h : Sums(q, n, h)
      BY <3>1, SumsExist
    <3>. QED BY <1>5, <3>2, FlattenIs
  <2>2. g[n] = f[n]
    <3>1. n + 1 \in Nat /\ n <= n + 1 /\ n \in 1..n
      BY <1>1, <1>5
    <3>2. Sums(q, n, g) /\ Sums(r, n + 1, f) /\ n \in Nat /\ Alike(q, r, n)
      BY <1>1, <1>2, <2>1 DEF Alike
    <3>3. Alike(g, f, n)
      BY <3>1, <3>2, SumsAgree
    <3>. QED BY <3>1, <3>3 DEF Alike
  <2>3. n + 1 # 1
    BY <1>1, <1>5
  <2>. QED BY <1>2, <1>3, <2>1, <2>2, <2>3
<1>. QED BY <1>4, <1>5

\* Sequences with the same elements are the same.
LEMMA SameElements ==
    ASSUME NEW V, NEW q \in Seq(V), NEW r \in Seq(V), NEW n \in Nat, Len(q) = n, Len(r) = n,
           Alike(q, r, n)
    PROVE  q = r
BY DEF Alike

\* What stands before a sequence can be taken off it again.
LEMMA HeadAndTail ==
    ASSUME NEW V, NEW x \in V, NEW q \in Seq(V)
    PROVE  <<x>> \o q # <<>> /\ Head(<<x>> \o q) = x /\ Tail(<<x>> \o q) = q
OBVIOUS

\* The rest of a sequence.
LEMMA TailIn == ASSUME NEW V, NEW q \in Seq(V), q # <<>> PROVE Tail(q) \in Seq(V)
OBVIOUS

\* A sequence over a set is one over a larger set.
LEMMA SeqWider == ASSUME NEW V, NEW W, V \subseteq W, NEW q \in Seq(V) PROVE q \in Seq(W)
OBVIOUS

Read == [type : Types, text : Seq(STRING)]

\* What is shown of a line is what it means, for each type, with or without text and
\* whatever iChat adds to it.
LEMMA MeaningIs ==
    ASSUME NEW l \in Lines
    PROVE  /\ Meaning(l) \in Seq(Read)
           /\ Meaning(l) = IF Create(l).type = "invite" THEN <<>> ELSE Shown(Create(l))
<1>. DEFINE s == Create(l)
<1>1. l.type \in Types \cup {"invite"} /\ l.text \in Seq(STRING)
  BY ChatsAssumption
<1>2. /\ s.type = IF l.type = "notice" THEN "normal" ELSE IF l.type = "invite" THEN "invite" ELSE "chat"
      /\ s.body = (IF l.type = "action" THEN <<Me>> \o l.text ELSE l.text)
      /\ s.event = l.event
  BY DEF Create
<1>3. <<>> \in Seq(Read) /\ \A r \in Read : <<r>> \in Seq(Read)
  OBVIOUS
<1>4. CASE l.type = "invite"
  BY <1>2, <1>3, <1>4 DEF Meaning
<1>5. CASE l.type # "invite" /\ IsTyping(s)
  <2>1. Meaning(l) = <<>>
    BY <1>2, <1>5 DEF Meaning, IsTyping
  <2>2. s.type # "invite" /\ Shown(s) = <<>>
    BY <1>1, <1>2, <1>5 DEF Types, Shown
  <2>. QED BY <1>3, <2>1, <2>2
<1>6. CASE l.type = "action" /\ ~IsTyping(s)
  <2>1. Me \in STRING \cup {Me} /\ l.text \in Seq(STRING \cup {Me})
    BY <1>1, SeqWider
  <2>2. <<Me>> \o l.text # <<>> /\ Head(<<Me>> \o l.text) = Me /\ Tail(<<Me>> \o l.text) = l.text
    BY <2>1, HeadAndTail
  <2>3. Shown(s) = <<[type |-> "action", text |-> l.text]>>
    BY <1>2, <1>6, <2>2 DEF Shown, Parse
  <2>4. Meaning(l) = <<[type |-> "action", text |-> l.text]>>
    BY <1>2, <1>6 DEF Meaning, IsTyping
  <2>5. [type |-> "action", text |-> l.text] \in Read /\ s.type # "invite"
    BY <1>1, <1>2, <1>6 DEF Types, Read
  <2>. QED BY <1>3, <2>3, <2>4, <2>5
<1>7. CASE l.type \in {"normal", "notice"} /\ ~IsTyping(s)
  <2>1. s.body = l.text /\ s.type = (IF l.type = "notice" THEN "normal" ELSE "chat") /\ s.type # "invite"
    BY <1>2, <1>7
  <2>2. CASE l.text = <<>>
    <3>1. Shown(s) = <<>> /\ Meaning(l) = <<>>
      BY <1>7, <2>1, <2>2 DEF Shown, Meaning
    <3>. QED BY <1>3, <2>1, <3>1
  <2>3. CASE l.text # <<>> /\ Head(l.text) = Me
    <3>1. Shown(s) = <<[type |-> "action", text |-> Tail(l.text)]>>
      BY <1>7, <2>1, <2>3 DEF Shown, Parse
    <3>2. Meaning(l) = <<[type |-> "action", text |-> Tail(l.text)]>>
      BY <1>2, <1>7, <2>3 DEF Meaning, IsTyping
    <3>3. Tail(l.text) \in Seq(STRING)
      BY <1>1, <2>3, TailIn
    <3>4. [type |-> "action", text |-> Tail(l.text)] \in Read
      BY <3>3 DEF Types, Read
    <3>. QED BY <1>3, <2>1, <3>1, <3>2, <3>4
  <2>4. CASE l.text # <<>> /\ Head(l.text) # Me
    <3>1. Shown(s) = <<[type |-> l.type, text |-> l.text]>>
      BY <1>7, <2>1, <2>4 DEF Shown, Parse
    <3>2. Meaning(l) = <<[type |-> l.type, text |-> l.text]>>
      BY <1>2, <1>7, <2>4 DEF Meaning, IsTyping
    <3>3. [type |-> l.type, text |-> l.text] \in Read
      BY <1>1, <1>7 DEF Types, Read
    <3>. QED BY <1>3, <2>1, <3>1, <3>2, <3>3
  <2>. QED BY <2>2, <2>3, <2>4
<1>. QED BY <1>1, <1>4, <1>5, <1>6, <1>7 DEF Types

\* What the first n lines of q say.
Meant(q, n) == [i \in 1..n |-> Meaning(q[i])]

\* What one line more says comes last.
LEMMA MeantMore ==
    ASSUME NEW q \in Seq(Lines), NEW n \in Nat, n < Len(q)
    PROVE  /\ Meaning(q[n + 1]) \in Seq(Read)
           /\ FlattenSeq(Meant(q, n + 1)) = FlattenSeq(Meant(q, n)) \o Meaning(q[n + 1])
<1>1. Len(q) \in Nat /\ \A i \in 1..(n + 1) : q[i] \in Lines
  OBVIOUS
<1>2. \A i \in 1..(n + 1) : Meaning(q[i]) \in Seq(Read)
  BY <1>1, MeaningIs
<1>3. n + 1 \in 1..(n + 1) /\ \A i \in 1..n : i \in 1..(n + 1)
  OBVIOUS
<1>4. Meant(q, n) \in Seq(Seq(Read)) /\ Len(Meant(q, n)) = n
  BY <1>2, <1>3 DEF Meant
<1>5. Meant(q, n + 1) = Append(Meant(q, n), Meaning(q[n + 1]))
  <2>. DEFINE a == Meant(q, n + 1)
              b == Append(Meant(q, n), Meaning(q[n + 1]))
  <2>1. b \in Seq(Seq(Read)) /\ Len(b) = n + 1
    BY <1>2, <1>3, <1>4
  <2>2. \A i \in 1..(n + 1) : b[i] = IF i = n + 1 THEN Meaning(q[n + 1]) ELSE Meant(q, n)[i]
    BY <1>4
  <2>3. \A i \in 1..(n + 1) : a[i] = b[i]
    <3>1. ASSUME NEW i \in 1..(n + 1), i # n + 1 PROVE Meant(q, n)[i] = Meaning(q[i])
      BY <3>1 DEF Meant
    <3>2. \A i \in 1..(n + 1) : a[i] = Meaning(q[i])
      BY DEF Meant
    <3>. QED BY <2>2, <3>1, <3>2
  <2>4. a \in Seq(Seq(Read)) /\ Len(a) = n + 1
    BY <1>2 DEF Meant
  <2>. HIDE DEF a, b
  <2>5. Alike(a, b, n + 1) /\ n + 1 \in Nat
    BY <2>3 DEF Alike
  <2>6. a = b
    BY <2>1, <2>4, <2>5, SameElements
  <2>. QED BY <2>6 DEF a, b
<1>. QED BY <1>2, <1>3, <1>4, <1>5, FlattenAppend

\* What has come of what was said is what was heard, until the client goes down; and
\* no more is under way than was said.
ChatsInv ==
    /\ said \in [Peers -> Seq(Lines)] /\ unread \in [Peers -> Nat] /\ heard \in [Peers -> Seq(Read)]
    /\ \A p \in Peers :
          /\ unread[p] <= Len(said[p])
          /\ list # "closed" => heard[p] = FlattenSeq(Meant(said[p], Len(said[p]) - unread[p]))

\* Nothing was said at first.
LEMMA ChatsStart == Init => ChatsInv
<1>. SUFFICES ASSUME Init PROVE ChatsInv
  OBVIOUS
<1>1. /\ said = [p \in Peers |-> <<>>] /\ unread = [p \in Peers |-> 0] /\ heard = [p \in Peers |-> <<>>]
  BY DEF Init, ChatsInit
<1>2. FlattenSeq(Meant(<<>>, 0)) = <<>>
  <2>1. Meant(<<>>, 0) \in Seq(Seq(Read)) /\ Len(Meant(<<>>, 0)) = 0
    BY DEF Meant
  <2>2. Meant(<<>>, 0) = <<>>
    BY <2>1, NothingIn
  <2>. QED BY <2>1, <2>2 DEF FlattenSeq
<1>3. Len(<<>>) = 0 /\ 0 - 0 = 0 /\ <<>> \in Seq(Lines) /\ <<>> \in Seq(Read)
  OBVIOUS
<1>. QED BY <1>1, <1>2, <1>3 DEF ChatsInv

\* Once the list is closed it stays so.
LEMMA ClosedStays == ContactsStep /\ list = "closed" => list' = "closed"
<1>. SUFFICES ASSUME ContactsStep, list = "closed" PROVE list' = "closed"
  OBVIOUS
<1>1. CASE NetworkStep
  BY <1>1 DEF NetworkStep, Publish, BrowserFound, BrowserRemoved, Resolved, ResolverFails, ResolverTimeout, Running
<1>2. CASE UserStep
  BY <1>2 DEF UserStep, Hold, Release, AvatarArrives, RequestAvatar, UserStill
<1>3. CASE DiscoStep
  BY <1>3 DEF DiscoStep, DiscoError, DiscoSilence, DiscoAnswer, DiscoForged, DiscoStill
<1>. QED BY <1>1, <1>2, <1>3 DEF ContactsStep, ContactsStill, TalkStep, LearnStep, ContactsIdle, AllForNow, DisposeCache,
                                 StartContacts, CloseContacts

\* What a step does to what is said and heard.
ChatStep ==
    \/ \E p \in Peers, l \in Lines : Says(p, l)
    \/ \E p \in Peers : Arrives(p)
    \/ UNCHANGED <<said, unread, heard>>
    \/ list' = "closed" /\ CloseChats

\* Only a contact that speaks, its line that arrives and the end of the client
\* change it.
LEMMA ChatParts == [Next]_vars => ChatStep
<1>. SUFFICES ASSUME [Next]_vars PROVE ChatStep
  OBVIOUS
<1>1. CASE UNCHANGED chatVars
  BY <1>1 DEF chatVars, ChatStep
<1>2. CASE UNCHANGED vars
  BY <1>2 DEF vars, chatVars, ChatStep
<1>3. ASSUME AccountStill \/ RoomStill \/ Alone \/ LearnsOwn PROVE UNCHANGED chatVars
  BY <1>3 DEF AccountStill, RoomStill, Alone, LearnsOwn
<1>4. ASSUME NEW p \in Peers, PeerPublishes(p) \/ PeerDeparts(p) PROVE AccountStill
  BY <1>4 DEF PeerPublishes, PeerDeparts
<1>5. ASSUME NEW p \in Peers, NEW s \in Services,
             ServiceFound(p, s) \/ ServiceRemoved(p, s) \/ ServiceResolved(p, s) \/ ServiceFails(p, s)
      PROVE  AccountStill
  BY <1>5 DEF ServiceFound, ServiceRemoved, ServiceResolved, ServiceFails
<1>6. ASSUME NEW p \in Peers, ServiceTimeout(p) \/ UserHolds(p) \/ UserReleases(p) \/ AvatarComes(p)
      PROVE  AccountStill
  BY <1>6 DEF ServiceTimeout, UserHolds, UserReleases, AvatarComes
<1>7. ASSUME NEW p \in Peers, NEW u \in Uris,
             CapsError(p, u) \/ CapsSilence(p, u) \/ CapsAnswer(p, u) \/ CapsForged(p, u)
      PROVE  AccountStill
  BY <1>7 DEF CapsError, CapsSilence, CapsAnswer, CapsForged
<1>8. ASSUME NEW p \in Peers, NEW q \in Avatars, AvatarAsked(p, q) PROVE AccountStill
  BY <1>8 DEF AvatarAsked
<1>9. ASSUME NEW p \in Peers, ChatAsked(p) \/ LineArrives(p) \/ ChatClosed(p) PROVE ChatStep
  BY <1>9 DEF ChatAsked, LineArrives, ChatClosed, RequestChat, CloseChat, chatVars, ChatStep
<1>10. ASSUME NEW p \in Peers, NEW l \in Lines, LineSaid(p, l) PROVE ChatStep
  BY <1>10 DEF LineSaid, ChatStep
<1>11. ASSUME NEW m, NEW p, NEW f, Fate(m, p, f) PROVE ChatStep
  BY <1>11 DEF Fate, ChatStep
<1>12. ASSUME NEW m \in Messages, MessageDelivered(m) \/ MessageFails(m) PROVE ChatStep
  BY <1>11, <1>12 DEF MessageDelivered, MessageFails, Sent, SendFails
<1>13. ASSUME NEW m \in Messages, NEW p \in Peers, NEW l \in Lines, MessageSent(m, p, l) PROVE ChatStep
  BY <1>11, <1>13 DEF MessageSent, Send
<1>14. ASSUME NEW r \in Rooms, NEW a \in Announcers, RoomAnnounced(r, a) \/ RoomWithdrawn(r, a) PROVE RoomStill
  BY <1>14 DEF RoomAnnounced, RoomWithdrawn
<1>15. ASSUME NEW r \in Rooms, NEW l \in Links, RoomAppears(r, l) \/ RoomDisappears(r, l) PROVE RoomStill
  BY <1>15 DEF RoomAppears, RoomDisappears
<1>16. ASSUME NEW q \in Lists, ListAsked(q) \/ ListClosed(q) PROVE RoomStill
  BY <1>16 DEF ListAsked, ListClosed
<1>17. ASSUME NEW r \in Rooms, RoomAsked(r) \/ RoomEntered(r) \/ RoomLeft(r) PROVE RoomStill
  BY <1>17 DEF RoomAsked, RoomEntered, RoomLeft
<1>18. CASE ListReceived
  BY <1>1, <1>3, <1>18 DEF ListReceived
<1>19. CASE OwnEstablished \/ OwnAnnounced \/ Dispose
  BY <1>1, <1>3, <1>19 DEF OwnEstablished, OwnAnnounced, Dispose
<1>20. CASE ClientFailure \/ ManagersFailure \/ UserDisconnects
  BY <1>20 DEF ClientFailure, ManagersFailure, UserDisconnects, Shuts, CloseContacts, ChatStep
<1>21. CASE Connects \/ CloseTimeout \/ CloseDone \/ ForceDone \/ NoAvatar
  BY <1>1, <1>3, <1>21 DEF Connects, CloseTimeout, CloseDone, ForceDone, NoAvatar
<1>22. ASSUME NEW s \in Statuses, OwnPresence(s) PROVE Alone
  BY <1>22 DEF OwnPresence
<1>23. ASSUME NEW c \in CapSets, OwnCaps(c) PROVE LearnsOwn
  BY <1>23 DEF OwnCaps
<1>24. ASSUME NEW a \in Aliases, OwnAlias(a) PROVE Alone
  BY <1>24 DEF OwnAlias
<1>25. ASSUME NEW q \in Pictures, OwnAvatar(q) PROVE Alone
  BY <1>25 DEF OwnAvatar
<1>26. ASSUME NEW r \in Ensures, NEW i \in Interfaces, SidecarAsked(r, i) PROVE Alone
  BY <1>26 DEF SidecarAsked
<1>27. ASSUME NEW i \in Interfaces, SidecarMade(i) PROVE Alone
  BY <1>27 DEF SidecarMade
<1>. QED BY Zenon, <1>1, <1>2, <1>3, <1>4, <1>5, <1>6, <1>7, <1>8, <1>9, <1>10, <1>12, <1>13, <1>14, <1>15, <1>16,
            <1>17, <1>18, <1>19, <1>20, <1>21, <1>22, <1>23, <1>24, <1>25, <1>26, <1>27 DEF Next

\* A contact says something, which is on its way.
LEMMA SaysKeeps ==
    ASSUME ChatsInv, NEW p \in Peers, NEW l \in Lines, Says(p, l)
    PROVE  ChatsInv'
<1>1. /\ said' = [said EXCEPT ![p] = Append(@, l)] /\ unread' = [unread EXCEPT ![p] = @ + 1]
      /\ heard' = heard /\ list' = list
  BY DEF Says, ChatStill
<1>2. /\ said[p] \in Seq(Lines) /\ unread[p] \in Nat /\ Len(said[p]) \in Nat /\ unread[p] <= Len(said[p])
  BY DEF ChatsInv
<1>3. Append(said[p], l) \in Seq(Lines) /\ Len(Append(said[p], l)) = Len(said[p]) + 1
      /\ \A i \in 1..Len(said[p]) : Append(said[p], l)[i] = said[p][i]
  BY <1>2
<1>4. /\ unread[p] + 1 <= Len(said[p]) + 1 /\ unread[p] + 1 \in Nat
      /\ (Len(said[p]) + 1) - (unread[p] + 1) = Len(said[p]) - unread[p]
      /\ \A i \in 1..(Len(said[p]) - unread[p]) : i \in 1..Len(said[p])
  BY <1>2
<1>5. Meant(Append(said[p], l), Len(said[p]) - unread[p]) = Meant(said[p], Len(said[p]) - unread[p])
  BY <1>3, <1>4 DEF Meant
<1>6. /\ said' \in [Peers -> Seq(Lines)] /\ unread' \in [Peers -> Nat] /\ heard' \in [Peers -> Seq(Read)]
  BY <1>1, <1>3, <1>4 DEF ChatsInv
<1>7. ASSUME NEW o \in Peers
      PROVE  /\ unread'[o] <= Len(said'[o])
             /\ list' # "closed" => heard'[o] = FlattenSeq(Meant(said'[o], Len(said'[o]) - unread'[o]))
  <2>1. CASE o = p
    <3>1. said'[p] = Append(said[p], l) /\ unread'[p] = unread[p] + 1
      BY <1>1 DEF ChatsInv
    <3>2. Meant(said'[p], Len(said'[p]) - unread'[p]) = Meant(said[p], Len(said[p]) - unread[p])
      BY <1>3, <1>4, <1>5, <3>1
    <3>. QED BY <1>1, <1>3, <1>4, <2>1, <3>1, <3>2 DEF ChatsInv
  <2>2. CASE o # p
    BY <1>1, <2>2 DEF ChatsInv
  <2>. QED BY <2>1, <2>2
<1>. QED BY <1>6, <1>7 DEF ChatsInv

\* The next line comes and is shown.
LEMMA ArrivesKeeps ==
    ASSUME ChatsInv, NEW p \in Peers, Arrives(p)
    PROVE  ChatsInv'
<1>. DEFINE n == Len(said[p]) - unread[p]
            l == said[p][n + 1]
<1>1. /\ said' = said /\ unread' = [unread EXCEPT ![p] = @ - 1] /\ list' = list /\ unread[p] > 0
      /\ heard' = [heard EXCEPT ![p] = @ \o IF Create(l).type = "invite" THEN <<>> ELSE Shown(Create(l))]
  BY DEF Arrives, ChatStill
<1>2. said[p] \in Seq(Lines) /\ unread[p] \in Nat /\ unread[p] <= Len(said[p]) /\ heard[p] \in Seq(Read)
  BY DEF ChatsInv
<1>3. Len(said[p]) \in Nat
  BY <1>2
<1>4. /\ n \in Nat /\ n < Len(said[p]) /\ n + 1 \in 1..Len(said[p])
      /\ unread[p] - 1 \in Nat /\ unread[p] - 1 <= Len(said[p]) /\ Len(said[p]) - (unread[p] - 1) = n + 1
  BY <1>1, <1>2, <1>3
<1>5. l \in Lines
  BY <1>2, <1>4
<1>. HIDE DEF n
<1>6. /\ Meaning(l) \in Seq(Read)
      /\ FlattenSeq(Meant(said[p], n + 1)) = FlattenSeq(Meant(said[p], n)) \o Meaning(l)
  BY <1>2, <1>4, MeantMore
<1>7. (IF Create(l).type = "invite" THEN <<>> ELSE Shown(Create(l))) = Meaning(l)
  BY <1>5, MeaningIs
<1>8. heard' = [heard EXCEPT ![p] = heard[p] \o Meaning(l)]
  BY <1>1, <1>7
<1>. HIDE DEF l
<1>9. heard[p] \o Meaning(l) \in Seq(Read)
  BY <1>2, <1>6
<1>10. said' \in [Peers -> Seq(Lines)] /\ unread' \in [Peers -> Nat] /\ heard' \in [Peers -> Seq(Read)]
  BY <1>1, <1>4, <1>8, <1>9 DEF ChatsInv
<1>11. ASSUME NEW o \in Peers
       PROVE  /\ unread'[o] <= Len(said'[o])
              /\ list' # "closed" => heard'[o] = FlattenSeq(Meant(said'[o], Len(said'[o]) - unread'[o]))
  <2>1. CASE o = p
    <3>1. unread'[p] = unread[p] - 1 /\ heard'[p] = heard[p] \o Meaning(l)
      BY <1>1, <1>8 DEF ChatsInv
    <3>2. list # "closed" => heard[p] = FlattenSeq(Meant(said[p], n))
      BY DEF ChatsInv, n
    <3>. QED BY <1>1, <1>4, <1>6, <2>1, <3>1, <3>2
  <2>2. CASE o # p
    BY <1>1, <1>8, <2>2 DEF ChatsInv
  <2>. QED BY <2>1, <2>2
<1>. QED BY <1>10, <1>11 DEF ChatsInv

\* What is heard of the contacts follows what they say, whoever opens and closes
\* channels and goes and comes.
LEMMA ChatsKeep == ChatsInv /\ ChatStep /\ (list = "closed" => list' = "closed") => ChatsInv'
<1>. SUFFICES ASSUME ChatsInv, ChatStep, list = "closed" => list' = "closed" PROVE ChatsInv'
  OBVIOUS
<1>1. CASE UNCHANGED <<said, unread, heard>>
  BY <1>1 DEF ChatsInv
<1>2. CASE list' = "closed" /\ CloseChats
  <2>1. said' = said /\ heard' = heard /\ unread' = [p \in Peers |-> 0] /\ list' = "closed"
    BY <1>2 DEF CloseChats
  <2>2. \A p \in Peers : unread'[p] <= Len(said[p])
    <3>1. \A p \in Peers : said[p] \in Seq(Lines)
      BY DEF ChatsInv
    <3>2. \A p \in Peers : Len(said[p]) \in Nat
      BY <3>1
    <3>. QED BY <2>1, <3>2
  <2>. QED BY <2>1, <2>2 DEF ChatsInv
<1>. QED BY <1>1, <1>2, SaysKeeps, ArrivesKeeps DEF ChatStep

\* Every line of a contact that has come is heard once, in its order and as what it
\* was (im-manager.c, im-channel.c, text-helper.c), for all lines and however many.
THEOREM HeardIsSaid == Spec => []HeardAsSaid
<1>1. Init => ChatsInv
  BY ChatsStart
<1>2. ChatsInv /\ IInv /\ [Next]_vars => ChatsInv'
  BY StepParts, ChatParts, ClosedStays, ChatsKeep DEF IInv
<1>3. ChatsInv => HeardAsSaid
  BY DEF ChatsInv, HeardAsSaid, Running, Meant
<1>. QED BY <1>1, <1>2, <1>3, ClientHolds, PTL DEF Spec
=============================================================================
