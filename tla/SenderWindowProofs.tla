------------------------- MODULE SenderWindowProofs -------------------------
(***************************************************************************)
(* The safety of the receive window, for every stream, window, identifier  *)
(* width and combination of events: the cursors stay ordered inside the    *)
(* window and no gap between them is forgotten.                            *)
(*                                                                         *)
(* The two are proved together with two facts they lean on: a sender that  *)
(* has no start yet holds nothing, and only packets that were put out are  *)
(* marked as popped, so collection never takes a packet out of the gap.    *)
(*                                                                         *)
(* At the end, the watchdogs of the same sender (SenderWatchdog).          *)
(***************************************************************************)
EXTENDS SenderWindow, WellFoundedInduction, TLAPS

-----------------------------------------------------------------------------
(* What packet_diff computes, for every identifier width, wrap window and     *)
(* clamp that satisfy IdAssumption                                            *)

\* The sum of an identifier and an offset is an identifier: guint32 addition
\* never leaves the range.
LEMMA PlusType ==
    ASSUME NEW id \in Ids, NEW k \in 0..MaxId
    PROVE  Plus(id, k) \in Ids
  BY IdAssumption DEF Plus, Ids

\* Offsets add up, so that a window can be re-based at any of its members.
LEMMA PlusPlus ==
    ASSUME NEW id \in Ids, NEW j \in 0..MaxId, NEW k \in 0..MaxId, j + k <= MaxId
    PROVE  Plus(Plus(id, j), k) = Plus(id, j + k)
  BY IdAssumption DEF Plus, Ids

\* The difference fits the gint32 it is returned in and is never G_MININT, so
\* that negating it is safe.
THEOREM DiffType ==
    ASSUME NEW a \in Ids, NEW b \in Ids
    PROVE  PacketDiff(a, b) \in -MaxInt..MaxInt
  BY IdAssumption DEF PacketDiff, Smaller, Ids

\* Exchanging the two identifiers negates the difference: "before" for one
\* caller is "after" for the other, at the wrap and at the clamp too.
THEOREM DiffAntisymmetric ==
    ASSUME NEW a \in Ids, NEW b \in Ids
    PROVE  PacketDiff(b, a) = -PacketDiff(a, b)
  BY IdAssumption DEF PacketDiff, Smaller, Ids

\* A step of at most Window identifiers is measured exactly, whether or not it
\* wraps: this is what makes the receive window of the sender work.
THEOREM DiffStep ==
    ASSUME NEW a \in Ids, NEW k \in 0..Window
    PROVE  PacketDiff(a, Plus(a, k)) = k
  BY IdAssumption DEF PacketDiff, Plus, Smaller, Ids

\* No two different identifiers compare as equal.
THEOREM DiffZero ==
    ASSUME NEW a \in Ids, NEW b \in Ids
    PROVE  PacketDiff(a, b) = 0 <=> a = b
  BY IdAssumption DEF PacketDiff, Smaller, Ids

\* A small non-negative difference locates the identifier: the caller that
\* tests 0 <= diff < PACKET_CACHE_SIZE has the packet at that offset.
THEOREM DiffLocates ==
    ASSUME NEW a \in Ids, NEW b \in Ids, PacketDiff(a, b) \in 0..(Window - 1)
    PROVE  b = Plus(a, PacketDiff(a, b))
  BY IdAssumption DEF PacketDiff, Plus, Smaller, Ids

\* Two offsets from a common base compare as the offsets do: inside a window
\* the wrapping order is the order of the stream.
THEOREM DiffOffsets ==
    ASSUME NEW a \in Ids, NEW j \in 0..Window, NEW k \in 0..Window
    PROVE  PacketDiff(Plus(a, j), Plus(a, k)) = k - j
<1>1. ASSUME NEW i \in 0..Window, NEW l \in 0..Window, i <= l
      PROVE  PacketDiff(Plus(a, i), Plus(a, l)) = l - i
  <2>1. /\ i \in 0..MaxId /\ l - i \in 0..MaxId /\ i + (l - i) = l
        /\ l - i \in 0..Window
    BY <1>1, IdAssumption
  <2>2. Plus(a, l) = Plus(Plus(a, i), l - i)
    BY <1>1, <2>1, PlusPlus, IdAssumption
  <2>3. Plus(a, i) \in Ids
    BY <2>1, PlusType
  <2>. QED BY <2>1, <2>2, <2>3, DiffStep
<1>2. CASE j <= k
  BY <1>1, <1>2
<1>3. CASE k <= j
  <2>1. PacketDiff(Plus(a, k), Plus(a, j)) = j - k
    BY <1>1, <1>3
  <2>2. Plus(a, j) \in Ids /\ Plus(a, k) \in Ids
    BY PlusType, IdAssumption
  <2>3. PacketDiff(Plus(a, j), Plus(a, k)) = -PacketDiff(Plus(a, k), Plus(a, j))
    BY <2>2, DiffAntisymmetric
  <2>. QED BY <2>1, <2>3
<1>. QED BY <1>2, <1>3, IdAssumption

-----------------------------------------------------------------------------
(* The least and the greatest element *)

Less == OpToRel(<, Nat)

\* The order of the naturals as a set of pairs, as the theorem on minima has it.
LEMMA LessDef == Less = {ss \in Nat \X Nat : ss[1] < ss[2]}
  BY DEF Less, OpToRel

\* A set of naturals that is not empty has a least element, which Minimum is.
LEMMA MinimumIn ==
    ASSUME NEW S \in SUBSET Nat, S # {}
    PROVE  Minimum(S) \in S /\ \A y \in S : Minimum(S) <= y
<1>1. IsWellFoundedOn(Less, Nat)
  BY NatLessThanWellFounded DEF Less
<1>2. PICK x \in S : \A y \in S : ~ (<<y, x>> \in Less)
  <2>1. S \subseteq Nat
    OBVIOUS
  <2>. QED BY <1>1, <2>1, WFMin
<1>3. \A y \in S : x <= y
  <2>1. SUFFICES ASSUME NEW y \in S PROVE ~(y < x)
    OBVIOUS
  <2>2. <<y, x>> \notin Less /\ <<y, x>> \in Nat \X Nat
    BY <1>2
  <2>. QED BY <2>2, LessDef
<1>. QED BY <1>3 DEF Minimum

\* A bounded set of naturals that is not empty has a greatest element.
LEMMA MaximumIn ==
    ASSUME NEW b \in Nat, NEW S \in SUBSET (0..b), S # {}
    PROVE  Maximum(S) \in S /\ \A y \in S : y <= Maximum(S)
<1>. DEFINE T == {b - x : x \in S}
<1>1. T \in SUBSET Nat /\ T # {}
  <2>1. \A x \in S : x \in 0..b /\ b - x \in Nat
    OBVIOUS
  <2>2. PICK x \in S : TRUE
    OBVIOUS
  <2>3. b - x \in T
    OBVIOUS
  <2>. QED BY <2>1, <2>3
<1>2. PICK t \in T : \A u \in T : t <= u
  BY <1>1, MinimumIn
<1>3. PICK x \in S : t = b - x
  BY <1>2
<1>4. \A y \in S : y <= x
  <2>1. SUFFICES ASSUME NEW y \in S PROVE y <= x
    OBVIOUS
  <2>2. b - y \in T
    OBVIOUS
  <2>3. b - x <= b - y
    BY <2>2, <1>2, <1>3
  <2>. QED BY <2>3
<1>. QED BY <1>4 DEF Maximum

-----------------------------------------------------------------------------
(* Positions and identifiers *)

LEMMA Bounds ==
    /\ Length \in Nat /\ CacheSize \in Nat \ {0} /\ Window \in Nat
    /\ Length + CacheSize <= Window
    /\ Positions \subseteq 0..Window /\ Positions \subseteq Nat /\ Sent \subseteq Positions
  BY WindowAssumption, IdAssumption DEF Positions, Sent

\* The comparison of two identifiers is that of the positions they name.
LEMMA DiffIsDistance ==
    ASSUME NEW p \in 0..Window, NEW q \in 0..Window
    PROVE  Diff(p, q) = q - p
  BY DiffOffsets, WindowAssumption DEF Diff, Wire

\* packet_diff of two positions of the stream is their distance.
LEMMA PositionDiff ==
    ASSUME NEW p \in Positions, NEW q \in Positions
    PROVE  Diff(p, q) = q - p
  BY DiffIsDistance, Bounds

\* sender_seen compares with the end of the window, which is named the same way.
LEMMA WindowEnd ==
    ASSUME NEW p \in Positions, NEW q \in Positions
    PROVE  PacketDiff(Plus(Wire(p), CacheSize), Wire(q)) = q - (p + CacheSize)
<1>1. p + CacheSize \in 0..Window /\ p \in 0..MaxId /\ CacheSize \in 0..MaxId
      /\ p + CacheSize <= MaxId
  BY Bounds, IdAssumption DEF Positions
<1>2. Plus(Wire(p), CacheSize) = Plus(Start, p + CacheSize)
  BY <1>1, PlusPlus, WindowAssumption DEF Wire
<1>. QED BY <1>1, <1>2, DiffOffsets, Bounds, WindowAssumption DEF Wire

-----------------------------------------------------------------------------
(* The inductive invariant *)

\* A sender without a start has received nothing.
NewIsEmpty == state = New => have = {} /\ nextInput = nextOutput

\* What is marked as popped was put out.
PoppedIsBehind == \A p \in popped : p < nextOutput

IInv == TypeOK /\ CursorsOrdered /\ GapIsAskedFor /\ NewIsEmpty /\ PoppedIsBehind

\* The window of a new sender is empty.
LEMMA InitIInv == Init => IInv
<1>. SUFFICES ASSUME Init PROVE IInv
  OBVIOUS
<1>1. \E s \in Scenarios : stream = s.stream /\ events = s.events
  BY DEF Init
<1>2. /\ state = New /\ nextInput = 0 /\ nextOutput = 0 /\ nextData = 0 /\ firstPacket = 0
      /\ have = {} /\ holes = {} /\ timers = {} /\ repeating = {} /\ acked = {} /\ popped = {}
      /\ hold = None /\ dataStart = None /\ endPoint = 0 /\ delivered = <<>> /\ fault = "none"
  BY DEF Init
<1>3. 0 \in Positions
  BY Bounds DEF Positions
<1>4. ready \in [out : Positions, data : Positions]
  BY Bounds DEF Init, Positions
<1>5. popping \in BOOLEAN
  BY DEF Init
<1>6. TypeOK
  BY <1>1, <1>2, <1>3, <1>4, <1>5 DEF TypeOK, New, PendingRemoval, Cached
<1>7. CursorsOrdered /\ GapIsAskedFor /\ NewIsEmpty /\ PoppedIsBehind
  BY <1>2, Bounds DEF CursorsOrdered, GapIsAskedFor, NewIsEmpty, PoppedIsBehind, New, Preparing, UnknownFailed
<1>. QED BY <1>6, <1>7 DEF IInv

-----------------------------------------------------------------------------
(* Steps that leave the window alone *)

ControlType ==
    /\ \E s \in Scenarios : stream = s.stream /\ events = s.events
    /\ state \in New..PendingRemoval
    /\ hold \in Positions \cup {None} /\ dataStart \in Positions \cup {None}
    /\ endPoint \in Positions
    /\ ready \in [out : Positions, data : Positions]
    /\ popping \in BOOLEAN
    /\ delivered \in Seq(Sent)
    /\ fault \in {"none", "null", "size", "assert", "endless"}

WindowType ==
    /\ nextInput \in Positions /\ nextOutput \in Positions
    /\ nextData \in Positions /\ firstPacket \in Positions
    /\ have \subseteq Sent /\ holes \subseteq Sent /\ timers \subseteq have \cup holes
    /\ repeating \subseteq have /\ acked \subseteq have \cup holes /\ popped \subseteq have

\* The type invariant in two halves, which steps disturb separately.
LEMMA TypeSplit == TypeOK <=> ControlType /\ WindowType
  BY DEF TypeOK, ControlType, WindowType, Cached

\* The same of the next state.
LEMMA TypeSplitNext == TypeOK' <=> ControlType' /\ WindowType'
  BY DEF TypeOK, ControlType, WindowType, Cached

\* A step that changes neither cursors nor entries, and takes no stopped
\* sender back.
LEMMA ControlStep ==
    ASSUME IInv, ControlType', UNCHANGED <<cursors, entries>>,
           state' = New => state = New,
           state' <= UnknownFailed => state <= UnknownFailed
    PROVE  IInv'
<1>1. UNCHANGED <<nextInput, nextOutput, nextData, firstPacket, have, holes, timers,
                  repeating, acked, popped>>
  BY DEF cursors, entries
<1>2. TypeOK'
  <2>1. WindowType'
    BY <1>1, TypeSplit DEF IInv, WindowType
  <2>. QED BY <2>1, TypeSplitNext
<1>3. CursorsOrdered' /\ PoppedIsBehind' /\ NewIsEmpty'
  BY <1>1 DEF IInv, CursorsOrdered, PoppedIsBehind, NewIsEmpty
<1>4. GapIsAskedFor'
  <2>1. SUFFICES ASSUME state' \in Preparing..UnknownFailed,
                        NEW p \in nextOutput..(nextInput - 1)
                 PROVE  p \in have \/ p \in holes \cap timers
    BY <1>1 DEF GapIsAskedFor
  <2>2. state \in New..UnknownFailed
    BY <2>1 DEF IInv, TypeOK, New, Preparing, UnknownFailed, PendingRemoval
  <2>3. state # New
    BY <2>1, Bounds DEF IInv, NewIsEmpty, TypeOK
  <2>. QED BY <2>1, <2>2, <2>3 DEF IInv, GapIsAskedFor, New, Preparing, UnknownFailed
<1>. QED BY <1>2, <1>3, <1>4 DEF IInv

\* The calls of the transport and the end of the pop loop.
LEMMA CallsPreserve ==
    ASSUME IInv, NEW p \in Positions,
           SetDataStart \/ HoldData \/ ReleaseData \/ SetFailed \/ UpdateEnd(p)
           \/ Remove \/ DependsAdvance \/ PopDone
    PROVE  IInv'
<1>. USE DEF New, Preparing, Running, DataRunning, Failed, UnknownFailed, Stopped, PendingRemoval
<1>1. TypeOK /\ ControlType
  BY TypeSplit DEF IInv
<1>2. CASE SetDataStart
  <2>1. ControlType'
    BY <1>1, <1>2 DEF SetDataStart, ControlType, TypeOK
  <2>. QED BY <1>2, <2>1, ControlStep DEF SetDataStart
<1>3. CASE HoldData
  <2>1. popping' \in BOOLEAN
    BY <1>3 DEF HoldData
  <2>2. ControlType'
    BY <1>1, <1>3, <2>1 DEF HoldData, ControlType, TypeOK
  <2>. QED BY <1>3, <2>2, ControlStep DEF HoldData
<1>4. CASE ReleaseData
  <2>1. popping' \in BOOLEAN
    BY <1>4 DEF ReleaseData
  <2>2. ControlType'
    BY <1>1, <1>4, <2>1 DEF ReleaseData, ControlType, TypeOK
  <2>. QED BY <1>4, <2>2, ControlStep DEF ReleaseData
<1>5. CASE SetFailed
  <2>1. state' \in {Failed, UnknownFailed} /\ endPoint' \in Positions /\ state < Failed
    BY <1>1, <1>5 DEF SetFailed, TypeOK
  <2>2. ControlType'
    BY <1>1, <1>5, <2>1 DEF SetFailed, ControlType, TypeOK
  <2>. QED BY <1>1, <1>5, <2>1, <2>2, ControlStep DEF SetFailed, ControlType
<1>6. CASE UpdateEnd(p)
  <2>1. popping' \in BOOLEAN
    BY <1>6 DEF UpdateEnd
  <2>2. ControlType'
    BY <1>1, <1>6, <2>1 DEF UpdateEnd, ControlType, TypeOK
  <2>. QED BY <1>6, <2>2, ControlStep DEF UpdateEnd
<1>7. CASE Remove
  <2>1. ControlType' /\ state' = PendingRemoval
    BY <1>1, <1>7 DEF Remove, ControlType, TypeOK
  <2>. QED BY <1>7, <2>1, ControlStep DEF Remove
<1>8. CASE DependsAdvance
  <2>1. popping' \in BOOLEAN
    BY <1>8 DEF DependsAdvance
  <2>2. ready' \in [out : Positions, data : Positions]
    <3>1. ready.out \in 0..Length /\ ready.data \in 0..Length
          /\ ready \in [out : Positions, data : Positions]
      BY <1>1 DEF ControlType, Positions
    <3>2. CASE ready.out < Length /\ ready' = [ready EXCEPT !.out = @ + 1]
      <4>1. ready.out + 1 \in Positions
        BY <3>1, <3>2, Bounds DEF Positions
      <4>. QED BY <3>1, <3>2, <4>1
    <3>3. CASE ready.data < ready.out /\ ready' = [ready EXCEPT !.data = @ + 1]
      <4>1. ready.data + 1 \in Positions
        BY <3>1, <3>3, Bounds DEF Positions
      <4>. QED BY <3>1, <3>3, <4>1
    <3>. QED BY <1>8, <3>2, <3>3 DEF DependsAdvance
  <2>3. ControlType'
    BY <1>1, <1>8, <2>1, <2>2 DEF DependsAdvance, ControlType
  <2>. QED BY <1>8, <2>3, ControlStep DEF DependsAdvance
<1>9. CASE PopDone
  <2>1. popping' \in BOOLEAN
    BY <1>9 DEF PopDone
  <2>2. ControlType'
    BY <1>1, <1>9, <2>1 DEF PopDone, ControlType
  <2>. QED BY <1>9, <2>2, ControlStep DEF PopDone
<1>. QED BY <1>2, <1>3, <1>4, <1>5, <1>6, <1>7, <1>8, <1>9

-----------------------------------------------------------------------------
(* Steps that change the window *)

\* What CursorsOrdered says, with the type of the cursors at hand.
LEMMA Cursors ==
    ASSUME IInv
    PROVE  /\ nextInput \in 0..Length /\ nextOutput \in 0..Length
           /\ nextData \in 0..Length /\ firstPacket \in 0..Length
           /\ firstPacket <= nextData /\ nextData <= nextOutput
           /\ nextOutput <= nextInput /\ nextInput <= nextOutput + CacheSize
           /\ \A p \in have : p < nextInput
           /\ have \subseteq 0..(Length - 1) /\ holes \subseteq 0..(Length - 1)
  BY DEF IInv, TypeOK, CursorsOrdered, Positions, Sent

\* sender_push keeps the window and asks for every packet it skips.
LEMMA PushPreserves ==
    ASSUME IInv, NEW p \in Sent, Push(p)
    PROVE  IInv'
<1>. USE DEF New, Preparing, UnknownFailed, Stopped, PendingRemoval
<1>1. TypeOK /\ ControlType /\ WindowType
  BY TypeSplit DEF IInv
<1>2. p \in Positions /\ p \in 0..(Length - 1) /\ nextOutput \in Positions /\ nextInput \in Positions
  BY <1>1, Bounds DEF WindowType, Sent
<1>3. nextOutput <= p /\ p < nextOutput + CacheSize
  <2>1. Diff(nextOutput, p) = p - nextOutput
    BY <1>2, PositionDiff
  <2>. QED BY <1>2, <2>1, Bounds DEF Push, InWindow, Positions
<1>. DEFINE gap == IF nextInput <= p THEN nextInput..(p - 1) ELSE {}
            asked == IF state > Stopped THEN {} ELSE gap \ have
<1>4. /\ have' = have \cup {p}
      /\ holes' = (holes \cup asked) \ {p}
      /\ timers' = (timers \ {p}) \cup asked
      /\ nextInput' = IF nextInput <= p THEN p + 1 ELSE nextInput
  <2>1. Diff(nextInput, p) = p - nextInput
    BY <1>2, PositionDiff
  <2>2. Diff(nextInput, p) >= 0 <=> nextInput <= p
    BY <1>2, <2>1, Bounds DEF Positions
  <2>. QED BY <2>2 DEF Push, Insert
<1>5. UNCHANGED <<nextOutput, nextData, firstPacket, repeating, acked, popped>>
      /\ UNCHANGED <<stream, events, state, hold, dataStart, endPoint, ready, delivered, fault>>
      /\ state \in Preparing..Stopped
  BY DEF Push
<1>6. asked \subseteq Sent /\ p \notin asked
  <2>1. gap \subseteq 0..(Length - 1) /\ p \notin gap
    BY <1>2, Bounds, Cursors
  <2>. QED BY <2>1 DEF Sent
<1>7. TypeOK'
  <2>1. popping' \in BOOLEAN
    BY DEF Push
  <2>2. ControlType'
    BY <1>1, <1>5, <2>1 DEF ControlType
  <2>3. nextInput' \in Positions
    BY <1>2, <1>4, Bounds DEF Positions
  <2>4. /\ have' \subseteq Sent /\ holes' \subseteq Sent /\ timers' \subseteq have' \cup holes'
        /\ repeating' \subseteq have' /\ acked' \subseteq have' \cup holes' /\ popped' \subseteq have'
    BY <1>1, <1>4, <1>5, <1>6 DEF WindowType
  <2>5. WindowType'
    BY <1>1, <1>5, <2>3, <2>4 DEF WindowType
  <2>. QED BY <2>2, <2>5, TypeSplitNext
<1>8. CursorsOrdered'
  BY <1>2, <1>3, <1>4, <1>5, Cursors, Bounds DEF CursorsOrdered
<1>9. GapIsAskedFor'
  <2>1. SUFFICES ASSUME NEW q \in nextOutput..(nextInput' - 1)
                 PROVE  q \in have' \/ q \in holes' \cap timers'
                 \/ state = Stopped
    BY <1>5 DEF GapIsAskedFor
  <2>2. CASE q < nextInput
    BY <1>2, <1>4, <1>5, <2>1, <2>2, Cursors DEF IInv, GapIsAskedFor
  <2>3. CASE q >= nextInput /\ q # p
    <3>1. q \in gap
      BY <1>2, <1>4, <2>1, <2>3, Cursors
    <3>. QED BY <1>4, <1>5, <2>3, <3>1
  <2>. QED BY <1>2, <1>4, <2>1, <2>2, <2>3, Cursors
<1>10. NewIsEmpty' /\ PoppedIsBehind'
  BY <1>5 DEF IInv, NewIsEmpty, PoppedIsBehind
<1>. QED BY <1>7, <1>8, <1>9, <1>10 DEF IInv

\* A step that moves no cursor, takes no packet away and forgets no request
\* below the newest packet.
LEMMA RepairStep ==
    ASSUME IInv, ControlType', state' = state, UNCHANGED <<cursors, have, popped>>,
           holes' \subseteq Sent, holes \subseteq holes',
           timers' \subseteq have \cup holes',
           state <= UnknownFailed => holes \cap timers \subseteq have \cup timers',
           repeating' \subseteq have, acked' = acked
    PROVE  IInv'
<1>1. TypeOK /\ WindowType
  BY TypeSplit DEF IInv
<1>2. UNCHANGED <<nextInput, nextOutput, nextData, firstPacket>>
  BY DEF cursors
<1>3. TypeOK'
  BY <1>1, <1>2, TypeSplitNext DEF WindowType
<1>4. GapIsAskedFor'
  BY <1>1, <1>2 DEF IInv, GapIsAskedFor, TypeOK, Preparing, UnknownFailed, New, PendingRemoval
<1>. QED BY <1>2, <1>3, <1>4 DEF IInv, CursorsOrdered, NewIsEmpty, PoppedIsBehind

\* Requests of other members, session messages and the timers of the entries.
LEMMA RepairPreserves ==
    ASSUME IInv, NEW p \in Positions,
           Seen(p) \/ (p \in Sent /\ (RepairRequest(p) \/ RequestTimeout(p) \/ RepairTimeout(p)))
    PROVE  IInv'
<1>. USE DEF UnknownFailed, Stopped
<1>1. TypeOK /\ ControlType /\ WindowType /\ state \in 0..7
  BY TypeSplit DEF IInv, TypeOK, New, PendingRemoval
<1>2. ASSUME NEW S, S \subseteq Sent, ScheduleRepair(S)
      PROVE  /\ holes' \subseteq Sent /\ holes \subseteq holes'
             /\ timers' \subseteq have \cup holes'
             /\ timers \subseteq timers'
  BY <1>1, <1>2 DEF ScheduleRepair, WindowType
<1>3. CASE Seen(p)
  <2>. DEFINE last == IF PacketDiff(Plus(Wire(nextOutput), CacheSize), Wire(p)) > 0
                      THEN nextOutput + CacheSize ELSE p
  <2>1. PacketDiff(Plus(Wire(nextOutput), CacheSize), Wire(p)) = p - (nextOutput + CacheSize)
    BY <1>1, WindowEnd DEF WindowType
  <2>2. last \in Nat /\ last <= p
    BY <1>1, <2>1, Bounds DEF WindowType, Positions
  <2>3. nextInput..(last - 1) \subseteq Sent
    BY <1>1, <2>2, Bounds DEF WindowType, Positions, Sent
  <2>. HIDE DEF last
  <2>4. \/ ScheduleRepair(nextInput..(last - 1)) /\ UNCHANGED fault
        \/ fault' = "endless" /\ UNCHANGED <<holes, timers>>
    BY <1>3 DEF Seen, last
  <2>5. UNCHANGED <<cursors, have, repeating, acked, popped, stream, events, state, hold,
                    dataStart, endPoint, ready, popping, delivered>>
    BY <1>3 DEF Seen
  <2>6. /\ holes' \subseteq Sent /\ holes \subseteq holes'
        /\ timers' \subseteq have \cup holes' /\ timers \subseteq timers'
    BY <1>1, <1>2, <2>3, <2>4 DEF WindowType
  <2>7. ControlType'
    BY <1>1, <2>4, <2>5 DEF ControlType
  <2>. QED BY <1>1, <2>5, <2>6, <2>7, RepairStep DEF WindowType
<1>4. CASE p \in Sent /\ RepairRequest(p)
  <2>1. nextOutput..p \subseteq Sent
    BY <1>1, <1>4, Bounds DEF WindowType, Positions, Sent
  <2>2. /\ holes' \subseteq Sent /\ holes \subseteq holes'
        /\ timers' \subseteq have \cup holes' /\ timers \subseteq timers'
        /\ fault' \in {fault, "none", "assert"}
    BY <1>1, <1>2, <1>4, <2>1 DEF RepairRequest, WindowType
  <2>3. UNCHANGED <<cursors, have, repeating, acked, popped, stream, events, state, hold,
                    dataStart, endPoint, ready, popping, delivered>>
    BY <1>4 DEF RepairRequest
  <2>4. ControlType'
    BY <1>1, <2>2, <2>3 DEF ControlType
  <2>. QED BY <1>1, <2>2, <2>3, <2>4, RepairStep DEF WindowType
<1>5. CASE RequestTimeout(p)
  <2>1. UNCHANGED <<cursors, have, holes, repeating, acked, popped, control>>
        /\ timers' \subseteq timers /\ (state <= UnknownFailed => timers' = timers)
    BY <1>1, <1>5 DEF RequestTimeout
  <2>2. ControlType' /\ state' = state
    BY <1>1, <2>1 DEF ControlType, control
  <2>. QED BY <1>1, <2>1, <2>2, RepairStep DEF WindowType
<1>6. CASE RepairTimeout(p)
  <2>1. UNCHANGED <<cursors, have, holes, repeating, acked, popped, control>>
        /\ timers' \subseteq timers /\ timers \subseteq have \cup timers'
    BY <1>1, <1>6 DEF RepairTimeout
  <2>2. ControlType' /\ state' = state
    BY <1>1, <2>1 DEF ControlType, control
  <2>. QED BY <1>1, <2>1, <2>2, RepairStep DEF WindowType
<1>. QED BY <1>3, <1>4, <1>5, <1>6

\* sender_stop cancels every timer of a sender that is then past the states
\* that ask for packets.
LEMMA StopPreserves == ASSUME IInv, Stop PROVE IInv'
<1>1. TypeOK /\ ControlType /\ WindowType
  BY TypeSplit DEF IInv
<1>2. /\ state' = Stopped /\ timers' = {}
      /\ UNCHANGED <<nextInput, nextOutput, nextData, firstPacket, have, holes, repeating, acked,
                     popped, stream, events, hold, dataStart, endPoint, ready, popping, delivered, fault>>
  BY DEF Stop, cursors
<1>3. ControlType' /\ WindowType'
  BY <1>1, <1>2 DEF ControlType, WindowType, New, Stopped, PendingRemoval
<1>4. NewIsEmpty' /\ GapIsAskedFor' /\ CursorsOrdered' /\ PoppedIsBehind'
  BY <1>2 DEF IInv, NewIsEmpty, GapIsAskedFor, CursorsOrdered, PoppedIsBehind, New, Preparing,
              UnknownFailed, Stopped
<1>. QED BY <1>3, <1>4, TypeSplitNext DEF IInv

\* sender_update_start: nothing lies between the cursors any more.
LEMMA UpdateStartPreserves ==
    ASSUME IInv, NEW p \in Positions, UpdateStart(p)
    PROVE  IInv'
<1>. USE DEF New, Preparing, UnknownFailed, PendingRemoval
<1>1. TypeOK /\ ControlType /\ WindowType
  BY TypeSplit DEF IInv
<1>2. /\ nextInput' = p /\ nextOutput' = p /\ nextData' = p
      /\ UNCHANGED <<have, holes, repeating, acked, popped, stream, events, hold, dataStart,
                     endPoint, ready, popping, delivered, fault>>
  BY DEF UpdateStart
<1>3. \/ /\ have = {} /\ state' = Preparing /\ firstPacket' = p /\ timers' = timers
      \/ /\ state' = state /\ state # New /\ firstPacket' = firstPacket /\ timers' \subseteq timers
         /\ nextInput < p
  <2>1. Diff(nextInput, p) = p - nextInput
    BY <1>1, PositionDiff DEF WindowType
  <2>2. Diff(nextInput, p) > 0 => nextInput < p
    BY <1>1, <2>1, Bounds DEF WindowType
  <2>. QED BY <2>2 DEF UpdateStart, IInv, NewIsEmpty
<1>4. TypeOK'
  <2>1. ControlType'
    BY <1>1, <1>2, <1>3 DEF ControlType
  <2>2. WindowType'
    BY <1>1, <1>2, <1>3 DEF WindowType
  <2>. QED BY <2>1, <2>2, TypeSplitNext
<1>5. CursorsOrdered' /\ GapIsAskedFor'
  BY <1>2, <1>3, Bounds, Cursors DEF CursorsOrdered, GapIsAskedFor, Positions
<1>6. NewIsEmpty' /\ PoppedIsBehind'
  <2>1. \A q \in popped : q < p
    BY <1>1, <1>3, Cursors, Bounds DEF WindowType, Positions, Sent
  <2>. QED BY <1>2, <1>3, <2>1 DEF NewIsEmpty, PoppedIsBehind
<1>. QED BY <1>4, <1>5, <1>6 DEF IInv

-----------------------------------------------------------------------------
(* Garbage collection *)

\* What packet_info_try_gc leaves: it takes away only packets that were
\* popped, with their timer, and moves first_packet no further than `limit`.
LEMMA CollectFacts ==
    ASSUME IInv, NEW S, NEW ack, NEW pop, NEW rep, NEW limit,
           Collect(S, ack, pop, rep, limit),
           ack \subseteq Cached, pop \subseteq have, rep \subseteq have,
           limit \in Positions, firstPacket <= limit
    PROVE  /\ have' \subseteq have /\ have \ have' \subseteq pop
           /\ timers' \subseteq have' \cup holes /\ timers \ timers' \subseteq pop
           /\ repeating' \subseteq have' /\ acked' \subseteq have' \cup holes
           /\ popped' \subseteq have' /\ popped' \subseteq pop
           /\ firstPacket' \in Positions /\ firstPacket' <= limit
<1>1. WindowType
  BY TypeSplit DEF IInv
<1>. DEFINE gone == (S \cap have \cap ack \cap pop) \ rep
            left == Cached \ gone
            T == {x \in firstPacket..limit : x \in left \/ x = limit}
<1>2. /\ have' = have \ gone /\ timers' = timers \ gone
      /\ acked' = ack \ gone /\ popped' = pop \ gone /\ repeating' = rep
      /\ firstPacket' = IF firstPacket \in gone THEN Minimum(T) ELSE firstPacket
  BY DEF Collect
<1>3. gone \subseteq pop /\ gone \cap rep = {}
  OBVIOUS
<1>. HIDE DEF gone
<1>4. Minimum(T) \in firstPacket..limit
  <2>1. firstPacket \in Nat /\ limit \in Nat
    BY <1>1, Bounds DEF WindowType, Positions
  <2>2. limit \in T /\ T \in SUBSET Nat
    BY <2>1
  <2>3. Minimum(T) \in T
    BY <2>2, MinimumIn
  <2>. QED BY <2>3
<1>5. firstPacket' \in Positions /\ firstPacket' <= limit
  BY <1>1, <1>2, <1>4, Bounds DEF WindowType, Positions
<1>. QED BY <1>1, <1>2, <1>3, <1>5 DEF WindowType, Cached

\* A step that moves the output forward inside the window and takes away
\* nothing beyond it.
LEMMA OutputStep ==
    ASSUME IInv, ControlType',
           state' = New => state = New, state' <= UnknownFailed => state <= UnknownFailed,
           nextInput' = nextInput, holes' = holes,
           nextOutput' \in Positions, nextOutput <= nextOutput', nextOutput' <= nextInput,
           nextData' \in Positions, nextData' <= nextOutput',
           firstPacket' \in Positions, firstPacket' <= nextData',
           have' \subseteq have, timers' \subseteq have' \cup holes, repeating' \subseteq have',
           acked' \subseteq have' \cup holes, popped' \subseteq have',
           \A q \in popped' : q < nextOutput',
           \A q \in have \ have' : q < nextOutput',
           \A q \in timers \ timers' : q < nextOutput'
    PROVE  IInv'
<1>. USE DEF New, Preparing, UnknownFailed, PendingRemoval
<1>1. TypeOK /\ WindowType
  BY TypeSplit DEF IInv
<1>2. TypeOK'
  BY <1>1, TypeSplitNext DEF WindowType
<1>3. CursorsOrdered'
  BY <1>1, Bounds, Cursors DEF CursorsOrdered, Positions
<1>4. NewIsEmpty'
  BY <1>1, Bounds, Cursors DEF IInv, NewIsEmpty, Positions
<1>5. GapIsAskedFor'
  <2>1. SUFFICES ASSUME state' \in 1..5, NEW q \in nextOutput'..(nextInput - 1)
                 PROVE  q \in have' \/ q \in holes \cap timers'
    BY DEF GapIsAskedFor
  <2>2. q \in nextOutput..(nextInput - 1) /\ ~(q < nextOutput')
    BY <1>1, <2>1, Bounds DEF WindowType, Positions
  <2>3. state \in 1..5
    <3>1. state \in 0..5
      BY <1>1, <2>1 DEF TypeOK
    <3>2. state # 0
      BY <2>2, Cursors DEF IInv, NewIsEmpty
    <3>. QED BY <3>1, <3>2
  <2>4. q \in have \/ q \in holes \cap timers
    BY <2>2, <2>3 DEF IInv, GapIsAskedFor
  <2>. QED BY <2>2, <2>4
<1>. QED BY <1>2, <1>3, <1>4, <1>5 DEF IInv, PoppedIsBehind

\* sender_ack and the end of a repetition.
LEMMA CollectionPreserves ==
    ASSUME IInv, NEW p \in Positions, Ack(p) \/ SetPacketRepeat(p)
    PROVE  IInv'
<1>1. TypeOK /\ ControlType /\ WindowType
  BY TypeSplit DEF IInv
<1>2. firstPacket <= nextData /\ nextData \in Positions
      /\ nextOutput <= nextInput /\ nextOutput <= nextOutput /\ nextData <= nextOutput
  BY <1>1, Bounds DEF IInv, CursorsOrdered, WindowType
<1>3. \A q \in popped : q < nextOutput
  BY DEF IInv, PoppedIsBehind
<1>4. CASE Ack(p)
  <2>. DEFINE told == firstPacket..(p - 1)
  <2>1. /\ Collect(told, acked \cup (told \cap Cached), popped, repeating, nextData)
        /\ UNCHANGED <<nextInput, nextOutput, nextData, holes, control>>
    BY <1>4 DEF Ack
  <2>2. acked \cup (told \cap Cached) \subseteq Cached /\ popped \subseteq have /\ repeating \subseteq have
    BY <1>1 DEF WindowType, Cached
  <2>. HIDE DEF told
  <2>3. /\ have' \subseteq have /\ have \ have' \subseteq popped
        /\ timers' \subseteq have' \cup holes /\ timers \ timers' \subseteq popped
        /\ repeating' \subseteq have' /\ acked' \subseteq have' \cup holes
        /\ popped' \subseteq have' /\ popped' \subseteq popped
        /\ firstPacket' \in Positions /\ firstPacket' <= nextData
    BY <1>2, <2>1, <2>2, CollectFacts
  <2>4. ControlType' /\ state' = state
    BY <1>1, <2>1 DEF ControlType, control
  <2>. QED BY <1>1, <1>2, <1>3, <2>1, <2>3, <2>4, OutputStep DEF WindowType
<1>5. CASE SetPacketRepeat(p)
  <2>1. UNCHANGED <<nextInput, nextOutput, nextData, holes, control>> /\ p \in have
    BY <1>5 DEF SetPacketRepeat
  <2>2. ControlType' /\ state' = state
    BY <1>1, <2>1 DEF ControlType, control
  <2>3. CASE /\ repeating' = repeating \cup {p} /\ timers' = timers \cup {p}
             /\ UNCHANGED <<have, acked, popped, firstPacket>>
    BY <1>1, <1>2, <1>3, <2>1, <2>2, <2>3, OutputStep DEF WindowType
  <2>4. CASE Collect({p}, acked, popped, repeating \ {p}, nextData)
    <3>1. acked \subseteq Cached /\ popped \subseteq have /\ repeating \ {p} \subseteq have
      BY <1>1 DEF WindowType, Cached
    <3>2. /\ have' \subseteq have /\ have \ have' \subseteq popped
          /\ timers' \subseteq have' \cup holes /\ timers \ timers' \subseteq popped
          /\ repeating' \subseteq have' /\ acked' \subseteq have' \cup holes
          /\ popped' \subseteq have' /\ popped' \subseteq popped
          /\ firstPacket' \in Positions /\ firstPacket' <= nextData
      BY <1>2, <2>4, <3>1, CollectFacts
    <3>. QED BY <1>1, <1>2, <1>3, <2>1, <2>2, <3>2, OutputStep DEF WindowType
  <2>. QED BY <1>5, <2>3, <2>4 DEF SetPacketRepeat
<1>. QED BY <1>4, <1>5

-----------------------------------------------------------------------------
(* The pop loop *)

\* update_next_data_output_state ends between the message and the output.
LEMMA NextEndIn ==
    ASSUME NEW e \in Nat, NEW out \in Nat, e < out
    PROVE  NextEnd(e, out) \in (e + 1)..out
<1>. DEFINE ends == {p \in (e + 1)..(out - 1) : p \in have /\ IsData(p) /\ stream[p].last}
<1>1. ends \in SUBSET Nat /\ ends \subseteq (e + 1)..out
  OBVIOUS
<1>2. NextEnd(e, out) = IF ends = {} THEN out ELSE Minimum(ends)
  BY DEF NextEnd
<1>. HIDE DEF ends
<1>3. CASE ends = {}
  BY <1>2, <1>3
<1>4. CASE ends # {}
  <2>1. Minimum(ends) \in ends
    BY <1>1, <1>4, MinimumIn
  <2>. QED BY <1>1, <1>2, <1>4, <2>1
<1>. QED BY <1>3, <1>4

\* The fragments of a delivered message are cached and do not pass its end.
LEMMA FragmentsIn ==
    ASSUME IInv, NEW e \in Nat, StartsOf(e) # {}
    PROVE  Fragments(e) \subseteq have /\ \A q \in Fragments(e) : q <= e
<1>1. firstPacket \in Nat
  BY Bounds DEF IInv, TypeOK
<1>2. StartsOf(e) \subseteq firstPacket..e
  BY DEF StartsOf
<1>3. StartsOf(e) \in SUBSET (0..e)
  BY <1>1, <1>2
<1>4. FirstOf(e) \in StartsOf(e)
  BY <1>3, MaximumIn DEF FirstOf
<1>5. FirstOf(e) \in 0..e
  BY <1>3, <1>4
<1>. QED BY <1>5 DEF Fragments

\* Only a message with a first fragment is delivered.
LEMMA DeliveredHasStart ==
    ASSUME NEW e, DataFate(e) = "delivered" PROVE StartsOf(e) # {}
  BY DEF DataFate

\* pop_data_packet moves next_output_data_packet within the output, and takes
\* away nothing beyond the message.
LEMMA PopDataFacts ==
    ASSUME IInv, NEW e \in Sent, NEW out \in Positions, e < out, nextData <= e,
           PopData(e, out), state \in Preparing..Failed
    PROVE  /\ nextData' \in Positions /\ nextData' <= out /\ holes' = holes
           /\ firstPacket' \in Positions /\ firstPacket' <= nextData'
           /\ have' \subseteq have /\ timers' \subseteq have' \cup holes
           /\ repeating' \subseteq have' /\ acked' \subseteq have' \cup holes
           /\ popped' \subseteq have'
           /\ \A q \in popped' : q < nextOutput \/ q <= e
           /\ \A q \in have \ have' : q < nextOutput \/ q <= e
           /\ \A q \in timers \ timers' : q < nextOutput \/ q <= e
           /\ state' \in Preparing..Failed
           /\ delivered' \in Seq(Sent)
           /\ fault' \in {fault, "null", "size"}
<1>. USE DEF Preparing, Failed, DataRunning
<1>1. TypeOK /\ WindowType
  BY TypeSplit DEF IInv
<1>2. e \in Nat /\ out \in Nat /\ out \in 0..Length /\ firstPacket \in Nat /\ nextData \in Nat
      /\ firstPacket <= nextData
  BY <1>1, Bounds DEF WindowType, Positions, Sent, IInv, CursorsOrdered
<1>3. NextEnd(e, out) \in (e + 1)..out
  BY <1>2, NextEndIn
<1>4. NextEnd(e, out) \in Positions /\ e \in Positions
  BY <1>2, <1>3, Bounds DEF Positions
<1>5. \A q \in popped : q < nextOutput
  BY DEF IInv, PoppedIsBehind
<1>6. CASE /\ nextData' = NextEnd(e, out)
           /\ UNCHANGED <<firstPacket, entries, state, delivered, fault>>
  BY <1>1, <1>2, <1>3, <1>4, <1>5, <1>6 DEF entries, WindowType, TypeOK
<1>7. CASE /\ fault' \in {"null", "size"}
           /\ UNCHANGED <<nextData, firstPacket, entries, state, delivered>>
  BY <1>1, <1>2, <1>5, <1>7 DEF entries, WindowType, TypeOK
<1>8. CASE /\ DataFate(e) = "delivered" /\ nextData' = NextEnd(e, out)
           /\ state' = Later(DataRunning) /\ delivered' = Append(delivered, e)
           /\ Collect(Fragments(e), acked, popped \cup Fragments(e), repeating,
                      IF FirstOf(e) = e THEN NextEnd(e, out) ELSE e)
           /\ UNCHANGED <<holes, fault>>
  <2>. DEFINE limit == IF FirstOf(e) = e THEN NextEnd(e, out) ELSE e
              frags == Fragments(e)
  <2>1. limit \in Positions /\ firstPacket <= limit /\ limit <= NextEnd(e, out)
    BY <1>2, <1>3, <1>4
  <2>2. frags \subseteq have /\ \A q \in frags : q <= e
    BY <1>2, <1>8, DeliveredHasStart, FragmentsIn
  <2>3. Collect(frags, acked, popped \cup frags, repeating, limit)
    BY <1>8
  <2>. HIDE DEF limit, frags
  <2>4. acked \subseteq Cached /\ popped \cup frags \subseteq have /\ repeating \subseteq have
    BY <1>1, <2>2 DEF WindowType, Cached
  <2>5. /\ have' \subseteq have /\ have \ have' \subseteq popped \cup frags
        /\ timers' \subseteq have' \cup holes /\ timers \ timers' \subseteq popped \cup frags
        /\ repeating' \subseteq have' /\ acked' \subseteq have' \cup holes
        /\ popped' \subseteq have' /\ popped' \subseteq popped \cup frags
        /\ firstPacket' \in Positions /\ firstPacket' <= limit
    BY <2>1, <2>3, <2>4, CollectFacts
  <2>6. nextData' \in Positions /\ nextData' <= out /\ firstPacket' <= nextData'
    BY <1>2, <1>3, <1>4, <1>8, <2>1, <2>5, Bounds
  <2>7. state' \in Preparing..Failed
    BY <1>8 DEF Later
  <2>8. delivered' \in Seq(Sent)
    BY <1>1, <1>8 DEF TypeOK
  <2>. QED BY <1>5, <1>8, <2>2, <2>5, <2>6, <2>7, <2>8
<1>. QED BY <1>6, <1>7, <1>8 DEF PopData

\* A packet can be popped only when it is cached, hence before the input.
LEMMA CanPopFacts ==
    ASSUME IInv, CanPop
    PROVE  /\ nextOutput \in Sent /\ nextOutput \in have /\ nextOutput < nextInput
           /\ nextOutput + 1 \in Positions /\ nextOutput + 1 <= nextInput
           /\ nextOutput <= nextOutput + 1
<1>1. nextOutput \in have /\ have \subseteq Sent
  BY DEF CanPop, IInv, TypeOK
<1>. QED BY <1>1, Cursors, Bounds DEF Positions, Sent

\* What the step of pop_packet that delivers or passes a message leaves of the
\* control state.
LEMMA PopControlType ==
    ASSUME ControlType, state' \in New..PendingRemoval, hold' \in Positions \cup {None},
           delivered' \in Seq(Sent), fault' \in {fault, "null", "size"},
           UNCHANGED <<stream, events, dataStart, endPoint, ready, popping>>
    PROVE  ControlType'
  BY DEF ControlType

\* The pop loop keeps the invariant.
LEMMA PopPreserves == ASSUME IInv, Pop PROVE IInv'
<1>. USE DEF New, Preparing, Running, Failed, UnknownFailed, Stopped, PendingRemoval
<1>1. TypeOK /\ ControlType /\ WindowType /\ state \in 0..7
  BY TypeSplit DEF IInv, TypeOK
<1>2. \A q \in popped : q < nextOutput
  BY DEF IInv, PoppedIsBehind
<1>3. /\ firstPacket <= nextData /\ nextData <= nextOutput /\ nextOutput <= nextInput
      /\ nextOutput <= nextOutput /\ nextOutput \in 0..Length /\ nextData \in 0..Length
  BY Cursors
<1>4. CASE PopPending
  <2>1. state \in Preparing..Failed /\ PopData(nextData, nextOutput)
        /\ UNCHANGED <<nextInput, nextOutput, stream, events, hold, dataStart, endPoint, ready, popping>>
    BY <1>4 DEF PopPending, Runs
  <2>2. nextData < nextOutput /\ nextData \in Sent
    BY <1>3, <1>4, Bounds DEF PopPending, DataPending, Sent
  <2>3. nextOutput \in Positions /\ nextData <= nextData
    BY <1>1, <1>3 DEF WindowType
  <2>4. /\ nextData' \in Positions /\ nextData' <= nextOutput /\ holes' = holes
        /\ firstPacket' \in Positions /\ firstPacket' <= nextData'
        /\ have' \subseteq have /\ timers' \subseteq have' \cup holes
        /\ repeating' \subseteq have' /\ acked' \subseteq have' \cup holes /\ popped' \subseteq have'
        /\ \A q \in popped' : q < nextOutput \/ q <= nextData
        /\ \A q \in have \ have' : q < nextOutput \/ q <= nextData
        /\ \A q \in timers \ timers' : q < nextOutput \/ q <= nextData
        /\ state' \in Preparing..Failed /\ delivered' \in Seq(Sent)
        /\ fault' \in {fault, "null", "size"}
    BY <2>1, <2>2, <2>3, PopDataFacts
  <2>5. ControlType'
    BY <1>1, <2>1, <2>4, PopControlType DEF ControlType
  <2>6. have \subseteq Nat /\ timers \subseteq Nat
    BY <1>1, Bounds DEF WindowType
  <2>7. /\ \A q \in popped' : q < nextOutput
        /\ \A q \in have \ have' : q < nextOutput
        /\ \A q \in timers \ timers' : q < nextOutput
    BY <1>3, <2>2, <2>4, <2>6
  <2>8. state' # New /\ state' <= UnknownFailed /\ state <= UnknownFailed
    BY <2>1, <2>4
  <2>. QED BY <1>3, <2>1, <2>3, <2>4, <2>5, <2>7, <2>8, OutputStep
<1>5. CASE PopFragment
  <2>1. /\ nextOutput' = nextOutput + 1 /\ nextData' \in {nextData, nextData + 1}
        /\ (nextData' = nextData + 1 => nextData = nextOutput)
        /\ UNCHANGED <<nextInput, firstPacket, entries, control>> /\ CanPop
    BY <1>3, <1>5 DEF PopFragment, DataPending
  <2>2. nextData' \in Positions /\ nextData' <= nextOutput' /\ firstPacket <= nextData'
    BY <1>1, <1>3, <2>1, CanPopFacts, Bounds, Cursors DEF WindowType
  <2>3. ControlType' /\ state' = state
    BY <1>1, <2>1 DEF ControlType, control
  <2>4. UNCHANGED <<have, holes, timers, repeating, acked, popped>>
    BY <2>1 DEF entries
  <2>5. \A q \in popped : q < nextOutput + 1
    BY <1>1, <1>2, <1>3, Bounds DEF WindowType
  <2>. QED BY <1>1, <2>1, <2>2, <2>3, <2>4, <2>5, CanPopFacts, OutputStep DEF WindowType
<1>6. CASE PopEnd
  <2>1. /\ state \in Preparing..Failed /\ CanPop /\ nextData = nextOutput
        /\ nextOutput' = nextOutput + 1
        /\ UNCHANGED <<nextInput, stream, events, hold, dataStart, endPoint, ready, popping>>
    BY <1>6 DEF PopEnd, Runs, DataPending
  <2>2. CASE PopData(nextOutput, nextOutput + 1)
    <3>1. nextOutput < nextOutput + 1 /\ nextData <= nextOutput
      BY <1>3
    <3>2. /\ nextData' \in Positions /\ nextData' <= nextOutput + 1 /\ holes' = holes
          /\ firstPacket' \in Positions /\ firstPacket' <= nextData'
          /\ have' \subseteq have /\ timers' \subseteq have' \cup holes
          /\ repeating' \subseteq have' /\ acked' \subseteq have' \cup holes /\ popped' \subseteq have'
          /\ \A q \in popped' : q < nextOutput \/ q <= nextOutput
          /\ \A q \in have \ have' : q < nextOutput \/ q <= nextOutput
          /\ \A q \in timers \ timers' : q < nextOutput \/ q <= nextOutput
          /\ state' \in Preparing..Failed /\ delivered' \in Seq(Sent)
          /\ fault' \in {fault, "null", "size"}
      BY <2>1, <2>2, <3>1, CanPopFacts, PopDataFacts
    <3>3. ControlType'
      BY <1>1, <2>1, <3>2, PopControlType DEF ControlType
    <3>4. have \subseteq Nat /\ timers \subseteq Nat
      BY <1>1, Bounds DEF WindowType
    <3>5. /\ \A q \in popped' : q < nextOutput + 1
          /\ \A q \in have \ have' : q < nextOutput + 1
          /\ \A q \in timers \ timers' : q < nextOutput + 1
      BY <1>3, <3>2, <3>4
    <3>6. state' # New /\ state' <= UnknownFailed /\ state <= UnknownFailed
      BY <2>1, <3>2
    <3>. QED BY <2>1, <3>2, <3>3, <3>5, <3>6, CanPopFacts, OutputStep
  <2>3. CASE UNCHANGED <<nextData, firstPacket, entries, state, delivered, fault>>
    <3>1. UNCHANGED <<have, holes, timers, repeating, acked, popped>>
      BY <2>3 DEF entries
    <3>2. ControlType'
      BY <1>1, <2>1, <2>3 DEF ControlType
    <3>3. nextData <= nextOutput + 1 /\ \A q \in popped : q < nextOutput + 1
      BY <1>1, <1>2, <1>3, Bounds DEF WindowType
    <3>. QED BY <1>1, <1>3, <2>1, <2>3, <3>1, <3>2, <3>3, CanPopFacts, OutputStep DEF WindowType
  <2>. QED BY <1>6, <2>2, <2>3 DEF PopEnd
<1>7. CASE PopControl
  <2>. DEFINE limit == IF DataPending THEN nextData ELSE nextData + 1
  <2>1. /\ state \in Preparing..Failed /\ CanPop
        /\ nextOutput' = nextOutput + 1 /\ nextData' = limit
        /\ UNCHANGED <<nextInput, holes, stream, events, dataStart, endPoint, ready, popping,
                       delivered, fault>>
    BY <1>7 DEF PopControl, Runs
  <2>2. Collect({nextOutput}, acked, popped \cup {nextOutput}, repeating, limit)
    BY <1>7, <2>1 DEF PopControl, Collect
  <2>3. /\ limit \in Positions /\ firstPacket <= limit /\ limit <= nextOutput + 1
    BY <1>1, <1>3, <2>1, CanPopFacts, Cursors, Bounds DEF DataPending, WindowType
  <2>4. state' \in Preparing..Failed /\ hold' \in Positions \cup {None}
    BY <1>1, <1>7, <2>1 DEF PopControl, Later, ControlType, WindowType
  <2>5. ControlType'
    BY <1>1, <2>1, <2>4, PopControlType DEF ControlType
  <2>. HIDE DEF limit
  <2>6. acked \subseteq Cached /\ popped \cup {nextOutput} \subseteq have /\ repeating \subseteq have
    BY <1>1, <2>1, CanPopFacts DEF WindowType, Cached
  <2>7. /\ have' \subseteq have /\ have \ have' \subseteq popped \cup {nextOutput}
        /\ timers' \subseteq have' \cup holes /\ timers \ timers' \subseteq popped \cup {nextOutput}
        /\ repeating' \subseteq have' /\ acked' \subseteq have' \cup holes
        /\ popped' \subseteq have' /\ popped' \subseteq popped \cup {nextOutput}
        /\ firstPacket' \in Positions /\ firstPacket' <= limit
    BY <2>2, <2>3, <2>6, CollectFacts
  <2>8. \A q \in popped \cup {nextOutput} : q < nextOutput + 1
    BY <1>1, <1>2, <1>3, Bounds DEF WindowType
  <2>9. state' # New /\ state' <= UnknownFailed /\ state <= UnknownFailed
    BY <2>1, <2>4
  <2>. QED BY <2>1, <2>3, <2>5, <2>7, <2>8, <2>9, CanPopFacts, OutputStep
<1>8. CASE PopDone
  <2>1. 0 \in Positions
    BY Bounds DEF Positions
  <2>. QED BY <1>8, <2>1, CallsPreserve
<1>. QED BY <1>4, <1>5, <1>6, <1>7, <1>8 DEF Pop

-----------------------------------------------------------------------------
(* The theorems *)

LEMMA NextPreserves == ASSUME IInv, [Next]_vars PROVE IInv'
<1>1. 0 \in Positions /\ Sent \subseteq Positions
  BY Bounds DEF Positions
<1>2. ASSUME NEW p \in Sent, Push(p) \/ RepairRequest(p) \/ SetPacketRepeat(p)
                             \/ RequestTimeout(p) \/ RepairTimeout(p)
      PROVE  IInv'
  BY <1>1, <1>2, PushPreserves, RepairPreserves, CollectionPreserves
<1>3. ASSUME NEW p \in Positions, Seen(p) \/ Ack(p) \/ UpdateStart(p) \/ UpdateEnd(p)
      PROVE  IInv'
  BY <1>3, RepairPreserves, CollectionPreserves, UpdateStartPreserves, CallsPreserve
<1>4. CASE SetDataStart \/ HoldData \/ ReleaseData \/ SetFailed \/ Remove \/ DependsAdvance
  BY <1>1, <1>4, CallsPreserve
<1>5. CASE Stop
  BY <1>5, StopPreserves
<1>6. CASE Pop
  BY <1>6, PopPreserves
<1>7. CASE UNCHANGED vars
  <2>1. UNCHANGED <<cursors, entries, control>>
    BY <1>7 DEF vars
  <2>2. ControlType' /\ state' = state
    BY <2>1, TypeSplit DEF IInv, ControlType, control
  <2>. QED BY <2>1, <2>2, ControlStep
<1>. QED BY <1>2, <1>3, <1>4, <1>5, <1>6, <1>7 DEF Next

\* The four parts hold in every reachable state.
THEOREM Inductive == Spec => []IInv
<1>1. Init => IInv
  BY InitIInv
<1>2. IInv /\ [Next]_vars => IInv'
  BY NextPreserves
<1>. QED BY <1>1, <1>2, PTL DEF Spec

\* The state of a sender always has its type: flags and timers belong to
\* entries of packet_cache, only packets that arrived repeat or are popped.
THEOREM TypeCorrect == Spec => []TypeOK
<1>1. IInv => TypeOK
  BY DEF IInv
<1>. QED BY <1>1, Inductive, PTL

\* The cursors of a sender never pass one another and the window never exceeds
\* the cache, whatever arrives, times out or is called: the != loops of
\* insert_packet, sender_seen and sender_ack end, and
\* next_output_data_packet <= next_output_packet.
THEOREM CursorsStayOrdered == Spec => []CursorsOrdered
<1>1. IInv => CursorsOrdered
  BY DEF IInv
<1>. QED BY <1>1, Inductive, PTL

\* No gap is forgotten: until the sender is stopped, each packet between the
\* output and the newest one seen is cached or has its request timer running.
THEOREM NoGapIsForgotten == Spec => []GapIsAskedFor
<1>1. IInv => GapIsAskedFor
  BY DEF IInv
<1>. QED BY <1>1, Inductive, PTL

-----------------------------------------------------------------------------
(***************************************************************************)
(* What a sender delivers, in the same generality: the data that           *)
(* DataDelivery promises, in order and without a gap, and without a call   *)
(* that goes wrong.                                                        *)
(*                                                                         *)
(* The argument: what the listener may claim, from the data start or from   *)
(* the point where data is held, is cached until its message is delivered.  *)
(* So the backward search for the first fragment of the next message finds  *)
(* it, and the messages between two ends are none.                         *)
(***************************************************************************)

\* The last fragment of a message, and the message that it ends.
End(e) == e \in Sent /\ IsData(e) /\ stream[e].last
MessageTo(e) == {p \in 0..e : /\ IsData(p) /\ stream[p].stream = stream[e].stream
                              /\ \A s \in Promise!Starts(e) : s <= p}

\* What a delivered message contains; what the listener claims.
Covered(p) == \E e \in Promise!Delivered : p \in MessageTo(e)
Claimed(p) == (hold # None /\ hold <= p) \/ (dataStart # None /\ dataStart <= p)

\* Claimed data that was put out is cached or delivered, and no claimed message
\* was passed over.
Kept == \A p \in Sent : p < nextOutput /\ IsData(p) /\ Claimed(p) => p \in have \/ Covered(p)
Passed ==
    \A e \in Sent : End(e) /\ e < nextData /\ (\E s \in Promise!Starts(e) : Claimed(s))
                        => e \in Promise!Delivered

\* Delivered messages lie behind the data cursor, and only their data is marked
\* as popped.
Behind == \A e \in Promise!Delivered : End(e) /\ e < nextData
PoppedIsDelivered == \A p \in popped : IsData(p) => Covered(p)

\* A message that is pending ends at the data cursor, and is not collected.
PendingIsEnd == nextData < nextOutput => nextData \in have /\ End(nextData)

FromFirst == \A p \in Cached : firstPacket <= p
Apart == have \cap holes = {}
NewIsBare == state = New => holes = {} /\ delivered = <<>>

DataInv == Kept /\ Passed /\ Behind /\ PoppedIsDelivered
EntryInv == PendingIsEnd /\ FromFirst /\ Apart /\ NewIsBare
DInv == IInv /\ DataInv /\ EntryInv

-----------------------------------------------------------------------------
(* Messages *)

LEMMA AfterAnEnd ==
    ASSUME TypeOK, NEW p \in Sent, NEW q \in Sent, p < q, IsData(p), stream[p].last,
           IsData(q), stream[q].stream = stream[p].stream
    PROVE  \E r \in (p + 1)..q : IsData(r) /\ stream[r].stream = stream[p].stream /\ stream[r].first
<1>1. PICK s \in Scenarios : stream = s.stream
  BY DEF TypeOK
<1>. QED BY <1>1, StreamAssumption DEF IsData

\* No other message ends between a packet of a message and its end.
LEMMA OneMessage ==
    ASSUME TypeOK, NEW e, NEW f, End(e), End(f), NEW p \in MessageTo(e), p \in MessageTo(f)
    PROVE  ~(f < e)
<1>. SUFFICES ASSUME f < e PROVE FALSE
  OBVIOUS
<1>1. e \in Sent /\ f \in Sent /\ e \in Nat /\ f \in Nat /\ p \in 0..f /\ p <= f
  BY Bounds DEF End, MessageTo
<1>2. stream[e].stream = stream[p].stream /\ stream[f].stream = stream[p].stream
      /\ IsData(e) /\ IsData(f) /\ stream[f].last
  BY DEF End, MessageTo
<1>3. PICK r \in (f + 1)..e : IsData(r) /\ stream[r].stream = stream[f].stream /\ stream[r].first
  BY <1>1, <1>2, AfterAnEnd
<1>4. r \in Promise!Starts(e)
  BY <1>1, <1>2, <1>3 DEF Promise!Starts, Promise!IsData, IsData
<1>5. r <= p
  BY <1>4 DEF MessageTo
<1>. QED BY <1>1, <1>3, <1>5

\* The only end in a message is its own.
LEMMA OwnEnd ==
    ASSUME TypeOK, NEW e, NEW f, End(e), End(f), f \in MessageTo(e)
    PROVE  f = e
<1>1. e \in Sent /\ f \in Sent /\ e \in Nat /\ f \in Nat /\ f <= e /\ f \in 0..e
  BY Bounds DEF End, MessageTo
<1>2. stream[e].stream = stream[f].stream /\ IsData(e) /\ IsData(f) /\ stream[f].last
  BY DEF End, MessageTo
<1>3. ASSUME f < e PROVE FALSE
  <2>1. PICK r \in (f + 1)..e : IsData(r) /\ stream[r].stream = stream[f].stream /\ stream[r].first
    BY <1>1, <1>2, <1>3, AfterAnEnd
  <2>2. r \in Promise!Starts(e)
    BY <1>1, <1>2, <2>1 DEF Promise!Starts, Promise!IsData, IsData
  <2>3. r <= f
    BY <2>2 DEF MessageTo
  <2>. QED BY <1>1, <2>1, <2>3
<1>. QED BY <1>1, <1>3

\* Messages do not change, and what is delivered stays delivered.
LEMMA MessagesStay ==
    ASSUME stream' = stream
    PROVE  /\ \A p : (IsData(p))' = IsData(p) /\ (End(p))' = End(p)
           /\ \A e : (MessageTo(e))' = MessageTo(e) /\ (Promise!Starts(e))' = Promise!Starts(e)
           /\ \A p : Promise!Delivered \subseteq Promise!Delivered' /\ Covered(p) => (Covered(p))'
<1>1. \A p : (IsData(p))' = IsData(p) /\ (End(p))' = End(p)
  BY DEF IsData, End
<1>2. \A e : (Promise!Starts(e))' = Promise!Starts(e)
  BY DEF Promise!Starts, Promise!IsData
<1>3. \A e : (MessageTo(e))' = MessageTo(e)
  BY <1>1, <1>2 DEF MessageTo
<1>4. \A p : Promise!Delivered \subseteq Promise!Delivered' /\ Covered(p) => (Covered(p))'
  BY <1>3 DEF Covered
<1>. QED BY <1>1, <1>2, <1>3, <1>4

-----------------------------------------------------------------------------
(* Steps that deliver nothing *)

\* What is claimed after the step, was so before or is cached; what was taken
\* away was popped or is no data.
LEMMA NothingDelivered ==
    ASSUME IInv, DataInv, stream' = stream, delivered' = delivered,
           \A p \in Sent : IsData(p) /\ p < nextOutput' /\ Claimed(p)'
                               => (p < nextOutput /\ Claimed(p)) \/ p \in have',
           \A e \in Sent : End(e) /\ e < nextData' /\ (\E s \in Promise!Starts(e) : Claimed(s)')
                               => e < nextData /\ \E s \in Promise!Starts(e) : Claimed(s),
           nextData <= nextData' \/ delivered = <<>>, nextData' \in Positions,
           \A p \in have \ have' : p \in popped \/ ~IsData(p),
           \A p \in popped' : p \in popped \/ ~IsData(p)
    PROVE  DataInv'
<1>1. Promise!Delivered' = Promise!Delivered
  BY DEF Promise!Delivered
<1>2. \A p : (IsData(p))' = IsData(p) /\ (End(p))' = End(p) /\ (Covered(p) => (Covered(p))')
            /\ (Promise!Starts(p))' = Promise!Starts(p)
  BY <1>1, MessagesStay
<1>3. Kept'
  <2>1. SUFFICES ASSUME NEW p \in Sent, p < nextOutput', IsData(p), Claimed(p)', p \notin have'
                 PROVE  Covered(p)'
    BY <1>2 DEF Kept
  <2>2. p < nextOutput /\ Claimed(p)
    BY <2>1
  <2>3. p \in have \/ Covered(p)
    BY <2>1, <2>2 DEF DataInv, Kept
  <2>4. p \in popped => Covered(p)
    BY <2>1 DEF DataInv, PoppedIsDelivered
  <2>. QED BY <1>2, <2>1, <2>3, <2>4
<1>4. Passed'
  BY <1>1, <1>2 DEF DataInv, Passed
<1>5. Behind'
  <2>1. CASE delivered = <<>>
    <3>1. Promise!Delivered = {}
      BY <2>1 DEF Promise!Delivered
    <3>. QED BY <1>1, <3>1 DEF Behind
  <2>2. CASE nextData <= nextData'
    <3>1. nextData \in Nat /\ nextData' \in Nat /\ Sent \subseteq Nat
      BY Bounds DEF IInv, TypeOK
    <3>2. SUFFICES ASSUME NEW e \in Promise!Delivered PROVE End(e) /\ e < nextData'
      BY <1>1, <1>2 DEF Behind
    <3>3. End(e) /\ e < nextData /\ e \in Nat
      BY <3>1, <3>2 DEF DataInv, Behind, End
    <3>. QED BY <2>2, <3>1, <3>3
  <2>. QED BY <2>1, <2>2
<1>6. PoppedIsDelivered'
  BY <1>2 DEF DataInv, PoppedIsDelivered
<1>. QED BY <1>3, <1>4, <1>5, <1>6 DEF DataInv

\* A step that leaves the cursors and the data alone and asks for packets that
\* are ahead.
LEMMA RepairKeeps ==
    ASSUME DInv,
           UNCHANGED <<stream, have, popped, nextOutput, nextData, firstPacket, hold, dataStart, delivered>>,
           \A h \in holes' : h \in holes \/ (h \in Nat /\ h \notin have /\ nextOutput <= h),
           state' = New => state = New /\ holes' = holes
    PROVE  DataInv' /\ EntryInv'
<1>1. \A p : Claimed(p)' = Claimed(p)
  BY DEF Claimed
<1>2. nextData \in Nat /\ nextData \in Positions /\ firstPacket \in Nat /\ nextOutput \in Nat
      /\ firstPacket <= nextOutput
  BY Bounds DEF DInv, IInv, TypeOK, CursorsOrdered
<1>3. DataInv'
  BY <1>1, <1>2, NothingDelivered DEF DInv
<1>4. PendingIsEnd'
  BY MessagesStay DEF DInv, EntryInv, PendingIsEnd
<1>5. FromFirst'
  BY <1>2 DEF DInv, EntryInv, FromFirst, Cached
<1>6. Apart' /\ NewIsBare'
  BY DEF DInv, EntryInv, Apart, NewIsBare
<1>. QED BY <1>3, <1>4, <1>5, <1>6 DEF EntryInv

\* The calls, timers and requests that leave the data alone.
LEMMA OthersKeep ==
    ASSUME DInv, NEW p \in Positions,
           \/ Seen(p) \/ (p \in Sent /\ (RepairRequest(p) \/ RequestTimeout(p) \/ RepairTimeout(p)))
           \/ SetFailed \/ UpdateEnd(p) \/ Stop \/ Remove \/ DependsAdvance \/ PopDone
           \/ UNCHANGED vars
    PROVE  DataInv' /\ EntryInv'
<1>. USE DEF New, Preparing, Failed, UnknownFailed, Stopped, PendingRemoval
<1>1. /\ nextInput \in Nat /\ nextOutput \in Nat /\ nextOutput <= nextInput /\ state \in 0..7
      /\ nextOutput \in Positions /\ nextInput \in Positions
  BY Bounds DEF DInv, IInv, TypeOK, CursorsOrdered
<1>2. ASSUME NEW m, NEW n, m \in Nat, n \in Int, nextOutput <= m, ScheduleRepair(m..n)
      PROVE  \A h \in holes' : h \in holes \/ (h \in Nat /\ h \notin have /\ nextOutput <= h)
  BY <1>1, <1>2 DEF ScheduleRepair
<1>3. CASE Seen(p)
  <2>. DEFINE last == IF PacketDiff(Plus(Wire(nextOutput), CacheSize), Wire(p)) > 0
                      THEN nextOutput + CacheSize ELSE p
  <2>1. last - 1 \in Int
    BY <1>1, Bounds DEF Positions
  <2>2. \/ ScheduleRepair(nextInput..(last - 1))
        \/ UNCHANGED <<holes, timers>>
    BY <1>3 DEF Seen
  <2>. HIDE DEF last
  <2>3. \A h \in holes' : h \in holes \/ (h \in Nat /\ h \notin have /\ nextOutput <= h)
    BY <1>1, <1>2, <2>1, <2>2
  <2>4. /\ UNCHANGED <<stream, have, popped, nextOutput, nextData, firstPacket, hold, dataStart, delivered>>
        /\ state' = state /\ state # New
    BY <1>3 DEF Seen, cursors
  <2>. QED BY <2>3, <2>4, RepairKeeps
<1>4. CASE RepairRequest(p)
  <2>1. ScheduleRepair(nextOutput..p) \/ UNCHANGED holes
    BY <1>4 DEF RepairRequest
  <2>2. \A h \in holes' : h \in holes \/ (h \in Nat /\ h \notin have /\ nextOutput <= h)
    BY <1>1, <1>2, <2>1, Bounds DEF Positions
  <2>3. /\ UNCHANGED <<stream, have, popped, nextOutput, nextData, firstPacket, hold, dataStart, delivered>>
        /\ state' = state /\ state # New
    BY <1>1, <1>4 DEF RepairRequest, cursors
  <2>. QED BY <2>2, <2>3, RepairKeeps
<1>5. CASE RequestTimeout(p) \/ RepairTimeout(p)
  <2>1. UNCHANGED <<stream, have, holes, popped, nextOutput, nextData, firstPacket, hold, dataStart, delivered, state>>
    BY <1>5 DEF RequestTimeout, RepairTimeout, cursors, control
  <2>. QED BY <2>1, RepairKeeps
<1>6. CASE SetFailed \/ Stop \/ Remove
  <2>1. UNCHANGED <<stream, have, holes, popped, nextOutput, nextData, firstPacket, hold, dataStart, delivered>>
        /\ state' # New
    BY <1>6 DEF SetFailed, Stop, Remove, cursors, entries
  <2>. QED BY <2>1, RepairKeeps
<1>7. CASE UpdateEnd(p) \/ DependsAdvance \/ PopDone \/ UNCHANGED vars
  <2>1. UNCHANGED <<stream, have, holes, popped, nextOutput, nextData, firstPacket, hold, dataStart, delivered, state>>
    BY <1>7 DEF UpdateEnd, DependsAdvance, PopDone, vars, cursors, entries, control
  <2>. QED BY <2>1, RepairKeeps
<1>. QED BY <1>3, <1>4, <1>5, <1>6, <1>7

\* What arrives is ahead of the output, and what it skips is not there.
LEMMA PushKeeps == ASSUME DInv, NEW p \in Sent, Push(p) PROVE DataInv' /\ EntryInv'
<1>1. /\ nextInput \in Nat /\ nextOutput \in Nat /\ nextData \in Nat /\ firstPacket \in Nat /\ p \in Nat
      /\ nextData \in Positions /\ firstPacket <= nextOutput /\ nextOutput <= nextInput
      /\ nextOutput \in Positions /\ nextInput \in Positions /\ p \in Positions
      /\ have \subseteq Nat /\ holes \subseteq Nat
  BY Bounds DEF DInv, IInv, TypeOK, CursorsOrdered
<1>2. nextOutput <= p
  <2>1. Diff(nextOutput, p) = p - nextOutput
    BY <1>1, PositionDiff
  <2>. QED BY <1>1, <2>1 DEF Push, InWindow
<1>. DEFINE gap == IF Diff(nextInput, p) >= 0 THEN nextInput..(p - 1) ELSE {}
            asked == IF state > Stopped THEN {} ELSE gap \ have
<1>3. /\ have' = have \cup {p} /\ holes' = (holes \cup asked) \ {p}
      /\ UNCHANGED <<stream, popped, nextOutput, nextData, firstPacket, hold, dataStart, delivered>>
      /\ state' = state /\ state # New
  BY DEF Push, Insert, New, Preparing, Stopped
<1>4. \A h \in asked : h \in Nat /\ nextOutput <= h /\ h \notin have
  BY <1>1
<1>. HIDE DEF asked
<1>5. \A q : Claimed(q)' = Claimed(q)
  BY <1>3 DEF Claimed
<1>6. DataInv'
  BY <1>1, <1>3, <1>5, NothingDelivered DEF DInv
<1>7. PendingIsEnd'
  BY <1>3, MessagesStay DEF DInv, EntryInv, PendingIsEnd
<1>8. FromFirst'
  <2>1. \A h \in have' \cup holes' : h \in have \cup holes \/ (h \in Nat /\ nextOutput <= h)
    BY <1>1, <1>2, <1>3, <1>4
  <2>2. \A h \in have \cup holes : firstPacket <= h
    BY DEF DInv, EntryInv, FromFirst, Cached
  <2>. QED BY <1>1, <1>3, <2>1, <2>2 DEF FromFirst, Cached
<1>9. Apart' /\ NewIsBare'
  BY <1>3, <1>4 DEF DInv, EntryInv, Apart, NewIsBare
<1>. QED BY <1>6, <1>7, <1>8, <1>9 DEF EntryInv

\* What packet_info_try_gc leaves lies behind the first packet.
LEMMA CollectFirst ==
    ASSUME DInv, NEW S, NEW ack, NEW pop, NEW rep, NEW limit,
           Collect(S, ack, pop, rep, limit), limit \in Positions, firstPacket <= limit
    PROVE  /\ \A p \in have' \cup holes : firstPacket' <= p
           /\ have' \subseteq have /\ have \ have' \subseteq pop /\ popped' \subseteq pop
<1>. DEFINE gone == (S \cap have \cap ack \cap pop) \ rep
            left == Cached \ gone
            T == {x \in firstPacket..limit : x \in left \/ x = limit}
<1>1. /\ have' = have \ gone /\ popped' = pop \ gone
      /\ firstPacket' = IF firstPacket \in gone THEN Minimum(T) ELSE firstPacket
  BY DEF Collect
<1>2. gone \subseteq pop /\ gone \subseteq have
  OBVIOUS
<1>. HIDE DEF gone
<1>3. have' \cup holes \subseteq left
  BY <1>1, <1>2 DEF DInv, EntryInv, Apart, Cached
<1>4. \A p \in left : p \in Nat /\ firstPacket <= p
  BY Bounds DEF DInv, IInv, TypeOK, EntryInv, FromFirst, Cached
<1>5. firstPacket \in Nat /\ limit \in Nat
  BY Bounds DEF DInv, IInv, TypeOK
<1>6. CASE firstPacket \in gone
  <2>1. T \in SUBSET Nat /\ limit \in T
    BY <1>5
  <2>2. Minimum(T) \in T /\ \A y \in T : Minimum(T) <= y
    BY <2>1, MinimumIn
  <2>3. Minimum(T) \in Nat /\ Minimum(T) <= limit
    BY <2>1, <2>2
  <2>4. ASSUME NEW p \in left PROVE Minimum(T) <= p
    <3>1. p \in Nat /\ firstPacket <= p
      BY <1>4
    <3>2. CASE p <= limit
      <4>1. p \in T
        BY <1>5, <3>1, <3>2
      <4>. QED BY <2>2, <4>1
    <3>. HIDE DEF T
    <3>. QED BY <1>5, <2>3, <3>1, <3>2
  <2>. QED BY <1>1, <1>2, <1>3, <1>6, <2>4
<1>7. CASE firstPacket \notin gone
  BY <1>1, <1>2, <1>3, <1>4, <1>7
<1>. QED BY <1>6, <1>7

\* A message that is pending is never collected: only data of earlier messages is.
LEMMA PoppedIsEarlier == ASSUME DInv, NEW p \in popped, IsData(p) PROVE p < nextData
<1>1. PICK e \in Promise!Delivered : p \in MessageTo(e)
  BY DEF DInv, DataInv, PoppedIsDelivered, Covered
<1>2. End(e) /\ e < nextData /\ e \in Nat /\ p \in 0..e /\ nextData \in Nat
  BY <1>1, Bounds DEF DInv, DataInv, Behind, End, MessageTo, IInv, TypeOK
<1>. QED BY <1>2

\* sender_ack and the end of a repetition take away what was delivered only.
LEMMA CollectionKeeps ==
    ASSUME DInv, NEW p \in Positions, Ack(p) \/ SetPacketRepeat(p)
    PROVE  DataInv' /\ EntryInv'
<1>1. /\ nextData \in Positions /\ nextData \in Nat /\ nextOutput \in Nat /\ firstPacket <= nextData
      /\ popped \subseteq have
  BY Bounds DEF DInv, IInv, TypeOK, CursorsOrdered
<1>2. /\ UNCHANGED <<stream, holes, nextOutput, nextData, hold, dataStart, delivered, state>>
  BY DEF Ack, SetPacketRepeat, control
<1>3. /\ \A q \in have' \cup holes : firstPacket' <= q
      /\ have' \subseteq have /\ have \ have' \subseteq popped /\ popped' \subseteq popped
  <2>1. CASE Ack(p)
    <3>1. Collect(firstPacket..(p - 1), acked \cup ((firstPacket..(p - 1)) \cap Cached), popped, repeating, nextData)
      BY <2>1 DEF Ack
    <3>. QED BY <1>1, <3>1, CollectFirst
  <2>2. CASE SetPacketRepeat(p)
    <3>1. CASE Collect({p}, acked, popped, repeating \ {p}, nextData)
      BY <1>1, <3>1, CollectFirst
    <3>2. CASE UNCHANGED <<have, acked, popped, firstPacket>>
      BY <3>2 DEF DInv, EntryInv, FromFirst, Cached
    <3>. QED BY <2>2, <3>1, <3>2 DEF SetPacketRepeat
  <2>. QED BY <2>1, <2>2
<1>4. \A q : Claimed(q)' = Claimed(q)
  BY <1>2 DEF Claimed
<1>5. DataInv'
  BY <1>1, <1>2, <1>3, <1>4, NothingDelivered DEF DInv
<1>6. PendingIsEnd'
  <2>1. nextData < nextOutput => nextData \in have /\ End(nextData)
    BY DEF DInv, EntryInv, PendingIsEnd
  <2>2. nextData \in popped => ~IsData(nextData)
    BY <1>1, PoppedIsEarlier
  <2>. QED BY <1>2, <1>3, <2>1, <2>2, MessagesStay DEF PendingIsEnd, End
<1>7. FromFirst' /\ Apart' /\ NewIsBare'
  BY <1>2, <1>3 DEF DInv, EntryInv, FromFirst, Cached, Apart, NewIsBare
<1>. QED BY <1>5, <1>6, <1>7 DEF EntryInv

\* The data start and the holding point move to where nothing was put out yet,
\* or the former to the latter.
LEMMA PointsKeep ==
    ASSUME DInv, SetDataStart \/ HoldData \/ ReleaseData
    PROVE  DataInv' /\ EntryInv'
<1>1. /\ nextData \in Positions /\ nextData \in Nat /\ nextOutput \in Nat /\ nextInput \in Nat
      /\ nextData <= nextOutput /\ nextOutput <= nextInput /\ Sent \subseteq Nat
  BY Bounds DEF DInv, IInv, TypeOK, CursorsOrdered
<1>2. UNCHANGED <<stream, have, holes, popped, nextInput, nextOutput, nextData, firstPacket, delivered, state>>
  BY DEF SetDataStart, HoldData, ReleaseData, cursors, entries
<1>3. \A q \in Nat : Claimed(q)' => Claimed(q) \/ nextOutput <= q
  <2>1. CASE SetDataStart
    BY <1>1, <2>1 DEF SetDataStart, Claimed
  <2>2. CASE HoldData
    BY <1>1, <2>2 DEF HoldData, Claimed
  <2>3. CASE ReleaseData
    BY <2>3 DEF ReleaseData, Claimed
  <2>. QED BY <2>1, <2>2, <2>3
<1>4. DataInv'
  <2>1. \A p \in Sent : IsData(p) /\ p < nextOutput' /\ Claimed(p)' => p < nextOutput /\ Claimed(p)
    BY <1>1, <1>2, <1>3
  <2>2. ASSUME NEW e \in Sent, e < nextData', NEW s \in Promise!Starts(e), Claimed(s)'
        PROVE  Claimed(s)
    <3>1. s \in 0..e /\ e \in Nat
      BY <1>1 DEF Promise!Starts
    <3>. QED BY <1>1, <1>2, <1>3, <2>2, <3>1
  <2>. QED BY <1>1, <1>2, <2>1, <2>2, NothingDelivered DEF DInv
<1>5. EntryInv'
  BY <1>2, MessagesStay DEF DInv, EntryInv, PendingIsEnd, FromFirst, Cached, Apart, NewIsBare
<1>. QED BY <1>4, <1>5

\* Who starts anew claims nothing yet.
LEMMA UpdateStartKeeps == ASSUME DInv, NEW p \in Positions, UpdateStart(p) PROVE DataInv' /\ EntryInv'
<1>1. /\ nextData \in Positions /\ nextInput \in Positions /\ nextData \in Nat /\ nextInput \in Nat
      /\ nextOutput \in Nat /\ p \in Nat /\ nextData <= nextOutput /\ nextOutput <= nextInput
  BY Bounds DEF DInv, IInv, TypeOK, CursorsOrdered
<1>2. /\ nextOutput' = p /\ nextData' = p /\ hold' = None /\ dataStart' = None
      /\ UNCHANGED <<have, holes, popped, stream, delivered>>
  BY DEF UpdateStart
<1>3. \A q : ~Claimed(q)'
  BY <1>2 DEF Claimed
<1>4. \/ state = New /\ state' = Preparing /\ firstPacket' = p
      \/ state # New /\ nextInput < p /\ UNCHANGED <<state, firstPacket>>
  <2>1. Diff(nextInput, p) = p - nextInput
    BY <1>1, PositionDiff
  <2>. QED BY <1>1, <2>1 DEF UpdateStart
<1>5. DataInv'
  <2>1. nextData <= nextData' \/ delivered = <<>>
    BY <1>1, <1>2, <1>4 DEF DInv, EntryInv, NewIsBare
  <2>. QED BY <1>1, <1>2, <1>3, <2>1, NothingDelivered DEF DInv
<1>6. PendingIsEnd'
  BY <1>1, <1>2 DEF PendingIsEnd
<1>7. FromFirst'
  BY <1>2, <1>4 DEF DInv, IInv, NewIsEmpty, EntryInv, NewIsBare, FromFirst, Cached
<1>8. Apart' /\ NewIsBare'
  BY <1>2, <1>4 DEF DInv, EntryInv, Apart, NewIsBare, New, Preparing
<1>. QED BY <1>5, <1>6, <1>7, <1>8 DEF EntryInv

\* A fragment, or a packet without data, moves the output on.
LEMMA PopOthersKeep == ASSUME DInv, PopFragment \/ PopControl PROVE DataInv' /\ EntryInv'
<1>. USE DEF New, Preparing, Running, Failed
<1>1. /\ nextData \in Positions /\ nextData \in Nat /\ nextOutput \in Nat /\ nextInput \in Nat
      /\ nextData <= nextOutput /\ nextOutput <= nextInput /\ Sent \subseteq Nat /\ firstPacket \in Nat
      /\ firstPacket <= nextData /\ state \in Nat
  BY Bounds DEF DInv, IInv, TypeOK, CursorsOrdered, PendingRemoval
<1>2. /\ nextOutput \in have /\ nextOutput + 1 \in Positions /\ nextOutput \in Sent
  BY CanPopFacts DEF PopFragment, PopControl, DInv
<1>3. /\ nextOutput' = nextOutput + 1 /\ state # New /\ state' # New
      /\ nextData' = (IF DataPending THEN nextData ELSE nextData + 1)
      /\ UNCHANGED <<stream, holes, dataStart, delivered>>
  BY <1>1 DEF PopFragment, PopControl, Runs, control, entries, Later
<1>4. nextData' \in Positions /\ nextData <= nextData' /\ (~DataPending => nextData = nextOutput)
      /\ (DataPending => nextData < nextOutput)
  BY <1>1, <1>2, <1>3 DEF DataPending
<1>5. /\ \A q \in have' \cup holes : firstPacket' <= q
      /\ have' \subseteq have /\ \A q \in have \ have' : q \in popped \/ ~IsData(q)
      /\ \A q \in popped' : q \in popped \/ ~IsData(q)
  <2>1. CASE PopFragment
    <3>1. UNCHANGED <<have, popped, firstPacket>>
      BY <2>1 DEF PopFragment, entries
    <3>. QED BY <3>1 DEF DInv, EntryInv, FromFirst, Cached
  <2>2. CASE PopControl
    <3>1. Collect({nextOutput}, acked, popped \cup {nextOutput}, repeating, nextData') /\ ~IsData(nextOutput)
      BY <2>2 DEF PopControl
    <3>2. firstPacket <= nextData'
      BY <1>1, <1>2, <1>4, Bounds
    <3>3. /\ \A q \in have' \cup holes : firstPacket' <= q
          /\ have' \subseteq have /\ have \ have' \subseteq popped \cup {nextOutput}
          /\ popped' \subseteq popped \cup {nextOutput}
      BY <1>4, <3>1, <3>2, CollectFirst
    <3>. QED BY <3>1, <3>3
  <2>. QED BY <2>1, <2>2
<1>6. IsData(nextOutput) => nextOutput \in have'
  BY <1>2 DEF PopFragment, PopControl, entries
<1>7. hold' = hold \/ (hold' = nextOutput /\ ~IsData(nextOutput))
  BY DEF PopFragment, PopControl, control
<1>8. \A q \in Nat : Claimed(q)' => Claimed(q) \/ (nextOutput <= q /\ ~IsData(nextOutput))
  BY <1>3, <1>7 DEF Claimed
<1>9. ~DataPending => ~End(nextOutput)
  BY DEF PopFragment, PopControl, End
<1>10. DataInv'
  <2>1. \A p \in Sent : IsData(p) /\ p < nextOutput' /\ Claimed(p)' => (p < nextOutput /\ Claimed(p)) \/ p \in have'
    BY <1>1, <1>3, <1>6, <1>8
  <2>2. ASSUME NEW e \in Sent, End(e), e < nextData', NEW s \in Promise!Starts(e), Claimed(s)'
        PROVE  e < nextData /\ Claimed(s)
    <3>1. s \in 0..e /\ e \in Nat
      BY <1>1 DEF Promise!Starts
    <3>2. e < nextData
      BY <1>1, <1>3, <1>4, <1>9, <2>2, <3>1
    <3>. QED BY <1>1, <1>8, <2>2, <3>1, <3>2
  <2>. QED BY <1>3, <1>4, <1>5, <2>1, <2>2, NothingDelivered DEF DInv
<1>11. PendingIsEnd'
  <2>1. SUFFICES ASSUME nextData' < nextOutput' PROVE nextData' \in have' /\ End(nextData')
    BY <1>3, MessagesStay DEF PendingIsEnd, End
  <2>2. nextData' = nextData /\ nextData < nextOutput
    BY <1>1, <1>3, <1>4, <2>1
  <2>3. nextData \in have /\ End(nextData)
    BY <2>2 DEF DInv, EntryInv, PendingIsEnd
  <2>4. nextData \notin popped
    BY <1>1, <2>3, PoppedIsEarlier DEF End
  <2>. QED BY <1>5, <2>2, <2>3, <2>4, MessagesStay DEF End
<1>12. FromFirst' /\ Apart' /\ NewIsBare'
  BY <1>3, <1>5 DEF DInv, EntryInv, FromFirst, Cached, Apart, NewIsBare
<1>. QED BY <1>10, <1>11, <1>12 DEF EntryInv

-----------------------------------------------------------------------------
(* Steps that deliver *)

\* The message at the data cursor, when a first fragment of it is claimed: the
\* backward search finds its first fragment, and it is all there.
LEMMA WholeMessage ==
    ASSUME DInv, End(nextData), nextData \in have, nextData <= nextOutput,
           NEW c \in Promise!Starts(nextData), Claimed(c)
    PROVE  /\ StartsOf(nextData) # {} /\ FirstOf(nextData) \in StartsOf(nextData)
           /\ FirstOf(nextData) \in Promise!Starts(nextData)
           /\ c <= FirstOf(nextData)
           /\ Fragments(nextData) = MessageTo(nextData) /\ MessageOf(nextData) = MessageTo(nextData)
<1>. DEFINE e == nextData
            T == Maximum(Promise!Starts(e))
<1>1. e \in Nat /\ e \in Sent /\ IsData(e) /\ nextOutput \in Nat /\ firstPacket \in Nat /\ Sent \subseteq Nat
  BY Bounds DEF DInv, IInv, TypeOK, End
<1>2. /\ T \in Promise!Starts(e) /\ \A s \in Promise!Starts(e) : s <= T
  <2>1. Promise!Starts(e) \in SUBSET (0..e) /\ Promise!Starts(e) # {}
    BY DEF Promise!Starts
  <2>. QED BY <1>1, <2>1, MaximumIn
<1>3. /\ T \in 0..e /\ IsData(T) /\ stream[T].first /\ stream[T].stream = stream[e].stream
      /\ c <= T /\ c \in Nat /\ T \in Nat
  BY <1>1, <1>2 DEF Promise!Starts, Promise!IsData, IsData
<1>4. \A p \in MessageTo(e) : p \in T..e /\ IsData(p) /\ stream[p].stream = stream[e].stream
  BY <1>1, <1>2, <1>3 DEF MessageTo
<1>5. \A p \in T..e : IsData(p) /\ stream[p].stream = stream[e].stream => p \in MessageTo(e)
  <2>1. SUFFICES ASSUME NEW p \in T..e, IsData(p), stream[p].stream = stream[e].stream
                 PROVE  p \in MessageTo(e)
    OBVIOUS
  <2>2. \A s \in Promise!Starts(e) : s \in 0..e /\ s <= T
    BY <1>2 DEF Promise!Starts
  <2>3. \A s \in Promise!Starts(e) : s <= p
    BY <1>3, <2>1, <2>2
  <2>. QED BY <1>3, <2>1, <2>3 DEF MessageTo
<1>. HIDE DEF T, e
<1>6. \A p \in MessageTo(e) : Claimed(p)
  <2>1. hold \in Positions \cup {None} /\ dataStart \in Positions \cup {None} /\ Positions \subseteq Nat
    BY Bounds DEF DInv, IInv, TypeOK
  <2>2. SUFFICES ASSUME NEW p \in MessageTo(e) PROVE Claimed(p)
    OBVIOUS
  <2>3. p \in T..e
    BY <1>4, <2>2
  <2>. QED BY <1>3, <2>1, <2>3 DEF Claimed
<1>7. \A p \in MessageTo(e) : ~Covered(p)
  <2>1. SUFFICES ASSUME NEW p \in MessageTo(e), NEW f \in Promise!Delivered, p \in MessageTo(f) PROVE FALSE
    BY DEF Covered
  <2>2. End(f) /\ f < e
    BY DEF DInv, DataInv, Behind, e
  <2>. QED BY <2>1, <2>2, OneMessage DEF DInv, IInv, e
<1>8. \A p \in MessageTo(e) : p \in have
  <2>1. SUFFICES ASSUME NEW p \in MessageTo(e) PROVE p \in have
    OBVIOUS
  <2>2. p \in 0..e /\ IsData(p) /\ Claimed(p) /\ ~Covered(p)
    BY <1>6, <1>7 DEF MessageTo
  <2>3. CASE p = e
    BY <2>3 DEF e
  <2>4. CASE p < e
    <3>1. p < nextOutput /\ p \in Sent
      BY <1>1, <2>2, <2>4, Bounds DEF e, Sent
    <3>. QED BY <2>2, <3>1 DEF DInv, DataInv, Kept
  <2>. QED BY <1>1, <2>2, <2>3, <2>4
<1>9. T \in MessageTo(e)
  BY <1>3, <1>5
<1>10. T \in StartsOf(e)
  <2>1. T \in have /\ firstPacket <= T
    BY <1>8, <1>9 DEF DInv, EntryInv, FromFirst, Cached
  <2>. QED BY <1>1, <1>3, <2>1 DEF StartsOf
<1>11. StartsOf(e) \subseteq Promise!Starts(e) /\ StartsOf(e) \in SUBSET (0..e)
  BY <1>1 DEF StartsOf, Promise!Starts, Promise!IsData, IsData
<1>12. FirstOf(e) = T
  <2>1. FirstOf(e) \in StartsOf(e) /\ \A s \in StartsOf(e) : s <= FirstOf(e)
    BY <1>1, <1>10, <1>11, MaximumIn DEF FirstOf
  <2>2. T <= FirstOf(e) /\ FirstOf(e) <= T /\ FirstOf(e) \in 0..e
    BY <1>2, <1>10, <1>11, <2>1
  <2>. QED BY <1>3, <2>2
<1>13. Fragments(e) = MessageTo(e) /\ MessageOf(e) = MessageTo(e)
  <2>1. MessageOf(e) = MessageTo(e)
    BY <1>4, <1>5, <1>12 DEF MessageOf
  <2>2. Fragments(e) = MessageTo(e)
    BY <1>4, <1>5, <1>8, <1>12 DEF Fragments
  <2>. QED BY <2>1, <2>2
<1>. QED BY <1>2, <1>3, <1>10, <1>12, <1>13 DEF e

\* What is delivered, or found to lack a fragment, is claimed.
LEMMA DeliveredIsClaimed ==
    ASSUME DInv, End(nextData), DataFate(nextData) \in {"delivered", "size"}
    PROVE  /\ dataStart # None /\ StartsOf(nextData) # {}
           /\ FirstOf(nextData) \in Promise!Starts(nextData) /\ Claimed(FirstOf(nextData))
           /\ dataStart <= FirstOf(nextData)
<1>1. StartsOf(nextData) # {} /\ dataStart # None /\ ~(Diff(dataStart, FirstOf(nextData)) < 0)
  BY DEF DataFate
<1>2. nextData \in Sent /\ nextData \in Nat /\ firstPacket \in Nat
      /\ dataStart \in Positions /\ Sent \subseteq Positions /\ Sent = 0..(Length - 1) /\ Length \in Nat
  BY <1>1, Bounds DEF DInv, IInv, TypeOK, End, Sent
<1>3. StartsOf(nextData) \in SUBSET (0..nextData) /\ StartsOf(nextData) \subseteq Promise!Starts(nextData)
  BY <1>2 DEF StartsOf, Promise!Starts, Promise!IsData, IsData
<1>4. FirstOf(nextData) \in StartsOf(nextData)
  BY <1>1, <1>2, <1>3, MaximumIn DEF FirstOf
<1>5. FirstOf(nextData) \in Sent
  BY <1>2, <1>3, <1>4
<1>6. Diff(dataStart, FirstOf(nextData)) = FirstOf(nextData) - dataStart
  BY <1>2, <1>5, PositionDiff
<1>7. dataStart <= FirstOf(nextData)
  BY <1>1, <1>2, <1>5, <1>6, Bounds
<1>. QED BY <1>1, <1>3, <1>4, <1>7 DEF Claimed

\* Delivering a message adds it to what was delivered.
LEMMA DeliveredSet ==
    ASSUME TypeOK, NEW e, e \in Sent, delivered' = Append(delivered, e)
    PROVE  Promise!Delivered' = Promise!Delivered \cup {e}
<1>1. delivered \in Seq(Sent) /\ Len(delivered) \in Nat
  BY DEF TypeOK
<1>2. Len(delivered') = Len(delivered) + 1
  BY <1>1
<1>3. \A i \in 1..Len(delivered) : delivered'[i] = delivered[i]
  BY <1>1
<1>4. delivered'[Len(delivered) + 1] = e
  BY <1>1
<1>5. 1..(Len(delivered) + 1) = (1..Len(delivered)) \cup {Len(delivered) + 1}
  BY <1>1
<1>6. {delivered'[i] : i \in 1..(Len(delivered) + 1)} = {delivered[i] : i \in 1..Len(delivered)} \cup {e}
  BY <1>3, <1>4, <1>5, Zenon
<1>. QED BY <1>2, <1>6 DEF Promise!Delivered

\* What update_next_data_output_state passes over is not cached; where it stops
\* before the output, a message ends.
LEMMA NextEndStops ==
    ASSUME NEW e \in Nat, NEW out \in Nat, e < out
    PROVE  /\ \A g \in (e + 1)..(NextEnd(e, out) - 1) : ~(g \in have /\ IsData(g) /\ stream[g].last)
           /\ NextEnd(e, out) < out =>
                  NextEnd(e, out) \in have /\ IsData(NextEnd(e, out)) /\ stream[NextEnd(e, out)].last
<1>. DEFINE ends == {p \in (e + 1)..(out - 1) : p \in have /\ IsData(p) /\ stream[p].last}
<1>1. ends \in SUBSET Nat
  OBVIOUS
<1>2. NextEnd(e, out) = IF ends = {} THEN out ELSE Minimum(ends)
  BY DEF NextEnd
<1>3. NextEnd(e, out) \in (e + 1)..out
  BY NextEndIn
<1>4. CASE ends = {}
  BY <1>2, <1>4
<1>5. CASE ends # {}
  <2>1. Minimum(ends) \in ends /\ \A y \in ends : Minimum(ends) <= y
    BY <1>1, <1>5, MinimumIn
  <2>2. NextEnd(e, out) = Minimum(ends)
    BY <1>2, <1>5
  <2>3. \A g \in (e + 1)..(NextEnd(e, out) - 1) : g \in (e + 1)..(out - 1) /\ ~(NextEnd(e, out) <= g)
    BY <1>3
  <2>. QED BY <2>1, <2>2, <2>3
<1>. QED BY <1>4, <1>5

\* So no message that the listener claims is passed over with it.
LEMMA NothingBetween ==
    ASSUME DInv, NEW out \in Nat, nextData < out, out <= nextOutput \/ out = nextData + 1,
           NEW g \in Sent, End(g), nextData < g, g < NextEnd(nextData, out),
           NEW c \in Promise!Starts(g), Claimed(c)
    PROVE  FALSE
<1>1. nextData \in Nat /\ nextOutput \in Nat /\ g \in Nat /\ c \in 0..g
      /\ hold \in Positions \cup {None} /\ dataStart \in Positions \cup {None} /\ Positions \subseteq Nat
  BY Bounds DEF DInv, IInv, TypeOK, Promise!Starts
<1>2. NextEnd(nextData, out) \in (nextData + 1)..out
  BY <1>1, NextEndIn
<1>3. g < nextOutput
  BY <1>1, <1>2
<1>4. g \notin have
  <2>1. g \in (nextData + 1)..(NextEnd(nextData, out) - 1)
    BY <1>1, <1>2
  <2>. QED BY <1>1, <2>1, NextEndStops DEF End
<1>5. Claimed(g)
  BY <1>1 DEF Claimed
<1>6. Covered(g)
  BY <1>3, <1>4, <1>5 DEF DInv, DataInv, Kept, End
<1>7. PICK f \in Promise!Delivered : g \in MessageTo(f)
  BY <1>6 DEF Covered
<1>8. End(f) /\ f < nextData
  BY <1>7 DEF DInv, DataInv, Behind
<1>9. f = g
  BY <1>7, <1>8, OwnEnd DEF DInv, IInv
<1>. QED BY <1>1, <1>8, <1>9

\* No message that the listener claims is ignored.
LEMMA IgnoredIsForeign ==
    ASSUME DInv, End(nextData), nextData \in have, DataFate(nextData) = "ignored",
           NEW c \in Promise!Starts(nextData), Claimed(c)
    PROVE  FALSE
<1>1. nextData \in Sent /\ nextData \in Nat /\ nextData <= nextOutput /\ c \in 0..nextData
      /\ nextData \in Positions /\ Positions \subseteq Nat /\ firstPacket \in Nat
      /\ Positions = 0..Length /\ Length \in Nat
      /\ hold \in Positions \cup {None} /\ dataStart \in Positions \cup {None}
  BY Bounds DEF DInv, IInv, TypeOK, CursorsOrdered, End, Promise!Starts, Positions
<1>2. /\ StartsOf(nextData) # {} /\ FirstOf(nextData) \in StartsOf(nextData) /\ c <= FirstOf(nextData)
  BY <1>1, WholeMessage
<1>3. FirstOf(nextData) \in Positions
  BY <1>1, <1>2, Bounds DEF StartsOf
<1>4. ~HeldBack(nextData) /\ (dataStart = None \/ Diff(dataStart, FirstOf(nextData)) < 0)
  BY <1>2 DEF DataFate
<1>5. CASE hold # None /\ hold <= c
  <2>1. Diff(nextData, hold) = hold - nextData
    BY <1>1, <1>5, PositionDiff
  <2>2. hold \in Nat /\ ~(hold - nextData <= 0)
    BY <1>1, <1>4, <1>5, <2>1 DEF HeldBack
  <2>. QED BY <1>1, <1>5, <2>2
<1>6. CASE dataStart # None /\ dataStart <= c
  <2>1. dataStart \in Positions
    BY <1>1, <1>6
  <2>2. Diff(dataStart, FirstOf(nextData)) = FirstOf(nextData) - dataStart
    BY <1>3, <2>1, PositionDiff
  <2>3. dataStart \in Nat /\ FirstOf(nextData) \in Nat /\ FirstOf(nextData) - dataStart < 0
    BY <1>1, <1>3, <1>4, <1>6, <2>1, <2>2
  <2>. QED BY <1>1, <1>2, <1>6, <2>3
<1>. QED BY <1>5, <1>6 DEF Claimed

\* pop_data_packet, and the end of a message that has to wait.
LEMMA PopDataKeeps ==
    ASSUME DInv, End(nextData), nextData \in have, NEW out \in Positions,
           nextData < out, nextOutput' = out,
           out = nextOutput \/ (out = nextOutput + 1 /\ nextData = nextOutput),
           UNCHANGED <<stream, hold, dataStart, holes>>, state # New, state' # New,
           \/ PopData(nextData, out)
           \/ UNCHANGED <<nextData, firstPacket, entries, delivered>>
    PROVE  DataInv' /\ EntryInv'
<1>. DEFINE e == nextData
            done == NextEnd(nextData, out)
<1>1. /\ e \in Nat /\ e \in Sent /\ IsData(e) /\ out \in Nat /\ nextOutput \in Nat /\ firstPacket \in Nat
      /\ e \in Positions /\ Sent \subseteq Nat /\ firstPacket <= e /\ e <= nextOutput
      /\ have \subseteq Sent /\ popped \subseteq have
      /\ Positions = 0..Length /\ Length \in Nat
  BY Bounds DEF DInv, IInv, TypeOK, CursorsOrdered, End, Positions
<1>2. done \in (e + 1)..out /\ done \in Nat /\ done \in Positions
  <2>1. done \in (e + 1)..out
    BY <1>1, NextEndIn
  <2>. QED BY <1>1, <2>1
<1>3. \A q : Claimed(q)' = Claimed(q)
  BY DEF Claimed
<1>4. \A p \in Sent : p < out => p < nextOutput \/ p \in have
  BY <1>1
<1>5. \A g \in Sent : \A c \in Promise!Starts(g) : End(g) /\ e < g /\ g < done => ~Claimed(c)
  <2>1. out <= nextOutput \/ out = nextData + 1
    BY <1>1
  <2>. QED BY <1>1, <2>1, NothingBetween
<1>6. done < out => done \in have /\ IsData(done) /\ stream[done].last
  BY <1>1, NextEndStops
<1>. HIDE DEF done
<1>7. CASE UNCHANGED <<nextData, firstPacket, entries, delivered>>
  <2>1. UNCHANGED <<nextData, firstPacket, have, popped, delivered>>
    BY <1>7 DEF entries
  <2>2. DataInv'
    BY <1>1, <1>3, <1>4, <2>1, NothingDelivered DEF DInv
  <2>3. PendingIsEnd'
    BY <2>1, MessagesStay DEF PendingIsEnd
  <2>4. FromFirst' /\ Apart' /\ NewIsBare'
    BY <2>1 DEF DInv, EntryInv, FromFirst, Cached, Apart, NewIsBare
  <2>. QED BY <2>2, <2>3, <2>4 DEF EntryInv
<1>8. CASE /\ DataFate(e) = "ignored" /\ nextData' = done
           /\ UNCHANGED <<firstPacket, entries, delivered>>
  <2>1. UNCHANGED <<firstPacket, have, popped, delivered>> /\ nextData' = done
    BY <1>8 DEF entries
  <2>2. ASSUME NEW g \in Sent, End(g), g < done, NEW c \in Promise!Starts(g), Claimed(c)
        PROVE  g < nextData
    <3>1. g # e
      BY <1>8, <2>2, IgnoredIsForeign
    <3>. QED BY <1>1, <1>5, <2>2, <3>1
  <2>3. DataInv'
    <3>1. nextData <= nextData'
      BY <1>1, <1>2, <2>1
    <3>. QED BY <1>2, <1>3, <1>4, <2>1, <2>2, <3>1, NothingDelivered DEF DInv
  <2>4. PendingIsEnd'
    <3>1. done < out => done \in have /\ End(done)
      BY <1>1, <1>6 DEF End
    <3>. QED BY <2>1, <3>1, MessagesStay DEF PendingIsEnd
  <2>5. FromFirst' /\ Apart' /\ NewIsBare'
    BY <2>1 DEF DInv, EntryInv, FromFirst, Cached, Apart, NewIsBare
  <2>. QED BY <2>3, <2>4, <2>5 DEF EntryInv
<1>9. CASE /\ DataFate(e) = "delivered" /\ nextData' = done /\ delivered' = Append(delivered, e)
           /\ Collect(Fragments(e), acked, popped \cup Fragments(e), repeating,
                      IF FirstOf(e) = e THEN done ELSE e)
  <2>1. Fragments(e) = MessageTo(e)
    <3>1. FirstOf(e) \in Promise!Starts(e) /\ Claimed(FirstOf(e))
      BY <1>9, DeliveredIsClaimed
    <3>. QED BY <1>1, <3>1, WholeMessage
  <2>. DEFINE limit == IF FirstOf(e) = e THEN done ELSE e
  <2>2. limit \in Positions /\ firstPacket <= limit
    BY <1>1, <1>2
  <2>3. Collect(MessageTo(e), acked, popped \cup MessageTo(e), repeating, limit)
    BY <1>9, <2>1
  <2>. HIDE DEF limit
  <2>4. /\ \A p \in have' \cup holes : firstPacket' <= p
        /\ have' \subseteq have /\ have \ have' \subseteq popped \cup MessageTo(e)
        /\ popped' \subseteq popped \cup MessageTo(e)
    BY <2>2, <2>3, CollectFirst
  <2>5. Promise!Delivered' = Promise!Delivered \cup {e}
    BY <1>1, <1>9, DeliveredSet DEF DInv, IInv
  <2>6. \A p : (IsData(p))' = IsData(p) /\ (End(p))' = End(p)
            /\ (MessageTo(p))' = MessageTo(p) /\ (Promise!Starts(p))' = Promise!Starts(p)
    BY MessagesStay
  <2>7. \A p : (p \in MessageTo(e) \/ Covered(p)) => Covered(p)'
    BY <2>5, <2>6 DEF Covered
  <2>8. Kept'
    <3>1. SUFFICES ASSUME NEW p \in Sent, p < out, IsData(p), Claimed(p), p \notin have'
                   PROVE  Covered(p)'
      BY <1>3, <2>6 DEF Kept
    <3>2. p \in have \/ Covered(p)
      BY <1>4, <3>1 DEF DInv, DataInv, Kept
    <3>3. p \in popped => Covered(p)
      BY <3>1 DEF DInv, DataInv, PoppedIsDelivered
    <3>. QED BY <2>4, <2>7, <3>1, <3>2, <3>3
  <2>9. Passed'
    <3>1. SUFFICES ASSUME NEW g \in Sent, End(g), g < done, NEW c \in Promise!Starts(g), Claimed(c)
                   PROVE  g \in Promise!Delivered \cup {e}
      BY <1>3, <1>9, <2>5, <2>6 DEF Passed
    <3>2. g < nextData \/ g = e
      BY <1>1, <1>5, <3>1
    <3>. QED BY <3>1, <3>2 DEF DInv, DataInv, Passed
  <2>10. Behind'
    <3>1. SUFFICES ASSUME NEW f \in Promise!Delivered \cup {e} PROVE End(f) /\ f < done
      BY <1>9, <2>5, <2>6 DEF Behind
    <3>2. f \in Promise!Delivered => End(f) /\ f < e /\ f \in Nat
      BY <1>1 DEF DInv, DataInv, Behind, End
    <3>. QED BY <1>1, <1>2, <3>2
  <2>11. PoppedIsDelivered'
    BY <2>4, <2>6, <2>7 DEF DInv, DataInv, PoppedIsDelivered
  <2>12. PendingIsEnd'
    <3>1. SUFFICES ASSUME done < out PROVE done \in have' /\ End(done)
      BY <1>9, <2>6 DEF PendingIsEnd
    <3>2. done \in have /\ End(done)
      BY <1>1, <1>6, <3>1 DEF End
    <3>3. done \notin popped
      BY <1>1, <1>2, <3>2, PoppedIsEarlier DEF End
    <3>4. done \notin MessageTo(e)
      BY <1>1, <1>2 DEF MessageTo
    <3>. QED BY <2>4, <3>2, <3>3, <3>4
  <2>13. FromFirst' /\ Apart' /\ NewIsBare'
    BY <2>4 DEF DInv, EntryInv, FromFirst, Cached, Apart, NewIsBare
  <2>. QED BY <2>8, <2>9, <2>10, <2>11, <2>12, <2>13 DEF DataInv, EntryInv
<1>. QED BY <1>7, <1>8, <1>9 DEF PopData, done

\* What the two calls of pop_data_packet find at the data cursor.
LEMMA PopDataCall ==
    ASSUME DInv, PopPending \/ PopEnd
    PROVE  /\ End(nextData) /\ nextData \in have /\ nextData < nextOutput'
           /\ nextOutput' \in Positions /\ nextData <= nextOutput /\ nextOutput <= nextOutput'
           /\ nextOutput' = nextOutput \/ (nextOutput' = nextOutput + 1 /\ nextData = nextOutput)
           /\ UNCHANGED <<nextInput, stream, hold, dataStart, holes>>
           /\ state \in Preparing..Failed /\ state' \in Preparing..Failed
           /\ \/ PopData(nextData, nextOutput')
              \/ UNCHANGED <<nextData, firstPacket, entries, state, delivered, fault>>
<1>1. /\ nextData \in Nat /\ nextOutput \in Nat /\ nextOutput \in Positions /\ nextData <= nextOutput
      /\ have \subseteq Sent
  BY Bounds DEF DInv, IInv, TypeOK, CursorsOrdered
<1>2. CASE PopPending
  <2>1. /\ state \in Preparing..Failed /\ PopData(nextData, nextOutput)
        /\ UNCHANGED <<nextInput, nextOutput, stream, hold, dataStart>>
    BY <1>2 DEF PopPending, Runs
  <2>2. nextData < nextOutput
    BY <1>1, <1>2 DEF PopPending, DataPending
  <2>3. nextData \in have /\ End(nextData)
    BY <2>2 DEF DInv, EntryInv, PendingIsEnd
  <2>4. holes' = holes /\ state' \in Preparing..Failed
    BY <1>1, <2>1, <2>2, <2>3, PopDataFacts DEF DInv, End
  <2>. QED BY <1>1, <2>1, <2>2, <2>3, <2>4
<1>3. CASE PopEnd
  <2>1. /\ state \in Preparing..Failed /\ nextData = nextOutput /\ nextOutput' = nextOutput + 1
        /\ UNCHANGED <<nextInput, stream, hold, dataStart>>
        /\ \/ PopData(nextData, nextOutput')
           \/ UNCHANGED <<nextData, firstPacket, entries, state, delivered, fault>>
    BY <1>3 DEF PopEnd, Runs, DataPending
  <2>2. nextOutput \in Sent /\ nextOutput \in have /\ nextOutput + 1 \in Positions /\ End(nextData)
    BY <1>3, <2>1, CanPopFacts DEF PopEnd, DInv, End
  <2>3. holes' = holes /\ state' \in Preparing..Failed
    <3>1. CASE PopData(nextData, nextOutput')
      <4>1. nextData < nextOutput' /\ nextData <= nextData
        BY <1>1, <2>1
      <4>. QED BY <1>1, <2>1, <2>2, <3>1, <4>1, PopDataFacts DEF DInv
    <3>2. CASE UNCHANGED <<nextData, firstPacket, entries, state, delivered, fault>>
      BY <2>1, <3>2 DEF entries
    <3>. QED BY <2>1, <3>1, <3>2
  <2>. QED BY <1>1, <2>1, <2>2, <2>3
<1>. QED BY <1>2, <1>3

-----------------------------------------------------------------------------
(* The inductive invariant *)

LEMMA InitDInv == Init => DInv
<1>. SUFFICES ASSUME Init PROVE DInv
  OBVIOUS
<1>1. IInv
  BY InitIInv
<1>2. /\ nextOutput = 0 /\ nextData = 0 /\ firstPacket = 0 /\ have = {} /\ holes = {} /\ popped = {}
      /\ hold = None /\ dataStart = None /\ delivered = <<>>
  BY DEF Init
<1>3. Promise!Delivered = {}
  BY <1>2 DEF Promise!Delivered
<1>4. \A p : ~Claimed(p)
  BY <1>2 DEF Claimed
<1>5. DataInv
  BY <1>2, <1>3, <1>4 DEF DataInv, Kept, Passed, Behind, PoppedIsDelivered
<1>6. EntryInv
  BY <1>2 DEF EntryInv, PendingIsEnd, FromFirst, Cached, Apart, NewIsBare
<1>. QED BY <1>1, <1>5, <1>6 DEF DInv

\* Every step keeps the invariant of what is kept and delivered.
LEMMA DInvNext == ASSUME DInv, [Next]_vars PROVE DInv'
<1>1. IInv'
  BY NextPreserves DEF DInv
<1>2. DataInv' /\ EntryInv'
  <2>1. 0 \in Positions /\ Sent \subseteq Positions
    BY Bounds DEF Positions
  <2>2. ASSUME NEW p \in Sent, Push(p) \/ RepairRequest(p) \/ SetPacketRepeat(p)
                               \/ RequestTimeout(p) \/ RepairTimeout(p)
        PROVE  DataInv' /\ EntryInv'
    BY <2>1, <2>2, PushKeeps, OthersKeep, CollectionKeeps
  <2>3. ASSUME NEW p \in Positions, Seen(p) \/ Ack(p) \/ UpdateStart(p) \/ UpdateEnd(p)
        PROVE  DataInv' /\ EntryInv'
    BY <2>3, OthersKeep, CollectionKeeps, UpdateStartKeeps
  <2>4. CASE SetDataStart \/ HoldData \/ ReleaseData
    BY <2>4, PointsKeep
  <2>5. CASE SetFailed \/ Stop \/ Remove \/ DependsAdvance \/ PopDone \/ UNCHANGED vars
    BY <2>1, <2>5, OthersKeep
  <2>6. CASE PopFragment \/ PopControl
    BY <2>6, PopOthersKeep
  <2>7. CASE PopPending \/ PopEnd
    <3>1. state # New /\ state' # New
      BY <2>7, PopDataCall DEF New, Preparing, Failed
    <3>. QED BY <2>7, <3>1, PopDataCall, PopDataKeeps
  <2>. QED BY <2>2, <2>3, <2>4, <2>5, <2>6, <2>7 DEF Next, Pop
<1>. QED BY <1>1, <1>2 DEF DInv

\* The parts hold in every reachable state.
THEOREM DataInductive == Spec => []DInv
<1>. QED BY InitDInv, DInvNext, PTL DEF Spec

-----------------------------------------------------------------------------
(* The theorems *)

LEMMA EligibleIsClaimed ==
    ASSUME NEW e \in Promise!Eligible
    PROVE  e \in Sent /\ End(e) /\ \E s \in Promise!Starts(e) : Claimed(s)
  BY DEF Promise!Eligible, Promise!Sent, Promise!IsData, Sent, IsData, End, Claimed

\* No message that belongs to the listener is passed over, whatever is lost,
\* repeated, held back, collected or failed, and even when the start jumps
\* ahead: where the data cursor is beyond its end, it was delivered.
THEOREM NothingIsLost == Spec => []NothingLost
<1>1. DInv => NothingLost
  BY EligibleIsClaimed DEF DInv, DataInv, Passed, NothingLost
<1>. QED BY <1>1, DataInductive, PTL

\* A step leaves the data start and what was delivered, agrees on the data
\* start, or delivers the message at the data cursor.
LEMMA StepsOfData ==
    ASSUME DInv, [Next]_vars
    PROVE  \/ UNCHANGED <<stream, dataStart, delivered>>
           \/ SetDataStart
           \/ /\ End(nextData) /\ DataFate(nextData) = "delivered"
              /\ delivered' = Append(delivered, nextData) /\ UNCHANGED <<stream, dataStart>>
<1>1. ASSUME NEW p \in Sent, Push(p) \/ RepairRequest(p) \/ SetPacketRepeat(p)
                             \/ RequestTimeout(p) \/ RepairTimeout(p)
      PROVE  UNCHANGED <<stream, dataStart, delivered>>
  BY <1>1 DEF Push, RepairRequest, SetPacketRepeat, RequestTimeout, RepairTimeout, control
<1>2. ASSUME NEW p \in Positions, Seen(p) \/ Ack(p) \/ UpdateStart(p) \/ UpdateEnd(p)
      PROVE  UNCHANGED <<stream, dataStart, delivered>>
  BY <1>2 DEF Seen, Ack, UpdateStart, UpdateEnd, control
<1>3. CASE HoldData \/ ReleaseData \/ SetFailed \/ Stop \/ Remove \/ DependsAdvance
  BY <1>3 DEF HoldData, ReleaseData, SetFailed, Stop, Remove, DependsAdvance
<1>4. CASE PopFragment \/ PopControl \/ PopDone \/ UNCHANGED vars
  BY <1>4 DEF PopFragment, PopControl, PopDone, vars, control
<1>5. CASE PopPending \/ PopEnd
  <2>1. /\ End(nextData) /\ UNCHANGED <<stream, dataStart>>
        /\ \/ PopData(nextData, nextOutput')
           \/ UNCHANGED <<nextData, firstPacket, entries, state, delivered, fault>>
    BY <1>5, PopDataCall
  <2>. QED BY <2>1 DEF PopData
<1>. QED BY <1>1, <1>2, <1>3, <1>4, <1>5 DEF Next, Pop

\* The sender implements DataDelivery: from the data start on, the messages of
\* the remote are delivered in the order in which they end, each exactly once.
THEOREM DeliversAsPromised == Spec => DeliversInOrder
<1>1. Init => Promise!Init
  BY DEF Init, Promise!Init
<1>2. DInv /\ [Next]_vars => [Promise!Next]_(Promise!vars)
  <2>. SUFFICES ASSUME DInv, [Next]_vars PROVE [Promise!Next]_(Promise!vars)
    OBVIOUS
  <2>1. CASE UNCHANGED <<stream, dataStart, delivered>>
    BY <2>1 DEF Promise!vars
  <2>2. CASE SetDataStart
    <3>1. dataStart = None /\ dataStart' \in Positions /\ UNCHANGED <<stream, delivered>>
      BY <2>2 DEF SetDataStart, DInv, IInv, TypeOK
    <3>. QED BY <3>1 DEF Promise!Next, Promise!Join, Positions
  <2>3. CASE /\ End(nextData) /\ DataFate(nextData) = "delivered"
             /\ delivered' = Append(delivered, nextData) /\ UNCHANGED <<stream, dataStart>>
    <3>1. nextData \in Promise!Eligible
      <4>1. /\ dataStart # None /\ FirstOf(nextData) \in Promise!Starts(nextData)
            /\ dataStart <= FirstOf(nextData)
        BY <2>3, DeliveredIsClaimed
      <4>. QED BY <2>3, <4>1 DEF Promise!Eligible, Promise!Sent, Promise!IsData, Sent, IsData, End
    <3>2. nextData \in Nat
      BY Bounds DEF DInv, IInv, TypeOK
    <3>3. nextData \notin Promise!Delivered
      BY <3>2 DEF DInv, DataInv, Behind
    <3>4. \A f \in Promise!Eligible \ Promise!Delivered : nextData <= f
      <4>1. SUFFICES ASSUME NEW f \in Promise!Eligible, f < nextData PROVE f \in Promise!Delivered
        <5>1. \A f \in Promise!Eligible : f \in Nat
          BY EligibleIsClaimed, Bounds
        <5>. QED BY <3>2, <5>1
      <4>. QED BY <4>1, EligibleIsClaimed DEF DInv, DataInv, Passed
    <3>. QED BY <2>3, <3>1, <3>3, <3>4 DEF Promise!Next, Promise!Deliver
  <2>. QED BY <2>1, <2>2, <2>3, StepsOfData
<1>. QED BY <1>1, <1>2, DataInductive, PTL DEF Spec, DeliversInOrder, Promise!Spec

-----------------------------------------------------------------------------
(* Holes and faults *)

\* Where the start stays, every hole lies ahead of the output, and is asked for
\* until the sender is stopped.
HolesAhead == \A h \in holes : nextOutput <= h
HolesTimed == state < Stopped => holes \subseteq timers

\* A hole that is asked for lies ahead of the output also when the start jumps,
\* before the identifiers wrap.
TimedAhead == \A h \in holes \cap timers : nextOutput <= h

FaultInv == StartStays => HolesAhead /\ HolesTimed /\ fault = "none"
StaleInv == StartStays \/ Unwrapped => TimedAhead
HInv == DInv /\ FaultInv /\ StaleInv

\* A step that moves the output over a cached packet at most, forgets no
\* request and asks for packets that are ahead.
LEMMA HolesStep ==
    ASSUME HInv, events' = events,
           nextOutput' = nextOutput \/ (nextOutput' = nextOutput + 1 /\ nextOutput \in have),
           \A h \in holes' : h \in holes
                             \/ (nextOutput' = nextOutput /\ nextOutput <= h /\ h \in timers'),
           \A h \in holes' \cap timers' : h \in holes \cap timers
                                          \/ (nextOutput' = nextOutput /\ nextOutput <= h),
           state' < Stopped => state < Stopped /\ \A h \in holes \cap holes' : h \in timers => h \in timers',
           StartStays => fault' = "none"
    PROVE  FaultInv' /\ StaleInv'
<1>1. nextOutput \in Nat /\ holes \subseteq Nat /\ have \cap holes = {}
  BY Bounds DEF HInv, DInv, IInv, TypeOK, EntryInv, Apart
<1>2. StartStays' = StartStays
  BY DEF StartStays
<1>3. \A h \in holes : nextOutput <= h => nextOutput' <= h
  BY <1>1
<1>4. StartStays => HolesAhead'
  BY <1>3 DEF HInv, FaultInv, HolesAhead
<1>5. StartStays => HolesTimed'
  BY DEF HInv, FaultInv, HolesTimed
<1>6. Unwrapped' => Unwrapped
  BY <1>1, WindowAssumption, IdAssumption DEF Unwrapped, Ids
<1>7. StaleInv'
  BY <1>2, <1>3, <1>6 DEF HInv, StaleInv, TimedAhead
<1>. QED BY <1>2, <1>4, <1>5, <1>7 DEF FaultInv

\* The loop of sender_seen ends, and a request of another member finds the timer
\* of its hole.
LEMMA RequestsKeep ==
    ASSUME HInv, NEW p \in Positions, Seen(p) \/ (p \in Sent /\ RepairRequest(p))
    PROVE  FaultInv' /\ StaleInv'
<1>1. /\ nextInput \in Nat /\ nextOutput \in Nat /\ nextOutput <= nextInput /\ p \in Nat
      /\ nextOutput \in Positions /\ nextInput \in Positions /\ CacheSize \in Nat
      /\ nextInput <= nextOutput + CacheSize /\ have \cap holes = {}
  BY Bounds DEF HInv, DInv, IInv, TypeOK, CursorsOrdered, EntryInv, Apart
<1>2. ASSUME NEW m \in Nat, NEW n \in Int, nextOutput <= m, ScheduleRepair(m..n)
      PROVE  /\ \A h \in holes' : h \in holes \/ (nextOutput <= h /\ h \in timers')
             /\ \A h \in timers' : h \in timers \/ nextOutput <= h
             /\ \A h \in holes' \cap timers' : h \in holes \cap timers \/ nextOutput <= h
             /\ timers \subseteq timers'
  <2>. DEFINE asked == IF state > Stopped THEN {} ELSE (m..n) \ have
  <2>1. holes' = holes \cup asked /\ timers' = timers \cup asked
    BY <1>2 DEF ScheduleRepair
  <2>2. \A h \in asked : nextOutput <= h
    BY <1>1, <1>2
  <2>. HIDE DEF asked
  <2>3. ASSUME NEW h \in holes' \cap timers', ~(nextOutput <= h) PROVE h \in holes \cap timers
    BY <2>1, <2>2, <2>3
  <2>. QED BY <2>1, <2>2, <2>3
<1>3. CASE Seen(p)
  <2>. DEFINE last == IF PacketDiff(Plus(Wire(nextOutput), CacheSize), Wire(p)) > 0
                      THEN nextOutput + CacheSize ELSE p
  <2>1. last - 1 \in Int
    BY <1>1
  <2>2. nextInput <= last
    <3>1. Diff(nextInput, p) = p - nextInput /\ Diff(nextInput, p) >= 0
      BY <1>1, <1>3, PositionDiff DEF Seen
    <3>. QED BY <1>1, <3>1
  <2>3. ScheduleRepair(nextInput..(last - 1)) /\ fault' = fault
        /\ UNCHANGED <<events, nextOutput, state>>
    BY <1>3, <2>2 DEF Seen, cursors
  <2>. HIDE DEF last
  <2>4. StartStays => fault' = "none"
    BY <2>3 DEF HInv, FaultInv
  <2>. QED BY <1>1, <1>2, <2>1, <2>3, <2>4, HolesStep
<1>4. CASE RepairRequest(p)
  <2>1. UNCHANGED <<events, nextOutput, state>> /\ fault = "none"
    BY <1>4 DEF RepairRequest, cursors, Idle, Sound
  <2>2. CASE p \in have /\ timers' = timers \cup {p} /\ UNCHANGED <<holes, fault>>
    BY <1>1, <2>1, <2>2, HolesStep
  <2>3. CASE ScheduleRepair(nextOutput..p) /\ UNCHANGED fault
    BY <1>1, <1>2, <2>1, <2>3, HolesStep
  <2>4. CASE /\ p \in holes /\ state < Stopped
             /\ fault' = (IF p \in timers THEN "none" ELSE "assert") /\ UNCHANGED <<holes, timers>>
    <3>1. StartStays => fault' = "none"
      BY <2>4 DEF HInv, FaultInv, HolesTimed
    <3>. QED BY <2>1, <2>4, <3>1, HolesStep
  <2>. QED BY <1>4, <2>2, <2>3, <2>4 DEF RepairRequest
<1>. QED BY <1>3, <1>4

\* The timers of the entries.
LEMMA TimersKeep ==
    ASSUME HInv, NEW p \in Sent, RequestTimeout(p) \/ RepairTimeout(p)
    PROVE  FaultInv' /\ StaleInv'
<1>1. UNCHANGED <<events, nextOutput, holes, state, fault>> /\ fault = "none"
  BY DEF RequestTimeout, RepairTimeout, Idle, Sound, cursors, control
<1>2. state \in Nat /\ have \cap holes = {} /\ timers' \subseteq timers
  BY DEF HInv, DInv, IInv, TypeOK, EntryInv, Apart, New, PendingRemoval, RequestTimeout, RepairTimeout
<1>3. state < Stopped => \A h \in holes : h \in timers => h \in timers'
  BY <1>2 DEF RequestTimeout, RepairTimeout, Stopped
<1>. QED BY <1>1, <1>2, <1>3, HolesStep

\* What arrives fills its hole and asks for what it skips.
LEMMA PushAsks == ASSUME HInv, NEW p \in Sent, Push(p) PROVE FaultInv' /\ StaleInv'
<1>1. nextInput \in Nat /\ nextOutput \in Nat /\ nextOutput <= nextInput /\ p \in Nat
  BY Bounds DEF HInv, DInv, IInv, TypeOK, CursorsOrdered
<1>. DEFINE gap == IF Diff(nextInput, p) >= 0 THEN nextInput..(p - 1) ELSE {}
            asked == IF state > Stopped THEN {} ELSE gap \ have
<1>2. /\ holes' = (holes \cup asked) \ {p} /\ timers' = (timers \ {p}) \cup asked
      /\ UNCHANGED <<events, nextOutput, state, fault>> /\ fault = "none"
  BY DEF Push, Insert, Idle, Sound
<1>3. \A h \in asked : nextOutput <= h
  BY <1>1
<1>. HIDE DEF asked
<1>4. ASSUME NEW h \in holes' \cap timers', ~(nextOutput <= h) PROVE h \in holes \cap timers
  BY <1>2, <1>3, <1>4
<1>. QED BY <1>2, <1>3, <1>4, HolesStep

\* Collection takes away no request.
LEMMA CollectLeavesHoles ==
    ASSUME Apart, NEW S, NEW ack, NEW pop, NEW rep, NEW limit, Collect(S, ack, pop, rep, limit)
    PROVE  timers' \subseteq timers /\ \A h \in holes : h \in timers => h \in timers'
  BY DEF Collect, Apart

\* Acknowledgements, repetition, calls and the end of the pop loop.
LEMMA CallsLeaveHoles ==
    ASSUME HInv, NEW p \in Positions,
           \/ Ack(p) \/ SetPacketRepeat(p) \/ UpdateEnd(p)
           \/ SetDataStart \/ HoldData \/ ReleaseData \/ SetFailed \/ Stop \/ Remove
           \/ DependsAdvance \/ PopDone \/ UNCHANGED vars
    PROVE  FaultInv' /\ StaleInv'
<1>. USE DEF New, Preparing, Failed, UnknownFailed, Stopped, PendingRemoval
<1>1. /\ UNCHANGED <<events, nextOutput, holes, fault>>
      /\ have \cap holes = {} /\ Apart /\ state \in Nat
  BY DEF Ack, SetPacketRepeat, UpdateEnd, SetDataStart, HoldData, ReleaseData, SetFailed, Stop, Remove,
         DependsAdvance, PopDone, vars, cursors, entries, control,
         HInv, DInv, IInv, TypeOK, EntryInv, Apart
<1>2. StartStays => fault' = "none"
  BY <1>1 DEF HInv, FaultInv
<1>3. /\ \A h \in holes : h \in timers' => h \in timers
      /\ state' < Stopped => state < Stopped /\ \A h \in holes : h \in timers => h \in timers'
  <2>1. CASE Ack(p)
    <3>1. Collect(firstPacket..(p - 1), acked \cup ((firstPacket..(p - 1)) \cap Cached), popped, repeating, nextData)
          /\ state' = state
      BY <2>1 DEF Ack, control
    <3>. QED BY <1>1, <3>1, CollectLeavesHoles
  <2>2. CASE SetPacketRepeat(p)
    <3>1. state' = state /\ p \in have
      BY <2>2 DEF SetPacketRepeat, control
    <3>2. CASE timers' = timers \cup {p}
      BY <1>1, <3>1, <3>2
    <3>3. CASE Collect({p}, acked, popped, repeating \ {p}, nextData)
      BY <1>1, <3>1, <3>3, CollectLeavesHoles
    <3>. QED BY <2>2, <3>2, <3>3 DEF SetPacketRepeat
  <2>3. CASE Stop
    BY <2>3 DEF Stop
  <2>4. CASE SetFailed \/ Remove
    BY <1>1, <2>4 DEF SetFailed, Remove, entries
  <2>5. CASE UpdateEnd(p) \/ SetDataStart \/ HoldData \/ ReleaseData \/ DependsAdvance \/ PopDone
    BY <2>5 DEF UpdateEnd, SetDataStart, HoldData, ReleaseData, DependsAdvance, PopDone, entries
  <2>6. CASE UNCHANGED vars
    BY <2>6 DEF vars, entries, control
  <2>. QED BY <2>1, <2>2, <2>3, <2>4, <2>5, <2>6
<1>. QED BY <1>1, <1>2, <1>3, HolesStep

\* The clearing loop of sender_update_start removes the requests before the new
\* start, unless the identifiers wrap before it.
LEMMA UpdateStartClears == ASSUME HInv, NEW p \in Positions, UpdateStart(p) PROVE FaultInv' /\ StaleInv'
<1>1. /\ nextOutput' = p /\ UNCHANGED <<holes, events, fault>> /\ fault = "none"
      /\ \/ state = New /\ UNCHANGED timers
         \/ "jump" \in events /\ timers' = timers \ CancelledBefore(p)
  BY DEF UpdateStart, Sound
<1>2. CASE state = New /\ UNCHANGED timers
  <2>1. holes = {}
    BY <1>2 DEF HInv, DInv, EntryInv, NewIsBare
  <2>. QED BY <1>1, <2>1 DEF FaultInv, StaleInv, HolesAhead, HolesTimed, TimedAhead
<1>3. CASE "jump" \in events /\ timers' = timers \ CancelledBefore(p)
  <2>1. FaultInv' /\ ~StartStays'
    BY <1>1, <1>3 DEF FaultInv, StartStays
  <2>2. SUFFICES ASSUME Start + p <= MaxId, NEW h \in holes, h \in timers', ~(p <= h)
                 PROVE  FALSE
    BY <1>1, <2>1 DEF StaleInv, TimedAhead, Unwrapped
  <2>3. h \in Nat /\ p \in Nat /\ firstPacket \in Nat /\ firstPacket <= h /\ Start \in Nat
        /\ p <= Length /\ Length \in Nat /\ MaxId \in Nat
    BY Bounds, WindowAssumption, IdAssumption
       DEF HInv, DInv, IInv, TypeOK, EntryInv, FromFirst, Cached, Ids, Positions
  <2>4. \A i \in firstPacket..h : Wire(i) = Start + i /\ i < p
    BY <2>2, <2>3 DEF Wire, Plus
  <2>5. Wire(p) = Start + p
    BY <2>2, <2>3 DEF Wire, Plus
  <2>6. \A i \in firstPacket..h : Wire(i) < Wire(p)
    <3>1. SUFFICES ASSUME NEW i \in firstPacket..h PROVE Wire(i) < Wire(p)
      OBVIOUS
    <3>2. i \in Nat /\ Wire(i) = Start + i /\ i < p
      BY <2>3, <2>4
    <3>. QED BY <2>3, <2>5, <3>2
  <2>7. h \in CancelledBefore(p)
    BY <2>2, <2>3, <2>6 DEF CancelledBefore
  <2>. QED BY <1>3, <2>2, <2>7
<1>. QED BY <1>1, <1>2, <1>3

\* The search for the first fragment meets no hole, and the message it finds
\* lacks no fragment.
LEMMA FateIsSound ==
    ASSUME HInv, StartStays, End(nextData), nextData \in have
    PROVE  DataFate(nextData) \notin {"null", "size"}
<1>1. /\ nextData \in Nat /\ nextOutput \in Nat /\ nextData <= nextOutput /\ firstPacket \in Nat
      /\ holes \subseteq Nat /\ have \cap holes = {} /\ DInv
  BY Bounds DEF HInv, DInv, IInv, TypeOK, CursorsOrdered, EntryInv, Apart
<1>2. DataFate(nextData) # "null"
  <2>1. Searched(nextData) \subseteq 0..nextData
    <3>1. CASE StartsOf(nextData) = {}
      BY <1>1, <3>1 DEF Searched
    <3>2. CASE StartsOf(nextData) # {}
      <4>1. StartsOf(nextData) \in SUBSET (0..nextData)
        BY <1>1 DEF StartsOf
      <4>2. FirstOf(nextData) \in 0..nextData
        BY <1>1, <3>2, <4>1, MaximumIn DEF FirstOf
      <4>. QED BY <1>1, <3>2, <4>2 DEF Searched
    <3>. QED BY <3>1, <3>2
  <2>2. \A h \in holes : nextOutput <= h
    BY DEF HInv, FaultInv, HolesAhead
  <2>3. \A h \in holes : h \notin Searched(nextData)
    BY <1>1, <2>1, <2>2
  <2>. QED BY <2>3 DEF DataFate
<1>3. DataFate(nextData) # "size"
  <2>1. SUFFICES ASSUME DataFate(nextData) = "size" PROVE FALSE
    OBVIOUS
  <2>2. FirstOf(nextData) \in Promise!Starts(nextData) /\ Claimed(FirstOf(nextData))
    BY <1>1, <2>1, DeliveredIsClaimed
  <2>3. Fragments(nextData) = MessageOf(nextData)
    BY <1>1, <2>2, WholeMessage
  <2>. QED BY <2>1, <2>3 DEF DataFate
<1>. QED BY <1>2, <1>3

\* The pop loop moves the output over packets that are here.
LEMMA PopKeepsHoles ==
    ASSUME HInv, PopFragment \/ PopControl \/ PopPending \/ PopEnd
    PROVE  FaultInv' /\ StaleInv'
<1>. USE DEF Preparing, Failed, Stopped
<1>1. Apart /\ have \cap holes = {} /\ fault = "none" /\ DInv /\ IInv
  BY DEF HInv, DInv, EntryInv, Apart, PopFragment, PopControl, PopPending, PopEnd, Runs, Sound
<1>2. CASE PopFragment
  <2>1. nextOutput' = nextOutput + 1 /\ nextOutput \in have
        /\ UNCHANGED <<events, holes, timers, state, fault>>
    BY <1>2 DEF PopFragment, CanPop, entries, control
  <2>. QED BY <1>1, <2>1, HolesStep
<1>3. CASE PopControl
  <2>1. nextOutput' = nextOutput + 1 /\ nextOutput \in have /\ state < Stopped
        /\ UNCHANGED <<events, holes, fault>>
        /\ Collect({nextOutput}, acked, popped \cup {nextOutput}, repeating, nextData')
    BY <1>3 DEF PopControl, CanPop, Runs
  <2>2. timers' \subseteq timers /\ \A h \in holes : h \in timers => h \in timers'
    BY <1>1, <2>1, CollectLeavesHoles
  <2>. QED BY <1>1, <2>1, <2>2, HolesStep
<1>4. CASE PopPending \/ PopEnd
  <2>1. /\ End(nextData) /\ nextData \in have /\ holes' = holes /\ state < Stopped
        /\ nextOutput' = nextOutput \/ (nextOutput' = nextOutput + 1 /\ nextOutput \in have)
    BY <1>1, <1>4, PopDataCall
  <2>2. events' = events
    BY <1>4 DEF PopPending, PopEnd
  <2>3. /\ timers' \subseteq timers /\ \A h \in holes : h \in timers => h \in timers'
        /\ StartStays => fault' = "none"
    <3>1. CASE UNCHANGED <<nextData, firstPacket, entries, state, delivered, fault>>
      BY <1>1, <3>1 DEF entries
    <3>2. CASE PopData(nextData, nextOutput')
      <4>1. CASE DataFate(nextData) = "ignored" /\ UNCHANGED <<entries, fault>>
        BY <1>1, <4>1 DEF entries
      <4>2. CASE /\ UNCHANGED fault
                 /\ \E limit : Collect(Fragments(nextData), acked, popped \cup Fragments(nextData),
                                       repeating, limit)
        BY <1>1, <4>2, CollectLeavesHoles
      <4>3. CASE DataFate(nextData) \in {"null", "size"} /\ UNCHANGED entries
        BY <2>1, <4>3, FateIsSound DEF entries
      <4>. QED BY <3>2, <4>1, <4>2, <4>3 DEF PopData
    <3>. QED BY <1>4, <3>1, <3>2, PopDataCall, <1>1
  <2>. QED BY <1>1, <2>1, <2>2, <2>3, HolesStep
<1>. QED BY <1>2, <1>3, <1>4

\* Every step keeps the invariant of the holes and their timers.
LEMMA HInvNext == ASSUME HInv, [Next]_vars PROVE HInv'
<1>1. DInv'
  BY DInvNext DEF HInv
<1>2. FaultInv' /\ StaleInv'
  <2>1. 0 \in Positions /\ Sent \subseteq Positions
    BY Bounds DEF Positions
  <2>2. ASSUME NEW p \in Sent, Push(p) \/ RepairRequest(p) \/ SetPacketRepeat(p)
                               \/ RequestTimeout(p) \/ RepairTimeout(p)
        PROVE  FaultInv' /\ StaleInv'
    BY <2>1, <2>2, PushAsks, RequestsKeep, CallsLeaveHoles, TimersKeep
  <2>3. ASSUME NEW p \in Positions, Seen(p) \/ Ack(p) \/ UpdateStart(p) \/ UpdateEnd(p)
        PROVE  FaultInv' /\ StaleInv'
    BY <2>3, RequestsKeep, CallsLeaveHoles, UpdateStartClears
  <2>4. CASE SetDataStart \/ HoldData \/ ReleaseData \/ SetFailed \/ Stop \/ Remove
             \/ DependsAdvance \/ PopDone \/ UNCHANGED vars
    BY <2>1, <2>4, CallsLeaveHoles
  <2>5. CASE PopFragment \/ PopControl \/ PopPending \/ PopEnd
    BY <2>5, PopKeepsHoles
  <2>. QED BY <2>2, <2>3, <2>4, <2>5 DEF Next, Pop
<1>. QED BY <1>1, <1>2 DEF HInv

\* Holes are ahead of the output and have their timers in every reachable state
\* (add_to_missing, schedule_repair and sender_update_start).
THEOREM HolesInductive == Spec => []HInv
<1>1. Init => HInv
  BY InitDInv DEF Init, HInv, FaultInv, StaleInv, HolesAhead, HolesTimed, TimedAhead
<1>. QED BY <1>1, HInvNext, PTL DEF Spec

\* No call goes wrong as long as the start of the remote, once known, does not
\* move: no search for a first fragment meets a NULL packet, no message lacks a
\* fragment, every hole that another member asks for has its timer, and the !=
\* loops end.  (A start that jumps over a hole does break the search.)
THEOREM NothingGoesWrong == Spec => []NoFault
<1>1. HInv => NoFault
  BY DEF HInv, FaultInv, NoFault
<1>. QED BY <1>1, HolesInductive, PTL

\* No packet that the window has passed is asked for, where the start stays, and
\* where it jumps as long as the identifiers have not wrapped: the clearing loop
\* of sender_update_start compares raw identifiers.
THEOREM NothingStaleStaysAskedFor == Spec => []NothingStaleIsAskedFor
<1>1. HInv => NothingStaleIsAskedFor
  <2>. SUFFICES ASSUME HInv, TimedAhead, NEW h \in holes \cap timers PROVE h >= nextOutput
    BY DEF HInv, StaleInv, NothingStaleIsAskedFor
  <2>1. h \in Nat /\ nextOutput \in Nat
    BY Bounds DEF HInv, DInv, IInv, TypeOK
  <2>. QED BY <2>1 DEF TimedAhead
<1>. QED BY <1>1, HolesInductive, PTL

-----------------------------------------------------------------------------
(* The watchdogs of the same sender (SenderWatchdog): a member without a name *)
(* stays watched, a failed one is not, and its state never goes back          *)

\* What SenderWatchdog adds to the state of the sender; `state` is the same field.
VARIABLES named, whois, fail, place, stopped, signalled, alive, aborted, cancelled

Watchdog == INSTANCE SenderWatchdog

\* A new sender has its type.
LEMMA WatchdogInitType == Watchdog!Init => Watchdog!TypeOK
<1> SUFFICES ASSUME Watchdog!Init PROVE Watchdog!TypeOK
  OBVIOUS
<1>1. state \in Watchdog!New..Watchdog!PendingRemoval
  BY DEF Watchdog!Init, Watchdog!New, Watchdog!PendingRemoval
<1> QED
  BY <1>1 DEF Watchdog!Init, Watchdog!TypeOK

\* Every variable keeps its type in every order of packets, timeouts,
\* failures, removal and stop.
THEOREM WatchdogTypeCorrect == Watchdog!Spec => []Watchdog!TypeOK
<1>1. Watchdog!Init => Watchdog!TypeOK
  BY WatchdogInitType
<1>2. Watchdog!TypeOK /\ [Watchdog!Next]_(Watchdog!vars) => Watchdog!TypeOK'
  <2> SUFFICES ASSUME Watchdog!TypeOK, [Watchdog!Next]_(Watchdog!vars) PROVE Watchdog!TypeOK'
    OBVIOUS
  <2> USE DEF Watchdog!TypeOK, Watchdog!New, Watchdog!Preparing, Watchdog!Running,
      Watchdog!DataRunning, Watchdog!Failed, Watchdog!UnknownFailed, Watchdog!Stopped,
      Watchdog!PendingRemoval
  <2>1. CASE Watchdog!UpdateStart
    BY <2>1 DEF Watchdog!UpdateStart
  <2>2. CASE Watchdog!PopPackets
    <3>1. PICK reached \in {state, Watchdog!Later(Watchdog!Running), Watchdog!Later(Watchdog!DataRunning)}:
            state' = reached /\ fail' = Watchdog!ProgressTimer(reached, named, fail)
      BY <2>2 DEF Watchdog!PopPackets
    <3>2. state' \in Watchdog!New..Watchdog!PendingRemoval
      BY <3>1 DEF Watchdog!Later
    <3>3. fail' \in {"none", "name", "progress"}
      BY <3>1 DEF Watchdog!ProgressTimer
    <3>4. UNCHANGED <<named, whois, place, stopped, signalled, alive, aborted>> /\ cancelled' = FALSE
      BY <2>2 DEF Watchdog!PopPackets
    <3>. QED
      BY <3>2, <3>3, <3>4
  <2>3. CASE Watchdog!PeerDies
    BY <2>3 DEF Watchdog!PeerDies
  <2>4. CASE Watchdog!BadPacket
    BY <2>4 DEF Watchdog!BadPacket, Watchdog!SignalFailure
  <2>5. CASE Watchdog!NameTimeout
    BY <2>5 DEF Watchdog!NameTimeout, Watchdog!SignalFailure
  <2>6. CASE Watchdog!ProgressTimeout
    BY <2>6 DEF Watchdog!ProgressTimeout, Watchdog!SignalFailure
  <2>7. CASE Watchdog!SetFailed
    <3>1. state' \in Watchdog!New..Watchdog!PendingRemoval
      BY <2>7 DEF Watchdog!SetFailed
    <3> QED
      BY <2>7, <3>1 DEF Watchdog!SetFailed
  <2>8. CASE Watchdog!WhoisRequestTimeout
    BY <2>8 DEF Watchdog!WhoisRequestTimeout
  <2>9. CASE Watchdog!WhoisReplyTimeout
    BY <2>9 DEF Watchdog!WhoisReplyTimeout
  <2>10. CASE Watchdog!WhoisRequest
    BY <2>10 DEF Watchdog!WhoisRequest
  <2>11. CASE Watchdog!NameDiscovered
    BY <2>11 DEF Watchdog!NameDiscovered, Watchdog!ProgressTimer
  <2>12. CASE Watchdog!RedundantReply
    BY <2>12 DEF Watchdog!RedundantReply
  <2>13. CASE Watchdog!GroupRemove
    <3>1. state' \in Watchdog!New..Watchdog!PendingRemoval
      BY <2>13 DEF Watchdog!GroupRemove
    <3> QED
      BY <2>13, <3>1 DEF Watchdog!GroupRemove
  <2>14. CASE Watchdog!GroupStop
    <3>1. state' \in Watchdog!New..Watchdog!PendingRemoval
      BY <2>14 DEF Watchdog!GroupStop
    <3> QED
      BY <2>14, <3>1 DEF Watchdog!GroupStop
  <2>15. CASE Watchdog!Dispose
    BY <2>15 DEF Watchdog!Dispose
  <2>16. CASE UNCHANGED Watchdog!vars
    BY <2>16 DEF Watchdog!vars
  <2> QED
    BY <2>1, <2>2, <2>3, <2>4, <2>5, <2>6, <2>7, <2>8, <2>9, <2>10, <2>11, <2>12,
       <2>13, <2>14, <2>15, <2>16 DEF Watchdog!Next
<1> QED
  BY <1>1, <1>2, PTL DEF Watchdog!Spec

\* A member that is watched and has no name is being asked for it and has its
\* name timer, a named one has its watchdog until a later reply, and a failed
\* member has no timer: the three are inductive together.
Watching ==
    /\ Watchdog!TypeOK
    /\ Watchdog!NamelessIsWatched
    /\ Watchdog!NamedIsWatched
    /\ Watchdog!FailedIsNotWatched

\* Who is watched, and how, fits the state of the member in every reachable state.
THEOREM WatchingHolds == Watchdog!Spec => []Watching
<1> USE DEF Watchdog!New, Watchdog!Preparing, Watchdog!Running, Watchdog!DataRunning,
    Watchdog!Failed, Watchdog!UnknownFailed, Watchdog!Stopped, Watchdog!PendingRemoval
<1>1. Watchdog!Init => Watching
  <2> SUFFICES ASSUME Watchdog!Init PROVE Watching
    OBVIOUS
  <2>1. Watchdog!TypeOK
    BY WatchdogInitType
  <2>2. state = Watchdog!New /\ Watchdog!New \notin {Watchdog!Failed, Watchdog!UnknownFailed}
    BY DEF Watchdog!Init
  <2> QED
    BY <2>1, <2>2 DEF Watchdog!Init, Watching, Watchdog!NamelessIsWatched,
        Watchdog!NamedIsWatched, Watchdog!FailedIsNotWatched
<1>2. Watching /\ Watchdog!TypeOK' /\ [Watchdog!Next]_(Watchdog!vars) => Watching'
  <2> SUFFICES ASSUME Watching, Watchdog!TypeOK', [Watchdog!Next]_(Watchdog!vars)
               PROVE  /\ Watchdog!NamelessIsWatched' /\ Watchdog!NamedIsWatched'
                      /\ Watchdog!FailedIsNotWatched'
    BY DEF Watching
  <2> USE DEF Watching, Watchdog!TypeOK, Watchdog!NamelessIsWatched, Watchdog!NamedIsWatched,
      Watchdog!FailedIsNotWatched, Watchdog!Watched
  <2>1. CASE Watchdog!UpdateStart
    BY <2>1 DEF Watchdog!UpdateStart
  <2>2. CASE Watchdog!PopPackets
    BY <2>2 DEF Watchdog!PopPackets, Watchdog!Later, Watchdog!ProgressTimer
  <2>3. CASE Watchdog!PeerDies
    BY <2>3 DEF Watchdog!PeerDies
  <2>4. CASE Watchdog!BadPacket
    BY <2>4 DEF Watchdog!BadPacket, Watchdog!SignalFailure
  <2>5. CASE Watchdog!NameTimeout
    BY <2>5 DEF Watchdog!NameTimeout, Watchdog!SignalFailure, Watchdog!Idle
  <2>6. CASE Watchdog!ProgressTimeout
    BY <2>6 DEF Watchdog!ProgressTimeout, Watchdog!SignalFailure, Watchdog!Idle
  <2>7. CASE Watchdog!SetFailed
    BY <2>7 DEF Watchdog!SetFailed
  <2>8. CASE Watchdog!WhoisRequestTimeout
    BY <2>8 DEF Watchdog!WhoisRequestTimeout, Watchdog!Idle
  <2>9. CASE Watchdog!WhoisReplyTimeout
    BY <2>9 DEF Watchdog!WhoisReplyTimeout, Watchdog!Idle
  <2>10. CASE Watchdog!WhoisRequest
    BY <2>10 DEF Watchdog!WhoisRequest, Watchdog!Idle
  <2>11. CASE Watchdog!NameDiscovered
    BY <2>11 DEF Watchdog!NameDiscovered, Watchdog!ProgressTimer
  <2>12. CASE Watchdog!RedundantReply
    BY <2>12 DEF Watchdog!RedundantReply
  <2>13. CASE Watchdog!GroupRemove
    BY <2>13 DEF Watchdog!GroupRemove
  <2>14. CASE Watchdog!GroupStop
    BY <2>14 DEF Watchdog!GroupStop
  <2>15. CASE Watchdog!Dispose
    BY <2>15 DEF Watchdog!Dispose
  <2>16. CASE UNCHANGED Watchdog!vars
    BY <2>16 DEF Watchdog!vars
  <2> QED
    BY <2>1, <2>2, <2>3, <2>4, <2>5, <2>6, <2>7, <2>8, <2>9, <2>10, <2>11, <2>12,
       <2>13, <2>14, <2>15, <2>16 DEF Watchdog!Next
<1> QED
  BY <1>1, <1>2, WatchdogTypeCorrect, PTL DEF Watchdog!Spec

\* In every execution a member without a name stays asked for it and timed, and
\* one whose name is known keeps its progress watchdog between two of its packets,
\* unless a later WHOIS_REPLY comes between them.
THEOREM LiveStaysWatched == Watchdog!Spec => []Watchdog!LiveIsWatched
<1>1. Watching => Watchdog!LiveIsWatched
  BY DEF Watching, Watchdog!LiveIsWatched
<1> QED
  BY <1>1, WatchingHolds, PTL

\* A failed member is never failed again by a timer nor asked for its name.
THEOREM FailedStaysUnwatched == Watchdog!Spec => []Watchdog!FailedIsNotWatched
<1>1. Watching => Watchdog!FailedIsNotWatched
  BY DEF Watching
<1> QED
  BY <1>1, WatchingHolds, PTL

\* What set_state asserts: no step takes a sender to an earlier state.
THEOREM StateNeverGoesBack == Watchdog!Spec => Watchdog!StateAdvances
<1>1. Watchdog!TypeOK /\ [Watchdog!Next]_(Watchdog!vars) => [state' >= state]_state
  <2> SUFFICES ASSUME Watchdog!TypeOK, Watchdog!Next PROVE state' >= state \/ state' = state
    BY DEF Watchdog!vars
  <2> USE DEF Watchdog!TypeOK, Watchdog!New, Watchdog!Preparing, Watchdog!Running,
      Watchdog!DataRunning, Watchdog!Failed, Watchdog!UnknownFailed, Watchdog!Stopped,
      Watchdog!PendingRemoval
  <2>1. CASE Watchdog!UpdateStart
    BY <2>1 DEF Watchdog!UpdateStart
  <2>2. CASE Watchdog!PopPackets
    BY <2>2 DEF Watchdog!PopPackets, Watchdog!Later
  <2>3. CASE Watchdog!SetFailed
    BY <2>3 DEF Watchdog!SetFailed
  <2>4. CASE Watchdog!GroupRemove
    BY <2>4 DEF Watchdog!GroupRemove
  <2>5. CASE Watchdog!GroupStop
    BY <2>5 DEF Watchdog!GroupStop
  <2>6. ASSUME Watchdog!PeerDies \/ Watchdog!BadPacket \/ Watchdog!NameTimeout \/
      Watchdog!ProgressTimeout \/ Watchdog!WhoisRequestTimeout
               \/ Watchdog!WhoisReplyTimeout \/ Watchdog!WhoisRequest \/ Watchdog!NameDiscovered
                   \/ Watchdog!RedundantReply \/ Watchdog!Dispose
        PROVE  state' = state
    BY <2>6 DEF Watchdog!PeerDies, Watchdog!BadPacket, Watchdog!NameTimeout,
        Watchdog!ProgressTimeout, Watchdog!WhoisRequestTimeout,
                Watchdog!WhoisReplyTimeout, Watchdog!WhoisRequest, Watchdog!NameDiscovered,
                    Watchdog!RedundantReply, Watchdog!Dispose
  <2> QED
    BY <2>1, <2>2, <2>3, <2>4, <2>5, <2>6 DEF Watchdog!Next
<1> QED
  BY <1>1, WatchdogTypeCorrect, PTL DEF Watchdog!Spec, Watchdog!StateAdvances
=============================================================================
