------------------------------ MODULE PacketId ------------------------------
(***************************************************************************)
(* The arithmetic of packet identifiers of the reliable multicast          *)
(* (lib/gibber/gibber-r-multicast-packet.c).  An identifier is a guint32   *)
(* that wraps; gibber_r_multicast_packet_diff is the only comparison the   *)
(* protocol makes between two of them, and every window, acknowledgement   *)
(* and dependency test rests on it.                                        *)
(***************************************************************************)
EXTENDS Integers

CONSTANTS
    MaxId,   \* G_MAXUINT32, the largest identifier
    Window,  \* 0xffff, how near the wrap an identifier must be to count as wrapped
    MaxInt   \* G_MAXINT, the clamp of the result

\* What 2^32-1, 2^16-1 and 2^31-1 satisfy and the reasoning needs.
ASSUME IdAssumption ==
    /\ MaxId \in Nat /\ Window \in Nat /\ MaxInt \in Nat
    /\ Window >= 1
    /\ 2 * Window <= MaxInt /\ 3 * Window <= MaxId
    /\ MaxInt <= MaxId

Ids == 0..MaxId

\* id + k in guint32 arithmetic, for 0 <= k <= MaxId.
Plus(id, k) == IF id + k > MaxId THEN id + k - MaxId - 1 ELSE id + k

\* id - k in guint32 arithmetic, for 0 <= k <= MaxId.
Minus(id, k) == IF id < k THEN id + MaxId + 1 - k ELSE id - k

Smaller(a, b) == IF a < b THEN a ELSE b

PacketDiff(from, to) ==
    IF from > MaxId - Window /\ to < Window
    THEN MaxId - from + to + 1
    ELSE IF to > MaxId - Window /\ from < Window
    THEN -from - (MaxId - to) - 1
    ELSE IF from > to
    THEN -Smaller(from - to, MaxInt)
    ELSE Smaller(to - from, MaxInt)
=============================================================================
