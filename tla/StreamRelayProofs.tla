-------------------------- MODULE StreamRelayProofs --------------------------
(***************************************************************************)
(* Proofs about one connection through a stream tube (module StreamRelay): *)
(* what a program writes comes out in order and, if nothing goes wrong, as *)
(* a whole; and who is slow stops the one before.                          *)
(***************************************************************************)
EXTENDS StreamRelay, TLAPS

Fields ==
    {"tube", "program", "sent", "in", "got", "T", "stopT", "outT", "onT", "B", "onB", "stopWrite",
     "stopRead", "answers", "N", "outN", "wire", "toT", "toB", "id", "asking", "listening",
     "opening", "post", "fault"}

\* The types of what the proofs speak about.
Typed(x) ==
    /\ DOMAIN x = Fields
    /\ x.T \in {"none", "connecting", "connected", "disconnected"}
    /\ x.B \in {"none", "local_pending", "accepted", "initiating", "open", "closing", "closed"}
    /\ x.N \in {"none", "connected", "disconnected", "refused"}
    /\ x.stopT \in BOOLEAN /\ x.onT \in BOOLEAN /\ x.onB \in BOOLEAN /\ x.stopWrite \in BOOLEAN
    /\ x.stopRead \in BOOLEAN /\ x.answers \in BOOLEAN /\ x.toT \in BOOLEAN /\ x.toB \in BOOLEAN
    /\ x.asking \in BOOLEAN /\ x.listening \in BOOLEAN /\ x.opening \in BOOLEAN

Data(x) ==
    /\ x.sent \in Nat /\ x.in \in Seq(Nat) /\ x.got \in Seq(Nat)
    /\ x.outT \in Seq(Nat) /\ x.outN \in Seq(Nat) /\ x.wire \in Seq(Nat)

\* Before the two sockets are joined.
Early == {"none", "accepted", "initiating"}
Closed == {"closing", "closed"}

\* The bytestream has its socket from when it is open until it is closed.
SocketFits(x) ==
    /\ x.N = "connected" <=> x.B \in {"open", "closing"}
    /\ x.B = "closing" => x.outN # <<>>
    /\ x.outN # <<>> => x.N = "connected"
    /\ x.B \in {"none", "accepted"} => x.N = "none"
    /\ x.B = "initiating" => x.N \in {"none", "refused"} /\ x.listening
    /\ x.listening => x.B \in {"initiating", "open", "closing"}
    /\ x.N \in {"none", "refused"} => x.wire = <<>>

\* The tube listens to a bytestream that it has a program for.
TubeFits(x) ==
    /\ x.onT <=> x.toB
    /\ x.toB => x.toT /\ x.B \in {"open", "closing", "closed"}
    /\ x.toT => x.onB
    /\ x.onB /\ x.B # "closed" => x.toT
    /\ x.B \in {"accepted", "initiating"} => x.onB /\ x.T # "none"
    /\ x.B = "open" => x.toB /\ x.T # "none"
    /\ x.N = "connected" /\ x.T # "disconnected" => x.toB
    /\ x.T # "connected" => x.outT = <<>>
    /\ x.B \in Early => x.got = <<>> /\ x.outT = <<>>

\* Who is slow stops the one before.
Blocks(x) ==
    /\ Len(x.outT) <= 1 /\ Len(x.outN) <= 1
    /\ x.outT # <<>> /\ x.N = "connected" /\ x.onB => x.stopRead
    /\ x.B = "open" => x.stopT = x.stopWrite
    /\ x.B = "open" /\ x.outN # <<>> => x.stopWrite
    /\ x.B \in Early => ~x.stopWrite
    /\ x.B \in Early /\ x.T # "none" => x.stopT

Fits(x) == SocketFits(x) /\ TubeFits(x) /\ Blocks(x)

\* What the two have agreed on so far.
Agreed(r, i, toI, toR) ==
    /\ toI \in {<<>>, <<"si">>, <<"oob">>}
    /\ toR \in {<<>>, <<"si_ok">>, <<"si_no">>, <<"oob_result">>}
    /\ ~r.opening /\ ~r.answers /\ r.B \notin {"local_pending", "accepted"}
    /\ ~i.asking /\ ~i.listening /\ i.B \notin {"local_pending", "initiating"} /\ i.N # "refused"
    /\ r.asking <=> toI = <<"si">> \/ toR \in {<<"si_ok">>, <<"si_no">>}
    /\ r.asking => r.B = "none" /\ r.T = "connected" /\ (~scenario.early => r.tube = "open")
    /\ r.program = "none" => ~r.asking /\ r.B = "none" /\ r.T = "none" /\ i.B = "none"
    /\ r.B = "none" => ~r.onB
    /\ i.B = "none" => i.T = "none" /\ i.program = "none" /\ ~i.onB
    /\ toI # <<>> => toR = <<>> /\ ~i.answers /\ ~i.opening
    /\ toI = <<"si">> => i.B = "none"
    /\ toI = <<"oob">> => i.B \in {"accepted", "closed"} /\ r.B # "none"
    /\ i.B = "none" /\ r.program # "none" => toI = <<"si">>
    /\ toR \in {<<"si_ok">>, <<"si_no">>} => i.B # "none" /\ i.N = "none" /\ ~i.answers /\ ~i.opening
    /\ toR = <<"si_no">> => i.tube = "closed"
    /\ i.answers /\ i.B # "closed" => toR = <<>>
    /\ i.opening => i.B \in {"accepted", "closed"} /\ i.answers
    /\ i.opening /\ i.B = "closed" => i.tube = "closed"
    /\ i.answers => r.B # "none"
    /\ toR = <<"oob_result">> => i.answers
    /\ i.N # "none" => i.answers /\ (~r.listening => r.B = "closed")
    /\ r.N # "none" => i.N # "none"

\* If the socket of a program is not there while the bytestream waits for it, it
\* is a TCP socket, which connects in the background.
InTime(x, s) ==
    /\ x.T = "connecting" => s = "initiator" /\ scenario.socket = "tcp"
    /\ x.T = "disconnected" /\ x.B \in {"accepted", "initiating", "open"}
          => s = "initiator" /\ scenario.socket = "tcp"

\* q is the numbers after n, in order.
Follows(q, n) == \A j \in 1..Len(q) : q[j] = n + j

\* How much has come as far as the socket of the program of y.
Given(y) == Len(y.got) + Len(y.outT)

\* What the program of x wrote, on its way to the program of y.
Ordered(x, y) ==
    /\ Follows(y.got, 0) /\ Follows(y.outT, Len(y.got)) /\ Given(y) <= x.sent
    /\ Follows(x.in, x.sent - Len(x.in))
    /\ Len(x.wire) + Len(x.outN) + Len(x.in) <= x.sent
    /\ y.T # "disconnected" =>
          /\ Follows(x.wire, Given(y)) /\ Follows(x.outN, Given(y) + Len(x.wire))
          /\ Given(y) + Len(x.wire) + Len(x.outN) + Len(x.in) <= x.sent

\* Nothing of it is lost.
Whole(x, y) == Given(y) + Len(x.wire) + Len(x.outN) + Len(x.in) = x.sent

Flows(x, y) == Ordered(x, y) /\ (y.T # "disconnected" /\ x.B \notin Closed => Whole(x, y))

\* Only the program of s writes, and leaves, and nothing else goes wrong.
OnlyLeaves(s) ==
    scenario = [writers |-> {s}, leavers |-> {s}, closers |-> {}, early |-> FALSE,
                breaks |-> FALSE, socket |-> "unix", refuses |-> FALSE]

\* Then x gets rid of all it has before anything is closed.
AllArrives(x, y) ==
    /\ x.tube = "open" /\ y.tube = "open"
    /\ y.program # "closed" /\ y.sent = 0
    /\ x.N # "refused" /\ y.N # "refused"
    /\ x.N = "none" => x.B # "closed"
    /\ y.N = "none" => y.B # "closed"
    /\ x.B \in Closed => x.in = <<>> /\ x.program = "closed"
    /\ y.B \in Closed => x.B = "closed" /\ x.wire = <<>>
    /\ y.T = "disconnected" => y.B = "closed" /\ Len(y.got) = x.sent
    /\ y.T # "disconnected" => Whole(x, y)

Sound(x, s) == Typed(x) /\ Data(x) /\ Fits(x) /\ InTime(x, s) /\ x.post = <<>>
               /\ (s \notin scenario.writers => x.sent = 0)

Good ==
    /\ scenario \in Scenarios /\ DOMAIN side = Sides /\ DOMAIN mail = Sides
    /\ Agreed(side["recipient"], side["initiator"], mail["initiator"], mail["recipient"])
    /\ \A s \in Sides : /\ Sound(side[s], s) /\ Flows(side[s], side[Peer(s)])
                        /\ OnlyLeaves(s) => AllArrives(side[s], side[Peer(s)])

Promised == StreamIntegrity /\ FlowControl

\* After a fault nothing happens any more.
IInv == IF Running THEN Good ELSE Promised


-----------------------------------------------------------------------------
(* Numbers in order *)

\* A sequence is empty when it has no length.
LEMMA EmptyIs == \A q \in Seq(Nat) : Len(q) \in Nat /\ (q = <<>> <=> Len(q) = 0)
OBVIOUS

\* What follows the first.
LEMMA FollowsTail ==
    ASSUME NEW q \in Seq(Nat), q # <<>>, NEW n \in Nat, Follows(q, n)
    PROVE  /\ Head(q) = n + 1 /\ Tail(q) \in Seq(Nat) /\ Len(Tail(q)) = Len(q) - 1
           /\ Len(q) \in Nat /\ Len(q) >= 1 /\ Follows(Tail(q), n + 1)
<1>1. Len(q) \in Nat /\ Len(q) >= 1 /\ Head(q) = q[1]
  OBVIOUS
<1>2. Tail(q) \in Seq(Nat) /\ Len(Tail(q)) = Len(q) - 1 /\ \A j \in 1..Len(q) - 1 : Tail(q)[j] = q[j + 1]
  OBVIOUS
<1>3. \A j \in 1..Len(q) - 1 : q[j + 1] = n + 1 + j
  BY <1>1 DEF Follows
<1> QED
  BY <1>1, <1>2, <1>3 DEF Follows

\* One more.
LEMMA FollowsAppend ==
    ASSUME NEW q \in Seq(Nat), NEW n \in Nat, Follows(q, n), NEW u, u = n + Len(q) + 1
    PROVE  Append(q, u) \in Seq(Nat) /\ Len(Append(q, u)) = Len(q) + 1 /\ Follows(Append(q, u), n)
<1>1. Len(q) \in Nat /\ u \in Nat
  OBVIOUS
<1>2. Append(q, u) \in Seq(Nat) /\ Len(Append(q, u)) = Len(q) + 1
  BY <1>1
<1>3. \A j \in 1..Len(q) + 1 : Append(q, u)[j] = IF j = Len(q) + 1 THEN u ELSE q[j]
  BY <1>1
<1> QED
  BY <1>1, <1>2, <1>3 DEF Follows

\* None, and one.
LEMMA FollowsFew ==
    /\ <<>> \in Seq(Nat) /\ Len(<<>>) = 0 /\ \A n : Follows(<<>>, n)
    /\ \A n \in Nat : <<n + 1>> \in Seq(Nat) /\ Len(<<n + 1>>) = 1 /\ Follows(<<n + 1>>, n)
BY DEF Follows

-----------------------------------------------------------------------------
(* What an event at x does to what its program has written: it moves on by one *)
(* unit, or is cut off where the bytestream closes.                           *)

Passes(x, z) ==
    \/ z.in = x.in /\ z.outN = x.outN /\ z.wire = x.wire
    \/ /\ x.B = "open" /\ x.in # <<>> /\ z.in = Tail(x.in)
       /\ \/ z.wire = x.wire /\ z.outN = Append(x.outN, Head(x.in))
          \/ x.outN = <<>> /\ z.outN = <<>> /\ z.wire = Append(x.wire, Head(x.in))
    \/ x.outN # <<>> /\ z.in = x.in /\ z.outN = Tail(x.outN) /\ z.wire = Append(x.wire, Head(x.outN))

Cuts(x, z) ==
    /\ z.B \in Closed /\ z.wire = x.wire /\ z.outN \in {x.outN, <<>>}
    /\ z.in = x.in \/ (x.in # <<>> /\ z.in = Tail(x.in))

Sends(x, z) == z.sent = x.sent /\ (Passes(x, z) \/ Cuts(x, z)) /\ (x.B \in Closed => z.B \in Closed)

\* What it does to what the program is given.
Gives(x, z) ==
    /\ x.T = "disconnected" => z.T = "disconnected"
    /\ \/ z.got = x.got /\ z.outT = x.outT
       \/ z.got = x.got /\ z.outT = <<>> /\ z.T = "disconnected"
       \/ x.outT # <<>> /\ z.got = Append(x.got, Head(x.outT)) /\ z.outT = Tail(x.outT)

\* How much is given is a number.
LEMMA GivenIs == \A y : Data(y) => Given(y) \in Nat /\ Len(y.got) \in Nat /\ Len(y.outT) \in Nat
<1> SUFFICES ASSUME NEW y, Data(y)
             PROVE  Given(y) \in Nat /\ Len(y.got) \in Nat /\ Len(y.outT) \in Nat
  OBVIOUS
<1>1. PICK got, out : got = y.got /\ out = y.outT
  OBVIOUS
<1>2. got \in Seq(Nat) /\ out \in Seq(Nat)
  BY <1>1 DEF Data
<1>3. Len(got) \in Nat /\ Len(out) \in Nat /\ Len(got) + Len(out) \in Nat
  BY <1>2
<1> QED
  BY <1>1, <1>3 DEF Given

\* What is sent stays in order, and is whole while the bytestream is open.
LEMMA SendsKeeps ==
    ASSUME NEW x, NEW y, NEW z, Data(x), Data(y), Flows(x, y), Sends(x, z)
    PROVE  Flows(z, y) /\ z.sent \in Nat /\ z.in \in Seq(Nat) /\ z.outN \in Seq(Nat) /\ z.wire \in Seq(Nat)
<1>a. PICK in, out, wire, sent, given :
            in = x.in /\ out = x.outN /\ wire = x.wire /\ sent = x.sent /\ given = Given(y)
  OBVIOUS
<1>b. PICK in2, out2, wire2 : in2 = z.in /\ out2 = z.outN /\ wire2 = z.wire
  OBVIOUS
<1>c. PICK i, o, w, i2, o2, w2 : /\ i = Len(in) /\ o = Len(out) /\ w = Len(wire)
                                 /\ i2 = Len(in2) /\ o2 = Len(out2) /\ w2 = Len(wire2)
  OBVIOUS
<1>d. PICK come, read : come = given + w /\ read = sent - i
  OBVIOUS
<1>1. in \in Seq(Nat) /\ out \in Seq(Nat) /\ wire \in Seq(Nat) /\ sent \in Nat /\ given \in Nat
  BY <1>a, GivenIs DEF Data
<1>2. i \in Nat /\ o \in Nat /\ w \in Nat
  BY <1>c, <1>1, EmptyIs
<1>3. given <= sent /\ w + o + i <= sent /\ Follows(in, read)
  BY <1>a, <1>c, <1>d DEF Flows, Ordered
<1>4. /\ y.T # "disconnected" => Follows(wire, given) /\ Follows(out, come) /\ come + o + i <= sent
      /\ y.T # "disconnected" /\ x.B \notin Closed => come + o + i = sent
  BY <1>a, <1>c, <1>d DEF Flows, Ordered, Whole
<1>5. come \in Nat /\ read \in Nat
  BY <1>d, <1>1, <1>2, <1>3
<1> DEFINE Goal ==
             /\ in2 \in Seq(Nat) /\ out2 \in Seq(Nat) /\ wire2 \in Seq(Nat)
             /\ Follows(in2, sent - i2) /\ w2 + o2 + i2 <= sent
             /\ y.T # "disconnected" =>
                   /\ Follows(wire2, given) /\ Follows(out2, given + w2) /\ given + w2 + o2 + i2 <= sent
             /\ y.T # "disconnected" /\ z.B \notin Closed => given + w2 + o2 + i2 = sent
<1> SUFFICES Goal
  BY <1>a, <1>b, <1>c, <1>1, <1>3 DEF Flows, Ordered, Whole, Sends, Data
<1>6. in # <<>> => /\ Tail(in) \in Seq(Nat) /\ Len(Tail(in)) = i - 1 /\ i >= 1
                   /\ Head(in) = read + 1 /\ Follows(Tail(in), read + 1)
  BY <1>c, <1>1, <1>3, <1>5, FollowsTail
<1>7. out # <<>> => Tail(out) \in Seq(Nat) /\ Len(Tail(out)) = o - 1 /\ o >= 1 /\ Head(out) \in Nat
  BY <1>c, <1>1
<1>8. out # <<>> /\ y.T # "disconnected" => Head(out) = come + 1 /\ Follows(Tail(out), come + 1)
  BY <1>1, <1>4, <1>5, FollowsTail
<1>9. CASE in2 = in /\ out2 = out /\ wire2 = wire /\ (x.B \in Closed => z.B \in Closed)
  <2>1. i2 = i /\ o2 = o /\ w2 = w
    BY <1>c, <1>9
  <2> QED
    BY <1>d, <1>1, <1>2, <1>3, <1>4, <1>9, <2>1
<1>10. CASE /\ z.B \in Closed /\ wire2 = wire /\ out2 \in {out, <<>>}
            /\ in2 = in \/ (in # <<>> /\ in2 = Tail(in))
  <2>1. w2 = w /\ wire2 \in Seq(Nat)
    BY <1>c, <1>1, <1>10
  <2>2. out2 \in Seq(Nat) /\ (y.T # "disconnected" => Follows(out2, come))
    BY <1>1, <1>4, <1>10, FollowsFew
  <2>3. o2 \in Nat /\ o2 <= o
    BY <1>c, <1>2, <1>10, FollowsFew
  <2>4. in2 \in Seq(Nat) /\ i2 \in Nat /\ i2 <= i
    <3>1. in # <<>> /\ in2 = Tail(in) => i2 = i - 1 /\ i2 \in Nat
      BY <1>c, <1>2, <1>6
    <3>2. in2 = in => i2 = i
      BY <1>c
    <3>3. i2 = i \/ (i2 = i - 1 /\ i2 \in Nat)
      BY <1>10, <3>1, <3>2
    <3>4. i2 \in Nat /\ i2 <= i
      BY <1>2, <3>3
    <3> QED
      BY <1>1, <1>6, <1>10, <3>4
  <2>5. Follows(in2, sent - i2)
    <3>1. CASE in2 = in
      BY <1>c, <1>d, <1>3, <3>1
    <3>2. CASE in # <<>> /\ in2 = Tail(in)
      <4>1. i2 = i - 1
        BY <1>c, <1>6, <3>2
      <4>2. sent - i2 = read + 1
        BY <1>d, <1>1, <1>2, <4>1
      <4> QED
        BY <1>6, <3>2, <4>2
    <3> QED
      BY <1>10, <3>1, <3>2
  <2>6. w2 + o2 + i2 <= sent /\ (y.T # "disconnected" => given + w2 + o2 + i2 <= sent)
    BY <1>d, <1>1, <1>2, <1>3, <1>4, <2>1, <2>3, <2>4
  <2> QED
    BY <1>d, <1>4, <1>10, <2>1, <2>2, <2>4, <2>5, <2>6
<1>11. CASE /\ x.B = "open" /\ in # <<>> /\ in2 = Tail(in)
            /\ \/ wire2 = wire /\ out2 = Append(out, Head(in))
               \/ out = <<>> /\ out2 = <<>> /\ wire2 = Append(wire, Head(in))
  <2>1. in2 \in Seq(Nat) /\ i2 = i - 1 /\ i2 \in Nat /\ Head(in) \in Nat
    BY <1>c, <1>2, <1>5, <1>6, <1>11
  <2>2. Follows(in2, sent - i2)
    <3>1. sent - i2 = read + 1
      BY <1>d, <1>1, <1>2, <2>1
    <3> QED
      BY <1>6, <1>11, <3>1
  <2>3. y.T # "disconnected" => come + o + i = sent
    BY <1>4, <1>11 DEF Closed
  <2>4. y.T # "disconnected" => Head(in) = come + o + 1
    <3>1. y.T # "disconnected" => read + 1 = come + o + 1
      BY <1>d, <1>1, <1>2, <1>5, <2>3
    <3> QED
      BY <1>6, <1>11, <3>1
  <2>5. CASE wire2 = wire /\ out2 = Append(out, Head(in))
    <3>1. out2 \in Seq(Nat) /\ o2 = o + 1 /\ w2 = w
      BY <1>c, <1>1, <2>1, <2>5
    <3>2. y.T # "disconnected" => Follows(out2, come)
      BY <1>c, <1>1, <1>4, <1>5, <2>4, <2>5, FollowsAppend
    <3>3. w2 + o2 + i2 <= sent /\ (y.T # "disconnected" => given + w2 + o2 + i2 = sent)
      BY <1>d, <1>1, <1>2, <1>3, <2>1, <2>3, <3>1
    <3>4. sent \in Nat
      BY <1>1
    <3> QED
      BY <1>d, <1>1, <1>4, <2>1, <2>2, <2>5, <3>1, <3>2, <3>3, <3>4
  <2>6. CASE out = <<>> /\ out2 = <<>> /\ wire2 = Append(wire, Head(in))
    <3>1. wire2 \in Seq(Nat) /\ w2 = w + 1 /\ o = 0 /\ o2 = 0
      BY <1>c, <1>1, <2>1, <2>6
    <3>2. y.T # "disconnected" => Follows(wire2, given)
      <4>1. y.T # "disconnected" => Head(in) = given + w + 1
        BY <1>d, <1>1, <1>2, <2>4, <3>1
      <4> QED
        BY <1>c, <1>1, <1>4, <2>6, <4>1, FollowsAppend
    <3>3. w2 + o2 + i2 <= sent /\ (y.T # "disconnected" => given + w2 + o2 + i2 = sent)
      BY <1>d, <1>1, <1>2, <1>3, <2>1, <2>3, <3>1
    <3>4. sent \in Nat
      BY <1>1
    <3> QED
      BY <2>1, <2>2, <2>6, <3>1, <3>2, <3>3, <3>4, FollowsFew
  <2> QED
    BY <1>11, <2>5, <2>6
<1>12. CASE /\ out # <<>> /\ in2 = in /\ out2 = Tail(out) /\ wire2 = Append(wire, Head(out))
            /\ (x.B \in Closed => z.B \in Closed)
  <2>1. wire2 \in Seq(Nat) /\ w2 = w + 1 /\ out2 \in Seq(Nat) /\ o2 = o - 1 /\ i2 = i
    BY <1>c, <1>1, <1>7, <1>12
  <2>2. y.T # "disconnected" => Follows(wire2, given)
    <3>1. y.T # "disconnected" => Head(out) = given + w + 1
      BY <1>d, <1>8, <1>12
    <3> QED
      BY <1>c, <1>1, <1>4, <1>12, <3>1, FollowsAppend
  <2>3. y.T # "disconnected" => Follows(out2, given + w2)
    <3>1. given + w2 = come + 1
      BY <1>d, <1>1, <1>2, <2>1
    <3> QED
      BY <1>8, <1>12, <3>1
  <2>4. w2 + o2 + i2 = w + o + i /\ given + w2 + o2 + i2 = come + o + i /\ sent - i2 = read
    BY <1>d, <1>1, <1>2, <2>1
  <2> QED
    BY <1>1, <1>3, <1>4, <1>12, <2>1, <2>2, <2>3, <2>4
<1> QED
  BY <1>a, <1>b, <1>9, <1>10, <1>11, <1>12 DEF Sends, Passes, Cuts

\* What only moves on stays whole.
LEMMA PassesWhole ==
    ASSUME NEW x, NEW y, NEW z, Data(x), Data(y), z.sent = x.sent, Passes(x, z), Whole(x, y)
    PROVE  Whole(z, y)
<1>a. PICK in, out, wire, sent, given :
            in = x.in /\ out = x.outN /\ wire = x.wire /\ sent = x.sent /\ given = Given(y)
  OBVIOUS
<1>b. PICK in2, out2, wire2 : in2 = z.in /\ out2 = z.outN /\ wire2 = z.wire
  OBVIOUS
<1>1. in \in Seq(Nat) /\ out \in Seq(Nat) /\ wire \in Seq(Nat) /\ sent \in Nat /\ given \in Nat
  BY <1>a, GivenIs DEF Data
<1>2. \/ in2 = in /\ out2 = out /\ wire2 = wire
      \/ in # <<>> /\ in2 = Tail(in) /\ wire2 = wire /\ out2 = Append(out, Head(in))
      \/ in # <<>> /\ in2 = Tail(in) /\ out2 = out /\ wire2 = Append(wire, Head(in))
      \/ out # <<>> /\ in2 = in /\ out2 = Tail(out) /\ wire2 = Append(wire, Head(out))
  BY <1>a, <1>b DEF Passes
<1>3. \A q \in Seq(Nat) : q # <<>> => Len(Tail(q)) = Len(q) - 1 /\ Head(q) \in Nat
  OBVIOUS
<1>4. \A q \in Seq(Nat), u \in Nat : Len(Append(q, u)) = Len(q) + 1
  OBVIOUS
<1>c. PICK i, o, w, i2, o2, w2 : /\ i = Len(in) /\ o = Len(out) /\ w = Len(wire)
                                 /\ i2 = Len(in2) /\ o2 = Len(out2) /\ w2 = Len(wire2)
  OBVIOUS
<1>5. i \in Nat /\ o \in Nat /\ w \in Nat
  BY <1>c, <1>1, EmptyIs
<1>6. \/ i2 = i /\ o2 = o /\ w2 = w
      \/ i2 = i - 1 /\ w2 = w /\ o2 = o + 1
      \/ i2 = i - 1 /\ w2 = w + 1 /\ o2 = o
      \/ i2 = i /\ o2 = o - 1 /\ w2 = w + 1
  BY <1>c, <1>1, <1>2, <1>3, <1>4
<1>7. given + w2 + o2 + i2 = given + w + o + i
  BY <1>1, <1>5, <1>6
<1> QED
  BY <1>a, <1>b, <1>c, <1>7 DEF Whole

\* A unit that the program of x has taken.
LEMMA GivesKeeps ==
    ASSUME NEW x, NEW y, NEW z, Data(x), Data(y), Flows(y, x), Gives(x, z)
    PROVE  Flows(y, z) /\ z.got \in Seq(Nat) /\ z.outT \in Seq(Nat)
<1>a. PICK got, out, sent, wire, buf, in : /\ got = x.got /\ out = x.outT /\ sent = y.sent
                                           /\ wire = y.wire /\ buf = y.outN /\ in = y.in
  OBVIOUS
<1>b. PICK got2, out2 : got2 = z.got /\ out2 = z.outT
  OBVIOUS
<1>c. PICK g, o, g2, o2, rest : /\ g = Len(got) /\ o = Len(out) /\ g2 = Len(got2) /\ o2 = Len(out2)
                                /\ rest = Len(wire)
  OBVIOUS
<1>1. got \in Seq(Nat) /\ out \in Seq(Nat) /\ sent \in Nat
  BY <1>a DEF Data
<1>2. g \in Nat /\ o \in Nat
  BY <1>c, <1>1, EmptyIs
<1>3. Follows(got, 0) /\ Follows(out, g) /\ g + o <= sent
  BY <1>a, <1>c DEF Flows, Ordered, Given
<1>4. SUFFICES /\ got2 \in Seq(Nat) /\ out2 \in Seq(Nat) /\ Follows(got2, 0) /\ Follows(out2, g2)
               /\ g2 + o2 <= sent /\ (z.T # "disconnected" => g2 + o2 = g + o /\ x.T # "disconnected")
  BY <1>a, <1>b, <1>c DEF Flows, Ordered, Whole, Given
<1>5. out # <<>> => /\ Tail(out) \in Seq(Nat) /\ Len(Tail(out)) = o - 1
                    /\ Head(out) = g + 1 /\ Follows(Tail(out), g + 1)
  BY <1>c, <1>1, <1>2, <1>3, FollowsTail
<1>6. CASE got2 = got /\ out2 = out
  BY <1>a, <1>b, <1>c, <1>1, <1>3, <1>6 DEF Gives
<1>7. CASE got2 = got /\ out2 = <<>> /\ z.T = "disconnected"
  <2>1. g2 = g /\ o2 = 0
    BY <1>c, <1>7, FollowsFew
  <2>2. g2 + o2 <= sent
    BY <1>1, <1>2, <1>3, <2>1
  <2> QED
    BY <1>1, <1>3, <1>7, <2>2, FollowsFew
<1>8. CASE out # <<>> /\ got2 = Append(got, Head(out)) /\ out2 = Tail(out)
  <2>1. got2 \in Seq(Nat) /\ g2 = g + 1 /\ Follows(got2, 0)
    <3>1. Head(out) = 0 + g + 1
      BY <1>2, <1>5, <1>8
    <3> QED
      BY <1>c, <1>1, <1>3, <1>8, <3>1, FollowsAppend
  <2>2. out2 \in Seq(Nat) /\ o2 = o - 1 /\ Follows(out2, g2)
    BY <1>c, <1>5, <1>8, <2>1
  <2>3. g2 + o2 = g + o
    BY <1>2, <2>1, <2>2
  <2> QED
    BY <1>a, <1>b, <1>3, <1>8, <2>1, <2>2, <2>3 DEF Gives
<1> QED
  BY <1>a, <1>b, <1>6, <1>7, <1>8 DEF Gives

\* A unit comes from the network, when there is nothing before it: y loses the first
\* one of the wire, and x has it, or has no use for it.
Takes(x, z, u) ==
    /\ x.T = "disconnected" => z.T = "disconnected"
    /\ x.outT = <<>>
    /\ \/ z.got = x.got /\ z.outT = <<>> /\ z.T = "disconnected"
       \/ z.got = Append(x.got, u) /\ z.outT = <<>> /\ x.T # "disconnected"
       \/ z.got = x.got /\ z.outT = <<u>> /\ x.T # "disconnected"

Arrived(y, v) ==
    /\ v.sent = y.sent /\ v.in = y.in /\ v.outN = y.outN /\ v.B = y.B
    /\ y.wire # <<>> /\ v.wire = Tail(y.wire)

\* ... and the rest comes after it.
LEMMA TakesKeeps ==
    ASSUME NEW x, NEW y, NEW z, NEW v, Data(x), Data(y), Flows(y, x), Arrived(y, v), Takes(x, z, Head(y.wire))
    PROVE  /\ Flows(v, z) /\ z.got \in Seq(Nat) /\ z.outT \in Seq(Nat) /\ v.wire \in Seq(Nat)
           /\ Whole(y, x) /\ z.T # "disconnected" => Whole(v, z)
<1>a. PICK got, out, sent, wire, buf, in : /\ got = x.got /\ out = x.outT /\ sent = y.sent
                                           /\ wire = y.wire /\ buf = y.outN /\ in = y.in
  OBVIOUS
<1>b. PICK got2, out2, wire2 : got2 = z.got /\ out2 = z.outT /\ wire2 = v.wire
  OBVIOUS
<1>c. PICK g, w, b, i, g2, o2, w2 : /\ g = Len(got) /\ w = Len(wire) /\ b = Len(buf) /\ i = Len(in)
                                    /\ g2 = Len(got2) /\ o2 = Len(out2) /\ w2 = Len(wire2)
  OBVIOUS
<1>1. /\ got \in Seq(Nat) /\ sent \in Nat /\ wire \in Seq(Nat) /\ buf \in Seq(Nat) /\ in \in Seq(Nat)
      /\ out = <<>> /\ wire # <<>> /\ wire2 = Tail(wire)
  BY <1>a, <1>b DEF Data, Takes, Arrived
<1>2. g \in Nat /\ w \in Nat /\ b \in Nat /\ i \in Nat /\ Len(out) = 0
  BY <1>c, <1>1, EmptyIs, FollowsFew
<1>3. Given(x) = g
  BY <1>a, <1>c, <1>2 DEF Given
<1>4. /\ Follows(got, 0) /\ g <= sent /\ Follows(in, sent - i) /\ w + b + i <= sent
      /\ x.T # "disconnected" => Follows(wire, g) /\ Follows(buf, g + w) /\ g + w + b + i <= sent
      /\ x.T # "disconnected" /\ y.B \notin Closed => g + w + b + i = sent
  BY <1>a, <1>c, <1>3 DEF Flows, Ordered, Whole
<1>5. /\ w2 = w - 1 /\ w >= 1 /\ wire2 \in Seq(Nat) /\ Head(wire) \in Nat
      /\ x.T # "disconnected" => Head(wire) = g + 1 /\ Follows(wire2, g + 1)
  <2>1. w2 = w - 1 /\ w >= 1 /\ wire2 \in Seq(Nat) /\ Head(wire) \in Nat
    BY <1>c, <1>1
  <2> QED
    BY <1>1, <1>2, <1>4, <2>1, FollowsTail
<1>6. SUFFICES /\ got2 \in Seq(Nat) /\ out2 \in Seq(Nat) /\ Follows(got2, 0) /\ Follows(out2, g2)
               /\ g2 + o2 <= sent
               /\ z.T # "disconnected" => g2 + o2 = g + 1 /\ x.T # "disconnected"
  <2>1. w2 + b + i <= sent
    BY <1>1, <1>2, <1>4, <1>5
  <2>2. ASSUME z.T # "disconnected"
        PROVE  /\ Follows(wire2, g2 + o2) /\ Follows(buf, (g2 + o2) + w2)
               /\ (g2 + o2) + w2 + b + i = g + w + b + i
    <3>1. g2 + o2 = g + 1 /\ (g + 1) + w2 = g + w /\ (g + 1) + w2 + b + i = g + w + b + i
      BY <1>2, <1>5, <1>6, <2>2
    <3> QED
      BY <1>4, <1>5, <1>6, <2>2, <3>1
  <2>3. Given(z) = g2 + o2
    BY <1>b, <1>c DEF Given
  <2>4. /\ v.sent = sent /\ v.in = in /\ v.outN = buf /\ v.B = y.B /\ v.wire = wire2
    BY <1>a, <1>b DEF Arrived
  <2>5. Ordered(v, z)
    BY <1>b, <1>c, <1>4, <1>6, <2>1, <2>2, <2>3, <2>4 DEF Ordered
  <2>6. Whole(y, x) /\ z.T # "disconnected" => Whole(v, z)
    <3>1. Whole(y, x) => g + w + b + i = sent
      BY <1>a, <1>c, <1>3 DEF Whole
    <3>2. z.T # "disconnected" /\ g + w + b + i = sent => Whole(v, z)
      BY <1>c, <2>2, <2>3, <2>4 DEF Whole
    <3> QED
      BY <3>1, <3>2
  <2>7. z.T # "disconnected" /\ v.B \notin Closed => Whole(v, z)
    BY <1>6, <2>4, <2>6 DEF Flows
  <2> QED
    BY <1>b, <1>5, <1>6, <2>5, <2>6, <2>7 DEF Flows
<1>7. CASE got2 = got /\ out2 = <<>> /\ z.T = "disconnected"
  <2>1. g2 = g /\ o2 = 0
    BY <1>c, <1>7, FollowsFew
  <2>2. g2 + o2 <= sent
    BY <1>1, <1>2, <1>4, <2>1
  <2> QED
    BY <1>1, <1>4, <1>7, <2>2, FollowsFew
<1>8. CASE got2 = Append(got, Head(wire)) /\ out2 = <<>> /\ x.T # "disconnected"
  <2>1. got2 \in Seq(Nat) /\ g2 = g + 1 /\ Follows(got2, 0)
    <3>1. Head(wire) = 0 + g + 1
      BY <1>2, <1>5, <1>8
    <3> QED
      BY <1>c, <1>1, <1>4, <1>8, <3>1, FollowsAppend
  <2>2. o2 = 0
    BY <1>c, <1>8, FollowsFew
  <2>3. g2 + o2 = g + 1 /\ g2 + o2 <= sent
    BY <1>1, <1>2, <1>4, <1>5, <1>8, <2>1, <2>2
  <2> QED
    BY <1>8, <2>1, <2>3, FollowsFew
<1>9. CASE got2 = got /\ out2 = <<Head(wire)>> /\ x.T # "disconnected"
  <2>1. g2 = g
    BY <1>c, <1>9
  <2>2. out2 \in Seq(Nat) /\ o2 = 1 /\ Follows(out2, g2)
    BY <1>c, <1>2, <1>5, <1>9, <2>1, FollowsFew
  <2>3. g2 + o2 = g + 1 /\ g2 + o2 <= sent
    BY <1>1, <1>2, <1>4, <1>5, <1>9, <2>1, <2>2
  <2> QED
    BY <1>1, <1>4, <1>9, <2>2, <2>3
<1> QED
  BY <1>a, <1>b, <1>7, <1>8, <1>9 DEF Takes

\* A unit is written.
LEMMA WritesKeeps ==
    ASSUME NEW x, NEW y, NEW z, Data(x), Data(y), Flows(x, y), z.sent = x.sent + 1, z.in = Append(x.in, x.sent + 1),
           z.outN = x.outN, z.wire = x.wire, z.B = x.B
    PROVE  Flows(z, y) /\ z.sent \in Nat /\ z.in \in Seq(Nat) /\ (Whole(x, y) => Whole(z, y))
<1>a. PICK in, out, wire, sent, given, in2 :
            in = x.in /\ out = x.outN /\ wire = x.wire /\ sent = x.sent /\ given = Given(y) /\ in2 = z.in
  OBVIOUS
<1>c. PICK i, o, w, i2 : i = Len(in) /\ o = Len(out) /\ w = Len(wire) /\ i2 = Len(in2)
  OBVIOUS
<1>1. in \in Seq(Nat) /\ out \in Seq(Nat) /\ wire \in Seq(Nat) /\ sent \in Nat /\ given \in Nat
  BY <1>a, GivenIs DEF Data
<1>2. i \in Nat /\ o \in Nat /\ w \in Nat
  BY <1>c, <1>1, EmptyIs
<1>3. /\ given <= sent /\ w + o + i <= sent /\ Follows(in, sent - i)
      /\ y.T # "disconnected" => given + w + o + i <= sent
  BY <1>a, <1>c DEF Flows, Ordered
<1>4. in2 = Append(in, sent + 1)
  BY <1>a
<1>5. PICK read : read = sent - i
  OBVIOUS
<1>6. read \in Nat /\ sent + 1 = read + i + 1
  BY <1>1, <1>2, <1>3, <1>5
<1>7. in2 \in Seq(Nat) /\ i2 = i + 1 /\ Follows(in2, read)
  BY <1>c, <1>1, <1>3, <1>4, <1>5, <1>6, FollowsAppend
<1>8. /\ (sent + 1) - i2 = read /\ given <= sent + 1 /\ w + o + i2 <= sent + 1
      /\ y.T # "disconnected" => given + w + o + i2 <= sent + 1
      /\ given + w + o + i = sent => given + w + o + i2 = sent + 1
  BY <1>1, <1>2, <1>3, <1>5, <1>7
<1>9. z.sent = sent + 1 /\ z.in = in2 /\ z.outN = out /\ z.wire = wire
  BY <1>a
<1>10. Ordered(z, y)
  BY <1>a, <1>c, <1>7, <1>8, <1>9 DEF Flows, Ordered
<1>11. Whole(x, y) => Whole(z, y)
  BY <1>a, <1>c, <1>8, <1>9 DEF Whole
<1>12. z.sent \in Nat /\ z.in \in Seq(Nat)
  <2>1. sent + 1 \in Nat
    BY <1>1
  <2> QED
    BY <1>7, <1>9, <2>1
<1>13. y.T # "disconnected" /\ z.B \notin Closed => Whole(z, y)
  BY <1>11 DEF Flows
<1> QED
  BY <1>10, <1>11, <1>12, <1>13 DEF Flows

-----------------------------------------------------------------------------
(* What the callbacks make of a side, field by field. *)

\* What closing and blocking leave alone; the sockets to the program and to the network.
Rest(x, z) ==
    /\ z.tube = x.tube /\ z.program = x.program /\ z.sent = x.sent /\ z.in = x.in
    /\ z.got = x.got /\ z.wire = x.wire /\ z.asking = x.asking /\ z.opening = x.opening
    /\ z.answers = x.answers /\ z.onB = x.onB
Blocked(x, z) == z.stopT = x.stopT /\ z.stopWrite = x.stopWrite /\ z.stopRead = x.stopRead
Socket(x, z) ==
    z.T = x.T /\ z.outT = x.outT /\ z.onT = x.onT /\ z.toT = x.toT /\ z.toB = x.toB
Link(x, z) == z.B = x.B /\ z.N = x.N /\ z.outN = x.outN /\ z.listening = x.listening /\ z.post = x.post

\* The socket of the program is given up.
Removed(z) == z.T = "disconnected" /\ z.outT = <<>> /\ z.onT = FALSE /\ z.toT = FALSE /\ z.toB = FALSE

\* The bytestream is closed: its socket is gone, and who was asked to open it answers.
Unlinked(x, z) ==
    /\ z.B = "closed" /\ z.listening = FALSE
    /\ z.N = IF x.N = "connected" THEN "disconnected" ELSE x.N
    /\ z.outN = IF x.N = "connected" THEN <<>> ELSE x.outN
    /\ z.post = IF x.answers THEN Append(x.post, "oob_result") ELSE x.post

\* Then a program to whom nothing is left to be given is told.
Ended(x, z) ==
    /\ Typed(z) /\ Rest(x, z) /\ Blocked(x, z) /\ z.fault = x.fault /\ Unlinked(x, z)
    /\ IF x.onB /\ x.toT /\ x.outT = <<>> THEN Removed(z) ELSE Socket(x, z)

\* A bytestream that has something to write closes later.
Ending(x, z) ==
    IF x.B \in {"none", "closed"} THEN z = x
    ELSE IF x.outN # <<>>
    THEN /\ Typed(z) /\ Rest(x, z) /\ Blocked(x, z) /\ z.fault = x.fault /\ Socket(x, z)
         /\ z.B = "closing" /\ z.N = x.N /\ z.outN = x.outN /\ z.listening = x.listening /\ z.post = x.post
    ELSE Ended(x, z)

\* remove_transport
LEMMA RemoveTransportIs ==
    ASSUME NEW x, Typed(x), NEW z, z = RemoveTransport(x)
    PROVE  /\ Typed(z) /\ Rest(x, z) /\ Blocked(x, z) /\ z.fault = x.fault
           /\ Link(x, z) /\ Removed(z)
<1>1. /\ DOMAIN z = Fields /\ Rest(x, z) /\ Blocked(x, z) /\ z.fault = x.fault
      /\ Link(x, z) /\ Removed(z)
  BY DEF Typed, Fields, RemoveTransport, DropT, FireConnectionClosed, Rest, Blocked, Link, Removed
<1>2. Typed(z)
  BY <1>1 DEF Typed, Rest, Blocked, Link, Removed
<1> QED
  BY <1>1, <1>2

\* bytestream_closed
LEMMA BytestreamClosedIs ==
    ASSUME NEW x, Typed(x), NEW z, z = BytestreamClosed(x)
    PROVE  Ended(x, z)
<1> DEFINE told == IF x.answers THEN Post(x, "oob_result") ELSE x
           y == [DropN(told) EXCEPT !.B = "closed", !.listening = FALSE]
<1>1. /\ DOMAIN y = Fields /\ Rest(x, y) /\ Blocked(x, y) /\ y.fault = x.fault
      /\ Unlinked(x, y) /\ Socket(x, y)
  BY DEF Typed, Fields, DropN, Post, Rest, Blocked, Unlinked, Socket
<1>2. z = IF y.onB /\ y.toT /\ y.outT = <<>> THEN RemoveTransport(y) ELSE y
  BY DEF BytestreamClosed, BytestreamGone
<1> HIDE DEF y
<1>3. Typed(y)
  BY <1>1 DEF Typed, Rest, Blocked, Unlinked, Socket
<1>4. CASE y.onB /\ y.toT /\ y.outT = <<>>
  <2>1. z = RemoveTransport(y)
    BY <1>2, <1>4
  <2>2. Typed(z) /\ Rest(y, z) /\ Blocked(y, z) /\ z.fault = y.fault /\ Link(y, z) /\ Removed(z)
    BY <1>3, <2>1, RemoveTransportIs
  <2> QED
    BY <1>1, <1>4, <2>2 DEF Rest, Blocked, Link, Unlinked, Socket, Ended
<1>5. CASE ~(y.onB /\ y.toT /\ y.outT = <<>>)
  BY <1>1, <1>2, <1>3, <1>5 DEF Rest, Socket, Ended
<1> QED
  BY <1>4, <1>5

\* gibber_bytestream_oob_do_close
LEMMA CloseBytestreamIs ==
    ASSUME NEW x, Typed(x), x.B # "local_pending", NEW z, z = CloseBytestream(x)
    PROVE  Ending(x, z)
<1>1. CASE x.B \in {"none", "closed"}
  BY <1>1 DEF CloseBytestream, Ending
<1> DEFINE y == [x EXCEPT !.B = "closing"]
<1>2. /\ DOMAIN y = Fields /\ Rest(x, y) /\ Blocked(x, y) /\ y.fault = x.fault /\ Socket(x, y)
      /\ y.B = "closing" /\ y.N = x.N /\ y.outN = x.outN /\ y.listening = x.listening /\ y.post = x.post
  BY DEF Typed, Fields, Rest, Blocked, Socket
<1>3. x.B \notin {"none", "closed"} => z = IF y.outN # <<>> THEN y ELSE BytestreamClosed(y)
  BY DEF CloseBytestream
<1> HIDE DEF y
<1>4. Typed(y)
  BY <1>2 DEF Typed, Rest, Blocked, Socket
<1>5. CASE x.B \notin {"none", "closed"} /\ x.outN # <<>>
  BY <1>2, <1>3, <1>4, <1>5 DEF Ending
<1>6. CASE x.B \notin {"none", "closed"} /\ x.outN = <<>>
  <2>1. z = BytestreamClosed(y)
    BY <1>2, <1>3, <1>6
  <2>2. Ended(y, z)
    BY <1>4, <2>1, BytestreamClosedIs
  <2>3. Ended(x, z)
    BY <1>2, <2>2 DEF Ended, Rest, Blocked, Socket, Unlinked
  <2> QED
    BY <1>6, <2>3 DEF Ending
<1> QED
  BY <1>1, <1>5, <1>6

\* What was written to the network is lost with it.
LEMMA BreakNIs ==
    ASSUME NEW x, Typed(x), x.N = "connected", x.B \in {"open", "closing"}, NEW z, z = BreakN(x)
    PROVE  Ended(x, z)
<1> DEFINE y == [x EXCEPT !.N = "disconnected", !.outN = <<>>]
<1>1. /\ DOMAIN y = Fields /\ Rest(x, y) /\ Blocked(x, y) /\ y.fault = x.fault /\ Socket(x, y)
      /\ y.B = x.B /\ y.N = "disconnected" /\ y.outN = <<>> /\ y.listening = x.listening /\ y.post = x.post
  BY DEF Typed, Fields, Rest, Blocked, Socket
<1>2. z = CloseBytestream(y)
  BY DEF BreakN, DropN
<1> HIDE DEF y
<1>3. Typed(y)
  BY <1>1 DEF Typed, Rest, Blocked, Socket
<1>4. Ending(y, z)
  BY <1>1, <1>2, <1>3, CloseBytestreamIs
<1>5. Ended(y, z)
  BY <1>1, <1>4 DEF Ending
<1> QED
  BY <1>1, <1>5 DEF Ended, Rest, Blocked, Socket, Unlinked

\* The socket of the program is gone.
Dropped(x, y) ==
    /\ Typed(y) /\ Rest(x, y) /\ Blocked(x, y) /\ y.fault = x.fault /\ Link(x, y)
    /\ y.T = "disconnected" /\ y.outT = <<>> /\ y.onT = x.onT /\ y.toT = x.toT /\ y.toB = x.toB

\* _do_disconnect, whether the client is told or not
LEMMA DropIs ==
    ASSUME NEW x, Typed(x), NEW z, z = DropT(x) \/ z = FireConnectionClosed(DropT(x))
    PROVE  Dropped(x, z)
<1>1. /\ DOMAIN z = Fields /\ Rest(x, z) /\ Blocked(x, z) /\ z.fault = x.fault /\ Link(x, z)
      /\ z.T = "disconnected" /\ z.outT = <<>> /\ z.onT = x.onT /\ z.toT = x.toT /\ z.toB = x.toB
  BY DEF Typed, Fields, DropT, FireConnectionClosed, Rest, Blocked, Link
<1>2. Typed(z)
  BY <1>1 DEF Typed, Rest, Blocked, Link
<1> QED
  BY <1>1, <1>2 DEF Dropped

\* transport_disconnected_cb of the tube
LEMMA BreakTIs ==
    ASSUME NEW x, Typed(x), x.B # "local_pending", NEW z, z = BreakT(x)
    PROVE  IF x.onT /\ x.toB THEN \E y : Dropped(x, y) /\ Ending(y, z) ELSE Dropped(x, z)
<1>1. CASE ~(x.onT /\ x.toB)
  <2>1. z = DropT(x) \/ z = FireConnectionClosed(DropT(x))
    BY <1>1 DEF BreakT
  <2> QED
    BY <1>1, <2>1, DropIs
<1>2. CASE x.onT /\ x.toB
  <2>1. PICK y : y = FireConnectionClosed(DropT(x))
    OBVIOUS
  <2>2. z = CloseBytestream(y)
    BY <1>2, <2>1 DEF BreakT
  <2>3. Dropped(x, y)
    BY <2>1, DropIs
  <2>4. Ending(y, z)
    BY <2>2, <2>3, CloseBytestreamIs DEF Dropped, Link
  <2> QED
    BY <1>2, <2>3, <2>4
<1> QED
  BY <1>1, <1>2

\* gibber_bytestream_oob_block_reading
Reads(x, z, block) ==
    /\ Typed(z) /\ Rest(x, z) /\ Socket(x, z) /\ Link(x, z) /\ z.fault = x.fault
    /\ z.stopT = x.stopT /\ z.stopWrite = x.stopWrite /\ z.stopRead = block

\* What block_reading leaves, whoever calls it.
LEMMA BlockReadingIs ==
    ASSUME NEW x, Typed(x), NEW block \in BOOLEAN, x.stopRead = block \/ x.N = "connected",
           NEW z, z = BlockReading(x, block)
    PROVE  Reads(x, z, block)
<1>1. /\ DOMAIN z = Fields /\ Rest(x, z) /\ Socket(x, z) /\ Link(x, z) /\ z.fault = x.fault
      /\ z.stopT = x.stopT /\ z.stopWrite = x.stopWrite /\ z.stopRead = block
  BY DEF Typed, Fields, BlockReading, Rest, Socket, Link
<1>2. Typed(z)
  BY <1>1 DEF Typed, Rest, Socket, Link
<1> QED
  BY <1>1, <1>2 DEF Reads

\* change_write_blocked_state, when the tube that listens has a socket
Turns(x, z, block) ==
    /\ Typed(z) /\ Rest(x, z) /\ Socket(x, z) /\ Link(x, z) /\ z.fault = x.fault
    /\ z.stopT = (IF x.stopWrite # block /\ x.onB THEN block ELSE x.stopT)
    /\ z.stopWrite = block /\ z.stopRead = x.stopRead

\* What the tube that listens to write_blocked does to its socket.
LEMMA BlockWritingIs ==
    ASSUME NEW x, Typed(x), NEW block \in BOOLEAN, x.onB => x.toT,
           NEW z, z = BlockWriting(x, block)
    PROVE  Turns(x, z, block)
<1>1. /\ DOMAIN z = Fields /\ Rest(x, z) /\ Socket(x, z) /\ Link(x, z) /\ z.fault = x.fault
      /\ z.stopT = (IF x.stopWrite # block /\ x.onB THEN block ELSE x.stopT)
      /\ z.stopWrite = block /\ z.stopRead = x.stopRead
  BY DEF Typed, Fields, BlockWriting, Rest, Socket, Link
<1>2. Typed(z)
  BY <1>1 DEF Typed, Rest, Socket, Link
<1> QED
  BY <1>1, <1>2 DEF Turns

\* transport_buffer_empty_cb of the tube
Emptied(x, z) ==
    IF ~x.onT THEN z = x
    ELSE IF x.B = "closed"
    THEN /\ Typed(z) /\ Rest(x, z) /\ Blocked(x, z) /\ z.fault = x.fault /\ Link(x, z) /\ Removed(z)
    ELSE Reads(x, z, FALSE)

\* An empty buffer lets the bytestream read on, or removes what is left of the link.
LEMMA EmptyTIs ==
    ASSUME NEW x, Typed(x), x.onT => x.toB, x.onT /\ x.B # "closed" => x.N = "connected",
           NEW z, z = EmptyT(x)
    PROVE  Emptied(x, z)
<1>1. CASE ~x.onT
  BY <1>1 DEF EmptyT, Emptied
<1>2. CASE x.onT /\ x.B = "closed"
  BY <1>2, RemoveTransportIs DEF EmptyT, Emptied
<1>3. CASE x.onT /\ x.B # "closed"
  <2>1. z = BlockReading(x, FALSE)
    BY <1>3 DEF EmptyT
  <2>2. Reads(x, z, FALSE)
    BY <1>3, <2>1, BlockReadingIs
  <2> QED
    BY <1>3, <2>2 DEF Emptied
<1> QED
  BY <1>1, <1>2, <1>3

\* transport_buffer_empty_cb of the bytestream
LEMMA EmptyNIs ==
    ASSUME NEW x, Typed(x), x.B # "closing" => (x.onB => x.toT), NEW z, z = EmptyN(x)
    PROVE  IF x.B = "closing" THEN Ended(x, z) ELSE Turns(x, z, FALSE)
<1>1. CASE x.B = "closing"
  BY <1>1, BytestreamClosedIs DEF EmptyN
<1>2. CASE x.B # "closing"
  <2>1. z = BlockWriting(x, FALSE)
    BY <1>2 DEF EmptyN
  <2> QED
    BY <1>2, <2>1, BlockWritingIs
<1> QED
  BY <1>1, <1>2

-----------------------------------------------------------------------------
(* A step at one side. *)

\* What there is to say of the side s that becomes z, the other being y.
Local(z, s) ==
    /\ Typed(z) /\ Data(z) /\ Fits(z) /\ InTime(z, s)
    /\ s \notin scenario.writers => z.sent = 0
    /\ z.fault = "none"
Between(z, s, y) ==
    /\ Flows(z, y) /\ Flows(y, z)
    /\ OnlyLeaves(s) => AllArrives(z, y)
    /\ OnlyLeaves(Peer(s)) => AllArrives(y, z)
AgreedAt(s, z, y, toS, toP) ==
    IF s = "recipient" THEN Agreed(z, y, toP, toS) ELSE Agreed(y, z, toS, toP)

\* The other side.
LEMMA PeerIs ==
    /\ Peer("recipient") = "initiator" /\ Peer("initiator") = "recipient"
    /\ Sides = {"recipient", "initiator"}
    /\ \A s \in Sides : Peer(s) \in Sides /\ Peer(s) # s /\ Peer(Peer(s)) = s
BY DEF Peer, Sides

\* The stanzas that wait to be sent do not matter.
LEMMA PostedIs ==
    ASSUME NEW z, Typed(z), NEW x, x = [z EXCEPT !.post = <<>>]
    PROVE  /\ x.post = <<>> /\ x.fault = z.fault /\ (Typed(x) /\ Data(z) => Data(x))
           /\ Typed(x) /\ (Fits(z) => Fits(x)) /\ \A s : InTime(z, s) => InTime(x, s)
           /\ x.sent = z.sent
           /\ \A y : (Flows(z, y) => Flows(x, y)) /\ (Flows(y, z) => Flows(y, x))
           /\ \A y : (AllArrives(z, y) => AllArrives(x, y)) /\ (AllArrives(y, z) => AllArrives(y, x))
           /\ \A y, toI, toR : /\ Agreed(z, y, toI, toR) => Agreed(x, y, toI, toR)
                               /\ Agreed(y, z, toI, toR) => Agreed(y, x, toI, toR)
<1>1. /\ DOMAIN x = Fields /\ x.tube = z.tube /\ x.program = z.program /\ x.sent = z.sent
      /\ x.in = z.in /\ x.got = z.got /\ x.wire = z.wire /\ x.asking = z.asking /\ x.opening = z.opening
      /\ x.answers = z.answers /\ x.onB = z.onB /\ Blocked(z, x) /\ Socket(z, x) /\ x.fault = z.fault
      /\ x.B = z.B /\ x.N = z.N /\ x.outN = z.outN /\ x.listening = z.listening /\ x.post = <<>>
  BY DEF Typed, Fields, Blocked, Socket
<1> HIDE DEF Fields
<1>2. Typed(x)
  BY <1>1 DEF Typed, Blocked, Socket
<1>3. Data(z) => Data(x)
  BY <1>1 DEF Data, Socket
<1>4. Fits(z) => Fits(x)
  BY <1>1 DEF Fits, SocketFits, TubeFits, Blocks, Blocked, Socket
<1>5. \A s : InTime(z, s) => InTime(x, s)
  BY <1>1 DEF InTime, Socket
<1>6. Given(x) = Given(z)
  BY <1>1 DEF Given, Socket
<1>7. \A y : (Flows(z, y) => Flows(x, y)) /\ (Flows(y, z) => Flows(y, x))
  BY <1>1, <1>6 DEF Flows, Ordered, Whole, Socket
<1>8. \A y : (AllArrives(z, y) => AllArrives(x, y)) /\ (AllArrives(y, z) => AllArrives(y, x))
  BY <1>1, <1>6 DEF AllArrives, Whole, Socket
<1>9. \A y, toI, toR : Agreed(z, y, toI, toR) => Agreed(x, y, toI, toR)
  BY <1>1 DEF Agreed, Socket
<1>10. \A y, toI, toR : Agreed(y, z, toI, toR) => Agreed(y, x, toI, toR)
  BY <1>1 DEF Agreed, Socket
<1> QED
  BY <1>1, <1>2, <1>3, <1>4, <1>5, <1>7, <1>8, <1>9, <1>10

\* A step that leaves s as z, and the other side as v.
LEMMA StepKeeps ==
    ASSUME Good, NEW s \in Sides, NEW z, NEW v, scenario' = scenario,
           DOMAIN side' = Sides, side'[s] = [z EXCEPT !.post = <<>>], side'[Peer(s)] = v,
           DOMAIN mail' = Sides, Sound(v, Peer(s)), v.fault = "none",
           Local(z, s), Between(z, s, v), AgreedAt(s, z, v, mail'[s], mail'[Peer(s)])
    PROVE  Good' /\ Running'
<1>a. PICK x : x = side'[s]
  OBVIOUS
<1>b. PICK p : p = Peer(s)
  OBVIOUS
<1>0. p \in Sides /\ p # s /\ Peer(p) = s /\ Sides = {s, p} /\ side'[p] = v
  BY <1>b, PeerIs
<1>1. /\ x.post = <<>> /\ x.fault = "none" /\ Typed(x) /\ Data(x) /\ Fits(x) /\ InTime(x, s)
      /\ x.sent = z.sent
      /\ \A y : (Flows(z, y) => Flows(x, y)) /\ (Flows(y, z) => Flows(y, x))
      /\ \A y : (AllArrives(z, y) => AllArrives(x, y)) /\ (AllArrives(y, z) => AllArrives(y, x))
      /\ \A y, toI, toR : /\ Agreed(z, y, toI, toR) => Agreed(x, y, toI, toR)
                          /\ Agreed(y, z, toI, toR) => Agreed(y, x, toI, toR)
  BY <1>a, PostedIs DEF Local
<1>2. Sound(x, s) /\ Sound(v, p)
  BY <1>1, <1>b DEF Sound, Local
<1>3. /\ Flows(x, v) /\ Flows(v, x)
      /\ OnlyLeaves(s) => AllArrives(x, v)
      /\ OnlyLeaves(p) => AllArrives(v, x)
  BY <1>1, <1>b DEF Between
<1>4. Agreed(side'["recipient"], side'["initiator"], mail'["initiator"], mail'["recipient"])
  <2>1. CASE s = "recipient"
    BY <1>1, <1>a, <2>1, PeerIs DEF AgreedAt
  <2>2. CASE s = "initiator"
    BY <1>1, <1>a, <2>2, PeerIs DEF AgreedAt
  <2> QED
    BY <2>1, <2>2, PeerIs
<1>5. Agreed(side["recipient"], side["initiator"], mail["initiator"], mail["recipient"])'
  BY <1>4 DEF Agreed
<1>6. \A t \in Sides : Sound(side'[t], t) /\ Flows(side'[t], side'[Peer(t)])
                       /\ (OnlyLeaves(t) => AllArrives(side'[t], side'[Peer(t)]))
  BY <1>a, <1>b, <1>0, <1>2, <1>3
<1>7. \A t \in Sides : (Sound(side[t], t))'
  BY <1>6 DEF Sound, InTime
<1>8. \A t \in Sides : (Flows(side[t], side[Peer(t)]))' /\ (OnlyLeaves(t) => AllArrives(side[t], side[Peer(t)]))'
  BY <1>6 DEF OnlyLeaves
<1>9. Running'
  BY <1>0, <1>1, <1>a DEF Running
<1>10. (scenario \in Scenarios)'
  BY DEF Good
<1> QED
  BY <1>5, <1>7, <1>8, <1>9, <1>10 DEF Good

\* What is known of a side and the other one.
LEMMA GoodIs ==
    ASSUME Good, Running, NEW s \in Sides
    PROVE  /\ Local(side[s], s) /\ side[s].post = <<>>
           /\ Sound(side[Peer(s)], Peer(s)) /\ side[Peer(s)].fault = "none"
           /\ Local(side[Peer(s)], Peer(s)) /\ side[Peer(s)].post = <<>>
           /\ Between(side[s], s, side[Peer(s)])
           /\ AgreedAt(s, side[s], side[Peer(s)], mail[s], mail[Peer(s)])
<1>1. Peer(s) \in Sides /\ Peer(Peer(s)) = s
  BY PeerIs
<1>2. Sound(side[s], s) /\ Sound(side[Peer(s)], Peer(s))
  BY <1>1 DEF Good
<1>3. side[s].fault = "none" /\ side[Peer(s)].fault = "none"
  BY <1>1 DEF Running
<1>4. Local(side[s], s) /\ Local(side[Peer(s)], Peer(s)) /\ side[s].post = <<>> /\ side[Peer(s)].post = <<>>
  BY <1>2, <1>3 DEF Local, Sound
<1>5. Between(side[s], s, side[Peer(s)])
  <2>1. \A t \in Sides : /\ Flows(side[t], side[Peer(t)])
                         /\ OnlyLeaves(t) => AllArrives(side[t], side[Peer(t)])
    BY DEF Good
  <2> QED
    BY <1>1, <2>1 DEF Between
<1>6. AgreedAt(s, side[s], side[Peer(s)], mail[s], mail[Peer(s)])
  <2>1. CASE s = "recipient"
    BY <2>1, PeerIs DEF Good, AgreedAt
  <2>2. CASE s = "initiator"
    BY <2>2, PeerIs DEF Good, AgreedAt
  <2> QED
    BY <2>1, <2>2, PeerIs
<1> QED
  BY <1>2, <1>3, <1>4, <1>5, <1>6

\* The callbacks of an event have left z.
LEMMA HandledKeeps ==
    ASSUME Good, Running, NEW s \in Sides, NEW z, Handled(s, z), Local(z, s), Between(z, s, side[Peer(s)]),
           AgreedAt(s, z, side[Peer(s)], mail[s], mail[Peer(s)] \o z.post)
    PROVE  Good' /\ Running'
<1>1. DOMAIN side = Sides /\ DOMAIN mail = Sides /\ Peer(s) \in Sides /\ Peer(s) # s
  BY PeerIs DEF Good
<1>2. /\ DOMAIN side' = Sides /\ side'[s] = [z EXCEPT !.post = <<>>] /\ side'[Peer(s)] = side[Peer(s)]
      /\ DOMAIN mail' = Sides /\ mail'[s] = mail[s] /\ mail'[Peer(s)] = mail[Peer(s)] \o z.post
      /\ scenario' = scenario
  BY <1>1 DEF Handled
<1>3. AgreedAt(s, z, side[Peer(s)], mail'[s], mail'[Peer(s)])
  BY <1>2
<1> QED
  BY <1>2, <1>3, GoodIs, StepKeeps

\* ... the event being a stanza.
LEMMA StanzaKeeps ==
    ASSUME Good, Running, NEW s \in Sides, NEW z, HandledStanza(s, z), Local(z, s), Between(z, s, side[Peer(s)]),
           AgreedAt(s, z, side[Peer(s)], Tail(mail[s]), mail[Peer(s)] \o z.post)
    PROVE  Good' /\ Running'
<1>1. DOMAIN side = Sides /\ DOMAIN mail = Sides /\ Peer(s) \in Sides /\ Peer(s) # s
  BY PeerIs DEF Good
<1>2. /\ DOMAIN side' = Sides /\ side'[s] = [z EXCEPT !.post = <<>>] /\ side'[Peer(s)] = side[Peer(s)]
      /\ DOMAIN mail' = Sides /\ mail'[s] = Tail(mail[s]) /\ mail'[Peer(s)] = mail[Peer(s)] \o z.post
      /\ scenario' = scenario
  BY <1>1 DEF HandledStanza
<1>3. AgreedAt(s, z, side[Peer(s)], mail'[s], mail'[Peer(s)])
  BY <1>2
<1> QED
  BY <1>2, <1>3, GoodIs, StepKeeps

-----------------------------------------------------------------------------
(* What the invariant promises, and how an event that fails leaves it. *)

\* A sequence that is short.
LEMMA LenIs == \A y : Data(y) => /\ Len(y.outT) \in Nat /\ Len(y.outN) \in Nat /\ Len(y.got) \in Nat
<1> SUFFICES ASSUME NEW y, Data(y) PROVE Len(y.outT) \in Nat /\ Len(y.outN) \in Nat /\ Len(y.got) \in Nat
  OBVIOUS
<1>1. PICK a, b, c : a = y.outT /\ b = y.outN /\ c = y.got
  OBVIOUS
<1>2. a \in Seq(Nat) /\ b \in Seq(Nat) /\ c \in Seq(Nat)
  BY <1>1 DEF Data
<1>3. Len(a) \in Nat /\ Len(b) \in Nat /\ Len(c) \in Nat
  BY <1>2
<1> QED
  BY <1>1, <1>3

\* What the program of y has been given.
LEMMA GivenInOrder ==
    ASSUME NEW x, NEW y, Data(x), Data(y), Flows(x, y)
    PROVE  Len(y.got) <= x.sent /\ \A j \in 1 .. Len(y.got) : y.got[j] = j
<1>1. PICK got, out, sent : got = y.got /\ out = y.outT /\ sent = x.sent
  OBVIOUS
<1>2. PICK g, o : g = Len(got) /\ o = Len(out)
  OBVIOUS
<1>3. got \in Seq(Nat) /\ out \in Seq(Nat) /\ sent \in Nat
  BY <1>1 DEF Data
<1>4. g \in Nat /\ o \in Nat
  BY <1>2, <1>3, EmptyIs
<1>5. Follows(got, 0) /\ g + o <= sent
  BY <1>1, <1>2 DEF Flows, Ordered, Given
<1>6. g <= sent
  BY <1>3, <1>4, <1>5
<1>7. \A j \in 1 .. Len(got) : got[j] = j
  BY <1>3, <1>5 DEF Follows
<1> QED
  BY <1>1, <1>2, <1>6, <1>7

\* The data that the programs have been given is in order.
LEMMA GoodIntegrity ==
    ASSUME Good, Running
    PROVE  StreamIntegrity
<1> SUFFICES ASSUME NEW s \in Sides
             PROVE  /\ Len(side[Peer(s)].got) <= side[s].sent
                    /\ \A i \in 1 .. Len(side[Peer(s)].got) : side[Peer(s)].got[i] = i
                    /\ OnlyLeaves(s) /\ side[Peer(s)].T = "disconnected"
                       => Len(side[Peer(s)].got) = side[s].sent
  BY DEF StreamIntegrity, OnlyLeaves
<1>1. Data(side[s]) /\ Data(side[Peer(s)]) /\ Flows(side[s], side[Peer(s)])
  BY GoodIs DEF Local, Between
<1>2. OnlyLeaves(s) => AllArrives(side[s], side[Peer(s)])
  BY GoodIs DEF Between
<1> QED
  BY <1>1, <1>2, GivenInOrder DEF AllArrives

\* ... and it stays what it was.
LEMMA IntegrityKeeps ==
    ASSUME Good, Running, scenario' = scenario,
           \A s \in Sides : /\ side'[s].got = side[s].got /\ side'[s].sent = side[s].sent
                            /\ side'[s].T = side[s].T
    PROVE  StreamIntegrity'
<1>1. StreamIntegrity
  BY GoodIntegrity
<1>2. \A s \in Sides : Peer(s) \in Sides
  BY PeerIs
<1> SUFFICES ASSUME NEW s \in Sides
             PROVE  /\ Len(side'[Peer(s)].got) <= side'[s].sent
                    /\ \A i \in 1 .. Len(side'[Peer(s)].got) : side'[Peer(s)].got[i] = i
                    /\ scenario' = [writers |-> {s}, leavers |-> {s}, closers |-> {}, early |-> FALSE,
                                    breaks |-> FALSE, socket |-> "unix", refuses |-> FALSE]
                       /\ side'[Peer(s)].T = "disconnected"
                       => Len(side'[Peer(s)].got) = side'[s].sent
  BY DEF StreamIntegrity
<1>3. /\ side'[Peer(s)].got = side[Peer(s)].got /\ side'[s].sent = side[s].sent
      /\ side'[Peer(s)].T = side[Peer(s)].T
  BY <1>2
<1> QED
  BY <1>1, <1>3 DEF StreamIntegrity

\* Who is slow stops the one before.
FlowsAt(x) ==
    /\ Len(x.outT) <= 1 /\ Len(x.outN) <= 1
    /\ x.outT # <<>> /\ x.onB /\ x.N = "connected" => x.stopRead
    /\ x.outN # <<>> /\ x.onB /\ x.B = "open" => x.stopT

\* ... at both sides, while the invariant holds.
LEMMA GoodFlows ==
    ASSUME Good, Running, NEW s \in Sides
    PROVE  FlowsAt(side[s])
<1>1. Fits(side[s])
  BY GoodIs DEF Local
<1> QED
  BY <1>1 DEF Fits, Blocks, FlowsAt

\* The invariant implies what it is for.
LEMMA GoodPromised ==
    ASSUME Good, Running
    PROVE  Promised
<1>1. \A s \in Sides : FlowsAt(side[s])
  BY GoodFlows
<1>2. FlowControl
  BY <1>1 DEF FlowControl, FlowsAt, Running
<1> QED
  BY <1>2, GoodIntegrity DEF Promised

\* How the callback of an event at s may fail.
Excused(x, s) ==
    \/ x.fault = "send" /\ (x.B # "closing" => s = "initiator" /\ scenario.socket = "tcp")
    \/ x.fault = "freed" /\ x.tube = "closed"
    \/ x.fault = "connect" /\ scenario.socket = "unix" /\ scenario.refuses

\* An event that fails so.
LEMMA FaultKeeps ==
    ASSUME Good, Running, NEW s \in Sides, scenario' = scenario,
           side'[s].got = side[s].got, side'[s].sent = side[s].sent, side'[s].T = side[s].T,
           side'[Peer(s)].got = side[Peer(s)].got, side'[Peer(s)].sent = side[Peer(s)].sent,
           side'[Peer(s)].T = side[Peer(s)].T, side'[Peer(s)].fault = "none",
           FlowsAt(side'[s]), FlowsAt(side'[Peer(s)]), Excused(side'[s], s)
    PROVE  Promised' /\ ~Running'
<1>1. Sides = {s, Peer(s)}
  BY PeerIs
<1>2. StreamIntegrity'
  BY <1>1, IntegrityKeeps
<1>3. FlowControl'
  BY <1>1 DEF FlowControl, FlowsAt, Excused
<1>4. ~Running'
  BY DEF Running, Excused
<1> QED
  BY <1>2, <1>3, <1>4 DEF Promised

\* ... and changes nothing else that the properties speak of.
LEMMA StoppedKeeps ==
    ASSUME Good, Running, NEW s \in Sides, NEW q, scenario' = scenario,
           side'[s] = q, side'[Peer(s)] = side[Peer(s)], Excused(q, s), FlowsAt(q),
           q.got = side[s].got, q.sent = side[s].sent, q.T = side[s].T
    PROVE  Promised' /\ ~Running'
<1>1. FlowsAt(side[Peer(s)]) /\ side[Peer(s)].fault = "none"
  BY GoodFlows, PeerIs DEF Running
<1> QED
  BY <1>1, FaultKeeps


-----------------------------------------------------------------------------
(* The events after the negotiation. *)

\* What they do to what the two have agreed on: little.
Relays(x, z) ==
    /\ z.asking = x.asking /\ z.opening = x.opening /\ z.answers = x.answers
    /\ (z.program = "none" <=> x.program = "none") \/ x.T = "connecting"
    /\ x.asking => z.T = x.T /\ (z.tube = x.tube \/ scenario.early)
    /\ x.tube = "closed" => z.tube = "closed"
    /\ z.onB => x.onB
    /\ \/ z.B = x.B
       \/ x.B \notin {"none", "closed"} /\ z.B = "closed"
       \/ x.B = "open" /\ z.B = "closing"
    /\ x.B = "accepted" /\ z.B = "closed" => z.tube = "closed"
    /\ z.N = x.N \/ (x.N = "connected" /\ z.N = "disconnected")
    /\ x.B = "none" => z.T = x.T
    /\ z.listening = x.listening \/ (z.B = "closed" /\ z.listening = FALSE)
    /\ z.post = IF x.answers /\ z.B = "closed" /\ x.B # "closed" THEN <<"oob_result">> ELSE <<>>

\* The stanzas under way.
LEMMA MailIs ==
    /\ \A q \in {<<>>, <<"si">>, <<"oob">>, <<"si_ok">>, <<"si_no">>, <<"oob_result">>} : q \o <<>> = q
    /\ <<>> \o <<"si">> = <<"si">> /\ <<>> \o <<"oob">> = <<"oob">>
    /\ <<>> \o <<"si_ok">> = <<"si_ok">> /\ <<>> \o <<"si_no">> = <<"si_no">>
    /\ <<>> \o <<"oob_result">> = <<"oob_result">>
    /\ Tail(<<"si">>) = <<>> /\ Tail(<<"oob">>) = <<>> /\ Tail(<<"si_ok">>) = <<>>
    /\ Tail(<<"si_no">>) = <<>> /\ Tail(<<"oob_result">>) = <<>>
    /\ Head(<<"si">>) = "si" /\ Head(<<"oob">>) = "oob" /\ Head(<<"si_ok">>) = "si_ok"
    /\ Head(<<"si_no">>) = "si_no" /\ Head(<<"oob_result">>) = "oob_result"
    /\ <<"si">> # <<>> /\ <<"oob">> # <<>> /\ <<"si_ok">> # <<>> /\ <<"si_no">> # <<>> /\ <<"oob_result">> # <<>>
OBVIOUS

\* At the recipient.
LEMMA RecipientRelays ==
    ASSUME NEW x, NEW y, NEW z, NEW toI, NEW toR, Agreed(x, y, toI, toR), Relays(x, z), x.T # "connecting"
    PROVE  Agreed(z, y, toI \o z.post, toR)
<1>1. z.post = <<>> /\ toI \o z.post = toI
  BY MailIs DEF Agreed, Relays
<1>2. Agreed(z, y, toI, toR)
  BY <1>1 DEF Agreed, Relays
<1> QED
  BY <1>1, <1>2

\* At the initiator.
LEMMA InitiatorRelays ==
    ASSUME NEW x, NEW y, NEW z, NEW toI, NEW toR, Agreed(y, x, toI, toR), Relays(x, z)
    PROVE  Agreed(y, z, toI, toR \o z.post)
<1>1. CASE x.answers /\ z.B = "closed" /\ x.B # "closed"
  <2>1. toR = <<>> /\ toI = <<>>
    BY <1>1 DEF Agreed
  <2>2. toR \o z.post = <<"oob_result">>
    BY <1>1, <2>1, MailIs DEF Relays
  <2>3. Agreed(y, z, toI, <<"oob_result">>)
    BY <1>1, <2>1, MailIs DEF Agreed, Relays
  <2> QED
    BY <2>2, <2>3
<1>2. CASE ~(x.answers /\ z.B = "closed" /\ x.B # "closed")
  <2>1. toR \o z.post = toR
    BY <1>2, MailIs DEF Agreed, Relays
  <2>2. Agreed(y, z, toI, toR)
    BY <1>2 DEF Agreed, Relays
  <2> QED
    BY <2>1, <2>2
<1> QED
  BY <1>1, <1>2

\* What is left to show of such an event.
LEMMA RelayKeeps ==
    ASSUME Good, Running, NEW s \in Sides, NEW x, x = side[s], NEW y, y = side[Peer(s)], NEW z,
           Handled(s, z), Typed(z), Fits(z), InTime(z, s), z.fault = "none",
           Sends(x, z), Gives(x, z), Relays(x, z),
           OnlyLeaves(s) => AllArrives(z, y), OnlyLeaves(Peer(s)) => AllArrives(y, z)
    PROVE  Good' /\ Running'
<1>1. /\ Local(x, s) /\ Local(y, Peer(s)) /\ Between(x, s, y)
      /\ AgreedAt(s, x, y, mail[s], mail[Peer(s)])
  BY GoodIs
<1>2. /\ Flows(z, y) /\ z.sent \in Nat /\ z.in \in Seq(Nat) /\ z.outN \in Seq(Nat) /\ z.wire \in Seq(Nat)
      /\ Flows(y, z) /\ z.got \in Seq(Nat) /\ z.outT \in Seq(Nat)
  BY <1>1, SendsKeeps, GivesKeeps DEF Local, Between
<1>3. Data(z)
  BY <1>2 DEF Data
<1>4. Local(z, s) /\ Between(z, s, y)
  BY <1>1, <1>2, <1>3 DEF Local, Between, Sends
<1>5. AgreedAt(s, z, y, mail[s], mail[Peer(s)] \o z.post)
  <2>1. CASE s = "recipient"
    <3>1. x.T # "connecting"
      BY <1>1, <2>1 DEF Local, InTime
    <3> QED
      BY <1>1, <2>1, <3>1, RecipientRelays DEF AgreedAt
  <2>2. CASE s = "initiator"
    BY <1>1, <2>2, InitiatorRelays DEF AgreedAt
  <2> QED
    BY <2>1, <2>2, PeerIs
<1> QED
  BY <1>4, <1>5, HandledKeeps

-----------------------------------------------------------------------------
(* When only the program of s writes and leaves. *)

\* What s does with what is written: it goes on, until nothing is left.
Carries(x, z) ==
    /\ z.tube = x.tube /\ z.sent = x.sent /\ Passes(x, z)
    /\ z.N # "refused" /\ (z.N = "none" => z.B # "closed")
    /\ z.B \in Closed => z.in = <<>> /\ z.program = "closed"
    /\ x.B = "closed" => z.B = "closed" /\ z.wire = x.wire

\* ... so that it all arrives.
LEMMA CarriesAll ==
    ASSUME NEW x, NEW y, NEW z, Data(x), Data(y), AllArrives(x, y), Carries(x, z)
    PROVE  AllArrives(z, y)
<1>1. y.T # "disconnected" => Whole(z, y)
  BY PassesWhole DEF AllArrives, Carries
<1>2. y.T = "disconnected" => y.B = "closed" /\ Len(y.got) = z.sent
  BY DEF AllArrives, Carries
<1>3. y.B \in Closed => z.B = "closed" /\ z.wire = <<>>
  BY DEF AllArrives, Carries
<1> QED
  BY <1>1, <1>2, <1>3 DEF AllArrives, Carries

\* What the other side, y, does with it: its socket goes when nothing is left.
LEMMA ArrivesAll ==
    ASSUME NEW x, NEW y, NEW z, Data(x), Data(z), SocketFits(x), AllArrives(x, y), Whole(x, z),
           z.tube = "open", z.program # "closed", z.sent = 0, z.N # "refused", z.N = "none" => z.B # "closed",
           z.B \in Closed => x.B = "closed" /\ x.wire = <<>>,
           z.T = "disconnected" => z.B = "closed" /\ z.outT = <<>>
    PROVE  AllArrives(x, z)
<1>1. ASSUME z.T = "disconnected" PROVE Len(z.got) = x.sent
  <2>1. x.B = "closed" /\ x.wire = <<>> /\ z.outT = <<>>
    BY <1>1 DEF Closed
  <2>2. x.in = <<>> /\ x.outN = <<>>
    BY <2>1 DEF AllArrives, SocketFits, Closed
  <2>3. Len(x.wire) = 0 /\ Len(x.in) = 0 /\ Len(x.outN) = 0 /\ Len(z.outT) = 0
    BY <2>1, <2>2, FollowsFew
  <2>4. PICK g, sent : g = Len(z.got) /\ sent = x.sent
    OBVIOUS
  <2>5. g \in Nat /\ sent \in Nat
    BY <2>4, LenIs DEF Data
  <2>6. g + 0 + 0 + 0 + 0 = sent
    BY <2>3, <2>4 DEF Whole, Given
  <2> QED
    BY <2>4, <2>5, <2>6
<1> QED
  BY <1>1 DEF AllArrives

\* A unit that is handed on is not lost.
LEMMA GivesWhole ==
    ASSUME NEW x, NEW y, NEW z, Data(y), Whole(x, y),
           \/ z.got = y.got /\ z.outT = y.outT
           \/ y.outT # <<>> /\ z.got = Append(y.got, Head(y.outT)) /\ z.outT = Tail(y.outT)
    PROVE  Whole(x, z)
<1>1. Given(z) = Given(y)
  <2>1. CASE z.got = y.got /\ z.outT = y.outT
    BY <2>1 DEF Given
  <2>2. CASE y.outT # <<>> /\ z.got = Append(y.got, Head(y.outT)) /\ z.outT = Tail(y.outT)
    <3>1. PICK got, out, got2, out2 : got = y.got /\ out = y.outT /\ got2 = z.got /\ out2 = z.outT
      OBVIOUS
    <3>2. got \in Seq(Nat) /\ out \in Seq(Nat) /\ out # <<>> /\ got2 = Append(got, Head(out)) /\ out2 = Tail(out)
      BY <2>2, <3>1 DEF Data
    <3>3. Len(got2) = Len(got) + 1 /\ Len(out2) = Len(out) - 1 /\ Len(got) \in Nat /\ Len(out) \in Nat
      BY <3>2
    <3>4. PICK g, o, g2, o2 : g = Len(got) /\ o = Len(out) /\ g2 = Len(got2) /\ o2 = Len(out2)
      OBVIOUS
    <3>5. g2 + o2 = g + o
      BY <3>3, <3>4
    <3> QED
      BY <3>1, <3>4, <3>5 DEF Given
  <2> QED
    BY <2>1, <2>2
<1> QED
  BY <1>1 DEF Whole

\* The other program writes nothing, so nothing goes the other way.
LEMMA OneWay ==
    ASSUME NEW x, NEW y, Data(x), Data(y), Flows(y, x), y.sent = 0
    PROVE  x.got = <<>> /\ x.outT = <<>> /\ y.in = <<>> /\ y.outN = <<>> /\ y.wire = <<>>
<1>1. PICK a, b, c, d, e : a = Len(x.got) /\ b = Len(x.outT) /\ c = Len(y.in) /\ d = Len(y.outN) /\ e = Len(y.wire)
  OBVIOUS
<1>2. x.got \in Seq(Nat) /\ x.outT \in Seq(Nat) /\ y.in \in Seq(Nat) /\ y.outN \in Seq(Nat) /\ y.wire \in Seq(Nat)
  BY DEF Data
<1>3. a \in Nat /\ b \in Nat /\ c \in Nat /\ d \in Nat /\ e \in Nat
  BY <1>1, <1>2, EmptyIs
<1>4. a + b <= 0 /\ e + d + c <= 0
  BY <1>1 DEF Flows, Ordered, Given
<1>5. a = 0 /\ b = 0 /\ c = 0 /\ d = 0 /\ e = 0
  BY <1>3, <1>4
<1> QED
  BY <1>1, <1>2, <1>5, EmptyIs

\* The scenario, and what does not happen in it.
LEMMA WriterIs ==
    ASSUME Good, Running, NEW s \in Sides, OnlyLeaves(s), NEW x, x = side[s], NEW y, y = side[Peer(s)]
    PROVE  /\ AllArrives(x, y) /\ x.got = <<>> /\ x.outT = <<>>
           /\ y.in = <<>> /\ y.outN = <<>> /\ y.wire = <<>>
           /\ scenario.writers = {s} /\ scenario.leavers = {s} /\ scenario.closers = {}
           /\ ~scenario.early /\ ~scenario.breaks /\ scenario.socket = "unix" /\ ~scenario.refuses
           /\ x.T # "connecting" /\ y.T # "connecting"
           /\ x.T = "disconnected" => x.B \notin {"accepted", "initiating", "open"}
           /\ x.N = "connected" => ~Hung(s)
           /\ y.N = "connected" /\ Hung(Peer(s)) => x.B = "closed"
<1>1. AllArrives(x, y) /\ Local(x, s) /\ Local(y, Peer(s)) /\ Flows(y, x) /\ y.sent = 0
  BY GoodIs DEF Between, AllArrives
<1>2. x.got = <<>> /\ x.outT = <<>> /\ y.in = <<>> /\ y.outN = <<>> /\ y.wire = <<>>
  BY <1>1, OneWay DEF Local
<1>3. /\ scenario.writers = {s} /\ scenario.leavers = {s} /\ scenario.closers = {}
      /\ scenario.early = FALSE /\ scenario.breaks = FALSE /\ scenario.socket = "unix" /\ scenario.refuses = FALSE
  BY DEF OnlyLeaves
<1>4. /\ x.T # "connecting" /\ y.T # "connecting"
      /\ x.T = "disconnected" => x.B \notin {"accepted", "initiating", "open"}
  BY <1>1, <1>3 DEF Local, InTime
<1>5. AgreedAt(s, x, y, mail[s], mail[Peer(s)])
  BY GoodIs
<1>6. SocketFits(x) /\ SocketFits(y) /\ Typed(x) /\ Typed(y)
  BY <1>1 DEF Local, Fits
<1>9. x.B # "local_pending" /\ y.B # "local_pending"
  BY <1>5 DEF AgreedAt, Agreed
<1>7. ASSUME x.N = "connected", Hung(s) PROVE FALSE
  <2>1. y.B = "closed" => x.B = "closed"
    BY <1>1 DEF AllArrives, Closed
  <2>2. x.B # "closed" /\ x.B # "none"
    BY <1>6, <1>7 DEF SocketFits
  <2>3. y.B # "closed"
    BY <2>1, <2>2
  <2>4. y.N = "disconnected" => y.B = "closed"
    BY <1>6, <1>9 DEF SocketFits, Typed
  <2>5. y.N = "none" /\ ~y.listening
    BY <1>1, <1>7, <2>3, <2>4 DEF Hung, AllArrives
  <2> QED
    BY <1>5, <1>7, <2>3, <2>5, PeerIs DEF AgreedAt, Agreed
<1>8. ASSUME y.N = "connected", Hung(Peer(s)), x.B # "closed" PROVE FALSE
  <2>1. x.N = "disconnected" => x.B = "closed"
    BY <1>6, <1>9 DEF SocketFits, Typed
  <2>2. x.N = "none" /\ ~x.listening
    BY <1>1, <1>8, <2>1, PeerIs DEF Hung, AllArrives
  <2> QED
    BY <1>5, <1>8, <2>2, PeerIs DEF AgreedAt, Agreed
<1> QED
  BY <1>1, <1>2, <1>3, <1>4, <1>7, <1>8

-----------------------------------------------------------------------------
(* Programs that write and leave; the network. *)

\* What is known of the side at which something happens.
LEMMA HereIs ==
    ASSUME Good, Running, NEW s \in Sides, NEW x, x = side[s], NEW y, y = side[Peer(s)]
    PROVE  /\ Typed(x) /\ Data(x) /\ Fits(x) /\ SocketFits(x) /\ TubeFits(x) /\ Blocks(x) /\ InTime(x, s)
           /\ x.fault = "none" /\ x.post = <<>> /\ x.B # "local_pending" /\ (x.asking => x.B = "none")
           /\ Typed(y) /\ Data(y) /\ SocketFits(y) /\ Flows(x, y) /\ Flows(y, x)
           /\ AgreedAt(s, x, y, mail[s], mail[Peer(s)])
           /\ s \notin scenario.writers => x.sent = 0
           /\ OnlyLeaves(s) => AllArrives(x, y)
           /\ OnlyLeaves(Peer(s)) => AllArrives(y, x)
<1>1. /\ Local(x, s) /\ Local(y, Peer(s)) /\ Between(x, s, y) /\ x.post = <<>>
      /\ AgreedAt(s, x, y, mail[s], mail[Peer(s)])
  BY GoodIs
<1>2. x.B # "local_pending" /\ (x.asking => x.B = "none")
  BY <1>1 DEF AgreedAt, Agreed
<1> QED
  BY <1>1, <1>2 DEF Local, Between, Fits

\* A program writes.
LEMMA WriteKeeps ==
    ASSUME Good, Running, NEW s \in Sides, Write(s)
    PROVE  Good' /\ Running'
<1>a. PICK x, y, p : x = side[s] /\ y = side[Peer(s)] /\ p = Peer(s)
  OBVIOUS
<1>b. PICK z : z = [x EXCEPT !.sent = @ + 1, !.in = Append(@, x.sent + 1)]
  OBVIOUS
<1>1. s \in scenario.writers /\ x.program = "open" /\ Handled(s, z)
  BY <1>a, <1>b DEF Write
<1>2. /\ Typed(x) /\ Data(x) /\ Fits(x) /\ InTime(x, s) /\ x.fault = "none" /\ x.post = <<>>
      /\ Data(y) /\ Flows(x, y) /\ Flows(y, x) /\ AgreedAt(s, x, y, mail[s], mail[p])
  BY <1>a, HereIs
<1>3. /\ DOMAIN z = Fields /\ z.sent = x.sent + 1 /\ z.in = Append(x.in, x.sent + 1)
      /\ z.tube = x.tube /\ z.program = x.program /\ z.got = x.got /\ z.wire = x.wire /\ z.asking = x.asking
      /\ z.opening = x.opening /\ z.answers = x.answers /\ z.onB = x.onB /\ z.fault = x.fault
      /\ Blocked(x, z) /\ Socket(x, z) /\ Link(x, z)
  BY <1>b, <1>2 DEF Typed, Fields, Blocked, Socket, Link
<1> HIDE DEF Fields
<1>4. Flows(z, y) /\ z.sent \in Nat /\ z.in \in Seq(Nat) /\ (Whole(x, y) => Whole(z, y))
  BY <1>2, <1>3, WritesKeeps DEF Link
<1>5. Typed(z)
  BY <1>2, <1>3 DEF Typed, Blocked, Socket, Link
<1>6. Data(z)
  BY <1>2, <1>3, <1>4 DEF Data, Socket, Link
<1>7. Fits(z)
  BY <1>2, <1>3 DEF Fits, SocketFits, TubeFits, Blocks, Blocked, Socket, Link
<1>8. Local(z, s)
  BY <1>1, <1>2, <1>3, <1>5, <1>6, <1>7 DEF Local, InTime, Socket, Link
<1>9. Given(z) = Given(x)
  BY <1>3 DEF Given, Socket
<1>10. Flows(y, z)
  BY <1>2, <1>3, <1>9 DEF Flows, Ordered, Whole, Socket
<1>11. ASSUME OnlyLeaves(s) PROVE AllArrives(z, y)
  <2>1. AllArrives(x, y)
    BY <1>11, <1>a, WriterIs
  <2>2. x.B \notin Closed /\ y.B \notin Closed
    BY <1>1, <2>1 DEF AllArrives, Closed
  <2> QED
    BY <1>3, <1>4, <2>1, <2>2 DEF AllArrives, Link, Closed
<1>12. ~OnlyLeaves(p)
  <2>1. p \in Sides /\ p # s
    BY <1>a, PeerIs
  <2> QED
    BY <1>1, <2>1 DEF OnlyLeaves
<1>13. AgreedAt(s, z, y, mail[s], mail[p] \o z.post)
  <2>1. \A q \in {mail[s], mail[p]} : q \o <<>> = q
    BY <1>2, MailIs DEF AgreedAt, Agreed
  <2>2. mail[p] \o z.post = mail[p]
    BY <1>2, <1>3, <2>1 DEF Link
  <2> QED
    BY <1>2, <1>3, <2>2 DEF AgreedAt, Agreed, Socket, Link
<1>14. Between(z, s, y)
  BY <1>4, <1>10, <1>11, <1>12, <1>a DEF Between
<1> QED
  BY <1>1, <1>8, <1>13, <1>14, <1>a, HandledKeeps

\* A program leaves.
LEMMA LeaveKeeps ==
    ASSUME Good, Running, NEW s \in Sides, Leave(s)
    PROVE  Good' /\ Running'
<1>a. PICK x, y, p : x = side[s] /\ y = side[Peer(s)] /\ p = Peer(s)
  OBVIOUS
<1>b. PICK z : z = [x EXCEPT !.program = "closed"]
  OBVIOUS
<1>1. s \in scenario.leavers /\ x.program = "open" /\ Handled(s, z)
  BY <1>a, <1>b DEF Leave
<1>2. /\ Typed(x) /\ Data(x) /\ Fits(x) /\ InTime(x, s) /\ x.fault = "none" /\ x.post = <<>>
  BY <1>a, HereIs
<1>3. /\ DOMAIN z = Fields /\ z.sent = x.sent /\ z.in = x.in
      /\ z.tube = x.tube /\ z.program = "closed" /\ z.got = x.got /\ z.wire = x.wire /\ z.asking = x.asking
      /\ z.opening = x.opening /\ z.answers = x.answers /\ z.onB = x.onB /\ z.fault = x.fault
      /\ Blocked(x, z) /\ Socket(x, z) /\ Link(x, z)
  BY <1>b, <1>2 DEF Typed, Fields, Blocked, Socket, Link
<1> HIDE DEF Fields
<1>5. Typed(z)
  BY <1>2, <1>3 DEF Typed, Blocked, Socket, Link
<1>7. Fits(z)
  BY <1>2, <1>3 DEF Fits, SocketFits, TubeFits, Blocks, Blocked, Socket, Link
<1>8. InTime(z, s)
  BY <1>2, <1>3 DEF InTime, Socket, Link
<1>9. Sends(x, z) /\ Gives(x, z)
  BY <1>3 DEF Sends, Passes, Gives, Socket, Link
<1>10. Relays(x, z)
  BY <1>1, <1>2, <1>3 DEF Relays, Socket, Link
<1>11. ASSUME OnlyLeaves(s) PROVE AllArrives(z, y)
  <2>1. AllArrives(x, y)
    BY <1>11, <1>a, WriterIs
  <2> QED
    BY <1>3, <2>1 DEF AllArrives, Whole, Link
<1>12. ~OnlyLeaves(p)
  <2>1. p \in Sides /\ p # s
    BY <1>a, PeerIs
  <2> QED
    BY <1>1, <2>1 DEF OnlyLeaves
<1> QED
  BY <1>1, <1>2, <1>3, <1>5, <1>7, <1>8, <1>9, <1>10, <1>11, <1>12, <1>a, RelayKeeps

\* What may be closed.
Closable(x) ==
    /\ x.outN # <<>> => x.N = "connected"
    /\ x.N \in {"none", "refused"} => x.wire = <<>>
    /\ (x.onT <=> x.toB) /\ (x.toB => x.toT) /\ (x.toT => x.onB)
    /\ x.T # "connected" => x.outT = <<>>
    /\ Len(x.outT) <= 1 /\ Len(x.outN) <= 1

\* Before anything is closed, everything may be.
LEMMA FitsClosable ==
    ASSUME NEW x, Fits(x)
    PROVE  Closable(x)
BY DEF Fits, SocketFits, TubeFits, Blocks, Closable

\* What has been closed is so in every respect.
LEMMA EndedFits ==
    ASSUME NEW x, Typed(x), Closable(x), NEW z, Ended(x, z)
    PROVE  Fits(z) /\ \A s : InTime(x, s) => InTime(z, s)
<1>1. Len(<<>>) = 0
  BY FollowsFew
<1>2. SocketFits(z)
  BY DEF Typed, Closable, Ended, Unlinked, Rest, SocketFits
<1>3. TubeFits(z)
  BY DEF Typed, Closable, Ended, Unlinked, Rest, Socket, Removed, TubeFits, Early
<1>4. Blocks(z)
  <2>1. z.outT = x.outT \/ z.outT = <<>>
    BY DEF Ended, Socket, Removed
  <2>2. z.outN = x.outN \/ z.outN = <<>>
    BY DEF Ended, Unlinked
  <2>3. Len(z.outT) <= 1 /\ Len(z.outN) <= 1
    BY <1>1, <2>1, <2>2 DEF Closable
  <2>4. z.B = "closed" /\ z.N # "connected"
    BY DEF Ended, Unlinked
  <2> QED
    BY <2>3, <2>4 DEF Blocks, Early
<1>5. \A s : InTime(x, s) => InTime(z, s)
  BY DEF InTime, Ended, Unlinked, Socket, Removed
<1> QED
  BY <1>2, <1>3, <1>4, <1>5 DEF Fits

\* What closing does to the rest.
LEMMA EndedMoves ==
    ASSUME NEW x, Typed(x), NEW z, Ended(x, z)
    PROVE  /\ Sends(x, z) /\ Gives(x, z)
           /\ x.post = <<>> /\ x.B \notin {"none", "accepted", "closed"} /\ ~x.asking => Relays(x, z)
<1>1. Sends(x, z)
  BY DEF Ended, Unlinked, Rest, Sends, Cuts, Closed
<1>2. Gives(x, z)
  BY DEF Ended, Rest, Socket, Removed, Gives
<1>3. ASSUME x.post = <<>>, x.B \notin {"none", "accepted", "closed"}, ~x.asking
      PROVE  Relays(x, z)
  <2>1. Append(<<>>, "oob_result") = <<"oob_result">>
    OBVIOUS
  <2>2. z.post = IF x.answers THEN <<"oob_result">> ELSE <<>>
    BY <1>3, <2>1 DEF Ended, Unlinked
  <2> QED
    BY <1>3, <2>2 DEF Ended, Unlinked, Rest, Relays
<1> QED
  BY <1>1, <1>2, <1>3

\* The network breaks, or the other side has closed.
LEMMA BreakNKeeps ==
    ASSUME Good, Running, NEW s \in Sides, NEW x, x = side[s], NEW y, y = side[Peer(s)],
           x.N = "connected", Handled(s, BreakN(x)), OnlyLeaves(s) => FALSE,
           OnlyLeaves(Peer(s)) => y.B = "closed" /\ y.wire = <<>>
    PROVE  Good' /\ Running'
<1>a. PICK z : z = BreakN(x)
  OBVIOUS
<1>1. /\ Typed(x) /\ Data(x) /\ Fits(x) /\ SocketFits(x) /\ InTime(x, s) /\ x.fault = "none" /\ x.post = <<>>
      /\ (x.asking => x.B = "none") /\ Data(y) /\ SocketFits(y) /\ Flows(y, x)
  BY HereIs
<1>2. x.B \in {"open", "closing"} /\ ~x.asking
  BY <1>1 DEF SocketFits
<1>3. Ended(x, z)
  BY <1>a, <1>1, <1>2, BreakNIs
<1>4. Fits(z) /\ InTime(z, s)
  BY <1>1, <1>3, FitsClosable, EndedFits
<1>5. Sends(x, z) /\ Gives(x, z) /\ Relays(x, z)
  BY <1>1, <1>2, <1>3, EndedMoves
<1>6. ASSUME OnlyLeaves(Peer(s)) PROVE AllArrives(y, z)
  <2>1. AllArrives(y, x)
    BY <1>6, PeerIs, WriterIs
  <2>2. y.B = "closed" /\ y.wire = <<>>
    BY <1>6
  <2>3. x.T # "disconnected"
    BY <1>2, <2>1 DEF AllArrives
  <2>4. Whole(y, x)
    BY <2>1, <2>3 DEF AllArrives
  <2>5. z.got = x.got /\ z.outT = x.outT
    BY <1>3 DEF Ended, Rest, Socket, Removed
  <2>6. Whole(y, z)
    BY <2>4, <2>5 DEF Whole, Given
  <2>7. Data(z)
    <3>1. /\ z.sent \in Nat /\ z.in \in Seq(Nat) /\ z.outN \in Seq(Nat) /\ z.wire \in Seq(Nat)
      BY <1>1, <1>5, HereIs, SendsKeeps
    <3> QED
      BY <1>1, <2>5, <3>1 DEF Data
  <2>8. z.T = "disconnected" => z.B = "closed" /\ z.outT = <<>>
    BY <1>3, <2>3 DEF Ended, Unlinked, Socket, Removed
  <2>9. z.tube = "open" /\ z.program # "closed" /\ z.sent = 0 /\ z.N = "disconnected"
    BY <1>3, <2>1 DEF Ended, Unlinked, Rest, AllArrives
  <2> QED
    BY <1>1, <2>1, <2>2, <2>6, <2>7, <2>8, <2>9, ArrivesAll
<1> QED
  BY <1>a, <1>1, <1>3, <1>4, <1>5, <1>6, RelayKeeps DEF Ended

\* _channel_io_in of N, at the end
LEMMA EndNKeeps ==
    ASSUME Good, Running, NEW s \in Sides, EndN(s)
    PROVE  Good' /\ Running'
<1>a. PICK x, y, p : x = side[s] /\ y = side[Peer(s)] /\ p = Peer(s)
  OBVIOUS
<1>1. x.N = "connected" /\ y.wire = <<>> /\ Hung(s) /\ Handled(s, BreakN(x))
  BY <1>a DEF EndN, Readable
<1>2. ~OnlyLeaves(s)
  BY <1>a, <1>1, WriterIs
<1>3. ASSUME OnlyLeaves(Peer(s)) PROVE y.B = "closed" /\ y.wire = <<>>
  <2>1. p \in Sides /\ Peer(p) = s
    BY <1>a, PeerIs
  <2> QED
    BY <1>a, <1>1, <1>3, <2>1, WriterIs
<1> QED
  BY <1>a, <1>1, <1>2, <1>3, BreakNKeeps

\* _channel_io_err of N
LEMMA ErrNKeeps ==
    ASSUME Good, Running, NEW s \in Sides, ErrN(s)
    PROVE  Good' /\ Running'
<1>a. PICK x, y, p : x = side[s] /\ y = side[Peer(s)] /\ p = Peer(s)
  OBVIOUS
<1>1. x.N = "connected" /\ (scenario.breaks \/ (Hung(s) /\ x.wire # <<>>)) /\ Handled(s, BreakN(x))
  BY <1>a DEF ErrN, Reset
<1>2. ~OnlyLeaves(s)
  BY <1>a, <1>1, WriterIs
<1>3. ~OnlyLeaves(p)
  <2>1. p \in Sides /\ Peer(p) = s
    BY <1>a, PeerIs
  <2> QED
    BY <1>a, <1>1, <2>1, WriterIs
<1> QED
  BY <1>a, <1>1, <1>2, <1>3, BreakNKeeps

\* One that is all there is.
LEMMA Single ==
    ASSUME NEW q, q \in Seq(Nat), q # <<>>, Len(q) <= 1
    PROVE  Tail(q) = <<>>
<1>1. Len(q) = 1
  OBVIOUS
<1>2. Tail(q) \in Seq(Nat) /\ Len(Tail(q)) = 0
  BY <1>1
<1> QED
  BY <1>2, EmptyIs

\* _channel_io_out of N
LEMMA FlushNKeeps ==
    ASSUME Good, Running, NEW s \in Sides, FlushN(s)
    PROVE  Good' /\ Running'
<1>a. PICK x, y, p : x = side[s] /\ y = side[Peer(s)] /\ p = Peer(s)
  OBVIOUS
<1>b. PICK v : v = [x EXCEPT !.outN = Tail(@), !.wire = Append(@, Head(x.outN))]
  OBVIOUS
<1>c. PICK z : z = EmptyN(v)
  OBVIOUS
<1>1. /\ Typed(x) /\ Data(x) /\ Fits(x) /\ SocketFits(x) /\ TubeFits(x) /\ Blocks(x) /\ InTime(x, s)
      /\ x.fault = "none" /\ x.post = <<>>
      /\ (x.asking => x.B = "none") /\ Data(y) /\ SocketFits(y) /\ Flows(y, x)
  BY <1>a, HereIs
<1>2. x.N = "connected" /\ x.outN # <<>> /\ Handled(s, IF v.outN = <<>> THEN EmptyN(v) ELSE v)
  BY <1>a, <1>b DEF FlushN
<1>3. Tail(x.outN) = <<>>
  BY <1>1, <1>2, Single DEF Blocks, Data
<1>4. /\ DOMAIN v = Fields /\ v.outN = <<>> /\ v.wire = Append(x.wire, Head(x.outN))
      /\ v.tube = x.tube /\ v.program = x.program /\ v.sent = x.sent /\ v.in = x.in
      /\ v.got = x.got /\ v.asking = x.asking /\ v.opening = x.opening
      /\ v.answers = x.answers /\ v.onB = x.onB /\ v.fault = x.fault
      /\ Blocked(x, v) /\ Socket(x, v) /\ v.B = x.B /\ v.N = x.N /\ v.listening = x.listening /\ v.post = x.post
  BY <1>b, <1>1, <1>3 DEF Typed, Fields, Blocked, Socket
<1>5. Handled(s, z)
  BY <1>c, <1>2, <1>4
<1> HIDE DEF Fields
<1>6. x.B \in {"open", "closing"} /\ ~x.asking
  BY <1>1, <1>2 DEF SocketFits
<1>7. Typed(v)
  BY <1>1, <1>4 DEF Typed, Blocked, Socket
<1>8. x.B = "open" => x.onB /\ x.toT /\ x.toB
  BY <1>1 DEF TubeFits
<1>9. Closable(v)
  <2>1. Len(<<>>) <= 1
    BY FollowsFew
  <2>2. Closable(x)
    BY <1>1, FitsClosable
  <2> QED
    BY <1>2, <1>4, <2>1, <2>2 DEF Closable, Socket
<1>p. p \in Sides /\ Peer(p) = s
  BY <1>a, PeerIs
<1>w. ~OnlyLeaves(p)
  BY <1>a, <1>2, <1>p, WriterIs
<1>10. CASE x.B = "closing"
  <2>1. Ended(v, z)
    BY <1>c, <1>4, <1>7, <1>10, EmptyNIs
  <2>2. Fits(z) /\ InTime(z, s)
    <3>1. InTime(v, s)
      BY <1>1, <1>4 DEF InTime, Socket
    <3> QED
      BY <1>7, <1>9, <2>1, <3>1, EndedFits
  <2>3. Relays(x, z)
    <3>1. Relays(v, z)
      BY <1>1, <1>4, <1>7, <1>6, <1>10, <2>1, EndedMoves
    <3> QED
      BY <1>4, <3>1 DEF Relays, Socket
  <2>4. /\ z.in = x.in /\ z.outN = <<>> /\ z.wire = Append(x.wire, Head(x.outN)) /\ z.sent = x.sent
        /\ z.B = "closed" /\ z.tube = x.tube /\ z.program = x.program /\ z.N = "disconnected"
    BY <1>2, <1>4, <2>1 DEF Ended, Unlinked, Rest
  <2>5. Passes(x, z)
    BY <1>2, <1>3, <2>4 DEF Passes
  <2>6. Sends(x, z)
    BY <2>4, <2>5 DEF Sends, Closed
  <2>7. Gives(x, z)
    <3>1. Gives(v, z)
      BY <1>7, <2>1, EndedMoves
    <3> QED
      BY <1>4, <3>1 DEF Gives, Socket
  <2>8. ASSUME OnlyLeaves(s) PROVE AllArrives(z, y)
    <3>1. AllArrives(x, y)
      BY <2>8, <1>a, WriterIs
    <3>2. Carries(x, z)
      BY <1>10, <2>4, <2>5, <3>1 DEF AllArrives, Carries, Closed
    <3> QED
      BY <1>1, <3>1, <3>2, CarriesAll
  <2> QED
    BY <1>1, <1>4, <1>5, <1>a, <1>w, <2>1, <2>2, <2>3, <2>6, <2>7, <2>8, RelayKeeps DEF Ended
<1>11. CASE x.B = "open"
  <2>1. Turns(v, z, FALSE)
    BY <1>c, <1>4, <1>7, <1>8, <1>11, EmptyNIs DEF Socket
  <2>2. /\ z.in = x.in /\ z.outN = <<>> /\ z.wire = Append(x.wire, Head(x.outN)) /\ z.sent = x.sent
        /\ z.B = x.B /\ z.tube = x.tube /\ z.program = x.program /\ z.N = x.N /\ z.listening = x.listening
        /\ z.post = <<>> /\ z.got = x.got /\ z.asking = x.asking /\ z.opening = x.opening
        /\ z.answers = x.answers /\ z.onB = x.onB /\ Socket(x, z) /\ z.fault = "none"
        /\ z.stopWrite = FALSE /\ z.stopRead = x.stopRead /\ Typed(z)
    BY <1>1, <1>4, <2>1 DEF Turns, Rest, Socket, Link, Blocked
  <2>3. z.stopT = FALSE
    <3>1. x.stopT = TRUE /\ x.stopWrite = TRUE
      BY <1>1, <1>2, <1>11 DEF Blocks, Typed
    <3> QED
      BY <1>4, <1>8, <1>11, <2>1, <3>1 DEF Turns, Blocked
  <2>4. Fits(z)
    <3>1. SocketFits(z)
      BY <1>1, <1>2, <1>11, <2>2 DEF SocketFits
    <3>2. TubeFits(z)
      BY <1>1, <1>2, <1>11, <2>2 DEF TubeFits, Socket
    <3>3. Len(z.outT) <= 1 /\ Len(z.outN) <= 1
      BY <1>1, <2>2, FollowsFew DEF Blocks, Socket
    <3>4. Blocks(z)
      BY <1>1, <1>2, <1>11, <2>2, <2>3, <3>3 DEF Blocks, Socket, Early
    <3> QED
      BY <3>1, <3>2, <3>4 DEF Fits
  <2>5. InTime(z, s)
    BY <1>1, <2>2 DEF InTime, Socket
  <2>6. Passes(x, z) /\ Sends(x, z) /\ Gives(x, z)
    BY <1>2, <1>3, <2>2 DEF Passes, Sends, Gives, Socket
  <2>7. Relays(x, z)
    BY <1>1, <1>6, <1>11, <2>2 DEF Relays, Socket
  <2>8. ASSUME OnlyLeaves(s) PROVE AllArrives(z, y)
    <3>1. AllArrives(x, y)
      BY <2>8, <1>a, WriterIs
    <3>2. Carries(x, z)
      BY <1>11, <2>2, <2>6, <3>1 DEF AllArrives, Carries, Closed
    <3> QED
      BY <1>1, <3>1, <3>2, CarriesAll
  <2> QED
    BY <1>5, <1>a, <1>w, <2>2, <2>4, <2>5, <2>6, <2>7, <2>8, RelayKeeps
<1> QED
  BY <1>6, <1>10, <1>11

-----------------------------------------------------------------------------
(* The program of a side is gone. *)

\* transport_disconnected_cb of the tube, and the bytestream with it
LEMMA BrokenT ==
    ASSUME NEW s, NEW x, Typed(x), Fits(x), InTime(x, s), x.post = <<>>, x.B \notin {"none", "local_pending"}, ~x.asking,
           x.T \in {"connecting", "connected"}, x.T = "connecting" \/ x.B \notin Early,
           NEW z, z = BreakT(x)
    PROVE  /\ Typed(z) /\ Fits(z) /\ InTime(z, s) /\ z.fault = x.fault
           /\ Sends(x, z) /\ Gives(x, z) /\ Relays(x, z)
           /\ z.T = "disconnected" /\ z.got = x.got /\ z.outT = <<>>
           /\ z.sent = x.sent /\ z.in = x.in /\ z.outN = x.outN /\ z.wire = x.wire
           /\ z.program = x.program /\ z.tube = x.tube
           /\ z.N = x.N \/ (x.N = "connected" /\ z.N = "disconnected")
           /\ z.B = x.B \/ (x.B = "open" /\ z.B = "closing") \/ (x.N = "connected" /\ z.B = "closed")
<1>1. SocketFits(x) /\ TubeFits(x) /\ Blocks(x) /\ Closable(x) /\ Len(<<>>) = 0
  BY FitsClosable, FollowsFew DEF Fits
<1> DEFINE Leaves(w) ==
             /\ Typed(w) /\ w.fault = x.fault /\ w.T = "disconnected" /\ w.got = x.got /\ w.outT = <<>>
             /\ w.sent = x.sent /\ w.in = x.in /\ w.outN = x.outN /\ w.wire = x.wire
             /\ w.program = x.program /\ w.tube = x.tube /\ w.asking = x.asking /\ w.opening = x.opening
             /\ w.answers = x.answers /\ w.onB = x.onB
             /\ w.stopT = x.stopT /\ w.stopWrite = x.stopWrite /\ w.stopRead = x.stopRead
<1>2. ASSUME NEW w, Leaves(w), w.B = x.B \/ (x.B = "open" /\ w.B = "closing"), w.B = "open" => FALSE,
             w.N = x.N, w.listening = x.listening, w.post = <<>>, w.B = "closing" => w.outN # <<>>,
             w.onT = x.onT, w.toT = x.toT, w.toB = x.toB
      PROVE  /\ Fits(w) /\ InTime(w, s) /\ Sends(x, w) /\ Gives(x, w) /\ Relays(x, w)
  <2>1. SocketFits(w)
    BY <1>1, <1>2 DEF SocketFits
  <2>2. TubeFits(w)
    BY <1>1, <1>2 DEF TubeFits, Early
  <2>3. Blocks(w)
    BY <1>1, <1>2 DEF Blocks, Early
  <2>4. InTime(w, s)
    BY <1>2 DEF InTime, Early
  <2>5. Sends(x, w) /\ Gives(x, w)
    BY <1>2 DEF Sends, Passes, Gives, Closed
  <2>6. Relays(x, w)
    BY <1>2 DEF Relays
  <2> QED
    BY <2>1, <2>2, <2>3, <2>4, <2>5, <2>6 DEF Fits
<1>3. CASE ~(x.onT /\ x.toB)
  <2>1. Dropped(x, z)
    BY <1>3, BreakTIs
  <2>2. x.B # "open"
    BY <1>1, <1>3 DEF TubeFits
  <2>3. Leaves(z) /\ z.B = x.B /\ z.N = x.N /\ z.listening = x.listening /\ z.post = <<>>
        /\ z.onT = x.onT /\ z.toT = x.toT /\ z.toB = x.toB
    BY <2>1 DEF Dropped, Rest, Blocked, Link
  <2>4. z.B = "closing" => z.outN # <<>>
    BY <1>1, <2>3 DEF SocketFits
  <2> QED
    BY <1>2, <2>2, <2>3, <2>4
<1>4. CASE x.onT /\ x.toB
  <2>1. PICK y : Dropped(x, y) /\ Ending(y, z)
    BY <1>4, BreakTIs
  <2>2. /\ Leaves(y) /\ y.B = x.B /\ y.N = x.N /\ y.listening = x.listening /\ y.post = <<>>
        /\ y.onT = x.onT /\ y.toT = x.toT /\ y.toB = x.toB
    BY <2>1 DEF Dropped, Rest, Blocked, Link
  <2>3. CASE y.B = "closed"
    <3>1. z = y
      BY <2>1, <2>3 DEF Ending
    <3> QED
      BY <1>2, <2>2, <2>3, <3>1
  <2>4. CASE y.B # "closed" /\ y.outN # <<>>
    <3>1. /\ Leaves(z) /\ z.B = "closing" /\ z.N = x.N /\ z.listening = x.listening /\ z.post = <<>>
          /\ z.onT = x.onT /\ z.toT = x.toT /\ z.toB = x.toB /\ z.outN # <<>>
      BY <2>1, <2>2, <2>4 DEF Ending, Rest, Blocked, Socket
    <3>2. x.B = "closing" \/ x.B = "open"
      BY <1>1, <1>4, <2>2, <2>4 DEF TubeFits
    <3>3. z.B = x.B \/ (x.B = "open" /\ z.B = "closing")
      BY <3>1, <3>2
    <3>4. /\ Fits(z) /\ InTime(z, s) /\ Sends(x, z) /\ Gives(x, z) /\ Relays(x, z)
      BY <1>2, <3>1, <3>3
    <3> QED
      BY <3>1, <3>3, <3>4
  <2>5. CASE y.B # "closed" /\ y.outN = <<>>
    <3>1. Ended(y, z)
      BY <2>1, <2>2, <2>5 DEF Ending
    <3>2. x.B \in {"open", "closing"} /\ x.N = "connected"
      BY <1>1, <1>4, <2>2, <2>5 DEF TubeFits, SocketFits
    <3>3. Closable(y)
      BY <1>1, <2>2 DEF Closable
    <3>5. Fits(z)
      BY <2>2, <3>1, <3>3, EndedFits
    <3>6. /\ Leaves(z) /\ z.B = "closed" /\ z.N = "disconnected" /\ z.listening = FALSE
          /\ z.post = IF x.answers THEN Append(<<>>, "oob_result") ELSE <<>>
      <4>1. z.T = "disconnected" /\ z.outT = <<>>
        BY <2>2, <3>1 DEF Ended, Removed, Socket
      <4> QED
        BY <2>2, <2>5, <3>1, <3>2, <4>1 DEF Ended, Unlinked, Rest, Blocked
    <3>7. InTime(z, s)
      BY <3>6 DEF InTime
    <3>8. Sends(x, z) /\ Gives(x, z)
      BY <3>6 DEF Sends, Passes, Gives, Closed
    <3>9. Relays(x, z)
      <4>1. Append(<<>>, "oob_result") = <<"oob_result">>
        OBVIOUS
      <4> QED
        BY <3>2, <3>6, <4>1 DEF Relays
    <3> QED
      BY <3>2, <3>5, <3>6, <3>7, <3>8, <3>9
  <2> QED
    BY <2>3, <2>4, <2>5
<1> QED
  BY <1>3, <1>4

\* ... as an event.
LEMMA BreakTKeeps ==
    ASSUME Good, Running, NEW s \in Sides, NEW x, x = side[s], Handled(s, BreakT(x)),
           x.T \in {"connecting", "connected"}, x.T = "connecting" \/ x.B \notin Early, x.B # "none",
           OnlyLeaves(s) => x.in = <<>> /\ x.program = "closed", ~OnlyLeaves(Peer(s))
    PROVE  Good' /\ Running'
<1>a. PICK z, y : z = BreakT(x) /\ y = side[Peer(s)]
  OBVIOUS
<1>1. /\ Typed(x) /\ Data(x) /\ Fits(x) /\ InTime(x, s) /\ x.fault = "none" /\ x.post = <<>>
      /\ x.B # "local_pending" /\ (x.asking => x.B = "none") /\ Typed(x) /\ Data(y)
  BY <1>a, HereIs
<1>2. ~x.asking
  BY <1>1 DEF Typed
<1>3. /\ Typed(z) /\ Fits(z) /\ InTime(z, s) /\ z.fault = x.fault
      /\ Sends(x, z) /\ Gives(x, z) /\ Relays(x, z)
      /\ z.T = "disconnected" /\ z.got = x.got /\ z.outT = <<>>
      /\ z.sent = x.sent /\ z.in = x.in /\ z.outN = x.outN /\ z.wire = x.wire
      /\ z.program = x.program /\ z.tube = x.tube
      /\ z.N = x.N \/ (x.N = "connected" /\ z.N = "disconnected")
      /\ z.B = x.B \/ (x.B = "open" /\ z.B = "closing") \/ (x.N = "connected" /\ z.B = "closed")
  <2>1. x.B \notin {"none", "local_pending"}
    BY <1>1
  <2> QED
    BY <1>a, <1>1, <1>2, <2>1, BrokenT
<1>4. ASSUME OnlyLeaves(s) PROVE AllArrives(z, y)
  <2>1. AllArrives(x, y) /\ x.in = <<>> /\ x.program = "closed"
    BY <1>4, <1>a, WriterIs
  <2>2. Passes(x, z)
    BY <1>3 DEF Passes
  <2>3. z.N # "refused" /\ (z.N = "none" => z.B # "closed")
    BY <1>3, <2>1 DEF AllArrives
  <2>4. x.B = "closed" => z.B = "closed"
    BY <1>3
  <2>5. Carries(x, z)
    BY <1>3, <2>1, <2>2, <2>3, <2>4 DEF Carries
  <2> QED
    BY <1>1, <2>1, <2>5, CarriesAll
<1> QED
  BY <1>a, <1>1, <1>3, <1>4, RelayKeeps

\* new_connect_attempt and try_to_connect
LEMMA TcpConnectedKeeps ==
    ASSUME Good, Running, NEW s \in Sides, TcpConnected(s)
    PROVE  Good' /\ Running'
<1>a. PICK x, y, p : x = side[s] /\ y = side[Peer(s)] /\ p = Peer(s)
  OBVIOUS
<1>b. PICK z : z = [x EXCEPT !.T = "connected", !.program = "open"]
  OBVIOUS
<1>1. x.T = "connecting" /\ (Handled(s, z) \/ Handled(s, BreakT(x)))
  BY <1>a, <1>b DEF TcpConnected
<1>2. /\ Typed(x) /\ Data(x) /\ Fits(x) /\ InTime(x, s) /\ x.fault = "none" /\ x.post = <<>>
      /\ (x.asking => x.B = "none") /\ AgreedAt(s, x, y, mail[s], mail[p])
  BY <1>a, HereIs
<1>3. s = "initiator" /\ scenario.socket = "tcp"
  BY <1>1, <1>2 DEF InTime
<1>4. x.B # "none" /\ ~x.asking
  BY <1>1, <1>2, <1>3 DEF AgreedAt, Agreed
<1>5. ~OnlyLeaves(s) /\ ~OnlyLeaves(p)
  BY <1>3 DEF OnlyLeaves
<1>6. CASE Handled(s, BreakT(x))
  BY <1>a, <1>1, <1>4, <1>5, <1>6, BreakTKeeps
<1>7. CASE Handled(s, z)
  <2>1. /\ DOMAIN z = Fields /\ z.sent = x.sent /\ z.in = x.in
        /\ z.tube = x.tube /\ z.got = x.got /\ z.wire = x.wire /\ z.asking = x.asking
        /\ z.opening = x.opening /\ z.answers = x.answers /\ z.onB = x.onB /\ z.fault = x.fault
        /\ Blocked(x, z) /\ Link(x, z) /\ z.T = "connected" /\ z.outT = x.outT /\ z.onT = x.onT
        /\ z.toT = x.toT /\ z.toB = x.toB
    BY <1>b, <1>2 DEF Typed, Fields, Blocked, Link
  <2>2. Typed(z)
    BY <1>2, <2>1 DEF Typed, Blocked, Link
  <2>3. Fits(z)
    BY <1>1, <1>2, <2>1 DEF Fits, SocketFits, TubeFits, Blocks, Blocked, Link
  <2>4. InTime(z, s)
    BY <2>1 DEF InTime
  <2>5. Sends(x, z) /\ Gives(x, z)
    BY <1>1, <2>1 DEF Sends, Passes, Gives, Link
  <2>6. Relays(x, z)
    BY <1>1, <1>2, <1>4, <2>1 DEF Relays, Link
  <2> QED
    BY <1>a, <1>2, <1>5, <1>7, <2>1, <2>2, <2>3, <2>4, <2>5, <2>6, RelayKeeps
<1> QED
  BY <1>1, <1>6, <1>7

\* _channel_io_err of T
LEMMA ErrTKeeps ==
    ASSUME Good, Running, NEW s \in Sides, ErrT(s)
    PROVE  Good' /\ Running'
<1>a. PICK x, y, p : x = side[s] /\ y = side[Peer(s)] /\ p = Peer(s)
  OBVIOUS
<1>1. x.T = "connected" /\ x.program = "closed" /\ x.got # <<>> /\ Handled(s, BreakT(x))
  BY <1>a DEF ErrT
<1>2. TubeFits(x)
  BY <1>a, HereIs
<1>3. x.B \notin Early /\ x.B # "none"
  BY <1>1, <1>2 DEF TubeFits, Early
<1>4. ~OnlyLeaves(s)
  BY <1>a, <1>1, WriterIs
<1>5. ~OnlyLeaves(p)
  <2>1. p \in Sides /\ Peer(p) = s
    BY <1>a, PeerIs
  <2>2. OnlyLeaves(p) => AllArrives(y, x)
    BY <1>a, <2>1, WriterIs
  <2> QED
    BY <1>1, <2>2 DEF AllArrives
<1> QED
  BY <1>a, <1>1, <1>3, <1>4, <1>5, BreakTKeeps

\* _channel_io_out of T
LEMMA FlushTKeeps ==
    ASSUME Good, Running, NEW s \in Sides, FlushT(s)
    PROVE  Good' /\ Running'
<1>a. PICK x, y, p : x = side[s] /\ y = side[Peer(s)] /\ p = Peer(s)
  OBVIOUS
<1>b. PICK v : v = [x EXCEPT !.outT = Tail(@), !.got = Append(@, Head(x.outT))]
  OBVIOUS
<1>1. /\ x.T = "connected" /\ x.outT # <<>>
      /\ IF x.program = "closed" THEN Handled(s, BreakT(x))
         ELSE Handled(s, IF v.outT = <<>> THEN EmptyT(v) ELSE v)
  BY <1>a, <1>b DEF FlushT
<1>2. /\ Typed(x) /\ Data(x) /\ Fits(x) /\ SocketFits(x) /\ TubeFits(x) /\ Blocks(x) /\ InTime(x, s)
      /\ x.fault = "none" /\ x.post = <<>> /\ (x.asking => x.B = "none") /\ Data(y) /\ SocketFits(y) /\ Flows(y, x)
  BY <1>a, HereIs
<1>3. x.B \notin Early /\ x.B # "none" /\ ~x.asking
  BY <1>1, <1>2 DEF TubeFits, Early
<1>4. ~OnlyLeaves(s)
  BY <1>a, <1>1, WriterIs
<1>p. p \in Sides /\ Peer(p) = s
  BY <1>a, PeerIs
<1>5. OnlyLeaves(p) => AllArrives(y, x)
  BY <1>a, <1>p, WriterIs
<1>6. CASE x.program = "closed"
  <2>1. ~OnlyLeaves(p)
    BY <1>5, <1>6 DEF AllArrives
  <2> QED
    BY <1>a, <1>1, <1>3, <1>4, <1>6, <2>1, BreakTKeeps
<1>7. CASE x.program # "closed"
  <2>1. Tail(x.outT) = <<>>
    BY <1>1, <1>2, Single DEF Blocks, Data
  <2>2. /\ DOMAIN v = Fields /\ v.outT = <<>> /\ v.got = Append(x.got, Head(x.outT))
        /\ v.tube = x.tube /\ v.program = x.program /\ v.sent = x.sent /\ v.in = x.in
        /\ v.asking = x.asking /\ v.opening = x.opening /\ v.wire = x.wire
        /\ v.answers = x.answers /\ v.onB = x.onB /\ v.fault = x.fault
        /\ Blocked(x, v) /\ Link(x, v) /\ v.T = x.T /\ v.onT = x.onT /\ v.toT = x.toT /\ v.toB = x.toB
    BY <1>b, <1>2, <2>1 DEF Typed, Fields, Blocked, Link
  <2> HIDE DEF Fields
  <2>3. PICK z : z = EmptyT(v)
    OBVIOUS
  <2>4. Handled(s, z)
    BY <1>1, <1>7, <2>2, <2>3
  <2>5. Typed(v)
    BY <1>2, <2>2 DEF Typed, Blocked, Link
  <2>6. Emptied(v, z)
    <3>1. v.onT => v.toB
      BY <1>2, <2>2 DEF TubeFits
    <3>2. v.onT /\ v.B # "closed" => v.N = "connected"
      BY <1>2, <2>2 DEF TubeFits, SocketFits, Link
    <3> QED
      BY <2>3, <2>5, <3>1, <3>2, EmptyTIs
  <2>7. /\ Typed(z) /\ z.fault = "none" /\ Link(x, z) /\ z.sent = x.sent /\ z.in = x.in /\ z.wire = x.wire
        /\ z.got = Append(x.got, Head(x.outT)) /\ z.outT = <<>>
        /\ z.tube = x.tube /\ z.program = x.program /\ z.asking = x.asking /\ z.opening = x.opening
        /\ z.answers = x.answers /\ z.onB = x.onB /\ z.stopT = x.stopT /\ z.stopWrite = x.stopWrite
        /\ \/ x.B = "closed" /\ Removed(z)
           \/ z.T = x.T /\ z.onT = x.onT /\ z.toT = x.toT /\ z.toB = x.toB
    <3>1. CASE ~v.onT
      <4>1. z = v
        BY <2>6, <3>1 DEF Emptied
      <4> QED
        BY <1>2, <2>2, <2>5, <4>1 DEF Blocked, Link
    <3>2. CASE v.onT /\ v.B = "closed"
      <4>1. Typed(z) /\ Rest(v, z) /\ Blocked(v, z) /\ z.fault = v.fault /\ Link(v, z) /\ Removed(z)
        BY <2>6, <3>2 DEF Emptied
      <4>2. z.outT = <<>>
        BY <4>1 DEF Removed
      <4> QED
        BY <1>2, <2>2, <3>2, <4>1, <4>2 DEF Rest, Blocked, Link
    <3>3. CASE v.onT /\ v.B # "closed"
      <4>1. Reads(v, z, FALSE)
        BY <2>6, <3>3 DEF Emptied
      <4> QED
        BY <1>2, <2>2, <4>1 DEF Reads, Rest, Blocked, Link, Socket
    <3> QED
      BY <3>1, <3>2, <3>3
  <2>8. Fits(z)
    <3>1. SocketFits(z)
      BY <1>2, <2>7 DEF SocketFits, Link
    <3>2. TubeFits(z)
      BY <1>2, <1>3, <2>7 DEF TubeFits, Link, Early, Removed, SocketFits
    <3>3. Len(z.outT) <= 1 /\ Len(z.outN) <= 1
      BY <1>2, <2>7, FollowsFew DEF Blocks, Link
    <3>4. Blocks(z)
      BY <1>2, <1>3, <2>7, <3>3 DEF Blocks, Link
    <3> QED
      BY <3>1, <3>2, <3>4 DEF Fits
  <2>9. InTime(z, s)
    BY <1>1, <2>7 DEF InTime, Link, Removed
  <2>10. Sends(x, z)
    BY <2>7 DEF Sends, Passes, Link
  <2>11. Gives(x, z)
    BY <1>1, <2>1, <2>7 DEF Gives
  <2>12. Relays(x, z)
    BY <1>2, <1>3, <2>7 DEF Relays, Link, Early
  <2>13. ASSUME OnlyLeaves(p) PROVE AllArrives(y, z)
    <3>1. AllArrives(y, x) /\ Whole(y, x)
      BY <1>1, <1>5, <2>13 DEF AllArrives
    <3>2. Whole(y, z)
      BY <1>1, <1>2, <2>1, <2>7, <3>1, GivesWhole
    <3>3. Data(z)
      <4>1. z.got \in Seq(Nat) /\ z.outT \in Seq(Nat)
        BY <1>2, <2>11, GivesKeeps
      <4> QED
        BY <1>2, <2>7, <4>1 DEF Data, Link
    <3>4. /\ z.tube = "open" /\ z.program # "closed" /\ z.sent = 0 /\ z.N # "refused" /\ (z.N = "none" => z.B # "closed")
          /\ z.B \in Closed => y.B = "closed" /\ y.wire = <<>>
      BY <2>7, <3>1 DEF AllArrives, Link
    <3>5. z.T = "disconnected" => z.B = "closed" /\ z.outT = <<>>
      BY <1>1, <2>7 DEF Link
    <3> QED
      BY <1>2, <3>1, <3>2, <3>3, <3>4, <3>5, ArrivesAll
  <2> QED
    BY <1>a, <1>4, <2>4, <2>7, <2>8, <2>9, <2>10, <2>11, <2>12, <2>13, RelayKeeps
<1> QED
  BY <1>6, <1>7

-----------------------------------------------------------------------------
(* Data from the program. *)

\* A unit is written to the network, or to the buffer before it; or is lost with it:
\* v is the side with the unit, but for what the loss makes of it.
Relayed(x, v, z, broken) ==
    /\ Typed(v) /\ v.in = Tail(x.in) /\ v.B = x.B /\ v.N = x.N
    /\ v.tube = x.tube /\ v.program = x.program /\ v.sent = x.sent /\ v.got = x.got
    /\ v.asking = x.asking /\ v.opening = x.opening /\ v.answers = x.answers /\ v.onB = x.onB
    /\ Socket(x, v) /\ v.listening = x.listening /\ v.post = x.post /\ v.fault = x.fault
    /\ v.stopRead = x.stopRead
    /\ \/ /\ x.B \in Closed /\ z = v /\ v.outN = x.outN /\ v.wire = x.wire
          /\ v.stopWrite = x.stopWrite /\ v.stopT = x.stopT
       \/ /\ x.B = "open" /\ broken /\ Ended(v, z) /\ v.outN = x.outN /\ v.wire = x.wire
          /\ v.stopWrite = x.stopWrite /\ v.stopT = x.stopT
       \/ /\ x.B = "open" /\ z = v /\ x.outN = <<>> /\ v.outN = <<>> /\ v.wire = Append(x.wire, Head(x.in))
          /\ v.stopWrite = FALSE /\ v.stopT = FALSE
       \/ /\ x.B = "open" /\ z = v /\ x.outN = <<>> /\ v.outN = <<Head(x.in)>> /\ v.wire = x.wire
          /\ v.stopWrite = TRUE /\ v.stopT = TRUE

\* ... is what Relay makes of it.
LEMMA RelayIs ==
    ASSUME NEW x, Typed(x), Data(x), Fits(x), x.T = "connected", ~x.stopT, x.in # <<>>,
           x.B # "local_pending", NEW broken \in BOOLEAN, NEW z, z = Relay([x EXCEPT !.in = Tail(@)], Head(x.in), broken)
    PROVE  \E v : Relayed(x, v, z, broken)
<1>a. PICK rest, u : rest = [x EXCEPT !.in = Tail(@)] /\ u = Head(x.in)
  OBVIOUS
<1> DEFINE Moved(v) ==
             /\ v.in = Tail(x.in) /\ v.B = x.B /\ v.N = x.N
             /\ v.tube = x.tube /\ v.program = x.program /\ v.sent = x.sent /\ v.got = x.got
             /\ v.asking = x.asking /\ v.opening = x.opening /\ v.answers = x.answers /\ v.onB = x.onB
             /\ Socket(x, v) /\ v.listening = x.listening /\ v.post = x.post /\ v.fault = x.fault
             /\ v.stopRead = x.stopRead
<1>1. /\ DOMAIN rest = Fields /\ Moved(rest) /\ rest.outN = x.outN /\ rest.wire = x.wire
      /\ rest.stopWrite = x.stopWrite /\ rest.stopT = x.stopT
  BY <1>a DEF Typed, Fields, Socket
<1>2. ASSUME NEW v, DOMAIN v = Fields, Moved(v), v.stopWrite \in BOOLEAN, v.stopT \in BOOLEAN PROVE Typed(v)
  BY <1>2 DEF Typed, Socket
<1>3. Typed(rest)
  BY <1>1, <1>2 DEF Typed
<1>4. SocketFits(x) /\ TubeFits(x) /\ Blocks(x)
  BY DEF Fits
<1>5. x.B \in {"open", "closing", "closed"} \/ x.B = "local_pending"
  BY <1>4 DEF Blocks, Early, Typed
<1>6. z = IF x.toB THEN Send(rest, u, broken) ELSE rest
  BY <1>a, <1>1 DEF Relay, Socket
<1>7. CASE x.B # "open"
  <2>1. z = rest
    BY <1>1, <1>6, <1>7 DEF Send
  <2>2. x.B # "local_pending"
    OBVIOUS
  <2> QED
    BY <1>1, <1>3, <1>5, <1>7, <2>1, <2>2 DEF Closed, Relayed
<1>8. CASE x.B = "open"
  <2>1. x.toB /\ x.toT /\ x.onB /\ x.N = "connected"
    BY <1>4, <1>8 DEF TubeFits, SocketFits
  <2>2. x.stopWrite = FALSE /\ x.stopT = FALSE /\ x.outN = <<>>
    BY <1>4, <1>8 DEF Blocks, Typed
  <2>3. z = IF broken THEN BreakN(rest)
            ELSE IF Len(rest.wire) < Capacity THEN EmptyN([rest EXCEPT !.wire = Append(@, u)])
            ELSE BlockWriting([rest EXCEPT !.outN = <<u>>], TRUE)
    BY <1>1, <1>6, <1>8, <2>1, <2>2 DEF Send
  <2>4. CASE broken
    <3>1. Ended(rest, z)
      BY <1>1, <1>3, <1>8, <2>1, <2>3, <2>4, BreakNIs
    <3> QED
      BY <1>1, <1>3, <1>8, <2>4, <3>1 DEF Relayed
  <2>5. CASE ~broken /\ Len(rest.wire) < Capacity
    <3>1. PICK w : w = [rest EXCEPT !.wire = Append(@, u)]
      OBVIOUS
    <3>2. /\ DOMAIN w = Fields /\ Moved(w) /\ w.outN = <<>> /\ w.wire = Append(x.wire, u)
          /\ w.stopWrite = FALSE /\ w.stopT = FALSE
      BY <1>1, <2>2, <3>1 DEF Fields, Socket
    <3>3. Typed(w)
      BY <1>2, <3>2
    <3>4. z = EmptyN(w)
      BY <2>3, <2>5, <3>1
    <3>5. Turns(w, z, FALSE)
      BY <1>8, <2>1, <3>2, <3>3, <3>4, EmptyNIs DEF Socket
    <3>6. /\ Typed(z) /\ Moved(z) /\ z.outN = <<>> /\ z.wire = Append(x.wire, u)
          /\ z.stopWrite = FALSE /\ z.stopT = FALSE
      BY <3>2, <3>5 DEF Turns, Rest, Socket, Link
    <3> QED
      BY <1>a, <1>8, <2>2, <3>6 DEF Relayed
  <2>6. CASE ~broken /\ ~(Len(rest.wire) < Capacity)
    <3>1. PICK w : w = [rest EXCEPT !.outN = <<u>>]
      OBVIOUS
    <3>2. /\ DOMAIN w = Fields /\ Moved(w) /\ w.outN = <<u>> /\ w.wire = x.wire
          /\ w.stopWrite = FALSE /\ w.stopT = FALSE
      BY <1>1, <2>2, <3>1 DEF Fields, Socket
    <3>3. Typed(w)
      BY <1>2, <3>2
    <3>4. z = BlockWriting(w, TRUE)
      BY <2>3, <2>6, <3>1
    <3>5. Turns(w, z, TRUE)
      BY <2>1, <3>2, <3>3, <3>4, BlockWritingIs DEF Socket
    <3>6. /\ Typed(z) /\ Moved(z) /\ z.outN = <<u>> /\ z.wire = x.wire
          /\ z.stopWrite = TRUE /\ z.stopT = TRUE
      BY <2>1, <3>2, <3>5 DEF Turns, Rest, Socket, Link
    <3> QED
      BY <1>a, <1>8, <2>2, <3>6 DEF Relayed
  <2> QED
    BY <2>3, <2>4, <2>5, <2>6
<1> QED
  BY <1>7, <1>8

\* _channel_io_in of T
LEMMA ReadTKeeps ==
    ASSUME Good, Running, NEW s \in Sides, ReadT(s)
    PROVE  Good' /\ Running'
<1>a. PICK x, y, p : x = side[s] /\ y = side[Peer(s)] /\ p = Peer(s)
  OBVIOUS
<1>1. /\ x.T = "connected" /\ ~x.stopT
      /\ \/ x.in # <<>> /\ \E broken \in {FALSE, Reset(s)} :
                               Handled(s, Relay([x EXCEPT !.in = Tail(@)], Head(x.in), broken))
         \/ x.in = <<>> /\ x.program = "closed" /\ Handled(s, BreakT(x))
  BY <1>a DEF ReadT, Readable
<1>2. /\ Typed(x) /\ Data(x) /\ Fits(x) /\ SocketFits(x) /\ TubeFits(x) /\ Blocks(x) /\ InTime(x, s)
      /\ x.fault = "none" /\ x.post = <<>> /\ x.B # "local_pending" /\ (x.asking => x.B = "none") /\ Data(y)
      /\ SocketFits(y) /\ Flows(y, x)
  BY <1>a, HereIs
<1>3. x.B \in {"open", "closing", "closed"} /\ x.B \notin Early /\ x.B # "none" /\ ~x.asking
  BY <1>1, <1>2 DEF Blocks, Early, Typed
<1>p. p \in Sides /\ Peer(p) = s
  BY <1>a, PeerIs
<1>4. CASE x.in = <<>> /\ x.program = "closed" /\ Handled(s, BreakT(x))
  <2>1. OnlyLeaves(p) => AllArrives(y, x)
    BY <1>a, <1>p, WriterIs
  <2>2. ~OnlyLeaves(p)
    BY <1>4, <2>1 DEF AllArrives
  <2> QED
    BY <1>a, <1>1, <1>3, <1>4, <2>2, BreakTKeeps
<1>5. ASSUME x.in # <<>>, NEW broken \in {FALSE, Reset(s)},
             Handled(s, Relay([x EXCEPT !.in = Tail(@)], Head(x.in), broken))
      PROVE  Good' /\ Running'
  <2>a. PICK z : z = Relay([x EXCEPT !.in = Tail(@)], Head(x.in), broken)
    OBVIOUS
  <2>0. broken \in BOOLEAN /\ (broken => Hung(s))
    BY <1>5 DEF Reset, Hung
  <2>p. PICK v : Relayed(x, v, z, broken)
    BY <1>1, <1>2, <1>5, <2>a, <2>0, RelayIs
  <2>1. /\ Typed(v) /\ v.in = Tail(x.in) /\ v.B = x.B /\ v.N = x.N
        /\ v.tube = x.tube /\ v.program = x.program /\ v.sent = x.sent /\ v.got = x.got
        /\ v.asking = x.asking /\ v.opening = x.opening /\ v.answers = x.answers /\ v.onB = x.onB
        /\ Socket(x, v) /\ v.listening = x.listening /\ v.post = x.post /\ v.fault = x.fault
        /\ v.stopRead = x.stopRead
        /\ \/ /\ x.B \in Closed /\ z = v /\ v.outN = x.outN /\ v.wire = x.wire
              /\ v.stopWrite = x.stopWrite /\ v.stopT = x.stopT
           \/ /\ x.B = "open" /\ broken /\ Ended(v, z) /\ v.outN = x.outN /\ v.wire = x.wire
              /\ v.stopWrite = x.stopWrite /\ v.stopT = x.stopT
           \/ /\ x.B = "open" /\ z = v /\ x.outN = <<>> /\ v.outN = <<>> /\ v.wire = Append(x.wire, Head(x.in))
              /\ v.stopWrite = FALSE /\ v.stopT = FALSE
           \/ /\ x.B = "open" /\ z = v /\ x.outN = <<>> /\ v.outN = <<Head(x.in)>> /\ v.wire = x.wire
              /\ v.stopWrite = TRUE /\ v.stopT = TRUE
    BY <2>p DEF Relayed
  <2>2. Handled(s, z)
    BY <1>5, <2>a
  <2>3. ~OnlyLeaves(p)
    BY <1>5, <1>a, <1>p, WriterIs
  <2>4. ASSUME OnlyLeaves(s) PROVE AllArrives(x, y) /\ x.B = "open" /\ (x.N = "connected" => ~broken)
    <3>1. AllArrives(x, y) /\ (x.N = "connected" => ~Hung(s))
      BY <2>4, <1>a, WriterIs
    <3>2. x.B \notin Closed
      BY <1>5, <3>1 DEF AllArrives
    <3> QED
      BY <1>3, <2>0, <3>1, <3>2 DEF Closed
  <2>5. x.B = "open" => x.N = "connected" /\ x.onB /\ x.toT
    BY <1>2 DEF SocketFits, TubeFits
  <2>6. CASE z = v
    <3>1. SocketFits(z)
      BY <1>2, <2>1, <2>6, <2>5 DEF SocketFits, Closed
    <3>2. TubeFits(z)
      BY <1>2, <2>1, <2>6 DEF TubeFits, Socket
    <3>3. Len(z.outN) <= 1 /\ Len(z.outT) <= 1
      <4>1. Len(<<>>) <= 1 /\ Len(<<Head(x.in)>>) <= 1
        BY FollowsFew
      <4> QED
        BY <1>2, <2>1, <2>6, <4>1 DEF Blocks, Socket
    <3>4. Blocks(z)
      BY <1>2, <1>3, <2>1, <2>6, <3>3 DEF Blocks, Socket, Closed, Early
    <3>5. InTime(z, s)
      BY <1>2, <2>1, <2>6 DEF InTime, Socket
    <3>6. Passes(x, z) \/ Cuts(x, z)
      <4>1. \A u : Append(<<>>, u) = <<u>>
        OBVIOUS
      <4>2. CASE x.B \in Closed
        BY <1>5, <2>1, <2>6, <4>2 DEF Cuts, Closed
      <4>3. CASE x.B \notin Closed
        <5>1. x.B = "open" /\ z.in = Tail(x.in) /\ x.outN = <<>>
              /\ \/ z.wire = x.wire /\ z.outN = <<Head(x.in)>>
                 \/ z.outN = <<>> /\ z.wire = Append(x.wire, Head(x.in))
          <6>1. ~Ended(v, z)
            BY <2>1, <2>6, <4>3 DEF Ended, Unlinked, Closed
          <6> QED
            BY <2>1, <2>6, <4>3, <6>1
        <5>2. Append(x.outN, Head(x.in)) = <<Head(x.in)>>
          BY <4>1, <5>1
        <5> QED
          BY <1>5, <5>1, <5>2 DEF Passes
      <4> QED
        BY <4>2, <4>3
    <3>7. Sends(x, z) /\ Gives(x, z)
      BY <2>1, <2>6, <3>6 DEF Sends, Gives, Socket
    <3>8. Relays(x, z)
      BY <1>2, <1>3, <2>1, <2>6 DEF Relays, Socket
    <3>9. ASSUME OnlyLeaves(s) PROVE AllArrives(z, y)
      <4>1. AllArrives(x, y) /\ x.B = "open"
        BY <2>4, <3>9
      <4>2. ~Cuts(x, z)
        BY <2>1, <2>6, <4>1 DEF Cuts, Closed
      <4>3. Carries(x, z)
        BY <2>1, <2>5, <2>6, <3>6, <4>1, <4>2 DEF AllArrives, Carries, Closed
      <4> QED
        BY <1>2, <4>1, <4>3, CarriesAll
    <3>10. Fits(z) /\ Typed(z) /\ z.fault = "none"
      BY <1>2, <2>1, <2>6, <3>1, <3>2, <3>4 DEF Fits
    <3> QED
      BY <1>a, <2>2, <2>3, <3>5, <3>7, <3>8, <3>9, <3>10, RelayKeeps
  <2>7. CASE /\ x.B = "open" /\ broken /\ Ended(v, z) /\ v.outN = x.outN /\ v.wire = x.wire
             /\ v.stopWrite = x.stopWrite /\ v.stopT = x.stopT
    <3>1. Closable(v)
      <4>1. Closable(x)
        BY <1>2, FitsClosable
      <4> QED
        BY <2>1, <2>7, <4>1 DEF Closable, Socket
    <3>2. InTime(v, s)
      BY <1>2, <2>1 DEF InTime, Socket
    <3>3. Fits(z) /\ InTime(z, s)
      BY <2>1, <2>7, <3>1, <3>2, EndedFits
    <3>4. Gives(v, z) /\ Relays(v, z)
      BY <1>2, <1>3, <2>1, <2>7, EndedMoves
    <3>5. Gives(x, z)
      BY <2>1, <3>4 DEF Gives, Socket
    <3>6. Relays(x, z)
      BY <2>1, <3>4 DEF Relays, Socket
    <3>7. Sends(x, z)
      BY <1>5, <2>1, <2>7 DEF Sends, Cuts, Ended, Unlinked, Rest, Closed
    <3>8. ~OnlyLeaves(s)
      BY <2>4, <2>5, <2>7
    <3>9. Typed(z) /\ z.fault = "none"
      BY <1>2, <2>1, <2>7 DEF Ended
    <3> QED
      BY <1>a, <2>2, <2>3, <3>3, <3>5, <3>6, <3>7, <3>8, <3>9, RelayKeeps
  <2> QED
    BY <2>1, <2>6, <2>7
<1> QED
  BY <1>1, <1>4, <1>5

-----------------------------------------------------------------------------
(* Data from the network. *)

\* The side that data comes from is left with the rest of it.
Fewer(y, v) ==
    /\ DOMAIN v = Fields /\ Arrived(y, v)
    /\ v.tube = y.tube /\ v.program = y.program /\ v.got = y.got /\ v.asking = y.asking
    /\ v.opening = y.opening /\ v.answers = y.answers /\ v.onB = y.onB /\ v.fault = y.fault
    /\ Blocked(y, v) /\ Socket(y, v) /\ Link(y, v)

\* ... which changes nothing else.
LEMMA FewerKeeps ==
    ASSUME NEW p, NEW y, Sound(y, p), NEW v, Fewer(y, v)
    PROVE  /\ Sound(v, p)
           /\ \A z : Flows(z, y) => Flows(z, v)
           /\ \A z, toI, toR : /\ Agreed(z, y, toI, toR) => Agreed(z, v, toI, toR)
                               /\ Agreed(y, z, toI, toR) => Agreed(v, z, toI, toR)
<1>0. y.wire # <<>> /\ v.wire = Tail(y.wire) /\ v.sent = y.sent /\ v.in = y.in
  BY DEF Fewer, Arrived
<1>1. Typed(v)
  BY DEF Sound, Fewer, Blocked, Socket, Link, Typed
<1>2. Data(v)
  <2>1. y.wire \in Seq(Nat)
    BY DEF Sound, Data
  <2>2. v.wire \in Seq(Nat)
    BY <1>0, <2>1
  <2> QED
    BY <1>0, <2>2 DEF Sound, Fewer, Socket, Link, Data
<1>3. Fits(v)
  BY <1>0 DEF Sound, Fits, SocketFits, TubeFits, Blocks, Fewer, Blocked, Socket, Link
<1>4. InTime(v, p) /\ v.post = <<>> /\ (p \notin scenario.writers => v.sent = 0)
  BY <1>0 DEF Sound, InTime, Fewer, Socket, Link
<1>5. Given(v) = Given(y)
  BY DEF Given, Fewer, Socket
<1>6. \A z : Flows(z, y) => Flows(z, v)
  BY <1>5 DEF Flows, Ordered, Whole, Fewer, Socket
<1>7. \A z, toI, toR : Agreed(z, y, toI, toR) => Agreed(z, v, toI, toR)
  BY DEF Agreed, Fewer, Socket, Link
<1>8. \A z, toI, toR : Agreed(y, z, toI, toR) => Agreed(v, z, toI, toR)
  BY DEF Agreed, Fewer, Socket, Link
<1> QED
  BY <1>1, <1>2, <1>3, <1>4, <1>6, <1>7, <1>8 DEF Sound

\* What is left to show of such an event.
LEMMA ReadKeeps ==
    ASSUME Good, Running, NEW s \in Sides, NEW x, x = side[s], NEW y, y = side[Peer(s)], NEW z, NEW v,
           scenario' = scenario, DOMAIN side' = Sides, side'[s] = [z EXCEPT !.post = <<>>], side'[Peer(s)] = v,
           DOMAIN mail' = Sides, mail'[s] = mail[s], mail'[Peer(s)] = mail[Peer(s)] \o z.post,
           Fewer(y, v), Typed(z), Fits(z), InTime(z, s), z.fault = "none",
           Sends(x, z), Takes(x, z, Head(y.wire)), Relays(x, z),
           ~OnlyLeaves(s), OnlyLeaves(Peer(s)) => AllArrives(v, z)
    PROVE  Good' /\ Running'
<1>1. /\ Local(x, s) /\ Local(y, Peer(s)) /\ Between(x, s, y) /\ Sound(y, Peer(s)) /\ y.fault = "none"
      /\ AgreedAt(s, x, y, mail[s], mail[Peer(s)])
  BY GoodIs
<1>2. /\ Flows(z, y) /\ z.sent \in Nat /\ z.in \in Seq(Nat) /\ z.outN \in Seq(Nat) /\ z.wire \in Seq(Nat)
  BY <1>1, SendsKeeps DEF Local, Between
<1>3. Flows(v, z) /\ z.got \in Seq(Nat) /\ z.outT \in Seq(Nat)
  BY <1>1, TakesKeeps DEF Local, Between, Fewer
<1>4. Data(z)
  BY <1>2, <1>3 DEF Data
<1>5. Sound(v, Peer(s)) /\ Flows(z, v) /\ v.fault = "none"
  BY <1>1, <1>2, FewerKeeps DEF Fewer
<1>6. Local(z, s) /\ Between(z, s, v)
  BY <1>1, <1>3, <1>4, <1>5 DEF Local, Between, Sends
<1>7. AgreedAt(s, z, v, mail'[s], mail'[Peer(s)])
  <2>1. CASE s = "recipient"
    <3>1. x.T # "connecting" /\ Agreed(x, y, mail[Peer(s)], mail[s])
      BY <1>1, <2>1 DEF Local, InTime, AgreedAt
    <3>2. Agreed(z, y, mail[Peer(s)] \o z.post, mail[s])
      BY <3>1, RecipientRelays
    <3>3. Agreed(z, v, mail[Peer(s)] \o z.post, mail[s])
      BY <1>1, <3>2, FewerKeeps
    <3> QED
      BY <2>1, <3>3 DEF AgreedAt
  <2>2. CASE s = "initiator"
    <3>1. Agreed(y, x, mail[s], mail[Peer(s)])
      BY <1>1, <2>2 DEF AgreedAt
    <3>2. Agreed(y, z, mail[s], mail[Peer(s)] \o z.post)
      BY <3>1, InitiatorRelays
    <3>3. Agreed(v, z, mail[s], mail[Peer(s)] \o z.post)
      BY <1>1, <3>2, FewerKeeps
    <3> QED
      BY <2>2, <3>3 DEF AgreedAt
  <2> QED
    BY <2>1, <2>2, PeerIs
<1> QED
  BY <1>5, <1>6, <1>7, StepKeeps

\* What the tube does with a unit: there is nobody to give it to, the program takes
\* it, or it waits and no more is read.
Received(x, z, u) ==
    /\ Typed(z) /\ x.onB
    /\ z.tube = x.tube /\ z.program = x.program /\ z.sent = x.sent /\ z.in = x.in /\ z.wire = x.wire
    /\ z.asking = x.asking /\ z.opening = x.opening /\ z.answers = x.answers /\ z.onB = x.onB
    /\ z.stopT = x.stopT /\ z.stopWrite = x.stopWrite /\ z.fault = x.fault /\ Link(x, z)
    /\ z.T = x.T /\ z.onT = x.onT /\ z.toT = x.toT /\ z.toB = x.toB
    /\ \/ z.got = Append(x.got, u) /\ z.outT = <<>> /\ z.stopRead = FALSE
       \/ z.got = x.got /\ z.outT = <<u>> /\ z.stopRead = TRUE

\* data_received_cb
LEMMA ReceiveIs ==
    ASSUME NEW x, Typed(x), Data(x), Fits(x), x.N = "connected", ~x.stopRead, NEW u, NEW z \in Receive(x, u)
    PROVE  \/ ~x.onB /\ z = x
           \/ x.T # "connected" /\ z = Fault(x, "send")
           \/ x.T = "connected" /\ x.program = "closed" /\ x.outT = <<>> /\ z = BreakT(x)
           \/ x.T = "connected" /\ x.program # "closed" /\ x.outT = <<>> /\ Received(x, z, u)
<1>1. SocketFits(x) /\ TubeFits(x) /\ Blocks(x)
  BY DEF Fits
<1>2. x.B \in {"open", "closing"}
  BY <1>1 DEF SocketFits
<1>3. CASE ~x.onB
  BY <1>3 DEF Receive
<1>4. CASE x.onB /\ x.T # "connected"
  BY <1>1, <1>2, <1>4 DEF Receive, TubeFits
<1>5. CASE x.onB /\ x.T = "connected"
  <2>1. x.toT /\ x.onT /\ x.toB /\ x.outT = <<>>
    BY <1>1, <1>2, <1>5 DEF TubeFits, Blocks
  <2>2. PICK w \in WriteT(x, u) : z = IF w.outT = <<>> THEN w ELSE BlockReading(w, TRUE)
    BY <1>5, <2>1 DEF Receive
  <2>3. CASE x.program = "closed"
    <3>1. w = BreakT(x)
      BY <2>1, <2>2, <2>3 DEF WriteT
    <3>2. PICK v : Dropped(x, v) /\ Ending(v, w)
      BY <1>2, <2>1, <3>1, BreakTIs
    <3>3. w.outT = <<>>
      BY <3>2 DEF Dropped, Ending, Ended, Socket, Removed
    <3> QED
      BY <1>5, <2>1, <2>2, <2>3, <3>1, <3>3
  <2>4. CASE x.program # "closed" /\ w = EmptyT([x EXCEPT !.got = Append(@, u)])
    <3>1. PICK v : v = [x EXCEPT !.got = Append(@, u)]
      OBVIOUS
    <3>2. /\ DOMAIN v = Fields /\ v.outT = <<>> /\ v.got = Append(x.got, u)
          /\ v.tube = x.tube /\ v.program = x.program /\ v.sent = x.sent /\ v.in = x.in
          /\ v.asking = x.asking /\ v.opening = x.opening /\ v.wire = x.wire
          /\ v.answers = x.answers /\ v.onB = x.onB /\ v.fault = x.fault
          /\ Blocked(x, v) /\ Link(x, v) /\ v.T = x.T /\ v.onT = x.onT /\ v.toT = x.toT /\ v.toB = x.toB
      BY <2>1, <3>1 DEF Typed, Fields, Blocked, Link
    <3>3. Typed(v)
      BY <3>2 DEF Typed, Blocked, Link
    <3>4. Emptied(v, w)
      BY <2>1, <2>4, <3>1, <3>2, <3>3, EmptyTIs DEF Link
    <3>5. Reads(v, w, FALSE)
      BY <1>2, <2>1, <3>2, <3>4 DEF Emptied, Link
    <3>6. z = w
      BY <2>2, <3>2, <3>5 DEF Reads, Socket
    <3>7. Received(x, w, u)
      BY <1>5, <3>2, <3>5 DEF Reads, Received, Rest, Socket, Link, Blocked
    <3> QED
      BY <1>5, <2>1, <2>4, <3>6, <3>7
  <2>5. CASE x.program # "closed" /\ w = [x EXCEPT !.outT = <<u>>]
    <3>1. /\ DOMAIN w = Fields /\ w.outT = <<u>> /\ w.got = x.got
          /\ w.tube = x.tube /\ w.program = x.program /\ w.sent = x.sent /\ w.in = x.in
          /\ w.asking = x.asking /\ w.opening = x.opening /\ w.wire = x.wire
          /\ w.answers = x.answers /\ w.onB = x.onB /\ w.fault = x.fault
          /\ Blocked(x, w) /\ Link(x, w) /\ w.T = x.T /\ w.onT = x.onT /\ w.toT = x.toT /\ w.toB = x.toB
      BY <2>5 DEF Typed, Fields, Blocked, Link
    <3>2. Typed(w)
      BY <3>1 DEF Typed, Blocked, Link
    <3>3. z = BlockReading(w, TRUE)
      BY <2>2, <3>1
    <3>4. Reads(w, z, TRUE)
      BY <3>1, <3>2, <3>3, BlockReadingIs DEF Link
    <3>5. Received(x, z, u)
      BY <1>5, <3>1, <3>4 DEF Reads, Received, Rest, Socket, Link, Blocked
    <3> QED
      BY <1>5, <2>1, <2>5, <3>5
  <2> QED
    BY <2>1, <2>2, <2>3, <2>4, <2>5 DEF WriteT
<1> QED
  BY <1>3, <1>4, <1>5

\* _channel_io_in of N
LEMMA ReadNKeeps ==
    ASSUME Good, Running, NEW s \in Sides, ReadN(s)
    PROVE  (Good' /\ Running') \/ (Promised' /\ ~Running')
<1>a. PICK x, y, p, u : x = side[s] /\ y = side[Peer(s)] /\ p = Peer(s) /\ u = Head(side[Peer(s)].wire)
  OBVIOUS
<1>b. PICK v : v = [y EXCEPT !.wire = Tail(@)]
  OBVIOUS
<1>p. p \in Sides /\ Peer(p) = s /\ p # s /\ Sides = {s, p}
  BY <1>a, PeerIs
<1>1. PICK z \in Receive(x, u) :
           /\ x.N = "connected" /\ ~x.stopRead /\ y.wire # <<>> /\ scenario' = scenario
           /\ side' = [side EXCEPT ![s] = [z EXCEPT !.post = <<>>], ![p].wire = Tail(@)]
           /\ mail' = [mail EXCEPT ![p] = @ \o z.post]
  BY <1>a DEF ReadN, Readable
<1>2. /\ Typed(x) /\ Data(x) /\ Fits(x) /\ SocketFits(x) /\ TubeFits(x) /\ Blocks(x) /\ InTime(x, s)
      /\ x.fault = "none" /\ x.post = <<>> /\ x.B # "local_pending" /\ (x.asking => x.B = "none")
      /\ Typed(y) /\ Data(y) /\ Flows(y, x)
  BY <1>a, HereIs
<1>3. /\ DOMAIN side' = Sides /\ side'[s] = [z EXCEPT !.post = <<>>] /\ side'[p] = v
      /\ DOMAIN mail' = Sides /\ mail'[s] = mail[s] /\ mail'[p] = mail[p] \o z.post
  BY <1>1, <1>a, <1>b, <1>p DEF Good
<1>4. Fewer(y, v) /\ v.fault = "none" /\ v.sent = y.sent /\ v.got = y.got /\ v.T = y.T
  <2>1. /\ DOMAIN v = Fields /\ v.wire = Tail(y.wire) /\ v.sent = y.sent /\ v.in = y.in
        /\ v.outN = y.outN /\ v.B = y.B
        /\ v.tube = y.tube /\ v.program = y.program /\ v.got = y.got /\ v.asking = y.asking
        /\ v.opening = y.opening /\ v.answers = y.answers /\ v.onB = y.onB /\ v.fault = y.fault
        /\ Blocked(y, v) /\ Socket(y, v) /\ Link(y, v)
    BY <1>b, <1>2 DEF Typed, Fields, Blocked, Socket, Link
  <2>2. y.fault = "none"
    BY <1>a, <1>p DEF Running
  <2> QED
    BY <1>1, <2>1, <2>2 DEF Fewer, Arrived, Socket
<1>5. x.B \in {"open", "closing"} /\ x.B \notin Early /\ ~x.asking
  BY <1>1, <1>2 DEF SocketFits, Early, Typed
<1>6. ~OnlyLeaves(s)
  BY <1>a, <1>1, WriterIs
<1>7. OnlyLeaves(p) => AllArrives(y, x) /\ x.B # "closed" /\ x.B \notin Closed
  <2>1. OnlyLeaves(p) => AllArrives(y, x)
    BY <1>a, <1>p, WriterIs
  <2> QED
    BY <1>1, <1>5, <2>1 DEF AllArrives
<1>8. CASE ~x.onB /\ z = x
  <2>1. x.T = "disconnected"
    BY <1>1, <1>2, <1>8 DEF TubeFits
  <2>2. ~OnlyLeaves(p)
    BY <1>7, <2>1 DEF AllArrives
  <2>3. Sends(x, z) /\ Takes(x, z, u)
    BY <1>2, <1>8, <2>1 DEF Sends, Passes, Takes, TubeFits
  <2>4. Relays(x, z)
    BY <1>2, <1>5, <1>8 DEF Relays
  <2> QED
    BY <1>a, <1>1, <1>2, <1>3, <1>4, <1>6, <1>8, <2>2, <2>3, <2>4, ReadKeeps
<1>9. CASE x.T # "connected" /\ z = Fault(x, "send")
  <2>1. PICK w : w = [z EXCEPT !.post = <<>>]
    OBVIOUS
  <2>2. /\ w.got = x.got /\ w.sent = x.sent /\ w.T = x.T /\ w.fault = "send" /\ w.B = x.B /\ w.N = x.N
        /\ w.outT = x.outT /\ w.outN = x.outN /\ w.onB = x.onB /\ w.stopRead = x.stopRead /\ w.stopT = x.stopT
    BY <1>2, <1>9, <2>1 DEF Fault, Typed, Fields
  <2>3. FlowsAt(w)
    BY <1>a, <2>2, GoodFlows DEF FlowsAt
  <2>4. FlowsAt(v)
    BY <1>a, <1>p, <1>4, GoodFlows DEF FlowsAt, Fewer, Blocked, Socket, Link
  <2>5. x.B = "open" => s = "initiator" /\ scenario.socket = "tcp"
    BY <1>2, <1>9 DEF TubeFits, InTime, Typed
  <2>6. Excused(w, s)
    BY <1>5, <2>2, <2>5 DEF Excused
  <2> QED
    BY <1>a, <1>1, <1>3, <1>4, <2>1, <2>2, <2>3, <2>4, <2>6, FaultKeeps
<1>10. CASE x.T = "connected" /\ x.program = "closed" /\ x.outT = <<>> /\ z = BreakT(x)
  <2>1. /\ Typed(z) /\ Fits(z) /\ InTime(z, s) /\ z.fault = x.fault
        /\ Sends(x, z) /\ Relays(x, z)
        /\ z.T = "disconnected" /\ z.got = x.got /\ z.outT = <<>>
    BY <1>2, <1>5, <1>10, BrokenT
  <2>2. Takes(x, z, u)
    BY <1>10, <2>1 DEF Takes
  <2>3. ~OnlyLeaves(p)
    BY <1>7, <1>10 DEF AllArrives
  <2> QED
    BY <1>a, <1>1, <1>2, <1>3, <1>4, <1>6, <2>1, <2>2, <2>3, ReadKeeps
<1>11. CASE x.T = "connected" /\ x.program # "closed" /\ x.outT = <<>> /\ Received(x, z, u)
  <2>1. x.toB /\ x.toT /\ x.onT
    BY <1>1, <1>2, <1>11 DEF TubeFits
  <2>2. SocketFits(z)
    BY <1>2, <1>11 DEF Received, SocketFits, Link
  <2>3. TubeFits(z)
    BY <1>2, <1>5, <1>11 DEF Received, TubeFits, Link
  <2>4. Len(z.outT) <= 1 /\ Len(z.outN) <= 1
    <3>1. Len(<<>>) <= 1 /\ Len(<<u>>) <= 1
      BY FollowsFew
    <3> QED
      BY <1>2, <1>11, <3>1 DEF Received, Blocks, Link
  <2>5. Blocks(z)
    BY <1>2, <1>5, <1>11, <2>4 DEF Received, Blocks, Link
  <2>6. InTime(z, s)
    BY <1>11 DEF Received, InTime
  <2>7. Sends(x, z) /\ Takes(x, z, u)
    BY <1>11 DEF Received, Sends, Passes, Takes, Link
  <2>8. Relays(x, z)
    BY <1>2, <1>5, <1>11 DEF Received, Relays, Link
  <2>9. ASSUME OnlyLeaves(p) PROVE AllArrives(v, z)
    <3>1. AllArrives(y, x) /\ x.B \notin Closed /\ Whole(y, x)
      BY <1>7, <1>11, <2>9 DEF AllArrives
    <3>2. z.T # "disconnected" /\ z.B \notin Closed
      BY <1>11, <3>1 DEF Received, Link
    <3>3. Whole(v, z)
      BY <1>a, <1>2, <1>4, <2>7, <3>1, <3>2, TakesKeeps DEF Fewer
    <3>4. v.tube = y.tube /\ v.N = y.N /\ v.B = y.B /\ v.in = y.in /\ v.program = y.program
      BY <1>4 DEF Fewer, Arrived, Link
    <3>5. z.tube = x.tube /\ z.program = x.program /\ z.sent = x.sent /\ z.N = x.N /\ z.B = x.B
      BY <1>11 DEF Received, Link
    <3> QED
      BY <3>1, <3>2, <3>3, <3>4, <3>5 DEF AllArrives
  <2>10. Typed(z) /\ Fits(z) /\ z.fault = "none"
    BY <1>2, <1>11, <2>2, <2>3, <2>5 DEF Fits, Received
  <2> QED
    BY <1>a, <1>1, <1>2, <1>3, <1>4, <1>6, <2>6, <2>7, <2>8, <2>9, <2>10, ReadKeeps
<1> QED
  BY <1>1, <1>2, <1>8, <1>9, <1>10, <1>11, ReceiveIs

-----------------------------------------------------------------------------
(* The tube is closed. *)

\* What close_each_extra_bytestream leaves.
CloseExtraEffect(x, z) ==
    /\ Typed(z) /\ z.T = "disconnected" /\ z.outT = <<>> /\ z.onB = FALSE /\ z.onT = FALSE
    /\ z.toT = FALSE /\ z.toB = FALSE
    /\ z.program = x.program /\ z.sent = x.sent /\ z.in = x.in /\ z.got = x.got /\ z.wire = x.wire
    /\ z.asking = x.asking /\ z.opening = x.opening /\ z.answers = x.answers /\ z.fault = x.fault
    /\ z.stopT = x.stopT /\ z.stopWrite = x.stopWrite /\ z.stopRead = x.stopRead /\ z.tube = "closed"
    /\ \/ x.B = "closed" /\ z.B = "closed" /\ z.N = x.N /\ z.outN = x.outN /\ z.listening = x.listening
          /\ z.post = x.post
       \/ x.B # "closed" /\ x.outN # <<>> /\ z.B = "closing" /\ z.N = x.N /\ z.outN = x.outN
          /\ z.listening = x.listening /\ z.post = x.post
       \/ x.B # "closed" /\ x.outN = <<>> /\ Unlinked(x, z)

\* ... when there is a socket.
LEMMA CloseExtraIs ==
    ASSUME NEW x, Typed(x), x.toT, x.B \notin {"none", "local_pending"}, NEW z,
           z = [CloseExtra(x) EXCEPT !.tube = "closed"]
    PROVE  CloseExtraEffect(x, z)
<1>1. PICK v : v = [x EXCEPT !.onB = FALSE, !.onT = FALSE]
  OBVIOUS
<1>2. /\ DOMAIN v = Fields /\ v.onB = FALSE /\ v.onT = FALSE
      /\ v.program = x.program /\ v.sent = x.sent /\ v.in = x.in /\ v.got = x.got /\ v.wire = x.wire
      /\ v.asking = x.asking /\ v.opening = x.opening /\ v.answers = x.answers /\ v.fault = x.fault
      /\ Blocked(x, v) /\ Link(x, v) /\ v.T = x.T /\ v.outT = x.outT /\ v.toT = x.toT /\ v.toB = x.toB
  BY <1>1 DEF Typed, Fields, Blocked, Link
<1>3. Typed(v)
  BY <1>2 DEF Typed, Blocked, Link
<1>4. PICK w : w = CloseBytestream(v)
  OBVIOUS
<1>5. Ending(v, w)
  BY <1>2, <1>3, <1>4, CloseBytestreamIs DEF Link
<1>6. z = [FireConnectionClosed([DropT(w) EXCEPT !.toB = FALSE, !.toT = FALSE]) EXCEPT !.tube = "closed"]
  BY <1>1, <1>4 DEF CloseExtra
<1>7. /\ Typed(w)
      /\ w.program = v.program /\ w.sent = v.sent /\ w.in = v.in /\ w.got = v.got /\ w.wire = v.wire
      /\ w.asking = v.asking /\ w.opening = v.opening /\ w.answers = v.answers /\ w.fault = v.fault
      /\ w.onB = FALSE /\ w.onT = FALSE /\ Blocked(v, w)
      /\ \/ v.B = "closed" /\ w.B = "closed" /\ w.N = v.N /\ w.outN = v.outN /\ w.listening = v.listening
            /\ w.post = v.post
         \/ v.B # "closed" /\ v.outN # <<>> /\ w.B = "closing" /\ w.N = v.N /\ w.outN = v.outN
            /\ w.listening = v.listening /\ w.post = v.post
         \/ v.B # "closed" /\ v.outN = <<>> /\ Unlinked(v, w)
  <2>1. CASE v.B = "closed"
    <3>1. w = v
      BY <1>5, <2>1 DEF Ending
    <3> QED
      BY <1>2, <1>3, <2>1, <3>1 DEF Blocked
  <2>2. CASE v.B # "closed" /\ v.outN # <<>>
    <3>1. v.B # "none"
      BY <1>2 DEF Link
    <3> QED
      BY <1>2, <1>5, <2>2, <3>1 DEF Ending, Rest, Socket
  <2>3. CASE v.B # "closed" /\ v.outN = <<>>
    <3>1. v.B # "none"
      BY <1>2 DEF Link
    <3>2. Ended(v, w)
      BY <1>5, <2>3, <3>1 DEF Ending
    <3> QED
      BY <1>2, <2>3, <3>2 DEF Ended, Rest, Socket
  <2> QED
    BY <2>1, <2>2, <2>3
<1>8. /\ DOMAIN z = Fields /\ z.T = "disconnected" /\ z.outT = <<>> /\ z.onB = w.onB /\ z.onT = w.onT
      /\ z.toT = FALSE /\ z.toB = FALSE
      /\ z.program = w.program /\ z.sent = w.sent /\ z.in = w.in /\ z.got = w.got /\ z.wire = w.wire
      /\ z.asking = w.asking /\ z.opening = w.opening /\ z.answers = w.answers /\ z.fault = w.fault
      /\ Blocked(w, z) /\ Link(w, z) /\ z.tube = "closed"
  <2>1. PICK q : q = [DropT(w) EXCEPT !.toB = FALSE, !.toT = FALSE]
    OBVIOUS
  <2>2. /\ DOMAIN q = Fields /\ q.T = "disconnected" /\ q.outT = <<>> /\ q.onB = w.onB /\ q.onT = w.onT
        /\ q.toT = FALSE /\ q.toB = FALSE
        /\ q.program = w.program /\ q.sent = w.sent /\ q.in = w.in /\ q.got = w.got /\ q.wire = w.wire
        /\ q.asking = w.asking /\ q.opening = w.opening /\ q.answers = w.answers /\ q.fault = w.fault
        /\ Blocked(w, q) /\ Link(w, q)
    BY <1>7, <2>1 DEF Typed, Fields, DropT, Blocked, Link
  <2>3. PICK r : r = FireConnectionClosed(q)
    OBVIOUS
  <2>4. r = q \/ r = [q EXCEPT !.id = "fired"]
    BY <2>3 DEF FireConnectionClosed
  <2>5. /\ DOMAIN r = Fields /\ r.T = q.T /\ r.outT = q.outT /\ r.onB = q.onB /\ r.onT = q.onT
        /\ r.toT = q.toT /\ r.toB = q.toB
        /\ r.program = q.program /\ r.sent = q.sent /\ r.in = q.in /\ r.got = q.got /\ r.wire = q.wire
        /\ r.asking = q.asking /\ r.opening = q.opening /\ r.answers = q.answers /\ r.fault = q.fault
        /\ Blocked(q, r) /\ Link(q, r)
    BY <2>2, <2>4 DEF Fields, Blocked, Link
  <2>6. z = [r EXCEPT !.tube = "closed"]
    BY <1>6, <2>1, <2>3
  <2>7. /\ DOMAIN z = Fields /\ z.T = r.T /\ z.outT = r.outT /\ z.onB = r.onB /\ z.onT = r.onT
        /\ z.toT = r.toT /\ z.toB = r.toB
        /\ z.program = r.program /\ z.sent = r.sent /\ z.in = r.in /\ z.got = r.got /\ z.wire = r.wire
        /\ z.asking = r.asking /\ z.opening = r.opening /\ z.answers = r.answers /\ z.fault = r.fault
        /\ Blocked(r, z) /\ Link(r, z) /\ z.tube = "closed"
    BY <2>5, <2>6 DEF Fields, Blocked, Link
  <2> QED
    BY <2>2, <2>5, <2>7 DEF Blocked, Link
<1>9. Typed(z)
  BY <1>7, <1>8 DEF Typed, Blocked, Link
<1>10. /\ z.program = x.program /\ z.sent = x.sent /\ z.in = x.in /\ z.got = x.got /\ z.wire = x.wire
       /\ z.asking = x.asking /\ z.opening = x.opening /\ z.answers = x.answers /\ z.fault = x.fault
       /\ z.stopT = x.stopT /\ z.stopWrite = x.stopWrite /\ z.stopRead = x.stopRead
  BY <1>2, <1>7, <1>8 DEF Blocked
<1>11. \/ x.B = "closed" /\ z.B = "closed" /\ z.N = x.N /\ z.outN = x.outN /\ z.listening = x.listening
          /\ z.post = x.post
       \/ x.B # "closed" /\ x.outN # <<>> /\ z.B = "closing" /\ z.N = x.N /\ z.outN = x.outN
          /\ z.listening = x.listening /\ z.post = x.post
       \/ x.B # "closed" /\ x.outN = <<>> /\ Unlinked(x, z)
  BY <1>2, <1>7, <1>8 DEF Link, Unlinked
<1> QED
  BY <1>7, <1>8, <1>9, <1>10, <1>11 DEF CloseExtraEffect

\* salut_tube_stream_close
LEMMA CloseKeeps ==
    ASSUME Good, Running, NEW s \in Sides, Close(s)
    PROVE  Good' /\ Running'
<1>a. PICK x, y, p : x = side[s] /\ y = side[Peer(s)] /\ p = Peer(s)
  OBVIOUS
<1>b. PICK z : z = [CloseExtra(x) EXCEPT !.tube = "closed"]
  OBVIOUS
<1>1. /\ x.tube = "open" /\ (scenario.early \/ ~x.asking)
      /\ s \in scenario.closers \/ (s = "recipient" /\ side["initiator"].tube = "closed")
      /\ Handled(s, z)
  BY <1>a, <1>b DEF Close
<1>2. /\ Typed(x) /\ Data(x) /\ Fits(x) /\ SocketFits(x) /\ TubeFits(x) /\ Blocks(x) /\ InTime(x, s)
      /\ x.fault = "none" /\ x.post = <<>> /\ x.B # "local_pending" /\ (x.asking => x.B = "none")
      /\ AgreedAt(s, x, y, mail[s], mail[p])
  BY <1>a, HereIs
<1>p. p \in Sides /\ Peer(p) = s
  BY <1>a, PeerIs
<1>3. ~OnlyLeaves(s)
  <2>1. OnlyLeaves(s) => AllArrives(x, y) /\ scenario.closers = {}
    BY <1>a, WriterIs
  <2>2. s = "recipient" => y = side["initiator"]
    BY <1>a, PeerIs
  <2> QED
    BY <1>1, <2>1, <2>2 DEF AllArrives
<1>4. ~OnlyLeaves(p)
  <2>1. OnlyLeaves(p) => AllArrives(y, x) /\ scenario.closers = {}
    BY <1>a, <1>p, WriterIs
  <2>2. s = "recipient" => y = side["initiator"]
    BY <1>a, PeerIs
  <2> QED
    BY <1>1, <2>1, <2>2 DEF AllArrives
<1>5. CASE x.toT
  <2>1. x.B \notin {"none", "local_pending"} /\ ~x.asking
    <3>1. x.onB /\ (x.B = "none" => ~x.onB)
      BY <1>2, <1>5 DEF TubeFits, AgreedAt, Agreed
    <3> QED
      BY <1>2, <3>1
  <2>2. CloseExtraEffect(x, z)
    BY <1>b, <1>2, <1>5, <2>1, CloseExtraIs
  <2> DEFINE Away ==
               /\ Typed(z) /\ z.T = "disconnected" /\ z.outT = <<>> /\ z.onB = FALSE /\ z.onT = FALSE
               /\ z.toT = FALSE /\ z.toB = FALSE
               /\ z.program = x.program /\ z.sent = x.sent /\ z.in = x.in /\ z.got = x.got /\ z.wire = x.wire
               /\ z.asking = x.asking /\ z.opening = x.opening /\ z.answers = x.answers /\ z.fault = x.fault
               /\ z.stopT = x.stopT /\ z.stopWrite = x.stopWrite /\ z.stopRead = x.stopRead /\ z.tube = "closed"
  <2>3. Away
    BY <2>2 DEF CloseExtraEffect
  <2>4. \/ /\ x.B = "closed" /\ z.B = "closed" /\ z.N = x.N /\ z.outN = x.outN /\ z.listening = x.listening
           /\ z.post = <<>>
        \/ /\ x.B \in {"open", "closing"} /\ x.outN # <<>> /\ z.B = "closing" /\ z.N = x.N /\ z.outN = x.outN
           /\ z.listening = x.listening /\ z.post = <<>>
        \/ /\ x.B # "closed" /\ x.outN = <<>> /\ z.B = "closed" /\ z.outN = <<>> /\ z.listening = FALSE
           /\ z.N = (IF x.N = "connected" THEN "disconnected" ELSE x.N)
           /\ z.post = (IF x.answers THEN <<"oob_result">> ELSE <<>>)
    <3>1. Append(<<>>, "oob_result") = <<"oob_result">>
      OBVIOUS
    <3>2. x.outN # <<>> => x.B \in {"open", "closing"}
      BY <1>2 DEF SocketFits
    <3> QED
      BY <1>2, <2>2, <3>1, <3>2 DEF CloseExtraEffect, Unlinked
  <2>5. SocketFits(z)
    BY <1>2, <2>3, <2>4 DEF SocketFits
  <2>6. TubeFits(z)
    BY <2>3, <2>4 DEF TubeFits, Early
  <2>7. Blocks(z)
    <3>1. Len(z.outT) <= 1 /\ Len(z.outN) <= 1
      BY <1>2, <2>3, <2>4, FollowsFew DEF Blocks
    <3> QED
      BY <2>3, <2>4, <3>1 DEF Blocks, Early
  <2>8. InTime(z, s)
    BY <2>3, <2>4 DEF InTime
  <2>9. Sends(x, z) /\ Gives(x, z)
    BY <2>3, <2>4 DEF Sends, Passes, Gives, Closed
  <2>10. Relays(x, z)
    BY <2>1, <2>3, <2>4 DEF Relays
  <2> QED
    BY <1>a, <1>1, <1>2, <1>3, <1>4, <2>3, <2>5, <2>6, <2>7, <2>8, <2>9, <2>10, RelayKeeps DEF Fits
<1>6. CASE ~x.toT
  <2>1. z = [x EXCEPT !.tube = "closed"]
    BY <1>b, <1>6 DEF CloseExtra
  <2>2. /\ DOMAIN z = Fields /\ z.tube = "closed" /\ z.sent = x.sent /\ z.in = x.in
        /\ z.program = x.program /\ z.got = x.got /\ z.wire = x.wire /\ z.asking = x.asking
        /\ z.opening = x.opening /\ z.answers = x.answers /\ z.onB = x.onB /\ z.fault = x.fault
        /\ Blocked(x, z) /\ Socket(x, z) /\ Link(x, z)
    BY <1>2, <2>1 DEF Typed, Fields, Blocked, Socket, Link
  <2> HIDE DEF Fields
  <2>3. Typed(z)
    BY <1>2, <2>2 DEF Typed, Blocked, Socket, Link
  <2>4. Fits(z)
    BY <1>2, <2>2 DEF Fits, SocketFits, TubeFits, Blocks, Blocked, Socket, Link
  <2>5. InTime(z, s)
    BY <1>2, <2>2 DEF InTime, Socket, Link
  <2>6. Sends(x, z) /\ Gives(x, z)
    BY <2>2 DEF Sends, Passes, Gives, Socket, Link
  <2>7. Relays(x, z)
    BY <1>1, <1>2, <2>2 DEF Relays, Socket, Link
  <2> QED
    BY <1>a, <1>1, <1>2, <1>3, <1>4, <2>2, <2>3, <2>4, <2>5, <2>6, <2>7, RelayKeeps
<1> QED
  BY <1>2, <1>5, <1>6 DEF Typed

-----------------------------------------------------------------------------
(* The negotiation. *)

\* No data moves.
Steady(x, z) ==
    /\ z.sent = x.sent /\ z.in = x.in /\ z.outN = x.outN /\ z.wire = x.wire
    /\ z.got = x.got /\ z.outT = x.outT
    /\ x.T = "disconnected" => z.T = "disconnected"
    /\ x.B \in Closed => z.B \in Closed

\* ... and nothing is closed.
Quiet(x, z) ==
    /\ z.tube = x.tube
    /\ \/ z.B = x.B /\ z.N = x.N /\ z.T = x.T /\ z.program = x.program
       \/ /\ x.B \notin Closed /\ z.B \notin Closed /\ z.N # "refused"
          /\ z.program \in {x.program, "open"} /\ (z.T = "disconnected" => z.T = x.T)

\* What is left to show of an event, the stanzas aside.
LEMMA MovesKeep ==
    ASSUME Good, Running, NEW s \in Sides, NEW x, x = side[s], NEW y, y = side[Peer(s)], NEW z,
           Typed(z), Fits(z), InTime(z, s), z.fault = "none", Sends(x, z), Gives(x, z),
           OnlyLeaves(s) => AllArrives(z, y), OnlyLeaves(Peer(s)) => AllArrives(y, z)
    PROVE  Local(z, s) /\ Between(z, s, y)
<1>1. Local(x, s) /\ Local(y, Peer(s)) /\ Between(x, s, y)
  BY GoodIs
<1>2. /\ Flows(z, y) /\ z.sent \in Nat /\ z.in \in Seq(Nat) /\ z.outN \in Seq(Nat) /\ z.wire \in Seq(Nat)
      /\ Flows(y, z) /\ z.got \in Seq(Nat) /\ z.outT \in Seq(Nat)
  BY <1>1, SendsKeeps, GivesKeeps DEF Local, Between
<1>3. Data(z)
  BY <1>2 DEF Data
<1> QED
  BY <1>1, <1>2, <1>3 DEF Local, Between, Sends

\* ... of one that moves no data.
LEMMA SteadyKeeps ==
    ASSUME Good, Running, NEW s \in Sides, NEW x, x = side[s], NEW y, y = side[Peer(s)], NEW z,
           Typed(z), Fits(z), InTime(z, s), z.fault = "none", Steady(x, z),
           Quiet(x, z) \/ (~OnlyLeaves(s) /\ ~OnlyLeaves(Peer(s)))
    PROVE  Local(z, s) /\ Between(z, s, y)
<1>1. Sends(x, z) /\ Gives(x, z)
  BY DEF Steady, Sends, Passes, Gives
<1>2. Given(z) = Given(x)
  BY DEF Steady, Given
<1>3. (Whole(x, y) => Whole(z, y)) /\ (Whole(y, x) => Whole(y, z))
  BY <1>2 DEF Steady, Whole
<1>4. ASSUME OnlyLeaves(s) PROVE AllArrives(z, y)
  <2>1. AllArrives(x, y)
    BY <1>4, WriterIs
  <2> QED
    BY <1>3, <1>4, <2>1 DEF AllArrives, Steady, Quiet, Closed
<1>5. ASSUME OnlyLeaves(Peer(s)) PROVE AllArrives(y, z)
  <2>1. AllArrives(y, x)
    BY <1>5, WriterIs, PeerIs
  <2> QED
    BY <1>3, <1>5, <2>1 DEF AllArrives, Steady, Quiet, Closed
<1> QED
  BY <1>1, <1>4, <1>5, MovesKeep

\* The two sides.
LEMMA BothAre ==
    ASSUME Good, Running, NEW r, r = side["recipient"], NEW i, i = side["initiator"],
           NEW toI, toI = mail["initiator"], NEW toR, toR = mail["recipient"]
    PROVE  /\ Agreed(r, i, toI, toR)
           /\ Typed(r) /\ Fits(r) /\ SocketFits(r) /\ TubeFits(r) /\ Blocks(r) /\ InTime(r, "recipient")
           /\ r.fault = "none" /\ r.post = <<>>
           /\ Typed(i) /\ Fits(i) /\ SocketFits(i) /\ TubeFits(i) /\ Blocks(i) /\ InTime(i, "initiator")
           /\ i.fault = "none" /\ i.post = <<>>
           /\ OnlyLeaves("recipient") \/ OnlyLeaves("initiator") =>
                 /\ r.tube = "open" /\ i.tube = "open" /\ r.N # "refused" /\ i.N # "refused"
                 /\ (r.N = "none" => r.B # "closed") /\ (i.N = "none" => i.B # "closed")
                 /\ ~scenario.early /\ ~scenario.breaks /\ scenario.socket = "unix" /\ ~scenario.refuses
<1>1. "recipient" \in Sides /\ "initiator" \in Sides
  BY PeerIs
<1>2. /\ Typed(r) /\ Fits(r) /\ SocketFits(r) /\ TubeFits(r) /\ Blocks(r) /\ InTime(r, "recipient")
      /\ r.fault = "none" /\ r.post = <<>>
      /\ Typed(i) /\ Fits(i) /\ SocketFits(i) /\ TubeFits(i) /\ Blocks(i) /\ InTime(i, "initiator")
      /\ i.fault = "none" /\ i.post = <<>>
  BY <1>1, HereIs
<1>3. \A s \in Sides : OnlyLeaves(s) => /\ AllArrives(side[s], side[Peer(s)])
                                        /\ ~scenario.early /\ ~scenario.breaks /\ scenario.socket = "unix" /\ ~scenario.refuses
  BY WriterIs
<1>4. OnlyLeaves("recipient") => AllArrives(r, i)
  BY <1>1, <1>3, PeerIs
<1>5. OnlyLeaves("initiator") => AllArrives(i, r)
  BY <1>1, <1>3, PeerIs
<1> QED
  BY <1>1, <1>2, <1>3, <1>4, <1>5 DEF Good, AllArrives

\* local_new_connection_cb
LEMMA NewLocalConnectionKeeps ==
    ASSUME Good, Running, NewLocalConnection
    PROVE  Good' /\ Running'
<1>a. PICK x, y, toI, toR : /\ x = side["recipient"] /\ y = side["initiator"]
                            /\ toI = mail["initiator"] /\ toR = mail["recipient"]
  OBVIOUS
<1>b. PICK z : z = [StartStreamInitiation([x EXCEPT !.program = "open", !.T = "connected"]) EXCEPT !.id = "live"]
  OBVIOUS
<1>1. x.tube = "open" /\ x.program = "none" /\ Handled("recipient", z)
  BY <1>a, <1>b DEF NewLocalConnection
<1>2. /\ Agreed(x, y, toI, toR)
      /\ Typed(x) /\ SocketFits(x) /\ TubeFits(x) /\ Blocks(x) /\ x.fault = "none" /\ x.post = <<>>
  BY <1>a, BothAre
<1>3. /\ x.B = "none" /\ x.T = "none" /\ y.B = "none" /\ toI = <<>> /\ toR = <<>> /\ ~x.asking
      /\ ~x.toT /\ ~x.onB /\ x.N = "none"
  BY <1>1, <1>2, MailIs DEF Agreed, SocketFits, TubeFits
<1>4. /\ DOMAIN z = Fields /\ z.program = "open" /\ z.T = "connected" /\ z.asking = TRUE /\ z.stopT = TRUE
      /\ z.post = Append(<<>>, "si")
      /\ z.tube = x.tube /\ z.sent = x.sent /\ z.in = x.in /\ z.got = x.got /\ z.outT = x.outT /\ z.onT = x.onT
      /\ z.B = x.B /\ z.onB = x.onB /\ z.stopWrite = x.stopWrite /\ z.stopRead = x.stopRead
      /\ z.answers = x.answers /\ z.N = x.N /\ z.outN = x.outN /\ z.wire = x.wire
      /\ z.toT = x.toT /\ z.toB = x.toB /\ z.listening = x.listening /\ z.opening = x.opening /\ z.fault = x.fault
  BY <1>b, <1>2 DEF StartStreamInitiation, NegotiateStream, Post, Typed, Fields
<1> HIDE DEF Fields
<1>5. Typed(z)
  BY <1>2, <1>4 DEF Typed
<1>6. SocketFits(z)
  BY <1>2, <1>4 DEF SocketFits
<1>7. TubeFits(z)
  BY <1>2, <1>3, <1>4 DEF TubeFits
<1>8. Blocks(z)
  BY <1>2, <1>3, <1>4 DEF Blocks
<1>9. InTime(z, "recipient")
  BY <1>4 DEF InTime
<1>10. Steady(x, z) /\ Quiet(x, z)
  BY <1>3, <1>4 DEF Steady, Quiet, Closed
<1>11. Local(z, "recipient") /\ Between(z, "recipient", y)
  BY <1>a, <1>2, <1>4, <1>5, <1>6, <1>7, <1>8, <1>9, <1>10, SteadyKeeps, PeerIs DEF Fits
<1>12. toI \o z.post = <<"si">>
  BY <1>3, <1>4, MailIs
<1>13. Agreed(z, y, <<"si">>, toR)
  BY <1>1, <1>2, <1>3, <1>4, MailIs DEF Agreed
<1> QED
  BY <1>a, <1>1, <1>11, <1>12, <1>13, HandledKeeps, PeerIs DEF AgreedAt

\* _channel_io_in of the listener, new_connection_cb
LEMMA NewConnectionKeeps ==
    ASSUME Good, Running, NewConnection
    PROVE  Good' /\ Running'
<1>a. PICK x, y, toI, toR : /\ x = side["recipient"] /\ y = side["initiator"]
                            /\ toI = mail["initiator"] /\ toR = mail["recipient"]
  OBVIOUS
<1>1. /\ x.listening /\ x.N = "none" /\ y.N # "none"
      /\ \/ Handled("recipient", SetTransport(x))
         \/ scenario.breaks /\ Handled("recipient", [x EXCEPT !.N = "refused"])
  BY <1>a DEF NewConnection, KnownAddress
<1>2. /\ Agreed(x, y, toI, toR) /\ Fits(x)
      /\ Typed(x) /\ SocketFits(x) /\ TubeFits(x) /\ Blocks(x) /\ InTime(x, "recipient") /\ x.fault = "none" /\ x.post = <<>>
  BY <1>a, BothAre
<1>3. x.B = "initiating" /\ x.onB /\ x.toT /\ x.outN = <<>>
  BY <1>1, <1>2 DEF SocketFits, TubeFits
<1>4. CASE Handled("recipient", SetTransport(x))
  <2>1. PICK z : z = SetTransport(x)
    OBVIOUS
  <2>2. /\ DOMAIN z = Fields /\ z.N = "connected" /\ z.B = "open" /\ z.toB = TRUE /\ z.onT = TRUE /\ z.stopT = FALSE
        /\ z.post = x.post /\ z.program = x.program /\ z.T = x.T /\ z.asking = x.asking
        /\ z.tube = x.tube /\ z.sent = x.sent /\ z.in = x.in /\ z.got = x.got /\ z.outT = x.outT
        /\ z.onB = x.onB /\ z.stopWrite = x.stopWrite /\ z.stopRead = x.stopRead
        /\ z.answers = x.answers /\ z.outN = x.outN /\ z.wire = x.wire
        /\ z.toT = x.toT /\ z.listening = x.listening /\ z.opening = x.opening /\ z.fault = x.fault
    BY <1>2, <1>3, <2>1 DEF SetTransport, AddTransport, Typed, Fields
  <2> HIDE DEF Fields
  <2>3. Typed(z)
    BY <1>2, <2>2 DEF Typed
  <2>4. SocketFits(z) /\ TubeFits(z)
    BY <1>2, <1>3, <2>2 DEF SocketFits, TubeFits, Early
  <2>5. Blocks(z)
    BY <1>2, <1>3, <2>2 DEF Blocks, Typed, Early, TubeFits
  <2>6. InTime(z, "recipient")
    BY <1>2, <1>3, <2>2 DEF InTime
  <2>7. Steady(x, z) /\ Quiet(x, z)
    BY <1>3, <2>2 DEF Steady, Quiet, Closed
  <2>8. Local(z, "recipient") /\ Between(z, "recipient", y)
    BY <1>a, <1>2, <2>2, <2>3, <2>4, <2>5, <2>6, <2>7, SteadyKeeps, PeerIs DEF Fits
  <2>9. Agreed(z, y, toI, toR) /\ toI \o z.post = toI
    BY <1>1, <1>2, <1>3, <2>2, MailIs DEF Agreed
  <2> QED
    BY <1>a, <1>4, <2>1, <2>8, <2>9, HandledKeeps, PeerIs DEF AgreedAt
<1>5. CASE scenario.breaks /\ Handled("recipient", [x EXCEPT !.N = "refused"])
  <2>1. PICK z : z = [x EXCEPT !.N = "refused"]
    OBVIOUS
  <2>2. /\ DOMAIN z = Fields /\ z.N = "refused" /\ z.B = x.B /\ z.toB = x.toB /\ z.onT = x.onT /\ z.stopT = x.stopT
        /\ z.post = x.post /\ z.program = x.program /\ z.T = x.T /\ z.asking = x.asking
        /\ z.tube = x.tube /\ z.sent = x.sent /\ z.in = x.in /\ z.got = x.got /\ z.outT = x.outT
        /\ z.onB = x.onB /\ z.stopWrite = x.stopWrite /\ z.stopRead = x.stopRead
        /\ z.answers = x.answers /\ z.outN = x.outN /\ z.wire = x.wire
        /\ z.toT = x.toT /\ z.listening = x.listening /\ z.opening = x.opening /\ z.fault = x.fault
    BY <1>2, <2>1 DEF Typed, Fields
  <2> HIDE DEF Fields
  <2>3. Typed(z)
    BY <1>2, <2>2 DEF Typed
  <2>4. SocketFits(z) /\ TubeFits(z) /\ Blocks(z)
    BY <1>1, <1>2, <1>3, <2>2 DEF SocketFits, TubeFits, Blocks
  <2>6. InTime(z, "recipient")
    BY <1>2, <2>2 DEF InTime
  <2>7. Steady(x, z) /\ ~OnlyLeaves("recipient") /\ ~OnlyLeaves("initiator")
    BY <1>5, <2>2, BothAre DEF Steady
  <2>8. Local(z, "recipient") /\ Between(z, "recipient", y)
    BY <1>a, <1>2, <2>2, <2>3, <2>4, <2>6, <2>7, SteadyKeeps, PeerIs DEF Fits
  <2>9. Agreed(z, y, toI, toR) /\ toI \o z.post = toI
    BY <1>1, <1>2, <1>3, <2>2, MailIs DEF Agreed
  <2> QED
    BY <1>a, <1>5, <2>1, <2>8, <2>9, HandledKeeps, PeerIs DEF AgreedAt
<1> QED
  BY <1>1, <1>4, <1>5

\* parse_oob_iq_result
LEMMA OobResultKeeps ==
    ASSUME Good, Running, OobResult
    PROVE  Good' /\ Running'
<1>a. PICK x, y, toI, toR : /\ x = side["recipient"] /\ y = side["initiator"]
                            /\ toI = mail["initiator"] /\ toR = mail["recipient"]
  OBVIOUS
<1>1. toR # <<>> /\ Head(toR) = "oob_result" /\ HandledStanza("recipient", x)
  BY <1>a DEF OobResult, Stanza
<1>2. Agreed(x, y, toI, toR) /\ x.post = <<>>
  BY <1>a, BothAre
<1>3. toR = <<"oob_result">>
  BY <1>1, <1>2, MailIs DEF Agreed
<1>4. Agreed(x, y, toI, <<>>) /\ toI \o x.post = toI /\ Tail(toR) = <<>>
  BY <1>2, <1>3, MailIs DEF Agreed
<1>5. Local(x, "recipient") /\ Between(x, "recipient", y)
  BY <1>a, GoodIs, PeerIs
<1> QED
  BY <1>a, <1>1, <1>4, <1>5, StanzaKeeps, PeerIs DEF AgreedAt

\* si_request_cb, of a tube that has been closed: the bytestream is declined.
LEMMA DeclinedIs ==
    ASSUME NEW x, Typed(x), x.B = "none", x.N = "none", x.outN = <<>>, ~x.answers, ~x.onB, x.post = <<>>,
           NEW z, z = CloseBytestream(ChooseMethod(x))
    PROVE  /\ Typed(z) /\ Rest(x, z) /\ Blocked(x, z) /\ Socket(x, z) /\ z.fault = x.fault
           /\ z.B = "closed" /\ z.N = x.N /\ z.outN = x.outN /\ z.listening = FALSE /\ z.post = <<"si_no">>
<1>1. PICK v : v = [Post(ChooseMethod(x), "si_no") EXCEPT !.B = "closing"]
  OBVIOUS
<1>2. /\ DOMAIN v = Fields /\ Rest(x, v) /\ Blocked(x, v) /\ Socket(x, v) /\ v.fault = x.fault
      /\ v.B = "closing" /\ v.N = x.N /\ v.outN = x.outN /\ v.listening = x.listening
      /\ v.post = Append(<<>>, "si_no")
  BY <1>1 DEF Typed, Fields, Post, ChooseMethod, Rest, Blocked, Socket
<1>3. ChooseMethod(x).B = "local_pending"
  BY DEF Typed, Fields, ChooseMethod
<1>4. z = BytestreamClosed(v)
  BY <1>1, <1>2, <1>3 DEF CloseBytestream
<1>5. Typed(v)
  BY <1>2 DEF Typed, Rest, Blocked, Socket
<1>6. Ended(v, z)
  BY <1>4, <1>5, BytestreamClosedIs
<1>7. Append(<<>>, "si_no") = <<"si_no">>
  OBVIOUS
<1>8. /\ Typed(z) /\ Rest(v, z) /\ Blocked(v, z) /\ Socket(v, z) /\ z.fault = v.fault
      /\ z.B = "closed" /\ z.N = v.N /\ z.outN = v.outN /\ z.listening = FALSE /\ z.post = v.post
  BY <1>2, <1>6 DEF Ended, Unlinked, Rest
<1> QED
  BY <1>2, <1>7, <1>8 DEF Rest, Blocked, Socket

\* si_request_cb
LEMMA SiRequestKeeps ==
    ASSUME Good, Running, SiRequest
    PROVE  (Good' /\ Running') \/ (Promised' /\ ~Running')
<1>a. PICK x, y, toI, toR : /\ x = side["initiator"] /\ y = side["recipient"]
                            /\ toI = mail["initiator"] /\ toR = mail["recipient"]
  OBVIOUS
<1>1. toI # <<>> /\ Head(toI) = "si"
  BY <1>a DEF SiRequest, ParsedRequest, Stanza
<1>b. PICK z \in AddBytestream(ChooseMethod(x)) : HandledStanza("initiator", z)
  BY <1>a DEF SiRequest
<1>2. /\ Agreed(y, x, toI, toR)
      /\ Typed(x) /\ SocketFits(x) /\ TubeFits(x) /\ Blocks(x) /\ x.fault = "none" /\ x.post = <<>>
  BY <1>a, BothAre
<1>3. toI = <<"si">> /\ toR = <<>>
  BY <1>1, <1>2, MailIs DEF Agreed
<1>4. /\ x.B = "none" /\ x.T = "none" /\ x.program = "none" /\ ~x.onB /\ ~x.answers /\ ~x.opening /\ y.asking
      /\ x.N = "none" /\ x.outN = <<>> /\ ~x.toT /\ ~x.listening
  BY <1>2, <1>3, MailIs DEF Agreed, SocketFits, TubeFits
<1>5. Tail(toI) = <<>>
  BY <1>3, MailIs
<1>6. CASE x.tube = "closed"
  <2>1. z = CloseBytestream(ChooseMethod(x))
    <3>1. ChooseMethod(x).tube = x.tube
      BY <1>2 DEF Typed, Fields, ChooseMethod
    <3> QED
      BY <1>6, <1>b, <3>1 DEF AddBytestream
  <2>2. /\ Typed(z) /\ Rest(x, z) /\ Blocked(x, z) /\ Socket(x, z) /\ z.fault = x.fault
        /\ z.B = "closed" /\ z.N = x.N /\ z.outN = x.outN /\ z.listening = FALSE /\ z.post = <<"si_no">>
    BY <1>2, <1>4, <2>1, DeclinedIs
  <2>3. SocketFits(z) /\ TubeFits(z) /\ Blocks(z)
    BY <1>2, <1>4, <2>2 DEF SocketFits, TubeFits, Blocks, Rest, Blocked, Socket, Early
  <2>4. InTime(z, "initiator")
    BY <1>4, <2>2 DEF InTime, Socket
  <2>5. Steady(x, z) /\ ~OnlyLeaves("recipient") /\ ~OnlyLeaves("initiator")
    <3>1. Steady(x, z)
      BY <1>4, <2>2 DEF Steady, Rest, Socket, Closed
    <3>2. ~OnlyLeaves("recipient") /\ ~OnlyLeaves("initiator")
      BY <1>6, <1>a, BothAre
    <3> QED
      BY <3>1, <3>2
  <2>6. Local(z, "initiator") /\ Between(z, "initiator", y)
    BY <1>a, <1>2, <2>2, <2>3, <2>4, <2>5, SteadyKeeps, PeerIs DEF Fits
  <2>7. toR \o z.post = <<"si_no">>
    BY <1>3, <2>2, MailIs
  <2>8. Agreed(y, z, <<>>, <<"si_no">>)
    BY <1>2, <1>3, <1>4, <1>6, <2>2, MailIs DEF Agreed, Rest, Socket
  <2> QED
    BY <1>a, <1>b, <1>5, <2>6, <2>7, <2>8, StanzaKeeps, PeerIs DEF AgreedAt
<1>7. CASE x.tube # "closed"
  <2>1. PICK v : v = [ChooseMethod(x) EXCEPT !.stopT = TRUE, !.id = "live", !.toT = TRUE, !.onB = TRUE]
    OBVIOUS
  <2>2. /\ DOMAIN v = Fields /\ v.stopT = TRUE /\ v.toT = TRUE /\ v.onB = TRUE /\ v.B = "local_pending"
        /\ v.tube = x.tube /\ v.program = x.program /\ v.sent = x.sent /\ v.in = x.in /\ v.got = x.got
        /\ v.T = x.T /\ v.outT = x.outT /\ v.onT = x.onT /\ v.stopWrite = x.stopWrite /\ v.stopRead = x.stopRead
        /\ v.answers = x.answers /\ v.N = x.N /\ v.outN = x.outN /\ v.wire = x.wire /\ v.toB = x.toB
        /\ v.asking = x.asking /\ v.listening = x.listening /\ v.opening = x.opening /\ v.post = <<>>
        /\ v.fault = "none" /\ ChooseMethod(x).tube = x.tube
    BY <1>2, <2>1 DEF Typed, Fields, ChooseMethod
  <2>3. PICK w \in ConnectToProgram(ChooseMethod(x)) : z = AcceptBytestream(w)
    BY <1>b, <1>7, <2>2 DEF AddBytestream
  <2>4. \/ scenario.socket = "tcp" /\ w = [v EXCEPT !.T = "connecting"]
        \/ scenario.socket # "tcp" /\ w = [v EXCEPT !.T = "connected", !.program = "open"]
        \/ scenario.socket # "tcp" /\ scenario.refuses /\ w = Fault(v, "connect")
    BY <2>1, <2>3 DEF ConnectToProgram, ConnectTcp, ConnectUnix
  <2>5. z = [w EXCEPT !.B = "accepted", !.post = Append(w.post, "si_ok")]
    <3>1. DOMAIN w = Fields
      BY <2>2, <2>4 DEF Fault
    <3> QED
      BY <2>3, <3>1 DEF AcceptBytestream, Post, Fields
  <2> DEFINE Moved ==
               /\ DOMAIN z = Fields /\ z.stopT = TRUE /\ z.toT = TRUE /\ z.onB = TRUE /\ z.B = "accepted"
               /\ z.tube = x.tube /\ z.sent = x.sent /\ z.in = x.in /\ z.got = x.got
               /\ z.outT = x.outT /\ z.onT = x.onT /\ z.stopWrite = x.stopWrite /\ z.stopRead = x.stopRead
               /\ z.answers = x.answers /\ z.N = x.N /\ z.outN = x.outN /\ z.wire = x.wire /\ z.toB = x.toB
               /\ z.asking = x.asking /\ z.listening = x.listening /\ z.opening = x.opening
               /\ z.post = Append(<<>>, "si_ok")
  <2>6. CASE scenario.socket # "tcp" /\ scenario.refuses /\ w = Fault(v, "connect")
    <3>1. Moved /\ z.T = x.T /\ z.fault = "connect"
      BY <2>2, <2>5, <2>6 DEF Fault, Fields
    <3>2. scenario.socket = "unix"
      BY <2>6, StreamRelayAssumption DEF Good
    <3>3. FlowsAt(x)
      BY <1>a, GoodFlows, PeerIs
    <3>4. PICK q : q = [z EXCEPT !.post = <<>>]
      OBVIOUS
    <3>5. /\ q.got = x.got /\ q.sent = x.sent /\ q.T = x.T /\ q.fault = "connect" /\ q.outT = x.outT
          /\ q.outN = x.outN /\ q.N = x.N /\ q.stopRead = x.stopRead /\ q.stopT = TRUE
      BY <3>1, <3>4 DEF Fields
    <3>6. /\ side'["initiator"] = q /\ side'["recipient"] = y /\ scenario' = scenario
      BY <1>a, <1>b, <3>4, PeerIs DEF HandledStanza, Good
    <3>7. FlowsAt(q) /\ Excused(q, "initiator")
      BY <1>4, <2>6, <3>2, <3>3, <3>5 DEF FlowsAt, Excused
    <3> QED
      BY <1>a, <3>5, <3>6, <3>7, StoppedKeeps, PeerIs
  <2>7. ASSUME Moved, z.fault = "none",
               \/ scenario.socket = "tcp" /\ z.T = "connecting" /\ z.program = x.program
               \/ scenario.socket # "tcp" /\ z.T = "connected" /\ z.program = "open"
        PROVE  Good' /\ Running'
    <3> HIDE DEF Fields
    <3>1. Typed(z)
      BY <1>2, <2>7 DEF Typed
    <3>2. SocketFits(z)
      BY <1>2, <1>4, <2>7 DEF SocketFits
    <3>3. TubeFits(z)
      BY <1>2, <1>4, <2>7 DEF TubeFits, Early
    <3>4. Blocks(z)
      BY <1>2, <1>4, <2>7 DEF Blocks, Early
    <3>5. InTime(z, "initiator")
      BY <2>7 DEF InTime
    <3>6. Steady(x, z) /\ Quiet(x, z)
      BY <1>4, <2>7 DEF Steady, Quiet, Closed
    <3>7. Local(z, "initiator") /\ Between(z, "initiator", y)
      BY <1>a, <2>7, <3>1, <3>2, <3>3, <3>4, <3>5, <3>6, SteadyKeeps, PeerIs DEF Fits
    <3>8. toR \o z.post = <<"si_ok">>
      BY <1>3, <2>7, MailIs
    <3>9. Agreed(y, z, <<>>, <<"si_ok">>)
      BY <1>2, <1>3, <1>4, <2>7, MailIs DEF Agreed
    <3> QED
      BY <1>a, <1>b, <1>5, <3>7, <3>8, <3>9, StanzaKeeps, PeerIs DEF AgreedAt
  <2>8. CASE scenario.socket = "tcp" /\ w = [v EXCEPT !.T = "connecting"]
    <3>1. Moved /\ z.T = "connecting" /\ z.program = x.program /\ z.fault = "none"
      BY <2>2, <2>5, <2>8 DEF Fields
    <3> QED
      BY <2>7, <2>8, <3>1
  <2>9. CASE scenario.socket # "tcp" /\ w = [v EXCEPT !.T = "connected", !.program = "open"]
    <3>1. Moved /\ z.T = "connected" /\ z.program = "open" /\ z.fault = "none"
      BY <2>2, <2>5, <2>9 DEF Fields
    <3> QED
      BY <2>7, <2>9, <3>1
  <2> QED
    BY <2>4, <2>6, <2>8, <2>9
<1> QED
  BY <1>6, <1>7

\* A callback that uses what was freed when the tube was closed.
LEMMA FreedKeeps ==
    ASSUME Good, Running, NEW s \in Sides, NEW x, x = side[s], x.tube = "closed",
           NEW w, Handled(s, Fault(w, "freed")) \/ HandledStanza(s, Fault(w, "freed")),
           DOMAIN w = Fields, w.got = x.got, w.sent = x.sent, w.T = x.T, w.tube = x.tube,
           w.outT = x.outT, w.outN = x.outN, w.onB = x.onB, w.N = x.N, w.B = x.B,
           w.stopRead = x.stopRead, w.stopT = x.stopT
    PROVE  Promised' /\ ~Running'
<1>1. PICK q : q = [Fault(w, "freed") EXCEPT !.post = <<>>]
  OBVIOUS
<1>2. /\ q.got = x.got /\ q.sent = x.sent /\ q.T = x.T /\ q.fault = "freed" /\ q.tube = x.tube
      /\ q.outT = x.outT /\ q.outN = x.outN /\ q.onB = x.onB /\ q.N = x.N /\ q.B = x.B
      /\ q.stopRead = x.stopRead /\ q.stopT = x.stopT
  BY <1>1 DEF Fields, Fault
<1>3. side'[s] = q /\ side'[Peer(s)] = side[Peer(s)] /\ scenario' = scenario
  BY <1>1, PeerIs DEF Handled, HandledStanza, Good
<1>4. FlowsAt(q)
  BY <1>2, GoodFlows DEF FlowsAt
<1>5. Excused(q, s)
  BY <1>2 DEF Excused
<1> QED
  BY <1>2, <1>3, <1>4, <1>5, StoppedKeeps

\* si_request_sent_cb, the answer being an error
LEMMA SiRefusedKeeps ==
    ASSUME Good, Running, SiRefused
    PROVE  (Good' /\ Running') \/ (Promised' /\ ~Running')
<1>a. PICK x, y, toI, toR : /\ x = side["recipient"] /\ y = side["initiator"]
                            /\ toI = mail["initiator"] /\ toR = mail["recipient"]
  OBVIOUS
<1>b. PICK z : z = FireConnectionClosed([DropT(x) EXCEPT !.asking = FALSE])
  OBVIOUS
<1>1. toR # <<>> /\ Head(toR) = "si_no" /\ HandledStanza("recipient", IF x.tube = "closed" THEN Fault(x, "freed") ELSE z)
  BY <1>a, <1>b DEF SiRefused, Stanza, Negotiated
<1>2. /\ Agreed(x, y, toI, toR)
      /\ Typed(x) /\ SocketFits(x) /\ TubeFits(x) /\ Blocks(x) /\ x.fault = "none" /\ x.post = <<>>
  BY <1>a, BothAre
<1>3. toR = <<"si_no">>
  BY <1>1, <1>2, MailIs DEF Agreed
<1>4. /\ x.asking /\ x.B = "none" /\ x.T = "connected" /\ y.tube = "closed" /\ toI = <<>> /\ y.B # "none"
      /\ x.program # "none" /\ ~x.onB /\ x.N = "none"
  BY <1>2, <1>3, MailIs DEF Agreed, SocketFits
<1>5. CASE x.tube = "closed"
  <2>1. Promised' /\ ~Running'
    BY <1>a, <1>1, <1>2, <1>4, <1>5, FreedKeeps, PeerIs DEF Typed
  <2> QED
    BY <2>1
<1>6. CASE x.tube # "closed"
  <2>1. PICK v : v = [DropT(x) EXCEPT !.asking = FALSE]
    OBVIOUS
  <2>2. /\ DOMAIN v = Fields /\ v.T = "disconnected" /\ v.outT = <<>> /\ v.asking = FALSE
        /\ v.tube = x.tube /\ v.program = x.program /\ v.sent = x.sent /\ v.in = x.in /\ v.got = x.got
        /\ v.stopT = x.stopT /\ v.onT = x.onT /\ v.B = x.B /\ v.onB = x.onB
        /\ v.stopWrite = x.stopWrite /\ v.stopRead = x.stopRead
        /\ v.answers = x.answers /\ v.N = x.N /\ v.outN = x.outN /\ v.wire = x.wire /\ v.toT = x.toT
        /\ v.toB = x.toB /\ v.listening = x.listening /\ v.opening = x.opening /\ v.post = <<>> /\ v.fault = "none"
    BY <1>2, <2>1 DEF Typed, Fields, DropT
  <2>3. z = v \/ z = [v EXCEPT !.id = "fired"]
    BY <1>b, <2>1 DEF FireConnectionClosed
  <2>4. /\ DOMAIN z = Fields /\ z.T = "disconnected" /\ z.outT = <<>> /\ z.asking = FALSE
        /\ z.tube = x.tube /\ z.program = x.program /\ z.sent = x.sent /\ z.in = x.in /\ z.got = x.got
        /\ z.stopT = x.stopT /\ z.onT = x.onT /\ z.B = x.B /\ z.onB = x.onB
        /\ z.stopWrite = x.stopWrite /\ z.stopRead = x.stopRead
        /\ z.answers = x.answers /\ z.N = x.N /\ z.outN = x.outN /\ z.wire = x.wire /\ z.toT = x.toT
        /\ z.toB = x.toB /\ z.listening = x.listening /\ z.opening = x.opening /\ z.post = <<>> /\ z.fault = "none"
    BY <2>2, <2>3 DEF Fields
  <2> HIDE DEF Fields
  <2>5. Typed(z)
    BY <1>2, <2>4 DEF Typed
  <2>6. SocketFits(z) /\ TubeFits(z)
    BY <1>2, <1>4, <2>4 DEF SocketFits, TubeFits
  <2>7. Blocks(z)
    <3>1. Len(z.outT) <= 1 /\ Len(z.outN) <= 1
      BY <1>2, <2>4, FollowsFew DEF Blocks
    <3> QED
      BY <1>2, <1>4, <2>4, <3>1 DEF Blocks, Early
  <2>8. InTime(z, "recipient")
    BY <1>4, <2>4 DEF InTime
  <2>9. Steady(x, z) /\ ~OnlyLeaves("recipient") /\ ~OnlyLeaves("initiator")
    <3>1. x.outT = <<>>
      BY <1>2, <1>4 DEF TubeFits, Early
    <3>2. Steady(x, z)
      BY <1>4, <2>4, <3>1 DEF Steady
    <3>3. ~OnlyLeaves("recipient") /\ ~OnlyLeaves("initiator")
      BY <1>a, <1>4, BothAre
    <3> QED
      BY <3>2, <3>3
  <2>10. Local(z, "recipient") /\ Between(z, "recipient", y)
    BY <1>a, <2>4, <2>5, <2>6, <2>7, <2>8, <2>9, SteadyKeeps, PeerIs DEF Fits
  <2>11. toI \o z.post = <<>> /\ Tail(toR) = <<>>
    BY <1>3, <1>4, <2>4, MailIs
  <2>12. Agreed(z, y, <<>>, <<>>)
    BY <1>2, <1>3, <1>4, <2>4, MailIs DEF Agreed
  <2> QED
    BY <1>a, <1>1, <1>6, <2>10, <2>11, <2>12, StanzaKeeps, PeerIs DEF AgreedAt
<1> QED
  BY <1>5, <1>6

\* si_request_sent_cb, the request being accepted
LEMMA SiAcceptedKeeps ==
    ASSUME Good, Running, SiAccepted
    PROVE  (Good' /\ Running') \/ (Promised' /\ ~Running')
<1>a. PICK x, y, toI, toR : /\ x = side["recipient"] /\ y = side["initiator"]
                            /\ toI = mail["initiator"] /\ toR = mail["recipient"]
  OBVIOUS
<1>b. PICK w : w = [x EXCEPT !.asking = FALSE]
  OBVIOUS
<1>1. toR # <<>> /\ Head(toR) = "si_ok"
  BY <1>a DEF SiAccepted, Stanza
<1>c. PICK v \in Initiate(w) :
          HandledStanza("recipient", Negotiated(w, IF v.B = "closed" THEN FireConnectionClosed(DropT(v))
                                                   ELSE [v EXCEPT !.toT = TRUE, !.onB = TRUE]))
  BY <1>a, <1>b DEF SiAccepted
<1>2. /\ Agreed(x, y, toI, toR) /\ SocketFits(y) /\ Typed(y)
      /\ Typed(x) /\ SocketFits(x) /\ TubeFits(x) /\ Blocks(x) /\ x.fault = "none" /\ x.post = <<>>
  BY <1>a, BothAre
<1>3. toR = <<"si_ok">>
  BY <1>1, <1>2, MailIs DEF Agreed
<1>4. /\ x.asking /\ x.B = "none" /\ x.T = "connected" /\ toI = <<>> /\ y.B \in {"accepted", "closed"} /\ y.N = "none"
      /\ x.program # "none" /\ ~x.onB /\ ~x.toT /\ ~x.toB /\ ~x.onT /\ x.N = "none" /\ ~y.answers /\ ~y.opening
      /\ x.outT = <<>> /\ x.outN = <<>> /\ ~x.listening
  BY <1>2, <1>3, MailIs DEF Agreed, SocketFits, TubeFits, Typed, Early
<1>5. /\ DOMAIN w = Fields /\ w.asking = FALSE /\ w.T = x.T /\ w.outT = x.outT
      /\ w.tube = x.tube /\ w.program = x.program /\ w.sent = x.sent /\ w.in = x.in /\ w.got = x.got
      /\ w.stopT = x.stopT /\ w.onT = x.onT /\ w.B = x.B /\ w.onB = x.onB
      /\ w.stopWrite = x.stopWrite /\ w.stopRead = x.stopRead
      /\ w.answers = x.answers /\ w.N = x.N /\ w.outN = x.outN /\ w.wire = x.wire /\ w.toT = x.toT
      /\ w.toB = x.toB /\ w.listening = x.listening /\ w.opening = x.opening /\ w.post = <<>> /\ w.fault = "none"
  BY <1>b, <1>2 DEF Typed, Fields
<1>6. CASE x.tube = "closed"
  <2>1. HandledStanza("recipient", Fault(w, "freed"))
    BY <1>c, <1>5, <1>6 DEF Negotiated
  <2>2. Promised' /\ ~Running'
    BY <1>a, <1>4, <1>5, <1>6, <2>1, FreedKeeps, PeerIs
  <2> QED
    BY <2>2
<1>7. ASSUME x.tube # "closed", scenario.breaks, v = [w EXCEPT !.B = "closed"]
      PROVE  Good' /\ Running'
  <2>1. PICK z : z = FireConnectionClosed(DropT(v))
    OBVIOUS
  <2>2. HandledStanza("recipient", z) /\ Typed(v)
    <3>1. v.B = "closed" /\ Typed(w)
      BY <1>2, <1>5, <1>7 DEF Typed, Fields
    <3>2. HandledStanza("recipient", z)
      BY <1>c, <1>5, <1>7, <2>1, <3>1 DEF Negotiated
    <3>3. Typed(v)
      BY <1>7, <3>1 DEF Typed, Fields
    <3> QED
      BY <3>2, <3>3
  <2>3. Dropped(v, z)
    BY <2>1, <2>2, DropIs
  <2>4. /\ z.T = "disconnected" /\ z.outT = <<>> /\ z.asking = FALSE /\ Typed(z)
        /\ z.tube = x.tube /\ z.program = x.program /\ z.sent = x.sent /\ z.in = x.in /\ z.got = x.got
        /\ z.stopT = x.stopT /\ z.onT = x.onT /\ z.B = "closed" /\ z.onB = x.onB
        /\ z.stopWrite = x.stopWrite /\ z.stopRead = x.stopRead
        /\ z.answers = x.answers /\ z.N = x.N /\ z.outN = x.outN /\ z.wire = x.wire /\ z.toT = x.toT
        /\ z.toB = x.toB /\ z.listening = x.listening /\ z.opening = x.opening /\ z.post = <<>> /\ z.fault = "none"
    BY <1>5, <1>7, <2>3 DEF Dropped, Rest, Blocked, Link, Fields
  <2>5. SocketFits(z) /\ TubeFits(z)
    BY <1>2, <1>4, <2>4 DEF SocketFits, TubeFits, Early
  <2>6. Blocks(z)
    BY <1>2, <1>4, <2>4 DEF Blocks, Early
  <2>7. InTime(z, "recipient")
    BY <1>4, <2>4 DEF InTime
  <2>8. Steady(x, z) /\ ~OnlyLeaves("recipient") /\ ~OnlyLeaves("initiator")
    <3>1. Steady(x, z)
      BY <1>4, <2>4 DEF Steady, Closed
    <3> QED
      BY <1>7, <3>1, BothAre
  <2>9. Local(z, "recipient") /\ Between(z, "recipient", y)
    BY <1>a, <2>4, <2>5, <2>6, <2>7, <2>8, SteadyKeeps, PeerIs DEF Fits
  <2>10. toI \o z.post = <<>> /\ Tail(toR) = <<>>
    BY <1>3, <1>4, <2>4, MailIs
  <2>11. Agreed(z, y, <<>>, <<>>)
    BY <1>2, <1>3, <1>4, <2>4, MailIs DEF Agreed
  <2> QED
    BY <1>a, <2>2, <2>9, <2>10, <2>11, StanzaKeeps, PeerIs DEF AgreedAt
<1>8. ASSUME x.tube # "closed", v = Post([w EXCEPT !.B = "initiating", !.listening = TRUE], "oob")
      PROVE  Good' /\ Running'
  <2>1. PICK z : z = [v EXCEPT !.toT = TRUE, !.onB = TRUE]
    OBVIOUS
  <2>2. /\ DOMAIN v = Fields /\ v.B = "initiating" /\ v.listening = TRUE /\ v.post = Append(<<>>, "oob")
        /\ v.asking = FALSE /\ v.T = x.T /\ v.outT = x.outT
        /\ v.tube = x.tube /\ v.program = x.program /\ v.sent = x.sent /\ v.in = x.in /\ v.got = x.got
        /\ v.stopT = x.stopT /\ v.onT = x.onT /\ v.onB = x.onB
        /\ v.stopWrite = x.stopWrite /\ v.stopRead = x.stopRead
        /\ v.answers = x.answers /\ v.N = x.N /\ v.outN = x.outN /\ v.wire = x.wire /\ v.toT = x.toT
        /\ v.toB = x.toB /\ v.opening = x.opening /\ v.fault = "none"
    BY <1>5, <1>8 DEF Post, Fields
  <2>3. HandledStanza("recipient", z)
    BY <1>c, <1>5, <1>8, <2>1, <2>2 DEF Negotiated
  <2>4. /\ DOMAIN z = Fields /\ z.B = "initiating" /\ z.listening = TRUE /\ z.post = Append(<<>>, "oob")
        /\ z.asking = FALSE /\ z.T = x.T /\ z.outT = x.outT /\ z.toT = TRUE /\ z.onB = TRUE
        /\ z.tube = x.tube /\ z.program = x.program /\ z.sent = x.sent /\ z.in = x.in /\ z.got = x.got
        /\ z.stopT = x.stopT /\ z.onT = x.onT
        /\ z.stopWrite = x.stopWrite /\ z.stopRead = x.stopRead
        /\ z.answers = x.answers /\ z.N = x.N /\ z.outN = x.outN /\ z.wire = x.wire
        /\ z.toB = x.toB /\ z.opening = x.opening /\ z.fault = "none"
    BY <2>1, <2>2 DEF Fields
  <2> HIDE DEF Fields
  <2>5. Typed(z)
    BY <1>2, <2>4 DEF Typed
  <2>6. SocketFits(z) /\ TubeFits(z)
    BY <1>2, <1>4, <2>4 DEF SocketFits, TubeFits, Early
  <2>7. Blocks(z)
    BY <1>2, <1>4, <2>4 DEF Blocks, Early
  <2>8. InTime(z, "recipient")
    BY <1>4, <2>4 DEF InTime
  <2>9. Steady(x, z) /\ Quiet(x, z)
    BY <1>4, <2>4 DEF Steady, Quiet, Closed
  <2>10. Local(z, "recipient") /\ Between(z, "recipient", y)
    BY <1>a, <2>4, <2>5, <2>6, <2>7, <2>8, <2>9, SteadyKeeps, PeerIs DEF Fits
  <2>11. toI \o z.post = <<"oob">> /\ Tail(toR) = <<>>
    BY <1>3, <1>4, <2>4, MailIs
  <2>12. Agreed(z, y, <<"oob">>, <<>>)
    BY <1>2, <1>3, <1>4, <2>4, MailIs DEF Agreed
  <2> QED
    BY <1>a, <2>3, <2>10, <2>11, <2>12, StanzaKeeps, PeerIs DEF AgreedAt
<1>9. v = Post([w EXCEPT !.B = "initiating", !.listening = TRUE], "oob")
      \/ (scenario.breaks /\ v = [w EXCEPT !.B = "closed"])
  BY <1>c DEF Initiate
<1> QED
  BY <1>6, <1>7, <1>8, <1>9

\* parse_oob_init_iq
LEMMA OobInitKeeps ==
    ASSUME Good, Running, OobInit
    PROVE  Good' /\ Running'
<1>a. PICK x, y, toI, toR : /\ x = side["initiator"] /\ y = side["recipient"]
                            /\ toI = mail["initiator"] /\ toR = mail["recipient"]
  OBVIOUS
<1>b. PICK z : z = IF x.B = "accepted" THEN [x EXCEPT !.answers = TRUE, !.opening = TRUE] ELSE x
  OBVIOUS
<1>1. toI # <<>> /\ Head(toI) = "oob" /\ HandledStanza("initiator", z)
  BY <1>a, <1>b DEF OobInit, Stanza
<1>2. /\ Agreed(y, x, toI, toR) /\ Typed(x) /\ SocketFits(x) /\ TubeFits(x) /\ Blocks(x)
      /\ InTime(x, "initiator") /\ x.fault = "none" /\ x.post = <<>>
  BY <1>a, BothAre
<1>3. toI = <<"oob">>
  BY <1>1, <1>2, MailIs DEF Agreed
<1>4. x.B \in {"accepted", "closed"} /\ y.B # "none" /\ toR = <<>>
  BY <1>2, <1>3, MailIs DEF Agreed
<1>5. /\ DOMAIN z = Fields
      /\ IF x.B = "accepted" THEN z.answers = TRUE /\ z.opening = TRUE
         ELSE z.answers = x.answers /\ z.opening = x.opening
      /\ z.tube = x.tube /\ z.program = x.program /\ z.sent = x.sent /\ z.in = x.in /\ z.got = x.got
      /\ z.onB = x.onB /\ z.wire = x.wire /\ z.asking = x.asking /\ z.fault = x.fault
      /\ Blocked(x, z) /\ Socket(x, z) /\ Link(x, z)
  <2>1. CASE x.B = "accepted"
    BY <1>b, <1>2, <2>1 DEF Typed, Fields, Blocked, Socket, Link
  <2>2. CASE x.B # "accepted"
    BY <1>b, <1>2, <2>2 DEF Typed, Blocked, Socket, Link
  <2> QED
    BY <2>1, <2>2
<1> HIDE DEF Fields
<1>6. Typed(z)
  BY <1>2, <1>5 DEF Typed, Blocked, Socket, Link
<1>7. SocketFits(z) /\ TubeFits(z) /\ Blocks(z) /\ InTime(z, "initiator")
  BY <1>2, <1>5 DEF SocketFits, TubeFits, Blocks, InTime, Blocked, Socket, Link
<1>8. Steady(x, z) /\ Quiet(x, z)
  BY <1>5 DEF Steady, Quiet, Socket, Link
<1>9. Local(z, "initiator") /\ Between(z, "initiator", y)
  BY <1>a, <1>2, <1>5, <1>6, <1>7, <1>8, SteadyKeeps, PeerIs DEF Fits
<1>10. toR \o z.post = <<>> /\ Tail(toI) = <<>>
  BY <1>2, <1>3, <1>4, <1>5, MailIs DEF Link
<1>11. Agreed(y, z, <<>>, <<>>)
  BY <1>2, <1>3, <1>4, <1>5, MailIs DEF Agreed, Socket, Link
<1> QED
  BY <1>a, <1>1, <1>9, <1>10, <1>11, StanzaKeeps, PeerIs DEF AgreedAt

\* opened_cb
LEMMA OpenedKeeps ==
    ASSUME Good, Running, Opened
    PROVE  (Good' /\ Running') \/ (Promised' /\ ~Running')
<1>a. PICK x, y, toI, toR : /\ x = side["initiator"] /\ y = side["recipient"]
                            /\ toI = mail["initiator"] /\ toR = mail["recipient"]
  OBVIOUS
<1>b. PICK w : w = [x EXCEPT !.opening = FALSE]
  OBVIOUS
<1>1. /\ x.opening
      /\ \/ w.B = "closed" /\ Handled("initiator", Fault(w, "freed"))
         \/ /\ w.B # "closed"
            /\ \/ y.listening /\ Handled("initiator", SetTransport(w))
               \/ (scenario.breaks \/ ~y.listening) /\ Handled("initiator", CloseBytestream(w))
               \/ scenario.breaks /\ Handled("initiator", w)
  BY <1>a, <1>b DEF Opened, ConnectToUrl
<1>2. /\ Agreed(y, x, toI, toR) /\ Typed(x) /\ SocketFits(x) /\ TubeFits(x) /\ Blocks(x)
      /\ InTime(x, "initiator") /\ x.fault = "none" /\ x.post = <<>> /\ SocketFits(y) /\ Typed(y)
  BY <1>a, BothAre
<1>3. x.B \in {"accepted", "closed"} /\ x.answers /\ y.B # "none" /\ toI = <<>>
  BY <1>1, <1>2 DEF Agreed
<1>4. /\ DOMAIN w = Fields /\ w.opening = FALSE /\ w.tube = x.tube /\ w.program = x.program /\ w.sent = x.sent
      /\ w.in = x.in /\ w.got = x.got /\ w.onB = x.onB /\ w.wire = x.wire /\ w.asking = x.asking
      /\ w.answers = x.answers /\ w.fault = x.fault /\ Blocked(x, w) /\ Socket(x, w) /\ Link(x, w)
  BY <1>b, <1>2 DEF Typed, Fields, Blocked, Socket, Link
<1>5. Typed(w)
  BY <1>2, <1>4 DEF Typed, Blocked, Socket, Link
<1>c. CASE w.B = "closed"
  <2>1. x.tube = "closed"
    BY <1>1, <1>2, <1>4, <1>c DEF Agreed, Socket, Link
  <2>2. Handled("initiator", Fault(w, "freed"))
    BY <1>1, <1>c
  <2>3. Promised' /\ ~Running'
    BY <1>a, <1>4, <2>1, <2>2, FreedKeeps, PeerIs DEF Blocked, Socket, Link
  <2> QED
    BY <2>3
<1>6. CASE Handled("initiator", w)
  <2>1. SocketFits(w) /\ TubeFits(w) /\ Blocks(w) /\ InTime(w, "initiator")
    BY <1>2, <1>4 DEF SocketFits, TubeFits, Blocks, InTime, Blocked, Socket, Link
  <2>2. Steady(x, w) /\ Quiet(x, w)
    BY <1>4 DEF Steady, Quiet, Socket, Link
  <2>3. Local(w, "initiator") /\ Between(w, "initiator", y)
    BY <1>a, <1>2, <1>4, <1>5, <2>1, <2>2, SteadyKeeps, PeerIs DEF Fits
  <2>4. toR \o w.post = toR
    BY <1>2, <1>4, MailIs DEF Agreed, Link
  <2>5. Agreed(y, w, toI, toR)
    BY <1>2, <1>4 DEF Agreed, Socket, Link
  <2> QED
    BY <1>a, <1>6, <2>3, <2>4, <2>5, HandledKeeps, PeerIs DEF AgreedAt
<1>7. CASE x.B = "accepted" /\ y.listening /\ Handled("initiator", SetTransport(w))
  <2>1. x.onB /\ x.toT /\ x.T # "none" /\ x.N = "none" /\ x.outN = <<>> /\ toR = <<>> /\ x.outT = <<>> /\ ~x.stopWrite
    BY <1>2, <1>3, <1>7 DEF SocketFits, TubeFits, Blocks, Agreed, Early
  <2>2. PICK z : z = SetTransport(w)
    OBVIOUS
  <2>3. /\ DOMAIN z = Fields /\ z.N = "connected" /\ z.B = "open" /\ z.toB = TRUE /\ z.onT = TRUE /\ z.stopT = FALSE
        /\ z.post = w.post /\ z.program = w.program /\ z.T = w.T /\ z.asking = w.asking
        /\ z.tube = w.tube /\ z.sent = w.sent /\ z.in = w.in /\ z.got = w.got /\ z.outT = w.outT
        /\ z.onB = w.onB /\ z.stopWrite = w.stopWrite /\ z.stopRead = w.stopRead
        /\ z.answers = w.answers /\ z.outN = w.outN /\ z.wire = w.wire
        /\ z.toT = w.toT /\ z.listening = w.listening /\ z.opening = w.opening /\ z.fault = w.fault
    BY <1>4, <2>1, <2>2 DEF SetTransport, AddTransport, Fields, Socket
  <2> HIDE DEF Fields
  <2>4. /\ DOMAIN z = Fields /\ z.N = "connected" /\ z.B = "open" /\ z.toB = TRUE /\ z.onT = TRUE /\ z.stopT = FALSE
        /\ z.post = <<>> /\ z.program = x.program /\ z.T = x.T /\ z.asking = x.asking
        /\ z.tube = x.tube /\ z.sent = x.sent /\ z.in = x.in /\ z.got = x.got /\ z.outT = x.outT
        /\ z.onB = x.onB /\ z.stopWrite = x.stopWrite /\ z.stopRead = x.stopRead
        /\ z.answers = x.answers /\ z.outN = x.outN /\ z.wire = x.wire
        /\ z.toT = x.toT /\ z.listening = x.listening /\ z.opening = FALSE /\ z.fault = "none"
    BY <1>2, <1>4, <2>3 DEF Blocked, Socket, Link
  <2>5. Typed(z)
    BY <1>2, <2>4 DEF Typed
  <2>6. SocketFits(z) /\ TubeFits(z)
    BY <1>2, <1>7, <2>1, <2>4 DEF SocketFits, TubeFits, Early
  <2>7. Blocks(z)
    BY <1>2, <1>7, <2>1, <2>4 DEF Blocks, Typed, Early
  <2>8. InTime(z, "initiator")
    BY <1>2, <1>7, <2>4 DEF InTime
  <2>9. Steady(x, z) /\ Quiet(x, z)
    BY <1>7, <2>4 DEF Steady, Quiet, Closed
  <2>10. Local(z, "initiator") /\ Between(z, "initiator", y)
    BY <1>a, <2>4, <2>5, <2>6, <2>7, <2>8, <2>9, SteadyKeeps, PeerIs DEF Fits
  <2>11. toR \o z.post = <<>>
    BY <2>1, <2>4, MailIs
  <2>12. Agreed(y, z, toI, <<>>)
    BY <1>2, <1>3, <1>7, <2>1, <2>4, MailIs DEF Agreed
  <2> QED
    BY <1>a, <1>7, <2>2, <2>10, <2>11, <2>12, HandledKeeps, PeerIs DEF AgreedAt
<1>8. CASE x.B = "accepted" /\ (scenario.breaks \/ ~y.listening) /\ Handled("initiator", CloseBytestream(w))
  <2>1. x.N = "none" /\ x.outN = <<>> /\ toR = <<>>
    BY <1>2, <1>3, <1>8 DEF SocketFits, Agreed
  <2>2. PICK z : z = CloseBytestream(w)
    OBVIOUS
  <2>3. Ended(w, z)
    <3>1. w.B = "accepted" /\ w.outN = <<>>
      BY <1>4, <1>8, <2>1 DEF Link
    <3>2. Ending(w, z)
      BY <1>5, <2>2, <3>1, CloseBytestreamIs
    <3> QED
      BY <3>1, <3>2 DEF Ending
  <2>4. Fits(z) /\ InTime(z, "initiator")
    <3>1. Closable(w) /\ InTime(w, "initiator")
      <4>1. Closable(x)
        BY <1>2, FitsClosable DEF Fits
      <4> QED
        BY <1>2, <1>4, <4>1 DEF Closable, InTime, Socket, Link
    <3> QED
      BY <1>5, <2>3, <3>1, EndedFits
  <2>5. Sends(w, z) /\ Gives(w, z)
    BY <1>5, <2>3, EndedMoves
  <2>6. Sends(x, z)
    BY <1>4, <2>5 DEF Sends, Passes, Cuts, Link
  <2>7. Gives(x, z)
    BY <1>4, <2>5 DEF Gives, Socket
  <2>8. ~OnlyLeaves("recipient") /\ ~OnlyLeaves("initiator")
    <3>1. SUFFICES ASSUME OnlyLeaves("recipient") \/ OnlyLeaves("initiator") PROVE FALSE
      OBVIOUS
    <3>2. ~scenario.breaks /\ (y.N = "none" => y.B # "closed") /\ y.N # "refused"
      BY <1>a, <3>1, BothAre
    <3>3. ~y.listening
      BY <1>8, <3>2
    <3>4. y.N = "none"
      BY <1>2, <2>1 DEF Agreed
    <3> QED
      BY <1>2, <1>3, <3>2, <3>3, <3>4 DEF SocketFits, Typed, Agreed
  <2>9. Local(z, "initiator") /\ Between(z, "initiator", y)
    <3>1. Typed(z) /\ z.fault = "none"
      BY <1>2, <1>4, <2>3 DEF Ended
    <3> QED
      BY <1>a, <2>4, <2>6, <2>7, <2>8, <3>1, MovesKeep, PeerIs
  <2>10. toR \o z.post = <<"oob_result">>
    <3>1. Append(<<>>, "oob_result") = <<"oob_result">>
      OBVIOUS
    <3>2. z.post = <<"oob_result">>
      BY <1>2, <1>3, <1>4, <2>3, <3>1 DEF Ended, Unlinked, Link
    <3> QED
      BY <2>1, <3>2, MailIs
  <2>11. /\ z.B = "closed" /\ z.N = "none" /\ z.asking = x.asking /\ z.listening = FALSE /\ z.opening = FALSE
         /\ z.answers = x.answers /\ z.tube = x.tube
    BY <1>4, <2>1, <2>3 DEF Ended, Unlinked, Rest, Link
  <2>12. Agreed(y, z, toI, <<"oob_result">>)
    BY <1>2, <1>3, <2>1, <2>11, MailIs DEF Agreed
  <2> QED
    BY <1>a, <1>8, <2>2, <2>9, <2>10, <2>12, HandledKeeps, PeerIs DEF AgreedAt
<1> QED
  BY <1>1, <1>3, <1>4, <1>c, <1>6, <1>7, <1>8 DEF Link

-----------------------------------------------------------------------------
(* All of it. *)

\* In the beginning nothing has happened.
LEMMA InitGood == Init => Good /\ Running
<1> SUFFICES ASSUME Init PROVE Good /\ Running
  OBVIOUS
<1>1. /\ scenario \in Scenarios /\ DOMAIN side = Sides /\ DOMAIN mail = Sides
      /\ \A s \in Sides : side[s] = NewSide /\ mail[s] = <<>> /\ Peer(s) \in Sides
  BY PeerIs DEF Init
<1>2. PICK x : x = NewSide
  OBVIOUS
<1>3. /\ DOMAIN x = Fields /\ x.tube = "open" /\ x.program = "none" /\ x.sent = 0 /\ x.in = <<>> /\ x.got = <<>>
      /\ x.T = "none" /\ x.stopT = FALSE /\ x.outT = <<>> /\ x.onT = FALSE /\ x.B = "none" /\ x.onB = FALSE
      /\ x.stopWrite = FALSE /\ x.stopRead = FALSE /\ x.answers = FALSE /\ x.N = "none" /\ x.outN = <<>>
      /\ x.wire = <<>> /\ x.toT = FALSE /\ x.toB = FALSE /\ x.asking = FALSE /\ x.listening = FALSE
      /\ x.opening = FALSE /\ x.post = <<>> /\ x.fault = "none"
  BY <1>2 DEF NewSide, Fields
<1> HIDE DEF Fields
<1>4. Typed(x)
  BY <1>3 DEF Typed
<1>5. Data(x)
  BY <1>3, FollowsFew DEF Data
<1>6. Len(x.outT) = 0 /\ Len(x.outN) = 0 /\ Len(x.got) = 0 /\ Len(x.in) = 0 /\ Len(x.wire) = 0
  BY <1>3, FollowsFew
<1>7. Fits(x)
  BY <1>3, <1>6 DEF Fits, SocketFits, TubeFits, Blocks
<1>8. \A s : InTime(x, s)
  BY <1>3 DEF InTime
<1>9. Given(x) = 0
  BY <1>6 DEF Given
<1>10. Flows(x, x) /\ Whole(x, x)
  <2>1. Whole(x, x)
    BY <1>3, <1>6, <1>9 DEF Whole
  <2>2. \A n : Follows(<<>>, n)
    BY FollowsFew
  <2>3. Ordered(x, x)
    BY <1>3, <1>6, <1>9, <2>2 DEF Ordered
  <2> QED
    BY <2>1, <2>3 DEF Flows
<1>11. AllArrives(x, x)
  BY <1>3, <1>10 DEF AllArrives, Closed
<1>12. Agreed(x, x, <<>>, <<>>)
  BY <1>3, MailIs DEF Agreed
<1>13. \A s \in Sides : side[s] = x /\ side[Peer(s)] = x /\ mail[s] = <<>>
  BY <1>1, <1>2
<1>14. Running
  BY <1>3, <1>13 DEF Running
<1>15. \A s \in Sides : Sound(side[s], s) /\ Flows(side[s], side[Peer(s)]) /\ AllArrives(side[s], side[Peer(s)])
  BY <1>3, <1>4, <1>5, <1>7, <1>8, <1>10, <1>11, <1>13 DEF Sound
<1>16. Agreed(side["recipient"], side["initiator"], mail["initiator"], mail["recipient"])
  BY <1>12, <1>13, PeerIs
<1> QED
  BY <1>1, <1>14, <1>15, <1>16 DEF Good

\* Every event leaves it so, or fails as FlowControl allows.
LEMMA NextKeeps ==
    ASSUME Good, Running, Next
    PROVE  (Good' /\ Running') \/ (Promised' /\ ~Running')
<1>1. CASE Negotiation
  BY <1>1, NewLocalConnectionKeeps, SiRequestKeeps, SiRefusedKeeps, SiAcceptedKeeps, OobInitKeeps,
     OpenedKeeps, NewConnectionKeeps, OobResultKeeps DEF Negotiation
<1>2. ASSUME NEW s \in Sides,
             \/ Write(s) \/ Leave(s) \/ Close(s)
             \/ TcpConnected(s) \/ ReadT(s) \/ ErrT(s) \/ FlushT(s)
             \/ FlushN(s) \/ ReadN(s) \/ EndN(s) \/ ErrN(s)
      PROVE  (Good' /\ Running') \/ (Promised' /\ ~Running')
  BY <1>2, WriteKeeps, LeaveKeeps, CloseKeeps, TcpConnectedKeeps, ReadTKeeps, ErrTKeeps, FlushTKeeps,
     FlushNKeeps, ReadNKeeps, EndNKeeps, ErrNKeeps
<1> QED
  BY <1>1, <1>2 DEF Next

\* After an event that failed nothing happens.
LEMMA FaultEnds == Next => Running
BY DEF Next, Negotiation, NewLocalConnection, SiRequest, SiRefused, SiAccepted, OobInit, Opened, NewConnection,
       OobResult, Write, Leave, Close, TcpConnected, ReadT, ErrT, FlushT, FlushN, ReadN, EndN, ErrN, Handled,
       HandledStanza

\* The invariant: until an event fails all that Good says, and then still what it is for.
THEOREM StreamInvariant == Spec => []IInv
<1>1. Init => IInv
  BY InitGood DEF IInv
<1>2. IInv /\ [Next]_vars => IInv'
  <2>1. CASE UNCHANGED vars
    <3>1. side' = side /\ mail' = mail /\ scenario' = scenario
      BY <2>1 DEF vars
    <3>2. Running' <=> Running
      BY <3>1 DEF Running
    <3>3. Good => Good'
      BY <3>1 DEF Good, Agreed, Sound, InTime, OnlyLeaves
    <3>4. Promised => Promised'
      BY <3>1 DEF Promised, StreamIntegrity, FlowControl
    <3> QED
      BY <3>2, <3>3, <3>4 DEF IInv
  <2>2. CASE Next
    BY <2>2, NextKeeps, FaultEnds DEF IInv
  <2> QED
    BY <2>1, <2>2
<1> QED
  BY <1>1, <1>2, PTL DEF Spec

\* What a program is given is a prefix of what the other wrote, and all of it when only
\* the writer left, nobody closed the tube and nothing broke.
THEOREM StreamIntegrityHolds == Spec => []StreamIntegrity
<1>1. IInv => StreamIntegrity
  BY GoodIntegrity DEF IInv, Promised
<1> QED
  BY <1>1, StreamInvariant, PTL

\* Who is slow stops the one before, and a callback fails only in the four ways that
\* FlowControl names, in every scenario.
THEOREM FlowControlHolds == Spec => []FlowControl
<1>1. IInv => FlowControl
  BY GoodPromised DEF IInv, Promised
<1> QED
  BY <1>1, StreamInvariant, PTL
=============================================================================
