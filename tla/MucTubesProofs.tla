--------------------------- MODULE MucTubesProofs ---------------------------
(***************************************************************************)
(* The programs on the tubes of a room hear each other in order: proofs     *)
(* about MucTubes, as a part of Activities.                                *)
(***************************************************************************)
EXTENDS Activities, FiniteSetTheorems, TLAPS

\* A sequence, of whatever.
IsQueue(q) == q \in Seq({q[i] : i \in DOMAIN q})

\* The fields of a tube.
Fields == {"state", "stream", "names", "senders", "program", "queue", "got", "lost"}

\* A tube of n.  Who is in it besides n is a sender of its bytestream, a program
\* that is there has had what was queued, and none is there before the tube is open.
TubeOK(x, n) ==
    /\ DOMAIN x = Fields
    /\ x.state \in {"requested", "pending", "open"} /\ x.stream \in Nat
    /\ x.names \subseteq Nodes /\ DOMAIN x.senders = x.names \ {n}
    /\ x.program \in {"none", "on", "hung up"} /\ x.lost \in BOOLEAN
    /\ IsQueue(x.queue) /\ IsQueue(x.got)
    /\ x.program = "none" => x.got = <<>>
    /\ x.program # "none" => x.queue = <<>>
    /\ x.state # "open" => x.program = "none" /\ x.queue = <<>>

\* The tubes of n.
TableOK(table, n) == DOMAIN table \subseteq Tubes /\ \A t \in DOMAIN table : TubeOK(table[t], n)

\* Who is in the room and who has met whom.
RoomOK ==
    /\ scenario \in Scenarios
    /\ joined \subseteq Nodes /\ gone \subseteq Nodes /\ joined \cap gone = {}
    /\ met \in [Nodes -> SUBSET Nodes] /\ closed \in [Nodes -> SUBSET Tubes]
    /\ \A n \in Nodes : /\ met[n] \subseteq joined \cup gone /\ (n \in joined <=> n \in met[n])
                        /\ n \notin joined => met[n] = {}
\* The tubes of everybody; who is not in the room has none.
TablesOK ==
    /\ DOMAIN tubes = Nodes /\ last \in [Nodes -> Nat]
    /\ \A n \in Nodes : TableOK(tubes[n], n) /\ (n \notin joined => tubes[n] = <<>>)

\* One queue for each sender and receiver.
Mailbox(box) == DOMAIN box = Nodes /\ \A m \in Nodes : DOMAIN box[m] = Nodes
MailOK(box) ==
    Mailbox(box) /\ \A m \in Nodes : box[m][m] = <<>> /\ \A n \in Nodes : IsQueue(box[m][n])

\* What everybody has said on every tube.
SaidOK == DOMAIN said = Nodes /\ \A n \in Nodes : DOMAIN said[n] = Tubes /\ \A t \in Tubes : IsQueue(said[n][t])

\* The state has the right form.
Shape == RoomOK /\ TablesOK /\ MailOK(mail) /\ SaidOK

\* of[m][s] is the tube that m has used its stream s for; ls[m] is its last.
StreamFits(of, ls, m, s, t) == s \in 1..ls[m] /\ of[m][s] = t

\* An item that m has sent names only streams that m uses for those tubes.
ItemFits(of, ls, m, x) ==
    /\ x.kind = "tubes" =>
          /\ DOMAIN x.list \subseteq Tubes
          /\ \A t \in DOMAIN x.list : ~IsStream(t) => StreamFits(of, ls, m, x.list[t], t)
    /\ x.kind = "data" => /\ x.what.tube \in Tubes /\ ~IsStream(x.what.tube)
                          /\ StreamFits(of, ls, m, x.stream, x.what.tube)

\* A stream tube is used for no D-Bus messages; the others know the streams that their senders use.
TableFits(of, ls, table, n) ==
    \A t \in DOMAIN table :
       IF IsStream(t) THEN table[t].senders = <<>> /\ table[t].names = {}
       ELSE /\ StreamFits(of, ls, n, table[t].stream, t)
            /\ \A m \in DOMAIN table[t].senders : StreamFits(of, ls, m, table[t].senders[m], t)

\* All mail fits.
MailFits(of, ls, box) == \A n, m \in Nodes : \A i \in DOMAIN box[m][n] : ItemFits(of, ls, m, box[m][n][i])

\* Everything fits: no stream is used for two tubes.
StreamsFit(of) ==
    /\ of \in [Nodes -> [Nat -> Tubes \cup {0}]]
    /\ \A n \in Nodes : TableFits(of, last, tubes[n], n)
    /\ MailFits(of, last, mail)

\* What the program of a tube has been given, or is going to be given.
Store(x) == IF x.program = "none" THEN x.queue ELSE x.got
\* The numbers of the messages of m in q.
Numbers(q, m) == {q[i].number : i \in {j \in DOMAIN q : q[j].from = m}}

\* The messages on t among what is in q.
On(q, t) == {i \in DOMAIN q : q[i].kind = "data" /\ q[i].what.tube = t}

\* q has the last words of m on t.
Mailed(q, m, t, words) ==
    /\ \A i \in On(q, t) : q[i].what.from = m /\ q[i].what.number \in 1..Len(words)
                           /\ words[q[i].what.number] = q[i].what.dest
    /\ \A i, j \in On(q, t) : i < j => q[i].what.number < q[j].what.number

\* From its first message on, q has all that has been said.
Complete(q, t, words) ==
    \A i \in On(q, t) : \A k \in q[i].what.number .. Len(words) :
        \E j \in On(q, t) : q[j].what.number = k

\* st may be stored on tube t of n when sd has been said.
Stored(st, n, t, sd) ==
    /\ \A i \in DOMAIN st : st[i].from \in Nodes /\ st[i].tube = t /\ st[i].dest \in {All, n}
                            /\ st[i].number \in 1..Len(sd[st[i].from][t])
    /\ \A i, j \in DOMAIN st : i < j /\ st[i].from = st[j].from => st[i].number < st[j].number

\* What n has stored of m comes before what n has not read.
Before(st, q, m, t) ==
    \A i \in DOMAIN st, j \in On(q, t) : st[i].from = m => st[i].number < q[j].what.number

\* Since the first message of m nothing is missing but what is under way, and
\* what comes when nobody listens any more.
NoGap(st, q, n, t, words, m, deaf) ==
    \A i \in DOMAIN st : st[i].from = m =>
        \A k \in st[i].number .. Len(words) : words[k] \in {All, n} =>
            \/ k \in Numbers(st, m)
            \/ \E j \in On(q, t) : q[j].what.number = k
            \/ deaf /\ \A j \in DOMAIN st : st[j].from = m => st[j].number < k

Deaf(n, m, t) == tubes[n][t].program = "hung up" \/ m \notin met[n]

\* q is what m has sent to n and n has not read.
OrderedAt(q, n, m, t) ==
    /\ Mailed(q, m, t, said[m][t])
    /\ n \notin gone => Complete(q, t, said[m][t])
    /\ Has(n, t) =>
          /\ Stored(Store(tubes[n][t]), n, t, said) /\ Before(Store(tubes[n][t]), q, m, t)
          /\ scenario.streams = {} /\ ~tubes[n][t].lost =>
                NoGap(Store(tubes[n][t]), q, n, t, said[m][t], m, Deaf(n, m, t))

\* What an item of the mail tells of the stream that its sender uses for t, 0 being none.
Tells(x, t) == x.kind = "tubes" \/ (x.kind = "data" /\ x.what.tube = t)
\* The stream told, 0 being none.
Told(x, t) == IF x.kind = "data" THEN x.stream
              ELSE IF t \in DOMAIN x.list THEN x.list[t] ELSE 0

\* x may come when s is what was told before: a stream ends before the next begins.
Continues(s, x, t) ==
    IF x.kind = "data" THEN s = Told(x, t) ELSE s = Told(x, t) \/ s = 0 \/ Told(x, t) = 0

\* Nothing is told from i to j.
Quiet(q, t, i, j) == \A k \in i .. j : ~Tells(q[k], t)

\* If the receiver knows s, q goes on from there.
Chained(q, t, knows, s) ==
    /\ \A i, j \in DOMAIN q :
          i < j /\ Tells(q[i], t) /\ Tells(q[j], t) /\ Quiet(q, t, i+1, j-1)
             => Continues(Told(q[i], t), q[j], t)
    /\ knows => \A j \in DOMAIN q :
          Tells(q[j], t) /\ Quiet(q, t, 1, j-1) => Continues(s, q[j], t)

\* ... and it ends with what is.
Ends(q, t, knows, s, now) ==
    /\ \A i \in DOMAIN q :
          Tells(q[i], t) /\ Quiet(q, t, i+1, Len(q)) => Told(q[i], t) = now
    /\ knows /\ (\A i \in DOMAIN q : ~Tells(q[i], t)) => s = now

\* The stream that m uses now.
Now(m, t) == IF In(m, t) THEN tubes[m][t].stream ELSE 0
\* n has m for a sender, or a message of m in store.
Knows(n, m, t) ==
    Has(n, t) /\ (m \in DOMAIN tubes[n][t].senders
                  \/ \E i \in DOMAIN Store(tubes[n][t]) : Store(tubes[n][t])[i].from = m)
\* The stream that n takes to be the one of m.
KnownStream(n, m, t) == IF m \in DOMAIN tubes[n][t].senders THEN tubes[n][t].senders[m] ELSE 0

\* Who has not met has sent nothing and is not heard.
StrangersAt(q, n, m) ==
    /\ m \notin gone /\ n \notin gone /\ n \notin met[m] =>
          q = <<>> /\ \A t \in Tubes : ~Knows(n, m, t)
    /\ m \notin gone /\ m \notin met[n] => \A t \in Tubes : ~Knows(n, m, t)

\* What n knows of m on t, then what n has not read, then what is now: one stream after the other.
ConsistentAt(q, n, m, t) ==
    /\ Chained(q, t, Knows(n, m, t), KnownStream(n, m, t))
    /\ n \in met[m] => Ends(q, t, Knows(n, m, t), KnownStream(n, m, t), Now(m, t))

\* What holds of the mail q from m to n.
Pair(q, n, m) ==
    /\ \A t \in Tubes : OrderedAt(q, n, m, t)
    /\ m # n => StrangersAt(q, n, m)
    /\ m # n /\ scenario.streams = {} => \A t \in Tubes : ConsistentAt(q, n, m, t)
\* ... of all mail.
Pairs == \A n, m \in Nodes : Pair(mail[m][n], n, m)

\* The inductive invariant.
IInv == Shape /\ (\E of : StreamsFit(of)) /\ Pairs

-----------------------------------------------------------------------------
(* Sequences *)

\* The empty one.
LEMMA EmptyIs == IsQueue(<<>>) /\ Len(<<>>) = 0 /\ DOMAIN <<>> = {}
<1>1. <<>> \in Seq({<<>>[i] : i \in DOMAIN <<>>})
  OBVIOUS
<1> QED
  BY <1>1 DEF IsQueue

\* Its indices.
LEMMA QueueIs ==
    ASSUME NEW q, IsQueue(q)
    PROVE  /\ Len(q) \in Nat /\ DOMAIN q = 1..Len(q)
           /\ Len(q) = 0 => q = <<>>
           /\ \A i \in DOMAIN q : i \in Nat /\ 1 <= i /\ i <= Len(q)
<1> DEFINE S == {q[i] : i \in DOMAIN q}
<1>1. q \in Seq(S)
  BY DEF IsQueue
<1> HIDE DEF S
<1>2. Len(q) \in Nat /\ DOMAIN q = 1..Len(q) /\ (Len(q) = 0 => q = <<>>)
  BY <1>1
<1> QED
  BY <1>2

\* One with an element more.
LEMMA AppendIs ==
    ASSUME NEW q, IsQueue(q), NEW x
    PROVE  /\ IsQueue(Append(q, x)) /\ Len(Append(q, x)) = Len(q) + 1 /\ Append(q, x) # <<>>
           /\ DOMAIN Append(q, x) = 1 .. Len(q) + 1
           /\ \A i \in DOMAIN q : Append(q, x)[i] = q[i]
           /\ Append(q, x)[Len(q) + 1] = x
<1> DEFINE S == {q[i] : i \in DOMAIN q} \cup {x}
           a == Append(q, x)
<1>1. q \in Seq({q[i] : i \in DOMAIN q})
  BY DEF IsQueue
<1>2. q \in Seq(S)
  BY <1>1
<1>3. Len(q) \in Nat /\ DOMAIN q = 1..Len(q)
  BY QueueIs
<1>4. /\ a \in Seq(S) /\ Len(a) = Len(q) + 1 /\ a[Len(q) + 1] = x
      /\ \A i \in 1..Len(q) : a[i] = q[i]
  <2> HIDE DEF S
  <2>1. x \in S
    BY DEF S
  <2> QED
    BY <1>2, <1>3, <2>1
<1>5. DOMAIN a = 1 .. Len(q) + 1
  <2> HIDE DEF S, a
  <2> QED
    BY <1>4
<1>6. a \in Seq({a[i] : i \in DOMAIN a})
  <2>1. \A i \in 1..Len(a) : a[i] \in {a[j] : j \in DOMAIN a}
    BY <1>4, <1>5 
  <2> HIDE DEF S, a
  <2>2. a \in Seq(S)
    BY <1>4
  <2>3. a = [i \in 1..Len(a) |-> a[i]] /\ Len(a) \in Nat
    BY <2>2
  <2> QED
    BY <2>1, <2>3
<1>7. a # <<>>
  <2> HIDE DEF a
  <2> QED
    BY <1>4, <1>3
<1> QED
  BY <1>3, <1>4, <1>5, <1>6, <1>7 DEF IsQueue

\* One with the first element taken off.
LEMMA TailIs ==
    ASSUME NEW q, IsQueue(q), q # <<>>
    PROVE  /\ IsQueue(Tail(q)) /\ Len(Tail(q)) = Len(q) - 1 /\ Len(q) > 0
           /\ DOMAIN Tail(q) = 1 .. Len(q) - 1
           /\ \A i \in DOMAIN Tail(q) : Tail(q)[i] = q[i + 1]
           /\ Head(q) = q[1]
<1> DEFINE S == {q[i] : i \in DOMAIN q}
           a == Tail(q)
<1>1. q \in Seq(S)
  BY DEF IsQueue
<1>2. Len(q) \in Nat /\ DOMAIN q = 1..Len(q) /\ Len(q) # 0
  BY QueueIs
<1>3. /\ a \in Seq(S) /\ Len(a) = Len(q) - 1 /\ Head(q) = q[1]
      /\ \A i \in 1..Len(a) : a[i] = q[i + 1]
  <2> HIDE DEF S
  <2> QED
    BY <1>1, <1>2
<1>4. DOMAIN a = 1 .. Len(q) - 1
  <2> HIDE DEF S, a
  <2> QED
    BY <1>3
<1>5. a \in Seq({a[i] : i \in DOMAIN a})
  <2>1. \A i \in 1..Len(a) : a[i] \in {a[j] : j \in DOMAIN a}
    BY <1>3, <1>4
  <2> HIDE DEF S, a
  <2>3. a = [i \in 1..Len(a) |-> a[i]] /\ Len(a) \in Nat
    BY <1>3
  <2> QED
    BY <2>1, <2>3
<1> QED
  BY <1>2, <1>3, <1>4, <1>5 DEF IsQueue

-----------------------------------------------------------------------------
(* What the mail tells of streams *)

\* Nothing has been told.
LEMMA EmptyChained ==
    ASSUME NEW t, NEW knows, NEW s, NEW now, knows => s = now
    PROVE  Chained(<<>>, t, knows, s) /\ Ends(<<>>, t, knows, s, now)
BY EmptyIs DEF Chained, Ends

\* News that goes on from what is.
LEMMA AppendTells ==
    ASSUME NEW q, IsQueue(q), NEW x, NEW t, NEW knows, NEW s, NEW now,
           Chained(q, t, knows, s), Ends(q, t, knows, s, now), Tells(x, t), Continues(now, x, t)
    PROVE  /\ Chained(Append(q, x), t, knows, s)
           /\ Ends(Append(q, x), t, knows, s, Told(x, t))
<1> DEFINE a == Append(q, x)
           l == Len(q)
<1>1. /\ l \in Nat /\ DOMAIN q = 1..l /\ DOMAIN a = 1..l+1 /\ Len(a) = l + 1
      /\ \A i \in 1..l : a[i] = q[i]
      /\ a[l + 1] = x
  BY AppendIs, QueueIs
<1> HIDE DEF a, l
<1>2. ASSUME NEW i \in DOMAIN a, NEW j \in DOMAIN a, i < j, Tells(a[i], t), Tells(a[j], t),
             Quiet(a, t, i+1, j-1)
      PROVE  Continues(Told(a[i], t), a[j], t)
  <2>1. CASE j \in 1..l
    <3>1. i \in 1..l /\ Quiet(q, t, i+1, j-1)
      BY <1>1, <1>2, <2>1 DEF Quiet
    <3> QED
      BY <1>1, <1>2, <2>1, <3>1 DEF Chained
  <2>2. CASE j = l + 1
    <3>1. i \in 1..l /\ Quiet(q, t, i+1, l)
      BY <1>1, <1>2, <2>2 DEF Quiet
    <3>2. Told(q[i], t) = now
      BY <1>1, <1>2, <3>1 DEF Ends, l
    <3> QED
      BY <1>1, <2>2, <3>1, <3>2
  <2> QED
    BY <1>1, <2>1, <2>2
<1>3. ASSUME knows, NEW j \in DOMAIN a, Tells(a[j], t), Quiet(a, t, 1, j-1)
      PROVE  Continues(s, a[j], t)
  <2>1. CASE j \in 1..l
    <3>1. Quiet(q, t, 1, j-1)
      BY <1>1, <1>3, <2>1 DEF Quiet
    <3> QED
      BY <1>1, <1>3, <2>1, <3>1 DEF Chained
  <2>2. CASE j = l + 1
    <3>1. Quiet(q, t, 1, l)
      BY <1>1, <1>3, <2>2 DEF Quiet
    <3>2. s = now
      BY <1>1, <1>3, <3>1 DEF Ends, Quiet
    <3> QED
      BY <1>1, <2>2, <3>2
  <2> QED
    BY <1>1, <2>1, <2>2
<1>4. ASSUME NEW i \in DOMAIN a, Tells(a[i], t), Quiet(a, t, i+1, Len(a))
      PROVE  Told(a[i], t) = Told(x, t)
  BY <1>1, <1>4 DEF Quiet
<1>5. ~ \A i \in DOMAIN a : ~Tells(a[i], t)
  BY <1>1
<1> QED
  BY <1>2, <1>3, <1>4, <1>5 DEF Chained, Ends, a

\* News of something else.
LEMMA AppendSilent ==
    ASSUME NEW q, IsQueue(q), NEW x, NEW t, NEW knows, NEW s, NEW now,
           Chained(q, t, knows, s), ~Tells(x, t)
    PROVE  /\ Chained(Append(q, x), t, knows, s)
           /\ Ends(q, t, knows, s, now) => Ends(Append(q, x), t, knows, s, now)
<1> DEFINE a == Append(q, x)
           l == Len(q)
<1>1. /\ l \in Nat /\ DOMAIN q = 1..l /\ DOMAIN a = 1..l+1 /\ Len(a) = l + 1
      /\ \A i \in 1..l : a[i] = q[i]
      /\ a[l + 1] = x
  BY AppendIs, QueueIs
<1> HIDE DEF a, l
<1>2. ASSUME NEW i \in DOMAIN a, NEW j \in DOMAIN a, i < j, Tells(a[i], t), Tells(a[j], t),
             Quiet(a, t, i+1, j-1)
      PROVE  Continues(Told(a[i], t), a[j], t)
  <2>1. i \in 1..l /\ j \in 1..l /\ Quiet(q, t, i+1, j-1)
    BY <1>1, <1>2 DEF Quiet
  <2> QED
    BY <1>1, <1>2, <2>1 DEF Chained
<1>3. ASSUME knows, NEW j \in DOMAIN a, Tells(a[j], t), Quiet(a, t, 1, j-1)
      PROVE  Continues(s, a[j], t)
  <2>1. j \in 1..l /\ Quiet(q, t, 1, j-1)
    BY <1>1, <1>3 DEF Quiet
  <2> QED
    BY <1>1, <1>3, <2>1 DEF Chained
<1>4. ASSUME Ends(q, t, knows, s, now), NEW i \in DOMAIN a, Tells(a[i], t),
             Quiet(a, t, i+1, Len(a))
      PROVE  Told(a[i], t) = now
  <2>1. i \in 1..l /\ Quiet(q, t, i+1, l)
    BY <1>1, <1>4 DEF Quiet
  <2> QED
    BY <1>1, <1>4, <2>1 DEF Ends, l
<1>5. ASSUME Ends(q, t, knows, s, now), knows, \A i \in DOMAIN a : ~Tells(a[i], t)
      PROVE  s = now
  <2>1. \A i \in DOMAIN q : ~Tells(q[i], t)
    BY <1>1, <1>5
  <2> QED
    BY <1>5, <2>1 DEF Ends
<1> QED
  BY <1>2, <1>3, <1>4, <1>5 DEF Chained, Ends, a

\* Less one.
LEMMA TailQuiet ==
    ASSUME NEW q, IsQueue(q), q # <<>>, NEW t, NEW i \in Nat, NEW j \in Nat, i >= 1, j <= Len(q)
    PROVE  Quiet(Tail(q), t, i, j-1) <=> Quiet(q, t, i+1, j)
<1> DEFINE a == Tail(q)
           l == Len(q)
<1>1. l \in Nat /\ l > 0 /\ DOMAIN a = 1..l-1 /\ \A k \in 1..l-1 : a[k] = q[k + 1]
  BY TailIs, QueueIs
<1> HIDE DEF a, l
<1>2. ASSUME Quiet(a, t, i, j-1), NEW k \in i+1 .. j PROVE ~Tells(q[k], t)
  <2>1. k - 1 \in i .. j-1 /\ k - 1 \in 1..l-1 /\ (k - 1) + 1 = k
    BY <1>1 DEF l
  <2> QED
    BY <1>1, <1>2, <2>1 DEF Quiet
<1>3. ASSUME Quiet(q, t, i+1, j), NEW k \in i .. j-1 PROVE ~Tells(a[k], t)
  <2>1. k + 1 \in i+1 .. j /\ k \in 1..l-1
    BY <1>1 DEF l
  <2> QED
    BY <1>1, <1>3, <2>1 DEF Quiet
<1> QED
  BY <1>2, <1>3 DEF Quiet, a

\* The news is read.
LEMMA TailTells ==
    ASSUME NEW q, IsQueue(q), q # <<>>, NEW t, NEW knows, NEW s, NEW now, NEW known,
           Chained(q, t, knows, s), Tells(Head(q), t)
    PROVE  /\ Chained(Tail(q), t, known, Told(Head(q), t))
           /\ Ends(q, t, knows, s, now) => Ends(Tail(q), t, known, Told(Head(q), t), now)
<1> DEFINE a == Tail(q)
           l == Len(q)
<1>1. /\ l \in Nat /\ l > 0 /\ DOMAIN q = 1..l /\ DOMAIN a = 1..l-1 /\ Len(a) = l - 1
      /\ \A i \in 1..l-1 : a[i] = q[i + 1]
      /\ Head(q) = q[1]
  BY TailIs, QueueIs
<1> HIDE DEF a, l
<1>a. \A i, j \in Nat : i >= 1 /\ j <= l => (Quiet(a, t, i, j-1) <=> Quiet(q, t, i+1, j))
  BY TailQuiet DEF a, l
<1>2. ASSUME NEW i \in DOMAIN a, NEW j \in DOMAIN a, i < j, Tells(a[i], t), Tells(a[j], t),
             Quiet(a, t, i+1, j-1)
      PROVE  Continues(Told(a[i], t), a[j], t)
  <2>1. i + 1 \in 1..l /\ j + 1 \in 1..l /\ i + 1 < j + 1 /\ a[i] = q[i + 1] /\ a[j] = q[j + 1]
    BY <1>1, <1>2
  <2>2. Quiet(q, t, (i+1)+1, j)
    BY <1>1, <1>2, <1>a
  <2>3. (j + 1) - 1 = j
    BY <1>1
  <2> QED
    BY <1>1, <1>2, <2>1, <2>2, <2>3 DEF Chained
<1>3. ASSUME NEW j \in DOMAIN a, Tells(a[j], t), Quiet(a, t, 1, j-1)
      PROVE  Continues(Told(q[1], t), a[j], t)
  <2>1. 1 \in 1..l /\ j + 1 \in 1..l /\ 1 < j + 1 /\ a[j] = q[j + 1]
    BY <1>1
  <2>2. Quiet(q, t, 1+1, j)
    BY <1>1, <1>3, <1>a
  <2>3. (j + 1) - 1 = j
    BY <1>1
  <2> QED
    BY <1>1, <1>3, <2>1, <2>2, <2>3 DEF Chained
<1>4. ASSUME Ends(q, t, knows, s, now), NEW i \in DOMAIN a, Tells(a[i], t),
             Quiet(a, t, i+1, Len(a))
      PROVE  Told(a[i], t) = now
  <2>1. i + 1 \in 1..l /\ a[i] = q[i + 1] /\ Len(a) = l - 1
    BY <1>1
  <2>2. Quiet(q, t, (i+1)+1, l)
    BY <1>1, <1>4, <1>a
  <2> QED
    BY <1>1, <1>4, <2>1, <2>2 DEF Ends, l
<1>5. ASSUME Ends(q, t, knows, s, now), \A i \in DOMAIN a : ~Tells(a[i], t)
      PROVE  Told(q[1], t) = now
  <2>0. Quiet(a, t, 1, l - 1)
    BY <1>1, <1>5 DEF Quiet
  <2>1. Quiet(q, t, 1+1, l)
    BY <1>1, <2>0, <1>a
  <2> QED
    BY <1>1, <1>5, <2>1 DEF Ends, l
<1> QED
  BY <1>1, <1>2, <1>3, <1>4, <1>5 DEF Chained, Ends, a

\* Something else is read.
LEMMA TailSilent ==
    ASSUME NEW q, IsQueue(q), q # <<>>, NEW t, NEW knows, NEW s, NEW now,
           Chained(q, t, knows, s), ~Tells(Head(q), t)
    PROVE  /\ Chained(Tail(q), t, knows, s)
           /\ Ends(q, t, knows, s, now) => Ends(Tail(q), t, knows, s, now)
<1> DEFINE a == Tail(q)
           l == Len(q)
<1>1. /\ l \in Nat /\ l > 0 /\ DOMAIN q = 1..l /\ DOMAIN a = 1..l-1 /\ Len(a) = l - 1
      /\ \A i \in 1..l-1 : a[i] = q[i + 1]
      /\ Head(q) = q[1]
  BY TailIs, QueueIs
<1> HIDE DEF a, l
<1>a. \A i, j \in Nat : i >= 1 /\ j <= l => (Quiet(a, t, i, j-1) <=> Quiet(q, t, i+1, j))
  BY TailQuiet DEF a, l
<1>2. ASSUME NEW i \in DOMAIN a, NEW j \in DOMAIN a, i < j, Tells(a[i], t), Tells(a[j], t),
             Quiet(a, t, i+1, j-1)
      PROVE  Continues(Told(a[i], t), a[j], t)
  <2>1. i + 1 \in 1..l /\ j + 1 \in 1..l /\ i + 1 < j + 1 /\ a[i] = q[i + 1] /\ a[j] = q[j + 1]
    BY <1>1, <1>2
  <2>2. Quiet(q, t, (i+1)+1, j)
    BY <1>1, <1>2, <1>a
  <2>3. (j + 1) - 1 = j
    BY <1>1
  <2> QED
    BY <1>1, <1>2, <2>1, <2>2, <2>3 DEF Chained
<1>3. ASSUME knows, NEW j \in DOMAIN a, Tells(a[j], t), Quiet(a, t, 1, j-1)
      PROVE  Continues(s, a[j], t)
  <2>1. j + 1 \in 1..l /\ a[j] = q[j + 1] /\ (j + 1) - 1 = j
    BY <1>1
  <2>2. Quiet(q, t, 1+1, j)
    BY <1>1, <1>3, <1>a
  <2>3. Quiet(q, t, 1, j)
    BY <1>1, <2>2 DEF Quiet
  <2> QED
    BY <1>1, <1>3, <2>1, <2>3 DEF Chained
<1>4. ASSUME Ends(q, t, knows, s, now), NEW i \in DOMAIN a, Tells(a[i], t),
             Quiet(a, t, i+1, Len(a))
      PROVE  Told(a[i], t) = now
  <2>1. i + 1 \in 1..l /\ a[i] = q[i + 1] /\ Len(a) = l - 1
    BY <1>1
  <2>2. Quiet(q, t, (i+1)+1, l)
    BY <1>1, <1>4, <1>a
  <2> QED
    BY <1>1, <1>4, <2>1, <2>2 DEF Ends, l
<1>5. ASSUME Ends(q, t, knows, s, now), knows, \A i \in DOMAIN a : ~Tells(a[i], t)
      PROVE  s = now
  <2>0. Quiet(a, t, 1, l - 1)
    BY <1>1, <1>5 DEF Quiet
  <2>1. Quiet(q, t, 1+1, l)
    BY <1>1, <2>0, <1>a
  <2>2. Quiet(q, t, 1, l)
    BY <1>1, <2>1 DEF Quiet
  <2> QED
    BY <1>1, <1>5, <2>2 DEF Ends, Quiet
<1> QED
  BY <1>1, <1>2, <1>3, <1>4, <1>5 DEF Chained, Ends, a

\* Who knows less asks less.
LEMMA KnowsLess ==
    ASSUME NEW q, NEW t, NEW knows, NEW known, NEW s, NEW now, known => knows,
           Chained(q, t, knows, s)
    PROVE  /\ Chained(q, t, known, s)
           /\ Ends(q, t, knows, s, now) => Ends(q, t, known, s, now)
BY DEF Chained, Ends

-----------------------------------------------------------------------------
(* Messages on their way *)

\* The sender's next message.
LEMMA AppendWord ==
    ASSUME NEW q, IsQueue(q), NEW m, NEW t, NEW words, IsQueue(words), NEW x, NEW d,
           Mailed(q, m, t, words), x.kind = "data", x.what.tube = t, x.what.from = m,
           x.what.number = Len(words) + 1, x.what.dest = d
    PROVE  /\ Mailed(Append(q, x), m, t, Append(words, d))
           /\ On(Append(q, x), t) = On(q, t) \cup {Len(q) + 1}
           /\ Complete(q, t, words) => Complete(Append(q, x), t, Append(words, d))
<1> DEFINE a == Append(q, x)
           w == Append(words, d)
           l == Len(q)
           n == Len(words)
<1>1. /\ l \in Nat /\ DOMAIN q = 1..l /\ DOMAIN a = 1..l+1
      /\ \A i \in 1..l : a[i] = q[i]
      /\ a[l + 1] = x
  BY AppendIs, QueueIs
<1>2. /\ n \in Nat /\ Len(w) = n + 1 /\ w[n + 1] = d
      /\ \A k \in 1..n : w[k] = words[k]
  BY AppendIs, QueueIs
<1> HIDE DEF a, l
<1>3. On(a, t) = On(q, t) \cup {l + 1}
  BY <1>1 DEF On
<1>4. \A i \in On(q, t) : i \in 1..l /\ a[i] = q[i]
  BY <1>1 DEF On
<1>5. \A i \in On(q, t) : /\ q[i].what.from = m /\ q[i].what.number \in 1..n
                          /\ words[q[i].what.number] = q[i].what.dest
  BY DEF Mailed
<1> HIDE DEF w, n
<1>6. Mailed(a, m, t, w)
  <2>1. \A i \in On(a, t) : a[i].what.from = m /\ a[i].what.number \in 1..Len(w)
                           /\ w[a[i].what.number] = a[i].what.dest
    BY <1>1, <1>2, <1>3, <1>4, <1>5 DEF n
  <2>2. \A i, j \in On(a, t) : i < j => a[i].what.number < a[j].what.number
    <3> TAKE i, j \in On(a, t)
    <3>1. CASE i \in On(q, t) /\ j \in On(q, t)
      BY <1>4, <3>1 DEF Mailed
    <3>2. CASE i \in On(q, t) /\ j = l + 1
      <4>1. a[i].what.number \in 1..n
        BY <1>4, <1>5, <3>2
      <4> QED
        BY <1>1, <1>2, <3>2, <4>1 DEF n
    <3>3. CASE i = l + 1
      BY <1>1, <1>3, <1>4, <3>3
    <3> QED
      BY <1>3, <3>1, <3>2, <3>3
  <2> QED
    BY <2>1, <2>2 DEF Mailed
<1>7. ASSUME Complete(q, t, words) PROVE Complete(a, t, w)
  <2> SUFFICES ASSUME NEW i \in On(a, t), NEW k \in a[i].what.number .. Len(w)
               PROVE  \E j \in On(a, t) : a[j].what.number = k
    BY DEF Complete
  <2>1. CASE k = n + 1
    BY <1>1, <1>3, <2>1 DEF n
  <2>2. CASE k # n + 1
    <3>1. i \in On(q, t) /\ k \in q[i].what.number .. n
      <4>1. i # l + 1
        BY <1>1, <1>2, <2>2 DEF n
      <4> QED
        BY <1>2, <1>3, <1>4, <1>5, <2>2, <4>1
    <3>2. PICK j \in On(q, t) : q[j].what.number = k
      BY <1>7, <3>1 DEF Complete, n
    <3> QED
      BY <1>3, <1>4, <3>2
  <2> QED
    BY <2>1, <2>2
<1> QED
  BY <1>3, <1>6, <1>7 DEF a, w, l

\* A message that was not sent to the receiver.
LEMMA OtherWord ==
    ASSUME NEW q, NEW m, NEW t, NEW words, IsQueue(words), NEW d, Mailed(q, m, t, words)
    PROVE  Mailed(q, m, t, Append(words, d))
<1>1. /\ Len(words) \in Nat /\ Len(Append(words, d)) = Len(words) + 1
      /\ \A k \in 1..Len(words) : Append(words, d)[k] = words[k]
  BY AppendIs, QueueIs
<1> QED
  BY <1>1 DEF Mailed

\* Something else is sent: a has the same messages as q.
SameOn(q, a, t) == On(a, t) = On(q, t) /\ \A i \in On(q, t) : a[i] = q[i]

\* What is not a message on t leaves those on t as they are.
LEMMA AppendNoWord ==
    ASSUME NEW q, IsQueue(q), NEW t, NEW x, ~(x.kind = "data" /\ x.what.tube = t)
    PROVE  SameOn(q, Append(q, x), t)
<1> DEFINE a == Append(q, x)
           l == Len(q)
<1>1. /\ l \in Nat /\ DOMAIN q = 1..l /\ DOMAIN a = 1..l+1
      /\ \A i \in 1..l : a[i] = q[i]
      /\ a[l + 1] = x
  BY AppendIs, QueueIs
<1> HIDE DEF a, l
<1>3. On(a, t) = On(q, t)
  BY <1>1 DEF On
<1>4. \A i \in On(q, t) : a[i] = q[i]
  BY <1>1 DEF On
<1> QED
  BY <1>3, <1>4 DEF a, SameOn

\* The head is read: where the others are then.
LessOn(q, a, t) ==
    /\ \A i \in On(a, t) : i \in Nat /\ i >= 1 /\ i + 1 \in On(q, t) /\ a[i] = q[i + 1]
    /\ \A i \in On(q, t) : i = 1 \/ (i - 1 \in On(a, t) /\ a[i - 1] = q[i])

\* Where the messages on t are when the head has been read.
LEMMA TailOn ==
    ASSUME NEW q, IsQueue(q), q # <<>>, NEW t
    PROVE  /\ LessOn(q, Tail(q), t)
           /\ 1 \in On(q, t) <=> Head(q).kind = "data" /\ Head(q).what.tube = t
           /\ Head(q) = q[1]
<1> DEFINE a == Tail(q)
           l == Len(q)
<1>1. /\ l \in Nat /\ l > 0 /\ DOMAIN q = 1..l /\ DOMAIN a = 1..l-1
      /\ \A i \in 1..l-1 : a[i] = q[i + 1]
      /\ Head(q) = q[1]
  BY TailIs, QueueIs
<1> HIDE DEF a, l
<1>2. ASSUME NEW i \in On(a, t) PROVE i \in Nat /\ i >= 1 /\ i + 1 \in On(q, t) /\ a[i] = q[i + 1]
  BY <1>1 DEF On
<1>3. ASSUME NEW i \in On(q, t), i # 1 PROVE i - 1 \in On(a, t) /\ a[i - 1] = q[i]
  <2>1. i \in 1..l /\ i - 1 \in 1..l-1 /\ (i - 1) + 1 = i
    BY <1>1, <1>3 DEF On
  <2> QED
    BY <1>1, <2>1 DEF On
<1>4. 1 \in On(q, t) <=> Head(q).kind = "data" /\ Head(q).what.tube = t
  BY <1>1 DEF On
<1> QED
  BY <1>1, <1>2, <1>3, <1>4 DEF a, LessOn

\* ... and what remains is still in order.
Above(q, t, number) == \A i \in On(q, t) : number < q[i].what.number

\* Reading the head keeps the rest in order, and above a message that was the head.
LEMMA TailMailed ==
    ASSUME NEW q, IsQueue(q), q # <<>>, NEW m, NEW t, NEW words, Len(words) \in Nat,
           Mailed(q, m, t, words)
    PROVE  /\ Mailed(Tail(q), m, t, words)
           /\ Complete(q, t, words) => Complete(Tail(q), t, words)
           /\ 1 \in On(q, t) => Above(Tail(q), t, Head(q).what.number)
<1> DEFINE a == Tail(q)
<1>1. Head(q) = q[1] /\ LessOn(q, a, t)
  BY TailOn
<1> HIDE DEF a
<1>2. \A i \in On(a, t) : i \in Nat /\ i >= 1 /\ i + 1 \in On(q, t) /\ a[i] = q[i + 1]
  BY <1>1 DEF LessOn
<1>3. \A i \in On(q, t) : i = 1 \/ (i - 1 \in On(a, t) /\ a[i - 1] = q[i])
  BY <1>1 DEF LessOn
<1>5. Mailed(a, m, t, words)
  <2>1. \A i, j \in On(a, t) : i < j => a[i].what.number < a[j].what.number
    <3> TAKE i, j \in On(a, t)
    <3>1. i < j => i + 1 < j + 1
      BY <1>2
    <3> QED
      BY <1>2, <3>1 DEF Mailed
  <2> QED
    BY <1>2, <2>1 DEF Mailed
<1>6. 1 \in On(q, t) => \A i \in On(a, t) : Head(q).what.number < a[i].what.number
  <2> SUFFICES ASSUME 1 \in On(q, t), NEW i \in On(a, t) PROVE q[1].what.number < a[i].what.number
    BY <1>1
  <2>1. 1 < i + 1 /\ i + 1 \in On(q, t) /\ a[i] = q[i + 1]
    BY <1>2
  <2> QED
    BY <2>1 DEF Mailed
<1>7. ASSUME Complete(q, t, words) PROVE Complete(a, t, words)
  <2> SUFFICES ASSUME NEW i \in On(a, t), NEW k \in a[i].what.number .. Len(words)
               PROVE  \E j \in On(a, t) : a[j].what.number = k
    BY DEF Complete
  <2>1. PICK j \in On(q, t) : q[j].what.number = k
    BY <1>2, <1>7 DEF Complete
  <2>2. q[i + 1].what.number \in Nat /\ k \in Nat /\ k >= a[i].what.number
    BY <1>2 DEF Mailed
  <2>3. j # 1
    BY <1>1, <1>2, <1>6, <2>1, <2>2
  <2> QED
    BY <1>3, <2>1, <2>3
<1> QED
  BY <1>5, <1>6, <1>7 DEF a, Above

-----------------------------------------------------------------------------
(* What does not matter to what has been said *)

\* Who stores the same or nothing, and is as deaf as before.
LEMMA KeepOrdered ==
    ASSUME NEW q, NEW n \in Nodes, NEW m \in Nodes, NEW t \in Tubes,
           OrderedAt(q, n, m, t), scenario' = scenario, said' = said, gone \subseteq gone',
           Has(n, t)' =>
              \/ Store(tubes'[n][t]) = <<>>
              \/ /\ Has(n, t) /\ Store(tubes'[n][t]) = Store(tubes[n][t])
                 /\ tubes[n][t].lost => tubes'[n][t].lost
                 /\ \/ Deaf(n, m, t) => Deaf(n, m, t)'
                    \/ \A i \in DOMAIN Store(tubes[n][t]) : Store(tubes[n][t])[i].from # m
    PROVE  OrderedAt(q, n, m, t)'
<1>1. Mailed(q, m, t, said'[m][t]) /\ (n \notin gone' => Complete(q, t, said'[m][t]))
  BY DEF OrderedAt
<1>2. CASE ~Has(n, t)'
  BY <1>1, <1>2 DEF OrderedAt
<1>3. CASE Has(n, t)' /\ Store(tubes'[n][t]) = <<>>
  <2>1. Stored(<<>>, n, t, said') /\ Before(<<>>, q, m, t) /\ NoGap(<<>>, q, n, t, said'[m][t], m, Deaf(n, m, t)')
    BY EmptyIs DEF Stored, Before, NoGap
  <2> QED
    BY <1>1, <1>3, <2>1 DEF OrderedAt
<1>4. CASE Has(n, t)' /\ Store(tubes'[n][t]) # <<>>
  <2>0. PICK st : st = Store(tubes[n][t])
    OBVIOUS
  <2>1. Store(tubes'[n][t]) = st /\ Has(n, t)
    BY <1>4, <2>0
  <2>2. Stored(st, n, t, said') /\ Before(st, q, m, t)
    BY <2>0, <2>1 DEF OrderedAt, Stored
  <2>3. ASSUME scenario'.streams = {}, ~tubes'[n][t].lost
        PROVE  NoGap(st, q, n, t, said'[m][t], m, Deaf(n, m, t)')
    <3>1. NoGap(st, q, n, t, said[m][t], m, Deaf(n, m, t))
      BY <1>4, <2>0, <2>1, <2>3 DEF OrderedAt
    <3>2. CASE Deaf(n, m, t) => Deaf(n, m, t)'
      BY <3>1, <3>2 DEF NoGap
    <3>3. CASE \A i \in DOMAIN st : st[i].from # m
      BY <3>3 DEF NoGap
    <3> QED
      BY <1>4, <2>0, <3>2, <3>3
  <2> QED
    BY <1>1, <2>1, <2>2, <2>3 DEF OrderedAt
<1> QED
  BY <1>2, <1>3, <1>4

\* Nothing is sent that is a message on t.
LEMMA AppendOrdered ==
    ASSUME NEW q, IsQueue(q), NEW n \in Nodes, NEW m \in Nodes, NEW t \in Tubes, NEW x,
           OrderedAt(q, n, m, t), ~(x.kind = "data" /\ x.what.tube = t)
    PROVE  OrderedAt(Append(q, x), n, m, t)
<1> DEFINE a == Append(q, x)
<1>0. Mailed(q, m, t, said[m][t]) /\ (n \notin gone => Complete(q, t, said[m][t]))
  BY DEF OrderedAt
<1>1. /\ Mailed(a, m, t, said[m][t])
      /\ On(a, t) = On(q, t)
      /\ \A i \in On(q, t) : a[i] = q[i]
      /\ Complete(q, t, said[m][t]) => Complete(a, t, said[m][t])
  <2> HIDE DEF a
  <2>1. PICK words : words = said[m][t]
    OBVIOUS
  <2>2. SameOn(q, Append(q, x), t)
    BY AppendNoWord
  <2>4. Mailed(Append(q, x), m, t, words)
    BY <1>0, <2>1, <2>2 DEF SameOn, Mailed
  <2>5. Complete(q, t, words) => Complete(Append(q, x), t, words)
    BY <2>2 DEF Complete, SameOn
  <2> QED
    BY <2>1, <2>2, <2>4, <2>5 DEF a, SameOn
<1> HIDE DEF a
<1>2. ASSUME NEW st, Before(st, q, m, t) PROVE Before(st, a, m, t)
  BY <1>1, <1>2 DEF Before
<1>3. ASSUME NEW st, NEW words, NEW deaf, NoGap(st, q, n, t, words, m, deaf)
      PROVE  NoGap(st, a, n, t, words, m, deaf)
  BY <1>1, <1>3 DEF NoGap
<1>4. OrderedAt(a, n, m, t)
  BY <1>0, <1>1, <1>2, <1>3 DEF OrderedAt
<1> QED
  BY <1>4 DEF a

\* Something is read that is no message on t.
LEMMA TailOrdered ==
    ASSUME Shape, NEW q, IsQueue(q), q # <<>>, NEW n \in Nodes, NEW m \in Nodes, NEW t \in Tubes,
           OrderedAt(q, n, m, t), ~(Head(q).kind = "data" /\ Head(q).what.tube = t)
    PROVE  OrderedAt(Tail(q), n, m, t)
<1> DEFINE a == Tail(q)
<1>0. Len(said[m][t]) \in Nat
  BY QueueIs DEF Shape, SaidOK
<1>a. Mailed(q, m, t, said[m][t]) /\ (n \notin gone => Complete(q, t, said[m][t]))
  BY DEF OrderedAt
<1>1. Mailed(a, m, t, said[m][t]) /\ (Complete(q, t, said[m][t]) => Complete(a, t, said[m][t]))
  <2>1. PICK words : words = said[m][t]
    OBVIOUS
  <2>2. Len(words) \in Nat /\ Mailed(q, m, t, words)
    BY <1>0, <1>a, <2>1
  <2>3. Mailed(Tail(q), m, t, words) /\ (Complete(q, t, words) => Complete(Tail(q), t, words))
    BY <2>2, TailMailed
  <2> QED
    BY <2>1, <2>3
<1>b. LessOn(q, a, t) /\ 1 \notin On(q, t)
  BY TailOn
<1>c. /\ \A i \in On(a, t) : i + 1 \in On(q, t) /\ a[i] = q[i + 1]
      /\ \A i \in On(q, t) : i - 1 \in On(a, t) /\ a[i - 1] = q[i]
  BY <1>b DEF LessOn
<1> HIDE DEF a
<1>2. ASSUME NEW st, Before(st, q, m, t) PROVE Before(st, a, m, t)
  BY <1>c, <1>2 DEF Before
<1>3. ASSUME NEW st, NEW words, NEW deaf, NoGap(st, q, n, t, words, m, deaf)
      PROVE  NoGap(st, a, n, t, words, m, deaf)
  <2>1. \A k : (\E j \in On(q, t) : q[j].what.number = k) => \E j \in On(a, t) : a[j].what.number = k
    BY <1>c
  <2> QED
    BY <1>3, <2>1 DEF NoGap
<1>4. OrderedAt(a, n, m, t)
  BY <1>a, <1>1, <1>2, <1>3 DEF OrderedAt
<1> QED
  BY <1>4 DEF a

\* Who knows no more than before, of a sender that uses the same stream.
LEMMA KeepConsistent ==
    ASSUME NEW q, NEW n \in Nodes, NEW m \in Nodes, NEW t \in Tubes,
           ConsistentAt(q, n, m, t), Knows(n, m, t)' => Knows(n, m, t),
           Knows(n, m, t)' => KnownStream(n, m, t)' = KnownStream(n, m, t),
           n \in met'[m] => n \in met[m] /\ Now(m, t)' = Now(m, t)
    PROVE  ConsistentAt(q, n, m, t)'
BY DEF ConsistentAt, Chained, Ends

\* Who has not met stays strange.
LEMMA KeepStrangers ==
    ASSUME NEW q, NEW n \in Nodes, NEW m \in Nodes, StrangersAt(q, n, m), gone \subseteq gone',
           m \notin gone' => met[m] \subseteq met'[m] /\ (m \in met[n] => m \in met'[n]),
           \A t \in Tubes : Knows(n, m, t)' => Knows(n, m, t)
    PROVE  StrangersAt(q, n, m)'
BY DEF StrangersAt

-----------------------------------------------------------------------------
(* What a node does to its tables and its mail *)

\* What g_hash_table_insert makes of a table.
LEMMA WithIs ==
    ASSUME NEW t, NEW x, NEW f
    PROVE  /\ DOMAIN With(f, t, x) = {t} \cup DOMAIN f
           /\ With(f, t, x)[t] = x
           /\ \A u \in DOMAIN f : u # t => With(f, t, x)[u] = f[u]
BY DEF With

\* What g_hash_table_remove makes of a table.
LEMMA WithoutIs ==
    ASSUME NEW t, NEW f
    PROVE  DOMAIN Without(f, t) = DOMAIN f \ {t} /\ \A u \in DOMAIN f : u # t => Without(f, t)[u] = f[u]
BY DEF Without

\* n has sent x to the members.
Posted(box, after, n, members, x) ==
    /\ Mailbox(after)
    /\ \A m, k \in Nodes :
          after[m][k] = IF m = n /\ k \in members \ {n} THEN Append(box[m][k], x) ELSE box[m][k]

\* What sending to members makes of the mail.
LEMMA SentIs ==
    ASSUME NEW box, Mailbox(box), NEW n \in Nodes, NEW members, NEW x
    PROVE  Posted(box, Sent(box, n, members, x), n, members, x)
BY DEF Posted, Mailbox, Sent

\* What a table is announced as.
List(table) ==
    [kind |-> "tubes",
     list |-> [t \in {t \in DOMAIN table : table[t].state = "open"} |-> Publish(table[t])]]

\* An announcement of a table is sent to all members, or suppressed because of a stream tube.
LEMMA AnnounceIs ==
    ASSUME NEW box, Mailbox(box), NEW n \in Nodes, NEW members, NEW table
    PROVE  /\ \/ Announce(box, n, members, table) = box
              \/ Posted(box, Announce(box, n, members, table), n, members, List(table))
           /\ scenario.streams = {} => Posted(box, Announce(box, n, members, table), n, members, List(table))
<1>1. Posted(box, Sent(box, n, members, List(table)), n, members, List(table))
  BY SentIs
<1>2. \/ Announce(box, n, members, table) = Sent(box, n, members, List(table))
      \/ Announce(box, n, members, table) = box /\ scenario.streams # {}
  BY DEF Announce, List, IsStream
<1> QED
  BY <1>1, <1>2

\* A list tells of every tube which stream it uses, or that it is not there.
LEMMA ListTells ==
    ASSUME NEW table, NEW t
    PROVE  /\ Tells(List(table), t) /\ List(table).kind = "tubes"
           /\ Told(List(table), t) = IF t \in DOMAIN table /\ table[t].state = "open" THEN table[t].stream
                                     ELSE 0
BY DEF List, Tells, Told, Publish

\* A tube opens.
LEMMA OpenedIs ==
    ASSUME Shape, NEW n \in Nodes, NEW t \in DOMAIN tubes[n]
    PROVE  LET x == tubes[n][t]
               y == Opened(n, t)[t]
           IN  /\ DOMAIN Opened(n, t) = DOMAIN tubes[n]
               /\ \A u \in DOMAIN tubes[n] : u # t => Opened(n, t)[u] = tubes[n][u]
               /\ DOMAIN y = Fields /\ y.state = "open" /\ y.stream = x.stream
               /\ y.names = (IF IsStream(t) THEN x.names ELSE x.names \cup {n}) /\ y.senders = x.senders
               /\ y.program = x.program /\ y.queue = x.queue /\ y.got = x.got /\ y.lost = x.lost
<1>1. DOMAIN tubes[n][t] = Fields
  BY DEF Shape, TablesOK, TableOK, TubeOK
<1> QED
  BY <1>1 DEF Opened, Fields

\* A new tube has the right form, nobody in it and nothing stored.
LEMMA NewTubeIs ==
    ASSUME NEW state \in {"requested", "pending"}, NEW stream \in Nat, NEW n
    PROVE  /\ TubeOK(NewTube(state, stream), n)
           /\ NewTube(state, stream).state = state /\ NewTube(state, stream).stream = stream
           /\ NewTube(state, stream).names = {} /\ NewTube(state, stream).senders = <<>>
           /\ Store(NewTube(state, stream)) = <<>>
BY EmptyIs DEF NewTube, TubeOK, Fields, Store

\* Who is added to a tube becomes a sender; nothing else of the tube changes.
LEMMA AddNameIs ==
    ASSUME NEW n \in Nodes, NEW x, TubeOK(x, n), NEW m \in Nodes, m # n, NEW s, m \notin x.names
    PROVE  /\ TubeOK(AddName(x, m, s), n)
           /\ Store(AddName(x, m, s)) = Store(x) /\ AddName(x, m, s).lost = x.lost
           /\ AddName(x, m, s).program = x.program /\ AddName(x, m, s).state = x.state
           /\ AddName(x, m, s).stream = x.stream
           /\ DOMAIN AddName(x, m, s).senders = DOMAIN x.senders \cup {m}
           /\ AddName(x, m, s).senders[m] = s
           /\ \A k \in DOMAIN x.senders : AddName(x, m, s).senders[k] = x.senders[k]
<1> DEFINE y == AddName(x, m, s)
<1>1. DOMAIN x = Fields /\ DOMAIN x.senders = x.names \ {n}
  BY DEF TubeOK
<1>2. /\ DOMAIN y = Fields /\ y.state = x.state /\ y.stream = x.stream /\ y.names = x.names \cup {m}
      /\ y.senders = With(x.senders, m, s) /\ y.program = x.program /\ y.queue = x.queue
      /\ y.got = x.got /\ y.lost = x.lost
  BY <1>1 DEF AddName, Fields
<1>3. PICK f : f = x.senders
  OBVIOUS
<1>4. /\ DOMAIN With(f, m, s) = {m} \cup DOMAIN f
      /\ With(f, m, s)[m] = s
      /\ \A u \in DOMAIN f : u # m => With(f, m, s)[u] = f[u]
  BY DEF With
<1> HIDE DEF y
<1>5. /\ DOMAIN y.senders = DOMAIN x.senders \cup {m} /\ y.senders[m] = s
      /\ \A k \in DOMAIN x.senders : y.senders[k] = x.senders[k]
  BY <1>1, <1>2, <1>3, <1>4
<1>6. TubeOK(y, n)
  BY <1>1, <1>2, <1>5 DEF TubeOK
<1> QED
  BY <1>2, <1>5, <1>6 DEF y, Store

\* Who is removed from a tube is no sender any more; nothing else of the tube changes.
LEMMA RemoveNameIs ==
    ASSUME NEW n \in Nodes, NEW x, TubeOK(x, n), NEW m \in Nodes, m # n
    PROVE  /\ TubeOK(RemoveName(x, m), n)
           /\ Store(RemoveName(x, m)) = Store(x) /\ RemoveName(x, m).lost = x.lost
           /\ RemoveName(x, m).program = x.program /\ RemoveName(x, m).state = x.state
           /\ RemoveName(x, m).stream = x.stream
           /\ DOMAIN RemoveName(x, m).senders = DOMAIN x.senders \ {m}
           /\ \A k \in DOMAIN x.senders : k # m => RemoveName(x, m).senders[k] = x.senders[k]
<1> DEFINE y == RemoveName(x, m)
<1>1. DOMAIN x = Fields /\ DOMAIN x.senders = x.names \ {n}
  BY DEF TubeOK
<1>2. /\ DOMAIN y = Fields /\ y.state = x.state /\ y.stream = x.stream /\ y.names = x.names \ {m}
      /\ y.senders = Without(x.senders, m) /\ y.program = x.program /\ y.queue = x.queue
      /\ y.got = x.got /\ y.lost = x.lost
  BY <1>1 DEF RemoveName, Fields
<1>3. PICK f : f = x.senders
  OBVIOUS
<1>4. DOMAIN Without(f, m) = DOMAIN f \ {m} /\ \A u \in DOMAIN f : u # m => Without(f, m)[u] = f[u]
  BY WithoutIs
<1> HIDE DEF y
<1>5. /\ DOMAIN y.senders = DOMAIN x.senders \ {m}
      /\ \A k \in DOMAIN x.senders : k # m => y.senders[k] = x.senders[k]
  BY <1>1, <1>2, <1>3, <1>4
<1>6. TubeOK(y, n)
  BY <1>1, <1>2, <1>5 DEF TubeOK
<1> QED
  BY <1>2, <1>5, <1>6 DEF y, Store

-----------------------------------------------------------------------------
(* muc_channel_handle_tubes *)

\* Ids that are new get different streams.
LEMMA RankIs ==
    ASSUME NEW S, S \subseteq Nat, IsFiniteSet(S)
    PROVE  /\ Cardinality(S) \in Nat
           /\ \A t \in S : Cardinality({u \in S : u <= t}) \in 1..Cardinality(S)
           /\ \A t, v \in S : Cardinality({u \in S : u <= t}) = Cardinality({u \in S : u <= v}) => t = v
<1> DEFINE R(t) == {u \in S : u <= t}
<1>1. Cardinality(S) \in Nat
  BY FS_CardinalityType
<1>2. ASSUME NEW t \in S
      PROVE  IsFiniteSet(R(t)) /\ Cardinality(R(t)) \in 1..Cardinality(S)
  <2>1. R(t) \subseteq S /\ t \in R(t)
    OBVIOUS
  <2> HIDE DEF R
  <2>2. IsFiniteSet(R(t)) /\ Cardinality(R(t)) <= Cardinality(S)
    BY <2>1, FS_Subset
  <2>3. Cardinality(R(t)) \in Nat /\ Cardinality(R(t)) # 0
    BY <2>1, <2>2, FS_CardinalityType, FS_EmptySet
  <2> QED
    BY <1>1, <2>2, <2>3
<1>3. ASSUME NEW t \in S, NEW v \in S, t < v PROVE Cardinality(R(t)) < Cardinality(R(v))
  <2>0. t \in Nat /\ v \in Nat /\ \A u \in S : u \in Nat
    OBVIOUS
  <2>a. ASSUME NEW u \in S, u <= t PROVE u <= v
    <3>1. u \in Nat
      BY <2>0
    <3> QED
      BY <1>3, <2>0, <2>a, <3>1
  <2>1. R(t) \subseteq R(v) /\ v \in R(v) /\ v \notin R(t)
    <3>1. R(t) \subseteq R(v)
      BY <2>a
    <3>2. v <= v /\ ~(v <= t)
      BY <1>3, <2>0
    <3> QED
      BY <3>1, <3>2
  <2>2. Cardinality(R(t)) \in Nat /\ Cardinality(R(v)) \in Nat /\ IsFiniteSet(R(v))
    <3> HIDE DEF R
    <3> QED
      BY <1>1, <1>2
  <2> HIDE DEF R
  <2>3. Cardinality(R(t)) <= Cardinality(R(v)) /\ (Cardinality(R(t)) = Cardinality(R(v)) => R(t) = R(v))
    BY <2>1, <2>2, FS_Subset
  <2> QED
    BY <2>1, <2>2, <2>3
<1>4. ASSUME NEW t \in S, NEW v \in S, Cardinality(R(t)) = Cardinality(R(v)) PROVE t = v
  <2> HIDE DEF R
  <2>1. Cardinality(R(t)) \in Nat /\ t \in Nat /\ v \in Nat
    BY <1>1, <1>2
  <2>2. ~(t < v) /\ ~(v < t)
    BY <1>3, <1>4, <2>1
  <2> QED
    BY <2>1, <2>2
<1> QED
  BY <1>1, <1>2, <1>4

\* A tube of the table that a list of m leaves to n.
LEMMA HandledIs ==
    ASSUME Shape, NEW n \in Nodes, NEW m \in Nodes, m # n, NEW list, DOMAIN list \subseteq Tubes,
           ~ \E t \in DOMAIN tubes[n] : IsStream(t),
           NEW t \in DOMAIN tubes[n] \cup DOMAIN list
    PROVE  LET x == IF Has(n, t) THEN tubes[n][t] ELSE NewTube("pending", StreamOf(n, t, list))
               y == HandleTubes(n, m, list)[t]
           IN  /\ IsStream(t) => y = x
               /\ ~IsStream(t) /\ t \notin DOMAIN list => y = RemoveName(x, m)
               /\ ~IsStream(t) /\ t \in DOMAIN list /\ m \in x.names => y = x
               /\ ~IsStream(t) /\ t \in DOMAIN list /\ m \notin x.names => y = AddName(x, m, list[t])
BY DEF HandleTubes

\* The stream of a new tube is new.
LEMMA StreamOfIs ==
    ASSUME Shape, NEW n \in Nodes, NEW list, DOMAIN list \subseteq Tubes
    PROVE  /\ Cardinality(NewOnes(n, list)) \in Nat
           /\ \A t \in NewOnes(n, list) :
                 StreamOf(n, t, list) \in last[n] + 1 .. last[n] + Cardinality(NewOnes(n, list))
           /\ \A t, v \in NewOnes(n, list) : StreamOf(n, t, list) = StreamOf(n, v, list) => t = v
           /\ \A t : StreamOf(n, t, list) \in Nat
<1>1. NewOnes(n, list) \subseteq Tubes
  BY DEF NewOnes
<1>2. NewOnes(n, list) \subseteq Nat /\ IsFiniteSet(NewOnes(n, list))
  BY <1>1, FS_Subset, MucTubesAssumption DEF MucTubesAssumption
<1>3. PICK S : S = NewOnes(n, list)
  OBVIOUS
<1>4. /\ Cardinality(S) \in Nat
      /\ \A t \in S : Cardinality({u \in S : u <= t}) \in 1..Cardinality(S)
      /\ \A t, v \in S : Cardinality({u \in S : u <= t}) = Cardinality({u \in S : u <= v}) => t = v
  BY <1>2, <1>3, RankIs
<1>5. last[n] \in Nat
  BY DEF Shape, TablesOK
<1>6. \A t : StreamOf(n, t, list) = IF IsStream(t) THEN 0 ELSE last[n] + Cardinality({u \in S : u <= t})
  BY <1>3 DEF StreamOf
<1>7. \A t \in S : ~IsStream(t)
  BY <1>3 DEF NewOnes
<1>8. \A t : Cardinality({u \in S : u <= t}) \in Nat
  <2> TAKE t
  <2> DEFINE R == {u \in S : u <= t}
  <2>1. R \subseteq S
    OBVIOUS
  <2> HIDE DEF R
  <2>2. Cardinality(R) \in Nat
    BY <1>2, <1>3, <2>1, FS_Subset, FS_CardinalityType
  <2> QED
    BY <2>2 DEF R
<1> DEFINE C(t) == Cardinality({u \in S : u <= t})
<1>9. /\ \A t \in S : C(t) \in 1..Cardinality(S)
      /\ \A t, v \in S : C(t) = C(v) => t = v
      /\ \A t : C(t) \in Nat
      /\ \A t : StreamOf(n, t, list) = IF IsStream(t) THEN 0 ELSE last[n] + C(t)
  BY <1>4, <1>6, <1>8
<1> HIDE DEF C
<1>10. \A t \in S : StreamOf(n, t, list) \in last[n] + 1 .. last[n] + Cardinality(S)
  BY <1>4, <1>5, <1>7, <1>9
<1>11. \A t, v \in S : StreamOf(n, t, list) = StreamOf(n, v, list) => t = v
  <2> TAKE t, v \in S
  <2>1. StreamOf(n, t, list) = last[n] + C(t) /\ StreamOf(n, v, list) = last[n] + C(v)
    BY <1>7, <1>9
  <2>2. C(t) \in Nat /\ C(v) \in Nat
    BY <1>9
  <2> QED
    BY <1>5, <1>9, <2>1, <2>2
<1>12. \A t : StreamOf(n, t, list) \in Nat
  BY <1>5, <1>9
<1> QED
  BY <1>3, <1>4, <1>10, <1>11, <1>12

-----------------------------------------------------------------------------
(* What a step does to two nodes *)

\* For n, m is as before on t: n has stored the same, or nothing, and knows the same of m.
Alike(n, m, t) ==
    LET x == tubes[n][t]
        y == tubes'[n][t]
    IN  Has(n, t)' =>
           \/ Store(y) = <<>> /\ m \notin DOMAIN y.senders
           \/ /\ Has(n, t)
              /\ \/ Store(y) = <<>>
                 \/ /\ Store(y) = Store(x) /\ (x.lost => y.lost)
                    /\ x.program = "hung up" => y.program = "hung up"
              /\ m \in DOMAIN y.senders <=> m \in DOMAIN x.senders
              /\ m \in DOMAIN x.senders => y.senders[m] = x.senders[m]

\* ... on every tube.
AllAlike(n, m) == \A t \in Tubes : Alike(n, m, t)

\* What n knows of m on t after an alike step, it knew before.
LEMMA AlikeKnows ==
    ASSUME NEW n \in Nodes, NEW m \in Nodes, NEW t \in Tubes, Alike(n, m, t)
    PROVE  Knows(n, m, t)' => Knows(n, m, t) /\ KnownStream(n, m, t)' = KnownStream(n, m, t)
<1>1. CASE Has(n, t)' /\ Store(tubes'[n][t]) = <<>> /\ m \notin DOMAIN tubes'[n][t].senders
  BY <1>1, EmptyIs DEF Knows
<1>2. CASE /\ Has(n, t)' /\ Has(n, t)
           /\ Store(tubes'[n][t]) = <<>>
           /\ m \in DOMAIN tubes'[n][t].senders <=> m \in DOMAIN tubes[n][t].senders
           /\ m \in DOMAIN tubes[n][t].senders => tubes'[n][t].senders[m] = tubes[n][t].senders[m]
  BY <1>2, EmptyIs DEF Knows, KnownStream
<1>3. CASE /\ Has(n, t)' /\ Has(n, t)
           /\ Store(tubes'[n][t]) = Store(tubes[n][t])
           /\ m \in DOMAIN tubes'[n][t].senders <=> m \in DOMAIN tubes[n][t].senders
           /\ m \in DOMAIN tubes[n][t].senders => tubes'[n][t].senders[m] = tubes[n][t].senders[m]
  BY <1>3 DEF Knows, KnownStream
<1> QED
  BY <1>1, <1>2, <1>3 DEF Alike, Knows

\* n and m have met each other, or not, as before.
MetAlike(n, m) ==
    /\ m \notin gone' /\ n \notin gone' /\ n \in met[m] => n \in met'[m]
    /\ m \notin gone' /\ m \in met[n] => m \in met'[n] \/ DOMAIN tubes'[n] = {}
    /\ m \in met'[n] /\ m \notin met[n] => (m \notin gone /\ m # n) \/ DOMAIN tubes'[n] = {}

\* Nothing is said and nobody comes back.
RoomAlike == scenario' = scenario /\ said' = said /\ gone \subseteq gone'

\* The order on t survives a step after which n is alike towards m.
LEMMA OrderedKept ==
    ASSUME NEW q, NEW n \in Nodes, NEW m \in Nodes, NEW t \in Tubes,
           OrderedAt(q, n, m, t), RoomAlike, Alike(n, m, t), MetAlike(n, m),
           m # n => \E p : StrangersAt(p, n, m)
    PROVE  OrderedAt(q, n, m, t)'
<1> SUFFICES ASSUME Has(n, t)', Store(tubes'[n][t]) # <<>>
             PROVE  /\ Has(n, t) /\ Store(tubes'[n][t]) = Store(tubes[n][t])
                    /\ tubes[n][t].lost => tubes'[n][t].lost
                    /\ \/ Deaf(n, m, t) => Deaf(n, m, t)'
                       \/ \A i \in DOMAIN Store(tubes[n][t]) : Store(tubes[n][t])[i].from # m
  BY KeepOrdered DEF RoomAlike
<1>1. /\ Has(n, t) /\ Store(tubes'[n][t]) = Store(tubes[n][t])
      /\ tubes[n][t].lost => tubes'[n][t].lost
      /\ tubes[n][t].program = "hung up" => tubes'[n][t].program = "hung up"
  BY DEF Alike
<1>2. CASE m \in met'[n] /\ m \notin met[n]
  <2>1. m \notin gone /\ m # n
    BY <1>2 DEF MetAlike, Has
  <2>2. ~Knows(n, m, t)
    BY <1>2, <2>1 DEF StrangersAt
  <2> QED
    BY <1>1, <2>2 DEF Knows
<1>3. CASE ~(m \in met'[n] /\ m \notin met[n])
  BY <1>1, <1>3 DEF Deaf
<1> QED
  BY <1>1, <1>2, <1>3

\* Strangers stay strangers in a step after which n is alike towards m.
LEMMA StrangersKept ==
    ASSUME NEW q, NEW n \in Nodes, NEW m \in Nodes, StrangersAt(q, n, m),
           RoomAlike, MetAlike(n, m), AllAlike(n, m)
    PROVE  StrangersAt(q, n, m)'
<1>1. \A t \in Tubes : Knows(n, m, t)' => Knows(n, m, t)
  BY AlikeKnows DEF AllAlike
<1>2. DOMAIN tubes'[n] = {} => \A t \in Tubes : ~Knows(n, m, t)'
  BY DEF Knows, Has
<1> QED
  BY <1>1, <1>2 DEF StrangersAt, MetAlike, RoomAlike

\* Whom m has told of its tubes hears no more of them.
NowAlike(n, m) ==
    m # n /\ scenario.streams = {} /\ n \in met'[m] =>
       n \in met[m] /\ \A t \in Tubes : Now(m, t)' = Now(m, t)

\* Nothing is sent.
LEMMA PairKept ==
    ASSUME NEW q, NEW n \in Nodes, NEW m \in Nodes, Pair(q, n, m),
           RoomAlike, MetAlike(n, m), AllAlike(n, m), NowAlike(n, m)
    PROVE  Pair(q, n, m)'
<1>1. \A t \in Tubes : OrderedAt(q, n, m, t)'
  BY OrderedKept DEF Pair, AllAlike
<1>2. m # n => StrangersAt(q, n, m)'
  BY StrangersKept DEF Pair
<1>3. ASSUME m # n, scenario.streams = {}, NEW t \in Tubes PROVE ConsistentAt(q, n, m, t)'
  BY <1>3, AlikeKnows, KeepConsistent DEF Pair, AllAlike, NowAlike
<1> QED
  BY <1>1, <1>2, <1>3 DEF Pair, RoomAlike

\* Nothing has come, and nothing is known.
LEMMA PairEmpty ==
    ASSUME NEW n \in Nodes, NEW m \in Nodes, tubes'[n] = <<>>
    PROVE  Pair(<<>>, n, m)'
<1>0. \A t : ~Has(n, t)' /\ ~Knows(n, m, t)'
  BY EmptyIs DEF Has, Knows
<1>1. \A t \in Tubes : OrderedAt(<<>>, n, m, t)'
  BY <1>0, EmptyIs DEF OrderedAt, Mailed, Complete, On
<1>2. StrangersAt(<<>>, n, m)'
  BY <1>0 DEF StrangersAt
<1>3. \A t \in Tubes : ConsistentAt(<<>>, n, m, t)'
  BY <1>0, EmptyIs DEF ConsistentAt, Chained, Ends
<1> QED
  BY <1>1, <1>2, <1>3 DEF Pair

\* Something is sent that is not about tubes.
LEMMA PairSilent ==
    ASSUME NEW q, IsQueue(q), NEW n \in Nodes, NEW m \in Nodes, n \in met[m], Pair(q, n, m),
           NEW x, x.kind = "properties"
    PROVE  Pair(Append(q, x), n, m)
<1>1. \A t \in Tubes : OrderedAt(Append(q, x), n, m, t)
  BY AppendOrdered DEF Pair
<1>2. m # n => StrangersAt(Append(q, x), n, m)
  BY DEF Pair, StrangersAt
<1>3. ASSUME m # n, scenario.streams = {}, NEW t \in Tubes PROVE ConsistentAt(Append(q, x), n, m, t)
  <2>1. ~Tells(x, t) /\ ConsistentAt(q, n, m, t)
    BY <1>3 DEF Tells, Pair
  <2>2. PICK knows, s, now : knows = Knows(n, m, t) /\ s = KnownStream(n, m, t) /\ now = Now(m, t)
    OBVIOUS
  <2>3. Chained(q, t, knows, s) /\ (n \in met[m] => Ends(q, t, knows, s, now))
    BY <2>1, <2>2 DEF ConsistentAt
  <2>4. Chained(Append(q, x), t, knows, s) /\ (n \in met[m] => Ends(Append(q, x), t, knows, s, now))
    BY <2>1, <2>3, AppendSilent
  <2> QED
    BY <2>2, <2>4 DEF ConsistentAt
<1> QED
  BY <1>1, <1>2, <1>3 DEF Pair

\* ... and read.
LEMMA PairRead ==
    ASSUME Shape, NEW q, IsQueue(q), q # <<>>, NEW n \in Nodes, NEW m \in Nodes, m # n, Pair(q, n, m),
           Head(q).kind = "properties"
    PROVE  Pair(Tail(q), n, m)
<1>1. \A t \in Tubes : OrderedAt(Tail(q), n, m, t)
  BY TailOrdered DEF Pair
<1>2. StrangersAt(Tail(q), n, m)
  BY DEF Pair, StrangersAt
<1>3. ASSUME scenario.streams = {}, NEW t \in Tubes PROVE ConsistentAt(Tail(q), n, m, t)
  <2>1. ~Tells(Head(q), t) /\ ConsistentAt(q, n, m, t)
    BY <1>3 DEF Tells, Pair
  <2>2. PICK knows, s, now : knows = Knows(n, m, t) /\ s = KnownStream(n, m, t) /\ now = Now(m, t)
    OBVIOUS
  <2>3. Chained(q, t, knows, s) /\ (n \in met[m] => Ends(q, t, knows, s, now))
    BY <2>1, <2>2 DEF ConsistentAt
  <2>4. Chained(Tail(q), t, knows, s) /\ (n \in met[m] => Ends(Tail(q), t, knows, s, now))
    BY <2>1, <2>3, TailSilent
  <2> QED
    BY <2>2, <2>4 DEF ConsistentAt
<1> QED
  BY <1>1, <1>2, <1>3 DEF Pair

\* A node tells of its tubes, once or twice; s and now are its stream before and since.
LEMMA ListChained ==
    ASSUME NEW q, IsQueue(q), NEW x, NEW t, NEW knows, NEW k, NEW s, NEW now,
           Chained(q, t, knows, k), Ends(q, t, knows, k, s), x.kind = "tubes", Told(x, t) = now,
           s = now \/ s = 0 \/ now = 0,
           NEW a, a = Append(q, x) \/ a = Append(Append(q, x), x)
    PROVE  Chained(a, t, knows, k) /\ Ends(a, t, knows, k, now)
<1>1. Tells(x, t) /\ Continues(s, x, t) /\ Continues(now, x, t)
  BY DEF Tells, Continues
<1>2. Chained(Append(q, x), t, knows, k) /\ Ends(Append(q, x), t, knows, k, now)
  BY <1>1, AppendTells
<1>3. PICK b : b = Append(q, x)
  OBVIOUS
<1>4. IsQueue(b)
  BY <1>3, AppendIs
<1>5. Chained(b, t, knows, k) /\ Ends(b, t, knows, k, now)
  BY <1>2, <1>3
<1>6. Chained(Append(b, x), t, knows, k) /\ Ends(Append(b, x), t, knows, k, now)
  BY <1>1, <1>4, <1>5, AppendTells
<1> QED
  BY <1>2, <1>3, <1>6

\* A list, sent once or twice, does not disturb the order of the messages.
LEMMA ListOrdered ==
    ASSUME NEW q, IsQueue(q), NEW n \in Nodes, NEW m \in Nodes, NEW t \in Tubes, NEW x,
           OrderedAt(q, n, m, t), x.kind = "tubes",
           NEW a, a = Append(q, x) \/ a = Append(Append(q, x), x)
    PROVE  OrderedAt(a, n, m, t)
<1>1. PICK b : b = Append(q, x)
  OBVIOUS
<1>2. IsQueue(b) /\ OrderedAt(b, n, m, t)
  BY <1>1, AppendIs, AppendOrdered
<1>3. OrderedAt(Append(b, x), n, m, t)
  BY <1>2, AppendOrdered
<1> QED
  BY <1>1, <1>2, <1>3

\* x tells the streams that m uses after the step.
ToldNow(x, m) ==
    \A t \in Tubes : /\ Told(x, t) = Now(m, t)'
                     /\ Now(m, t)' = Now(m, t) \/ Now(m, t) = 0 \/ Now(m, t)' = 0

\* A list that tells what is now true keeps a pair as the invariant wants it.
LEMMA PairTold ==
    ASSUME NEW q, IsQueue(q), NEW n \in Nodes, NEW m \in Nodes, m # n, Pair(q, n, m),
           NEW x, x.kind = "tubes", NEW a, a = Append(q, x) \/ a = Append(Append(q, x), x),
           n \in met[m] \/ (n \notin gone /\ m \notin gone), n \in met'[m],
           RoomAlike, MetAlike(n, m), AllAlike(n, m), ToldNow(x, m)
    PROVE  Pair(a, n, m)'
<1>1. \A t \in Tubes : OrderedAt(a, n, m, t)'
  <2> SUFFICES ASSUME NEW t \in Tubes PROVE OrderedAt(a, n, m, t)'
    OBVIOUS
  <2>1. OrderedAt(a, n, m, t)
    BY ListOrdered DEF Pair
  <2>2. \E p : StrangersAt(p, n, m)
    BY DEF Pair
  <2> QED
    BY <2>1, <2>2, OrderedKept DEF AllAlike
<1>2. StrangersAt(a, n, m)'
  <2>1. StrangersAt(q, n, m)'
    BY StrangersKept DEF Pair
  <2> QED
    BY <2>1 DEF StrangersAt
<1>3. ASSUME scenario.streams = {}, NEW t \in Tubes PROVE ConsistentAt(a, n, m, t)'
  <2>2. PICK knows, k, s, now : /\ knows = Knows(n, m, t) /\ k = KnownStream(n, m, t)
                                /\ s = Now(m, t) /\ now = Now(m, t)'
    OBVIOUS
  <2>3. Chained(q, t, knows, k) /\ (n \in met[m] => Ends(q, t, knows, k, s))
    BY <1>3, <2>2 DEF ConsistentAt, Pair
  <2>4. Ends(q, t, knows, k, s)
    <3>1. CASE n \in met[m]
      BY <2>3, <3>1
    <3>2. CASE n \notin met[m] /\ n \notin gone /\ m \notin gone
      <4>1. q = <<>> /\ ~knows
        BY <2>2, <3>2 DEF Pair, StrangersAt
      <4> QED
        BY <4>1, EmptyChained
    <3> QED
      BY <3>1, <3>2
  <2>5. Told(x, t) = now /\ (s = now \/ s = 0 \/ now = 0)
    BY <2>2 DEF ToldNow
  <2>6. Chained(a, t, knows, k) /\ Ends(a, t, knows, k, now)
    BY <2>3, <2>4, <2>5, ListChained
  <2>7. PICK known, l : known = Knows(n, m, t)' /\ l = KnownStream(n, m, t)'
    OBVIOUS
  <2>8. known => knows /\ l = k
    BY <2>2, <2>7, AlikeKnows DEF AllAlike
  <2>9. Chained(a, t, known, l) /\ Ends(a, t, known, l, now)
    <3>1. CASE known
      BY <2>6, <2>8, <3>1 DEF Chained, Ends
    <3>2. CASE ~known
      BY <2>6, <3>2 DEF Chained, Ends
    <3> QED
      BY <3>1, <3>2
  <2> QED
    BY <2>2, <2>7, <2>9 DEF ConsistentAt
<1> QED
  BY <1>1, <1>2, <1>3 DEF Pair, RoomAlike

-----------------------------------------------------------------------------
(* A message is stored *)

\* What is in a store after x was put in.
LEMMA StoreIs ==
    ASSUME NEW st, IsQueue(st), NEW x, NEW m
    PROVE  /\ Numbers(Append(st, x), m) = Numbers(st, m) \cup (IF x.from = m THEN {x.number} ELSE {})
           /\ \A i \in DOMAIN Append(st, x) :
                 (i \in DOMAIN st /\ Append(st, x)[i] = st[i]) \/ (i \notin DOMAIN st /\ Append(st, x)[i] = x)
<1> DEFINE s == Append(st, x)
           l == Len(st)
<1>1. /\ l \in Nat /\ DOMAIN st = 1..l /\ DOMAIN s = 1..l+1
      /\ \A i \in 1..l : s[i] = st[i]
      /\ s[l + 1] = x
  BY AppendIs, QueueIs
<1> HIDE DEF s, l
<1>2. \A i \in DOMAIN s : (i \in DOMAIN st /\ s[i] = st[i]) \/ (i \notin DOMAIN st /\ s[i] = x)
  BY <1>1
<1>3. DOMAIN st \subseteq DOMAIN s /\ l + 1 \in DOMAIN s
  BY <1>1
<1>4. Numbers(s, m) = Numbers(st, m) \cup (IF x.from = m THEN {x.number} ELSE {})
  <2>1. ASSUME NEW k \in Numbers(s, m) PROVE k \in Numbers(st, m) \/ (x.from = m /\ k = x.number)
    <3>1. PICK i \in DOMAIN s : s[i].from = m /\ s[i].number = k
      BY <2>1 DEF Numbers
    <3> QED
      BY <1>2, <3>1 DEF Numbers
  <2>2. ASSUME NEW k \in Numbers(st, m) PROVE k \in Numbers(s, m)
    <3>1. PICK i \in DOMAIN st : st[i].from = m /\ st[i].number = k
      BY <2>2 DEF Numbers
    <3>2. i \in DOMAIN s /\ s[i] = st[i]
      BY <1>1, <1>3
    <3> QED
      BY <3>1, <3>2 DEF Numbers
  <2>3. x.from = m => x.number \in Numbers(s, m)
    BY <1>1, <1>3 DEF Numbers
  <2> QED
    BY <2>1, <2>2, <2>3
<1> QED
  BY <1>2, <1>4 DEF s

\* The last of its sender.
Latest(st, x) == \A i \in DOMAIN st : st[i].from = x.from => st[i].number < x.number

\* A later message of its sender may be put into the store.
LEMMA StoredAppend ==
    ASSUME NEW st, IsQueue(st), NEW n, NEW t, NEW sd, Stored(st, n, t, sd),
           NEW x, x.from \in Nodes, x.tube = t, x.dest \in {All, n},
           x.number \in 1..Len(sd[x.from][t]), Latest(st, x)
    PROVE  Stored(Append(st, x), n, t, sd)
<1> DEFINE s == Append(st, x)
<1>1. \A i \in DOMAIN s : (i \in DOMAIN st /\ s[i] = st[i]) \/ (i = Len(st) + 1 /\ s[i] = x)
  BY AppendIs, QueueIs
<1>2. \A i \in DOMAIN st : i \in Nat /\ i <= Len(st)
  BY QueueIs
<1>3. Len(st) \in Nat
  BY QueueIs
<1> HIDE DEF s
<1>4. ASSUME NEW i \in DOMAIN s, NEW j \in DOMAIN s, i < j, s[i].from = s[j].from
      PROVE  s[i].number < s[j].number
  <2>1. i \in DOMAIN st /\ s[i] = st[i]
    BY <1>1, <1>2, <1>3, <1>4
  <2>2. CASE j \in DOMAIN st /\ s[j] = st[j]
    BY <1>4, <2>1, <2>2 DEF Stored
  <2>3. CASE s[j] = x
    BY <1>4, <2>1, <2>3 DEF Latest
  <2> QED
    BY <1>1, <2>2, <2>3
<1>5. ASSUME NEW i \in DOMAIN s
      PROVE  /\ s[i].from \in Nodes /\ s[i].tube = t /\ s[i].dest \in {All, n}
             /\ s[i].number \in 1..Len(sd[s[i].from][t])
  BY <1>1 DEF Stored
<1> QED
  BY <1>4, <1>5 DEF Stored, s

\* A message of another node does not matter to m.
LEMMA OtherStored ==
    ASSUME NEW st, IsQueue(st), NEW x, NEW q, NEW n, NEW m, NEW t, x.from # m
    PROVE  /\ Before(st, q, m, t) => Before(Append(st, x), q, m, t)
           /\ \A words, deaf : NoGap(st, q, n, t, words, m, deaf)
                                  => NoGap(Append(st, x), q, n, t, words, m, deaf)
<1>1. PICK s : s = Append(st, x)
  OBVIOUS
<1>2. \A i \in DOMAIN s : s[i].from = m => i \in DOMAIN st /\ s[i] = st[i]
  BY <1>1, StoreIs
<1>3. Numbers(s, m) = Numbers(st, m)
  <2>1. Numbers(Append(st, x), m) = Numbers(st, m) \cup (IF x.from = m THEN {x.number} ELSE {})
    BY StoreIs
  <2> QED
    BY <1>1, <2>1
<1>4. Before(st, q, m, t) => Before(s, q, m, t)
  BY <1>2 DEF Before
<1>5. ASSUME NEW words, NEW deaf, NoGap(st, q, n, t, words, m, deaf)
      PROVE  NoGap(s, q, n, t, words, m, deaf)
  <2> SUFFICES ASSUME NEW i \in DOMAIN s, s[i].from = m, NEW k \in s[i].number .. Len(words),
                      words[k] \in {All, n}
               PROVE  \/ k \in Numbers(s, m)
                      \/ \E j \in On(q, t) : q[j].what.number = k
                      \/ deaf /\ \A j \in DOMAIN s : s[j].from = m => s[j].number < k
    BY DEF NoGap
  <2>1. \/ k \in Numbers(st, m)
        \/ \E j \in On(q, t) : q[j].what.number = k
        \/ deaf /\ \A j \in DOMAIN st : st[j].from = m => st[j].number < k
    BY <1>2, <1>5 DEF NoGap
  <2> QED
    BY <1>2, <1>3, <2>1
<1> QED
  BY <1>1, <1>4, <1>5

\* The first message on its way is stored.
LEMMA ReadStored ==
    ASSUME NEW q, IsQueue(q), q # <<>>, NEW n, NEW m, NEW t, NEW words, Len(words) \in Nat,
           Mailed(q, m, t, words), Complete(q, t, words), 1 \in On(q, t),
           NEW st, IsQueue(st), Before(st, q, m, t), \A i \in DOMAIN st : st[i].number \in Nat,
           NEW x, x = Head(q).what
    PROVE  /\ x.from = m /\ x.number \in 1..Len(words) /\ Latest(st, x)
           /\ Before(Append(st, x), Tail(q), m, t)
           /\ NoGap(st, q, n, t, words, m, FALSE) => NoGap(Append(st, x), Tail(q), n, t, words, m, FALSE)
<1>1. PICK a, s : a = Tail(q) /\ s = Append(st, x)
  OBVIOUS
<1>2. x = q[1].what
  BY TailOn
<1>3. LessOn(q, a, t) /\ Above(a, t, x.number)
  BY <1>1, TailOn, TailMailed
<1>4. x.from = m /\ x.number \in 1..Len(words)
  BY <1>2 DEF Mailed
<1>5. Latest(st, x)
  BY <1>2, <1>4 DEF Latest, Before
<1>6. \A i \in DOMAIN s : s[i].from = m => (i \in DOMAIN st /\ s[i] = st[i]) \/ s[i] = x
  BY <1>1, StoreIs
<1>7. Numbers(s, m) = Numbers(st, m) \cup {x.number}
  BY <1>1, <1>4, StoreIs
<1>8. Before(s, a, m, t)
  <2> SUFFICES ASSUME NEW i \in DOMAIN s, NEW j \in On(a, t), s[i].from = m
               PROVE  s[i].number < a[j].what.number
    BY DEF Before
  <2>1. j + 1 \in On(q, t) /\ a[j] = q[j + 1] /\ x.number < a[j].what.number
    BY <1>3 DEF LessOn, Above
  <2> QED
    BY <1>6, <2>1 DEF Before
<1>9. ASSUME NoGap(st, q, n, t, words, m, FALSE) PROVE NoGap(s, a, n, t, words, m, FALSE)
  <2> SUFFICES ASSUME NEW i \in DOMAIN s, s[i].from = m, NEW k \in s[i].number .. Len(words),
                      words[k] \in {All, n}
               PROVE  k \in Numbers(s, m) \/ \E j \in On(a, t) : a[j].what.number = k
    BY DEF NoGap
  <2>1. k \in Numbers(st, m) \/ \E j \in On(q, t) : q[j].what.number = k
    <3>1. CASE i \in DOMAIN st /\ s[i] = st[i]
      BY <1>9, <3>1 DEF NoGap
    <3>2. CASE s[i] = x
      BY <1>2, <3>2 DEF Complete
    <3> QED
      BY <1>6, <3>1, <3>2
  <2>2. ASSUME NEW j \in On(q, t), q[j].what.number = k, k # x.number
        PROVE  \E l \in On(a, t) : a[l].what.number = k
    <3>1. j # 1
      BY <1>2, <2>2
    <3>2. j - 1 \in On(a, t) /\ a[j - 1] = q[j]
      BY <1>3, <3>1 DEF LessOn
    <3> QED
      BY <2>2, <3>2
  <2> QED
    BY <1>7, <2>1, <2>2
<1> QED
  BY <1>1, <1>4, <1>5, <1>8, <1>9

\* What comes after all of q comes after what follows its head.
LEMMA TailBefore ==
    ASSUME NEW q, IsQueue(q), q # <<>>, NEW m, NEW t, NEW st, Before(st, q, m, t)
    PROVE  Before(st, Tail(q), m, t)
<1>1. PICK a : a = Tail(q)
  OBVIOUS
<1>2. LessOn(q, a, t)
  BY <1>1, TailOn
<1>3. Before(st, a, m, t)
  BY <1>2 DEF Before, LessOn
<1> QED
  BY <1>1, <1>3

\* The first message on its way is not stored, for it is not for n, or n has heard
\* nothing of m, or listens no more.
LEMMA ReadMissed ==
    ASSUME NEW q, IsQueue(q), q # <<>>, NEW n, NEW m, NEW t, NEW words, Len(words) \in Nat,
           Mailed(q, m, t, words), 1 \in On(q, t),
           NEW st, IsQueue(st), Before(st, q, m, t), NEW was, NEW deaf, was => deaf,
           \/ Head(q).what.dest \notin {All, n}
           \/ \A i \in DOMAIN st : st[i].from # m
           \/ deaf
    PROVE  NoGap(st, q, n, t, words, m, was) => NoGap(st, Tail(q), n, t, words, m, deaf)
<1>1. PICK a, x : a = Tail(q) /\ x = q[1].what
  OBVIOUS
<1>2. Head(q).what = x
  BY <1>1, TailOn
<1>3. LessOn(q, a, t)
  BY <1>1, TailOn
<1>4. x.number \in 1..Len(words) /\ words[x.number] = x.dest
  BY <1>1 DEF Mailed
<1>6. ASSUME NoGap(st, q, n, t, words, m, was) PROVE NoGap(st, a, n, t, words, m, deaf)
  <2> SUFFICES ASSUME NEW i \in DOMAIN st, st[i].from = m, NEW k \in st[i].number .. Len(words),
                      words[k] \in {All, n}
               PROVE  \/ k \in Numbers(st, m)
                      \/ \E j \in On(a, t) : a[j].what.number = k
                      \/ deaf /\ \A j \in DOMAIN st : st[j].from = m => st[j].number < k
    BY DEF NoGap
  <2>1. \/ k \in Numbers(st, m)
        \/ \E j \in On(q, t) : q[j].what.number = k
        \/ was /\ \A j \in DOMAIN st : st[j].from = m => st[j].number < k
    BY <1>6 DEF NoGap
  <2>2. ASSUME NEW j \in On(q, t), q[j].what.number = k, j # 1
        PROVE  \E l \in On(a, t) : a[l].what.number = k
    <3>1. j - 1 \in On(a, t) /\ a[j - 1] = q[j]
      BY <1>3, <2>2 DEF LessOn
    <3> QED
      BY <2>2, <3>1
  <2>3. CASE k = x.number
    <3>1. deaf
      BY <1>2, <1>4, <2>3
    <3>2. \A j \in DOMAIN st : st[j].from = m => st[j].number < k
      BY <1>1, <2>3 DEF Before
    <3> QED
      BY <3>1, <3>2
  <2>4. CASE k # x.number
    BY <1>1, <2>1, <2>2, <2>4
  <2> QED
    BY <2>3, <2>4
<1> QED
  BY <1>1, <1>6

-----------------------------------------------------------------------------
(* Shapes and streams *)

\* Sending keeps the form of the mail.
LEMMA PostedOK ==
    ASSUME NEW box, MailOK(box), NEW after, NEW n \in Nodes, NEW members, NEW x,
           Posted(box, after, n, members, x)
    PROVE  MailOK(after)
<1>1. \A m \in Nodes : after[m][m] = <<>>
  BY DEF MailOK, Posted
<1>2. \A m, k \in Nodes : IsQueue(box[m][k]) /\ IsQueue(Append(box[m][k], x))
  BY AppendIs DEF MailOK
<1>3. \A m, k \in Nodes : IsQueue(after[m][k])
  BY <1>2 DEF Posted
<1> QED
  BY <1>1, <1>3 DEF MailOK, Posted

\* Sending something that fits the streams keeps all of the mail fitting.
LEMMA PostedFits ==
    ASSUME NEW box, MailOK(box), NEW after, NEW n \in Nodes, NEW members, NEW x,
           Posted(box, after, n, members, x), NEW of, NEW ls, MailFits(of, ls, box), ItemFits(of, ls, n, x)
    PROVE  MailFits(of, ls, after)
<1> SUFFICES ASSUME NEW k \in Nodes, NEW m \in Nodes, NEW i \in DOMAIN after[m][k]
             PROVE  ItemFits(of, ls, m, after[m][k][i])
  BY DEF MailFits
<1>1. CASE after[m][k] = box[m][k]
  BY <1>1 DEF MailFits
<1>2. CASE m = n /\ after[m][k] = Append(box[m][k], x)
  <2>1. PICK q : q = box[m][k]
    OBVIOUS
  <2>2. IsQueue(q)
    BY <2>1 DEF MailOK
  <2>3. (i \in DOMAIN q /\ Append(q, x)[i] = q[i]) \/ Append(q, x)[i] = x
    BY <1>2, <2>1, <2>2, StoreIs
  <2> QED
    BY <1>2, <2>1, <2>3 DEF MailFits
<1> QED
  BY <1>1, <1>2 DEF Posted

\* n has read what m sent first.
Reading(box, after, n, m) ==
    /\ Mailbox(after)
    /\ \A k, l \in Nodes : after[k][l] = IF k = m /\ l = n THEN Tail(box[k][l]) ELSE box[k][l]

\* Reading keeps the form of the mail.
LEMMA ReadingOK ==
    ASSUME NEW box, MailOK(box), NEW after, NEW n \in Nodes, NEW m \in Nodes, m # n,
           box[m][n] # <<>>, Reading(box, after, n, m)
    PROVE  MailOK(after)
<1>1. IsQueue(Tail(box[m][n]))
  BY TailIs DEF MailOK
<1>2. \A k \in Nodes : after[k][k] = <<>>
  BY DEF MailOK, Reading
<1>3. \A k, l \in Nodes : IsQueue(after[k][l])
  BY <1>1 DEF Reading, MailOK
<1> QED
  BY <1>2, <1>3 DEF MailOK, Reading

\* Reading keeps the mail fitting the streams, and what is read fits them.
LEMMA ReadingFits ==
    ASSUME NEW box, MailOK(box), NEW after, NEW n \in Nodes, NEW m \in Nodes,
           box[m][n] # <<>>, Reading(box, after, n, m), NEW of, NEW ls, MailFits(of, ls, box)
    PROVE  MailFits(of, ls, after) /\ ItemFits(of, ls, m, Head(box[m][n]))
<1>1. PICK q : q = box[m][n]
  OBVIOUS
<1>2. IsQueue(q) /\ q # <<>>
  BY <1>1 DEF MailOK
<1>3. /\ \A i \in DOMAIN Tail(q) : i + 1 \in DOMAIN q /\ Tail(q)[i] = q[i + 1]
      /\ 1 \in DOMAIN q /\ Head(q) = q[1]
  <2>1. /\ Len(q) \in Nat /\ Len(q) > 0 /\ DOMAIN q = 1..Len(q) /\ DOMAIN Tail(q) = 1 .. Len(q) - 1
        /\ Head(q) = q[1]
    BY <1>2, QueueIs, TailIs
  <2>2. \A i \in DOMAIN Tail(q) : Tail(q)[i] = q[i + 1]
    BY <1>2, TailIs
  <2> QED
    BY <2>1, <2>2
<1>4. ItemFits(of, ls, m, Head(q))
  BY <1>1, <1>3 DEF MailFits
<1>5. ASSUME NEW l \in Nodes, NEW k \in Nodes, NEW i \in DOMAIN after[k][l]
      PROVE  ItemFits(of, ls, k, after[k][l][i])
  <2>1. CASE k = m /\ l = n
    <3>1. after[k][l] = Tail(q)
      BY <1>1, <2>1 DEF Reading
    <3> QED
      BY <1>1, <1>3, <1>5, <2>1, <3>1 DEF MailFits
  <2>2. CASE ~(k = m /\ l = n)
    BY <1>5, <2>2 DEF Reading, MailFits
  <2> QED
    BY <2>1, <2>2
<1> QED
  BY <1>1, <1>4, <1>5 DEF MailFits

\* What is announced of a table fits as the table does.
LEMMA ListFits ==
    ASSUME NEW of, NEW ls, NEW table, NEW n, TableOK(table, n), TableFits(of, ls, table, n)
    PROVE  ItemFits(of, ls, n, List(table))
BY DEF ItemFits, List, TableFits, TableOK, Publish

\* More streams are used.
LEMMA FitsMore ==
    ASSUME NEW of, NEW ls, NEW more, NEW ms,
           \A n \in Nodes : ls[n] \in Nat /\ ms[n] \in Nat /\ ls[n] <= ms[n]
                            /\ \A s \in 1..ls[n] : more[n][s] = of[n][s]
    PROVE  /\ \A n \in Nodes : \A s, t : StreamFits(of, ls, n, s, t) => StreamFits(more, ms, n, s, t)
           /\ \A box : MailFits(of, ls, box) => MailFits(more, ms, box)
           /\ \A n \in Nodes : \A table :
                 TableOK(table, n) /\ TableFits(of, ls, table, n) => TableFits(more, ms, table, n)
<1>1. ASSUME NEW n \in Nodes, NEW s, NEW t, StreamFits(of, ls, n, s, t) PROVE StreamFits(more, ms, n, s, t)
  BY <1>1 DEF StreamFits
<1>2. \A m \in Nodes : \A x : ItemFits(of, ls, m, x) => ItemFits(more, ms, m, x)
  BY <1>1 DEF ItemFits
<1>3. \A box : MailFits(of, ls, box) => MailFits(more, ms, box)
  BY <1>2 DEF MailFits
<1>4. ASSUME NEW n \in Nodes, NEW table, TableOK(table, n), TableFits(of, ls, table, n)
      PROVE  TableFits(more, ms, table, n)
  <2>1. \A t \in DOMAIN table : DOMAIN table[t].senders \subseteq Nodes
    BY <1>4 DEF TableOK, TubeOK
  <2> QED
    BY <1>1, <1>4, <2>1 DEF TableFits
<1> QED
  BY <1>1, <1>3, <1>4

\* If tables and mail fit the streams after the step, the invariant has its witness.
LEMMA StreamsStay ==
    ASSUME scenario' = scenario, NEW of, of \in [Nodes -> [Nat -> Tubes \cup {0}]],
           NEW ls, ls = last', NEW tbs, tbs = tubes', NEW box, box = mail',
           \A n \in Nodes : TableFits(of, ls, tbs[n], n), MailFits(of, ls, box)
    PROVE  StreamsFit(of)'
<1>1. \A n \in Nodes : TableFits(of, ls, tbs[n], n)'
  BY DEF TableFits, IsStream
<1>2. MailFits(of, ls, box)'
  BY DEF MailFits, ItemFits, IsStream
<1> QED
  BY <1>1, <1>2 DEF StreamsFit, TableFits, MailFits, ItemFits

\* One table changes.
Alters(n, table) ==
    DOMAIN tubes' = Nodes /\ tubes'[n] = table /\ \A k \in Nodes : k # n => tubes'[k] = tubes[k]

\* An EXCEPT at n changes only the table of n.
LEMMA AltersIs ==
    ASSUME TablesOK, NEW n \in Nodes, NEW table, tubes' = [tubes EXCEPT ![n] = table]
    PROVE  Alters(n, table)
BY DEF TablesOK, Alters

\* One table changes to one of the right form: all have it.
LEMMA TablesStay ==
    ASSUME TablesOK, NEW n \in Nodes, n \in joined, joined' = joined, NEW table, TableOK(table, n),
           Alters(n, table), last' \in [Nodes -> Nat]
    PROVE  TablesOK'
BY DEF TablesOK, Alters

-----------------------------------------------------------------------------
(* What a node does to its table, and tells *)

\* Of what the table of n becomes the others need not hear, or x tells them.
MailAlike(n, x) ==
    \A m, k \in Nodes :
       IF m = n /\ k \in met'[n] \ {n}
       THEN \/ /\ mail'[m][k] = mail[m][k]
               /\ scenario.streams = {} => k \in met[n] /\ \A t \in Tubes : Now(n, t)' = Now(n, t)
            \/ /\ \/ mail'[m][k] = Append(mail[m][k], x)
                  \/ mail'[m][k] = Append(Append(mail[m][k], x), x)
               /\ x.kind = "tubes" /\ ToldNow(x, n)
       ELSE mail'[m][k] = mail[m][k]

\* All pairs stay as the invariant wants them when n tells the others of a change to its table.
LEMMA TellPairs ==
    ASSUME IInv, NEW n \in Nodes, n \in joined, NEW x, MailAlike(n, x), RoomAlike, gone' = gone,
           \A k \in Nodes : k # n => tubes'[k] = tubes[k] /\ met'[k] = met[k],
           met[n] \subseteq met'[n], \A k \in met'[n] \ met[n] : k \in joined /\ k # n,
           \A m \in Nodes : AllAlike(n, m)
    PROVE  Pairs'
<1> SUFFICES ASSUME NEW k \in Nodes, NEW m \in Nodes PROVE Pair(mail[m][k], k, m)'
  BY DEF Pairs
<1>1. Pair(mail[m][k], k, m) /\ IsQueue(mail[m][k])
  BY DEF IInv, Pairs, Shape, MailOK
<1>2. AllAlike(k, m)
  <2>1. CASE k = n
    BY <2>1
  <2>2. CASE k # n
    BY <2>2 DEF AllAlike, Alike, Has
  <2> QED
    BY <2>1, <2>2
<1>3. MetAlike(k, m)
  <2>1. joined \cap gone = {}
    BY DEF IInv, Shape, RoomOK
  <2> QED
    BY <2>1 DEF MetAlike
<1>4. PICK q, a : q = mail[m][k] /\ a = mail'[m][k]
  OBVIOUS
<1>5. IsQueue(q) /\ Pair(q, k, m)
  BY <1>1, <1>4
<1>6. CASE m = n /\ k \in met'[n] \ {n} /\ a # q
  <2>1. /\ a = Append(q, x) \/ a = Append(Append(q, x), x)
        /\ x.kind = "tubes" /\ ToldNow(x, m)
    BY <1>4, <1>6 DEF MailAlike
  <2>2. k \in met[m] \/ (k \notin gone /\ m \notin gone)
    <3>1. joined \cap gone = {}
      BY DEF IInv, Shape, RoomOK
    <3> QED
      BY <1>6, <3>1
  <2>3. Pair(a, k, m)'
    BY <1>2, <1>3, <1>5, <1>6, <2>1, <2>2, PairTold
  <2> QED
    BY <1>4, <2>3
<1>7. CASE a = q
  <2>1. NowAlike(k, m)
    <3>1. CASE m # n
      BY <3>1 DEF NowAlike, Now, In, Has
    <3>2. CASE m = n /\ k # n /\ k \in met'[n] /\ mail'[m][k] = mail[m][k] /\ scenario.streams = {}
      <4>1. CASE k \in met[n] /\ \A t \in Tubes : Now(n, t)' = Now(n, t)
        BY <3>2, <4>1 DEF NowAlike
      <4>2. CASE mail[m][k] = Append(mail[m][k], x) \/ mail[m][k] = Append(Append(mail[m][k], x), x)
        <5>1. Len(Append(q, x)) = Len(q) + 1 /\ Len(q) \in Nat /\ IsQueue(Append(q, x))
          BY <1>5, AppendIs, QueueIs
        <5>2. PICK b : b = Append(q, x)
          OBVIOUS
        <5>3. Len(Append(b, x)) = Len(b) + 1 /\ Len(b) = Len(q) + 1
          BY <5>1, <5>2, AppendIs
        <5> QED
          BY <1>4, <4>2, <5>1, <5>2, <5>3
      <4> QED
        BY <3>2, <4>1, <4>2 DEF MailAlike
    <3> QED
      BY <1>4, <1>7, <3>1, <3>2 DEF NowAlike
  <2>2. Pair(q, k, m)'
    BY <1>2, <1>3, <1>5, <2>1, PairKept
  <2> QED
    BY <1>4, <1>7, <2>2
<1>8. a = q \/ (m = n /\ k \in met'[n] \ {n})
  BY <1>4 DEF MailAlike
<1> QED
  BY <1>6, <1>7, <1>8

\* The room is the same.
LEMMA RoomStays ==
    ASSUME RoomOK, UNCHANGED <<scenario, joined, gone, met>>, closed' \in [Nodes -> SUBSET Tubes]
    PROVE  RoomOK' /\ (SaidOK /\ said' = said => SaidOK') /\ (said' = said => RoomAlike)
BY DEF RoomOK, SaidOK, RoomAlike

\* A program comes or goes.
OnlyAt(f, g, t) == DOMAIN g = DOMAIN f /\ \A u \in DOMAIN g : u # t => g[u] = f[u]
\* Only the program of the tube changes, and what it has been given is kept or dropped.
ProgramAlike(x, y, n) ==
    /\ TubeOK(y, n) /\ y.state = x.state /\ y.stream = x.stream /\ y.names = x.names
    /\ y.senders = x.senders
    /\ \/ Store(y) = <<>>
       \/ /\ Store(y) = Store(x) /\ (x.lost => y.lost)
          /\ x.program = "hung up" => y.program = "hung up"

\* The invariant survives a program that comes or goes.
LEMMA ProgramKeeps ==
    ASSUME IInv, NEW n \in Nodes, NEW t \in Tubes, Program(n, t), UNCHANGED <<mail, said>>,
           NEW table, Alters(n, table),
           OnlyAt(tubes[n], table, t), ProgramAlike(tubes[n][t], table[t], n)
    PROVE  IInv'
<1>1. /\ Shape /\ n \in joined /\ Has(n, t) /\ UNCHANGED <<scenario, joined, gone, met, last, closed>>
      /\ RoomOK /\ TablesOK /\ MailOK(mail) /\ SaidOK /\ Pairs
  BY DEF IInv, Shape, Program, In
<1>2. tubes'[n] = table /\ \A k \in Nodes : k # n => tubes'[k] = tubes[k]
  BY DEF Alters
<1>3. TableOK(table, n)
  BY <1>1 DEF TablesOK, TableOK, OnlyAt, ProgramAlike
<1>4. TablesOK'
  BY <1>1, <1>3, TablesStay DEF TablesOK
<1>5. RoomOK' /\ SaidOK' /\ MailOK(mail)' /\ RoomAlike
  BY <1>1, RoomStays DEF RoomOK, MailOK, Mailbox
<1>6. \E of : StreamsFit(of)'
  <2>1. PICK of : StreamsFit(of)
    BY DEF IInv
  <2>2. PICK ls, tbs, box : ls = last' /\ tbs = tubes' /\ box = mail'
    OBVIOUS
  <2>3. \A k \in Nodes : TableFits(of, ls, tubes[k], k)
    BY <1>1, <2>1, <2>2 DEF StreamsFit
  <2>4. TableFits(of, ls, table, n)
    BY <1>1, <2>3 DEF TableFits, OnlyAt, ProgramAlike, Has
  <2>5. \A k \in Nodes : TableFits(of, ls, tbs[k], k)
    BY <1>2, <2>2, <2>3, <2>4
  <2>6. MailFits(of, ls, box) /\ of \in [Nodes -> [Nat -> Tubes \cup {0}]]
    BY <1>1, <2>1, <2>2 DEF StreamsFit
  <2> QED
    BY <1>1, <2>2, <2>5, <2>6, StreamsStay
<1>7. ASSUME NEW u \in Tubes PROVE Now(n, u)' = Now(n, u)
  <2>1. CASE u = t
    BY <1>1, <1>2, <2>1 DEF Now, In, Has, OnlyAt, ProgramAlike
  <2>2. CASE u # t
    BY <1>1, <1>2, <2>2 DEF Now, In, Has, OnlyAt
  <2> QED
    BY <2>1, <2>2
<1>8. \A m \in Nodes : AllAlike(n, m)
  <2> SUFFICES ASSUME NEW u \in Tubes, NEW m \in Nodes PROVE Alike(n, m, u)
    BY DEF AllAlike
  <2>1. CASE u = t
    BY <1>1, <1>2, <2>1 DEF Alike, Has, OnlyAt, ProgramAlike
  <2>2. CASE u # t
    BY <1>1, <1>2, <2>2 DEF Alike, Has, OnlyAt
  <2> QED
    BY <2>1, <2>2
<1>9. MailAlike(n, <<>>)
  BY <1>1, <1>7 DEF MailAlike
<1>10. Pairs'
  BY <1>1, <1>2, <1>5, <1>8, <1>9, TellPairs
<1> QED
  BY <1>4, <1>5, <1>6, <1>10 DEF IInv, Shape

\* The invariant survives Attach, HangUp and Disconnected.
LEMMA AttachKeeps ==
    ASSUME IInv, NEW n \in Nodes, NEW t \in Tubes, Attach(n, t) \/ HangUp(n, t) \/ Disconnected(n, t)
    PROVE  IInv'
<1>1. /\ Program(n, t) /\ UNCHANGED <<mail, said>> /\ Has(n, t)
      /\ TablesOK
  BY DEF Attach, HangUp, Disconnected, Program, In, IInv, Shape
<1>2. PICK table : table = tubes'[n]
  OBVIOUS
<1>3. PICK x : x = tubes[n][t]
  OBVIOUS
<1>4. TubeOK(x, n)
  BY <1>1, <1>3 DEF TablesOK, TableOK, Has
<1>5. DOMAIN x = Fields
  BY <1>4 DEF TubeOK
<1>6. Alters(n, table) /\ OnlyAt(tubes[n], table, t)
  <2>1. CASE Attach(n, t)
    BY <1>1, <1>2, <2>1 DEF Attach, TablesOK, OnlyAt, Alters
  <2>2. CASE HangUp(n, t)
    BY <1>1, <1>2, <2>2 DEF HangUp, TablesOK, OnlyAt, Alters
  <2>3. CASE Disconnected(n, t)
    BY <1>1, <1>2, <2>3 DEF Disconnected, TablesOK, OnlyAt, Alters
  <2> QED
    BY <2>1, <2>2, <2>3
<1>7. PICK y : y = table[t]
  OBVIOUS
<1>8. CASE Attach(n, t)
  <2>1. /\ x.program = "none" /\ DOMAIN y = Fields /\ y.state = x.state /\ y.stream = x.stream
        /\ y.names = x.names /\ y.senders = x.senders /\ y.program = "on" /\ y.queue = <<>>
        /\ y.got = x.queue /\ y.lost = x.lost
    BY <1>1, <1>2, <1>3, <1>5, <1>7, <1>8 DEF Attach, TablesOK, Fields, Has
  <2>2. TubeOK(y, n) /\ Store(y) = Store(x)
    BY <1>1, <1>3, <1>4, <2>1, EmptyIs DEF TubeOK, Store, Program, In
  <2>3. ProgramAlike(x, y, n)
    BY <2>1, <2>2 DEF ProgramAlike
  <2> QED
    BY <1>1, <1>3, <1>6, <1>7, <2>3, ProgramKeeps
<1>9. CASE HangUp(n, t)
  <2>1. /\ x.program = "on" /\ DOMAIN y = Fields /\ y.state = x.state /\ y.stream = x.stream
        /\ y.names = x.names /\ y.senders = x.senders /\ y.program = "hung up" /\ y.queue = x.queue
        /\ y.got = x.got /\ y.lost = x.lost
    BY <1>1, <1>2, <1>3, <1>5, <1>7, <1>9 DEF HangUp, TablesOK, Fields, Has
  <2>2. TubeOK(y, n) /\ Store(y) = Store(x)
    BY <1>1, <1>3, <1>4, <2>1 DEF TubeOK, Store, Program, In
  <2>3. ProgramAlike(x, y, n)
    BY <2>1, <2>2 DEF ProgramAlike
  <2> QED
    BY <1>1, <1>3, <1>6, <1>7, <2>3, ProgramKeeps
<1>10. CASE Disconnected(n, t)
  <2>1. /\ x.program = "hung up" /\ DOMAIN y = Fields /\ y.state = x.state /\ y.stream = x.stream
        /\ y.names = x.names /\ y.senders = x.senders /\ y.program = "none" /\ y.queue = x.queue
        /\ y.got = <<>> /\ y.lost = FALSE
    BY <1>1, <1>2, <1>3, <1>5, <1>7, <1>10 DEF Disconnected, TablesOK, Fields, Has
  <2>2. TubeOK(y, n) /\ Store(y) = <<>>
    BY <1>1, <1>3, <1>4, <2>1, EmptyIs DEF TubeOK, Store, Program, In
  <2>3. ProgramAlike(x, y, n)
    BY <2>1, <2>2 DEF ProgramAlike
  <2> QED
    BY <1>1, <1>3, <1>6, <1>7, <2>3, ProgramKeeps
<1> QED
  BY <1>8, <1>9, <1>10

\* n has told the members of its table once or twice; with a stream tube, maybe not.
Announced(n, members, table) ==
    \/ mail' = mail /\ scenario.streams # {}
    \/ Posted(mail, mail', n, members, List(table))
    \/ \E box : Posted(mail, box, n, members, List(table)) /\ Posted(box, mail', n, members, List(table))

\* No stream of n is replaced by another at once.
NowClose(n) == \A t \in Tubes : Now(n, t)' = Now(n, t) \/ Now(n, t) = 0 \/ Now(n, t)' = 0
\* The new table fits the streams that the old one fits.
FitsStill(table, n) == \A of : StreamsFit(of) => TableFits(of, last, table, n)
\* n meets members, and forgets nobody.
Meets(n) ==
    /\ met[n] \subseteq met'[n] /\ \A k \in met'[n] \ met[n] : k \in joined /\ k # n
    /\ \A k \in Nodes : k # n => met'[k] = met[k]

\* An announcement of the table that n has now tells what the others need to hear.
LEMMA AnnouncedAlike ==
    ASSUME IInv, NEW n \in Nodes, NEW table, tubes'[n] = table, Announced(n, met'[n], table), NowClose(n)
    PROVE  MailAlike(n, List(table))
<1>1. PICK x, members : x = List(table) /\ members = met'[n]
  OBVIOUS
<1>2. x.kind = "tubes" /\ ToldNow(x, n)
  <2>1. \A t \in Tubes : Told(x, t) = Now(n, t)'
    BY <1>1, ListTells DEF Now, In, Has
  <2> QED
    BY <1>1, <2>1, ListTells DEF ToldNow, NowClose
<1> SUFFICES ASSUME NEW m \in Nodes, NEW k \in Nodes
             PROVE  IF m = n /\ k \in met'[n] \ {n}
                    THEN \/ mail'[m][k] = mail[m][k] /\ scenario.streams # {}
                         \/ /\ \/ mail'[m][k] = Append(mail[m][k], x)
                               \/ mail'[m][k] = Append(Append(mail[m][k], x), x)
                            /\ x.kind = "tubes" /\ ToldNow(x, n)
                    ELSE mail'[m][k] = mail[m][k]
  BY <1>1 DEF MailAlike
<1>3. CASE mail' = mail /\ scenario.streams # {}
  BY <1>3
<1>4. CASE Posted(mail, mail', n, members, x)
  BY <1>1, <1>2, <1>4 DEF Posted
<1>5. ASSUME NEW box, Posted(mail, box, n, members, x), Posted(box, mail', n, members, x)
      PROVE  IF m = n /\ k \in met'[n] \ {n}
             THEN mail'[m][k] = Append(Append(mail[m][k], x), x)
             ELSE mail'[m][k] = mail[m][k]
  <2>1. box[m][k] = IF m = n /\ k \in met'[n] \ {n} THEN Append(mail[m][k], x) ELSE mail[m][k]
    BY <1>1, <1>5 DEF Posted
  <2>2. mail'[m][k] = IF m = n /\ k \in met'[n] \ {n} THEN Append(box[m][k], x) ELSE box[m][k]
    BY <1>1, <1>5 DEF Posted
  <2> QED
    BY <2>1, <2>2
<1> QED
  BY <1>1, <1>2, <1>3, <1>4, <1>5 DEF Announced

\* An announcement keeps the form of the mail, and its streams.
LEMMA AnnouncedMail ==
    ASSUME IInv, NEW n \in Nodes, NEW members, NEW table, Announced(n, members, table), TableOK(table, n),
           FitsStill(table, n), NEW of, StreamsFit(of)
    PROVE  MailOK(mail)' /\ \E box : box = mail' /\ MailFits(of, last, box)
<1>1. PICK box, x, b, ls : box = mail' /\ x = List(table) /\ b = mail /\ ls = last
  OBVIOUS
<1>2. MailOK(b) /\ MailFits(of, ls, b)
  BY <1>1 DEF IInv, Shape, StreamsFit
<1>3. ItemFits(of, ls, n, x)
  BY <1>1, ListFits DEF FitsStill
<1>4. CASE box = b
  BY <1>1, <1>2, <1>4
<1>5. CASE Posted(b, box, n, members, x)
  BY <1>1, <1>2, <1>3, <1>5, PostedOK, PostedFits
<1>6. ASSUME NEW c, Posted(b, c, n, members, x), Posted(c, box, n, members, x)
      PROVE  MailOK(box) /\ MailFits(of, ls, box)
  <2>1. MailOK(c) /\ MailFits(of, ls, c)
    BY <1>2, <1>3, <1>6, PostedOK, PostedFits
  <2> QED
    BY <1>3, <1>6, <2>1, PostedOK, PostedFits
<1>7. MailOK(box) /\ MailFits(of, ls, box)
  <2>1. MailOK(b) /\ MailFits(of, ls, b)
    BY <1>2
  <2>2. Posted(b, box, n, members, x) => MailOK(box) /\ MailFits(of, ls, box)
    BY <1>2, <1>3, PostedOK, PostedFits
  <2> QED
    BY <1>1, <1>6, <2>1, <2>2 DEF Announced
<1>8. MailOK(mail)'
  BY <1>1, <1>7 DEF MailOK, Mailbox
<1> QED
  BY <1>1, <1>7, <1>8

\* The invariant survives every step in which n changes its table and announces it.
LEMMA AnnounceKeeps ==
    ASSUME IInv, NEW n \in Nodes, n \in joined, UNCHANGED <<scenario, joined, gone, last, said>>,
           Meets(n), RoomOK', NEW table, Alters(n, table), TableOK(table, n),
           \A m \in Nodes : AllAlike(n, m), Announced(n, met'[n], table), NowClose(n), FitsStill(table, n)
    PROVE  IInv'
<1>1. Shape /\ RoomOK /\ TablesOK /\ MailOK(mail) /\ SaidOK /\ Pairs
  BY DEF IInv, Shape
<1>2. tubes'[n] = table /\ \A k \in Nodes : k # n => tubes'[k] = tubes[k]
  BY DEF Alters
<1>3. TablesOK' /\ SaidOK' /\ RoomAlike
  BY <1>1, TablesStay DEF TablesOK, SaidOK, RoomAlike
<1>4. PICK of : StreamsFit(of)
  BY DEF IInv
<1>5. PICK members, ls, tbs : members = met'[n] /\ ls = last /\ tbs = tubes'
  OBVIOUS
<1>6. MailOK(mail)' /\ \E box : box = mail' /\ MailFits(of, last, box)
  BY <1>4, <1>5, AnnouncedMail
<1>7. PICK box : box = mail' /\ MailFits(of, ls, box)
  BY <1>5, <1>6
<1>8. StreamsFit(of)'
  <2>1. \A k \in Nodes : TableFits(of, ls, tbs[k], k)
    BY <1>2, <1>4, <1>5 DEF StreamsFit, FitsStill
  <2>2. of \in [Nodes -> [Nat -> Tubes \cup {0}]]
    BY <1>4 DEF StreamsFit
  <2> QED
    BY <1>5, <1>7, <2>1, <2>2, StreamsStay
<1>9. MailAlike(n, List(table))
  BY <1>2, AnnouncedAlike
<1>10. Pairs'
  <2>1. PICK x : x = List(table)
    OBVIOUS
  <2> QED
    BY <1>2, <1>3, <1>9, <2>1, TellPairs DEF Meets
<1> QED
  BY <1>3, <1>6, <1>8, <1>10 DEF IInv, Shape

\* The code that announces once.
LEMMA AnnounceOnce ==
    ASSUME IInv, NEW n \in Nodes, NEW members, NEW table, mail' = Announce(mail, n, members, table)
    PROVE  Announced(n, members, table)
<1>1. PICK b : b = mail
  OBVIOUS
<1>2. Mailbox(b)
  BY <1>1 DEF IInv, Shape, MailOK
<1>3. /\ \/ Announce(b, n, members, table) = b
         \/ Posted(b, Announce(b, n, members, table), n, members, List(table))
      /\ scenario.streams = {} => Posted(b, Announce(b, n, members, table), n, members, List(table))
  BY <1>2, AnnounceIs
<1>4. PICK a : a = Announce(b, n, members, table)
  OBVIOUS
<1>5. (a = b /\ scenario.streams # {}) \/ Posted(b, a, n, members, List(table))
  BY <1>3, <1>4
<1> QED
  BY <1>1, <1>4, <1>5 DEF Announced

\* The code that announces twice.
LEMMA AnnounceTwice ==
    ASSUME IInv, NEW n \in Nodes, NEW members, NEW table,
           mail' = Announce(Announce(mail, n, members, table), n, members, table)
    PROVE  Announced(n, members, table)
<1>1. PICK b : b = mail
  OBVIOUS
<1>2. Mailbox(b)
  BY <1>1 DEF IInv, Shape, MailOK
<1>3. PICK c : c = Announce(b, n, members, table)
  OBVIOUS
<1>4. (c = b \/ Posted(b, c, n, members, List(table)))
      /\ (scenario.streams = {} => Posted(b, c, n, members, List(table)))
  BY <1>2, <1>3, AnnounceIs
<1>5. Mailbox(c)
  BY <1>2, <1>4 DEF Posted
<1>6. PICK a : a = Announce(c, n, members, table)
  OBVIOUS
<1>7. (a = c \/ Posted(c, a, n, members, List(table)))
      /\ (scenario.streams = {} => Posted(c, a, n, members, List(table)))
  BY <1>5, <1>6, AnnounceIs
<1>8. a = mail'
  BY <1>1, <1>3, <1>6
<1>9. CASE a = b /\ c = b
  <2>1. CASE scenario.streams # {}
    BY <1>1, <1>8, <1>9, <2>1 DEF Announced
  <2>2. CASE scenario.streams = {}
    BY <1>1, <1>7, <1>8, <1>9, <2>2 DEF Announced
  <2> QED
    BY <2>1, <2>2
<1>10. CASE c = b /\ Posted(c, a, n, members, List(table))
  BY <1>1, <1>8, <1>10 DEF Announced
<1>11. CASE Posted(b, c, n, members, List(table)) /\ a = c
  BY <1>1, <1>8, <1>11 DEF Announced
<1>12. CASE Posted(b, c, n, members, List(table)) /\ Posted(c, a, n, members, List(table))
  BY <1>1, <1>8, <1>12 DEF Announced
<1> QED
  BY <1>4, <1>7, <1>9, <1>10, <1>11, <1>12

\* A tube opens: offered, or accepted.
LEMMA OpenedKeeps ==
    ASSUME IInv, NEW n \in Nodes, NEW t \in Tubes, Offer(n, t) \/ Accept(n, t)
    PROVE  IInv'
<1>1. /\ Client(n) /\ Has(n, t) /\ tubes[n][t].state # "open"
      /\ tubes' = [tubes EXCEPT ![n] = Opened(n, t)] /\ UNCHANGED <<last, closed>>
      /\ n \in joined /\ UNCHANGED <<scenario, joined, gone, met, said>>
  BY DEF Offer, Accept, Offerable, Acceptable, Client
<1>2. Shape /\ RoomOK /\ TablesOK /\ t \in DOMAIN tubes[n]
  BY <1>1 DEF IInv, Shape, Has
<1>3. PICK table : table = Opened(n, t)
  OBVIOUS
<1>4. PICK x, y : x = tubes[n][t] /\ y = table[t]
  OBVIOUS
<1>5. /\ OnlyAt(tubes[n], table, t) /\ t \in DOMAIN table
      /\ DOMAIN y = Fields /\ y.state = "open" /\ y.stream = x.stream
      /\ y.names = (IF IsStream(t) THEN x.names ELSE x.names \cup {n}) /\ y.senders = x.senders
      /\ y.program = x.program /\ y.queue = x.queue /\ y.got = x.got /\ y.lost = x.lost
  BY <1>2, <1>3, <1>4, OpenedIs DEF OnlyAt
<1>6. TubeOK(x, n)
  BY <1>2, <1>4 DEF TablesOK, TableOK
<1>7. TubeOK(y, n)
  BY <1>5, <1>6 DEF TubeOK
<1>8. TableOK(table, n)
  BY <1>2, <1>4, <1>5, <1>7 DEF TablesOK, TableOK, OnlyAt
<1>9. Alters(n, table) /\ tubes'[n] = table
  BY <1>1, <1>2, <1>3 DEF TablesOK, Alters
<1>10. Meets(n) /\ RoomOK'
  BY <1>1, <1>2 DEF Meets, RoomOK
<1>11. \A m \in Nodes : AllAlike(n, m)
  <2> SUFFICES ASSUME NEW u \in Tubes, NEW m \in Nodes PROVE Alike(n, m, u)
    BY DEF AllAlike
  <2>1. CASE u = t
    <3>1. Store(y) = Store(x) /\ x = tubes[n][u] /\ y = tubes'[n][u]
      BY <1>4, <1>5, <1>9, <2>1 DEF Store
    <3> QED
      BY <1>1, <1>5, <2>1, <3>1 DEF Alike
  <2>2. CASE u # t
    BY <1>5, <1>9, <2>2 DEF Alike, Has, OnlyAt
  <2> QED
    BY <2>1, <2>2
<1>12. NowClose(n)
  <2> SUFFICES ASSUME NEW u \in Tubes PROVE Now(n, u)' = Now(n, u) \/ Now(n, u) = 0
    BY DEF NowClose
  <2>1. CASE u = t
    BY <1>1, <2>1 DEF Now, In
  <2>2. CASE u # t
    BY <1>5, <1>9, <2>2 DEF Now, In, Has, OnlyAt
  <2> QED
    BY <2>1, <2>2
<1>13. FitsStill(table, n)
  <2> SUFFICES ASSUME NEW of, StreamsFit(of) PROVE TableFits(of, last, table, n)
    BY DEF FitsStill
  <2>1. TableFits(of, last, tubes[n], n)
    BY DEF StreamsFit
  <2> QED
    BY <1>2, <1>4, <1>5, <2>1 DEF TableFits, OnlyAt
<1>14. Announced(n, met'[n], table)
  <2>1. PICK members : members = met[n]
    OBVIOUS
  <2>2. CASE Offer(n, t)
    BY <1>1, <1>3, <2>1, <2>2, AnnounceTwice DEF Offer
  <2>3. CASE Accept(n, t)
    BY <1>1, <1>3, <2>1, <2>3, AnnounceOnce DEF Accept
  <2> QED
    BY <2>2, <2>3
<1> QED
  BY <1>1, <1>8, <1>9, <1>10, <1>11, <1>12, <1>13, <1>14, AnnounceKeeps

\* A tube closes.
LEMMA ClosedKeeps ==
    ASSUME IInv, NEW n \in Nodes, NEW t \in Tubes, Close(n, t) \/ AcceptFails(n, t)
    PROVE  IInv'
<1>1. /\ Has(n, t) /\ n \in joined /\ UNCHANGED <<scenario, joined, gone, met, said, last>>
      /\ tubes' = [tubes EXCEPT ![n] = Without(@, t)]
      /\ mail' = Announce(mail, n, met[n], Without(tubes[n], t))
      /\ closed' = [closed EXCEPT ![n] = @ \cup {t}]
  BY DEF Close, AcceptFails, Acceptable, Client, Closed
<1>2. Shape /\ RoomOK /\ TablesOK /\ t \in DOMAIN tubes[n]
  BY <1>1 DEF IInv, Shape, Has
<1>3. PICK table : table = Without(tubes[n], t)
  OBVIOUS
<1>4. DOMAIN table = DOMAIN tubes[n] \ {t} /\ \A u \in DOMAIN table : table[u] = tubes[n][u]
  BY <1>3 DEF Without
<1>5. Alters(n, table) /\ tubes'[n] = table
  BY <1>1, <1>2, <1>3 DEF TablesOK, Alters
<1>6. TableOK(table, n)
  BY <1>2, <1>4 DEF TablesOK, TableOK
<1>7. Meets(n) /\ RoomOK'
  BY <1>1, <1>2 DEF Meets, RoomOK
<1>8. \A m \in Nodes : AllAlike(n, m)
  BY <1>4, <1>5 DEF AllAlike, Alike, Has
<1>9. NowClose(n)
  BY <1>4, <1>5 DEF NowClose, Now, In, Has
<1>10. FitsStill(table, n)
  BY <1>4 DEF FitsStill, StreamsFit, TableFits
<1>11. Announced(n, met'[n], table)
  <2>1. PICK members : members = met[n]
    OBVIOUS
  <2> QED
    BY <1>1, <1>3, <2>1, AnnounceOnce
<1> QED
  BY <1>1, <1>5, <1>6, <1>7, <1>8, <1>9, <1>10, <1>11, AnnounceKeeps

\* A node is met.
LEMMA NewSenderKeeps ==
    ASSUME IInv, NEW n \in Nodes, NEW m \in Nodes, NewSender(n, m)
    PROVE  IInv'
<1>1. /\ n \in joined /\ m \in joined \ met[n] /\ met' = [met EXCEPT ![n] = @ \cup {m}]
      /\ mail' = Announce(mail, n, met[n] \cup {m}, tubes[n])
      /\ UNCHANGED <<scenario, joined, gone, tubes, last, said, closed>>
  BY DEF NewSender
<1>2. Shape /\ RoomOK /\ TablesOK
  BY <1>1 DEF IInv, Shape
<1>3. PICK table : table = tubes[n]
  OBVIOUS
<1>4. Alters(n, table) /\ TableOK(table, n)
  BY <1>1, <1>2, <1>3 DEF TablesOK, Alters
<1>5. met'[n] = met[n] \cup {m} /\ \A k \in Nodes : k # n => met'[k] = met[k]
  BY <1>1, <1>2 DEF RoomOK
<1>6. m # n
  BY <1>1, <1>2 DEF RoomOK
<1>7. Meets(n)
  BY <1>1, <1>5, <1>6 DEF Meets
<1>8. RoomOK'
  <2>1. met' \in [Nodes -> SUBSET Nodes]
    BY <1>1, <1>2 DEF RoomOK
  <2>2. ASSUME NEW k \in Nodes
        PROVE  /\ met'[k] \subseteq joined \cup gone /\ (k \in joined <=> k \in met'[k])
               /\ k \notin joined => met'[k] = {}
    BY <1>1, <1>2, <1>5, <1>6 DEF RoomOK
  <2> QED
    BY <1>1, <1>2, <2>1, <2>2 DEF RoomOK
<1>9. \A k \in Nodes : AllAlike(n, k)
  BY <1>1 DEF AllAlike, Alike, Has
<1>10. NowClose(n)
  BY <1>1 DEF NowClose, Now, In, Has
<1>11. FitsStill(table, n)
  BY <1>3 DEF FitsStill, StreamsFit
<1>12. Announced(n, met'[n], table)
  <2>1. PICK members : members = met[n] \cup {m}
    OBVIOUS
  <2> QED
    BY <1>1, <1>3, <1>5, <2>1, AnnounceOnce
<1> QED
  BY <1>1, <1>4, <1>7, <1>8, <1>9, <1>10, <1>11, <1>12, AnnounceKeeps

\* A tube is made.
LEMMA RequestKeeps ==
    ASSUME IInv, NEW n \in Nodes, NEW t \in Tubes, Request(n, t)
    PROVE  IInv'
<1> DEFINE new == IF IsStream(t) THEN 0 ELSE last[n] + 1
<1>1. /\ n \in joined /\ ~Has(n, t) /\ UNCHANGED <<scenario, joined, gone, met, said, mail, closed>>
      /\ tubes' = [tubes EXCEPT ![n] = With(@, t, NewTube("requested", new))]
      /\ last' = [last EXCEPT ![n] = IF IsStream(t) THEN @ ELSE @ + 1]
  BY DEF Request, Client, NewStream
<1>2. Shape /\ RoomOK /\ TablesOK /\ t \notin DOMAIN tubes[n] /\ last \in [Nodes -> Nat] /\ MailOK(mail) /\ SaidOK
  BY <1>1 DEF IInv, Shape, Has, TablesOK
<1>3. PICK s : s = new
  OBVIOUS
<1>4. s \in Nat /\ (IsStream(t) => s = 0) /\ (~IsStream(t) => s = last[n] + 1)
  BY <1>2, <1>3
<1> HIDE DEF new
<1>5. PICK y : y = NewTube("requested", s)
  OBVIOUS
<1>6. /\ TubeOK(y, n) /\ y.state = "requested" /\ y.stream = s /\ y.names = {} /\ y.senders = <<>>
      /\ Store(y) = <<>>
  BY <1>4, <1>5, NewTubeIs
<1>7. PICK table : table = With(tubes[n], t, y)
  OBVIOUS
<1>8. DOMAIN table = DOMAIN tubes[n] \cup {t} /\ table[t] = y /\ \A u \in DOMAIN tubes[n] : table[u] = tubes[n][u]
  BY <1>2, <1>7 DEF With
<1>9. Alters(n, table)
  BY <1>1, <1>2, <1>3, <1>5, <1>7 DEF TablesOK, Alters
<1>10. TableOK(table, n)
  BY <1>2, <1>6, <1>8 DEF TablesOK, TableOK
<1>11. last' \in [Nodes -> Nat] /\ \A k \in Nodes : last[k] <= last'[k]
  BY <1>1, <1>2
<1>12. TablesOK' /\ RoomOK' /\ SaidOK' /\ MailOK(mail)' /\ RoomAlike
  BY <1>1, <1>2, <1>9, <1>10, <1>11, TablesStay DEF RoomOK, SaidOK, MailOK, Mailbox, RoomAlike
<1>13. \E of : StreamsFit(of)'
  <2>1. PICK of : StreamsFit(of)
    BY DEF IInv
  <2>2. PICK ls, ms, tbs, box : ls = last /\ ms = last' /\ tbs = tubes' /\ box = mail'
    OBVIOUS
  <2>3. PICK more : more = [of EXCEPT ![n] = [of[n] EXCEPT ![s] = IF IsStream(t) THEN @ ELSE t]]
    OBVIOUS
  <2>4. of \in [Nodes -> [Nat -> Tubes \cup {0}]] /\ more \in [Nodes -> [Nat -> Tubes \cup {0}]]
    BY <1>4, <2>1, <2>3 DEF StreamsFit
  <2>5. \A k \in Nodes : ls[k] \in Nat /\ ms[k] \in Nat /\ ls[k] <= ms[k]
                         /\ \A v \in 1..ls[k] : more[k][v] = of[k][v]
    <3> SUFFICES ASSUME NEW k \in Nodes, NEW v \in 1..ls[k] PROVE more[k][v] = of[k][v]
      BY <1>2, <1>11, <2>2
    <3>1. CASE k # n
      BY <2>3, <2>4, <3>1
    <3>2. CASE k = n /\ IsStream(t)
      BY <1>4, <2>3, <2>4, <3>2
    <3>3. CASE k = n /\ ~IsStream(t)
      <4>1. v # s /\ v \in Nat
        BY <1>2, <1>4, <2>2, <3>3
      <4> QED
        BY <1>4, <2>3, <2>4, <3>3, <4>1
    <3> QED
      BY <3>1, <3>2, <3>3
  <2>6. /\ \A k \in Nodes : TableFits(of, ls, tubes[k], k) /\ TableOK(tubes[k], k)
        /\ MailFits(of, ls, box)
    BY <1>1, <1>2, <2>1, <2>2 DEF StreamsFit, TablesOK
  <2>7. MailFits(more, ms, box) /\ \A k \in Nodes : TableFits(more, ms, tubes[k], k)
    BY <2>5, <2>6, FitsMore
  <2>8. ~IsStream(t) => StreamFits(more, ms, n, s, t)
    BY <1>1, <1>2, <1>4, <2>2, <2>3, <2>4 DEF StreamFits
  <2>9. TableFits(more, ms, table, n)
    BY <1>6, <1>8, <2>7, <2>8, EmptyIs DEF TableFits
  <2>10. \A k \in Nodes : TableFits(more, ms, tbs[k], k)
    BY <1>9, <2>2, <2>7, <2>9 DEF Alters
  <2> QED
    BY <1>1, <2>2, <2>4, <2>7, <2>10, StreamsStay
<1>14. \A u \in Tubes : Now(n, u)' = Now(n, u)
  BY <1>2, <1>6, <1>8, <1>9 DEF Now, In, Has, Alters
<1>15. \A m \in Nodes : AllAlike(n, m)
  <2> SUFFICES ASSUME NEW u \in Tubes, NEW m \in Nodes PROVE Alike(n, m, u)
    BY DEF AllAlike
  <2>1. CASE u = t
    BY <1>6, <1>8, <1>9, <2>1, EmptyIs DEF Alike, Has, Alters
  <2>2. CASE u # t
    BY <1>8, <1>9, <2>2 DEF Alike, Has, Alters
  <2> QED
    BY <2>1, <2>2
<1>16. MailAlike(n, <<>>)
  BY <1>1, <1>14 DEF MailAlike
<1>17. Pairs'
  BY <1>1, <1>9, <1>12, <1>15, <1>16, TellPairs DEF Alters
<1> QED
  BY <1>12, <1>13, <1>17 DEF IInv, Shape

-----------------------------------------------------------------------------
(* A program speaks *)

\* A store stays in order when more has been said.
LEMMA StoredGrows ==
    ASSUME NEW st, NEW n, NEW t, NEW sd, NEW more, Stored(st, n, t, sd),
           \A f \in Nodes : Len(sd[f][t]) \in Nat /\ Len(more[f][t]) \in Nat /\ Len(sd[f][t]) <= Len(more[f][t])
    PROVE  Stored(st, n, t, more)
BY DEF Stored

\* x is what n says on t, and item what it sends.
Says(n, t, x, item) ==
    /\ n \in joined /\ Has(n, t) /\ ~IsStream(t) /\ tubes[n][t].state = "open" /\ tubes[n][t].program = "on"
    /\ UNCHANGED <<scenario, joined, gone, met, last, closed>>
    /\ DOMAIN said' = Nodes /\ said'[n][t] = Append(said[n][t], x.dest)
    /\ \A f \in Nodes : /\ DOMAIN said'[f] = Tubes
                        /\ \A u \in Tubes : f # n \/ u # t => said'[f][u] = said[f][u]
    /\ x.from = n /\ x.tube = t /\ x.number = Len(said[n][t]) + 1
    /\ item.kind = "data" /\ item.stream = tubes[n][t].stream /\ item.what = x
    /\ Posted(mail, mail', n, met[n], item)
    /\ DOMAIN tubes' = Nodes /\ \A k \in Nodes : k # n => tubes'[k] = tubes[k]
    /\ OnlyAt(tubes[n], tubes'[n], t)
    /\ DOMAIN tubes'[n][t] = Fields /\ tubes'[n][t].program = "on" /\ tubes'[n][t].lost = tubes[n][t].lost
    /\ tubes'[n][t].state = "open" /\ tubes'[n][t].stream = tubes[n][t].stream
    /\ tubes'[n][t].names = tubes[n][t].names /\ tubes'[n][t].senders = tubes[n][t].senders
    /\ tubes'[n][t].queue = tubes[n][t].queue
    /\ tubes'[n][t].got = IF x.dest \in {All, n} THEN Append(tubes[n][t].got, x) ELSE tubes[n][t].got

\* What Say does to the variables, in the terms of these proofs.
LEMMA SayIs ==
    ASSUME IInv, NEW n \in Nodes, NEW t \in Tubes, NEW dest, Say(n, t, dest)
    PROVE  \E x, item : Says(n, t, x, item)
<1>1. PICK x : x = [from |-> n, tube |-> t, dest |-> dest, number |-> Len(said[n][t]) + 1]
  OBVIOUS
<1>2. PICK item : item = [kind |-> "data", stream |-> tubes[n][t].stream, what |-> x]
  OBVIOUS
<1>3. /\ Program(n, t) /\ tubes[n][t].program = "on"
      /\ said' = [said EXCEPT ![n][t] = Append(@, dest)]
      /\ tubes' = [tubes EXCEPT ![n][t].got = IF dest \in {All, n} THEN Append(@, x) ELSE @]
      /\ mail' = Sent(mail, n, met[n], item)
  BY <1>1, <1>2 DEF Say
<1>4. TablesOK /\ MailOK(mail) /\ SaidOK
  BY DEF IInv, Shape
<1>5. /\ x.from = n /\ x.tube = t /\ x.number = Len(said[n][t]) + 1 /\ x.dest = dest
      /\ item.kind = "data" /\ item.stream = tubes[n][t].stream /\ item.what = x
  BY <1>1, <1>2
<1>6. /\ DOMAIN said' = Nodes /\ said'[n][t] = Append(said[n][t], x.dest)
      /\ \A f \in Nodes : /\ DOMAIN said'[f] = Tubes
                          /\ \A u \in Tubes : f # n \/ u # t => said'[f][u] = said[f][u]
  BY <1>3, <1>4, <1>5 DEF SaidOK
<1>7. Posted(mail, mail', n, met[n], item)
  <2>1. PICK b, members : b = mail /\ members = met[n]
    OBVIOUS
  <2>2. Mailbox(b)
    BY <1>4, <2>1 DEF MailOK
  <2>3. Posted(b, Sent(b, n, members, item), n, members, item)
    BY <2>2, SentIs
  <2> QED
    BY <1>3, <2>1, <2>3
<1>8. n \in joined /\ Has(n, t) /\ ~IsStream(t) /\ tubes[n][t].state = "open"
  BY <1>3 DEF Program, In
<1>9. DOMAIN tubes[n][t] = Fields
  BY <1>4, <1>8 DEF TablesOK, TableOK, TubeOK, Has
<1>10. /\ DOMAIN tubes' = Nodes /\ \A k \in Nodes : k # n => tubes'[k] = tubes[k]
       /\ OnlyAt(tubes[n], tubes'[n], t)
  BY <1>3, <1>4, <1>8 DEF TablesOK, OnlyAt
<1>11. PICK y : y = tubes'[n][t]
  OBVIOUS
<1>12. /\ DOMAIN y = Fields /\ y.program = tubes[n][t].program /\ y.lost = tubes[n][t].lost
       /\ y.state = tubes[n][t].state /\ y.stream = tubes[n][t].stream
       /\ y.names = tubes[n][t].names /\ y.senders = tubes[n][t].senders
       /\ y.queue = tubes[n][t].queue
       /\ y.got = IF dest \in {All, n} THEN Append(tubes[n][t].got, x) ELSE tubes[n][t].got
  BY <1>3, <1>4, <1>8, <1>9, <1>11 DEF TablesOK, Has, Fields
<1>13. UNCHANGED <<scenario, joined, gone, met, last, closed>>
  BY <1>3 DEF Program
<1>14. Says(n, t, x, item)
  BY <1>3, <1>5, <1>6, <1>7, <1>8, <1>10, <1>11, <1>12, <1>13 DEF Says
<1> QED
  BY <1>14

\* The store of its own program is the only one that changes.
LEMMA SayStores ==
    ASSUME IInv, NEW n \in Nodes, NEW t \in Tubes, NEW x, NEW item, Says(n, t, x, item), NEW k \in Nodes, NEW u \in Tubes
    PROVE  /\ Has(k, u)' <=> Has(k, u)
           /\ Has(k, u) => /\ tubes'[k][u].lost = tubes[k][u].lost
                           /\ tubes'[k][u].program = tubes[k][u].program
                           /\ tubes'[k][u].senders = tubes[k][u].senders
                           /\ tubes'[k][u].state = tubes[k][u].state /\ tubes'[k][u].stream = tubes[k][u].stream
                           /\ IsQueue(Store(tubes[k][u]))
           /\ Has(k, u) /\ (k # n \/ u # t \/ x.dest \notin {All, n}) => Store(tubes'[k][u]) = Store(tubes[k][u])
           /\ k = n /\ u = t /\ x.dest \in {All, n} => Store(tubes'[n][t]) = Append(Store(tubes[n][t]), x)
<1>1. TablesOK
  BY DEF IInv, Shape
<1>2. Has(k, u) => TubeOK(tubes[k][u], k)
  BY <1>1 DEF TablesOK, TableOK, Has
<1>3. Has(k, u) => IsQueue(Store(tubes[k][u]))
  BY <1>2 DEF TubeOK, Store
<1>4. CASE k # n
  BY <1>3, <1>4 DEF Says, Has
<1>5. CASE k = n /\ u # t
  BY <1>3, <1>5 DEF Says, Has, OnlyAt
<1>6. CASE k = n /\ u = t
  <2>1. Has(n, t) /\ Has(n, t)'
    BY DEF Says, Has, OnlyAt
  <2>2. Store(tubes[n][t]) = tubes[n][t].got /\ Store(tubes'[n][t]) = tubes'[n][t].got
    BY DEF Says, Store
  <2>3. /\ tubes'[n][t].lost = tubes[n][t].lost /\ tubes'[n][t].program = tubes[n][t].program
        /\ tubes'[n][t].senders = tubes[n][t].senders
        /\ tubes'[n][t].state = tubes[n][t].state /\ tubes'[n][t].stream = tubes[n][t].stream
    BY DEF Says
  <2>4. tubes'[n][t].got = IF x.dest \in {All, n} THEN Append(tubes[n][t].got, x) ELSE tubes[n][t].got
    BY DEF Says
  <2>5. /\ x.dest \notin {All, n} => Store(tubes'[n][t]) = Store(tubes[n][t])
        /\ x.dest \in {All, n} => Store(tubes'[n][t]) = Append(Store(tubes[n][t]), x)
    BY <2>2, <2>4
  <2> QED
    BY <1>3, <1>6, <2>1, <2>3, <2>5
<1> QED
  BY <1>4, <1>5, <1>6

\* The order on t after a step, with every primed value named.
LEMMA OrderedThen ==
    ASSUME NEW q, NEW n, NEW m, NEW t, NEW words, words = said'[m][t], NEW sd, sd = said',
           NEW st, st = Store(tubes'[n][t]), NEW deaf, deaf = Deaf(n, m, t)',
           Mailed(q, m, t, words), n \notin gone' => Complete(q, t, words),
           Has(n, t)' => /\ Stored(st, n, t, sd) /\ Before(st, q, m, t)
                         /\ scenario'.streams = {} /\ ~tubes'[n][t].lost => NoGap(st, q, n, t, words, m, deaf)
    PROVE  OrderedAt(q, n, m, t)'
BY DEF OrderedAt

\* The order on t before a step, with every value named.
LEMMA OrderedNow ==
    ASSUME NEW q, NEW n, NEW m, NEW t, NEW words, words = said[m][t], NEW sd, sd = said,
           NEW st, st = Store(tubes[n][t]), NEW deaf, deaf = Deaf(n, m, t), OrderedAt(q, n, m, t)
    PROVE  /\ Mailed(q, m, t, words) /\ (n \notin gone => Complete(q, t, words))
           /\ Has(n, t) => /\ Stored(st, n, t, sd) /\ Before(st, q, m, t)
                           /\ scenario.streams = {} /\ ~tubes[n][t].lost => NoGap(st, q, n, t, words, m, deaf)
BY DEF OrderedAt

\* What is said grows by the one message.
LEMMA SaysMore ==
    ASSUME IInv, NEW n \in Nodes, NEW t \in Tubes, NEW x, NEW item, Says(n, t, x, item), NEW u \in Tubes
    PROVE  /\ \A f \in Nodes : Len(said[f][u]) \in Nat /\ Len(said'[f][u]) \in Nat
                               /\ Len(said[f][u]) <= Len(said'[f][u])
           /\ IsQueue(said[n][u]) /\ Len(said'[n][t]) = Len(said[n][t]) + 1
           /\ said'[n][t][Len(said[n][t]) + 1] = x.dest
<1> SUFFICES ASSUME NEW f \in Nodes
             PROVE  Len(said[f][u]) \in Nat /\ Len(said'[f][u]) \in Nat /\ Len(said[f][u]) <= Len(said'[f][u])
  <2>1. IsQueue(said[n][u]) /\ IsQueue(said[n][t])
    BY DEF IInv, Shape, SaidOK
  <2>2. Len(said'[n][t]) = Len(said[n][t]) + 1 /\ said'[n][t][Len(said[n][t]) + 1] = x.dest
    BY <2>1, AppendIs DEF Says
  <2> QED
    BY <2>1, <2>2
<1>1. IsQueue(said[f][u])
  BY DEF IInv, Shape, SaidOK
<1>2. Len(said[f][u]) \in Nat
  BY <1>1, QueueIs
<1>3. CASE f # n \/ u # t
  BY <1>2, <1>3 DEF Says
<1>4. CASE f = n /\ u = t
  <2>1. Len(said'[n][t]) = Len(said[n][t]) + 1
    BY <1>1, <1>4, AppendIs DEF Says
  <2> QED
    BY <1>2, <1>4, <2>1
<1> QED
  BY <1>3, <1>4

\* On another tube.
LEMMA SayElsewhere ==
    ASSUME IInv, NEW n \in Nodes, NEW t \in Tubes, NEW x, NEW item, Says(n, t, x, item),
           NEW q, IsQueue(q), NEW k \in Nodes, NEW m \in Nodes, NEW u \in Tubes, u # t,
           OrderedAt(q, k, m, u), NEW a, a = q \/ a = Append(q, item)
    PROVE  OrderedAt(a, k, m, u)'
<1>1. OrderedAt(a, k, m, u)
  <2>1. ~(item.kind = "data" /\ item.what.tube = u)
    BY DEF Says
  <2> QED
    BY <2>1, AppendOrdered
<1>2. PICK words, sd, st, deaf : /\ words = said[m][u] /\ sd = said /\ st = Store(tubes[k][u])
                                 /\ deaf = Deaf(k, m, u)
  OBVIOUS
<1>3. PICK sd2 : sd2 = said'
  OBVIOUS
<1>4. /\ Mailed(a, m, u, words) /\ (k \notin gone => Complete(a, u, words))
      /\ Has(k, u) => /\ Stored(st, k, u, sd) /\ Before(st, a, m, u)
                      /\ scenario.streams = {} /\ ~tubes[k][u].lost => NoGap(st, a, k, u, words, m, deaf)
  BY <1>1, <1>2, OrderedNow
<1>5. words = said'[m][u]
  BY <1>2 DEF Says
<1>6. Has(k, u) => Stored(st, k, u, sd2)
  BY <1>2, <1>3, <1>4, StoredGrows, SaysMore
<1>7. /\ Has(k, u)' <=> Has(k, u)
      /\ Has(k, u) => /\ tubes'[k][u].lost = tubes[k][u].lost /\ Store(tubes'[k][u]) = st
                      /\ tubes'[k][u].program = tubes[k][u].program
  <2>1. /\ Has(k, u)' <=> Has(k, u)
        /\ Has(k, u) => tubes'[k][u].lost = tubes[k][u].lost /\ tubes'[k][u].program = tubes[k][u].program
    BY SayStores
  <2>2. Has(k, u) => Store(tubes'[k][u]) = Store(tubes[k][u])
    BY SayStores
  <2> QED
    BY <1>2, <2>1, <2>2
<1>8. Has(k, u) => Deaf(k, m, u)' = deaf
  <2>1. met' = met
    BY DEF Says
  <2> QED
    BY <1>2, <1>7, <2>1 DEF Deaf
<1>9. scenario' = scenario /\ gone' = gone
  BY DEF Says
<1> QED
  BY <1>3, <1>4, <1>5, <1>6, <1>7, <1>8, <1>9 DEF OrderedAt

\* What another node said.
LEMMA SayHeard ==
    ASSUME IInv, NEW n \in Nodes, NEW t \in Tubes, NEW x, NEW item, Says(n, t, x, item),
           NEW q, IsQueue(q), NEW k \in Nodes, NEW m \in Nodes, m # n, OrderedAt(q, k, m, t),
           Has(k, t) => Latest(Store(tubes[k][t]), x) \/ k # n
    PROVE  OrderedAt(q, k, m, t)'
<1>2. PICK words, sd, st, deaf : /\ words = said[m][t] /\ sd = said /\ st = Store(tubes[k][t])
                                 /\ deaf = Deaf(k, m, t)
  OBVIOUS
<1>3. PICK sd2, st2 : sd2 = said' /\ st2 = Store(tubes'[k][t])
  OBVIOUS
<1>4. /\ Mailed(q, m, t, words) /\ (k \notin gone => Complete(q, t, words))
      /\ Has(k, t) => /\ Stored(st, k, t, sd) /\ Before(st, q, m, t)
                      /\ scenario.streams = {} /\ ~tubes[k][t].lost => NoGap(st, q, k, t, words, m, deaf)
  BY <1>2, OrderedNow
<1>5. words = said'[m][t]
  BY <1>2 DEF Says
<1>6. Has(k, t) => Stored(st, k, t, sd2)
  BY <1>2, <1>3, <1>4, StoredGrows, SaysMore
<1>7. /\ Has(k, t)' <=> Has(k, t)
      /\ Has(k, t) => /\ tubes'[k][t].lost = tubes[k][t].lost
                      /\ tubes'[k][t].program = tubes[k][t].program /\ IsQueue(st)
      /\ Has(k, t) /\ (k # n \/ x.dest \notin {All, n}) => st2 = st
      /\ k = n /\ x.dest \in {All, n} => st2 = Append(st, x)
  BY <1>2, <1>3, SayStores
<1>8. Has(k, t) => Deaf(k, m, t)' = deaf
  <2>1. Has(k, t) => tubes'[k][t].program = tubes[k][t].program
    BY <1>7
  <2>2. met' = met
    BY DEF Says
  <2> QED
    BY <1>2, <2>1, <2>2 DEF Deaf
<1>9. scenario' = scenario /\ gone' = gone
  BY DEF Says
<1>10. ASSUME Has(k, t)
       PROVE  /\ Stored(st2, k, t, sd2) /\ Before(st2, q, m, t)
              /\ scenario.streams = {} /\ ~tubes[k][t].lost => NoGap(st2, q, k, t, words, m, deaf)
  <2>1. CASE st2 = st
    BY <1>4, <1>6, <1>10, <2>1
  <2>2. CASE k = n /\ x.dest \in {All, n} /\ st2 = Append(st, x)
    <3>1. x.from = n /\ x.tube = t /\ x.number \in 1..Len(sd2[n][t]) /\ Latest(st, x)
      <4>1. x.number = Len(said[n][t]) + 1 /\ Len(said'[n][t]) = Len(said[n][t]) + 1 /\ Len(said[n][t]) \in Nat
        BY SaysMore DEF Says
      <4> QED
        BY <1>2, <1>3, <1>10, <2>2, <4>1 DEF Says
    <3>2. IsQueue(st) /\ Stored(st, k, t, sd2)
      BY <1>6, <1>7, <1>10
    <3>3. Stored(st2, k, t, sd2)
      BY <2>2, <3>1, <3>2, StoredAppend
    <3>4. Before(Append(st, x), q, m, t)
      BY <1>4, <1>10, <3>1, <3>2, OtherStored
    <3>5. NoGap(st, q, k, t, words, m, deaf) => NoGap(Append(st, x), q, k, t, words, m, deaf)
      BY <3>1, <3>2, OtherStored
    <3> QED
      BY <1>4, <1>10, <2>2, <3>3, <3>4, <3>5
  <2> QED
    BY <1>7, <1>10, <2>1, <2>2
<1> QED
  BY <1>2, <1>3, <1>4, <1>5, <1>7, <1>8, <1>9, <1>10 DEF OrderedAt

\* A message goes on its way.
LEMMA WordSent ==
    ASSUME NEW q, IsQueue(q), NEW n, NEW m, NEW t, NEW words, IsQueue(words), NEW item, NEW d,
           Mailed(q, m, t, words), item.kind = "data", item.what.tube = t, item.what.from = m,
           item.what.number = Len(words) + 1, item.what.dest = d,
           NEW st, Before(st, q, m, t), \A i \in DOMAIN st : st[i].from = m => st[i].number \in 1..Len(words),
           NEW deaf
    PROVE  /\ Mailed(Append(q, item), m, t, Append(words, d))
           /\ Complete(q, t, words) => Complete(Append(q, item), t, Append(words, d))
           /\ Before(st, Append(q, item), m, t)
           /\ NoGap(st, q, n, t, words, m, deaf) => NoGap(st, Append(q, item), n, t, Append(words, d), m, deaf)
<1>1. PICK a, w : a = Append(q, item) /\ w = Append(words, d)
  OBVIOUS
<1>2. /\ Mailed(a, m, t, w) /\ On(a, t) = On(q, t) \cup {Len(q) + 1}
      /\ Complete(q, t, words) => Complete(a, t, w)
  BY <1>1, AppendWord
<1>3. Len(q) \in Nat /\ (\A i \in DOMAIN q : a[i] = q[i]) /\ a[Len(q) + 1] = item
  BY <1>1, AppendIs, QueueIs
<1>4. /\ Len(words) \in Nat /\ Len(w) = Len(words) + 1
      /\ \A k \in 1..Len(words) : w[k] = words[k]
  BY <1>1, AppendIs, QueueIs
<1>5. \A j \in On(q, t) : j \in On(a, t) /\ a[j] = q[j]
  BY <1>2, <1>3 DEF On
<1>6. Len(q) + 1 \in On(a, t) /\ a[Len(q) + 1].what.number = Len(w)
  BY <1>2, <1>3, <1>4
<1>7. Before(st, a, m, t)
  <2> SUFFICES ASSUME NEW i \in DOMAIN st, NEW j \in On(a, t), st[i].from = m
               PROVE  st[i].number < a[j].what.number
    BY DEF Before
  <2>1. CASE j \in On(q, t)
    BY <1>5, <2>1 DEF Before
  <2>2. CASE j = Len(q) + 1
    <3>1. st[i].number \in 1..Len(words)
      OBVIOUS
    <3> QED
      BY <1>4, <1>6, <2>2, <3>1
  <2> QED
    BY <1>2, <2>1, <2>2
<1>8. ASSUME NoGap(st, q, n, t, words, m, deaf) PROVE NoGap(st, a, n, t, w, m, deaf)
  <2> SUFFICES ASSUME NEW i \in DOMAIN st, st[i].from = m, NEW k \in st[i].number .. Len(w), w[k] \in {All, n}
               PROVE  \/ k \in Numbers(st, m)
                      \/ \E j \in On(a, t) : a[j].what.number = k
                      \/ deaf /\ \A j \in DOMAIN st : st[j].from = m => st[j].number < k
    BY DEF NoGap
  <2>1. st[i].number \in 1..Len(words)
    OBVIOUS
  <2>2. CASE k = Len(w)
    BY <1>6, <2>2
  <2>3. CASE k # Len(w)
    <3>1. k \in st[i].number .. Len(words) /\ k \in 1..Len(words)
      BY <1>4, <2>1, <2>3
    <3>2. \/ k \in Numbers(st, m)
          \/ \E j \in On(q, t) : q[j].what.number = k
          \/ deaf /\ \A j \in DOMAIN st : st[j].from = m => st[j].number < k
      BY <1>4, <1>8, <3>1 DEF NoGap
    <3> QED
      BY <1>5, <3>2
  <2> QED
    BY <2>2, <2>3
<1> QED
  BY <1>1, <1>2, <1>7, <1>8

\* ... to k.
LEMMA SaySent ==
    ASSUME IInv, NEW n \in Nodes, NEW t \in Tubes, NEW x, NEW item, Says(n, t, x, item),
           NEW q, IsQueue(q), NEW k \in Nodes, k # n, Pair(q, k, n),
           NEW a, a = IF k \in met[n] THEN Append(q, item) ELSE q
    PROVE  OrderedAt(a, k, n, t)'
<1>1. OrderedAt(q, k, n, t) /\ StrangersAt(q, k, n)
  BY DEF Pair
<1>2. PICK words, sd, st, deaf : /\ words = said[n][t] /\ sd = said /\ st = Store(tubes[k][t])
                                 /\ deaf = Deaf(k, n, t)
  OBVIOUS
<1>3. PICK sd2, w : sd2 = said' /\ w = Append(words, x.dest)
  OBVIOUS
<1>4. /\ Mailed(q, n, t, words) /\ (k \notin gone => Complete(q, t, words))
      /\ Has(k, t) => /\ Stored(st, k, t, sd) /\ Before(st, q, n, t)
                      /\ scenario.streams = {} /\ ~tubes[k][t].lost => NoGap(st, q, k, t, words, n, deaf)
  BY <1>1, <1>2, OrderedNow
<1>5. w = said'[n][t] /\ IsQueue(words)
  <2>1. said'[n][t] = Append(said[n][t], x.dest)
    BY DEF Says
  <2>2. IsQueue(said[n][t])
    BY SaysMore
  <2> QED
    BY <1>2, <1>3, <2>1, <2>2
<1>6. Has(k, t) => Stored(st, k, t, sd2)
  BY <1>2, <1>3, <1>4, StoredGrows, SaysMore
<1>7. /\ Has(k, t)' <=> Has(k, t)
      /\ Has(k, t) => /\ tubes'[k][t].lost = tubes[k][t].lost
                      /\ tubes'[k][t].program = tubes[k][t].program
                      /\ Store(tubes'[k][t]) = st
  BY <1>2, SayStores
<1>8. Has(k, t) => Deaf(k, n, t)' = deaf
  <2>1. Has(k, t) => tubes'[k][t].program = tubes[k][t].program
    BY <1>7
  <2>2. met' = met
    BY DEF Says
  <2> QED
    BY <1>2, <2>1, <2>2 DEF Deaf
<1>9. scenario' = scenario /\ gone' = gone
  BY DEF Says
<1>10. CASE k \in met[n]
  <2>1. /\ item.kind = "data" /\ item.what.tube = t /\ item.what.from = n
        /\ item.what.number = Len(words) + 1 /\ item.what.dest = x.dest
    BY <1>2 DEF Says
  <2>2. Mailed(a, n, t, w) /\ (k \notin gone => Complete(a, t, w))
    <3>1. PICK d : d = x.dest
      OBVIOUS
    <3>2. /\ Mailed(Append(q, item), n, t, Append(words, d))
          /\ Complete(q, t, words) => Complete(Append(q, item), t, Append(words, d))
      BY <1>4, <1>5, <2>1, <3>1, AppendWord
    <3> QED
      BY <1>3, <1>4, <1>10, <3>1, <3>2
  <2>3. ASSUME Has(k, t)
        PROVE  /\ Stored(st, k, t, sd2) /\ Before(st, a, n, t)
               /\ scenario.streams = {} /\ ~tubes[k][t].lost => NoGap(st, a, k, t, w, n, deaf)
    <3>1. Before(st, q, n, t) /\ \A i \in DOMAIN st : st[i].from = n => st[i].number \in 1..Len(words)
      BY <1>2, <1>4, <2>3 DEF Stored
    <3>2. /\ Before(st, Append(q, item), n, t)
          /\ NoGap(st, q, k, t, words, n, deaf) => NoGap(st, Append(q, item), k, t, Append(words, x.dest), n, deaf)
      BY <1>4, <1>5, <2>1, <3>1, WordSent
    <3> QED
      BY <1>3, <1>4, <1>6, <1>10, <2>3, <3>2
  <2> QED
    BY <1>3, <1>5, <1>7, <1>8, <1>9, <2>2, <2>3 DEF OrderedAt
<1>11. CASE k \notin met[n]
  <2>1. Mailed(q, n, t, w)
    BY <1>3, <1>4, <1>5, OtherWord
  <2>2. n \notin gone
    BY DEF Says, IInv, Shape, RoomOK
  <2>3. k \notin gone => q = <<>> /\ ~Knows(k, n, t)
    BY <1>1, <1>11, <2>2 DEF StrangersAt
  <2>4. k \notin gone => Complete(q, t, w)
    BY <2>3, EmptyIs DEF Complete, On
  <2>5. Has(k, t) => k \notin gone
    BY DEF Has, IInv, Shape, TablesOK, RoomOK
  <2>6. Has(k, t) => NoGap(st, q, k, t, w, n, deaf)
    BY <1>2, <2>3, <2>5 DEF NoGap, Knows
  <2> QED
    BY <1>3, <1>4, <1>5, <1>6, <1>7, <1>8, <1>9, <1>11, <2>1, <2>4, <2>6 DEF OrderedAt
<1> QED
  BY <1>10, <1>11

\* ... and to itself.
LEMMA SayOwn ==
    ASSUME IInv, NEW n \in Nodes, NEW t \in Tubes, NEW x, NEW item, Says(n, t, x, item),
           OrderedAt(<<>>, n, n, t)
    PROVE  OrderedAt(<<>>, n, n, t)' /\ Latest(Store(tubes[n][t]), x)
<1>2. PICK words, sd, st, deaf : /\ words = said[n][t] /\ sd = said /\ st = Store(tubes[n][t])
                                 /\ deaf = Deaf(n, n, t)
  OBVIOUS
<1>3. PICK sd2, st2, w : sd2 = said' /\ st2 = Store(tubes'[n][t]) /\ w = Append(words, x.dest)
  OBVIOUS
<1>4. Stored(st, n, t, sd) /\ (scenario.streams = {} /\ ~tubes[n][t].lost => NoGap(st, <<>>, n, t, words, n, deaf))
  <2>1. Has(n, t)
    BY DEF Says
  <2> QED
    BY <1>2, <2>1, OrderedNow
<1>5. w = said'[n][t] /\ IsQueue(words) /\ Len(words) \in Nat /\ Len(w) = Len(words) + 1
      /\ \A k \in 1..Len(words) : w[k] = words[k]
  <2>1. w = said'[n][t] /\ IsQueue(words)
    BY <1>2, <1>3, SaysMore DEF Says
  <2>2. PICK d : d = x.dest
    OBVIOUS
  <2>3. /\ Len(Append(words, d)) = Len(words) + 1 /\ Len(words) \in Nat /\ DOMAIN words = 1..Len(words)
        /\ \A k \in DOMAIN words : Append(words, d)[k] = words[k]
    BY <2>1, AppendIs, QueueIs
  <2> QED
    BY <1>3, <2>1, <2>2, <2>3
<1>6. Stored(st, n, t, sd2)
  BY <1>2, <1>3, <1>4, StoredGrows, SaysMore
<1>7. /\ tubes'[n][t].lost = tubes[n][t].lost /\ IsQueue(st)
      /\ x.dest \notin {All, n} => st2 = st
      /\ x.dest \in {All, n} => st2 = Append(st, x)
  <2>1. Has(n, t)
    BY DEF Says
  <2> QED
    BY <1>2, <1>3, <2>1, SayStores
<1>8. deaf = FALSE /\ Deaf(n, n, t)' = FALSE
  <2>1. n \in met[n]
    BY DEF Says, IInv, Shape, RoomOK
  <2> QED
    BY <1>2, <2>1 DEF Deaf, Says
<1>9. On(<<>>, t) = {}
  BY EmptyIs DEF On
<1>10. x.from = n /\ x.tube = t /\ x.number = Len(w)
  BY <1>2, <1>5 DEF Says
<1>11. \A i \in DOMAIN st : st[i].from = n => st[i].number \in 1..Len(words)
  BY <1>2, <1>4 DEF Stored
<1>12. Latest(st, x)
  BY <1>5, <1>10, <1>11 DEF Latest
<1>13. Stored(st2, n, t, sd2)
  <2>1. x.number \in 1..Len(sd2[n][t])
    BY <1>3, <1>5, <1>10
  <2>2. x.dest \in {All, n} => Stored(Append(st, x), n, t, sd2)
    BY <1>6, <1>7, <1>10, <1>12, <2>1, StoredAppend
  <2> QED
    BY <1>6, <1>7, <2>2
<1>14. ASSUME NoGap(st, <<>>, n, t, words, n, FALSE) PROVE NoGap(st2, <<>>, n, t, w, n, FALSE)
  <2> SUFFICES ASSUME NEW i \in DOMAIN st2, st2[i].from = n, NEW k \in st2[i].number .. Len(w), w[k] \in {All, n}
               PROVE  k \in Numbers(st2, n)
    BY DEF NoGap
  <2>1. w[Len(w)] = x.dest
    BY <1>2, <1>3, <1>5, SaysMore
  <2>2. /\ x.dest \in {All, n} => Numbers(st2, n) = Numbers(st, n) \cup {Len(w)}
        /\ x.dest \notin {All, n} => Numbers(st2, n) = Numbers(st, n)
    <3>1. Numbers(Append(st, x), n) = Numbers(st, n) \cup (IF x.from = n THEN {x.number} ELSE {})
      BY <1>7, StoreIs
    <3> QED
      BY <1>7, <1>10, <3>1
  <2>3. (i \in DOMAIN st /\ st2[i] = st[i]) \/ (x.dest \in {All, n} /\ st2[i] = x)
    <3>1. CASE x.dest \in {All, n}
      BY <1>7, <3>1, StoreIs
    <3>2. CASE x.dest \notin {All, n}
      BY <1>7, <3>2
    <3> QED
      BY <3>1, <3>2
  <2>4. CASE k = Len(w)
    BY <2>1, <2>2, <2>4
  <2>5. CASE k # Len(w)
    <3>1. i \in DOMAIN st /\ st2[i] = st[i]
      BY <1>5, <1>10, <2>3, <2>5
    <3>2. st[i].number \in 1..Len(words)
      BY <1>11, <3>1
    <3>3. k \in st[i].number .. Len(words) /\ w[k] = words[k]
      BY <1>5, <2>5, <3>1, <3>2
    <3>4. k \in Numbers(st, n)
      BY <1>9, <1>14, <3>1, <3>3 DEF NoGap
    <3> QED
      BY <2>2, <3>4
  <2> QED
    BY <2>4, <2>5
<1>15. scenario' = scenario
  BY DEF Says
<1>16. Mailed(<<>>, n, t, w) /\ Complete(<<>>, t, w) /\ Before(st2, <<>>, n, t)
  BY <1>9 DEF Mailed, Complete, Before
<1>17. OrderedAt(<<>>, n, n, t)'
  BY <1>3, <1>4, <1>5, <1>7, <1>8, <1>13, <1>14, <1>15, <1>16 DEF OrderedAt
<1> QED
  BY <1>2, <1>12, <1>17

\* The order on every tube survives Say.
LEMMA SayOrderly ==
    ASSUME IInv, NEW n \in Nodes, NEW t \in Tubes, NEW x, NEW item, Says(n, t, x, item),
           NEW k \in Nodes, NEW m \in Nodes, NEW u \in Tubes
    PROVE  OrderedAt(mail[m][k], k, m, u)'
<1>1. PICK q, a : q = mail[m][k] /\ a = mail'[m][k]
  OBVIOUS
<1>2. IsQueue(q) /\ Pair(q, k, m) /\ (m = k => q = <<>>)
  BY <1>1 DEF IInv, Shape, MailOK, Pairs
<1>3. a = IF m = n /\ k \in met[n] \ {n} THEN Append(q, item) ELSE q
  BY <1>1 DEF Says, Posted
<1>4. OrderedAt(a, k, m, u)'
  <2>1. OrderedAt(q, k, m, u)
    BY <1>2 DEF Pair
  <2>2. CASE u # t
    <3>1. a = q \/ a = Append(q, item)
      BY <1>3
    <3> QED
      BY <1>2, <2>1, <2>2, <3>1, SayElsewhere
  <2>3. CASE u = t /\ m # n
    <3>1. k = n => Latest(Store(tubes[n][t]), x)
      <4>1. Pair(mail[n][n], n, n) /\ mail[n][n] = <<>>
        BY DEF IInv, Shape, MailOK, Pairs
      <4>2. OrderedAt(<<>>, n, n, t)
        BY <4>1 DEF Pair
      <4> QED
        BY <4>2, SayOwn
    <3>2. OrderedAt(q, k, m, t)'
      BY <1>2, <2>1, <2>3, <3>1, SayHeard
    <3> QED
      BY <1>3, <2>3, <3>2
  <2>4. CASE u = t /\ m = n /\ k # n
    <3>1. a = IF k \in met[n] THEN Append(q, item) ELSE q
      BY <1>3, <2>4
    <3>2. OrderedAt(a, k, n, t)'
      BY <1>2, <2>4, <3>1, SaySent
    <3> QED
      BY <2>4, <3>2
  <2>5. CASE u = t /\ m = n /\ k = n
    <3>1. OrderedAt(<<>>, n, n, t)
      BY <1>2, <2>1, <2>5
    <3>2. OrderedAt(<<>>, n, n, t)'
      BY <3>1, SayOwn
    <3> QED
      BY <1>2, <1>3, <2>5, <3>2
  <2> QED
    BY <2>2, <2>3, <2>4, <2>5
<1> QED
  BY <1>1, <1>4

\* Strangers, and the chain of streams, survive Say.
LEMMA SayConsistent ==
    ASSUME IInv, NEW n \in Nodes, NEW t \in Tubes, NEW x, NEW item, Says(n, t, x, item),
           NEW k \in Nodes, NEW m \in Nodes, m # k
    PROVE  /\ StrangersAt(mail[m][k], k, m)'
           /\ scenario.streams = {} => \A u \in Tubes : ConsistentAt(mail[m][k], k, m, u)'
<1>1. PICK q, a : q = mail[m][k] /\ a = mail'[m][k]
  OBVIOUS
<1>2. IsQueue(q) /\ Pair(q, k, m)
  BY <1>1 DEF IInv, Shape, MailOK, Pairs
<1>3. a = IF m = n /\ k \in met[n] \ {n} THEN Append(q, item) ELSE q
  BY <1>1 DEF Says, Posted
<1>4. UNCHANGED <<scenario, met, gone>>
  BY DEF Says
<1>5. ASSUME NEW u \in Tubes
      PROVE  /\ Knows(k, m, u)' <=> Knows(k, m, u)
             /\ Knows(k, m, u) => KnownStream(k, m, u)' = KnownStream(k, m, u)
             /\ Now(m, u)' = Now(m, u)
  <2>1. Has(k, u)' <=> Has(k, u)
    BY SayStores
  <2>2. Has(k, u) => tubes'[k][u].senders = tubes[k][u].senders /\ IsQueue(Store(tubes[k][u]))
    BY SayStores
  <2>3. Now(m, u)' = Now(m, u)
    BY SayStores DEF Now, In
  <2>4. Has(k, u) => KnownStream(k, m, u)' = KnownStream(k, m, u)
    BY <2>2 DEF KnownStream
  <2>5. Has(k, u) => ((\E i \in DOMAIN Store(tubes'[k][u]) : Store(tubes'[k][u])[i].from = m)
                      <=> (\E i \in DOMAIN Store(tubes[k][u]) : Store(tubes[k][u])[i].from = m))
    <3>1. CASE Has(k, u) /\ Store(tubes'[k][u]) = Store(tubes[k][u])
      BY <3>1
    <3>2. CASE Has(k, u) /\ k = n /\ u = t /\ Store(tubes'[k][u]) = Append(Store(tubes[k][u]), x)
      <4>1. PICK st : st = Store(tubes[k][u])
        OBVIOUS
      <4>2. IsQueue(st) /\ Store(tubes'[k][u]) = Append(st, x)
        BY <2>2, <3>2, <4>1
      <4>3. \A i \in DOMAIN Append(st, x) : (i \in DOMAIN st /\ Append(st, x)[i] = st[i]) \/ Append(st, x)[i] = x
        BY <4>2, StoreIs
      <4>4. \A i \in DOMAIN st : i \in DOMAIN Append(st, x) /\ Append(st, x)[i] = st[i]
        BY <4>2, AppendIs, QueueIs
      <4>5. x.from # m
        BY <3>2 DEF Says
      <4> QED
        BY <4>1, <4>2, <4>3, <4>4, <4>5
    <3> QED
      BY <3>1, <3>2, SayStores
  <2> QED
    BY <2>1, <2>2, <2>3, <2>4, <2>5 DEF Knows
<1>6. StrangersAt(a, k, m)'
  <2>1. StrangersAt(q, k, m)
    BY <1>2 DEF Pair
  <2>2. a = q \/ k \in met[m]
    BY <1>3
  <2> QED
    BY <1>4, <1>5, <2>1, <2>2 DEF StrangersAt
<1>7. ASSUME scenario.streams = {}, NEW u \in Tubes PROVE ConsistentAt(a, k, m, u)'
  <2>1. PICK knows, s, now : knows = Knows(k, m, u) /\ s = KnownStream(k, m, u) /\ now = Now(m, u)
    OBVIOUS
  <2>2. knows <=> Knows(k, m, u)'
    BY <1>5, <2>1
  <2>3. (knows => s = KnownStream(k, m, u)') /\ now = Now(m, u)'
    BY <1>5, <2>1
  <2>4. Chained(q, u, knows, s) /\ (k \in met[m] => Ends(q, u, knows, s, now))
    BY <1>2, <1>7, <2>1 DEF Pair, ConsistentAt
  <2>5. Chained(a, u, knows, s) /\ (k \in met[m] => Ends(a, u, knows, s, now))
    <3>1. CASE a = q
      BY <2>4, <3>1
    <3>2. CASE a = Append(q, item) /\ m = n /\ k \in met[n] /\ u = t
      <4>1. Told(item, u) = now /\ Tells(item, u)
        BY <2>1, <3>2 DEF Told, Tells, Says, Now, In
      <4>2. Continues(now, item, u)
        BY <4>1 DEF Continues, Says
      <4>3. /\ Chained(Append(q, item), u, knows, s)
            /\ Ends(Append(q, item), u, knows, s, Told(item, u))
        BY <1>2, <2>4, <3>2, <4>1, <4>2, AppendTells
      <4> QED
        BY <3>2, <4>1, <4>3
    <3>3. CASE a = Append(q, item) /\ m = n /\ k \in met[n] /\ u # t
      <4>1. ~Tells(item, u)
        BY <3>3 DEF Tells, Says
      <4> QED
        BY <1>2, <2>4, <3>3, <4>1, AppendSilent
    <3> QED
      BY <1>3, <3>1, <3>2, <3>3
  <2>6. CASE knows
    BY <1>4, <2>2, <2>3, <2>5, <2>6 DEF ConsistentAt, Chained, Ends
  <2>7. CASE ~knows
    BY <1>4, <2>2, <2>3, <2>5, <2>7 DEF ConsistentAt, Chained, Ends
  <2> QED
    BY <2>6, <2>7
<1> QED
  BY <1>1, <1>6, <1>7

\* The invariant survives Say.
LEMMA SayKeeps ==
    ASSUME IInv, NEW n \in Nodes, NEW t \in Tubes, NEW dest, Say(n, t, dest)
    PROVE  IInv'
<1>1. PICK x, item : Says(n, t, x, item)
  BY SayIs
<1>2. Shape /\ RoomOK /\ TablesOK /\ MailOK(mail) /\ SaidOK /\ n \in joined /\ t \in DOMAIN tubes[n]
  BY <1>1 DEF IInv, Shape, Says, Has
<1>3. PICK table, y : table = tubes'[n] /\ y = table[t]
  OBVIOUS
<1>4. TubeOK(y, n)
  <2>1. TubeOK(tubes[n][t], n)
    BY <1>2 DEF TablesOK, TableOK
  <2>2. IsQueue(tubes[n][t].got) /\ IsQueue(Append(tubes[n][t].got, x))
    BY <2>1, AppendIs DEF TubeOK
  <2>3. /\ DOMAIN y = Fields /\ y.program = "on" /\ y.lost = tubes[n][t].lost
        /\ y.state = "open" /\ y.stream = tubes[n][t].stream
        /\ y.names = tubes[n][t].names /\ y.senders = tubes[n][t].senders
        /\ y.queue = tubes[n][t].queue /\ IsQueue(y.got) /\ tubes[n][t].program = "on"
    BY <1>1, <1>3, <2>2 DEF Says
  <2> QED
    BY <2>1, <2>3 DEF TubeOK
<1>5. TableOK(table, n)
  BY <1>1, <1>2, <1>3, <1>4 DEF Says, OnlyAt, TablesOK, TableOK
<1>6. Alters(n, table) /\ last' \in [Nodes -> Nat] /\ joined' = joined
  BY <1>1, <1>2, <1>3 DEF Says, Alters, TablesOK
<1>7. TablesOK'
  BY <1>2, <1>5, <1>6, TablesStay
<1>8. RoomOK'
  BY <1>1, <1>2 DEF Says, RoomOK
<1>9. SaidOK'
  <2> SUFFICES ASSUME NEW f \in Nodes, NEW u \in Tubes PROVE IsQueue(said'[f][u])
    BY <1>1 DEF Says, SaidOK
  <2>1. IsQueue(said[f][u]) /\ IsQueue(Append(said[f][u], x.dest))
    BY <1>2, AppendIs DEF SaidOK
  <2>2. CASE f = n /\ u = t
    BY <1>1, <2>1, <2>2 DEF Says
  <2>3. CASE f # n \/ u # t
    BY <1>1, <2>1, <2>3 DEF Says
  <2> QED
    BY <2>2, <2>3
<1>10. PICK box, b, members, ls, tbs : box = mail' /\ b = mail /\ members = met[n] /\ ls = last /\ tbs = tubes'
  OBVIOUS
<1>11. Posted(b, box, n, members, item) /\ MailOK(b)
  BY <1>1, <1>2, <1>10 DEF Says
<1>12. MailOK(box)
  BY <1>11, PostedOK
<1>13. MailOK(mail)'
  BY <1>10, <1>12 DEF MailOK, Mailbox
<1>14. \E of : StreamsFit(of)'
  <2>1. PICK of : StreamsFit(of)
    BY DEF IInv
  <2>2. \A k \in Nodes : TableFits(of, ls, tubes[k], k)
    BY <1>10, <2>1 DEF StreamsFit
  <2>3. ItemFits(of, ls, n, item)
    BY <1>1, <1>2, <2>2 DEF ItemFits, Says, TableFits
  <2>4. MailFits(of, ls, box) /\ of \in [Nodes -> [Nat -> Tubes \cup {0}]]
    BY <1>10, <1>11, <2>1, <2>3, PostedFits DEF StreamsFit
  <2>5. TableFits(of, ls, table, n)
    BY <1>1, <1>2, <1>3, <2>2 DEF TableFits, Says, OnlyAt
  <2>6. \A k \in Nodes : TableFits(of, ls, tbs[k], k)
    BY <1>3, <1>10, <2>2, <2>5, <1>6 DEF Alters
  <2> QED
    <3>1. scenario' = scenario /\ last' = last
      BY <1>1 DEF Says
    <3> QED
      BY <1>10, <2>4, <2>6, <3>1, StreamsStay
<1>15. Pairs'
  <2> SUFFICES ASSUME NEW k \in Nodes, NEW m \in Nodes PROVE Pair(mail[m][k], k, m)'
    BY DEF Pairs
  <2>1. \A u \in Tubes : OrderedAt(mail[m][k], k, m, u)'
    BY <1>1, SayOrderly
  <2>2. m # k => /\ StrangersAt(mail[m][k], k, m)'
                 /\ scenario.streams = {} => \A u \in Tubes : ConsistentAt(mail[m][k], k, m, u)'
    BY <1>1, SayConsistent
  <2>3. scenario' = scenario
    BY <1>1 DEF Says
  <2> QED
    BY <2>1, <2>2, <2>3 DEF Pair
<1> QED
  BY <1>7, <1>8, <1>9, <1>13, <1>14, <1>15 DEF IInv, Shape

-----------------------------------------------------------------------------
(* The room *)

\* A node joins.
LEMMA JoinKeeps ==
    ASSUME IInv, NEW n \in Nodes, Join(n)
    PROVE  IInv'
<1>1. /\ n \notin joined \cup gone /\ joined' = joined \cup {n} /\ met' = [met EXCEPT ![n] = {n}]
      /\ UNCHANGED <<scenario, gone, tubes, last, mail, said, closed>>
  BY DEF Join
<1>2. Shape /\ RoomOK /\ TablesOK /\ MailOK(mail) /\ SaidOK
  BY DEF IInv, Shape
<1>3. met[n] = {} /\ tubes[n] = <<>> /\ met'[n] = {n} /\ \A k \in Nodes : k # n => met'[k] = met[k]
  BY <1>1, <1>2 DEF RoomOK, TablesOK
<1>4. RoomOK'
  <2>1. met' \in [Nodes -> SUBSET Nodes]
    BY <1>1, <1>2 DEF RoomOK
  <2>2. ASSUME NEW k \in Nodes
        PROVE  /\ met'[k] \subseteq joined' \cup gone /\ (k \in joined' <=> k \in met'[k])
               /\ k \notin joined' => met'[k] = {}
    BY <1>1, <1>2, <1>3 DEF RoomOK
  <2> QED
    BY <1>1, <1>2, <2>1, <2>2 DEF RoomOK
<1>5. TablesOK' /\ SaidOK' /\ MailOK(mail)'
  BY <1>1, <1>2 DEF TablesOK, SaidOK, MailOK, Mailbox
<1>6. \E of : StreamsFit(of)'
  BY <1>1 DEF IInv, StreamsFit, TableFits, MailFits, ItemFits, IsStream
<1>7. Pairs'
  <2> SUFFICES ASSUME NEW k \in Nodes, NEW m \in Nodes PROVE Pair(mail[m][k], k, m)'
    BY DEF Pairs
  <2>1. PICK q : q = mail[m][k]
    OBVIOUS
  <2>2. Pair(q, k, m)
    BY <2>1 DEF IInv, Pairs
  <2>3. AllAlike(k, m)
    BY <1>1 DEF AllAlike, Alike, Has
  <2>4. MetAlike(k, m)
    BY <1>1, <1>3, EmptyIs DEF MetAlike
  <2>5. NowAlike(k, m)
    BY <1>1, <1>3 DEF NowAlike, Now, In, Has
  <2>6. Pair(q, k, m)'
    BY <1>1, <2>2, <2>3, <2>4, <2>5, PairKept DEF RoomAlike
  <2> QED
    BY <1>1, <2>1, <2>6
<1> QED
  BY <1>4, <1>5, <1>6, <1>7 DEF IInv, Shape

\* A node is gone.
LEMMA GoneKeeps ==
    ASSUME IInv, NEW n \in Nodes, n \in joined, Gone(n)
    PROVE  IInv'
<1>1. /\ joined' = joined \ {n} /\ gone' = gone \cup {n} /\ tubes' = [tubes EXCEPT ![n] = <<>>]
      /\ met' = [met EXCEPT ![n] = {}] /\ mail' = [m \in Nodes |-> [mail[m] EXCEPT ![n] = <<>>]]
      /\ UNCHANGED <<scenario, last, said, closed>>
  BY DEF Gone
<1>2. Shape /\ RoomOK /\ TablesOK /\ MailOK(mail) /\ SaidOK
  BY DEF IInv, Shape
<1>3. met'[n] = {} /\ \A k \in Nodes : k # n => met'[k] = met[k]
  BY <1>1, <1>2 DEF RoomOK
<1>4. tubes'[n] = <<>> /\ DOMAIN tubes' = Nodes /\ \A k \in Nodes : k # n => tubes'[k] = tubes[k]
  BY <1>1, <1>2 DEF TablesOK
<1>5. DOMAIN mail' = Nodes /\ \A m \in Nodes : /\ DOMAIN mail'[m] = Nodes /\ mail'[m][n] = <<>>
                                               /\ \A k \in Nodes : k # n => mail'[m][k] = mail[m][k]
  BY <1>1, <1>2 DEF MailOK, Mailbox
<1>6. RoomOK'
  <2>1. met' \in [Nodes -> SUBSET Nodes]
    BY <1>1, <1>2 DEF RoomOK
  <2>2. ASSUME NEW k \in Nodes
        PROVE  /\ met'[k] \subseteq joined' \cup gone' /\ (k \in joined' <=> k \in met'[k])
               /\ k \notin joined' => met'[k] = {}
    <3>1. /\ met[k] \subseteq joined \cup gone /\ (k \in joined <=> k \in met[k])
          /\ k \notin joined => met[k] = {}
      BY <1>2 DEF RoomOK
    <3> QED
      BY <1>1, <1>3, <3>1
  <2>3. joined' \subseteq Nodes /\ gone' \subseteq Nodes /\ joined' \cap gone' = {}
    BY <1>1, <1>2 DEF RoomOK
  <2> QED
    BY <1>1, <1>2, <2>1, <2>2, <2>3 DEF RoomOK
<1>7. TablesOK' /\ SaidOK'
  BY <1>1, <1>2, <1>4, EmptyIs DEF TablesOK, SaidOK, TableOK
<1>8. MailOK(mail)'
  BY <1>2, <1>5, EmptyIs DEF MailOK, Mailbox
<1>9. \E of : StreamsFit(of)'
  <2>1. PICK of : StreamsFit(of)
    BY DEF IInv
  <2>2. PICK ls, tbs, box : ls = last' /\ tbs = tubes' /\ box = mail'
    OBVIOUS
  <2>3. \A k \in Nodes : TableFits(of, ls, tbs[k], k)
    BY <1>1, <1>4, <2>1, <2>2, EmptyIs DEF StreamsFit, TableFits
  <2>4. MailFits(of, ls, box)
    BY <1>1, <1>5, <2>1, <2>2, EmptyIs DEF StreamsFit, MailFits
  <2> QED
    BY <1>1, <2>1, <2>2, <2>3, <2>4, StreamsStay DEF StreamsFit
<1>10. Pairs'
  <2> SUFFICES ASSUME NEW k \in Nodes, NEW m \in Nodes PROVE Pair(mail[m][k], k, m)'
    BY DEF Pairs
  <2>1. CASE k = n
    <3>1. Pair(<<>>, n, m)'
      BY <1>4, PairEmpty
    <3> QED
      BY <1>5, <2>1, <3>1
  <2>2. CASE k # n
    <3>1. PICK q : q = mail[m][k]
      OBVIOUS
    <3>2. Pair(q, k, m)
      BY <3>1 DEF IInv, Pairs
    <3>3. AllAlike(k, m)
      BY <1>4, <2>2 DEF AllAlike, Alike, Has
    <3>4. MetAlike(k, m)
      BY <1>1, <1>3, <2>2 DEF MetAlike
    <3>5. NowAlike(k, m)
      BY <1>3, <1>4 DEF NowAlike, Now, In, Has
    <3>6. RoomAlike
      BY <1>1 DEF RoomAlike
    <3>7. Pair(q, k, m)'
      BY <3>2, <3>3, <3>4, <3>5, <3>6, PairKept
    <3> QED
      BY <1>5, <2>2, <3>1, <3>7
  <2> QED
    BY <2>1, <2>2
<1> QED
  BY <1>6, <1>7, <1>8, <1>9, <1>10 DEF IInv, Shape

\* Who is gone is not heard any more.
LEMMA LostPair ==
    ASSUME NEW q, NEW n \in Nodes, NEW m \in Nodes, Pair(q, n, m), RoomAlike, tubes' = tubes,
           m \notin met'[n], m \in gone', n \notin met'[m]
    PROVE  Pair(<<>>, n, m)'
<1>1. ASSUME NEW t \in Tubes PROVE OrderedAt(<<>>, n, m, t)'
  <2>1. PICK words, sd, st, deaf : /\ words = said[m][t] /\ sd = said /\ st = Store(tubes[n][t])
                                   /\ deaf = Deaf(n, m, t)
    OBVIOUS
  <2>2. OrderedAt(q, n, m, t)
    BY DEF Pair
  <2>3. Has(n, t) => /\ Stored(st, n, t, sd) /\ Before(st, q, m, t)
                     /\ scenario.streams = {} /\ ~tubes[n][t].lost => NoGap(st, q, n, t, words, m, deaf)
    BY <2>1, <2>2, OrderedNow
  <2>4. On(<<>>, t) = {}
    BY EmptyIs DEF On
  <2>5. Mailed(<<>>, m, t, words) /\ Complete(<<>>, t, words) /\ Before(st, <<>>, m, t)
    BY <2>4 DEF Mailed, Complete, Before
  <2>6. ASSUME Before(st, q, m, t), NoGap(st, q, n, t, words, m, deaf)
        PROVE  NoGap(st, <<>>, n, t, words, m, TRUE)
    <3> SUFFICES ASSUME NEW i \in DOMAIN st, st[i].from = m, NEW k \in st[i].number .. Len(words),
                        words[k] \in {All, n}
                 PROVE  k \in Numbers(st, m) \/ \A j \in DOMAIN st : st[j].from = m => st[j].number < k
      BY DEF NoGap
    <3>1. \/ k \in Numbers(st, m)
          \/ \E j \in On(q, t) : q[j].what.number = k
          \/ deaf /\ \A j \in DOMAIN st : st[j].from = m => st[j].number < k
      BY <2>6 DEF NoGap
    <3>2. CASE \E j \in On(q, t) : q[j].what.number = k
      BY <2>6, <3>2 DEF Before
    <3> QED
      BY <3>1, <3>2
  <2>7. Deaf(n, m, t)' = TRUE
    BY DEF Deaf
  <2>8. (Has(n, t)' <=> Has(n, t)) /\ tubes'[n][t] = tubes[n][t]
    BY DEF Has
  <2> QED
    BY <2>1, <2>3, <2>5, <2>6, <2>7, <2>8 DEF OrderedAt, RoomAlike
<1>2. StrangersAt(<<>>, n, m)'
  BY DEF StrangersAt
<1>3. \A t \in Tubes : ConsistentAt(<<>>, n, m, t)'
  BY EmptyIs DEF ConsistentAt, Chained
<1> QED
  BY <1>1, <1>2, <1>3 DEF Pair

\* The invariant survives LostSender.
LEMMA LostKeeps ==
    ASSUME IInv, NEW n \in Nodes, NEW m \in Nodes, LostSender(n, m)
    PROVE  IInv'
<1>1. /\ n \in joined /\ m \in met[n] \cap gone /\ met' = [met EXCEPT ![n] = @ \ {m}]
      /\ mail' = [mail EXCEPT ![m][n] = <<>>]
      /\ UNCHANGED <<scenario, joined, gone, tubes, last, said, closed>>
  BY DEF LostSender
<1>2. Shape /\ RoomOK /\ TablesOK /\ MailOK(mail) /\ SaidOK
  BY DEF IInv, Shape
<1>3. /\ met'[n] = met[n] \ {m} /\ \A k \in Nodes : k # n => met'[k] = met[k]
      /\ n # m /\ met[m] = {}
  BY <1>1, <1>2 DEF RoomOK
<1>4. /\ Mailbox(mail)' /\ mail'[m][n] = <<>>
      /\ \A k, l \in Nodes : k # m \/ l # n => mail'[k][l] = mail[k][l]
  BY <1>1, <1>2 DEF MailOK, Mailbox
<1>5. RoomOK'
  <2>1. met' \in [Nodes -> SUBSET Nodes]
    BY <1>1, <1>2 DEF RoomOK
  <2>2. ASSUME NEW k \in Nodes
        PROVE  /\ met'[k] \subseteq joined \cup gone /\ (k \in joined <=> k \in met'[k])
               /\ k \notin joined => met'[k] = {}
    BY <1>1, <1>2, <1>3 DEF RoomOK
  <2> QED
    BY <1>1, <1>2, <2>1, <2>2 DEF RoomOK
<1>6. TablesOK' /\ SaidOK' /\ RoomAlike
  BY <1>1, <1>2 DEF TablesOK, SaidOK, RoomAlike
<1>7. MailOK(mail)'
  BY <1>2, <1>3, <1>4, EmptyIs DEF MailOK
<1>8. \E of : StreamsFit(of)'
  <2>1. PICK of : StreamsFit(of)
    BY DEF IInv
  <2>2. PICK ls, tbs, box : ls = last' /\ tbs = tubes' /\ box = mail'
    OBVIOUS
  <2>3. \A k \in Nodes : TableFits(of, ls, tbs[k], k)
    BY <1>1, <2>1, <2>2 DEF StreamsFit
  <2>4. MailFits(of, ls, box)
    BY <1>1, <1>4, <2>1, <2>2, EmptyIs DEF StreamsFit, MailFits
  <2> QED
    BY <1>1, <2>1, <2>2, <2>3, <2>4, StreamsStay DEF StreamsFit
<1>9. Pairs'
  <2> SUFFICES ASSUME NEW k \in Nodes, NEW l \in Nodes PROVE Pair(mail[l][k], k, l)'
    BY DEF Pairs
  <2>1. PICK q : q = mail[l][k]
    OBVIOUS
  <2>2. Pair(q, k, l)
    BY <2>1 DEF IInv, Pairs
  <2>3. CASE l = m /\ k = n
    <3>1. Pair(<<>>, n, m)'
      BY <1>1, <1>3, <1>6, <2>2, <2>3, LostPair
    <3> QED
      BY <1>4, <2>3, <3>1
  <2>4. CASE l # m \/ k # n
    <3>1. AllAlike(k, l)
      BY <1>1 DEF AllAlike, Alike, Has
    <3>2. MetAlike(k, l)
      BY <1>1, <1>3 DEF MetAlike
    <3>3. NowAlike(k, l)
      BY <1>1, <1>3 DEF NowAlike, Now, In, Has
    <3>4. Pair(q, k, l)'
      BY <1>6, <2>2, <3>1, <3>2, <3>3, PairKept
    <3> QED
      BY <1>4, <2>1, <2>4, <3>4
  <2> QED
    BY <2>3, <2>4
<1> QED
  BY <1>5, <1>6, <1>7, <1>8, <1>9 DEF IInv, Shape

-----------------------------------------------------------------------------
(* What the others are in *)

\* What n has stored stays, or the tube is new.
StoresStay(n) ==
    \A t \in Tubes : Has(n, t)' =>
       \/ Store(tubes'[n][t]) = <<>>
       \/ /\ Has(n, t) /\ Store(tubes'[n][t]) = Store(tubes[n][t])
          /\ tubes'[n][t].lost = tubes[n][t].lost /\ tubes'[n][t].program = tubes[n][t].program
\* n uses the same streams as before.
NowSame(n) == \A t \in Tubes : Now(n, t)' = Now(n, t)
\* n now knows of m what x tells.
LearnsFrom(n, m, x) == \A t \in Tubes : Knows(n, m, t)' => KnownStream(n, m, t)' = Told(x, t)
\* n is as before towards the others.
AlikeBut(n, m) == \A k \in Nodes : k # m => AllAlike(n, k)

\* The pair of who reads a list and who sent it.
LEMMA ListRead ==
    ASSUME Shape, NEW q, IsQueue(q), q # <<>>, NEW n \in Nodes, NEW m \in Nodes, m # n, Pair(q, n, m),
           n \in joined, m \in met[n], Head(q).kind = "tubes",
           scenario' = scenario, said' = said, gone' = gone, met' = met,
           StoresStay(n), \A t \in Tubes : Now(m, t)' = Now(m, t),
           scenario.streams = {} => LearnsFrom(n, m, Head(q))
    PROVE  Pair(Tail(q), n, m)'
<1>1. PICK x : x = Head(q)
  OBVIOUS
<1>2. PICK p : p = Tail(q)
  OBVIOUS
<1>3. ASSUME NEW t \in Tubes PROVE OrderedAt(p, n, m, t)'
  <2>1. OrderedAt(q, n, m, t)
    BY DEF Pair
  <2>2. OrderedAt(p, n, m, t)
    BY <1>2, <2>1, TailOrdered
  <2>3. Deaf(n, m, t) /\ tubes'[n][t].program = tubes[n][t].program => Deaf(n, m, t)'
    BY DEF Deaf
  <2> QED
    BY <2>2, <2>3, KeepOrdered DEF StoresStay
<1>4. StrangersAt(p, n, m)'
  <2>1. n \notin gone
    BY DEF Shape, RoomOK
  <2> QED
    BY <2>1 DEF Pair, StrangersAt
<1>5. ASSUME scenario.streams = {}, NEW t \in Tubes PROVE ConsistentAt(p, n, m, t)'
  <2>1. PICK knows, s, now : knows = Knows(n, m, t) /\ s = KnownStream(n, m, t) /\ now = Now(m, t)
    OBVIOUS
  <2>2. PICK known, r : known = Knows(n, m, t)' /\ r = KnownStream(n, m, t)'
    OBVIOUS
  <2>3. Chained(q, t, knows, s) /\ (n \in met[m] => Ends(q, t, knows, s, now))
    BY <1>5, <2>1 DEF Pair, ConsistentAt
  <2>4. Tells(x, t)
    BY <1>1 DEF Tells
  <2>5. /\ Chained(p, t, known, Told(x, t))
        /\ Ends(q, t, knows, s, now) => Ends(p, t, known, Told(x, t), now)
    BY <1>1, <1>2, <2>3, <2>4, TailTells
  <2>6. known => r = Told(x, t)
    BY <1>1, <1>5, <2>2 DEF LearnsFrom
  <2>7. Chained(p, t, known, r) /\ (n \in met[m] => Ends(p, t, known, r, now))
    <3>1. CASE known
      BY <2>3, <2>5, <2>6, <3>1
    <3>2. CASE ~known
      BY <2>3, <2>5, <3>2 DEF Chained, Ends
    <3> QED
      BY <3>1, <3>2
  <2>8. now = Now(m, t)'
    BY <2>1
  <2> QED
    BY <2>2, <2>7, <2>8 DEF ConsistentAt
<1> QED
  BY <1>2, <1>3, <1>4, <1>5 DEF Pair

\* All pairs stay as the invariant wants them when n learns from a list of m.
LEMMA ListReadPairs ==
    ASSUME IInv, NEW n \in Nodes, NEW m \in Nodes, m # n, n \in joined, m \in met[n],
           mail[m][n] # <<>>, Head(mail[m][n]).kind = "tubes", Reading(mail, mail', n, m),
           UNCHANGED <<scenario, joined, gone, met, said>>,
           \A k \in Nodes : k # n => tubes'[k] = tubes[k],
           StoresStay(n), NowSame(n), AlikeBut(n, m),
           scenario.streams = {} => LearnsFrom(n, m, Head(mail[m][n]))
    PROVE  Pairs'
<1> SUFFICES ASSUME NEW k \in Nodes, NEW l \in Nodes PROVE Pair(mail[l][k], k, l)'
  BY DEF Pairs
<1>1. PICK q : q = mail[l][k]
  OBVIOUS
<1>2. Pair(q, k, l) /\ IsQueue(q)
  BY <1>1 DEF IInv, Pairs, Shape, MailOK
<1>3. \A i \in Nodes, t \in Tubes : Now(i, t)' = Now(i, t)
  BY DEF NowSame, Now, In, Has
<1>4. CASE k = n /\ l = m
  <2>1. mail'[l][k] = Tail(q)
    BY <1>1, <1>4 DEF Reading
  <2>2. Shape
    BY DEF IInv
  <2>3. Pair(Tail(q), k, l)'
    BY <1>1, <1>2, <1>3, <1>4, <2>2, ListRead
  <2> QED
    BY <2>1, <2>3
<1>5. CASE k # n \/ l # m
  <2>1. mail'[l][k] = q
    BY <1>1, <1>5 DEF Reading
  <2>2. AllAlike(k, l)
    <3>1. CASE k = n
      BY <1>5, <3>1 DEF AlikeBut
    <3>2. CASE k # n
      BY <3>2 DEF AllAlike, Alike, Has
    <3> QED
      BY <3>1, <3>2
  <2>3. MetAlike(k, l) /\ NowAlike(k, l) /\ RoomAlike
    BY <1>3 DEF MetAlike, NowAlike, RoomAlike
  <2>4. Pair(q, k, l)'
    BY <1>2, <2>2, <2>3, PairKept
  <2> QED
    BY <2>1, <2>4
<1> QED
  BY <1>4, <1>5

\* What a list of m makes of a tube.
Learnt(x, y, m, list, t) ==
    /\ Store(y) = Store(x) /\ y.lost = x.lost /\ y.program = x.program
    /\ y.state = x.state /\ y.stream = x.stream
    /\ IF IsStream(t) THEN y = x
       ELSE /\ \A k : k # m => /\ k \in DOMAIN y.senders <=> k \in DOMAIN x.senders
                               /\ k \in DOMAIN x.senders => y.senders[k] = x.senders[k]
            /\ m \in DOMAIN y.senders <=> t \in DOMAIN list
            /\ m \in DOMAIN y.senders =>
                  y.senders[m] = IF m \in DOMAIN x.senders THEN x.senders[m] ELSE list[t]

\* What HandleTubes makes of one tube.
LEMMA LearntIs ==
    ASSUME Shape, NEW n \in Nodes, NEW m \in Nodes, m # n, NEW list, DOMAIN list \subseteq Tubes,
           ~ \E t \in DOMAIN tubes[n] : IsStream(t),
           NEW t \in DOMAIN tubes[n] \cup DOMAIN list,
           NEW x, x = IF Has(n, t) THEN tubes[n][t] ELSE NewTube("pending", StreamOf(n, t, list)),
           NEW y, y = HandleTubes(n, m, list)[t]
    PROVE  TubeOK(y, n) /\ Learnt(x, y, m, list, t)
<1>1. TubeOK(x, n)
  <2>1. CASE Has(n, t)
    BY <2>1 DEF Shape, TablesOK, TableOK, Has
  <2>2. CASE ~Has(n, t)
    <3>1. StreamOf(n, t, list) \in Nat
      BY StreamOfIs
    <3> QED
      BY <2>2, <3>1, NewTubeIs
  <2> QED
    BY <2>1, <2>2
<1>2. DOMAIN x.senders = x.names \ {n}
  BY <1>1 DEF TubeOK
<1>3. /\ IsStream(t) => y = x
      /\ ~IsStream(t) /\ t \notin DOMAIN list => y = RemoveName(x, m)
      /\ ~IsStream(t) /\ t \in DOMAIN list /\ m \in x.names => y = x
      /\ ~IsStream(t) /\ t \in DOMAIN list /\ m \notin x.names => y = AddName(x, m, list[t])
  BY HandledIs
<1>4. CASE IsStream(t)
  BY <1>1, <1>3, <1>4 DEF Learnt
<1>5. CASE ~IsStream(t) /\ t \notin DOMAIN list
  BY <1>1, <1>3, <1>5, RemoveNameIs DEF Learnt
<1>6. CASE ~IsStream(t) /\ t \in DOMAIN list /\ m \in x.names
  BY <1>1, <1>2, <1>3, <1>6 DEF Learnt
<1>7. CASE ~IsStream(t) /\ t \in DOMAIN list /\ m \notin x.names
  <2>1. PICK s : s = list[t]
    OBVIOUS
  <2>2. y = AddName(x, m, s)
    BY <1>3, <1>7, <2>1
  <2>3. /\ TubeOK(y, n) /\ Store(y) = Store(x) /\ y.lost = x.lost /\ y.program = x.program
        /\ y.state = x.state /\ y.stream = x.stream
        /\ DOMAIN y.senders = DOMAIN x.senders \cup {m} /\ y.senders[m] = s
        /\ \A k \in DOMAIN x.senders : y.senders[k] = x.senders[k]
    BY <1>1, <1>7, <2>2, AddNameIs
  <2>4. m \notin DOMAIN x.senders
    BY <1>2, <1>7
  <2> QED
    BY <1>7, <2>1, <2>3, <2>4 DEF Learnt
<1> QED
  BY <1>4, <1>5, <1>6, <1>7

\* The step, for who has no stream tube.
Learns(n, m, list) ==
    /\ n # m /\ n \in joined /\ m \in met[n] /\ UNCHANGED <<scenario, joined, gone, met, said, closed>>
    /\ mail[m][n] # <<>> /\ Head(mail[m][n]).kind = "tubes" /\ Head(mail[m][n]).list = list
    /\ DOMAIN list \subseteq Tubes /\ Reading(mail, mail', n, m)
    /\ Alters(n, tubes'[n]) /\ DOMAIN tubes'[n] = DOMAIN tubes[n] \cup DOMAIN list
    /\ last' \in [Nodes -> Nat] /\ \A k \in Nodes : k # n => last'[k] = last[k]
    /\ last'[n] = last[n] + Cardinality(NewOnes(n, list))
    /\ \A t \in DOMAIN tubes'[n] : TubeOK(tubes'[n][t], n)
    /\ \A t \in DOMAIN tubes'[n] :
          Learnt(IF Has(n, t) THEN tubes[n][t] ELSE NewTube("pending", StreamOf(n, t, list)),
                 tubes'[n][t], m, list, t)

\* What m sent n reads.
LEMMA ReadIs ==
    ASSUME IInv, NEW n \in Nodes, NEW m \in Nodes, NEW kind, Arrives(n, m, kind), Read(n, m)
    PROVE  /\ n # m /\ n \in joined /\ m \in met[n] /\ mail[m][n] # <<>> /\ Head(mail[m][n]).kind = kind
           /\ UNCHANGED <<scenario, joined, gone, met, said, closed>> /\ Reading(mail, mail', n, m)
           /\ IsQueue(mail[m][n])
<1>1. n \in joined /\ m \in met[n] /\ mail[m][n] # <<>> /\ Head(mail[m][n]).kind = kind
  BY DEF Arrives
<1>2. UNCHANGED <<scenario, joined, gone, met, said, closed>> /\ mail' = [mail EXCEPT ![m][n] = Tail(@)]
  BY DEF Read
<1>3. Mailbox(mail) /\ mail[m][m] = <<>> /\ IsQueue(mail[m][n])
  BY DEF IInv, Shape, MailOK
<1>4. n # m
  BY <1>1, <1>3
<1>5. Reading(mail, mail', n, m)
  BY <1>2, <1>3 DEF Reading, Mailbox
<1> QED
  BY <1>1, <1>2, <1>3, <1>4, <1>5

\* What ReceiveTubes does to the variables when the early return is not taken.
LEMMA LearnsIs ==
    ASSUME IInv, NEW n \in Nodes, NEW m \in Nodes, ReceiveTubes(n, m),
           ~ \E t \in DOMAIN tubes[n] : IsStream(t)
    PROVE  \E list : Learns(n, m, list)
<1>1. /\ n # m /\ n \in joined /\ m \in met[n] /\ mail[m][n] # <<>> /\ Head(mail[m][n]).kind = "tubes"
      /\ UNCHANGED <<scenario, joined, gone, met, said, closed>> /\ Reading(mail, mail', n, m)
      /\ IsQueue(mail[m][n])
  BY ReadIs DEF ReceiveTubes
<1>2. PICK list : list = Head(mail[m][n]).list
  OBVIOUS
<1>3. PICK table : table = HandleTubes(n, m, list)
  OBVIOUS
<1>4. /\ tubes' = [tubes EXCEPT ![n] = table]
      /\ last' = [last EXCEPT ![n] = @ + Cardinality(NewOnes(n, list) \cap DOMAIN table)]
  BY <1>2, <1>3 DEF ReceiveTubes
<1>5. Shape /\ TablesOK
  BY DEF IInv, Shape
<1>6. Alters(n, table) /\ tubes'[n] = table
  BY <1>4, <1>5, AltersIs DEF Alters
<1>7. DOMAIN list \subseteq Tubes
  <2>1. PICK of : StreamsFit(of)
    BY DEF IInv
  <2>2. MailFits(of, last, mail)
    BY <2>1 DEF StreamsFit
  <2>3. ItemFits(of, last, m, Head(mail[m][n]))
    BY <1>1, <1>5, <2>2, ReadingFits DEF Shape
  <2> QED
    BY <1>1, <1>2, <2>3 DEF ItemFits
<1>8. DOMAIN table = DOMAIN tubes[n] \cup DOMAIN list
  BY <1>3 DEF HandleTubes
<1>9. NewOnes(n, list) \cap DOMAIN table = NewOnes(n, list)
  BY <1>8 DEF NewOnes
<1>10. PICK c : c = Cardinality(NewOnes(n, list))
  OBVIOUS
<1>11. c \in Nat
  BY <1>5, <1>7, <1>10, StreamOfIs
<1>12. last' = [last EXCEPT ![n] = @ + c]
  BY <1>4, <1>9, <1>10
<1>13. /\ last' \in [Nodes -> Nat] /\ last'[n] = last[n] + c
       /\ \A k \in Nodes : k # n => last'[k] = last[k]
  BY <1>5, <1>11, <1>12 DEF TablesOK
<1>14. ASSUME NEW t \in DOMAIN table
       PROVE  /\ TubeOK(table[t], n)
              /\ Learnt(IF Has(n, t) THEN tubes[n][t] ELSE NewTube("pending", StreamOf(n, t, list)),
                        table[t], m, list, t)
  <2>1. PICK x : x = IF Has(n, t) THEN tubes[n][t] ELSE NewTube("pending", StreamOf(n, t, list))
    OBVIOUS
  <2>2. PICK y : y = HandleTubes(n, m, list)[t]
    OBVIOUS
  <2>3. TubeOK(y, n) /\ Learnt(x, y, m, list, t)
    BY <1>1, <1>5, <1>7, <1>8, <2>1, <2>2, LearntIs
  <2> QED
    BY <1>3, <2>1, <2>2, <2>3
<1>15. PICK tbs : tbs = tubes'[n]
  OBVIOUS
<1> QED
  BY <1>1, <1>2, <1>6, <1>7, <1>8, <1>10, <1>13, <1>14 DEF Learns

\* A list changes nothing that n has stored, and nothing that n knows of others than m.
LEMMA LearnStays ==
    ASSUME IInv, NEW n \in Nodes, NEW m \in Nodes, NEW list, Learns(n, m, list)
    PROVE  StoresStay(n) /\ NowSame(n) /\ AlikeBut(n, m)
<1>1. ASSUME NEW t \in Tubes, Has(n, t)', Has(n, t)
      PROVE  Learnt(tubes[n][t], tubes'[n][t], m, list, t)
  BY <1>1 DEF Learns, Has
<1>2. ASSUME NEW t \in Tubes, Has(n, t)', ~Has(n, t)
      PROVE  /\ Store(tubes'[n][t]) = <<>> /\ tubes'[n][t].state = "pending"
             /\ \A k : k # m => k \notin DOMAIN tubes'[n][t].senders
  <2>1. PICK x : x = NewTube("pending", StreamOf(n, t, list))
    OBVIOUS
  <2>2. Learnt(x, tubes'[n][t], m, list, t)
    BY <1>2, <2>1 DEF Learns, Has
  <2>3. StreamOf(n, t, list) \in Nat
    BY StreamOfIs DEF Learns, IInv
  <2>4. x.state = "pending" /\ x.senders = <<>> /\ Store(x) = <<>>
    BY <2>1, <2>3, NewTubeIs
  <2> QED
    BY <2>2, <2>4, EmptyIs DEF Learnt
<1>3. \A t : Has(n, t) => Has(n, t)'
  BY DEF Has, Learns
<1>4. StoresStay(n)
  BY <1>1, <1>2 DEF StoresStay, Learnt
<1>5. NowSame(n)
  <2> SUFFICES ASSUME NEW t \in Tubes PROVE Now(n, t)' = Now(n, t)
    BY DEF NowSame
  <2>1. CASE Has(n, t)
    BY <1>1, <1>3, <2>1 DEF Now, In, Learnt
  <2>2. CASE ~Has(n, t)
    BY <1>2, <2>2 DEF Now, In
  <2> QED
    BY <2>1, <2>2
<1>6. AlikeBut(n, m)
  <2> SUFFICES ASSUME NEW k \in Nodes, k # m, NEW t \in Tubes, Has(n, t)'
               PROVE  Alike(n, k, t)
    BY DEF AlikeBut, AllAlike, Alike
  <2>1. CASE Has(n, t)
    <3>1. PICK x, y : x = tubes[n][t] /\ y = tubes'[n][t]
      OBVIOUS
    <3>2. Learnt(x, y, m, list, t)
      BY <1>1, <2>1, <3>1
    <3>3. /\ k \in DOMAIN y.senders <=> k \in DOMAIN x.senders
          /\ k \in DOMAIN x.senders => y.senders[k] = x.senders[k]
      BY <3>2 DEF Learnt
    <3>4. Store(y) = Store(x) /\ y.lost = x.lost /\ y.program = x.program
      BY <3>2 DEF Learnt
    <3> QED
      BY <2>1, <3>1, <3>3, <3>4 DEF Alike
  <2>2. CASE ~Has(n, t)
    BY <1>2, <2>2 DEF Alike
  <2> QED
    BY <2>1, <2>2
<1> QED
  BY <1>4, <1>5, <1>6

\* Streams are not 0.
LEMMA FitsPositive ==
    ASSUME NEW of, NEW ls, NEW m \in Nodes, ls[m] \in Nat, NEW s, NEW t, StreamFits(of, ls, m, s, t)
    PROVE  s # 0 /\ s \in Nat
BY DEF StreamFits

\* After a list, n knows of m what the list tells.
LEMMA LearnKnows ==
    ASSUME IInv, NEW n \in Nodes, NEW m \in Nodes, NEW list, Learns(n, m, list), scenario.streams = {}
    PROVE  LearnsFrom(n, m, Head(mail[m][n]))
<1>1. PICK q, h : q = mail[m][n] /\ h = Head(mail[m][n])
  OBVIOUS
<1>2. n # m /\ q # <<>> /\ h = Head(q) /\ h.kind = "tubes" /\ h.list = list /\ DOMAIN list \subseteq Tubes
  BY <1>1 DEF Learns
<1>3. IsQueue(q) /\ Pair(q, n, m) /\ Shape
  BY <1>1 DEF IInv, Shape, MailOK, Pairs
<1>4. PICK of : StreamsFit(of)
  BY DEF IInv
<1>5. last[m] \in Nat
  BY DEF IInv, Shape, TablesOK
<1> SUFFICES ASSUME NEW t \in Tubes, Knows(n, m, t)' PROVE KnownStream(n, m, t)' = Told(h, t)
  BY <1>1 DEF LearnsFrom
<1>6. PICK x, y : /\ y = tubes'[n][t]
                  /\ x = IF Has(n, t) THEN tubes[n][t] ELSE NewTube("pending", StreamOf(n, t, list))
  OBVIOUS
<1>7. Has(n, t)' /\ t \in DOMAIN tubes'[n]
  BY DEF Knows, Has
<1>8. Learnt(x, y, m, list, t) /\ ~IsStream(t)
  BY <1>6, <1>7 DEF Learns, IsStream
<1>9. KnownStream(n, m, t)' = IF m \in DOMAIN y.senders THEN y.senders[m] ELSE 0
  BY <1>6 DEF KnownStream
<1>10. /\ m \in DOMAIN y.senders <=> t \in DOMAIN list
       /\ m \in DOMAIN y.senders => y.senders[m] = IF m \in DOMAIN x.senders THEN x.senders[m] ELSE list[t]
  BY <1>8 DEF Learnt
<1>11. Told(h, t) = IF t \in DOMAIN list THEN list[t] ELSE 0
  BY <1>2 DEF Told
<1>12. ASSUME t \in DOMAIN list, m \in DOMAIN x.senders PROVE x.senders[m] = list[t]
  <2>1. Has(n, t) /\ x = tubes[n][t]
    <3>1. StreamOf(n, t, list) \in Nat
      BY <1>2, <1>3, StreamOfIs
    <3>2. NewTube("pending", StreamOf(n, t, list)).senders = <<>>
      BY <3>1, NewTubeIs
    <3> QED
      BY <1>6, <1>12, <3>2, EmptyIs
  <2>2. Knows(n, m, t) /\ KnownStream(n, m, t) = x.senders[m]
    BY <1>12, <2>1 DEF Knows, KnownStream
  <2>3. TableFits(of, last, tubes[n], n) /\ MailFits(of, last, mail)
    BY <1>4 DEF StreamsFit
  <2>4. StreamFits(of, last, m, x.senders[m], t)
    BY <1>8, <1>12, <2>1, <2>3 DEF TableFits, Has
  <2>5. ItemFits(of, last, m, h)
    <3>1. Reading(mail, mail', n, m) /\ MailOK(mail)
      BY <1>3 DEF Learns, Shape
    <3> QED
      BY <1>1, <1>2, <2>3, <3>1, ReadingFits
  <2>6. StreamFits(of, last, m, list[t], t)
    BY <1>2, <1>8, <1>12, <2>5 DEF ItemFits
  <2>7. x.senders[m] # 0 /\ list[t] # 0
    BY <1>5, <2>4, <2>6, FitsPositive
  <2>8. PICK knows, s : knows = Knows(n, m, t) /\ s = KnownStream(n, m, t)
    OBVIOUS
  <2>9. Chained(q, t, knows, s)
    BY <1>2, <1>3, <2>8 DEF Pair, ConsistentAt
  <2>10. 1 \in DOMAIN q /\ q[1] = h
    BY <1>2, <1>3, TailIs, QueueIs
  <2>11. Tells(q[1], t) /\ Quiet(q, t, 1, 1-1)
    BY <1>2, <2>10 DEF Tells, Quiet
  <2>12. Continues(s, h, t)
    BY <2>2, <2>8, <2>9, <2>10, <2>11 DEF Chained
  <2> QED
    BY <1>2, <1>11, <1>12, <2>2, <2>7, <2>8, <2>12 DEF Continues
<1> QED
  BY <1>9, <1>10, <1>11, <1>12

\* The streams of the new tubes are told apart.
LEMMA MoreStreams ==
    ASSUME Shape, NEW n \in Nodes, NEW list, DOMAIN list \subseteq Tubes,
           NEW of \in [Nodes -> [Nat -> Tubes \cup {0}]], NEW ms \in [Nodes -> Nat],
           \A k \in Nodes : k # n => ms[k] = last[k], ms[n] = last[n] + Cardinality(NewOnes(n, list))
    PROVE  \E more \in [Nodes -> [Nat -> Tubes \cup {0}]] :
              /\ \A k \in Nodes : last[k] \in Nat /\ ms[k] \in Nat /\ last[k] <= ms[k]
                                  /\ \A s \in 1..last[k] : more[k][s] = of[k][s]
              /\ \A t \in NewOnes(n, list) : StreamFits(more, ms, n, StreamOf(n, t, list), t)
<1>1. PICK N : N = NewOnes(n, list)
  OBVIOUS
<1>2. PICK c : c = Cardinality(N)
  OBVIOUS
<1>3. N \subseteq Tubes
  BY <1>1 DEF NewOnes
<1>4. PICK F : F = [t \in N |-> StreamOf(n, t, list)]
  OBVIOUS
<1>5. /\ c \in Nat /\ \A t \in N : F[t] \in last[n] + 1 .. last[n] + c
      /\ \A t, v \in N : F[t] = F[v] => t = v
      /\ \A t \in N : F[t] = StreamOf(n, t, list)
  BY <1>1, <1>2, <1>4, StreamOfIs
<1>6. last \in [Nodes -> Nat] /\ last[n] \in Nat
  BY DEF Shape, TablesOK
<1> DEFINE new(s) == IF \E t \in N : F[t] = s THEN CHOOSE t \in N : F[t] = s ELSE of[n][s]
<1>7. \A s \in Nat : new(s) \in Tubes \cup {0}
  BY <1>3
<1>8. \A t \in N : new(F[t]) = t
  BY <1>5
<1>9. \A s \in 1..last[n] : new(s) = of[n][s]
  BY <1>5, <1>6
<1> HIDE DEF new
<1>10. PICK row : row = [s \in Nat |-> new(s)]
  OBVIOUS
<1>11. row \in [Nat -> Tubes \cup {0}] /\ \A s \in Nat : row[s] = new(s)
  BY <1>7, <1>10
<1>12. PICK more : more = [of EXCEPT ![n] = row]
  OBVIOUS
<1>13. /\ more \in [Nodes -> [Nat -> Tubes \cup {0}]] /\ more[n] = row
       /\ \A k \in Nodes : k # n => more[k] = of[k]
  BY <1>11, <1>12
<1>14. ASSUME NEW k \in Nodes
       PROVE  /\ last[k] \in Nat /\ ms[k] \in Nat /\ last[k] <= ms[k]
              /\ \A s \in 1..last[k] : more[k][s] = of[k][s]
  <2>1. last[k] \in Nat /\ ms[k] \in Nat /\ last[k] <= ms[k]
    BY <1>1, <1>2, <1>5, <1>6
  <2>2. \A s \in 1..last[k] : more[k][s] = of[k][s]
    BY <1>6, <1>9, <1>11, <1>13, <2>1
  <2> QED
    BY <2>1, <2>2
<1>15. ASSUME NEW t \in N PROVE StreamFits(more, ms, n, StreamOf(n, t, list), t)
  <2>1. PICK s : s = F[t]
    OBVIOUS
  <2>2. s \in Nat /\ s \in 1..ms[n]
    BY <1>1, <1>2, <1>5, <1>6, <2>1
  <2>3. more[n][s] = t
    BY <1>8, <1>11, <1>13, <2>1, <2>2
  <2> QED
    BY <1>5, <2>1, <2>2, <2>3 DEF StreamFits
<1> QED
  BY <1>1, <1>13, <1>14, <1>15

\* The streams of the new tubes fit: one of its own for each.
LEMMA LearnFits ==
    ASSUME IInv, NEW n \in Nodes, NEW m \in Nodes, NEW list, Learns(n, m, list)
    PROVE  \E of : StreamsFit(of)'
<1>1. Shape /\ TablesOK /\ MailOK(mail) /\ m # n /\ DOMAIN list \subseteq Tubes
  BY DEF IInv, Shape, Learns
<1>2. PICK of : StreamsFit(of)
  BY DEF IInv
<1>3. PICK ms, tbs, box : ms = last' /\ tbs = tubes' /\ box = mail'
  OBVIOUS
<1>4. /\ ms \in [Nodes -> Nat] /\ \A k \in Nodes : k # n => ms[k] = last[k]
      /\ ms[n] = last[n] + Cardinality(NewOnes(n, list))
  BY <1>3 DEF Learns
<1>5. of \in [Nodes -> [Nat -> Tubes \cup {0}]]
  BY <1>2 DEF StreamsFit
<1>6. PICK more \in [Nodes -> [Nat -> Tubes \cup {0}]] :
         /\ \A k \in Nodes : last[k] \in Nat /\ ms[k] \in Nat /\ last[k] <= ms[k]
                             /\ \A s \in 1..last[k] : more[k][s] = of[k][s]
         /\ \A t \in NewOnes(n, list) : StreamFits(more, ms, n, StreamOf(n, t, list), t)
  BY <1>1, <1>4, <1>5, MoreStreams
<1>7. /\ \A k \in Nodes : \A s, t : StreamFits(of, last, k, s, t) => StreamFits(more, ms, k, s, t)
      /\ \A b : MailFits(of, last, b) => MailFits(more, ms, b)
      /\ \A k \in Nodes : \A table :
            TableOK(table, k) /\ TableFits(of, last, table, k) => TableFits(more, ms, table, k)
  BY <1>6, FitsMore
<1>8. mail[m][n] # <<>> /\ Reading(mail, box, n, m) /\ MailFits(of, last, mail)
  BY <1>2, <1>3 DEF Learns, StreamsFit
<1>9. MailFits(of, last, box) /\ ItemFits(of, last, m, Head(mail[m][n]))
  BY <1>1, <1>8, ReadingFits
<1>10. MailFits(more, ms, box)
  BY <1>7, <1>9
<1>11. \A t \in DOMAIN list : ~IsStream(t) => StreamFits(more, ms, m, list[t], t)
  BY <1>7, <1>9 DEF ItemFits, Learns
<1>12. TableFits(more, ms, tubes[n], n) /\ \A k \in Nodes : k # n => TableFits(more, ms, tbs[k], k)
  BY <1>1, <1>2, <1>3, <1>7 DEF StreamsFit, TablesOK, Learns, Alters
<1>13. ASSUME NEW t \in DOMAIN tbs[n]
       PROVE  IF IsStream(t) THEN tbs[n][t].senders = <<>> /\ tbs[n][t].names = {}
              ELSE /\ StreamFits(more, ms, n, tbs[n][t].stream, t)
                   /\ \A k \in DOMAIN tbs[n][t].senders : StreamFits(more, ms, k, tbs[n][t].senders[k], t)
  <2>1. PICK x, y : /\ x = (IF Has(n, t) THEN tubes[n][t] ELSE NewTube("pending", StreamOf(n, t, list)))
                    /\ y = tbs[n][t]
    OBVIOUS
  <2>2. Learnt(x, y, m, list, t) /\ t \in DOMAIN tubes[n] \cup DOMAIN list
    BY <1>3, <2>1 DEF Learns
  <2>3. IF IsStream(t) THEN x.senders = <<>> /\ x.names = {}
        ELSE /\ StreamFits(more, ms, n, x.stream, t)
             /\ \A k \in DOMAIN x.senders : StreamFits(more, ms, k, x.senders[k], t)
    <3>1. CASE Has(n, t)
      BY <1>12, <2>1, <3>1 DEF TableFits, Has
    <3>2. CASE ~Has(n, t)
      <4>1. StreamOf(n, t, list) \in Nat
        BY <1>1, StreamOfIs
      <4>2. x.names = {} /\ x.senders = <<>> /\ x.stream = StreamOf(n, t, list)
        BY <2>1, <3>2, <4>1, NewTubeIs
      <4>3. ~IsStream(t) => t \in NewOnes(n, list)
        BY <2>2, <3>2 DEF NewOnes, Has
      <4> QED
        BY <1>6, <4>2, <4>3, EmptyIs
    <3> QED
      BY <3>1, <3>2
  <2>4. CASE IsStream(t)
    BY <2>1, <2>2, <2>3, <2>4 DEF Learnt
  <2>5. CASE ~IsStream(t)
    <3>1. /\ y.stream = x.stream
          /\ \A k : k # m => /\ k \in DOMAIN y.senders <=> k \in DOMAIN x.senders
                             /\ k \in DOMAIN x.senders => y.senders[k] = x.senders[k]
          /\ m \in DOMAIN y.senders <=> t \in DOMAIN list
          /\ m \in DOMAIN y.senders =>
                  y.senders[m] = IF m \in DOMAIN x.senders THEN x.senders[m] ELSE list[t]
      BY <2>2, <2>5 DEF Learnt
    <3>2. ASSUME NEW k \in DOMAIN y.senders PROVE StreamFits(more, ms, k, y.senders[k], t)
      BY <1>11, <2>3, <2>5, <3>1
    <3> QED
      BY <2>1, <2>3, <2>5, <3>1, <3>2
  <2> QED
    BY <2>4, <2>5
<1>14. \A k \in Nodes : TableFits(more, ms, tbs[k], k)
  BY <1>12, <1>13 DEF TableFits
<1>15. scenario' = scenario
  BY DEF Learns
<1> QED
  BY <1>3, <1>6, <1>10, <1>14, <1>15, StreamsStay

\* Who has a stream tube learns nothing.
LEMMA BlindKeeps ==
    ASSUME IInv, NEW n \in Nodes, NEW m \in Nodes, ReceiveTubes(n, m),
           \E t \in DOMAIN tubes[n] : IsStream(t)
    PROVE  IInv'
<1>1. /\ n # m /\ n \in joined /\ m \in met[n] /\ mail[m][n] # <<>> /\ Head(mail[m][n]).kind = "tubes"
      /\ UNCHANGED <<scenario, joined, gone, met, said, closed>> /\ Reading(mail, mail', n, m)
  BY ReadIs DEF ReceiveTubes
<1>2. Shape /\ RoomOK /\ TablesOK /\ SaidOK /\ MailOK(mail)
  BY DEF IInv, Shape
<1>3. PICK list : list = Head(mail[m][n]).list
  OBVIOUS
<1>4. HandleTubes(n, m, list) = tubes[n]
  BY DEF HandleTubes
<1>5. NewOnes(n, list) \cap DOMAIN tubes[n] = {}
  BY DEF NewOnes
<1>6. Cardinality({}) = 0
  BY FS_EmptySet
<1>7. /\ tubes' = [tubes EXCEPT ![n] = tubes[n]]
      /\ last' = [last EXCEPT ![n] = @ + 0]
  BY <1>3, <1>4, <1>5, <1>6 DEF ReceiveTubes
<1>8. last' = last
  BY <1>2, <1>7 DEF TablesOK
<1>9. DOMAIN tubes' = Nodes /\ \A k \in Nodes : tubes'[k] = tubes[k]
  BY <1>2, <1>7 DEF TablesOK
<1>10. RoomOK' /\ SaidOK'
  BY <1>1, <1>2 DEF RoomOK, SaidOK
<1>11. TablesOK'
  BY <1>1, <1>2, <1>8, <1>9 DEF TablesOK, TableOK
<1>12. MailOK(mail)'
  <2>1. PICK box : box = mail'
    OBVIOUS
  <2>2. MailOK(box)
    BY <1>1, <1>2, <2>1, ReadingOK
  <2> QED
    BY <2>1, <2>2 DEF MailOK, Mailbox
<1>13. \E of : StreamsFit(of)'
  <2>1. PICK of : StreamsFit(of)
    BY DEF IInv
  <2>2. PICK ls, tbs, box : ls = last' /\ tbs = tubes' /\ box = mail'
    OBVIOUS
  <2>3. \A k \in Nodes : TableFits(of, ls, tbs[k], k)
    BY <1>8, <1>9, <2>1, <2>2 DEF StreamsFit
  <2>4. MailFits(of, last, mail)
    BY <2>1 DEF StreamsFit
  <2>5. MailFits(of, last, box)
    BY <1>1, <1>2, <2>2, <2>4, ReadingFits
  <2> QED
    BY <1>1, <1>8, <2>1, <2>2, <2>3, <2>5, StreamsStay DEF StreamsFit
<1>14. scenario.streams # {}
  BY DEF IsStream
<1>15. StoresStay(n) /\ NowSame(n) /\ AlikeBut(n, m)
  BY <1>9 DEF StoresStay, NowSame, AlikeBut, AllAlike, Alike, Now, In, Has
<1>16. Pairs'
  BY <1>1, <1>9, <1>14, <1>15, ListReadPairs
<1> QED
  BY <1>10, <1>11, <1>12, <1>13, <1>16 DEF IInv, Shape

\* A list of tubes is read.
LEMMA ReceiveTubesKeeps ==
    ASSUME IInv, NEW n \in Nodes, NEW m \in Nodes, ReceiveTubes(n, m)
    PROVE  IInv'
<1>1. CASE \E t \in DOMAIN tubes[n] : IsStream(t)
  BY <1>1, BlindKeeps
<1>2. CASE ~ \E t \in DOMAIN tubes[n] : IsStream(t)
  <2>1. PICK list : Learns(n, m, list)
    BY <1>2, LearnsIs
  <2>2. /\ n # m /\ n \in joined /\ m \in met[n] /\ mail[m][n] # <<>> /\ Head(mail[m][n]).kind = "tubes"
        /\ UNCHANGED <<scenario, joined, gone, met, said, closed>> /\ Reading(mail, mail', n, m)
    BY <2>1 DEF Learns
  <2>3. Shape /\ RoomOK /\ TablesOK /\ SaidOK /\ MailOK(mail)
    BY DEF IInv, Shape
  <2>4. RoomOK' /\ SaidOK'
    BY <2>2, <2>3 DEF RoomOK, SaidOK
  <2>5. PICK table : table = tubes'[n]
    OBVIOUS
  <2>6. Alters(n, table) /\ last' \in [Nodes -> Nat]
    BY <2>1, <2>5 DEF Learns
  <2>7. TableOK(table, n)
    BY <2>1, <2>3, <2>5 DEF Learns, TablesOK, TableOK
  <2>8. TablesOK'
    BY <2>2, <2>3, <2>6, <2>7, TablesStay
  <2>9. MailOK(mail)'
    <3>1. PICK box : box = mail'
      OBVIOUS
    <3>2. MailOK(box)
      BY <2>2, <2>3, <3>1, ReadingOK
    <3> QED
      BY <3>1, <3>2 DEF MailOK, Mailbox
  <2>10. \E of : StreamsFit(of)'
    BY <2>1, LearnFits
  <2>11. StoresStay(n) /\ NowSame(n) /\ AlikeBut(n, m)
    BY <2>1, LearnStays
  <2>12. scenario.streams = {} => LearnsFrom(n, m, Head(mail[m][n]))
    BY <2>1, LearnKnows
  <2>13. \A k \in Nodes : k # n => tubes'[k] = tubes[k]
    BY <2>6 DEF Alters
  <2>14. Pairs'
    BY <2>2, <2>11, <2>12, <2>13, ListReadPairs
  <2> QED
    BY <2>4, <2>8, <2>9, <2>10, <2>14 DEF IInv, Shape
<1> QED
  BY <1>1, <1>2

-----------------------------------------------------------------------------
(* What the others say *)

\* What the message w of m, on a stream of m, makes of a tube of n.
Hearing(x, y, n, m, stream, w) ==
    /\ TubeOK(y, n) /\ y.state = x.state /\ y.stream = x.stream /\ y.names = x.names
    /\ y.senders = x.senders /\ y.program = x.program
    /\ \/ Store(y) = Store(x) /\ y.lost = TRUE
       \/ /\ Store(y) = Append(Store(x), w) /\ y.lost = x.lost /\ w.dest \in {All, n}
          /\ Hears(x, m, stream) /\ x.program # "hung up"
       \/ y = x /\ (~Hears(x, m, stream) \/ w.dest \notin {All, n} \/ x.program = "hung up")

\* What the queue makes of a message: it is put in, or it is lost.
Queued(x, y, w, n) ==
    /\ TubeOK(y, n) /\ y.state = x.state /\ y.stream = x.stream /\ y.names = x.names
    /\ y.senders = x.senders /\ y.program = x.program
    /\ (Store(y) = Store(x) /\ y.lost = TRUE) \/ (Store(y) = Append(Store(x), w) /\ y.lost = x.lost)

\* What the queue of a tube without a program makes of a message.
LEMMA QueueKeeps ==
    ASSUME NEW n, NEW x, TubeOK(x, n), x.state = "open", x.program = "none", NEW w
    PROVE  Queued(x, Queue(x, w), w, n)
<1>0. PICK y : y = Queue(x, w)
  OBVIOUS
<1> SUFFICES Queued(x, y, w, n)
  BY <1>0
<1>a. Store(x) = x.queue
  BY DEF Store
<1>1. DOMAIN x = Fields /\ IsQueue(x.queue) /\ x.got = <<>>
  BY DEF TubeOK
<1>2. PICK a : a = Append(x.queue, w)
  OBVIOUS
<1>3. IsQueue(a)
  BY <1>1, <1>2, AppendIs
<1>4. CASE y = [x EXCEPT !.queue = a]
  <2>1. /\ DOMAIN y = Fields /\ y.state = x.state /\ y.stream = x.stream /\ y.names = x.names
        /\ y.senders = x.senders /\ y.program = x.program /\ y.queue = a /\ y.got = x.got /\ y.lost = x.lost
    BY <1>1, <1>4 DEF Fields
  <2>2. TubeOK(y, n)
    BY <1>3, <2>1 DEF TubeOK
  <2> QED
    BY <1>a, <1>2, <2>1, <2>2 DEF Store, Queued
<1>5. CASE y = [x EXCEPT !.lost = TRUE]
  <2>1. /\ DOMAIN y = Fields /\ y.state = x.state /\ y.stream = x.stream /\ y.names = x.names
        /\ y.senders = x.senders /\ y.program = x.program /\ y.queue = x.queue /\ y.got = x.got
        /\ y.lost = TRUE
    BY <1>1, <1>5 DEF Fields
  <2>2. TubeOK(y, n)
    BY <2>1 DEF TubeOK
  <2> QED
    BY <1>a, <2>1, <2>2 DEF Store, Queued
<1>6. y = [x EXCEPT !.queue = a] \/ y = [x EXCEPT !.lost = TRUE]
  BY <1>0, <1>2 DEF Queue
<1> QED
  BY <1>4, <1>5, <1>6

\* What Deliver, behind the filter Hears, makes of a tube.
LEMMA HearingIs ==
    ASSUME NEW n \in Nodes, NEW m, m # n, NEW x, TubeOK(x, n), NEW stream, NEW w, w.from = m,
           NEW y, y = IF Hears(x, m, stream) THEN Deliver(x, n, m, w) ELSE x
    PROVE  Hearing(x, y, n, m, stream, w)
<1>1. CASE ~Hears(x, m, stream) \/ w.dest \notin {All, n}
  BY <1>1 DEF Hearing, Deliver
<1>2. CASE Hears(x, m, stream) /\ w.dest \in {All, n}
  <2>1. x.state = "open" /\ m \in x.names
    BY <1>2 DEF Hears, TubeOK
  <2>2. y = CASE x.program = "none" -> Queue(x, w)
              [] x.program = "on" -> [x EXCEPT !.got = Append(@, w)]
              [] OTHER -> x
    BY <1>2, <2>1 DEF Deliver
  <2>3. x.program \in {"none", "on", "hung up"}
    BY DEF TubeOK
  <2>4. CASE x.program = "none"
    <3>1. y = Queue(x, w)
      BY <2>2, <2>4
    <3>2. Queued(x, y, w, n)
      BY <2>1, <2>4, <3>1, QueueKeeps
    <3> QED
      BY <1>2, <2>4, <3>2 DEF Hearing, Queued
  <2>5. CASE x.program = "on"
    <3>1. PICK a : a = Append(x.got, w)
      OBVIOUS
    <3>2. IsQueue(a) /\ DOMAIN x = Fields
      BY <3>1, AppendIs DEF TubeOK
    <3>3. y = [x EXCEPT !.got = a]
      BY <2>2, <2>5, <3>1
    <3>4. /\ DOMAIN y = Fields /\ y.state = x.state /\ y.stream = x.stream /\ y.names = x.names
          /\ y.senders = x.senders /\ y.program = x.program /\ y.queue = x.queue /\ y.got = a
          /\ y.lost = x.lost
      BY <3>2, <3>3 DEF Fields
    <3>5. TubeOK(y, n)
      BY <2>1, <2>5, <3>2, <3>4 DEF TubeOK
    <3> QED
      BY <1>2, <2>5, <3>1, <3>4, <3>5 DEF Hearing, Store
  <2>6. CASE x.program = "hung up"
    BY <2>2, <2>6 DEF Hearing
  <2> QED
    BY <2>3, <2>4, <2>5, <2>6
<1> QED
  BY <1>1, <1>2

\* The step: a tube at most hears it, the one that it was said on.
Listens(n, m, d, t) ==
    /\ n # m /\ n \in joined /\ m \in met[n] /\ UNCHANGED <<scenario, joined, gone, met, last, said, closed>>
    /\ mail[m][n] # <<>> /\ Head(mail[m][n]) = d /\ Reading(mail, mail', n, m)
    /\ d.kind = "data" /\ d.what.tube = t /\ d.what.from = m /\ d.stream # 0
    /\ Alters(n, tubes'[n]) /\ OnlyAt(tubes[n], tubes'[n], t)
    /\ Has(n, t) => Hearing(tubes[n][t], tubes'[n][t], n, m, d.stream, d.what)

\* What ReceiveData does to the variables, in the terms of these proofs.
LEMMA ListensIs ==
    ASSUME IInv, NEW n \in Nodes, NEW m \in Nodes, ReceiveData(n, m)
    PROVE  \E d : \E t \in Tubes : Listens(n, m, d, t)
<1>1. /\ n # m /\ n \in joined /\ m \in met[n] /\ mail[m][n] # <<>> /\ Head(mail[m][n]).kind = "data"
      /\ UNCHANGED <<scenario, joined, gone, met, said, closed>> /\ Reading(mail, mail', n, m)
      /\ IsQueue(mail[m][n])
  BY ReadIs DEF ReceiveData
<1>2. PICK d : d = Head(mail[m][n])
  OBVIOUS
<1>3. PICK t : t = d.what.tube
  OBVIOUS
<1>4. Shape /\ TablesOK
  BY DEF IInv, Shape
<1>5. PICK of : StreamsFit(of)
  BY DEF IInv
<1>6. MailFits(of, last, mail) /\ TableFits(of, last, tubes[n], n)
  BY <1>5 DEF StreamsFit
<1>7. ItemFits(of, last, m, d)
  BY <1>1, <1>2, <1>4, <1>6, ReadingFits DEF Shape
<1>8. t \in Tubes /\ ~IsStream(t) /\ StreamFits(of, last, m, d.stream, t)
  BY <1>1, <1>2, <1>3, <1>7 DEF ItemFits
<1>9. d.stream # 0
  BY <1>4, <1>8, FitsPositive DEF TablesOK
<1>10. d.what.from = m
  <2>1. PICK q, words : q = mail[m][n] /\ words = said[m][t]
    OBVIOUS
  <2>2. Mailed(q, m, t, words)
    BY <1>8, <2>1 DEF IInv, Pairs, Pair, OrderedAt
  <2>3. 1 \in DOMAIN q /\ q[1] = d
    BY <1>1, <1>2, <2>1, TailIs, QueueIs
  <2> QED
    BY <1>1, <1>2, <1>3, <2>2, <2>3 DEF Mailed, On
<1>11. PICK table : table = HandleData(n, m, d.stream, d.what)
  OBVIOUS
<1>12. /\ DOMAIN table = DOMAIN tubes[n]
       /\ \A u \in DOMAIN tubes[n] :
             table[u] = IF Hears(tubes[n][u], m, d.stream) THEN Deliver(tubes[n][u], n, m, d.what)
                        ELSE tubes[n][u]
  BY <1>11 DEF HandleData
<1>13. ASSUME NEW u \in DOMAIN tubes[n], u # t PROVE ~Hears(tubes[n][u], m, d.stream)
  <2> SUFFICES ASSUME Hears(tubes[n][u], m, d.stream) PROVE FALSE
    OBVIOUS
  <2>1. m \in DOMAIN tubes[n][u].senders /\ tubes[n][u].senders[m] = d.stream
    BY DEF Hears
  <2>2. ~IsStream(u)
    BY <1>6, <2>1, EmptyIs DEF TableFits
  <2>3. StreamFits(of, last, m, d.stream, u)
    BY <1>6, <2>1, <2>2 DEF TableFits
  <2> QED
    BY <1>8, <1>13, <2>3 DEF StreamFits
<1>14. tubes' = [tubes EXCEPT ![n] = table] /\ last' = last
  BY <1>2, <1>11 DEF ReceiveData
<1>15. Alters(n, table) /\ tubes'[n] = table
  BY <1>4, <1>14, AltersIs DEF Alters
<1>16. OnlyAt(tubes[n], table, t)
  BY <1>12, <1>13 DEF OnlyAt
<1>17. ASSUME Has(n, t) PROVE Hearing(tubes[n][t], table[t], n, m, d.stream, d.what)
  <2>1. PICK x, y : x = tubes[n][t] /\ y = table[t]
    OBVIOUS
  <2>2. TubeOK(x, n)
    BY <1>4, <1>17, <2>1 DEF TablesOK, TableOK, Has
  <2>3. y = IF Hears(x, m, d.stream) THEN Deliver(x, n, m, d.what) ELSE x
    BY <1>12, <1>17, <2>1 DEF Has
  <2>4. Hearing(x, y, n, m, d.stream, d.what)
    BY <1>1, <1>10, <2>2, <2>3, HearingIs
  <2> QED
    BY <2>1, <2>4
<1> QED
  BY <1>1, <1>2, <1>3, <1>8, <1>9, <1>10, <1>14, <1>15, <1>16, <1>17 DEF Listens

\* What n knows of the others, and what is to be known of n, stays.
LEMMA ListenKnows ==
    ASSUME IInv, NEW n \in Nodes, NEW m \in Nodes, NEW d, NEW t \in Tubes, Listens(n, m, d, t),
           NEW k \in Nodes, NEW u \in Tubes
    PROVE  /\ Has(k, u)' <=> Has(k, u)
           /\ Now(k, u)' = Now(k, u)
           /\ \A l : Knows(k, l, u)' => Knows(k, l, u) /\ KnownStream(k, l, u)' = KnownStream(k, l, u)
           /\ k # n \/ u # t => (Has(k, u) => tubes'[k][u] = tubes[k][u])
<1>1. CASE k # n
  <2>1. tubes'[k] = tubes[k]
    BY <1>1 DEF Listens, Alters
  <2> QED
    BY <1>1, <2>1 DEF Has, Now, In, Knows, KnownStream
<1>2. CASE k = n
  <2>1. DOMAIN tubes'[n] = DOMAIN tubes[n] /\ \A v \in DOMAIN tubes[n] : v # t => tubes'[n][v] = tubes[n][v]
    BY DEF Listens, OnlyAt
  <2>2. Has(k, u)' <=> Has(k, u)
    BY <1>2, <2>1 DEF Has
  <2>3. CASE ~Has(k, u)
    BY <2>2, <2>3 DEF Now, In, Knows
  <2>4. CASE Has(k, u) /\ u # t
    <3>1. tubes'[k][u] = tubes[k][u]
      BY <1>2, <2>1, <2>4 DEF Has
    <3> QED
      BY <2>2, <2>4, <3>1 DEF Now, In, Knows, KnownStream
  <2>5. CASE Has(k, u) /\ u = t
    <3>1. PICK x, y, w : x = tubes[n][t] /\ y = tubes'[n][t] /\ w = d.what
      OBVIOUS
    <3>2. Hearing(x, y, n, m, d.stream, w) /\ w.from = m
      BY <1>2, <2>5, <3>1 DEF Listens
    <3>3. y.state = x.state /\ y.stream = x.stream /\ y.senders = x.senders
      BY <3>2 DEF Hearing
    <3>4. Now(k, u)' = Now(k, u)
      BY <1>2, <2>2, <2>5, <3>1, <3>3 DEF Now, In
    <3>5. PICK st, rs : st = Store(x) /\ rs = Store(y)
      OBVIOUS
    <3>6. IsQueue(st)
      <4>1. TubeOK(x, n)
        BY <1>2, <2>5, <3>1 DEF IInv, Shape, TablesOK, TableOK, Has
      <4> QED
        BY <3>5, <4>1 DEF TubeOK, Store
    <3>7. ASSUME NEW l, \E i \in DOMAIN rs : rs[i].from = l
          PROVE  l \in DOMAIN x.senders \/ \E i \in DOMAIN st : st[i].from = l
      <4>1. CASE rs = st
        BY <3>7, <4>1
      <4>2. CASE rs = Append(st, w) /\ Hears(x, m, d.stream)
        <5>1. m \in DOMAIN x.senders
          BY <4>2 DEF Hears
        <5>2. \A i \in DOMAIN rs : (i \in DOMAIN st /\ rs[i] = st[i]) \/ rs[i] = w
          BY <3>6, <4>2, StoreIs
        <5> QED
          BY <3>2, <3>7, <5>1, <5>2
      <4> QED
        BY <3>2, <3>5, <4>1, <4>2 DEF Hearing
    <3>8. ASSUME NEW l, Knows(k, l, u)' PROVE Knows(k, l, u) /\ KnownStream(k, l, u)' = KnownStream(k, l, u)
      <4>1. l \in DOMAIN y.senders \/ \E i \in DOMAIN rs : rs[i].from = l
        BY <1>2, <2>5, <3>1, <3>5, <3>8 DEF Knows
      <4>2. l \in DOMAIN x.senders \/ \E i \in DOMAIN st : st[i].from = l
        BY <3>3, <3>7, <4>1
      <4> QED
        BY <1>2, <2>5, <3>1, <3>3, <3>5, <4>2 DEF Knows, KnownStream
    <3> QED
      BY <1>2, <2>2, <2>5, <3>4, <3>8
  <2> QED
    BY <2>3, <2>4, <2>5
<1> QED
  BY <1>1, <1>2

\* Who has stored messages of m hears its next one.
LEMMA ListenHears ==
    ASSUME IInv, NEW n \in Nodes, NEW m \in Nodes, NEW d, NEW t \in Tubes, Listens(n, m, d, t),
           scenario.streams = {}, Knows(n, m, t)
    PROVE  /\ KnownStream(n, m, t) = d.stream
           /\ Store(tubes[n][t]) # <<>> => Hears(tubes[n][t], m, d.stream)
<1>1. PICK q, knows, s : q = mail[m][n] /\ knows = Knows(n, m, t) /\ s = KnownStream(n, m, t)
  OBVIOUS
<1>2. q # <<>> /\ Head(q) = d /\ d.kind = "data" /\ d.what.tube = t /\ d.stream # 0 /\ n # m
  BY <1>1 DEF Listens
<1>3. Chained(q, t, knows, s)
  BY <1>1, <1>2 DEF IInv, Pairs, Pair, ConsistentAt
<1>4. IsQueue(q)
  BY <1>1 DEF IInv, Shape, MailOK
<1>5. 1 \in DOMAIN q /\ q[1] = d
  BY <1>2, <1>4, TailIs, QueueIs
<1>6. Tells(q[1], t) /\ Quiet(q, t, 1, 1-1)
  BY <1>2, <1>5 DEF Tells, Quiet
<1>7. Continues(s, d, t)
  BY <1>1, <1>3, <1>5, <1>6 DEF Chained
<1>8. s = d.stream
  BY <1>2, <1>7 DEF Continues, Told
<1>9. m \in DOMAIN tubes[n][t].senders /\ tubes[n][t].senders[m] = d.stream
  BY <1>1, <1>2, <1>8 DEF KnownStream
<1>10. TubeOK(tubes[n][t], n)
  BY DEF IInv, Shape, TablesOK, TableOK, Knows, Has
<1>11. Store(tubes[n][t]) # <<>> => tubes[n][t].state = "open"
  BY <1>10 DEF TubeOK, Store
<1> QED
  BY <1>1, <1>8, <1>9, <1>11 DEF Hears

\* q begins with d, which comes after what n has stored.
NextWord(q, d, n, m, t, sd, st) ==
    /\ IsQueue(q) /\ q # <<>> /\ Head(q) = d /\ Len(sd[m][t]) \in Nat
    /\ Mailed(q, m, t, sd[m][t]) /\ Complete(q, t, sd[m][t]) /\ 1 \in On(q, t)
    /\ d.what.from = m /\ d.what.tube = t /\ d.what.number \in 1..Len(sd[m][t])
    /\ Has(n, t) => /\ IsQueue(st) /\ Stored(st, n, t, sd) /\ Before(st, q, m, t)
                    /\ Latest(st, d.what) /\ \A i \in DOMAIN st : st[i].number \in Nat

\* The message is the next of m, for n.
LEMMA ListenNext ==
    ASSUME IInv, NEW n \in Nodes, NEW m \in Nodes, NEW d, NEW t \in Tubes, Listens(n, m, d, t)
    PROVE  NextWord(mail[m][n], d, n, m, t, said, Store(tubes[n][t]))
<1>0. PICK q, words, st : q = mail[m][n] /\ words = said[m][t] /\ st = Store(tubes[n][t])
  OBVIOUS
<1>1. q # <<>> /\ Head(q) = d /\ d.kind = "data" /\ d.what.tube = t /\ d.what.from = m /\ n \in joined
  BY <1>0 DEF Listens
<1>2. IsQueue(q) /\ IsQueue(words)
  BY <1>0 DEF IInv, Shape, MailOK, SaidOK
<1>3. n \notin gone
  BY <1>1 DEF IInv, Shape, RoomOK
<1>4. OrderedAt(q, n, m, t)
  BY <1>0 DEF IInv, Pairs, Pair
<1>5. Mailed(q, m, t, words) /\ Complete(q, t, words)
  BY <1>0, <1>3, <1>4 DEF OrderedAt
<1>6. 1 \in DOMAIN q /\ q[1] = d
  BY <1>1, <1>2, TailIs, QueueIs
<1>7. 1 \in On(q, t)
  BY <1>1, <1>6 DEF On
<1>8. d.what.number \in 1..Len(words)
  BY <1>5, <1>6, <1>7 DEF Mailed
<1>9. Len(words) \in Nat
  BY <1>2, QueueIs
<1>10. ASSUME Has(n, t)
       PROVE  /\ IsQueue(st) /\ Stored(st, n, t, said) /\ Before(st, q, m, t)
              /\ Latest(st, d.what) /\ \A i \in DOMAIN st : st[i].number \in Nat
  <2>1. TubeOK(tubes[n][t], n)
    BY <1>10 DEF IInv, Shape, TablesOK, TableOK, Has
  <2>2. IsQueue(st)
    BY <1>0, <2>1 DEF TubeOK, Store
  <2>3. Stored(st, n, t, said) /\ Before(st, q, m, t)
    BY <1>0, <1>4, <1>10 DEF OrderedAt
  <2>4. Latest(st, d.what)
    BY <1>1, <1>6, <1>7, <2>3 DEF Before, Latest
  <2>5. \A i \in DOMAIN st : st[i].number \in Nat
    BY <2>3 DEF Stored
  <2> QED
    BY <2>2, <2>3, <2>4, <2>5
<1> QED
  BY <1>0, <1>1, <1>2, <1>5, <1>7, <1>8, <1>9, <1>10 DEF NextWord

\* Its pair, on its tube.
LEMMA ListenRead ==
    ASSUME IInv, NEW n \in Nodes, NEW m \in Nodes, NEW d, NEW t \in Tubes, Listens(n, m, d, t),
           NEW q, q = mail[m][n]
    PROVE  OrderedAt(Tail(q), n, m, t)'
<1>1. PICK words, sd, st, rs, deaf, w : /\ words = said[m][t] /\ sd = said /\ st = Store(tubes[n][t])
                                        /\ rs = Store(tubes'[n][t]) /\ deaf = Deaf(n, m, t) /\ w = d.what
  OBVIOUS
<1>2. /\ IsQueue(q) /\ q # <<>> /\ Head(q) = d /\ Len(words) \in Nat
      /\ Mailed(q, m, t, words) /\ Complete(q, t, words) /\ 1 \in On(q, t)
      /\ w.from = m /\ w.tube = t /\ w.number \in 1..Len(words)
      /\ Has(n, t) => /\ IsQueue(st) /\ Stored(st, n, t, sd) /\ Before(st, q, m, t)
                      /\ Latest(st, w) /\ \A i \in DOMAIN st : st[i].number \in Nat
  <2>1. NextWord(q, d, n, m, t, sd, st)
    BY <1>1, ListenNext
  <2> QED
    BY <1>1, <2>1 DEF NextWord
<1>3. PICK p : p = Tail(q)
  OBVIOUS
<1>4. Mailed(p, m, t, words) /\ Complete(p, t, words)
  BY <1>2, <1>3, TailMailed
<1>5. UNCHANGED <<scenario, joined, gone, met, said>> /\ m \in met[n]
  BY DEF Listens
<1>6. Has(n, t)' <=> Has(n, t)
  BY ListenKnows
<1>7. OrderedAt(q, n, m, t)
  BY <1>1 DEF IInv, Pairs, Pair
<1>8. Has(n, t) /\ scenario.streams = {} /\ ~tubes[n][t].lost => NoGap(st, q, n, t, words, m, deaf)
  BY <1>1, <1>7 DEF OrderedAt
<1>9. ASSUME Has(n, t)
      PROVE  /\ Stored(rs, n, t, sd) /\ Before(rs, p, m, t)
             /\ scenario.streams = {} /\ ~tubes'[n][t].lost => NoGap(rs, p, n, t, words, m, Deaf(n, m, t)')
  <2>1. PICK x, y : x = tubes[n][t] /\ y = tubes'[n][t]
    OBVIOUS
  <2>2. Hearing(x, y, n, m, d.stream, w)
    BY <1>1, <1>9, <2>1 DEF Listens
  <2>3. y.program = x.program
    BY <2>2 DEF Hearing
  <2>4. Deaf(n, m, t)' = deaf /\ deaf = (x.program = "hung up")
    BY <1>1, <1>5, <2>1, <2>3 DEF Deaf
  <2>5. Before(st, p, m, t)
    BY <1>2, <1>3, <1>9, TailBefore
  <2>6. CASE rs = st /\ y.lost = TRUE
    BY <1>2, <1>9, <2>1, <2>5, <2>6
  <2>7. CASE /\ rs = Append(st, w) /\ y.lost = x.lost /\ w.dest \in {All, n}
             /\ x.program # "hung up"
    <3>1. Stored(rs, n, t, sd)
      <4>1. /\ w.from \in Nodes /\ w.tube = t /\ w.dest \in {All, n}
            /\ w.number \in 1..Len(sd[w.from][t])
        BY <1>1, <1>2, <2>7
      <4> QED
        BY <1>2, <1>9, <2>7, <4>1, StoredAppend
    <3>2. /\ Before(rs, p, m, t)
          /\ NoGap(st, q, n, t, words, m, FALSE) => NoGap(rs, p, n, t, words, m, FALSE)
      <4>1. w = Head(q).what
        BY <1>1, <1>2
      <4> QED
        BY <1>2, <1>3, <1>9, <2>7, <4>1, ReadStored
    <3>3. deaf = FALSE
      BY <2>4, <2>7
    <3> QED
      BY <1>8, <1>9, <2>1, <2>4, <2>7, <3>1, <3>2, <3>3
  <2>8. CASE y = x /\ (~Hears(x, m, d.stream) \/ w.dest \notin {All, n} \/ x.program = "hung up")
    <3>1. rs = st
      BY <1>1, <2>1, <2>8
    <3>2. ASSUME scenario.streams = {} PROVE w.dest \notin {All, n} \/ deaf \/ \A i \in DOMAIN st : st[i].from # m
      <4> SUFFICES ASSUME w.dest \in {All, n}, ~deaf, NEW i \in DOMAIN st, st[i].from = m PROVE FALSE
        OBVIOUS
      <4>1. ~Hears(x, m, d.stream)
        BY <2>4, <2>8
      <4>2. Knows(n, m, t)
        BY <1>1, <1>9 DEF Knows
      <4>3. st # <<>>
        BY EmptyIs
      <4> QED
        BY <1>1, <2>1, <3>2, <4>1, <4>2, <4>3, ListenHears
    <3>3. ASSUME scenario.streams = {}, NoGap(st, q, n, t, words, m, deaf)
          PROVE  NoGap(st, p, n, t, words, m, deaf)
      <4>1. Head(q).what.dest \notin {All, n} \/ deaf \/ \A i \in DOMAIN st : st[i].from # m
        BY <1>1, <1>2, <3>2, <3>3
      <4> QED
        BY <1>2, <1>3, <1>9, <3>3, <4>1, ReadMissed
    <3> QED
      BY <1>2, <1>8, <1>9, <2>1, <2>4, <2>5, <2>8, <3>1, <3>3
  <2> QED
    BY <1>1, <2>1, <2>2, <2>6, <2>7, <2>8 DEF Hearing
<1>10. words = said'[m][t] /\ sd = said'
  BY <1>1, <1>5
<1>11. OrderedAt(p, n, m, t)'
  BY <1>1, <1>4, <1>5, <1>6, <1>9, <1>10, OrderedThen
<1> QED
  BY <1>3, <1>11

\* What others have sent stays in order.
LEMMA ListenOther ==
    ASSUME IInv, NEW n \in Nodes, NEW m \in Nodes, NEW d, NEW t \in Tubes, Listens(n, m, d, t),
           NEW l \in Nodes, l # m, NEW q, OrderedAt(q, n, l, t)
    PROVE  OrderedAt(q, n, l, t)'
<1>1. PICK words, sd, st, rs, deaf, w : /\ words = said[l][t] /\ sd = said /\ st = Store(tubes[n][t])
                                        /\ rs = Store(tubes'[n][t]) /\ deaf = Deaf(n, l, t) /\ w = d.what
  OBVIOUS
<1>2. UNCHANGED <<scenario, joined, gone, met, said>>
  BY DEF Listens
<1>3. Has(n, t)' <=> Has(n, t)
  BY ListenKnows
<1>4. PICK x, y : x = tubes[n][t] /\ y = tubes'[n][t]
  OBVIOUS
<1>5. CASE Has(n, t) => rs = st /\ (x.lost => y.lost) /\ y.program = x.program
  <2>1. Has(n, t) /\ Deaf(n, l, t) => Deaf(n, l, t)'
    BY <1>2, <1>4, <1>5 DEF Deaf
  <2> QED
    BY <1>1, <1>2, <1>3, <1>4, <1>5, <2>1, KeepOrdered
<1>6. CASE /\ Has(n, t) /\ rs = Append(st, w) /\ y.lost = x.lost /\ w.dest \in {All, n}
           /\ y.program = x.program
  <2>1. /\ Mailed(q, l, t, words) /\ (n \notin gone => Complete(q, t, words))
        /\ Stored(st, n, t, sd) /\ Before(st, q, l, t)
        /\ scenario.streams = {} /\ ~x.lost => NoGap(st, q, n, t, words, l, deaf)
    BY <1>1, <1>4, <1>6, OrderedNow
  <2>2. NextWord(mail[m][n], d, n, m, t, sd, st)
    BY <1>1, ListenNext
  <2>3. /\ IsQueue(st) /\ Latest(st, w) /\ w.from = m /\ w.tube = t /\ w.number \in 1..Len(sd[m][t])
    BY <1>1, <1>6, <2>2 DEF NextWord
  <2>4. Stored(rs, n, t, sd)
    BY <1>6, <2>1, <2>3, StoredAppend
  <2>5. Before(rs, q, l, t) /\ (NoGap(st, q, n, t, words, l, deaf) => NoGap(rs, q, n, t, words, l, deaf))
    BY <1>6, <2>1, <2>3, OtherStored
  <2>6. deaf = Deaf(n, l, t)'
    BY <1>1, <1>2, <1>4, <1>6 DEF Deaf
  <2>7. words = said'[l][t] /\ sd = said'
    BY <1>1, <1>2
  <2> QED
    BY <1>1, <1>2, <1>4, <1>6, <2>1, <2>4, <2>5, <2>6, <2>7, OrderedThen
<1>7. Has(n, t) => Hearing(x, y, n, m, d.stream, w)
  BY <1>1, <1>4 DEF Listens
<1> QED
  BY <1>1, <1>4, <1>5, <1>6, <1>7 DEF Hearing

\* ... and on the other tubes nothing has happened.
LEMMA ListenElsewhere ==
    ASSUME IInv, NEW n \in Nodes, NEW m \in Nodes, NEW d, NEW t \in Tubes, Listens(n, m, d, t),
           NEW k \in Nodes, NEW l \in Nodes, NEW u \in Tubes, k # n \/ u # t, NEW q, OrderedAt(q, k, l, u)
    PROVE  OrderedAt(q, k, l, u)'
<1>1. (Has(k, u)' <=> Has(k, u)) /\ (Has(k, u) => tubes'[k][u] = tubes[k][u])
  BY ListenKnows
<1>2. UNCHANGED <<scenario, joined, gone, met, said>>
  BY DEF Listens
<1>3. Has(k, u) /\ Deaf(k, l, u) => Deaf(k, l, u)'
  BY <1>1, <1>2 DEF Deaf
<1> QED
  BY <1>1, <1>2, <1>3, KeepOrdered

\* The order on every tube survives ReceiveData.
LEMMA ListenOrderly ==
    ASSUME IInv, NEW n \in Nodes, NEW m \in Nodes, NEW d, NEW t \in Tubes, Listens(n, m, d, t),
           NEW k \in Nodes, NEW l \in Nodes, NEW u \in Tubes
    PROVE  OrderedAt(mail[l][k], k, l, u)'
<1>1. PICK q : q = mail[l][k]
  OBVIOUS
<1>2. OrderedAt(q, k, l, u) /\ IsQueue(q) /\ Shape
  BY <1>1 DEF IInv, Pairs, Pair, Shape, MailOK
<1>3. Reading(mail, mail', n, m) /\ n # m /\ mail[m][n] # <<>> /\ Head(mail[m][n]) = d /\ d.what.tube = t
  BY DEF Listens
<1>4. CASE k = n /\ l = m
  <2>1. mail'[l][k] = Tail(q)
    BY <1>1, <1>3, <1>4 DEF Reading
  <2>2. CASE u = t
    <3>1. OrderedAt(Tail(q), k, l, u)'
      BY <1>1, <1>4, <2>2, ListenRead
    <3> QED
      BY <2>1, <3>1
  <2>3. CASE u # t
    <3>1. PICK p : p = Tail(q)
      OBVIOUS
    <3>2. OrderedAt(p, k, l, u)
      BY <1>1, <1>2, <1>3, <1>4, <2>3, <3>1, TailOrdered
    <3>3. OrderedAt(p, k, l, u)'
      BY <2>3, <3>2, ListenElsewhere
    <3> QED
      BY <2>1, <3>1, <3>3
  <2> QED
    BY <2>2, <2>3
<1>5. CASE k # n \/ l # m
  <2>1. mail'[l][k] = q
    BY <1>1, <1>3, <1>5 DEF Reading
  <2>2. OrderedAt(q, k, l, u)'
    <3>1. CASE k = n /\ u = t
      BY <1>2, <1>5, <3>1, ListenOther
    <3>2. CASE k # n \/ u # t
      BY <1>2, <3>2, ListenElsewhere
    <3> QED
      BY <3>1, <3>2
  <2> QED
    BY <2>1, <2>2
<1> QED
  BY <1>4, <1>5

\* Strangers, and the chain of streams, survive ReceiveData.
LEMMA ListenConsistent ==
    ASSUME IInv, NEW n \in Nodes, NEW m \in Nodes, NEW d, NEW t \in Tubes, Listens(n, m, d, t),
           NEW k \in Nodes, NEW l \in Nodes, l # k
    PROVE  /\ StrangersAt(mail[l][k], k, l)'
           /\ scenario.streams = {} => \A u \in Tubes : ConsistentAt(mail[l][k], k, l, u)'
<1>1. PICK q : q = mail[l][k]
  OBVIOUS
<1>2. Pair(q, k, l) /\ IsQueue(q) /\ Shape
  BY <1>1 DEF IInv, Pairs, Shape, MailOK
<1>3. Reading(mail, mail', n, m) /\ n # m /\ mail[m][n] # <<>> /\ Head(mail[m][n]) = d
      /\ d.kind = "data" /\ d.what.tube = t /\ n \in joined /\ m \in met[n]
      /\ UNCHANGED <<scenario, joined, gone, met, said>>
  BY DEF Listens
<1>4. ASSUME NEW u \in Tubes
      PROVE  /\ Now(l, u)' = Now(l, u)
             /\ Knows(k, l, u)' => Knows(k, l, u) /\ KnownStream(k, l, u)' = KnownStream(k, l, u)
  BY ListenKnows
<1>5. CASE k = n /\ l = m
  <2>1. PICK p : p = Tail(q)
    OBVIOUS
  <2>2. mail'[l][k] = p
    BY <1>1, <1>3, <1>5, <2>1 DEF Reading
  <2>3. StrangersAt(p, k, l)'
    <3>1. n \notin gone
      BY <1>2, <1>3 DEF Shape, RoomOK
    <3> QED
      BY <1>1, <1>2, <1>3, <1>5, <3>1 DEF Pair, StrangersAt
  <2>4. ASSUME scenario.streams = {}, NEW u \in Tubes PROVE ConsistentAt(p, k, l, u)'
    <3>1. PICK knows, s, now : knows = Knows(k, l, u) /\ s = KnownStream(k, l, u) /\ now = Now(l, u)
      OBVIOUS
    <3>2. PICK known, r : known = Knows(k, l, u)' /\ r = KnownStream(k, l, u)'
      OBVIOUS
    <3>3. Chained(q, u, knows, s) /\ (k \in met[l] => Ends(q, u, knows, s, now))
      BY <1>2, <2>4, <3>1 DEF Pair, ConsistentAt
    <3>4. known => knows /\ r = s
      BY <1>4, <3>1, <3>2
    <3>5. Chained(p, u, known, s) /\ (k \in met[l] => Ends(p, u, known, s, now))
      <4>1. CASE u = t
        <5>1. Tells(d, u) /\ Told(d, u) = d.stream
          BY <1>3, <4>1 DEF Tells, Told
        <5>2. /\ Chained(p, u, known, d.stream)
              /\ k \in met[l] => Ends(p, u, known, d.stream, now)
          BY <1>1, <1>2, <1>3, <1>5, <2>1, <3>3, <5>1, TailTells
        <5>3. known => s = d.stream
          BY <1>5, <2>4, <3>1, <3>4, <4>1, ListenHears
        <5>4. CASE known
          BY <5>2, <5>3, <5>4
        <5>5. CASE ~known
          BY <5>2, <5>5 DEF Chained, Ends
        <5> QED
          BY <5>4, <5>5
      <4>2. CASE u # t
        <5>1. ~Tells(d, u)
          BY <1>3, <4>2 DEF Tells
        <5>2. Chained(p, u, knows, s) /\ (k \in met[l] => Ends(p, u, knows, s, now))
          BY <1>1, <1>2, <1>3, <1>5, <2>1, <3>3, <5>1, TailSilent
        <5> QED
          BY <3>4, <5>2, KnowsLess
      <4> QED
        BY <4>1, <4>2
    <3>6. Chained(p, u, known, r) /\ (k \in met[l] => Ends(p, u, known, r, now))
      <4>1. CASE known
        BY <3>4, <3>5, <4>1
      <4>2. CASE ~known
        BY <3>5, <4>2 DEF Chained, Ends
      <4> QED
        BY <4>1, <4>2
    <3>7. now = Now(l, u)'
      BY <1>4, <3>1
    <3> QED
      BY <1>3, <3>2, <3>6, <3>7 DEF ConsistentAt
  <2> QED
    BY <2>2, <2>3, <2>4
<1>6. CASE k # n \/ l # m
  <2>1. mail'[l][k] = q
    BY <1>1, <1>3, <1>6 DEF Reading
  <2>2. StrangersAt(q, k, l)'
    <3>1. StrangersAt(q, k, l)
      BY <1>2 DEF Pair
    <3> QED
      BY <1>3, <1>4, <3>1, KeepStrangers
  <2>3. ASSUME scenario.streams = {}, NEW u \in Tubes PROVE ConsistentAt(q, k, l, u)'
    <3>1. ConsistentAt(q, k, l, u)
      BY <1>2, <2>3 DEF Pair
    <3> QED
      BY <1>3, <1>4, <3>1, KeepConsistent
  <2> QED
    BY <2>1, <2>2, <2>3
<1> QED
  BY <1>5, <1>6

\* A message is read.
LEMMA ReceiveDataKeeps ==
    ASSUME IInv, NEW n \in Nodes, NEW m \in Nodes, ReceiveData(n, m)
    PROVE  IInv'
<1>1. PICK d : \E t \in Tubes : Listens(n, m, d, t)
  BY ListensIs
<1>2. PICK t \in Tubes : Listens(n, m, d, t)
  BY <1>1
<1>3. /\ n # m /\ n \in joined /\ m \in met[n] /\ UNCHANGED <<scenario, joined, gone, met, last, said, closed>>
      /\ mail[m][n] # <<>> /\ Reading(mail, mail', n, m)
      /\ Alters(n, tubes'[n]) /\ OnlyAt(tubes[n], tubes'[n], t)
  BY <1>2 DEF Listens
<1>4. Shape /\ RoomOK /\ TablesOK /\ SaidOK /\ MailOK(mail)
  BY DEF IInv, Shape
<1>5. RoomOK' /\ SaidOK'
  BY <1>3, <1>4 DEF RoomOK, SaidOK
<1>6. PICK table : table = tubes'[n]
  OBVIOUS
<1>7. Alters(n, table) /\ DOMAIN table = DOMAIN tubes[n] /\ \A u \in DOMAIN table : u # t => table[u] = tubes[n][u]
  BY <1>3, <1>6 DEF OnlyAt
<1>8. Has(n, t) => /\ TubeOK(table[t], n) /\ table[t].stream = tubes[n][t].stream
                   /\ table[t].names = tubes[n][t].names /\ table[t].senders = tubes[n][t].senders
  BY <1>2, <1>6 DEF Listens, Hearing
<1>9. TableOK(table, n)
  BY <1>4, <1>7, <1>8 DEF TablesOK, TableOK, Has
<1>10. TablesOK'
  BY <1>3, <1>4, <1>7, <1>9, TablesStay DEF TablesOK
<1>11. MailOK(mail)'
  <2>1. PICK box : box = mail'
    OBVIOUS
  <2>2. MailOK(box)
    BY <1>3, <1>4, <2>1, ReadingOK
  <2> QED
    BY <2>1, <2>2 DEF MailOK, Mailbox
<1>12. \E of : StreamsFit(of)'
  <2>1. PICK of : StreamsFit(of)
    BY DEF IInv
  <2>2. PICK ls, tbs, box : ls = last' /\ tbs = tubes' /\ box = mail'
    OBVIOUS
  <2>3. of \in [Nodes -> [Nat -> Tubes \cup {0}]] /\ MailFits(of, last, mail) /\ TableFits(of, last, tubes[n], n)
    BY <2>1 DEF StreamsFit
  <2>4. TableFits(of, last, table, n)
    BY <1>7, <1>8, <2>3 DEF TableFits, Has
  <2>5. \A k \in Nodes : TableFits(of, ls, tbs[k], k)
    BY <1>3, <1>7, <2>1, <2>2, <2>4 DEF StreamsFit, Alters
  <2>6. MailFits(of, last, box)
    BY <1>3, <1>4, <2>2, <2>3, ReadingFits
  <2> QED
    BY <1>3, <2>2, <2>3, <2>5, <2>6, StreamsStay
<1>13. Pairs'
  <2> SUFFICES ASSUME NEW k \in Nodes, NEW l \in Nodes PROVE Pair(mail[l][k], k, l)'
    BY DEF Pairs
  <2>1. \A u \in Tubes : OrderedAt(mail[l][k], k, l, u)'
    BY <1>2, ListenOrderly
  <2>2. l # k => /\ StrangersAt(mail[l][k], k, l)'
                 /\ scenario.streams = {} => \A u \in Tubes : ConsistentAt(mail[l][k], k, l, u)'
    BY <1>2, ListenConsistent
  <2> QED
    BY <1>3, <2>1, <2>2 DEF Pair
<1> QED
  BY <1>5, <1>10, <1>11, <1>12, <1>13 DEF IInv, Shape

-----------------------------------------------------------------------------
(* The activity *)

\* box may be the mail.
BoxOK(box) ==
    /\ MailOK(box)
    /\ \E of : /\ of \in [Nodes -> [Nat -> Tubes \cup {0}]] /\ MailFits(of, last, box)
               /\ \A n \in Nodes : TableFits(of, last, tubes[n], n)
    /\ \A n, m \in Nodes : Pair(box[m][n], n, m)

\* The mail may.
LEMMA BoxIs ==
    ASSUME IInv
    PROVE  BoxOK(mail)
<1>1. \E of : /\ of \in [Nodes -> [Nat -> Tubes \cup {0}]] /\ MailFits(of, last, mail)
              /\ \A n \in Nodes : TableFits(of, last, tubes[n], n)
  BY DEF IInv, StreamsFit
<1> QED
  BY <1>1 DEF BoxOK, IInv, Shape, Pairs

\* Properties are read.
LEMMA BoxRead ==
    ASSUME Shape, NEW box, BoxOK(box), NEW n \in Nodes, NEW m \in Nodes, m # n, NEW after,
           box[m][n] # <<>>, Head(box[m][n]).kind = "properties", Reading(box, after, n, m)
    PROVE  BoxOK(after)
<1>1. MailOK(box)
  BY DEF BoxOK
<1>2. MailOK(after)
  BY <1>1, ReadingOK
<1>3. PICK of : /\ of \in [Nodes -> [Nat -> Tubes \cup {0}]] /\ MailFits(of, last, box)
                /\ \A k \in Nodes : TableFits(of, last, tubes[k], k)
  BY DEF BoxOK
<1>4. MailFits(of, last, after)
  BY <1>1, <1>3, ReadingFits
<1>5. ASSUME NEW k \in Nodes, NEW l \in Nodes PROVE Pair(after[l][k], k, l)
  <2>1. Pair(box[l][k], k, l) /\ IsQueue(box[l][k])
    BY <1>1 DEF BoxOK, MailOK
  <2>2. CASE k = n /\ l = m
    <3>1. Pair(Tail(box[l][k]), k, l)
      BY <2>1, <2>2, PairRead
    <3> QED
      BY <2>2, <3>1 DEF Reading
  <2>3. CASE k # n \/ l # m
    <3>1. after[l][k] = box[l][k]
      BY <2>3 DEF Reading
    <3> QED
      BY <2>1, <3>1
  <2> QED
    BY <2>2, <2>3
<1> QED
  BY <1>2, <1>3, <1>4, <1>5 DEF BoxOK

\* Properties are sent.
LEMMA BoxSent ==
    ASSUME NEW box, BoxOK(box), NEW n \in Nodes, NEW after, NEW x, x.kind = "properties",
           Posted(box, after, n, met[n], x)
    PROVE  BoxOK(after)
<1>1. MailOK(box)
  BY DEF BoxOK
<1>2. PICK members : members = met[n]
  OBVIOUS
<1>3. MailOK(after)
  BY <1>1, <1>2, PostedOK
<1>4. PICK of : /\ of \in [Nodes -> [Nat -> Tubes \cup {0}]] /\ MailFits(of, last, box)
                /\ \A k \in Nodes : TableFits(of, last, tubes[k], k)
  BY DEF BoxOK
<1>5. ItemFits(of, last, n, x)
  BY DEF ItemFits
<1>6. MailFits(of, last, after)
  BY <1>1, <1>2, <1>4, <1>5, PostedFits
<1>7. ASSUME NEW k \in Nodes, NEW l \in Nodes PROVE Pair(after[l][k], k, l)
  <2>1. Pair(box[l][k], k, l) /\ IsQueue(box[l][k])
    BY <1>1 DEF BoxOK, MailOK
  <2>2. CASE l = n /\ k \in met[n] \ {n}
    <3>1. Pair(Append(box[l][k], x), k, l)
      BY <2>1, <2>2, PairSilent
    <3>2. after[l][k] = Append(box[l][k], x)
      BY <2>2 DEF Posted
    <3> QED
      BY <3>1, <3>2
  <2>3. CASE ~(l = n /\ k \in met[n] \ {n})
    <3>1. after[l][k] = box[l][k]
      BY <2>3 DEF Posted
    <3> QED
      BY <2>1, <3>1
  <2> QED
    BY <2>2, <2>3
<1> QED
  BY <1>3, <1>4, <1>6, <1>7 DEF BoxOK

\* Only the mail has changed.
LEMMA BoxKeeps ==
    ASSUME IInv, UNCHANGED <<scenario, joined, gone, met, tubes, last, said, closed>>,
           NEW box, box = mail', BoxOK(box)
    PROVE  IInv'
<1>1. RoomOK' /\ TablesOK' /\ SaidOK'
  BY DEF IInv, Shape, RoomOK, TablesOK, SaidOK
<1>2. MailOK(mail)'
  BY DEF BoxOK, MailOK, Mailbox
<1>3. PICK of : /\ of \in [Nodes -> [Nat -> Tubes \cup {0}]] /\ MailFits(of, last, box)
                /\ \A k \in Nodes : TableFits(of, last, tubes[k], k)
  BY DEF BoxOK
<1>4. PICK ls, tbs : ls = last' /\ tbs = tubes'
  OBVIOUS
<1>5. StreamsFit(of)'
  BY <1>3, <1>4, StreamsStay
<1>6. Pairs'
  <2> SUFFICES ASSUME NEW k \in Nodes, NEW m \in Nodes PROVE Pair(mail[m][k], k, m)'
    BY DEF Pairs
  <2>1. PICK q : q = box[m][k]
    OBVIOUS
  <2>2. Pair(q, k, m)
    BY <2>1 DEF BoxOK
  <2>3. AllAlike(k, m)
    BY DEF AllAlike, Alike, Has
  <2>4. MetAlike(k, m) /\ NowAlike(k, m) /\ RoomAlike
    BY DEF MetAlike, NowAlike, Now, In, Has, RoomAlike
  <2>5. Pair(q, k, m)'
    BY <2>2, <2>3, <2>4, PairKept
  <2> QED
    BY <2>1, <2>5
<1> QED
  BY <1>1, <1>2, <1>5, <1>6 DEF IInv, Shape

\* What an activity sends.
LEMMA ToRoomIs ==
    ASSUME NEW box, BoxOK(box), NEW n \in Nodes, NEW a, NEW after, after = box \/ after = ToRoom(box, n, a)
    PROVE  BoxOK(after)
<1>1. CASE after = box
  BY <1>1
<1>2. CASE after # box
  <2>1. PICK members, x : members = met[n] /\ x = Properties(a)
    OBVIOUS
  <2>2. after = Sent(box, n, members, x)
    BY <1>2, <2>1 DEF ToRoom
  <2>3. Posted(box, after, n, members, x)
    BY <2>2, SentIs DEF BoxOK, MailOK
  <2>4. x.kind = "properties"
    BY <2>1 DEF Properties
  <2> QED
    BY <2>1, <2>3, <2>4, BoxSent
<1> QED
  BY <1>1, <1>2

\* An activity changes, and the room is told or not.
LEMMA ChangeKeeps ==
    ASSUME IInv, RoomStill, NEW n \in Nodes, NEW a, mail' = mail \/ mail' = ToRoom(mail, n, a)
    PROVE  IInv'
<1>1. PICK b, after, c : b = mail /\ after = mail' /\ c = a
  OBVIOUS
<1>2. BoxOK(b)
  BY <1>1, BoxIs
<1>3. after = b \/ after = ToRoom(b, n, c)
  BY <1>1
<1>4. BoxOK(after)
  BY <1>2, <1>3, ToRoomIs
<1> QED
  BY <1>1, <1>4, BoxKeeps DEF RoomStill

\* The invariant survives ReceiveProperties, which reads an item and changes no tube.
LEMMA ReceivePropertiesKeeps ==
    ASSUME IInv, NEW n \in Nodes, NEW m \in Nodes, ReceiveProperties(n, m)
    PROVE  IInv'
<1>1. PICK b, after : b = mail /\ after = mail'
  OBVIOUS
<1>2. RoomStill /\ Arrives(n, m, "properties")
  BY DEF ReceiveProperties, Browsing
<1>3. PICK box : box = [mail EXCEPT ![m][n] = Tail(@)]
  OBVIOUS
<1>4. Mailbox(b) /\ b[m][m] = <<>> /\ BoxOK(b) /\ Shape
  BY <1>1, BoxIs DEF IInv, Shape, MailOK
<1>5. m # n /\ b[m][n] # <<>> /\ Head(b[m][n]).kind = "properties"
  BY <1>1, <1>2, <1>4 DEF Arrives
<1>6. Reading(b, box, n, m)
  BY <1>1, <1>3, <1>4 DEF Reading, Mailbox
<1>7. BoxOK(box)
  BY <1>4, <1>5, <1>6, BoxRead
<1>8. \E a : after = box \/ after = ToRoom(box, n, a)
  BY <1>1, <1>3 DEF ReceiveProperties, Changes
<1>9. BoxOK(after)
  BY <1>7, <1>8, ToRoomIs
<1> QED
  BY <1>1, <1>2, <1>9, BoxKeeps DEF RoomStill

\* Whatever else happens to an activity.
LEMMA ActivityKeeps ==
    ASSUME IInv, NEW n \in Nodes, NEW m \in Nodes, NEW name, NEW private,
           \/ AddActivity(n) \/ SetProperties(n, name, private) \/ RemoveActivity(n) \/ Invite(n, m)
           \/ ReceiveInvitation(n, m) \/ Decline(n) \/ BrowserFound(n, m) \/ BrowserRemoved(n, m)
           \/ ActivityResolved(n, m)
    PROVE  IInv'
<1>1. CASE AddActivity(n)
  <2>1. RoomStill /\ \E a : mail' = mail \/ mail' = ToRoom(mail, n, a)
    BY <1>1 DEF AddActivity, Changes, Browsing
  <2> QED
    BY <2>1, ChangeKeeps
<1>2. CASE SetProperties(n, name, private)
  <2>1. RoomStill /\ \E a : mail' = mail \/ mail' = ToRoom(mail, n, a)
    BY <1>2 DEF SetProperties, Changes
  <2> QED
    BY <2>1, ChangeKeeps
<1>3. CASE ReceiveInvitation(n, m)
  <2>1. RoomStill /\ \E a : mail' = mail \/ mail' = ToRoom(mail, n, a)
    BY <1>3 DEF ReceiveInvitation
  <2> QED
    BY <2>1, ChangeKeeps
<1>4. CASE ActivityResolved(n, m)
  <2>1. RoomStill /\ \E a : mail' = mail \/ mail' = ToRoom(mail, n, a)
    BY <1>4 DEF ActivityResolved, Changes, Browsing
  <2> QED
    BY <2>1, ChangeKeeps
<1>5. CASE RemoveActivity(n) \/ Decline(n) \/ Invite(n, m) \/ BrowserFound(n, m) \/ BrowserRemoved(n, m)
  <2>1. RoomStill /\ mail' = mail
    BY <1>5 DEF RemoveActivity, Decline, Invite, BrowserFound, BrowserRemoved, Browsing
  <2> QED
    BY <2>1, ChangeKeeps
<1> QED
  BY <1>1, <1>2, <1>3, <1>4, <1>5

-----------------------------------------------------------------------------
(* Every step *)

\* The invariant survives the steps of the tubes and of their clients.
LEMMA TubeStepKeeps ==
    ASSUME IInv, RoomStep \/ ClientStep
    PROVE  IInv'
<1>1. CASE RoomStep
  <2>1. PICK n \in Nodes, m \in Nodes :
           NewSender(n, m) \/ LostSender(n, m) \/ ReceiveTubes(n, m) \/ ReceiveData(n, m)
    BY <1>1 DEF RoomStep
  <2> QED
    BY <2>1, NewSenderKeeps, LostKeeps, ReceiveTubesKeeps, ReceiveDataKeeps
<1>2. CASE ClientStep
  <2>1. PICK n \in Nodes, t \in Tubes :
        \/ Request(n, t) \/ Offer(n, t) \/ Accept(n, t) \/ AcceptFails(n, t)
        \/ Close(n, t)
        \/ Attach(n, t) \/ HangUp(n, t) \/ Disconnected(n, t)
        \/ \E dest \in scenario.dests : Say(n, t, dest)
    BY <1>2 DEF ClientStep
  <2>2. CASE Request(n, t)
    BY <2>2, RequestKeeps
  <2>3. CASE Offer(n, t) \/ Accept(n, t)
    BY <2>3, OpenedKeeps
  <2>4. CASE AcceptFails(n, t) \/ Close(n, t)
    BY <2>4, ClosedKeeps
  <2>5. CASE Attach(n, t) \/ HangUp(n, t) \/ Disconnected(n, t)
    BY <2>5, AttachKeeps
  <2>6. CASE \E dest \in scenario.dests : Say(n, t, dest)
    BY <2>6, SayKeeps
  <2> QED
    BY <2>1, <2>2, <2>3, <2>4, <2>5, <2>6
<1> QED
  BY <1>1, <1>2

\* The invariant survives a room that is closed, a crash, and a crash on data.
LEMMA DepartureKeeps ==
    ASSUME IInv, NEW n \in Nodes, CloseRoom(n) \/ Crash(n) \/ \E m \in Nodes : CrashOnData(n, m)
    PROVE  IInv'
<1>1. n \in joined /\ Gone(n)
  BY DEF CloseRoom, Crash, CrashOnData, Vanish, FreedHears, Arrives
<1> QED
  BY <1>1, GoneKeeps

\* The invariant survives a step that changes nothing.
LEMMA StandstillKeeps ==
    ASSUME IInv, UNCHANGED vars
    PROVE  IInv'
<1>1. RoomStill /\ mail' = mail
  BY DEF vars, tubeVars, RoomStill
<1>2. CASE Nodes # {}
  BY <1>1, <1>2, ChangeKeeps
<1>3. CASE Nodes = {}
  <2>1. BoxOK(mail)
    BY BoxIs
  <2> QED
    BY <1>1, <2>1, BoxKeeps DEF RoomStill
<1> QED
  BY <1>2, <1>3

\* The invariant survives every step.
LEMMA NextKeeps ==
    ASSUME IInv, [Next]_vars
    PROVE  IInv'
<1>1. CASE TubeStep
  BY <1>1, TubeStepKeeps DEF TubeStep
<1>2. CASE \E n \in Nodes : Enter(n) \/ Decline(n) \/ CloseRoom(n) \/ Crash(n)
  <2>1. PICK n \in Nodes : Enter(n) \/ Decline(n) \/ CloseRoom(n) \/ Crash(n)
    BY <1>2
  <2>2. CASE Enter(n)
    BY <2>2, JoinKeeps DEF Enter
  <2>3. CASE Decline(n)
    BY <2>3, ActivityKeeps
  <2>4. CASE CloseRoom(n) \/ Crash(n)
    BY <2>4, DepartureKeeps
  <2> QED
    BY <2>1, <2>2, <2>3, <2>4
<1>3. CASE \E n, m \in Nodes : CrashOnData(n, m)
  BY <1>3, DepartureKeeps
<1>4. CASE \E n \in Nodes : AddActivity(n) \/ RemoveActivity(n)
  BY <1>4, ActivityKeeps
<1>5. CASE \E n \in Nodes, name \in Names \cup {Unset}, private \in BOOLEAN : SetProperties(n, name, private)
  BY <1>5, ActivityKeeps
<1>6. CASE \E n, m \in Nodes : Invite(n, m)
  BY <1>6, ActivityKeeps
<1>7. CASE News
  BY <1>7, ActivityKeeps, ReceivePropertiesKeeps DEF News
<1>8. CASE UNCHANGED vars
  BY <1>8, StandstillKeeps
<1> QED
  BY <1>1, <1>2, <1>3, <1>4, <1>5, <1>6, <1>7, <1>8 DEF Next

-----------------------------------------------------------------------------
(* The theorems *)

\* Initially every pair is as the invariant wants it.
LEMMA InitPair ==
    ASSUME Init, NEW n \in Nodes, NEW m \in Nodes
    PROVE  Pair(<<>>, n, m)
<1>1. tubes[n] = <<>>
  BY DEF Init, TubesInit
<1>2. \A t : ~Has(n, t) /\ ~Knows(n, m, t)
  BY <1>1, EmptyIs DEF Has, Knows
<1>3. \A t \in Tubes : OrderedAt(<<>>, n, m, t)
  BY <1>2, EmptyIs DEF OrderedAt, Mailed, Complete, On
<1>4. StrangersAt(<<>>, n, m)
  BY <1>2 DEF StrangersAt
<1>5. \A t : Now(m, t) = 0
  BY EmptyIs DEF Init, TubesInit, Now, In, Has
<1>6. \A t \in Tubes : ConsistentAt(<<>>, n, m, t)
  BY <1>2, EmptyIs DEF ConsistentAt, Chained, Ends
<1> QED
  BY <1>3, <1>4, <1>6 DEF Pair

\* The invariant holds initially.
LEMMA InitHolds == Init => IInv
<1> SUFFICES ASSUME Init PROVE IInv
  OBVIOUS
<1>1. TubesInit
  BY DEF Init
<1>2. scenario \in Scenarios /\ joined = scenario.first /\ joined \subseteq Nodes
  BY <1>1, MucTubesAssumption DEF TubesInit, MucTubesAssumption
<1>3. RoomOK
  BY <1>1, <1>2 DEF TubesInit, RoomOK
<1>4. TablesOK
  BY <1>1, EmptyIs DEF TubesInit, TablesOK, TableOK
<1>5. MailOK(mail)
  BY <1>1, EmptyIs DEF TubesInit, MailOK, Mailbox
<1>6. SaidOK
  BY <1>1, EmptyIs DEF TubesInit, SaidOK
<1>7. \E of : StreamsFit(of)
  <2>1. PICK of : of = [n \in Nodes |-> [s \in Nat |-> 0]]
    OBVIOUS
  <2>2. of \in [Nodes -> [Nat -> Tubes \cup {0}]]
    BY <2>1
  <2>3. \A n \in Nodes : TableFits(of, last, tubes[n], n)
    BY <1>1, EmptyIs DEF TubesInit, TableFits
  <2>4. MailFits(of, last, mail)
    BY <1>1, EmptyIs DEF TubesInit, MailFits
  <2> QED
    BY <2>2, <2>3, <2>4 DEF StreamsFit
<1>8. Pairs
  BY <1>1, InitPair DEF TubesInit, Pairs
<1> QED
  BY <1>3, <1>4, <1>5, <1>6, <1>7, <1>8 DEF IInv, Shape

\* Tables, mail and streams fit, pair by pair.
THEOREM TubesFit == Spec => []IInv
<1>1. IInv /\ [Next]_vars => IInv'
  BY NextKeeps
<1> QED
  BY <1>1, InitHolds, PTL DEF Spec

\* got is in order.
InOrder(got, n, t) ==
    /\ \A i \in DOMAIN got : got[i].tube = t /\ got[i].dest \in {All, n}
    /\ \A i, j \in DOMAIN got :
           i < j /\ got[i].from = got[j].from =>
              /\ got[i].number < got[j].number
              /\ \/ tubes[n][t].lost \/ scenario.streams # {}
                 \/ \A k \in got[i].number .. got[j].number :
                        said[got[i].from][t][k] \in {All, n} => k \in Numbers(got, got[i].from)

\* What a program has been given is in order.
LEMMA OrderIs ==
    ASSUME IInv, NEW n \in Nodes, NEW t \in DOMAIN tubes[n]
    PROVE  InOrder(tubes[n][t].got, n, t)
<1>0. PICK got : got = tubes[n][t].got
  OBVIOUS
<1> SUFFICES InOrder(got, n, t)
  BY <1>0
<1>1. TubeOK(tubes[n][t], n) /\ t \in Tubes /\ Has(n, t)
  BY DEF IInv, Shape, TablesOK, TableOK, Has
<1>2. CASE tubes[n][t].program = "none"
  BY <1>0, <1>1, <1>2, EmptyIs DEF TubeOK, InOrder
<1>3. CASE tubes[n][t].program # "none"
  <2>1. got = Store(tubes[n][t])
    BY <1>0, <1>3 DEF Store
  <2>2. Stored(got, n, t, said)
    BY <1>1, <2>1 DEF IInv, Pairs, Pair, OrderedAt
  <2>3. ASSUME NEW i \in DOMAIN got, NEW j \in DOMAIN got, i < j, got[i].from = got[j].from,
               ~tubes[n][t].lost, scenario.streams = {}, NEW k \in got[i].number .. got[j].number,
               said[got[i].from][t][k] \in {All, n}
        PROVE  k \in Numbers(got, got[i].from)
    <3>1. PICK m, words, q : m = got[i].from /\ words = said[m][t] /\ q = mail[m][n]
      OBVIOUS
    <3>2. m \in Nodes /\ got[i].number \in 1..Len(words) /\ got[j].number \in 1..Len(words)
      BY <2>2, <2>3, <3>1 DEF Stored
    <3>3. Before(got, q, m, t) /\ NoGap(got, q, n, t, words, m, Deaf(n, m, t))
      BY <1>1, <2>1, <2>3, <3>1, <3>2 DEF IInv, Pairs, Pair, OrderedAt
    <3>4. k \in got[i].number .. Len(words) /\ ~(got[j].number < k)
      <4>1. Len(words) \in Nat
        BY <1>1, <3>1, <3>2, QueueIs DEF IInv, Shape, SaidOK
      <4> QED
        BY <2>3, <3>2, <4>1
    <3>5. \/ k \in Numbers(got, m)
          \/ \E l \in On(q, t) : q[l].what.number = k
          \/ \A l \in DOMAIN got : got[l].from = m => got[l].number < k
      BY <2>3, <3>1, <3>3, <3>4 DEF NoGap
    <3> QED
      BY <2>3, <3>1, <3>3, <3>4, <3>5 DEF Before
  <2> QED
    BY <2>2, <2>3 DEF Stored, InOrder
<1> QED
  BY <1>2, <1>3

\* Programs hear their tube only, node by node in order and once, and without a gap
\* unless a queue was full or somebody in the room had a stream tube: muc_channel_handle_tubes,
\* muc_connection_received_data_cb and message_received, whatever the room.
THEOREM MessagesStayInOrder == Spec => []MessagesInOrder
<1>1. IInv => MessagesInOrder
  BY OrderIs DEF MessagesInOrder, InOrder, Numbers
<1> QED
  BY <1>1, TubesFit, PTL
=============================================================================
