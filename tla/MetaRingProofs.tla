--------------------------- MODULE MetaRingProofs ---------------------------
(***************************************************************************)
(* Proofs about module MetaRing, for any number of lines, message lengths  *)
(* and messages: its type invariant, and that it implements the channel of *)
(* module MetaChannel, across wrap-arounds and although the marker is      *)
(* written before the writer knows that there is room.                     *)
(***************************************************************************)
EXTENDS MetaRing, SequenceTheorems, TLAPS

\* The line of a position, positions being lines counted since the start.
Line(p) == p % N

\* Where message k of the log ends, given where each of them begins, and where
\* a message of i lines begins that comes after position e.
EndOf(place, k) == IF k = 0 THEN 0 ELSE place[k] + log[k].incr
Following(e, i) == IF Line(e) + i >= N THEN e + (N - Line(e)) ELSE e

\* What position p of message k holds.
LineOf(place, k, p) == IF p = place[k] THEN FirstOf(log[k]) ELSE RestOf(log[k])

Buffers == [Lines -> [msg : Messages \cup {NoMessage}, first : BOOLEAN, mark : BOOLEAN]]

\* The types of all variables.
Records ==
    /\ metabuf \in Buffers
    /\ metahead \in Nat /\ metatail \in Nat
    /\ wr \in [pc : {"idle", "room", "body", "publish"}, m : Messages \cup {NoMessage},
               head : Nat, tail : Nat]
    /\ rd \in [pc : {"idle", "holding"}, ptr : Lines]
    /\ log \in Seq(Messages) /\ Len(log) <= MaxMsgs
    /\ consumed \in Nat

\* Every message begins where the one before ends, or at the start of the next
\* lap, and does not reach the end of the ring.
Placed(place) ==
    /\ place \in [1 .. Len(log) -> Nat]
    /\ \A k \in 1 .. Len(log) :
          /\ place[k] = Following(EndOf(place, k - 1), log[k].incr)
          /\ Line(place[k]) + log[k].incr < N
    /\ \A j, k \in 1 .. Len(log) : j < k => place[j] + log[j].incr <= place[k]

\* The writer is at the last message, the reader at the first not completed.
Cursors(place) ==
    /\ consumed <= Published
    /\ metahead = EndOf(place, Published)
    /\ wr.pc # "idle" => /\ Len(log) # 0 /\ wr.m = log[Len(log)]
                         /\ wr.head = place[Len(log)]
    /\ rd.pc = "idle" => metatail = EndOf(place, consumed)
    /\ rd.pc = "holding" => /\ consumed < Published /\ metatail = place[consumed + 1]
                            /\ rd.ptr = Line(metatail)

\* What is published, and what the writer has found room for, is less than a lap
\* ahead of the tail.
Window ==
    /\ wr.tail <= metatail
    /\ metahead < metatail + N
    /\ wr.pc \in {"body", "publish"} => wr.head + wr.m.incr < metatail + N

\* Messages not completed are in their lines,
Intact(place) ==
    \A k \in consumed + 1 .. Published : \A p \in place[k] .. place[k] + log[k].incr - 1 :
        metabuf[Line(p)] = LineOf(place, k, p)

\* there is a marker wherever the tail has still to skip,
Marked(place) ==
    \A k \in consumed + 1 .. Len(log) :
        /\ EndOf(place, k - 1) < place[k]
        /\ metatail <= EndOf(place, k - 1)
        => metabuf[Line(EndOf(place, k - 1))] = Marker

\* and the message being written is there as far as the writer has come.
Begun(place) ==
    /\ wr.pc \in {"body", "publish"} => metabuf[Line(wr.head)] = FirstOf(wr.m)
    /\ wr.pc = "publish" => \A p \in wr.head + 1 .. wr.head + wr.m.incr - 1 :
                               metabuf[Line(p)] = RestOf(wr.m)

Layout(place) ==
    Placed(place) /\ Cursors(place) /\ Intact(place) /\ Marked(place) /\ Begun(place)

IInv == Records /\ Window /\ \E place \in [1 .. Len(log) -> Nat] : Layout(place)

-----------------------------------------------------------------------------
(* Remainders: a ring of R lines keeps position p in line p % R.           *)

\* The slot of a ticket is in the ring.
LEMMA RingSlot == ASSUME NEW R \in Nat \ {0}, NEW t \in Nat PROVE t % R \in 0 .. R - 1
  OBVIOUS

\* Division by R.
LEMMA RingDivision ==
    ASSUME NEW R \in Nat \ {0}, NEW a \in Nat
    PROVE  a = R * (a \div R) + (a % R) /\ a \div R \in Int
  OBVIOUS

\* Products with R.
LEMMA RingProducts ==
    ASSUME NEW R \in Nat \ {0}, NEW k \in Int
    PROVE  R * k \in Int /\ (k <= 0 => R * k <= 0) /\ (k >= 1 => R * k >= R)
  OBVIOUS

\* Differences of multiples of R.
LEMMA RingDistributes ==
    ASSUME NEW R \in Nat \ {0}, NEW k \in Int, NEW l \in Int
    PROVE  R * l - R * k = R * (l - k)
  OBVIOUS

\* Two numbers differ by a multiple of R and by their remainders.
LEMMA RingDifference ==
    ASSUME NEW R \in Nat \ {0}, NEW a \in Nat, NEW b \in Nat
    PROVE  \E j \in Int : b - a = R * j + (b % R) - (a % R)
<1> DEFINE k == a \div R
           l == b \div R
           x == R * l
           y == R * k
           m == a % R
           n == b % R
<1>1. k \in Int /\ l \in Int /\ a = y + m /\ b = x + n  BY RingDivision
<1>2. m \in Int /\ n \in Int  BY RingSlot
<1>3. x \in Int /\ y \in Int  BY <1>1, RingProducts
<1> HIDE DEF k, l
<1>4. x - y = R * (l - k) /\ l - k \in Int  BY <1>1, RingDistributes
<1> HIDE DEF x, y, m, n
<1>5. b - a = (x - y) + n - m  BY <1>1, <1>2, <1>3
<1>6. b - a = R * (l - k) + n - m  BY <1>4, <1>5
<1> QED  BY <1>4, <1>6 DEF m, n

\* Tickets of the same slot less than a round apart are the same.
LEMMA RingSameSlot ==
    ASSUME NEW R \in Nat \ {0}, NEW a \in Nat, NEW b \in Nat,
           a % R = b % R, a < b + R, b < a + R
    PROVE  a = b
<1>1. PICK j \in Int : b - a = R * j + (b % R) - (a % R)  BY RingDifference
<1>2. R * j \in Int /\ a % R \in Int /\ b % R \in Int  BY RingProducts, RingSlot
<1>3. b - a = R * j  BY <1>1, <1>2
<1>4. R * (-j) = -(R * j) /\ -j \in Int  OBVIOUS
<1>5. (j >= 1 => R * j >= R) /\ (j <= -1 => R * (-j) >= R)  BY <1>4, RingProducts
<1>6. j = 0  BY <1>2, <1>3, <1>4, <1>5
<1> QED  BY <1>3, <1>6

-----------------------------------------------------------------------------
(* Positions and lines.                                                    *)

LEMMA LineInRing == ASSUME NEW p \in Nat PROVE Line(p) \in Lines /\ Line(p) \in 0 .. N - 1
  BY MetaAssumption, RingSlot DEF Line, Lines

\* Positions less than a lap from the tail that share a line are the same.
LEMMA SameLine ==
    ASSUME NEW t \in Nat, NEW p \in Nat, NEW q \in Nat, Line(p) = Line(q),
           t <= p, t <= q, p < t + N, q < t + N
    PROVE  p = q
<1>1. N \in Nat \ {0}  BY MetaAssumption
<1>2. p < q + N /\ q < p + N  BY <1>1
<1> QED  BY <1>1, <1>2, RingSameSlot DEF Line

\* A number below N is its own remainder, and a lap starts at line 0.
LEMMA Remainder ==
    ASSUME NEW p \in Nat, NEW x \in Int, NEW l \in 0 .. N - 1, p = N * x + l
    PROVE  Line(p) = l
<1>1. N \in Nat \ {0}  BY MetaAssumption
<1> DEFINE m == Line(p)
           y == p \div N
<1>2. p = N * y + m /\ y \in Int /\ m \in 0 .. N - 1
  BY <1>1, RingDivision, LineInRing DEF Line
<1> HIDE DEF m, y
<1>3. N * (x - y) = N * x - N * y /\ N * (y - x) = N * y - N * x
  BY <1>1, <1>2, RingDistributes
<1>4. N * x \in Int /\ N * y \in Int /\ N * (x - y) \in Int /\ N * (y - x) \in Int
  BY <1>1, <1>2, RingProducts
<1>5. (x - y >= 1 => N * (x - y) >= N) /\ (y - x >= 1 => N * (y - x) >= N)
  BY <1>1, <1>2, RingProducts
<1> DEFINE a == N * x
           b == N * y
           c == N * (x - y)
           d == N * (y - x)
<1>6. x - y >= 1 \/ y - x >= 1 \/ x = y  BY <1>2
<1>7. CASE x - y >= 1
  <2>1. c >= N /\ c = a - b /\ p = a + l /\ p = b + m /\ a \in Int /\ b \in Int
    BY <1>2, <1>3, <1>4, <1>5, <1>7
  <2> HIDE DEF a, b, c
  <2> QED  BY <2>1, <1>1, <1>2
<1>8. CASE y - x >= 1
  <2>1. d >= N /\ d = b - a /\ p = a + l /\ p = b + m /\ a \in Int /\ b \in Int
    BY <1>2, <1>3, <1>4, <1>5, <1>8
  <2> HIDE DEF a, b, d
  <2> QED  BY <2>1, <1>1, <1>2
<1>9. CASE x = y
  <2>1. p = a + l /\ p = a + m /\ a \in Int  BY <1>2, <1>4, <1>9
  <2> HIDE DEF a
  <2> QED  BY <2>1, <1>2 DEF m
<1> QED  BY <1>6, <1>7, <1>8, <1>9

LEMMA LineAdd ==
    ASSUME NEW p \in Nat, NEW i \in Nat, Line(p) + i < N
    PROVE  Line(p + i) = Line(p) + i
<1>1. N \in Nat \ {0} /\ Line(p) \in 0 .. N - 1  BY MetaAssumption, LineInRing
<1> DEFINE m == Line(p)
           x == p \div N
           a == N * x
<1>2. p = a + m /\ x \in Int /\ a \in Int
  BY <1>1, RingDivision, RingProducts DEF Line
<1>3. m + i \in 0 .. N - 1 /\ p + i \in Nat  BY <1>1
<1>4. p + i = a + (m + i)
  <2> HIDE DEF a, m
  <2> QED  BY <1>1, <1>2 DEF m
<1> HIDE DEF m, x
<1> QED  BY <1>2, <1>3, <1>4, Remainder DEF m

LEMMA LineWrap ==
    ASSUME NEW p \in Nat
    PROVE  Line(p + (N - Line(p))) = 0 /\ p + (N - Line(p)) \in Nat
<1>1. N \in Nat \ {0} /\ Line(p) \in 0 .. N - 1  BY MetaAssumption, LineInRing
<1> DEFINE m == Line(p)
           x == p \div N
           a == N * x
           b == N * (x + 1)
<1>2. p = a + m /\ x \in Int /\ a \in Int
  BY <1>1, RingDivision, RingProducts DEF Line
<1> HIDE DEF x
<1>3. b = a + N  BY <1>1, <1>2
<1>4. p + (N - m) = b + 0 /\ p + (N - m) \in Nat
  <2> HIDE DEF a, b, m
  <2> QED  BY <1>1, <1>2, <1>3 DEF m
<1> HIDE DEF m
<1> QED  BY <1>1, <1>2, <1>4, Remainder DEF m

\* Where a message begins after position e: no earlier, and with all of its
\* lines before the end of the ring.
LEMMA FollowingFits ==
    ASSUME NEW e \in Nat, NEW i \in Nat, i < N
    PROVE  /\ Following(e, i) \in Nat /\ e <= Following(e, i)
           /\ Line(Following(e, i)) + i < N
<1>1. N \in Nat \ {0} /\ Line(e) \in 0 .. N - 1  BY MetaAssumption, LineInRing
<1>2. Line(e + (N - Line(e))) = 0 /\ e + (N - Line(e)) \in Nat  BY LineWrap
<1> QED  BY <1>1, <1>2 DEF Following

\* The writer's test leaves less than a lap between the tail it has seen and
\* the end of the message.
LEMMA RoomSuffices ==
    ASSUME NEW H \in Nat, NEW T \in Nat, NEW i \in Nat, Line(H) + i < N,
           H < T + N, ~(Line(H) < Line(T) /\ Line(H) + i >= Line(T))
    PROVE  H + i < T + N
<1> DEFINE h == Line(H)
           t == Line(T)
           x == H \div N
           y == T \div N
           a == N * x
           b == N * y
           c == N * (x - y)
           d == N * (x - y - 1)
<1>1. N \in Nat \ {0} /\ h \in 0 .. N - 1 /\ t \in 0 .. N - 1  BY MetaAssumption, LineInRing
<1>2. H = a + h /\ T = b + t /\ x \in Int /\ y \in Int
  BY <1>1, RingDivision DEF Line
<1> HIDE DEF x, y
<1>3. a \in Int /\ b \in Int /\ c \in Int /\ d \in Int  BY <1>1, <1>2, RingProducts
<1>4. c = a - b  BY <1>1, <1>2, RingDistributes
<1>5. d = c - N  BY <1>1, <1>2
<1>6. (x - y <= 0 => c <= 0) /\ (x - y - 1 >= 1 => d >= N) /\ (x - y - 1 <= 0 => d <= 0)
      /\ (x - y >= 1 => c >= N)
  BY <1>1, <1>2, RingProducts
<1>7. x - y <= 0 \/ x - y = 1 \/ x - y - 1 >= 1  BY <1>2
<1>8. c <= 0 \/ c = N \/ c >= N + N  
  <2>1. x - y = 1 => (x - y >= 1 /\ x - y - 1 <= 0)  BY <1>2
  <2> HIDE DEF c, d
  <2> QED  BY <1>1, <1>3, <1>5, <1>6, <1>7, <2>1
<1>9. h + i < N /\ ~(h < t /\ h + i >= t)  OBVIOUS
<1> HIDE DEF a, b, c, d, h, t
<1> QED  BY <1>1, <1>2, <1>3, <1>4, <1>8, <1>9

-----------------------------------------------------------------------------
(* Positions of messages.                                                  *)

\* Messages of the log are records with a length less than a lap.
LEMMA MessageLength ==
    ASSUME NEW m \in Messages
    PROVE  /\ m.incr \in Nat /\ 1 <= m.incr /\ m.incr < N /\ m # NoMessage
           /\ m.id \in 1 .. MaxMsgs
<1>1. m.incr \in Increments /\ m.id \in 1 .. MaxMsgs  BY DEF Messages
<1>2. m.incr \in Nat \ {0} /\ 2 * m.incr < N /\ N \in Nat  BY <1>1, MetaAssumption
<1>3. m.id # NoMessage.id  BY <1>1, MetaAssumption DEF NoMessage
<1> QED  BY <1>1, <1>2, <1>3

LEMMA LogLength ==
    ASSUME Records, NEW k \in 1 .. Len(log)
    PROVE  /\ log[k] \in Messages /\ log[k].incr \in Nat
           /\ 1 <= log[k].incr /\ log[k].incr < N
<1>1. log[k] \in Messages  BY DEF Records
<1> QED  BY <1>1, MessageLength

\* Published messages are in the log.
LEMMA PublishedBound ==
    ASSUME Records, NEW place, Placed(place), Cursors(place)
    PROVE  /\ Published \in Nat /\ Published <= Len(log) /\ Len(log) \in Nat
           /\ (wr.pc = "idle" => Published = Len(log))
           /\ (wr.pc # "idle" => Published = Len(log) - 1)
  BY LenProperties DEF Records, Cursors, Published

\* Ends of messages are positions, and come before later messages.
LEMMA EndBound ==
    ASSUME Records, NEW place, Placed(place), NEW k \in 0 .. Len(log)
    PROVE  /\ EndOf(place, k) \in Nat
           /\ \A j \in 1 .. Len(log) : j > k => EndOf(place, k) <= place[j]
           /\ \A j \in 1 .. Len(log) : j <= k => place[j] + log[j].incr <= EndOf(place, k)
<1>0. Len(log) \in Nat  BY LenProperties DEF Records
<1>1. \A j \in 1 .. Len(log) : place[j] \in Nat /\ log[j].incr \in Nat
  BY LogLength DEF Placed
<1>2. CASE k = 0  BY <1>0, <1>1, <1>2 DEF EndOf
<1>3. CASE k # 0
  <2>1. k \in 1 .. Len(log) /\ EndOf(place, k) = place[k] + log[k].incr
    BY <1>0, <1>3 DEF EndOf
  <2>2. \A i, j \in 1 .. Len(log) : i < j => place[i] + log[i].incr <= place[j]
    BY DEF Placed
  <2>3. ASSUME NEW j \in 1 .. Len(log), j <= k
        PROVE  place[j] + log[j].incr <= EndOf(place, k)
    <3>1. CASE j = k  BY <1>1, <2>1, <3>1
    <3>2. CASE j < k  
      <4>1. place[j] + log[j].incr <= place[k]  BY <2>1, <2>2, <3>2
      <4> QED  BY <1>1, <2>1, <4>1
    <3> QED  BY <1>0, <2>1, <2>3, <3>1, <3>2
  <2> QED  BY <1>1, <2>1, <2>2, <2>3
<1> QED  BY <1>2, <1>3

\* A message not completed lies between tail and head.
LEMMA LiveBound ==
    ASSUME Records, NEW place, Placed(place), Cursors(place),
           NEW k \in consumed + 1 .. Published
    PROVE  /\ k \in 1 .. Len(log) /\ place[k] \in Nat /\ log[k].incr \in Nat
           /\ metatail <= place[k]
           /\ place[k] + log[k].incr <= metahead
<1>1. /\ consumed \in Nat /\ consumed <= Published /\ Published \in Nat
      /\ Published <= Len(log) /\ Len(log) \in Nat
  BY PublishedBound DEF Records, Cursors
<1>2. k \in 1 .. Len(log)  BY <1>1
<1>3. place[k] \in Nat /\ log[k].incr \in Nat  BY <1>2, LogLength DEF Placed
<1>4. Published \in 0 .. Len(log) /\ consumed \in 0 .. Len(log) /\ k <= Published /\ k > consumed
  BY <1>1
<1>5. place[k] + log[k].incr <= metahead  BY <1>2, <1>4, EndBound DEF Cursors
<1>6. metatail <= place[k]
  <2>1. CASE rd.pc = "idle"
    <3>1. EndOf(place, consumed) <= place[k]  BY <1>2, <1>4, EndBound
    <3> QED  BY <2>1, <3>1 DEF Cursors
  <2>2. CASE rd.pc = "holding"
    <3>1. metatail = place[consumed + 1] /\ metatail \in Nat  BY <2>2 DEF Cursors, Records
    <3>2. CASE k = consumed + 1  BY <1>3, <3>1, <3>2
    <3>3. CASE k > consumed + 1
      <4>1. consumed + 1 \in 1 .. Len(log)  BY <1>1, <1>2, <3>3
      <4>2. place[consumed + 1] + log[consumed + 1].incr <= place[k]
        BY <1>2, <4>1, <3>3 DEF Placed
      <4>3. log[consumed + 1].incr \in Nat  BY <4>1, LogLength
      <4> QED  BY <1>3, <3>1, <4>2, <4>3
    <3> QED  BY <1>1, <1>2, <3>2, <3>3
  <2> QED  BY <2>1, <2>2 DEF Records
<1> QED  BY <1>2, <1>3, <1>5, <1>6

\* The tail has not passed the head.
LEMMA TailBound ==
    ASSUME Records, NEW place, Placed(place), Cursors(place)
    PROVE  metatail <= metahead
<1>1. /\ consumed \in Nat /\ consumed <= Published /\ Published \in Nat
      /\ Published <= Len(log) /\ Len(log) \in Nat /\ metatail \in Nat /\ metahead \in Nat
  BY PublishedBound DEF Records, Cursors
<1>2. CASE rd.pc = "idle" /\ consumed = Published
  BY <1>1, <1>2 DEF Cursors
<1>3. CASE consumed < Published
  <2>1. Published \in consumed + 1 .. Published  BY <1>1, <1>3
  <2>2. /\ metatail <= place[Published] /\ place[Published] + log[Published].incr <= metahead
        /\ place[Published] \in Nat /\ log[Published].incr \in Nat
    BY <2>1, LiveBound
  <2> QED  BY <1>1, <2>2
<1>4. rd.pc \in {"idle", "holding"}  BY DEF Records
<1>5. rd.pc = "holding" => consumed < Published  BY DEF Cursors
<1> QED  BY <1>1, <1>2, <1>3, <1>4, <1>5

-----------------------------------------------------------------------------
(* The steps.                                                              *)

LEMMA InitInv == Init => IInv
<1> SUFFICES ASSUME Init PROVE IInv  OBVIOUS
<1> USE DEF Init
<1>1. 0 \in Lines /\ N \in Nat \ {0}  BY MetaAssumption DEF Lines
<1>2. Len(log) = 0 /\ log \in Seq(Messages)  OBVIOUS
<1>3. Published = 0  BY <1>2 DEF Published, WriterIdle
<1>4. Records
  BY <1>1, <1>2, MetaAssumption
  DEF Records, Buffers, Blank, WriterIdle, ReaderIdle
<1>5. Window  BY <1>1 DEF Window, WriterIdle
<1> DEFINE q == [k \in 1 .. Len(log) |-> 0]
<1>6. q \in [1 .. Len(log) -> Nat]  OBVIOUS
<1>7. Placed(q)  BY <1>2, <1>6 DEF Placed
<1>8. Cursors(q)  BY <1>3 DEF Cursors, EndOf, WriterIdle, ReaderIdle
<1>9. Intact(q) /\ Marked(q) /\ Begun(q)
  BY <1>2, <1>3 DEF Intact, Marked, Begun, WriterIdle
<1> QED  BY <1>4, <1>5, <1>6, <1>7, <1>8, <1>9 DEF IInv, Layout

LEMMA AwaitRoomStep ==
    ASSUME Records, Window, NEW place, Layout(place), AwaitRoom
    PROVE  Records' /\ Window' /\ Layout(place)'
<1> USE DEF AwaitRoom
<1>1. /\ wr'.pc = wr.pc /\ wr'.m = wr.m /\ wr'.head = wr.head /\ wr'.tail = metatail
      /\ wr' \in [pc : {"idle", "room", "body", "publish"}, m : Messages \cup {NoMessage},
                  head : Nat, tail : Nat]
  BY DEF Records
<1>2. Published' = Published  BY <1>1 DEF Published
<1>3. Records'  BY <1>1 DEF Records
<1>4. Window'  BY <1>1 DEF Window, Records
<1>5. Placed(place)'  BY DEF Layout, Placed, Following, EndOf
<1>6. Cursors(place)'  BY <1>1, <1>2 DEF Layout, Cursors, EndOf
<1>7. Intact(place)' /\ Marked(place)'
  BY <1>2 DEF Layout, Intact, Marked, LineOf, EndOf
<1>8. Begun(place)'  BY <1>1 DEF Layout, Begun
<1> QED  BY <1>3, <1>4, <1>5, <1>6, <1>7, <1>8 DEF Layout

\* The message being written begins at the head or after it.
LEMMA WriterAhead ==
    ASSUME Records, NEW place, Placed(place), Cursors(place), wr.pc # "idle"
    PROVE  /\ Len(log) \in 1 .. Len(log) /\ Published = Len(log) - 1
           /\ wr.m = log[Len(log)] /\ wr.head = place[Len(log)] /\ wr.m \in Messages
           /\ wr.head \in Nat /\ wr.m.incr \in Nat /\ wr.m.incr >= 1
           /\ Line(wr.head) \in Lines /\ Line(wr.head) + wr.m.incr < N
           /\ metatail <= metahead /\ metahead <= wr.head
           /\ metatail \in Nat /\ metahead \in Nat /\ N \in Nat
<1> DEFINE n == Len(log)
<1>1. /\ wr.m = log[n] /\ wr.head = place[n] /\ n \in 1 .. Len(log) /\ n \in Nat
      /\ Published = n - 1 /\ metahead = EndOf(place, n - 1)
  BY PublishedBound DEF Cursors
<1>2. /\ wr.head \in Nat /\ wr.m.incr \in Nat /\ wr.m.incr >= 1 /\ wr.m \in Messages
      /\ Line(wr.head) + wr.m.incr < N
  BY <1>1, LogLength DEF Placed
<1>3. n - 1 \in 0 .. Len(log) /\ n > n - 1  BY <1>1
<1>4. metahead <= wr.head  BY <1>1, <1>3, EndBound
<1>5. metatail <= metahead  BY TailBound
<1> QED  BY <1>1, <1>2, <1>4, <1>5, MetaAssumption, LineInRing DEF Records

\* A buffer b that differs from the ring only from the writer's position on still
\* holds the messages and the markers before it.
LEMMA OlderKept ==
    ASSUME Records, NEW place, Layout(place), wr.pc # "idle", NEW b,
           \A p \in Nat : metatail <= p /\ p < wr.head => b[Line(p)] = metabuf[Line(p)]
    PROVE  /\ \A k \in consumed + 1 .. Published :
                 \A p \in place[k] .. place[k] + log[k].incr - 1 :
                    b[Line(p)] = LineOf(place, k, p)
           /\ \A k \in consumed + 1 .. Len(log) :
                 /\ EndOf(place, k - 1) < place[k]
                 /\ metatail <= EndOf(place, k - 1)
                 => b[Line(EndOf(place, k - 1))] = Marker
<1> DEFINE H == wr.head
           n == Len(log)
<1>1. Placed(place) /\ Cursors(place)  BY DEF Layout
<1>2. /\ n \in 1 .. Len(log) /\ H = place[n] /\ H \in Nat /\ metahead <= H
      /\ metatail \in Nat /\ metahead \in Nat
  BY <1>1, WriterAhead
<1>3. ASSUME NEW k \in consumed + 1 .. Published,
             NEW p \in place[k] .. place[k] + log[k].incr - 1
      PROVE  b[Line(p)] = LineOf(place, k, p)
  <2>1. /\ place[k] \in Nat /\ log[k].incr \in Nat
        /\ metatail <= place[k] /\ place[k] + log[k].incr <= metahead
    BY <1>1, LiveBound
  <2>2. p \in Nat /\ metatail <= p /\ p < H  BY <1>2, <2>1
  <2>3. b[Line(p)] = metabuf[Line(p)]  BY <2>2
  <2> QED  BY <2>3 DEF Layout, Intact
<1>4. ASSUME NEW k \in consumed + 1 .. Len(log),
             EndOf(place, k - 1) < place[k], metatail <= EndOf(place, k - 1)
      PROVE  b[Line(EndOf(place, k - 1))] = Marker
  <2>1. k - 1 \in 0 .. Len(log) /\ k \in 1 .. Len(log) /\ k <= n
    BY <1>2 DEF Records
  <2>2. EndOf(place, k - 1) \in Nat  BY <1>1, <2>1, EndBound
  <2>3. place[k] \in Nat /\ place[k] <= H
    <3>1. CASE k = n  BY <1>2, <3>1
    <3>2. CASE k < n
      <4>1. place[k] + log[k].incr <= place[n] /\ place[k] \in Nat
        BY <1>1, <1>2, <2>1, <3>2 DEF Placed
      <4>2. log[k].incr \in Nat  BY <2>1, LogLength
      <4> QED  BY <1>2, <4>1, <4>2
    <3> QED  BY <1>2, <2>1, <3>1, <3>2
  <2>4. EndOf(place, k - 1) < H  BY <1>2, <1>4, <2>2, <2>3
  <2>5. b[Line(EndOf(place, k - 1))] = metabuf[Line(EndOf(place, k - 1))]
    BY <1>4, <2>2, <2>4
  <2> QED  BY <1>4, <2>5 DEF Layout, Marked
<1> QED  BY <1>3, <1>4

LEMMA WriteHeaderStep ==
    ASSUME Records, Window, NEW place, Layout(place), WriteHeader
    PROVE  Records' /\ Window' /\ Layout(place)'
<1> DEFINE H == wr.head
<1>1. /\ wr.pc = "room" /\ metabuf' = [metabuf EXCEPT ![Line(H)] = FirstOf(wr.m)]
      /\ wr' = [wr EXCEPT !.pc = "body"]
      /\ UNCHANGED <<metahead, metatail, rd, log, consumed>>
  BY DEF WriteHeader, Line
<1>2. Placed(place) /\ Cursors(place)  BY DEF Layout
<1>3. /\ H \in Nat /\ wr.m.incr \in Nat /\ wr.m.incr >= 1 /\ wr.m \in Messages
      /\ Line(H) + wr.m.incr < N /\ metatail <= metahead /\ metahead <= H
      /\ metatail \in Nat /\ N \in Nat /\ Line(H) \in Lines
  BY <1>1, <1>2, WriterAhead
<1>4. wr.tail \in Nat /\ wr.tail <= metatail /\ metabuf \in Buffers
  BY DEF Records, Window
<1>5. H + wr.m.incr < metatail + N
  <2>1. ~(wr.tail + N <= H)  BY DEF WriteHeader, NoRoom
  <2>2. ~(Line(H) < Line(wr.tail) /\ Line(H) + wr.m.incr >= Line(wr.tail))
    BY DEF WriteHeader, NoRoom, Line
  <2>3. H < wr.tail + N  BY <1>3, <1>4, <2>1
  <2>4. H + wr.m.incr < wr.tail + N  BY <1>3, <1>4, <2>2, <2>3, RoomSuffices
  <2> QED  BY <1>3, <1>4, <2>4
<1>6. \A p \in Nat : metatail <= p /\ p < H => metabuf'[Line(p)] = metabuf[Line(p)]
  <2>1. H < metatail + N  BY <1>3, <1>5
  <2>2. SUFFICES ASSUME NEW p \in Nat, metatail <= p, p < H
                 PROVE  metabuf'[Line(p)] = metabuf[Line(p)]
    OBVIOUS
  <2>3. p < metatail + N /\ metatail <= H /\ p # H  BY <1>3, <2>1, <2>2
  <2>4. Line(p) # Line(H)  BY <1>3, <2>1, <2>2, <2>3, SameLine
  <2>5. Line(p) \in Lines  BY LineInRing
  <2> HIDE DEF H
  <2> QED  BY <1>1, <1>3, <1>4, <2>4, <2>5 DEF Buffers
<1>7. /\ wr'.pc = "body" /\ wr'.m = wr.m /\ wr'.head = H /\ wr'.tail = wr.tail
      /\ wr' \in [pc : {"idle", "room", "body", "publish"}, m : Messages \cup {NoMessage},
                  head : Nat, tail : Nat]
  BY <1>1 DEF Records
<1>8. Published' = Published  BY <1>1, <1>7 DEF Published
<1>9. Records'
  <2>1. FirstOf(wr.m) \in [msg : Messages \cup {NoMessage}, first : BOOLEAN, mark : BOOLEAN]
    BY <1>3 DEF FirstOf
  <2>2. metabuf' \in Buffers  BY <1>1, <1>4, <2>1 DEF Buffers
  <2> QED  BY <1>1, <1>7, <2>2 DEF Records
<1>10. Window'  BY <1>1, <1>5, <1>7 DEF Window
<1>11. Placed(place)'  BY <1>1, <1>2 DEF Placed, Following, EndOf
<1>12. Cursors(place)'  BY <1>1, <1>2, <1>7, <1>8 DEF Cursors, EndOf
<1>13. Intact(place)' /\ Marked(place)'
  <2>1. /\ \A k \in consumed + 1 .. Published :
              \A p \in place[k] .. place[k] + log[k].incr - 1 :
                 metabuf'[Line(p)] = LineOf(place, k, p)
        /\ \A k \in consumed + 1 .. Len(log) :
              /\ EndOf(place, k - 1) < place[k]
              /\ metatail <= EndOf(place, k - 1)
              => metabuf'[Line(EndOf(place, k - 1))] = Marker
    BY <1>1, <1>6, OlderKept
  <2> QED  BY <1>1, <1>8, <2>1 DEF Intact, Marked, LineOf, EndOf
<1>14. Begun(place)'
  <2>1. metabuf'[Line(H)] = FirstOf(wr.m)  BY <1>1, <1>3, <1>4 DEF Buffers
  <2> QED  BY <1>7, <2>1 DEF Begun
<1> QED  BY <1>9, <1>10, <1>11, <1>12, <1>13, <1>14 DEF Layout

LEMMA WriteBodyStep ==
    ASSUME Records, Window, NEW place, Layout(place), WriteBody
    PROVE  Records' /\ Window' /\ Layout(place)'
<1> DEFINE H == wr.head
           Body == Line(H) + 1 .. Line(H) + wr.m.incr - 1
<1>1. /\ wr.pc = "body"
      /\ metabuf' = [l \in Lines |-> IF l \in Body THEN RestOf(wr.m) ELSE metabuf[l]]
      /\ wr' = [wr EXCEPT !.pc = "publish"]
      /\ UNCHANGED <<metahead, metatail, rd, log, consumed>>
  BY DEF WriteBody, Line
<1>2. Placed(place) /\ Cursors(place)  BY DEF Layout
<1>3. /\ H \in Nat /\ wr.m.incr \in Nat /\ wr.m.incr >= 1 /\ wr.m \in Messages
      /\ Line(H) + wr.m.incr < N /\ metatail <= metahead /\ metahead <= H
      /\ metatail \in Nat /\ metahead \in Nat /\ N \in Nat /\ Line(H) \in Lines
  BY <1>1, <1>2, WriterAhead
<1>4. H + wr.m.incr < metatail + N /\ metabuf \in Buffers
  BY <1>1 DEF Window, Records
<1>a. Line(H) \in Nat  BY <1>3, LineInRing
<1>5. ASSUME NEW p \in H + 1 .. H + wr.m.incr - 1
      PROVE  metabuf'[Line(p)] = RestOf(wr.m)
  <2> DEFINE i == p - H
  <2>1. p \in Nat /\ i \in Nat /\ 1 <= i /\ i < wr.m.incr /\ p = H + i  BY <1>3
  <2> HIDE DEF i
  <2>2. Line(p) = Line(H) + i  BY <1>3, <1>a, <2>1, LineAdd
  <2>3. Line(p) \in Body /\ Line(p) \in Lines  BY <1>3, <1>a, <2>1, <2>2, LineInRing
  <2> QED  BY <1>1, <2>3
<1>6. ASSUME NEW p \in Nat, metatail <= p, p <= H
      PROVE  metabuf'[Line(p)] = metabuf[Line(p)]
  <2>1. Line(p) \in Lines /\ Line(p) \in Nat  BY LineInRing
  <2>2. ASSUME Line(p) \in Body PROVE FALSE
    <3> DEFINE i == Line(p) - Line(H)
               q == H + i
    <3>1. i \in Nat /\ 1 <= i /\ i < wr.m.incr /\ Line(p) = Line(H) + i
      BY <1>3, <1>a, <2>1, <2>2
    <3> HIDE DEF i
    <3>2. q \in Nat /\ Line(q) = Line(p)  BY <1>3, <1>a, <3>1, LineAdd
    <3>3. metatail <= q /\ q < metatail + N /\ p < metatail + N /\ p # q
      BY <1>3, <1>4, <1>6, <3>1
    <3> HIDE DEF q
    <3> QED  BY <1>3, <1>6, <3>2, <3>3, SameLine
  <2> QED  BY <1>1, <2>1, <2>2
<1>7. /\ wr'.pc = "publish" /\ wr'.m = wr.m /\ wr'.head = H /\ wr'.tail = wr.tail
      /\ wr' \in [pc : {"idle", "room", "body", "publish"}, m : Messages \cup {NoMessage},
                  head : Nat, tail : Nat]
  BY <1>1 DEF Records
<1>8. Published' = Published  BY <1>1, <1>7 DEF Published
<1>9. Records'
  <2>1. RestOf(wr.m) \in [msg : Messages \cup {NoMessage}, first : BOOLEAN, mark : BOOLEAN]
    BY <1>3 DEF RestOf
  <2>2. metabuf' \in Buffers  BY <1>1, <1>4, <2>1 DEF Buffers
  <2> QED  BY <1>1, <1>7, <2>2 DEF Records
<1>10. Window'  BY <1>1, <1>4, <1>7 DEF Window
<1>11. Placed(place)'  BY <1>1, <1>2 DEF Placed, Following, EndOf
<1>12. Cursors(place)'  BY <1>1, <1>2, <1>7, <1>8 DEF Cursors, EndOf
<1>13. Intact(place)' /\ Marked(place)'
  <2>1. \A p \in Nat : metatail <= p /\ p < H => metabuf'[Line(p)] = metabuf[Line(p)]
    BY <1>3, <1>6
  <2>2. /\ \A k \in consumed + 1 .. Published :
              \A p \in place[k] .. place[k] + log[k].incr - 1 :
                 metabuf'[Line(p)] = LineOf(place, k, p)
        /\ \A k \in consumed + 1 .. Len(log) :
              /\ EndOf(place, k - 1) < place[k]
              /\ metatail <= EndOf(place, k - 1)
              => metabuf'[Line(EndOf(place, k - 1))] = Marker
    BY <1>1, <2>1, OlderKept
  <2>3. UNCHANGED <<metatail, log, consumed>>  BY <1>1
  <2> QED  BY <1>8, <2>2, <2>3 DEF Intact, Marked, LineOf, EndOf
<1>14. Begun(place)'
  <2>1. metabuf'[Line(H)] = metabuf[Line(H)]  BY <1>3, <1>6
  <2>2. metabuf'[Line(H)] = FirstOf(wr.m)  BY <1>1, <2>1 DEF Layout, Begun
  <2> QED  BY <1>5, <1>7, <2>2 DEF Begun
<1> QED  BY <1>9, <1>10, <1>11, <1>12, <1>13, <1>14 DEF Layout

LEMMA PublishStep ==
    ASSUME Records, Window, NEW place, Layout(place), Publish
    PROVE  Records' /\ Window' /\ Layout(place)'
<1> DEFINE H == wr.head
           n == Len(log)
<1>1. /\ wr.pc = "publish" /\ metahead' = H + wr.m.incr /\ wr' = WriterIdle
      /\ UNCHANGED <<metabuf, metatail, rd, log, consumed>>
  BY DEF Publish
<1>2. Placed(place) /\ Cursors(place)  BY DEF Layout
<1>3. /\ n \in 1 .. Len(log) /\ Published = n - 1 /\ wr.m = log[n] /\ H = place[n]
      /\ H \in Nat /\ wr.m.incr \in Nat /\ wr.m.incr >= 1
  BY <1>1, <1>2, WriterAhead
<1>4. H + wr.m.incr < metatail + N  BY <1>1 DEF Window
<1>5. Published' = n /\ wr'.pc = "idle" /\ wr'.tail = 0
  BY <1>1, <1>3 DEF Published, WriterIdle
<1>6. Records'  BY <1>1, <1>3 DEF Records, WriterIdle
<1>7. Window'  BY <1>1, <1>4, <1>5 DEF Window, Records
<1>8. Placed(place)'  BY <1>1, <1>2 DEF Placed, Following, EndOf
<1>9. Cursors(place)'
  <2>1. metahead' = EndOf(place, n)  BY <1>1, <1>3 DEF EndOf
  <2>2. consumed <= Published /\ consumed \in Nat  BY <1>2 DEF Cursors, Records
  <2> QED  BY <1>1, <1>2, <1>3, <1>5, <2>1, <2>2 DEF Cursors, EndOf
<1>10. Intact(place)'
  <2> SUFFICES ASSUME NEW k \in consumed + 1 .. n,
                      NEW p \in place[k] .. place[k] + log[k].incr - 1
               PROVE  metabuf[Line(p)] = LineOf(place, k, p)
    BY <1>1, <1>5 DEF Intact, LineOf
  <2>1. CASE k = n
    <3>1. p = H \/ p \in H + 1 .. H + wr.m.incr - 1  BY <1>3, <2>1
    <3>2. metabuf[Line(H)] = FirstOf(wr.m)  BY <1>1 DEF Layout, Begun
    <3>3. \A r \in H + 1 .. H + wr.m.incr - 1 : metabuf[Line(r)] = RestOf(wr.m)
      BY <1>1 DEF Layout, Begun
    <3>4. p \in H + 1 .. H + wr.m.incr - 1 => p # H  BY <1>3
    <3> QED  BY <1>3, <2>1, <3>1, <3>2, <3>3, <3>4 DEF LineOf
  <2>2. CASE k # n
    <3>1. k \in consumed + 1 .. Published  BY <1>3, <2>2 DEF Records
    <3> QED  BY <3>1 DEF Layout, Intact
  <2> QED  BY <2>1, <2>2
<1>11. Marked(place)'
  <2>1. UNCHANGED <<metabuf, metatail, log, consumed>>  BY <1>1
  <2> QED  BY <2>1 DEF Layout, Marked, EndOf
<1>12. Begun(place)'  BY <1>5 DEF Begun
<1> QED  BY <1>6, <1>7, <1>8, <1>9, <1>10, <1>11, <1>12 DEF Layout

\* The reader, which finds the tail before the head, has a message to take, at
\* the tail or, if there is a marker there, at the start of the next lap.
LEMMA RecvFinds ==
    ASSUME Records, NEW place, Layout(place), rd.pc = "idle", metatail < metahead
    PROVE  /\ consumed < Published /\ consumed + 1 \in 1 .. Len(log)
           /\ place[consumed + 1] \in Nat
           /\ metabuf[Line(metatail)].mark
                 => place[consumed + 1] = metatail + (N - Line(metatail))
           /\ ~ metabuf[Line(metatail)].mark => place[consumed + 1] = metatail
<1> DEFINE c == consumed
<1>1. Placed(place) /\ Cursors(place)  BY DEF Layout
<1>2. /\ c \in Nat /\ c <= Published /\ Published \in Nat
      /\ Published <= Len(log) /\ Len(log) \in Nat /\ metatail \in Nat /\ metahead \in Nat
  BY <1>1, PublishedBound DEF Records, Cursors
<1>3. metatail = EndOf(place, c) /\ metahead = EndOf(place, Published)
  BY <1>1 DEF Cursors
<1>4. c < Published  BY <1>2, <1>3
<1>5. c + 1 \in 1 .. Len(log) /\ c + 1 \in c + 1 .. Published /\ (c + 1) - 1 = c
  BY <1>2, <1>4
<1>6. place[c + 1] = Following(metatail, log[c + 1].incr) /\ place[c + 1] \in Nat
  BY <1>1, <1>3, <1>5 DEF Placed
<1>7. N \in Nat \ {0} /\ Line(metatail) \in 0 .. N - 1  BY <1>2, MetaAssumption, LineInRing
<1>8. CASE place[c + 1] = metatail
  <2>1. log[c + 1].incr \in Nat /\ 1 <= log[c + 1].incr  BY <1>5, LogLength
  <2>2. metatail \in place[c + 1] .. place[c + 1] + log[c + 1].incr - 1
    BY <1>2, <1>8, <2>1
  <2>3. metabuf[Line(metatail)] = FirstOf(log[c + 1])
    BY <1>5, <1>8, <2>2 DEF Layout, Intact, LineOf
  <2>4. ~ metabuf[Line(metatail)].mark  BY <2>3 DEF FirstOf
  <2> QED  BY <1>4, <1>5, <1>6, <1>8, <2>4
<1>9. CASE place[c + 1] # metatail
  <2>1. place[c + 1] = metatail + (N - Line(metatail))  BY <1>6, <1>9 DEF Following
  <2>2. metatail < place[c + 1]  BY <1>2, <1>7, <2>1
  <2>3. c + 1 \in c + 1 .. Len(log)  BY <1>5
  <2>4. metabuf[Line(metatail)] = Marker
    BY <1>2, <1>3, <1>5, <2>2, <2>3 DEF Layout, Marked
  <2>5. metabuf[Line(metatail)].mark  BY <2>4 DEF Marker
  <2> QED  BY <1>4, <1>5, <1>6, <2>1, <2>5
<1> QED  BY <1>8, <1>9

\* A tail that moves on leaves the rest of the layout as it is.
LEMMA TailMoves ==
    ASSUME Records, Window, NEW place, Layout(place), NEW t \in Nat, NEW d \in Nat,
           metatail' = t, metatail <= t, consumed' = d, consumed <= d,
           UNCHANGED <<metabuf, metahead, wr, log>>
    PROVE  /\ Window' /\ Placed(place)' /\ Intact(place)' /\ Marked(place)'
           /\ Begun(place)' /\ Published' = Published
<1>1. Published' = Published  BY DEF Published
<1>2. Window'
  <2>1. /\ metatail \in Nat /\ metahead \in Nat /\ wr.tail \in Nat /\ wr.head \in Nat
        /\ N \in Nat
    BY MetaAssumption DEF Records
  <2>2. ASSUME wr.pc \in {"body", "publish"} PROVE wr.head + wr.m.incr < t + N
    <3>1. wr.m.incr \in Nat  BY <2>2, WriterAhead DEF Layout
    <3> QED  BY <2>1, <2>2, <3>1 DEF Window
  <2> QED  BY <2>1, <2>2 DEF Window
<1>3. Placed(place)'  BY DEF Layout, Placed, Following, EndOf
<1>4. Len(log) \in Nat /\ consumed \in Nat /\ Published \in Nat
  BY PublishedBound DEF Records, Layout
<1>5. Intact(place)'
  <2> SUFFICES ASSUME NEW k \in d + 1 .. Published,
                      NEW p \in place[k] .. place[k] + log[k].incr - 1
               PROVE  metabuf[Line(p)] = LineOf(place, k, p)
    BY <1>1 DEF Intact, LineOf
  <2>1. k \in consumed + 1 .. Published  BY <1>4
  <2> QED  BY <2>1 DEF Layout, Intact
<1>6. Marked(place)'
  <2> SUFFICES ASSUME NEW k \in d + 1 .. Len(log),
                      EndOf(place, k - 1) < place[k], t <= EndOf(place, k - 1)
               PROVE  metabuf[Line(EndOf(place, k - 1))] = Marker
    BY DEF Marked, EndOf
  <2>1. k \in consumed + 1 .. Len(log) /\ k - 1 \in 0 .. Len(log)  BY <1>4
  <2>2. EndOf(place, k - 1) \in Nat  BY <2>1, EndBound DEF Layout
  <2>3. metatail <= EndOf(place, k - 1)  BY <2>2 DEF Records
  <2> QED  BY <2>1, <2>3 DEF Layout, Marked
<1>7. Begun(place)'  BY DEF Layout, Begun
<1> QED  BY <1>1, <1>2, <1>3, <1>5, <1>6, <1>7

LEMMA RecvStep ==
    ASSUME Records, Window, NEW place, Layout(place), Recv
    PROVE  Records' /\ Window' /\ Layout(place)'
<1> DEFINE c == consumed
           skip == metabuf[Line(metatail)].mark
<1>1. /\ rd.pc = "idle" /\ metatail < metahead
      /\ metatail' = IF skip THEN metatail + (N - Line(metatail)) ELSE metatail
      /\ rd' = [pc |-> "holding", ptr |-> IF skip THEN 0 ELSE Line(metatail)]
      /\ UNCHANGED <<metabuf, metahead, wr, log, consumed>>
  BY DEF Recv, Line
<1>2. /\ c < Published /\ c + 1 \in 1 .. Len(log) /\ place[c + 1] \in Nat
      /\ skip => place[c + 1] = metatail + (N - Line(metatail))
      /\ ~ skip => place[c + 1] = metatail
  BY <1>1, RecvFinds
<1>3. metatail' = place[c + 1]  BY <1>1, <1>2
<1>4. metatail \in Nat /\ c \in Nat /\ N \in Nat \ {0}  BY MetaAssumption DEF Records
<1>5. Line(metatail) \in 0 .. N - 1 /\ Line(metatail + (N - Line(metatail))) = 0
  BY <1>4, LineInRing, LineWrap
<1>6. metatail <= metatail'  BY <1>1, <1>4, <1>5
<1>7. rd'.ptr = Line(metatail') /\ rd'.pc = "holding"
  BY <1>1, <1>5
<1>8. Records'
  <2>1. rd' \in [pc : {"idle", "holding"}, ptr : Lines]
    BY <1>1, <1>4, <1>5, LineInRing DEF Lines
  <2> QED  BY <1>1, <1>2, <1>3, <2>1 DEF Records
<1>9. /\ Window' /\ Placed(place)' /\ Intact(place)' /\ Marked(place)' /\ Begun(place)'
      /\ Published' = Published
  BY <1>1, <1>2, <1>3, <1>4, <1>6, TailMoves
<1>10. Cursors(place)'
  BY <1>1, <1>2, <1>3, <1>7, <1>9 DEF Layout, Cursors, EndOf
<1> QED  BY <1>8, <1>9, <1>10 DEF Layout

LEMMA CompleteStep ==
    ASSUME Records, Window, NEW place, Layout(place), Complete
    PROVE  Records' /\ Window' /\ Layout(place)'
<1> DEFINE c == consumed
<1>1. /\ rd.pc = "holding"
      /\ metatail' = metatail + metabuf[Line(metatail)].msg.incr
      /\ rd' = ReaderIdle /\ consumed' = c + 1
      /\ UNCHANGED <<metabuf, metahead, wr, log>>
  BY DEF Complete, Line
<1>2. Placed(place) /\ Cursors(place)  BY DEF Layout
<1>3. c < Published /\ metatail = place[c + 1] /\ metatail \in Nat /\ c \in Nat
  BY <1>1, <1>2 DEF Cursors, Records
<1>4. Published \in Nat /\ Published <= Len(log) /\ Len(log) \in Nat
  BY <1>2, PublishedBound
<1>5. c + 1 \in 1 .. Len(log) /\ c + 1 \in c + 1 .. Published /\ c + 1 # 0  BY <1>3, <1>4
<1>6. log[c + 1].incr \in Nat /\ 1 <= log[c + 1].incr  BY <1>5, LogLength
<1>7. metatail \in place[c + 1] .. place[c + 1] + log[c + 1].incr - 1  BY <1>3, <1>6
<1>8. metabuf[Line(metatail)] = FirstOf(log[c + 1])
  BY <1>3, <1>5, <1>7 DEF Layout, Intact, LineOf
<1>9. metatail' = EndOf(place, c + 1)  BY <1>1, <1>3, <1>5, <1>8 DEF FirstOf, EndOf
<1>10. metatail' \in Nat /\ metatail <= metatail'
  BY <1>3, <1>5, <1>6, <1>9 DEF EndOf
<1>11. Records'
  <2>1. rd' \in [pc : {"idle", "holding"}, ptr : Lines]
    BY <1>1, MetaAssumption DEF Lines, ReaderIdle
  <2> QED  BY <1>1, <1>3, <1>10, <2>1 DEF Records
<1>12. /\ Window' /\ Placed(place)' /\ Intact(place)' /\ Marked(place)' /\ Begun(place)'
       /\ Published' = Published
  BY <1>1, <1>3, <1>10, TailMoves
<1>13. Cursors(place)'
  <2>1. rd'.pc = "idle" /\ c + 1 <= Published  BY <1>1, <1>3, <1>4 DEF ReaderIdle
  <2> QED  BY <1>1, <1>2, <1>9, <1>12, <2>1 DEF Cursors, EndOf
<1> QED  BY <1>11, <1>12, <1>13 DEF Layout

LEMMA ArriveStep ==
    ASSUME Records, Window, NEW place, Layout(place), NEW i \in Increments, Arrive(i)
    PROVE  Records' /\ Window' /\ \E q \in [1 .. Len(log') -> Nat] : Layout(q)'
<1>a. Len(log) \in Nat /\ metahead \in Nat  BY LenProperties DEF Records
<1>b. PICK n \in Nat : n = Len(log)  BY <1>a
<1>c. PICK e \in Nat : e = metahead  BY <1>a
<1> DEFINE m == [id |-> n + 1, incr |-> i]
           s == Following(e, i)
           wrap == Line(e) + i >= N
<1>1. /\ wr.pc = "idle" /\ n < MaxMsgs /\ log' = Append(log, m)
      /\ metabuf' = IF wrap THEN [metabuf EXCEPT ![Line(e)] = Marker] ELSE metabuf
      /\ wr' = [pc |-> "room", m |-> m, tail |-> metatail, head |-> s]
      /\ UNCHANGED <<metahead, metatail, rd, consumed>>
  BY <1>b, <1>c DEF Arrive, Line, Following
<1>2. Placed(place) /\ Cursors(place)  BY DEF Layout
<1>3. n \in Nat /\ n = Len(log) /\ Published = n /\ e = EndOf(place, n)
  BY <1>1, <1>b, <1>c, <1>2, PublishedBound DEF Cursors
<1>4. m \in Messages /\ m.incr = i /\ i \in Nat /\ 1 <= i /\ i < N
  <2>1. m \in Messages  BY <1>1, <1>3, MetaAssumption DEF Messages
  <2> QED  BY <2>1, MessageLength
<1>5. /\ e \in Nat /\ metatail \in Nat /\ N \in Nat /\ metabuf \in Buffers
      /\ e < metatail + N /\ metatail <= e /\ Line(e) \in Lines
  BY <1>2, <1>c, MetaAssumption, TailBound, LineInRing DEF Records, Window
<1>6. s \in Nat /\ e <= s /\ Line(s) + i < N  BY <1>4, <1>5, FollowingFits
<1>7. /\ log' \in Seq(Messages) /\ Len(log') = n + 1 /\ log'[n + 1] = m
      /\ \A k \in 1 .. n : log'[k] = log[k]
  BY <1>1, <1>3, <1>4, AppendProperties DEF Records
<1> HIDE DEF m, s, wrap
<1>8. /\ wr'.pc = "room" /\ wr'.m = m /\ wr'.head = s /\ wr'.tail = metatail
      /\ Published' = n
  BY <1>1, <1>3, <1>7 DEF Published
<1>9. Records'
  <2>1. metabuf' \in Buffers
    <3>1. Marker \in [msg : Messages \cup {NoMessage}, first : BOOLEAN, mark : BOOLEAN]
      BY DEF Marker
    <3> QED  BY <1>1, <1>5, <3>1 DEF Buffers
  <2>2. Len(log') <= MaxMsgs  BY <1>1, <1>3, <1>7, MetaAssumption
  <2>3. wr' \in [pc : {"idle", "room", "body", "publish"}, m : Messages \cup {NoMessage},
                 head : Nat, tail : Nat]
    BY <1>1, <1>4, <1>5, <1>6
  <2> QED  BY <1>1, <1>7, <2>1, <2>2, <2>3 DEF Records
<1>10. Window'  BY <1>1, <1>5, <1>8 DEF Window
<1>11. \A k \in 1 .. n : place[k] \in Nat /\ log[k].incr \in Nat
  BY <1>2, <1>3, LogLength DEF Placed
<1>12. PICK q : /\ q \in [1 .. n + 1 -> Nat] /\ q[n + 1] = s
                /\ \A k \in 1 .. n : q[k] = place[k]
  <2> DEFINE r == [k \in 1 .. n + 1 |-> IF k = n + 1 THEN s ELSE place[k]]
  <2>1. r \in [1 .. n + 1 -> Nat]  BY <1>3, <1>6, <1>11
  <2>2. r[n + 1] = s /\ \A k \in 1 .. n : r[k] = place[k]  BY <1>3
  <2> QED  BY <2>1, <2>2
\* Ends of the old messages are where they were.
<1>13. \A k \in 0 .. n : EndOf(q, k)' = EndOf(place, k)
  BY <1>3, <1>7, <1>12 DEF EndOf
<1>14. Placed(q)'
  <2>1. ASSUME NEW k \in 1 .. n + 1
        PROVE  /\ q[k] = Following(EndOf(q, k - 1)', log'[k].incr)
               /\ Line(q[k]) + log'[k].incr < N
    <3>1. CASE k = n + 1
      <4>1. EndOf(q, k - 1)' = e  BY <1>3, <1>13, <3>1
      <4> QED  BY <1>4, <1>6, <1>7, <1>12, <3>1, <4>1 DEF s
    <3>2. CASE k # n + 1
      <4>1. k \in 1 .. n /\ k - 1 \in 0 .. n  BY <1>3, <3>2
      <4>2. EndOf(q, k - 1)' = EndOf(place, k - 1)  BY <1>13, <4>1
      <4>3. /\ place[k] = Following(EndOf(place, k - 1), log[k].incr)
            /\ Line(place[k]) + log[k].incr < N
        BY <1>2, <1>3, <4>1 DEF Placed
      <4> QED  BY <1>7, <1>12, <4>1, <4>2, <4>3
    <3> QED  BY <3>1, <3>2
  <2>2. ASSUME NEW j \in 1 .. n + 1, NEW k \in 1 .. n + 1, j < k
        PROVE  q[j] + log'[j].incr <= q[k]
    <3>1. j \in 1 .. n  BY <1>3, <2>2
    <3>2. CASE k = n + 1
      <4>1. n \in 0 .. Len(log) /\ j <= n  BY <1>3, <3>1
      <4>2. place[j] + log[j].incr <= e  BY <1>2, <1>3, <3>1, <4>1, EndBound
      <4>3. place[j] \in Nat /\ log[j].incr \in Nat  BY <1>11, <3>1
      <4>4. place[j] + log[j].incr <= s  BY <1>5, <1>6, <4>2, <4>3
      <4> QED  BY <1>7, <1>12, <3>1, <3>2, <4>4
    <3>3. CASE k # n + 1
      <4>1. k \in 1 .. n  BY <1>3, <3>3
      <4>2. place[j] + log[j].incr <= place[k]  BY <1>2, <1>3, <2>2, <3>1, <4>1 DEF Placed
      <4> QED  BY <1>7, <1>12, <3>1, <4>1, <4>2
    <3> QED  BY <3>2, <3>3
  <2>3. \A k \in 1 .. n + 1 : Following(EndOf(q, k - 1)', log'[k].incr)
                                 = Following(EndOf(q, k - 1), log[k].incr)'
    BY DEF Following
  <2> QED  BY <1>7, <1>12, <2>1, <2>2, <2>3 DEF Placed
<1>15. Cursors(q)'
  <2>1. n \in 0 .. n /\ consumed \in 0 .. n /\ consumed <= n
    BY <1>2, <1>3 DEF Cursors, Records
  <2>2. metahead' = EndOf(q, n)'  BY <1>1, <1>c, <1>3, <1>13, <2>1
  <2>3. rd.pc = "idle" => metatail = EndOf(q, consumed)'
    <3>1. PICK c \in 0 .. n : c = consumed /\ c = consumed'  BY <1>1, <2>1
    <3>2. EndOf(q, c)' = EndOf(place, c)  BY <1>13
    <3>3. EndOf(q, consumed)' = EndOf(q, c)'  BY <3>1 DEF EndOf
    <3> QED  BY <1>2, <3>1, <3>2, <3>3 DEF Cursors
  <2>4. rd.pc = "holding" => /\ consumed < n /\ metatail = q[consumed + 1]
                             /\ rd.ptr = Line(metatail)
    <3> SUFFICES ASSUME rd.pc = "holding"
                 PROVE  /\ consumed < n /\ metatail = q[consumed + 1]
                        /\ rd.ptr = Line(metatail)
      OBVIOUS
    <3>1. /\ consumed < n /\ metatail = place[consumed + 1] /\ rd.ptr = Line(metatail)
      BY <1>2, <1>3 DEF Cursors
    <3>2. consumed + 1 \in 1 .. n  BY <1>3, <2>1, <3>1
    <3> QED  BY <1>12, <3>1, <3>2
  <2>5. UNCHANGED <<metatail, rd, consumed>>  BY <1>1
  <2>6. Len(log') # 0 /\ wr'.m = log'[Len(log')] /\ wr'.head = q[Len(log')]
    BY <1>3, <1>7, <1>8, <1>12
  <2>8. Published' = n  BY <1>8
  <2> QED
    <3>1. (consumed <= Published)'  BY <2>1, <2>5, <2>8
    <3>2. (metahead = EndOf(q, Published))'  BY <2>2, <2>8 DEF EndOf
    <3>3. (rd.pc = "idle" => metatail = EndOf(q, consumed))'
      BY <2>3, <2>5 DEF EndOf
    <3>4. (rd.pc = "holding" => /\ consumed < Published /\ metatail = q[consumed + 1]
                                /\ rd.ptr = Line(metatail))'
      BY <2>4, <2>5, <2>8
    <3> QED  BY <2>6, <3>1, <3>2, <3>3, <3>4 DEF Cursors
\* Only the line of the head may have changed.
<1>16. \A p \in Nat : metatail <= p /\ p < e => metabuf'[Line(p)] = metabuf[Line(p)]
  <2> SUFFICES ASSUME NEW p \in Nat, metatail <= p, p < e
               PROVE  metabuf'[Line(p)] = metabuf[Line(p)]
    OBVIOUS
  <2>1. p < metatail + N /\ p # e  BY <1>5
  <2>2. Line(p) # Line(e) /\ Line(p) \in Lines  BY <1>5, <2>1, SameLine, LineInRing
  <2> QED  BY <1>1, <1>5, <2>2 DEF Buffers
<1>17. Intact(q)'
  <2> SUFFICES ASSUME NEW k \in consumed + 1 .. n,
                      NEW p \in q[k] .. q[k] + log'[k].incr - 1
               PROVE  metabuf'[Line(p)] = LineOf(q, k, p)'
    BY <1>1, <1>8 DEF Intact
  <2>1. k \in consumed + 1 .. Published  BY <1>3
  <2>2. /\ k \in 1 .. n /\ place[k] \in Nat /\ log[k].incr \in Nat
        /\ metatail <= place[k] /\ place[k] + log[k].incr <= e
    BY <1>2, <1>3, <1>c, <2>1, LiveBound
  <2>3. q[k] = place[k] /\ log'[k] = log[k]  BY <1>7, <1>12, <2>2
  <2>4. p \in place[k] .. place[k] + log[k].incr - 1  BY <2>3
  <2>5. p \in Nat /\ metatail <= p /\ p < e  BY <1>5, <2>2, <2>4
  <2>6. metabuf'[Line(p)] = metabuf[Line(p)]  BY <1>16, <2>5
  <2>7. metabuf[Line(p)] = LineOf(place, k, p)  BY <2>1, <2>4 DEF Layout, Intact
  <2> QED  BY <2>3, <2>6, <2>7 DEF LineOf
<1>18. Marked(q)'
  <2> SUFFICES ASSUME NEW k \in consumed + 1 .. n + 1,
                      EndOf(q, k - 1)' < q[k], metatail <= EndOf(q, k - 1)'
               PROVE  metabuf'[Line(EndOf(q, k - 1)')] = Marker
    BY <1>1, <1>7 DEF Marked, EndOf
  <2>1. k - 1 \in 0 .. n /\ k \in 1 .. n + 1  BY <1>3 DEF Records
  <2>2. EndOf(q, k - 1)' = EndOf(place, k - 1)  BY <1>13, <2>1
  <2>3. CASE k = n + 1
    <3>1. EndOf(q, k - 1)' = e  BY <1>3, <2>2, <2>3
    <3>2. wrap  BY <1>5, <1>12, <2>3, <3>1 DEF s, Following, wrap
    <3>3. metabuf'[Line(e)] = Marker  BY <1>1, <1>5, <3>2 DEF Buffers
    <3> QED  BY <3>1, <3>3
  <2>4. CASE k # n + 1
    <3>1. k \in 1 .. n /\ k \in consumed + 1 .. Len(log) /\ q[k] = place[k] /\ k <= n
      BY <1>3, <1>12, <2>1, <2>4
    <3>2. n \in 0 .. Len(log) /\ k - 1 \in 0 .. Len(log)  BY <1>3, <2>1
    <3>3. EndOf(place, k - 1) \in Nat  BY <1>2, <3>2, EndBound
    <3>4. place[k] + log[k].incr <= e  BY <1>2, <1>3, <3>1, <3>2, EndBound
    <3>5. place[k] \in Nat /\ log[k].incr \in Nat  BY <1>11, <3>1
    <3>6. EndOf(place, k - 1) < e  BY <1>5, <2>2, <3>1, <3>3, <3>4, <3>5
    <3>7. metabuf'[Line(EndOf(place, k - 1))] = metabuf[Line(EndOf(place, k - 1))]
      BY <1>16, <2>2, <3>3, <3>6
    <3>8. metabuf[Line(EndOf(place, k - 1))] = Marker
      BY <2>2, <3>1 DEF Layout, Marked
    <3> QED  BY <2>2, <3>7, <3>8
  <2> QED  BY <2>3, <2>4
<1>19. Begun(q)'  BY <1>8 DEF Begun
<1>20. Layout(q)'  BY <1>14, <1>15, <1>17, <1>18, <1>19 DEF Layout
<1> QED  BY <1>7, <1>9, <1>10, <1>12, <1>20

-----------------------------------------------------------------------------
(* The theorems.                                                           *)

LEMMA StepInv == IInv /\ [Next]_vars => IInv'
<1> SUFFICES ASSUME IInv, [Next]_vars PROVE IInv'  OBVIOUS
<1>1. PICK place \in [1 .. Len(log) -> Nat] : Layout(place)  BY DEF IInv
<1>2. Records /\ Window  BY DEF IInv
<1>3. ASSUME NEW i \in Increments, Arrive(i) PROVE IInv'
  BY <1>1, <1>2, <1>3, ArriveStep DEF IInv
<1>4. ASSUME Records' /\ Window' /\ Layout(place)' PROVE IInv'
  <2>1. place \in [1 .. Len(log') -> Nat]  BY <1>4 DEF Layout, Placed
  <2> QED  BY <1>4, <2>1 DEF IInv
<1>5. CASE AwaitRoom  BY <1>1, <1>2, <1>4, <1>5, AwaitRoomStep
<1>6. CASE WriteHeader  BY <1>1, <1>2, <1>4, <1>6, WriteHeaderStep
<1>7. CASE WriteBody  BY <1>1, <1>2, <1>4, <1>7, WriteBodyStep
<1>8. CASE Publish  BY <1>1, <1>2, <1>4, <1>8, PublishStep
<1>9. CASE Recv  BY <1>1, <1>2, <1>4, <1>9, RecvStep
<1>10. CASE Complete  BY <1>1, <1>2, <1>4, <1>10, CompleteStep
<1>11. CASE UNCHANGED vars
  <2> USE <1>11 DEF vars
  <2>1. Published' = Published  BY DEF Published
  <2>2. Records' /\ Window'  BY <1>2 DEF Records, Window
  <2>3. Placed(place)'  BY <1>1 DEF Layout, Placed, Following, EndOf
  <2>4. Cursors(place)'  BY <1>1, <2>1 DEF Layout, Cursors, EndOf
  <2>5. Intact(place)' /\ Marked(place)'
    BY <1>1, <2>1 DEF Layout, Intact, Marked, LineOf, EndOf
  <2>6. Begun(place)'  BY <1>1 DEF Layout, Begun
  <2>7. Layout(place)'  BY <2>3, <2>4, <2>5, <2>6 DEF Layout
  <2> QED  BY <1>4, <2>2, <2>7
<1> QED
  BY <1>3, <1>5, <1>6, <1>7, <1>8, <1>9, <1>10, <1>11
  DEF Next, WriterStep, ReaderStep, Drained

\* The inductive invariant of the metadata ring: every message begins where
\* network_recv has put it and stays there, whole, until meta_complete; tail and
\* head are ends of messages less than a lap apart, with a marker wherever
\* meta_recv has to skip the end of the buffer.
THEOREM Invariance == Spec => []IInv
<1>1. Init => IInv  BY InitInv
<1>2. IInv /\ [Next]_vars => IInv'  BY StepInv
<1> QED  BY <1>1, <1>2, PTL DEF Spec

\* The reader's pointer never leaves the buffer, the size that meta_complete
\* reads again is that of a message, and no cursor goes below zero.
THEOREM TypeCorrect == Spec => []TypeOK
<1>1. IInv => TypeOK
  <2> SUFFICES ASSUME IInv PROVE TypeOK  OBVIOUS
  <2>1. PICK place \in [1 .. Len(log) -> Nat] : Layout(place)  BY DEF IInv
  <2>2. Records  BY DEF IInv
  <2>3. consumed \in 0 .. MaxMsgs
    <3>1. /\ consumed <= Published /\ Published \in Nat /\ Published <= Len(log)
          /\ Len(log) \in Nat
      BY <2>1, <2>2, PublishedBound DEF Layout, Cursors
    <3> QED  BY <2>2, <3>1, MetaAssumption DEF Records
  <2> QED  BY <2>2, <2>3 DEF TypeOK, Records, Buffers
<1> QED  BY <1>1, Invariance, PTL

\* What the reader finds at its pointer is the oldest message not completed.
LEMMA PointerHolds ==
    ASSUME IInv, rd.pc = "holding"
    PROVE  /\ AtPointer = log[consumed + 1] /\ log[consumed + 1] \in Messages
           /\ consumed + 1 \in 1 .. Published
<1>1. PICK place \in [1 .. Len(log) -> Nat] : Layout(place)  BY DEF IInv
<1>2. Records /\ Placed(place) /\ Cursors(place)  BY <1>1 DEF IInv, Layout
<1> DEFINE c == consumed
           M == log[c + 1]
           P == place[c + 1]
<1>3. /\ c \in Nat /\ c < Published /\ Published \in Nat /\ Published <= Len(log)
      /\ Len(log) \in Nat /\ metatail = P /\ rd.ptr = Line(P) /\ N \in Nat
  BY <1>2, MetaAssumption, PublishedBound DEF Cursors, Records
<1>4. c + 1 \in 1 .. Len(log) /\ c + 1 \in c + 1 .. Published  BY <1>3
<1>5. M \in Messages /\ M.incr \in Nat /\ 1 <= M.incr  BY <1>2, <1>4, LogLength
<1>6. P \in Nat /\ Line(P) + M.incr < N  BY <1>2, <1>4 DEF Placed
<1>7. Line(P) \in 0 .. N - 1  BY <1>6, LineInRing
<1>8. \A p \in P .. P + M.incr - 1 : metabuf[Line(p)] = LineOf(place, c + 1, p)
  BY <1>1, <1>4 DEF Layout, Intact
<1>9. metabuf[rd.ptr] = FirstOf(M)
  <2>1. P \in P .. P + M.incr - 1  BY <1>5, <1>6
  <2> QED  BY <1>3, <1>8, <2>1 DEF LineOf
<1>10. ASSUME NEW l \in rd.ptr + 1 .. rd.ptr + M.incr - 1
       PROVE  l \in Lines /\ metabuf[l] = RestOf(M)
  <2> DEFINE i == l - Line(P)
             p == P + i
  <2>1. i \in Nat /\ 1 <= i /\ i < M.incr /\ l = Line(P) + i
    <3>1. PICK x \in Int, n \in Nat : x = Line(P) /\ n = M.incr /\ rd.ptr = x
      BY <1>3, <1>5, <1>7
    <3>2. l \in x + 1 .. x + n - 1  BY <3>1
    <3>3. l - x \in Nat /\ 1 <= l - x /\ l - x < n /\ l = x + (l - x)  BY <3>2
    <3> QED  BY <3>1, <3>3
  <2> HIDE DEF i
  <2>a. Line(P) + i < N  BY <1>3, <1>5, <1>6, <1>7, <2>1
  <2>2. Line(p) = l  BY <1>6, <2>1, <2>a, LineAdd
  <2>3. p \in P .. P + M.incr - 1 /\ p # P /\ p \in Nat  BY <1>5, <1>6, <2>1
  <2> HIDE DEF p
  <2>4. metabuf[Line(p)] = RestOf(M)  BY <1>8, <2>3 DEF LineOf
  <2> QED  BY <2>2, <2>3, <2>4, LineInRing
<1>11. metabuf[rd.ptr].msg = M  BY <1>9 DEF FirstOf
<1>12. AtPointer = M  BY <1>9, <1>10, <1>11 DEF AtPointer
<1>13. c + 1 \in 1 .. Published  BY <1>3
<1> QED  BY <1>5, <1>12, <1>13

-----------------------------------------------------------------------------
(* The refinement.                                                         *)

\* Parts of a sequence, as a queue between two cursors.
LEMMA PartOf ==
    ASSUME NEW S, NEW s \in Seq(S), NEW a \in Nat, NEW b \in Nat, b <= Len(s)
    PROVE  /\ SubSeq(s, a + 1, b) \in Seq(S)
           /\ Len(SubSeq(s, a + 1, b)) = IF a + 1 <= b THEN b - a ELSE 0
           /\ \A i \in 1 .. b - a : SubSeq(s, a + 1, b)[i] = s[a + i]
<1>1. Len(s) \in Nat /\ \A i \in 1 .. Len(s) : s[i] \in S  BY LenProperties
<1>2. \A i \in a + 1 .. b : s[i] \in S  BY <1>1
<1>3. a + 1 \in Int /\ b \in Int /\ b - (a + 1) + 1 = b - a  OBVIOUS
<1>4. /\ SubSeq(s, a + 1, b) \in Seq(S)
      /\ Len(SubSeq(s, a + 1, b)) = IF a + 1 <= b THEN b - (a + 1) + 1 ELSE 0
      /\ \A i \in 1 .. b - (a + 1) + 1 : SubSeq(s, a + 1, b)[i] = s[(a + 1) + i - 1]
  BY <1>2, <1>3, SubSeqProperties
<1>5. ASSUME NEW i \in 1 .. b - a PROVE (a + 1) + i - 1 = a + i  OBVIOUS
<1> QED  BY <1>3, <1>4, <1>5

LEMMA PartOfLonger ==
    ASSUME NEW S, NEW s \in Seq(S), NEW e \in S, NEW a \in Nat, NEW b \in Nat, b <= Len(s)
    PROVE  SubSeq(Append(s, e), a + 1, b) = SubSeq(s, a + 1, b)
<1> DEFINE t == Append(s, e)
           x == SubSeq(s, a + 1, b)
           y == SubSeq(t, a + 1, b)
<1>1. /\ t \in Seq(S) /\ Len(t) = Len(s) + 1 /\ Len(s) \in Nat
      /\ \A i \in 1 .. Len(s) : t[i] = s[i]
  BY AppendProperties, LenProperties
<1> HIDE DEF t
<1>2. b <= Len(t)  BY <1>1
<1>3. /\ x \in Seq(S) /\ Len(x) = (IF a + 1 <= b THEN b - a ELSE 0)
      /\ \A i \in 1 .. b - a : x[i] = s[a + i]
  BY PartOf
<1>4. /\ y \in Seq(S) /\ Len(y) = (IF a + 1 <= b THEN b - a ELSE 0)
      /\ \A i \in 1 .. b - a : y[i] = t[a + i]
  BY <1>1, <1>2, PartOf
<1>5. ASSUME NEW i \in 1 .. Len(x) PROVE x[i] = y[i]
  <2>1. i \in 1 .. b - a  BY <1>3
  <2>2. a + i \in 1 .. Len(s)  BY <1>1, <2>1
  <2> QED  BY <1>1, <1>3, <1>4, <2>1, <2>2
<1> HIDE DEF x, y
<1>6. x = y  BY <1>3, <1>4, <1>5, SeqEqual
<1> QED  BY <1>6 DEF x, y, t

LEMMA PartGrows ==
    ASSUME NEW S, NEW s \in Seq(S), NEW a \in Nat, NEW b \in Nat, a <= b, b + 1 <= Len(s)
    PROVE  SubSeq(s, a + 1, b + 1) = Append(SubSeq(s, a + 1, b), s[b + 1])
<1> DEFINE x == SubSeq(s, a + 1, b)
           y == SubSeq(s, a + 1, b + 1)
           z == Append(x, s[b + 1])
<1>0. Len(s) \in Nat /\ b <= Len(s) /\ b + 1 \in Nat /\ s[b + 1] \in S  BY LenProperties
<1>1. x \in Seq(S) /\ Len(x) = b - a /\ \A i \in 1 .. b - a : x[i] = s[a + i]
  <2>1. /\ x \in Seq(S) /\ Len(x) = (IF a + 1 <= b THEN b - a ELSE 0)
        /\ \A i \in 1 .. b - a : x[i] = s[a + i]
    BY <1>0, PartOf
  <2>2. ~(a + 1 <= b) => b - a = 0  OBVIOUS
  <2> QED  BY <2>1, <2>2
<1>2. /\ y \in Seq(S) /\ Len(y) = (b + 1) - a
      /\ \A i \in 1 .. (b + 1) - a : y[i] = s[a + i]
  <2>1. /\ y \in Seq(S) /\ Len(y) = (IF a + 1 <= b + 1 THEN (b + 1) - a ELSE 0)
        /\ \A i \in 1 .. (b + 1) - a : y[i] = s[a + i]
    BY <1>0, PartOf
  <2> QED  BY <2>1
<1> HIDE DEF x, y
<1>3. /\ z \in Seq(S) /\ Len(z) = (b - a) + 1
      /\ \A i \in 1 .. b - a : z[i] = x[i]
      /\ z[(b - a) + 1] = s[b + 1]
  <2>1. /\ z \in Seq(S) /\ Len(z) = Len(x) + 1
        /\ \A i \in 1 .. Len(x) : z[i] = x[i]
        /\ z[Len(x) + 1] = s[b + 1]
    BY <1>0, <1>1, AppendProperties
  <2> HIDE DEF z
  <2> QED  BY <1>1, <2>1
<1> HIDE DEF z
<1>4. ASSUME NEW i \in 1 .. Len(y) PROVE y[i] = z[i]
  <2>1. i \in 1 .. (b + 1) - a /\ (i \in 1 .. b - a \/ i = (b - a) + 1)  BY <1>2
  <2>2. CASE i \in 1 .. b - a  BY <1>1, <1>2, <1>3, <2>1, <2>2
  <2>3. CASE i = (b - a) + 1
    <3>1. a + i = b + 1  BY <2>3
    <3> QED  BY <1>2, <1>3, <2>1, <2>3, <3>1
  <2> QED  BY <2>1, <2>2, <2>3
<1>5. Len(y) = Len(z)  BY <1>2, <1>3
<1>6. y = z  BY <1>2, <1>3, <1>4, <1>5, SeqEqual
<1> QED  BY <1>6 DEF x, y, z

LEMMA PartShrinks ==
    ASSUME NEW S, NEW s \in Seq(S), NEW a \in Nat, NEW b \in Nat, a < b, b <= Len(s)
    PROVE  /\ SubSeq(s, a + 1, b) # << >>
           /\ Head(SubSeq(s, a + 1, b)) = s[a + 1]
           /\ Tail(SubSeq(s, a + 1, b)) = SubSeq(s, (a + 1) + 1, b)
<1> DEFINE x == SubSeq(s, a + 1, b)
           y == SubSeq(s, (a + 1) + 1, b)
           z == Tail(x)
<1>1. x \in Seq(S) /\ Len(x) = b - a /\ \A i \in 1 .. b - a : x[i] = s[a + i]
  <2>1. /\ x \in Seq(S) /\ Len(x) = (IF a + 1 <= b THEN b - a ELSE 0)
        /\ \A i \in 1 .. b - a : x[i] = s[a + i]
    BY PartOf
  <2> QED  BY <2>1
<1>2. /\ y \in Seq(S) /\ Len(y) = b - (a + 1)
      /\ \A i \in 1 .. b - (a + 1) : y[i] = s[(a + 1) + i]
  <2>1. /\ y \in Seq(S) /\ Len(y) = (IF (a + 1) + 1 <= b THEN b - (a + 1) ELSE 0)
        /\ \A i \in 1 .. b - (a + 1) : y[i] = s[(a + 1) + i]
    BY PartOf
  <2>2. ~((a + 1) + 1 <= b) => b - (a + 1) = 0  OBVIOUS
  <2> QED  BY <2>1, <2>2
<1> HIDE DEF x, y
<1>3. x # << >> /\ Head(x) = x[1]
  <2>1. Len(x) # 0  BY <1>1
  <2> QED  BY <1>1, <2>1, EmptySeq
<1>4. z \in Seq(S) /\ Len(z) = Len(x) - 1 /\ \A i \in 1 .. Len(z) : z[i] = x[i + 1]
  BY <1>1, <1>3, HeadTailProperties
<1> HIDE DEF z
<1>5. ASSUME NEW i \in 1 .. Len(y) PROVE y[i] = z[i]
  <2>1. i \in 1 .. b - (a + 1) /\ i + 1 \in 1 .. b - a /\ i \in 1 .. Len(z)
    BY <1>1, <1>2, <1>4
  <2>2. (a + 1) + i = a + (i + 1)  BY <2>1
  <2> QED  BY <1>1, <1>2, <1>4, <2>1, <2>2
<1>6. Len(y) = Len(z)  BY <1>1, <1>2, <1>4
<1>7. y = z  BY <1>2, <1>4, <1>5, <1>6, SeqEqual
<1>8. Head(x) = s[a + 1]
  <2>1. 1 \in 1 .. b - a  OBVIOUS
  <2> QED  BY <1>1, <1>3, <2>1
<1> QED  BY <1>3, <1>7, <1>8 DEF x, y, z

\* The refinement mapping.
Queue   == SubSeq(log, consumed + 1, Published)
Current == IF rd.pc = "holding" THEN AtPointer ELSE NoMessage

LEMMA CurrentIs ==
    IInv => Current = IF rd.pc = "holding" THEN log[consumed + 1] ELSE NoMessage
  BY PointerHolds DEF Current

\* Facts about the cursors that the refinement needs.
LEMMA CursorTypes ==
    IInv => /\ log \in Seq(Messages) /\ consumed \in Nat /\ Published \in Nat
            /\ consumed <= Published /\ Published <= Len(log) /\ Len(log) \in Nat
            /\ rd.pc \in {"idle", "holding"}
            /\ wr.pc = "idle" => Published = Len(log)
            /\ wr.pc # "idle" => Published = Len(log) - 1
<1> SUFFICES ASSUME IInv
             PROVE  /\ log \in Seq(Messages) /\ consumed \in Nat /\ Published \in Nat
                    /\ consumed <= Published /\ Published <= Len(log) /\ Len(log) \in Nat
                    /\ rd.pc \in {"idle", "holding"}
                    /\ wr.pc = "idle" => Published = Len(log)
                    /\ wr.pc # "idle" => Published = Len(log) - 1
  OBVIOUS
<1>1. PICK place \in [1 .. Len(log) -> Nat] : Layout(place)  BY DEF IInv
<1>2. Records /\ Placed(place) /\ Cursors(place)  BY <1>1 DEF IInv, Layout
<1> QED  BY <1>2, PublishedBound DEF Records, Cursors

\* Every step of the ring is a step of the channel or changes nothing in it.
LEMMA RefinementStep ==
    ASSUME IInv, IInv', [Next]_vars
    PROVE  \/ UNCHANGED <<Queue, Current>>
           \/ \E m \in Messages : Queue' = Append(Queue, m) /\ UNCHANGED Current
           \/ /\ Current = NoMessage /\ Queue # << >>
              /\ Current' = Head(Queue) /\ UNCHANGED Queue
           \/ /\ Current # NoMessage
              /\ Queue' = Tail(Queue) /\ Current' = NoMessage
<1> DEFINE c == consumed
           P == Published
           Goal == \/ UNCHANGED <<Queue, Current>>
                   \/ \E m \in Messages : Queue' = Append(Queue, m) /\ UNCHANGED Current
                   \/ /\ Current = NoMessage /\ Queue # << >>
                      /\ Current' = Head(Queue) /\ UNCHANGED Queue
                   \/ /\ Current # NoMessage
                      /\ Queue' = Tail(Queue) /\ Current' = NoMessage
<1>1. /\ log \in Seq(Messages) /\ c \in Nat /\ P \in Nat /\ c <= P /\ P <= Len(log)
      /\ Len(log) \in Nat /\ rd.pc \in {"idle", "holding"}
      /\ wr.pc = "idle" => P = Len(log)
      /\ wr.pc # "idle" => P = Len(log) - 1
  BY CursorTypes
<1>2. Current = IF rd.pc = "holding" THEN log[c + 1] ELSE NoMessage  BY CurrentIs
<1>3. Current' = IF rd'.pc = "holding" THEN log'[consumed' + 1] ELSE NoMessage
  <2>1. (IInv => Current = IF rd.pc = "holding" THEN log[consumed + 1] ELSE NoMessage)'
    BY CurrentIs, PTL
  <2> QED  BY <2>1
<1>4. rd.pc = "holding" => c + 1 \in 1 .. P /\ log[c + 1] \in Messages  BY PointerHolds
<1>5. ASSUME NEW i \in Increments, Arrive(i) PROVE Goal
  <2> DEFINE m == [id |-> Len(log) + 1, incr |-> i]
  <2>1. /\ wr.pc = "idle" /\ wr'.pc = "room" /\ log' = Append(log, m) /\ m \in Messages
        /\ rd' = rd /\ consumed' = c
    <3>1. Len(log) < MaxMsgs  BY <1>5 DEF Arrive
    <3>2. m \in Messages  BY <1>1, <3>1, MetaAssumption DEF Messages
    <3> QED  BY <1>5, <3>2 DEF Arrive
  <2> HIDE DEF m
  <2>2. /\ Len(log') = Len(log) + 1
        /\ \A k \in 1 .. Len(log) : log'[k] = log[k]
    BY <1>1, <2>1, AppendProperties
  <2>3. Published' = P  BY <1>1, <2>1, <2>2 DEF Published
  <2>4. Queue' = Queue
    <3>1. SubSeq(Append(log, m), c + 1, P) = SubSeq(log, c + 1, P)
      BY <1>1, <2>1, PartOfLonger
    <3> QED  BY <2>1, <2>3, <3>1 DEF Queue
  <2>5. Current' = Current
    <3>1. rd.pc = "holding" => c + 1 \in 1 .. Len(log)  BY <1>1, <1>4
    <3> QED  BY <1>2, <1>3, <2>1, <2>2, <3>1
  <2> QED  BY <2>4, <2>5
<1>6. ASSUME UNCHANGED <<rd, log, consumed>>, Published' = P PROVE Goal
  <2>1. Queue' = Queue  BY <1>6 DEF Queue
  <2>2. Current' = Current  BY <1>2, <1>3, <1>6
  <2> QED  BY <2>1, <2>2
<1>7. CASE AwaitRoom \/ WriteHeader \/ WriteBody \/ UNCHANGED vars
  <2>1. UNCHANGED <<rd, log, consumed>>
    BY <1>7 DEF AwaitRoom, WriteHeader, WriteBody, vars
  <2>2. wr.pc = "idle" <=> wr'.pc = "idle"
    <3>1. wr = [wr EXCEPT !.pc = wr.pc]
          /\ wr \in [pc : {"idle", "room", "body", "publish"}, m : Messages \cup {NoMessage},
                     head : Nat, tail : Nat]
      BY DEF IInv, Records
    <3> QED  BY <1>7, <3>1 DEF AwaitRoom, WriteHeader, WriteBody, vars
  <2>3. Published' = P  BY <2>1, <2>2 DEF Published
  <2> QED  BY <1>6, <2>1, <2>3
<1>8. CASE Publish
  <2>1. /\ wr.pc = "publish" /\ wr'.pc = "idle"
        /\ UNCHANGED <<rd, log, consumed>>
    BY <1>8 DEF Publish, WriterIdle
  <2>2. Published' = Len(log) /\ P + 1 = Len(log)  BY <1>1, <2>1 DEF Published
  <2>3. log[P + 1] \in Messages  BY <1>1, <2>2
  <2>4. SubSeq(log, c + 1, P + 1) = Append(SubSeq(log, c + 1, P), log[P + 1])
    BY <1>1, <2>2, PartGrows
  <2>5. Queue' = Append(Queue, log[P + 1])  BY <2>1, <2>2, <2>4 DEF Queue
  <2>6. Current' = Current  BY <1>2, <1>3, <2>1
  <2> QED  BY <2>3, <2>5, <2>6
<1>9. CASE Recv
  <2>1. /\ rd.pc = "idle" /\ rd'.pc = "holding"
        /\ UNCHANGED <<wr, log, consumed>>
    BY <1>9 DEF Recv
  <2>2. Published' = P  BY <2>1 DEF Published
  <2>3. c < P
    <3>1. PICK place \in [1 .. Len(log) -> Nat] : Layout(place)  BY DEF IInv
    <3>2. Records /\ metatail < metahead  BY <1>9 DEF IInv, Recv
    <3> QED  BY <2>1, <3>1, <3>2, RecvFinds
  <2>4. Queue # << >> /\ Head(Queue) = log[c + 1]  BY <1>1, <2>3, PartShrinks DEF Queue
  <2>5. Queue' = Queue  BY <2>1, <2>2 DEF Queue
  <2>6. Current = NoMessage /\ Current' = log[c + 1]  BY <1>2, <1>3, <2>1
  <2> QED  BY <2>4, <2>5, <2>6
<1>10. CASE Complete
  <2>1. /\ rd.pc = "holding" /\ rd'.pc = "idle" /\ consumed' = c + 1
        /\ UNCHANGED <<wr, log>>
    BY <1>10 DEF Complete, ReaderIdle
  <2>2. Published' = P  BY <2>1 DEF Published
  <2>3. c < P /\ log[c + 1] \in Messages  BY <1>1, <1>4, <2>1
  <2>4. Tail(SubSeq(log, c + 1, P)) = SubSeq(log, (c + 1) + 1, P)
    BY <1>1, <2>3, PartShrinks
  <2>5. Queue' = Tail(Queue)  BY <2>1, <2>2, <2>4 DEF Queue
  <2>6. Current # NoMessage  BY <1>2, <2>1, <2>3, MessageLength
  <2>7. Current' = NoMessage  BY <1>3, <2>1
  <2> QED  BY <2>5, <2>6, <2>7
<1> QED
  BY <1>5, <1>7, <1>8, <1>9, <1>10 DEF Next, WriterStep, ReaderStep, Drained

\* The metadata ring of libdtn implements the channel of MetaChannel: meta_recv
\* hands out every message of network_recv once, in order, and what the reader
\* finds at its pointer is that message, whole, until it calls meta_complete.
THEOREM ImplementsChannelHolds == Spec => ImplementsChannel
<1>1. Init => Channel!Init
  <2> SUFFICES ASSUME Init PROVE Channel!Init  OBVIOUS
  <2>1. log = << >> /\ consumed = 0 /\ Published = 0 /\ rd.pc = "idle"
    BY DEF Init, Published, WriterIdle, ReaderIdle
  <2>2. SubSeq(log, consumed + 1, Published) = << >>  BY <2>1, SubSeqEmpty
  <2> QED  BY <2>1, <2>2 DEF Channel!Init
<1>2. IInv /\ IInv' /\ [Next]_vars => [Channel!Next]_<<Queue, Current>>
  <2> SUFFICES ASSUME IInv, IInv', [Next]_vars PROVE [Channel!Next]_<<Queue, Current>>
    OBVIOUS
  <2>1. \/ UNCHANGED <<Queue, Current>>
        \/ \E m \in Messages : Queue' = Append(Queue, m) /\ UNCHANGED Current
        \/ /\ Current = NoMessage /\ Queue # << >>
           /\ Current' = Head(Queue) /\ UNCHANGED Queue
        \/ /\ Current # NoMessage
           /\ Queue' = Tail(Queue) /\ Current' = NoMessage
    BY RefinementStep
  <2>2. ASSUME NEW m \in Messages, Queue' = Append(Queue, m), UNCHANGED Current
        PROVE  Channel!Deliver(m)
    BY <2>2 DEF Channel!Deliver, Queue, Current
  <2>3. ASSUME Current = NoMessage, Queue # << >>, Current' = Head(Queue), UNCHANGED Queue
        PROVE  Channel!Receive
    BY <2>3 DEF Channel!Receive, Queue, Current
  <2>4. ASSUME Current # NoMessage, Queue' = Tail(Queue), Current' = NoMessage
        PROVE  Channel!Complete
    BY <2>4 DEF Channel!Complete, Queue, Current
  <2> QED  BY <2>1, <2>2, <2>3, <2>4 DEF Channel!Next
<1>3. [Channel!Next]_<<Queue, Current>> =>
          [Channel!Next]_<<SubSeq(log, consumed + 1, Published),
                           IF rd.pc = "holding" THEN AtPointer ELSE NoMessage>>
  BY DEF Queue, Current
<1> QED
  BY <1>1, <1>2, <1>3, Invariance, PTL DEF Spec, ImplementsChannel, Channel!Spec
=============================================================================
