---------------------------- MODULE LogRingProofs ----------------------------
(***************************************************************************)
(* Proofs about module LogRing, for any number of writers, slots and       *)
(* messages: its type invariant, that the reader finds a slot empty only   *)
(* while the writer of that ticket is at work, and that otherwise it finds *)
(* the message of its ticket unless the ring has been overrun.             *)
(***************************************************************************)
EXTENDS LogRing, FiniteSetTheorems, TLAPS

\* The messages that are not counted yet are those of the writers at work.
CountExact == \A r \in Rings : count[r] + Cardinality(InFlight(r)) = claim[r]

\* The reader copies only tickets below count.
CursorBound == reader.pc = "copy" => cursor[reader.ring] < count[reader.ring]

\* A slot that was never written has all of its tickets still waiting for
\* their writers to begin.
EmptyPending ==
    \A r \in Rings : \A t \in 0 .. claim[r] - 1 :
        slot[r][t % N] = Empty =>
            \E w \in InFlight(r) : writer[w].ticket = t /\ writer[w].pc = "claimed"

\* Until writers meet in a slot, a ticket in use is one of the last N.
TicketsFresh ==
    \A r \in Rings : \A w \in InFlight(r) :
        /\ writer[w].ticket < claim[r]
        /\ ~lapped[r] => claim[r] <= writer[w].ticket + N

\* The writers of ticket t of ring r that have not finished their copy.
Unwritten(r, t) == {w \in InFlight(r) : writer[w].ticket = t /\ writer[w].pc # "copied"}

\* Until then, a slot holds the last of its tickets once it has been copied.
SlotsHold ==
    \A r \in Rings : \A t \in 0 .. claim[r] - 1 :
        ~lapped[r] /\ claim[r] <= t + N /\ Unwritten(r, t) = {} => slot[r][t % N] = t

IInv == TypeOK /\ CountExact /\ CursorBound /\ EmptyPending /\ TicketsFresh /\ SlotsHold

-----------------------------------------------------------------------------
(* Remainders: a ring of R slots keeps ticket t in slot t % R.             *)

\* The slot of a ticket is in the ring.
LEMMA RingSlot == ASSUME NEW R \in Nat \ {0}, NEW t \in Nat PROVE t % R \in 0 .. R - 1
  OBVIOUS

\* Division by R.
LEMMA RingDivision ==
    ASSUME NEW R \in Nat \ {0}, NEW a \in Nat
    PROVE  a = R * (a \div R) + (a % R) /\ a \div R \in Int
  OBVIOUS

\* Products with R.
LEMMA RingProducts ==
    ASSUME NEW R \in Nat \ {0}, NEW k \in Int
    PROVE  R * k \in Int /\ (k <= 0 => R * k <= 0) /\ (k >= 1 => R * k >= R)
  OBVIOUS

\* Differences of multiples of R.
LEMMA RingDistributes ==
    ASSUME NEW R \in Nat \ {0}, NEW k \in Int, NEW l \in Int
    PROVE  R * l - R * k = R * (l - k)
  OBVIOUS

\* Two numbers differ by a multiple of R and by their remainders.
LEMMA RingDifference ==
    ASSUME NEW R \in Nat \ {0}, NEW a \in Nat, NEW b \in Nat
    PROVE  \E j \in Int : b - a = R * j + (b % R) - (a % R)
<1> DEFINE k == a \div R
           l == b \div R
           x == R * l
           y == R * k
           m == a % R
           n == b % R
<1>1. k \in Int /\ l \in Int /\ a = y + m /\ b = x + n  BY RingDivision
<1>2. m \in Int /\ n \in Int  BY RingSlot
<1>3. x \in Int /\ y \in Int  BY <1>1, RingProducts
<1> HIDE DEF k, l
<1>4. x - y = R * (l - k) /\ l - k \in Int  BY <1>1, RingDistributes
<1> HIDE DEF x, y, m, n
<1>5. b - a = (x - y) + n - m  BY <1>1, <1>2, <1>3
<1>6. b - a = R * (l - k) + n - m  BY <1>4, <1>5
<1> QED  BY <1>4, <1>6 DEF m, n

\* Tickets of the same slot less than a round apart are the same.
LEMMA RingSameSlot ==
    ASSUME NEW R \in Nat \ {0}, NEW a \in Nat, NEW b \in Nat,
           a % R = b % R, a < b + R, b < a + R
    PROVE  a = b
<1>1. PICK j \in Int : b - a = R * j + (b % R) - (a % R)  BY RingDifference
<1>2. R * j \in Int /\ a % R \in Int /\ b % R \in Int  BY RingProducts, RingSlot
<1>3. b - a = R * j  BY <1>1, <1>2
<1>4. R * (-j) = -(R * j) /\ -j \in Int  OBVIOUS
<1>5. (j >= 1 => R * j >= R) /\ (j <= -1 => R * (-j) >= R)  BY <1>4, RingProducts
<1>6. j = 0  BY <1>2, <1>3, <1>4, <1>5
<1> QED  BY <1>3, <1>6

\* Any number of rounds later it is the same slot.
LEMMA RingManyRounds ==
    ASSUME NEW R \in Nat \ {0}, NEW a \in Nat, NEW q \in Nat
    PROVE  a + R * q \in Nat /\ (a + R * q) % R = a % R
<1> DEFINE b == a + R * q
           m == a % R
           n == b % R
<1>0. R * q \in Nat  OBVIOUS
<1>a. b \in Nat  BY <1>0
<1>1. PICK j \in Int : b - a = R * j + n - m  BY <1>a, RingDifference
<1>2. m \in 0 .. R - 1 /\ n \in 0 .. R - 1  BY <1>a, RingSlot
<1>3. /\ q - j \in Int /\ j - q \in Int /\ R * j \in Int
      /\ R * (q - j) \in Int /\ R * (j - q) \in Int
  BY RingProducts
<1>4. R * (q - j) = R * q - R * j /\ R * (j - q) = R * j - R * q  OBVIOUS
<1> HIDE DEF m, n
<1>5. R * (q - j) = n - m /\ R * (j - q) = m - n
  BY <1>0, <1>1, <1>2, <1>3, <1>4
<1>6. (q - j >= 1 => R * (q - j) >= R) /\ (j - q >= 1 => R * (j - q) >= R)
  BY <1>3, RingProducts
<1>7. q - j = 0  BY <1>2, <1>3, <1>5, <1>6
<1> QED  BY <1>a, <1>2, <1>5, <1>7 DEF m, n

\* One round later it is the same slot.
LEMMA RingNextRound == ASSUME NEW R \in Nat \ {0}, NEW a \in Nat PROVE (a + R) % R = a % R
<1>1. R * 1 = R  OBVIOUS
<1>2. (a + R * 1) % R = a % R  BY RingManyRounds
<1> QED  BY <1>1, <1>2

\* Of the tickets taken, the last one of the slot of ticket c.
LEMMA RingLastOfSlot ==
    ASSUME NEW R \in Nat \ {0}, NEW c \in Nat, NEW k \in Nat, c < k
    PROVE  \E t \in 0 .. k - 1 : t % R = c % R /\ k <= t + R
<1> DEFINE d == k - 1 - c
           q == d \div R
           t == c + R * q
<1>1. d \in Nat  OBVIOUS
<1> HIDE DEF d
<1>2. d = R * q + (d % R) /\ q \in Int /\ d % R \in 0 .. R - 1
  BY <1>1, RingDivision, RingSlot
<1>3. q \in Nat  BY <1>1
<1> HIDE DEF q
<1>4. t \in Nat /\ t % R = c % R /\ R * q \in Nat
  <2>1. t \in Nat /\ t % R = c % R  BY <1>3, RingManyRounds
  <2>2. R * q \in Nat  BY <1>3
  <2> QED  BY <2>1, <2>2
<1> DEFINE x == R * q
           e == d % R
<1>5. t = k - 1 - e
  <2>1. d = x + e /\ x \in Nat /\ e \in Int /\ t = c + x  BY <1>2, <1>4
  <2> HIDE DEF x, e, t
  <2> QED  BY <2>1 DEF d
<1> HIDE DEF t
<1>6. t \in 0 .. k - 1 /\ k <= t + R  BY <1>2, <1>4, <1>5
<1> QED  BY <1>4, <1>6

-----------------------------------------------------------------------------
(* Lemmas.                                                                 *)

\* Slots and tickets of this ring: the lemmas on remainders for N.
LEMMA SlotInRing == ASSUME NEW t \in Nat PROVE t % N \in 0 .. N - 1
  BY LogAssumption, RingSlot

LEMMA SameSlot ==
    ASSUME NEW a \in Nat, NEW b \in Nat, a % N = b % N, a < b + N, b < a + N
    PROVE  a = b
  BY LogAssumption, RingSameSlot

LEMMA NextRound == ASSUME NEW a \in Nat PROVE (a + N) % N = a % N
  BY LogAssumption, RingNextRound

LEMMA LastOfSlot ==
    ASSUME NEW c \in Nat, NEW k \in Nat, c < k
    PROVE  \E t \in 0 .. k - 1 : t % N = c % N /\ k <= t + N
  BY LogAssumption, RingLastOfSlot

\* What a slot holds.
LEMMA SlotType == ASSUME TypeOK, NEW r \in Rings, NEW i \in 0 .. N - 1
                  PROVE slot[r][i] \in Nat \cup {Empty, Torn}
<1>1. slot[r] \in [0 .. N - 1 -> Nat \cup {Empty, Torn}]  BY DEF TypeOK
<1> QED  BY <1>1

\* The writers at work are finitely many.
LEMMA FlightFinite == ASSUME NEW r PROVE IsFiniteSet(InFlight(r))
  BY LogAssumption, FS_Subset, InFlight(r) \subseteq Writers DEF InFlight

\* What is written is never the mark of an empty slot.
LEMMA MarksDiffer == Torn # Empty /\ \A t \in Nat : t # Empty
  BY DEF Torn, Empty

-----------------------------------------------------------------------------
LEMMA InitIInv == Init => IInv
<1> SUFFICES ASSUME Init PROVE IInv OBVIOUS
<1>1. TypeOK
  BY LogAssumption DEF Init, TypeOK, NotWriting, Empty, Torn, Rings
<1>2. CountExact
  <2> SUFFICES ASSUME NEW r \in Rings PROVE count[r] + Cardinality(InFlight(r)) = claim[r]
    BY DEF CountExact
  <2>1. InFlight(r) = {}  BY DEF Init, InFlight, NotWriting
  <2> QED  BY <2>1, FS_EmptySet DEF Init
<1>3. CursorBound  BY DEF Init, CursorBound
<1>4. EmptyPending  BY DEF Init, EmptyPending
<1>5. TicketsFresh  BY DEF Init, TicketsFresh, InFlight, NotWriting
<1>6. SlotsHold  BY DEF Init, SlotsHold
<1> QED  BY <1>1, <1>2, <1>3, <1>4, <1>5, <1>6 DEF IInv

\* Every action keeps the types.
LEMMA TypeStep == TypeOK /\ [Next]_vars => TypeOK'
<1> SUFFICES ASSUME TypeOK, [Next]_vars PROVE TypeOK' OBVIOUS
<1> USE DEF TypeOK
<1>1. ASSUME NEW w \in Writers, NEW r \in Rings, Claim(w, r) PROVE TypeOK'
  BY <1>1 DEF Claim, readerVars
<1>2. ASSUME NEW w \in Writers, StartCopy(w) PROVE TypeOK'
  BY <1>2, SlotInRing DEF StartCopy, readerVars
<1>3. ASSUME NEW w \in Writers, EndCopy(w) PROVE TypeOK'
  BY <1>3, SlotInRing DEF EndCopy, EndCopyTo, readerVars
<1>4. ASSUME NEW w \in Writers, Count(w) PROVE TypeOK'
  BY <1>4 DEF Count, CountFrom, NotWriting, Rings, readerVars
<1>5. CASE InitializeLogging  BY <1>5 DEF InitializeLogging, writerVars
<1>6. CASE GetNext
  <2>1. (IF reader.ring = "log" THEN "err" ELSE "log") \in Rings  BY DEF Rings
  <2>2. Start \in Nat  BY LogAssumption DEF Start
  <2> QED  BY <1>6, <2>1, <2>2 DEF GetNext, GetNextBy, writerVars
<1>7. CASE CopyOut
  <2>1. reader.ring \in Rings /\ cursor[reader.ring] \in Nat  OBVIOUS
  <2>2. cursor[reader.ring] % N \in 0 .. N - 1  BY <2>1, SlotInRing
  <2>3. slot[reader.ring][cursor[reader.ring] % N] \in Nat \cup {Empty, Torn}
    BY <2>1, <2>2, SlotType
  <2>4. cursor' \in [Rings -> Nat]  BY <1>7, <2>1 DEF CopyOut
  <2> HIDE DEF TypeOK
  <2>5. reader' \in [pc : {"start", "none", "load", "copy", "split", "send", "aborted"},
                     ring : Rings, msg : Nat \cup {Empty, Torn}]
    BY <1>7, <2>3 DEF CopyOut, TypeOK
  <2> QED  BY <1>7, <2>4, <2>5 DEF CopyOut, writerVars, TypeOK
<1>8. CASE SplitPanics  BY <1>8 DEF SplitPanics, writerVars
<1>9. CASE Deliver  BY <1>9 DEF Deliver, writerVars, Rings, Empty
<1>10. CASE ParseError  BY <1>10 DEF ParseError, writerVars, Rings
<1>11. CASE MetaInit  BY <1>11 DEF MetaInit, writerVars, readerVars
<1>12. CASE UNCHANGED vars  BY <1>12 DEF vars, writerVars, readerVars
<1> QED
  BY <1>1, <1>2, <1>3, <1>4, <1>5, <1>6, <1>7, <1>8, <1>9, <1>10, <1>11, <1>12
  DEF Next, Reader, Write

\* A ticket adds a writer at work; an increment of count takes one away.
LEMMA CountStep == TypeOK /\ CountExact /\ [Next]_vars => CountExact'
<1> SUFFICES ASSUME TypeOK, CountExact, [Next]_vars, NEW r \in Rings
             PROVE  count'[r] + Cardinality(InFlight(r)') = claim'[r]
  BY DEF CountExact
<1>0. count[r] + Cardinality(InFlight(r)) = claim[r]  BY DEF CountExact
<1>a. IsFiniteSet(InFlight(r))  BY FlightFinite
<1>b. Cardinality(InFlight(r)) \in Nat /\ count[r] \in Nat /\ claim[r] \in Nat
  BY <1>a, FS_CardinalityType DEF TypeOK
<1>1. ASSUME NEW w \in Writers, NEW s \in Rings, Claim(w, s)
      PROVE  count'[r] + Cardinality(InFlight(r)') = claim'[r]
  <2>1. w \notin InFlight(r)  BY <1>1 DEF Claim, InFlight
  <2>2. CASE s = r
    <3>1. InFlight(r)' = InFlight(r) \cup {w}
      BY <1>1, <2>2 DEF Claim, InFlight, TypeOK
    <3>2. Cardinality(InFlight(r)') = Cardinality(InFlight(r)) + 1
      BY <3>1, <2>1, <1>a, FS_AddElement
    <3>3. count'[r] = count[r] /\ claim'[r] = claim[r] + 1
      BY <1>1, <2>2 DEF Claim, TypeOK
    <3> QED  BY <1>0, <1>b, <3>2, <3>3
  <2>3. CASE s # r
    <3>1. InFlight(r)' = InFlight(r)
      BY <1>1, <2>1, <2>3 DEF Claim, InFlight, TypeOK
    <3>2. count'[r] = count[r] /\ claim'[r] = claim[r]
      BY <1>1, <2>3 DEF Claim, TypeOK
    <3> QED  BY <1>0, <3>1, <3>2
  <2> QED  BY <2>2, <2>3
<1>2. ASSUME NEW w \in Writers, StartCopy(w) \/ EndCopy(w)
      PROVE  count'[r] + Cardinality(InFlight(r)') = claim'[r]
  <2>1. PICK pc \in {"copying", "copied"} :
           writer' = [writer EXCEPT ![w].pc = pc] /\ writer[w].pc # "out"
    BY <1>2 DEF StartCopy, EndCopy, EndCopyTo
  <2>3. \A v \in Writers : /\ writer'[v].ring = writer[v].ring
                           /\ writer'[v].pc = "out" <=> writer[v].pc = "out"
    BY <2>1 DEF TypeOK
  <2>4. InFlight(r)' = InFlight(r)  BY <2>3 DEF InFlight
  <2>2. count' = count /\ claim' = claim  BY <1>2 DEF StartCopy, EndCopy, EndCopyTo
  <2> QED  BY <1>0, <2>2, <2>4
<1>3. ASSUME NEW w \in Writers, Count(w)
      PROVE  count'[r] + Cardinality(InFlight(r)') = claim'[r]
  <2>1. claim' = claim  BY <1>3 DEF Count, CountFrom
  <2>2. CASE writer[w].ring = r
    <3>1. w \in InFlight(r)  BY <1>3, <2>2 DEF Count, CountFrom, InFlight
    <3>2. InFlight(r)' = InFlight(r) \ {w}
      BY <1>3 DEF Count, CountFrom, NotWriting, InFlight, TypeOK
    <3>3. Cardinality(InFlight(r)') = Cardinality(InFlight(r)) - 1
      BY <3>1, <3>2, <1>a, FS_RemoveElement
    <3>4. count'[r] = count[r] + 1  BY <1>3, <2>2 DEF Count, CountFrom, TypeOK
    <3> QED  BY <1>0, <1>b, <2>1, <3>3, <3>4
  <2>3. CASE writer[w].ring # r
    <3>1. InFlight(r)' = InFlight(r)
      BY <1>3, <2>3 DEF Count, CountFrom, NotWriting, InFlight, TypeOK
    <3>2. count'[r] = count[r]  BY <1>3, <2>3 DEF Count, CountFrom, TypeOK
    <3> QED  BY <1>0, <2>1, <3>1, <3>2
  <2> QED  BY <2>2, <2>3
<1>4. ASSUME MetaInit \/ Reader \/ UNCHANGED vars
      PROVE  count'[r] + Cardinality(InFlight(r)') = claim'[r]
  <2>1. UNCHANGED writerVars
    BY <1>4 DEF MetaInit, Reader, InitializeLogging, GetNext, GetNextBy, CopyOut,
                SplitPanics, Deliver, ParseError, vars
  <2> QED  BY <1>0, <2>1 DEF writerVars, InFlight
<1> QED  BY <1>1, <1>2, <1>3, <1>4 DEF Next, Write

\* GetNext moves the cursor to a ticket below count; count never decreases.
LEMMA CursorStep == TypeOK /\ CursorBound /\ [Next]_vars => CursorBound'
<1> SUFFICES ASSUME TypeOK, CursorBound, [Next]_vars, reader'.pc = "copy"
             PROVE  cursor'[reader'.ring] < count'[reader'.ring]
  BY DEF CursorBound
<1>1. ASSUME NEW w \in Writers, NEW r \in Rings, Write(w) \/ Claim(w, r)
      PROVE  cursor'[reader'.ring] < count'[reader'.ring]
  <2>1. UNCHANGED readerVars
    BY <1>1 DEF Write, StartCopy, EndCopy, EndCopyTo, Count, CountFrom, Claim
  <2> DEFINE s == reader.ring
  <2>2. s \in Rings /\ cursor[s] \in Nat /\ count[s] \in Nat /\ cursor[s] < count[s]
    BY <2>1 DEF CursorBound, readerVars, TypeOK
  <2>3. count'[s] = count[s] \/ count'[s] = count[s] + 1
    <3>1. CASE Count(w)
      BY <3>1, <2>2 DEF Count, CountFrom, TypeOK
    <3>2. CASE ~Count(w)
      BY <1>1, <3>2 DEF Write, StartCopy, EndCopy, EndCopyTo, Claim
    <3> QED  BY <3>1, <3>2
  <2> QED  BY <2>1, <2>2, <2>3 DEF readerVars
<1>2. CASE GetNext
  <2> DEFINE r == reader.ring
  <2>0. r \in Rings /\ cursor[r] \in Nat /\ count[r] \in Nat  BY DEF TypeOK
  <2>4. ~(cursor[r] >= count[r])
    <3> SUFFICES ASSUME cursor[r] >= count[r] PROVE FALSE  OBVIOUS
    <3>1. /\ reader' = [reader EXCEPT !.ring = IF reader.ring = "log" THEN "err" ELSE "log"]
          /\ reader.pc = "load"
      BY <1>2 DEF GetNext, GetNextBy, NothingNew
    <3>2. reader'.pc = "load"  BY <3>1 DEF TypeOK
    <3> QED  BY <3>2
  <2>5. reader' = [reader EXCEPT !.pc = "copy"] /\ cursor' = [cursor EXCEPT ![r] = Start]
    BY <1>2, <2>4 DEF GetNext, GetNextBy, NothingNew
  <2>1. cursor[r] < count[r] /\ reader'.ring = r /\ cursor'[r] = Start
    BY <2>0, <2>4, <2>5 DEF TypeOK
  <2>2. Start < count[r]  BY <2>0, <2>1, LogAssumption DEF Start, TypeOK
  <2>3. count' = count  BY <1>2 DEF GetNext, GetNextBy, writerVars
  <2> QED  BY <2>1, <2>2, <2>3
<1>3. CASE Reader /\ ~GetNext
  <2>1. CASE InitializeLogging  BY <2>1 DEF InitializeLogging, TypeOK
  <2>2. CASE CopyOut  BY <2>2 DEF CopyOut, TypeOK
  <2>3. CASE SplitPanics  BY <2>3 DEF SplitPanics, TypeOK
  <2>4. CASE Deliver  BY <2>4 DEF Deliver, TypeOK
  <2>5. CASE ParseError  BY <2>5 DEF ParseError, TypeOK
  <2> QED  BY <1>3, <2>1, <2>2, <2>3, <2>4, <2>5 DEF Reader
<1>4. CASE MetaInit \/ UNCHANGED vars
  BY <1>4 DEF MetaInit, vars, writerVars, readerVars, CursorBound
<1> QED  BY <1>1, <1>2, <1>3, <1>4 DEF Next, Rings

\* The writer of a ticket stays "claimed" until it writes the slot, and a slot
\* that has been written is not emptied again.
LEMMA PendingStep == TypeOK /\ EmptyPending /\ [Next]_vars => EmptyPending'
<1> DEFINE Pending(r, t) ==
             \E w \in InFlight(r) : writer[w].ticket = t /\ writer[w].pc = "claimed"
<1> SUFFICES ASSUME TypeOK, EmptyPending, [Next]_vars, NEW r \in Rings,
                    NEW t \in 0 .. claim'[r] - 1, slot'[r][t % N] = Empty
             PROVE  Pending(r, t)'
  BY DEF EmptyPending
<1>0. ASSUME t \in 0 .. claim[r] - 1, slot[r][t % N] = Empty PROVE Pending(r, t)
  BY <1>0 DEF EmptyPending
<1>a. t \in Nat /\ t % N \in 0 .. N - 1
  <2>1. claim'[r] \in Nat  BY TypeStep DEF TypeOK
  <2>2. t \in Nat  BY <2>1
  <2> QED  BY <2>2, SlotInRing
<1>1. ASSUME NEW w \in Writers, NEW s \in Rings, Claim(w, s) PROVE Pending(r, t)'
  <2>1. slot' = slot  BY <1>1 DEF Claim
  <2>2. CASE t \in 0 .. claim[r] - 1
    <3>1. PICK v \in InFlight(r) : writer[v].ticket = t /\ writer[v].pc = "claimed"
      BY <1>0, <2>1, <2>2
    <3>2. v # w /\ writer'[v] = writer[v]  BY <1>1, <3>1 DEF Claim, InFlight, TypeOK
    <3> QED  BY <3>1, <3>2 DEF InFlight
  <2>3. CASE t \notin 0 .. claim[r] - 1
    <3>1. s = r /\ t = claim[r]  BY <1>1, <1>a, <2>3 DEF Claim, TypeOK
    <3>2. writer'[w] = [pc |-> "claimed", ring |-> r, ticket |-> t]
      BY <1>1, <3>1 DEF Claim, TypeOK
    <3>3. w \in InFlight(r)'  BY <3>2 DEF InFlight
    <3> QED  BY <3>2, <3>3
  <2> QED  BY <2>2, <2>3
<1>2. ASSUME NEW w \in Writers, StartCopy(w) PROVE Pending(r, t)'
  <2>1. writer[w].ring \in Rings /\ writer[w].ticket % N \in 0 .. N - 1
    BY SlotInRing DEF TypeOK
  <2>2. slot[r][t % N] = Empty /\ ~(writer[w].ring = r /\ writer[w].ticket % N = t % N)
    BY <1>2, <1>a, <2>1, MarksDiffer DEF StartCopy, TypeOK
  <2>3. PICK v \in InFlight(r) : writer[v].ticket = t /\ writer[v].pc = "claimed"
    BY <1>0, <1>2, <2>2 DEF StartCopy
  <2>4. v # w /\ writer'[v] = writer[v]
    BY <1>2, <2>2, <2>3 DEF StartCopy, InFlight, TypeOK
  <2> QED  BY <2>3, <2>4 DEF InFlight
<1>3. ASSUME NEW w \in Writers, EndCopy(w) PROVE Pending(r, t)'
  <2>1. writer[w].ring \in Rings /\ writer[w].ticket \in Nat
        /\ writer[w].ticket % N \in 0 .. N - 1
    BY SlotInRing DEF TypeOK
  <2>2. slot[r][t % N] = Empty
    BY <1>3, <1>a, <2>1, MarksDiffer DEF EndCopy, EndCopyTo, TypeOK
  <2>3. PICK v \in InFlight(r) : writer[v].ticket = t /\ writer[v].pc = "claimed"
    BY <1>0, <1>3, <2>2 DEF EndCopy, EndCopyTo
  <2>4. v # w /\ writer'[v] = writer[v]
    BY <1>3, <2>3 DEF EndCopy, EndCopyTo, InFlight, TypeOK
  <2> QED  BY <2>3, <2>4 DEF InFlight
<1>4. ASSUME NEW w \in Writers, Count(w) PROVE Pending(r, t)'
  <2>1. PICK v \in InFlight(r) : writer[v].ticket = t /\ writer[v].pc = "claimed"
    BY <1>0, <1>4 DEF Count, CountFrom
  <2>2. v # w /\ writer'[v] = writer[v]
    BY <1>4, <2>1 DEF Count, CountFrom, InFlight, TypeOK
  <2> QED  BY <2>1, <2>2 DEF InFlight
<1>5. ASSUME MetaInit \/ Reader \/ UNCHANGED vars PROVE Pending(r, t)'
  <2>1. UNCHANGED writerVars
    BY <1>5 DEF MetaInit, Reader, InitializeLogging, GetNext, GetNextBy, CopyOut,
                SplitPanics, Deliver, ParseError, vars
  <2> QED  BY <1>0, <2>1 DEF writerVars, InFlight
<1> QED  BY <1>1, <1>2, <1>3, <1>4, <1>5 DEF Next, Write

\* What Claim says of lapped: it only becomes true, and does so when the slot
\* of the new ticket is in use.
LEMMA LappedStep ==
    ASSUME TypeOK, NEW w \in Writers, NEW s \in Rings, Claim(w, s), NEW r \in Rings,
           ~lapped'[r]
    PROVE  ~lapped[r] /\ (r = s => \A v \in InFlight(r) :
                                     writer[v].ticket % N # claim[r] % N)
  BY DEF Claim, TypeOK

\* A ticket that would fall a round behind meets the new one in its slot.
LEMMA FreshStep == TypeOK /\ TicketsFresh /\ [Next]_vars => TicketsFresh'
<1> SUFFICES ASSUME TypeOK, TicketsFresh, [Next]_vars, NEW r \in Rings,
                    NEW v \in InFlight(r)'
             PROVE  /\ writer'[v].ticket < claim'[r]
                    /\ ~lapped'[r] => claim'[r] <= writer'[v].ticket + N
  BY DEF TicketsFresh
<1> DEFINE Fresh == /\ writer[v].ticket < claim[r]
                    /\ ~lapped[r] => claim[r] <= writer[v].ticket + N
<1>0. v \in Writers /\ claim[r] \in Nat /\ writer[v].ticket \in Nat
  BY DEF TypeOK, InFlight
<1>1. ASSUME NEW w \in Writers, NEW s \in Rings, Claim(w, s) PROVE Fresh'
  <2>1. CASE v = w
    <3>1. writer'[v] = [pc |-> "claimed", ring |-> s, ticket |-> claim[s]]
      BY <1>1, <2>1 DEF Claim, TypeOK
    <3>2. s = r  BY <3>1 DEF InFlight
    <3>3. claim'[r] = claim[r] + 1 /\ writer'[v].ticket = claim[r]
      BY <1>1, <3>1, <3>2 DEF Claim, TypeOK
    <3> QED  BY <1>0, <3>3, LogAssumption
  <2>2. CASE v # w
    <3>1. writer'[v] = writer[v]  BY <1>1, <2>2 DEF Claim, TypeOK
    <3>2. v \in InFlight(r)  BY <3>1, <1>0 DEF InFlight
    <3>3. Fresh  BY <3>2 DEF TicketsFresh
    <3>4. CASE s # r
      <4>1. claim'[r] = claim[r]  BY <1>1, <3>4 DEF Claim, TypeOK
      <4>2. ~lapped'[r] => ~lapped[r]  BY <1>1, LappedStep
      <4> QED  BY <3>1, <3>3, <4>1, <4>2
    <3>5. CASE s = r
      <4>1. claim'[r] = claim[r] + 1  BY <1>1, <3>5 DEF Claim, TypeOK
      <4>2. ASSUME ~lapped'[r] PROVE claim[r] <= writer[v].ticket + N
                                     /\ claim[r] # writer[v].ticket + N
        <5>1. ~lapped[r] /\ writer[v].ticket % N # claim[r] % N
          BY <1>1, <3>2, <3>5, <4>2, LappedStep
        <5> QED  BY <1>0, <3>3, <5>1, NextRound
      <4> QED  BY <1>0, <3>1, <3>3, <4>1, <4>2, LogAssumption
    <3> QED  BY <3>4, <3>5
  <2> QED  BY <2>1, <2>2
<1>2. ASSUME NEW w \in Writers, Write(w) PROVE Fresh'
  <2>1. claim' = claim /\ lapped' = lapped
    BY <1>2 DEF Write, StartCopy, EndCopy, EndCopyTo, Count, CountFrom
  <2>2. v \in InFlight(r) /\ writer'[v].ticket = writer[v].ticket
    <3>1. CASE v # w
      BY <1>0, <1>2, <3>1 DEF Write, StartCopy, EndCopy, EndCopyTo, Count, CountFrom,
                              InFlight, TypeOK
    <3>2. CASE v = w /\ StartCopy(w)  BY <1>0, <3>2 DEF StartCopy, InFlight, TypeOK
    <3>3. CASE v = w /\ EndCopy(w)
      BY <1>0, <3>3 DEF EndCopy, EndCopyTo, InFlight, TypeOK
    <3>4. CASE v = w /\ Count(w)
      BY <1>0, <3>4 DEF Count, CountFrom, NotWriting, InFlight, TypeOK
    <3> QED  BY <1>2, <3>1, <3>2, <3>3, <3>4 DEF Write
  <2>3. Fresh  BY <2>2 DEF TicketsFresh
  <2> QED  BY <2>1, <2>2, <2>3
<1>3. ASSUME MetaInit \/ Reader \/ UNCHANGED vars PROVE Fresh'
  <2>1. UNCHANGED writerVars
    BY <1>3 DEF MetaInit, Reader, InitializeLogging, GetNext, GetNextBy, CopyOut,
                SplitPanics, Deliver, ParseError, vars
  <2> QED  BY <2>1 DEF writerVars, InFlight, TicketsFresh
<1> QED  BY <1>1, <1>2, <1>3 DEF Next

\* A copy ends with the message of the ticket in its slot, and the only other
\* ticket that could be written there is a round older or younger.
LEMMA HoldStep == TypeOK /\ TicketsFresh /\ SlotsHold /\ [Next]_vars => SlotsHold'
<1> SUFFICES ASSUME TypeOK, TicketsFresh, SlotsHold, [Next]_vars, NEW r \in Rings,
                    NEW t \in 0 .. claim'[r] - 1, ~lapped'[r], claim'[r] <= t + N,
                    Unwritten(r, t)' = {}
             PROVE  slot'[r][t % N] = t
  BY DEF SlotsHold
<1>a. claim'[r] \in Nat  BY TypeStep DEF TypeOK
<1>b. t \in Nat /\ claim[r] \in Nat  BY <1>a DEF TypeOK
<1>c. t % N \in 0 .. N - 1  BY <1>b, SlotInRing
<1>0. ASSUME t < claim[r], ~lapped[r], claim[r] <= t + N, Unwritten(r, t) = {}
      PROVE  slot[r][t % N] = t
  BY <1>0, <1>b DEF SlotsHold
<1>1. ASSUME NEW w \in Writers, NEW s \in Rings, Claim(w, s) PROVE slot'[r][t % N] = t
  <2>1. slot' = slot /\ ~lapped[r]  BY <1>1, LappedStep DEF Claim
  <2>2. writer'[w] = [pc |-> "claimed", ring |-> s, ticket |-> claim[s]]
    BY <1>1 DEF Claim, TypeOK
  <2>3. ~(s = r /\ t = claim[r])
    <3> SUFFICES ASSUME s = r, t = claim[r] PROVE FALSE  OBVIOUS
    <3>1. w \in Unwritten(r, t)'  BY <2>2 DEF Unwritten, InFlight
    <3> QED  BY <3>1
  <2>4. t < claim[r] /\ claim[r] <= t + N
    <3>1. CASE s = r
      <4>1. claim'[r] = claim[r] + 1  BY <1>1, <3>1 DEF Claim, TypeOK
      <4> QED  BY <1>b, <2>3, <3>1, <4>1, LogAssumption
    <3>2. CASE s # r
      <4>1. claim'[r] = claim[r]  BY <1>1, <3>2 DEF Claim, TypeOK
      <4> QED  BY <1>b, <4>1
    <3> QED  BY <3>1, <3>2
  <2>5. Unwritten(r, t) = {}
    <3> SUFFICES ASSUME NEW v \in Unwritten(r, t) PROVE FALSE  OBVIOUS
    <3>1. v # w /\ v \in Writers  BY <1>1 DEF Claim, Unwritten, InFlight
    <3>2. writer'[v] = writer[v]  BY <1>1, <3>1 DEF Claim, TypeOK
    <3>3. v \in Unwritten(r, t)'  BY <3>2 DEF Unwritten, InFlight
    <3> QED  BY <3>3
  <2> QED  BY <1>0, <2>1, <2>4, <2>5
<1>2. ASSUME NEW w \in Writers, StartCopy(w) \/ EndCopy(w) PROVE slot'[r][t % N] = t
  <2> DEFINE u == writer[w].ticket
  <2>1. claim' = claim /\ lapped' = lapped  BY <1>2 DEF StartCopy, EndCopy, EndCopyTo
  <2>2. u \in Nat /\ u % N \in 0 .. N - 1 /\ writer[w].ring \in Rings
    BY SlotInRing DEF TypeOK
  <2>3. writer[w].pc \in {"claimed", "copying"}  BY <1>2 DEF StartCopy, EndCopy, EndCopyTo
  <2>4. CASE writer[w].ring = r /\ u % N = t % N
    <3>1. w \in InFlight(r)  BY <2>3, <2>4 DEF InFlight
    <3>2. u < claim[r] /\ claim[r] <= u + N  BY <2>1, <3>1 DEF TicketsFresh
    <3>3. u = t
      <4>1. t < claim[r] /\ claim[r] <= t + N  BY <1>b, <2>1
      <4>2. u < t + N /\ t < u + N  BY <1>b, <2>2, <3>2, <4>1, LogAssumption
      <4> QED  BY <1>b, <2>2, <2>4, <4>2, SameSlot
    <3>4. ~StartCopy(w)
      <4> SUFFICES ASSUME StartCopy(w) PROVE FALSE  OBVIOUS
      <4>1. writer'[w] = [writer[w] EXCEPT !.pc = "copying"]  BY DEF StartCopy, TypeOK
      <4>2. writer'[w].pc = "copying" /\ writer'[w].ring = r /\ writer'[w].ticket = t
        BY <2>4, <3>3, <4>1 DEF TypeOK
      <4>3. w \in Unwritten(r, t)'  BY <4>2 DEF Unwritten, InFlight
      <4> QED  BY <4>3
    <3>5. slot' = [slot EXCEPT ![r][t % N] = t]
      BY <1>2, <2>4, <3>3, <3>4 DEF EndCopy, EndCopyTo
    <3> QED  BY <1>c, <3>5 DEF TypeOK
  <2>5. CASE ~(writer[w].ring = r /\ u % N = t % N)
    <3>0. PICK x : slot' = [slot EXCEPT ![writer[w].ring][u % N] = x]
      BY <1>2 DEF StartCopy, EndCopy, EndCopyTo
    <3>1. slot'[r][t % N] = slot[r][t % N]  BY <1>c, <2>2, <2>5, <3>0 DEF TypeOK
    <3>2. Unwritten(r, t) = {}
      <4> SUFFICES ASSUME NEW v \in Unwritten(r, t) PROVE FALSE  OBVIOUS
      <4>1. v # w /\ v \in Writers  BY <2>5 DEF Unwritten, InFlight
      <4>2. writer'[v] = writer[v]
        BY <1>2, <4>1 DEF StartCopy, EndCopy, EndCopyTo, TypeOK
      <4>3. v \in Unwritten(r, t)'  BY <4>2 DEF Unwritten, InFlight
      <4> QED  BY <4>3
    <3>3. t < claim[r] /\ claim[r] <= t + N /\ ~lapped[r]  BY <1>b, <2>1
    <3> QED  BY <1>0, <3>1, <3>2, <3>3
  <2> QED  BY <2>4, <2>5
<1>3. ASSUME NEW w \in Writers, Count(w) PROVE slot'[r][t % N] = t
  <2>1. UNCHANGED <<claim, slot, lapped>>  BY <1>3 DEF Count, CountFrom
  <2>2. Unwritten(r, t) = {}
    <3> SUFFICES ASSUME NEW v \in Unwritten(r, t) PROVE FALSE  OBVIOUS
    <3>1. v # w /\ v \in Writers  BY <1>3 DEF Count, CountFrom, Unwritten, InFlight
    <3>2. writer'[v] = writer[v]  BY <1>3, <3>1 DEF Count, CountFrom, TypeOK
    <3>3. v \in Unwritten(r, t)'  BY <3>2 DEF Unwritten, InFlight
    <3> QED  BY <3>3
  <2>3. t < claim[r] /\ claim[r] <= t + N /\ ~lapped[r]  BY <1>b, <2>1
  <2> QED  BY <1>0, <2>1, <2>2, <2>3
<1>4. ASSUME MetaInit \/ Reader \/ UNCHANGED vars PROVE slot'[r][t % N] = t
  <2>1. UNCHANGED writerVars
    BY <1>4 DEF MetaInit, Reader, InitializeLogging, GetNext, GetNextBy, CopyOut,
                SplitPanics, Deliver, ParseError, vars
  <2>2. t < claim[r] /\ claim[r] <= t + N /\ ~lapped[r]  BY <1>b, <2>1 DEF writerVars
  <2>3. Unwritten(r, t) = {}  BY <2>1 DEF writerVars, Unwritten, InFlight
  <2> QED  BY <1>0, <2>1, <2>2, <2>3 DEF writerVars
<1> QED  BY <1>1, <1>2, <1>3, <1>4 DEF Next, Write

\* The reader copies only tickets that have been taken.
LEMMA CopiesTaken ==
    ASSUME IInv, reader.pc = "copy"
    PROVE  reader.ring \in Rings /\ cursor[reader.ring] \in 0 .. claim[reader.ring] - 1
<1> DEFINE r == reader.ring
           c == cursor[r]
<1>1. r \in Rings /\ c \in Nat /\ count[r] \in Nat /\ claim[r] \in Nat
  BY DEF IInv, TypeOK
<1>2. c < count[r]  BY DEF IInv, CursorBound
<1>3. Cardinality(InFlight(r)) \in Nat  BY FlightFinite, FS_CardinalityType
<1>4. count[r] + Cardinality(InFlight(r)) = claim[r]  BY <1>1 DEF IInv, CountExact
<1> QED  BY <1>1, <1>2, <1>3, <1>4

-----------------------------------------------------------------------------
(* Theorems.                                                               *)

\* The inductive invariant holds in every state of dtn_log, dtn_error and the
\* logging thread.
THEOREM LogInvariant == Spec => []IInv
<1>1. IInv /\ [Next]_vars => IInv'
  BY TypeStep, CountStep, CursorStep, PendingStep, FreshStep, HoldStep DEF IInv
<1> QED  BY InitIInv, <1>1, PTL DEF Spec

\* Tickets, counts, cursors, slots and program counters keep their types; the
\* cursor, which skips back from count by the size of the ring, is never negative.
THEOREM TypeCorrect == Spec => []TypeOK
<1>1. IInv => TypeOK  BY DEF IInv
<1> QED  BY LogInvariant, <1>1, PTL

\* initialize_clog reads an empty slot, which makes split_at panic, only while
\* the dtn_log or dtn_error call with that ticket has not returned: no overrun
\* of the ring, however far, leads to it.
THEOREM EmptyOnlyInFlightHolds == Spec => []EmptyOnlyInFlight
<1>1. ASSUME IInv PROVE EmptyOnlyInFlight
  <2> SUFFICES ASSUME reader.pc = "copy", AtCursor = Empty
               PROVE \E w \in InFlight(reader.ring) : writer[w].ticket = cursor[reader.ring]
    BY DEF EmptyOnlyInFlight
  <2>1. reader.ring \in Rings /\ cursor[reader.ring] \in 0 .. claim[reader.ring] - 1
    BY <1>1, CopiesTaken
  <2> QED  BY <1>1, <2>1 DEF IInv, EmptyPending, AtCursor
<1> QED  BY LogInvariant, <1>1, PTL

\* The slot initialize_clog copies holds the message of its ticket unless that
\* message is still being written, the ring has been overrun since count was
\* read, or two writers were in one slot at a time.
THEOREM ReadsItsTicketHolds == Spec => []ReadsItsTicket
<1>1. ASSUME IInv PROVE ReadsItsTicket
  <2> DEFINE r == reader.ring
             c == cursor[r]
  <2> SUFFICES ASSUME reader.pc = "copy", claim[r] <= c + N, ~lapped[r],
                      \A w \in InFlight(r) : writer[w].ticket # c
               PROVE  slot[r][c % N] = c
    BY DEF ReadsItsTicket, AtCursor
  <2>1. r \in Rings /\ c \in 0 .. claim[r] - 1  BY <1>1, CopiesTaken
  <2>2. Unwritten(r, c) = {}  BY DEF Unwritten
  <2> QED  BY <1>1, <2>1, <2>2 DEF IInv, SlotsHold
<1> QED  BY LogInvariant, <1>1, PTL

\* A message that dtn_log_getnext or dtn_err_getnext skips is no longer in its
\* slot, or another is about to replace it, unless two writers were in one slot
\* at a time.
THEOREM OverrunIsRealHolds == Spec => OverrunIsReal
<1> DEFINE Lost(r, c) == \/ slot[r][c % N] # c \/ lapped[r]
                         \/ \E w \in InFlight(r) : writer[w].ticket % N = c % N
           Skips == reader.pc = "load" =>
                      \A r \in Rings : \A c \in cursor[r] .. cursor'[r] - 1 : Lost(r, c)
<1>1. ASSUME IInv, [Next]_vars PROVE [Skips]_vars
  <2> SUFFICES ASSUME reader.pc = "load", NEW r \in Rings,
                      NEW c \in cursor[r] .. cursor'[r] - 1
               PROVE  Lost(r, c)
    OBVIOUS
  <2>1. cursor[r] \in Nat /\ count[r] \in Nat /\ claim[r] \in Nat  BY <1>1 DEF IInv, TypeOK
  <2>2. cursor'[r] # cursor[r]  BY <2>1
  <2>3. GetNext
    BY <1>1, <2>2 DEF Next, Reader, InitializeLogging, CopyOut, SplitPanics, Deliver,
         ParseError, MetaInit, Write, StartCopy, EndCopy, EndCopyTo, Count, CountFrom, Claim,
         readerVars, vars
  <2>4. reader.ring = r /\ cursor'[r] = Start
    BY <1>1, <2>2, <2>3 DEF GetNext, GetNextBy, IInv, TypeOK
  <2>5. c \in Nat /\ c + N < count[r]
    BY <2>1, <2>2, <2>4, LogAssumption DEF Start
  <2>6. count[r] <= claim[r]
    <3>1. Cardinality(InFlight(r)) \in Nat  BY FlightFinite, FS_CardinalityType
    <3>2. count[r] + Cardinality(InFlight(r)) = claim[r]  BY <1>1 DEF IInv, CountExact
    <3> QED  BY <2>1, <3>1, <3>2
  <2>7. PICK t \in 0 .. claim[r] - 1 : t % N = c % N /\ claim[r] <= t + N
    <3>1. c < claim[r]  BY <2>1, <2>5, <2>6, LogAssumption
    <3> QED  BY <2>1, <2>5, <3>1, LastOfSlot
  <2>8. t # c  BY <2>1, <2>5, <2>6, <2>7, LogAssumption
  <2>9. CASE lapped[r] \/ Unwritten(r, t) # {}
    BY <2>7, <2>9 DEF Unwritten
  <2>10. CASE ~lapped[r] /\ Unwritten(r, t) = {}
    <3>1. slot[r][t % N] = t  BY <1>1, <2>7, <2>10 DEF IInv, SlotsHold
    <3> QED  BY <2>7, <2>8, <3>1
  <2> QED  BY <2>9, <2>10
<1> QED  BY LogInvariant, <1>1, PTL DEF Spec, OverrunIsReal
=============================================================================
