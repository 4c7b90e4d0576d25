---------------------------- MODULE FcRingProofs ----------------------------
(***************************************************************************)
(* Proofs about module FcRing, for any number of producers, slots and      *)
(* pushes: its type invariant, that completions are forwarded in ticket    *)
(* order, each once, and that no record is lost inside the ring, both as   *)
(* long as no producer has been overtaken by a whole lap.                  *)
(***************************************************************************)
EXTENDS FcRing, TLAPS

\* Tickets below this one are out of the slots: fc_pop has wiped them.
Wiped == IF cons.pc \in {"head", "full", "wipe"} THEN cons.tail ELSE fc_info_tail

\* A push under way, and the tickets of those.
Pushing(p) == prod[p].pc # "idle"
InFlight(t) == \E p \in Producers : Pushing(p) /\ prod[p].head = t

\* Tickets under way have been given out, each to one producer; a producer that
\* has seen the tail is less than a lap ahead of it.
TicketInv ==
    /\ \A p \in Producers : Pushing(p) => prod[p].head < fc_info_head
    /\ \A p, q \in Producers :
          Pushing(p) /\ Pushing(q) /\ prod[p].head = prod[q].head => p = q
    /\ \A p \in Producers : prod[p].pc \in {"clear", "write"} =>
                               prod[p].head < fc_info_tail + fc_info_cnt

\* The consumer works on the last ticket it took, which has been given to a
\* producer once it is past its first wait.
ConsumerInv ==
    /\ cons.pc = "idle" => fc_info_tail <= fc_info_head
    /\ cons.pc # "idle" => fc_info_tail = cons.tail + 1
    /\ cons.pc = "head" => cons.tail <= fc_info_head
    /\ cons.pc \in {"full", "wipe", "forward", "announce"} => cons.tail < fc_info_head
    /\ cons.pc \in {"wipe", "forward", "announce"} => cons.fc # Empty

\* Until a lap: no push is under way for a ticket already wiped.
PushesLive == \A p \in Producers : Pushing(p) => Wiped <= prod[p].head

\* Until a lap: a slot holds one of the next tickets the consumer waits for.
SlotsPending ==
    \A s \in SlotIds : fc_info[s] # Empty =>
        /\ Slot(fc_info[s]) = s /\ ~InFlight(fc_info[s]) /\ fc_info[s] < fc_info_head
        /\ Wiped <= fc_info[s] /\ fc_info[s] < Wiped + fc_info_cnt

\* Until a lap: every ticket that was pushed and not wiped is in its slot.
PendingInSlots ==
    \A t \in Tickets :
        Wiped <= t /\ t < fc_info_head /\ ~InFlight(t) => fc_info[Slot(t)] = t

\* Until a lap: a producer about to write is less than a lap ahead of the
\* consumer's slot, and its own is empty.
WriteInv ==
    \A p \in Producers : prod[p].pc = "write" =>
        prod[p].head < Wiped + fc_info_cnt /\ fc_info[Slot(prod[p].head)] = Empty

\* Until a lap: what the consumer has copied is its ticket, and what it has
\* forwarded are all tickets before it.
ForwardInv ==
    /\ cons.pc \in {"wipe", "forward", "announce"} => cons.fc = cons.tail
    /\ cons.pc = "wipe" => fc_info[Slot(cons.tail)] = cons.tail
    /\ Len(fc_in) = IF cons.pc \in {"idle", "announce"} THEN fc_info_tail ELSE cons.tail
    /\ Len(fc2_in) = IF cons.pc = "idle" THEN fc_info_tail ELSE cons.tail
    /\ \A i \in 1 .. Len(fc_in) : fc_in[i] = i - 1
    /\ \A i \in 1 .. Len(fc2_in) : fc2_in[i] = i - 1

RingInv == PushesLive /\ SlotsPending /\ PendingInSlots /\ WriteInv /\ ForwardInv

IInv == TypeOK /\ TicketInv /\ ConsumerInv /\ (~lapped => RingInv)

-----------------------------------------------------------------------------
(* Remainders: a ring of R slots keeps ticket t in slot t % R.             *)

\* The slot of a ticket is in the ring.
LEMMA RingSlot == ASSUME NEW R \in Nat \ {0}, NEW t \in Nat PROVE t % R \in 0 .. R - 1
  OBVIOUS

\* Division by R.
LEMMA RingDivision ==
    ASSUME NEW R \in Nat \ {0}, NEW a \in Nat
    PROVE  a = R * (a \div R) + (a % R) /\ a \div R \in Int
  OBVIOUS

\* Products with R.
LEMMA RingProducts ==
    ASSUME NEW R \in Nat \ {0}, NEW k \in Int
    PROVE  R * k \in Int /\ (k <= 0 => R * k <= 0) /\ (k >= 1 => R * k >= R)
  OBVIOUS

\* Differences of multiples of R.
LEMMA RingDistributes ==
    ASSUME NEW R \in Nat \ {0}, NEW k \in Int, NEW l \in Int
    PROVE  R * l - R * k = R * (l - k)
  OBVIOUS

\* Two numbers differ by a multiple of R and by their remainders.
LEMMA RingDifference ==
    ASSUME NEW R \in Nat \ {0}, NEW a \in Nat, NEW b \in Nat
    PROVE  \E j \in Int : b - a = R * j + (b % R) - (a % R)
<1> DEFINE k == a \div R
           l == b \div R
           x == R * l
           y == R * k
           m == a % R
           n == b % R
<1>1. k \in Int /\ l \in Int /\ a = y + m /\ b = x + n  BY RingDivision
<1>2. m \in Int /\ n \in Int  BY RingSlot
<1>3. x \in Int /\ y \in Int  BY <1>1, RingProducts
<1> HIDE DEF k, l
<1>4. x - y = R * (l - k) /\ l - k \in Int  BY <1>1, RingDistributes
<1> HIDE DEF x, y, m, n
<1>5. b - a = (x - y) + n - m  BY <1>1, <1>2, <1>3
<1>6. b - a = R * (l - k) + n - m  BY <1>4, <1>5
<1> QED  BY <1>4, <1>6 DEF m, n

\* Tickets of the same slot less than a round apart are the same.
LEMMA RingSameSlot ==
    ASSUME NEW R \in Nat \ {0}, NEW a \in Nat, NEW b \in Nat,
           a % R = b % R, a < b + R, b < a + R
    PROVE  a = b
<1>1. PICK j \in Int : b - a = R * j + (b % R) - (a % R)  BY RingDifference
<1>2. R * j \in Int /\ a % R \in Int /\ b % R \in Int  BY RingProducts, RingSlot
<1>3. b - a = R * j  BY <1>1, <1>2
<1>4. R * (-j) = -(R * j) /\ -j \in Int  OBVIOUS
<1>5. (j >= 1 => R * j >= R) /\ (j <= -1 => R * (-j) >= R)  BY <1>4, RingProducts
<1>6. j = 0  BY <1>2, <1>3, <1>4, <1>5
<1> QED  BY <1>3, <1>6

\* Any number of rounds later it is the same slot.
LEMMA RingManyRounds ==
    ASSUME NEW R \in Nat \ {0}, NEW a \in Nat, NEW q \in Nat
    PROVE  a + R * q \in Nat /\ (a + R * q) % R = a % R
<1> DEFINE b == a + R * q
           m == a % R
           n == b % R
<1>0. R * q \in Nat  OBVIOUS
<1>a. b \in Nat  BY <1>0
<1>1. PICK j \in Int : b - a = R * j + n - m  BY <1>a, RingDifference
<1>2. m \in 0 .. R - 1 /\ n \in 0 .. R - 1  BY <1>a, RingSlot
<1>3. /\ q - j \in Int /\ j - q \in Int /\ R * j \in Int
      /\ R * (q - j) \in Int /\ R * (j - q) \in Int
  BY RingProducts
<1>4. R * (q - j) = R * q - R * j /\ R * (j - q) = R * j - R * q  OBVIOUS
<1> HIDE DEF m, n
<1>5. R * (q - j) = n - m /\ R * (j - q) = m - n
  BY <1>0, <1>1, <1>2, <1>3, <1>4
<1>6. (q - j >= 1 => R * (q - j) >= R) /\ (j - q >= 1 => R * (j - q) >= R)
  BY <1>3, RingProducts
<1>7. q - j = 0  BY <1>2, <1>3, <1>5, <1>6
<1> QED  BY <1>a, <1>2, <1>5, <1>7 DEF m, n

\* One round later it is the same slot.
LEMMA RingNextRound == ASSUME NEW R \in Nat \ {0}, NEW a \in Nat PROVE (a + R) % R = a % R
<1>1. R * 1 = R  OBVIOUS
<1>2. (a + R * 1) % R = a % R  BY RingManyRounds
<1> QED  BY <1>1, <1>2

-----------------------------------------------------------------------------
(* Lemmas.                                                                 *)

\* The slot of a ticket; tickets of a slot less than a lap apart are the same;
\* a lap later it is the same slot.
LEMMA SlotInRing == ASSUME NEW t \in Nat PROVE Slot(t) \in SlotIds
  BY RingAssumption, RingSlot DEF Slot, SlotIds

LEMMA SameSlot ==
    ASSUME NEW a \in Nat, NEW b \in Nat, Slot(a) = Slot(b),
           a < b + fc_info_cnt, b < a + fc_info_cnt
    PROVE  a = b
  BY RingAssumption, RingSameSlot DEF Slot

LEMMA NextLap == ASSUME NEW a \in Nat PROVE Slot(a + fc_info_cnt) = Slot(a)
  BY RingAssumption, RingNextRound DEF Slot

\* The types of the parts of the state.
LEMMA ProducerType ==
    ASSUME TypeOK, NEW p \in Producers
    PROVE  prod[p] \in [pc : {"idle", "tail", "clear", "write"}, head : Nat, tail : Nat]
  BY DEF TypeOK

LEMMA SlotType ==
    ASSUME TypeOK, NEW s \in SlotIds
    PROVE  fc_info[s] = Empty \/ (fc_info[s] \in Tickets /\ fc_info[s] \in Nat)
  BY DEF TypeOK, Tickets

LEMMA Counters ==
    ASSUME TypeOK
    PROVE  /\ fc_info_head \in Nat /\ fc_info_tail \in Nat /\ cons.tail \in Nat
           /\ fc_info_head <= MaxPush /\ Wiped \in Nat /\ fc_info_cnt \in Nat
  BY RingAssumption DEF TypeOK, Wiped

\* What the consumer has wiped was given to a producer, and is at most one
\* ticket behind the tail.
LEMMA WipedBound ==
    ASSUME TypeOK, ConsumerInv
    PROVE  Wiped <= fc_info_head /\ Wiped <= fc_info_tail /\ fc_info_tail <= Wiped + 1
  BY Counters DEF TypeOK, ConsumerInv, Wiped

-----------------------------------------------------------------------------
LEMMA InitIInv == Init => IInv
<1> SUFFICES ASSUME Init PROVE IInv  OBVIOUS
<1>1. TypeOK
  <2>1. fc_info \in [SlotIds -> Tickets \cup {Empty}]  BY DEF Init
  <2>a. fc_in \in Seq(Tickets) /\ fc2_in \in Seq(Tickets)  BY DEF Init
  <2>b. lapped \in BOOLEAN  BY DEF Init
  <2>2. fc_info_head \in 0 .. MaxPush /\ fc_info_tail \in 0 .. MaxPush + 1
    BY RingAssumption DEF Init
  <2>3. ProducerIdle \in [pc : {"idle", "tail", "clear", "write"}, head : Nat, tail : Nat]
    BY DEF ProducerIdle
  <2>4. cons \in [pc : {"idle", "head", "full", "wipe", "forward", "announce"},
                  tail : Nat, fc : Tickets \cup {Empty}]
    BY DEF Init, ConsumerIdle
  <2> QED  BY <2>1, <2>a, <2>b, <2>2, <2>3, <2>4 DEF Init, TypeOK
<1>2. TicketInv /\ ConsumerInv
  BY RingAssumption DEF Init, TicketInv, ConsumerInv, Pushing, ProducerIdle, ConsumerIdle
<1>3. RingInv
  <2>1. PushesLive /\ WriteInv
    BY DEF Init, PushesLive, WriteInv, Pushing, ProducerIdle
  <2>2. SlotsPending  BY DEF Init, SlotsPending
  <2>3. PendingInSlots  BY DEF Init, PendingInSlots, Tickets, Wiped, ConsumerIdle
  <2>4. ForwardInv  BY DEF Init, ForwardInv, ConsumerIdle
  <2> QED  BY <2>1, <2>2, <2>3, <2>4 DEF RingInv
<1> QED  BY <1>1, <1>2, <1>3 DEF IInv

-----------------------------------------------------------------------------
(* Steps of a producer.                                                    *)

LEMMA TakeTicketIInv ==
    ASSUME IInv, NEW p \in Producers, TakeTicket(p)
    PROVE  IInv'
<1>0. TypeOK /\ TicketInv /\ ConsumerInv  BY DEF IInv
<1>1. /\ prod'[p].pc = "tail" /\ prod'[p].head = fc_info_head
      /\ \A q \in Producers : q # p => prod'[q] = prod[q]
  BY <1>0 DEF TypeOK, TakeTicket
<1>2. TypeOK'
  <2>1. prod' = [prod EXCEPT ![p] = [prod[p] EXCEPT !.pc = "tail", !.head = fc_info_head]]
    BY <1>0 DEF TypeOK, TakeTicket
  <2>2. [prod[p] EXCEPT !.pc = "tail", !.head = fc_info_head]
          \in [pc : {"idle", "tail", "clear", "write"}, head : Nat, tail : Nat]
    BY <1>0, Counters, ProducerType
  <2>3. fc_info_head' \in 0 .. MaxPush
    BY <1>0, RingAssumption DEF TypeOK, TakeTicket
  <2> QED  BY <1>0, <2>1, <2>2, <2>3 DEF TypeOK, TakeTicket
<1>3. TicketInv'
  <2>1. fc_info_head' = fc_info_head + 1 /\ fc_info_tail' = fc_info_tail
    BY DEF TakeTicket
  <2>2. \A q \in Producers : q # p /\ Pushing(q)' => Pushing(q) /\ prod[q].head < fc_info_head
    BY <1>0, <1>1 DEF TicketInv, Pushing
  <2>3. \A q \in Producers : prod[q].head \in Nat
    BY <1>0, ProducerType
  <2> QED  BY <1>0, <1>1, <2>1, <2>2, <2>3, Counters DEF TicketInv
<1>4. ConsumerInv'
  BY <1>0, Counters DEF ConsumerInv, TakeTicket
<1>5. ASSUME ~lapped' PROVE RingInv'
  <2>0. RingInv  BY <1>5 DEF IInv, TakeTicket
  <2>1. Wiped' = Wiped  BY DEF TakeTicket, Wiped
  <2>2. \A t : InFlight(t)' <=> InFlight(t) \/ t = fc_info_head
    BY <1>1 DEF InFlight, Pushing, TakeTicket
  <2>3. PushesLive'
    BY <1>0, <1>1, <2>0, <2>1, WipedBound DEF RingInv, PushesLive, Pushing
  <2>4. SlotsPending'
    BY <1>0, <2>0, <2>1, <2>2, Counters, SlotType DEF RingInv, SlotsPending, TakeTicket
  <2>5. PendingInSlots'
    BY <1>0, <2>0, <2>1, <2>2, Counters DEF RingInv, PendingInSlots, TakeTicket, Tickets
  <2>6. WriteInv'
    BY <1>1, <2>0, <2>1 DEF RingInv, WriteInv, TakeTicket
  <2>7. ForwardInv'
    BY <2>0 DEF RingInv, ForwardInv, TakeTicket
  <2> QED  BY <2>3, <2>4, <2>5, <2>6, <2>7 DEF RingInv
<1> QED  BY <1>2, <1>3, <1>4, <1>5 DEF IInv

LEMMA LoadTailIInv ==
    ASSUME IInv, NEW p \in Producers, LoadTail(p)
    PROVE  IInv'
<1>0. TypeOK /\ TicketInv /\ ConsumerInv  BY DEF IInv
<1>1. /\ prod[p].pc = "tail" /\ prod'[p].pc \in {"tail", "clear"}
      /\ prod'[p].head = prod[p].head
      /\ prod'[p].pc = "clear" => prod[p].head < fc_info_tail + fc_info_cnt
      /\ \A q \in Producers : q # p => prod'[q] = prod[q]
  BY <1>0, Counters, ProducerType DEF TypeOK, LoadTail
<1>2. TypeOK'
  <2> DEFINE to == IF fc_info_tail + fc_info_cnt <= prod[p].head THEN "tail" ELSE "clear"
  <2>1. prod' = [prod EXCEPT ![p] = [prod[p] EXCEPT !.tail = fc_info_tail, !.pc = to]]
    BY <1>0 DEF TypeOK, LoadTail
  <2>2. [prod[p] EXCEPT !.tail = fc_info_tail, !.pc = to]
          \in [pc : {"idle", "tail", "clear", "write"}, head : Nat, tail : Nat]
    BY <1>0, Counters, ProducerType
  <2> HIDE DEF to
  <2> QED  BY <1>0, <2>1, <2>2 DEF TypeOK, LoadTail
<1>3. \A q \in Producers : (Pushing(q)' <=> Pushing(q)) /\ prod'[q].head = prod[q].head
  BY <1>1 DEF Pushing
<1>4. TicketInv'
  BY <1>0, <1>1, <1>3, Counters, ProducerType DEF TicketInv, LoadTail
<1>5. ConsumerInv'
  BY <1>0 DEF ConsumerInv, LoadTail
<1>6. ASSUME ~lapped' PROVE RingInv'
  <2>0. RingInv  BY <1>6 DEF IInv, LoadTail
  <2>1. Wiped' = Wiped  BY DEF LoadTail, Wiped
  <2>2. \A t : InFlight(t)' <=> InFlight(t)
    BY <1>3 DEF InFlight
  <2>3. PushesLive'
    BY <1>3, <2>0, <2>1 DEF RingInv, PushesLive
  <2>4. SlotsPending'
    BY <2>0, <2>1, <2>2 DEF RingInv, SlotsPending, LoadTail
  <2>5. PendingInSlots'
    BY <2>0, <2>1, <2>2 DEF RingInv, PendingInSlots, LoadTail
  <2>6. WriteInv'
    BY <1>1, <2>0, <2>1 DEF RingInv, WriteInv, LoadTail
  <2>7. ForwardInv'
    BY <2>0 DEF RingInv, ForwardInv, LoadTail
  <2> QED  BY <2>3, <2>4, <2>5, <2>6, <2>7 DEF RingInv
<1> QED  BY <1>2, <1>4, <1>5, <1>6 DEF IInv

\* Unless it overtakes an older push, a producer that finds its slot clear is
\* less than a lap ahead of the consumer: the ticket one lap before its own has
\* been wiped, for it would otherwise be under way or in this slot.
LEMMA ClearIsNear ==
    ASSUME TypeOK, TicketInv, ConsumerInv, RingInv, NEW p \in Producers,
           prod[p].pc = "clear", fc_info[Slot(prod[p].head)] = Empty, ~Overtaken(p)
    PROVE  prod[p].head < Wiped + fc_info_cnt
<1> DEFINE h == prod[p].head
           w == Wiped
<1>1. /\ h \in Nat /\ w \in Nat /\ fc_info_cnt \in Nat \ {0}
      /\ fc_info_head \in Nat /\ fc_info_head <= MaxPush /\ fc_info_tail \in Nat
  BY Counters, ProducerType, RingAssumption
<1>2. h < fc_info_tail + fc_info_cnt /\ h < fc_info_head
  BY DEF TicketInv, Pushing
<1>3. fc_info_tail <= w + 1  BY WipedBound
<1> SUFFICES ASSUME h = w + fc_info_cnt PROVE FALSE
  <2> HIDE DEF h, w
  <2> QED  BY <1>1, <1>2, <1>3 DEF h, w
<1>4. Slot(w) = Slot(h)  BY <1>1, NextLap
<1>5. w < h /\ w < fc_info_head /\ w \in Tickets
  <2> HIDE DEF h, w
  <2> QED  BY <1>1, <1>2, RingAssumption DEF Tickets
<1>6. ~InFlight(w)
  BY <1>4, <1>5 DEF Overtaken, InFlight, Pushing
<1>7. fc_info[Slot(w)] = w
  BY <1>1, <1>5, <1>6 DEF RingInv, PendingInSlots
<1> QED  BY <1>1, <1>4, <1>7 DEF Empty

LEMMA SlotClearIInv ==
    ASSUME IInv, NEW p \in Producers, SlotClear(p)
    PROVE  IInv'
<1>0. TypeOK /\ TicketInv /\ ConsumerInv  BY DEF IInv
<1>1. /\ prod[p].pc = "clear" /\ prod'[p].pc = "write"
      /\ prod'[p].head = prod[p].head
      /\ \A q \in Producers : q # p => prod'[q] = prod[q]
  BY <1>0 DEF TypeOK, SlotClear
<1>2. TypeOK'
  BY <1>0, RingAssumption DEF TypeOK, SlotClear
<1>3. \A q \in Producers : (Pushing(q)' <=> Pushing(q)) /\ prod'[q].head = prod[q].head
  BY <1>1 DEF Pushing
<1>4. TicketInv'
  BY <1>0, <1>1, <1>3, Counters, ProducerType DEF TicketInv, SlotClear
<1>5. ConsumerInv'
  BY <1>0 DEF ConsumerInv, SlotClear
<1>6. ASSUME ~lapped' PROVE RingInv'
  <2>0. RingInv /\ ~Overtaken(p)  BY <1>6 DEF IInv, SlotClear
  <2>1. Wiped' = Wiped  BY DEF SlotClear, Wiped
  <2>2. \A t : InFlight(t)' <=> InFlight(t)
    BY <1>3 DEF InFlight
  <2>3. PushesLive'
    BY <1>3, <2>0, <2>1 DEF RingInv, PushesLive
  <2>4. SlotsPending'
    BY <2>0, <2>1, <2>2 DEF RingInv, SlotsPending, SlotClear
  <2>5. PendingInSlots'
    BY <2>0, <2>1, <2>2 DEF RingInv, PendingInSlots, SlotClear
  <2>6. WriteInv'
    <3>1. prod[p].head < Wiped + fc_info_cnt
      BY <1>0, <1>1, <2>0, ClearIsNear DEF SlotClear
    <3> QED  BY <1>1, <2>0, <2>1, <3>1 DEF RingInv, WriteInv, SlotClear
  <2>7. ForwardInv'
    BY <2>0 DEF RingInv, ForwardInv, SlotClear
  <2> QED  BY <2>3, <2>4, <2>5, <2>6, <2>7 DEF RingInv
<1> QED  BY <1>2, <1>4, <1>5, <1>6 DEF IInv

LEMMA WriteSlotIInv ==
    ASSUME IInv, NEW p \in Producers, WriteSlot(p)
    PROVE  IInv'
<1> DEFINE h == prod[p].head
<1>0. TypeOK /\ TicketInv /\ ConsumerInv  BY DEF IInv
<1>1. /\ prod[p].pc = "write" /\ prod'[p].pc = "idle"
      /\ \A q \in Producers : q # p => prod'[q] = prod[q]
  BY <1>0 DEF TypeOK, WriteSlot, ProducerIdle
<1>2. /\ h \in Nat /\ h \in Tickets /\ h # Empty /\ h < fc_info_head /\ Slot(h) \in SlotIds
  <2>1. h \in Nat /\ h < fc_info_head
    BY <1>0, <1>1, ProducerType DEF TicketInv, Pushing
  <2> QED  BY <1>0, <2>1, Counters, SlotInRing, RingAssumption DEF Tickets, Empty
<1>3. /\ fc_info'[Slot(h)] = h
      /\ \A s \in SlotIds : s # Slot(h) => fc_info'[s] = fc_info[s]
  BY <1>0, <1>2 DEF TypeOK, WriteSlot
<1>4. TypeOK'
  BY <1>0, <1>2, RingAssumption DEF TypeOK, WriteSlot, ProducerIdle
<1>5. TicketInv'
  BY <1>0, <1>1 DEF TicketInv, WriteSlot, Pushing
<1>6. ConsumerInv'
  BY <1>0 DEF ConsumerInv, WriteSlot
<1>7. ASSUME ~lapped' PROVE RingInv'
  <2>0. RingInv  BY <1>7 DEF IInv, WriteSlot
  <2>1. Wiped' = Wiped /\ Wiped \in Nat  BY <1>0, Counters DEF WriteSlot, Wiped
  <2>2. \A t : InFlight(t)' <=> InFlight(t) /\ t # h
    BY <1>0, <1>1 DEF TicketInv, InFlight, Pushing
  <2>3. Wiped <= h /\ h < Wiped + fc_info_cnt /\ fc_info[Slot(h)] = Empty
    BY <1>1, <2>0 DEF RingInv, PushesLive, WriteInv, Pushing
  <2>4. PushesLive'
    BY <1>1, <2>0, <2>1 DEF RingInv, PushesLive, Pushing
  <2>5. SlotsPending'
    <3> SUFFICES ASSUME NEW s \in SlotIds, fc_info'[s] # Empty
                 PROVE  /\ Slot(fc_info'[s]) = s /\ ~InFlight(fc_info[s])'
                        /\ fc_info'[s] < fc_info_head'
                        /\ Wiped' <= fc_info'[s] /\ fc_info'[s] < Wiped' + fc_info_cnt
      BY DEF SlotsPending
    <3>1. CASE s = Slot(h)
      BY <3>1, <1>2, <1>3, <2>1, <2>2, <2>3 DEF WriteSlot
    <3>2. CASE s # Slot(h)
      BY <3>2, <1>3, <2>0, <2>1, <2>2 DEF RingInv, SlotsPending, WriteSlot
    <3> QED  BY <3>1, <3>2
  <2>6. PendingInSlots'
    <3> SUFFICES ASSUME NEW t \in Tickets, Wiped' <= t, t < fc_info_head', ~InFlight(t)'
                 PROVE  fc_info'[Slot(t)] = t
      BY DEF PendingInSlots
    <3>1. CASE t = h  BY <3>1, <1>3
    <3>2. CASE t # h
      <4>1. fc_info[Slot(t)] = t
        BY <3>2, <2>0, <2>1, <2>2 DEF RingInv, PendingInSlots, WriteSlot
      <4>2. t # Empty /\ Slot(t) \in SlotIds
        BY SlotInRing, RingAssumption DEF Tickets, Empty
      <4> QED  BY <4>1, <4>2, <1>3, <2>3
    <3> QED  BY <3>1, <3>2
  <2>7. WriteInv'
    <3> SUFFICES ASSUME NEW q \in Producers, prod'[q].pc = "write"
                 PROVE  /\ prod'[q].head < Wiped' + fc_info_cnt
                        /\ fc_info'[Slot(prod'[q].head)] = Empty
      BY DEF WriteInv
    <3> DEFINE g == prod[q].head
    <3>1. q # p /\ prod'[q] = prod[q]  BY <1>1
    <3>2. g < Wiped + fc_info_cnt /\ fc_info[Slot(g)] = Empty /\ Wiped <= g /\ g \in Nat
      BY <1>0, <2>0, <3>1, ProducerType DEF RingInv, WriteInv, PushesLive, Pushing
    <3>3. g # h
      BY <1>0, <1>1, <3>1 DEF TicketInv, Pushing
    <3>4. Slot(g) # Slot(h) /\ Slot(g) \in SlotIds
      <4> HIDE DEF g, h
      <4>1. g < h + fc_info_cnt /\ h < g + fc_info_cnt
        BY <1>2, <2>1, <2>3, <3>2, RingAssumption
      <4> QED  BY <1>2, <3>2, <3>3, <4>1, SameSlot, SlotInRing
    <3> QED  BY <1>3, <2>1, <3>1, <3>2, <3>4
  <2>8. ForwardInv'
    <3>1. cons.pc = "wipe" => fc_info'[Slot(cons.tail)] = cons.tail
      <4> SUFFICES ASSUME cons.pc = "wipe" PROVE fc_info'[Slot(cons.tail)] = cons.tail
        OBVIOUS
      <4>1. fc_info[Slot(cons.tail)] = cons.tail  BY <2>0 DEF RingInv, ForwardInv
      <4>2. cons.tail # Empty /\ Slot(cons.tail) \in SlotIds
        BY <1>0, Counters, SlotInRing DEF Empty
      <4> QED  BY <1>3, <2>3, <4>1, <4>2
    <3> QED  BY <2>0, <3>1 DEF RingInv, ForwardInv, WriteSlot
  <2> QED  BY <2>4, <2>5, <2>6, <2>7, <2>8 DEF RingInv
<1> QED  BY <1>4, <1>5, <1>6, <1>7 DEF IInv

-----------------------------------------------------------------------------
(* Steps of the consumer.  None of them changes a producer or the head.    *)

LEMMA TakeTailIInv == ASSUME IInv, TakeTail PROVE IInv'
<1>0. TypeOK /\ TicketInv /\ ConsumerInv  BY DEF IInv
<1>1. /\ cons.pc = "idle" /\ cons'.pc = "head" /\ cons'.tail = fc_info_tail
      /\ cons'.fc = cons.fc /\ fc_info_tail' = fc_info_tail + 1
  BY <1>0 DEF TypeOK, TakeTail
<1>2. TypeOK'
  <2>1. fc_info_tail' \in 0 .. MaxPush + 1
    BY <1>0, <1>1, Counters, RingAssumption DEF ConsumerInv
  <2>2. cons' \in [pc : {"idle", "head", "full", "wipe", "forward", "announce"},
                   tail : Nat, fc : Tickets \cup {Empty}]
    BY <1>0, Counters DEF TypeOK, TakeTail
  <2> QED  BY <1>0, <2>1, <2>2 DEF TypeOK, TakeTail
<1>3. TicketInv'
  BY <1>0, <1>1, Counters, ProducerType DEF TicketInv, TakeTail, Pushing
<1>4. ConsumerInv'
  BY <1>0, <1>1, Counters DEF ConsumerInv, TakeTail
<1>5. ASSUME ~lapped' PROVE RingInv'
  <2>0. RingInv  BY <1>5 DEF IInv, TakeTail
  <2>1. Wiped' = Wiped  BY <1>1 DEF TakeTail, Wiped
  <2>2. \A t : InFlight(t)' <=> InFlight(t)  BY DEF InFlight, Pushing, TakeTail
  <2>3. PushesLive'  BY <2>0, <2>1 DEF RingInv, PushesLive, Pushing, TakeTail
  <2>4. SlotsPending'  BY <2>0, <2>1, <2>2 DEF RingInv, SlotsPending, TakeTail
  <2>5. PendingInSlots'  BY <2>0, <2>1, <2>2 DEF RingInv, PendingInSlots, TakeTail
  <2>6. WriteInv'  BY <2>0, <2>1 DEF RingInv, WriteInv, TakeTail
  <2>7. ForwardInv'  BY <1>1, <2>0 DEF RingInv, ForwardInv, TakeTail
  <2> QED  BY <2>3, <2>4, <2>5, <2>6, <2>7 DEF RingInv
<1> QED  BY <1>2, <1>3, <1>4, <1>5 DEF IInv

LEMMA WaitHeadIInv == ASSUME IInv, WaitHead PROVE IInv'
<1>0. TypeOK /\ TicketInv /\ ConsumerInv  BY DEF IInv
<1>1. /\ cons.pc = "head" /\ cons'.pc = "full" /\ cons'.tail = cons.tail
      /\ cons'.fc = cons.fc
  BY <1>0 DEF TypeOK, WaitHead
<1>2. TypeOK'  BY <1>0 DEF TypeOK, WaitHead
<1>3. TicketInv'  BY <1>0 DEF TicketInv, WaitHead, Pushing
<1>4. ConsumerInv'  BY <1>0, <1>1 DEF ConsumerInv, WaitHead
<1>5. ASSUME ~lapped' PROVE RingInv'
  <2>0. RingInv  BY <1>5 DEF IInv, WaitHead
  <2>1. Wiped' = Wiped  BY <1>1 DEF WaitHead, Wiped
  <2>2. \A t : InFlight(t)' <=> InFlight(t)  BY DEF InFlight, Pushing, WaitHead
  <2>3. PushesLive'  BY <2>0, <2>1 DEF RingInv, PushesLive, Pushing, WaitHead
  <2>4. SlotsPending'  BY <2>0, <2>1, <2>2 DEF RingInv, SlotsPending, WaitHead
  <2>5. PendingInSlots'  BY <2>0, <2>1, <2>2 DEF RingInv, PendingInSlots, WaitHead
  <2>6. WriteInv'  BY <2>0, <2>1 DEF RingInv, WriteInv, WaitHead
  <2>7. ForwardInv'  BY <1>1, <2>0 DEF RingInv, ForwardInv, WaitHead
  <2> QED  BY <2>3, <2>4, <2>5, <2>6, <2>7 DEF RingInv
<1> QED  BY <1>2, <1>3, <1>4, <1>5 DEF IInv

\* What the consumer finds in its slot is its own ticket: a later one would be a
\* whole lap ahead.
LEMMA CopyOutIInv == ASSUME IInv, CopyOut PROVE IInv'
<1> DEFINE s == Slot(cons.tail)
<1>0. TypeOK /\ TicketInv /\ ConsumerInv  BY DEF IInv
<1>1. /\ cons.pc = "full" /\ cons'.pc = "wipe" /\ cons'.tail = cons.tail
      /\ cons'.fc = fc_info[s] /\ fc_info[s] # Empty
  BY <1>0 DEF TypeOK, CopyOut
<1>2. s \in SlotIds /\ fc_info[s] \in Tickets /\ fc_info[s] \in Nat
  BY <1>0, <1>1, Counters, SlotInRing, SlotType
<1>3. TypeOK'  BY <1>0, <1>2 DEF TypeOK, CopyOut
<1>4. TicketInv'  BY <1>0 DEF TicketInv, CopyOut, Pushing
<1>5. ConsumerInv'  BY <1>0, <1>1 DEF ConsumerInv, CopyOut
<1>6. ASSUME ~lapped' PROVE RingInv'
  <2>0. RingInv  BY <1>6 DEF IInv, CopyOut
  <2>1. Wiped' = Wiped /\ Wiped = cons.tail  BY <1>1 DEF CopyOut, Wiped
  <2>2. \A t : InFlight(t)' <=> InFlight(t)  BY DEF InFlight, Pushing, CopyOut
  <2>3. PushesLive'  BY <2>0, <2>1 DEF RingInv, PushesLive, Pushing, CopyOut
  <2>4. SlotsPending'  BY <2>0, <2>1, <2>2 DEF RingInv, SlotsPending, CopyOut
  <2>5. PendingInSlots'  BY <2>0, <2>1, <2>2 DEF RingInv, PendingInSlots, CopyOut
  <2>6. WriteInv'  BY <2>0, <2>1 DEF RingInv, WriteInv, CopyOut
  <2>7. fc_info[s] = cons.tail
    <3>1. Slot(fc_info[s]) = s /\ cons.tail <= fc_info[s] /\ fc_info[s] < cons.tail + fc_info_cnt
      BY <1>1, <1>2, <2>0, <2>1 DEF RingInv, SlotsPending
    <3>2. cons.tail \in Nat  BY <1>0, Counters
    <3>3. cons.tail < fc_info[s] + fc_info_cnt
      BY <1>2, <3>1, <3>2, RingAssumption
    <3> QED  BY <1>2, <3>1, <3>2, <3>3, SameSlot
  <2>8. ForwardInv'  BY <1>1, <2>0, <2>7 DEF RingInv, ForwardInv, CopyOut
  <2> QED  BY <2>3, <2>4, <2>5, <2>6, <2>8 DEF RingInv
<1> QED  BY <1>3, <1>4, <1>5, <1>6 DEF IInv

LEMMA WipeSlotIInv == ASSUME IInv, WipeSlot PROVE IInv'
<1> DEFINE k == Slot(cons.tail)
<1>0. TypeOK /\ TicketInv /\ ConsumerInv  BY DEF IInv
<1>1. /\ cons.pc = "wipe" /\ cons'.pc = "forward" /\ cons'.tail = cons.tail
      /\ cons'.fc = cons.fc
  BY <1>0 DEF TypeOK, WipeSlot
<1>2. k \in SlotIds /\ cons.tail \in Nat /\ cons.tail # Empty
  BY <1>0, Counters, SlotInRing DEF Empty
<1>3. fc_info'[k] = Empty /\ \A s \in SlotIds : s # k => fc_info'[s] = fc_info[s]
  BY <1>0, <1>2 DEF TypeOK, WipeSlot
<1>4. TypeOK'  BY <1>0, <1>2 DEF TypeOK, WipeSlot
<1>5. TicketInv'  BY <1>0 DEF TicketInv, WipeSlot, Pushing
<1>6. ConsumerInv'  BY <1>0, <1>1 DEF ConsumerInv, WipeSlot
<1>7. ASSUME ~lapped' PROVE RingInv'
  <2>0. RingInv  BY <1>7 DEF IInv, WipeSlot
  <2>1. Wiped = cons.tail /\ Wiped' = cons.tail + 1
    BY <1>0, <1>1 DEF WipeSlot, Wiped, ConsumerInv
  <2>2. \A t : InFlight(t)' <=> InFlight(t)  BY DEF InFlight, Pushing, WipeSlot
  <2>3. fc_info[k] = cons.tail  BY <1>1, <2>0 DEF RingInv, ForwardInv
  <2>4. ~InFlight(cons.tail)
    BY <1>2, <2>0, <2>3 DEF RingInv, SlotsPending
  <2>5. PushesLive'
    <3> SUFFICES ASSUME NEW p \in Producers, Pushing(p) PROVE Wiped' <= prod[p].head
      BY DEF PushesLive, Pushing, WipeSlot
    <3>1. cons.tail <= prod[p].head /\ prod[p].head # cons.tail
      BY <2>0, <2>1, <2>4 DEF RingInv, PushesLive, InFlight
    <3>2. prod[p].head \in Nat  BY <1>0, ProducerType
    <3> QED  BY <1>2, <2>1, <3>1, <3>2
  <2>6. SlotsPending'
    <3> SUFFICES ASSUME NEW s \in SlotIds, fc_info'[s] # Empty
                 PROVE  /\ Slot(fc_info'[s]) = s /\ ~InFlight(fc_info[s])'
                        /\ fc_info'[s] < fc_info_head'
                        /\ Wiped' <= fc_info'[s] /\ fc_info'[s] < Wiped' + fc_info_cnt
      BY DEF SlotsPending
    <3>1. s # k /\ fc_info'[s] = fc_info[s]  BY <1>3
    <3>2. /\ Slot(fc_info[s]) = s /\ ~InFlight(fc_info[s]) /\ fc_info[s] < fc_info_head
          /\ cons.tail <= fc_info[s] /\ fc_info[s] < cons.tail + fc_info_cnt
      BY <2>0, <2>1, <3>1 DEF RingInv, SlotsPending
    <3>3. fc_info[s] # cons.tail  BY <3>1, <3>2
    <3>4. fc_info[s] \in Nat  BY <1>0, <3>1, SlotType
    <3>5. cons.tail + 1 <= fc_info[s] /\ fc_info[s] < cons.tail + 1 + fc_info_cnt
      BY <1>2, <3>2, <3>3, <3>4, RingAssumption
    <3> QED  BY <2>1, <2>2, <3>1, <3>2, <3>5 DEF WipeSlot
  <2>7. PendingInSlots'
    <3> SUFFICES ASSUME NEW t \in Tickets, Wiped' <= t, t < fc_info_head', ~InFlight(t)'
                 PROVE  fc_info'[Slot(t)] = t
      BY DEF PendingInSlots
    <3>1. t \in Nat /\ cons.tail <= t /\ t # cons.tail
      BY <1>2, <2>1, RingAssumption DEF Tickets
    <3>2. fc_info[Slot(t)] = t
      BY <2>0, <2>1, <2>2, <3>1 DEF RingInv, PendingInSlots, WipeSlot
    <3>3. Slot(t) # k /\ Slot(t) \in SlotIds  BY <2>3, <3>1, <3>2, SlotInRing
    <3> QED  BY <1>3, <3>2, <3>3
  <2>8. WriteInv'
    <3> SUFFICES ASSUME NEW p \in Producers, prod[p].pc = "write"
                 PROVE  /\ prod[p].head < Wiped' + fc_info_cnt
                        /\ fc_info'[Slot(prod[p].head)] = Empty
      BY DEF WriteInv, WipeSlot
    <3>1. prod[p].head < cons.tail + fc_info_cnt /\ fc_info[Slot(prod[p].head)] = Empty
      BY <2>0, <2>1 DEF RingInv, WriteInv
    <3>2. prod[p].head \in Nat  BY <1>0, ProducerType
    <3>3. Slot(prod[p].head) \in SlotIds  BY <3>2, SlotInRing
    <3> QED  BY <1>2, <1>3, <2>1, <3>1, <3>2, <3>3, RingAssumption
  <2>9. ForwardInv'  BY <1>1, <2>0 DEF RingInv, ForwardInv, WipeSlot
  <2> QED  BY <2>5, <2>6, <2>7, <2>8, <2>9 DEF RingInv
<1> QED  BY <1>4, <1>5, <1>6, <1>7 DEF IInv

\* A channel that has had every ticket before the last has it as well.
LEMMA AppendInOrder ==
    ASSUME NEW ch \in Seq(Tickets), NEW t \in Tickets, Len(ch) = t,
           \A i \in 1 .. Len(ch) : ch[i] = i - 1
    PROVE  /\ Append(ch, t) \in Seq(Tickets) /\ Len(Append(ch, t)) = t + 1
           /\ \A i \in 1 .. Len(Append(ch, t)) : Append(ch, t)[i] = i - 1
<1>1. Len(ch) \in Nat /\ Len(Append(ch, t)) = Len(ch) + 1  OBVIOUS
<1>2. ASSUME NEW i \in 1 .. Len(ch) + 1 PROVE Append(ch, t)[i] = i - 1
  <2>1. CASE i = Len(ch) + 1  BY <1>1, <2>1
  <2>2. CASE i # Len(ch) + 1  BY <1>1, <2>2
  <2> QED  BY <2>1, <2>2
<1> QED  BY <1>1, <1>2

LEMMA ForwardIInv == ASSUME IInv, Forward PROVE IInv'
<1>0. TypeOK /\ TicketInv /\ ConsumerInv  BY DEF IInv
<1>1. /\ cons.pc = "forward" /\ cons'.pc = "announce" /\ cons'.tail = cons.tail
      /\ cons'.fc = cons.fc
  BY <1>0 DEF TypeOK, Forward
<1>2. cons.fc \in Tickets /\ fc_info_tail = cons.tail + 1
  BY <1>0, <1>1 DEF TypeOK, ConsumerInv
<1>3. TypeOK'
  <2>1. fc_in' \in Seq(Tickets)  BY <1>0, <1>2 DEF TypeOK, Forward
  <2> QED  BY <1>0, <2>1 DEF TypeOK, Forward
<1>4. TicketInv'  BY <1>0 DEF TicketInv, Forward, Pushing
<1>5. ConsumerInv'  BY <1>0, <1>1 DEF ConsumerInv, Forward
<1>6. ASSUME ~lapped' PROVE RingInv'
  <2>0. RingInv  BY <1>6 DEF IInv, Forward
  <2>1. Wiped' = Wiped  BY <1>1 DEF Forward, Wiped
  <2>2. \A t : InFlight(t)' <=> InFlight(t)  BY DEF InFlight, Pushing, Forward
  <2>3. PushesLive'  BY <2>0, <2>1 DEF RingInv, PushesLive, Pushing, Forward
  <2>4. SlotsPending'  BY <2>0, <2>1, <2>2 DEF RingInv, SlotsPending, Forward
  <2>5. PendingInSlots'  BY <2>0, <2>1, <2>2 DEF RingInv, PendingInSlots, Forward
  <2>6. WriteInv'  BY <2>0, <2>1 DEF RingInv, WriteInv, Forward
  <2>7. ForwardInv'
    <3>1. /\ cons.fc = cons.tail /\ Len(fc_in) = cons.tail
          /\ \A i \in 1 .. Len(fc_in) : fc_in[i] = i - 1
      BY <1>1, <2>0 DEF RingInv, ForwardInv
    <3>2. fc_in \in Seq(Tickets) /\ fc_in' = Append(fc_in, cons.fc)
      BY <1>0 DEF TypeOK, Forward
    <3>3. /\ Len(fc_in') = cons.tail + 1
          /\ \A i \in 1 .. Len(fc_in') : fc_in'[i] = i - 1
      BY <1>2, <3>1, <3>2, AppendInOrder
    <3> QED  BY <1>1, <1>2, <2>0, <3>3 DEF RingInv, ForwardInv, Forward
  <2> QED  BY <2>3, <2>4, <2>5, <2>6, <2>7 DEF RingInv
<1> QED  BY <1>3, <1>4, <1>5, <1>6 DEF IInv

LEMMA AnnounceIInv == ASSUME IInv, Announce PROVE IInv'
<1>0. TypeOK /\ TicketInv /\ ConsumerInv  BY DEF IInv
<1>1. cons.pc = "announce" /\ cons'.pc = "idle" /\ cons'.tail = cons.tail
  BY <1>0 DEF TypeOK, Announce
<1>2. cons.fc \in Tickets /\ fc_info_tail = cons.tail + 1
  BY <1>0, <1>1 DEF TypeOK, ConsumerInv
<1>3. TypeOK'
  <2>1. fc2_in' \in Seq(Tickets)  BY <1>0, <1>2 DEF TypeOK, Announce
  <2> QED  BY <1>0, <2>1 DEF TypeOK, Announce
<1>4. TicketInv'  BY <1>0 DEF TicketInv, Announce, Pushing
<1>5. ConsumerInv'  BY <1>0, <1>1, Counters DEF ConsumerInv, Announce
<1>6. ASSUME ~lapped' PROVE RingInv'
  <2>0. RingInv  BY <1>6 DEF IInv, Announce
  <2>1. Wiped' = Wiped  BY <1>1 DEF Announce, Wiped
  <2>2. \A t : InFlight(t)' <=> InFlight(t)  BY DEF InFlight, Pushing, Announce
  <2>3. PushesLive'  BY <2>0, <2>1 DEF RingInv, PushesLive, Pushing, Announce
  <2>4. SlotsPending'  BY <2>0, <2>1, <2>2 DEF RingInv, SlotsPending, Announce
  <2>5. PendingInSlots'  BY <2>0, <2>1, <2>2 DEF RingInv, PendingInSlots, Announce
  <2>6. WriteInv'  BY <2>0, <2>1 DEF RingInv, WriteInv, Announce
  <2>7. ForwardInv'
    <3>1. /\ cons.fc = cons.tail /\ Len(fc2_in) = cons.tail
          /\ \A i \in 1 .. Len(fc2_in) : fc2_in[i] = i - 1
      BY <1>1, <2>0 DEF RingInv, ForwardInv
    <3>2. fc2_in \in Seq(Tickets) /\ fc2_in' = Append(fc2_in, cons.fc)
      BY <1>0 DEF TypeOK, Announce
    <3>3. /\ Len(fc2_in') = cons.tail + 1
          /\ \A i \in 1 .. Len(fc2_in') : fc2_in'[i] = i - 1
      BY <1>2, <3>1, <3>2, AppendInOrder
    <3> QED  BY <1>1, <1>2, <2>0, <3>3 DEF RingInv, ForwardInv, Announce
  <2> QED  BY <2>3, <2>4, <2>5, <2>6, <2>7 DEF RingInv
<1> QED  BY <1>3, <1>4, <1>5, <1>6 DEF IInv

\* A step that changes nothing.
LEMMA StutterIInv == ASSUME IInv, UNCHANGED vars PROVE IInv'
<1> USE DEF vars
<1>1. TypeOK' /\ TicketInv' /\ ConsumerInv'
  BY DEF IInv, TypeOK, TicketInv, ConsumerInv, Pushing
<1>2. ASSUME ~lapped' PROVE RingInv'
  <2>0. RingInv  BY <1>2 DEF IInv
  <2>1. \A t : InFlight(t)' <=> InFlight(t)  BY DEF InFlight, Pushing
  <2>2. Wiped' = Wiped  BY DEF Wiped
  <2>3. PushesLive' /\ WriteInv' /\ ForwardInv'
    BY <2>0, <2>2 DEF RingInv, PushesLive, WriteInv, ForwardInv, Pushing
  <2>4. SlotsPending' /\ PendingInSlots'
    BY <2>0, <2>1, <2>2 DEF RingInv, SlotsPending, PendingInSlots
  <2> QED  BY <2>3, <2>4 DEF RingInv
<1> QED  BY <1>1, <1>2 DEF IInv

LEMMA NextIInv == ASSUME IInv, [Next]_vars PROVE IInv'
<1>1. CASE \E p \in Producers : ProducerStep(p)
  <2> PICK p \in Producers : ProducerStep(p)  BY <1>1
  <2> QED
    BY TakeTicketIInv, LoadTailIInv, SlotClearIInv, WriteSlotIInv DEF ProducerStep
<1>2. CASE ConsumerStep
  BY <1>2, TakeTailIInv, WaitHeadIInv, CopyOutIInv, WipeSlotIInv, ForwardIInv, AnnounceIInv
  DEF ConsumerStep
<1>3. CASE Drained  BY <1>3, StutterIInv DEF Drained
<1>4. CASE UNCHANGED vars  BY <1>4, StutterIInv
<1> QED  BY <1>1, <1>2, <1>3, <1>4 DEF Next

-----------------------------------------------------------------------------
(* Theorems.                                                               *)

\* The inductive invariant.
THEOREM Invariance == Spec => []IInv
<1>1. Init => IInv  BY InitIInv
<1>2. IInv /\ [Next]_vars => IInv'  BY NextIInv
<1> QED  BY <1>1, <1>2, PTL DEF Spec

\* The state keeps its types: in particular the consumer's tail is never more
\* than one ticket ahead of what was pushed, and only real tickets are forwarded.
THEOREM TypeCorrect == Spec => []TypeOK
<1>1. IInv => TypeOK  BY DEF IInv
<1> QED  BY <1>1, Invariance, PTL

\* fc_worker forwards completions in the order of the tickets of fc_push, each
\* once, on both channels, as long as no producer has been overtaken by a lap.
THEOREM FifoHolds == Spec => []Fifo
<1>1. IInv => Fifo  BY DEF IInv, RingInv, ForwardInv, Fifo
<1> QED  BY <1>1, Invariance, PTL

\* No record is dropped inside the ring without a lap: fc_push writes only to an
\* empty slot and fc_pop wipes only the record it has copied.
THEOREM NoOverwriteHolds == Spec => NoOverwrite
<1> DEFINE Kept == \A s \in SlotIds :
             (~lapped' /\ fc_info'[s] # fc_info[s] /\ fc_info[s] # Empty)
                => (fc_info'[s] = Empty /\ cons.fc = fc_info[s])
<1>1. ASSUME IInv, Next PROVE Kept
  <2> SUFFICES ASSUME NEW s \in SlotIds, ~lapped', fc_info'[s] # fc_info[s],
                      fc_info[s] # Empty
               PROVE  fc_info'[s] = Empty /\ cons.fc = fc_info[s]
    OBVIOUS
  <2>0. TypeOK  BY <1>1 DEF IInv
  <2>1. CASE \E p \in Producers : WriteSlot(p)
    <3> PICK p \in Producers : WriteSlot(p)  BY <2>1
    <3>1. RingInv  BY <1>1 DEF IInv, WriteSlot
    <3>2. fc_info[Slot(prod[p].head)] = Empty  BY <3>1 DEF RingInv, WriteInv, WriteSlot
    <3>3. s = Slot(prod[p].head)  BY <2>0 DEF TypeOK, WriteSlot
    <3> QED  BY <3>2, <3>3
  <2>2. CASE WipeSlot
    <3>1. RingInv  BY <1>1, <2>2 DEF IInv, WipeSlot
    <3>2. cons.fc = cons.tail /\ fc_info[Slot(cons.tail)] = cons.tail
      BY <2>2, <3>1 DEF RingInv, ForwardInv, WipeSlot
    <3>3. s = Slot(cons.tail) /\ fc_info'[s] = Empty
      BY <2>0, <2>2 DEF TypeOK, WipeSlot
    <3> QED  BY <3>2, <3>3
  <2>3. CASE fc_info' = fc_info  BY <2>3
  <2>4. (\E p \in Producers : WriteSlot(p)) \/ WipeSlot \/ fc_info' = fc_info
    BY <1>1 DEF Next, ProducerStep, ConsumerStep, Drained, vars, TakeTicket, LoadTail,
                SlotClear, TakeTail, WaitHead, CopyOut, Forward, Announce
  <2> QED  BY <2>1, <2>2, <2>3, <2>4
<1>2. IInv /\ [Next]_vars => [Kept]_vars  BY <1>1
<1> QED  BY <1>2, Invariance, PTL DEF Spec, NoOverwrite
=============================================================================
