------------------------------- MODULE FcRing -------------------------------
(***************************************************************************)
(* The file-completion ring of libdtn/src/dtn.c: workers report finished   *)
(* files with fc_push, fc_worker (src/escp.rs) takes them out with fc_pop  *)
(* and forwards each to the verifier (fc_in) and to the thread that tells  *)
(* the receiver how many blocks to expect (fc2_in).                        *)
(*                                                                         *)
(* A push is named by the ticket fc_info_head gave it: 0, 1, 2, ...        *)
(***************************************************************************)
EXTENDS Integers, Sequences

CONSTANTS Producers,    \* threads that call fc_push
          fc_info_cnt,  \* slots of the ring
          MaxPush       \* bound: pushes in a behaviour

ASSUME RingAssumption ==
    /\ fc_info_cnt \in Nat \ {0}
    /\ MaxPush \in Nat

SlotIds == 0 .. fc_info_cnt - 1
Tickets == 0 .. MaxPush - 1
Empty   == -1                     \* a slot whose state is 0

VARIABLES
    fc_info,        \* the slots
    fc_info_head,   \* tickets given to producers
    fc_info_tail,   \* tickets taken by the consumer
    prod,           \* producers: program counter, head, local copy of the tail
    cons,           \* the consumer: program counter, tail, the record popped
    fc_in,          \* completions sent to the verifier
    fc2_in,         \* completions sent to the block-count announcer
    lapped          \* history: a slot was taken over an older push, unwritten

vars == <<fc_info, fc_info_head, fc_info_tail, prod, cons, fc_in, fc2_in, lapped>>

Slot(n) == n % fc_info_cnt

ProducerIdle == [pc |-> "idle", head |-> 0, tail |-> 0]
ConsumerIdle == [pc |-> "idle", tail |-> 0, fc |-> Empty]

Init ==
    /\ fc_info = [s \in SlotIds |-> Empty]
    /\ fc_info_head = 0 /\ fc_info_tail = 0
    /\ prod = [p \in Producers |-> ProducerIdle]
    /\ cons = ConsumerIdle
    /\ fc_in = << >> /\ fc2_in = << >>
    /\ lapped = FALSE

-----------------------------------------------------------------------------
(* fc_push                                                                  *)

TakeTicket(p) ==
    /\ prod[p].pc = "idle"
    /\ fc_info_head < MaxPush
    /\ fc_info_head' = fc_info_head + 1
    /\ prod' = [prod EXCEPT ![p].pc = "tail", ![p].head = fc_info_head]
    /\ UNCHANGED <<fc_info, fc_info_tail, cons, fc_in, fc2_in, lapped>>

\* Mutant of LoadTail: the size of the ring is taken off the wrong side.
LoadTailSign(p) ==
    /\ prod[p].pc = "tail"
    /\ prod' = [prod EXCEPT ![p].tail = fc_info_tail,
                            ![p].pc = IF fc_info_tail <= prod[p].head + fc_info_cnt
                                      THEN "tail" ELSE "clear"]
    /\ UNCHANGED <<fc_info, fc_info_head, fc_info_tail, cons, fc_in, fc2_in, lapped>>

\* Wait until the tail is within one lap of the ticket.
LoadTail(p) ==
    /\ prod[p].pc = "tail"
    /\ prod' = [prod EXCEPT ![p].tail = fc_info_tail,
                            ![p].pc = IF fc_info_tail + fc_info_cnt <= prod[p].head
                                      THEN "tail" ELSE "clear"]
    /\ UNCHANGED <<fc_info, fc_info_head, fc_info_tail, cons, fc_in, fc2_in, lapped>>

\* An older push has yet to write the slot this push is about to use.
Overtaken(p) ==
    \E q \in Producers :
        /\ prod[q].pc # "idle"
        /\ prod[q].head < prod[p].head
        /\ Slot(prod[q].head) = Slot(prod[p].head)

\* Mutant of SlotClear: the wait for the slot to be clear is dropped.
SlotAssumedClear(p) ==
    /\ prod[p].pc = "clear"
    /\ prod' = [prod EXCEPT ![p].pc = "write"]
    /\ lapped' = (lapped \/ Overtaken(p))
    /\ UNCHANGED <<fc_info, fc_info_head, fc_info_tail, cons, fc_in, fc2_in>>

\* Wait until the slot is clear.
SlotClear(p) ==
    /\ prod[p].pc = "clear"
    /\ fc_info[Slot(prod[p].head)] = Empty
    /\ prod' = [prod EXCEPT ![p].pc = "write"]
    /\ lapped' = (lapped \/ Overtaken(p))
    /\ UNCHANGED <<fc_info, fc_info_head, fc_info_tail, cons, fc_in, fc2_in>>

WriteSlot(p) ==
    /\ prod[p].pc = "write"
    /\ fc_info' = [fc_info EXCEPT ![Slot(prod[p].head)] = prod[p].head]
    /\ prod' = [prod EXCEPT ![p] = ProducerIdle]
    /\ UNCHANGED <<fc_info_head, fc_info_tail, cons, fc_in, fc2_in, lapped>>

-----------------------------------------------------------------------------
(* fc_pop and fc_worker                                                     *)

\* The tail moves before the slot is read.
TakeTail ==
    /\ cons.pc = "idle"
    /\ fc_info_tail' = fc_info_tail + 1
    /\ cons' = [cons EXCEPT !.pc = "head", !.tail = fc_info_tail]
    /\ UNCHANGED <<fc_info, fc_info_head, prod, fc_in, fc2_in, lapped>>

WaitHead ==
    /\ cons.pc = "head"
    /\ cons.tail < fc_info_head
    /\ cons' = [cons EXCEPT !.pc = "full"]
    /\ UNCHANGED <<fc_info, fc_info_head, fc_info_tail, prod, fc_in, fc2_in, lapped>>

\* Mutant of CopyOut: the slot is copied without waiting for it to be filled.
CopyOutEarly ==
    /\ cons.pc = "full"
    /\ cons' = [cons EXCEPT !.pc = "wipe", !.fc = fc_info[Slot(cons.tail)]]
    /\ UNCHANGED <<fc_info, fc_info_head, fc_info_tail, prod, fc_in, fc2_in, lapped>>

\* Wait until a worker has filled the slot, then copy it.
CopyOut ==
    /\ cons.pc = "full"
    /\ fc_info[Slot(cons.tail)] # Empty
    /\ cons' = [cons EXCEPT !.pc = "wipe", !.fc = fc_info[Slot(cons.tail)]]
    /\ UNCHANGED <<fc_info, fc_info_head, fc_info_tail, prod, fc_in, fc2_in, lapped>>

\* Mutant of WipeSlot: the slot is not cleared.
WipeSlotNone ==
    /\ cons.pc = "wipe"
    /\ cons' = [cons EXCEPT !.pc = "forward"]
    /\ UNCHANGED <<fc_info, fc_info_head, fc_info_tail, prod, fc_in, fc2_in, lapped>>

WipeSlot ==
    /\ cons.pc = "wipe"
    /\ fc_info' = [fc_info EXCEPT ![Slot(cons.tail)] = Empty]
    /\ cons' = [cons EXCEPT !.pc = "forward"]
    /\ UNCHANGED <<fc_info_head, fc_info_tail, prod, fc_in, fc2_in, lapped>>

Forward ==
    /\ cons.pc = "forward"
    /\ fc_in' = Append(fc_in, cons.fc)
    /\ cons' = [cons EXCEPT !.pc = "announce"]
    /\ UNCHANGED <<fc_info, fc_info_head, fc_info_tail, prod, fc2_in, lapped>>

Announce ==
    /\ cons.pc = "announce"
    /\ fc2_in' = Append(fc2_in, cons.fc)
    /\ cons' = [cons EXCEPT !.pc = "idle", !.fc = Empty]
    /\ UNCHANGED <<fc_info, fc_info_head, fc_info_tail, prod, fc_in, lapped>>

-----------------------------------------------------------------------------
ProducerStep(p) == TakeTicket(p) \/ LoadTail(p) \/ SlotClear(p) \/ WriteSlot(p)
ConsumerStep == TakeTail \/ WaitHead \/ CopyOut \/ WipeSlot \/ Forward \/ Announce

\* Every push is done and the consumer waits for one more or, after a lap,
\* for a record that was overwritten.
Drained ==
    /\ \A p \in Producers : prod[p].pc = "idle"
    /\ fc_info_head = MaxPush
    /\ \/ cons.pc = "head" /\ cons.tail = MaxPush
       \/ lapped /\ cons.pc = "full" /\ fc_info[Slot(cons.tail)] = Empty
    /\ UNCHANGED vars

Next == (\E p \in Producers : ProducerStep(p)) \/ ConsumerStep \/ Drained

Spec == Init /\ [][Next]_vars

\* Worker threads and fc_worker are scheduled; starting another push is up to
\* the workers.
FairSpec ==
    /\ Spec
    /\ \A p \in Producers : WF_vars(LoadTail(p) \/ SlotClear(p) \/ WriteSlot(p))
    /\ WF_vars(ConsumerStep)

-----------------------------------------------------------------------------
TypeOK ==
    /\ fc_info \in [SlotIds -> Tickets \cup {Empty}]
    /\ fc_info_head \in 0 .. MaxPush
    /\ fc_info_tail \in 0 .. MaxPush + 1
    /\ prod \in [Producers -> [pc : {"idle", "tail", "clear", "write"},
                               head : Nat, tail : Nat]]
    /\ cons \in [pc : {"idle", "head", "full", "wipe", "forward", "announce"},
                 tail : Nat, fc : Tickets \cup {Empty}]
    /\ fc_in \in Seq(Tickets) /\ fc2_in \in Seq(Tickets)
    /\ lapped \in BOOLEAN

\* Completions come out of the ring in the order fc_push took its tickets,
\* each exactly once ("FIFO ring buffer", dtn.c:62), to both channels, as long
\* as no producer has been overtaken by a whole lap.
Fifo ==
    ~lapped => /\ \A i \in 1 .. Len(fc_in) : fc_in[i] = i - 1
               /\ \A i \in 1 .. Len(fc2_in) : fc2_in[i] = i - 1

\* A record is wiped from its slot only after it was copied out, and a write
\* never replaces a record that has not been copied: without a lap no
\* completion is dropped inside the ring.
NoOverwrite ==
    [][\A s \in SlotIds :
         (~lapped' /\ fc_info'[s] # fc_info[s] /\ fc_info[s] # Empty)
            => (fc_info'[s] = Empty /\ cons.fc = fc_info[s])]_vars

\* Every push that took a ticket is forwarded: producers waiting for the tail
\* and the consumer waiting for a slot do not wait for each other for ever.
EveryPushForwarded ==
    \A n \in Tickets : (fc_info_head > n) ~> (lapped \/ Len(fc2_in) > n)
=============================================================================
