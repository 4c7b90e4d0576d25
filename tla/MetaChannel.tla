---------------------------- MODULE MetaChannel ----------------------------
(***************************************************************************)
(* What the metadata path promises to its user (meta_recv / meta_complete, *)
(* "meta_ functions are SPSC"): a reliable FIFO of messages, of which the  *)
(* reader holds the oldest, intact, from meta_recv to meta_complete.       *)
(***************************************************************************)
EXTENDS Sequences

CONSTANTS Messages, NoMessage
VARIABLES queue,     \* messages published and not completed
          current    \* the message the reader holds

Init == queue = << >> /\ current = NoMessage

Deliver(m) == queue' = Append(queue, m) /\ UNCHANGED current

Receive == /\ current = NoMessage
           /\ queue # << >>
           /\ current' = Head(queue)
           /\ UNCHANGED queue

Complete == /\ current # NoMessage
            /\ queue' = Tail(queue)
            /\ current' = NoMessage

Next == (\E m \in Messages : Deliver(m)) \/ Receive \/ Complete

Spec == Init /\ [][Next]_<<queue, current>>
=============================================================================
