----------------------------- MODULE MCLogRing -----------------------------
(* A small instance of LogRing for TLC. *)
EXTENDS LogRing

\* Each ring is overrun: one message more than its slots.
Bounds == [r \in Rings |-> N + 1]
=============================================================================
