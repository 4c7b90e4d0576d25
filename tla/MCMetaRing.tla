----------------------------- MODULE MCMetaRing -----------------------------
(* Small instances of MetaRing for TLC. *)
EXTENDS MetaRing
Incr3 == 1 .. 3
=============================================================================
