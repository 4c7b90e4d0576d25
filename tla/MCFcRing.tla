------------------------------ MODULE MCFcRing ------------------------------
(* Small instances of FcRing for TLC: the constants are given in the .cfg.  *)
EXTENDS FcRing
=============================================================================
