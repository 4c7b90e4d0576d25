----------------------------- MODULE MCMetaSend -----------------------------
(* Small instances of MetaSend for TLC. *)
EXTENDS MetaSend, TLC
CallerSymmetry == Permutations(Threads)
=============================================================================
