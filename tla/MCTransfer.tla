----------------------------- MODULE MCTransfer -----------------------------
(* A small instance of Transfer for TLC. *)
EXTENDS Transfer

\* File 1 has two blocks, file 2 one.
TwoOne == <<2, 1>>
FirstBlock == {<<1, 0>>}

\* File 2 finds a slot beside file 1, file 1 only in an empty table.
Tight == <<1, 2>>
=============================================================================
