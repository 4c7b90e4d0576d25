--------------------------- MODULE MCFileTable ---------------------------
(* Small instances of FileTable for TLC. *)
EXTENDS FileTable

Slots2 == 1 .. 2
Slots3 == 0 .. 2
Slots4 == 0 .. 3
FDs2 == {3, 4}
FDs4 == 3 .. 6

\* Consecutive numbers start their probes at neighbouring slots.
ProbeAll == [f \in FileNos |-> [k \in 1 .. CC |->
                CHOOSE s \in Slots : Cardinality({t \in Slots : t < s})
                                      = (f + k) % Cardinality(Slots)]]

NoBlocks == [f \in FileNos |-> 0]
OneBlock == [f \in FileNos |-> 1]
Mixed    == [f \in FileNos |-> f % 2]
=============================================================================
