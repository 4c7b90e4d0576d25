-------------------------- MODULE MCFileIteration --------------------------
(* Small instances of FileIteration for TLC. *)
EXTENDS FileIteration

\* A tree: the sources are file f and directory d1, which holds directory d2,
\* which holds file a and an entry that is gone when it is opened; c and e are
\* named by a file list.
TreeWithoutList == {"f", "d1", "d2", "a", "x"}
Tree == TreeWithoutList \cup {"c", "e"}

TreeKind == [e \in Entries |-> CASE e \in {"d1", "d2"} -> "dir"
                               [] e = "x" -> "ignored"
                               [] OTHER -> "file"]
TreeChildren == [e \in Entries |-> CASE e = "d1" -> {"d2"}
                                   [] e = "d2" -> {"a", "x"}
                                   [] OTHER -> {}]
TreeSources == <<"f", "d1">>
NoList == << >>
TwoListed == <<"c", "e">>

ASSUME TreeIsForest == Forest
=============================================================================
