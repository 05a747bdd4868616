----------------------------- MODULE MCNodesFile -----------------------------
(***************************************************************************)
(* A file of two nodes with one place each, for model checking NodesFile.  *)
(* A capacity of two digits makes a row wider by two bytes; two such rows  *)
(* do not fit in a buffer of four.  A third node can only be misread.      *)
(***************************************************************************)
EXTENDS NodesFile

MCInitialCapacity == [r \in 1 .. 2 |-> 1]
MCCapInputs == {2, 10}
OneDigitInputs == {2, 3}
MCMisreadCaps == {3}
MCRowSize == [r \in Rows |-> [c \in Capacities |-> IF c >= 10 THEN 3 ELSE 1]]

=============================================================================
