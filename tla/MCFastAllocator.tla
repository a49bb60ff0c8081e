---------------------------- MODULE MCFastAllocator ----------------------------
(* Instances of FastAllocator for TLC                                            *)
EXTENDS FastAllocator, TLC
CONSTANTS t1, t2, t3
MCThree == {t1, t2, t3}
MCTwoSlots == [t \in Threads |-> IF t = t3 THEN 2 ELSE 1]
MCPair == Permutations({t1, t2})
\* Bound: with more pieces in use than this nothing more is done.
FewPieces == Cardinality(handedOut) <= 3
===============================================================================
