--------------------------- MODULE MCTaskScheduler ---------------------------
(* Instances of TaskScheduler for TLC: a tree of tasks.                       *)
EXTENDS TaskScheduler

Tree == [k \in {"a", "b", "a1"} |-> IF k = "a1" THEN "a" ELSE "root"]
=============================================================================
