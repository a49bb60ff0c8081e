------------------------------- MODULE ForkJoin -------------------------------
(* What a task system promises: a tree of tasks in which each task runs once, *)
(* after its parent has spawned it, and completes after all that it spawned.  *)
CONSTANTS Tasks, RootTask, Parent   \* Parent: from a task other than RootTask to its parent

VARIABLE status

vars == <<status>>
ChildrenOf(k) == {c \in Tasks \ {RootTask} : Parent[c] = k}

Init == status = [k \in Tasks |-> "unknown"]

Spawn(k) == /\ status[k] = "unknown"
            /\ k # RootTask => status[Parent[k]] = "running"
            /\ status' = [status EXCEPT ![k] = "spawned"]
Start(k) == status[k] = "spawned" /\ status' = [status EXCEPT ![k] = "running"]

\* A task whose system was cancelled completes without having spawned its children.
Complete(k) == /\ status[k] = "running"
               /\ \A c \in ChildrenOf(k) : status[c] \in {"unknown", "completed"}
               /\ status' = [status EXCEPT ![k] = "completed"]

Next == \E k \in Tasks : Spawn(k) \/ Start(k) \/ Complete(k)

Spec == Init /\ [][Next]_vars
===============================================================================
