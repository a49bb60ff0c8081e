\* A root task, its two children, one of which has a child; two closures may throw. The second
\* thread joins or comes from the thread pool.
SPECIFICATION FairSpec
CONSTANTS
    Tasks = {"root", "a", "b", "a1"}
    RootTask = "root"
    Parent <- Tree
    Throwers = {"b", "a1"}
    Root = main
    Helpers = {h1}
    TASK_STACK_SIZE = 4
    Nobody = Nobody
INVARIANT SchedulerInv
PROPERTIES
    ForksAndJoins
    CallsReturn
CHECK_DEADLOCK FALSE
