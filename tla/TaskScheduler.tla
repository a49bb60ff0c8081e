---------------------------- MODULE TaskScheduler ----------------------------
(* Embree's own task scheduler.  Every thread has a stack of tasks: it pushes  *)
(* and pops at the right, others steal from the left.  A task that waits for   *)
(* its children works on them or steals from others meanwhile.                 *)
(* Source: src/embree/common/tasking/taskschedulerinternal.{h,cpp}.            *)
EXTENDS Integers, Sequences, FiniteSets

CONSTANTS Tasks, RootTask, Parent,  \* the tree of the tasks that will be spawned
          Throwers,                 \* tasks whose closure may throw
          Root,                     \* the thread that calls spawn_root
          Helpers,                  \* the other threads
          TASK_STACK_SIZE,
          Nobody

ASSUME SchedulerAssumption ==
    /\ RootTask \in Tasks /\ Parent \in [Tasks \ {RootTask} -> Tasks]
    /\ \A S \in SUBSET Tasks :  \* every task descends from RootTask
           RootTask \in S /\ (\A k \in Tasks \ {RootTask} : Parent[k] \in S => k \in S) => S = Tasks
    /\ Throwers \subseteq Tasks
    /\ IsFiniteSet(Helpers) /\ Root \notin Helpers
    /\ TASK_STACK_SIZE \in Nat \ {0}
    /\ Nobody \notin {Root} \union Helpers /\ Nobody \notin Tasks

Threads == {Root} \union Helpers
Slots == 0 .. TASK_STACK_SIZE - 1
ChildrenOf(k) == {c \in Tasks \ {RootTask} : Parent[c] = k}

VARIABLES tasks, left, right,    \* of a thread: its task stack
          frames,                \* of a thread: the calls of Task::run it is in
          mode,                  \* of a thread: where it is outside of them
          thief,                 \* of a thread: the steal it is in
          threadLocal,           \* the threads that can be robbed
          threadCounter, anyTasksRunning, hasRootTask, inPool,
          cancellingException, rethrown,
          spawned, executed,     \* tasks pushed, and how often each closure ran
          Joiners                \* the helpers that call join; the others are the thread pool's

stackVars == <<tasks, left, right>>
lifeVars == <<threadLocal, threadCounter, anyTasksRunning, hasRootTask, inPool, rethrown>>
workVars == <<cancellingException, spawned, executed>>
vars == <<stackVars, frames, mode, thief, lifeVars, workVars>>
Pool == Helpers \ Joiners

DONE == "DONE"
INITIALIZED == "INITIALIZED"
NoParent == [thread |-> Nobody, slot |-> 0]
Unused == [task |-> Nobody, state |-> DONE, stealable |-> FALSE, dependencies |-> 0,
           parent |-> NoParent]
NotStealing == [step |-> "none", victim |-> Nobody, l |-> 0]

Init == /\ tasks = [t \in Threads |-> [s \in Slots |-> Unused]]
        /\ left = [t \in Threads |-> 0] /\ right = [t \in Threads |-> 0]
        /\ frames = [t \in Threads |-> <<>>]
        /\ mode = [t \in Threads |-> "out"]
        /\ thief = [t \in Threads |-> NotStealing]
        /\ threadLocal = {} /\ threadCounter = 0 /\ anyTasksRunning = 0
        /\ hasRootTask = FALSE /\ inPool = FALSE
        /\ cancellingException = Nobody /\ rethrown = [t \in Threads |-> Nobody]
        /\ spawned = {} /\ executed = [k \in Tasks |-> 0]
        /\ Joiners \in SUBSET Helpers

In(t, m) == mode[t] = m
Enter(t, m) == mode' = [mode EXCEPT ![t] = m]
Running(t) == frames[t] # <<>>
Top(t) == frames[t][Len(frames[t])]
Phase(t, p) == Running(t) /\ Top(t).phase = p
SetPhase(t, p) == frames' = [frames EXCEPT ![t][Len(frames[t])].phase = p]
TaskOf(t) == tasks[t][Top(t).slot]
\* The task below which execute_local stops: the one that waits, or none.
Base(t) == IF Running(t) THEN Top(t).slot ELSE -1
AddDependencies(f, p, n) == IF p = NoParent THEN f
                            ELSE [f EXCEPT ![p.thread][p.slot].dependencies = @ + n]

------------------------------------------------------------------------------
\* push_right: the slot is taken first, then the task is built in it.

\* A bound of the model.  The code asserts it when it pushes and does not look when it steals: a
\* full stack is written over its end, and what happens then is not modelled.
Room(t) == right[t] < TASK_STACK_SIZE

TakeSlot(t, k) ==
    /\ Room(t)
    /\ right' = [right EXCEPT ![t] = @ + 1]
    /\ spawned' = spawned \union {k}

BuildTask(t, k, parent) ==
    LET s == right'[t] - 1 IN
    /\ tasks' = [AddDependencies(tasks, parent, 1) EXCEPT ![t][s] =
                    [task |-> k, state |-> INITIALIZED, stealable |-> TRUE, dependencies |-> 1,
                     parent |-> parent]]
    /\ left' = [left EXCEPT ![t] = IF @ >= s THEN s ELSE @]

------------------------------------------------------------------------------
\* Task::run, as one frame of a thread's call stack

\* execute_local: run the task on top, down to the one that waits.
RunLocal(t) ==
    /\ Phase(t, "wait") \/ Phase(t, "local") \/ (~Running(t) /\ mode[t] \in {"work", "body"})
    /\ right[t] - 1 # Base(t)
    /\ frames' = [frames EXCEPT ![t] =
                     Append(@, [slot |-> right[t] - 1, phase |-> "start", child |-> Nobody])]
    /\ UNCHANGED <<stackVars, mode, thief, lifeVars, workVars>>

\* try_switch_state: the task may have been stolen.
Start(t) ==
    /\ Phase(t, "start")
    /\ \/ /\ TaskOf(t).state = INITIALIZED
          /\ tasks' = [tasks EXCEPT ![t][Top(t).slot].state = DONE]
          /\ SetPhase(t, "execute")
       \/ /\ TaskOf(t).state = DONE
          /\ SetPhase(t, "join") /\ UNCHANGED tasks
    /\ UNCHANGED <<left, right, mode, thief, lifeVars, workVars>>

\* The closure is skipped once an exception was thrown.
Execute(t) ==
    /\ Phase(t, "execute")
    /\ \/ /\ cancellingException = Nobody
          /\ executed' = [executed EXCEPT ![TaskOf(t).task] = @ + 1]
          /\ SetPhase(t, "spawn")
       \/ cancellingException # Nobody /\ SetPhase(t, "executed") /\ UNCHANGED executed
    /\ UNCHANGED <<stackVars, mode, thief, lifeVars, cancellingException, spawned>>

Spawn(t, k) ==
    /\ Phase(t, "spawn") /\ k \in ChildrenOf(TaskOf(t).task) \ spawned
    /\ TakeSlot(t, k)
    /\ frames' = [frames EXCEPT ![t][Len(frames[t])] = [@ EXCEPT !.phase = "build", !.child = k]]
    /\ UNCHANGED <<tasks, left, mode, thief, lifeVars, cancellingException, executed>>

Build(t) ==
    /\ Phase(t, "build")
    /\ UNCHANGED right
    /\ BuildTask(t, Top(t).child, [thread |-> t, slot |-> Top(t).slot])
    /\ SetPhase(t, "spawn")
    /\ UNCHANGED <<mode, thief, lifeVars, workVars>>

Wait(t) ==
    /\ Phase(t, "spawn") /\ ChildrenOf(TaskOf(t).task) \subseteq spawned
    /\ SetPhase(t, "wait")
    /\ UNCHANGED <<stackVars, mode, thief, lifeVars, workVars>>

\* A closure throws before it spawns or after it has waited, as SPAWN_END does.  Two threads
\* that throw at once may both find that there is no exception yet.
Throw(t) ==
    /\ Phase(t, "spawn") \/ Phase(t, "wait")
    /\ right[t] - 1 = Base(t) /\ TaskOf(t).task \in Throwers
    /\ SetPhase(t, IF cancellingException = Nobody THEN "throw" ELSE "executed")
    /\ UNCHANGED <<stackVars, mode, thief, lifeVars, workVars>>

KeepException(t) ==
    /\ Phase(t, "throw")
    /\ cancellingException' = TaskOf(t).task
    /\ SetPhase(t, "executed")
    /\ UNCHANGED <<stackVars, mode, thief, lifeVars, spawned, executed>>

WaitOver(t) ==
    /\ Phase(t, "wait") /\ right[t] - 1 = Base(t)
    /\ SetPhase(t, "executed")
    /\ UNCHANGED <<stackVars, mode, thief, lifeVars, workVars>>

Executed(t) ==
    /\ Phase(t, "executed")
    /\ tasks' = [tasks EXCEPT ![t][Top(t).slot].dependencies = @ - 1]
    /\ SetPhase(t, "join")
    /\ UNCHANGED <<left, right, mode, thief, lifeVars, workVars>>

\* steal_loop until all dependencies have completed
LocalOver(t) ==
    /\ Phase(t, "local") /\ right[t] - 1 = Base(t)
    /\ SetPhase(t, "join")
    /\ UNCHANGED <<stackVars, mode, thief, lifeVars, workVars>>

\* Mutant of Signal.
SignalEarly(t) ==
    /\ Phase(t, "join") /\ thief[t] = NotStealing
    /\ tasks' = AddDependencies(tasks, TaskOf(t).parent, -1)
    /\ SetPhase(t, "pop")
    /\ UNCHANGED <<left, right, mode, thief, lifeVars, workVars>>

\* Mutant of Signal.
SignalNobody(t) ==
    /\ Phase(t, "join") /\ thief[t] = NotStealing /\ TaskOf(t).dependencies = 0
    /\ UNCHANGED tasks
    /\ SetPhase(t, "pop")
    /\ UNCHANGED <<left, right, mode, thief, lifeVars, workVars>>

Signal(t) ==
    /\ Phase(t, "join") /\ thief[t] = NotStealing /\ TaskOf(t).dependencies = 0
    /\ tasks' = AddDependencies(tasks, TaskOf(t).parent, -1)
    /\ SetPhase(t, "pop")
    /\ UNCHANGED <<left, right, mode, thief, lifeVars, workVars>>

Pop(t) ==
    /\ Phase(t, "pop")
    /\ right' = [right EXCEPT ![t] = @ - 1]
    /\ left' = [left EXCEPT ![t] = IF @ >= right'[t] THEN right'[t] ELSE @]
    /\ frames' = [frames EXCEPT ![t] = SubSeq(@, 1, Len(@) - 1)]
    /\ UNCHANGED <<tasks, mode, thief, lifeVars, workVars>>

Run(t) == RunLocal(t) \/ Start(t) \/ Execute(t) \/ (\E k \in Tasks : Spawn(t, k)) \/ Build(t)
          \/ Wait(t) \/ Throw(t) \/ KeepException(t) \/ WaitOver(t) \/ Executed(t)
          \/ LocalOver(t) \/ Signal(t) \/ Pop(t)

------------------------------------------------------------------------------
\* steal_from_other_threads

MaySteal(t) == \/ Phase(t, "join") /\ TaskOf(t).dependencies > 0
               \/ ~Running(t) /\ In(t, "loop") /\ anyTasksRunning > 0

Look(t, v) ==
    /\ thief[t] = NotStealing /\ MaySteal(t)
    /\ v \in threadLocal \ {t} /\ left[v] < right[v]
    /\ thief' = [thief EXCEPT ![t] = [step |-> "claim", victim |-> v, l |-> 0]]
    /\ UNCHANGED <<stackVars, frames, mode, lifeVars, workVars>>

\* left++ counts on from where it is now.
Claim(t) ==
    /\ thief[t].step = "claim"
    /\ thief' = [thief EXCEPT ![t].step = "test", ![t].l = left[thief[t].victim]]
    /\ left' = [left EXCEPT ![thief[t].victim] = @ + 1]
    /\ UNCHANGED <<tasks, right, frames, mode, lifeVars, workVars>>

Robbed(t) == tasks[thief[t].victim][thief[t].l]

Test(t) ==
    /\ thief[t].step = "test"
    /\ thief' = [thief EXCEPT ![t] = IF thief[t].l \in Slots /\ Robbed(t).stealable
                                     THEN [@ EXCEPT !.step = "take"] ELSE NotStealing]
    /\ UNCHANGED <<stackVars, frames, mode, lifeVars, workVars>>

\* Mutant of Take.
TakeOrphan(t) ==
    /\ thief[t].step = "take"
    /\ \/ /\ Robbed(t).state = INITIALIZED /\ Room(t)
          /\ tasks' = [tasks EXCEPT ![thief[t].victim][thief[t].l].state = DONE,
                          ![t][right[t]] = [task |-> Robbed(t).task, state |-> INITIALIZED,
                              stealable |-> FALSE, dependencies |-> 1,
                              parent |-> NoParent]]
          /\ right' = [right EXCEPT ![t] = @ + 1]
          /\ IF Running(t) THEN SetPhase(t, "local") /\ UNCHANGED mode
                           ELSE Enter(t, "steal") /\ UNCHANGED frames
       \/ Robbed(t).state = DONE /\ UNCHANGED <<tasks, right, frames, mode>>
    /\ thief' = [thief EXCEPT ![t] = NotStealing]
    /\ UNCHANGED <<left, lifeVars, workVars>>

\* The thief's copy becomes a child of the task it was made of.
Take(t) ==
    /\ thief[t].step = "take"
    /\ \/ /\ Robbed(t).state = INITIALIZED /\ Room(t)
          /\ tasks' = [tasks EXCEPT ![thief[t].victim][thief[t].l].state = DONE,
                          ![t][right[t]] = [task |-> Robbed(t).task, state |-> INITIALIZED,
                              stealable |-> FALSE, dependencies |-> 1,
                              parent |-> [thread |-> thief[t].victim, slot |-> thief[t].l]]]
          /\ right' = [right EXCEPT ![t] = @ + 1]
          /\ IF Running(t) THEN SetPhase(t, "local") /\ UNCHANGED mode
                           ELSE Enter(t, "steal") /\ UNCHANGED frames
       \/ Robbed(t).state = DONE /\ UNCHANGED <<tasks, right, frames, mode>>
    /\ thief' = [thief EXCEPT ![t] = NotStealing]
    /\ UNCHANGED <<left, lifeVars, workVars>>

Steal(t) == (\E v \in Threads : Look(t, v)) \/ Claim(t) \/ Test(t) \/ Take(t)

------------------------------------------------------------------------------
\* spawn_root, and what threads do that are not in a task

allocThreadIndex(t) == threadCounter' = threadCounter + 1

SpawnRoot ==
    /\ In(Root, "out") /\ allocThreadIndex(Root) /\ Enter(Root, "push")
    /\ UNCHANGED <<stackVars, frames, thief, threadLocal, anyTasksRunning, hasRootTask, inPool,
                   rethrown, workVars>>

PushRoot ==
    /\ In(Root, "push")
    /\ threadLocal' = threadLocal \union {Root}
    /\ TakeSlot(Root, RootTask) /\ BuildTask(Root, RootTask, NoParent)
    /\ Enter(Root, "announce")
    /\ UNCHANGED <<frames, thief, threadCounter, anyTasksRunning, hasRootTask, inPool, rethrown,
                   cancellingException, executed>>

\* Joiners are woken, then the pool gets the scheduler.
Announce ==
    /\ In(Root, "announce")
    /\ anyTasksRunning' = anyTasksRunning + 1 /\ hasRootTask' = TRUE
    /\ Enter(Root, "add")
    /\ UNCHANGED <<stackVars, frames, thief, threadLocal, threadCounter, inPool, rethrown, workVars>>

AddScheduler ==
    /\ In(Root, "add") /\ inPool' = TRUE /\ Enter(Root, "work")
    /\ UNCHANGED <<stackVars, frames, thief, threadLocal, threadCounter, anyTasksRunning,
                   hasRootTask, rethrown, workVars>>

RootDone ==
    /\ In(Root, "work") /\ ~Running(Root) /\ right[Root] = 0
    /\ anyTasksRunning' = anyTasksRunning - 1 /\ Enter(Root, "remove")
    /\ UNCHANGED <<stackVars, frames, thief, threadLocal, threadCounter, hasRootTask, inPool,
                   rethrown, workVars>>

RemoveScheduler ==
    /\ In(Root, "remove") /\ inPool' = FALSE /\ Enter(Root, "leave")
    /\ UNCHANGED <<stackVars, frames, thief, threadLocal, threadCounter, anyTasksRunning,
                   hasRootTask, rethrown, workVars>>

\* A pool thread takes its index while the scheduler is in the list.
PoolEnters(t) ==
    /\ t \in Pool /\ In(t, "out") /\ inPool
    /\ allocThreadIndex(t) /\ Enter(t, "enter")
    /\ UNCHANGED <<stackVars, frames, thief, threadLocal, anyTasksRunning, hasRootTask, inPool,
                   rethrown, workVars>>

Join(t) ==
    /\ t \in Joiners /\ In(t, "out")
    /\ allocThreadIndex(t) /\ Enter(t, "wait")
    /\ UNCHANGED <<stackVars, frames, thief, threadLocal, anyTasksRunning, hasRootTask, inPool,
                   rethrown, workVars>>

Woken(t) ==
    /\ In(t, "wait") /\ hasRootTask /\ Enter(t, "enter")
    /\ UNCHANGED <<stackVars, frames, thief, lifeVars, workVars>>

EnterLoop(t) ==
    /\ In(t, "enter")
    /\ threadLocal' = threadLocal \union {t} /\ Enter(t, "loop")
    /\ UNCHANGED <<stackVars, frames, thief, threadCounter, anyTasksRunning, hasRootTask, inPool,
                   rethrown, workVars>>

BodyBegins(t) ==
    /\ In(t, "steal")
    /\ anyTasksRunning' = anyTasksRunning + 1 /\ Enter(t, "body")
    /\ UNCHANGED <<stackVars, frames, thief, threadLocal, threadCounter, hasRootTask, inPool,
                   rethrown, workVars>>

BodyEnds(t) ==
    /\ In(t, "body") /\ ~Running(t) /\ right[t] = 0
    /\ anyTasksRunning' = anyTasksRunning - 1 /\ Enter(t, "loop")
    /\ UNCHANGED <<stackVars, frames, thief, threadLocal, threadCounter, hasRootTask, inPool,
                   rethrown, workVars>>

LoopEnds(t) ==
    /\ In(t, "loop") /\ thief[t] = NotStealing /\ anyTasksRunning = 0 /\ Enter(t, "leave")
    /\ UNCHANGED <<stackVars, frames, thief, lifeVars, workVars>>

\* What the thread returns is read before it says that it has left.
Leave(t) ==
    /\ In(t, "leave")
    /\ threadLocal' = threadLocal \ {t}
    /\ rethrown' = [rethrown EXCEPT ![t] = cancellingException]
    /\ Enter(t, "count")
    /\ UNCHANGED <<stackVars, frames, thief, threadCounter, anyTasksRunning, hasRootTask, inPool,
                   workVars>>

CountDown(t) ==
    /\ In(t, "count") /\ threadCounter' = threadCounter - 1 /\ Enter(t, "await")
    /\ UNCHANGED <<stackVars, frames, thief, threadLocal, anyTasksRunning, hasRootTask, inPool,
                   rethrown, workVars>>

\* The Thread structure is freed; spawn_root also forgets the exception.
Return(t) ==
    /\ In(t, "await") /\ threadCounter = 0
    /\ Enter(t, IF t \in Pool THEN "out" ELSE "returned")
    /\ cancellingException' = IF t = Root THEN Nobody ELSE cancellingException
    /\ UNCHANGED <<stackVars, frames, thief, lifeVars, spawned, executed>>

Loop(t) == PoolEnters(t) \/ Woken(t) \/ EnterLoop(t) \/ BodyBegins(t) \/ BodyEnds(t)
           \/ LoopEnds(t) \/ Leave(t) \/ CountDown(t) \/ Return(t)
RootCall == PushRoot \/ Announce \/ AddScheduler \/ RootDone \/ RemoveScheduler

Work(t) == Run(t) \/ Steal(t) \/ Loop(t)

Next == /\ SpawnRoot \/ RootCall \/ \E t \in Threads : Join(t) \/ Work(t)
        /\ UNCHANGED Joiners

Spec == Init /\ [][Next]_<<vars, Joiners>>

\* Every thread runs; that a steal succeeds is not assumed.
FairSpec == /\ Spec /\ WF_vars(RootCall)
            /\ \A t \in Threads : /\ WF_vars(Run(t)) /\ WF_vars(Loop(t))
                                  /\ WF_vars(Claim(t) \/ Test(t) \/ Take(t))

------------------------------------------------------------------------------
Phases == {"start", "execute", "spawn", "build", "wait", "throw", "executed", "join", "local", "pop"}
Modes == {"out", "push", "announce", "add", "work", "remove", "wait", "enter", "loop", "steal",
          "body", "leave", "count", "await", "returned"}

\* The kinds of the state; no stack grows past its size.
TypeOK ==
    /\ tasks \in [Threads -> [Slots ->
           [task : Tasks \union {Nobody}, state : {DONE, INITIALIZED}, stealable : BOOLEAN,
            dependencies : Nat, parent : [thread : Threads \union {Nobody}, slot : Slots]]]]
    /\ left \in [Threads -> Nat] /\ right \in [Threads -> 0 .. TASK_STACK_SIZE]
    /\ frames \in [Threads ->
           Seq([slot : Slots, phase : Phases, child : Tasks \union {Nobody}])]
    /\ mode \in [Threads -> Modes]
    /\ thief \in [Threads -> [step : {"none", "claim", "test", "take"},
                              victim : Threads \union {Nobody}, l : Nat]]
    /\ threadLocal \subseteq Threads /\ threadCounter \in Nat /\ anyTasksRunning \in Nat
    /\ hasRootTask \in BOOLEAN /\ inPool \in BOOLEAN
    /\ cancellingException \in Tasks \union {Nobody}
    /\ rethrown \in [Threads -> Tasks \union {Nobody}]
    /\ spawned \subseteq Tasks /\ executed \in [Tasks -> Nat] /\ Joiners \subseteq Helpers

\* The tasks on a thread's stack, without the slot that is taken but not built yet.
Live(t) == {s \in Slots : s < right[t] /\ ~(Phase(t, "build") /\ s = right[t] - 1)}
Children(t, s) == {c \in Threads \X Slots : /\ c[2] \in Live(c[1])
                                            /\ tasks[c[1]][c[2]].parent = [thread |-> t, slot |-> s]}
Calls(t, s) == {i \in DOMAIN frames[t] : frames[t][i].slot = s}
Signalled(t, s) == \E i \in Calls(t, s) : frames[t][i].phase = "pop"
Finished(t, s) == tasks[t][s].state = DONE
                  /\ \A i \in Calls(t, s) : frames[t][i].phase \in {"join", "local", "pop"}

\* A closure runs at most once, however often its task is claimed, and exactly once when
\* spawn_root is over and nothing was thrown.
RunOnce == /\ \A k \in Tasks : executed[k] <= 1
           /\ In(Root, "remove") /\ cancellingException = Nobody =>
                  \A k \in Tasks : executed[k] = 1

\* A task waits in its slot for as long as another, on any thread, holds a pointer to it, and
\* its counter is what it still waits for: its own run, and its children.  The run of
\* a task that was stolen is that of its copy.
DependenciesCount ==
    \A t \in Threads : \A s \in Live(t) :
        /\ tasks[t][s].dependencies =
               Cardinality({c \in Children(t, s) : ~Signalled(c[1], c[2])})
               + (IF \/ tasks[t][s].state = INITIALIZED
                     \/ \E i \in Calls(t, s) : frames[t][i].phase \in
                            {"execute", "spawn", "build", "wait", "throw", "executed"}
                  THEN 1 ELSE 0)
        /\ tasks[t][s].parent # NoParent =>
               \/ tasks[t][s].parent.slot \in Live(tasks[t][s].parent.thread)
               \/ Signalled(t, s)

\* Nobody reaches into the stack of a thread that has gone: the structure is freed when the
\* last thread has counted itself out.
ThreadsAlive ==
    \A t \in Threads : thief[t] # NotStealing =>
        mode[thief[t].victim] \notin {"out", "returned"}

\* When spawn_root returns, no thread has a task left or is in one.
RootLast ==
    In(Root, "returned") => \A t \in Threads : right[t] = 0 /\ ~Running(t)

\* Threads leave when the counter of busy threads is zero: then no task is left anywhere, though
\* a thief counts itself only after it has taken a task, and gives its slot back after it
\* has signalled the task it robbed.
BusyCounted ==
    anyTasksRunning = 0 /\ mode[Root] \notin {"out", "push", "announce"} =>
        \A t \in Threads : right[t] = 0 /\ ~Running(t)

\* What a closure threw reaches the caller of spawn_root, and all that join hear the same: the
\* exception is forgotten only when every thread has read it.
ExceptionReachesRoot ==
    /\ mode[Root] \in {"count", "await", "returned"} /\ rethrown[Root] = Nobody =>
           \A k \in Tasks : executed[k] = 1
    /\ mode[Root] \in {"count", "await"} => \A t \in Joiners :
           mode[t] \in {"count", "await"} => rethrown[t] = rethrown[Root]

\* The phases in which a task still counts itself.
Inside == {"execute", "spawn", "build", "wait", "throw", "executed"}
\* Where the root thread is when all tasks are over.
AfterWork == {"remove", "leave", "count", "await", "returned"}

\* The frames of a thread are calls on ever higher slots of its stack; all but the last wait for
\* those above, and the last is on the topmost task unless tasks were pushed above it.
FramesNested ==
    \A t \in Threads :
        /\ \A i \in DOMAIN frames[t] :
               /\ frames[t][i].slot < right[t]
               /\ frames[t][i].phase # "start" => tasks[t][frames[t][i].slot].state = DONE
               /\ i < Len(frames[t]) => frames[t][i].phase \in {"wait", "local"}
               /\ \A j \in DOMAIN frames[t] : i < j => frames[t][i].slot < frames[t][j].slot
        /\ Running(t) /\ Top(t).phase \notin {"spawn", "build", "wait", "local"} => Top(t).slot = right[t] - 1
        /\ Phase(t, "build") => Top(t).slot < right[t] - 1 /\ Top(t).child \in ChildrenOf(TaskOf(t).task)
        /\ Phase(t, "pop") => TaskOf(t).dependencies = 0
        /\ Running(t) => mode[t] \in {"work", "body"}
        /\ right[t] > 0 => mode[t] \in {"announce", "add", "work", "steal", "body"}
        /\ mode[t] = "steal" => right[t] = 1

\* What is on the stacks: the root task, children above their parents, and the copies of thieves.
\* Nothing waits to be run off them.
SlotKept(t, s) ==
    LET x == tasks[t][s] IN
    /\ s \notin Live(t) => x.state = DONE
    /\ s \in Live(t) =>
           /\ x.task \in Tasks /\ (x.parent = NoParent \/ x.parent.thread \in Threads)
           /\ x.parent = NoParent => t = Root /\ s = 0 /\ x.stealable /\ x.task = RootTask
           /\ x.parent # NoParent /\ x.stealable =>
                  /\ x.parent.thread = t /\ x.parent.slot < s
                  /\ x.task \in ChildrenOf(tasks[t][x.parent.slot].task)
           /\ ~x.stealable /\ ~Signalled(t, s) =>
                  /\ x.parent.slot \in Live(x.parent.thread) /\ x.parent # [thread |-> t, slot |-> s]
                  /\ tasks[x.parent.thread][x.parent.slot].task = x.task
StacksKept == \A t \in Threads : \A s \in Slots : SlotKept(t, s)

\* Whoever still waits for another holds on to a task that no one of them waits for: no circle.
Unfinished == {c \in Threads \X Slots : c[2] \in Live(c[1]) /\ ~Signalled(c[1], c[2])}
ParentOf(c) == <<tasks[c[1]][c[2]].parent.thread, tasks[c[1]][c[2]].parent.slot>>
Grounded == \A S \in SUBSET Unfinished : S # {} => \E c \in S : ParentOf(c) \notin S

\* Task k has not run yet, and will in slot s of thread t
Pending(t, s, k) == \/ tasks[t][s].state = INITIALIZED /\ tasks[t][s].task = k
                    \/ Phase(t, "execute") /\ Top(t).slot = s /\ tasks[t][s].task = k
                    \/ Phase(t, "build") /\ s = right[t] - 1 /\ Top(t).child = k
\* The task k that was spawned, not a copy, is in slot s of thread t.
Original(t, s, k) == \/ s \in Live(t) /\ tasks[t][s].stealable /\ tasks[t][s].task = k
                     \/ Phase(t, "build") /\ s = right[t] - 1 /\ Top(t).child = k

\* A task is in one place, and what is still to run has not run.
OnePlace ==
    /\ \A k \in Tasks : \A t \in Threads : \A s \in Slots :
           /\ Pending(t, s, k) =>
                  /\ k \in spawned /\ executed[k] = 0
                  /\ \A u \in Threads : \A r \in Slots : Pending(u, r, k) => t = u /\ s = r
           /\ Original(t, s, k) =>
                  /\ k \in spawned
                  /\ \A u \in Threads : \A r \in Slots : Original(u, r, k) => t = u /\ s = r
    /\ \A k \in Tasks : executed[k] <= 1 /\ (k \notin spawned => executed[k] = 0)
    /\ spawned = {} <=> mode[Root] \in {"out", "push"}
    /\ spawned # {} => RootTask \in spawned

\* While nothing was thrown no task is skipped, and none goes on before it has spawned its children.
NoneSkipped ==
    mode[Root] # "returned" /\ cancellingException = Nobody => \A k \in spawned :
        IF executed[k] = 0 THEN \E t \in Threads, s \in Slots : Pending(t, s, k)
        ELSE \/ ChildrenOf(k) \subseteq spawned
             \/ \E t \in Threads : /\ Running(t) /\ Top(t).phase \in {"spawn", "build", "throw"}
                                   /\ TaskOf(t).task = k

\* Where threads are, and that the counters count them
ThreadsCounted ==
    /\ threadCounter = Cardinality({t \in Threads : mode[t] \notin {"out", "await", "returned"}})
    /\ anyTasksRunning = Cardinality({t \in Threads : mode[t] \in {"add", "work", "body"}})
    /\ mode[Root] \in {"out", "push", "announce", "add", "work"} \union AfterWork
    /\ hasRootTask <=> mode[Root] \notin {"out", "push", "announce"}
    /\ inPool <=> mode[Root] \in {"work", "remove"}
    /\ \A t \in Helpers :
           /\ mode[t] \in {"out", "wait", "enter", "loop", "steal", "body", "leave", "count", "await", "returned"}
           /\ mode[t] \notin {"out", "wait"} /\ t \in Joiners => hasRootTask
           /\ t \in Pool => mode[t] \notin {"wait", "returned"} /\ (mode[t] # "out" => hasRootTask)
           /\ mode[t] \in {"leave", "count"} => mode[Root] \in AfterWork
           /\ t \in Joiners /\ mode[t] = "await" => mode[Root] \in AfterWork
    /\ \A t \in threadLocal : mode[t] \notin {"out", "push", "wait", "enter", "count", "await", "returned"}
    /\ \A t \in Threads : thief[t] # NotStealing =>
           /\ thief[t].step # "none" /\ thief[t].victim \in Threads
           /\ thief[t].step = "take" => thief[t].l \in Slots
           /\ Phase(t, "join") \/ (~Running(t) /\ mode[t] = "loop")

\* The root is the last to work, and what it read before it left stays true until it forgets it.
RootOutlasts ==
    /\ mode[Root] \in AfterWork => right[Root] = 0
    /\ mode[Root] = "returned" => \A t \in Threads : mode[t] \notin {"steal", "body"}
    /\ mode[Root] \in AfterWork \ {"returned"} => \A t \in Joiners \union {Root} :
           mode[t] \in {"count", "await"} => rethrown[t] = cancellingException

Inductive == TypeOK /\ FramesNested /\ StacksKept /\ Grounded /\ OnePlace /\ NoneSkipped
             /\ ThreadsCounted /\ RootOutlasts /\ DependenciesCount /\ ThreadsAlive /\ ExceptionReachesRoot

\* The scheduler keeps every promise above at once.
SchedulerInv == Inductive /\ RunOnce /\ RootLast /\ BusyCounted

\* spawn_root returns, and every thread that joined or came from the pool leaves.
CallsReturn == /\ In(Root, "push") ~> In(Root, "returned")
               /\ \A t \in Threads : In(t, "loop") ~> mode[t] \in {"out", "returned"}

------------------------------------------------------------------------------
\* The promise: a task is spawned once its slot is taken, runs once its state is DONE,
\* and is completed when its slot, not that of a stolen copy, is given back.
status ==
    LET on == {c \in Threads \X Slots : c[2] \in Live(c[1])}
        original == {c \in on : tasks[c[1]][c[2]].stealable}
        waiting == {tasks[c[1]][c[2]].task : c \in {d \in on : tasks[d[1]][d[2]].state = INITIALIZED}}
        unbuilt == {Top(t).child : t \in {u \in Threads : Phase(u, "build")}}
        present == {tasks[c[1]][c[2]].task : c \in original}
    IN [k \in Tasks |-> IF k \notin spawned THEN "unknown"
                        ELSE IF k \in unbuilt \union waiting THEN "spawned"
                        ELSE IF k \in present THEN "running" ELSE "completed"]
Fork == INSTANCE ForkJoin
ForksAndJoins == Fork!Spec
==============================================================================
