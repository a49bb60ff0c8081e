------------------------------ MODULE SceneBuild ------------------------------
(* Threads that commit one scene at once.  The first becomes the builder and   *)
(* makes a task scheduler; those that find a scheduler join it and return when *)
(* it is worked off.  What a scheduler does inside is in TaskScheduler.        *)
(* Source: src/embree/kernels/common/scene.cpp, Scene::build with              *)
(* TASKING_INTERNAL, and spawn_root and join of taskschedulerinternal.         *)
EXTENDS Naturals, FiniteSets

CONSTANTS Threads,
          ThreadCounts,   \* the threadCount of commits: 0 in rtcCommit, else that of rtcCommitThread
          Null

ASSUME BuildAssumption == /\ IsFiniteSet(Threads) /\ ThreadCounts \subseteq 0 .. Cardinality(Threads)
                          /\ Null \notin Threads /\ Null \notin Nat

Schedulers == 0 .. Cardinality(Threads)   \* enough: the rest is free again

VARIABLES modified, mapped,           \* the scene needs a build; a buffer is mapped
          scheduler,                  \* this->scheduler
          schedulerMutex, buildMutex, \* their owners
          pc, mine,                   \* of a thread: where it is, its scheduler
          heard, result,              \* of a thread: the error it will report, what it reported
          threadCount,                \* what the threads that commit give
          thrown,                     \* history: a build threw
          closure,                    \* of a scheduler: the root task, none, or over
          threadCounter, exception    \* of a scheduler

sceneVars == <<modified, mapped, threadCount>>
lockVars == <<schedulerMutex, buildMutex>>
threadVars == <<pc, mine, heard, result>>
taskVars == <<closure, threadCounter, exception, thrown>>
vars == <<sceneVars, scheduler, lockVars, threadVars, taskVars>>

Init == /\ modified = TRUE /\ mapped = FALSE /\ threadCount \in ThreadCounts /\ thrown = FALSE
        /\ scheduler = Null /\ schedulerMutex = Null /\ buildMutex = Null
        /\ pc = [t \in Threads |-> "idle"] /\ mine = [t \in Threads |-> Null]
        /\ heard = [t \in Threads |-> FALSE] /\ result = [t \in Threads |-> "none"]
        /\ closure = [s \in Schedulers |-> "none"]
        /\ threadCounter = [s \in Schedulers |-> 0]
        /\ exception = [s \in Schedulers |-> FALSE]

At(t, l) == pc[t] = l
Goto(t, l) == pc' = [pc EXCEPT ![t] = l]
Count(t, n) == threadCounter' = [threadCounter EXCEPT ![mine[t]] = @ + n]
CountDown(t) == threadCounter' = [threadCounter EXCEPT ![mine[t]] = @ - 1]
Closure(s, c) == closure' = [closure EXCEPT ![s] = c]
hasRootTask(s) == closure[s] # "none"
anyTasksRunning(s) == closure[s] \notin {"none", "over"}
\* A scheduler is freed with the last reference to it.
Free == {s \in Schedulers : s # scheduler /\ \A t \in Threads : mine[t] # s}

------------------------------------------------------------------------------
\* The application changes the scene, maps or unmaps a buffer, while nobody commits.
Modify ==
    /\ \A t \in Threads : At(t, "idle")
    /\ modified' = TRUE /\ mapped' \in BOOLEAN /\ threadCount' \in ThreadCounts
    /\ result' = [t \in Threads |-> "none"]
    /\ UNCHANGED <<scheduler, lockVars, pc, mine, heard, taskVars>>

Enter(t) ==
    /\ At(t, "idle") /\ schedulerMutex = Null
    /\ schedulerMutex' = t /\ Goto(t, "check")
    /\ heard' = [heard EXCEPT ![t] = FALSE] /\ result' = [result EXCEPT ![t] = "none"]
    /\ UNCHANGED <<sceneVars, scheduler, buildMutex, mine, taskVars>>

FindScheduler(t) ==
    /\ At(t, "check") /\ scheduler # Null
    /\ mine' = [mine EXCEPT ![t] = scheduler]
    /\ schedulerMutex' = Null /\ Goto(t, "join")
    /\ UNCHANGED <<sceneVars, scheduler, buildMutex, heard, result, taskVars>>

\* The builder waits for the last one with the scheduler's mutex in its hands.
NewScheduler(t) ==
    /\ At(t, "check") /\ scheduler = Null /\ buildMutex = Null
    /\ buildMutex' = t /\ schedulerMutex' = Null
    /\ \E s \in Free :
          /\ \A r \in Free : s <= r
          /\ scheduler' = s /\ mine' = [mine EXCEPT ![t] = s]
          /\ Closure(s, "none") /\ threadCounter' = [threadCounter EXCEPT ![s] = 0]
          /\ exception' = [exception EXCEPT ![s] = FALSE]
    /\ Goto(t, "await")
    /\ UNCHANGED <<sceneVars, heard, result, thrown>>

\* Mutant of AwaitThreads.
AwaitAllThreads(t) ==
    /\ At(t, "await") /\ (threadCount # 0 => threadCounter[mine[t]] >= threadCount)
    /\ Goto(t, "spawn")
    /\ UNCHANGED <<sceneVars, scheduler, lockVars, mine, heard, result, taskVars>>

\* wait_for_threads of rtcCommitThread
AwaitThreads(t) ==
    /\ At(t, "await") /\ (threadCount # 0 => threadCounter[mine[t]] >= threadCount - 1)
    /\ Goto(t, "spawn")
    /\ UNCHANGED <<sceneVars, scheduler, lockVars, mine, heard, result, taskVars>>

SpawnRoot(t) ==
    /\ At(t, "spawn") /\ Count(t, 1) /\ Goto(t, "root")
    /\ Closure(mine[t], IF modified /\ ~mapped THEN "build" ELSE "reset")
    /\ heard' = [heard EXCEPT ![t] = modified /\ mapped]
    /\ UNCHANGED <<sceneVars, scheduler, lockVars, mine, result, exception, thrown>>

------------------------------------------------------------------------------
\* The root task, run by the builder or by a thread that joined

BeginBuild(s) ==
    /\ closure[s] = "build" /\ Closure(s, "building")
    /\ UNCHANGED <<sceneVars, scheduler, lockVars, threadVars, threadCounter, exception, thrown>>

EndBuild(s) ==
    /\ closure[s] = "building" /\ modified' = FALSE /\ Closure(s, "reset")
    /\ UNCHANGED <<mapped, threadCount, scheduler, lockVars, threadVars, threadCounter, exception,
                   thrown>>

\* An exception leaves the closure before it has reset this->scheduler.
Throw(s) ==
    /\ closure[s] = "building" /\ thrown' = TRUE
    /\ exception' = [exception EXCEPT ![s] = TRUE] /\ Closure(s, "over")
    /\ UNCHANGED <<sceneVars, scheduler, lockVars, threadVars, threadCounter>>

Reset(s) ==
    /\ closure[s] = "reset" /\ scheduler' = Null /\ Closure(s, "over")
    /\ UNCHANGED <<sceneVars, lockVars, threadVars, threadCounter, exception, thrown>>

RootTask(s) == BeginBuild(s) \/ EndBuild(s) \/ Throw(s) \/ Reset(s)

------------------------------------------------------------------------------
Join(t) ==
    /\ At(t, "join") /\ Count(t, 1) /\ Goto(t, "wait")
    /\ UNCHANGED <<sceneVars, scheduler, lockVars, mine, heard, result, closure, exception, thrown>>

\* Mutant of Woken.
WokenEarly(t) ==
    /\ At(t, "wait") /\ Goto(t, "loop")
    /\ UNCHANGED <<sceneVars, scheduler, lockVars, mine, heard, result, taskVars>>

Woken(t) ==
    /\ At(t, "wait") /\ hasRootTask(mine[t]) /\ Goto(t, "loop")
    /\ UNCHANGED <<sceneVars, scheduler, lockVars, mine, heard, result, taskVars>>

\* Threads that joined, and the builder, remember the exception and count themselves out.
Leave(t) ==
    /\ At(t, "loop") \/ At(t, "root")
    /\ ~anyTasksRunning(mine[t])
    /\ heard' = [heard EXCEPT ![t] = @ \/ exception[mine[t]]]
    /\ CountDown(t) /\ Goto(t, IF At(t, "root") THEN "rootLeft" ELSE "left")
    /\ UNCHANGED <<sceneVars, scheduler, lockVars, mine, result, closure, exception, thrown>>

JoinReturns(t) ==
    /\ At(t, "left") /\ threadCounter[mine[t]] = 0
    /\ result' = [result EXCEPT ![t] = IF heard[t] THEN "error" ELSE "ok"]
    /\ mine' = [mine EXCEPT ![t] = Null] /\ Goto(t, "idle")
    /\ UNCHANGED <<sceneVars, scheduler, lockVars, heard, taskVars>>

\* spawn_root forgets the exception.  The handler clears the hierarchies.
RootReturns(t) ==
    /\ At(t, "rootLeft") /\ threadCounter[mine[t]] = 0
    /\ exception' = [exception EXCEPT ![mine[t]] = FALSE]
    /\ Goto(t, IF heard[t] /\ ~mapped THEN "catch" ELSE "unlock")
    /\ UNCHANGED <<sceneVars, scheduler, lockVars, mine, heard, result, closure, threadCounter, thrown>>

Catch(t) ==
    /\ At(t, "catch") /\ Goto(t, "unlock")
    /\ UNCHANGED <<sceneVars, scheduler, lockVars, mine, heard, result, taskVars>>

BuilderReturns(t) ==
    /\ At(t, "unlock") /\ buildMutex' = Null
    /\ result' = [result EXCEPT ![t] = IF heard[t] THEN "error" ELSE "ok"]
    /\ mine' = [mine EXCEPT ![t] = Null] /\ Goto(t, "idle")
    /\ UNCHANGED <<sceneVars, scheduler, schedulerMutex, heard, taskVars>>

Commit(t) == FindScheduler(t) \/ NewScheduler(t) \/ AwaitThreads(t) \/ SpawnRoot(t) \/ Join(t)
             \/ Woken(t) \/ Leave(t) \/ JoinReturns(t) \/ RootReturns(t) \/ Catch(t)
             \/ BuilderReturns(t)

Next == Modify \/ (\E t \in Threads : Enter(t) \/ Commit(t)) \/ \E s \in Schedulers : RootTask(s)

Spec == Init /\ [][Next]_vars

\* Threads run, tasks are worked off, and with rtcCommitThread all threads call.  A thread that
\* enters competes for a mutex that others release and take again.
FairSpec == /\ Spec
            /\ \A t \in Threads : WF_vars(Commit(t)) /\ SF_vars(threadCount # 0 /\ Enter(t))
            /\ \A s \in Schedulers : WF_vars(RootTask(s))

------------------------------------------------------------------------------
\* The kinds of the state; no scheduler counts more threads than there are.
TypeOK ==
    /\ modified \in BOOLEAN /\ mapped \in BOOLEAN /\ threadCount \in ThreadCounts
    /\ scheduler \in Schedulers \union {Null}
    /\ schedulerMutex \in Threads \union {Null} /\ buildMutex \in Threads \union {Null}
    /\ pc \in [Threads -> {"idle", "check", "await", "spawn", "root", "join", "wait", "loop", "left",
                           "rootLeft", "catch", "unlock"}]
    /\ mine \in [Threads -> Schedulers \union {Null}]
    /\ heard \in [Threads -> BOOLEAN] /\ result \in [Threads -> {"none", "ok", "error"}]
    /\ closure \in [Schedulers -> {"none", "build", "building", "reset", "over"}]
    /\ threadCounter \in [Schedulers -> 0 .. Cardinality(Threads)]
    /\ exception \in [Schedulers -> BOOLEAN] /\ thrown \in BOOLEAN

\* A root task runs only while its builder waits for it with the build mutex, though
\* this->scheduler is reset, and the next builder on its way, before the last one has returned.
BuildExclusive ==
    \A s \in Schedulers :
        anyTasksRunning(s) => \E t \in Threads : At(t, "root") /\ mine[t] = s /\ buildMutex = t

\* The scheduler that a thread finds in the scene has a builder that is still to return from it,
\* unless a build has thrown: its scheduler stays in the scene for ever.
JoinersFindABuild ==
    scheduler # Null /\ ~thrown =>
        \E t \in Threads :
            /\ mine[t] = scheduler /\ buildMutex = t /\ pc[t] \in {"await", "spawn", "root"}
            /\ At(t, "root") => anyTasksRunning(scheduler)

\* A commit that reports no error has built the scene, whoever built it, but for threads that
\* joined a builder that found a buffer mapped, and commits after a build that threw: those join
\* its scheduler, find nothing to do and report success.
CommitBuilds == ~thrown => \A t \in Threads : result[t] = "ok" => ~modified \/ mapped

\* No thread reports an error for a scene that was built.
ErrorMeansUnbuilt == \A t \in Threads : result[t] = "error" => modified

\* Why: who has the mutexes and a scheduler, and how far the root task of a scheduler is when
\* its threads are where they are.
Builder(t) == pc[t] \in {"await", "spawn", "root", "rootLeft", "catch", "unlock"}
Places ==
    \A t \in Threads :
        /\ schedulerMutex = t <=> At(t, "check")
        /\ buildMutex = t <=> Builder(t)
        /\ mine[t] = Null <=> pc[t] \in {"idle", "check"}
        /\ pc[t] \in {"await", "spawn"} => scheduler = mine[t] /\ closure[mine[t]] = "none"
        /\ pc[t] \in {"loop", "root"} => hasRootTask(mine[t])
        /\ At(t, "root") /\ anyTasksRunning(mine[t]) => scheduler = mine[t]
        /\ pc[t] \in {"left", "rootLeft", "catch", "unlock"} => closure[mine[t]] = "over"

\* A scheduler counts the threads that have joined and not left; those that leave wait for the
\* counter to be zero before they let go of the scheduler.
Inside(s) == {t \in Threads : mine[t] = s /\ pc[t] \in {"wait", "loop", "root"}}
ThreadsCounted == \A s \in Schedulers \ Free : threadCounter[s] = Cardinality(Inside(s))

\* What a scheduler's root task has done, and what its threads have heard of it, agree with the
\* scene: after an exception nothing is built any more.
Outcomes ==
    /\ \A s \in Schedulers :
          /\ closure[s] \in {"build", "building"} => modified /\ ~mapped /\ ~thrown
          /\ closure[s] = "reset" => ~modified \/ mapped
    /\ thrown => modified /\ scheduler # Null /\ closure[scheduler] = "over"
    /\ \A t \in Threads :
          /\ mine[t] # Null /\ exception[mine[t]] => thrown
          /\ mine[t] # Null /\ closure[mine[t]] = "over" => thrown \/ ~modified \/ mapped
          /\ ~At(t, "idle") /\ heard[t] => modified /\ (mapped \/ thrown)
          /\ result[t] = "error" => modified /\ (mapped \/ thrown)

\* The commit keeps every promise above at once; together they are inductive.
BuildInv == /\ TypeOK /\ BuildExclusive /\ JoinersFindABuild /\ CommitBuilds /\ ErrorMeansUnbuilt
            /\ Places /\ ThreadsCounted /\ Outcomes

\* Every commit returns.  After a build that threw they may not: each thread waits until all have
\* left the scheduler, and others keep joining it.
CommitReturns ==
    \A t \in Threads : pc[t] \in {"check", "await", "join"} ~> (At(t, "idle") \/ thrown)
===============================================================================
