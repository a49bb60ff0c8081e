--------------------------- MODULE SceneBuild_proofs ---------------------------
(* The invariant of the commit, for every number of threads: each action keeps *)
(* BuildInv.  Places says which mutex and scheduler a thread has where it is,  *)
(* ThreadsCounted lets a thread that counts itself in or out know the others.  *)
(* The shape of a lemma is one step per part of the invariant; where an action *)
(* counts threads, or takes a scheduler, that part has steps of its own.       *)
(* The linear barrier, for every number of threads, is at the end.             *)
(* Source: src/embree/kernels/common/scene.cpp, Scene::build.                  *)
EXTENDS SceneBuild, FiniteSetTheorems, TLAPS

USE BuildAssumption

\* The threads are finitely many.
LEMMA ThreadsFinite == IsFiniteSet(Threads) /\ Cardinality(Threads) \in Nat
  BY FS_CardinalityType

\* Schedulers are numbers, and Null is none.
LEMMA SchedulersTyped == Schedulers \subseteq Nat /\ Null \notin Schedulers
  BY ThreadsFinite DEF Schedulers

\* A set of threads is finite, and no larger than that of all.
LEMMA SomeThreads == ASSUME NEW S \in SUBSET Threads
                     PROVE  IsFiniteSet(S) /\ Cardinality(S) \in 0 .. Cardinality(Threads)
  BY FS_Subset, FS_CardinalityType, ThreadsFinite

\* A set and one more thread.
LEMMA OneMore == ASSUME NEW S \in SUBSET Threads, NEW t \in Threads \ S
                 PROVE  Cardinality(S \union {t}) = Cardinality(S) + 1
  BY SomeThreads, FS_AddElement

\* A set less one of its threads.
LEMMA OneLess == ASSUME NEW S \in SUBSET Threads, NEW t \in S
                 PROVE  Cardinality(S \ {t}) = Cardinality(S) - 1
  BY SomeThreads, FS_RemoveElement

\* The application changes the scene while nobody is inside.
LEMMA ModifyKeeps == BuildInv /\ Modify => BuildInv'
  <1> SUFFICES ASSUME BuildInv, Modify PROVE BuildInv'
    OBVIOUS
  <1> USE ThreadsFinite, SchedulersTyped DEF BuildInv, Modify, At, Goto, Builder, sceneVars,
           lockVars, threadVars, taskVars, hasRootTask, anyTasksRunning, Count, CountDown, Closure
  <1>1. TypeOK'
    BY DEF TypeOK
  <1>2. Places'
    BY DEF TypeOK, Places, BuildExclusive
  <1>3. ThreadsCounted'
    BY DEF TypeOK, Places, ThreadsCounted, Inside, Free
  <1>4. BuildExclusive'
    BY DEF TypeOK, BuildExclusive, Places
  <1>5. JoinersFindABuild'
    BY DEF TypeOK, JoinersFindABuild, BuildExclusive, Places, Outcomes
  <1>6. Outcomes'
    BY DEF TypeOK, Places, BuildExclusive, JoinersFindABuild, Outcomes
  <1>7. CommitBuilds' /\ ErrorMeansUnbuilt'
    BY DEF TypeOK, Places, BuildExclusive, Outcomes, CommitBuilds, ErrorMeansUnbuilt
  <1> QED BY <1>1, <1>2, <1>3, <1>4, <1>5, <1>6, <1>7

\* A thread takes the scheduler's mutex.
LEMMA EnterKeeps == BuildInv /\ (\E t \in Threads : Enter(t)) => BuildInv'
  <1> SUFFICES ASSUME BuildInv, NEW t \in Threads, Enter(t) PROVE BuildInv'
    OBVIOUS
  <1> USE ThreadsFinite, SchedulersTyped DEF BuildInv, Enter, At, Goto, Builder, sceneVars,
           lockVars, threadVars, taskVars, hasRootTask, anyTasksRunning, Count, CountDown, Closure
  <1>1. TypeOK'
    BY DEF TypeOK
  <1>2. Places'
    BY DEF TypeOK, Places, BuildExclusive
  <1>3. ThreadsCounted'
    BY DEF TypeOK, Places, ThreadsCounted, Inside, Free
  <1>4. BuildExclusive'
    <2>1. \A r \in Schedulers : anyTasksRunning(r)' => anyTasksRunning(r)
      BY DEF TypeOK
    <2>2. \A u \in Threads : At(u, "root") => At(u, "root")' /\ mine'[u] = mine[u]
      BY DEF TypeOK
    <2> QED BY <2>1, <2>2 DEF BuildExclusive
  <1>5. JoinersFindABuild'
    BY DEF TypeOK, JoinersFindABuild, BuildExclusive, Places, Outcomes
  <1>6. Outcomes'
    BY DEF TypeOK, Places, BuildExclusive, JoinersFindABuild, Outcomes
  <1>7. CommitBuilds' /\ ErrorMeansUnbuilt'
    BY DEF TypeOK, Places, BuildExclusive, Outcomes, CommitBuilds, ErrorMeansUnbuilt
  <1> QED BY <1>1, <1>2, <1>3, <1>4, <1>5, <1>6, <1>7

\* A thread takes a reference to the scheduler of the scene, which JoinersFindABuild describes.
LEMMA FindSchedulerKeeps == BuildInv /\ (\E t \in Threads : FindScheduler(t)) => BuildInv'
  <1> SUFFICES ASSUME BuildInv, NEW t \in Threads, FindScheduler(t) PROVE BuildInv'
    OBVIOUS
  <1> USE ThreadsFinite, SchedulersTyped DEF BuildInv, FindScheduler, At, Goto, Builder,
           sceneVars, lockVars, threadVars, taskVars, hasRootTask, anyTasksRunning, Count,
           CountDown, Closure
  <1>1. TypeOK'
    BY DEF TypeOK
  <1>2. Places'
    BY DEF TypeOK, Places, BuildExclusive
  <1>3. ThreadsCounted'
    BY DEF TypeOK, Places, ThreadsCounted, Inside, Free
  <1>4. BuildExclusive'
    <2>1. \A r \in Schedulers : anyTasksRunning(r)' => anyTasksRunning(r)
      BY DEF TypeOK
    <2>2. \A u \in Threads : At(u, "root") => At(u, "root")' /\ mine'[u] = mine[u]
      BY DEF TypeOK
    <2> QED BY <2>1, <2>2 DEF BuildExclusive
  <1>5. JoinersFindABuild'
    BY DEF TypeOK, JoinersFindABuild, BuildExclusive, Places, Outcomes
  <1>6. Outcomes'
    BY DEF TypeOK, Places, BuildExclusive, JoinersFindABuild, Outcomes
  <1>7. CommitBuilds' /\ ErrorMeansUnbuilt'
    BY DEF TypeOK, Places, BuildExclusive, Outcomes, CommitBuilds, ErrorMeansUnbuilt
  <1> QED BY <1>1, <1>2, <1>3, <1>4, <1>5, <1>6, <1>7

\* A builder takes a scheduler that nobody refers to: it counts no thread and runs no task.
LEMMA NewSchedulerKeeps == BuildInv /\ (\E t \in Threads : NewScheduler(t)) => BuildInv'
  <1> SUFFICES ASSUME BuildInv, NEW t \in Threads, NewScheduler(t) PROVE BuildInv'
    OBVIOUS
  <1> USE ThreadsFinite, SchedulersTyped DEF BuildInv, NewScheduler, At, Goto, Builder, sceneVars,
           lockVars, threadVars, taskVars, hasRootTask, anyTasksRunning, Count, CountDown, Closure
  <1>0. PICK s \in Free : /\ scheduler' = s /\ mine' = [mine EXCEPT ![t] = s]
                          /\ closure' = [closure EXCEPT ![s] = "none"]
                          /\ threadCounter' = [threadCounter EXCEPT ![s] = 0]
                          /\ exception' = [exception EXCEPT ![s] = FALSE]
    OBVIOUS
  <1>01. s \in Schedulers /\ s # Null /\ (\A u \in Threads : mine[u] # s) /\ ~anyTasksRunning(s)
    BY DEF Free, TypeOK, BuildExclusive
  <1> USE <1>0, <1>01
  <1>1. TypeOK'
    BY DEF TypeOK
  <1>2. Places'
    BY DEF TypeOK, Places, BuildExclusive
  <1>3. ThreadsCounted'
    <2>0. /\ At(t, "check") /\ pc'[t] = "await" /\ mine[t] = Null /\ mine'[t] = s
          /\ \A u \in Threads \ {t} : pc'[u] = pc[u] /\ mine'[u] = mine[u]
      BY DEF TypeOK, Places
    <2>1a. \A u \in Threads : mine'[u] = s => u = t
      BY <2>0
    <2>1b. Inside(s)' = {}
      BY <2>0, <2>1a DEF Inside
    <2>1c. ASSUME NEW r \in Schedulers \ {s}, NEW u \in Threads
           PROVE  /\ mine'[u] = r /\ pc'[u] \in {"wait", "loop", "root"}
                  <=> mine[u] = r /\ pc[u] \in {"wait", "loop", "root"}
      BY <2>0
    <2>1. Inside(s)' = {} /\ \A r \in Schedulers \ {s} : Inside(r)' = Inside(r)
      BY <2>1b, <2>1c DEF Inside
    <2>2. \A r \in Schedulers \ {s} : r \notin Free' => r \notin Free
      BY DEF TypeOK, Free
    <2> QED BY <2>1, <2>2, FS_EmptySet DEF TypeOK, ThreadsCounted
  <1>4. BuildExclusive'
    BY DEF TypeOK, BuildExclusive, Places
  <1>5. JoinersFindABuild'
    BY DEF TypeOK, JoinersFindABuild, BuildExclusive, Places, Outcomes
  <1>6. Outcomes'
    BY DEF TypeOK, Places, BuildExclusive, JoinersFindABuild, Outcomes
  <1>7. CommitBuilds' /\ ErrorMeansUnbuilt'
    BY DEF TypeOK, Places, BuildExclusive, Outcomes, CommitBuilds, ErrorMeansUnbuilt
  <1> QED BY <1>1, <1>2, <1>3, <1>4, <1>5, <1>6, <1>7

\* The builder goes on; it changes its own place only.
LEMMA AwaitThreadsKeeps == BuildInv /\ (\E t \in Threads : AwaitThreads(t)) => BuildInv'
  <1> SUFFICES ASSUME BuildInv, NEW t \in Threads, AwaitThreads(t) PROVE BuildInv'
    OBVIOUS
  <1> USE ThreadsFinite, SchedulersTyped DEF BuildInv, AwaitThreads, At, Goto, Builder, sceneVars,
           lockVars, threadVars, taskVars, hasRootTask, anyTasksRunning, Count, CountDown, Closure
  <1>1. TypeOK'
    BY DEF TypeOK
  <1>2. Places'
    BY DEF TypeOK, Places, BuildExclusive
  <1>3. ThreadsCounted'
    <2>1. Free' = Free /\ \A r \in Schedulers : Inside(r)' = Inside(r)
      BY DEF TypeOK, Inside, Free
    <2> QED BY <2>1 DEF ThreadsCounted
  <1>4. BuildExclusive'
    <2>1. \A r \in Schedulers : anyTasksRunning(r)' => anyTasksRunning(r)
      BY DEF TypeOK
    <2>2. \A u \in Threads : At(u, "root") => At(u, "root")' /\ mine'[u] = mine[u]
      BY DEF TypeOK
    <2> QED BY <2>1, <2>2 DEF BuildExclusive
  <1>5. JoinersFindABuild'
    BY DEF TypeOK, JoinersFindABuild, BuildExclusive, Places, Outcomes
  <1>6. Outcomes'
    BY DEF TypeOK, Places, BuildExclusive, JoinersFindABuild, Outcomes
  <1>7. CommitBuilds' /\ ErrorMeansUnbuilt'
    BY DEF TypeOK, Places, BuildExclusive, Outcomes, CommitBuilds, ErrorMeansUnbuilt
  <1> QED BY <1>1, <1>2, <1>3, <1>4, <1>5, <1>6, <1>7

\* The builder counts itself in and hands the root task over.
LEMMA SpawnRootKeeps == BuildInv /\ (\E t \in Threads : SpawnRoot(t)) => BuildInv'
  <1> SUFFICES ASSUME BuildInv, NEW t \in Threads, SpawnRoot(t) PROVE BuildInv'
    OBVIOUS
  <1> USE ThreadsFinite, SchedulersTyped DEF BuildInv, SpawnRoot, At, Goto, Builder, sceneVars,
           lockVars, threadVars, taskVars, hasRootTask, anyTasksRunning, Count, CountDown, Closure
  <1>0. /\ mine' = mine /\ mine[t] \in Schedulers \ Free /\ Free' = Free
        /\ \A r \in Schedulers : Inside(r)' = IF r = mine[t] THEN Inside(r) \union {t} ELSE Inside(r)
        /\ \A r \in Schedulers : Inside(r) \in SUBSET Threads /\ Inside(r)' \in SUBSET Threads
        /\ t \notin Inside(mine[t])
    BY DEF TypeOK, Places, Inside, Free
  <1>3. ThreadsCounted'
    <2> SUFFICES ASSUME NEW r \in Schedulers \ Free' PROVE threadCounter'[r] = Cardinality(Inside(r)')
      BY DEF ThreadsCounted
    <2>1. CASE r = mine[t]
      <3>1. Cardinality(Inside(r) \union {t}) = Cardinality(Inside(r)) + 1
        BY <1>0, <2>1, OneMore
      <3>2. threadCounter'[r] = threadCounter[r] + 1
        BY <2>1 DEF TypeOK
      <3> QED BY <1>0, <2>1, <3>1, <3>2 DEF ThreadsCounted
    <2>2. CASE r # mine[t]
      BY <1>0, <2>2 DEF TypeOK, ThreadsCounted
    <2> QED BY <2>1, <2>2
  <1>1. TypeOK'
    <2>1. threadCounter'[mine[t]] \in 0 .. Cardinality(Threads)
      BY <1>0, <1>3, SomeThreads, ZenonT(60) DEF ThreadsCounted
    <2> QED BY <1>0, <2>1 DEF TypeOK
  <1>2. Places'
    BY DEF TypeOK, Places, BuildExclusive
  <1>4. BuildExclusive'
    BY DEF TypeOK, BuildExclusive, Places
  <1>5. JoinersFindABuild'
    BY DEF TypeOK, JoinersFindABuild, BuildExclusive, Places, Outcomes
  <1>6. Outcomes'
    BY DEF TypeOK, Places, BuildExclusive, JoinersFindABuild, Outcomes
  <1>7. CommitBuilds' /\ ErrorMeansUnbuilt'
    BY DEF TypeOK, Places, BuildExclusive, Outcomes, CommitBuilds, ErrorMeansUnbuilt
  <1> QED BY <1>1, <1>2, <1>3, <1>4, <1>5, <1>6, <1>7

\* The root task starts to build.
LEMMA BeginBuildKeeps == BuildInv /\ (\E s \in Schedulers : BeginBuild(s)) => BuildInv'
  <1> SUFFICES ASSUME BuildInv, NEW s \in Schedulers, BeginBuild(s) PROVE BuildInv'
    OBVIOUS
  <1> USE ThreadsFinite, SchedulersTyped DEF BuildInv, BeginBuild, At, Goto, Builder, sceneVars,
           lockVars, threadVars, taskVars, hasRootTask, anyTasksRunning, Count, CountDown, Closure
  <1>1. TypeOK'
    BY DEF TypeOK
  <1>2. Places'
    BY DEF TypeOK, Places, BuildExclusive
  <1>3. ThreadsCounted'
    BY DEF TypeOK, Places, ThreadsCounted, Inside, Free
  <1>4. BuildExclusive'
    <2>1. \A r \in Schedulers : anyTasksRunning(r)' => anyTasksRunning(r)
      BY DEF TypeOK
    <2>2. \A u \in Threads : At(u, "root") => At(u, "root")' /\ mine'[u] = mine[u]
      BY DEF TypeOK
    <2> QED BY <2>1, <2>2 DEF BuildExclusive
  <1>5. JoinersFindABuild'
    BY DEF TypeOK, JoinersFindABuild, BuildExclusive, Places, Outcomes
  <1>6. Outcomes'
    BY DEF TypeOK, Places, BuildExclusive, JoinersFindABuild, Outcomes
  <1>7. CommitBuilds' /\ ErrorMeansUnbuilt'
    BY DEF TypeOK, Places, BuildExclusive, Outcomes, CommitBuilds, ErrorMeansUnbuilt
  <1> QED BY <1>1, <1>2, <1>3, <1>4, <1>5, <1>6, <1>7

\* The build is done and the scene is no longer modified.
LEMMA EndBuildKeeps == BuildInv /\ (\E s \in Schedulers : EndBuild(s)) => BuildInv'
  <1> SUFFICES ASSUME BuildInv, NEW s \in Schedulers, EndBuild(s) PROVE BuildInv'
    OBVIOUS
  <1> USE ThreadsFinite, SchedulersTyped DEF BuildInv, EndBuild, At, Goto, Builder, sceneVars,
           lockVars, threadVars, taskVars, hasRootTask, anyTasksRunning, Count, CountDown, Closure
  <1>1. TypeOK'
    BY DEF TypeOK
  <1>2. Places'
    BY DEF TypeOK, Places, BuildExclusive
  <1>3. ThreadsCounted'
    BY DEF TypeOK, Places, ThreadsCounted, Inside, Free
  <1>4. BuildExclusive'
    <2>1. \A r \in Schedulers : anyTasksRunning(r)' => anyTasksRunning(r)
      BY DEF TypeOK
    <2>2. \A u \in Threads : At(u, "root") => At(u, "root")' /\ mine'[u] = mine[u]
      BY DEF TypeOK
    <2> QED BY <2>1, <2>2 DEF BuildExclusive
  <1>5. JoinersFindABuild'
    BY DEF TypeOK, JoinersFindABuild, BuildExclusive, Places, Outcomes
  <1>6. Outcomes'
    BY DEF TypeOK, Places, BuildExclusive, JoinersFindABuild, Outcomes
  <1>7. CommitBuilds' /\ ErrorMeansUnbuilt'
    BY DEF TypeOK, Places, BuildExclusive, Outcomes, CommitBuilds, ErrorMeansUnbuilt
  <1> QED BY <1>1, <1>2, <1>3, <1>4, <1>5, <1>6, <1>7

\* The build throws and leaves its scheduler in the scene.
LEMMA ThrowKeeps == BuildInv /\ (\E s \in Schedulers : Throw(s)) => BuildInv'
  <1> SUFFICES ASSUME BuildInv, NEW s \in Schedulers, Throw(s) PROVE BuildInv'
    OBVIOUS
  <1> USE ThreadsFinite, SchedulersTyped DEF BuildInv, Throw, At, Goto, Builder, sceneVars,
           lockVars, threadVars, taskVars, hasRootTask, anyTasksRunning, Count, CountDown, Closure
  <1>1. TypeOK'
    BY DEF TypeOK
  <1>2. Places'
    BY DEF TypeOK, Places, BuildExclusive
  <1>3. ThreadsCounted'
    BY DEF TypeOK, Places, ThreadsCounted, Inside, Free
  <1>4. BuildExclusive'
    <2>1. \A r \in Schedulers : anyTasksRunning(r)' => anyTasksRunning(r)
      BY DEF TypeOK
    <2>2. \A u \in Threads : At(u, "root") => At(u, "root")' /\ mine'[u] = mine[u]
      BY DEF TypeOK
    <2> QED BY <2>1, <2>2 DEF BuildExclusive
  <1>5. JoinersFindABuild'
    BY DEF TypeOK, JoinersFindABuild, BuildExclusive, Places, Outcomes
  <1>6. Outcomes'
    BY DEF TypeOK, Places, BuildExclusive, JoinersFindABuild, Outcomes
  <1>7. CommitBuilds' /\ ErrorMeansUnbuilt'
    BY DEF TypeOK, Places, BuildExclusive, Outcomes, CommitBuilds, ErrorMeansUnbuilt
  <1> QED BY <1>1, <1>2, <1>3, <1>4, <1>5, <1>6, <1>7

\* The root task takes the scheduler out of the scene.
LEMMA ResetKeeps == BuildInv /\ (\E s \in Schedulers : Reset(s)) => BuildInv'
  <1> SUFFICES ASSUME BuildInv, NEW s \in Schedulers, Reset(s) PROVE BuildInv'
    OBVIOUS
  <1> USE ThreadsFinite, SchedulersTyped DEF BuildInv, Reset, At, Goto, Builder, sceneVars,
           lockVars, threadVars, taskVars, hasRootTask, anyTasksRunning, Count, CountDown, Closure
  <1>1. TypeOK'
    BY DEF TypeOK
  <1>2. Places'
    BY DEF TypeOK, Places, BuildExclusive
  <1>3. ThreadsCounted'
    BY DEF TypeOK, Places, ThreadsCounted, Inside, Free
  <1>4. BuildExclusive'
    <2>1. \A r \in Schedulers : anyTasksRunning(r)' => anyTasksRunning(r)
      BY DEF TypeOK
    <2>2. \A u \in Threads : At(u, "root") => At(u, "root")' /\ mine'[u] = mine[u]
      BY DEF TypeOK
    <2> QED BY <2>1, <2>2 DEF BuildExclusive
  <1>5. JoinersFindABuild'
    BY DEF TypeOK, JoinersFindABuild, BuildExclusive, Places, Outcomes
  <1>6. Outcomes'
    BY DEF TypeOK, Places, BuildExclusive, JoinersFindABuild, Outcomes
  <1>7. CommitBuilds' /\ ErrorMeansUnbuilt'
    BY DEF TypeOK, Places, BuildExclusive, Outcomes, CommitBuilds, ErrorMeansUnbuilt
  <1> QED BY <1>1, <1>2, <1>3, <1>4, <1>5, <1>6, <1>7

\* A thread counts itself in.
LEMMA JoinKeeps == BuildInv /\ (\E t \in Threads : Join(t)) => BuildInv'
  <1> SUFFICES ASSUME BuildInv, NEW t \in Threads, Join(t) PROVE BuildInv'
    OBVIOUS
  <1> USE ThreadsFinite, SchedulersTyped DEF BuildInv, Join, At, Goto, Builder, sceneVars,
           lockVars, threadVars, taskVars, hasRootTask, anyTasksRunning, Count, CountDown, Closure
  <1>0. /\ mine' = mine /\ mine[t] \in Schedulers \ Free /\ Free' = Free
        /\ \A r \in Schedulers : Inside(r)' = IF r = mine[t] THEN Inside(r) \union {t} ELSE Inside(r)
        /\ \A r \in Schedulers : Inside(r) \in SUBSET Threads /\ Inside(r)' \in SUBSET Threads
        /\ t \notin Inside(mine[t])
    BY DEF TypeOK, Places, Inside, Free
  <1>3. ThreadsCounted'
    <2>1. Cardinality(Inside(mine[t])') = Cardinality(Inside(mine[t])) + 1
      BY <1>0, OneMore
    <2> QED BY <1>0, <2>1 DEF TypeOK, ThreadsCounted
  <1>1. TypeOK'
    <2>1. threadCounter'[mine[t]] \in 0 .. Cardinality(Threads)
      BY <1>0, <1>3, SomeThreads DEF ThreadsCounted
    <2> QED BY <1>0, <2>1 DEF TypeOK
  <1>2. Places'
    BY DEF TypeOK, Places, BuildExclusive
  <1>4. BuildExclusive'
    <2>1. \A r \in Schedulers : anyTasksRunning(r)' => anyTasksRunning(r)
      BY DEF TypeOK
    <2>2. \A u \in Threads : At(u, "root") => At(u, "root")' /\ mine'[u] = mine[u]
      BY DEF TypeOK
    <2> QED BY <2>1, <2>2 DEF BuildExclusive
  <1>5. JoinersFindABuild'
    BY DEF TypeOK, JoinersFindABuild, BuildExclusive, Places, Outcomes
  <1>6. Outcomes'
    BY DEF TypeOK, Places, BuildExclusive, JoinersFindABuild, Outcomes
  <1>7. CommitBuilds' /\ ErrorMeansUnbuilt'
    BY DEF TypeOK, Places, BuildExclusive, Outcomes, CommitBuilds, ErrorMeansUnbuilt
  <1> QED BY <1>1, <1>2, <1>3, <1>4, <1>5, <1>6, <1>7

\* A thread that joined sees the root task.
LEMMA WokenKeeps == BuildInv /\ (\E t \in Threads : Woken(t)) => BuildInv'
  <1> SUFFICES ASSUME BuildInv, NEW t \in Threads, Woken(t) PROVE BuildInv'
    OBVIOUS
  <1> USE ThreadsFinite, SchedulersTyped DEF BuildInv, Woken, At, Goto, Builder, sceneVars,
           lockVars, threadVars, taskVars, hasRootTask, anyTasksRunning, Count, CountDown, Closure
  <1>1. TypeOK'
    BY DEF TypeOK
  <1>2. Places'
    BY DEF TypeOK, Places, BuildExclusive
  <1>3. ThreadsCounted'
    BY DEF TypeOK, Places, ThreadsCounted, Inside, Free
  <1>4. BuildExclusive'
    <2>1. \A r \in Schedulers : anyTasksRunning(r)' => anyTasksRunning(r)
      BY DEF TypeOK
    <2>2. \A u \in Threads : At(u, "root") => At(u, "root")' /\ mine'[u] = mine[u]
      BY DEF TypeOK
    <2> QED BY <2>1, <2>2 DEF BuildExclusive
  <1>5. JoinersFindABuild'
    BY DEF TypeOK, JoinersFindABuild, BuildExclusive, Places, Outcomes
  <1>6. Outcomes'
    BY DEF TypeOK, Places, BuildExclusive, JoinersFindABuild, Outcomes
  <1>7. CommitBuilds' /\ ErrorMeansUnbuilt'
    BY DEF TypeOK, Places, BuildExclusive, Outcomes, CommitBuilds, ErrorMeansUnbuilt
  <1> QED BY <1>1, <1>2, <1>3, <1>4, <1>5, <1>6, <1>7

\* A thread counts itself out when the root task is over.
LEMMA LeaveKeeps == BuildInv /\ (\E t \in Threads : Leave(t)) => BuildInv'
  <1> SUFFICES ASSUME BuildInv, NEW t \in Threads, Leave(t) PROVE BuildInv'
    OBVIOUS
  <1> USE ThreadsFinite, SchedulersTyped DEF BuildInv, Leave, At, Goto, Builder, sceneVars,
           lockVars, threadVars, taskVars, hasRootTask, anyTasksRunning, Count, CountDown, Closure
  <1>0. /\ mine' = mine /\ mine[t] \in Schedulers \ Free /\ Free' = Free
        /\ \A r \in Schedulers : Inside(r)' = IF r = mine[t] THEN Inside(r) \ {t} ELSE Inside(r)
        /\ \A r \in Schedulers : Inside(r) \in SUBSET Threads /\ Inside(r)' \in SUBSET Threads
        /\ t \in Inside(mine[t])
    BY DEF TypeOK, Places, Inside, Free
  <1>3. ThreadsCounted'
    <2> SUFFICES ASSUME NEW r \in Schedulers \ Free' PROVE threadCounter'[r] = Cardinality(Inside(r)')
      BY DEF ThreadsCounted
    <2>1. CASE r = mine[t]
      <3>1. Cardinality(Inside(r) \ {t}) = Cardinality(Inside(r)) - 1
        BY <1>0, <2>1, OneLess
      <3>2. threadCounter'[r] = threadCounter[r] - 1
        BY <2>1 DEF TypeOK
      <3> QED BY <1>0, <2>1, <3>1, <3>2 DEF ThreadsCounted
    <2>2. CASE r # mine[t]
      BY <1>0, <2>2 DEF TypeOK, ThreadsCounted
    <2> QED BY <2>1, <2>2
  <1>1. TypeOK'
    <2>1. threadCounter'[mine[t]] \in 0 .. Cardinality(Threads)
      BY <1>0, <1>3, SomeThreads DEF ThreadsCounted
    <2> QED BY <1>0, <2>1 DEF TypeOK
  <1>2. Places'
    BY DEF TypeOK, Places, BuildExclusive
  <1>4. BuildExclusive'
    BY DEF TypeOK, BuildExclusive, Places
  <1>5. JoinersFindABuild'
    BY DEF TypeOK, JoinersFindABuild, BuildExclusive, Places, Outcomes
  <1>6. Outcomes'
    BY DEF TypeOK, Places, BuildExclusive, JoinersFindABuild, Outcomes
  <1>7. CommitBuilds' /\ ErrorMeansUnbuilt'
    BY DEF TypeOK, Places, BuildExclusive, Outcomes, CommitBuilds, ErrorMeansUnbuilt
  <1> QED BY <1>1, <1>2, <1>3, <1>4, <1>5, <1>6, <1>7

\* A thread lets go of the scheduler and reports what it heard.
LEMMA JoinReturnsKeeps == BuildInv /\ (\E t \in Threads : JoinReturns(t)) => BuildInv'
  <1> SUFFICES ASSUME BuildInv, NEW t \in Threads, JoinReturns(t) PROVE BuildInv'
    OBVIOUS
  <1> USE ThreadsFinite, SchedulersTyped DEF BuildInv, JoinReturns, At, Goto, Builder, sceneVars,
           lockVars, threadVars, taskVars, hasRootTask, anyTasksRunning, Count, CountDown, Closure
  <1>1. TypeOK'
    BY DEF TypeOK
  <1>2. Places'
    BY DEF TypeOK, Places, BuildExclusive
  <1>3. ThreadsCounted'
    BY DEF TypeOK, Places, ThreadsCounted, Inside, Free
  <1>4. BuildExclusive'
    <2>1. \A r \in Schedulers : anyTasksRunning(r)' => anyTasksRunning(r)
      BY DEF TypeOK
    <2>2. \A u \in Threads : At(u, "root") => At(u, "root")' /\ mine'[u] = mine[u]
      BY DEF TypeOK
    <2> QED BY <2>1, <2>2 DEF BuildExclusive
  <1>5. JoinersFindABuild'
    BY DEF TypeOK, JoinersFindABuild, BuildExclusive, Places, Outcomes
  <1>6. Outcomes'
    BY DEF TypeOK, Places, BuildExclusive, JoinersFindABuild, Outcomes
  <1>7. CommitBuilds' /\ ErrorMeansUnbuilt'
    BY DEF TypeOK, Places, BuildExclusive, Outcomes, CommitBuilds, ErrorMeansUnbuilt
  <1> QED BY <1>1, <1>2, <1>3, <1>4, <1>5, <1>6, <1>7

\* The builder forgets the exception of its scheduler.
LEMMA RootReturnsKeeps == BuildInv /\ (\E t \in Threads : RootReturns(t)) => BuildInv'
  <1> SUFFICES ASSUME BuildInv, NEW t \in Threads, RootReturns(t) PROVE BuildInv'
    OBVIOUS
  <1> USE ThreadsFinite, SchedulersTyped DEF BuildInv, RootReturns, At, Goto, Builder, sceneVars,
           lockVars, threadVars, taskVars, hasRootTask, anyTasksRunning, Count, CountDown, Closure
  <1>1. TypeOK'
    BY DEF TypeOK
  <1>2. Places'
    BY DEF TypeOK, Places, BuildExclusive
  <1>3. ThreadsCounted'
    BY DEF TypeOK, Places, ThreadsCounted, Inside, Free
  <1>4. BuildExclusive'
    BY DEF TypeOK, BuildExclusive, Places
  <1>5. JoinersFindABuild'
    BY DEF TypeOK, JoinersFindABuild, BuildExclusive, Places, Outcomes
  <1>6. Outcomes'
    BY DEF TypeOK, Places, BuildExclusive, JoinersFindABuild, Outcomes
  <1>7. CommitBuilds' /\ ErrorMeansUnbuilt'
    BY DEF TypeOK, Places, BuildExclusive, Outcomes, CommitBuilds, ErrorMeansUnbuilt
  <1> QED BY <1>1, <1>2, <1>3, <1>4, <1>5, <1>6, <1>7

\* The handler clears the scene.
LEMMA CatchKeeps == BuildInv /\ (\E t \in Threads : Catch(t)) => BuildInv'
  <1> SUFFICES ASSUME BuildInv, NEW t \in Threads, Catch(t) PROVE BuildInv'
    OBVIOUS
  <1> USE ThreadsFinite, SchedulersTyped DEF BuildInv, Catch, At, Goto, Builder, sceneVars,
           lockVars, threadVars, taskVars, hasRootTask, anyTasksRunning, Count, CountDown, Closure
  <1>1. TypeOK'
    BY DEF TypeOK
  <1>2. Places'
    BY DEF TypeOK, Places, BuildExclusive
  <1>3. ThreadsCounted'
    <2>1. Free' = Free /\ \A r \in Schedulers : Inside(r)' = Inside(r)
      BY DEF TypeOK, Inside, Free
    <2> QED BY <2>1 DEF ThreadsCounted
  <1>4. BuildExclusive'
    BY DEF TypeOK, BuildExclusive, Places
  <1>5. JoinersFindABuild'
    BY DEF TypeOK, JoinersFindABuild, BuildExclusive, Places, Outcomes
  <1>6. Outcomes'
    BY DEF TypeOK, Places, BuildExclusive, JoinersFindABuild, Outcomes
  <1>7. CommitBuilds' /\ ErrorMeansUnbuilt'
    BY DEF TypeOK, Places, BuildExclusive, Outcomes, CommitBuilds, ErrorMeansUnbuilt
  <1> QED BY <1>1, <1>2, <1>3, <1>4, <1>5, <1>6, <1>7

\* The builder releases the build mutex and reports.
LEMMA BuilderReturnsKeeps == BuildInv /\ (\E t \in Threads : BuilderReturns(t)) => BuildInv'
  <1> SUFFICES ASSUME BuildInv, NEW t \in Threads, BuilderReturns(t) PROVE BuildInv'
    OBVIOUS
  <1> USE ThreadsFinite, SchedulersTyped DEF BuildInv, BuilderReturns, At, Goto, Builder,
           sceneVars, lockVars, threadVars, taskVars, hasRootTask, anyTasksRunning, Count,
           CountDown, Closure
  <1>1. TypeOK'
    BY DEF TypeOK
  <1>2. Places'
    BY DEF TypeOK, Places, BuildExclusive
  <1>3. ThreadsCounted'
    BY DEF TypeOK, Places, ThreadsCounted, Inside, Free
  <1>4. BuildExclusive'
    BY DEF TypeOK, BuildExclusive, Places
  <1>5. JoinersFindABuild'
    BY DEF TypeOK, JoinersFindABuild, BuildExclusive, Places, Outcomes
  <1>6. Outcomes'
    BY DEF TypeOK, Places, BuildExclusive, JoinersFindABuild, Outcomes
  <1>7. CommitBuilds' /\ ErrorMeansUnbuilt'
    BY DEF TypeOK, Places, BuildExclusive, Outcomes, CommitBuilds, ErrorMeansUnbuilt
  <1> QED BY <1>1, <1>2, <1>3, <1>4, <1>5, <1>6, <1>7


\* Nobody has entered, no scheduler counts a thread.
LEMMA BuildInvInit == Init => BuildInv
  <1> SUFFICES ASSUME Init PROVE BuildInv
    OBVIOUS
  <1> USE ThreadsFinite, SchedulersTyped DEF Init, At, anyTasksRunning, hasRootTask
  <1>1. TypeOK
    <2>1. threadCounter \in [Schedulers -> 0 .. Cardinality(Threads)]
      OBVIOUS
    <2>2. pc \in [Threads -> {"idle", "check", "await", "spawn", "root", "join", "wait", "loop",
                              "left", "rootLeft", "catch", "unlock"}]
      OBVIOUS
    <2> QED BY <2>1, <2>2 DEF TypeOK
  <1>2. \A s \in Schedulers : Inside(s) = {}
    BY DEF Inside
  <1>3. ThreadsCounted
    BY <1>2, FS_EmptySet DEF ThreadsCounted
  <1>4. Places /\ Outcomes
    BY DEF Places, Outcomes, Builder
  <1>5. BuildExclusive /\ JoinersFindABuild /\ CommitBuilds /\ ErrorMeansUnbuilt
    BY DEF BuildExclusive, JoinersFindABuild, CommitBuilds, ErrorMeansUnbuilt
  <1> QED BY <1>1, <1>3, <1>4, <1>5 DEF BuildInv

\* No step of the commit breaks the invariant.
LEMMA BuildInvStep == BuildInv /\ [Next]_vars => BuildInv'
  <1> SUFFICES ASSUME BuildInv, [Next]_vars PROVE BuildInv'
    OBVIOUS
  <1>1. CASE UNCHANGED vars
    BY <1>1 DEF vars, sceneVars, lockVars, threadVars, taskVars, BuildInv, TypeOK, BuildExclusive,
               JoinersFindABuild, CommitBuilds, ErrorMeansUnbuilt, Places, ThreadsCounted,
               Outcomes, Inside, Free, Builder, At, anyTasksRunning, hasRootTask
  <1>2. CASE Next
    BY <1>2, ModifyKeeps, EnterKeeps, FindSchedulerKeeps, NewSchedulerKeeps,
       AwaitThreadsKeeps, SpawnRootKeeps, BeginBuildKeeps, EndBuildKeeps,
       ThrowKeeps, ResetKeeps, JoinKeeps, WokenKeeps,
       LeaveKeeps, JoinReturnsKeeps, RootReturnsKeeps, CatchKeeps,
       BuilderReturnsKeeps
       DEF Next, Commit, RootTask
  <1> QED BY <1>1, <1>2

\* For every number of threads that commit one scene: a root task has a builder that waits for
\* it, threads that find a scheduler are let go, and what a commit reports is true of the scene.
THEOREM BuildInvInvariant == Spec => []BuildInv
  BY BuildInvInit, BuildInvStep, PTL DEF Spec

------------------------------------------------------------------------------
\* The barrier of common/sys at which the threads of one job meet again and again: it keeps them
\* together, whatever their number.  Source: src/embree/common/sys/barrier.cpp.
CONSTANTS Waiters, waiterCount, BarrierRounds
VARIABLES enteredBarrier, leftBarrier, barrierCount, barrierFlag, barrierMode, barrierPc, barrierMy, barrierK

Barrier == INSTANCE LinearBarrier WITH
               Threads <- Waiters, threadCount <- waiterCount, MaxRounds <- BarrierRounds,
               entered <- enteredBarrier, left <- leftBarrier, count <- barrierCount,
               flag <- barrierFlag, mode <- barrierMode, pc <- barrierPc, my <- barrierMy, k <- barrierK

USE DEF Barrier!BarrierAssumption

\* Thread 0 is a thread, and the others are not.
LEMMA ThreadZero == ASSUME Barrier!BarrierAssumption PROVE 0 \in Waiters /\ Barrier!Others \subseteq Waiters /\ 0 \notin Barrier!Others
  BY DEF Barrier!Others

\* The invariant holds at the beginning.
LEMMA BarrierInvInit == ASSUME Barrier!BarrierAssumption PROVE Barrier!Init => Barrier!BarrierInv
  BY ThreadZero DEF Barrier!Init, Barrier!RoundsInit, Barrier!BarrierInv, Barrier!TypeOK, Barrier!PlacesKept, Barrier!OneRoundBehind, Barrier!ReportsCurrent,
     Barrier!Current

\* A thread that enters reads the mode of the round of thread 0: it has left the one before.
LEMMA BarrierEnterKeeps == ASSUME Barrier!BarrierAssumption PROVE Barrier!BarrierInv /\ (\E t \in Waiters : Barrier!Enter(t)) => Barrier!BarrierInv'
  <1> SUFFICES ASSUME Barrier!BarrierInv, NEW t \in Waiters, Barrier!Enter(t) PROVE Barrier!BarrierInv'
    OBVIOUS
  <1> USE ThreadZero DEF Barrier!BarrierInv, Barrier!TypeOK
  <1>1. Barrier!TypeOK' /\ Barrier!Current' = Barrier!Current
    BY DEF Barrier!Enter, Barrier!Arrive, Barrier!Step, Barrier!barrierVars, Barrier!Current
  <1>2. Barrier!PlacesKept'
    BY <1>1 DEF Barrier!PlacesKept, Barrier!Enter, Barrier!Arrive, Barrier!Step, Barrier!barrierVars, Barrier!Current, Barrier!Inside, Barrier!Others
  <1>3. Barrier!OneRoundBehind'
    <2>1. t # 0 => barrierMode = Barrier!Current
      BY DEF Barrier!Enter, Barrier!Step, Barrier!PlacesKept, Barrier!ReportsCurrent, Barrier!Current, Barrier!Others
    <2> QED BY <1>1, <2>1 DEF Barrier!OneRoundBehind, Barrier!Enter, Barrier!Arrive, Barrier!Step, Barrier!barrierVars, Barrier!Others
  <1>4. Barrier!ReportsCurrent'
    BY <1>1 DEF Barrier!ReportsCurrent, Barrier!PlacesKept, Barrier!Enter, Barrier!Arrive, Barrier!Step, Barrier!barrierVars, Barrier!Others, Barrier!Current
  <1> QED BY <1>1, <1>2, <1>3, <1>4

\* Thread 0 clears only reports of the round to come.
LEMMA ClearKeeps == ASSUME Barrier!BarrierAssumption PROVE Barrier!BarrierInv /\ Barrier!Clear => Barrier!BarrierInv'
  <1> SUFFICES ASSUME Barrier!BarrierInv, Barrier!Clear PROVE Barrier!BarrierInv'
    OBVIOUS
  <1> USE ThreadZero DEF Barrier!BarrierInv, Barrier!TypeOK, Barrier!Clear
  <1>1. barrierK \in Waiters /\ barrierMy[0] = Barrier!Current /\ Barrier!Current \in {0, 1} /\ Barrier!Current' = Barrier!Current
    BY DEF Barrier!Current, Barrier!PlacesKept
  <1>2. barrierCount' = [barrierCount EXCEPT ![1 - Barrier!Current] = [barrierCount[1 - Barrier!Current] EXCEPT ![barrierK] = 0]]
    BY <1>1
  <1>3. Barrier!TypeOK'
    <2> DEFINE next == 1 - Barrier!Current
               cleared == [barrierCount[next] EXCEPT ![barrierK] = 0]
    <2>1. next \in {0, 1}
      BY <1>1
    <2> HIDE DEF next
    <2>2. barrierCount[next] \in [Waiters -> {0, 1}]
      BY <2>1
    <2>3. cleared \in [Waiters -> {0, 1}]
      BY <2>2
    <2> HIDE DEF cleared
    <2>4. [barrierCount EXCEPT ![next] = cleared] \in [{0, 1} -> [Waiters -> {0, 1}]]
      BY <2>1, <2>3
    <2>5. barrierCount' \in [{0, 1} -> [Waiters -> {0, 1}]]
      BY <1>2, <2>4 DEF next, cleared
    <2> QED BY <2>5 DEF Barrier!roundVars
  <1>4. Barrier!PlacesKept' /\ Barrier!OneRoundBehind'
    BY <1>1 DEF Barrier!PlacesKept, Barrier!OneRoundBehind, Barrier!roundVars
  <1>5. Barrier!ReportsCurrent'
    BY <1>1, <1>2 DEF Barrier!ReportsCurrent, Barrier!roundVars, Barrier!Others
  <1> QED BY <1>3, <1>4, <1>5

LEMMA ClearedKeeps == ASSUME Barrier!BarrierAssumption PROVE Barrier!BarrierInv /\ Barrier!Cleared => Barrier!BarrierInv'
  <1> SUFFICES ASSUME Barrier!BarrierInv, Barrier!Cleared PROVE Barrier!BarrierInv'
    OBVIOUS
  <1> USE ThreadZero DEF Barrier!BarrierInv, Barrier!TypeOK, Barrier!Cleared, Barrier!Step, Barrier!barrierVars, Barrier!roundVars
  <1>1. Barrier!TypeOK' /\ Barrier!Current' = Barrier!Current
    BY DEF Barrier!Current, Barrier!PlacesKept
  <1>2. Barrier!PlacesKept' /\ Barrier!OneRoundBehind'
    BY <1>1 DEF Barrier!PlacesKept, Barrier!OneRoundBehind, Barrier!Others
  <1>3. Barrier!ReportsCurrent'
    BY <1>1 DEF Barrier!ReportsCurrent, Barrier!Others
  <1> QED BY <1>1, <1>2, <1>3

LEMMA CollectKeeps == ASSUME Barrier!BarrierAssumption PROVE Barrier!BarrierInv /\ Barrier!Collect => Barrier!BarrierInv'
  <1> SUFFICES ASSUME Barrier!BarrierInv, Barrier!Collect PROVE Barrier!BarrierInv'
    OBVIOUS
  <1> USE ThreadZero DEF Barrier!BarrierInv, Barrier!TypeOK, Barrier!Collect, Barrier!barrierVars, Barrier!roundVars
  <1>1. Barrier!TypeOK' /\ Barrier!Current' = Barrier!Current
    BY DEF Barrier!Current, Barrier!PlacesKept
  <1>2. Barrier!PlacesKept' /\ Barrier!OneRoundBehind'
    BY <1>1 DEF Barrier!PlacesKept, Barrier!OneRoundBehind, Barrier!Others
  <1>3. \A t \in Barrier!Others : t < barrierK' => barrierCount[Barrier!Current][t] = 1
    <2>1. barrierMy[0] = Barrier!Current /\ Barrier!Current \in {0, 1}
      BY DEF Barrier!PlacesKept, Barrier!Current
    <2>2. ASSUME NEW t \in Barrier!Others PROVE t \in Nat /\ barrierCount[Barrier!Current][t] \in {0, 1}
      <3>1. t \in Waiters /\ barrierCount[Barrier!Current] \in [Waiters -> {0, 1}]
        BY <2>1
      <3> QED BY <3>1
    <2>3. \A t \in Barrier!Others : t < barrierK => barrierCount[Barrier!Current][t] = 1
      BY DEF Barrier!ReportsCurrent
    <2>4. ASSUME NEW t \in Barrier!Others, t < barrierK' PROVE barrierCount[Barrier!Current][t] = 1
      <3>1. t < barrierK \/ t = barrierK
        BY <2>2, <2>4
      <3> QED BY <2>1, <2>2, <2>3, <3>1
    <2> QED BY <2>4
  <1>4. Barrier!ReportsCurrent'
    BY <1>1, <1>3 DEF Barrier!ReportsCurrent
  <1> QED BY <1>1, <1>2, <1>4

\* When the mode changes every other thread has reported: none is a round behind.
LEMMA SwitchModeKeeps == ASSUME Barrier!BarrierAssumption PROVE Barrier!BarrierInv /\ Barrier!SwitchMode => Barrier!BarrierInv'
  <1> SUFFICES ASSUME Barrier!BarrierInv, Barrier!SwitchMode PROVE Barrier!BarrierInv'
    OBVIOUS
  <1> USE ThreadZero DEF Barrier!BarrierInv, Barrier!TypeOK, Barrier!SwitchMode, Barrier!Step, Barrier!roundVars
  <1>1. Barrier!TypeOK' /\ Barrier!Current' = Barrier!Current
    BY DEF Barrier!Current, Barrier!PlacesKept
  <1>2. Barrier!PlacesKept' /\ Barrier!OneRoundBehind'
    BY <1>1 DEF Barrier!PlacesKept, Barrier!OneRoundBehind, Barrier!Others
  <1>3. Barrier!ReportsCurrent'
    BY <1>1 DEF Barrier!ReportsCurrent, Barrier!Others
  <1> QED BY <1>1, <1>2, <1>3

LEMMA LowerFlagKeeps == ASSUME Barrier!BarrierAssumption PROVE Barrier!BarrierInv /\ Barrier!LowerFlag => Barrier!BarrierInv'
  <1> SUFFICES ASSUME Barrier!BarrierInv, Barrier!LowerFlag PROVE Barrier!BarrierInv'
    OBVIOUS
  <1> USE ThreadZero DEF Barrier!BarrierInv, Barrier!TypeOK, Barrier!LowerFlag, Barrier!Step, Barrier!roundVars
  <1>1. Barrier!TypeOK' /\ Barrier!Current' = Barrier!Current
    BY DEF Barrier!Current, Barrier!PlacesKept
  <1>2. Barrier!PlacesKept' /\ Barrier!OneRoundBehind'
    BY <1>1 DEF Barrier!PlacesKept, Barrier!OneRoundBehind, Barrier!ReportsCurrent, Barrier!Others, Barrier!Current
  <1>3. Barrier!ReportsCurrent'
    BY <1>1 DEF Barrier!ReportsCurrent, Barrier!PlacesKept, Barrier!Others, Barrier!Current
  <1> QED BY <1>1, <1>2, <1>3

\* The flag goes up when every thread waits in this round.
LEMMA RaiseFlagKeeps == ASSUME Barrier!BarrierAssumption PROVE Barrier!BarrierInv /\ Barrier!RaiseFlag => Barrier!BarrierInv'
  <1> SUFFICES ASSUME Barrier!BarrierInv, Barrier!RaiseFlag PROVE Barrier!BarrierInv'
    OBVIOUS
  <1> USE ThreadZero DEF Barrier!BarrierInv, Barrier!TypeOK, Barrier!RaiseFlag, Barrier!Step, Barrier!Depart
  <1>1. Barrier!TypeOK' /\ Barrier!Current' = 1 - Barrier!Current
    BY DEF Barrier!Current, Barrier!PlacesKept
  <1>2. Barrier!PlacesKept'
    BY <1>1 DEF Barrier!PlacesKept, Barrier!Others
  <1>3. Barrier!OneRoundBehind'
    BY <1>1 DEF Barrier!PlacesKept, Barrier!OneRoundBehind, Barrier!ReportsCurrent, Barrier!Others, Barrier!Current
  <1>4. Barrier!Current \in {0, 1} /\ barrierMy[0] = Barrier!Current /\ barrierCount' = barrierCount /\ barrierPc'[0] = "out"
    BY DEF Barrier!Current, Barrier!PlacesKept
  <1>5. barrierFlag'[1 - Barrier!Current] = 0
    BY <1>4 DEF Barrier!ReportsCurrent
  <1>6. ASSUME NEW t \in Barrier!Others PROVE barrierCount[1 - Barrier!Current][t] = 0 /\ leftBarrier'[t] # leftBarrier'[0]
    BY DEF Barrier!ReportsCurrent
  <1>7. Barrier!ReportsCurrent'
    BY <1>1, <1>4, <1>5, <1>6 DEF Barrier!ReportsCurrent
  <1> QED BY <1>1, <1>2, <1>3, <1>7

LEMMA ReportKeeps == ASSUME Barrier!BarrierAssumption PROVE Barrier!BarrierInv /\ (\E t \in Barrier!Others : Barrier!Report(t)) => Barrier!BarrierInv'
  <1> SUFFICES ASSUME Barrier!BarrierInv, NEW t \in Barrier!Others, Barrier!Report(t) PROVE Barrier!BarrierInv'
    OBVIOUS
  <1> USE ThreadZero DEF Barrier!BarrierInv, Barrier!TypeOK, Barrier!Report, Barrier!Step, Barrier!roundVars
  <1>1. Barrier!TypeOK' /\ Barrier!Current' = Barrier!Current
    BY DEF Barrier!Current, Barrier!PlacesKept
  <1>2. Barrier!PlacesKept' /\ Barrier!OneRoundBehind'
    BY <1>1 DEF Barrier!PlacesKept, Barrier!OneRoundBehind, Barrier!Others
  <1>3. Barrier!Current \in {0, 1} /\ barrierMy[t] = Barrier!Current /\ leftBarrier[t] = leftBarrier[0] /\ barrierPc[0] \notin {"lower", "raise"}
    BY DEF Barrier!Current, Barrier!OneRoundBehind, Barrier!PlacesKept, Barrier!ReportsCurrent
  <1>4. barrierCount' = [barrierCount EXCEPT ![Barrier!Current] = [barrierCount[Barrier!Current] EXCEPT ![t] = 1]]
    BY <1>3
  <1>5. \A u \in Barrier!Others :
          /\ barrierCount'[Barrier!Current][u] = IF u = t THEN 1 ELSE barrierCount[Barrier!Current][u]
          /\ barrierCount'[1 - Barrier!Current][u] = barrierCount[1 - Barrier!Current][u]
    BY <1>3, <1>4
  <1>6. \A u \in Barrier!Others : barrierCount'[Barrier!Current][u] = 1 <=> barrierPc'[u] = "spin" /\ leftBarrier[u] = leftBarrier[0]
    <2> SUFFICES ASSUME NEW u \in Barrier!Others
                 PROVE barrierCount'[Barrier!Current][u] = 1 <=> barrierPc'[u] = "spin" /\ leftBarrier[u] = leftBarrier[0]
      OBVIOUS
    <2>1. CASE u = t
      BY <2>1, <1>3, <1>5
    <2>2. CASE u # t
      BY <2>2, <1>5 DEF Barrier!ReportsCurrent
    <2> QED BY <2>1, <2>2
  <1>7. Barrier!ReportsCurrent'
    BY <1>1, <1>3, <1>5, <1>6 DEF Barrier!ReportsCurrent
  <1> QED BY <1>1, <1>2, <1>7

\* The flag of this round is down: only a thread of the round before is released.
LEMMA ReleasedKeeps == ASSUME Barrier!BarrierAssumption PROVE Barrier!BarrierInv /\ (\E t \in Barrier!Others : Barrier!Released(t)) => Barrier!BarrierInv'
  <1> SUFFICES ASSUME Barrier!BarrierInv, NEW t \in Barrier!Others, Barrier!Released(t) PROVE Barrier!BarrierInv'
    OBVIOUS
  <1> USE ThreadZero DEF Barrier!BarrierInv, Barrier!TypeOK, Barrier!Released, Barrier!Step, Barrier!barrierVars, Barrier!Depart
  <1>1. Barrier!TypeOK' /\ Barrier!Current' = Barrier!Current
    BY DEF Barrier!Current, Barrier!PlacesKept
  <1>2. Barrier!PlacesKept' /\ Barrier!OneRoundBehind'
    BY <1>1 DEF Barrier!PlacesKept, Barrier!OneRoundBehind, Barrier!ReportsCurrent, Barrier!Others
  <1>3. Barrier!ReportsCurrent'
    BY <1>1 DEF Barrier!ReportsCurrent, Barrier!OneRoundBehind, Barrier!PlacesKept, Barrier!Others
  <1> QED BY <1>1, <1>2, <1>3

\* No step leads out of the invariant.
LEMMA BarrierInvStep == ASSUME Barrier!BarrierAssumption PROVE Barrier!BarrierInv /\ [Barrier!Next]_Barrier!vars => Barrier!BarrierInv'
  <1>1. Barrier!BarrierInv /\ UNCHANGED Barrier!vars => Barrier!BarrierInv'
    BY DEF Barrier!vars, Barrier!roundVars, Barrier!barrierVars, Barrier!BarrierInv, Barrier!TypeOK, Barrier!PlacesKept, Barrier!OneRoundBehind,
           Barrier!ReportsCurrent, Barrier!Current
  <1> QED BY <1>1, BarrierEnterKeeps, ClearKeeps, ClearedKeeps, CollectKeeps, SwitchModeKeeps,
             LowerFlagKeeps, RaiseFlagKeeps, ReportKeeps, ReleasedKeeps DEF Barrier!Next, Barrier!Collector

\* The barrier always keeps its invariant: reports and flags of two rounds never mix.
THEOREM BarrierInvariant == ASSUME Barrier!BarrierAssumption PROVE Barrier!Spec => []Barrier!BarrierInv
  <1> QED BY BarrierInvInit, BarrierInvStep, PTL DEF Barrier!Spec

\* Thread 0 leaves when every other thread has reported.
LEMMA RaiseFlagLeaves == ASSUME Barrier!BarrierAssumption PROVE Barrier!BarrierInv /\ Barrier!RaiseFlag => Barrier!Leave(0)
  <1> SUFFICES ASSUME Barrier!BarrierInv, Barrier!RaiseFlag PROVE \A u \in Waiters : enteredBarrier[u] > leftBarrier[0]
    BY ThreadZero DEF Barrier!Leave, Barrier!RaiseFlag, Barrier!Inside
  <1> USE ThreadZero DEF Barrier!BarrierInv, Barrier!TypeOK, Barrier!RaiseFlag, Barrier!Step
  <1>1. enteredBarrier[0] = leftBarrier[0] + 1
    BY DEF Barrier!PlacesKept
  <1>2. \A u \in Barrier!Others : barrierPc[u] = "spin" /\ leftBarrier[u] = leftBarrier[0]
    BY DEF Barrier!ReportsCurrent
  <1>3. \A u \in Barrier!Others : enteredBarrier[u] = leftBarrier[0] + 1
    BY <1>2 DEF Barrier!PlacesKept
  <1> QED BY <1>1, <1>3 DEF Barrier!Others

\* Another thread leaves when thread 0 has, which is when all had entered.
LEMMA ReleasedLeaves ==
    ASSUME Barrier!BarrierAssumption, NEW t \in Barrier!Others PROVE Barrier!BarrierInv /\ Barrier!Released(t) => Barrier!Leave(t)
  <1> SUFFICES ASSUME Barrier!BarrierInv, Barrier!Released(t) PROVE \A u \in Waiters : enteredBarrier[u] > leftBarrier[t]
    BY ThreadZero DEF Barrier!Leave, Barrier!Released, Barrier!Inside
  <1> USE ThreadZero DEF Barrier!BarrierInv, Barrier!TypeOK, Barrier!Released, Barrier!Step
  <1>1. leftBarrier[t] + 1 = leftBarrier[0]
    BY DEF Barrier!OneRoundBehind, Barrier!ReportsCurrent
  <1>2. \A u \in Waiters : enteredBarrier[u] >= leftBarrier[0]
    <2>1. enteredBarrier[0] >= leftBarrier[0]
      BY DEF Barrier!PlacesKept
    <2>2. ASSUME NEW u \in Barrier!Others PROVE enteredBarrier[u] >= leftBarrier[0]
      <3>1. leftBarrier[u] = leftBarrier[0] \/ (leftBarrier[u] + 1 = leftBarrier[0] /\ barrierPc[u] = "spin")
        BY <2>2 DEF Barrier!OneRoundBehind
      <3>2. enteredBarrier[u] = (IF barrierPc[u] = "out" THEN leftBarrier[u] ELSE leftBarrier[u] + 1) /\ u \in Waiters
        BY <2>2 DEF Barrier!PlacesKept
      <3> QED BY <3>1, <3>2
    <2> QED BY <2>1, <2>2 DEF Barrier!Others
  <1> QED BY <1>1, <1>2

\* Every step is a step of the abstract barrier, or none that its users see.
LEMMA StepRefines == ASSUME Barrier!BarrierAssumption PROVE Barrier!BarrierInv /\ [Barrier!Next]_Barrier!vars => [\E t \in Waiters : Barrier!Arrive(t) \/ Barrier!Leave(t)]_Barrier!roundVars
  <1> SUFFICES ASSUME Barrier!BarrierInv, [Barrier!Next]_Barrier!vars
               PROVE (\E t \in Waiters : Barrier!Arrive(t) \/ Barrier!Leave(t)) \/ UNCHANGED Barrier!roundVars
    OBVIOUS
  <1>1. CASE \E t \in Waiters : Barrier!Enter(t)
    BY <1>1 DEF Barrier!Enter
  <1>2. CASE Barrier!Collector
    BY <1>2, RaiseFlagLeaves, ThreadZero DEF Barrier!Collector, Barrier!Clear, Barrier!Cleared, Barrier!Collect, Barrier!SwitchMode, Barrier!LowerFlag
  <1>3. CASE \E t \in Barrier!Others : Barrier!Report(t) \/ Barrier!Released(t)
    BY <1>3, ReleasedLeaves, ThreadZero DEF Barrier!Report
  <1>4. CASE UNCHANGED Barrier!vars
    BY <1>4 DEF Barrier!vars
  <1> QED BY <1>1, <1>2, <1>3, <1>4 DEF Barrier!Next

\* The linear barrier is a barrier: nobody leaves a round before everybody has entered it.
THEOREM ImplementsRendezvous == ASSUME Barrier!BarrierAssumption PROVE Barrier!Spec => Barrier!Rendezvous
  <1>1. Barrier!Init => Barrier!RoundsInit
    BY DEF Barrier!Init
  <1> QED BY <1>1, BarrierInvariant, StepRefines, PTL DEF Barrier!Spec, Barrier!Rendezvous
================================================================================
