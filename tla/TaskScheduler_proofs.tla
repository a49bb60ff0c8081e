------------------------- MODULE TaskScheduler_proofs -------------------------
(* The scheduler keeps its promises, and implements ForkJoin, for every tree   *)
(* of tasks and any number of helpers: first what single steps of a call, a    *)
(* stack or a thread change, then one lemma per action, then the theorems.     *)
EXTENDS TaskScheduler, FiniteSetTheorems, SequenceTheorems, TLAPS

USE SchedulerAssumption

Frame == [slot : Slots, phase : Phases, child : Tasks \union {Nobody}]

TaskRecord == [task : Tasks \union {Nobody}, state : {DONE, INITIALIZED}, stealable : BOOLEAN,
               dependencies : Nat, parent : [thread : Threads \union {Nobody}, slot : Slots]]
Stacks == [Threads -> [Slots -> TaskRecord]]

\* The calls of a thread that are at its task s itself
Busy(t, s) == \E i \in Calls(t, s) : frames[t][i].phase \in Inside

\* There are finitely many places for a task.
LEMMA PlacesFinite == /\ IsFiniteSet(Threads)
                      /\ \A S \in SUBSET (Threads \X Slots) : IsFiniteSet(S) /\ Cardinality(S) \in Nat
  <1>1. IsFiniteSet(Threads)
    BY FS_Singleton, FS_Union DEF Threads
  <1>2. IsFiniteSet(Slots)
    BY FS_Interval DEF Slots
  <1>3. IsFiniteSet(Threads \X Slots)
    BY <1>1, <1>2, FS_Product
  <1> QED BY <1>1, <1>3, FS_Subset, FS_CardinalityType

\* A task is a record; to write one leaves the others alone.
LEMMA TasksTyped == TypeOK => tasks \in Stacks
  BY DEF TypeOK, Stacks, TaskRecord

LEMMA SlotWritten ==
    ASSUME NEW f \in Stacks, NEW t \in Threads, NEW s \in Slots, NEW x \in TaskRecord
    PROVE  /\ [f EXCEPT ![t][s] = x] \in Stacks
           /\ \A u \in Threads, r \in Slots : [f EXCEPT ![t][s] = x][u][r] = IF u = t /\ r = s THEN x ELSE f[u][r]
  <1>1. [f[t] EXCEPT ![s] = x] \in [Slots -> TaskRecord]
    BY DEF Stacks
  <1>2. [f EXCEPT ![t] = [f[t] EXCEPT ![s] = x]] \in Stacks
    BY <1>1 DEF Stacks
  <1> QED BY <1>2 DEF Stacks

\* Frames are numbered from 1, and each is on a slot.
LEMMA FramesTyped ==
    ASSUME TypeOK, NEW t \in Threads
    PROVE  /\ frames[t] \in Seq(Frame) /\ Len(frames[t]) \in Nat /\ DOMAIN frames[t] = 1 .. Len(frames[t])
           /\ \A i \in DOMAIN frames[t] : frames[t][i] \in Frame /\ frames[t][i].slot \in Slots
  <1>1. frames[t] \in Seq(Frame)
    BY DEF TypeOK, Frame
  <1>2. Len(frames[t]) \in Nat /\ DOMAIN frames[t] = 1 .. Len(frames[t])
    BY <1>1
  <1>3. \A i \in DOMAIN frames[t] : frames[t][i] \in Frame
    BY <1>1, <1>2
  <1> QED BY <1>1, <1>2, <1>3 DEF Frame

\* The frame on top is one of them.
LEMMA TopIs == ASSUME TypeOK, NEW t \in Threads, Running(t)
               PROVE  /\ Len(frames[t]) \in DOMAIN frames[t] /\ Len(frames[t]) \in Nat \ {0}
                      /\ DOMAIN frames[t] = 1 .. Len(frames[t])
                      /\ Top(t) = frames[t][Len(frames[t])] /\ Top(t) \in Frame
  <1>1. frames[t] \in Seq(Frame)
    BY DEF TypeOK, Frame
  <1> QED BY <1>1 DEF Running, Top

\* What SetPhase changes: the phase of the last frame.
PhaseMoved(t, p) ==
    /\ frames' \in [Threads -> Seq(Frame)]
    /\ \A u \in Threads :
           /\ Len(frames'[u]) = Len(frames[u]) /\ DOMAIN frames'[u] = DOMAIN frames[u]
           /\ Running(u)' <=> Running(u)
           /\ u # t => frames'[u] = frames[u] /\ Top(u)' = Top(u) /\ \A q : Phase(u, q)' <=> Phase(u, q)
    /\ \A i \in DOMAIN frames[t] :
           /\ frames'[t][i].slot = frames[t][i].slot /\ frames'[t][i].child = frames[t][i].child
           /\ frames'[t][i].phase = IF i = Len(frames[t]) THEN p ELSE frames[t][i].phase
    /\ Top(t)'.slot = Top(t).slot /\ Top(t)'.phase = p /\ Top(t)'.child = Top(t).child
    /\ \A q : Phase(t, q)' <=> q = p

LEMMA PhaseSet ==
    ASSUME TypeOK, NEW t \in Threads, Running(t), NEW p \in Phases, SetPhase(t, p)
    PROVE  PhaseMoved(t, p)
  <1> DEFINE n == Len(frames[t])
             g == [frames[t] EXCEPT ![n].phase = p]
  <1>1. frames \in [Threads -> Seq(Frame)] /\ frames[t] \in Seq(Frame)
    BY DEF TypeOK, Frame
  <1>2. n \in 1 .. Len(frames[t]) /\ DOMAIN frames[t] = 1 .. n /\ frames[t][n] \in Frame
    BY TopIs
  <1>3. [frames[t][n] EXCEPT !.phase = p] \in Frame
    BY <1>2 DEF Frame
  <1>4. g = [frames[t] EXCEPT ![n] = [frames[t][n] EXCEPT !.phase = p]]
    BY <1>1
  <1>5. g \in Seq(Frame) /\ Len(g) = n /\ DOMAIN g = 1 .. n
    BY <1>1, <1>2, <1>3, <1>4
  <1>6. \A i \in 1 .. n : g[i] = IF i = n THEN [frames[t][n] EXCEPT !.phase = p] ELSE frames[t][i]
    BY <1>2, <1>4
  <1>7. frames' = [frames EXCEPT ![t] = g]
    BY DEF SetPhase
  <1> HIDE DEF g
  <1>8. frames' \in [Threads -> Seq(Frame)] /\ frames'[t] = g /\ \A u \in Threads : u # t => frames'[u] = frames[u]
    BY <1>1, <1>5, <1>7
  <1>9. Len(frames'[t]) = Len(frames[t]) /\ DOMAIN frames'[t] = DOMAIN frames[t]
    BY <1>2, <1>5, <1>8
  <1>10. Running(t)'
    BY <1>8, <1>9, <1>2, <1>5 DEF Running
  <1>11. \A u \in Threads : /\ Len(frames'[u]) = Len(frames[u]) /\ DOMAIN frames'[u] = DOMAIN frames[u]
                            /\ Running(u)' <=> Running(u)
    BY <1>8, <1>9, <1>10 DEF Running
  <1>12. \A i \in DOMAIN frames[t] :
            /\ frames'[t][i].slot = frames[t][i].slot /\ frames'[t][i].child = frames[t][i].child
            /\ frames'[t][i].phase = IF i = Len(frames[t]) THEN p ELSE frames[t][i].phase
    <2> TAKE i \in DOMAIN frames[t]
    <2>1. frames[t][i] \in Frame /\ g[i] = IF i = n THEN [frames[t][n] EXCEPT !.phase = p] ELSE frames[t][i]
      BY <1>1, <1>2, <1>6
    <2> QED BY <2>1, <1>8 DEF Frame
  <1>13. Top(t)'.slot = Top(t).slot /\ Top(t)'.phase = p /\ Top(t)'.child = Top(t).child
    BY <1>2, <1>8, <1>9, <1>12 DEF Top
  <1>14. \A u \in Threads : u # t => Top(u)' = Top(u) /\ \A q : Phase(u, q)' <=> Phase(u, q)
    BY <1>8, <1>11 DEF Top, Phase
  <1>15. \A q : Phase(t, q)' <=> q = p
    BY <1>10, <1>13 DEF Phase
  <1> QED BY <1>8, <1>11, <1>12, <1>13, <1>14, <1>15 DEF PhaseMoved

\* Only the last frame can have signalled.
LEMMA SignalledIs == ASSUME TypeOK, FramesNested, NEW t \in Threads, NEW s \in Slots
                     PROVE  Signalled(t, s) <=> Phase(t, "pop") /\ Top(t).slot = s
  <1>1. ASSUME Signalled(t, s) PROVE Phase(t, "pop") /\ Top(t).slot = s
    <2>1. PICK i \in DOMAIN frames[t] : frames[t][i].slot = s /\ frames[t][i].phase = "pop"
      BY <1>1 DEF Signalled, Calls
    <2>2. Running(t)
      BY <2>1 DEF Running
    <2>3. i = Len(frames[t])
      BY <2>1, <2>2, TopIs DEF FramesNested
    <2> QED BY <2>1, <2>2, <2>3 DEF Phase, Top
  <1>2. ASSUME Phase(t, "pop"), Top(t).slot = s PROVE Signalled(t, s)
    BY <1>2, TopIs DEF Phase, Signalled, Calls
  <1> QED BY <1>1, <1>2

\* The tasks that the one in slot s of thread t still waits for
Waited(t, s) == {c \in Unfinished : tasks[c[1]][c[2]].parent = [thread |-> t, slot |-> s]}
Own(t, s) == tasks[t][s].state = INITIALIZED \/ Busy(t, s)

LEMMA CountIs ==
    DependenciesCount <=>
        \A t \in Threads : \A s \in Live(t) :
            /\ tasks[t][s].dependencies = Cardinality(Waited(t, s)) + IF Own(t, s) THEN 1 ELSE 0
            /\ tasks[t][s].parent # NoParent =>
                   \/ tasks[t][s].parent.slot \in Live(tasks[t][s].parent.thread)
                   \/ Signalled(t, s)
  <1>1. \A t, s : Waited(t, s) = {c \in Children(t, s) : ~Signalled(c[1], c[2])}
    BY DEF Waited, Unfinished, Children
  <1> QED BY <1>1 DEF DependenciesCount, Own, Busy, Inside

\* A step that changes neither the stacks nor what the frames say of them
LEMMA ViewSame ==
    ASSUME TypeOK, StacksKept, Grounded, DependenciesCount, tasks' = tasks,
           \A u \in Threads : /\ Live(u)' = Live(u)
                              /\ \A s \in Slots : (Signalled(u, s)' <=> Signalled(u, s)) /\ (Busy(u, s)' <=> Busy(u, s))
    PROVE  StacksKept' /\ Grounded' /\ DependenciesCount'
  <1>1. Unfinished' = Unfinished
    BY DEF Unfinished
  <1>2. \A t \in Threads : Live(t) \subseteq Slots
    BY DEF Live
  <1>3. StacksKept'
    <2> SUFFICES ASSUME NEW t \in Threads, NEW s \in Slots PROVE SlotKept(t, s)'
      BY DEF StacksKept
    <2>1. SlotKept(t, s)
      BY DEF StacksKept
    <2>2. s \in Live(t) /\ tasks[t][s].parent # NoParent => tasks[t][s].parent.thread \in Threads
      BY <2>1 DEF SlotKept
    <2> QED BY <2>1, <2>2 DEF SlotKept
  <1>4. Grounded'
    BY <1>1 DEF Grounded, ParentOf
  <1>5. \A t, s : Waited(t, s)' = Waited(t, s)
    BY <1>1 DEF Waited
  <1>6. \A t \in Threads, s \in Slots : Own(t, s)' <=> Own(t, s)
    BY DEF Own
  <1>7. \A t \in Threads : \A s \in Live(t) : tasks[t][s].parent # NoParent =>
           \/ tasks[t][s].parent.slot \in Live(tasks[t][s].parent.thread) \/ Signalled(t, s)
    BY CountIs
  <1>8. \A t \in Threads : \A s \in Live(t) : tasks[t][s].dependencies = Cardinality(Waited(t, s)) + IF Own(t, s) THEN 1 ELSE 0
    BY CountIs
  <1>9. (\A t \in Threads : \A s \in Live(t) :
            /\ tasks[t][s].dependencies = Cardinality(Waited(t, s)) + IF Own(t, s) THEN 1 ELSE 0
            /\ tasks[t][s].parent # NoParent =>
                   \/ tasks[t][s].parent.slot \in Live(tasks[t][s].parent.thread)
                   \/ Signalled(t, s))'
    <2>1. ASSUME NEW t \in Threads, NEW s \in Live(t)'
          PROVE (tasks[t][s].dependencies = Cardinality(Waited(t, s)) + IF Own(t, s) THEN 1 ELSE 0)'
      BY <1>2, <1>5, <1>6, <1>8
    <2>2. ASSUME NEW t \in Threads, NEW s \in Live(t)'
          PROVE (tasks[t][s].parent # NoParent =>
                   \/ tasks[t][s].parent.slot \in Live(tasks[t][s].parent.thread)
                   \/ Signalled(t, s))'
      <3>1. tasks[t][s].parent # NoParent => tasks[t][s].parent.thread \in Threads
        <4>1. s \in Live(t) /\ s \in Slots
          BY <1>2
        <4>2. SlotKept(t, s)
          BY <4>1 DEF StacksKept
        <4> QED BY <4>1, <4>2 DEF SlotKept
      <3> QED BY <1>2, <1>7, <3>1
    <2> QED BY <2>1, <2>2
  <1>10. DependenciesCount'
    BY <1>9, CountIs, PTL
  <1> QED BY <1>3, <1>4, <1>10

\* A frame that moves on within its call keeps the stacks' view, unless it begins or ends to build
\* a task, signals, or counts itself out.
LEMMA PhaseView ==
    ASSUME TypeOK, FramesNested, NEW t \in Threads, Running(t), NEW p \in Phases, SetPhase(t, p), right' = right,
           Top(t).phase \notin {"build", "pop"}, p \notin {"build", "pop"}, Top(t).phase \in Inside <=> p \in Inside
    PROVE  \A u \in Threads : /\ Live(u)' = Live(u)
                              /\ \A s \in Slots : (Signalled(u, s)' <=> Signalled(u, s)) /\ (Busy(u, s)' <=> Busy(u, s))
  <1>1. PhaseMoved(t, p)
    BY PhaseSet
  <1>2. ASSUME NEW u \in Threads, u # t
        PROVE  /\ Live(u)' = Live(u)
               /\ \A s \in Slots : (Signalled(u, s)' <=> Signalled(u, s)) /\ (Busy(u, s)' <=> Busy(u, s))
    BY <1>1, <1>2 DEF PhaseMoved, Live, Signalled, Busy, Calls
  <1>3. Live(t)' = Live(t)
    <2>1. ~Phase(t, "build") /\ ~Phase(t, "build")'
      BY <1>1 DEF Phase, PhaseMoved
    <2> QED BY <2>1 DEF Live
  <1>4. ASSUME NEW s \in Slots PROVE (Signalled(t, s)' <=> Signalled(t, s)) /\ (Busy(t, s)' <=> Busy(t, s))
    <2>1. Top(t) = frames[t][Len(frames[t])] /\ Len(frames[t]) \in DOMAIN frames[t]
      BY TopIs
    <2> QED BY <1>1, <2>1 DEF PhaseMoved, Signalled, Busy, Calls
  <1> QED BY <1>2, <1>3, <1>4

\* The frames stay nested when the last of them moves on.
LEMMA PhaseNested ==
    ASSUME TypeOK, FramesNested, NEW t \in Threads, Running(t), NEW p \in Phases, SetPhase(t, p), right' = right, mode' = mode,
           p # "build", p \in {"spawn", "wait", "local"} \/ Top(t).slot = right[t] - 1,
           \A u \in Threads : \A i \in DOMAIN frames[u] :
               LET s == frames[u][i].slot IN /\ tasks'[u][s].task = tasks[u][s].task
                                             /\ tasks[u][s].state = DONE => tasks'[u][s].state = DONE,
           tasks'[t][Top(t).slot].state = DONE,
           \A u \in Threads : Phase(u, "pop")' => TaskOf(u)'.dependencies = 0
    PROVE  FramesNested'
  <1>0. PhaseMoved(t, p)
    BY PhaseSet
  <1> USE DEF PhaseMoved
  <1>1. ASSUME NEW u \in Threads, NEW i \in DOMAIN frames'[u]
        PROVE  /\ frames'[u][i].slot < right[u]
               /\ frames'[u][i].phase # "start" => tasks'[u][frames'[u][i].slot].state = DONE
               /\ i < Len(frames'[u]) => frames'[u][i].phase \in {"wait", "local"}
               /\ \A j \in DOMAIN frames'[u] : i < j => frames'[u][i].slot < frames'[u][j].slot
    <2>1. i \in DOMAIN frames[u]
      BY <1>0
    <2>2. frames[u] \in Seq(Frame) /\ Len(frames[u]) \in Nat /\ DOMAIN frames[u] = 1 .. Len(frames[u])
      BY FramesTyped
    <2>3. frames[u][i] \in Frame
      BY <2>1, <2>2
    <2>4. frames[u][i].slot \in Slots
      BY <2>3 DEF Frame
    <2>5. CASE u # t
      <3>1. frames'[u] = frames[u]
        BY <1>0, <2>5
      <3>2. /\ frames[u][i].slot < right[u]
            /\ frames[u][i].phase # "start" => tasks[u][frames[u][i].slot].state = DONE
            /\ i < Len(frames[u]) => frames[u][i].phase \in {"wait", "local"}
            /\ \A j \in DOMAIN frames[u] : i < j => frames[u][i].slot < frames[u][j].slot
        BY <2>1 DEF FramesNested
      <3>3. frames[u][i].phase # "start" => tasks'[u][frames[u][i].slot].state = DONE
        BY <2>1, <3>2
      <3> QED BY <3>1, <3>2, <3>3
    <2>6. CASE u = t
      <3>1. frames[t][Len(frames[t])] = Top(t) /\ Len(frames[t]) \in DOMAIN frames[t]
        BY TopIs
      <3>2. i < Len(frames[t]) => frames[t][i].phase \in {"wait", "local"}
        BY <2>1, <2>6 DEF FramesNested
      <3>3. tasks'[t][frames[t][i].slot].state = DONE \/ frames[t][i].phase = "start"
        BY <2>1, <2>6 DEF FramesNested
      <3>4. i = Len(frames[t]) => tasks'[t][frames[t][i].slot].state = DONE
        BY <3>1
      <3>5. \A j \in DOMAIN frames[t] : i < j => frames[t][i].slot < frames[t][j].slot
        BY <2>1, <2>6 DEF FramesNested
      <3>6. frames[t][i].slot < right[t]
        BY <2>1, <2>6 DEF FramesNested
      <3> QED BY <1>0, <2>1, <2>2, <2>6, <3>2, <3>3, <3>4, <3>5, <3>6
    <2> QED BY <2>5, <2>6
  <1>2. ASSUME NEW u \in Threads
        PROVE  /\ Running(u)' /\ Top(u)'.phase \notin {"spawn", "build", "wait", "local"} => Top(u)'.slot = right[u] - 1
               /\ Phase(u, "build")' => Top(u)'.slot < right[u] - 1 /\ Top(u)'.child \in ChildrenOf(TaskOf(u).task)'
               /\ Running(u)' => mode[u] \in {"work", "body"}
    <2>1. CASE u # t
      <3>1. Running(u) => TaskOf(u)'.task = TaskOf(u).task
        BY <1>0, <2>1, TopIs DEF TaskOf, Frame
      <3> QED BY <1>0, <2>1, <3>1 DEF FramesNested, Phase, ChildrenOf
    <2>2. CASE u = t
      BY <1>0, <2>2 DEF FramesNested, Phase
    <2> QED BY <2>1, <2>2
  <1> QED BY <1>1, <1>2 DEF FramesNested

\* A slot on the stack is a slot, below the top, and of a known kind.
LEMMA OnStack == ASSUME TypeOK, StacksKept, NEW t \in Threads, NEW s \in Live(t)
                 PROVE  s \in Slots /\ s < right[t] /\ SlotKept(t, s) /\ <<t, s>> \in Threads \X Slots
  <1>1. s \in Slots /\ s < right[t]
    BY DEF Live
  <1> QED BY <1>1 DEF StacksKept

\* What waits to be run is on the stack.
LEMMA WaitingOnStack == ASSUME StacksKept, NEW t \in Threads, NEW s \in Slots, tasks[t][s].state = INITIALIZED
                        PROVE  s \in Live(t)
  BY DEF StacksKept, SlotKept, DONE, INITIALIZED

\* The task that a frame runs is on the stack, and has not signalled before its last step.
LEMMA FrameOnStack ==
    ASSUME TypeOK, FramesNested, NEW t \in Threads, NEW i \in DOMAIN frames[t]
    PROVE  frames[t][i].slot \in Live(t) /\ (frames[t][i].phase # "pop" => ~Signalled(t, frames[t][i].slot))
  <1>1. frames[t][i].slot \in Slots /\ frames[t][i].slot < right[t] /\ right[t] \in Nat
    <2>1. right[t] \in 0 .. TASK_STACK_SIZE
      BY DEF TypeOK
    <2> QED BY <2>1, FramesTyped DEF FramesNested
  <1>2. Running(t) /\ Len(frames[t]) \in DOMAIN frames[t] /\ i \in Nat /\ i <= Len(frames[t]) /\ Len(frames[t]) \in Nat
        /\ Top(t) = frames[t][Len(frames[t])]
    <2>1. Running(t)
      BY DEF Running
    <2> QED BY <2>1, TopIs, FramesTyped
  <1>3. frames[t][i].slot <= Top(t).slot
    BY <1>1, <1>2, FramesTyped DEF FramesNested, Slots
  <1>4. Phase(t, "build") => Top(t).slot < right[t] - 1
    BY DEF FramesNested
  <1>5. Top(t).slot \in Slots
    BY <1>2, FramesTyped
  <1>6. frames[t][i].slot \in Live(t)
    BY <1>1, <1>3, <1>4, <1>5 DEF Live, Slots
  <1>7. ASSUME frames[t][i].phase # "pop" PROVE ~Signalled(t, frames[t][i].slot)
    <2>1. ASSUME Phase(t, "pop"), Top(t).slot = frames[t][i].slot PROVE FALSE
      <3>1. i # Len(frames[t])
        BY <1>2, <1>7, <2>1 DEF Phase
      <3>2. frames[t][i].slot < Top(t).slot
        BY <1>2, <3>1 DEF FramesNested
      <3> QED BY <2>1, <3>2, <1>5 DEF Slots
    <2> QED BY <1>1, <2>1, SignalledIs
  <1> QED BY <1>6, <1>7

\* A task that has signalled waits for nothing.
LEMMA SignalledDone ==
    ASSUME TypeOK, FramesNested, DependenciesCount, StacksKept, NEW t \in Threads, NEW s \in Live(t), Signalled(t, s)
    PROVE  Waited(t, s) = {}
  <1>1. s \in Slots
    BY OnStack
  <1>2. tasks[t][s].dependencies = 0
    BY <1>1, SignalledIs DEF FramesNested, TaskOf
  <1>3. Waited(t, s) \subseteq Threads \X Slots
    BY DEF Waited, Unfinished
  <1>4. Cardinality(Waited(t, s)) \in Nat /\ IsFiniteSet(Waited(t, s))
    BY <1>3, PlacesFinite
  <1>5. Cardinality(Waited(t, s)) = 0
    <2> DEFINE n == Cardinality(Waited(t, s))
    <2>1. 0 = n + IF Own(t, s) THEN 1 ELSE 0
      BY <1>2, CountIs
    <2>2. n \in Nat
      BY <1>4
    <2> HIDE DEF n
    <2>3. n = 0
      BY <2>1, <2>2
    <2> QED BY <2>3 DEF n
  <1> QED BY <1>4, <1>5, FS_EmptySet

\* An unfinished task waits below one that is unfinished, up to the root task.
LEMMA ParentUnfinished ==
    ASSUME TypeOK, FramesNested, StacksKept, DependenciesCount, NEW c \in Unfinished,
           tasks[c[1]][c[2]].parent # NoParent
    PROVE  ParentOf(c) \in Unfinished /\ c \in Waited(ParentOf(c)[1], ParentOf(c)[2])
  <1> DEFINE p == tasks[c[1]][c[2]].parent
  <1>1. c[1] \in Threads /\ c[2] \in Live(c[1]) /\ ~Signalled(c[1], c[2]) /\ c[2] \in Slots
    BY DEF Unfinished
  <1>2. p.thread \in Threads
    <2>1. SlotKept(c[1], c[2])
      BY <1>1, OnStack
    <2> QED BY <1>1, <2>1 DEF SlotKept
  <1>3. p.slot \in Live(p.thread)
    BY <1>1, CountIs
  <1>4. p = [thread |-> p.thread, slot |-> p.slot]
    <2>1. p \in [thread : Threads \union {Nobody}, slot : Slots]
      BY <1>1 DEF TypeOK
    <2> QED BY <2>1
  <1>5. c \in Waited(p.thread, p.slot)
    BY <1>4 DEF Waited
  <1>6. ~Signalled(p.thread, p.slot)
    BY <1>2, <1>3, <1>5, SignalledDone
  <1>7. <<p.thread, p.slot>> \in Threads \X Slots
    BY <1>2, <1>3, OnStack
  <1> QED BY <1>2, <1>3, <1>5, <1>6, <1>7 DEF Unfinished, ParentOf

\* When the root thread's task is over, all are.
LEMMA NothingUnfinished ==
    ASSUME TypeOK, FramesNested, StacksKept, DependenciesCount, Grounded, right[Root] = 0
    PROVE  Unfinished = {}
  <1> SUFFICES ASSUME Unfinished # {} PROVE FALSE
    OBVIOUS
  <1>1. PICK c \in Unfinished : ParentOf(c) \notin Unfinished
    BY DEF Grounded
  <1>2. tasks[c[1]][c[2]].parent = NoParent
    BY <1>1, ParentUnfinished
  <1>3. c[1] \in Threads /\ c[2] \in Live(c[1])
    BY DEF Unfinished
  <1>4. c[1] = Root /\ c[2] = 0
    <2>1. SlotKept(c[1], c[2])
      BY <1>3, OnStack
    <2> QED BY <1>2, <1>3, <2>1 DEF SlotKept
  <1>5. 0 < right[Root]
    BY <1>3, <1>4, OnStack
  <1> QED BY <1>5

\* Then nobody is in a task but to pop its slot, and nothing waits to be run.
LEMMA Quiet ==
    ASSUME TypeOK, FramesNested, StacksKept, DependenciesCount, Grounded, RootOutlasts, mode[Root] \in AfterWork
    PROVE  /\ Unfinished = {}
           /\ \A t \in Threads : Running(t) => Phase(t, "pop") /\ Len(frames[t]) = 1
           /\ \A t \in Threads, s \in Slots : /\ tasks[t][s].state = DONE
                                              /\ s \in Live(t) => Running(t) /\ s = Top(t).slot
  <1>1. Unfinished = {}
    BY NothingUnfinished DEF RootOutlasts
  <1>2. ASSUME NEW t \in Threads, NEW s \in Live(t) PROVE Signalled(t, s)
    <2>1. <<t, s>> \in Threads \X Slots /\ <<t, s>>[1] = t /\ <<t, s>>[2] = s
      BY OnStack
    <2>2. <<t, s>> \notin Unfinished
      BY <1>1
    <2> QED BY <2>1, <2>2 DEF Unfinished
  <1>3. ASSUME NEW t \in Threads, NEW i \in DOMAIN frames[t] PROVE frames[t][i].phase = "pop"
    BY <1>2, FrameOnStack
  <1>4. ASSUME NEW t \in Threads, Running(t) PROVE Phase(t, "pop") /\ Len(frames[t]) = 1
    <2>1. Phase(t, "pop")
      BY <1>3, <1>4, TopIs DEF Phase
    <2>2. 1 \in DOMAIN frames[t] /\ Len(frames[t]) \in Nat \ {0}
      BY <1>4, TopIs
    <2>3. 1 < Len(frames[t]) => frames[t][1].phase \in {"wait", "local"}
      BY <2>2 DEF FramesNested
    <2>4. frames[t][1].phase = "pop"
      BY <1>3, <2>2
    <2>5. ~(1 < Len(frames[t]))
      BY <2>3, <2>4
    <2>6. Len(frames[t]) = 1
      <3> DEFINE n == Len(frames[t])
      <3>1. n \in Nat \ {0} /\ ~(1 < n)
        BY <2>2, <2>5
      <3> HIDE DEF n
      <3>2. n = 1
        BY <3>1
      <3> QED BY <3>2 DEF n
    <2> QED BY <2>1, <2>6
  <1>5. ASSUME NEW t \in Threads, NEW s \in Slots, s \in Live(t) PROVE Running(t) /\ s = Top(t).slot /\ tasks[t][s].state = DONE
    <2>1. Phase(t, "pop") /\ s = Top(t).slot
      BY <1>2, <1>5, SignalledIs
    <2>2. tasks[t][s].state = DONE
      BY <2>1, TopIs DEF FramesNested, Phase
    <2> QED BY <2>1, <2>2 DEF Phase
  <1>6. ASSUME NEW t \in Threads, NEW s \in Slots, s \notin Live(t) PROVE tasks[t][s].state = DONE
    BY <1>6 DEF StacksKept, SlotKept
  <1> QED BY <1>1, <1>4, <1>5, <1>6

\* A step that moves no thread, and none away from where it steals
LEMMA LifeSame ==
    ASSUME TypeOK, ThreadsCounted, ThreadsAlive, UNCHANGED <<mode, thief, lifeVars, Joiners>>,
           \A u \in Threads : thief[u] # NotStealing => Phase(u, "join")' \/ (~Running(u)' /\ mode[u] = "loop")
    PROVE  ThreadsCounted' /\ ThreadsAlive'
  <1>1. ThreadsAlive'
    BY DEF ThreadsAlive
  <1>2. ThreadsCounted'
    BY DEF ThreadsCounted, lifeVars, Pool
  <1> QED BY <1>1, <1>2

\* No task begins or is put anywhere.
LEMMA PlacesFewer ==
    ASSUME OnePlace, spawned' = spawned, executed' = executed, mode'[Root] \in {"out", "push"} <=> mode[Root] \in {"out", "push"},
           \A u \in Threads, s \in Slots, k \in Tasks : /\ Pending(u, s, k)' => Pending(u, s, k)
                                                        /\ Original(u, s, k)' => Original(u, s, k)
    PROVE  OnePlace'
  BY DEF OnePlace

\* Nothing that waited is skipped, and no task gives up to spawn.
LEMMA StillNoneSkipped ==
    ASSUME NoneSkipped, spawned \subseteq Tasks, spawned' = spawned, executed' = executed,
           mode[Root] = "returned" => mode'[Root] = "returned",
           mode'[Root] # "returned" /\ cancellingException' = Nobody =>
               /\ cancellingException = Nobody
               /\ \A u \in Threads, s \in Slots, k \in Tasks :
                      Pending(u, s, k) => \E v \in Threads, r \in Slots : Pending(v, r, k)'
               /\ \A u \in Threads : Running(u) /\ Top(u).phase \in {"spawn", "build", "throw"} =>
                      \/ /\ Running(u)' /\ Top(u)'.phase \in {"spawn", "build", "throw"}
                         /\ TaskOf(u)'.task = TaskOf(u).task
                      \/ ChildrenOf(TaskOf(u).task) \subseteq spawned
    PROVE  NoneSkipped'
  <1> SUFFICES ASSUME mode'[Root] # "returned", cancellingException' = Nobody, NEW k \in spawned
               PROVE  (IF executed[k] = 0 THEN \E t \in Threads, s \in Slots : Pending(t, s, k)
                       ELSE \/ ChildrenOf(k) \subseteq spawned
                            \/ \E t \in Threads : /\ Running(t) /\ Top(t).phase \in {"spawn", "build", "throw"}
                                                  /\ TaskOf(t).task = k)'
    BY DEF NoneSkipped
  <1>1. IF executed[k] = 0 THEN \E t \in Threads, s \in Slots : Pending(t, s, k)
        ELSE \/ ChildrenOf(k) \subseteq spawned
             \/ \E t \in Threads : /\ Running(t) /\ Top(t).phase \in {"spawn", "build", "throw"}
                                   /\ TaskOf(t).task = k
    BY DEF NoneSkipped
  <1>2. CASE executed[k] = 0
    BY <1>1, <1>2
  <1>3. CASE executed[k] # 0
    BY <1>1, <1>3 DEF ChildrenOf
  <1> QED BY <1>2, <1>3

\* What a step of one call keeps when it touches no stack: everything but the promises about
\* what runs.
LEMMA PhaseStep ==
    ASSUME Inductive, NEW t \in Threads, Running(t), NEW p \in Phases, SetPhase(t, p),
           UNCHANGED <<stackVars, mode, thief, lifeVars, spawned, Joiners>>,
           Top(t).phase \notin {"build", "pop", "join"}, p \notin {"build", "pop", "start", "execute"},
           Top(t).phase \in Inside <=> p \in Inside,
           p \in {"spawn", "wait", "local"} \/ Top(t).slot = right[t] - 1,
           tasks[t][Top(t).slot].state = DONE
    PROVE  /\ FramesNested' /\ StacksKept' /\ Grounded' /\ DependenciesCount' /\ ThreadsCounted' /\ ThreadsAlive'
           /\ PhaseMoved(t, p)
           /\ \A u \in Threads, s \in Slots, k \in Tasks :
                  /\ Pending(u, s, k)' => Pending(u, s, k)
                  /\ Top(t).phase # "execute" => (Pending(u, s, k) => Pending(u, s, k)')
                  /\ Original(u, s, k)' => Original(u, s, k)
           /\ \A u \in Threads : u # t => TaskOf(u)' = TaskOf(u)
           /\ TaskOf(t)' = TaskOf(t)
  <1> USE DEF Inductive, stackVars
  <1>1. PhaseMoved(t, p)
    BY PhaseSet
  <1>2. \A u \in Threads : /\ Live(u)' = Live(u)
                           /\ \A s \in Slots : (Signalled(u, s)' <=> Signalled(u, s)) /\ (Busy(u, s)' <=> Busy(u, s))
    BY PhaseView
  <1>3. StacksKept' /\ Grounded' /\ DependenciesCount'
    BY <1>2, ViewSame
  <1>4. \A u \in Threads : TaskOf(u)' = TaskOf(u)
    BY <1>1 DEF TaskOf, PhaseMoved
  <1>5. \A u \in Threads : Phase(u, "pop")' => TaskOf(u)'.dependencies = 0
    BY <1>1, <1>4 DEF PhaseMoved, FramesNested
  <1>6. FramesNested'
    BY <1>5, PhaseNested
  <1>7. \A u \in Threads : thief[u] # NotStealing => Phase(u, "join")' \/ (~Running(u)' /\ mode[u] = "loop")
    BY <1>1 DEF PhaseMoved, ThreadsCounted, Phase
  <1>8. ThreadsCounted' /\ ThreadsAlive'
    BY <1>7, LifeSame
  <1>9. ASSUME NEW u \in Threads, NEW s \in Slots, NEW k \in Tasks
        PROVE  /\ Pending(u, s, k)' => Pending(u, s, k)
               /\ Top(t).phase # "execute" => (Pending(u, s, k) => Pending(u, s, k)')
               /\ Original(u, s, k)' => Original(u, s, k)
    <2>1. CASE u # t
      BY <1>1, <1>2, <2>1 DEF PhaseMoved, Pending, Original
    <2>2. CASE u = t
      <3>1. ~Phase(t, "build") /\ ~Phase(t, "build")' /\ ~Phase(t, "execute")'
        BY <1>1 DEF PhaseMoved, Phase
      <3>2. Phase(t, "execute") => Top(t).phase = "execute"
        BY DEF Phase
      <3> QED BY <1>2, <2>2, <3>1, <3>2 DEF Pending, Original
    <2> QED BY <2>1, <2>2
  <1> QED BY <1>1, <1>3, <1>4, <1>6, <1>8, <1>9

\* What is left to show of a step that runs no closure and moves no thread
LEMMA RestSame ==
    ASSUME Inductive, UNCHANGED <<mode, right, rethrown, executed, cancellingException, Joiners>>
    PROVE  RootOutlasts' /\ ExceptionReachesRoot'
  <1>1. RootOutlasts'
    BY DEF Inductive, RootOutlasts
  <1>2. ExceptionReachesRoot'
    BY DEF Inductive, ExceptionReachesRoot, In
  <1> QED BY <1>1, <1>2

LEMMA WaitKeeps == ASSUME Inductive, NEW t \in Threads, Wait(t), UNCHANGED Joiners PROVE Inductive'
  <1> USE DEF Wait, Phase, stackVars, lifeVars, workVars
  <1>1. tasks[t][Top(t).slot].state = DONE
    BY TopIs DEF Inductive, FramesNested
  <1>2. /\ FramesNested' /\ StacksKept' /\ Grounded' /\ DependenciesCount' /\ ThreadsCounted' /\ ThreadsAlive'
        /\ PhaseMoved(t, "wait")
        /\ \A u \in Threads, s \in Slots, k \in Tasks :
               /\ Pending(u, s, k)' <=> Pending(u, s, k)
               /\ Original(u, s, k)' => Original(u, s, k)
        /\ \A u \in Threads : u # t => TaskOf(u)' = TaskOf(u)
    BY <1>1, PhaseStep DEF Inside, Phases
  <1>3. TypeOK'
    BY <1>2 DEF Inductive, TypeOK, PhaseMoved, Frame
  <1>4. OnePlace'
    BY <1>2, PlacesFewer DEF Inductive
  <1>5. NoneSkipped'
    BY <1>2, StillNoneSkipped DEF Inductive, PhaseMoved, TypeOK
  <1>6. RootOutlasts' /\ ExceptionReachesRoot'
    BY RestSame
  <1> QED BY <1>2, <1>3, <1>4, <1>5, <1>6 DEF Inductive

LEMMA LocalOverKeeps == ASSUME Inductive, NEW t \in Threads, LocalOver(t), UNCHANGED Joiners PROVE Inductive'
  <1> USE DEF LocalOver, Phase, stackVars, lifeVars, workVars
  <1>1. tasks[t][Top(t).slot].state = DONE /\ Top(t).slot = right[t] - 1
    BY TopIs DEF Inductive, FramesNested, Base
  <1>2. /\ FramesNested' /\ StacksKept' /\ Grounded' /\ DependenciesCount' /\ ThreadsCounted' /\ ThreadsAlive'
        /\ PhaseMoved(t, "join")
        /\ \A u \in Threads, s \in Slots, k \in Tasks :
               /\ Pending(u, s, k)' <=> Pending(u, s, k)
               /\ Original(u, s, k)' => Original(u, s, k)
        /\ \A u \in Threads : u # t => TaskOf(u)' = TaskOf(u)
    BY <1>1, PhaseStep DEF Inside, Phases
  <1>3. TypeOK'
    BY <1>2 DEF Inductive, TypeOK, PhaseMoved, Frame
  <1>4. OnePlace'
    BY <1>2, PlacesFewer DEF Inductive
  <1>5. NoneSkipped'
    BY <1>2, StillNoneSkipped DEF Inductive, PhaseMoved, TypeOK
  <1>6. RootOutlasts' /\ ExceptionReachesRoot'
    BY RestSame
  <1> QED BY <1>2, <1>3, <1>4, <1>5, <1>6 DEF Inductive

LEMMA WaitOverKeeps == ASSUME Inductive, NEW t \in Threads, WaitOver(t), UNCHANGED Joiners PROVE Inductive'
  <1> USE DEF WaitOver, Phase, stackVars, lifeVars, workVars
  <1>1. tasks[t][Top(t).slot].state = DONE /\ Top(t).slot = right[t] - 1
    BY TopIs DEF Inductive, FramesNested, Base, Running
  <1>2. /\ FramesNested' /\ StacksKept' /\ Grounded' /\ DependenciesCount' /\ ThreadsCounted' /\ ThreadsAlive'
        /\ PhaseMoved(t, "executed")
        /\ \A u \in Threads, s \in Slots, k \in Tasks :
               /\ Pending(u, s, k)' <=> Pending(u, s, k)
               /\ Original(u, s, k)' => Original(u, s, k)
        /\ \A u \in Threads : u # t => TaskOf(u)' = TaskOf(u)
    BY <1>1, PhaseStep DEF Inside, Phases
  <1>3. TypeOK'
    BY <1>2 DEF Inductive, TypeOK, PhaseMoved, Frame
  <1>4. OnePlace'
    BY <1>2, PlacesFewer DEF Inductive
  <1>5. NoneSkipped'
    BY <1>2, StillNoneSkipped DEF Inductive, PhaseMoved, TypeOK
  <1>6. RootOutlasts' /\ ExceptionReachesRoot'
    BY RestSame
  <1> QED BY <1>2, <1>3, <1>4, <1>5, <1>6 DEF Inductive

\* A closure that throws has an exception already, or is about to keep its own.
LEMMA ThrowKeeps == ASSUME Inductive, NEW t \in Threads, Throw(t), UNCHANGED Joiners PROVE Inductive'
  <1> USE DEF Throw, Phase, stackVars, lifeVars, workVars
  <1>1. Running(t) /\ tasks[t][Top(t).slot].state = DONE /\ Top(t).slot = right[t] - 1
        /\ Top(t).phase \in {"spawn", "wait"} /\ Top(t).phase \in Inside
    BY TopIs DEF Inductive, FramesNested, Base, Inside
  <1>2. PICK p \in {"throw", "executed"} : SetPhase(t, p) /\ (cancellingException = Nobody => p = "throw")
    OBVIOUS
  <1>3. /\ FramesNested' /\ StacksKept' /\ Grounded' /\ DependenciesCount' /\ ThreadsCounted' /\ ThreadsAlive'
        /\ PhaseMoved(t, p)
        /\ \A u \in Threads, s \in Slots, k \in Tasks :
               /\ Pending(u, s, k)' <=> Pending(u, s, k)
               /\ Original(u, s, k)' => Original(u, s, k)
        /\ \A u \in Threads : TaskOf(u)' = TaskOf(u)
    BY <1>1, <1>2, PhaseStep DEF Phases, Inside
  <1>4. TypeOK'
    BY <1>3 DEF Inductive, TypeOK, PhaseMoved, Frame
  <1>5. OnePlace'
    BY <1>3, PlacesFewer DEF Inductive
  <1>6. cancellingException = Nobody =>
            \A u \in Threads : Running(u) /\ Top(u).phase \in {"spawn", "build", "throw"} =>
                Running(u)' /\ Top(u)'.phase \in {"spawn", "build", "throw"} /\ TaskOf(u)'.task = TaskOf(u).task
    BY <1>1, <1>2, <1>3 DEF PhaseMoved
  <1>7. NoneSkipped'
    BY <1>3, <1>6, StillNoneSkipped DEF Inductive, TypeOK
  <1>8. RootOutlasts' /\ ExceptionReachesRoot'
    BY RestSame
  <1> QED BY <1>3, <1>4, <1>5, <1>7, <1>8 DEF Inductive

\* While a call is before its last step the root thread still works.
LEMMA StillWorking ==
    ASSUME Inductive, NEW t \in Threads, Running(t), ~Phase(t, "pop") PROVE mode[Root] \notin AfterWork
  BY Quiet DEF Inductive

\* What a frame runs is a task.
LEMMA FrameTask == ASSUME Inductive, NEW t \in Threads, Running(t)
                   PROVE  TaskOf(t).task \in Tasks /\ Top(t).slot \in Live(t) /\ Top(t).slot \in Slots
  <1>1. Top(t).slot \in Live(t)
    BY TopIs, FrameOnStack DEF Inductive
  <1>2. Top(t).slot \in Slots /\ SlotKept(t, Top(t).slot)
    BY <1>1, OnStack DEF Inductive
  <1> QED BY <1>1, <1>2 DEF SlotKept, TaskOf

LEMMA KeepExceptionKeeps == ASSUME Inductive, NEW t \in Threads, KeepException(t), UNCHANGED Joiners PROVE Inductive'
  <1> USE DEF KeepException, stackVars, lifeVars
  <1>0. Running(t) /\ Top(t).phase = "throw" /\ ~Phase(t, "pop")
    BY DEF Phase
  <1>1. tasks[t][Top(t).slot].state = DONE /\ Top(t).slot = right[t] - 1
    BY <1>0, TopIs DEF Inductive, FramesNested
  <1>2. /\ FramesNested' /\ StacksKept' /\ Grounded' /\ DependenciesCount' /\ ThreadsCounted' /\ ThreadsAlive'
        /\ PhaseMoved(t, "executed")
        /\ \A u \in Threads, s \in Slots, k \in Tasks :
               /\ Pending(u, s, k)' <=> Pending(u, s, k)
               /\ Original(u, s, k)' => Original(u, s, k)
    BY <1>0, <1>1, PhaseStep DEF Inside, Phases
  <1>3. cancellingException' \in Tasks /\ cancellingException' # Nobody
    BY <1>0, FrameTask
  <1>4. TypeOK'
    BY <1>2, <1>3 DEF Inductive, TypeOK, PhaseMoved, Frame
  <1>5. OnePlace'
    BY <1>2, PlacesFewer DEF Inductive
  <1>6. NoneSkipped'
    BY <1>3 DEF NoneSkipped
  <1>7. mode[Root] \notin AfterWork
    BY <1>0, StillWorking
  <1>8. RootOutlasts' /\ ExceptionReachesRoot'
    BY <1>7 DEF Inductive, RootOutlasts, ExceptionReachesRoot, AfterWork, In
  <1> QED BY <1>2, <1>4, <1>5, <1>6, <1>8 DEF Inductive

\* The closure of a task is called: it has not run before, and will not again.
LEMMA ExecuteKeeps == ASSUME Inductive, NEW t \in Threads, Execute(t), UNCHANGED Joiners PROVE Inductive'
  <1> USE DEF Execute, stackVars, lifeVars
  <1>0. Running(t) /\ Top(t).phase = "execute" /\ ~Phase(t, "pop")
    BY DEF Phase
  <1>01. PICK k \in Tasks, s \in Slots : k = TaskOf(t).task /\ s = Top(t).slot
    BY <1>0, FrameTask
  <1>1. tasks[t][s].state = DONE /\ s = right[t] - 1
    BY <1>0, <1>01, TopIs DEF Inductive, FramesNested
  <1>2. PICK p \in {"spawn", "executed"} :
            SetPhase(t, p) /\ (cancellingException = Nobody => p = "spawn")
    OBVIOUS
  <1>3. cancellingException = Nobody => executed' = [executed EXCEPT ![k] = @ + 1]
    BY <1>01
  <1>4. cancellingException # Nobody => executed' = executed
    OBVIOUS
  <1>5. /\ FramesNested' /\ StacksKept' /\ Grounded' /\ DependenciesCount' /\ ThreadsCounted' /\ ThreadsAlive'
        /\ PhaseMoved(t, p)
        /\ \A u \in Threads, r \in Slots, j \in Tasks :
               /\ Pending(u, r, j)' => Pending(u, r, j)
               /\ Original(u, r, j)' => Original(u, r, j)
        /\ \A u \in Threads : TaskOf(u)' = TaskOf(u)
    BY <1>0, <1>01, <1>1, <1>2, PhaseStep DEF Phases, Inside
  <1>6. Pending(t, s, k)
    BY <1>0, <1>01 DEF Pending, TaskOf, Phase
  <1>7. executed[k] = 0 /\ k \in spawned /\ executed \in [Tasks -> Nat]
    BY <1>6 DEF Inductive, OnePlace, TypeOK
  <1>8. executed' \in [Tasks -> Nat]
    BY <1>3, <1>4, <1>6, <1>7
  <1>81. TypeOK'
    BY <1>5, <1>8 DEF Inductive, TypeOK, PhaseMoved, Frame
  <1>9. ~Pending(t, s, k)'
    BY <1>1, <1>2, <1>5 DEF Pending, PhaseMoved, DONE, INITIALIZED
  <1>10. ASSUME NEW u \in Threads, NEW r \in Slots, Pending(u, r, k)' PROVE FALSE
    <2>1. Pending(u, r, k)
      BY <1>5, <1>6, <1>10
    <2>2. u = t /\ r = s
      BY <1>6, <2>1 DEF Inductive, OnePlace
    <2> QED BY <1>9, <1>10, <2>2
  <1>11. \A j \in Tasks : executed'[j] = IF j = k /\ cancellingException = Nobody THEN 1 ELSE executed[j]
    BY <1>3, <1>4, <1>6, <1>7
  <1>12. OnePlace'
    BY <1>5, <1>7, <1>10, <1>11 DEF Inductive, OnePlace
  <1>13. mode[Root] \notin AfterWork
    BY <1>0, StillWorking
  <1>14. RootOutlasts' /\ ExceptionReachesRoot'
    BY <1>13 DEF Inductive, RootOutlasts, ExceptionReachesRoot, AfterWork, In
  <1>15. ASSUME mode[Root] # "returned", cancellingException = Nobody, NEW j \in spawned
         PROVE  (IF executed[j] = 0 THEN \E u \in Threads, r \in Slots : Pending(u, r, j)
                 ELSE \/ ChildrenOf(j) \subseteq spawned
                      \/ \E u \in Threads : /\ Running(u) /\ Top(u).phase \in {"spawn", "build", "throw"}
                                            /\ TaskOf(u).task = j)'
    <2>1. j \in Tasks
      BY DEF Inductive, TypeOK
    <2>2. CASE j = k
      BY <1>0, <1>01, <1>2, <1>5, <1>6, <1>11, <1>15, <2>2 DEF PhaseMoved
    <2>3. CASE j # k
      <3>1. executed'[j] = executed[j]
        BY <1>11, <2>1, <2>3
      <3>2. IF executed[j] = 0 THEN \E u \in Threads, r \in Slots : Pending(u, r, j)
            ELSE \/ ChildrenOf(j) \subseteq spawned
                 \/ \E u \in Threads : /\ Running(u) /\ Top(u).phase \in {"spawn", "build", "throw"}
                                       /\ TaskOf(u).task = j
        BY <1>15 DEF Inductive, NoneSkipped
      <3>3. \A u \in Threads, r \in Slots : Pending(u, r, j) => Pending(u, r, j)'
        <4> SUFFICES ASSUME NEW u \in Threads, NEW r \in Slots, Pending(u, r, j) PROVE Pending(u, r, j)'
          OBVIOUS
        <4>1. CASE u # t
          BY <1>5, <4>1 DEF PhaseMoved, Pending
        <4>2. CASE u = t
          <5>1. ~Phase(t, "build")
            BY <1>0 DEF Phase
          <5>2. ~(Phase(t, "execute") /\ Top(t).slot = r /\ tasks[t][r].task = j)
            BY <1>01, <2>3 DEF TaskOf
          <5> QED BY <4>2, <5>1, <5>2 DEF Pending
        <4> QED BY <4>1, <4>2
      <3>4. CASE executed[j] = 0
        BY <3>1, <3>2, <3>3, <3>4
      <3>5. CASE executed[j] # 0
        <4>1. \A u \in Threads : Running(u) /\ Top(u).phase \in {"spawn", "build", "throw"} => u # t
          BY <1>0
        <4> QED BY <1>5, <3>1, <3>2, <3>5, <4>1 DEF PhaseMoved, ChildrenOf
      <3> QED BY <3>4, <3>5
    <2> QED BY <2>2, <2>3
  <1>16. NoneSkipped'
    BY <1>15 DEF NoneSkipped
  <1> QED BY <1>5, <1>81, <1>12, <1>14, <1>16 DEF Inductive
\* What is seen of a task from outside: a slot has it to be run, or it has its slot.
Queued(t, s, k) == \/ tasks[t][s].state = INITIALIZED /\ tasks[t][s].task = k
                   \/ Phase(t, "build") /\ s = right[t] - 1 /\ Top(t).child = k
Waiting(k) == \E t \in Threads, s \in Slots : Queued(t, s, k)
Known(k) == \E t \in Threads, s \in Slots : Original(t, s, k)
Seen(k) == (Waiting(k)' <=> Waiting(k)) /\ (Known(k)' <=> Known(k))

\* A task that spawns has begun to run.
Begun == \A t \in Threads : Running(t) /\ Top(t).phase \in {"spawn", "build"} => executed[TaskOf(t).task] # 0
BegunKept ==
    /\ \A k \in Tasks : executed[k] # 0 => executed'[k] # 0
    /\ \A u \in Threads : Running(u)' /\ Top(u)'.phase \in {"spawn", "build"} =>
           \/ executed'[TaskOf(u)'.task] # 0
           \/ Running(u) /\ Top(u).phase \in {"spawn", "build"} /\ TaskOf(u)'.task = TaskOf(u).task

\* The kinds of steps: none that is seen, one task spawned, one begun
Still == /\ spawned' = spawned /\ BegunKept /\ \A k \in Tasks : Seen(k)
SpawnedOne(k) == /\ k \notin spawned /\ spawned' = spawned \union {k} /\ BegunKept
                 /\ Waiting(k)' /\ \A j \in Tasks : j # k => Seen(j)
StartedOne(k) == /\ k \in Tasks /\ spawned' = spawned /\ BegunKept /\ Waiting(k) /\ ~Waiting(k)'
                 /\ Known(k)' <=> Known(k)
                 /\ \A j \in Tasks : j # k => Seen(j)

LEMMA StillIs ==
    ASSUME spawned' = spawned, BegunKept,
           \A u \in Threads, r \in Slots, k \in Tasks : /\ Queued(u, r, k)' <=> Queued(u, r, k)
                                                        /\ Original(u, r, k)' <=> Original(u, r, k)
    PROVE  Still
  BY DEF Still, Seen, Waiting, Known

\* A step that leaves stacks and calls alone is not seen.
LEMMA NothingMoved == UNCHANGED <<tasks, right, frames, spawned, executed>> => Still
  <1> SUFFICES ASSUME UNCHANGED <<tasks, right, frames, spawned, executed>> PROVE Still
    OBVIOUS
  <1>1. \A u \in Threads : /\ (Running(u)' <=> Running(u)) /\ Top(u)' = Top(u) /\ TaskOf(u)' = TaskOf(u)
                           /\ Live(u)' = Live(u) /\ \A q : Phase(u, q)' <=> Phase(u, q)
    BY DEF Running, Top, TaskOf, Phase, Live
  <1>2. BegunKept
    BY <1>1 DEF BegunKept
  <1>3. \A u \in Threads, r \in Slots, k \in Tasks : /\ Queued(u, r, k)' <=> Queued(u, r, k)
                                                     /\ Original(u, r, k)' <=> Original(u, r, k)
    BY <1>1 DEF Queued, Original
  <1> QED BY <1>2, <1>3, StillIs

\* Nor is a call that moves on, unless it builds or begins to spawn before it runs.
LEMMA PhaseStill ==
    ASSUME Inductive, NEW t \in Threads, Running(t), NEW p \in Phases, SetPhase(t, p), UNCHANGED <<tasks, right, spawned>>,
           Top(t).phase # "build", p # "build", p = "spawn" => executed'[TaskOf(t).task] # 0,
           \A k \in Tasks : executed[k] # 0 => executed'[k] # 0
    PROVE  Still
  <1>1. PhaseMoved(t, p)
    BY PhaseSet DEF Inductive
  <1>2. \A u \in Threads : u # t => /\ (Running(u)' <=> Running(u)) /\ Top(u)' = Top(u) /\ TaskOf(u)' = TaskOf(u)
                                    /\ \A q : Phase(u, q)' <=> Phase(u, q)
    BY <1>1 DEF PhaseMoved, TaskOf
  <1>3. TaskOf(t)' = TaskOf(t) /\ Top(t)'.phase = p /\ ~Phase(t, "build") /\ ~Phase(t, "build")'
    BY <1>1 DEF PhaseMoved, TaskOf, Phase
  <1>4. \A u \in Threads : Live(u)' = Live(u)
    BY <1>2, <1>3 DEF Live
  <1>5. BegunKept
    BY <1>2, <1>3 DEF BegunKept
  <1>6. \A u \in Threads, r \in Slots, k \in Tasks : /\ Queued(u, r, k)' <=> Queued(u, r, k)
                                                     /\ Original(u, r, k)' <=> Original(u, r, k)
    BY <1>2, <1>3, <1>4 DEF Queued, Original
  <1> QED BY <1>5, <1>6, StillIs


\* A step that leaves the tasks on the stacks where they are: some may have signalled since, and some
\* may wait no more.
SlotsSame ==
    /\ \A u \in Threads : Live(u)' = Live(u) /\ \A s \in Slots : Signalled(u, s) => Signalled(u, s)'
    /\ \A u \in Threads, s \in Slots :
           /\ tasks'[u][s].task = tasks[u][s].task /\ tasks'[u][s].stealable = tasks[u][s].stealable
           /\ tasks'[u][s].parent = tasks[u][s].parent
           /\ tasks[u][s].state = DONE => tasks'[u][s].state = DONE

LEMMA SlotsKept ==
    ASSUME TypeOK, StacksKept, Grounded, SlotsSame
    PROVE  /\ StacksKept' /\ Grounded' /\ Unfinished' \subseteq Unfinished
           /\ \A u \in Threads, s \in Slots : Waited(u, s)' = Waited(u, s) \intersect Unfinished'
  <1> USE DEF SlotsSame
  <1>1. Unfinished' \subseteq Unfinished
    BY DEF Unfinished
  <1>2. StacksKept'
    <2> SUFFICES ASSUME NEW t \in Threads, NEW s \in Slots PROVE SlotKept(t, s)'
      BY DEF StacksKept
    <2>1. SlotKept(t, s)
      BY DEF StacksKept
    <2>2. s \in Live(t) /\ tasks[t][s].parent # NoParent => tasks[t][s].parent.thread \in Threads
      BY <2>1 DEF SlotKept
    <2>3. tasks[t][s].parent.slot \in Slots
      BY DEF TypeOK
    <2>4. s \in Live(t) /\ tasks[t][s].parent # NoParent =>
              LET p == tasks[t][s].parent IN Live(p.thread)' = Live(p.thread) /\ tasks'[p.thread][p.slot].task = tasks[p.thread][p.slot].task
      BY <2>2, <2>3
    <2>5. s \in Live(t)' <=> s \in Live(t)
      OBVIOUS
    <2>6. /\ tasks'[t][s].task = tasks[t][s].task /\ tasks'[t][s].stealable = tasks[t][s].stealable
          /\ tasks'[t][s].parent = tasks[t][s].parent /\ (tasks[t][s].state = DONE => tasks'[t][s].state = DONE)
      OBVIOUS
    <2>7. s \in Live(t) /\ tasks[t][s].parent # NoParent /\ tasks[t][s].stealable => tasks[t][s].parent.thread = t
      BY <2>1 DEF SlotKept
    <2>8. ~tasks[t][s].stealable => tasks[t][s].parent # NoParent \/ s \notin Live(t)
      BY <2>1 DEF SlotKept
    <2>9. s \notin Live(t) => tasks'[t][s].state = DONE
      BY <2>1, <2>6 DEF SlotKept
    <2>10. CASE s \notin Live(t)
      BY <2>5, <2>9, <2>10 DEF SlotKept
    <2>11. CASE s \in Live(t) /\ tasks[t][s].parent = NoParent
      BY <2>1, <2>5, <2>6, <2>11 DEF SlotKept
    <2>12. CASE s \in Live(t) /\ tasks[t][s].parent # NoParent
      <3>1. Signalled(t, s) => Signalled(t, s)'
        OBVIOUS
      <3> DEFINE p == tasks[t][s].parent
      <3>2. tasks'[t][s].parent = p /\ Live(p.thread)' = Live(p.thread) /\ tasks'[p.thread][p.slot].task = tasks[p.thread][p.slot].task
        BY <2>4, <2>6, <2>12
      <3>3. /\ tasks[t][s].task \in Tasks /\ p.thread \in Threads
            /\ tasks[t][s].stealable =>
                   p.thread = t /\ p.slot < s /\ tasks[t][s].task \in ChildrenOf(tasks[t][p.slot].task)
            /\ ~tasks[t][s].stealable /\ ~Signalled(t, s) =>
                  /\ p.slot \in Live(p.thread) /\ p # [thread |-> t, slot |-> s]
                  /\ tasks[p.thread][p.slot].task = tasks[t][s].task
        BY <2>1, <2>12 DEF SlotKept
      <3> HIDE DEF p
      <3>4. tasks'[t][s].parent # NoParent
        BY <2>12, <3>2 DEF p
      <3>5. tasks[t][s].stealable => tasks'[t][p.slot].task = tasks[t][p.slot].task
        BY <3>2, <3>3
      <3> QED BY <2>5, <2>6, <2>12, <3>1, <3>2, <3>3, <3>4, <3>5 DEF SlotKept, ChildrenOf
    <2> QED BY <2>10, <2>11, <2>12
  <1>3. \A c \in Threads \X Slots : ParentOf(c)' = ParentOf(c)
    BY DEF ParentOf
  <1>4. Grounded'
    BY <1>1, <1>3 DEF Grounded, Unfinished
  <1>5. \A u \in Threads, s \in Slots : Waited(u, s)' = Waited(u, s) \intersect Unfinished'
    <2> SUFFICES ASSUME NEW u \in Threads, NEW s \in Slots
                 PROVE  \A c \in Unfinished' : c \in Waited(u, s)' <=> c \in Waited(u, s)
      BY <1>1 DEF Waited
    <2> TAKE c \in Unfinished'
    <2>1. c \in Unfinished /\ c[1] \in Threads /\ c[2] \in Slots
      BY <1>1 DEF Unfinished
    <2>2. tasks'[c[1]][c[2]].parent = tasks[c[1]][c[2]].parent
      BY <2>1
    <2> QED BY <2>1, <2>2 DEF Waited
  <1> QED BY <1>1, <1>2, <1>4, <1>5

\* Only the counters are left to show of such a step.
LEMMA CountKept ==
    ASSUME TypeOK, StacksKept, DependenciesCount, SlotsSame,
           \A u \in Threads : \A s \in Live(u) :
               (tasks[u][s].dependencies = Cardinality(Waited(u, s)) + IF Own(u, s) THEN 1 ELSE 0)'
    PROVE  DependenciesCount'
  <1>1. (\A t \in Threads : \A s \in Live(t) :
            /\ tasks[t][s].dependencies = Cardinality(Waited(t, s)) + IF Own(t, s) THEN 1 ELSE 0
            /\ tasks[t][s].parent # NoParent =>
                   \/ tasks[t][s].parent.slot \in Live(tasks[t][s].parent.thread)
                   \/ Signalled(t, s))'
    <2> SUFFICES ASSUME NEW t \in Threads, NEW s \in Live(t)'
                 PROVE  (tasks[t][s].parent # NoParent =>
                            \/ tasks[t][s].parent.slot \in Live(tasks[t][s].parent.thread)
                            \/ Signalled(t, s))'
      BY DEF SlotsSame
    <2>1. s \in Live(t)
      BY DEF SlotsSame
    <2>2. s \in Slots /\ SlotKept(t, s)
      BY <2>1, OnStack
    <2>3. tasks[t][s].parent # NoParent =>
              /\ tasks[t][s].parent.thread \in Threads
              /\ tasks[t][s].parent.slot \in Live(tasks[t][s].parent.thread) \/ Signalled(t, s)
      BY <2>1, <2>2, CountIs DEF SlotKept
    <2> QED BY <2>2, <2>3 DEF SlotsSame
  <1> QED BY <1>1, CountIs, PTL

\* A task whose run begins, or is found to be with a thief
LEMMA StartKeeps ==
    ASSUME Inductive, NEW t \in Threads, Start(t), UNCHANGED Joiners
    PROVE  Inductive' /\ (Still \/ StartedOne(TaskOf(t).task))
  <1> USE DEF stackVars, lifeVars, workVars
  <1>0. Running(t) /\ Top(t).phase = "start" /\ ~Phase(t, "build") /\ ~Phase(t, "pop") /\ UNCHANGED <<right, mode, thief>>
    BY DEF Phase, Start
  <1>1. Top(t).slot = right[t] - 1 /\ Top(t).slot \in Slots /\ Top(t).slot \in Live(t) /\ TaskOf(t) = tasks[t][Top(t).slot]
    BY <1>0, FrameTask DEF Inductive, FramesNested, TaskOf
  <1>2. RootOutlasts' /\ ExceptionReachesRoot'
    BY RestSame DEF Start
  <1>3. CASE TaskOf(t).state = DONE /\ SetPhase(t, "join") /\ UNCHANGED tasks
    <2>1. /\ FramesNested' /\ StacksKept' /\ Grounded' /\ DependenciesCount' /\ ThreadsCounted' /\ ThreadsAlive'
          /\ PhaseMoved(t, "join")
          /\ \A u \in Threads, s \in Slots, k \in Tasks :
                 /\ Pending(u, s, k)' <=> Pending(u, s, k)
                 /\ Original(u, s, k)' => Original(u, s, k)
          /\ \A u \in Threads : TaskOf(u)' = TaskOf(u)
      BY <1>0, <1>1, <1>3, PhaseStep DEF Inside, Phases, Start
    <2>2. TypeOK'
      BY <1>3, <2>1 DEF Inductive, TypeOK, PhaseMoved, Frame, Start
    <2>3. OnePlace'
      BY <2>1, PlacesFewer DEF Inductive, Start
    <2>4. NoneSkipped'
      BY <1>0, <2>1, StillNoneSkipped DEF Inductive, PhaseMoved, TypeOK, Start
    <2>5. Still
      BY <1>0, <1>3, PhaseStill DEF Phases, Start
    <2> QED BY <1>2, <2>1, <2>2, <2>3, <2>4, <2>5 DEF Inductive
  <1>4. CASE /\ TaskOf(t).state = INITIALIZED /\ tasks' = [tasks EXCEPT ![t][Top(t).slot].state = DONE]
             /\ SetPhase(t, "execute")
    <2>1. PhaseMoved(t, "execute")
      BY <1>0, <1>4, PhaseSet DEF Inductive, Phases
    <2>2. PICK s \in Slots : s = Top(t).slot
      BY <1>1
    <2>3. /\ tasks' \in Stacks
          /\ \A u \in Threads, r \in Slots :
                 /\ tasks'[u][r].task = tasks[u][r].task /\ tasks'[u][r].stealable = tasks[u][r].stealable
                 /\ tasks'[u][r].parent = tasks[u][r].parent /\ tasks'[u][r].dependencies = tasks[u][r].dependencies
                 /\ tasks'[u][r].state = IF u = t /\ r = s THEN DONE ELSE tasks[u][r].state
      <3>1. tasks \in Stacks /\ tasks[t][s] \in TaskRecord
        BY TasksTyped DEF Inductive, Stacks
      <3>2. PICK x \in TaskRecord : x = [tasks[t][s] EXCEPT !.state = DONE]
        BY <3>1 DEF TaskRecord
      <3>3. tasks' = [tasks EXCEPT ![t][s] = x]
        BY <1>4, <2>2, <3>1, <3>2 DEF Stacks
      <3>4. tasks' \in Stacks /\ \A u \in Threads, r \in Slots : tasks'[u][r] = IF u = t /\ r = s THEN x ELSE tasks[u][r]
        <4> DEFINE g == [tasks EXCEPT ![t][s] = x]
        <4>1. g \in Stacks /\ \A u \in Threads, r \in Slots : g[u][r] = IF u = t /\ r = s THEN x ELSE tasks[u][r]
          BY <3>1, SlotWritten
        <4>2. tasks' = g
          BY <3>3
        <4> QED BY <4>1, <4>2
      <3>5. x.task = tasks[t][s].task /\ x.stealable = tasks[t][s].stealable /\ x.parent = tasks[t][s].parent
            /\ x.dependencies = tasks[t][s].dependencies /\ x.state = DONE
        BY <3>1, <3>2 DEF TaskRecord
      <3> QED BY <3>4, <3>5
    <2>4. /\ \A u \in Threads : Live(u)' = Live(u) /\ \A r \in Slots : Signalled(u, r)' <=> Signalled(u, r)
          /\ \A u \in Threads, r \in Slots : Busy(u, r)' <=> Busy(u, r) \/ (u = t /\ r = s)
      <3>1. ASSUME NEW u \in Threads, u # t
            PROVE Live(u)' = Live(u) /\ \A r \in Slots : (Signalled(u, r)' <=> Signalled(u, r)) /\ (Busy(u, r)' <=> Busy(u, r))
        BY <1>0, <2>1, <3>1 DEF PhaseMoved, Live, Signalled, Busy, Calls
      <3>2. Live(t)' = Live(t)
        BY <1>0, <2>1 DEF PhaseMoved, Live
      <3>3. ASSUME NEW r \in Slots PROVE (Signalled(t, r)' <=> Signalled(t, r)) /\ (Busy(t, r)' <=> Busy(t, r) \/ r = s)
        <4>1. Top(t) = frames[t][Len(frames[t])] /\ Len(frames[t]) \in DOMAIN frames[t]
          BY <1>0, TopIs DEF Inductive
        <4>2. Calls(t, r)' = Calls(t, r)
          BY <2>1 DEF PhaseMoved, Calls
        <4>3. \A i \in DOMAIN frames[t] : frames'[t][i].phase = IF i = Len(frames[t]) THEN "execute" ELSE frames[t][i].phase
          BY <2>1 DEF PhaseMoved
        <4>4. \A i \in Calls(t, r) : i \in DOMAIN frames[t]
          BY DEF Calls
        <4>5. Len(frames[t]) \in Calls(t, r) <=> r = s
          BY <2>2, <4>1 DEF Calls
        <4>6. frames[t][Len(frames[t])].phase = "start"
          BY <1>0, <4>1
        <4>7. Signalled(t, r)' <=> Signalled(t, r)
          BY <4>2, <4>3, <4>4, <4>6 DEF Signalled
        <4>8. Busy(t, r)' <=> Busy(t, r) \/ r = s
          BY <4>2, <4>3, <4>4, <4>5, <4>6 DEF Busy, Inside
        <4> QED BY <4>7, <4>8
      <3> QED BY <3>1, <3>2, <3>3
    <2>5. SlotsSame
      BY <2>3, <2>4 DEF SlotsSame
    <2>6. /\ StacksKept' /\ Grounded' /\ Unfinished' = Unfinished
          /\ \A u \in Threads, r \in Slots : Waited(u, r)' = Waited(u, r)
      <3>1. Unfinished' = Unfinished
        BY <2>4 DEF Unfinished
      <3> QED BY <2>5, <3>1, SlotsKept DEF Inductive, Waited
    <2>7. \A u \in Threads, r \in Slots : Own(u, r)' <=> Own(u, r)
      BY <1>4, <2>2, <2>3, <2>4 DEF Own, TaskOf, DONE, INITIALIZED
    <2>8. \A u \in Threads : \A r \in Live(u) : (tasks[u][r].dependencies = Cardinality(Waited(u, r)) + IF Own(u, r) THEN 1 ELSE 0)'
      <3> SUFFICES ASSUME NEW u \in Threads, NEW r \in Live(u)
                   PROVE  (tasks[u][r].dependencies = Cardinality(Waited(u, r)) + IF Own(u, r) THEN 1 ELSE 0)'
        OBVIOUS
      <3>1. r \in Slots
        BY OnStack DEF Inductive
      <3>2. tasks[u][r].dependencies = Cardinality(Waited(u, r)) + IF Own(u, r) THEN 1 ELSE 0
        BY CountIs DEF Inductive
      <3> QED BY <2>3, <2>6, <2>7, <3>1, <3>2
    <2>9. DependenciesCount'
      BY <2>5, <2>8, CountKept DEF Inductive
    <2>01. \A u \in Threads : Running(u) => /\ TaskOf(u)'.task = TaskOf(u).task
                                             /\ TaskOf(u)'.dependencies = TaskOf(u).dependencies
      <3> SUFFICES ASSUME NEW u \in Threads, Running(u)
                   PROVE TaskOf(u)'.task = TaskOf(u).task /\ TaskOf(u)'.dependencies = TaskOf(u).dependencies
        OBVIOUS
      <3>1. Top(u).slot \in Slots
        BY FrameTask
      <3>2. Top(u)'.slot = Top(u).slot
        BY <2>1 DEF PhaseMoved
      <3> QED BY <2>3, <3>1, <3>2 DEF TaskOf
    <2>10. \A u \in Threads : Phase(u, "pop")' => TaskOf(u)'.dependencies = 0
      BY <2>1, <2>01 DEF Inductive, PhaseMoved, FramesNested, Phase
    <2>111. \A u \in Threads : \A i \in DOMAIN frames[u] :
               LET r == frames[u][i].slot IN /\ tasks'[u][r].task = tasks[u][r].task
                                             /\ tasks[u][r].state = DONE => tasks'[u][r].state = DONE
      BY <2>3, FramesTyped DEF Inductive
    <2>112. tasks'[t][Top(t).slot].state = DONE
      BY <2>2, <2>3
    <2>11. FramesNested'
      BY <1>0, <1>1, <1>4, <2>10, <2>111, <2>112, PhaseNested DEF Inductive, Phases
    <2>12. ThreadsCounted' /\ ThreadsAlive'
      <3>1. \A u \in Threads : thief[u] # NotStealing => Phase(u, "join")' \/ (~Running(u)' /\ mode[u] = "loop")
        BY <1>0, <2>1 DEF Inductive, PhaseMoved, ThreadsCounted, Phase
      <3> QED BY <3>1, LifeSame DEF Inductive, Start
    <2>13. TypeOK'
      BY <2>1, <2>3 DEF Inductive, TypeOK, PhaseMoved, Frame, Start, Stacks, TaskRecord
    <2>14. ASSUME NEW u \in Threads, NEW r \in Slots, NEW k \in Tasks
           PROVE  (Pending(u, r, k)' <=> Pending(u, r, k)) /\ (Original(u, r, k)' => Original(u, r, k))
      <3>1. CASE u # t
        <4>1. /\ tasks'[u][r].task = tasks[u][r].task /\ tasks'[u][r].state = tasks[u][r].state
              /\ tasks'[u][r].stealable = tasks[u][r].stealable
          BY <2>3, <3>1
        <4>2. Top(u)' = Top(u) /\ (Phase(u, "execute")' <=> Phase(u, "execute")) /\ (Phase(u, "build")' <=> Phase(u, "build"))
          BY <2>1, <3>1 DEF PhaseMoved
        <4> QED BY <1>0, <2>4, <4>1, <4>2 DEF Pending, Original
      <3>2. CASE u = t
        BY <1>0, <1>4, <2>1, <2>2, <2>3, <2>4, <3>2 DEF PhaseMoved, Pending, Original, Phase, TaskOf, DONE, INITIALIZED
      <3> QED BY <3>1, <3>2
    <2>15. OnePlace'
      BY <2>14, PlacesFewer DEF Inductive, Start
    <2>16. \A u \in Threads : Running(u) /\ Top(u).phase \in {"spawn", "build", "throw"} =>
                Running(u)' /\ Top(u)'.phase \in {"spawn", "build", "throw"} /\ TaskOf(u)'.task = TaskOf(u).task
      BY <1>0, <2>1, <2>01 DEF PhaseMoved
    <2>17. NoneSkipped'
      BY <2>14, <2>16, StillNoneSkipped DEF Inductive, TypeOK, Start
    <2>18. PICK k \in Tasks : k = TaskOf(t).task /\ k = tasks[t][s].task /\ tasks[t][s].state = INITIALIZED
      BY <1>0, <1>4, <2>2, FrameTask DEF TaskOf
    <2>19. ASSUME NEW u \in Threads, NEW r \in Slots, NEW j \in Tasks
           PROVE  /\ Queued(u, r, j)' <=> Queued(u, r, j) /\ ~(u = t /\ r = s)
                  /\ Original(u, r, j)' <=> Original(u, r, j)
      <3>1. /\ tasks'[u][r].task = tasks[u][r].task /\ tasks'[u][r].stealable = tasks[u][r].stealable
            /\ tasks'[u][r].state = IF u = t /\ r = s THEN DONE ELSE tasks[u][r].state
        BY <2>3
      <3>2. CASE u # t
        <4>1. Top(u)' = Top(u) /\ (Phase(u, "build")' <=> Phase(u, "build"))
          BY <2>1, <3>2 DEF PhaseMoved
        <4> QED BY <1>0, <2>4, <3>1, <3>2, <4>1 DEF Queued, Original
      <3>3. CASE u = t
        <4>1. ~Phase(t, "build")' /\ DONE # INITIALIZED
          BY <2>1 DEF PhaseMoved, DONE, INITIALIZED
        <4> QED BY <1>0, <2>4, <3>1, <3>3, <4>1 DEF Queued, Original
      <3> QED BY <3>2, <3>3
    <2>20. BegunKept
      <3>1. ASSUME NEW u \in Threads, Running(u)', Top(u)'.phase \in {"spawn", "build"}
            PROVE  Running(u) /\ Top(u).phase \in {"spawn", "build"} /\ TaskOf(u)'.task = TaskOf(u).task
        <4>1. u # t
          BY <2>1, <3>1 DEF PhaseMoved
        <4>2. Running(u) /\ Top(u)' = Top(u)
          BY <2>1, <3>1, <4>1 DEF PhaseMoved
        <4> QED BY <2>01, <3>1, <4>2
      <3> QED BY <3>1 DEF BegunKept, Start
    <2>21. StartedOne(k)
      <3>1. Queued(t, s, k) /\ \A u \in Threads, r \in Slots : Queued(u, r, k) => u = t /\ r = s
        <4>1. \A u \in Threads, r \in Slots : Queued(u, r, k) => Pending(u, r, k)
          BY DEF Queued, Pending
        <4>2. Queued(t, s, k)
          BY <2>18 DEF Queued
        <4> QED BY <4>1, <4>2 DEF Inductive, OnePlace
      <3>2. \A j \in Tasks : j # k => ~Queued(t, s, j)
        BY <1>0, <2>18 DEF Queued
      <3>3. Waiting(k) /\ ~Waiting(k)' /\ (Known(k)' <=> Known(k))
        BY <2>19, <3>1 DEF Waiting, Known
      <3>4. \A j \in Tasks : j # k => Seen(j)
        BY <2>19, <3>2 DEF Waiting, Known, Seen
      <3> QED BY <2>20, <3>3, <3>4 DEF StartedOne, Start
    <2> QED BY <1>2, <2>6, <2>9, <2>11, <2>12, <2>13, <2>15, <2>17, <2>18, <2>21 DEF Inductive
  <1> QED BY <1>3, <1>4 DEF Start

\* The only call on the topmost slot is the last.
LEMMA OnlyCall == ASSUME TypeOK, FramesNested, NEW t \in Threads, Running(t)
                  PROVE  Calls(t, Top(t).slot) = {Len(frames[t])}
  <1>1. Top(t) = frames[t][Len(frames[t])] /\ Len(frames[t]) \in DOMAIN frames[t] /\ DOMAIN frames[t] = 1 .. Len(frames[t])
        /\ Len(frames[t]) \in Nat
    BY TopIs
  <1>2. ASSUME NEW i \in DOMAIN frames[t], i # Len(frames[t]) PROVE frames[t][i].slot # Top(t).slot
    <2>1. i < Len(frames[t]) /\ frames[t][i].slot \in Slots /\ Top(t).slot \in Slots
      BY <1>1, <1>2, FramesTyped
    <2>2. frames[t][i].slot < Top(t).slot
      BY <1>1, <2>1 DEF FramesNested
    <2> QED BY <2>1, <2>2 DEF Slots
  <1> QED BY <1>1, <1>2 DEF Calls

\* How a call ends: it counts itself out, then it signals.
LEMMA EndView ==
    ASSUME TypeOK, FramesNested, NEW t \in Threads, Running(t), NEW p \in {"join", "pop"}, PhaseMoved(t, p), right' = right,
           Top(t).phase = (IF p = "join" THEN "executed" ELSE "join"), NEW s \in Slots, s = Top(t).slot
    PROVE  /\ \A u \in Threads : Live(u)' = Live(u)
           /\ \A u \in Threads, r \in Slots :
                  /\ Signalled(u, r)' <=> Signalled(u, r) \/ (p = "pop" /\ u = t /\ r = s)
                  /\ Busy(u, r)' <=> Busy(u, r) /\ ~(p = "join" /\ u = t /\ r = s)
           /\ p = "join" => Busy(t, s)
           /\ ~Busy(t, s)'
  <1>1. ASSUME NEW u \in Threads, u # t
        PROVE Live(u)' = Live(u) /\ \A r \in Slots : (Signalled(u, r)' <=> Signalled(u, r)) /\ (Busy(u, r)' <=> Busy(u, r))
    BY <1>1 DEF PhaseMoved, Live, Signalled, Busy, Calls
  <1>2. Live(t)' = Live(t)
    <2>1. ~Phase(t, "build") /\ ~Phase(t, "build")'
      BY DEF PhaseMoved, Phase
    <2> QED BY <2>1 DEF Live
  <1>3. Calls(t, s) = {Len(frames[t])} /\ frames[t][Len(frames[t])].phase = Top(t).phase
    BY OnlyCall, TopIs
  <1>4. Calls(t, s)' = {Len(frames[t])} /\ frames'[t][Len(frames[t])].phase = p
    <2>1. Calls(t, s)' = Calls(t, s)
      BY DEF PhaseMoved, Calls
    <2> QED BY <1>3, <2>1, TopIs DEF PhaseMoved
  <1>5. (Signalled(t, s)' <=> p = "pop") /\ ~Signalled(t, s) /\ ~Busy(t, s)' /\ (Busy(t, s) <=> p = "join")
    BY <1>3, <1>4 DEF Signalled, Busy, Inside
  <1>6. ASSUME NEW r \in Slots, r # s PROVE (Signalled(t, r)' <=> Signalled(t, r)) /\ (Busy(t, r)' <=> Busy(t, r))
    <2>1. Calls(t, r)' = Calls(t, r)
      BY DEF PhaseMoved, Calls
    <2>2. \A i \in Calls(t, r) : i \in DOMAIN frames[t] /\ i # Len(frames[t])
      BY <1>3, <1>6 DEF Calls
    <2>3. \A i \in Calls(t, r) : frames'[t][i].phase = frames[t][i].phase
      BY <2>2 DEF PhaseMoved
    <2> QED BY <2>1, <2>3 DEF Signalled, Busy
  <1> QED BY <1>1, <1>2, <1>5, <1>6

\* What is left to show of such a step, when the counters are seen to agree
LEMMA EndStep ==
    ASSUME Inductive, NEW t \in Threads, Running(t), NEW p \in {"join", "pop"}, SetPhase(t, p),
           UNCHANGED <<left, right, mode, thief, lifeVars, workVars, Joiners>>, thief[t] = NotStealing,
           Top(t).phase = (IF p = "join" THEN "executed" ELSE "join"), NEW s \in Slots, s = Top(t).slot,
           tasks' \in Stacks, DependenciesCount',
           \A u \in Threads, r \in Slots :
                  /\ tasks'[u][r].task = tasks[u][r].task /\ tasks'[u][r].stealable = tasks[u][r].stealable
                  /\ tasks'[u][r].parent = tasks[u][r].parent /\ tasks'[u][r].state = tasks[u][r].state,
           \A u \in Threads : Phase(u, "pop")' => TaskOf(u)'.dependencies = 0
    PROVE  Inductive' /\ Still
  <1> USE DEF lifeVars, workVars
  <1>1. PhaseMoved(t, p)
    BY PhaseSet DEF Inductive, Phases
  <1>2. /\ \A u \in Threads : Live(u)' = Live(u)
        /\ \A u \in Threads, r \in Slots : Signalled(u, r) => Signalled(u, r)'
    BY <1>1, EndView DEF Inductive
  <1>3. StacksKept' /\ Grounded'
    BY <1>2, SlotsKept DEF Inductive, SlotsSame
  <1>4. tasks[t][Top(t).slot].state = DONE /\ Top(t).slot = right[t] - 1
    BY TopIs DEF Inductive, FramesNested
  <1>5. FramesNested'
    <2>1. tasks'[t][Top(t).slot].state = DONE
      BY <1>4
    <2>2. \A u \in Threads : \A i \in DOMAIN frames[u] :
              LET r == frames[u][i].slot IN /\ tasks'[u][r].task = tasks[u][r].task
                                            /\ tasks[u][r].state = DONE => tasks'[u][r].state = DONE
      BY FramesTyped DEF Inductive
    <2>3. p \in Phases /\ p # "build"
      BY DEF Phases
    <2>4. TypeOK /\ FramesNested
      BY DEF Inductive
    <2> QED BY <1>4, <2>1, <2>2, <2>3, <2>4, PhaseNested
  <1>6. ThreadsCounted' /\ ThreadsAlive'
    <2>1. \A u \in Threads : thief[u] # NotStealing => Phase(u, "join")' \/ (~Running(u)' /\ mode[u] = "loop")
      BY <1>1 DEF Inductive, PhaseMoved, ThreadsCounted
    <2> QED BY <2>1, LifeSame DEF Inductive
  <1>7. TypeOK'
    BY <1>1 DEF Inductive, TypeOK, PhaseMoved, Frame, Stacks, TaskRecord
  <1>8. ASSUME NEW u \in Threads, NEW r \in Slots, NEW k \in Tasks
        PROVE  (Pending(u, r, k)' <=> Pending(u, r, k)) /\ (Original(u, r, k)' <=> Original(u, r, k))
               /\ (Queued(u, r, k)' <=> Queued(u, r, k))
    <2>1. (Phase(u, "execute")' <=> Phase(u, "execute")) /\ (Phase(u, "build")' <=> Phase(u, "build"))
          /\ Top(u)'.slot = Top(u).slot /\ Top(u)'.child = Top(u).child
      <3>1. CASE u = t
        BY <1>1, <3>1 DEF PhaseMoved, Phase
      <3>2. CASE u # t
        BY <1>1, <3>2 DEF PhaseMoved
      <3> QED BY <3>1, <3>2
    <2>2. tasks'[u][r].task = tasks[u][r].task /\ tasks'[u][r].stealable = tasks[u][r].stealable
          /\ tasks'[u][r].state = tasks[u][r].state
      OBVIOUS
    <2> QED BY <1>2, <2>1, <2>2 DEF Pending, Original, Queued
  <1>9. OnePlace'
    BY <1>8, PlacesFewer DEF Inductive
  <1>10. \A u \in Threads : Running(u) /\ Top(u).phase \in {"spawn", "build", "throw"} =>
             Running(u)' /\ Top(u)'.phase \in {"spawn", "build", "throw"} /\ TaskOf(u)'.task = TaskOf(u).task
    <2> SUFFICES ASSUME NEW u \in Threads, Running(u), Top(u).phase \in {"spawn", "build", "throw"}
                 PROVE  Running(u)' /\ Top(u)'.phase \in {"spawn", "build", "throw"} /\ TaskOf(u)'.task = TaskOf(u).task
      OBVIOUS
    <2>1. u # t
      OBVIOUS
    <2>2. Running(u)' /\ Top(u)' = Top(u)
      BY <1>1, <2>1 DEF PhaseMoved
    <2>3. Top(u).slot \in Slots
      BY FrameTask
    <2> QED BY <2>2, <2>3 DEF TaskOf
  <1>11. NoneSkipped'
    BY <1>8, <1>10, StillNoneSkipped DEF Inductive, TypeOK
  <1>12. RootOutlasts' /\ ExceptionReachesRoot'
    BY RestSame
  <1>13. BegunKept
    <2>1. ASSUME NEW u \in Threads, Running(u)', Top(u)'.phase \in {"spawn", "build"}
          PROVE  Running(u) /\ Top(u).phase \in {"spawn", "build"} /\ TaskOf(u)'.task = TaskOf(u).task
      <3>1. u # t
        BY <1>1, <2>1 DEF PhaseMoved
      <3>2. Running(u) /\ Top(u)' = Top(u)
        BY <1>1, <2>1, <3>1 DEF PhaseMoved
      <3>3. Top(u).slot \in Slots
        BY <3>2, FrameTask
      <3> QED BY <2>1, <3>2, <3>3 DEF TaskOf
    <2> QED BY <2>1 DEF BegunKept
  <1>14. Still
    BY <1>8, <1>13, StillIs
  <1> QED BY <1>3, <1>5, <1>6, <1>7, <1>9, <1>11, <1>12, <1>14 DEF Inductive

\* The run of a task counts itself out of its own counter.
LEMMA ExecutedKeeps == ASSUME Inductive, NEW t \in Threads, Executed(t), UNCHANGED Joiners PROVE Inductive' /\ Still
  <1> USE DEF lifeVars, workVars
  <1>0. Running(t) /\ Top(t).phase = "executed" /\ SetPhase(t, "join") /\ UNCHANGED <<left, right, mode, thief, lifeVars, workVars>>
    BY DEF Executed, Phase
  <1>1. PICK s \in Slots : s = Top(t).slot /\ s \in Live(t) /\ tasks[t][s].state = DONE
    BY <1>0, FrameTask, TopIs DEF Inductive, FramesNested
  <1>2. PhaseMoved(t, "join")
    BY <1>0, PhaseSet DEF Inductive, Phases
  <1>3. /\ \A u \in Threads : Live(u)' = Live(u)
        /\ \A u \in Threads, r \in Slots :
               /\ Signalled(u, r)' <=> Signalled(u, r)
               /\ Busy(u, r)' <=> Busy(u, r) /\ ~(u = t /\ r = s)
        /\ Busy(t, s)
    BY <1>0, <1>1, <1>2, EndView DEF Inductive
  <1>4. PICK n \in Nat : tasks[t][s].dependencies = n + 1
    <2>1. tasks[t][s].dependencies = Cardinality(Waited(t, s)) + 1
      BY <1>1, <1>3, CountIs DEF Own, Inductive
    <2>2. Cardinality(Waited(t, s)) \in Nat
      BY PlacesFinite DEF Waited, Unfinished
    <2> QED BY <2>1, <2>2
  <1>5. /\ tasks' \in Stacks
        /\ \A u \in Threads, r \in Slots :
               /\ tasks'[u][r].task = tasks[u][r].task /\ tasks'[u][r].stealable = tasks[u][r].stealable
               /\ tasks'[u][r].parent = tasks[u][r].parent /\ tasks'[u][r].state = tasks[u][r].state
               /\ tasks'[u][r].dependencies = IF u = t /\ r = s THEN n ELSE tasks[u][r].dependencies
    <2>1. tasks \in Stacks /\ tasks[t][s] \in TaskRecord
      BY TasksTyped DEF Inductive, Stacks
    <2>2. PICK x \in TaskRecord : x = [tasks[t][s] EXCEPT !.dependencies = n]
      BY <2>1 DEF TaskRecord
    <2>3. tasks' = [tasks EXCEPT ![t][s] = x]
      <3>1. tasks' = [tasks EXCEPT ![t][s].dependencies = @ - 1]
        BY <1>1 DEF Executed
      <3>2. tasks' = [tasks EXCEPT ![t][s] = [tasks[t][s] EXCEPT !.dependencies = tasks[t][s].dependencies - 1]]
        BY <2>1, <3>1 DEF Stacks
      <3>3. tasks[t][s].dependencies - 1 = n
        BY <1>4
      <3> QED BY <2>2, <3>2, <3>3
    <2>4. tasks' \in Stacks /\ \A u \in Threads, r \in Slots : tasks'[u][r] = IF u = t /\ r = s THEN x ELSE tasks[u][r]
      <3> DEFINE g == [tasks EXCEPT ![t][s] = x]
      <3>1. g \in Stacks /\ \A u \in Threads, r \in Slots : g[u][r] = IF u = t /\ r = s THEN x ELSE tasks[u][r]
        BY <2>1, SlotWritten
      <3>2. tasks' = g
        BY <2>3
      <3> QED BY <3>1, <3>2
    <2>5. x.task = tasks[t][s].task /\ x.stealable = tasks[t][s].stealable /\ x.parent = tasks[t][s].parent
          /\ x.dependencies = n /\ x.state = tasks[t][s].state
      BY <2>1, <2>2 DEF TaskRecord
    <2> QED BY <2>4, <2>5
  <1>6. SlotsSame
    BY <1>3, <1>5 DEF SlotsSame
  <1>7. \A u \in Threads, r \in Slots : Waited(u, r)' = Waited(u, r)
    <2>1. Unfinished' = Unfinished
      BY <1>3 DEF Unfinished
    <2> QED BY <1>6, <2>1, SlotsKept DEF Inductive, Waited
  <1>8. ASSUME NEW u \in Threads, NEW r \in Live(u)
        PROVE  (tasks[u][r].dependencies = Cardinality(Waited(u, r)) + IF Own(u, r) THEN 1 ELSE 0)'
    <2>1. r \in Slots
      BY OnStack DEF Inductive
    <2>2. tasks[u][r].dependencies = Cardinality(Waited(u, r)) + IF Own(u, r) THEN 1 ELSE 0
      BY CountIs DEF Inductive
    <2>3. Cardinality(Waited(u, r)) \in Nat
      BY PlacesFinite DEF Waited, Unfinished
    <2>4. CASE u = t /\ r = s
      <3>1. Own(t, s) /\ ~Own(t, s)'
        BY <1>1, <1>3, <1>5 DEF Own, DONE, INITIALIZED
      <3> QED BY <1>4, <1>5, <1>7, <2>2, <2>3, <2>4, <3>1
    <2>5. CASE ~(u = t /\ r = s)
      <3>1. Own(u, r)' <=> Own(u, r)
        BY <1>3, <1>5, <2>1, <2>5 DEF Own
      <3> QED BY <1>5, <1>7, <2>1, <2>2, <2>5, <3>1
    <2> QED BY <2>4, <2>5
  <1>9. DependenciesCount'
    BY <1>6, <1>8, CountKept DEF Inductive
  <1>10. \A u \in Threads : Phase(u, "pop")' => TaskOf(u)'.dependencies = 0
    <2> SUFFICES ASSUME NEW u \in Threads, Phase(u, "pop")' PROVE TaskOf(u)'.dependencies = 0
      OBVIOUS
    <2>1. u # t /\ Phase(u, "pop") /\ Running(u) /\ Top(u)' = Top(u)
      BY <1>2 DEF PhaseMoved, Phase
    <2>2. TaskOf(u).dependencies = 0 /\ Top(u).slot \in Slots
      BY <2>1, FrameTask DEF Inductive, FramesNested
    <2> QED BY <1>5, <2>1, <2>2 DEF TaskOf
  <1>11. thief[t] = NotStealing
    BY <1>0 DEF Inductive, ThreadsCounted, Phase
  <1> QED BY <1>0, <1>1, <1>5, <1>9, <1>10, <1>11, EndStep

\* A counter is written: the rest of the stacks stays.
CounterIs(t, s, n) ==
    /\ tasks' \in Stacks
    /\ \A u \in Threads, r \in Slots :
           /\ tasks'[u][r].task = tasks[u][r].task /\ tasks'[u][r].stealable = tasks[u][r].stealable
           /\ tasks'[u][r].parent = tasks[u][r].parent /\ tasks'[u][r].state = tasks[u][r].state
           /\ tasks'[u][r].dependencies = IF u = t /\ r = s THEN n ELSE tasks[u][r].dependencies

LEMMA CounterWritten ==
    ASSUME NEW t \in Threads, NEW s \in Slots, NEW n \in Nat
    PROVE  /\ tasks \in Stacks
           /\ tasks' = [tasks EXCEPT ![t][s] = [tasks[t][s] EXCEPT !.dependencies = n]]
           => CounterIs(t, s, n)
  <1>1. SUFFICES ASSUME tasks \in Stacks, tasks' = [tasks EXCEPT ![t][s] = [tasks[t][s] EXCEPT !.dependencies = n]]
                 PROVE  CounterIs(t, s, n)
    OBVIOUS
  <1>01. tasks \in Stacks
    BY <1>1
  <1>2. tasks[t][s] \in TaskRecord
    BY <1>01 DEF Stacks
  <1>3. PICK x \in TaskRecord : x = [tasks[t][s] EXCEPT !.dependencies = n]
    BY <1>2 DEF TaskRecord
  <1>4. tasks' \in Stacks /\ \A u \in Threads, r \in Slots : tasks'[u][r] = IF u = t /\ r = s THEN x ELSE tasks[u][r]
    <2> DEFINE g == [tasks EXCEPT ![t][s] = x]
    <2>1. g \in Stacks /\ \A u \in Threads, r \in Slots : g[u][r] = IF u = t /\ r = s THEN x ELSE tasks[u][r]
      BY <1>01, SlotWritten
    <2>2. tasks' = g
      BY <1>1, <1>3
    <2> QED BY <2>1, <2>2
  <1>5. x.task = tasks[t][s].task /\ x.stealable = tasks[t][s].stealable /\ x.parent = tasks[t][s].parent
        /\ x.dependencies = n /\ x.state = tasks[t][s].state
    BY <1>2, <1>3 DEF TaskRecord
  <1> QED BY <1>4, <1>5 DEF CounterIs

\* A task that has finished tells the one that waits for it.
LEMMA SignalKeeps == ASSUME Inductive, NEW t \in Threads, Signal(t), UNCHANGED Joiners PROVE Inductive' /\ Still
  <1> USE DEF lifeVars, workVars
  <1>0. Running(t) /\ Top(t).phase = "join" /\ SetPhase(t, "pop") /\ UNCHANGED <<left, right, mode, thief, lifeVars, workVars>>
        /\ thief[t] = NotStealing
    BY DEF Signal, Phase
  <1>1. PICK s \in Slots : s = Top(t).slot /\ s \in Live(t) /\ tasks[t][s].state = DONE /\ tasks[t][s].dependencies = 0
    BY <1>0, FrameTask, TopIs DEF Inductive, FramesNested, Signal, TaskOf
  <1>2. PhaseMoved(t, "pop")
    BY <1>0, PhaseSet DEF Inductive, Phases
  <1>3. /\ \A u \in Threads : Live(u)' = Live(u)
        /\ \A u \in Threads, r \in Slots :
               /\ Signalled(u, r)' <=> Signalled(u, r) \/ (u = t /\ r = s)
               /\ Busy(u, r)' <=> Busy(u, r)
    BY <1>0, <1>1, <1>2, EndView DEF Inductive
  <1>4. tasks \in Stacks
    BY TasksTyped DEF Inductive
  <1>5. PICK c \in Threads \X Slots : c = <<t, s>>
    BY <1>1
  <1>6. c \in Unfinished
    <2>1. ~Signalled(t, s)
      BY <1>0, <1>1, SignalledIs DEF Inductive, Phase
    <2> QED BY <1>1, <1>5, <2>1 DEF Unfinished
  <1>7. Unfinished' = Unfinished \ {c}
    BY <1>3, <1>5 DEF Unfinished
  <1>8. PICK P \in [thread : Threads \union {Nobody}, slot : Slots] : P = tasks[t][s].parent
    BY <1>4 DEF Stacks, TaskRecord
  <1>9. ASSUME P # NoParent
        PROVE  /\ P.thread \in Threads /\ P.slot \in Live(P.thread) /\ <<P.thread, P.slot>> \in Unfinished
               /\ c \in Waited(P.thread, P.slot) /\ P.slot \in Slots /\ ~(P.thread = t /\ P.slot = s)
    <2>1. ParentOf(c) = <<P.thread, P.slot>>
      BY <1>5, <1>8 DEF ParentOf
    <2>2. <<P.thread, P.slot>> \in Unfinished /\ c \in Waited(P.thread, P.slot)
      <3>1. ParentOf(c) \in Unfinished /\ c \in Waited(ParentOf(c)[1], ParentOf(c)[2])
        BY <1>5, <1>6, <1>8, <1>9, ParentUnfinished DEF Inductive
      <3> QED BY <2>1, <3>1
    <2>3. P.thread \in Threads /\ P.slot \in Live(P.thread) /\ P.slot \in Slots
      BY <2>2 DEF Unfinished
    <2>4. ASSUME P.thread = t, P.slot = s PROVE FALSE
      <3>1. c \in Waited(t, s)
        BY <2>2, <2>4
      <3>2. 0 = Cardinality(Waited(t, s)) + IF Own(t, s) THEN 1 ELSE 0
        BY <1>1, CountIs DEF Inductive
      <3>3. IsFiniteSet(Waited(t, s)) /\ Cardinality(Waited(t, s)) \in Nat
        BY PlacesFinite DEF Waited, Unfinished
      <3>4. Cardinality(Waited(t, s)) = 0
        <4> DEFINE n == Cardinality(Waited(t, s))
        <4>1. n \in Nat /\ 0 = n + IF Own(t, s) THEN 1 ELSE 0
          BY <3>2, <3>3
        <4> HIDE DEF n
        <4>2. n = 0
          BY <4>1
        <4> QED BY <4>2 DEF n
      <3> QED BY <3>1, <3>3, <3>4, FS_EmptySet
    <2> QED BY <2>2, <2>3, <2>4
  <1>10. \A u \in Threads, r \in Slots : c \in Waited(u, r) <=> (P # NoParent /\ u = P.thread /\ r = P.slot)
    <2> SUFFICES ASSUME NEW u \in Threads, NEW r \in Slots
                 PROVE  c \in Waited(u, r) <=> (P # NoParent /\ u = P.thread /\ r = P.slot)
      OBVIOUS
    <2>1. c \in Waited(u, r) <=> P = [thread |-> u, slot |-> r]
      BY <1>5, <1>6, <1>8 DEF Waited
    <2>2. [thread |-> u, slot |-> r] # NoParent
      BY DEF NoParent, Threads
    <2>3. P = [thread |-> P.thread, slot |-> P.slot]
      OBVIOUS
    <2> QED BY <2>1, <2>2, <2>3
  <1>11. /\ tasks' \in Stacks
         /\ \A u \in Threads, r \in Slots :
               /\ tasks'[u][r].task = tasks[u][r].task /\ tasks'[u][r].stealable = tasks[u][r].stealable
               /\ tasks'[u][r].parent = tasks[u][r].parent /\ tasks'[u][r].state = tasks[u][r].state
               /\ ~(P # NoParent /\ u = P.thread /\ r = P.slot) => tasks'[u][r].dependencies = tasks[u][r].dependencies
               /\ P # NoParent /\ u = P.thread /\ r = P.slot => tasks[u][r].dependencies = tasks'[u][r].dependencies + 1
                                                                /\ tasks'[u][r].dependencies \in Nat
    <2>1. tasks' = AddDependencies(tasks, P, -1)
      BY <1>1, <1>8 DEF Signal, TaskOf
    <2>2. CASE P = NoParent
      BY <1>4, <2>1, <2>2 DEF AddDependencies
    <2>3. CASE P # NoParent
      <3>1. P.thread \in Threads /\ P.slot \in Live(P.thread) /\ P.slot \in Slots /\ c \in Waited(P.thread, P.slot)
        BY <1>9, <2>3
      <3>2. PICK v \in Threads, l \in Slots : v = P.thread /\ l = P.slot
        BY <3>1
      <3>3. tasks[v][l].dependencies = Cardinality(Waited(v, l)) + IF Own(v, l) THEN 1 ELSE 0
        BY <3>1, <3>2, CountIs DEF Inductive
      <3>4. IsFiniteSet(Waited(v, l)) /\ Cardinality(Waited(v, l)) \in Nat
        BY PlacesFinite DEF Waited, Unfinished
      <3>5. Cardinality(Waited(v, l)) # 0
        BY <3>1, <3>2, <3>4, FS_EmptySet
      <3>6. PICK n \in Nat : tasks[v][l].dependencies = n + 1
        <4> DEFINE m == Cardinality(Waited(v, l))
        <4>1. m \in Nat \ {0} /\ tasks[v][l].dependencies = m + IF Own(v, l) THEN 1 ELSE 0
          BY <3>3, <3>4, <3>5
        <4> HIDE DEF m
        <4>2. CASE Own(v, l)
          BY <4>1, <4>2
        <4>3. CASE ~Own(v, l)
          <5>1. m - 1 \in Nat /\ tasks[v][l].dependencies = (m - 1) + 1
            BY <4>1, <4>3
          <5> QED BY <5>1
        <4> QED BY <4>2, <4>3
      <3>7. tasks' = [tasks EXCEPT ![v][l].dependencies = @ + -1]
        BY <2>1, <2>3, <3>2 DEF AddDependencies
      <3>8. tasks' = [tasks EXCEPT ![v][l] = [tasks[v][l] EXCEPT !.dependencies = tasks[v][l].dependencies + -1]]
        BY <1>4, <3>7 DEF Stacks
      <3>9. tasks[v][l].dependencies + -1 = n
        BY <3>6
      <3>10. tasks' = [tasks EXCEPT ![v][l] = [tasks[v][l] EXCEPT !.dependencies = n]]
        BY <3>8, <3>9
      <3>11. CounterIs(v, l, n)
        BY <1>4, <3>10, CounterWritten
      <3> QED BY <2>3, <3>2, <3>6, <3>11 DEF CounterIs
    <2> QED BY <2>2, <2>3
  <1>12. SlotsSame
    BY <1>3, <1>11 DEF SlotsSame
  <1>13. \A u \in Threads, r \in Slots : Waited(u, r)' = Waited(u, r) \ {c}
    <2>1. \A u \in Threads, r \in Slots : Waited(u, r)' = Waited(u, r) \intersect Unfinished'
      BY <1>12, SlotsKept DEF Inductive
    <2> QED BY <1>7, <2>1 DEF Waited
  <1>14. ASSUME NEW u \in Threads, NEW r \in Live(u)
         PROVE  (tasks[u][r].dependencies = Cardinality(Waited(u, r)) + IF Own(u, r) THEN 1 ELSE 0)'
    <2>1. r \in Slots
      BY OnStack DEF Inductive
    <2>2. tasks[u][r].dependencies = Cardinality(Waited(u, r)) + IF Own(u, r) THEN 1 ELSE 0
      BY CountIs DEF Inductive
    <2>3. IsFiniteSet(Waited(u, r)) /\ Cardinality(Waited(u, r)) \in Nat
      BY PlacesFinite DEF Waited, Unfinished
    <2>4. Own(u, r)' <=> Own(u, r)
      BY <1>3, <1>11, <2>1 DEF Own
    <2>5. CASE P # NoParent /\ u = P.thread /\ r = P.slot
      <3>1. c \in Waited(u, r)
        BY <1>10, <2>1, <2>5
      <3>2. Cardinality(Waited(u, r) \ {c}) = Cardinality(Waited(u, r)) - 1
        BY <2>3, <3>1, FS_RemoveElement
      <3>3. Cardinality(Waited(u, r))' = Cardinality(Waited(u, r)) - 1
        BY <1>13, <2>1, <3>2
      <3>4. tasks[u][r].dependencies = tasks'[u][r].dependencies + 1 /\ tasks'[u][r].dependencies \in Nat
        BY <1>11, <2>1, <2>5
      <3> QED BY <2>2, <2>3, <2>4, <3>3, <3>4
    <2>6. CASE ~(P # NoParent /\ u = P.thread /\ r = P.slot)
      <3>1. c \notin Waited(u, r)
        BY <1>10, <2>1, <2>6
      <3>02. Waited(u, r) \ {c} = Waited(u, r)
        BY <3>1
      <3>2. Waited(u, r)' = Waited(u, r)
        BY <1>13, <2>1, <3>02
      <3>3. tasks'[u][r].dependencies = tasks[u][r].dependencies
        BY <1>11, <2>1, <2>6
      <3> QED BY <2>2, <2>4, <3>2, <3>3
    <2> QED BY <2>5, <2>6
  <1>15. DependenciesCount'
    BY <1>3, <1>12, <1>14, CountKept DEF Inductive
  <1>16. \A u \in Threads : Phase(u, "pop")' => TaskOf(u)'.dependencies = 0
    <2> SUFFICES ASSUME NEW u \in Threads, Phase(u, "pop")' PROVE TaskOf(u)'.dependencies = 0
      OBVIOUS
    <2>1. CASE u = t
      <3>1. Top(t)'.slot = s
        BY <1>1, <1>2 DEF PhaseMoved
      <3>2. tasks'[t][s].dependencies = 0
        BY <1>1, <1>9, <1>11
      <3> QED BY <2>1, <3>1, <3>2 DEF TaskOf
    <2>2. CASE u # t
      <3>1. Phase(u, "pop") /\ Running(u) /\ Top(u)' = Top(u)
        BY <1>2, <2>2 DEF PhaseMoved, Phase
      <3>2. TaskOf(u).dependencies = 0 /\ Top(u).slot \in Slots
        BY <3>1, FrameTask DEF Inductive, FramesNested
      <3>3. Signalled(u, Top(u).slot)
        BY <3>1, <3>2, SignalledIs DEF Inductive
      <3>4. ~(P # NoParent /\ u = P.thread /\ Top(u).slot = P.slot)
        BY <1>9, <3>3 DEF Unfinished
      <3> QED BY <1>11, <3>1, <3>2, <3>4 DEF TaskOf
    <2> QED BY <2>1, <2>2
  <1>17. \A u \in Threads, r \in Slots :
            /\ tasks'[u][r].task = tasks[u][r].task /\ tasks'[u][r].stealable = tasks[u][r].stealable
            /\ tasks'[u][r].parent = tasks[u][r].parent /\ tasks'[u][r].state = tasks[u][r].state
    BY <1>11
  <1>18. tasks' \in Stacks
    BY <1>11
  <1> QED BY <1>0, <1>1, <1>15, <1>16, <1>17, <1>18, EndStep

\* execute_local calls the task on top, which is above the one that waits.
LEMMA RunLocalKeeps == ASSUME Inductive, NEW t \in Threads, RunLocal(t), UNCHANGED Joiners PROVE Inductive' /\ Still
  <1> USE DEF stackVars, lifeVars, workVars
  <1>0. /\ UNCHANGED <<tasks, left, right, mode, thief, lifeVars, workVars>>
        /\ (Running(t) /\ Top(t).phase \in {"wait", "local"}) \/ (~Running(t) /\ mode[t] \in {"work", "body"})
        /\ right[t] - 1 # Base(t)
    BY DEF RunLocal, Phase
  <1>1. PICK s \in Slots : s = right[t] - 1 /\ \A i \in DOMAIN frames[t] : frames[t][i].slot < s
    <2>1. right[t] \in 0 .. TASK_STACK_SIZE
      BY DEF Inductive, TypeOK
    <2>2. CASE Running(t)
      <3>1. Top(t).slot \in Slots /\ Top(t).slot < right[t] /\ Top(t).slot # right[t] - 1
        BY <1>0, <2>2, FrameTask, TopIs DEF Base, Inductive, FramesNested
      <3>2. right[t] - 1 \in Slots /\ Top(t).slot < right[t] - 1
        BY <2>1, <3>1 DEF Slots
      <3>3. ASSUME NEW i \in DOMAIN frames[t] PROVE frames[t][i].slot < right[t] - 1
        <4>1. frames[t][i].slot \in Slots /\ i \in Nat /\ i <= Len(frames[t]) /\ Len(frames[t]) \in DOMAIN frames[t]
              /\ Len(frames[t]) \in Nat /\ Top(t) = frames[t][Len(frames[t])]
          BY <2>2, FramesTyped, TopIs DEF Inductive
        <4>2. frames[t][i].slot <= Top(t).slot
          <5>1. CASE i = Len(frames[t])
            BY <4>1, <5>1 DEF Slots
          <5>2. CASE i # Len(frames[t])
            <6>1. i < Len(frames[t])
              BY <4>1, <5>2
            <6>2. frames[t][i].slot < Top(t).slot
              BY <4>1, <6>1 DEF Inductive, FramesNested
            <6> QED BY <3>1, <4>1, <6>2 DEF Slots
          <5> QED BY <5>1, <5>2
        <4> QED BY <2>1, <3>1, <3>2, <4>1, <4>2 DEF Slots
      <3> QED BY <3>2, <3>3
    <2>3. CASE ~Running(t)
      <3>1. right[t] - 1 \in Slots
        BY <1>0, <2>1, <2>3 DEF Base, Slots
      <3>2. DOMAIN frames[t] = {}
        BY <2>3 DEF Running
      <3> QED BY <3>1, <3>2
    <2> QED BY <2>2, <2>3
  <1>2. PICK z \in Frame : z = [slot |-> s, phase |-> "start", child |-> Nobody]
    BY DEF Frame, Phases
  <1>3. PICK n \in Nat : n = Len(frames[t]) /\ DOMAIN frames[t] = 1 .. n /\ frames[t] \in Seq(Frame)
    BY FramesTyped DEF Inductive
  <1>4. /\ frames' \in [Threads -> Seq(Frame)] /\ Len(frames'[t]) = n + 1 /\ DOMAIN frames'[t] = 1 .. n + 1
        /\ \A i \in 1 .. n : frames'[t][i] = frames[t][i]
        /\ frames'[t][n + 1] = z
        /\ \A u \in Threads : u # t => frames'[u] = frames[u]
    <2>1. frames' = [frames EXCEPT ![t] = Append(frames[t], z)]
      BY <1>1, <1>2 DEF RunLocal
    <2>2. frames \in [Threads -> Seq(Frame)]
      BY DEF Inductive, TypeOK, Frame
    <2>3. Append(frames[t], z) \in Seq(Frame) /\ Len(Append(frames[t], z)) = n + 1
          /\ (\A i \in 1 .. n : Append(frames[t], z)[i] = frames[t][i]) /\ Append(frames[t], z)[n + 1] = z
      BY <1>3
    <2>4. DOMAIN Append(frames[t], z) = 1 .. n + 1
      BY <2>3
    <2>5. frames'[t] = Append(frames[t], z)
      BY <2>1, <2>2
    <2> QED BY <2>1, <2>2, <2>3, <2>4, <2>5
  <1>5. Running(t)' /\ Top(t)' = z /\ \A q : Phase(t, q)' <=> q = "start"
    <2>1. Running(t)'
      BY <1>4 DEF Running
    <2>2. Top(t)' = z
      BY <1>4 DEF Top
    <2> QED BY <1>2, <2>1, <2>2 DEF Phase
  <1>6. \A u \in Threads : u # t => Top(u)' = Top(u) /\ (Running(u)' <=> Running(u)) /\ \A q : Phase(u, q)' <=> Phase(u, q)
    BY <1>4 DEF Running, Top, Phase
  <1>7. ASSUME NEW u \in Threads
        PROVE  Live(u)' = Live(u) /\ \A r \in Slots : (Signalled(u, r)' <=> Signalled(u, r)) /\ (Busy(u, r)' <=> Busy(u, r))
    <2>1. CASE u # t
      BY <1>0, <1>4, <1>6, <2>1 DEF Live, Signalled, Busy, Calls
    <2>2. CASE u = t
      <3>1. Live(t)' = Live(t)
        <4>1. ~Phase(t, "build") /\ ~Phase(t, "build")'
          BY <1>0, <1>5 DEF Phase
        <4> QED BY <1>0, <4>1 DEF Live
      <3>2. \A r : Calls(t, r)' = Calls(t, r) \union (IF r = s THEN {n + 1} ELSE {})
        <4>1. DOMAIN frames'[t] = DOMAIN frames[t] \union {n + 1}
          BY <1>3, <1>4
        <4>2. \A i \in DOMAIN frames[t] : frames'[t][i] = frames[t][i]
          BY <1>3, <1>4
        <4>3. frames'[t][n + 1].slot = s
          BY <1>2, <1>4
        <4> QED BY <4>1, <4>2, <4>3 DEF Calls
      <3>3. \A i \in 1 .. n : frames'[t][i].phase = frames[t][i].phase
        BY <1>4
      <3>4. frames'[t][n + 1].phase = "start"
        BY <1>2, <1>4
      <3>5. \A r : Calls(t, r) \subseteq 1 .. n
        BY <1>3 DEF Calls
      <3>6. \A r \in Slots : (Signalled(t, r)' <=> Signalled(t, r)) /\ (Busy(t, r)' <=> Busy(t, r))
        BY <3>2, <3>3, <3>4, <3>5 DEF Signalled, Busy, Inside
      <3> QED BY <2>2, <3>1, <3>6
    <2> QED BY <2>1, <2>2
  <1>8. StacksKept' /\ Grounded' /\ DependenciesCount'
    BY <1>0, <1>7, ViewSame DEF Inductive
  <1>9. FramesNested'
    <2>1. ASSUME NEW u \in Threads, NEW i \in DOMAIN frames'[u]
          PROVE  /\ frames'[u][i].slot < right'[u]
                 /\ frames'[u][i].phase # "start" => tasks'[u][frames'[u][i].slot].state = DONE
                 /\ i < Len(frames'[u]) => frames'[u][i].phase \in {"wait", "local"}
                 /\ \A j \in DOMAIN frames'[u] : i < j => frames'[u][i].slot < frames'[u][j].slot
      <3>1. CASE u # t
        BY <1>0, <1>4, <3>1 DEF Inductive, FramesNested
      <3>2. CASE u = t /\ i = n + 1
        <4>1. frames'[u][i] = z
          BY <1>4, <3>2
        <4>2. right[t] \in 0 .. TASK_STACK_SIZE
          BY DEF Inductive, TypeOK
        <4>3. s < right[t]
          BY <1>1, <4>2 DEF Slots
        <4>4. \A j \in 1 .. n + 1 : ~(n + 1 < j)
          OBVIOUS
        <4> QED BY <1>0, <1>2, <1>4, <3>2, <4>1, <4>3, <4>4
      <3>3. CASE u = t /\ i # n + 1
        <4>1. i \in 1 .. n /\ i \in DOMAIN frames[t] /\ frames'[t][i] = frames[t][i]
          BY <1>3, <1>4, <3>3
        <4>2. i < n => frames[t][i].phase \in {"wait", "local"}
          BY <1>3, <4>1 DEF Inductive, FramesNested
        <4>3. i = n => frames[t][i].phase \in {"wait", "local"}
          <5>1. DOMAIN frames[t] # {}
            BY <4>1
          <5>2. Running(t)
            BY <5>1 DEF Running
          <5> QED BY <1>0, <1>3, <5>2 DEF Top
        <4>4. frames[t][i].slot < right[t] /\ (frames[t][i].phase # "start" => tasks[t][frames[t][i].slot].state = DONE)
          BY <4>1 DEF Inductive, FramesNested
        <4>5. ASSUME NEW j \in 1 .. n + 1, i < j PROVE frames'[t][i].slot < frames'[t][j].slot
          <5>1. CASE j = n + 1
            BY <1>1, <1>2, <1>4, <4>1, <5>1
          <5>2. CASE j # n + 1
            <6>1. j \in 1 .. n
              BY <5>2
            <6>2. frames[t][i].slot < frames[t][j].slot
              BY <1>3, <4>1, <4>5, <6>1 DEF Inductive, FramesNested
            <6> QED BY <1>4, <4>1, <6>1, <6>2
          <5> QED BY <5>1, <5>2
        <4>6. i < n \/ i = n
          BY <4>1
        <4>7. frames[t][i].phase \in {"wait", "local"}
          BY <4>2, <4>3, <4>6
        <4> QED BY <1>0, <1>4, <3>3, <4>1, <4>4, <4>5, <4>7
      <3> QED BY <3>1, <3>2, <3>3
    <2>2. ASSUME NEW u \in Threads
          PROVE  /\ Running(u)' /\ Top(u)'.phase \notin {"spawn", "build", "wait", "local"} => Top(u)'.slot = right'[u] - 1
                 /\ Phase(u, "build")' => Top(u)'.slot < right'[u] - 1 /\ Top(u)'.child \in ChildrenOf(TaskOf(u).task)'
                 /\ Phase(u, "pop")' => TaskOf(u)'.dependencies = 0
                 /\ Running(u)' => mode'[u] \in {"work", "body"}
                 /\ right'[u] > 0 => mode'[u] \in {"announce", "add", "work", "steal", "body"}
                 /\ mode'[u] = "steal" => right'[u] = 1
      <3>1. CASE u # t
        <4>1. TaskOf(u)' = TaskOf(u)
          BY <1>0, <1>6, <3>1 DEF TaskOf
        <4> QED BY <1>0, <1>6, <3>1, <4>1 DEF Inductive, FramesNested, ChildrenOf
      <3>2. CASE u = t
        <4>1. mode[t] \in {"work", "body"}
          BY <1>0 DEF Inductive, FramesNested
        <4> QED BY <1>0, <1>1, <1>2, <1>5, <3>2, <4>1 DEF Inductive, FramesNested
      <3> QED BY <3>1, <3>2
    <2> QED BY <2>1, <2>2 DEF FramesNested
  <1>10. ThreadsCounted' /\ ThreadsAlive'
    <2>1. thief[t] = NotStealing
      BY <1>0 DEF Inductive, ThreadsCounted, Phase
    <2>2. \A u \in Threads : thief[u] # NotStealing => Phase(u, "join")' \/ (~Running(u)' /\ mode[u] = "loop")
      BY <1>6, <2>1 DEF Inductive, ThreadsCounted
    <2> QED BY <1>0, <2>2, LifeSame DEF Inductive
  <1>11. TypeOK'
    BY <1>0, <1>4 DEF Inductive, TypeOK, Frame
  <1>12. ASSUME NEW u \in Threads, NEW r \in Slots, NEW k \in Tasks
         PROVE  /\ Pending(u, r, k)' <=> Pending(u, r, k)
                /\ Original(u, r, k)' <=> Original(u, r, k)
                /\ Queued(u, r, k)' <=> Queued(u, r, k)
    <2>1. CASE u # t
      BY <1>0, <1>6, <1>7, <2>1 DEF Pending, Original, Queued
    <2>2. CASE u = t
      <3>1. ~Phase(t, "build") /\ ~Phase(t, "execute") /\ ~Phase(t, "build")' /\ ~Phase(t, "execute")'
        BY <1>0, <1>5 DEF Phase
      <3> QED BY <1>0, <1>7, <2>2, <3>1 DEF Pending, Original, Queued
    <2> QED BY <2>1, <2>2
  <1>13. OnePlace'
    BY <1>0, <1>12, PlacesFewer DEF Inductive
  <1>14. \A u \in Threads : Running(u) /\ Top(u).phase \in {"spawn", "build", "throw"} =>
             Running(u)' /\ Top(u)'.phase \in {"spawn", "build", "throw"} /\ TaskOf(u)'.task = TaskOf(u).task
    BY <1>0, <1>6 DEF TaskOf
  <1>15. NoneSkipped'
    BY <1>0, <1>12, <1>14, StillNoneSkipped DEF Inductive, TypeOK
  <1>16. RootOutlasts' /\ ExceptionReachesRoot'
    BY <1>0, RestSame
  <1>17. BegunKept
    <2> SUFFICES ASSUME NEW u \in Threads, Running(u)', Top(u)'.phase \in {"spawn", "build"}
                 PROVE  Running(u) /\ Top(u).phase \in {"spawn", "build"} /\ TaskOf(u)'.task = TaskOf(u).task
      BY <1>0 DEF BegunKept
    <2>1. u # t
      BY <1>2, <1>5
    <2> QED BY <1>0, <1>6, <2>1 DEF TaskOf
  <1>18. Still
    BY <1>0, <1>12, <1>17, StillIs
  <1> QED BY <1>8, <1>9, <1>10, <1>11, <1>13, <1>15, <1>16, <1>18 DEF Inductive

\* The counters agree, slot by slot.
Counted(t, s) == /\ tasks[t][s].dependencies = Cardinality(Waited(t, s)) + IF Own(t, s) THEN 1 ELSE 0
                 /\ tasks[t][s].parent # NoParent =>
                        \/ tasks[t][s].parent.slot \in Live(tasks[t][s].parent.thread)
                        \/ Signalled(t, s)
AllCounted == \A t \in Threads : \A s \in Live(t) : Counted(t, s)

LEMMA AllCountedIs == DependenciesCount <=> AllCounted
  BY CountIs DEF AllCounted, Counted

\* A task that has signalled gives its slot back: nobody points to it any more.
PoppedOne(t) ==
    /\ spawned' = spawned /\ BegunKept
    /\ \A u \in Threads, r \in Slots, k \in Tasks :
           /\ Queued(u, r, k)' <=> Queued(u, r, k)
           /\ Original(u, r, k)' <=> Original(u, r, k) /\ ~(u = t /\ r = Top(t).slot)

LEMMA PopKeeps == ASSUME Inductive, NEW t \in Threads, Pop(t), UNCHANGED Joiners PROVE Inductive' /\ PoppedOne(t)
  <1> USE DEF lifeVars, workVars
  <1>0. /\ UNCHANGED <<tasks, mode, thief, lifeVars, workVars>>
        /\ Running(t) /\ Top(t).phase = "pop" /\ Phase(t, "pop")
    BY DEF Pop, Phase
  <1>1. PICK s \in Slots : /\ s = Top(t).slot /\ s = right[t] - 1 /\ s \in Live(t) /\ tasks[t][s].state = DONE
    BY <1>0, FrameTask, TopIs DEF Inductive, FramesNested
  <1>2. PICK n \in Nat : n + 1 = Len(frames[t]) /\ DOMAIN frames[t] = 1 .. n + 1 /\ frames[t] \in Seq(Frame)
    <2>1. Len(frames[t]) \in Nat \ {0}
      BY <1>0, TopIs DEF Inductive
    <2>2. Len(frames[t]) - 1 \in Nat /\ (Len(frames[t]) - 1) + 1 = Len(frames[t])
      BY <2>1
    <2> QED BY <2>2, FramesTyped DEF Inductive
  <1>3. /\ frames' \in [Threads -> Seq(Frame)] /\ Len(frames'[t]) = n /\ DOMAIN frames'[t] = 1 .. n
        /\ \A i \in 1 .. n : frames'[t][i] = frames[t][i]
        /\ \A u \in Threads : u # t => frames'[u] = frames[u]
    <2>01. frames' = [frames EXCEPT ![t] = SubSeq(frames[t], 1, Len(frames[t]) - 1)]
      BY DEF Pop
    <2>02. Len(frames[t]) - 1 = n
      BY <1>2
    <2>1. frames' = [frames EXCEPT ![t] = SubSeq(frames[t], 1, n)]
      BY <2>01, <2>02
    <2>2. frames \in [Threads -> Seq(Frame)]
      BY DEF Inductive, TypeOK, Frame
    <2>3. SubSeq(frames[t], 1, n) \in Seq(Frame) /\ Len(SubSeq(frames[t], 1, n)) = n
          /\ (\A i \in 1 .. n : SubSeq(frames[t], 1, n)[i] = frames[t][i])
      BY <1>2
    <2>4. DOMAIN SubSeq(frames[t], 1, n) = 1 .. n
      BY <2>3
    <2>5. frames'[t] = SubSeq(frames[t], 1, n)
      BY <2>1, <2>2
    <2> QED BY <2>1, <2>2, <2>3, <2>4, <2>5
  <1>4. \A i \in 1 .. n : frames[t][i].phase \in {"wait", "local"} /\ frames[t][i].slot < s
    <2> SUFFICES ASSUME NEW i \in 1 .. n PROVE frames[t][i].phase \in {"wait", "local"} /\ frames[t][i].slot < s
      OBVIOUS
    <2>1. i \in DOMAIN frames[t] /\ i < Len(frames[t]) /\ Len(frames[t]) \in DOMAIN frames[t] /\ frames[t][Len(frames[t])] = Top(t)
      BY <1>0, <1>2, TopIs DEF Inductive
    <2>2. FramesNested
      BY DEF Inductive
    <2>3. frames[t][i].phase \in {"wait", "local"}
      BY <2>1, <2>2 DEF FramesNested
    <2>4. frames[t][i].slot < frames[t][Len(frames[t])].slot
      BY <2>1, <2>2 DEF FramesNested
    <2> QED BY <1>1, <2>1, <2>3, <2>4
  <1>5. Running(t)' => Top(t)'.phase \in {"wait", "local"} /\ n # 0
    <2> SUFFICES ASSUME Running(t)' PROVE Top(t)'.phase \in {"wait", "local"} /\ n # 0
      OBVIOUS
    <2>1. frames'[t] \in Seq(Frame) /\ frames'[t] # <<>>
      BY <1>3 DEF Running
    <2>2. n # 0
      BY <1>3, <2>1
    <2>3. n \in 1 .. n
      BY <2>2
    <2> QED BY <1>3, <1>4, <2>2, <2>3 DEF Top
  <1>6. \A u \in Threads : u # t => Top(u)' = Top(u) /\ (Running(u)' <=> Running(u)) /\ \A q : Phase(u, q)' <=> Phase(u, q)
    BY <1>3 DEF Running, Top, Phase
  <1>7. \A u \in Threads : right'[u] = IF u = t THEN s ELSE right[u]
    BY <1>1 DEF Pop, Inductive, TypeOK
  <1>8. \A u \in Threads, r \in Slots : r \in Live(u)' <=> r \in Live(u) /\ ~(u = t /\ r = s)
    <2> SUFFICES ASSUME NEW u \in Threads, NEW r \in Slots
                 PROVE  r \in Live(u)' <=> r \in Live(u) /\ ~(u = t /\ r = s)
      OBVIOUS
    <2>1. CASE u # t
      BY <1>6, <1>7, <2>1 DEF Live
    <2>2. CASE u = t
      <3>1. ~Phase(t, "build") /\ ~Phase(t, "build")'
        BY <1>0, <1>5 DEF Phase
      <3>2. right[t] = s + 1
        <4>1. right[t] \in 0 .. TASK_STACK_SIZE
          BY DEF Inductive, TypeOK
        <4> QED BY <1>1, <4>1
      <3>3. r < s <=> r < s + 1 /\ r # s
        BY DEF Slots
      <3> QED BY <1>7, <2>2, <3>1, <3>2, <3>3 DEF Live
    <2> QED BY <2>1, <2>2
  <1>9. Signalled(t, s) /\ \A r \in Slots : (Signalled(t, r) <=> r = s) /\ ~Signalled(t, r)'
    <2>1. \A r \in Slots : Signalled(t, r) <=> r = s
      BY <1>0, <1>1, SignalledIs DEF Inductive
    <2>2. \A r \in Slots : ~Signalled(t, r)'
      BY <1>3, <1>4 DEF Signalled, Calls
    <2> QED BY <2>1, <2>2
  <1>10. \A u \in Threads, r \in Slots : /\ u # t => (Signalled(u, r)' <=> Signalled(u, r))
                                         /\ Busy(u, r)' <=> Busy(u, r)
    <2> SUFFICES ASSUME NEW u \in Threads, NEW r \in Slots
                 PROVE  /\ u # t => (Signalled(u, r)' <=> Signalled(u, r))
                        /\ Busy(u, r)' <=> Busy(u, r)
      OBVIOUS
    <2>1. CASE u # t
      BY <1>3, <2>1 DEF Signalled, Busy, Calls
    <2>2. CASE u = t
      <3>1. frames[t][n + 1].phase = "pop"
        BY <1>0, <1>2, TopIs DEF Inductive
      <3>2. DOMAIN frames[t] = DOMAIN frames'[t] \union {n + 1} /\ \A i \in DOMAIN frames'[t] : frames'[t][i] = frames[t][i]
        BY <1>2, <1>3
      <3> QED BY <2>2, <3>1, <3>2 DEF Busy, Calls, Inside
    <2> QED BY <2>1, <2>2
  <1>11. Unfinished' = Unfinished
    <2>1. \A c \in Threads \X Slots : c \in Unfinished' <=> c \in Unfinished
      <3> SUFFICES ASSUME NEW u \in Threads, NEW r \in Slots
                   PROVE  r \in Live(u)' /\ ~Signalled(u, r)' <=> r \in Live(u) /\ ~Signalled(u, r)
        BY DEF Unfinished
      <3> QED BY <1>8, <1>9, <1>10
    <2> QED BY <2>1 DEF Unfinished
  <1>12. ASSUME NEW u \in Threads, NEW r \in Live(u), ~Signalled(u, r), tasks[u][r].parent # NoParent
         PROVE  /\ tasks[u][r].parent.thread \in Threads
                /\ tasks[u][r].parent.slot \in Live(tasks[u][r].parent.thread)'
    <2>1. r \in Slots /\ <<u, r>> \in Unfinished
      BY <1>12, OnStack DEF Inductive, Unfinished
    <2>2. PICK c \in Unfinished : c = <<u, r>>
      BY <2>1
    <2>3. ParentOf(c) \in Unfinished
      BY <1>12, <2>2, ParentUnfinished DEF Inductive
    <2>4. ParentOf(c) \in Unfinished'
      BY <1>11, <2>3
    <2>5. ParentOf(c) = <<tasks[u][r].parent.thread, tasks[u][r].parent.slot>>
      BY <2>2 DEF ParentOf
    <2>6. tasks' = tasks
      BY <1>0
    <2> QED BY <2>4, <2>5, <2>6 DEF Unfinished
  <1>13. StacksKept'
    <2> SUFFICES ASSUME NEW u \in Threads, NEW r \in Slots PROVE SlotKept(u, r)'
      BY DEF StacksKept
    <2>1. SlotKept(u, r)
      BY DEF Inductive, StacksKept
    <2>2. CASE u = t /\ r = s
      BY <1>0, <1>1, <1>8, <2>2 DEF SlotKept
    <2>3. CASE ~(u = t /\ r = s)
      <3>1. r \in Live(u)' <=> r \in Live(u)
        BY <1>8, <2>3
      <3>2. Signalled(u, r)' <=> Signalled(u, r)
        BY <1>9, <1>10, <2>3
      <3>3. r \notin Live(u) \/ (r \in Live(u) /\ tasks[u][r].parent = NoParent)
            \/ (r \in Live(u) /\ tasks[u][r].parent # NoParent)
        OBVIOUS
      <3>4. CASE r \notin Live(u)
        BY <1>0, <2>1, <3>1, <3>4 DEF SlotKept
      <3>5. CASE r \in Live(u) /\ tasks[u][r].parent = NoParent
        BY <1>0, <2>1, <3>1, <3>5 DEF SlotKept
      <3>6. CASE r \in Live(u) /\ tasks[u][r].parent # NoParent
        <4>1. ~Signalled(u, r) => tasks[u][r].parent.slot \in Live(tasks[u][r].parent.thread)'
          BY <1>12, <3>6
        <4> QED BY <1>0, <2>1, <3>1, <3>2, <3>6, <4>1 DEF SlotKept
      <3> QED BY <3>3, <3>4, <3>5, <3>6
    <2> QED BY <2>2, <2>3
  <1>14. Grounded'
    BY <1>0, <1>11 DEF Inductive, Grounded, ParentOf
  <1>15. \A u, r : Waited(u, r)' = Waited(u, r)
    BY <1>0, <1>11 DEF Waited
  <1>16. DependenciesCount'
    <2>1. AllCounted'
      <3> SUFFICES ASSUME NEW u \in Threads, NEW r \in Live(u)' PROVE Counted(u, r)'
        BY DEF AllCounted
      <3>1. r \in Slots
        BY DEF Live
      <3>2. r \in Live(u) /\ ~(u = t /\ r = s)
        BY <1>8, <3>1
      <3>3. Own(u, r)' <=> Own(u, r)
        BY <1>0, <1>10, <3>1 DEF Own
      <3>4. tasks[u][r].dependencies = Cardinality(Waited(u, r)) + IF Own(u, r) THEN 1 ELSE 0
        BY <3>2, CountIs DEF Inductive
      <3>5. (tasks[u][r].dependencies = Cardinality(Waited(u, r)) + IF Own(u, r) THEN 1 ELSE 0)'
        BY <1>0, <1>15, <3>3, <3>4
      <3>6. Signalled(u, r)' <=> Signalled(u, r)
        BY <1>9, <1>10, <3>1, <3>2
      <3>7. (tasks[u][r].parent # NoParent => \/ tasks[u][r].parent.slot \in Live(tasks[u][r].parent.thread)
                                              \/ Signalled(u, r))'
        BY <1>0, <1>12, <3>2, <3>6
      <3> QED BY <3>5, <3>7 DEF Counted
    <2> QED BY <2>1, AllCountedIs, PTL
  <1>17. FramesNested'
    <2>1. ASSUME NEW u \in Threads, NEW i \in DOMAIN frames'[u]
          PROVE  /\ frames'[u][i].slot < right'[u]
                 /\ frames'[u][i].phase # "start" => tasks'[u][frames'[u][i].slot].state = DONE
                 /\ i < Len(frames'[u]) => frames'[u][i].phase \in {"wait", "local"}
                 /\ \A j \in DOMAIN frames'[u] : i < j => frames'[u][i].slot < frames'[u][j].slot
      <3>1. CASE u # t
        BY <1>0, <1>3, <1>7, <3>1 DEF Inductive, FramesNested
      <3>2. CASE u = t
        <4>1. i \in 1 .. n /\ i \in DOMAIN frames[t] /\ frames'[t][i] = frames[t][i]
          BY <1>2, <1>3, <3>2
        <4>2. frames[t][i].phase # "start" => tasks[t][frames[t][i].slot].state = DONE
          BY <4>1 DEF Inductive, FramesNested
        <4>3. \A j \in 1 .. n : j \in DOMAIN frames[t] /\ frames'[t][j] = frames[t][j]
          BY <1>2, <1>3
        <4>4. \A j \in 1 .. n : i < j => frames[t][i].slot < frames[t][j].slot
          BY <4>1, <4>3 DEF Inductive, FramesNested
        <4> QED BY <1>0, <1>3, <1>4, <1>7, <3>2, <4>1, <4>2, <4>3, <4>4
      <3> QED BY <3>1, <3>2
    <2>2. ASSUME NEW u \in Threads
          PROVE  /\ Running(u)' /\ Top(u)'.phase \notin {"spawn", "build", "wait", "local"} => Top(u)'.slot = right'[u] - 1
                 /\ Phase(u, "build")' => Top(u)'.slot < right'[u] - 1 /\ Top(u)'.child \in ChildrenOf(TaskOf(u).task)'
                 /\ Phase(u, "pop")' => TaskOf(u)'.dependencies = 0
                 /\ Running(u)' => mode'[u] \in {"work", "body"}
                 /\ right'[u] > 0 => mode'[u] \in {"announce", "add", "work", "steal", "body"}
                 /\ mode'[u] = "steal" => right'[u] = 1
      <3>1. CASE u # t
        <4>1. TaskOf(u)' = TaskOf(u)
          BY <1>0, <1>6, <3>1 DEF TaskOf
        <4> QED BY <1>0, <1>6, <1>7, <3>1, <4>1 DEF Inductive, FramesNested, ChildrenOf
      <3>2. CASE u = t
        <4>1. mode[t] \in {"work", "body"}
          BY <1>0 DEF Inductive, FramesNested
        <4> QED BY <1>0, <1>5, <3>2, <4>1 DEF Phase
      <3> QED BY <3>1, <3>2
    <2> QED BY <2>1, <2>2 DEF FramesNested
  <1>18. ThreadsCounted' /\ ThreadsAlive'
    <2>1. thief[t] = NotStealing
      BY <1>0 DEF Inductive, ThreadsCounted, Phase
    <2>2. \A u \in Threads : thief[u] # NotStealing => Phase(u, "join")' \/ (~Running(u)' /\ mode[u] = "loop")
      BY <1>6, <2>1 DEF Inductive, ThreadsCounted
    <2> QED BY <1>0, <2>2, LifeSame DEF Inductive
  <1>19. TypeOK'
    <2>1. right' \in [Threads -> 0 .. TASK_STACK_SIZE]
      <3>1. right' = [right EXCEPT ![t] = s] /\ s \in 0 .. TASK_STACK_SIZE
        BY <1>1 DEF Pop, Slots, Inductive, TypeOK
      <3> QED BY <3>1 DEF Inductive, TypeOK
    <2>2. left' \in [Threads -> Nat]
      <3>1. left' = [left EXCEPT ![t] = IF left[t] >= s THEN s ELSE left[t]] /\ s \in Nat /\ left[t] \in Nat
        BY <1>1, <1>7 DEF Pop, Slots, Inductive, TypeOK
      <3> QED BY <3>1 DEF Inductive, TypeOK
    <2> QED BY <1>0, <1>3, <2>1, <2>2 DEF Inductive, TypeOK, Frame
  <1>20. ASSUME NEW u \in Threads, NEW r \in Slots, NEW k \in Tasks
         PROVE  /\ Pending(u, r, k)' <=> Pending(u, r, k)
                /\ Original(u, r, k)' <=> Original(u, r, k) /\ ~(u = t /\ r = s)
                /\ Queued(u, r, k)' <=> Queued(u, r, k)
    <2>1. CASE u # t
      BY <1>0, <1>6, <1>7, <1>8, <2>1 DEF Pending, Original, Queued
    <2>2. CASE u = t
      <3>1. ~Phase(t, "build") /\ ~Phase(t, "execute") /\ ~Phase(t, "build")' /\ ~Phase(t, "execute")'
        BY <1>0, <1>5 DEF Phase
      <3> QED BY <1>0, <1>8, <2>2, <3>1 DEF Pending, Original, Queued
    <2> QED BY <2>1, <2>2
  <1>21. OnePlace'
    BY <1>0, <1>20, PlacesFewer DEF Inductive
  <1>22. \A u \in Threads : Running(u) /\ Top(u).phase \in {"spawn", "build", "throw"} =>
             Running(u)' /\ Top(u)'.phase \in {"spawn", "build", "throw"} /\ TaskOf(u)'.task = TaskOf(u).task
    BY <1>0, <1>6 DEF TaskOf
  <1>23. NoneSkipped'
    BY <1>0, <1>20, <1>22, StillNoneSkipped DEF Inductive, TypeOK
  <1>24. RootOutlasts'
    <2>1. mode[Root] \in AfterWork => t # Root
      <3>1. right[Root] # 0 \/ t # Root
        BY <1>1 DEF Slots
      <3> QED BY <3>1 DEF Inductive, RootOutlasts
    <2>2. Root \in Threads
      BY DEF Threads
    <2> QED BY <1>0, <1>7, <2>1, <2>2 DEF Inductive, RootOutlasts
  <1>25. ExceptionReachesRoot'
    BY <1>0 DEF Inductive, ExceptionReachesRoot
  <1>26. BegunKept
    <2> SUFFICES ASSUME NEW u \in Threads, Running(u)', Top(u)'.phase \in {"spawn", "build"}
                 PROVE  Running(u) /\ Top(u).phase \in {"spawn", "build"} /\ TaskOf(u)'.task = TaskOf(u).task
      BY <1>0 DEF BegunKept
    <2>1. u # t
      BY <1>5
    <2> QED BY <1>0, <1>6, <2>1 DEF TaskOf
  <1>27. PoppedOne(t)
    BY <1>0, <1>1, <1>20, <1>26 DEF PoppedOne
  <1> QED BY <1>13, <1>14, <1>16, <1>17, <1>18, <1>19, <1>21, <1>23, <1>24, <1>25, <1>27 DEF Inductive

\* A task that spawns takes the slot above its own stack for its child.
LEMMA SpawnKeeps ==
    ASSUME Inductive, NEW t \in Threads, NEW k \in Tasks, Spawn(t, k), UNCHANGED Joiners
    PROVE  Inductive' /\ SpawnedOne(k)
  <1> USE DEF lifeVars, workVars
  <1>0. /\ UNCHANGED <<tasks, left, mode, thief, lifeVars, cancellingException, executed>>
        /\ Running(t) /\ Top(t).phase = "spawn" /\ k \in ChildrenOf(TaskOf(t).task) /\ k \notin spawned
        /\ spawned' = spawned \union {k}
    BY DEF Spawn, TakeSlot, Phase
  <1>1. PICK s \in Slots : s = Top(t).slot /\ s < right[t]
    BY <1>0, FrameTask, TopIs DEF Inductive, FramesNested
  <1>2. PICK r0 \in Slots : r0 = right[t]
    <2>1. right[t] \in 0 .. TASK_STACK_SIZE /\ right[t] < TASK_STACK_SIZE
      BY DEF Spawn, TakeSlot, Room, Inductive, TypeOK
    <2> QED BY <2>1 DEF Slots
  <1>3. \A u \in Threads : right'[u] = IF u = t THEN r0 + 1 ELSE right[u]
    BY <1>2 DEF Spawn, TakeSlot, Room, Inductive, TypeOK
  <1>4. right' \in [Threads -> 0 .. TASK_STACK_SIZE]
    <2>1. right' = [right EXCEPT ![t] = r0 + 1] /\ r0 + 1 \in 0 .. TASK_STACK_SIZE
      BY <1>2 DEF Spawn, TakeSlot, Slots
    <2> QED BY <2>1 DEF Inductive, TypeOK
  <1>5. PICK n \in Nat : n = Len(frames[t]) /\ n \in 1 .. n /\ DOMAIN frames[t] = 1 .. n /\ frames[t] \in Seq(Frame)
                         /\ Top(t) = frames[t][n]
    <2>1. Len(frames[t]) \in Nat \ {0} /\ DOMAIN frames[t] = 1 .. Len(frames[t]) /\ Top(t) = frames[t][Len(frames[t])]
          /\ Len(frames[t]) \in DOMAIN frames[t]
      BY <1>0, TopIs DEF Inductive
    <2>2. frames[t] \in Seq(Frame)
      BY FramesTyped DEF Inductive
    <2> QED BY <2>1, <2>2
  <1>6. PICK z \in Frame : /\ z = [frames[t][n] EXCEPT !.phase = "build", !.child = k]
                           /\ z.slot = s /\ z.phase = "build" /\ z.child = k
    <2>1. frames[t][n] \in Frame /\ frames[t][n].slot = s
      BY <1>1, <1>5
    <2>2. [frames[t][n] EXCEPT !.phase = "build", !.child = k] \in Frame
      BY <2>1 DEF Frame, Phases
    <2> QED BY <2>1, <2>2 DEF Frame
  <1>7. /\ frames' \in [Threads -> Seq(Frame)] /\ Len(frames'[t]) = n /\ DOMAIN frames'[t] = 1 .. n
        /\ \A i \in 1 .. n : frames'[t][i] = IF i = n THEN z ELSE frames[t][i]
        /\ \A u \in Threads : u # t => frames'[u] = frames[u]
    <2>1. frames' = [frames EXCEPT ![t][n] = [frames[t][n] EXCEPT !.phase = "build", !.child = k]]
      BY <1>5 DEF Spawn, Inductive, TypeOK
    <2>4. frames' = [frames EXCEPT ![t][n] = z]
      BY <1>6, <2>1
    <2>5. frames \in [Threads -> Seq(Frame)]
      BY DEF Inductive, TypeOK, Frame
    <2> DEFINE g == [frames[t] EXCEPT ![n] = z]
    <2>6. g \in Seq(Frame) /\ Len(g) = n /\ DOMAIN g = 1 .. n /\ \A i \in 1 .. n : g[i] = IF i = n THEN z ELSE frames[t][i]
      BY <1>5
    <2>7. frames' = [frames EXCEPT ![t] = g]
      BY <2>4, <2>5
    <2> HIDE DEF g
    <2>8. frames'[t] = g
      BY <2>5, <2>7
    <2> QED BY <2>5, <2>6, <2>7, <2>8
  <1>8. Running(t)' /\ Top(t)' = z /\ \A q : Phase(t, q)' <=> q = "build"
    <2>1. Running(t)'
      BY <1>5, <1>7 DEF Running
    <2>2. Top(t)' = z
      BY <1>5, <1>7 DEF Top
    <2> QED BY <1>6, <2>1, <2>2 DEF Phase
  <1>9. \A u \in Threads : u # t => Top(u)' = Top(u) /\ (Running(u)' <=> Running(u)) /\ \A q : Phase(u, q)' <=> Phase(u, q)
    BY <1>7 DEF Running, Top, Phase
  <1>10. \A u \in Threads : TaskOf(u)' = TaskOf(u)
    <2> SUFFICES ASSUME NEW u \in Threads PROVE TaskOf(u)' = TaskOf(u)
      OBVIOUS
    <2>1. CASE u = t
      BY <1>0, <1>1, <1>6, <1>8, <2>1 DEF TaskOf
    <2>2. CASE u # t
      BY <1>0, <1>9, <2>2 DEF TaskOf
    <2> QED BY <2>1, <2>2
  <1>11. ASSUME NEW u \in Threads
         PROVE  Live(u)' = Live(u) /\ \A r \in Slots : (Signalled(u, r)' <=> Signalled(u, r)) /\ (Busy(u, r)' <=> Busy(u, r))
    <2>1. CASE u # t
      BY <1>3, <1>7, <1>9, <2>1 DEF Live, Signalled, Busy, Calls
    <2>2. CASE u = t
      <3>1. Live(t)' = Live(t)
        <4>1. ~Phase(t, "build") /\ Phase(t, "build")'
          BY <1>0, <1>8 DEF Phase
        <4>2. \A r \in Slots : r < r0 + 1 /\ ~(r = r0) <=> r < r0
          BY DEF Slots
        <4>3. (r0 + 1) - 1 = r0
          BY DEF Slots
        <4> QED BY <1>2, <1>3, <4>1, <4>2, <4>3 DEF Live
      <3>2. \A r : Calls(t, r)' = Calls(t, r)
        <4>1. \A i \in 1 .. n : frames'[t][i].slot = frames[t][i].slot
          BY <1>1, <1>5, <1>6, <1>7
        <4>2. DOMAIN frames'[t] = DOMAIN frames[t]
          BY <1>5, <1>7
        <4> QED BY <1>5, <4>1, <4>2 DEF Calls
      <3>3. \A i \in 1 .. n : frames'[t][i].phase = IF i = n THEN "build" ELSE frames[t][i].phase
        BY <1>6, <1>7
      <3>4. frames[t][n].phase = "spawn"
        BY <1>0, <1>5
      <3>5. \A r : Calls(t, r) \subseteq 1 .. n
        BY <1>5 DEF Calls
      <3>6. \A r \in Slots : (Signalled(t, r)' <=> Signalled(t, r)) /\ (Busy(t, r)' <=> Busy(t, r))
        BY <3>2, <3>3, <3>4, <3>5 DEF Signalled, Busy, Inside
      <3> QED BY <2>2, <3>1, <3>6
    <2> QED BY <2>1, <2>2
  <1>12. StacksKept' /\ Grounded' /\ DependenciesCount'
    BY <1>0, <1>11, ViewSame DEF Inductive
  <1>13. FramesNested'
    <2>1. ASSUME NEW u \in Threads, NEW i \in DOMAIN frames'[u]
          PROVE  /\ frames'[u][i].slot < right'[u]
                 /\ frames'[u][i].phase # "start" => tasks'[u][frames'[u][i].slot].state = DONE
                 /\ i < Len(frames'[u]) => frames'[u][i].phase \in {"wait", "local"}
                 /\ \A j \in DOMAIN frames'[u] : i < j => frames'[u][i].slot < frames'[u][j].slot
      <3>1. CASE u # t
        BY <1>0, <1>3, <1>7, <3>1 DEF Inductive, FramesNested
      <3>2. CASE u = t
        <4>1. i \in 1 .. n /\ i \in DOMAIN frames[t]
          BY <1>5, <1>7, <3>2
        <4>2. \A j \in 1 .. n : frames'[t][j].slot = frames[t][j].slot /\ (j # n => frames'[t][j].phase = frames[t][j].phase)
          BY <1>1, <1>5, <1>6, <1>7
        <4>3. \A j \in 1 .. n : i < j => frames[t][i].slot < frames[t][j].slot
          BY <1>5, <4>1 DEF Inductive, FramesNested
        <4>4. frames[t][i].phase # "start" => tasks[t][frames[t][i].slot].state = DONE
          BY <4>1 DEF Inductive, FramesNested
        <4>5. i < n => frames[t][i].phase \in {"wait", "local"}
          BY <1>5, <4>1 DEF Inductive, FramesNested
        <4>6. frames[t][i].slot < right[t] /\ frames[t][i].slot \in Slots
          BY <4>1, FramesTyped DEF Inductive, FramesNested
        <4>7. frames[t][i].slot < r0 + 1
          BY <1>2, <4>6 DEF Slots
        <4>8. frames[t][n].phase # "start"
          BY <1>0, <1>5
        <4>9. frames'[t][i].phase # "start" => frames[t][i].phase # "start"
          BY <4>1, <4>2, <4>8
        <4>10. i < n => i # n
          BY <4>1
        <4> QED BY <1>0, <1>3, <1>7, <3>2, <4>1, <4>2, <4>3, <4>4, <4>5, <4>7, <4>9, <4>10
      <3> QED BY <3>1, <3>2
    <2>2. ASSUME NEW u \in Threads
          PROVE  /\ Running(u)' /\ Top(u)'.phase \notin {"spawn", "build", "wait", "local"} => Top(u)'.slot = right'[u] - 1
                 /\ Phase(u, "build")' => Top(u)'.slot < right'[u] - 1 /\ Top(u)'.child \in ChildrenOf(TaskOf(u).task)'
                 /\ Phase(u, "pop")' => TaskOf(u)'.dependencies = 0
                 /\ Running(u)' => mode'[u] \in {"work", "body"}
                 /\ right'[u] > 0 => mode'[u] \in {"announce", "add", "work", "steal", "body"}
                 /\ mode'[u] = "steal" => right'[u] = 1
      <3>1. CASE u # t
        BY <1>0, <1>3, <1>9, <1>10, <3>1 DEF Inductive, FramesNested, ChildrenOf
      <3>2. CASE u = t
        <4>1. mode[t] \in {"work", "body"}
          BY <1>0 DEF Inductive, FramesNested
        <4>2. (r0 + 1) - 1 = r0 /\ s < r0
          BY <1>1, <1>2 DEF Slots
        <4>3. Top(t)'.slot < right'[t] - 1 /\ Top(t)'.child = k
          BY <1>3, <1>6, <1>8, <4>2
        <4>4. k \in ChildrenOf(TaskOf(t).task)'
          BY <1>0, <1>10 DEF ChildrenOf
        <4> QED BY <1>0, <1>8, <1>6, <3>2, <4>1, <4>3, <4>4
      <3> QED BY <3>1, <3>2
    <2> QED BY <2>1, <2>2 DEF FramesNested
  <1>14. thief[t] = NotStealing
    BY <1>0 DEF Inductive, ThreadsCounted, Phase
  <1>15. ThreadsCounted' /\ ThreadsAlive'
    <2>2. \A u \in Threads : thief[u] # NotStealing => Phase(u, "join")' \/ (~Running(u)' /\ mode[u] = "loop")
      BY <1>9, <1>14 DEF Inductive, ThreadsCounted
    <2> QED BY <1>0, <2>2, LifeSame DEF Inductive
  <1>16. TypeOK'
    BY <1>0, <1>4, <1>7 DEF Inductive, TypeOK, Frame
  <1>17. ASSUME NEW u \in Threads, NEW r \in Slots, NEW j \in Tasks
         PROVE  /\ Pending(u, r, j)' <=> Pending(u, r, j) \/ (u = t /\ r = r0 /\ j = k)
                /\ Original(u, r, j)' <=> Original(u, r, j) \/ (u = t /\ r = r0 /\ j = k)
                /\ Queued(u, r, j)' <=> Queued(u, r, j) \/ (u = t /\ r = r0 /\ j = k)
    <2>1. CASE u # t
      BY <1>0, <1>3, <1>9, <1>11, <2>1 DEF Pending, Original, Queued
    <2>2. CASE u = t
      <3>1. ~Phase(t, "build") /\ ~Phase(t, "execute") /\ Phase(t, "build")' /\ ~Phase(t, "execute")'
        BY <1>0, <1>8 DEF Phase
      <3>2. right'[t] - 1 = r0 /\ Top(t)'.child = k
        BY <1>3, <1>6, <1>8 DEF Slots
      <3> QED BY <1>0, <1>11, <2>2, <3>1, <3>2 DEF Pending, Original, Queued
    <2> QED BY <2>1, <2>2
  <1>18. spawned # {} /\ mode[Root] \notin {"out", "push"}
    <2>1. mode[t] \in {"work", "body"}
      BY <1>0 DEF Inductive, FramesNested
    <2>2. mode[Root] \notin {"out", "push"}
      BY <2>1 DEF Inductive, ThreadsCounted, Threads, Pool
    <2> QED BY <2>2 DEF Inductive, OnePlace
  <1>19. OnePlace'
    <2>1. \A u \in Threads, r \in Slots : ~Pending(u, r, k) /\ ~Original(u, r, k)
      BY <1>0 DEF Inductive, OnePlace
    <2>2. executed[k] = 0
      BY <1>0 DEF Inductive, OnePlace
    <2>3. ASSUME NEW j \in Tasks, NEW u \in Threads, NEW v \in Threads, NEW q \in Slots, NEW r \in Slots
          PROVE  /\ Pending(u, q, j)' => j \in spawned' /\ executed'[j] = 0
                 /\ Original(u, q, j)' => j \in spawned'
                 /\ Pending(u, q, j)' /\ Pending(v, r, j)' => u = v /\ q = r
                 /\ Original(u, q, j)' /\ Original(v, r, j)' => u = v /\ q = r
      <3>1. CASE j = k
        BY <1>0, <1>17, <2>1, <2>2, <3>1
      <3>2. CASE j # k
        <4>1. /\ Pending(u, q, j)' <=> Pending(u, q, j)
              /\ Pending(v, r, j)' <=> Pending(v, r, j)
              /\ Original(u, q, j)' <=> Original(u, q, j)
              /\ Original(v, r, j)' <=> Original(v, r, j)
          BY <1>17, <3>2
        <4> QED BY <1>0, <4>1 DEF Inductive, OnePlace
      <3> QED BY <3>1, <3>2
    <2>4. \A j \in Tasks : executed'[j] <= 1 /\ (j \notin spawned' => executed'[j] = 0)
      BY <1>0 DEF Inductive, OnePlace
    <2>5. RootTask \in spawned' /\ spawned' # {} /\ mode'[Root] \notin {"out", "push"}
      BY <1>0, <1>18 DEF Inductive, OnePlace
    <2> QED BY <2>3, <2>4, <2>5 DEF OnePlace
  <1>20. NoneSkipped'
    <2> SUFFICES ASSUME mode[Root] # "returned", cancellingException = Nobody, NEW j \in spawned'
                 PROVE  (IF executed[j] = 0 THEN \E u \in Threads, r \in Slots : Pending(u, r, j)
                         ELSE \/ ChildrenOf(j) \subseteq spawned
                              \/ \E u \in Threads : /\ Running(u) /\ Top(u).phase \in {"spawn", "build", "throw"}
                                                    /\ TaskOf(u).task = j)'
      BY <1>0 DEF NoneSkipped
    <2>1. CASE j = k
      <3>1. executed'[k] = 0
        BY <1>0 DEF Inductive, OnePlace
      <3>2. Pending(t, r0, k)'
        BY <1>17
      <3> QED BY <2>1, <3>1, <3>2
    <2>2. CASE j # k
      <3>1. j \in spawned /\ j \in Tasks
        BY <1>0, <2>2 DEF Inductive, TypeOK
      <3>2. IF executed[j] = 0 THEN \E u \in Threads, r \in Slots : Pending(u, r, j)
            ELSE \/ ChildrenOf(j) \subseteq spawned
                 \/ \E u \in Threads : /\ Running(u) /\ Top(u).phase \in {"spawn", "build", "throw"}
                                       /\ TaskOf(u).task = j
        BY <3>1 DEF Inductive, NoneSkipped
      <3>3. CASE executed[j] = 0
        BY <1>0, <1>17, <3>1, <3>2, <3>3
      <3>4. CASE executed[j] # 0 /\ ChildrenOf(j) \subseteq spawned
        BY <1>0, <3>4 DEF ChildrenOf
      <3>5. CASE executed[j] # 0 /\ \E u \in Threads : /\ Running(u) /\ Top(u).phase \in {"spawn", "build", "throw"}
                                                       /\ TaskOf(u).task = j
        <4>1. PICK u \in Threads : Running(u) /\ Top(u).phase \in {"spawn", "build", "throw"} /\ TaskOf(u).task = j
          BY <3>5
        <4>2. Running(u)' /\ Top(u)'.phase \in {"spawn", "build", "throw"} /\ TaskOf(u)'.task = j
          BY <1>6, <1>8, <1>9, <1>10, <4>1
        <4> QED BY <1>0, <3>5, <4>2
      <3> QED BY <3>2, <3>3, <3>4, <3>5
    <2> QED BY <2>1, <2>2
  <1>21. mode[Root] \notin AfterWork
    BY <1>0, StillWorking DEF Phase
  <1>22. RootOutlasts' /\ ExceptionReachesRoot'
    BY <1>0, <1>21 DEF Inductive, RootOutlasts, ExceptionReachesRoot, AfterWork
  <1>23. BegunKept
    <2> SUFFICES ASSUME NEW u \in Threads, Running(u)', Top(u)'.phase \in {"spawn", "build"}
                 PROVE  Running(u) /\ Top(u).phase \in {"spawn", "build"} /\ TaskOf(u)'.task = TaskOf(u).task
      BY <1>0 DEF BegunKept
    <2> QED BY <1>0, <1>9, <1>10
  <1>24. SpawnedOne(k)
    BY <1>0, <1>17, <1>23 DEF SpawnedOne, Waiting, Known, Seen
  <1> QED BY <1>12, <1>13, <1>15, <1>16, <1>19, <1>20, <1>22, <1>24 DEF Inductive

\* A step that builds the task x in slot r0 on top of thread t: it waits there to be run, and the
\* task it points to counts it from now on.
SlotGained(t, r0, x) ==
    /\ \A u \in Threads, r \in Slots : /\ r \in Live(u)' <=> r \in Live(u) \/ (u = t /\ r = r0)
                                       /\ Signalled(u, r)' <=> Signalled(u, r)
    /\ r0 \notin Live(t) /\ (\A r \in Live(t) : r < r0) /\ ~Signalled(t, r0)
    /\ tasks'[t][r0] = x /\ x.state = INITIALIZED /\ x.dependencies = 1
    /\ \A u \in Threads, r \in Slots : ~(u = t /\ r = r0) =>
           /\ tasks'[u][r].task = tasks[u][r].task /\ tasks'[u][r].stealable = tasks[u][r].stealable
           /\ tasks'[u][r].parent = tasks[u][r].parent
           /\ tasks[u][r].state = DONE => tasks'[u][r].state = DONE
    /\ \A u \in Threads : \A r \in Live(u) :
           tasks'[u][r].dependencies + (IF Own(u, r) THEN 1 ELSE 0)
               = tasks[u][r].dependencies + (IF Own(u, r)' THEN 1 ELSE 0)
                 + (IF x.parent = [thread |-> u, slot |-> r] THEN 1 ELSE 0)
    /\ x.task \in Tasks
    /\ x.parent = NoParent => t = Root /\ r0 = 0 /\ x.stealable /\ x.task = RootTask
    /\ x.parent # NoParent =>
           /\ <<x.parent.thread, x.parent.slot>> \in Unfinished
           /\ x.stealable => x.parent.thread = t /\ x.task \in ChildrenOf(tasks[t][x.parent.slot].task)
           /\ ~x.stealable => tasks[x.parent.thread][x.parent.slot].task = x.task

LEMMA SlotAdded ==
    ASSUME TypeOK, FramesNested, StacksKept, Grounded, DependenciesCount, tasks' \in Stacks,
           NEW t \in Threads, NEW r0 \in Slots, NEW x \in TaskRecord, SlotGained(t, r0, x)
    PROVE  StacksKept' /\ Grounded' /\ DependenciesCount'
  <1>a. \A u \in Threads, r \in Slots : /\ r \in Live(u)' <=> r \in Live(u) \/ (u = t /\ r = r0)
                                        /\ Signalled(u, r)' <=> Signalled(u, r)
    BY DEF SlotGained
  <1>b. r0 \notin Live(t) /\ (\A r \in Live(t) : r < r0) /\ ~Signalled(t, r0)
        /\ tasks'[t][r0] = x /\ x.state = INITIALIZED /\ x.dependencies = 1
    BY DEF SlotGained
  <1>c. \A u \in Threads, r \in Slots : ~(u = t /\ r = r0) =>
           /\ tasks'[u][r].task = tasks[u][r].task /\ tasks'[u][r].stealable = tasks[u][r].stealable
           /\ tasks'[u][r].parent = tasks[u][r].parent
           /\ tasks[u][r].state = DONE => tasks'[u][r].state = DONE
    BY DEF SlotGained
  <1>e. /\ x.task \in Tasks
        /\ x.parent = NoParent => t = Root /\ r0 = 0 /\ x.stealable /\ x.task = RootTask
        /\ x.parent # NoParent =>
               /\ <<x.parent.thread, x.parent.slot>> \in Unfinished
               /\ x.stealable => x.parent.thread = t /\ x.task \in ChildrenOf(tasks[t][x.parent.slot].task)
               /\ ~x.stealable => tasks[x.parent.thread][x.parent.slot].task = x.task
    BY DEF SlotGained
  <1>0. PICK d \in Threads \X Slots : d = <<t, r0>> /\ d[1] = t /\ d[2] = r0
    <2>1. <<t, r0>> \in Threads \X Slots /\ <<t, r0>>[1] = t /\ <<t, r0>>[2] = r0
      OBVIOUS
    <2> QED BY <2>1
  <1>1. Unfinished' = Unfinished \union {d} /\ d \notin Unfinished
    <2>1. \A c \in Threads \X Slots : c \in Unfinished' <=> c \in Unfinished \/ c = d
      <3> SUFFICES ASSUME NEW u \in Threads, NEW r \in Slots
                   PROVE  r \in Live(u)' /\ ~Signalled(u, r)' <=> (r \in Live(u) /\ ~Signalled(u, r)) \/ (u = t /\ r = r0)
        BY <1>0 DEF Unfinished
      <3> QED BY <1>a, <1>b
    <2> QED BY <1>0, <1>b, <2>1 DEF Unfinished
  <1>2. \A u \in Threads : Nobody # u
    BY DEF Threads
  <1>3. \A c \in Unfinished : /\ c[1] \in Threads /\ c[2] \in Slots /\ c[2] \in Live(c[1]) /\ ~(c[1] = t /\ c[2] = r0)
                              /\ tasks'[c[1]][c[2]].parent = tasks[c[1]][c[2]].parent
                              /\ ParentOf(c)' = ParentOf(c) /\ ParentOf(c) # d
    <2> SUFFICES ASSUME NEW c \in Unfinished
                 PROVE  /\ c[1] \in Threads /\ c[2] \in Slots /\ c[2] \in Live(c[1]) /\ ~(c[1] = t /\ c[2] = r0)
                        /\ tasks'[c[1]][c[2]].parent = tasks[c[1]][c[2]].parent
                        /\ ParentOf(c)' = ParentOf(c) /\ ParentOf(c) # d
      OBVIOUS
    <2>1. c[1] \in Threads /\ c[2] \in Slots /\ c[2] \in Live(c[1]) /\ ~(c[1] = t /\ c[2] = r0)
      BY <1>b DEF Unfinished
    <2>2. tasks'[c[1]][c[2]].parent = tasks[c[1]][c[2]].parent
      BY <1>c, <2>1
    <2>3. ParentOf(c)' = ParentOf(c)
      BY <2>2 DEF ParentOf
    <2>4. CASE tasks[c[1]][c[2]].parent = NoParent
      BY <1>0, <1>2, <2>1, <2>2, <2>3, <2>4 DEF ParentOf, NoParent
    <2>5. CASE tasks[c[1]][c[2]].parent # NoParent
      <3>1. ParentOf(c) \in Unfinished
        BY <2>5, ParentUnfinished
      <3> QED BY <1>1, <2>1, <2>2, <2>3, <3>1
    <2> QED BY <2>4, <2>5
  <1>4. ParentOf(d)' = <<x.parent.thread, x.parent.slot>> /\ ParentOf(d)' # d
    <2>1. ParentOf(d)' = <<x.parent.thread, x.parent.slot>>
      BY <1>0, <1>b DEF ParentOf
    <2>2. CASE x.parent = NoParent
      BY <1>0, <1>2, <2>1, <2>2 DEF NoParent
    <2>3. CASE x.parent # NoParent
      BY <1>1, <1>e, <2>1, <2>3
    <2> QED BY <2>1, <2>2, <2>3
  <1>5. Grounded'
    <2> SUFFICES ASSUME NEW S \in SUBSET (Unfinished'), S # {} PROVE \E c \in S : ParentOf(c)' \notin S
      BY DEF Grounded
    <2>1. CASE S \subseteq {d}
      BY <1>4, <2>1
    <2>2. CASE ~(S \subseteq {d})
      <3>1. S \ {d} \in SUBSET Unfinished /\ S \ {d} # {}
        BY <1>1, <2>2
      <3>2. PICK c \in S \ {d} : ParentOf(c) \notin S \ {d}
        BY <3>1 DEF Grounded
      <3> QED BY <1>3, <3>1, <3>2
    <2> QED BY <2>1, <2>2
  <1>6. \A u \in Threads, r \in Slots :
            Waited(u, r)' = Waited(u, r) \union (IF x.parent = [thread |-> u, slot |-> r] THEN {d} ELSE {})
    <2> SUFFICES ASSUME NEW u \in Threads, NEW r \in Slots
                 PROVE  Waited(u, r)' = Waited(u, r) \union (IF x.parent = [thread |-> u, slot |-> r] THEN {d} ELSE {})
      OBVIOUS
    <2>1. \A c \in Unfinished : c \in Waited(u, r)' <=> c \in Waited(u, r)
      BY <1>1, <1>3 DEF Waited
    <2>2. d \in Waited(u, r)' <=> x.parent = [thread |-> u, slot |-> r]
      BY <1>0, <1>1, <1>b DEF Waited
    <2>3. Waited(u, r) \subseteq Unfinished /\ Waited(u, r)' \subseteq Unfinished \union {d}
      BY <1>1 DEF Waited
    <2> QED BY <2>1, <2>2, <2>3
  <1>7. x.parent = [thread |-> x.parent.thread, slot |-> x.parent.slot]
        /\ x.parent \in [thread : Threads \union {Nobody}, slot : Slots]
    <2>1. x.parent \in [thread : Threads \union {Nobody}, slot : Slots]
      BY DEF TaskRecord
    <2> QED BY <2>1
  <1>8. x.parent # NoParent => x.parent.thread \in Threads /\ x.parent.slot \in Live(x.parent.thread)
                              /\ x.parent.slot \in Slots /\ x.parent # [thread |-> t, slot |-> r0]
    <2> SUFFICES ASSUME x.parent # NoParent
                 PROVE  x.parent.thread \in Threads /\ x.parent.slot \in Live(x.parent.thread)
                        /\ x.parent.slot \in Slots /\ x.parent # [thread |-> t, slot |-> r0]
      OBVIOUS
    <2>1. x.parent.thread \in Threads /\ x.parent.slot \in Live(x.parent.thread) /\ x.parent.slot \in Slots
      BY <1>e DEF Unfinished
    <2>2. ASSUME x.parent = [thread |-> t, slot |-> r0] PROVE FALSE
      <3>1. x.parent.thread = t /\ x.parent.slot = r0
        BY <2>2
      <3> QED BY <1>b, <2>1, <3>1
    <2> QED BY <2>1, <2>2
  <1>9. Waited(t, r0)' = {}
    <2>1. \A c \in Unfinished : c \notin Waited(t, r0)
      <3> SUFFICES ASSUME NEW c \in Unfinished, tasks[c[1]][c[2]].parent = [thread |-> t, slot |-> r0] PROVE FALSE
        BY DEF Waited
      <3>1. ParentOf(c) = d
        BY <1>0 DEF ParentOf
      <3> QED BY <1>3, <3>1
    <2>2. Waited(t, r0) = {}
      BY <2>1 DEF Waited
    <2>3. x.parent # [thread |-> t, slot |-> r0]
      <3>1. [thread |-> t, slot |-> r0] # NoParent
        BY <1>2 DEF NoParent
      <3> QED BY <1>8, <3>1
    <2> QED BY <1>6, <2>2, <2>3
  <1>10. AllCounted'
    <2> SUFFICES ASSUME NEW u \in Threads, NEW r \in Live(u)' PROVE Counted(u, r)'
      BY DEF AllCounted
    <2>1. r \in Slots
      BY DEF Live
    <2>2. CASE u = t /\ r = r0
      <3>1. Cardinality(Waited(t, r0))' = 0
        BY <1>9, FS_EmptySet
      <3>2. Own(t, r0)'
        BY <1>b DEF Own
      <3>3. (tasks[u][r].dependencies = Cardinality(Waited(u, r)) + IF Own(u, r) THEN 1 ELSE 0)'
        BY <1>b, <2>2, <3>1, <3>2
      <3>4. x.parent # NoParent => x.parent.slot \in Live(x.parent.thread)'
        BY <1>8, <1>a
      <3> QED BY <1>b, <2>2, <3>3, <3>4 DEF Counted
    <2>3. CASE ~(u = t /\ r = r0)
      <3>1. r \in Live(u) /\ <<u, r>> \in Threads \X Slots
        BY <1>a, <2>1, <2>3
      <3>2. tasks[u][r].dependencies = Cardinality(Waited(u, r)) + IF Own(u, r) THEN 1 ELSE 0
        BY <3>1, CountIs
      <3>3. IsFiniteSet(Waited(u, r)) /\ Cardinality(Waited(u, r)) \in Nat
        BY PlacesFinite DEF Waited, Unfinished
      <3>4. d \notin Waited(u, r)
        BY <1>1 DEF Waited
      <3>5. Cardinality(Waited(u, r))' = Cardinality(Waited(u, r)) + IF x.parent = [thread |-> u, slot |-> r] THEN 1 ELSE 0
        <4>1. CASE x.parent = [thread |-> u, slot |-> r]
          <5>1. Waited(u, r)' = Waited(u, r) \union {d}
            BY <1>6, <2>1, <4>1
          <5>2. Cardinality(Waited(u, r) \union {d}) = Cardinality(Waited(u, r)) + 1
            BY <3>3, <3>4, FS_AddElement
          <5> QED BY <4>1, <5>1, <5>2
        <4>2. CASE x.parent # [thread |-> u, slot |-> r]
          <5>0. (IF x.parent = [thread |-> u, slot |-> r] THEN {d} ELSE {}) = {}
            BY <4>2
          <5>1. Waited(u, r)' = Waited(u, r) \union (IF x.parent = [thread |-> u, slot |-> r] THEN {d} ELSE {})
            BY <1>6, <2>1
          <5>2. Waited(u, r)' = Waited(u, r)
            BY <5>0, <5>1
          <5> QED BY <3>3, <4>2, <5>2
        <4> QED BY <4>1, <4>2
      <3>6. tasks'[u][r].dependencies + (IF Own(u, r) THEN 1 ELSE 0)
                      = tasks[u][r].dependencies + (IF Own(u, r)' THEN 1 ELSE 0)
                        + (IF x.parent = [thread |-> u, slot |-> r] THEN 1 ELSE 0)
        BY <3>1 DEF SlotGained
      <3>7. tasks'[u][r].dependencies \in Nat
        BY <2>1 DEF Stacks, TaskRecord
      <3>8. tasks'[u][r].dependencies = Cardinality(Waited(u, r))' + IF Own(u, r)' THEN 1 ELSE 0
        <4> DEFINE m == Cardinality(Waited(u, r))
                   m2 == Cardinality(Waited(u, r))'
                   e == tasks[u][r].dependencies
                   e2 == tasks'[u][r].dependencies
                   w == IF x.parent = [thread |-> u, slot |-> r] THEN 1 ELSE 0
                   o == IF Own(u, r) THEN 1 ELSE 0
                   o2 == IF Own(u, r)' THEN 1 ELSE 0
        <4>1. e = m + o /\ m \in Nat /\ m2 = m + w /\ e2 + o = e + o2 + w /\ e2 \in Nat /\ w \in {0, 1} /\ o \in {0, 1} /\ o2 \in {0, 1}
          BY <3>2, <3>3, <3>5, <3>6, <3>7
        <4> HIDE DEF m, m2, e, e2, w, o, o2
        <4>2. e2 = m2 + o2
          BY <4>1
        <4> QED BY <4>2 DEF m2, e2, o2
      <3>9. tasks[u][r].parent # NoParent =>
                /\ tasks[u][r].parent.thread \in Threads /\ tasks[u][r].parent.slot \in Slots
                /\ tasks[u][r].parent.slot \in Live(tasks[u][r].parent.thread) \/ Signalled(u, r)
        <4>1. SlotKept(u, r)
          BY <3>1, OnStack
        <4>2. tasks[u][r].parent.slot \in Slots
          BY <2>1 DEF TypeOK
        <4> QED BY <3>1, <4>1, <4>2, CountIs DEF SlotKept
      <3>10. (tasks[u][r].parent # NoParent => \/ tasks[u][r].parent.slot \in Live(tasks[u][r].parent.thread)
                                               \/ Signalled(u, r))'
        BY <1>a, <1>c, <2>1, <2>3, <3>9
      <3> QED BY <3>8, <3>10 DEF Counted
    <2> QED BY <2>2, <2>3
  <1>11. DependenciesCount'
    BY <1>10, AllCountedIs, PTL
  <1>12. StacksKept'
    <2> SUFFICES ASSUME NEW u \in Threads, NEW r \in Slots PROVE SlotKept(u, r)'
      BY DEF StacksKept
    <2>1. CASE u = t /\ r = r0
      <3>1. x.parent # NoParent =>
                /\ tasks'[x.parent.thread][x.parent.slot].task = tasks[x.parent.thread][x.parent.slot].task
                /\ x.parent.slot \in Live(x.parent.thread)'
        <4>1. ASSUME x.parent # NoParent PROVE ~(x.parent.thread = t /\ x.parent.slot = r0)
          BY <1>7, <1>8, <4>1
        <4> QED BY <1>8, <1>a, <1>c, <4>1
      <3>2. x.parent # NoParent /\ x.stealable => x.parent.slot < r0
        BY <1>8, <1>b, <1>e
      <3>3. tasks'[u][r] = x /\ u = t /\ r = r0 /\ r \in Live(u)' /\ ~Signalled(u, r)'
        BY <1>a, <1>b, <2>1
      <3>4. x.stealable \/ x.parent # NoParent
        BY <1>e
      <3>5. x.parent # NoParent /\ x.stealable => x.task \in ChildrenOf(tasks'[t][x.parent.slot].task)
        BY <1>8, <1>e, <3>1
      <3>6. x.parent # NoParent => x.parent # [thread |-> t, slot |-> r0] /\ x.parent.thread \in Threads
        BY <1>8
      <3>7. ~x.stealable => tasks'[x.parent.thread][x.parent.slot].task = x.task
        BY <1>e, <3>1, <3>4
      <3> QED BY <1>b, <1>e, <3>1, <3>2, <3>3, <3>4, <3>5, <3>6, <3>7 DEF SlotKept, ChildrenOf
    <2>2. CASE ~(u = t /\ r = r0)
      <3>1. SlotKept(u, r)
        BY DEF StacksKept
      <3>2. /\ tasks'[u][r].task = tasks[u][r].task /\ tasks'[u][r].stealable = tasks[u][r].stealable
            /\ tasks'[u][r].parent = tasks[u][r].parent
            /\ tasks[u][r].state = DONE => tasks'[u][r].state = DONE
            /\ r \in Live(u)' <=> r \in Live(u)
            /\ Signalled(u, r)' <=> Signalled(u, r)
        BY <1>a, <1>c, <2>2
      <3>3. CASE r \notin Live(u)
        BY <3>1, <3>2, <3>3 DEF SlotKept
      <3>4. CASE r \in Live(u) /\ tasks[u][r].parent = NoParent
        BY <3>1, <3>2, <3>4 DEF SlotKept
      <3>5. CASE r \in Live(u) /\ tasks[u][r].parent # NoParent
        <4>0. PICK p \in [thread : Threads \union {Nobody}, slot : Slots] : p = tasks[u][r].parent
          <5>1. tasks[u][r] \in TaskRecord
            BY TasksTyped DEF Stacks
          <5> QED BY <5>1 DEF TaskRecord
        <4>1. /\ p.thread \in Threads /\ p.slot \in Slots /\ tasks[u][r].task \in Tasks
              /\ tasks[u][r].stealable =>
                     p.thread = u /\ p.slot < r /\ tasks[u][r].task \in ChildrenOf(tasks[u][p.slot].task)
              /\ ~tasks[u][r].stealable /\ ~Signalled(u, r) =>
                     /\ p.slot \in Live(p.thread) /\ p # [thread |-> u, slot |-> r]
                     /\ tasks[p.thread][p.slot].task = tasks[u][r].task
          BY <3>1, <3>5, <4>0 DEF SlotKept
        <4>2. tasks'[u][r].parent = p
          BY <3>2, <4>0
        <4>3. p # NoParent
          BY <3>5, <4>0
        <4>4. tasks[u][r].stealable => tasks'[u][p.slot].task = tasks[u][p.slot].task
          <5>1. ASSUME tasks[u][r].stealable PROVE ~(u = t /\ p.slot = r0)
            BY <1>b, <3>5, <4>1, <5>1 DEF Slots
          <5> QED BY <1>c, <4>1, <5>1
        <4>5. ~tasks[u][r].stealable /\ ~Signalled(u, r) =>
                  /\ p.slot \in Live(p.thread)'
                  /\ tasks'[p.thread][p.slot].task = tasks[p.thread][p.slot].task
          <5> SUFFICES ASSUME ~tasks[u][r].stealable, ~Signalled(u, r)
                       PROVE  /\ p.slot \in Live(p.thread)'
                              /\ tasks'[p.thread][p.slot].task = tasks[p.thread][p.slot].task
            OBVIOUS
          <5>1. p.slot \in Live(p.thread) /\ p.thread \in Threads /\ p.slot \in Slots
            BY <4>1
          <5>2. ~(p.thread = t /\ p.slot = r0)
            BY <1>b, <5>1
          <5>3. p.slot \in Live(p.thread)'
            BY <1>a, <5>1
          <5> QED BY <1>c, <5>1, <5>2, <5>3
        <4>6. CASE tasks[u][r].stealable
          BY <3>2, <3>5, <4>1, <4>2, <4>3, <4>4, <4>6 DEF SlotKept, ChildrenOf
        <4>7. CASE ~tasks[u][r].stealable
          BY <3>2, <3>5, <4>1, <4>2, <4>3, <4>5, <4>7 DEF SlotKept, ChildrenOf
        <4> QED BY <4>6, <4>7
      <3> QED BY <3>3, <3>4, <3>5
    <2> QED BY <2>1, <2>2
  <1> QED BY <1>5, <1>11, <1>12

\* The child is built in the slot that was taken for it, and its parent counts it.
LEMMA BuildKeeps == ASSUME Inductive, NEW t \in Threads, Build(t), UNCHANGED Joiners PROVE Inductive' /\ Still
  <1> USE DEF lifeVars, workVars
  <1>0. /\ UNCHANGED <<right, mode, thief, lifeVars, workVars>> /\ SetPhase(t, "spawn")
        /\ Running(t) /\ Top(t).phase = "build" /\ Phase(t, "build")
    BY DEF Build, Phase
  <1>1. PICK s \in Slots, r0 \in Slots, k \in Tasks :
            /\ s = Top(t).slot /\ r0 = right[t] - 1 /\ s < r0 /\ k = Top(t).child /\ s \in Live(t)
            /\ k \in ChildrenOf(tasks[t][s].task) /\ tasks[t][s].state = DONE
    <2>1. Top(t).slot \in Slots /\ Top(t).slot \in Live(t) /\ Top(t).slot < right[t] - 1
          /\ Top(t).child \in ChildrenOf(TaskOf(t).task) /\ right[t] \in 0 .. TASK_STACK_SIZE
          /\ tasks[t][Top(t).slot].state = DONE
      <3>1. Top(t).slot \in Slots /\ Top(t).slot \in Live(t)
        BY <1>0, FrameTask
      <3>2. FramesNested /\ right[t] \in 0 .. TASK_STACK_SIZE
        BY DEF Inductive, TypeOK
      <3>3. Top(t).slot < right[t] - 1 /\ Top(t).child \in ChildrenOf(TaskOf(t).task)
        BY <1>0, <3>2 DEF FramesNested
      <3>4. Len(frames[t]) \in DOMAIN frames[t] /\ Top(t) = frames[t][Len(frames[t])]
        BY <1>0, TopIs DEF Inductive
      <3>5. tasks[t][Top(t).slot].state = DONE
        BY <1>0, <3>2, <3>4 DEF FramesNested
      <3> QED BY <3>1, <3>2, <3>3, <3>5
    <2>2. right[t] - 1 \in Slots
      BY <2>1 DEF Slots
    <2>3. Top(t).child \in Tasks
      BY <2>1 DEF ChildrenOf
    <2> QED BY <2>1, <2>2, <2>3 DEF TaskOf
  <1>2. PhaseMoved(t, "spawn")
    BY <1>0, PhaseSet DEF Inductive, Phases
  <1>3. tasks \in Stacks /\ tasks[t][s] \in TaskRecord
    BY TasksTyped DEF Inductive, Stacks
  <1>4. PICK P \in [thread : Threads \union {Nobody}, slot : Slots] :
            P = [thread |-> t, slot |-> s] /\ P # NoParent /\ P.thread = t /\ P.slot = s
    <2>1. [thread |-> t, slot |-> s] \in [thread : Threads \union {Nobody}, slot : Slots]
      OBVIOUS
    <2>2. [thread |-> t, slot |-> s] # NoParent
      BY DEF NoParent, Threads
    <2> QED BY <2>1, <2>2
  <1>5. PICK x \in TaskRecord : /\ x = [task |-> k, state |-> INITIALIZED, stealable |-> TRUE, dependencies |-> 1, parent |-> P]
                                /\ x.task = k /\ x.state = INITIALIZED /\ x.stealable = TRUE /\ x.dependencies = 1
                                /\ x.parent = P
    <2>1. [task |-> k, state |-> INITIALIZED, stealable |-> TRUE, dependencies |-> 1, parent |-> P] \in TaskRecord
      BY DEF TaskRecord
    <2> QED BY <2>1
  <1>6. PICK y \in TaskRecord : /\ y = [tasks[t][s] EXCEPT !.dependencies = tasks[t][s].dependencies + 1]
                                /\ y.task = tasks[t][s].task /\ y.state = tasks[t][s].state
                                /\ y.stealable = tasks[t][s].stealable /\ y.parent = tasks[t][s].parent
                                /\ y.dependencies = tasks[t][s].dependencies + 1
    <2>1. PICK n \in Nat : n = tasks[t][s].dependencies + 1
      BY <1>3 DEF TaskRecord
    <2>2. [tasks[t][s] EXCEPT !.dependencies = n] \in TaskRecord
      BY <1>3 DEF TaskRecord
    <2> QED BY <1>3, <2>1, <2>2 DEF TaskRecord
  <1>7. PICK f \in Stacks : /\ f = AddDependencies(tasks, P, 1)
                            /\ \A u \in Threads, r \in Slots : f[u][r] = IF u = t /\ r = s THEN y ELSE tasks[u][r]
    <2> DEFINE g == [tasks EXCEPT ![t][s] = y]
    <2>1. g \in Stacks /\ \A u \in Threads, r \in Slots : g[u][r] = IF u = t /\ r = s THEN y ELSE tasks[u][r]
      BY <1>3, SlotWritten
    <2>2. AddDependencies(tasks, P, 1) = g
      BY <1>3, <1>4, <1>6 DEF AddDependencies, Stacks
    <2> QED BY <2>1, <2>2
  <1>8. /\ tasks' \in Stacks
        /\ \A u \in Threads, r \in Slots :
               tasks'[u][r] = IF u = t /\ r = r0 THEN x ELSE IF u = t /\ r = s THEN y ELSE tasks[u][r]
    <2> DEFINE g == [f EXCEPT ![t][r0] = x]
    <2>1. g \in Stacks /\ \A u \in Threads, r \in Slots : g[u][r] = IF u = t /\ r = r0 THEN x ELSE f[u][r]
      BY SlotWritten
    <2>2. tasks' = g
      BY <1>0, <1>1, <1>4, <1>5, <1>7 DEF Build, BuildTask
    <2> HIDE DEF g
    <2> QED BY <1>7, <2>1, <2>2
  <1>9. left' \in [Threads -> Nat]
    <2>1. left' = [left EXCEPT ![t] = IF left[t] >= r0 THEN r0 ELSE left[t]] /\ r0 \in Nat /\ left[t] \in Nat
      BY <1>0, <1>1 DEF Build, BuildTask, Slots, Inductive, TypeOK
    <2> QED BY <2>1 DEF Inductive, TypeOK
  <1>10. r0 # s
    BY <1>1 DEF Slots
  <1>11. \A u \in Threads, r \in Slots : /\ r \in Live(u)' <=> r \in Live(u) \/ (u = t /\ r = r0)
                                         /\ Signalled(u, r)' <=> Signalled(u, r)
                                         /\ Busy(u, r)' <=> Busy(u, r)
    <2> SUFFICES ASSUME NEW u \in Threads, NEW r \in Slots
                 PROVE  /\ r \in Live(u)' <=> r \in Live(u) \/ (u = t /\ r = r0)
                        /\ Signalled(u, r)' <=> Signalled(u, r)
                        /\ Busy(u, r)' <=> Busy(u, r)
      OBVIOUS
    <2>1. CASE u # t
      BY <1>0, <1>2, <2>1 DEF PhaseMoved, Live, Signalled, Busy, Calls
    <2>2. CASE u = t
      <3>1. Phase(t, "build") /\ ~Phase(t, "build")' /\ right'[t] = right[t] /\ right[t] \in Nat
        BY <1>0, <1>2 DEF PhaseMoved, Inductive, TypeOK
      <3>2. r \in Live(t)' <=> r \in Live(t) \/ r = r0
        BY <1>1, <3>1 DEF Live
      <3>3. Top(t) = frames[t][Len(frames[t])] /\ Len(frames[t]) \in DOMAIN frames[t]
        BY <1>0, TopIs DEF Inductive
      <3>4. (Signalled(t, r)' <=> Signalled(t, r)) /\ (Busy(t, r)' <=> Busy(t, r))
        <4>1. DOMAIN frames'[t] = DOMAIN frames[t] /\ \A i \in DOMAIN frames[t] : frames'[t][i].slot = frames[t][i].slot
          BY <1>2 DEF PhaseMoved
        <4>2. Calls(t, r)' = Calls(t, r) /\ Calls(t, r) \subseteq DOMAIN frames[t]
          BY <4>1 DEF Calls
        <4>3. \A i \in DOMAIN frames[t] : frames'[t][i].phase = IF i = Len(frames[t]) THEN "spawn" ELSE frames[t][i].phase
          BY <1>2 DEF PhaseMoved
        <4>4. frames[t][Len(frames[t])].phase = "build"
          BY <1>0, <3>3
        <4>5. \A i \in DOMAIN frames[t] : /\ frames'[t][i].phase = "pop" <=> frames[t][i].phase = "pop"
                                          /\ frames'[t][i].phase \in Inside <=> frames[t][i].phase \in Inside
          BY <4>3, <4>4 DEF Inside
        <4> QED BY <4>2, <4>5 DEF Signalled, Busy
      <3> QED BY <2>2, <3>2, <3>4
    <2> QED BY <2>1, <2>2
  <1>12. r0 \notin Live(t) /\ (\A r \in Live(t) : r < r0) /\ ~Signalled(t, r0)
    <2>1. r0 \notin Live(t)
      BY <1>0, <1>1 DEF Live
    <2>2. ASSUME NEW r \in Live(t) PROVE r < r0
      <3>1. r \in Slots /\ r < right[t] /\ r # right[t] - 1 /\ right[t] \in Nat
        <4>1. right[t] \in Nat
          BY DEF Inductive, TypeOK
        <4> QED BY <1>0, <4>1 DEF Live
      <3>2. r \in Nat
        BY <3>1 DEF Slots
      <3> QED BY <1>1, <3>1, <3>2
    <2>3. ~Signalled(t, r0)
      BY <1>0, SignalledIs DEF Inductive, Phase
    <2> QED BY <2>1, <2>2, <2>3
  <1>13. \A u \in Threads, r \in Slots : ~(u = t /\ r = r0) =>
            /\ tasks'[u][r].task = tasks[u][r].task /\ tasks'[u][r].stealable = tasks[u][r].stealable
            /\ tasks'[u][r].parent = tasks[u][r].parent /\ tasks'[u][r].state = tasks[u][r].state
            /\ tasks'[u][r].dependencies = tasks[u][r].dependencies + IF u = t /\ r = s THEN 1 ELSE 0
    <2> SUFFICES ASSUME NEW u \in Threads, NEW r \in Slots, ~(u = t /\ r = r0)
                 PROVE  /\ tasks'[u][r].task = tasks[u][r].task /\ tasks'[u][r].stealable = tasks[u][r].stealable
                        /\ tasks'[u][r].parent = tasks[u][r].parent /\ tasks'[u][r].state = tasks[u][r].state
                        /\ tasks'[u][r].dependencies = tasks[u][r].dependencies + IF u = t /\ r = s THEN 1 ELSE 0
      OBVIOUS
    <2>1. tasks[u][r].dependencies \in Nat
      BY <1>3 DEF Stacks, TaskRecord
    <2>2. CASE u = t /\ r = s
      <3>1. tasks'[u][r] = y
        BY <1>8, <2>2
      <3> QED BY <1>6, <2>2, <3>1
    <2>3. CASE ~(u = t /\ r = s)
      <3>1. tasks'[u][r] = tasks[u][r]
        BY <1>8, <2>3
      <3> QED BY <2>1, <2>3, <3>1
    <2> QED BY <2>2, <2>3
  <1>14. \A u \in Threads : \A r \in Live(u) :
            tasks'[u][r].dependencies + (IF Own(u, r) THEN 1 ELSE 0)
                = tasks[u][r].dependencies + (IF Own(u, r)' THEN 1 ELSE 0)
                  + (IF x.parent = [thread |-> u, slot |-> r] THEN 1 ELSE 0)
    <2> SUFFICES ASSUME NEW u \in Threads, NEW r \in Live(u)
                 PROVE  tasks'[u][r].dependencies + (IF Own(u, r) THEN 1 ELSE 0)
                            = tasks[u][r].dependencies + (IF Own(u, r)' THEN 1 ELSE 0)
                              + (IF x.parent = [thread |-> u, slot |-> r] THEN 1 ELSE 0)
      OBVIOUS
    <2>1. r \in Slots /\ ~(u = t /\ r = r0)
      BY <1>12 DEF Live
    <2>2. Own(u, r)' <=> Own(u, r)
      BY <1>11, <1>13, <2>1 DEF Own
    <2>3. x.parent = [thread |-> u, slot |-> r] <=> u = t /\ r = s
      BY <1>4, <1>5
    <2>4. tasks[u][r].dependencies \in Nat
      BY <1>3, <2>1 DEF Stacks, TaskRecord
    <2>5. tasks'[u][r].dependencies = tasks[u][r].dependencies + IF u = t /\ r = s THEN 1 ELSE 0
      BY <1>13, <2>1
    <2> QED BY <2>2, <2>3, <2>4, <2>5
  <1>15. <<t, s>> \in Unfinished
    <2>1. ~Signalled(t, s)
      BY <1>0, SignalledIs DEF Inductive, Phase
    <2> QED BY <1>1, <2>1 DEF Unfinished
  <1>16. SlotGained(t, r0, x)
    <2>1. tasks'[t][r0] = x
      BY <1>8
    <2>2. \A u \in Threads, r \in Slots : ~(u = t /\ r = r0) =>
              /\ tasks'[u][r].task = tasks[u][r].task /\ tasks'[u][r].stealable = tasks[u][r].stealable
              /\ tasks'[u][r].parent = tasks[u][r].parent
              /\ tasks[u][r].state = DONE => tasks'[u][r].state = DONE
      BY <1>13
    <2>3. /\ x.task \in Tasks
          /\ x.parent # NoParent
          /\ <<x.parent.thread, x.parent.slot>> \in Unfinished
          /\ x.stealable /\ x.parent.thread = t /\ x.task \in ChildrenOf(tasks[t][x.parent.slot].task)
      BY <1>1, <1>4, <1>5, <1>15
    <2>4. \A u \in Threads, r \in Slots : /\ r \in Live(u)' <=> r \in Live(u) \/ (u = t /\ r = r0)
                                          /\ Signalled(u, r)' <=> Signalled(u, r)
      BY <1>11
    <2> QED BY <1>5, <1>12, <1>14, <2>1, <2>2, <2>3, <2>4 DEF SlotGained
  <1>17. StacksKept' /\ Grounded' /\ DependenciesCount'
    BY <1>8, <1>16, SlotAdded DEF Inductive
  <1>18. \A u \in Threads : Running(u) => /\ TaskOf(u)'.task = TaskOf(u).task
                                          /\ u # t => TaskOf(u)' = TaskOf(u)
    <2> SUFFICES ASSUME NEW u \in Threads, Running(u)
                 PROVE  TaskOf(u)'.task = TaskOf(u).task /\ (u # t => TaskOf(u)' = TaskOf(u))
      OBVIOUS
    <2>1. Top(u).slot \in Slots
      BY FrameTask
    <2>2. CASE u = t
      <3>1. Top(t)'.slot = s
        BY <1>1, <1>2 DEF PhaseMoved
      <3>2. tasks'[t][s].task = tasks[t][s].task
        BY <1>10, <1>13
      <3> QED BY <1>1, <2>2, <3>1, <3>2 DEF TaskOf
    <2>3. CASE u # t
      <3>1. Top(u)' = Top(u)
        BY <1>2, <2>3 DEF PhaseMoved
      <3>2. tasks'[u][Top(u).slot] = tasks[u][Top(u).slot]
        BY <1>8, <2>1, <2>3
      <3> QED BY <2>3, <3>1, <3>2 DEF TaskOf
    <2> QED BY <2>2, <2>3
  <1>19. FramesNested'
    <2>1. ASSUME NEW u \in Threads, NEW i \in DOMAIN frames[u]
          PROVE  LET r == frames[u][i].slot IN /\ tasks'[u][r].task = tasks[u][r].task
                                               /\ tasks[u][r].state = DONE => tasks'[u][r].state = DONE
      <3>1. frames[u][i].slot \in Slots /\ frames[u][i].slot \in Live(u)
        BY FramesTyped, FrameOnStack DEF Inductive
      <3>2. ~(u = t /\ frames[u][i].slot = r0)
        BY <1>12, <3>1
      <3> QED BY <1>13, <3>1, <3>2
    <2>2. tasks'[t][Top(t).slot].state = DONE
      BY <1>1, <1>10, <1>13
    <2>3. \A u \in Threads : Phase(u, "pop")' => TaskOf(u)'.dependencies = 0
      <3> SUFFICES ASSUME NEW u \in Threads, Phase(u, "pop")' PROVE TaskOf(u)'.dependencies = 0
        OBVIOUS
      <3>1. u # t /\ Phase(u, "pop") /\ Running(u)
        BY <1>2 DEF PhaseMoved, Phase
      <3> QED BY <1>18, <3>1 DEF Inductive, FramesNested
    <2> QED BY <1>0, <2>1, <2>2, <2>3, PhaseNested DEF Inductive, Phases
  <1>20. ThreadsCounted' /\ ThreadsAlive'
    <2>1. \A u \in Threads : thief[u] # NotStealing => Phase(u, "join")' \/ (~Running(u)' /\ mode[u] = "loop")
      <3>1. thief[t] = NotStealing
        BY <1>0 DEF Inductive, ThreadsCounted, Phase
      <3> QED BY <1>2, <3>1 DEF Inductive, PhaseMoved, ThreadsCounted
    <2> QED BY <1>0, <2>1, LifeSame DEF Inductive
  <1>21. TypeOK'
    BY <1>0, <1>2, <1>8, <1>9 DEF Inductive, TypeOK, PhaseMoved, Frame, Stacks, TaskRecord
  <1>22. ASSUME NEW u \in Threads, NEW r \in Slots, NEW j \in Tasks
         PROVE  /\ Pending(u, r, j)' <=> Pending(u, r, j)
                /\ Original(u, r, j)' <=> Original(u, r, j)
                /\ Queued(u, r, j)' <=> Queued(u, r, j)
    <2>1. CASE u # t
      <3>1. tasks'[u][r] = tasks[u][r]
        BY <1>8, <2>1
      <3>2. Top(u)' = Top(u) /\ (Phase(u, "execute")' <=> Phase(u, "execute")) /\ (Phase(u, "build")' <=> Phase(u, "build"))
        BY <1>2, <2>1 DEF PhaseMoved
      <3> QED BY <1>0, <1>11, <2>1, <3>1, <3>2 DEF Pending, Original, Queued
    <2>2. CASE u = t
      <3>1. Phase(t, "build") /\ ~Phase(t, "execute") /\ ~Phase(t, "build")' /\ ~Phase(t, "execute")'
        BY <1>0, <1>2 DEF PhaseMoved, Phase
      <3>2. CASE r = r0
        <4>1. tasks[t][r0].state = DONE
          BY <1>12 DEF Inductive, StacksKept, SlotKept
        <4>2. tasks'[t][r0] = x
          BY <1>8
        <4> QED BY <1>1, <1>5, <1>11, <1>12, <2>2, <3>1, <3>2, <4>1, <4>2 DEF Pending, Original, Queued, DONE, INITIALIZED
      <3>3. CASE r # r0
        <4>1. /\ tasks'[t][r].task = tasks[t][r].task /\ tasks'[t][r].stealable = tasks[t][r].stealable
              /\ tasks'[t][r].state = tasks[t][r].state
          BY <1>13, <3>3
        <4> QED BY <1>1, <1>11, <2>2, <3>1, <3>3, <4>1 DEF Pending, Original, Queued
      <3> QED BY <3>2, <3>3
    <2> QED BY <2>1, <2>2
  <1>23. OnePlace'
    BY <1>0, <1>22, PlacesFewer DEF Inductive
  <1>24. \A u \in Threads : Running(u) /\ Top(u).phase \in {"spawn", "build", "throw"} =>
             Running(u)' /\ Top(u)'.phase \in {"spawn", "build", "throw"} /\ TaskOf(u)'.task = TaskOf(u).task
    BY <1>2, <1>18 DEF PhaseMoved
  <1>25. NoneSkipped'
    BY <1>0, <1>22, <1>24, StillNoneSkipped DEF Inductive, TypeOK
  <1>26. RootOutlasts' /\ ExceptionReachesRoot'
    BY <1>0, RestSame
  <1>27. BegunKept
    <2> SUFFICES ASSUME NEW u \in Threads, Running(u)', Top(u)'.phase \in {"spawn", "build"}
                 PROVE  Running(u) /\ Top(u).phase \in {"spawn", "build"} /\ TaskOf(u)'.task = TaskOf(u).task
      BY <1>0 DEF BegunKept
    <2>1. Running(u) /\ (u # t => Top(u)' = Top(u))
      BY <1>2 DEF PhaseMoved
    <2> QED BY <1>0, <1>18, <2>1
  <1>28. Still
    BY <1>0, <1>22, <1>27, StillIs
  <1> QED BY <1>17, <1>19, <1>20, <1>21, <1>23, <1>25, <1>26, <1>28 DEF Inductive

\* The threads that are counted as in, and as busy
HereModes == {"push", "announce", "add", "work", "remove", "wait", "enter", "loop", "steal", "body", "leave", "count"}
BusyModes == {"add", "work", "body"}
One(m, M) == IF m \in M THEN 1 ELSE 0

\* How many threads are in a set of places, when one moves
Where(M) == {u \in Threads : mode[u] \in M}

LEMMA ModeMoved ==
    ASSUME TypeOK, NEW t \in Threads, NEW m \in Modes, Enter(t, m)
    PROVE  /\ mode' \in [Threads -> Modes]
           /\ \A u \in Threads : mode'[u] = IF u = t THEN m ELSE mode[u]
           /\ \A M : /\ Cardinality(Where(M)) \in Nat /\ Cardinality(Where(M))' \in Nat
                     /\ Cardinality(Where(M))' + One(mode[t], M) = Cardinality(Where(M)) + One(m, M)
  <1>1. mode' \in [Threads -> Modes] /\ \A u \in Threads : mode'[u] = IF u = t THEN m ELSE mode[u]
    BY DEF TypeOK, Enter
  <1>2. ASSUME NEW M
        PROVE  /\ Cardinality(Where(M)) \in Nat /\ Cardinality(Where(M))' \in Nat
               /\ Cardinality(Where(M))' + One(mode[t], M) = Cardinality(Where(M)) + One(m, M)
    <2>1. \A U \in SUBSET Threads : IsFiniteSet(U) /\ Cardinality(U) \in Nat
      BY PlacesFinite, FS_Subset, FS_CardinalityType
    <2>2. PICK S \in SUBSET Threads, T \in SUBSET Threads : S = Where(M) /\ T = Where(M)'
      BY DEF Where
    <2>3. (t \in S <=> mode[t] \in M) /\ (t \in T <=> m \in M) /\ \A u \in Threads : u # t => (u \in T <=> u \in S)
      BY <1>1, <2>2 DEF Where
    <2>4. PICK a \in Nat, b \in Nat : a = Cardinality(S) /\ b = Cardinality(T)
      BY <2>1
    <2>5. CASE (mode[t] \in M) = (m \in M)
      <3>1. \A u \in Threads : u \in T <=> u \in S
        BY <2>3, <2>5
      <3>2. T = S
        BY <3>1
      <3> QED BY <2>2, <2>4, <2>5, <3>2 DEF One
    <2>6. CASE mode[t] \in M /\ m \notin M
      <3>1. \A u \in Threads : u \in T <=> u \in S \ {t}
        BY <2>3, <2>6
      <3>2. T = S \ {t} /\ t \in S
        BY <2>3, <2>6, <3>1
      <3>3. b = a - 1
        BY <2>1, <2>4, <3>2, FS_RemoveElement
      <3> QED BY <2>2, <2>4, <2>6, <3>3 DEF One
    <2>7. CASE mode[t] \notin M /\ m \in M
      <3>1. \A u \in Threads : u \in T <=> u \in S \union {t}
        BY <2>3, <2>7
      <3>2. T = S \union {t} /\ t \notin S
        BY <2>3, <2>7, <3>1
      <3>3. b = a + 1
        BY <2>1, <2>4, <3>2, FS_AddElement
      <3> QED BY <2>2, <2>4, <2>7, <3>3 DEF One
    <2> QED BY <2>5, <2>6, <2>7
  <1> QED BY <1>1, <1>2

\* The two counters
Counters == /\ threadCounter = Cardinality({t \in Threads : mode[t] \notin {"out", "await", "returned"}})
            /\ anyTasksRunning = Cardinality({t \in Threads : mode[t] \in {"add", "work", "body"}})

LEMMA CountersAre ==
    TypeOK => (Counters <=> threadCounter = Cardinality(Where(HereModes)) /\ anyTasksRunning = Cardinality(Where(BusyModes)))
  <1> SUFFICES ASSUME TypeOK
               PROVE  Counters <=> threadCounter = Cardinality(Where(HereModes)) /\ anyTasksRunning = Cardinality(Where(BusyModes))
    OBVIOUS
  <1>1. \A t \in Threads : mode[t] \notin {"out", "await", "returned"} <=> mode[t] \in HereModes
    BY DEF TypeOK, Modes, HereModes
  <1>2. {t \in Threads : mode[t] \notin {"out", "await", "returned"}} = Where(HereModes)
    BY <1>1 DEF Where
  <1>3. {t \in Threads : mode[t] \in {"add", "work", "body"}} = Where(BusyModes)
    BY DEF Where, BusyModes
  <1> QED BY <1>2, <1>3 DEF Counters

\* A counter that follows its threads counts them.
LEMMA CountStep ==
    ASSUME TypeOK, ThreadsCounted, NEW t \in Threads, NEW m \in Modes, Enter(t, m),
           threadCounter' \in Int, threadCounter' + One(mode[t], HereModes) = threadCounter + One(m, HereModes),
           anyTasksRunning' \in Int, anyTasksRunning' + One(mode[t], BusyModes) = anyTasksRunning + One(m, BusyModes)
    PROVE  Counters' /\ threadCounter' \in Nat /\ anyTasksRunning' \in Nat
  <1>1. mode' \in [Threads -> Modes] /\ mode \in [Threads -> Modes]
    BY ModeMoved DEF TypeOK
  <1>2. threadCounter = Cardinality(Where(HereModes)) /\ anyTasksRunning = Cardinality(Where(BusyModes))
    <2>1. Counters
      BY DEF Counters, ThreadsCounted
    <2> QED BY <2>1, CountersAre
  <1>3. /\ threadCounter' = Cardinality(Where(HereModes))' /\ Cardinality(Where(HereModes))' \in Nat
        /\ anyTasksRunning' = Cardinality(Where(BusyModes))' /\ Cardinality(Where(BusyModes))' \in Nat
    <2>1. PICK a \in Nat, b \in Nat : /\ a = Cardinality(Where(HereModes)) /\ b = Cardinality(Where(HereModes))'
                                      /\ b + One(mode[t], HereModes) = a + One(m, HereModes)
      BY ModeMoved
    <2>2. PICK c \in Nat, d \in Nat : /\ c = Cardinality(Where(BusyModes)) /\ d = Cardinality(Where(BusyModes))'
                                      /\ d + One(mode[t], BusyModes) = c + One(m, BusyModes)
      BY ModeMoved
    <2>3. threadCounter' = b
      BY <1>2, <2>1 DEF One
    <2>4. anyTasksRunning' = d
      BY <1>2, <2>2 DEF One
    <2> QED BY <2>1, <2>2, <2>3, <2>4
  <1>4. {u \in Threads : mode'[u] \notin {"out", "await", "returned"}} = Where(HereModes)'
    <2>1. \A u \in Threads : mode'[u] \notin {"out", "await", "returned"} <=> mode'[u] \in HereModes
      BY <1>1 DEF Modes, HereModes
    <2> QED BY <2>1 DEF Where
  <1>5. {u \in Threads : mode'[u] \in {"add", "work", "body"}} = Where(BusyModes)'
    BY DEF Where, BusyModes
  <1> QED BY <1>3, <1>4, <1>5 DEF Counters

\* A counter that is zero counts nobody.
LEMMA NobodyCounted ==
    ASSUME TypeOK, ThreadsCounted
    PROVE  /\ threadCounter = 0 => \A t \in Threads : mode[t] \in {"out", "await", "returned"}
           /\ anyTasksRunning = 0 => \A t \in Threads : mode[t] \notin {"add", "work", "body"}
  <1>1. \A U \in SUBSET Threads : IsFiniteSet(U)
    BY PlacesFinite, FS_Subset
  <1>2. ASSUME threadCounter = 0 PROVE {t \in Threads : mode[t] \notin {"out", "await", "returned"}} = {}
    <2>1. IsFiniteSet({t \in Threads : mode[t] \notin {"out", "await", "returned"}})
      BY <1>1
    <2> QED BY <1>2, <2>1, FS_EmptySet DEF ThreadsCounted
  <1>3. ASSUME anyTasksRunning = 0 PROVE {t \in Threads : mode[t] \in {"add", "work", "body"}} = {}
    <2>1. IsFiniteSet({t \in Threads : mode[t] \in {"add", "work", "body"}})
      BY <1>1
    <2> QED BY <1>3, <2>1, FS_EmptySet DEF ThreadsCounted
  <1> QED BY <1>2, <1>3

\* A step in which a thread only moves from one place to another
LEMMA LifeStep ==
    ASSUME Inductive, NEW t \in Threads, NEW m \in Modes, Enter(t, m),
           UNCHANGED <<stackVars, frames, thief, spawned, executed, Joiners>>,
           threadLocal' \subseteq Threads, threadCounter' \in Nat, anyTasksRunning' \in Nat,
           hasRootTask' \in BOOLEAN, inPool' \in BOOLEAN, cancellingException' \in Tasks \union {Nobody},
           rethrown' \in [Threads -> Tasks \union {Nobody}],
           Running(t) => m \in {"work", "body"},
           right[t] > 0 => m \in {"announce", "add", "work", "body"},
           m # "steal", t = Root => (m \in {"out", "push"} <=> mode[t] \in {"out", "push"}) /\ mode[t] # "returned",
           cancellingException' = Nobody => cancellingException = Nobody \/ (t = Root /\ m = "returned")
    PROVE  TypeOK' /\ FramesNested' /\ StacksKept' /\ Grounded' /\ DependenciesCount' /\ OnePlace' /\ NoneSkipped'
  <1> USE DEF stackVars
  <1>1. mode' \in [Threads -> Modes] /\ \A u \in Threads : mode'[u] = IF u = t THEN m ELSE mode[u]
    BY ModeMoved DEF Inductive
  <1>2. TypeOK'
    BY <1>1 DEF Inductive, TypeOK
  <1>3. \A u \in Threads : /\ Live(u)' = Live(u)
                           /\ \A s \in Slots : (Signalled(u, s)' <=> Signalled(u, s)) /\ (Busy(u, s)' <=> Busy(u, s))
    BY DEF Live, Phase, Running, Top, Signalled, Busy, Calls
  <1>4. StacksKept' /\ Grounded' /\ DependenciesCount'
    BY <1>3, ViewSame DEF Inductive
  <1>5. \A u \in Threads : /\ (Running(u)' <=> Running(u)) /\ Top(u)' = Top(u) /\ TaskOf(u)' = TaskOf(u)
                           /\ \A q : Phase(u, q)' <=> Phase(u, q)
    BY DEF Running, Top, TaskOf, Phase
  <1>6. FramesNested'
    <2>1. ASSUME NEW u \in Threads, NEW i \in DOMAIN frames'[u]
          PROVE  /\ frames'[u][i].slot < right'[u]
                 /\ frames'[u][i].phase # "start" => tasks'[u][frames'[u][i].slot].state = DONE
                 /\ i < Len(frames'[u]) => frames'[u][i].phase \in {"wait", "local"}
                 /\ \A j \in DOMAIN frames'[u] : i < j => frames'[u][i].slot < frames'[u][j].slot
      BY DEF Inductive, FramesNested
    <2>2. ASSUME NEW u \in Threads
          PROVE  /\ Running(u)' /\ Top(u)'.phase \notin {"spawn", "build", "wait", "local"} => Top(u)'.slot = right'[u] - 1
                 /\ Phase(u, "build")' => Top(u)'.slot < right'[u] - 1 /\ Top(u)'.child \in ChildrenOf(TaskOf(u).task)'
                 /\ Phase(u, "pop")' => TaskOf(u)'.dependencies = 0
                 /\ Running(u)' => mode'[u] \in {"work", "body"}
                 /\ right'[u] > 0 => mode'[u] \in {"announce", "add", "work", "steal", "body"}
                 /\ mode'[u] = "steal" => right'[u] = 1
      <3>1. CASE u # t
        BY <1>1, <1>5, <3>1 DEF Inductive, FramesNested, ChildrenOf
      <3>2. CASE u = t
        BY <1>1, <1>5, <3>2 DEF Inductive, FramesNested, ChildrenOf
      <3> QED BY <3>1, <3>2
    <2> QED BY <2>1, <2>2 DEF FramesNested
  <1>7. \A u \in Threads, s \in Slots, k \in Tasks : /\ Pending(u, s, k)' <=> Pending(u, s, k)
                                                     /\ Original(u, s, k)' <=> Original(u, s, k)
    BY <1>3, <1>5 DEF Pending, Original
  <1>8. Root \in Threads
    BY DEF Threads
  <1>9. OnePlace'
    BY <1>1, <1>7, <1>8, PlacesFewer DEF Inductive
  <1>10. NoneSkipped'
    <2>1. mode[Root] = "returned" => mode'[Root] = "returned"
      BY <1>1, <1>8
    <2>2. mode'[Root] # "returned" /\ cancellingException' = Nobody => cancellingException = Nobody
      BY <1>1, <1>8
    <2> QED BY <1>5, <1>7, <2>1, <2>2, StillNoneSkipped DEF Inductive, TypeOK
  <1> QED BY <1>2, <1>4, <1>6, <1>9, <1>10

\* When the root thread's work is over and nothing was thrown, every task has run.
LEMMA AllRan ==
    ASSUME Inductive, mode[Root] \in AfterWork \ {"returned"}, cancellingException = Nobody
    PROVE  \A k \in Tasks : executed[k] = 1
  <1>1. /\ \A t \in Threads : Running(t) => Phase(t, "pop")
        /\ \A t \in Threads, s \in Slots : tasks[t][s].state = DONE
    BY Quiet DEF Inductive
  <1>2. RootTask \in spawned /\ spawned \in SUBSET Tasks
    <2>1. mode[Root] \notin {"out", "push"}
      BY DEF AfterWork
    <2> QED BY <2>1 DEF Inductive, OnePlace, TypeOK
  <1>3. \A t \in Threads, s \in Slots, k \in Tasks : ~Pending(t, s, k)
    BY <1>1 DEF Pending, Phase, DONE, INITIALIZED
  <1>4. ASSUME NEW k \in spawned PROVE executed[k] # 0 /\ ChildrenOf(k) \subseteq spawned
    <2>1. k \in Tasks
      BY <1>2
    <2>2. IF executed[k] = 0 THEN \E t \in Threads, s \in Slots : Pending(t, s, k)
          ELSE \/ ChildrenOf(k) \subseteq spawned
               \/ \E t \in Threads : /\ Running(t) /\ Top(t).phase \in {"spawn", "build", "throw"}
                                     /\ TaskOf(t).task = k
      BY DEF Inductive, NoneSkipped
    <2>3. \A t \in Threads : Running(t) => Top(t).phase = "pop"
      BY <1>1 DEF Phase
    <2> QED BY <1>3, <2>1, <2>2, <2>3
  <1>5. \A k \in Tasks \ {RootTask} : Parent[k] \in spawned => k \in spawned
    BY <1>4 DEF ChildrenOf
  <1>6. spawned = Tasks
    BY <1>2, <1>5
  <1>7. ASSUME NEW k \in Tasks PROVE executed[k] = 1
    <2>1. executed[k] \in Nat /\ executed[k] <= 1 /\ executed[k] # 0
      BY <1>4, <1>6 DEF Inductive, TypeOK, OnePlace
    <2> QED BY <2>1
  <1> QED BY <1>7

\* Where the threads are, in parts
RootPlaced == /\ mode[Root] \in {"out", "push", "announce", "add", "work"} \union AfterWork
              /\ hasRootTask <=> mode[Root] \notin {"out", "push", "announce"}
              /\ inPool <=> mode[Root] \in {"work", "remove"}
HelpersPlaced ==
    \A t \in Helpers :
        /\ mode[t] \in {"out", "wait", "enter", "loop", "steal", "body", "leave", "count", "await", "returned"}
        /\ mode[t] \notin {"out", "wait"} /\ t \in Joiners => hasRootTask
        /\ t \in Pool => mode[t] \notin {"wait", "returned"} /\ (mode[t] # "out" => hasRootTask)
        /\ mode[t] \in {"leave", "count"} => mode[Root] \in AfterWork
        /\ t \in Joiners /\ mode[t] = "await" => mode[Root] \in AfterWork
LocalsPlaced == \A t \in threadLocal : mode[t] \notin {"out", "push", "wait", "enter", "count", "await", "returned"}
ThievesPlaced == \A t \in Threads : thief[t] # NotStealing =>
                     /\ thief[t].step # "none" /\ thief[t].victim \in Threads
                     /\ thief[t].step = "take" => thief[t].l \in Slots
                     /\ Phase(t, "join") \/ (~Running(t) /\ mode[t] = "loop")

LEMMA CountedIs == ThreadsCounted <=> Counters /\ RootPlaced /\ HelpersPlaced /\ LocalsPlaced /\ ThievesPlaced
  BY DEF ThreadsCounted, Counters, RootPlaced, HelpersPlaced, LocalsPlaced, ThievesPlaced

\* A thread that moves on without having been in the loop, or that steals nothing, leaves
\* the thieves where they are.
LEMMA ThievesStay ==
    ASSUME TypeOK, ThievesPlaced, NEW t \in Threads, NEW m \in Modes, Enter(t, m), UNCHANGED <<frames, thief>>,
           mode[t] # "loop" \/ thief[t] = NotStealing
    PROVE  ThievesPlaced'
  <1>1. \A u \in Threads : mode'[u] = IF u = t THEN m ELSE mode[u]
    BY ModeMoved
  <1>2. \A u \in Threads : (Running(u)' <=> Running(u)) /\ (Phase(u, "join")' <=> Phase(u, "join"))
    BY DEF Running, Top, Phase
  <1> QED BY <1>1, <1>2 DEF ThievesPlaced

\* No thread is freed while it can be robbed.
LEMMA VictimsStay ==
    ASSUME TypeOK, ThievesPlaced, ThreadsAlive, NEW t \in Threads, NEW m \in Modes, Enter(t, m), UNCHANGED <<frames, thief>>,
           m \notin {"out", "returned"}
    PROVE  ThreadsAlive'
  <1>1. \A u \in Threads : mode'[u] = IF u = t THEN m ELSE mode[u]
    BY ModeMoved
  <1> QED BY <1>1 DEF ThreadsAlive, ThievesPlaced

LEMMA SpawnRootKeeps == ASSUME Inductive, SpawnRoot, UNCHANGED Joiners PROVE Inductive'
  <1> USE DEF In, lifeVars, workVars
  <1>0. Root \in Threads /\ Root \notin Helpers /\ Root \in Threads /\ Threads = {Root} \union Helpers
    BY DEF Threads
  <1>1. RootPlaced /\ HelpersPlaced /\ LocalsPlaced /\ ThievesPlaced /\ Counters
    BY CountedIs DEF Inductive
  <1>2. mode[Root] = "out" /\ Enter(Root, "push") /\ UNCHANGED <<stackVars, frames, thief>>
    BY <1>0, <1>1 DEF SpawnRoot
  <1>3. mode' \in [Threads -> Modes] /\ \A u \in Threads : mode'[u] = IF u = Root THEN "push" ELSE mode[u]
    <2>1. mode \in [Threads -> Modes] /\ "push" \in Modes
      BY DEF Inductive, TypeOK, Modes
    <2>2. mode' = [mode EXCEPT ![Root] = "push"]
      BY <1>2 DEF Enter
    <2> QED BY <1>0, <2>1, <2>2
  <1>4. Counters' /\ threadCounter' \in Nat /\ anyTasksRunning' \in Nat
    <2>1. threadCounter' = threadCounter + 1 /\ anyTasksRunning' = anyTasksRunning
      BY DEF SpawnRoot, allocThreadIndex
    <2>2. threadCounter \in Nat /\ anyTasksRunning \in Nat
      BY DEF Inductive, TypeOK
    <2>3. /\ threadCounter' \in Int /\ threadCounter' + One("out", HereModes) = threadCounter + One("push", HereModes)
          /\ anyTasksRunning' \in Int /\ anyTasksRunning' + One("out", BusyModes) = anyTasksRunning + One("push", BusyModes)
      BY <2>1, <2>2 DEF One, HereModes, BusyModes
    <2> QED BY <1>0, <1>2, <2>3, CountStep DEF Inductive, Modes
  <1>5. TypeOK' /\ FramesNested' /\ StacksKept' /\ Grounded' /\ DependenciesCount' /\ OnePlace' /\ NoneSkipped'
    <2>1. Running(Root) => "out" \in {"work", "body"}
      BY <1>0, <1>2 DEF Inductive, FramesNested
    <2>2. right[Root] > 0 => "out" \in {"announce", "add", "work", "steal", "body"}
      BY <1>0, <1>2 DEF Inductive, FramesNested
    <2>3. /\ threadLocal' \subseteq Threads /\ hasRootTask' \in BOOLEAN /\ inPool' \in BOOLEAN
          /\ cancellingException' \in Tasks \union {Nobody} /\ rethrown' \in [Threads -> Tasks \union {Nobody}]
          /\ UNCHANGED <<spawned, executed>>
          /\ cancellingException' = Nobody => cancellingException = Nobody \/ (Root = Root /\ "push" = "returned")
      BY <1>0 DEF SpawnRoot, Inductive, TypeOK
    <2>4. (Running(Root) => "push" \in {"work", "body"}) /\ (right[Root] > 0 => "push" \in {"announce", "add", "work", "body"})
      BY <1>0, <2>1, <2>2 DEF SpawnRoot, Inductive, TypeOK, FramesNested
    <2>5. Root = Root => ("push" \in {"out", "push"} <=> mode[Root] \in {"out", "push"}) /\ mode[Root] # "returned"
      BY <1>1, <1>2 DEF RootPlaced, AfterWork
    <2> QED BY <1>0, <1>2, <1>4, <2>3, <2>4, <2>5, LifeStep DEF Modes
  <1>6. RootPlaced'
    BY <1>0, <1>1, <1>2, <1>3 DEF RootPlaced, AfterWork, SpawnRoot
  <1>7. HelpersPlaced'
    BY <1>0, <1>1, <1>2, <1>3 DEF RootPlaced, HelpersPlaced, AfterWork, Pool, SpawnRoot
  <1>8. LocalsPlaced'
    BY <1>0, <1>1, <1>2, <1>3 DEF LocalsPlaced, Inductive, TypeOK, SpawnRoot
  <1>9. ThievesPlaced'
    BY <1>0, <1>1, <1>2, ThievesStay DEF Inductive, Modes
  <1>10. ThreadsAlive'
    BY <1>0, <1>1, <1>2, VictimsStay DEF Inductive, Modes
  <1>11. RootOutlasts'
    <2>1. UNCHANGED <<right, rethrown, cancellingException, Joiners>> /\ Joiners \subseteq Helpers
      BY <1>2 DEF SpawnRoot, stackVars, Inductive, TypeOK
    <2>2. RootOutlasts
      BY DEF Inductive
    <2>3. mode'[Root] \in AfterWork => right'[Root] = 0
      BY <1>0, <1>2, <1>3, <2>1, <2>2 DEF RootOutlasts, AfterWork, SpawnRoot
    <2>4. ASSUME mode'[Root] = "returned", NEW u \in Threads PROVE mode'[u] \notin {"steal", "body"}
      BY <1>0, <1>2, <1>3, <2>2, <2>4 DEF RootOutlasts
    <2>5. ASSUME mode'[Root] \in AfterWork \ {"returned"}, NEW u \in Joiners \union {Root}, mode'[u] \in {"count", "await"}
          PROVE  rethrown'[u] = cancellingException'
      <3>1. u \in Threads /\ mode[u] \in {"count", "await"}
        BY <1>0, <1>3, <2>1, <2>5
      <3>2. mode[Root] \in AfterWork \ {"returned"}
        <4>1. u = Root => mode[Root] \in AfterWork
          BY <3>1 DEF AfterWork
        <4>2. u # Root => mode[Root] \in AfterWork
          BY <1>1, <2>1, <2>5, <3>1 DEF HelpersPlaced
        <4>3. mode[Root] # "returned"
          BY <1>0, <1>2, <1>3, <2>5
        <4> QED BY <4>1, <4>2, <4>3
      <3> QED BY <2>1, <2>2, <3>1, <3>2 DEF RootOutlasts
    <2> QED BY <2>1, <2>3, <2>4, <2>5 DEF RootOutlasts
  <1>12. ExceptionReachesRoot'
    BY <1>0, <1>1, <1>2, <1>3 DEF Inductive, ExceptionReachesRoot, RootOutlasts, AfterWork, TypeOK, SpawnRoot
  <1>13. ThreadsCounted'
    BY <1>4, <1>6, <1>7, <1>8, <1>9, CountedIs, PTL
  <1> QED BY <1>5, <1>10, <1>11, <1>12, <1>13 DEF Inductive

LEMMA AnnounceKeeps == ASSUME Inductive, Announce, UNCHANGED Joiners PROVE Inductive'
  <1> USE DEF In, lifeVars, workVars
  <1>0. Root \in Threads /\ Root \notin Helpers /\ Root \in Threads /\ Threads = {Root} \union Helpers
    BY DEF Threads
  <1>1. RootPlaced /\ HelpersPlaced /\ LocalsPlaced /\ ThievesPlaced /\ Counters
    BY CountedIs DEF Inductive
  <1>2. mode[Root] = "announce" /\ Enter(Root, "add") /\ UNCHANGED <<stackVars, frames, thief>>
    BY <1>0, <1>1 DEF Announce
  <1>3. mode' \in [Threads -> Modes] /\ \A u \in Threads : mode'[u] = IF u = Root THEN "add" ELSE mode[u]
    <2>1. mode \in [Threads -> Modes] /\ "add" \in Modes
      BY DEF Inductive, TypeOK, Modes
    <2>2. mode' = [mode EXCEPT ![Root] = "add"]
      BY <1>2 DEF Enter
    <2> QED BY <1>0, <2>1, <2>2
  <1>4. Counters' /\ threadCounter' \in Nat /\ anyTasksRunning' \in Nat
    <2>1. threadCounter' = threadCounter /\ anyTasksRunning' = anyTasksRunning + 1
      BY DEF Announce, allocThreadIndex
    <2>2. threadCounter \in Nat /\ anyTasksRunning \in Nat
      BY DEF Inductive, TypeOK
    <2>3. /\ threadCounter' \in Int /\ threadCounter' + One("announce", HereModes) = threadCounter + One("add", HereModes)
          /\ anyTasksRunning' \in Int /\ anyTasksRunning' + One("announce", BusyModes) = anyTasksRunning + One("add", BusyModes)
      BY <2>1, <2>2 DEF One, HereModes, BusyModes
    <2> QED BY <1>0, <1>2, <2>3, CountStep DEF Inductive, Modes
  <1>5. TypeOK' /\ FramesNested' /\ StacksKept' /\ Grounded' /\ DependenciesCount' /\ OnePlace' /\ NoneSkipped'
    <2>1. Running(Root) => "announce" \in {"work", "body"}
      BY <1>0, <1>2 DEF Inductive, FramesNested
    <2>2. right[Root] > 0 => "announce" \in {"announce", "add", "work", "steal", "body"}
      BY <1>0, <1>2 DEF Inductive, FramesNested
    <2>3. /\ threadLocal' \subseteq Threads /\ hasRootTask' \in BOOLEAN /\ inPool' \in BOOLEAN
          /\ cancellingException' \in Tasks \union {Nobody} /\ rethrown' \in [Threads -> Tasks \union {Nobody}]
          /\ UNCHANGED <<spawned, executed>>
          /\ cancellingException' = Nobody => cancellingException = Nobody \/ (Root = Root /\ "add" = "returned")
      BY <1>0 DEF Announce, Inductive, TypeOK
    <2>4. (Running(Root) => "add" \in {"work", "body"}) /\ (right[Root] > 0 => "add" \in {"announce", "add", "work", "body"})
      BY <1>0, <2>1, <2>2 DEF Announce, Inductive, TypeOK, FramesNested
    <2>5. Root = Root => ("add" \in {"out", "push"} <=> mode[Root] \in {"out", "push"}) /\ mode[Root] # "returned"
      BY <1>1, <1>2 DEF RootPlaced, AfterWork
    <2> QED BY <1>0, <1>2, <1>4, <2>3, <2>4, <2>5, LifeStep DEF Modes
  <1>6. RootPlaced'
    BY <1>0, <1>1, <1>2, <1>3 DEF RootPlaced, AfterWork, Announce
  <1>7. HelpersPlaced'
    BY <1>0, <1>1, <1>2, <1>3 DEF RootPlaced, HelpersPlaced, AfterWork, Pool, Announce
  <1>8. LocalsPlaced'
    BY <1>0, <1>1, <1>2, <1>3 DEF LocalsPlaced, Inductive, TypeOK, Announce
  <1>9. ThievesPlaced'
    BY <1>0, <1>1, <1>2, ThievesStay DEF Inductive, Modes
  <1>10. ThreadsAlive'
    BY <1>0, <1>1, <1>2, VictimsStay DEF Inductive, Modes
  <1>11. RootOutlasts'
    <2>1. UNCHANGED <<right, rethrown, cancellingException, Joiners>> /\ Joiners \subseteq Helpers
      BY <1>2 DEF Announce, stackVars, Inductive, TypeOK
    <2>2. RootOutlasts
      BY DEF Inductive
    <2>3. mode'[Root] \in AfterWork => right'[Root] = 0
      BY <1>0, <1>2, <1>3, <2>1, <2>2 DEF RootOutlasts, AfterWork, Announce
    <2>4. ASSUME mode'[Root] = "returned", NEW u \in Threads PROVE mode'[u] \notin {"steal", "body"}
      BY <1>0, <1>2, <1>3, <2>2, <2>4 DEF RootOutlasts
    <2>5. ASSUME mode'[Root] \in AfterWork \ {"returned"}, NEW u \in Joiners \union {Root}, mode'[u] \in {"count", "await"}
          PROVE  rethrown'[u] = cancellingException'
      <3>1. u \in Threads /\ mode[u] \in {"count", "await"}
        BY <1>0, <1>3, <2>1, <2>5
      <3>2. mode[Root] \in AfterWork \ {"returned"}
        <4>1. u = Root => mode[Root] \in AfterWork
          BY <3>1 DEF AfterWork
        <4>2. u # Root => mode[Root] \in AfterWork
          BY <1>1, <2>1, <2>5, <3>1 DEF HelpersPlaced
        <4>3. mode[Root] # "returned"
          BY <1>0, <1>2, <1>3, <2>5
        <4> QED BY <4>1, <4>2, <4>3
      <3> QED BY <2>1, <2>2, <3>1, <3>2 DEF RootOutlasts
    <2> QED BY <2>1, <2>3, <2>4, <2>5 DEF RootOutlasts
  <1>12. ExceptionReachesRoot'
    BY <1>0, <1>1, <1>2, <1>3 DEF Inductive, ExceptionReachesRoot, RootOutlasts, AfterWork, TypeOK, Announce
  <1>13. ThreadsCounted'
    BY <1>4, <1>6, <1>7, <1>8, <1>9, CountedIs, PTL
  <1> QED BY <1>5, <1>10, <1>11, <1>12, <1>13 DEF Inductive

LEMMA AddSchedulerKeeps == ASSUME Inductive, AddScheduler, UNCHANGED Joiners PROVE Inductive'
  <1> USE DEF In, lifeVars, workVars
  <1>0. Root \in Threads /\ Root \notin Helpers /\ Root \in Threads /\ Threads = {Root} \union Helpers
    BY DEF Threads
  <1>1. RootPlaced /\ HelpersPlaced /\ LocalsPlaced /\ ThievesPlaced /\ Counters
    BY CountedIs DEF Inductive
  <1>2. mode[Root] = "add" /\ Enter(Root, "work") /\ UNCHANGED <<stackVars, frames, thief>>
    BY <1>0, <1>1 DEF AddScheduler
  <1>3. mode' \in [Threads -> Modes] /\ \A u \in Threads : mode'[u] = IF u = Root THEN "work" ELSE mode[u]
    <2>1. mode \in [Threads -> Modes] /\ "work" \in Modes
      BY DEF Inductive, TypeOK, Modes
    <2>2. mode' = [mode EXCEPT ![Root] = "work"]
      BY <1>2 DEF Enter
    <2> QED BY <1>0, <2>1, <2>2
  <1>4. Counters' /\ threadCounter' \in Nat /\ anyTasksRunning' \in Nat
    <2>1. threadCounter' = threadCounter /\ anyTasksRunning' = anyTasksRunning
      BY DEF AddScheduler, allocThreadIndex
    <2>2. threadCounter \in Nat /\ anyTasksRunning \in Nat
      BY DEF Inductive, TypeOK
    <2>3. /\ threadCounter' \in Int /\ threadCounter' + One("add", HereModes) = threadCounter + One("work", HereModes)
          /\ anyTasksRunning' \in Int /\ anyTasksRunning' + One("add", BusyModes) = anyTasksRunning + One("work", BusyModes)
      BY <2>1, <2>2 DEF One, HereModes, BusyModes
    <2> QED BY <1>0, <1>2, <2>3, CountStep DEF Inductive, Modes
  <1>5. TypeOK' /\ FramesNested' /\ StacksKept' /\ Grounded' /\ DependenciesCount' /\ OnePlace' /\ NoneSkipped'
    <2>1. Running(Root) => "add" \in {"work", "body"}
      BY <1>0, <1>2 DEF Inductive, FramesNested
    <2>2. right[Root] > 0 => "add" \in {"announce", "add", "work", "steal", "body"}
      BY <1>0, <1>2 DEF Inductive, FramesNested
    <2>3. /\ threadLocal' \subseteq Threads /\ hasRootTask' \in BOOLEAN /\ inPool' \in BOOLEAN
          /\ cancellingException' \in Tasks \union {Nobody} /\ rethrown' \in [Threads -> Tasks \union {Nobody}]
          /\ UNCHANGED <<spawned, executed>>
          /\ cancellingException' = Nobody => cancellingException = Nobody \/ (Root = Root /\ "work" = "returned")
      BY <1>0 DEF AddScheduler, Inductive, TypeOK
    <2>4. (Running(Root) => "work" \in {"work", "body"}) /\ (right[Root] > 0 => "work" \in {"announce", "add", "work", "body"})
      BY <1>0, <2>1, <2>2 DEF AddScheduler, Inductive, TypeOK, FramesNested
    <2>5. Root = Root => ("work" \in {"out", "push"} <=> mode[Root] \in {"out", "push"}) /\ mode[Root] # "returned"
      BY <1>1, <1>2 DEF RootPlaced, AfterWork
    <2> QED BY <1>0, <1>2, <1>4, <2>3, <2>4, <2>5, LifeStep DEF Modes
  <1>6. RootPlaced'
    BY <1>0, <1>1, <1>2, <1>3 DEF RootPlaced, AfterWork, AddScheduler
  <1>7. HelpersPlaced'
    BY <1>0, <1>1, <1>2, <1>3 DEF RootPlaced, HelpersPlaced, AfterWork, Pool, AddScheduler
  <1>8. LocalsPlaced'
    BY <1>0, <1>1, <1>2, <1>3 DEF LocalsPlaced, Inductive, TypeOK, AddScheduler
  <1>9. ThievesPlaced'
    BY <1>0, <1>1, <1>2, ThievesStay DEF Inductive, Modes
  <1>10. ThreadsAlive'
    BY <1>0, <1>1, <1>2, VictimsStay DEF Inductive, Modes
  <1>11. RootOutlasts'
    <2>1. UNCHANGED <<right, rethrown, cancellingException, Joiners>> /\ Joiners \subseteq Helpers
      BY <1>2 DEF AddScheduler, stackVars, Inductive, TypeOK
    <2>2. RootOutlasts
      BY DEF Inductive
    <2>3. mode'[Root] \in AfterWork => right'[Root] = 0
      BY <1>0, <1>2, <1>3, <2>1, <2>2 DEF RootOutlasts, AfterWork, AddScheduler
    <2>4. ASSUME mode'[Root] = "returned", NEW u \in Threads PROVE mode'[u] \notin {"steal", "body"}
      BY <1>0, <1>2, <1>3, <2>2, <2>4 DEF RootOutlasts
    <2>5. ASSUME mode'[Root] \in AfterWork \ {"returned"}, NEW u \in Joiners \union {Root}, mode'[u] \in {"count", "await"}
          PROVE  rethrown'[u] = cancellingException'
      <3>1. u \in Threads /\ mode[u] \in {"count", "await"}
        BY <1>0, <1>3, <2>1, <2>5
      <3>2. mode[Root] \in AfterWork \ {"returned"}
        <4>1. u = Root => mode[Root] \in AfterWork
          BY <3>1 DEF AfterWork
        <4>2. u # Root => mode[Root] \in AfterWork
          BY <1>1, <2>1, <2>5, <3>1 DEF HelpersPlaced
        <4>3. mode[Root] # "returned"
          BY <1>0, <1>2, <1>3, <2>5
        <4> QED BY <4>1, <4>2, <4>3
      <3> QED BY <2>1, <2>2, <3>1, <3>2 DEF RootOutlasts
    <2> QED BY <2>1, <2>3, <2>4, <2>5 DEF RootOutlasts
  <1>12. ExceptionReachesRoot'
    BY <1>0, <1>1, <1>2, <1>3 DEF Inductive, ExceptionReachesRoot, RootOutlasts, AfterWork, TypeOK, AddScheduler
  <1>13. ThreadsCounted'
    BY <1>4, <1>6, <1>7, <1>8, <1>9, CountedIs, PTL
  <1> QED BY <1>5, <1>10, <1>11, <1>12, <1>13 DEF Inductive

LEMMA RootDoneKeeps == ASSUME Inductive, RootDone, UNCHANGED Joiners PROVE Inductive'
  <1> USE DEF In, lifeVars, workVars
  <1>0. Root \in Threads /\ Root \notin Helpers /\ Root \in Threads /\ Threads = {Root} \union Helpers
    BY DEF Threads
  <1>1. RootPlaced /\ HelpersPlaced /\ LocalsPlaced /\ ThievesPlaced /\ Counters
    BY CountedIs DEF Inductive
  <1>2. mode[Root] = "work" /\ Enter(Root, "remove") /\ UNCHANGED <<stackVars, frames, thief>>
    BY <1>0, <1>1 DEF RootDone
  <1>3. mode' \in [Threads -> Modes] /\ \A u \in Threads : mode'[u] = IF u = Root THEN "remove" ELSE mode[u]
    <2>1. mode \in [Threads -> Modes] /\ "remove" \in Modes
      BY DEF Inductive, TypeOK, Modes
    <2>2. mode' = [mode EXCEPT ![Root] = "remove"]
      BY <1>2 DEF Enter
    <2> QED BY <1>0, <2>1, <2>2
  <1>4. Counters' /\ threadCounter' \in Nat /\ anyTasksRunning' \in Nat
    <2>1. threadCounter' = threadCounter /\ anyTasksRunning' = anyTasksRunning - 1
      BY DEF RootDone, allocThreadIndex
    <2>2. threadCounter \in Nat /\ anyTasksRunning \in Nat
      BY DEF Inductive, TypeOK
    <2>3. /\ threadCounter' \in Int /\ threadCounter' + One("work", HereModes) = threadCounter + One("remove", HereModes)
          /\ anyTasksRunning' \in Int /\ anyTasksRunning' + One("work", BusyModes) = anyTasksRunning + One("remove", BusyModes)
      BY <2>1, <2>2 DEF One, HereModes, BusyModes
    <2> QED BY <1>0, <1>2, <2>3, CountStep DEF Inductive, Modes
  <1>5. TypeOK' /\ FramesNested' /\ StacksKept' /\ Grounded' /\ DependenciesCount' /\ OnePlace' /\ NoneSkipped'
    <2>1. Running(Root) => "work" \in {"work", "body"}
      BY <1>0, <1>2 DEF Inductive, FramesNested
    <2>2. right[Root] > 0 => "work" \in {"announce", "add", "work", "steal", "body"}
      BY <1>0, <1>2 DEF Inductive, FramesNested
    <2>3. /\ threadLocal' \subseteq Threads /\ hasRootTask' \in BOOLEAN /\ inPool' \in BOOLEAN
          /\ cancellingException' \in Tasks \union {Nobody} /\ rethrown' \in [Threads -> Tasks \union {Nobody}]
          /\ UNCHANGED <<spawned, executed>>
          /\ cancellingException' = Nobody => cancellingException = Nobody \/ (Root = Root /\ "remove" = "returned")
      BY <1>0 DEF RootDone, Inductive, TypeOK
    <2>4. (Running(Root) => "remove" \in {"work", "body"}) /\ (right[Root] > 0 => "remove" \in {"announce", "add", "work", "body"})
      BY <1>0, <2>1, <2>2 DEF RootDone, Inductive, TypeOK, FramesNested
    <2>5. Root = Root => ("remove" \in {"out", "push"} <=> mode[Root] \in {"out", "push"}) /\ mode[Root] # "returned"
      BY <1>1, <1>2 DEF RootPlaced, AfterWork
    <2> QED BY <1>0, <1>2, <1>4, <2>3, <2>4, <2>5, LifeStep DEF Modes
  <1>6. RootPlaced'
    BY <1>0, <1>1, <1>2, <1>3 DEF RootPlaced, AfterWork, RootDone
  <1>7. HelpersPlaced'
    BY <1>0, <1>1, <1>2, <1>3 DEF RootPlaced, HelpersPlaced, AfterWork, Pool, RootDone
  <1>8. LocalsPlaced'
    BY <1>0, <1>1, <1>2, <1>3 DEF LocalsPlaced, Inductive, TypeOK, RootDone
  <1>9. ThievesPlaced'
    BY <1>0, <1>1, <1>2, ThievesStay DEF Inductive, Modes
  <1>10. ThreadsAlive'
    BY <1>0, <1>1, <1>2, VictimsStay DEF Inductive, Modes
  <1>11. RootOutlasts'
    <2>1. UNCHANGED <<right, rethrown, cancellingException, Joiners>> /\ Joiners \subseteq Helpers
      BY <1>2 DEF RootDone, stackVars, Inductive, TypeOK
    <2>2. RootOutlasts
      BY DEF Inductive
    <2>3. mode'[Root] \in AfterWork => right'[Root] = 0
      BY <1>0, <1>2, <1>3, <2>1, <2>2 DEF RootOutlasts, AfterWork, RootDone
    <2>4. ASSUME mode'[Root] = "returned", NEW u \in Threads PROVE mode'[u] \notin {"steal", "body"}
      BY <1>0, <1>2, <1>3, <2>2, <2>4 DEF RootOutlasts
    <2>5. ASSUME mode'[Root] \in AfterWork \ {"returned"}, NEW u \in Joiners \union {Root}, mode'[u] \in {"count", "await"}
          PROVE  rethrown'[u] = cancellingException'
      <3>1. u \in Threads /\ mode[u] \in {"count", "await"}
        BY <1>0, <1>3, <2>1, <2>5
      <3>2. mode[Root] \in AfterWork \ {"returned"}
        <4>1. u = Root => mode[Root] \in AfterWork
          BY <3>1 DEF AfterWork
        <4>2. u # Root => mode[Root] \in AfterWork
          BY <1>1, <2>1, <2>5, <3>1 DEF HelpersPlaced
        <4>3. mode[Root] # "returned"
          BY <1>0, <1>2, <1>3, <2>5
        <4> QED BY <4>1, <4>2, <4>3
      <3> QED BY <2>1, <2>2, <3>1, <3>2 DEF RootOutlasts
    <2> QED BY <2>1, <2>3, <2>4, <2>5 DEF RootOutlasts
  <1>12. ExceptionReachesRoot'
    BY <1>0, <1>1, <1>2, <1>3 DEF Inductive, ExceptionReachesRoot, RootOutlasts, AfterWork, TypeOK, RootDone
  <1>13. ThreadsCounted'
    BY <1>4, <1>6, <1>7, <1>8, <1>9, CountedIs, PTL
  <1> QED BY <1>5, <1>10, <1>11, <1>12, <1>13 DEF Inductive

LEMMA RemoveSchedulerKeeps == ASSUME Inductive, RemoveScheduler, UNCHANGED Joiners PROVE Inductive'
  <1> USE DEF In, lifeVars, workVars
  <1>0. Root \in Threads /\ Root \notin Helpers /\ Root \in Threads /\ Threads = {Root} \union Helpers
    BY DEF Threads
  <1>1. RootPlaced /\ HelpersPlaced /\ LocalsPlaced /\ ThievesPlaced /\ Counters
    BY CountedIs DEF Inductive
  <1>2. mode[Root] = "remove" /\ Enter(Root, "leave") /\ UNCHANGED <<stackVars, frames, thief>>
    BY <1>0, <1>1 DEF RemoveScheduler
  <1>3. mode' \in [Threads -> Modes] /\ \A u \in Threads : mode'[u] = IF u = Root THEN "leave" ELSE mode[u]
    <2>1. mode \in [Threads -> Modes] /\ "leave" \in Modes
      BY DEF Inductive, TypeOK, Modes
    <2>2. mode' = [mode EXCEPT ![Root] = "leave"]
      BY <1>2 DEF Enter
    <2> QED BY <1>0, <2>1, <2>2
  <1>4. Counters' /\ threadCounter' \in Nat /\ anyTasksRunning' \in Nat
    <2>1. threadCounter' = threadCounter /\ anyTasksRunning' = anyTasksRunning
      BY DEF RemoveScheduler, allocThreadIndex
    <2>2. threadCounter \in Nat /\ anyTasksRunning \in Nat
      BY DEF Inductive, TypeOK
    <2>3. /\ threadCounter' \in Int /\ threadCounter' + One("remove", HereModes) = threadCounter + One("leave", HereModes)
          /\ anyTasksRunning' \in Int /\ anyTasksRunning' + One("remove", BusyModes) = anyTasksRunning + One("leave", BusyModes)
      BY <2>1, <2>2 DEF One, HereModes, BusyModes
    <2> QED BY <1>0, <1>2, <2>3, CountStep DEF Inductive, Modes
  <1>5. TypeOK' /\ FramesNested' /\ StacksKept' /\ Grounded' /\ DependenciesCount' /\ OnePlace' /\ NoneSkipped'
    <2>1. Running(Root) => "remove" \in {"work", "body"}
      BY <1>0, <1>2 DEF Inductive, FramesNested
    <2>2. right[Root] > 0 => "remove" \in {"announce", "add", "work", "steal", "body"}
      BY <1>0, <1>2 DEF Inductive, FramesNested
    <2>3. /\ threadLocal' \subseteq Threads /\ hasRootTask' \in BOOLEAN /\ inPool' \in BOOLEAN
          /\ cancellingException' \in Tasks \union {Nobody} /\ rethrown' \in [Threads -> Tasks \union {Nobody}]
          /\ UNCHANGED <<spawned, executed>>
          /\ cancellingException' = Nobody => cancellingException = Nobody \/ (Root = Root /\ "leave" = "returned")
      BY <1>0 DEF RemoveScheduler, Inductive, TypeOK
    <2>4. (Running(Root) => "leave" \in {"work", "body"}) /\ (right[Root] > 0 => "leave" \in {"announce", "add", "work", "body"})
      BY <1>0, <2>1, <2>2 DEF RemoveScheduler, Inductive, TypeOK, FramesNested
    <2>5. Root = Root => ("leave" \in {"out", "push"} <=> mode[Root] \in {"out", "push"}) /\ mode[Root] # "returned"
      BY <1>1, <1>2 DEF RootPlaced, AfterWork
    <2> QED BY <1>0, <1>2, <1>4, <2>3, <2>4, <2>5, LifeStep DEF Modes
  <1>6. RootPlaced'
    BY <1>0, <1>1, <1>2, <1>3 DEF RootPlaced, AfterWork, RemoveScheduler
  <1>7. HelpersPlaced'
    BY <1>0, <1>1, <1>2, <1>3 DEF RootPlaced, HelpersPlaced, AfterWork, Pool, RemoveScheduler
  <1>8. LocalsPlaced'
    BY <1>0, <1>1, <1>2, <1>3 DEF LocalsPlaced, Inductive, TypeOK, RemoveScheduler
  <1>9. ThievesPlaced'
    BY <1>0, <1>1, <1>2, ThievesStay DEF Inductive, Modes
  <1>10. ThreadsAlive'
    BY <1>0, <1>1, <1>2, VictimsStay DEF Inductive, Modes
  <1>11. RootOutlasts'
    <2>1. UNCHANGED <<right, rethrown, cancellingException, Joiners>> /\ Joiners \subseteq Helpers
      BY <1>2 DEF RemoveScheduler, stackVars, Inductive, TypeOK
    <2>2. RootOutlasts
      BY DEF Inductive
    <2>3. mode'[Root] \in AfterWork => right'[Root] = 0
      BY <1>0, <1>2, <1>3, <2>1, <2>2 DEF RootOutlasts, AfterWork, RemoveScheduler
    <2>4. ASSUME mode'[Root] = "returned", NEW u \in Threads PROVE mode'[u] \notin {"steal", "body"}
      BY <1>0, <1>2, <1>3, <2>2, <2>4 DEF RootOutlasts
    <2>5. ASSUME mode'[Root] \in AfterWork \ {"returned"}, NEW u \in Joiners \union {Root}, mode'[u] \in {"count", "await"}
          PROVE  rethrown'[u] = cancellingException'
      <3>1. u \in Threads /\ mode[u] \in {"count", "await"}
        BY <1>0, <1>3, <2>1, <2>5
      <3>2. mode[Root] \in AfterWork \ {"returned"}
        <4>1. u = Root => mode[Root] \in AfterWork
          BY <3>1 DEF AfterWork
        <4>2. u # Root => mode[Root] \in AfterWork
          BY <1>1, <2>1, <2>5, <3>1 DEF HelpersPlaced
        <4>3. mode[Root] # "returned"
          BY <1>0, <1>2, <1>3, <2>5
        <4> QED BY <4>1, <4>2, <4>3
      <3> QED BY <2>1, <2>2, <3>1, <3>2 DEF RootOutlasts
    <2> QED BY <2>1, <2>3, <2>4, <2>5 DEF RootOutlasts
  <1>12. ExceptionReachesRoot'
    BY <1>0, <1>1, <1>2, <1>3 DEF Inductive, ExceptionReachesRoot, RootOutlasts, AfterWork, TypeOK, RemoveScheduler
  <1>13. ThreadsCounted'
    BY <1>4, <1>6, <1>7, <1>8, <1>9, CountedIs, PTL
  <1> QED BY <1>5, <1>10, <1>11, <1>12, <1>13 DEF Inductive

LEMMA PoolEntersKeeps == ASSUME Inductive, NEW t \in Threads, PoolEnters(t), UNCHANGED Joiners PROVE Inductive'
  <1> USE DEF In, lifeVars, workVars
  <1>0. Root \in Threads /\ Root \notin Helpers /\ t \in Threads /\ Threads = {Root} \union Helpers
    BY DEF Threads
  <1>1. RootPlaced /\ HelpersPlaced /\ LocalsPlaced /\ ThievesPlaced /\ Counters
    BY CountedIs DEF Inductive
  <1>2. mode[t] = "out" /\ Enter(t, "enter") /\ UNCHANGED <<stackVars, frames, thief>> /\ t \in Helpers
    BY <1>0, <1>1 DEF PoolEnters, Pool
  <1>3. mode' \in [Threads -> Modes] /\ \A u \in Threads : mode'[u] = IF u = t THEN "enter" ELSE mode[u]
    <2>1. mode \in [Threads -> Modes] /\ "enter" \in Modes
      BY DEF Inductive, TypeOK, Modes
    <2>2. mode' = [mode EXCEPT ![t] = "enter"]
      BY <1>2 DEF Enter
    <2> QED BY <1>0, <2>1, <2>2
  <1>4. Counters' /\ threadCounter' \in Nat /\ anyTasksRunning' \in Nat
    <2>1. threadCounter' = threadCounter + 1 /\ anyTasksRunning' = anyTasksRunning
      BY DEF PoolEnters, allocThreadIndex
    <2>2. threadCounter \in Nat /\ anyTasksRunning \in Nat
      BY DEF Inductive, TypeOK
    <2>3. /\ threadCounter' \in Int /\ threadCounter' + One("out", HereModes) = threadCounter + One("enter", HereModes)
          /\ anyTasksRunning' \in Int /\ anyTasksRunning' + One("out", BusyModes) = anyTasksRunning + One("enter", BusyModes)
      BY <2>1, <2>2 DEF One, HereModes, BusyModes
    <2> QED BY <1>0, <1>2, <2>3, CountStep DEF Inductive, Modes
  <1>5. TypeOK' /\ FramesNested' /\ StacksKept' /\ Grounded' /\ DependenciesCount' /\ OnePlace' /\ NoneSkipped'
    <2>1. Running(t) => "out" \in {"work", "body"}
      BY <1>0, <1>2 DEF Inductive, FramesNested
    <2>2. right[t] > 0 => "out" \in {"announce", "add", "work", "steal", "body"}
      BY <1>0, <1>2 DEF Inductive, FramesNested
    <2>3. /\ threadLocal' \subseteq Threads /\ hasRootTask' \in BOOLEAN /\ inPool' \in BOOLEAN
          /\ cancellingException' \in Tasks \union {Nobody} /\ rethrown' \in [Threads -> Tasks \union {Nobody}]
          /\ UNCHANGED <<spawned, executed>>
          /\ cancellingException' = Nobody => cancellingException = Nobody \/ (t = Root /\ "enter" = "returned")
      BY <1>0 DEF PoolEnters, Inductive, TypeOK
    <2>4. (Running(t) => "enter" \in {"work", "body"}) /\ (right[t] > 0 => "enter" \in {"announce", "add", "work", "body"})
      BY <1>0, <2>1, <2>2 DEF PoolEnters, Inductive, TypeOK, FramesNested
    <2>5. t = Root => ("enter" \in {"out", "push"} <=> mode[t] \in {"out", "push"}) /\ mode[t] # "returned"
      BY <1>1, <1>2 DEF RootPlaced, AfterWork
    <2> QED BY <1>0, <1>2, <1>4, <2>3, <2>4, <2>5, LifeStep DEF Modes
  <1>6. RootPlaced'
    BY <1>0, <1>1, <1>2, <1>3 DEF RootPlaced, AfterWork, PoolEnters
  <1>7. HelpersPlaced'
    BY <1>0, <1>1, <1>2, <1>3 DEF RootPlaced, HelpersPlaced, AfterWork, Pool, PoolEnters
  <1>8. LocalsPlaced'
    BY <1>0, <1>1, <1>2, <1>3 DEF LocalsPlaced, Inductive, TypeOK, PoolEnters
  <1>9. ThievesPlaced'
    BY <1>0, <1>1, <1>2, ThievesStay DEF Inductive, Modes
  <1>10. ThreadsAlive'
    BY <1>0, <1>1, <1>2, VictimsStay DEF Inductive, Modes
  <1>11. RootOutlasts'
    <2>1. UNCHANGED <<right, rethrown, cancellingException, Joiners>> /\ Joiners \subseteq Helpers
      BY <1>2 DEF PoolEnters, stackVars, Inductive, TypeOK
    <2>2. RootOutlasts
      BY DEF Inductive
    <2>3. mode'[Root] \in AfterWork => right'[Root] = 0
      BY <1>0, <1>2, <1>3, <2>1, <2>2 DEF RootOutlasts, AfterWork, PoolEnters
    <2>4. ASSUME mode'[Root] = "returned", NEW u \in Threads PROVE mode'[u] \notin {"steal", "body"}
      BY <1>0, <1>2, <1>3, <2>2, <2>4 DEF RootOutlasts
    <2>5. ASSUME mode'[Root] \in AfterWork \ {"returned"}, NEW u \in Joiners \union {Root}, mode'[u] \in {"count", "await"}
          PROVE  rethrown'[u] = cancellingException'
      <3>1. u \in Threads /\ mode[u] \in {"count", "await"}
        BY <1>0, <1>3, <2>1, <2>5
      <3>2. mode[Root] \in AfterWork \ {"returned"}
        <4>1. u = Root => mode[Root] \in AfterWork
          BY <3>1 DEF AfterWork
        <4>2. u # Root => mode[Root] \in AfterWork
          BY <1>1, <2>1, <2>5, <3>1 DEF HelpersPlaced
        <4>3. mode[Root] # "returned"
          BY <1>0, <1>2, <1>3, <2>5
        <4> QED BY <4>1, <4>2, <4>3
      <3> QED BY <2>1, <2>2, <3>1, <3>2 DEF RootOutlasts
    <2> QED BY <2>1, <2>3, <2>4, <2>5 DEF RootOutlasts
  <1>12. ExceptionReachesRoot'
    BY <1>0, <1>1, <1>2, <1>3 DEF Inductive, ExceptionReachesRoot, RootOutlasts, AfterWork, TypeOK, PoolEnters
  <1>13. ThreadsCounted'
    BY <1>4, <1>6, <1>7, <1>8, <1>9, CountedIs, PTL
  <1> QED BY <1>5, <1>10, <1>11, <1>12, <1>13 DEF Inductive

LEMMA JoinKeeps == ASSUME Inductive, NEW t \in Threads, Join(t), UNCHANGED Joiners PROVE Inductive'
  <1> USE DEF In, lifeVars, workVars
  <1>0. Root \in Threads /\ Root \notin Helpers /\ t \in Threads /\ Threads = {Root} \union Helpers
    BY DEF Threads
  <1>1. RootPlaced /\ HelpersPlaced /\ LocalsPlaced /\ ThievesPlaced /\ Counters
    BY CountedIs DEF Inductive
  <1>2. mode[t] = "out" /\ Enter(t, "wait") /\ UNCHANGED <<stackVars, frames, thief>> /\ t \in Helpers
    BY <1>0, <1>1 DEF Join, Inductive, TypeOK
  <1>3. mode' \in [Threads -> Modes] /\ \A u \in Threads : mode'[u] = IF u = t THEN "wait" ELSE mode[u]
    <2>1. mode \in [Threads -> Modes] /\ "wait" \in Modes
      BY DEF Inductive, TypeOK, Modes
    <2>2. mode' = [mode EXCEPT ![t] = "wait"]
      BY <1>2 DEF Enter
    <2> QED BY <1>0, <2>1, <2>2
  <1>4. Counters' /\ threadCounter' \in Nat /\ anyTasksRunning' \in Nat
    <2>1. threadCounter' = threadCounter + 1 /\ anyTasksRunning' = anyTasksRunning
      BY DEF Join, allocThreadIndex
    <2>2. threadCounter \in Nat /\ anyTasksRunning \in Nat
      BY DEF Inductive, TypeOK
    <2>3. /\ threadCounter' \in Int /\ threadCounter' + One("out", HereModes) = threadCounter + One("wait", HereModes)
          /\ anyTasksRunning' \in Int /\ anyTasksRunning' + One("out", BusyModes) = anyTasksRunning + One("wait", BusyModes)
      BY <2>1, <2>2 DEF One, HereModes, BusyModes
    <2> QED BY <1>0, <1>2, <2>3, CountStep DEF Inductive, Modes
  <1>5. TypeOK' /\ FramesNested' /\ StacksKept' /\ Grounded' /\ DependenciesCount' /\ OnePlace' /\ NoneSkipped'
    <2>1. Running(t) => "out" \in {"work", "body"}
      BY <1>0, <1>2 DEF Inductive, FramesNested
    <2>2. right[t] > 0 => "out" \in {"announce", "add", "work", "steal", "body"}
      BY <1>0, <1>2 DEF Inductive, FramesNested
    <2>3. /\ threadLocal' \subseteq Threads /\ hasRootTask' \in BOOLEAN /\ inPool' \in BOOLEAN
          /\ cancellingException' \in Tasks \union {Nobody} /\ rethrown' \in [Threads -> Tasks \union {Nobody}]
          /\ UNCHANGED <<spawned, executed>>
          /\ cancellingException' = Nobody => cancellingException = Nobody \/ (t = Root /\ "wait" = "returned")
      BY <1>0 DEF Join, Inductive, TypeOK
    <2>4. (Running(t) => "wait" \in {"work", "body"}) /\ (right[t] > 0 => "wait" \in {"announce", "add", "work", "body"})
      BY <1>0, <2>1, <2>2 DEF Join, Inductive, TypeOK, FramesNested
    <2>5. t = Root => ("wait" \in {"out", "push"} <=> mode[t] \in {"out", "push"}) /\ mode[t] # "returned"
      BY <1>1, <1>2 DEF RootPlaced, AfterWork
    <2> QED BY <1>0, <1>2, <1>4, <2>3, <2>4, <2>5, LifeStep DEF Modes
  <1>6. RootPlaced'
    BY <1>0, <1>1, <1>2, <1>3 DEF RootPlaced, AfterWork, Join
  <1>7. HelpersPlaced'
    BY <1>0, <1>1, <1>2, <1>3 DEF RootPlaced, HelpersPlaced, AfterWork, Pool, Join
  <1>8. LocalsPlaced'
    BY <1>0, <1>1, <1>2, <1>3 DEF LocalsPlaced, Inductive, TypeOK, Join
  <1>9. ThievesPlaced'
    BY <1>0, <1>1, <1>2, ThievesStay DEF Inductive, Modes
  <1>10. ThreadsAlive'
    BY <1>0, <1>1, <1>2, VictimsStay DEF Inductive, Modes
  <1>11. RootOutlasts'
    <2>1. UNCHANGED <<right, rethrown, cancellingException, Joiners>> /\ Joiners \subseteq Helpers
      BY <1>2 DEF Join, stackVars, Inductive, TypeOK
    <2>2. RootOutlasts
      BY DEF Inductive
    <2>3. mode'[Root] \in AfterWork => right'[Root] = 0
      BY <1>0, <1>2, <1>3, <2>1, <2>2 DEF RootOutlasts, AfterWork, Join
    <2>4. ASSUME mode'[Root] = "returned", NEW u \in Threads PROVE mode'[u] \notin {"steal", "body"}
      BY <1>0, <1>2, <1>3, <2>2, <2>4 DEF RootOutlasts
    <2>5. ASSUME mode'[Root] \in AfterWork \ {"returned"}, NEW u \in Joiners \union {Root}, mode'[u] \in {"count", "await"}
          PROVE  rethrown'[u] = cancellingException'
      <3>1. u \in Threads /\ mode[u] \in {"count", "await"}
        BY <1>0, <1>3, <2>1, <2>5
      <3>2. mode[Root] \in AfterWork \ {"returned"}
        <4>1. u = Root => mode[Root] \in AfterWork
          BY <3>1 DEF AfterWork
        <4>2. u # Root => mode[Root] \in AfterWork
          BY <1>1, <2>1, <2>5, <3>1 DEF HelpersPlaced
        <4>3. mode[Root] # "returned"
          BY <1>0, <1>2, <1>3, <2>5
        <4> QED BY <4>1, <4>2, <4>3
      <3> QED BY <2>1, <2>2, <3>1, <3>2 DEF RootOutlasts
    <2> QED BY <2>1, <2>3, <2>4, <2>5 DEF RootOutlasts
  <1>12. ExceptionReachesRoot'
    BY <1>0, <1>1, <1>2, <1>3 DEF Inductive, ExceptionReachesRoot, RootOutlasts, AfterWork, TypeOK, Join
  <1>13. ThreadsCounted'
    BY <1>4, <1>6, <1>7, <1>8, <1>9, CountedIs, PTL
  <1> QED BY <1>5, <1>10, <1>11, <1>12, <1>13 DEF Inductive

LEMMA WokenKeeps == ASSUME Inductive, NEW t \in Threads, Woken(t), UNCHANGED Joiners PROVE Inductive'
  <1> USE DEF In, lifeVars, workVars
  <1>0. Root \in Threads /\ Root \notin Helpers /\ t \in Threads /\ Threads = {Root} \union Helpers
    BY DEF Threads
  <1>1. RootPlaced /\ HelpersPlaced /\ LocalsPlaced /\ ThievesPlaced /\ Counters
    BY CountedIs DEF Inductive
  <1>2. mode[t] = "wait" /\ Enter(t, "enter") /\ UNCHANGED <<stackVars, frames, thief>> /\ t \in Helpers
    BY <1>0, <1>1 DEF Woken, RootPlaced, AfterWork
  <1>3. mode' \in [Threads -> Modes] /\ \A u \in Threads : mode'[u] = IF u = t THEN "enter" ELSE mode[u]
    <2>1. mode \in [Threads -> Modes] /\ "enter" \in Modes
      BY DEF Inductive, TypeOK, Modes
    <2>2. mode' = [mode EXCEPT ![t] = "enter"]
      BY <1>2 DEF Enter
    <2> QED BY <1>0, <2>1, <2>2
  <1>4. Counters' /\ threadCounter' \in Nat /\ anyTasksRunning' \in Nat
    <2>1. threadCounter' = threadCounter /\ anyTasksRunning' = anyTasksRunning
      BY DEF Woken, allocThreadIndex
    <2>2. threadCounter \in Nat /\ anyTasksRunning \in Nat
      BY DEF Inductive, TypeOK
    <2>3. /\ threadCounter' \in Int /\ threadCounter' + One("wait", HereModes) = threadCounter + One("enter", HereModes)
          /\ anyTasksRunning' \in Int /\ anyTasksRunning' + One("wait", BusyModes) = anyTasksRunning + One("enter", BusyModes)
      BY <2>1, <2>2 DEF One, HereModes, BusyModes
    <2> QED BY <1>0, <1>2, <2>3, CountStep DEF Inductive, Modes
  <1>5. TypeOK' /\ FramesNested' /\ StacksKept' /\ Grounded' /\ DependenciesCount' /\ OnePlace' /\ NoneSkipped'
    <2>1. Running(t) => "wait" \in {"work", "body"}
      BY <1>0, <1>2 DEF Inductive, FramesNested
    <2>2. right[t] > 0 => "wait" \in {"announce", "add", "work", "steal", "body"}
      BY <1>0, <1>2 DEF Inductive, FramesNested
    <2>3. /\ threadLocal' \subseteq Threads /\ hasRootTask' \in BOOLEAN /\ inPool' \in BOOLEAN
          /\ cancellingException' \in Tasks \union {Nobody} /\ rethrown' \in [Threads -> Tasks \union {Nobody}]
          /\ UNCHANGED <<spawned, executed>>
          /\ cancellingException' = Nobody => cancellingException = Nobody \/ (t = Root /\ "enter" = "returned")
      BY <1>0 DEF Woken, Inductive, TypeOK
    <2>4. (Running(t) => "enter" \in {"work", "body"}) /\ (right[t] > 0 => "enter" \in {"announce", "add", "work", "body"})
      BY <1>0, <2>1, <2>2 DEF Woken, Inductive, TypeOK, FramesNested
    <2>5. t = Root => ("enter" \in {"out", "push"} <=> mode[t] \in {"out", "push"}) /\ mode[t] # "returned"
      BY <1>1, <1>2 DEF RootPlaced, AfterWork
    <2> QED BY <1>0, <1>2, <1>4, <2>3, <2>4, <2>5, LifeStep DEF Modes
  <1>6. RootPlaced'
    BY <1>0, <1>1, <1>2, <1>3 DEF RootPlaced, AfterWork, Woken
  <1>7. HelpersPlaced'
    BY <1>0, <1>1, <1>2, <1>3 DEF RootPlaced, HelpersPlaced, AfterWork, Pool, Woken
  <1>8. LocalsPlaced'
    BY <1>0, <1>1, <1>2, <1>3 DEF LocalsPlaced, Inductive, TypeOK, Woken
  <1>9. ThievesPlaced'
    BY <1>0, <1>1, <1>2, ThievesStay DEF Inductive, Modes
  <1>10. ThreadsAlive'
    BY <1>0, <1>1, <1>2, VictimsStay DEF Inductive, Modes
  <1>11. RootOutlasts'
    <2>1. UNCHANGED <<right, rethrown, cancellingException, Joiners>> /\ Joiners \subseteq Helpers
      BY <1>2 DEF Woken, stackVars, Inductive, TypeOK
    <2>2. RootOutlasts
      BY DEF Inductive
    <2>3. mode'[Root] \in AfterWork => right'[Root] = 0
      BY <1>0, <1>2, <1>3, <2>1, <2>2 DEF RootOutlasts, AfterWork, Woken
    <2>4. ASSUME mode'[Root] = "returned", NEW u \in Threads PROVE mode'[u] \notin {"steal", "body"}
      BY <1>0, <1>2, <1>3, <2>2, <2>4 DEF RootOutlasts
    <2>5. ASSUME mode'[Root] \in AfterWork \ {"returned"}, NEW u \in Joiners \union {Root}, mode'[u] \in {"count", "await"}
          PROVE  rethrown'[u] = cancellingException'
      <3>1. u \in Threads /\ mode[u] \in {"count", "await"}
        BY <1>0, <1>3, <2>1, <2>5
      <3>2. mode[Root] \in AfterWork \ {"returned"}
        <4>1. u = Root => mode[Root] \in AfterWork
          BY <3>1 DEF AfterWork
        <4>2. u # Root => mode[Root] \in AfterWork
          BY <1>1, <2>1, <2>5, <3>1 DEF HelpersPlaced
        <4>3. mode[Root] # "returned"
          BY <1>0, <1>2, <1>3, <2>5
        <4> QED BY <4>1, <4>2, <4>3
      <3> QED BY <2>1, <2>2, <3>1, <3>2 DEF RootOutlasts
    <2> QED BY <2>1, <2>3, <2>4, <2>5 DEF RootOutlasts
  <1>12. ExceptionReachesRoot'
    BY <1>0, <1>1, <1>2, <1>3 DEF Inductive, ExceptionReachesRoot, RootOutlasts, AfterWork, TypeOK, Woken
  <1>13. ThreadsCounted'
    BY <1>4, <1>6, <1>7, <1>8, <1>9, CountedIs, PTL
  <1> QED BY <1>5, <1>10, <1>11, <1>12, <1>13 DEF Inductive

LEMMA EnterLoopKeeps == ASSUME Inductive, NEW t \in Threads, EnterLoop(t), UNCHANGED Joiners PROVE Inductive'
  <1> USE DEF In, lifeVars, workVars
  <1>0. Root \in Threads /\ Root \notin Helpers /\ t \in Threads /\ Threads = {Root} \union Helpers
    BY DEF Threads
  <1>1. RootPlaced /\ HelpersPlaced /\ LocalsPlaced /\ ThievesPlaced /\ Counters
    BY CountedIs DEF Inductive
  <1>2. mode[t] = "enter" /\ Enter(t, "loop") /\ UNCHANGED <<stackVars, frames, thief>> /\ t \in Helpers
    BY <1>0, <1>1 DEF EnterLoop, RootPlaced, AfterWork
  <1>3. mode' \in [Threads -> Modes] /\ \A u \in Threads : mode'[u] = IF u = t THEN "loop" ELSE mode[u]
    <2>1. mode \in [Threads -> Modes] /\ "loop" \in Modes
      BY DEF Inductive, TypeOK, Modes
    <2>2. mode' = [mode EXCEPT ![t] = "loop"]
      BY <1>2 DEF Enter
    <2> QED BY <1>0, <2>1, <2>2
  <1>4. Counters' /\ threadCounter' \in Nat /\ anyTasksRunning' \in Nat
    <2>1. threadCounter' = threadCounter /\ anyTasksRunning' = anyTasksRunning
      BY DEF EnterLoop, allocThreadIndex
    <2>2. threadCounter \in Nat /\ anyTasksRunning \in Nat
      BY DEF Inductive, TypeOK
    <2>3. /\ threadCounter' \in Int /\ threadCounter' + One("enter", HereModes) = threadCounter + One("loop", HereModes)
          /\ anyTasksRunning' \in Int /\ anyTasksRunning' + One("enter", BusyModes) = anyTasksRunning + One("loop", BusyModes)
      BY <2>1, <2>2 DEF One, HereModes, BusyModes
    <2> QED BY <1>0, <1>2, <2>3, CountStep DEF Inductive, Modes
  <1>5. TypeOK' /\ FramesNested' /\ StacksKept' /\ Grounded' /\ DependenciesCount' /\ OnePlace' /\ NoneSkipped'
    <2>1. Running(t) => "enter" \in {"work", "body"}
      BY <1>0, <1>2 DEF Inductive, FramesNested
    <2>2. right[t] > 0 => "enter" \in {"announce", "add", "work", "steal", "body"}
      BY <1>0, <1>2 DEF Inductive, FramesNested
    <2>3. /\ threadLocal' \subseteq Threads /\ hasRootTask' \in BOOLEAN /\ inPool' \in BOOLEAN
          /\ cancellingException' \in Tasks \union {Nobody} /\ rethrown' \in [Threads -> Tasks \union {Nobody}]
          /\ UNCHANGED <<spawned, executed>>
          /\ cancellingException' = Nobody => cancellingException = Nobody \/ (t = Root /\ "loop" = "returned")
      BY <1>0 DEF EnterLoop, Inductive, TypeOK
    <2>4. (Running(t) => "loop" \in {"work", "body"}) /\ (right[t] > 0 => "loop" \in {"announce", "add", "work", "body"})
      BY <1>0, <2>1, <2>2 DEF EnterLoop, Inductive, TypeOK, FramesNested
    <2>5. t = Root => ("loop" \in {"out", "push"} <=> mode[t] \in {"out", "push"}) /\ mode[t] # "returned"
      BY <1>1, <1>2 DEF RootPlaced, AfterWork
    <2> QED BY <1>0, <1>2, <1>4, <2>3, <2>4, <2>5, LifeStep DEF Modes
  <1>6. RootPlaced'
    BY <1>0, <1>1, <1>2, <1>3 DEF RootPlaced, AfterWork, EnterLoop
  <1>7. HelpersPlaced'
    BY <1>0, <1>1, <1>2, <1>3 DEF RootPlaced, HelpersPlaced, AfterWork, Pool, EnterLoop
  <1>8. LocalsPlaced'
    BY <1>0, <1>1, <1>2, <1>3 DEF LocalsPlaced, Inductive, TypeOK, EnterLoop
  <1>9. ThievesPlaced'
    BY <1>0, <1>1, <1>2, ThievesStay DEF Inductive, Modes
  <1>10. ThreadsAlive'
    BY <1>0, <1>1, <1>2, VictimsStay DEF Inductive, Modes
  <1>11. RootOutlasts'
    <2>1. UNCHANGED <<right, rethrown, cancellingException, Joiners>> /\ Joiners \subseteq Helpers
      BY <1>2 DEF EnterLoop, stackVars, Inductive, TypeOK
    <2>2. RootOutlasts
      BY DEF Inductive
    <2>3. mode'[Root] \in AfterWork => right'[Root] = 0
      BY <1>0, <1>2, <1>3, <2>1, <2>2 DEF RootOutlasts, AfterWork, EnterLoop
    <2>4. ASSUME mode'[Root] = "returned", NEW u \in Threads PROVE mode'[u] \notin {"steal", "body"}
      BY <1>0, <1>2, <1>3, <2>2, <2>4 DEF RootOutlasts
    <2>5. ASSUME mode'[Root] \in AfterWork \ {"returned"}, NEW u \in Joiners \union {Root}, mode'[u] \in {"count", "await"}
          PROVE  rethrown'[u] = cancellingException'
      <3>1. u \in Threads /\ mode[u] \in {"count", "await"}
        BY <1>0, <1>3, <2>1, <2>5
      <3>2. mode[Root] \in AfterWork \ {"returned"}
        <4>1. u = Root => mode[Root] \in AfterWork
          BY <3>1 DEF AfterWork
        <4>2. u # Root => mode[Root] \in AfterWork
          BY <1>1, <2>1, <2>5, <3>1 DEF HelpersPlaced
        <4>3. mode[Root] # "returned"
          BY <1>0, <1>2, <1>3, <2>5
        <4> QED BY <4>1, <4>2, <4>3
      <3> QED BY <2>1, <2>2, <3>1, <3>2 DEF RootOutlasts
    <2> QED BY <2>1, <2>3, <2>4, <2>5 DEF RootOutlasts
  <1>12. ExceptionReachesRoot'
    BY <1>0, <1>1, <1>2, <1>3 DEF Inductive, ExceptionReachesRoot, RootOutlasts, AfterWork, TypeOK, EnterLoop
  <1>13. ThreadsCounted'
    BY <1>4, <1>6, <1>7, <1>8, <1>9, CountedIs, PTL
  <1> QED BY <1>5, <1>10, <1>11, <1>12, <1>13 DEF Inductive

LEMMA BodyBeginsKeeps == ASSUME Inductive, NEW t \in Threads, BodyBegins(t), UNCHANGED Joiners PROVE Inductive'
  <1> USE DEF In, lifeVars, workVars
  <1>0. Root \in Threads /\ Root \notin Helpers /\ t \in Threads /\ Threads = {Root} \union Helpers
    BY DEF Threads
  <1>1. RootPlaced /\ HelpersPlaced /\ LocalsPlaced /\ ThievesPlaced /\ Counters
    BY CountedIs DEF Inductive
  <1>2. mode[t] = "steal" /\ Enter(t, "body") /\ UNCHANGED <<stackVars, frames, thief>> /\ t \in Helpers
    BY <1>0, <1>1 DEF BodyBegins, RootPlaced, AfterWork
  <1>3. mode' \in [Threads -> Modes] /\ \A u \in Threads : mode'[u] = IF u = t THEN "body" ELSE mode[u]
    <2>1. mode \in [Threads -> Modes] /\ "body" \in Modes
      BY DEF Inductive, TypeOK, Modes
    <2>2. mode' = [mode EXCEPT ![t] = "body"]
      BY <1>2 DEF Enter
    <2> QED BY <1>0, <2>1, <2>2
  <1>4. Counters' /\ threadCounter' \in Nat /\ anyTasksRunning' \in Nat
    <2>1. threadCounter' = threadCounter /\ anyTasksRunning' = anyTasksRunning + 1
      BY DEF BodyBegins, allocThreadIndex
    <2>2. threadCounter \in Nat /\ anyTasksRunning \in Nat
      BY DEF Inductive, TypeOK
    <2>3. /\ threadCounter' \in Int /\ threadCounter' + One("steal", HereModes) = threadCounter + One("body", HereModes)
          /\ anyTasksRunning' \in Int /\ anyTasksRunning' + One("steal", BusyModes) = anyTasksRunning + One("body", BusyModes)
      BY <2>1, <2>2 DEF One, HereModes, BusyModes
    <2> QED BY <1>0, <1>2, <2>3, CountStep DEF Inductive, Modes
  <1>5. TypeOK' /\ FramesNested' /\ StacksKept' /\ Grounded' /\ DependenciesCount' /\ OnePlace' /\ NoneSkipped'
    <2>1. Running(t) => "steal" \in {"work", "body"}
      BY <1>0, <1>2 DEF Inductive, FramesNested
    <2>2. right[t] > 0 => "steal" \in {"announce", "add", "work", "steal", "body"}
      BY <1>0, <1>2 DEF Inductive, FramesNested
    <2>3. /\ threadLocal' \subseteq Threads /\ hasRootTask' \in BOOLEAN /\ inPool' \in BOOLEAN
          /\ cancellingException' \in Tasks \union {Nobody} /\ rethrown' \in [Threads -> Tasks \union {Nobody}]
          /\ UNCHANGED <<spawned, executed>>
          /\ cancellingException' = Nobody => cancellingException = Nobody \/ (t = Root /\ "body" = "returned")
      BY <1>0 DEF BodyBegins, Inductive, TypeOK
    <2>4. (Running(t) => "body" \in {"work", "body"}) /\ (right[t] > 0 => "body" \in {"announce", "add", "work", "body"})
      BY <1>0, <2>1, <2>2 DEF BodyBegins, Inductive, TypeOK, FramesNested
    <2>5. t = Root => ("body" \in {"out", "push"} <=> mode[t] \in {"out", "push"}) /\ mode[t] # "returned"
      BY <1>1, <1>2 DEF RootPlaced, AfterWork
    <2> QED BY <1>0, <1>2, <1>4, <2>3, <2>4, <2>5, LifeStep DEF Modes
  <1>6. RootPlaced'
    BY <1>0, <1>1, <1>2, <1>3 DEF RootPlaced, AfterWork, BodyBegins
  <1>7. HelpersPlaced'
    BY <1>0, <1>1, <1>2, <1>3 DEF RootPlaced, HelpersPlaced, AfterWork, Pool, BodyBegins
  <1>8. LocalsPlaced'
    BY <1>0, <1>1, <1>2, <1>3 DEF LocalsPlaced, Inductive, TypeOK, BodyBegins
  <1>9. ThievesPlaced'
    BY <1>0, <1>1, <1>2, ThievesStay DEF Inductive, Modes
  <1>10. ThreadsAlive'
    BY <1>0, <1>1, <1>2, VictimsStay DEF Inductive, Modes
  <1>11. RootOutlasts'
    <2>1. UNCHANGED <<right, rethrown, cancellingException, Joiners>> /\ Joiners \subseteq Helpers
      BY <1>2 DEF BodyBegins, stackVars, Inductive, TypeOK
    <2>2. RootOutlasts
      BY DEF Inductive
    <2>3. mode'[Root] \in AfterWork => right'[Root] = 0
      BY <1>0, <1>2, <1>3, <2>1, <2>2 DEF RootOutlasts, AfterWork, BodyBegins
    <2>4. ASSUME mode'[Root] = "returned", NEW u \in Threads PROVE mode'[u] \notin {"steal", "body"}
      BY <1>0, <1>2, <1>3, <2>2, <2>4 DEF RootOutlasts
    <2>5. ASSUME mode'[Root] \in AfterWork \ {"returned"}, NEW u \in Joiners \union {Root}, mode'[u] \in {"count", "await"}
          PROVE  rethrown'[u] = cancellingException'
      <3>1. u \in Threads /\ mode[u] \in {"count", "await"}
        BY <1>0, <1>3, <2>1, <2>5
      <3>2. mode[Root] \in AfterWork \ {"returned"}
        <4>1. u = Root => mode[Root] \in AfterWork
          BY <3>1 DEF AfterWork
        <4>2. u # Root => mode[Root] \in AfterWork
          BY <1>1, <2>1, <2>5, <3>1 DEF HelpersPlaced
        <4>3. mode[Root] # "returned"
          BY <1>0, <1>2, <1>3, <2>5
        <4> QED BY <4>1, <4>2, <4>3
      <3> QED BY <2>1, <2>2, <3>1, <3>2 DEF RootOutlasts
    <2> QED BY <2>1, <2>3, <2>4, <2>5 DEF RootOutlasts
  <1>12. ExceptionReachesRoot'
    BY <1>0, <1>1, <1>2, <1>3 DEF Inductive, ExceptionReachesRoot, RootOutlasts, AfterWork, TypeOK, BodyBegins
  <1>13. ThreadsCounted'
    BY <1>4, <1>6, <1>7, <1>8, <1>9, CountedIs, PTL
  <1> QED BY <1>5, <1>10, <1>11, <1>12, <1>13 DEF Inductive

LEMMA BodyEndsKeeps == ASSUME Inductive, NEW t \in Threads, BodyEnds(t), UNCHANGED Joiners PROVE Inductive'
  <1> USE DEF In, lifeVars, workVars
  <1>0. Root \in Threads /\ Root \notin Helpers /\ t \in Threads /\ Threads = {Root} \union Helpers
    BY DEF Threads
  <1>1. RootPlaced /\ HelpersPlaced /\ LocalsPlaced /\ ThievesPlaced /\ Counters
    BY CountedIs DEF Inductive
  <1>2. mode[t] = "body" /\ Enter(t, "loop") /\ UNCHANGED <<stackVars, frames, thief>> /\ t \in Helpers
    BY <1>0, <1>1 DEF BodyEnds, RootPlaced, AfterWork
  <1>3. mode' \in [Threads -> Modes] /\ \A u \in Threads : mode'[u] = IF u = t THEN "loop" ELSE mode[u]
    <2>1. mode \in [Threads -> Modes] /\ "loop" \in Modes
      BY DEF Inductive, TypeOK, Modes
    <2>2. mode' = [mode EXCEPT ![t] = "loop"]
      BY <1>2 DEF Enter
    <2> QED BY <1>0, <2>1, <2>2
  <1>4. Counters' /\ threadCounter' \in Nat /\ anyTasksRunning' \in Nat
    <2>1. threadCounter' = threadCounter /\ anyTasksRunning' = anyTasksRunning - 1
      BY DEF BodyEnds, allocThreadIndex
    <2>2. threadCounter \in Nat /\ anyTasksRunning \in Nat
      BY DEF Inductive, TypeOK
    <2>3. /\ threadCounter' \in Int /\ threadCounter' + One("body", HereModes) = threadCounter + One("loop", HereModes)
          /\ anyTasksRunning' \in Int /\ anyTasksRunning' + One("body", BusyModes) = anyTasksRunning + One("loop", BusyModes)
      BY <2>1, <2>2 DEF One, HereModes, BusyModes
    <2> QED BY <1>0, <1>2, <2>3, CountStep DEF Inductive, Modes
  <1>5. TypeOK' /\ FramesNested' /\ StacksKept' /\ Grounded' /\ DependenciesCount' /\ OnePlace' /\ NoneSkipped'
    <2>1. Running(t) => "body" \in {"work", "body"}
      BY <1>0, <1>2 DEF Inductive, FramesNested
    <2>2. right[t] > 0 => "body" \in {"announce", "add", "work", "steal", "body"}
      BY <1>0, <1>2 DEF Inductive, FramesNested
    <2>3. /\ threadLocal' \subseteq Threads /\ hasRootTask' \in BOOLEAN /\ inPool' \in BOOLEAN
          /\ cancellingException' \in Tasks \union {Nobody} /\ rethrown' \in [Threads -> Tasks \union {Nobody}]
          /\ UNCHANGED <<spawned, executed>>
          /\ cancellingException' = Nobody => cancellingException = Nobody \/ (t = Root /\ "loop" = "returned")
      BY <1>0 DEF BodyEnds, Inductive, TypeOK
    <2>4. (Running(t) => "loop" \in {"work", "body"}) /\ (right[t] > 0 => "loop" \in {"announce", "add", "work", "body"})
      BY <1>0, <2>1, <2>2 DEF BodyEnds, Inductive, TypeOK, FramesNested
    <2>5. t = Root => ("loop" \in {"out", "push"} <=> mode[t] \in {"out", "push"}) /\ mode[t] # "returned"
      BY <1>1, <1>2 DEF RootPlaced, AfterWork
    <2> QED BY <1>0, <1>2, <1>4, <2>3, <2>4, <2>5, LifeStep DEF Modes
  <1>6. RootPlaced'
    BY <1>0, <1>1, <1>2, <1>3 DEF RootPlaced, AfterWork, BodyEnds
  <1>7. HelpersPlaced'
    BY <1>0, <1>1, <1>2, <1>3 DEF RootPlaced, HelpersPlaced, AfterWork, Pool, BodyEnds
  <1>8. LocalsPlaced'
    BY <1>0, <1>1, <1>2, <1>3 DEF LocalsPlaced, Inductive, TypeOK, BodyEnds
  <1>9. ThievesPlaced'
    BY <1>0, <1>1, <1>2, ThievesStay DEF Inductive, Modes
  <1>10. ThreadsAlive'
    BY <1>0, <1>1, <1>2, VictimsStay DEF Inductive, Modes
  <1>11. RootOutlasts'
    <2>1. UNCHANGED <<right, rethrown, cancellingException, Joiners>> /\ Joiners \subseteq Helpers
      BY <1>2 DEF BodyEnds, stackVars, Inductive, TypeOK
    <2>2. RootOutlasts
      BY DEF Inductive
    <2>3. mode'[Root] \in AfterWork => right'[Root] = 0
      BY <1>0, <1>2, <1>3, <2>1, <2>2 DEF RootOutlasts, AfterWork, BodyEnds
    <2>4. ASSUME mode'[Root] = "returned", NEW u \in Threads PROVE mode'[u] \notin {"steal", "body"}
      BY <1>0, <1>2, <1>3, <2>2, <2>4 DEF RootOutlasts
    <2>5. ASSUME mode'[Root] \in AfterWork \ {"returned"}, NEW u \in Joiners \union {Root}, mode'[u] \in {"count", "await"}
          PROVE  rethrown'[u] = cancellingException'
      <3>1. u \in Threads /\ mode[u] \in {"count", "await"}
        BY <1>0, <1>3, <2>1, <2>5
      <3>2. mode[Root] \in AfterWork \ {"returned"}
        <4>1. u = Root => mode[Root] \in AfterWork
          BY <3>1 DEF AfterWork
        <4>2. u # Root => mode[Root] \in AfterWork
          BY <1>1, <2>1, <2>5, <3>1 DEF HelpersPlaced
        <4>3. mode[Root] # "returned"
          BY <1>0, <1>2, <1>3, <2>5
        <4> QED BY <4>1, <4>2, <4>3
      <3> QED BY <2>1, <2>2, <3>1, <3>2 DEF RootOutlasts
    <2> QED BY <2>1, <2>3, <2>4, <2>5 DEF RootOutlasts
  <1>12. ExceptionReachesRoot'
    BY <1>0, <1>1, <1>2, <1>3 DEF Inductive, ExceptionReachesRoot, RootOutlasts, AfterWork, TypeOK, BodyEnds
  <1>13. ThreadsCounted'
    BY <1>4, <1>6, <1>7, <1>8, <1>9, CountedIs, PTL
  <1> QED BY <1>5, <1>10, <1>11, <1>12, <1>13 DEF Inductive

LEMMA LoopEndsKeeps == ASSUME Inductive, NEW t \in Threads, LoopEnds(t), UNCHANGED Joiners PROVE Inductive'
  <1> USE DEF In, lifeVars, workVars
  <1>0. Root \in Threads /\ Root \notin Helpers /\ t \in Threads /\ Threads = {Root} \union Helpers
    BY DEF Threads
  <1>1. RootPlaced /\ HelpersPlaced /\ LocalsPlaced /\ ThievesPlaced /\ Counters
    BY CountedIs DEF Inductive
  <1>2. mode[t] = "loop" /\ Enter(t, "leave") /\ UNCHANGED <<stackVars, frames, thief>> /\ t \in Helpers
    BY <1>0, <1>1 DEF LoopEnds, RootPlaced, AfterWork
  <1>3. mode' \in [Threads -> Modes] /\ \A u \in Threads : mode'[u] = IF u = t THEN "leave" ELSE mode[u]
    <2>1. mode \in [Threads -> Modes] /\ "leave" \in Modes
      BY DEF Inductive, TypeOK, Modes
    <2>2. mode' = [mode EXCEPT ![t] = "leave"]
      BY <1>2 DEF Enter
    <2> QED BY <1>0, <2>1, <2>2
  <1>03. mode[Root] \in AfterWork
    <2>1. mode[Root] \notin {"add", "work", "body"}
      BY <1>0, NobodyCounted DEF Inductive, LoopEnds
    <2>2. hasRootTask
      BY <1>0, <1>1, <1>2 DEF HelpersPlaced, Pool
    <2> QED BY <1>1, <2>1, <2>2 DEF RootPlaced
  <1>4. Counters' /\ threadCounter' \in Nat /\ anyTasksRunning' \in Nat
    <2>1. threadCounter' = threadCounter /\ anyTasksRunning' = anyTasksRunning
      BY DEF LoopEnds, allocThreadIndex
    <2>2. threadCounter \in Nat /\ anyTasksRunning \in Nat
      BY DEF Inductive, TypeOK
    <2>3. /\ threadCounter' \in Int /\ threadCounter' + One("loop", HereModes) = threadCounter + One("leave", HereModes)
          /\ anyTasksRunning' \in Int /\ anyTasksRunning' + One("loop", BusyModes) = anyTasksRunning + One("leave", BusyModes)
      BY <2>1, <2>2 DEF One, HereModes, BusyModes
    <2> QED BY <1>0, <1>2, <2>3, CountStep DEF Inductive, Modes
  <1>5. TypeOK' /\ FramesNested' /\ StacksKept' /\ Grounded' /\ DependenciesCount' /\ OnePlace' /\ NoneSkipped'
    <2>1. Running(t) => "loop" \in {"work", "body"}
      BY <1>0, <1>2 DEF Inductive, FramesNested
    <2>2. right[t] > 0 => "loop" \in {"announce", "add", "work", "steal", "body"}
      BY <1>0, <1>2 DEF Inductive, FramesNested
    <2>3. /\ threadLocal' \subseteq Threads /\ hasRootTask' \in BOOLEAN /\ inPool' \in BOOLEAN
          /\ cancellingException' \in Tasks \union {Nobody} /\ rethrown' \in [Threads -> Tasks \union {Nobody}]
          /\ UNCHANGED <<spawned, executed>>
          /\ cancellingException' = Nobody => cancellingException = Nobody \/ (t = Root /\ "leave" = "returned")
      BY <1>0 DEF LoopEnds, Inductive, TypeOK
    <2>4. (Running(t) => "leave" \in {"work", "body"}) /\ (right[t] > 0 => "leave" \in {"announce", "add", "work", "body"})
      BY <1>0, <2>1, <2>2 DEF LoopEnds, Inductive, TypeOK, FramesNested
    <2>5. t = Root => ("leave" \in {"out", "push"} <=> mode[t] \in {"out", "push"}) /\ mode[t] # "returned"
      BY <1>1, <1>2 DEF RootPlaced, AfterWork
    <2> QED BY <1>0, <1>2, <1>4, <2>3, <2>4, <2>5, LifeStep DEF Modes
  <1>6. RootPlaced'
    BY <1>0, <1>1, <1>2, <1>3 DEF RootPlaced, AfterWork, LoopEnds
  <1>7. HelpersPlaced'
    BY <1>0, <1>1, <1>2, <1>3, <1>03 DEF RootPlaced, HelpersPlaced, AfterWork, Pool, LoopEnds
  <1>8. LocalsPlaced'
    BY <1>0, <1>1, <1>2, <1>3 DEF LocalsPlaced, Inductive, TypeOK, LoopEnds
  <1>9. ThievesPlaced'
    BY <1>0, <1>1, <1>2, ThievesStay DEF Inductive, Modes, LoopEnds
  <1>10. ThreadsAlive'
    BY <1>0, <1>1, <1>2, VictimsStay DEF Inductive, Modes
  <1>11. RootOutlasts'
    <2>1. UNCHANGED <<right, rethrown, cancellingException, Joiners>> /\ Joiners \subseteq Helpers
      BY <1>2 DEF LoopEnds, stackVars, Inductive, TypeOK
    <2>2. RootOutlasts
      BY DEF Inductive
    <2>3. mode'[Root] \in AfterWork => right'[Root] = 0
      BY <1>0, <1>2, <1>3, <2>1, <2>2 DEF RootOutlasts, AfterWork, LoopEnds
    <2>4. ASSUME mode'[Root] = "returned", NEW u \in Threads PROVE mode'[u] \notin {"steal", "body"}
      BY <1>0, <1>2, <1>3, <2>2, <2>4 DEF RootOutlasts
    <2>5. ASSUME mode'[Root] \in AfterWork \ {"returned"}, NEW u \in Joiners \union {Root}, mode'[u] \in {"count", "await"}
          PROVE  rethrown'[u] = cancellingException'
      <3>1. u \in Threads /\ mode[u] \in {"count", "await"}
        BY <1>0, <1>3, <2>1, <2>5
      <3>2. mode[Root] \in AfterWork \ {"returned"}
        <4>1. u = Root => mode[Root] \in AfterWork
          BY <3>1 DEF AfterWork
        <4>2. u # Root => mode[Root] \in AfterWork
          BY <1>1, <2>1, <2>5, <3>1 DEF HelpersPlaced
        <4>3. mode[Root] # "returned"
          BY <1>0, <1>2, <1>3, <2>5
        <4> QED BY <4>1, <4>2, <4>3
      <3> QED BY <2>1, <2>2, <3>1, <3>2 DEF RootOutlasts
    <2> QED BY <2>1, <2>3, <2>4, <2>5 DEF RootOutlasts
  <1>12. ExceptionReachesRoot'
    BY <1>0, <1>1, <1>2, <1>3 DEF Inductive, ExceptionReachesRoot, RootOutlasts, AfterWork, TypeOK, LoopEnds
  <1>13. ThreadsCounted'
    BY <1>4, <1>6, <1>7, <1>8, <1>9, CountedIs, PTL
  <1> QED BY <1>5, <1>10, <1>11, <1>12, <1>13 DEF Inductive

LEMMA LeaveKeeps == ASSUME Inductive, NEW t \in Threads, Leave(t), UNCHANGED Joiners PROVE Inductive'
  <1> USE DEF In, lifeVars, workVars
  <1>0. Root \in Threads /\ Root \notin Helpers /\ t \in Threads /\ Threads = {Root} \union Helpers
    BY DEF Threads
  <1>1. RootPlaced /\ HelpersPlaced /\ LocalsPlaced /\ ThievesPlaced /\ Counters
    BY CountedIs DEF Inductive
  <1>2. mode[t] = "leave" /\ Enter(t, "count") /\ UNCHANGED <<stackVars, frames, thief>>
    BY <1>0, <1>1 DEF Leave
  <1>3. mode' \in [Threads -> Modes] /\ \A u \in Threads : mode'[u] = IF u = t THEN "count" ELSE mode[u]
    <2>1. mode \in [Threads -> Modes] /\ "count" \in Modes
      BY DEF Inductive, TypeOK, Modes
    <2>2. mode' = [mode EXCEPT ![t] = "count"]
      BY <1>2 DEF Enter
    <2> QED BY <1>0, <2>1, <2>2
  <1>03. mode[Root] \in AfterWork
    <2>1. t = Root => mode[Root] \in AfterWork
      BY <1>2 DEF AfterWork
    <2> QED BY <1>0, <1>1, <1>2, <2>1 DEF HelpersPlaced
  <1>4. Counters' /\ threadCounter' \in Nat /\ anyTasksRunning' \in Nat
    <2>1. threadCounter' = threadCounter /\ anyTasksRunning' = anyTasksRunning
      BY DEF Leave, allocThreadIndex
    <2>2. threadCounter \in Nat /\ anyTasksRunning \in Nat
      BY DEF Inductive, TypeOK
    <2>3. /\ threadCounter' \in Int /\ threadCounter' + One("leave", HereModes) = threadCounter + One("count", HereModes)
          /\ anyTasksRunning' \in Int /\ anyTasksRunning' + One("leave", BusyModes) = anyTasksRunning + One("count", BusyModes)
      BY <2>1, <2>2 DEF One, HereModes, BusyModes
    <2> QED BY <1>0, <1>2, <2>3, CountStep DEF Inductive, Modes
  <1>5. TypeOK' /\ FramesNested' /\ StacksKept' /\ Grounded' /\ DependenciesCount' /\ OnePlace' /\ NoneSkipped'
    <2>1. Running(t) => "leave" \in {"work", "body"}
      BY <1>0, <1>2 DEF Inductive, FramesNested
    <2>2. right[t] > 0 => "leave" \in {"announce", "add", "work", "steal", "body"}
      BY <1>0, <1>2 DEF Inductive, FramesNested
    <2>3. /\ threadLocal' \subseteq Threads /\ hasRootTask' \in BOOLEAN /\ inPool' \in BOOLEAN
          /\ cancellingException' \in Tasks \union {Nobody} /\ rethrown' \in [Threads -> Tasks \union {Nobody}]
          /\ UNCHANGED <<spawned, executed>>
          /\ cancellingException' = Nobody => cancellingException = Nobody \/ (t = Root /\ "count" = "returned")
      BY <1>0 DEF Leave, Inductive, TypeOK
    <2>4. (Running(t) => "count" \in {"work", "body"}) /\ (right[t] > 0 => "count" \in {"announce", "add", "work", "body"})
      BY <1>0, <2>1, <2>2 DEF Leave, Inductive, TypeOK, FramesNested
    <2>5. t = Root => ("count" \in {"out", "push"} <=> mode[t] \in {"out", "push"}) /\ mode[t] # "returned"
      BY <1>1, <1>2 DEF RootPlaced, AfterWork
    <2> QED BY <1>0, <1>2, <1>4, <2>3, <2>4, <2>5, LifeStep DEF Modes
  <1>6. RootPlaced'
    BY <1>0, <1>1, <1>2, <1>3 DEF RootPlaced, AfterWork, Leave
  <1>7. HelpersPlaced'
    BY <1>0, <1>1, <1>2, <1>3 DEF RootPlaced, HelpersPlaced, AfterWork, Pool, Leave
  <1>8. LocalsPlaced'
    BY <1>0, <1>1, <1>2, <1>3 DEF LocalsPlaced, Inductive, TypeOK, Leave
  <1>9. ThievesPlaced'
    BY <1>0, <1>1, <1>2, ThievesStay DEF Inductive, Modes
  <1>10. ThreadsAlive'
    BY <1>0, <1>1, <1>2, VictimsStay DEF Inductive, Modes
  <1>11. RootOutlasts'
    <2>1. UNCHANGED <<right, cancellingException, Joiners>> /\ Joiners \subseteq Helpers
      BY <1>2 DEF Leave, stackVars, Inductive, TypeOK
    <2>01. \A u \in Threads : rethrown'[u] = IF u = t THEN cancellingException ELSE rethrown[u]
      BY DEF Leave, Inductive, TypeOK
    <2>2. RootOutlasts
      BY DEF Inductive
    <2>3. mode'[Root] \in AfterWork => right'[Root] = 0
      BY <1>0, <1>2, <1>3, <2>1, <2>2 DEF RootOutlasts, AfterWork, Leave
    <2>4. ASSUME mode'[Root] = "returned", NEW u \in Threads PROVE mode'[u] \notin {"steal", "body"}
      BY <1>0, <1>2, <1>3, <2>2, <2>4 DEF RootOutlasts
    <2>5. ASSUME mode'[Root] \in AfterWork \ {"returned"}, NEW u \in Joiners \union {Root}, mode'[u] \in {"count", "await"}
          PROVE  rethrown'[u] = cancellingException'
      <3>0. u \in Threads
        BY <1>0, <2>1
      <3>1. CASE u = t
        BY <2>01, <2>1, <3>0, <3>1
      <3>2. CASE u # t
        <4>1. mode[u] \in {"count", "await"} /\ mode[Root] # "returned"
          BY <1>0, <1>2, <1>3, <2>5, <3>0, <3>2
        <4>2. rethrown[u] = cancellingException
          BY <1>03, <2>2, <4>1 DEF RootOutlasts
        <4> QED BY <2>01, <2>1, <3>0, <3>2, <4>2
      <3> QED BY <3>1, <3>2
    <2> QED BY <2>1, <2>3, <2>4, <2>5 DEF RootOutlasts
  <1>12. ExceptionReachesRoot'
    <2>1. ASSUME mode'[Root] \in {"count", "await", "returned"}, rethrown'[Root] = Nobody, NEW k \in Tasks PROVE executed'[k] = 1
      <3>1. executed' = executed /\ \A u \in Threads : rethrown'[u] = IF u = t THEN cancellingException ELSE rethrown[u]
        BY DEF Leave, Inductive, TypeOK
      <3>2. CASE t = Root
        <4>1. cancellingException = Nobody /\ mode[Root] \in AfterWork \ {"returned"}
          BY <1>0, <1>2, <2>1, <3>1, <3>2 DEF AfterWork
        <4> QED BY <3>1, <4>1, AllRan
      <3>3. CASE t # Root
        <4>1. mode[Root] \in {"count", "await", "returned"} /\ rethrown[Root] = Nobody
          BY <1>0, <1>3, <2>1, <3>1, <3>3
        <4> QED BY <3>1, <4>1 DEF Inductive, ExceptionReachesRoot
      <3> QED BY <3>2, <3>3
    <2>2. mode'[Root] \in {"count", "await"} => \A u \in Joiners' : mode'[u] \in {"count", "await"} => rethrown'[u] = rethrown'[Root]
      BY <1>11 DEF RootOutlasts, AfterWork
    <2> QED BY <2>1, <2>2 DEF ExceptionReachesRoot
  <1>13. ThreadsCounted'
    BY <1>4, <1>6, <1>7, <1>8, <1>9, CountedIs, PTL
  <1> QED BY <1>5, <1>10, <1>11, <1>12, <1>13 DEF Inductive

LEMMA CountDownKeeps == ASSUME Inductive, NEW t \in Threads, CountDown(t), UNCHANGED Joiners PROVE Inductive'
  <1> USE DEF In, lifeVars, workVars
  <1>0. Root \in Threads /\ Root \notin Helpers /\ t \in Threads /\ Threads = {Root} \union Helpers
    BY DEF Threads
  <1>1. RootPlaced /\ HelpersPlaced /\ LocalsPlaced /\ ThievesPlaced /\ Counters
    BY CountedIs DEF Inductive
  <1>2. mode[t] = "count" /\ Enter(t, "await") /\ UNCHANGED <<stackVars, frames, thief>>
    BY <1>0, <1>1 DEF CountDown
  <1>3. mode' \in [Threads -> Modes] /\ \A u \in Threads : mode'[u] = IF u = t THEN "await" ELSE mode[u]
    <2>1. mode \in [Threads -> Modes] /\ "await" \in Modes
      BY DEF Inductive, TypeOK, Modes
    <2>2. mode' = [mode EXCEPT ![t] = "await"]
      BY <1>2 DEF Enter
    <2> QED BY <1>0, <2>1, <2>2
  <1>03. mode[Root] \in AfterWork
    <2>1. t = Root => mode[Root] \in AfterWork
      BY <1>2 DEF AfterWork
    <2> QED BY <1>0, <1>1, <1>2, <2>1 DEF HelpersPlaced
  <1>4. Counters' /\ threadCounter' \in Nat /\ anyTasksRunning' \in Nat
    <2>1. threadCounter' = threadCounter - 1 /\ anyTasksRunning' = anyTasksRunning
      BY DEF CountDown, allocThreadIndex
    <2>2. threadCounter \in Nat /\ anyTasksRunning \in Nat
      BY DEF Inductive, TypeOK
    <2>3. /\ threadCounter' \in Int /\ threadCounter' + One("count", HereModes) = threadCounter + One("await", HereModes)
          /\ anyTasksRunning' \in Int /\ anyTasksRunning' + One("count", BusyModes) = anyTasksRunning + One("await", BusyModes)
      BY <2>1, <2>2 DEF One, HereModes, BusyModes
    <2> QED BY <1>0, <1>2, <2>3, CountStep DEF Inductive, Modes
  <1>5. TypeOK' /\ FramesNested' /\ StacksKept' /\ Grounded' /\ DependenciesCount' /\ OnePlace' /\ NoneSkipped'
    <2>1. Running(t) => "count" \in {"work", "body"}
      BY <1>0, <1>2 DEF Inductive, FramesNested
    <2>2. right[t] > 0 => "count" \in {"announce", "add", "work", "steal", "body"}
      BY <1>0, <1>2 DEF Inductive, FramesNested
    <2>3. /\ threadLocal' \subseteq Threads /\ hasRootTask' \in BOOLEAN /\ inPool' \in BOOLEAN
          /\ cancellingException' \in Tasks \union {Nobody} /\ rethrown' \in [Threads -> Tasks \union {Nobody}]
          /\ UNCHANGED <<spawned, executed>>
          /\ cancellingException' = Nobody => cancellingException = Nobody \/ (t = Root /\ "await" = "returned")
      BY <1>0 DEF CountDown, Inductive, TypeOK
    <2>4. (Running(t) => "await" \in {"work", "body"}) /\ (right[t] > 0 => "await" \in {"announce", "add", "work", "body"})
      BY <1>0, <2>1, <2>2 DEF CountDown, Inductive, TypeOK, FramesNested
    <2>5. t = Root => ("await" \in {"out", "push"} <=> mode[t] \in {"out", "push"}) /\ mode[t] # "returned"
      BY <1>1, <1>2 DEF RootPlaced, AfterWork
    <2> QED BY <1>0, <1>2, <1>4, <2>3, <2>4, <2>5, LifeStep DEF Modes
  <1>6. RootPlaced'
    BY <1>0, <1>1, <1>2, <1>3 DEF RootPlaced, AfterWork, CountDown
  <1>7. HelpersPlaced'
    BY <1>0, <1>1, <1>2, <1>3, <1>03 DEF RootPlaced, HelpersPlaced, AfterWork, Pool, CountDown
  <1>8. LocalsPlaced'
    BY <1>0, <1>1, <1>2, <1>3 DEF LocalsPlaced, Inductive, TypeOK, CountDown
  <1>9. ThievesPlaced'
    BY <1>0, <1>1, <1>2, ThievesStay DEF Inductive, Modes
  <1>10. ThreadsAlive'
    BY <1>0, <1>1, <1>2, VictimsStay DEF Inductive, Modes
  <1>11. RootOutlasts'
    <2>1. UNCHANGED <<right, rethrown, cancellingException, Joiners>> /\ Joiners \subseteq Helpers
      BY <1>2 DEF CountDown, stackVars, Inductive, TypeOK
    <2>2. RootOutlasts
      BY DEF Inductive
    <2>3. mode'[Root] \in AfterWork => right'[Root] = 0
      BY <1>0, <1>2, <1>3, <2>1, <2>2 DEF RootOutlasts, AfterWork, CountDown
    <2>4. ASSUME mode'[Root] = "returned", NEW u \in Threads PROVE mode'[u] \notin {"steal", "body"}
      BY <1>0, <1>2, <1>3, <2>2, <2>4 DEF RootOutlasts
    <2>5. ASSUME mode'[Root] \in AfterWork \ {"returned"}, NEW u \in Joiners \union {Root}, mode'[u] \in {"count", "await"}
          PROVE  rethrown'[u] = cancellingException'
      <3>1. u \in Threads /\ mode[u] \in {"count", "await"}
        BY <1>0, <1>2, <1>3, <2>1, <2>5
      <3>2. mode[Root] \in AfterWork \ {"returned"}
        <4>1. u = Root => mode[Root] \in AfterWork
          BY <3>1 DEF AfterWork
        <4>2. u # Root => mode[Root] \in AfterWork
          BY <1>1, <2>1, <2>5, <3>1 DEF HelpersPlaced
        <4>3. mode[Root] # "returned"
          BY <1>0, <1>2, <1>3, <2>5
        <4> QED BY <4>1, <4>2, <4>3
      <3> QED BY <2>1, <2>2, <3>1, <3>2 DEF RootOutlasts
    <2> QED BY <2>1, <2>3, <2>4, <2>5 DEF RootOutlasts
  <1>12. ExceptionReachesRoot'
    BY <1>0, <1>1, <1>2, <1>3 DEF Inductive, ExceptionReachesRoot, RootOutlasts, AfterWork, TypeOK, CountDown
  <1>13. ThreadsCounted'
    BY <1>4, <1>6, <1>7, <1>8, <1>9, CountedIs, PTL
  <1> QED BY <1>5, <1>10, <1>11, <1>12, <1>13 DEF Inductive

LEMMA ReturnKeeps == ASSUME Inductive, NEW t \in Threads, Return(t), UNCHANGED Joiners PROVE Inductive'
  <1> USE DEF In, lifeVars, workVars
  <1>0. Root \in Threads /\ Root \notin Helpers /\ t \in Threads /\ Threads = {Root} \union Helpers
    BY DEF Threads
  <1>1. RootPlaced /\ HelpersPlaced /\ LocalsPlaced /\ ThievesPlaced /\ Counters
    BY CountedIs DEF Inductive
  <1>02. PICK m \in {"out", "returned"} : /\ m = IF t \in Pool THEN "out" ELSE "returned"
                                          /\ cancellingException' = IF t = Root THEN Nobody ELSE cancellingException
    BY DEF Return
  <1>2. mode[t] = "await" /\ Enter(t, m) /\ UNCHANGED <<stackVars, frames, thief>> /\ (t = Root => m = "returned") /\ (t \in Helpers => (m = "out" <=> t \in Pool))
    BY <1>0, <1>1, <1>02 DEF Return, Pool
  <1>3. mode' \in [Threads -> Modes] /\ \A u \in Threads : mode'[u] = IF u = t THEN m ELSE mode[u]
    <2>1. mode \in [Threads -> Modes] /\ m \in Modes
      BY DEF Inductive, TypeOK, Modes
    <2>2. mode' = [mode EXCEPT ![t] = m]
      BY <1>2 DEF Enter
    <2> QED BY <1>0, <2>1, <2>2
  <1>03. /\ \A u \in Threads : mode[u] \in {"out", "await", "returned"}
        /\ \A u \in Threads : thief[u] = NotStealing
    <2>1. \A u \in Threads : mode[u] \in {"out", "await", "returned"}
      BY NobodyCounted DEF Inductive, Return
    <2>2. \A u \in Threads : Running(u) => mode[u] \in {"work", "body"}
      BY DEF Inductive, FramesNested
    <2> QED BY <1>1, <2>1, <2>2 DEF ThievesPlaced, Phase
  <1>4. Counters' /\ threadCounter' \in Nat /\ anyTasksRunning' \in Nat
    <2>1. threadCounter' = threadCounter /\ anyTasksRunning' = anyTasksRunning
      BY DEF Return, allocThreadIndex
    <2>2. threadCounter \in Nat /\ anyTasksRunning \in Nat
      BY DEF Inductive, TypeOK
    <2>3. /\ threadCounter' \in Int /\ threadCounter' + One("await", HereModes) = threadCounter + One(m, HereModes)
          /\ anyTasksRunning' \in Int /\ anyTasksRunning' + One("await", BusyModes) = anyTasksRunning + One(m, BusyModes)
      BY <2>1, <2>2 DEF One, HereModes, BusyModes
    <2> QED BY <1>0, <1>2, <2>3, CountStep DEF Inductive, Modes
  <1>5. TypeOK' /\ FramesNested' /\ StacksKept' /\ Grounded' /\ DependenciesCount' /\ OnePlace' /\ NoneSkipped'
    <2>1. Running(t) => "await" \in {"work", "body"}
      BY <1>0, <1>2 DEF Inductive, FramesNested
    <2>2. right[t] > 0 => "await" \in {"announce", "add", "work", "steal", "body"}
      BY <1>0, <1>2 DEF Inductive, FramesNested
    <2>3. /\ threadLocal' \subseteq Threads /\ hasRootTask' \in BOOLEAN /\ inPool' \in BOOLEAN
          /\ cancellingException' \in Tasks \union {Nobody} /\ rethrown' \in [Threads -> Tasks \union {Nobody}]
          /\ UNCHANGED <<spawned, executed>>
          /\ cancellingException' = Nobody => cancellingException = Nobody \/ (t = Root /\ m = "returned")
      BY <1>0, <1>02, <1>2 DEF Return, Inductive, TypeOK
    <2>4. (Running(t) => m \in {"work", "body"}) /\ (right[t] > 0 => m \in {"announce", "add", "work", "body"})
      BY <1>0, <2>1, <2>2 DEF Return, Inductive, TypeOK, FramesNested
    <2>5. t = Root => (m \in {"out", "push"} <=> mode[t] \in {"out", "push"}) /\ mode[t] # "returned"
      BY <1>1, <1>2 DEF RootPlaced, AfterWork
    <2> QED BY <1>0, <1>2, <1>4, <2>3, <2>4, <2>5, LifeStep DEF Modes
  <1>6. RootPlaced'
    BY <1>0, <1>1, <1>2, <1>3 DEF RootPlaced, AfterWork, Return
  <1>7. HelpersPlaced'
    BY <1>0, <1>1, <1>2, <1>3 DEF RootPlaced, HelpersPlaced, AfterWork, Pool, Return
  <1>8. LocalsPlaced'
    BY <1>0, <1>1, <1>2, <1>3 DEF LocalsPlaced, Inductive, TypeOK, Return
  <1>9. ThievesPlaced'
    BY <1>0, <1>1, <1>2, ThievesStay DEF Inductive, Modes
  <1>10. ThreadsAlive'
    BY <1>2, <1>03 DEF ThreadsAlive
  <1>11. RootOutlasts'
    <2>1. UNCHANGED <<right, rethrown, Joiners>> /\ Joiners \subseteq Helpers
      BY <1>2 DEF Return, stackVars, Inductive, TypeOK
    <2>2. RootOutlasts
      BY DEF Inductive
    <2>3. mode'[Root] \in AfterWork => right'[Root] = 0
      BY <1>0, <1>2, <1>3, <2>1, <2>2 DEF RootOutlasts, AfterWork, Return
    <2>4. ASSUME mode'[Root] = "returned", NEW u \in Threads PROVE mode'[u] \notin {"steal", "body"}
      BY <1>3, <1>03
    <2>5. ASSUME mode'[Root] \in AfterWork \ {"returned"}, NEW u \in Joiners \union {Root}, mode'[u] \in {"count", "await"}
          PROVE  rethrown'[u] = cancellingException'
      <3>1. u \in Threads /\ mode[u] \in {"count", "await"}
        BY <1>0, <1>3, <2>1, <2>5
      <3>2. mode[Root] \in AfterWork \ {"returned"}
        <4>1. u = Root => mode[Root] \in AfterWork
          BY <3>1 DEF AfterWork
        <4>2. u # Root => mode[Root] \in AfterWork
          BY <1>1, <2>1, <2>5, <3>1 DEF HelpersPlaced
        <4>3. mode[Root] # "returned"
          BY <1>0, <1>2, <1>3, <2>5
        <4> QED BY <4>1, <4>2, <4>3
      <3> QED BY <1>0, <1>02, <1>2, <1>3, <2>1, <2>2, <2>5, <3>1, <3>2 DEF RootOutlasts
    <2> QED BY <2>1, <2>3, <2>4, <2>5 DEF RootOutlasts
  <1>12. ExceptionReachesRoot'
    BY <1>0, <1>1, <1>2, <1>3, <1>02 DEF Inductive, ExceptionReachesRoot, RootOutlasts, AfterWork, TypeOK, Return
  <1>13. ThreadsCounted'
    BY <1>4, <1>6, <1>7, <1>8, <1>9, CountedIs, PTL
  <1> QED BY <1>5, <1>10, <1>11, <1>12, <1>13 DEF Inductive

\* A step of a thief that touches neither tasks nor calls
LEMMA ThiefStep ==
    ASSUME Inductive, NEW t \in Threads, UNCHANGED <<tasks, right, frames, mode, lifeVars, workVars, Joiners>>,
           left' \in [Threads -> Nat],
           NEW x \in [step : {"none", "claim", "test", "take"}, victim : Threads \union {Nobody}, l : Nat],
           thief' = [thief EXCEPT ![t] = x],
           x # NotStealing => /\ x.step # "none" /\ x.victim \in Threads /\ mode[x.victim] \notin {"out", "returned"}
                              /\ x.step = "take" => x.l \in Slots
                              /\ Phase(t, "join") \/ (~Running(t) /\ mode[t] = "loop")
    PROVE  Inductive'
  <1> USE DEF lifeVars, workVars
  <1>1. TypeOK'
    BY DEF Inductive, TypeOK
  <1>2. \A u \in Threads : thief'[u] = IF u = t THEN x ELSE thief[u]
    BY DEF Inductive, TypeOK
  <1>3. \A u \in Threads : /\ Live(u)' = Live(u)
                           /\ \A s \in Slots : (Signalled(u, s)' <=> Signalled(u, s)) /\ (Busy(u, s)' <=> Busy(u, s))
    BY DEF Live, Phase, Running, Top, Signalled, Busy, Calls
  <1>4. StacksKept' /\ Grounded' /\ DependenciesCount'
    BY <1>3, ViewSame DEF Inductive
  <1>5. \A u \in Threads : /\ (Running(u)' <=> Running(u)) /\ Top(u)' = Top(u) /\ TaskOf(u)' = TaskOf(u)
                           /\ \A q : Phase(u, q)' <=> Phase(u, q)
    BY DEF Running, Top, TaskOf, Phase
  <1>6. FramesNested'
    <2>1. ASSUME NEW u \in Threads, NEW i \in DOMAIN frames'[u]
          PROVE  /\ frames'[u][i].slot < right'[u]
                 /\ frames'[u][i].phase # "start" => tasks'[u][frames'[u][i].slot].state = DONE
                 /\ i < Len(frames'[u]) => frames'[u][i].phase \in {"wait", "local"}
                 /\ \A j \in DOMAIN frames'[u] : i < j => frames'[u][i].slot < frames'[u][j].slot
      BY DEF Inductive, FramesNested
    <2>2. ASSUME NEW u \in Threads
          PROVE  /\ Running(u)' /\ Top(u)'.phase \notin {"spawn", "build", "wait", "local"} => Top(u)'.slot = right'[u] - 1
                 /\ Phase(u, "build")' => Top(u)'.slot < right'[u] - 1 /\ Top(u)'.child \in ChildrenOf(TaskOf(u).task)'
                 /\ Phase(u, "pop")' => TaskOf(u)'.dependencies = 0
                 /\ Running(u)' => mode'[u] \in {"work", "body"}
                 /\ right'[u] > 0 => mode'[u] \in {"announce", "add", "work", "steal", "body"}
                 /\ mode'[u] = "steal" => right'[u] = 1
      BY <1>5 DEF Inductive, FramesNested, ChildrenOf
    <2> QED BY <2>1, <2>2 DEF FramesNested
  <1>7. \A u \in Threads, s \in Slots, k \in Tasks : /\ Pending(u, s, k)' <=> Pending(u, s, k)
                                                     /\ Original(u, s, k)' <=> Original(u, s, k)
    BY <1>3, <1>5 DEF Pending, Original
  <1>8. OnePlace'
    BY <1>7, PlacesFewer DEF Inductive
  <1>9. NoneSkipped'
    BY <1>5, <1>7, StillNoneSkipped DEF Inductive, TypeOK
  <1>10. Counters /\ RootPlaced /\ HelpersPlaced /\ LocalsPlaced /\ ThievesPlaced
    BY CountedIs DEF Inductive
  <1>11. ThreadsCounted'
    <2>1. Counters' /\ RootPlaced' /\ LocalsPlaced'
      BY <1>10 DEF Counters, RootPlaced, LocalsPlaced
    <2>2. HelpersPlaced'
      BY <1>10 DEF HelpersPlaced, Pool
    <2>3. ThievesPlaced'
      BY <1>2, <1>5, <1>10 DEF ThievesPlaced
    <2> QED BY <2>1, <2>2, <2>3, CountedIs, PTL
  <1>12. ThreadsAlive'
    BY <1>2 DEF Inductive, ThreadsAlive
  <1>13. RootOutlasts' /\ ExceptionReachesRoot'
    BY RestSame
  <1> QED BY <1>1, <1>4, <1>6, <1>8, <1>9, <1>11, <1>12, <1>13 DEF Inductive

\* A thief looks only at threads that can be robbed, and they are not freed.
LEMMA LookKeeps ==
    ASSUME Inductive, NEW t \in Threads, NEW v \in Threads, Look(t, v), UNCHANGED Joiners PROVE Inductive'
  <1>1. PICK x \in [step : {"none", "claim", "test", "take"}, victim : Threads \union {Nobody}, l : Nat] :
            x = [step |-> "claim", victim |-> v, l |-> 0] /\ x.step = "claim" /\ x.victim = v
    <2>1. [step |-> "claim", victim |-> v, l |-> 0] \in [step : {"none", "claim", "test", "take"}, victim : Threads \union {Nobody}, l : Nat]
      OBVIOUS
    <2> QED BY <2>1
  <1>2. thief' = [thief EXCEPT ![t] = x] /\ UNCHANGED <<tasks, right, left, frames, mode, lifeVars, workVars>>
    BY <1>1 DEF Look, stackVars
  <1>3. mode[v] \notin {"out", "returned"}
    BY CountedIs DEF Look, Inductive, LocalsPlaced
  <1>4. Phase(t, "join") \/ (~Running(t) /\ mode[t] = "loop")
    BY DEF Look, MaySteal, In
  <1>5. left' \in [Threads -> Nat]
    BY <1>2 DEF Inductive, TypeOK
  <1> QED BY <1>1, <1>2, <1>3, <1>4, <1>5, ThiefStep

\* Who steals, and from whom
LEMMA ThiefIs ==
    ASSUME Inductive, NEW t \in Threads, thief[t] # NotStealing
    PROVE  /\ thief[t] \in [step : {"none", "claim", "test", "take"}, victim : Threads \union {Nobody}, l : Nat]
           /\ thief[t].victim \in Threads /\ thief[t].l \in Nat /\ mode[thief[t].victim] \notin {"out", "returned"}
           /\ thief[t].step # "none" /\ (thief[t].step = "take" => thief[t].l \in Slots)
           /\ Phase(t, "join") \/ (~Running(t) /\ mode[t] = "loop")
  <1>1. thief[t] \in [step : {"none", "claim", "test", "take"}, victim : Threads \union {Nobody}, l : Nat]
    BY DEF Inductive, TypeOK
  <1>2. ThievesPlaced /\ ThreadsAlive
    BY CountedIs DEF Inductive
  <1> QED BY <1>1, <1>2 DEF ThievesPlaced, ThreadsAlive

LEMMA ClaimKeeps == ASSUME Inductive, NEW t \in Threads, Claim(t), UNCHANGED Joiners PROVE Inductive'
  <1>1. thief[t] # NotStealing
    BY DEF Claim, NotStealing
  <1>2. PICK v \in Threads : v = thief[t].victim /\ left[v] \in Nat /\ left \in [Threads -> Nat]
    BY <1>1, ThiefIs DEF Inductive, TypeOK
  <1>3. PICK x \in [step : {"none", "claim", "test", "take"}, victim : Threads \union {Nobody}, l : Nat] :
            /\ x = [thief[t] EXCEPT !.step = "test", !.l = left[v]]
            /\ x.step = "test" /\ x.victim = v
    <2>1. thief[t] \in [step : {"none", "claim", "test", "take"}, victim : Threads \union {Nobody}, l : Nat]
      BY <1>1, ThiefIs
    <2>2. [thief[t] EXCEPT !.step = "test", !.l = left[v]] \in [step : {"none", "claim", "test", "take"}, victim : Threads \union {Nobody}, l : Nat]
      BY <1>2, <2>1
    <2> QED BY <1>2, <2>1, <2>2
  <1>4. thief' = [thief EXCEPT ![t] = x]
    <2>1. thief' = [thief EXCEPT ![t].step = "test", ![t].l = left[v]]
      BY <1>2 DEF Claim
    <2>2. thief \in [Threads -> [step : {"none", "claim", "test", "take"}, victim : Threads \union {Nobody}, l : Nat]]
      BY DEF Inductive, TypeOK
    <2> QED BY <1>3, <2>1, <2>2
  <1>5. left' \in [Threads -> Nat]
    <2>1. left' = [left EXCEPT ![v] = left[v] + 1]
      BY <1>2 DEF Claim
    <2> QED BY <1>2, <2>1
  <1>6. UNCHANGED <<tasks, right, frames, mode, lifeVars, workVars>>
    BY DEF Claim
  <1> QED BY <1>1, <1>2, <1>3, <1>4, <1>5, <1>6, ThiefIs, ThiefStep

LEMMA TestKeeps == ASSUME Inductive, NEW t \in Threads, Test(t), UNCHANGED Joiners PROVE Inductive'
  <1>1. thief[t] # NotStealing
    BY DEF Test, NotStealing
  <1>2. PICK x \in [step : {"none", "claim", "test", "take"}, victim : Threads \union {Nobody}, l : Nat] :
            /\ thief' = [thief EXCEPT ![t] = x]
            /\ x = NotStealing \/ (thief[t].l \in Slots /\ x.step = "take" /\ x.victim = thief[t].victim /\ x.l = thief[t].l)
    <2>1. CASE thief[t].l \in Slots /\ Robbed(t).stealable
      <3>1. thief' = [thief EXCEPT ![t] = [thief[t] EXCEPT !.step = "take"]]
        BY <2>1 DEF Test
      <3>2. PICK x \in [step : {"none", "claim", "test", "take"}, victim : Threads \union {Nobody}, l : Nat] :
                /\ x = [thief[t] EXCEPT !.step = "take"]
                /\ x.step = "take" /\ x.victim = thief[t].victim /\ x.l = thief[t].l
        <4>1. thief[t] \in [step : {"none", "claim", "test", "take"}, victim : Threads \union {Nobody}, l : Nat]
          BY <1>1, ThiefIs
        <4>2. [thief[t] EXCEPT !.step = "take"] \in [step : {"none", "claim", "test", "take"}, victim : Threads \union {Nobody}, l : Nat]
          BY <4>1
        <4> QED BY <4>1, <4>2
      <3> QED BY <2>1, <3>1, <3>2
    <2>2. CASE ~(thief[t].l \in Slots /\ Robbed(t).stealable)
      <3>1. thief' = [thief EXCEPT ![t] = NotStealing]
        BY <2>2 DEF Test
      <3>2. NotStealing \in [step : {"none", "claim", "test", "take"}, victim : Threads \union {Nobody}, l : Nat]
        BY DEF NotStealing
      <3> QED BY <3>1, <3>2
    <2> QED BY <2>1, <2>2
  <1>3. UNCHANGED <<tasks, right, left, frames, mode, lifeVars, workVars>> /\ left' \in [Threads -> Nat]
    BY DEF Test, stackVars, Inductive, TypeOK
  <1> QED BY <1>1, <1>2, <1>3, ThiefIs, ThiefStep

\* The thief takes the task it has marked into its own stack, as a child of the marked one; or it
\* comes too late.
LEMMA TakeKeeps == ASSUME Inductive, NEW t \in Threads, Take(t), UNCHANGED Joiners PROVE Inductive' /\ Still
  <1> USE DEF lifeVars, workVars
  <1>0. /\ thief[t] # NotStealing /\ thief' = [thief EXCEPT ![t] = NotStealing]
        /\ UNCHANGED <<left, lifeVars, workVars>>
    BY DEF Take, NotStealing
  <1>1. PICK v \in Threads, l \in Slots : v = thief[t].victim /\ l = thief[t].l
    BY <1>0, ThiefIs DEF Take
  <1>2. CASE tasks[v][l].state = DONE
    <2>1. UNCHANGED <<tasks, right, frames, mode>>
      BY <1>1, <1>2 DEF Take, Robbed, DONE, INITIALIZED
    <2>2. NotStealing \in [step : {"none", "claim", "test", "take"}, victim : Threads \union {Nobody}, l : Nat]
      BY DEF NotStealing
    <2>3. left' \in [Threads -> Nat]
      BY <1>0 DEF Inductive, TypeOK
    <2>4. Still
      BY <1>0, <2>1, NothingMoved
    <2> QED BY <1>0, <2>1, <2>2, <2>3, <2>4, ThiefStep
  <1>3. CASE tasks[v][l].state # DONE
    <2>1. /\ tasks[v][l].state = INITIALIZED /\ right[t] < TASK_STACK_SIZE
          /\ tasks' = [tasks EXCEPT ![v][l].state = DONE,
                          ![t][right[t]] = [task |-> tasks[v][l].task, state |-> INITIALIZED,
                              stealable |-> FALSE, dependencies |-> 1,
                              parent |-> [thread |-> v, slot |-> l]]]
          /\ right' = [right EXCEPT ![t] = right[t] + 1]
          /\ IF Running(t) THEN SetPhase(t, "local") /\ UNCHANGED mode
                           ELSE Enter(t, "steal") /\ UNCHANGED frames
      BY <1>1, <1>3 DEF Take, Robbed, Room
    <2>2. tasks \in Stacks /\ tasks[v][l] \in TaskRecord
      BY TasksTyped DEF Inductive, Stacks
    <2>3. l \in Live(v) /\ tasks[v][l].task \in Tasks
      <3>1. l \in Live(v)
        BY <2>1, WaitingOnStack DEF Inductive
      <3>2. SlotKept(v, l)
        BY <3>1, OnStack DEF Inductive
      <3> QED BY <3>1, <3>2 DEF SlotKept
    <2>4. PICK r0 \in Slots : r0 = right[t]
      <3>1. right[t] \in 0 .. TASK_STACK_SIZE
        BY DEF Inductive, TypeOK
      <3> QED BY <2>1, <3>1 DEF Slots
    <2>5. right' \in [Threads -> 0 .. TASK_STACK_SIZE] /\ \A u \in Threads : right'[u] = IF u = t THEN r0 + 1 ELSE right[u]
      <3>1. right' = [right EXCEPT ![t] = r0 + 1] /\ r0 + 1 \in 0 .. TASK_STACK_SIZE
        BY <2>1, <2>4 DEF Slots
      <3> QED BY <3>1 DEF Inductive, TypeOK
    <2>6. PICK k \in Tasks : k = tasks[v][l].task
      BY <2>3
    <2>7. PICK P \in [thread : Threads \union {Nobody}, slot : Slots] :
              P = [thread |-> v, slot |-> l] /\ P # NoParent /\ P.thread = v /\ P.slot = l
      <3>1. [thread |-> v, slot |-> l] \in [thread : Threads \union {Nobody}, slot : Slots]
        OBVIOUS
      <3>2. [thread |-> v, slot |-> l] # NoParent
        BY DEF NoParent, Threads
      <3> QED BY <3>1, <3>2
    <2>8. PICK x \in TaskRecord : /\ x = [task |-> k, state |-> INITIALIZED, stealable |-> FALSE, dependencies |-> 1, parent |-> P]
                                  /\ x.task = k /\ x.state = INITIALIZED /\ x.stealable = FALSE /\ x.dependencies = 1
                                  /\ x.parent = P
      <3>1. [task |-> k, state |-> INITIALIZED, stealable |-> FALSE, dependencies |-> 1, parent |-> P] \in TaskRecord
        BY DEF TaskRecord
      <3> QED BY <3>1
    <2>9. PICK y \in TaskRecord : /\ y = [tasks[v][l] EXCEPT !.state = DONE]
                                  /\ y.task = tasks[v][l].task /\ y.state = DONE /\ y.stealable = tasks[v][l].stealable
                                  /\ y.parent = tasks[v][l].parent /\ y.dependencies = tasks[v][l].dependencies
      <3>1. [tasks[v][l] EXCEPT !.state = DONE] \in TaskRecord
        BY <2>2 DEF TaskRecord
      <3> QED BY <2>2, <3>1 DEF TaskRecord
    <2>10. /\ tasks' \in Stacks
           /\ \A u \in Threads, r \in Slots :
                  tasks'[u][r] = IF u = t /\ r = r0 THEN x ELSE IF u = v /\ r = l THEN y ELSE tasks[u][r]
      <3> DEFINE f == [tasks EXCEPT ![v][l] = y]
                 g == [f EXCEPT ![t][r0] = x]
      <3>1. f \in Stacks /\ \A u \in Threads, r \in Slots : f[u][r] = IF u = v /\ r = l THEN y ELSE tasks[u][r]
        BY <2>2, SlotWritten
      <3>2. [tasks EXCEPT ![v][l].state = DONE] = f
        BY <2>2, <2>9 DEF Stacks
      <3>3. tasks' = [[tasks EXCEPT ![v][l].state = DONE] EXCEPT ![t][r0] = x]
        BY <2>1, <2>4, <2>6, <2>7, <2>8
      <3>4. tasks' = g
        BY <3>2, <3>3
      <3> HIDE DEF f
      <3>5. g \in Stacks /\ \A u \in Threads, r \in Slots : g[u][r] = IF u = t /\ r = r0 THEN x ELSE f[u][r]
        BY <3>1, SlotWritten
      <3> HIDE DEF g
      <3> QED BY <3>1, <3>4, <3>5
    <2>11. /\ ~Phase(t, "build") /\ ~Phase(t, "execute") /\ ~Phase(t, "pop")
           /\ ~Phase(t, "build")' /\ ~Phase(t, "execute")' /\ ~Phase(t, "pop")'
           /\ ~(Running(t) /\ Top(t).phase \in {"spawn", "build", "throw"})
           /\ \A u \in Threads : /\ u # t => Top(u)' = Top(u) /\ frames'[u] = frames[u] /\ \A q : Phase(u, q)' <=> Phase(u, q)
                                 /\ DOMAIN frames'[u] = DOMAIN frames[u] /\ Len(frames'[u]) = Len(frames[u])
                                 /\ Running(u)' <=> Running(u)
                                 /\ \A i \in DOMAIN frames[u] :
                                        /\ frames'[u][i].slot = frames[u][i].slot
                                        /\ frames'[u][i].phase = frames[u][i].phase
                                           \/ (i = Len(frames[u]) /\ u = t /\ frames[u][i].phase = "join" /\ frames'[u][i].phase = "local")
           /\ frames' \in [Threads -> Seq(Frame)]
           /\ Running(t) => Top(t)'.phase = "local"
      <3>1. CASE Running(t)
        <4>1. Top(t).phase = "join" /\ Top(t) = frames[t][Len(frames[t])]
          BY <1>0, <3>1, ThiefIs, TopIs DEF Phase, Inductive
        <4>2. PhaseMoved(t, "local")
          BY <2>1, <3>1, PhaseSet DEF Inductive, Phases
        <4>3. \A u \in Threads : u # t => frames'[u] = frames[u] /\ Top(u)' = Top(u) /\ \A q : Phase(u, q)' <=> Phase(u, q)
          BY <4>2 DEF PhaseMoved
        <4>4. \A q : Phase(t, q)' <=> q = "local"
          BY <4>2 DEF PhaseMoved
        <4>5. \A q : Phase(t, q) <=> q = "join"
          BY <3>1, <4>1 DEF Phase
        <4>6. \A i \in DOMAIN frames[t] : /\ frames'[t][i].slot = frames[t][i].slot
                                          /\ frames'[t][i].phase = IF i = Len(frames[t]) THEN "local" ELSE frames[t][i].phase
          BY <4>2 DEF PhaseMoved
        <4>7. /\ frames' \in [Threads -> Seq(Frame)] /\ Top(t)'.phase = "local"
              /\ \A u \in Threads : Len(frames'[u]) = Len(frames[u]) /\ DOMAIN frames'[u] = DOMAIN frames[u] /\ (Running(u)' <=> Running(u))
          BY <4>2 DEF PhaseMoved
        <4> QED BY <4>1, <4>3, <4>4, <4>5, <4>6, <4>7
      <3>2. CASE ~Running(t)
        <4>1. frames' = frames
          BY <2>1, <3>2
        <4>2. frames \in [Threads -> Seq(Frame)]
          BY DEF Inductive, TypeOK, Frame
        <4>3. \A u \in Threads : (Running(u)' <=> Running(u)) /\ Top(u)' = Top(u) /\ \A q : Phase(u, q)' <=> Phase(u, q)
          BY <4>1 DEF Running, Top, Phase
        <4>4. \A q : ~Phase(t, q)
          BY <3>2 DEF Phase
        <4> QED BY <3>2, <4>1, <4>2, <4>3, <4>4
      <3> QED BY <3>1, <3>2
    <2>12. \A u \in Threads, r \in Slots : /\ r \in Live(u)' <=> r \in Live(u) \/ (u = t /\ r = r0)
                                           /\ Signalled(u, r)' <=> Signalled(u, r)
                                           /\ Busy(u, r)' <=> Busy(u, r)
      <3> SUFFICES ASSUME NEW u \in Threads, NEW r \in Slots
                   PROVE  /\ r \in Live(u)' <=> r \in Live(u) \/ (u = t /\ r = r0)
                          /\ Signalled(u, r)' <=> Signalled(u, r)
                          /\ Busy(u, r)' <=> Busy(u, r)
        OBVIOUS
      <3>1. r \in Live(u)' <=> r \in Live(u) \/ (u = t /\ r = r0)
        <4>1. CASE u # t
          BY <2>5, <2>11, <4>1 DEF Live
        <4>2. CASE u = t
          <5>1. r < r0 + 1 <=> r < r0 \/ r = r0
            BY DEF Slots
          <5> QED BY <2>4, <2>5, <2>11, <4>2, <5>1 DEF Live
        <4> QED BY <4>1, <4>2
      <3>2. Calls(u, r)' = Calls(u, r) /\ Calls(u, r) \subseteq DOMAIN frames[u]
        BY <2>11 DEF Calls
      <3>3. \A i \in DOMAIN frames[u] : /\ frames'[u][i].phase = "pop" <=> frames[u][i].phase = "pop"
                                        /\ frames'[u][i].phase \in Inside <=> frames[u][i].phase \in Inside
        BY <2>11 DEF Inside
      <3> QED BY <3>1, <3>2, <3>3 DEF Signalled, Busy
    <2>13. r0 \notin Live(t) /\ (\A r \in Live(t) : r < r0) /\ ~Signalled(t, r0)
      <3>1. r0 \notin Live(t) /\ \A r \in Live(t) : r < r0
        BY <2>4 DEF Live, Slots
      <3>2. ~Signalled(t, r0)
        BY <2>11, SignalledIs DEF Inductive
      <3> QED BY <3>1, <3>2
    <2>14. ~(v = t /\ l = r0) /\ ~Signalled(v, l) /\ ~Busy(v, l)
      <3>1. \A i \in Calls(v, l) : frames[v][i].phase = "start"
        BY <2>1 DEF Inductive, FramesNested, Calls, DONE, INITIALIZED
      <3> QED BY <2>3, <2>13, <3>1 DEF Signalled, Busy, Inside
    <2>15. \A u \in Threads, r \in Slots : ~(u = t /\ r = r0) =>
              /\ tasks'[u][r].task = tasks[u][r].task /\ tasks'[u][r].stealable = tasks[u][r].stealable
              /\ tasks'[u][r].parent = tasks[u][r].parent /\ tasks'[u][r].dependencies = tasks[u][r].dependencies
              /\ tasks'[u][r].state = IF u = v /\ r = l THEN DONE ELSE tasks[u][r].state
      <3> SUFFICES ASSUME NEW u \in Threads, NEW r \in Slots, ~(u = t /\ r = r0)
                   PROVE  /\ tasks'[u][r].task = tasks[u][r].task /\ tasks'[u][r].stealable = tasks[u][r].stealable
                          /\ tasks'[u][r].parent = tasks[u][r].parent /\ tasks'[u][r].dependencies = tasks[u][r].dependencies
                          /\ tasks'[u][r].state = IF u = v /\ r = l THEN DONE ELSE tasks[u][r].state
        OBVIOUS
      <3>1. CASE u = v /\ r = l
        <4>1. tasks'[u][r] = y
          BY <2>10, <3>1
        <4> QED BY <2>9, <3>1, <4>1
      <3>2. CASE ~(u = v /\ r = l)
        <4>1. tasks'[u][r] = tasks[u][r]
          BY <2>10, <3>2
        <4> QED BY <3>2, <4>1
      <3> QED BY <3>1, <3>2
    <2>16. \A u \in Threads : \A r \in Live(u) :
              tasks'[u][r].dependencies + (IF Own(u, r) THEN 1 ELSE 0)
                  = tasks[u][r].dependencies + (IF Own(u, r)' THEN 1 ELSE 0)
                    + (IF x.parent = [thread |-> u, slot |-> r] THEN 1 ELSE 0)
      <3> SUFFICES ASSUME NEW u \in Threads, NEW r \in Live(u)
                   PROVE  tasks'[u][r].dependencies + (IF Own(u, r) THEN 1 ELSE 0)
                              = tasks[u][r].dependencies + (IF Own(u, r)' THEN 1 ELSE 0)
                                + (IF x.parent = [thread |-> u, slot |-> r] THEN 1 ELSE 0)
        OBVIOUS
      <3>1. r \in Slots /\ ~(u = t /\ r = r0)
        BY <2>13 DEF Live
      <3>2. x.parent = [thread |-> u, slot |-> r] <=> u = v /\ r = l
        BY <2>7, <2>8
      <3>3. tasks[u][r].dependencies \in Nat /\ tasks'[u][r].dependencies = tasks[u][r].dependencies
        BY <2>2, <2>15, <3>1 DEF Stacks, TaskRecord
      <3>4. CASE u = v /\ r = l
        <4>1. Own(u, r)
          BY <2>1, <3>4 DEF Own
        <4>2. ~Own(u, r)'
          <5>1. tasks'[v][l].state = DONE
            BY <2>14, <2>15
          <5>2. ~Busy(v, l)'
            BY <2>12, <2>14
          <5> QED BY <3>4, <5>1, <5>2 DEF Own, DONE, INITIALIZED
        <4> QED BY <3>2, <3>3, <3>4, <4>1, <4>2
      <3>5. CASE ~(u = v /\ r = l)
        <4>1. Own(u, r)' <=> Own(u, r)
          BY <2>12, <2>15, <3>1, <3>5 DEF Own
        <4> QED BY <3>2, <3>3, <3>5, <4>1
      <3> QED BY <3>4, <3>5
    <2>17. SlotGained(t, r0, x)
      <3>1. tasks'[t][r0] = x
        BY <2>10
      <3>2. \A u \in Threads, r \in Slots : ~(u = t /\ r = r0) =>
                /\ tasks'[u][r].task = tasks[u][r].task /\ tasks'[u][r].stealable = tasks[u][r].stealable
                /\ tasks'[u][r].parent = tasks[u][r].parent
                /\ tasks[u][r].state = DONE => tasks'[u][r].state = DONE
        BY <2>15
      <3>3. /\ x.task \in Tasks /\ x.parent # NoParent /\ ~x.stealable
            /\ <<x.parent.thread, x.parent.slot>> \in Unfinished
            /\ tasks[x.parent.thread][x.parent.slot].task = x.task
        <4>1. <<v, l>> \in Unfinished
          BY <2>3, <2>14 DEF Unfinished
        <4> QED BY <2>6, <2>7, <2>8, <4>1
      <3>4. \A u \in Threads, r \in Slots : /\ r \in Live(u)' <=> r \in Live(u) \/ (u = t /\ r = r0)
                                            /\ Signalled(u, r)' <=> Signalled(u, r)
        BY <2>12
      <3> QED BY <2>8, <2>13, <2>16, <3>1, <3>2, <3>3, <3>4 DEF SlotGained
    <2>18. StacksKept' /\ Grounded' /\ DependenciesCount'
      BY <2>10, <2>17, SlotAdded DEF Inductive
    <2>19. \A u \in Threads : u # t /\ Running(u) => /\ TaskOf(u)'.task = TaskOf(u).task
                                                     /\ TaskOf(u)'.dependencies = TaskOf(u).dependencies
      <3> SUFFICES ASSUME NEW u \in Threads, u # t, Running(u)
                   PROVE  TaskOf(u)'.task = TaskOf(u).task /\ TaskOf(u)'.dependencies = TaskOf(u).dependencies
        OBVIOUS
      <3>1. Top(u).slot \in Slots /\ Top(u)' = Top(u)
        BY <2>11, FrameTask
      <3> QED BY <2>15, <3>1 DEF TaskOf
    <2>20. /\ mode' \in [Threads -> Modes] /\ mode \in [Threads -> Modes]
           /\ \A u \in Threads : mode'[u] = IF u = t /\ ~Running(t) THEN "steal" ELSE mode[u]
           /\ Running(t) => mode[t] \in {"work", "body"}
           /\ ~Running(t) => mode[t] = "loop" /\ r0 = 0 /\ t # Root
      <3>1. mode \in [Threads -> Modes] /\ "steal" \in Modes
        BY DEF Inductive, TypeOK, Modes
      <3>2. Running(t) => mode[t] \in {"work", "body"}
        BY DEF Inductive, FramesNested
      <3>3. ~Running(t) => mode[t] = "loop"
        BY <1>0, ThiefIs DEF Phase
      <3>4. mode[t] = "loop" => ~(right[t] > 0)
        BY DEF Inductive, FramesNested
      <3>5. mode[Root] # "loop"
        BY CountedIs DEF Inductive, RootPlaced, AfterWork
      <3>6. IF Running(t) THEN mode' = mode ELSE mode' = [mode EXCEPT ![t] = "steal"]
        BY <2>1 DEF Enter
      <3>7. ~Running(t) => r0 = 0
        BY <2>4, <3>3, <3>4 DEF Slots
      <3> QED BY <3>1, <3>2, <3>3, <3>5, <3>6, <3>7
    <2>21. FramesNested'
      <3>1. ASSUME NEW u \in Threads, NEW i \in DOMAIN frames'[u]
            PROVE  /\ frames'[u][i].slot < right'[u]
                   /\ frames'[u][i].phase # "start" => tasks'[u][frames'[u][i].slot].state = DONE
                   /\ i < Len(frames'[u]) => frames'[u][i].phase \in {"wait", "local"}
                   /\ \A j \in DOMAIN frames'[u] : i < j => frames'[u][i].slot < frames'[u][j].slot
        <4>1. i \in DOMAIN frames[u]
          BY <2>11
        <4>2. /\ frames[u][i].slot \in Live(u) /\ frames[u][i].slot \in Slots
              /\ frames[u][i].slot < right[u]
          BY <4>1, FrameOnStack, FramesTyped DEF Inductive, FramesNested
        <4>3. frames'[u][i].slot < right'[u]
          <5>1. frames[u][i].slot < right'[u]
            BY <2>4, <2>5, <4>2 DEF Slots
          <5> QED BY <2>11, <4>1, <5>1
        <4>4. frames'[u][i].phase # "start" => tasks'[u][frames'[u][i].slot].state = DONE
          <5>1. frames'[u][i].phase # "start" => frames[u][i].phase # "start"
            BY <2>11, <4>1
          <5>2. frames[u][i].phase # "start" => tasks[u][frames[u][i].slot].state = DONE
            BY <4>1 DEF Inductive, FramesNested
          <5>3. ~(u = t /\ frames[u][i].slot = r0)
            BY <2>13, <4>2
          <5>4. tasks[u][frames[u][i].slot].state = DONE => tasks'[u][frames[u][i].slot].state = DONE
            BY <2>15, <4>2, <5>3
          <5> QED BY <2>11, <4>1, <5>1, <5>2, <5>4
        <4>5. i < Len(frames[u]) => frames[u][i].phase \in {"wait", "local"}
          BY <4>1 DEF Inductive, FramesNested
        <4>6. i < Len(frames'[u]) => frames'[u][i].phase \in {"wait", "local"}
          BY <2>11, <4>1, <4>5
        <4>7. \A j \in DOMAIN frames[u] : i < j => frames[u][i].slot < frames[u][j].slot
          BY <4>1 DEF Inductive, FramesNested
        <4> QED BY <2>11, <4>1, <4>3, <4>4, <4>6, <4>7
      <3>2. ASSUME NEW u \in Threads
            PROVE  /\ Running(u)' /\ Top(u)'.phase \notin {"spawn", "build", "wait", "local"} => Top(u)'.slot = right'[u] - 1
                   /\ Phase(u, "build")' => Top(u)'.slot < right'[u] - 1 /\ Top(u)'.child \in ChildrenOf(TaskOf(u).task)'
                   /\ Phase(u, "pop")' => TaskOf(u)'.dependencies = 0
                   /\ Running(u)' => mode'[u] \in {"work", "body"}
                   /\ right'[u] > 0 => mode'[u] \in {"announce", "add", "work", "steal", "body"}
                   /\ mode'[u] = "steal" => right'[u] = 1
        <4>1. CASE u # t
          <5>1. /\ Running(u)' <=> Running(u)
                /\ Top(u)' = Top(u) /\ right'[u] = right[u] /\ mode'[u] = mode[u]
                /\ \A q : Phase(u, q)' <=> Phase(u, q)
            BY <2>5, <2>11, <2>20, <4>1
          <5>2. \A q : Phase(u, q) => Running(u)
            BY DEF Phase
          <5> QED BY <2>19, <4>1, <5>1, <5>2 DEF Inductive, FramesNested, ChildrenOf
        <4>2. CASE u = t
          BY <2>5, <2>11, <2>20, <4>2 DEF Phase
        <4> QED BY <4>1, <4>2
      <3> QED BY <3>1, <3>2 DEF FramesNested
    <2>22. TypeOK'
      <3>1. thief' \in [Threads -> [step : {"none", "claim", "test", "take"}, victim : Threads \union {Nobody}, l : Nat]]
        BY <1>0 DEF Inductive, TypeOK, NotStealing
      <3> QED BY <1>0, <2>5, <2>10, <2>11, <2>20, <3>1 DEF Inductive, TypeOK, Frame, Stacks, TaskRecord
    <2>23. \A u \in Threads : thief'[u] = IF u = t THEN NotStealing ELSE thief[u]
      BY <1>0 DEF Inductive, TypeOK
    <2>24. mode[Root] \notin AfterWork /\ mode'[Root] = mode[Root]
      <3>1. mode[Root] \notin AfterWork
        BY <2>1, Quiet DEF Inductive, DONE, INITIALIZED
      <3> QED BY <2>20, <3>1 DEF Threads
    <2>25. ThreadsCounted'
      <3>1. Counters /\ RootPlaced /\ HelpersPlaced /\ LocalsPlaced /\ ThievesPlaced
        BY CountedIs DEF Inductive
      <3>2. Counters'
        <4>1. CASE Running(t)
          BY <1>0, <2>1, <3>1, <4>1 DEF Counters
        <4>2. CASE ~Running(t)
          <5>1. Enter(t, "steal") /\ mode[t] = "loop"
            BY <2>1, <2>20, <4>2
          <5>2. threadCounter' = threadCounter /\ anyTasksRunning' = anyTasksRunning /\ threadCounter \in Nat /\ anyTasksRunning \in Nat
            BY <1>0 DEF Inductive, TypeOK
          <5>3. /\ threadCounter' \in Int /\ threadCounter' + One("loop", HereModes) = threadCounter + One("steal", HereModes)
                /\ anyTasksRunning' \in Int /\ anyTasksRunning' + One("loop", BusyModes) = anyTasksRunning + One("steal", BusyModes)
            BY <5>2 DEF One, HereModes, BusyModes
          <5> QED BY <5>1, <5>3, CountStep DEF Inductive, Modes
        <4> QED BY <4>1, <4>2
      <3>3. RootPlaced'
        BY <1>0, <2>24, <3>1 DEF RootPlaced
      <3>4. HelpersPlaced'
        BY <1>0, <2>20, <2>24, <3>1 DEF HelpersPlaced, Pool, Threads
      <3>5. LocalsPlaced'
        BY <1>0, <2>20, <3>1 DEF LocalsPlaced, Inductive, TypeOK
      <3>6. ThievesPlaced'
        <4> SUFFICES ASSUME NEW u \in Threads, thief'[u] # NotStealing
                     PROVE  /\ thief'[u].step # "none" /\ thief'[u].victim \in Threads
                            /\ thief'[u].step = "take" => thief'[u].l \in Slots
                            /\ Phase(u, "join")' \/ (~Running(u)' /\ mode'[u] = "loop")
          BY DEF ThievesPlaced
        <4>1. u # t /\ thief'[u] = thief[u]
          BY <2>23
        <4>2. mode'[u] = mode[u] /\ (Running(u)' <=> Running(u)) /\ (Phase(u, "join")' <=> Phase(u, "join"))
          BY <2>11, <2>20, <4>1
        <4> QED BY <3>1, <4>1, <4>2 DEF ThievesPlaced
      <3> QED BY <3>2, <3>3, <3>4, <3>5, <3>6, CountedIs, PTL
    <2>26. ThreadsAlive'
      <3>1. ASSUME NEW u \in Threads, thief'[u] # NotStealing PROVE mode'[thief'[u].victim] \notin {"out", "returned"}
        <4>1. u # t /\ thief'[u] = thief[u]
          BY <2>23, <3>1
        <4> QED BY <2>20, <3>1, <4>1, ThiefIs
      <3> QED BY <3>1 DEF ThreadsAlive
    <2>27. RootOutlasts' /\ ExceptionReachesRoot'
      BY <2>24 DEF RootOutlasts, ExceptionReachesRoot, AfterWork
    <2>28. Pending(v, l, k) /\ \A j \in Tasks : ~Pending(v, l, j)'
      <3>1. Pending(v, l, k)
        BY <2>1, <2>6 DEF Pending
      <3>2. ASSUME NEW j \in Tasks PROVE ~Pending(v, l, j)'
        <4>1. tasks'[v][l].state = DONE
          BY <2>14, <2>15
        <4>2. ~(Phase(v, "execute") /\ Top(v).slot = l)
          <5> SUFFICES ASSUME Phase(v, "execute"), Top(v).slot = l PROVE FALSE
            OBVIOUS
          <5>1. Len(frames[v]) \in Calls(v, l) /\ frames[v][Len(frames[v])].phase = "execute"
            BY TopIs DEF Phase, Calls, Inductive
          <5> QED BY <2>14, <5>1 DEF Busy, Inside
        <4>3. ~(Phase(v, "build") /\ l = right[v] - 1)
          BY <2>3 DEF Live
        <4>4. CASE v = t
          BY <2>11, <4>1, <4>4 DEF Pending, DONE, INITIALIZED
        <4>5. CASE v # t
          BY <2>5, <2>11, <4>1, <4>2, <4>3, <4>5 DEF Pending, DONE, INITIALIZED
        <4> QED BY <4>4, <4>5
      <3> QED BY <3>1, <3>2
    <2>29. ASSUME NEW u \in Threads, NEW r \in Slots, NEW j \in Tasks, ~(u = v /\ r = l)
           PROVE  Pending(u, r, j)' <=> Pending(u, r, j) \/ (u = t /\ r = r0 /\ j = k)
      <3>1. CASE u = t /\ r = r0
        <4>1. tasks[t][r0].state = DONE
          BY <2>13 DEF Inductive, StacksKept, SlotKept
        <4>2. tasks'[t][r0] = x
          BY <2>10
        <4> QED BY <2>8, <2>11, <3>1, <4>1, <4>2 DEF Pending, DONE, INITIALIZED
      <3>2. CASE ~(u = t /\ r = r0)
        <4>1. tasks'[u][r].state = tasks[u][r].state /\ tasks'[u][r].task = tasks[u][r].task
          BY <2>15, <2>29, <3>2
        <4>2. CASE u = t
          BY <2>11, <3>2, <4>1, <4>2 DEF Pending
        <4>3. CASE u # t
          BY <2>5, <2>11, <4>1, <4>3 DEF Pending
        <4> QED BY <4>2, <4>3
      <3> QED BY <3>1, <3>2
    <2>30. ASSUME NEW u \in Threads, NEW r \in Slots, NEW j \in Tasks
           PROVE  Original(u, r, j)' <=> Original(u, r, j)
      <3>1. CASE u = t /\ r = r0
        <4>1. tasks'[t][r0] = x
          BY <2>10
        <4> QED BY <2>8, <2>11, <2>13, <3>1, <4>1 DEF Original
      <3>2. CASE ~(u = t /\ r = r0)
        <4>1. tasks'[u][r].stealable = tasks[u][r].stealable /\ tasks'[u][r].task = tasks[u][r].task
          BY <2>15, <3>2
        <4>2. r \in Live(u)' <=> r \in Live(u)
          BY <2>12, <3>2
        <4>3. CASE u = t
          BY <2>11, <4>1, <4>2, <4>3 DEF Original
        <4>4. CASE u # t
          BY <2>5, <2>11, <4>1, <4>2, <4>4 DEF Original
        <4> QED BY <4>3, <4>4
      <3> QED BY <3>1, <3>2
    <2>31. OnePlace'
      <3>1. k \in spawned /\ executed[k] = 0 /\ \A u \in Threads, r \in Slots : Pending(u, r, k) => u = v /\ r = l
        BY <2>28 DEF Inductive, OnePlace
      <3>2. ASSUME NEW j \in Tasks, NEW u \in Threads, NEW w \in Threads, NEW q \in Slots, NEW r \in Slots
            PROVE  /\ Pending(u, q, j)' => j \in spawned /\ executed[j] = 0
                   /\ Pending(u, q, j)' /\ Pending(w, r, j)' => u = w /\ q = r
        <4>1. CASE j = k
          BY <2>28, <2>29, <3>1, <4>1
        <4>2. CASE j # k
          <5>1. (Pending(u, q, j)' => Pending(u, q, j)) /\ (Pending(w, r, j)' => Pending(w, r, j))
            BY <2>28, <2>29, <4>2
          <5> QED BY <5>1 DEF Inductive, OnePlace
        <4> QED BY <4>1, <4>2
      <3>3. ASSUME NEW j \in Tasks, NEW u \in Threads, NEW w \in Threads, NEW q \in Slots, NEW r \in Slots
            PROVE  /\ Original(u, q, j)' => j \in spawned
                   /\ Original(u, q, j)' /\ Original(w, r, j)' => u = w /\ q = r
        BY <2>30 DEF Inductive, OnePlace
      <3>4. /\ \A j \in Tasks : executed[j] <= 1 /\ (j \notin spawned => executed[j] = 0)
            /\ spawned = {} <=> mode'[Root] \in {"out", "push"}
            /\ spawned # {} => RootTask \in spawned
        BY <2>24 DEF Inductive, OnePlace
      <3> QED BY <1>0, <3>2, <3>3, <3>4 DEF OnePlace
    <2>32. NoneSkipped'
      <3>1. \A u \in Threads, r \in Slots, j \in Tasks : Pending(u, r, j) => \E w \in Threads, q \in Slots : Pending(w, q, j)'
        <4> SUFFICES ASSUME NEW u \in Threads, NEW r \in Slots, NEW j \in Tasks, Pending(u, r, j)
                     PROVE  \E w \in Threads, q \in Slots : Pending(w, q, j)'
          OBVIOUS
        <4>1. CASE u = v /\ r = l
          <5>1. j = k
            <6>1. ~(Phase(v, "execute") /\ Top(v).slot = l)
              <7> SUFFICES ASSUME Phase(v, "execute"), Top(v).slot = l PROVE FALSE
                OBVIOUS
              <7>1. Len(frames[v]) \in Calls(v, l) /\ frames[v][Len(frames[v])].phase = "execute"
                BY TopIs DEF Phase, Calls, Inductive
              <7> QED BY <2>14, <7>1 DEF Busy, Inside
            <6>2. ~(Phase(v, "build") /\ l = right[v] - 1)
              BY <2>3 DEF Live
            <6> QED BY <2>6, <4>1, <6>1, <6>2 DEF Pending
          <5>2. Pending(t, r0, k)'
            BY <2>14, <2>29
          <5> QED BY <5>1, <5>2
        <4>2. CASE ~(u = v /\ r = l)
          BY <2>29, <4>2
        <4> QED BY <4>1, <4>2
      <3>2. \A u \in Threads : Running(u) /\ Top(u).phase \in {"spawn", "build", "throw"} =>
                Running(u)' /\ Top(u)'.phase \in {"spawn", "build", "throw"} /\ TaskOf(u)'.task = TaskOf(u).task
        BY <2>11, <2>19
      <3> QED BY <1>0, <2>24, <3>1, <3>2, StillNoneSkipped DEF Inductive, TypeOK
    <2>33. ASSUME NEW u \in Threads, NEW r \in Slots, NEW j \in Tasks
           PROVE  Queued(u, r, j)' <=> (Queued(u, r, j) /\ ~(u = v /\ r = l)) \/ (u = t /\ r = r0 /\ j = k)
      <3>1. CASE u = t /\ r = r0
        <4>1. tasks[t][r0].state = DONE
          BY <2>13 DEF Inductive, StacksKept, SlotKept
        <4>2. tasks'[t][r0] = x
          BY <2>10
        <4> QED BY <2>8, <2>11, <3>1, <4>1, <4>2 DEF Queued, DONE, INITIALIZED
      <3>2. CASE ~(u = t /\ r = r0)
        <4>1. tasks'[u][r].task = tasks[u][r].task /\ tasks'[u][r].state = IF u = v /\ r = l THEN DONE ELSE tasks[u][r].state
          BY <2>15, <3>2
        <4>2. u = v /\ r = l => ~(Phase(u, "build") /\ r = right[u] - 1)
          BY <2>3 DEF Live
        <4>3. CASE u = t
          BY <2>11, <3>2, <4>1, <4>3 DEF Queued, DONE, INITIALIZED
        <4>4. CASE u # t
          BY <2>5, <2>11, <4>1, <4>2, <4>4 DEF Queued, DONE, INITIALIZED
        <4> QED BY <4>3, <4>4
      <3> QED BY <3>1, <3>2
    <2>34. Queued(v, l, k) /\ \A j \in Tasks : Queued(v, l, j) => j = k
      <3>1. ~(Phase(v, "build") /\ l = right[v] - 1)
        BY <2>3 DEF Live
      <3> QED BY <2>1, <2>6, <3>1 DEF Queued
    <2>35. \A j \in Tasks : Seen(j)
      BY <2>30, <2>33, <2>34 DEF Seen, Waiting, Known
    <2>36. BegunKept
      <3> SUFFICES ASSUME NEW u \in Threads, Running(u)', Top(u)'.phase \in {"spawn", "build"}
                   PROVE  Running(u) /\ Top(u).phase \in {"spawn", "build"} /\ TaskOf(u)'.task = TaskOf(u).task
        BY <1>0 DEF BegunKept
      <3>1. Running(u) /\ u # t
        BY <2>11
      <3> QED BY <2>11, <2>19, <3>1
    <2>37. Still
      BY <1>0, <2>35, <2>36 DEF Still
    <2> QED BY <2>18, <2>21, <2>22, <2>25, <2>26, <2>27, <2>31, <2>32, <2>37 DEF Inductive
  <1> QED BY <1>1, <1>2, <1>3

\* The root task is built at the bottom of the root thread's stack.
LEMMA PushRootKeeps == ASSUME Inductive, PushRoot, UNCHANGED Joiners PROVE Inductive' /\ SpawnedOne(RootTask)
  <1> USE DEF lifeVars, workVars
  <1>0. /\ mode[Root] = "push" /\ Enter(Root, "announce") /\ threadLocal' = threadLocal \union {Root}
        /\ UNCHANGED <<frames, thief, threadCounter, anyTasksRunning, hasRootTask, inPool, rethrown,
                       cancellingException, executed>>
        /\ spawned' = spawned \union {RootTask} /\ Root \in Threads /\ Root \notin Helpers
        /\ Threads = {Root} \union Helpers
    BY DEF PushRoot, TakeSlot, In, Threads
  <1>1. spawned = {} /\ spawned' = {RootTask}
    BY <1>0 DEF Inductive, OnePlace
  <1>2. ~Running(Root) /\ right[Root] = 0 /\ \A q : ~Phase(Root, q)
    <2>1. Running(Root) => mode[Root] \in {"work", "body"}
      BY <1>0 DEF Inductive, FramesNested
    <2>2. right[Root] > 0 => mode[Root] \in {"announce", "add", "work", "steal", "body"}
      BY <1>0 DEF Inductive, FramesNested
    <2>3. right[Root] \in 0 .. TASK_STACK_SIZE
      BY <1>0 DEF Inductive, TypeOK
    <2> QED BY <1>0, <2>1, <2>2, <2>3 DEF Phase
  <1>3. PICK r0 \in Slots : r0 = 0
    BY DEF Slots
  <1>4. right' \in [Threads -> 0 .. TASK_STACK_SIZE] /\ \A u \in Threads : right'[u] = IF u = Root THEN 1 ELSE right[u]
    <2>1. right' = [right EXCEPT ![Root] = 1] /\ 1 \in 0 .. TASK_STACK_SIZE
      BY <1>0, <1>2 DEF PushRoot, TakeSlot
    <2> QED BY <1>0, <2>1 DEF Inductive, TypeOK
  <1>5. PICK x \in TaskRecord :
            /\ x = [task |-> RootTask, state |-> INITIALIZED, stealable |-> TRUE, dependencies |-> 1, parent |-> NoParent]
            /\ x.task = RootTask /\ x.state = INITIALIZED /\ x.stealable = TRUE /\ x.dependencies = 1
            /\ x.parent = NoParent
    <2>1. [task |-> RootTask, state |-> INITIALIZED, stealable |-> TRUE, dependencies |-> 1, parent |-> NoParent] \in TaskRecord
      BY <1>3 DEF TaskRecord, NoParent
    <2> QED BY <2>1
  <1>6. /\ tasks' \in Stacks /\ tasks \in Stacks
        /\ \A u \in Threads, r \in Slots : tasks'[u][r] = IF u = Root /\ r = r0 THEN x ELSE tasks[u][r]
    <2> DEFINE g == [tasks EXCEPT ![Root][r0] = x]
    <2>1. tasks \in Stacks
      BY TasksTyped DEF Inductive
    <2>2. g \in Stacks /\ \A u \in Threads, r \in Slots : g[u][r] = IF u = Root /\ r = r0 THEN x ELSE tasks[u][r]
      BY <1>0, <2>1, SlotWritten
    <2>3. AddDependencies(tasks, NoParent, 1) = tasks
      BY DEF AddDependencies
    <2>4. right'[Root] - 1 = r0
      BY <1>0, <1>3, <1>4
    <2>5. tasks' = g
      BY <1>5, <2>3, <2>4 DEF PushRoot, BuildTask
    <2> HIDE DEF g
    <2> QED BY <2>1, <2>2, <2>5
  <1>7. left' \in [Threads -> Nat]
    <2>1. right'[Root] - 1 = r0 /\ r0 \in Nat /\ left[Root] \in Nat
      BY <1>0, <1>3, <1>4 DEF Inductive, TypeOK
    <2>2. left' = [left EXCEPT ![Root] = IF left[Root] >= r0 THEN r0 ELSE left[Root]]
      BY <2>1 DEF PushRoot, BuildTask
    <2> QED BY <2>1, <2>2 DEF Inductive, TypeOK
  <1>8. /\ \A u \in Threads : /\ (Running(u)' <=> Running(u)) /\ Top(u)' = Top(u)
                              /\ \A q : Phase(u, q)' <=> Phase(u, q)
        /\ \A u \in Threads, r \in Slots : /\ r \in Live(u)' <=> r \in Live(u) \/ (u = Root /\ r = r0)
                                           /\ Signalled(u, r)' <=> Signalled(u, r)
                                           /\ Busy(u, r)' <=> Busy(u, r)
    <2>1. \A u \in Threads : (Running(u)' <=> Running(u)) /\ Top(u)' = Top(u) /\ \A q : Phase(u, q)' <=> Phase(u, q)
      BY <1>0 DEF Running, Top, Phase
    <2>2. \A u \in Threads, r \in Slots : (Signalled(u, r)' <=> Signalled(u, r)) /\ (Busy(u, r)' <=> Busy(u, r))
      BY <1>0 DEF Signalled, Busy, Calls
    <2>3. ASSUME NEW u \in Threads, NEW r \in Slots PROVE r \in Live(u)' <=> r \in Live(u) \/ (u = Root /\ r = r0)
      <3>1. CASE u = Root
        <4>1. r < 1 <=> r = 0
          BY DEF Slots
        <4>2. ~(r < 0)
          BY DEF Slots
        <4> QED BY <1>0, <1>2, <1>3, <1>4, <2>1, <3>1, <4>1, <4>2 DEF Live
      <3>2. CASE u # Root
        BY <1>4, <2>1, <3>2 DEF Live
      <3> QED BY <3>1, <3>2
    <2> QED BY <2>1, <2>2, <2>3
  <1>9. Live(Root) = {} /\ ~Signalled(Root, r0)
    <2>1. Live(Root) = {}
      BY <1>2 DEF Live, Slots
    <2>2. ~Signalled(Root, r0)
      BY <1>0, <1>2, SignalledIs DEF Inductive
    <2> QED BY <2>1, <2>2
  <1>10. SlotGained(Root, r0, x)
    <2>1. \A u \in Threads : \A r \in Live(u) :
              tasks'[u][r].dependencies + (IF Own(u, r) THEN 1 ELSE 0)
                  = tasks[u][r].dependencies + (IF Own(u, r)' THEN 1 ELSE 0)
                    + (IF x.parent = [thread |-> u, slot |-> r] THEN 1 ELSE 0)
      <3> SUFFICES ASSUME NEW u \in Threads, NEW r \in Live(u)
                   PROVE  tasks'[u][r].dependencies + (IF Own(u, r) THEN 1 ELSE 0)
                              = tasks[u][r].dependencies + (IF Own(u, r)' THEN 1 ELSE 0)
                                + (IF x.parent = [thread |-> u, slot |-> r] THEN 1 ELSE 0)
        OBVIOUS
      <3>1. r \in Slots /\ u # Root
        BY <1>9 DEF Live
      <3>2. tasks'[u][r] = tasks[u][r] /\ tasks[u][r].dependencies \in Nat
        BY <1>6, <3>1 DEF Stacks, TaskRecord
      <3>3. Own(u, r)' <=> Own(u, r)
        BY <1>8, <3>1, <3>2 DEF Own
      <3>4. x.parent # [thread |-> u, slot |-> r]
        BY <1>5 DEF NoParent, Threads
      <3> QED BY <3>2, <3>3, <3>4
    <2>2. tasks'[Root][r0] = x
      BY <1>0, <1>6
    <2>3. \A u \in Threads, r \in Slots : ~(u = Root /\ r = r0) =>
              /\ tasks'[u][r].task = tasks[u][r].task /\ tasks'[u][r].stealable = tasks[u][r].stealable
              /\ tasks'[u][r].parent = tasks[u][r].parent
              /\ tasks[u][r].state = DONE => tasks'[u][r].state = DONE
      BY <1>6
    <2>4. r0 \notin Live(Root) /\ \A r \in Live(Root) : r < r0
      BY <1>9
    <2>5. \A u \in Threads, r \in Slots : /\ r \in Live(u)' <=> r \in Live(u) \/ (u = Root /\ r = r0)
                                          /\ Signalled(u, r)' <=> Signalled(u, r)
      BY <1>8
    <2>6. x.task \in Tasks
      BY <1>5
    <2> QED BY <1>3, <1>5, <1>9, <2>1, <2>2, <2>3, <2>4, <2>5, <2>6 DEF SlotGained
  <1>11. StacksKept' /\ Grounded' /\ DependenciesCount'
    BY <1>0, <1>6, <1>10, SlotAdded DEF Inductive
  <1>12. mode' \in [Threads -> Modes] /\ \A u \in Threads : mode'[u] = IF u = Root THEN "announce" ELSE mode[u]
    <2>1. mode \in [Threads -> Modes] /\ "announce" \in Modes
      BY DEF Inductive, TypeOK, Modes
    <2>2. mode' = [mode EXCEPT ![Root] = "announce"]
      BY <1>0 DEF Enter
    <2> QED BY <1>0, <2>1, <2>2
  <1>13. \A u \in Threads : Running(u) => u # Root /\ TaskOf(u)' = TaskOf(u)
    <2> SUFFICES ASSUME NEW u \in Threads, Running(u) PROVE u # Root /\ TaskOf(u)' = TaskOf(u)
      OBVIOUS
    <2>1. u # Root /\ Top(u)' = Top(u) /\ Top(u).slot \in Slots
      BY <1>2, <1>8, FrameTask
    <2> QED BY <1>6, <2>1 DEF TaskOf
  <1>14. FramesNested'
    <2>1. ASSUME NEW u \in Threads, NEW i \in DOMAIN frames'[u]
          PROVE  /\ frames'[u][i].slot < right'[u]
                 /\ frames'[u][i].phase # "start" => tasks'[u][frames'[u][i].slot].state = DONE
                 /\ i < Len(frames'[u]) => frames'[u][i].phase \in {"wait", "local"}
                 /\ \A j \in DOMAIN frames'[u] : i < j => frames'[u][i].slot < frames'[u][j].slot
      <3>1. i \in DOMAIN frames[u] /\ frames' = frames
        BY <1>0
      <3>2. frames[u][i].slot \in Slots /\ u # Root
        <4>1. Running(u)
          BY <3>1, FramesTyped DEF Running, Inductive
        <4> QED BY <1>2, <3>1, <4>1, FramesTyped DEF Inductive
      <3>3. right'[u] = right[u] /\ tasks'[u][frames[u][i].slot] = tasks[u][frames[u][i].slot]
        BY <1>4, <1>6, <3>2
      <3> QED BY <3>1, <3>3 DEF Inductive, FramesNested
    <2>2. ASSUME NEW u \in Threads
          PROVE  /\ Running(u)' /\ Top(u)'.phase \notin {"spawn", "build", "wait", "local"} => Top(u)'.slot = right'[u] - 1
                 /\ Phase(u, "build")' => Top(u)'.slot < right'[u] - 1 /\ Top(u)'.child \in ChildrenOf(TaskOf(u).task)'
                 /\ Phase(u, "pop")' => TaskOf(u)'.dependencies = 0
                 /\ Running(u)' => mode'[u] \in {"work", "body"}
                 /\ right'[u] > 0 => mode'[u] \in {"announce", "add", "work", "steal", "body"}
                 /\ mode'[u] = "steal" => right'[u] = 1
      <3>1. CASE u # Root
        <4>1. /\ Running(u)' <=> Running(u)
              /\ Top(u)' = Top(u) /\ right'[u] = right[u] /\ mode'[u] = mode[u]
              /\ \A q : Phase(u, q)' <=> Phase(u, q)
          BY <1>4, <1>8, <1>12, <3>1
        <4>2. \A q : Phase(u, q) => Running(u)
          BY DEF Phase
        <4> QED BY <1>13, <4>1, <4>2 DEF Inductive, FramesNested, ChildrenOf
      <3>2. CASE u = Root
        BY <1>2, <1>4, <1>8, <1>12, <3>2
      <3> QED BY <3>1, <3>2
    <2> QED BY <2>1, <2>2 DEF FramesNested
  <1>15. TypeOK'
    <2>1. /\ frames \in [Threads -> Seq([slot : Slots, phase : Phases, child : Tasks \union {Nobody}])]
          /\ thief \in [Threads -> [step : {"none", "claim", "test", "take"}, victim : Threads \union {Nobody}, l : Nat]]
          /\ threadLocal \subseteq Threads /\ threadCounter \in Nat /\ anyTasksRunning \in Nat
          /\ hasRootTask \in BOOLEAN /\ inPool \in BOOLEAN
          /\ cancellingException \in Tasks \union {Nobody}
          /\ rethrown \in [Threads -> Tasks \union {Nobody}]
          /\ executed \in [Tasks -> Nat] /\ Joiners \subseteq Helpers
      BY DEF Inductive, TypeOK
    <2>2. threadLocal' \subseteq Threads /\ spawned' \subseteq Tasks
      BY <1>0, <1>1, <2>1
    <2>3. tasks' \in [Threads -> [Slots ->
             [task : Tasks \union {Nobody}, state : {DONE, INITIALIZED}, stealable : BOOLEAN,
              dependencies : Nat, parent : [thread : Threads \union {Nobody}, slot : Slots]]]]
      BY <1>6 DEF Stacks, TaskRecord
    <2> QED BY <1>0, <1>4, <1>7, <1>12, <2>1, <2>2, <2>3 DEF TypeOK
  <1>16. ThreadsCounted'
    <2>1. Counters /\ RootPlaced /\ HelpersPlaced /\ LocalsPlaced /\ ThievesPlaced
      BY CountedIs DEF Inductive
    <2>2. Counters'
      <3>1. threadCounter' = threadCounter /\ anyTasksRunning' = anyTasksRunning /\ threadCounter \in Nat /\ anyTasksRunning \in Nat
        BY <1>0 DEF Inductive, TypeOK
      <3>2. /\ threadCounter' \in Int /\ threadCounter' + One("push", HereModes) = threadCounter + One("announce", HereModes)
            /\ anyTasksRunning' \in Int /\ anyTasksRunning' + One("push", BusyModes) = anyTasksRunning + One("announce", BusyModes)
        BY <3>1 DEF One, HereModes, BusyModes
      <3> QED BY <1>0, <3>2, CountStep DEF Inductive, Modes
    <2>3. RootPlaced'
      BY <1>0, <1>12, <2>1 DEF RootPlaced
    <2>4. HelpersPlaced'
      BY <1>0, <1>12, <2>1 DEF HelpersPlaced, Pool, AfterWork
    <2>5. LocalsPlaced'
      BY <1>0, <1>12, <2>1 DEF LocalsPlaced, Inductive, TypeOK
    <2>6. ThievesPlaced'
      BY <1>0, <1>8, <1>12, <2>1 DEF ThievesPlaced
    <2> QED BY <2>2, <2>3, <2>4, <2>5, <2>6, CountedIs, PTL
  <1>17. ThreadsAlive'
    <2>1. ASSUME NEW u \in Threads, thief'[u] # NotStealing PROVE mode'[thief'[u].victim] \notin {"out", "returned"}
      BY <1>0, <1>12, <2>1, ThiefIs
    <2> QED BY <2>1 DEF ThreadsAlive
  <1>18. RootOutlasts' /\ ExceptionReachesRoot'
    BY <1>0, <1>12 DEF RootOutlasts, ExceptionReachesRoot, AfterWork
  <1>19. ASSUME NEW u \in Threads, NEW r \in Slots, NEW j \in Tasks
         PROVE  /\ Pending(u, r, j)' <=> u = Root /\ r = r0 /\ j = RootTask
                /\ Original(u, r, j)' => u = Root /\ r = r0 /\ j = RootTask
                /\ Queued(u, r, j)' <=> u = Root /\ r = r0 /\ j = RootTask
                /\ ~Queued(u, r, j) /\ ~Original(u, r, j)
    <2>1. ~Pending(u, r, j) /\ ~Original(u, r, j) /\ ~Queued(u, r, j)
      BY <1>1 DEF Inductive, OnePlace, Pending, Queued
    <2>2. CASE u = Root /\ r = r0
      <3>1. tasks'[Root][r0] = x
        BY <1>0, <1>6
      <3> QED BY <1>2, <1>5, <1>8, <2>1, <2>2, <3>1 DEF Pending, Original, Queued
    <2>3. CASE u = Root /\ r # r0
      <3>1. tasks'[u][r] = tasks[u][r] /\ ~Phase(u, "execute")' /\ ~Phase(u, "build")' /\ (r \in Live(u)' <=> r \in Live(u))
        BY <1>2, <1>6, <1>8, <2>3
      <3> QED BY <2>1, <2>3, <3>1 DEF Pending, Original, Queued
    <2>4. CASE u # Root
      <3>1. tasks'[u][r] = tasks[u][r] /\ right'[u] = right[u] /\ Top(u)' = Top(u) /\ (r \in Live(u)' <=> r \in Live(u))
            /\ \A q : Phase(u, q)' <=> Phase(u, q)
        BY <1>4, <1>6, <1>8, <2>4
      <3> QED BY <2>1, <2>4, <3>1 DEF Pending, Original, Queued
    <2> QED BY <2>2, <2>3, <2>4
  <1>20. \A j \in Tasks : executed[j] = 0
    BY <1>1 DEF Inductive, OnePlace
  <1>21. OnePlace'
    <2>1. ASSUME NEW j \in Tasks, NEW u \in Threads, NEW w \in Threads, NEW q \in Slots, NEW r \in Slots
          PROVE  /\ Pending(u, q, j)' => j \in spawned' /\ executed'[j] = 0
                 /\ Original(u, q, j)' => j \in spawned'
                 /\ Pending(u, q, j)' /\ Pending(w, r, j)' => u = w /\ q = r
                 /\ Original(u, q, j)' /\ Original(w, r, j)' => u = w /\ q = r
      BY <1>0, <1>1, <1>19, <1>20
    <2>2. /\ \A j \in Tasks : executed'[j] <= 1 /\ (j \notin spawned' => executed'[j] = 0)
          /\ spawned' # {} /\ mode'[Root] \notin {"out", "push"} /\ RootTask \in spawned'
      BY <1>0, <1>1, <1>12, <1>20
    <2> QED BY <2>1, <2>2 DEF OnePlace
  <1>22. NoneSkipped'
    <2>1. \A j \in spawned' : executed'[j] = 0 /\ \E u \in Threads, r \in Slots : Pending(u, r, j)'
      BY <1>0, <1>1, <1>19, <1>20
    <2> QED BY <2>1 DEF NoneSkipped
  <1>23. BegunKept
    <2> SUFFICES ASSUME NEW u \in Threads, Running(u)', Top(u)'.phase \in {"spawn", "build"}
                 PROVE  Running(u) /\ Top(u).phase \in {"spawn", "build"} /\ TaskOf(u)'.task = TaskOf(u).task
      BY <1>0 DEF BegunKept
    <2> QED BY <1>8, <1>13
  <1>24. SpawnedOne(RootTask)
    <2>1. \A j \in Tasks : j # RootTask => Seen(j)
      BY <1>19 DEF Seen, Waiting, Known
    <2>2. Waiting(RootTask)'
      BY <1>0, <1>19 DEF Waiting
    <2> QED BY <1>1, <1>23, <2>1, <2>2 DEF SpawnedOne
  <1> QED BY <1>11, <1>14, <1>15, <1>16, <1>17, <1>18, <1>21, <1>22, <1>24 DEF Inductive

\* At first no thread is in, no task is spawned, and every slot is unused.
LEMMA InitInductive == Init => Inductive
  <1> SUFFICES ASSUME Init PROVE Inductive
    OBVIOUS
  <1>0. Root \in Threads /\ Nobody \notin Threads /\ 0 \in Slots /\ Root \notin Helpers
    BY DEF Threads, Slots
  <1>1. TypeOK
    <2>1. Unused \in TaskRecord
      BY <1>0 DEF Unused, TaskRecord, NoParent
    <2>2. tasks \in Stacks
      BY <2>1 DEF Init, Stacks
    <2>3. frames \in [Threads -> Seq(Frame)]
      BY DEF Init
    <2>4. thief \in [Threads -> [step : {"none", "claim", "test", "take"}, victim : Threads \union {Nobody}, l : Nat]]
      BY DEF Init, NotStealing
    <2>5. mode \in [Threads -> Modes]
      BY DEF Init, Modes
    <2>6. left \in [Threads -> Nat] /\ right \in [Threads -> 0 .. TASK_STACK_SIZE]
      BY DEF Init
    <2> QED BY <2>2, <2>3, <2>4, <2>5, <2>6 DEF Init, TypeOK, Stacks, TaskRecord, Frame
  <1>2. \A u \in Threads : /\ ~Running(u) /\ right[u] = 0 /\ mode[u] = "out" /\ thief[u] = NotStealing
                           /\ DOMAIN frames[u] = {} /\ Live(u) = {} /\ \A q : ~Phase(u, q)
    BY DEF Init, Running, Live, Phase, Slots
  <1>3. \A u \in Threads, s \in Slots : tasks[u][s] = Unused
    BY DEF Init
  <1>4. FramesNested
    BY <1>2 DEF FramesNested
  <1>5. StacksKept
    BY <1>2, <1>3 DEF StacksKept, SlotKept, Unused
  <1>6. Grounded
    <2>1. Unfinished = {}
      BY <1>2 DEF Unfinished
    <2> QED BY <2>1 DEF Grounded
  <1>7. DependenciesCount
    BY <1>2 DEF DependenciesCount
  <1>8. OnePlace /\ NoneSkipped
    <2>1. \A u \in Threads, s \in Slots, k \in Tasks : ~Pending(u, s, k) /\ ~Original(u, s, k)
      BY <1>2, <1>3 DEF Pending, Original, Unused, DONE, INITIALIZED
    <2>2. spawned = {} /\ mode[Root] = "out" /\ \A k \in Tasks : executed[k] = 0
      BY <1>0 DEF Init
    <2> QED BY <2>1, <2>2 DEF OnePlace, NoneSkipped
  <1>9. ThreadsCounted
    <2>1. {t \in Threads : mode[t] \notin {"out", "await", "returned"}} = {}
      BY <1>2
    <2>2. {t \in Threads : mode[t] \in {"add", "work", "body"}} = {}
      BY <1>2
    <2>3. Counters
      BY <2>1, <2>2, FS_EmptySet DEF Counters, Init
    <2>4. RootPlaced /\ LocalsPlaced
      BY <1>0, <1>2 DEF RootPlaced, LocalsPlaced, Init, AfterWork
    <2>5. HelpersPlaced
      BY <1>2 DEF HelpersPlaced, Threads
    <2>6. ThievesPlaced
      BY <1>2 DEF ThievesPlaced
    <2> QED BY <2>3, <2>4, <2>5, <2>6, CountedIs
  <1>10. RootOutlasts /\ ThreadsAlive /\ ExceptionReachesRoot
    BY <1>0, <1>2 DEF RootOutlasts, ThreadsAlive, ExceptionReachesRoot, AfterWork
  <1> QED BY <1>1, <1>4, <1>5, <1>6, <1>7, <1>8, <1>9, <1>10 DEF Inductive

\* Every step preserves the inductive invariant.
LEMMA StepInductive == Inductive /\ [Next]_<<vars, Joiners>> => Inductive'
  <1> SUFFICES ASSUME Inductive, [Next]_<<vars, Joiners>> PROVE Inductive'
    OBVIOUS
  <1>0. Root \in Threads
    BY DEF Threads
  <1>1. CASE UNCHANGED <<vars, Joiners>>
    <2>1. NotStealing \in [step : {"none", "claim", "test", "take"}, victim : Threads \union {Nobody}, l : Nat]
      BY DEF NotStealing
    <2>2. UNCHANGED <<tasks, right, frames, mode, lifeVars, workVars, Joiners, left, thief>>
      BY <1>1 DEF vars, stackVars
    <2>3. PICK x \in [step : {"none", "claim", "test", "take"}, victim : Threads \union {Nobody}, l : Nat] :
              x = thief[Root] /\ thief' = [thief EXCEPT ![Root] = x] /\ left' \in [Threads -> Nat]
      BY <1>0, <2>2 DEF Inductive, TypeOK
    <2>4. x # NotStealing => /\ x.step # "none" /\ x.victim \in Threads /\ mode[x.victim] \notin {"out", "returned"}
                             /\ x.step = "take" => x.l \in Slots
                             /\ Phase(Root, "join") \/ (~Running(Root) /\ mode[Root] = "loop")
      BY <1>0, <2>3, ThiefIs
    <2> QED BY <1>0, <2>2, <2>3, <2>4, ThiefStep
  <1>2. CASE Next
    <2>0. UNCHANGED Joiners
      BY <1>2 DEF Next
    <2>1. CASE SpawnRoot \/ RootCall
      BY <2>0, <2>1, SpawnRootKeeps, PushRootKeeps, AnnounceKeeps, AddSchedulerKeeps, RootDoneKeeps,
         RemoveSchedulerKeeps DEF RootCall
    <2>2. CASE \E t \in Threads : Join(t) \/ Loop(t)
      BY <2>0, <2>2, JoinKeeps, PoolEntersKeeps, WokenKeeps, EnterLoopKeeps, BodyBeginsKeeps, BodyEndsKeeps,
         LoopEndsKeeps, LeaveKeeps, CountDownKeeps, ReturnKeeps DEF Loop
    <2>3. CASE \E t \in Threads : Steal(t)
      BY <2>0, <2>3, LookKeeps, ClaimKeeps, TestKeeps, TakeKeeps DEF Steal
    <2>4. CASE \E t \in Threads : Run(t)
      BY <2>0, <2>4, RunLocalKeeps, StartKeeps, ExecuteKeeps, SpawnKeeps, BuildKeeps, WaitKeeps, ThrowKeeps,
         KeepExceptionKeeps, WaitOverKeeps, ExecutedKeeps, LocalOverKeeps, SignalKeeps, PopKeeps DEF Run
    <2> QED BY <1>2, <2>1, <2>2, <2>3, <2>4 DEF Next, Work
  <1> QED BY <1>1, <1>2

\* What a stack or a call tells about the place of its thread, and the threads that are busy
LEMMA NothingLeft ==
    ASSUME Inductive, mode[Root] \in AfterWork,
           \A t \in Threads : mode[t] \notin {"add", "work", "body"}
    PROVE  \A t \in Threads : right[t] = 0 /\ ~Running(t)
  <1> SUFFICES ASSUME NEW t \in Threads PROVE right[t] = 0 /\ ~Running(t)
    OBVIOUS
  <1>0. Root \in Threads
    BY DEF Threads
  <1>1. ~Running(t)
    BY DEF Inductive, FramesNested
  <1>2. right[t] \in 0 .. TASK_STACK_SIZE
    BY DEF Inductive, TypeOK
  <1>3. CASE right[t] > 0
    <2>1. 0 \in Live(t)
      BY <1>1, <1>2, <1>3 DEF Live, Phase, Slots
    <2>2. 0 \in Live(t) => Running(t)
      BY <2>1, Quiet DEF Inductive, Live
    <2> QED BY <1>1, <2>1, <2>2
  <1> QED BY <1>1, <1>2, <1>3

\* The promises about single states follow.
LEMMA InductiveImplies == Inductive => RunOnce /\ RootLast /\ BusyCounted
  <1> SUFFICES ASSUME Inductive PROVE RunOnce /\ RootLast /\ BusyCounted
    OBVIOUS
  <1>0. Root \in Threads /\ RootPlaced
    BY CountedIs DEF Inductive, Threads
  <1>1. RunOnce
    <2>1. \A k \in Tasks : executed[k] <= 1
      BY DEF Inductive, OnePlace
    <2>2. mode[Root] = "remove" /\ cancellingException = Nobody => \A k \in Tasks : executed[k] = 1
      BY AllRan DEF AfterWork
    <2> QED BY <2>1, <2>2 DEF RunOnce, In
  <1>2. RootLast
    <2> SUFFICES ASSUME mode[Root] = "returned" PROVE \A t \in Threads : right[t] = 0 /\ ~Running(t)
      BY DEF RootLast, In
    <2>1. \A t \in Threads : mode[t] \notin {"steal", "body"}
      BY DEF Inductive, RootOutlasts
    <2>2. \A t \in Threads : mode[t] \notin {"add", "work", "body"}
      BY <2>1, CountedIs DEF Inductive, HelpersPlaced, Threads
    <2> QED BY <2>2, NothingLeft DEF AfterWork
  <1>3. BusyCounted
    <2> SUFFICES ASSUME anyTasksRunning = 0, mode[Root] \notin {"out", "push", "announce"}
                 PROVE  \A t \in Threads : right[t] = 0 /\ ~Running(t)
      BY DEF BusyCounted
    <2>1. \A t \in Threads : mode[t] \notin {"add", "work", "body"}
      BY NobodyCounted DEF Inductive
    <2>2. mode[Root] \in AfterWork
      BY <1>0, <2>1 DEF RootPlaced
    <2> QED BY <2>1, <2>2, NothingLeft
  <1> QED BY <1>1, <1>2, <1>3

\* Of every tree of tasks, with any number of helpers and whatever is thrown: a task runs once, its
\* counter counts what it waits for, no thread is freed that can be robbed, spawn_root returns
\* when all is over, and what was thrown reaches it (src/embree/common/tasking/taskschedulerinternal.cpp).
THEOREM SchedulerKeepsPromises == Spec => []SchedulerInv
  <1>1. Inductive => SchedulerInv
    BY InductiveImplies DEF Inductive, SchedulerInv
  <1> QED BY <1>1, InitInductive, StepInductive, PTL DEF Spec

\* Whatever is not over yet, a copy or not, its task is: the one that was spawned is not over either.
LEMMA Chain ==
    ASSUME Inductive, NEW t \in Threads, NEW s \in Live(t), ~Signalled(t, s), NEW k \in Tasks, tasks[t][s].task = k
    PROVE  \E u \in Threads, r \in Slots : r \in Live(u) /\ ~Signalled(u, r) /\ Original(u, r, k)
  <1> SUFFICES ASSUME \A u \in Threads, r \in Slots : ~(r \in Live(u) /\ ~Signalled(u, r) /\ Original(u, r, k))
               PROVE  FALSE
    OBVIOUS
  <1>1. PICK S \in SUBSET Unfinished :
            \A d \in Unfinished : d \in S <=> ~tasks[d[1]][d[2]].stealable /\ tasks[d[1]][d[2]].task = k
    <2>1. {d \in Unfinished : ~tasks[d[1]][d[2]].stealable /\ tasks[d[1]][d[2]].task = k} \in SUBSET Unfinished
      OBVIOUS
    <2> QED BY <2>1
  <1>2. ASSUME NEW d \in Unfinished, tasks[d[1]][d[2]].task = k PROVE d \in S
    <2>1. d[1] \in Threads /\ d[2] \in Slots /\ d[2] \in Live(d[1]) /\ ~Signalled(d[1], d[2])
      BY DEF Unfinished
    <2>2. ~tasks[d[1]][d[2]].stealable
      BY <1>2, <2>1 DEF Original
    <2> QED BY <1>1, <1>2, <2>2
  <1>3. PICK c \in Unfinished : c = <<t, s>>
    <2>1. <<t, s>> \in Threads \X Slots
      BY OnStack DEF Inductive
    <2> QED BY <2>1 DEF Unfinished
  <1>4. c \in S
    BY <1>2, <1>3
  <1>5. PICK d \in S : ParentOf(d) \notin S
    BY <1>4 DEF Inductive, Grounded
  <1>6. d[1] \in Threads /\ d[2] \in Live(d[1]) /\ ~Signalled(d[1], d[2]) /\ d \in Unfinished
    BY <1>5 DEF Unfinished
  <1>7. SlotKept(d[1], d[2])
    BY <1>6, OnStack DEF Inductive
  <1>8. ~tasks[d[1]][d[2]].stealable /\ tasks[d[1]][d[2]].task = k
    BY <1>1, <1>6
  <1>9. tasks[d[1]][d[2]].parent # NoParent
    BY <1>6, <1>7, <1>8 DEF SlotKept
  <1>10. ParentOf(d) \in Unfinished
    BY <1>6, <1>9, ParentUnfinished DEF Inductive
  <1>11. tasks[ParentOf(d)[1]][ParentOf(d)[2]].task = k
    <2>1. tasks[tasks[d[1]][d[2]].parent.thread][tasks[d[1]][d[2]].parent.slot].task = k
      BY <1>6, <1>7, <1>8 DEF SlotKept
    <2> QED BY <2>1 DEF ParentOf
  <1> QED BY <1>2, <1>5, <1>10, <1>11

\* A task that a call is in, or that is still to run, has its slot.
LEMMA CallKnown == ASSUME Inductive, NEW t \in Threads, Running(t), Top(t).phase # "pop" PROVE Known(TaskOf(t).task)
  <1>1. Top(t).slot \in Live(t) /\ TaskOf(t).task \in Tasks /\ Top(t).slot \in Slots
    BY FrameTask
  <1>2. ~Signalled(t, Top(t).slot)
    BY <1>1, SignalledIs DEF Phase, Inductive
  <1> QED BY <1>1, <1>2, Chain DEF Known, TaskOf

LEMMA WaitingKnown == ASSUME Inductive, NEW k \in Tasks, Waiting(k)
                      PROVE  Known(k) /\ k \in spawned /\ executed[k] = 0
  <1>1. PICK t \in Threads, s \in Slots : Queued(t, s, k)
    BY DEF Waiting
  <1>2. Pending(t, s, k)
    BY <1>1 DEF Queued, Pending
  <1>3. k \in spawned /\ executed[k] = 0
    BY <1>2 DEF Inductive, OnePlace
  <1>4. CASE tasks[t][s].state = INITIALIZED /\ tasks[t][s].task = k
    <2>1. s \in Live(t)
      BY <1>4, WaitingOnStack DEF Inductive
    <2>2. ~Signalled(t, s)
      BY <1>4 DEF Signalled, Calls, Inductive, FramesNested, DONE, INITIALIZED
    <2>3. Known(k)
      BY <1>4, <2>1, <2>2, Chain DEF Known
    <2> QED BY <1>3, <2>3
  <1>5. CASE Phase(t, "build") /\ s = right[t] - 1 /\ Top(t).child = k
    BY <1>3, <1>5 DEF Known, Original
  <1> QED BY <1>1, <1>4, <1>5 DEF Queued

\* The parent of a task that has its slot has its own, and is not over.
LEMMA ParentKnown ==
    ASSUME Inductive, NEW k \in Tasks, NEW c \in ChildrenOf(k), Known(c)
    PROVE  \E u \in Threads, r \in Slots : r \in Live(u) /\ ~Signalled(u, r) /\ Original(u, r, k)
  <1>0. c \in Tasks /\ c # RootTask /\ \A j : c \in ChildrenOf(j) => j = k
    BY DEF ChildrenOf
  <1>1. PICK t \in Threads, s \in Slots : Original(t, s, c)
    BY DEF Known
  <1>2. CASE s \in Live(t) /\ tasks[t][s].stealable /\ tasks[t][s].task = c
    <2>1. SlotKept(t, s)
      BY <1>2, OnStack DEF Inductive
    <2>2. tasks[t][s].parent # NoParent
      BY <1>0, <1>2, <2>1 DEF SlotKept
    <2>3. tasks[t][s].parent.slot < s /\ c \in ChildrenOf(tasks[t][tasks[t][s].parent.slot].task)
      BY <1>2, <2>1, <2>2 DEF SlotKept
    <2>4. PICK p \in Slots : p = tasks[t][s].parent.slot
      BY DEF Inductive, TypeOK
    <2>5. tasks[t][p].task = k /\ p < s
      BY <1>0, <2>3, <2>4
    <2>6. right[t] \in Nat /\ s < right[t]
      BY <1>2 DEF Live, Inductive, TypeOK
    <2>7. p < right[t] /\ p # right[t] - 1
      BY <2>5, <2>6 DEF Slots
    <2>8. p \in Live(t)
      BY <2>7 DEF Live
    <2>9. ~Signalled(t, p)
      <3>1. Phase(t, "pop") => Top(t).slot = right[t] - 1
        BY DEF Inductive, FramesNested, Phase
      <3> QED BY <2>7, <3>1, SignalledIs DEF Inductive
    <2> QED BY <2>5, <2>8, <2>9, Chain
  <1>3. CASE Phase(t, "build") /\ s = right[t] - 1 /\ Top(t).child = c
    <2>1. Top(t).slot \in Live(t) /\ Top(t).slot \in Slots
      BY <1>3, FrameTask DEF Phase
    <2>2. c \in ChildrenOf(TaskOf(t).task)
      BY <1>3 DEF Inductive, FramesNested
    <2>3. TaskOf(t).task = k
      BY <1>0, <2>2
    <2>4. ~Signalled(t, Top(t).slot)
      BY <1>3, <2>1, SignalledIs DEF Inductive, Phase
    <2> QED BY <2>1, <2>3, <2>4, Chain DEF TaskOf
  <1> QED BY <1>1, <1>2, <1>3 DEF Original

\* What the abstract system sees of a task
Standing(k) == IF k \notin spawned THEN "unknown" ELSE IF Waiting(k) THEN "spawned"
               ELSE IF Known(k) THEN "running" ELSE "completed"

LEMMA StatusIs == Inductive => status = [k \in Tasks |-> Standing(k)]
  <1> SUFFICES ASSUME Inductive PROVE status = [k \in Tasks |-> Standing(k)]
    OBVIOUS
  <1> DEFINE on == {c \in Threads \X Slots : c[2] \in Live(c[1])}
             original == {c \in on : tasks[c[1]][c[2]].stealable}
             waiting == {tasks[c[1]][c[2]].task : c \in {d \in on : tasks[d[1]][d[2]].state = INITIALIZED}}
             unbuilt == {Top(t).child : t \in {u \in Threads : Phase(u, "build")}}
             present == {tasks[c[1]][c[2]].task : c \in original}
  <1>1. ASSUME NEW k \in Tasks PROVE Waiting(k) <=> k \in unbuilt \union waiting
    <2>1. ASSUME NEW t \in Threads, NEW s \in Slots, Queued(t, s, k) PROVE k \in unbuilt \union waiting
      <3>1. CASE tasks[t][s].state = INITIALIZED /\ tasks[t][s].task = k
        <4>1. <<t, s>> \in on
          BY <3>1, WaitingOnStack DEF Inductive
        <4>2. <<t, s>> \in {d \in on : tasks[d[1]][d[2]].state = INITIALIZED}
          BY <3>1, <4>1
        <4>3. tasks[<<t, s>>[1]][<<t, s>>[2]].task \in waiting
          BY <4>2
        <4> QED BY <3>1, <4>3
      <3>2. CASE Phase(t, "build") /\ Top(t).child = k
        BY <3>2
      <3> QED BY <2>1, <3>1, <3>2 DEF Queued
    <2>2. ASSUME k \in waiting PROVE Waiting(k)
      <3>1. PICK c \in Threads \X Slots : tasks[c[1]][c[2]].state = INITIALIZED /\ tasks[c[1]][c[2]].task = k
        BY <2>2
      <3>2. Queued(c[1], c[2], k) /\ c[1] \in Threads /\ c[2] \in Slots
        BY <3>1 DEF Queued
      <3> QED BY <3>2 DEF Waiting
    <2>3. ASSUME k \in unbuilt PROVE Waiting(k)
      <3>1. PICK t \in Threads : Phase(t, "build") /\ Top(t).child = k
        BY <2>3
      <3>2. Top(t).slot < right[t] - 1 /\ Top(t).slot \in Slots /\ right[t] \in 0 .. TASK_STACK_SIZE
        BY <3>1, FrameTask DEF Inductive, FramesNested, TypeOK, Phase
      <3>3. right[t] - 1 \in Slots
        BY <3>2 DEF Slots
      <3> QED BY <3>1, <3>3 DEF Waiting, Queued
    <2> QED BY <2>1, <2>2, <2>3 DEF Waiting
  <1>2. ASSUME NEW k \in Tasks, ~Waiting(k) PROVE Known(k) <=> k \in present
    <2>1. ASSUME NEW t \in Threads, NEW s \in Slots, Original(t, s, k) PROVE k \in present
      <3>1. ~(Phase(t, "build") /\ s = right[t] - 1 /\ Top(t).child = k)
        BY <1>2 DEF Waiting, Queued
      <3>2. s \in Live(t) /\ tasks[t][s].stealable /\ tasks[t][s].task = k
        BY <2>1, <3>1 DEF Original
      <3>3. <<t, s>> \in original
        BY <3>2
      <3>4. tasks[<<t, s>>[1]][<<t, s>>[2]].task \in present
        BY <3>3
      <3> QED BY <3>2, <3>4
    <2>2. ASSUME k \in present PROVE Known(k)
      <3>1. PICK c \in Threads \X Slots : c[2] \in Live(c[1]) /\ tasks[c[1]][c[2]].stealable /\ tasks[c[1]][c[2]].task = k
        BY <2>2
      <3>2. Original(c[1], c[2], k) /\ c[1] \in Threads /\ c[2] \in Slots
        BY <3>1 DEF Original
      <3> QED BY <3>2 DEF Known
    <2> QED BY <2>1, <2>2 DEF Known
  <1>3. status = [k \in Tasks |-> IF k \notin spawned THEN "unknown"
                                  ELSE IF k \in unbuilt \union waiting THEN "spawned"
                                  ELSE IF k \in present THEN "running" ELSE "completed"]
    BY DEF status
  <1> HIDE DEF waiting, unbuilt, present
  <1>4. \A k \in Tasks : Standing(k) = IF k \notin spawned THEN "unknown"
                                       ELSE IF k \in unbuilt \union waiting THEN "spawned"
                                       ELSE IF k \in present THEN "running" ELSE "completed"
    BY <1>1, <1>2 DEF Standing
  <1> QED BY <1>3, <1>4

\* What a step looks like from outside
LEMMA StepSeen ==
    ASSUME Inductive, [Next]_<<vars, Joiners>>
    PROVE  \/ Still
           \/ \E k \in Tasks : StartedOne(k)
           \/ SpawnedOne(RootTask)
           \/ \E t \in Threads, k \in Tasks : Spawn(t, k) /\ SpawnedOne(k)
           \/ \E t \in Threads : Pop(t) /\ PoppedOne(t)
  <1>1. CASE UNCHANGED <<vars, Joiners>>
    BY <1>1, NothingMoved DEF vars, stackVars, workVars
  <1>2. ASSUME UNCHANGED Joiners, SpawnRoot \/ RootCall PROVE Still \/ SpawnedOne(RootTask)
    <2>1. CASE PushRoot
      BY <1>2, <2>1, PushRootKeeps
    <2>2. CASE SpawnRoot
      BY <2>2, NothingMoved DEF SpawnRoot, stackVars, workVars
    <2>3. CASE Announce
      BY <2>3, NothingMoved DEF Announce, stackVars, workVars
    <2>4. CASE AddScheduler
      BY <2>4, NothingMoved DEF AddScheduler, stackVars, workVars
    <2>5. CASE RootDone
      BY <2>5, NothingMoved DEF RootDone, stackVars, workVars
    <2>6. CASE RemoveScheduler
      BY <2>6, NothingMoved DEF RemoveScheduler, stackVars, workVars
    <2> QED BY <1>2, <2>1, <2>2, <2>3, <2>4, <2>5, <2>6 DEF RootCall
  <1>3. ASSUME NEW t \in Threads, Join(t) \/ Loop(t) PROVE Still
    <2>1. CASE Join(t)
      BY <2>1, NothingMoved DEF Join, stackVars, workVars
    <2>2. CASE PoolEnters(t)
      BY <2>2, NothingMoved DEF PoolEnters, stackVars, workVars
    <2>3. CASE Woken(t)
      BY <2>3, NothingMoved DEF Woken, stackVars, workVars
    <2>4. CASE EnterLoop(t)
      BY <2>4, NothingMoved DEF EnterLoop, stackVars, workVars
    <2>5. CASE BodyBegins(t)
      BY <2>5, NothingMoved DEF BodyBegins, stackVars, workVars
    <2>6. CASE BodyEnds(t)
      BY <2>6, NothingMoved DEF BodyEnds, stackVars, workVars
    <2>7. CASE LoopEnds(t)
      BY <2>7, NothingMoved DEF LoopEnds, stackVars, workVars
    <2>8. CASE Leave(t)
      BY <2>8, NothingMoved DEF Leave, stackVars, workVars
    <2>9. CASE CountDown(t)
      BY <2>9, NothingMoved DEF CountDown, stackVars, workVars
    <2>10. CASE Return(t)
      BY <2>10, NothingMoved DEF Return, stackVars
    <2> QED BY <1>3, <2>1, <2>2, <2>3, <2>4, <2>5, <2>6, <2>7, <2>8, <2>9, <2>10 DEF Loop
  <1>4. ASSUME UNCHANGED Joiners, NEW t \in Threads, Steal(t) PROVE Still
    <2>1. ASSUME NEW v \in Threads, Look(t, v) PROVE Still
      BY <2>1, NothingMoved DEF Look, stackVars, workVars
    <2>2. CASE Claim(t)
      BY <2>2, NothingMoved DEF Claim, workVars
    <2>3. CASE Test(t)
      BY <2>3, NothingMoved DEF Test, stackVars, workVars
    <2>4. CASE Take(t)
      BY <1>4, <2>4, TakeKeeps
    <2> QED BY <1>4, <2>1, <2>2, <2>3, <2>4 DEF Steal
  <1>5. ASSUME UNCHANGED Joiners, NEW t \in Threads, Run(t)
        PROVE  \/ Still
               \/ \E k \in Tasks : StartedOne(k)
               \/ \E k \in Tasks : Spawn(t, k) /\ SpawnedOne(k)
               \/ Pop(t) /\ PoppedOne(t)
    <2>0. /\ "spawn" \in Phases /\ "wait" \in Phases /\ "throw" \in Phases
          /\ "executed" \in Phases /\ "join" \in Phases
      BY DEF Phases
    <2>1. CASE RunLocal(t) \/ Build(t) \/ Executed(t) \/ Signal(t)
      BY <1>5, <2>1, RunLocalKeeps, BuildKeeps, ExecutedKeeps, SignalKeeps
    <2>2. CASE Start(t)
      <3>1. Still \/ StartedOne(TaskOf(t).task)
        BY <1>5, <2>2, StartKeeps
      <3>2. StartedOne(TaskOf(t).task) => TaskOf(t).task \in Tasks
        BY DEF StartedOne
      <3> QED BY <3>1, <3>2
    <2>3. CASE \E k \in Tasks : Spawn(t, k)
      BY <1>5, <2>3, SpawnKeeps
    <2>4. CASE Pop(t)
      BY <1>5, <2>4, PopKeeps
    <2>5. CASE Execute(t)
      <3>1. Running(t) /\ Top(t).phase = "execute" /\ UNCHANGED <<tasks, right, spawned>>
        BY <2>5 DEF Execute, Phase, stackVars
      <3>2. PICK k \in Tasks : k = TaskOf(t).task
        BY <3>1, FrameTask
      <3>3. executed \in [Tasks -> Nat]
        BY DEF Inductive, TypeOK
      <3>4. CASE executed' = [executed EXCEPT ![k] = @ + 1] /\ SetPhase(t, "spawn")
        <4>1. executed'[k] # 0 /\ \A j \in Tasks : executed[j] # 0 => executed'[j] # 0
          BY <3>3, <3>4
        <4> QED BY <2>0, <3>1, <3>2, <3>4, <4>1, PhaseStill
      <3>5. CASE executed' = executed /\ SetPhase(t, "executed")
        BY <2>0, <3>1, <3>5, PhaseStill
      <3> QED BY <2>5, <3>2, <3>4, <3>5 DEF Execute
    <2>6. CASE Wait(t)
      <3>1. Running(t) /\ Top(t).phase = "spawn" /\ SetPhase(t, "wait") /\ UNCHANGED <<tasks, right, spawned, executed>>
        BY <2>6 DEF Wait, Phase, stackVars, workVars
      <3> QED BY <2>0, <3>1, PhaseStill
    <2>7. CASE Throw(t)
      <3>1. Running(t) /\ Top(t).phase \in {"spawn", "wait"} /\ UNCHANGED <<tasks, right, spawned, executed>>
        BY <2>7 DEF Throw, Phase, stackVars, workVars
      <3>2. PICK p \in {"throw", "executed"} : SetPhase(t, p)
        BY <2>7 DEF Throw
      <3> QED BY <2>0, <3>1, <3>2, PhaseStill
    <2>8. CASE KeepException(t)
      <3>1. Running(t) /\ Top(t).phase = "throw" /\ SetPhase(t, "executed") /\ UNCHANGED <<tasks, right, spawned, executed>>
        BY <2>8 DEF KeepException, Phase, stackVars
      <3> QED BY <2>0, <3>1, PhaseStill
    <2>9. CASE WaitOver(t)
      <3>1. Running(t) /\ Top(t).phase = "wait" /\ SetPhase(t, "executed") /\ UNCHANGED <<tasks, right, spawned, executed>>
        BY <2>9 DEF WaitOver, Phase, stackVars, workVars
      <3> QED BY <2>0, <3>1, PhaseStill
    <2>10. CASE LocalOver(t)
      <3>1. Running(t) /\ Top(t).phase = "local" /\ SetPhase(t, "join") /\ UNCHANGED <<tasks, right, spawned, executed>>
        BY <2>10 DEF LocalOver, Phase, stackVars, workVars
      <3> QED BY <2>0, <3>1, PhaseStill
    <2> QED BY <1>5, <2>1, <2>2, <2>3, <2>4, <2>5, <2>6, <2>7, <2>8, <2>9, <2>10 DEF Run
  <1> QED BY <1>1, <1>2, <1>3, <1>4, <1>5 DEF Next, Work

\* Who spawns has begun, step after step.
LEMMA BegunStays == ASSUME Inductive, Inductive', Begun, BegunKept PROVE Begun'
  <1> SUFFICES ASSUME NEW u \in Threads, Running(u)', Top(u)'.phase \in {"spawn", "build"}
               PROVE  executed'[TaskOf(u)'.task] # 0
    BY DEF Begun
  <1>1. CASE executed'[TaskOf(u)'.task] # 0
    BY <1>1
  <1>2. CASE Running(u) /\ Top(u).phase \in {"spawn", "build"} /\ TaskOf(u)'.task = TaskOf(u).task
    <2>1. TaskOf(u).task \in Tasks /\ executed[TaskOf(u).task] # 0
      BY <1>2, FrameTask DEF Begun
    <2> QED BY <1>2, <2>1 DEF BegunKept
  <1> QED BY <1>1, <1>2 DEF BegunKept

LEMMA BegunStep == Inductive /\ Inductive' /\ Begun /\ [Next]_<<vars, Joiners>> => Begun'
  BY StepSeen, BegunStays DEF Still, StartedOne, SpawnedOne, PoppedOne

LEMMA BegunInit == Init => Begun
  BY DEF Init, Begun, Running

\* The standing of one task changes.
LEMMA OneStands ==
    ASSUME NEW k \in Tasks, \A j \in Tasks : j # k => Standing(j)' = Standing(j),
           status = [j \in Tasks |-> Standing(j)], status' = [j \in Tasks |-> Standing(j)']
    PROVE  status' = [status EXCEPT ![k] = Standing(k)'] /\ \A j \in Tasks : status[j] = Standing(j)
  OBVIOUS

\* A task goes from state to state as it does in the abstract system.
LEMMA ForkStep == Inductive /\ Inductive' /\ Begun /\ [Next]_<<vars, Joiners>> => [Fork!Next]_Fork!vars
  <1> SUFFICES ASSUME Inductive, Inductive', Begun, [Next]_<<vars, Joiners>> PROVE [Fork!Next]_Fork!vars
    OBVIOUS
  <1>1. status = [k \in Tasks |-> Standing(k)]
    BY StatusIs
  <1>2. status' = [k \in Tasks |-> Standing(k)']
    <2>1. (Inductive => status = [k \in Tasks |-> Standing(k)])'
      BY StatusIs, PTL
    <2> QED BY <2>1
  <1>3. CASE Still
    <2>1. \A k \in Tasks : Standing(k)' = Standing(k)
      BY <1>3 DEF Still, Seen, Standing
    <2>2. status' = status
      BY <1>1, <1>2, <2>1
    <2> QED BY <2>2 DEF Fork!vars
  <1>4. ASSUME NEW k \in Tasks, StartedOne(k) PROVE Fork!Start(k)
    <2>1. \A j \in Tasks : j # k => Standing(j)' = Standing(j)
      BY <1>4 DEF StartedOne, Seen, Standing
    <2>2. Standing(k) = "spawned" /\ Standing(k)' = "running"
      BY <1>4, WaitingKnown DEF StartedOne, Standing
    <2> QED BY <1>1, <1>2, <2>1, <2>2, OneStands DEF Fork!Start
  <1>5. ASSUME NEW k \in Tasks, SpawnedOne(k), k # RootTask => Standing(Parent[k]) = "running" PROVE Fork!Spawn(k)
    <2>1. \A j \in Tasks : j # k => Standing(j)' = Standing(j)
      BY <1>5 DEF SpawnedOne, Seen, Standing
    <2>2. Standing(k) = "unknown" /\ Standing(k)' = "spawned"
      BY <1>5 DEF SpawnedOne, Standing
    <2>3. k # RootTask => Parent[k] \in Tasks
      OBVIOUS
    <2> QED BY <1>1, <1>2, <1>5, <2>1, <2>2, <2>3, OneStands DEF Fork!Spawn
  <1>6. ASSUME NEW t \in Threads, NEW k \in Tasks, Spawn(t, k) PROVE k # RootTask /\ Standing(Parent[k]) = "running"
    <2>1. Running(t) /\ Top(t).phase = "spawn" /\ k \in ChildrenOf(TaskOf(t).task)
      BY <1>6 DEF Spawn, Phase
    <2>2. PICK p \in Tasks : p = TaskOf(t).task
      BY <2>1, FrameTask
    <2>3. executed[p] # 0 /\ Known(p)
      BY <2>1, <2>2, CallKnown DEF Begun
    <2>4. p \in spawned /\ ~Waiting(p)
      BY <2>3, WaitingKnown DEF Inductive, OnePlace
    <2> QED BY <2>1, <2>2, <2>3, <2>4 DEF Standing, ChildrenOf
  <1>7. ASSUME NEW t \in Threads, Pop(t), PoppedOne(t) PROVE [Fork!Next]_Fork!vars
    <2>1. Running(t) /\ Top(t).phase = "pop" /\ Phase(t, "pop")
      BY <1>7 DEF Pop, Phase
    <2>2. PICK s \in Slots, k \in Tasks : s = Top(t).slot /\ k = TaskOf(t).task /\ k = tasks[t][s].task /\ s \in Live(t)
      BY <2>1, FrameTask DEF TaskOf
    <2>3. /\ \A u \in Threads, r \in Slots, j \in Tasks :
                 /\ Queued(u, r, j)' <=> Queued(u, r, j)
                 /\ Original(u, r, j)' <=> Original(u, r, j) /\ ~(u = t /\ r = s)
          /\ spawned' = spawned
      BY <1>7, <2>2 DEF PoppedOne
    <2>4. \A j \in Tasks : Original(t, s, j) => j = k
      <3>1. ~Phase(t, "build")
        BY <2>1 DEF Phase
      <3> QED BY <2>2, <3>1 DEF Original
    <2>5. \A j \in Tasks : (Waiting(j)' <=> Waiting(j)) /\ (j # k => (Known(j)' <=> Known(j)))
      BY <2>3, <2>4 DEF Waiting, Known
    <2>6. \A j \in Tasks : j # k => Standing(j)' = Standing(j)
      BY <2>3, <2>5 DEF Standing
    <2>7. CASE Standing(k)' = Standing(k)
      <3>1. status' = status
        BY <1>1, <1>2, <2>6, <2>7
      <3> QED BY <3>1 DEF Fork!vars
    <2>8. CASE Standing(k)' # Standing(k)
      <3>1. k \in spawned /\ ~Waiting(k) /\ Known(k) /\ ~Known(k)'
        <4>1. Known(k)' => Known(k)
          BY <2>3 DEF Known
        <4> QED BY <2>3, <2>5, <2>8, <4>1 DEF Standing
      <3>2. Original(t, s, k)
        BY <2>3, <3>1 DEF Known
      <3>3. Signalled(t, s)
        BY <2>1, <2>2, SignalledIs DEF Inductive
      <3>4. \A u \in Threads, r \in Slots : Original(u, r, k) => Signalled(u, r)
        BY <3>2, <3>3 DEF Inductive, OnePlace
      <3>5. ASSUME NEW c \in ChildrenOf(k) PROVE c \in Tasks /\ Standing(c) \in {"unknown", "completed"}
        <4>1. c \in Tasks
          BY DEF ChildrenOf
        <4>2. ~Known(c)
          BY <3>4, ParentKnown
        <4>3. ~Waiting(c)
          BY <4>1, <4>2, WaitingKnown
        <4> QED BY <4>1, <4>2, <4>3 DEF Standing
      <3>6. Standing(k) = "running" /\ Standing(k)' = "completed"
        BY <2>3, <2>5, <3>1 DEF Standing
      <3>7. Fork!Complete(k)
        BY <1>1, <1>2, <2>6, <3>5, <3>6, OneStands DEF Fork!Complete, Fork!ChildrenOf, ChildrenOf
      <3> QED BY <3>7 DEF Fork!Next
    <2> QED BY <2>7, <2>8
  <1>8. RootTask \in Tasks
    OBVIOUS
  <1> QED BY <1>3, <1>4, <1>5, <1>6, <1>7, <1>8, StepSeen DEF Fork!Next

\* Of every tree of tasks, with any number of helpers: each task runs once, after the one that spawned
\* it has begun, and its own slot is given back only after those of all it spawned, though
\* thieves run copies of them on other stacks.
THEOREM SchedulerForksAndJoins == Spec => ForksAndJoins
  <1>1. Init => Fork!Init
    <2> SUFFICES ASSUME Init PROVE Fork!Init
      OBVIOUS
    <2>1. status = [k \in Tasks |-> Standing(k)]
      BY InitInductive, StatusIs
    <2>2. \A k \in Tasks : Standing(k) = "unknown"
      BY DEF Standing, Init
    <2> QED BY <2>1, <2>2 DEF Fork!Init
  <1> QED BY <1>1, InitInductive, StepInductive, BegunInit, BegunStep, ForkStep, PTL DEF Spec, ForksAndJoins, Fork!Spec
==============================================================================
