------------------------------ MODULE TracePage ------------------------------
(***************************************************************************)
(* The main thread of the test page, test/main.js: it boots the workers,   *)
(* hands the buckets of an iteration to them, decides when an iteration is *)
(* over and whether another one starts, and shows finished buckets.        *)
(*                                                                         *)
(* JavaScript runs a message handler to completion, so every handler and   *)
(* every call of the page's functions is one action.  The operators below  *)
(* carry the names of the functions they translate; an operator that a     *)
(* function calls last takes numBusy as it stands at the call.             *)
(***************************************************************************)
EXTENDS TraceShared

CONSTANTS
    MaxIterations,  \* bound: the page completes at most so many iterations
    ElapsedTimes    \* what Date.now() - start_time may evaluate to

ASSUME PageAssumption ==
    /\ MaxIterations \in Nat
    /\ ElapsedTimes \subseteq Nat
    /\ ElapsedTimes # {}

VARIABLES
    ready,                 \* workerPool[w].ready
    numReady,              \* workers that posted INITIALIZED
    numBusy,               \* jobs posted and not yet completed
    traceJobs,             \* jobs still to post in this iteration
    deferredQueue,         \* jobs already posted in this iteration
    refJobs,               \* refJobs[j]: init_iterations of job j
    iterations_target,
    iterations_completed,
    maximum_time,
    elapsed_time,
    interruptTracing,
    canvas                 \* canvas[j][p]: the pixel on the screen

queueVars == <<numBusy, traceJobs, deferredQueue>>
requestVars == <<iterations_target, maximum_time, interruptTracing>>
progressVars == <<iterations_completed, elapsed_time>>
pageVars == <<ready, numReady, refJobs, canvas,
              queueVars, requestVars, progressVars>>

PageTypeOK ==
    /\ ready \in [Workers -> BOOLEAN]
    /\ numReady \in Nat
    /\ numBusy \in Int
    /\ traceJobs \in Seq(Jobs)
    /\ deferredQueue \in Seq(Jobs)
    /\ refJobs \in [Jobs -> Nat]
    /\ iterations_target \in Nat
    /\ iterations_completed \in Nat
    /\ maximum_time \in Nat
    /\ elapsed_time \in Nat
    /\ interruptTracing \in BOOLEAN
    /\ canvas \in [Jobs -> [Pixels -> [samples : Nat, iterations : Nat]]]

\* init() has cut the image into jobs; nothing has been posted.
PageInit ==
    /\ ready = [w \in Workers |-> FALSE]
    /\ numReady = 0
    /\ numBusy = 0
    /\ traceJobs = [j \in Jobs |-> j]
    /\ deferredQueue = <<>>
    /\ refJobs = [j \in Jobs |-> 0]
    /\ iterations_target = 0
    /\ iterations_completed = 0
    /\ maximum_time = 0
    /\ elapsed_time = 0
    /\ interruptTracing = FALSE
    /\ canvas = [j \in Jobs |-> [p \in Pixels |-> Black]]

-----------------------------------------------------------------------------
(***************************************************************************)
(* A function that a handler calls last is an operator with the values its *)
(* globals have at the call: busy for numBusy, next and posted for         *)
(* traceJobs and deferredQueue.  refJobs' is set by the handler before.    *)
(***************************************************************************)

\* Mutant: numBusy counts the call, not the jobs posted.
traceCountedOnce(next, posted, busy) ==
    LET n == IF Len(next) < CPU_available THEN Len(next) ELSE CPU_available
    IN  /\ traceJobs' = SubSeq(next, n + 1, Len(next))
        /\ deferredQueue' = posted \o SubSeq(next, 1, n)
        /\ numBusy' = busy + 1
        /\ toWorker' = [w \in Workers |->
              IF w <= n THEN Append(toWorker[w], Trace(next[w], refJobs'[next[w]]))
                        ELSE toWorker[w]]

\* Every worker in turn is posted the next job, while there is one.
trace(next, posted, busy) ==
    LET n == IF Len(next) < CPU_available THEN Len(next) ELSE CPU_available
    IN  /\ traceJobs' = SubSeq(next, n + 1, Len(next))
        /\ deferredQueue' = posted \o SubSeq(next, 1, n)
        /\ numBusy' = busy + n
        /\ toWorker' = [w \in Workers |->
              IF w <= n THEN Append(toWorker[w], Trace(next[w], refJobs'[next[w]]))
                        ELSE toWorker[w]]

\* Mutant: deferredQueue is not emptied.
next_iterationKeepsQueue(busy) == trace(deferredQueue, deferredQueue, busy)

\* The jobs posted so far become the jobs to post; jobs never posted are lost.
next_iteration(busy) == trace(deferredQueue, <<>>, busy)

\* Mutant: one iteration too few.
ContinuesOneLess ==
    /\ ~interruptTracing
    /\ \/ iterations_target = 0 /\ maximum_time = 0
       \/ maximum_time > 0 /\ elapsed_time < maximum_time
       \/ iterations_target > iterations_completed' + 1

\* Does iteration_completed start another iteration?
Continues ==
    /\ ~interruptTracing
    /\ \/ iterations_target = 0 /\ maximum_time = 0
       \/ maximum_time > 0 /\ elapsed_time < maximum_time
       \/ iterations_target > iterations_completed'

iteration_completed(busy) ==
    /\ iterations_completed' = iterations_completed + 1
    /\ \/ /\ Continues
          /\ next_iteration(busy)
          /\ UNCHANGED elapsed_time
       \/ /\ ~Continues
          /\ numBusy' = busy
          /\ IF interruptTracing THEN UNCHANGED elapsed_time
                                 ELSE elapsed_time' \in ElapsedTimes
          /\ UNCHANGED <<traceJobs, deferredQueue, toWorker>>

\* Mutant: the iteration is over once the queue is empty.
process_queueNotDrained(w, busy) ==
    \/ /\ traceJobs # <<>>
       /\ traceJobs' = Tail(traceJobs)
       /\ deferredQueue' = Append(deferredQueue, Head(traceJobs))
       /\ toWorker' = [toWorker EXCEPT
              ![w] = Append(@, Trace(Head(traceJobs), refJobs'[Head(traceJobs)]))]
       /\ numBusy' = busy + 1
       /\ UNCHANGED progressVars
    \/ /\ traceJobs = <<>>
       /\ iteration_completed(busy)

\* Mutant: once interrupted no further job is posted.
process_queueInterrupted(w, busy) ==
    \/ /\ traceJobs # <<>> /\ ~interruptTracing
       /\ traceJobs' = Tail(traceJobs)
       /\ deferredQueue' = Append(deferredQueue, Head(traceJobs))
       /\ toWorker' = [toWorker EXCEPT
              ![w] = Append(@, Trace(Head(traceJobs), refJobs'[Head(traceJobs)]))]
       /\ numBusy' = busy + 1
       /\ UNCHANGED progressVars
    \/ /\ traceJobs = <<>> \/ interruptTracing
       /\ busy = 0
       /\ iteration_completed(busy)
    \/ /\ traceJobs = <<>> \/ interruptTracing
       /\ busy # 0
       /\ numBusy' = busy
       /\ UNCHANGED <<traceJobs, deferredQueue, toWorker, progressVars>>

\* Worker w has completed a job: it is posted the next one, or the iteration
\* is over if no other worker is busy.
process_queue(w, busy) ==
    \/ /\ traceJobs # <<>>
       /\ traceJobs' = Tail(traceJobs)
       /\ deferredQueue' = Append(deferredQueue, Head(traceJobs))
       /\ toWorker' = [toWorker EXCEPT
              ![w] = Append(@, Trace(Head(traceJobs), refJobs'[Head(traceJobs)]))]
       /\ numBusy' = busy + 1
       /\ UNCHANGED progressVars
    \/ /\ traceJobs = <<>>
       /\ busy = 0
       /\ iteration_completed(busy)
    \/ /\ traceJobs = <<>>
       /\ busy # 0
       /\ numBusy' = busy
       /\ UNCHANGED <<traceJobs, deferredQueue, toWorker, progressVars>>

\* Mutant: a trace starts with numBusy at 0.
start_traceForgetsBusy(iterations, time) ==
    /\ iterations_target' = iterations_target + iterations
    /\ maximum_time' = time
    /\ interruptTracing' = FALSE
    /\ UNCHANGED refJobs
    /\ IF iterations_completed > 0
         THEN next_iteration(0)
         ELSE trace(traceJobs, deferredQueue, 0)

\* Mutant: the first iteration is over once it has been started.
start_traceRequeues(iterations, time) ==
    /\ iterations_target' = iterations_target + iterations
    /\ maximum_time' = time
    /\ interruptTracing' = FALSE
    /\ UNCHANGED refJobs
    /\ IF iterations_target > 0
         THEN next_iteration(numBusy)
         ELSE trace(traceJobs, deferredQueue, numBusy)

start_trace(iterations, time) ==
    /\ iterations_target' = iterations_target + iterations
    /\ maximum_time' = time
    /\ interruptTracing' = FALSE
    /\ UNCHANGED refJobs
    /\ IF iterations_completed > 0
         THEN next_iteration(numBusy)
         ELSE trace(traceJobs, deferredQueue, numBusy)

-----------------------------------------------------------------------------
(***************************************************************************)
(* onTracerMessage, one action per event.                                  *)
(***************************************************************************)
Receive(w, event) ==
    /\ toPage[w] # <<>>
    /\ Head(toPage[w]).event = event
    /\ toPage' = [toPage EXCEPT ![w] = Tail(@)]

OnMemoryInitialized(w) ==
    /\ Receive(w, "MEMORY_INITIALIZED")
    /\ toWorker' = [toWorker EXCEPT ![w] = Append(@, InitTracer)]
    /\ UNCHANGED <<pageVars, flags, sampleMemory, pixelMemory>>

\* Mutant: the first worker to report starts the first iteration.
OnInitializedFirst(w) ==
    /\ Receive(w, "INITIALIZED")
    /\ ready' = [ready EXCEPT ![w] = TRUE]
    /\ numReady' = numReady + 1
    /\ \/ /\ numReady' = 1
          /\ start_trace(1, 0)
       \/ /\ numReady' # 1
          /\ UNCHANGED <<refJobs, queueVars, requestVars, toWorker>>
    /\ UNCHANGED <<canvas, progressVars, flags, sampleMemory, pixelMemory>>

\* The last worker to report starts the first iteration.
OnInitialized(w) ==
    /\ Receive(w, "INITIALIZED")
    /\ ready' = [ready EXCEPT ![w] = TRUE]
    /\ numReady' = numReady + 1
    /\ \/ /\ numReady' = CPU_available
          /\ start_trace(1, 0)
       \/ /\ numReady' # CPU_available
          /\ UNCHANGED <<refJobs, queueVars, requestVars, toWorker>>
    /\ UNCHANGED <<canvas, progressVars, flags, sampleMemory, pixelMemory>>

\* updatePixelsRect shows the bucket; the worker's next job is posted last.
OnTraceCompleted(w) ==
    /\ Receive(w, "TRACE_COMPLETED")
    /\ iterations_completed < MaxIterations
    /\ LET j == Head(toPage[w]).jobIndex
       IN  /\ refJobs' = [refJobs EXCEPT ![j] = @ + 1]
           /\ canvas' = [canvas EXCEPT ![j] = pixelMemory[j]]
    /\ process_queue(w, numBusy - 1)
    /\ UNCHANGED <<ready, numReady, requestVars,
                   flags, sampleMemory, pixelMemory>>

OnTracerMessage(w) ==
    OnMemoryInitialized(w) \/ OnInitialized(w) \/ OnTraceCompleted(w)

-----------------------------------------------------------------------------
(***************************************************************************)
(* The functions the page offers to its console or user interface.         *)
(***************************************************************************)
\* Mutant: start_trace clears the flags, and nothing else that stop_trace left.
StartTraceUnlocks(iterations, time) ==
    /\ start_trace(iterations, time)
    /\ flags' = [w \in Workers |-> 0]
    /\ UNCHANGED <<ready, numReady, canvas, progressVars,
                   sampleMemory, pixelMemory, toPage>>

StartTrace(iterations, time) ==
    /\ start_trace(iterations, time)
    /\ UNCHANGED <<ready, numReady, canvas, progressVars,
                   flags, sampleMemory, pixelMemory, toPage>>

\* Mutant: a flag no worker knows.
StopTraceWrongFlag ==
    /\ interruptTracing' = TRUE
    /\ flags' = [w \in Workers |-> 1]
    /\ UNCHANGED <<ready, numReady, refJobs, canvas, queueVars, progressVars,
                   iterations_target, maximum_time,
                   sampleMemory, pixelMemory, toWorker, toPage>>

StopTrace ==
    /\ interruptTracing' = TRUE
    /\ flags' = [w \in Workers |-> 2]
    /\ UNCHANGED <<ready, numReady, refJobs, canvas, queueVars, progressVars,
                   iterations_target, maximum_time,
                   sampleMemory, pixelMemory, toWorker, toPage>>

ResetTrace ==
    /\ iterations_target' = 0
    /\ iterations_completed' = 0
    /\ elapsed_time' = 0
    /\ UNCHANGED <<ready, numReady, refJobs, canvas, queueVars,
                   maximum_time, interruptTracing, sharedVars>>
=============================================================================
