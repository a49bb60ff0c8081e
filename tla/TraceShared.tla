----------------------------- MODULE TraceShared -----------------------------
(***************************************************************************)
(* What the page (test/main.js) and its Web Workers (test/thread.js,       *)
(* src/worker/xray-tracer.ts) share: the three SharedArrayBuffers and the  *)
(* two message ports between the page and each worker.                     *)
(*                                                                         *)
(* The source numbers workers and jobs from 0, the model from 1.  A bucket *)
(* is a job's rectangle; the rectangles are disjoint, so a pixel is named  *)
(* by its job and its place inside it.  A colour is abstracted to the      *)
(* number of samples it was accumulated from.                              *)
(***************************************************************************)
EXTENDS Integers, Sequences

CONSTANTS
    CPU_available,  \* number of workers the page spawns
    NumJobs,        \* number of buckets the image is cut into
    NumPixels       \* pixels of one bucket

ASSUME SharedAssumption ==
    /\ CPU_available \in Nat \ {0}
    /\ NumJobs \in Nat \ {0}
    /\ NumPixels \in Nat \ {0}

Workers == 1 .. CPU_available
Jobs    == 1 .. NumJobs
Pixels  == 1 .. NumPixels

VARIABLES
    flags,         \* flags[w]: 2 tells worker w to stop, 0 otherwise
    sampleMemory,  \* sampleMemory[j][p]: samples accumulated for a pixel
    pixelMemory,   \* pixelMemory[j][p]: the shaded pixel, a quotient
    toWorker,      \* toWorker[w]: the page's messages to w, oldest first
    toPage         \* toPage[w]: w's messages to the page, oldest first

sharedVars == <<flags, sampleMemory, pixelMemory, toWorker, toPage>>

\* A pixel is shaded as accumulated samples / iterations.
Shade(samples, iterations) == [samples |-> samples, iterations |-> iterations]
Black == Shade(0, 0)

\* Messages from the page.  postMessage clones the job, so TRACE carries the
\* value init_iterations has when it is posted.
InitMemory == [command |-> "INIT_MEMORY"]
InitTracer == [command |-> "INIT"]
Trace(j, n) == [command |-> "TRACE",
                job |-> [index |-> j, init_iterations |-> n]]

\* Messages from a worker.  "BOOTED" and "LOCKED" are posted too, but no case
\* of onTracerMessage acts on them: they are left out of the channel.
MemoryInitialized == [event |-> "MEMORY_INITIALIZED"]
Initialized == [event |-> "INITIALIZED"]
TraceCompleted(j) == [event |-> "TRACE_COMPLETED", jobIndex |-> j]

JobData == [index : Jobs, init_iterations : Nat]
PageMessages ==
    {InitMemory, InitTracer} \cup [command : {"TRACE"}, job : JobData]
WorkerMessages ==
    {MemoryInitialized, Initialized}
        \cup [event : {"TRACE_COMPLETED"}, jobIndex : Jobs]

SharedTypeOK ==
    /\ flags \in [Workers -> {0, 2}]
    /\ sampleMemory \in [Jobs -> [Pixels -> Nat]]
    /\ pixelMemory \in [Jobs -> [Pixels -> [samples : Nat, iterations : Nat]]]
    /\ toWorker \in [Workers -> Seq(PageMessages)]
    /\ toPage \in [Workers -> Seq(WorkerMessages)]

\* initTracers posts INIT_MEMORY to every worker as it spawns it.
SharedInit ==
    /\ flags = [w \in Workers |-> 0]
    /\ sampleMemory = [j \in Jobs |-> [p \in Pixels |-> 0]]
    /\ pixelMemory = [j \in Jobs |-> [p \in Pixels |-> Black]]
    /\ toWorker = [w \in Workers |-> <<InitMemory>>]
    /\ toPage = [w \in Workers |-> <<>>]
=============================================================================
