------------------------------ MODULE TraceSystem ------------------------------
(***************************************************************************)
(* The page and its workers composed, with somebody at the page's console  *)
(* who calls start_trace, stop_trace and reset_trace.                      *)
(***************************************************************************)
EXTENDS TracePage, TraceWorker, FiniteSets, FiniteSetsExt

CONSTANTS
    Calls,           \* the functions that are called at the console
    MaxCalls,        \* bound: at most so many calls
    Iterations,      \* arguments of start_trace
    Times,
    StartWhileBusy   \* is start_trace called while an iteration runs?

ASSUME SystemAssumption ==
    /\ Calls \subseteq {"start", "stop", "reset"}
    /\ MaxCalls \in Nat
    /\ Iterations \subseteq Nat \ {0}
    /\ Times \subseteq Nat
    /\ StartWhileBusy \in BOOLEAN

VARIABLE calls   \* calls made so far

vars == <<pageVars, workerVars, sharedVars, calls>>

TypeOK ==
    /\ SharedTypeOK
    /\ PageTypeOK
    /\ WorkerTypeOK
    /\ calls \in 0 .. MaxCalls

Init ==
    /\ SharedInit
    /\ PageInit
    /\ WorkerInit
    /\ calls = 0

\* A call from the console, once the workers are ready.
Call(function) ==
    /\ function \in Calls
    /\ numReady = CPU_available
    /\ calls < MaxCalls
    /\ calls' = calls + 1
    /\ UNCHANGED workerVars

CallStart ==
    /\ Call("start")
    /\ StartWhileBusy \/ numBusy = 0
    /\ \E n \in Iterations, time \in Times : StartTrace(n, time)

CallStop == Call("stop") /\ StopTrace

CallReset == Call("reset") /\ ResetTrace

Page(w) == OnTracerMessage(w) /\ UNCHANGED <<workerVars, calls>>

Worker(w) == WorkerStep(w) /\ UNCHANGED <<pageVars, calls>>

Next ==
    \/ \E w \in Workers : Page(w) \/ Worker(w)
    \/ CallStart \/ CallStop \/ CallReset

\* The browser delivers every message that was posted and a worker's thread
\* keeps running; nobody has to call anything at the console.
Fairness == \A w \in Workers : WF_vars(Page(w)) /\ WF_vars(Worker(w))

Spec == Init /\ [][Next]_vars
FairSpec == Spec /\ Fairness

-----------------------------------------------------------------------------
(***************************************************************************)
(* Jobs in flight: posted to a worker, traced by it, or reported by it and *)
(* not yet handled by the page.                                            *)
(***************************************************************************)
Posted(w)   == {i \in DOMAIN toWorker[w] : toWorker[w][i].command = "TRACE"}
Reported(w) == {i \in DOMAIN toPage[w] : toPage[w][i].event = "TRACE_COMPLETED"}
IsTracing(w) == pc[w] \in Tracing

InFlight(w) == Cardinality(Posted(w)) + Cardinality(Reported(w))
                 + (IF IsTracing(w) THEN 1 ELSE 0)

JobsInFlight(w) ==
    {toWorker[w][i].job.index : i \in Posted(w)}
        \cup {toPage[w][i].jobIndex : i \in Reported(w)}
        \cup (IF IsTracing(w) THEN {jobData[w].index} ELSE {})

Idle(j) == \A w \in Workers : j \notin JobsInFlight(w)

\* Every job that was posted is answered once, so numBusy counts the jobs in
\* flight: process_queue may take numBusy = 0 for "every bucket is done".
BusyCountsInFlight == numBusy = MapThenSumSet(InFlight, Workers)

\* While start_trace is only called between iterations, no job waits behind
\* another in a worker's port, and numBusy counts the workers with a job.
BusyCountsWorkers ==
    numBusy = Cardinality({w \in Workers : JobsInFlight(w) # {}})

\* Every bucket is in exactly one of the two queues, and the page goes through
\* them in the order init() made them: no iteration skips or repeats a bucket.
QueuesKeepJobs == deferredQueue \o traceJobs = [j \in Jobs |-> j]

\* No bucket is with two workers, or with one twice: the unsynchronised
\* accesses of updatePixel to sampleMemory and pixelMemory do not collide.
BucketsExclusive ==
    /\ \A w \in Workers : InFlight(w) <= 1
    /\ \A v, w \in Workers : v # w => JobsInFlight(v) \cap JobsInFlight(w) = {}

\* Before an iteration has completed start_trace may be called at any time: it
\* only hands out jobs early, none twice.
FirstIterationSafe ==
    iterations_completed = 0 =>
        /\ QueuesKeepJobs
        /\ \A v, w \in Workers : v # w => JobsInFlight(v) \cap JobsInFlight(w) = {}

\* A worker divides by the number of samples it accumulated: no pixel on the
\* screen or in pixelMemory is too bright or too dark.
ExposureCorrect ==
    \A j \in Jobs, p \in Pixels :
        /\ pixelMemory[j][p].samples = pixelMemory[j][p].iterations
        /\ canvas[j][p].samples = canvas[j][p].iterations

\* Unless it was stopped, a bucket that is not in flight has as many samples in
\* every pixel as the page counts iterations for it, and the screen shows them.
BucketsComplete ==
    (\A w \in Workers : flags[w] # 2) =>
        \A j \in Jobs : Idle(j) =>
            /\ \A p \in Pixels : sampleMemory[j][p] = refJobs[j]
            /\ canvas[j] = pixelMemory[j]

\* The messages a worker gets find it initialised for them: INIT after the
\* buffers were received, TRACE after the tracer was constructed.
HandshakeOrdered ==
    \A w \in Workers : toWorker[w] # <<>> =>
        /\ Head(toWorker[w]).command = "INIT" => buffers[w]
        /\ Head(toWorker[w]).command = "TRACE" => xTracer[w]

\* Once a worker's flag is set it finishes at most the pixel it is storing.
StopBoundsWrites ==
    [][\A w \in Workers :
          (flags[w] = 2 /\ pc[w] \notin Storing) => pc'[w] \notin Storing]_vars

\* stop_trace drains: the buckets still queued and in flight come back and the
\* page falls idle, unless a new trace is started.
StopDrains == interruptTracing ~> (numBusy = 0 \/ ~interruptTracing)

\* A trace that is started and not stopped completes the iterations asked for.  (Checked with no
\* limit of time and without reset_trace, which asks for iterations without end.)
TraceCompletes ==
    (numReady = CPU_available /\ ~interruptTracing)
        ~> (interruptTracing \/ (numBusy = 0 /\ iterations_completed >= iterations_target))

\* A tracer that stop_trace locked is restarted, as the message it logs says,
\* by the first job it gets after start_trace is called again.
LockedTracerRestarts ==
    \A w \in Workers :
        (locked[w] /\ At(w, "listen") /\ toWorker[w] # <<>> /\ ~interruptTracing)
            ~> (~locked[w] \/ interruptTracing)

\* The page and its workers implement ProgressiveRender.
Render == INSTANCE ProgressiveRender WITH
    Buckets <- Jobs,
    rounds  <- refJobs,
    pending <- IF numBusy = 0 THEN {}
               ELSE {j \in Jobs : ~Idle(j) \/ \E i \in DOMAIN traceJobs : traceJobs[i] = j}

RendersInRounds == Render!RenderSpec
RendersAllRounds == Render!FairRenderSpec
=============================================================================
