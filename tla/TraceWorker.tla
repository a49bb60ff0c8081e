----------------------------- MODULE TraceWorker -----------------------------
(***************************************************************************)
(* A Web Worker: the message handler of test/thread.js and the xRayTracer  *)
(* of src/worker/xray-tracer.ts it calls.  A worker runs in parallel with  *)
(* the page and the other workers, so a step of its tracer reaches the     *)
(* shared memory once: it reads its flag, or loads or stores a pixel.      *)
(*                                                                         *)
(* data.blockIterations is undefined in every job the page makes, so of    *)
(* the two branches at the end of xRayTracer.trace only the second runs.   *)
(***************************************************************************)
EXTENDS TraceShared

VARIABLES
    pc,          \* where worker w is, see Labels
    buffers,     \* w holds the shared buffers (INIT_MEMORY handled)
    xTracer,     \* w has constructed its xRayTracer (INIT handled)
    jobData,     \* the job w is tracing, or traced last
    iterations,  \* xRayTracer.iterations
    locked,      \* xRayTracer.locked
    pixel,       \* the pixel of the job that run() is at
    sample       \* the value run() loaded from sampleMemory

workerVars == <<pc, buffers, xTracer, jobData, iterations, locked, pixel, sample>>

Labels == {"script",    \* thread.js is being loaded
           "listen",    \* waiting for a message
           "enter",     \* before the flag is read again, ahead of run()
           "pixel",     \* at the head of run()'s loop
           "update",    \* entering updatePixel
           "load", "store", "shade",  \* the accesses of updatePixel
           "leave",     \* after run()
           "reply"}     \* trace() has returned

Tracing == Labels \ {"script", "listen"}
Storing == {"load", "store", "shade"}

WorkerTypeOK ==
    /\ pc \in [Workers -> Labels]
    /\ buffers \in [Workers -> BOOLEAN]
    /\ xTracer \in [Workers -> BOOLEAN]
    /\ jobData \in [Workers -> JobData]
    /\ iterations \in [Workers -> Nat]
    /\ locked \in [Workers -> BOOLEAN]
    /\ pixel \in [Workers -> 1 .. NumPixels + 1]
    /\ sample \in [Workers -> Nat]
    /\ \A w \in Workers : pc[w] \in Storing \cup {"update"} => pixel[w] \in Pixels

WorkerInit ==
    /\ pc = [w \in Workers |-> "script"]
    /\ buffers = [w \in Workers |-> FALSE]
    /\ xTracer = [w \in Workers |-> FALSE]
    /\ jobData = [w \in Workers |-> [index |-> 1, init_iterations |-> 0]]
    /\ iterations = [w \in Workers |-> 1]
    /\ locked = [w \in Workers |-> FALSE]
    /\ pixel = [w \in Workers |-> 1]
    /\ sample = [w \in Workers |-> 0]

-----------------------------------------------------------------------------
At(w, label) == pc[w] = label
Goto(w, label) == pc' = [pc EXCEPT ![w] = label]

\* lock() once the worker has seen its flag set.
lock(w) == locked' = [locked EXCEPT ![w] = TRUE]

\* The next message, taken from the port once the handler is free.
Take(w, command) ==
    /\ At(w, "listen")
    /\ toWorker[w] # <<>>
    /\ Head(toWorker[w]).command = command
    /\ toWorker' = [toWorker EXCEPT ![w] = Tail(@)]

Post(w, message) == toPage' = [toPage EXCEPT ![w] = Append(@, message)]

Boot(w) ==
    /\ At(w, "script")
    /\ Goto(w, "listen")
    /\ UNCHANGED <<buffers, xTracer, jobData, iterations, locked, pixel, sample,
                   sharedVars>>

HandleInitMemory(w) ==
    /\ Take(w, "INIT_MEMORY")
    /\ buffers' = [buffers EXCEPT ![w] = TRUE]
    /\ Post(w, MemoryInitialized)
    /\ UNCHANGED <<pc, xTracer, jobData, iterations, locked, pixel, sample,
                   flags, sampleMemory, pixelMemory>>

\* new xRayTracer(renderData) reads the buffers.
HandleInit(w) ==
    /\ Take(w, "INIT")
    /\ buffers[w]
    /\ xTracer' = [xTracer EXCEPT ![w] = TRUE]
    /\ Post(w, Initialized)
    /\ UNCHANGED <<pc, buffers, jobData, iterations, locked, pixel, sample,
                   flags, sampleMemory, pixelMemory>>

\* xTracer.trace(jobData) up to its first look at the flag and, when the flag
\* is clear, the job's set-up: a locked tracer is unlocked.
HandleTrace(w) ==
    /\ Take(w, "TRACE")
    /\ xTracer[w]
    /\ jobData' = [jobData EXCEPT ![w] = Head(toWorker[w]).job]
    /\ \/ /\ flags[w] = 2
          /\ lock(w)
          /\ Goto(w, "reply")
          /\ UNCHANGED <<iterations, pixel>>
       \/ /\ flags[w] # 2
          /\ iterations' = [iterations EXCEPT ![w] = jobData'[w].init_iterations]
          /\ locked' = [locked EXCEPT ![w] = FALSE]
          /\ pixel' = [pixel EXCEPT ![w] = 1]
          /\ Goto(w, "enter")
    /\ UNCHANGED <<buffers, xTracer, sample,
                   flags, sampleMemory, pixelMemory, toPage>>

\* The flag again, then run() counts the iteration.
EnterRun(w) ==
    /\ At(w, "enter")
    /\ \/ /\ flags[w] = 2
          /\ lock(w)
          /\ Goto(w, "reply")
          /\ UNCHANGED iterations
       \/ /\ flags[w] # 2
          /\ iterations' = [iterations EXCEPT ![w] = @ + 1]
          /\ Goto(w, "pixel")
          /\ UNCHANGED locked
    /\ UNCHANGED <<buffers, xTracer, jobData, pixel, sample, sharedVars>>

\* Mutant: the last pixel of a bucket is never sampled.
NextPixelOffByOne(w) ==
    /\ At(w, "pixel")
    /\ \/ /\ pixel[w] >= NumPixels
          /\ Goto(w, "leave")
          /\ UNCHANGED locked
       \/ /\ pixel[w] < NumPixels
          /\ flags[w] = 2
          /\ lock(w)
          /\ Goto(w, "leave")
       \/ /\ pixel[w] < NumPixels
          /\ flags[w] # 2
          /\ Goto(w, "update")
          /\ UNCHANGED locked
    /\ UNCHANGED <<buffers, xTracer, jobData, iterations, pixel, sample, sharedVars>>

\* The head of run()'s loops: no pixel left, told to stop, or sample the pixel.
NextPixel(w) ==
    /\ At(w, "pixel")
    /\ \/ /\ pixel[w] > NumPixels
          /\ Goto(w, "leave")
          /\ UNCHANGED locked
       \/ /\ pixel[w] <= NumPixels
          /\ flags[w] = 2
          /\ lock(w)
          /\ Goto(w, "leave")
       \/ /\ pixel[w] <= NumPixels
          /\ flags[w] # 2
          /\ Goto(w, "update")
          /\ UNCHANGED locked
    /\ UNCHANGED <<buffers, xTracer, jobData, iterations, pixel, sample, sharedVars>>

\* Mutant: updatePixel does not look at the flag.
UpdatePixelUnchecked(w) ==
    /\ At(w, "update")
    /\ Goto(w, "load")
    /\ UNCHANGED <<buffers, xTracer, jobData, iterations, locked, pixel, sample,
                   sharedVars>>

\* updatePixel looks at the flag too: told to stop, it drops this sample only.
UpdatePixel(w) ==
    /\ At(w, "update")
    /\ \/ /\ flags[w] = 2
          /\ lock(w)
          /\ pixel' = [pixel EXCEPT ![w] = @ + 1]
          /\ Goto(w, "pixel")
       \/ /\ flags[w] # 2
          /\ Goto(w, "load")
          /\ UNCHANGED <<locked, pixel>>
    /\ UNCHANGED <<buffers, xTracer, jobData, iterations, sample, sharedVars>>

\* sampleMemory[si] += color is a load and a store.
LoadSample(w) ==
    /\ At(w, "load")
    /\ sample' = [sample EXCEPT ![w] = sampleMemory[jobData[w].index][pixel[w]]]
    /\ Goto(w, "store")
    /\ UNCHANGED <<buffers, xTracer, jobData, iterations, locked, pixel, sharedVars>>

StoreSample(w) ==
    /\ At(w, "store")
    /\ sampleMemory' = [sampleMemory EXCEPT
           ![jobData[w].index][pixel[w]] = sample[w] + 1]
    /\ Goto(w, "shade")
    /\ UNCHANGED <<buffers, xTracer, jobData, iterations, locked, pixel, sample,
                   flags, pixelMemory, toWorker, toPage>>

\* pixelMemory[si] = sampleMemory[si] / iterations, and on to the next pixel.
ShadePixel(w) ==
    /\ At(w, "shade")
    /\ LET j == jobData[w].index
           p == pixel[w]
       IN  pixelMemory' = [pixelMemory EXCEPT
               ![j][p] = Shade(sampleMemory[j][p], iterations[w])]
    /\ pixel' = [pixel EXCEPT ![w] = @ + 1]
    /\ Goto(w, "pixel")
    /\ UNCHANGED <<buffers, xTracer, jobData, iterations, locked, sample,
                   flags, sampleMemory, toWorker, toPage>>

\* trace() looks at the flag once more before it returns.
LeaveRun(w) ==
    /\ At(w, "leave")
    /\ \/ flags[w] = 2 /\ lock(w)
       \/ flags[w] # 2 /\ UNCHANGED locked
    /\ Goto(w, "reply")
    /\ UNCHANGED <<buffers, xTracer, jobData, iterations, pixel, sample, sharedVars>>

\* Mutant: only a job that was not stopped is reported.
ReplyUnlessLocked(w) ==
    /\ At(w, "reply")
    /\ IF locked[w] THEN UNCHANGED toPage
                    ELSE Post(w, TraceCompleted(jobData[w].index))
    /\ Goto(w, "listen")
    /\ UNCHANGED <<buffers, xTracer, jobData, iterations, locked, pixel, sample,
                   flags, sampleMemory, pixelMemory, toWorker>>

\* thread.js reports the job completed whatever trace() did.
Reply(w) ==
    /\ At(w, "reply")
    /\ Post(w, TraceCompleted(jobData[w].index))
    /\ Goto(w, "listen")
    /\ UNCHANGED <<buffers, xTracer, jobData, iterations, locked, pixel, sample,
                   flags, sampleMemory, pixelMemory, toWorker>>

WorkerStep(w) ==
    \/ Boot(w) \/ HandleInitMemory(w) \/ HandleInit(w) \/ HandleTrace(w)
    \/ EnterRun(w) \/ NextPixel(w) \/ UpdatePixel(w)
    \/ LoadSample(w) \/ StoreSample(w) \/ ShadePixel(w)
    \/ LeaveRun(w) \/ Reply(w)
=============================================================================
