----------------------------- MODULE TraceInvariant -----------------------------
(***************************************************************************)
(* An inductive invariant of TraceSystem when start_trace is only called   *)
(* between iterations.  It says where each worker is in its conversation   *)
(* with the page; the safety properties of TraceSystem follow from it.     *)
(***************************************************************************)
EXTENDS TraceSystem

\* The handshake, one line per message of it.
Booting(w) ==
    \/ /\ toWorker[w] = <<InitMemory>> /\ toPage[w] = <<>>
       /\ pc[w] \in {"script", "listen"}
    \/ /\ toWorker[w] = <<>> /\ toPage[w] = <<MemoryInitialized>>
       /\ At(w, "listen") /\ buffers[w]
    \/ /\ toWorker[w] = <<InitTracer>> /\ toPage[w] = <<>>
       /\ At(w, "listen") /\ buffers[w]
    \/ /\ toWorker[w] = <<>> /\ toPage[w] = <<Initialized>>
       /\ At(w, "listen") /\ xTracer[w]

Waiting(w) == toWorker[w] = <<>> /\ toPage[w] = <<>> /\ At(w, "listen")

\* Worker w has job j: posted to it, being traced, or reported by it.
HasPosted(w, j) ==
    toWorker[w] = <<Trace(j, refJobs[j])>> /\ toPage[w] = <<>> /\ At(w, "listen")
IsTracingJob(w, j) ==
    /\ toWorker[w] = <<>> /\ toPage[w] = <<>> /\ IsTracing(w)
    /\ jobData[w] = [index |-> j, init_iterations |-> refJobs[j]]
HasReported(w, j) ==
    toWorker[w] = <<>> /\ toPage[w] = <<TraceCompleted(j)>> /\ At(w, "listen")

HasJob(w, j) == HasPosted(w, j) \/ IsTracingJob(w, j) \/ HasReported(w, j)

Busy == {w \in Workers : \E j \in Jobs : HasJob(w, j)}

\* A worker has not finished the handshake, or waits, or has a job that is in
\* deferredQueue.
Conversations ==
    \A w \in Workers :
        IF ready[w]
          THEN xTracer[w] /\ (Waiting(w) \/ \E j \in 1 .. Len(deferredQueue) : HasJob(w, j))
          ELSE Booting(w)

OneWorkerPerJob ==
    \A v, w \in Workers, j \in Jobs : HasJob(v, j) /\ HasJob(w, j) => v = w

\* The counters of the page count what they are meant to.
Counters ==
    /\ numBusy = Cardinality(Busy)
    /\ numReady = Cardinality({w \in Workers : ready[w]})

\* Nothing is posted before every worker is ready, and between iterations
\* every bucket is in deferredQueue, or none before the first.
Boundaries ==
    /\ numReady # CPU_available => deferredQueue = <<>> /\ iterations_completed = 0
    /\ numBusy = 0 => traceJobs = <<>> \/ (deferredQueue = <<>> /\ iterations_completed = 0)

IInv ==
    /\ Conversations
    /\ OneWorkerPerJob
    /\ Counters
    /\ Boundaries
    /\ QueuesKeepJobs

-----------------------------------------------------------------------------
(***************************************************************************)
(* What the shared memory holds while the conversations go on.             *)
(***************************************************************************)

\* stop_trace sets every flag, and nothing clears one.
FlagsAgree == \A v, w \in Workers : flags[v] = flags[w]

\* Worker w has stored its sample of pixel p, in the trace of its job.
Stored(w, p) == \/ pc[w] \in {"leave", "reply"}
                \/ p < pixel[w]
                \/ p = pixel[w] /\ At(w, "shade")

\* Worker w has added one sample to pixel p of job j that refJobs does not count yet.
Ahead(w, j, p) == HasReported(w, j) \/ (IsTracingJob(w, j) /\ Stored(w, p))

\* Unless workers are told to stop, a pixel has the samples that refJobs counts, and one
\* more once its worker has stored it.
SamplesCounted ==
    (\A w \in Workers : flags[w] # 2) =>
        \A j \in Jobs, p \in Pixels :
            sampleMemory[j][p] =
                refJobs[j] + (IF \E w \in Workers : Ahead(w, j, p) THEN 1 ELSE 0)

\* Told to stop or not, a worker that is at a pixel finds there what it needs to shade it
\* with the number of samples it was given.
PixelInHand ==
    \A w \in Workers, j \in Jobs : IsTracingJob(w, j) =>
        /\ At(w, "enter") => iterations[w] = refJobs[j] /\ pixel[w] = 1
        /\ pc[w] \in Storing \cup {"pixel", "update"} => iterations[w] = refJobs[j] + 1
        /\ pc[w] \in {"load", "store"} => sampleMemory[j][pixel[w]] = refJobs[j]
        /\ At(w, "store") => sample[w] = refJobs[j]
        /\ At(w, "shade") => sampleMemory[j][pixel[w]] = refJobs[j] + 1

\* The screen shows every bucket that no worker has.
Shown == \A j \in Jobs : (\A w \in Workers : ~HasJob(w, j)) => canvas[j] = pixelMemory[j]

MemoryInv == FlagsAgree /\ SamplesCounted /\ PixelInHand /\ Shown /\ ExposureCorrect
=============================================================================
