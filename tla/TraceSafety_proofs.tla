--------------------------- MODULE TraceSafety_proofs ---------------------------
(***************************************************************************)
(* Type correctness of TraceSystem, for any number of workers, buckets and *)
(* pixels and any schedule of calls.  IInv is an inductive invariant of it *)
(* when start_trace is only called between iterations, and the properties  *)
(* that follow from it: no bucket is lost, skipped or with two workers,    *)
(* and numBusy counts the busy workers.  What is proved of the handshake   *)
(* and of the first iteration holds whenever start_trace is called.        *)
(***************************************************************************)
EXTENDS TraceInvariant, SequenceTheorems, FiniteSetTheorems, TLAPS

\* What a worker takes from its port is a message of the page.
LEMMA TakenMessage ==
    ASSUME TypeOK, NEW w \in Workers, toWorker[w] # <<>>
    PROVE  /\ Head(toWorker[w]) \in PageMessages
           /\ Tail(toWorker[w]) \in Seq(PageMessages)
           /\ Head(toWorker[w]).command = "TRACE" => Head(toWorker[w]).job \in JobData
<1>1. toWorker[w] \in Seq(PageMessages)
  BY DEF TypeOK, SharedTypeOK
<1>2. Head(toWorker[w]) \in PageMessages /\ Tail(toWorker[w]) \in Seq(PageMessages)
  BY <1>1, HeadTailProperties
<1>3. Head(toWorker[w]).command = "TRACE" => Head(toWorker[w]).job \in JobData
  BY <1>2 DEF PageMessages, InitMemory, InitTracer
<1>. QED  BY <1>2, <1>3

LEMMA TakenReply ==
    ASSUME TypeOK, NEW w \in Workers, toPage[w] # <<>>
    PROVE  /\ Tail(toPage[w]) \in Seq(WorkerMessages)
           /\ Head(toPage[w]).event = "TRACE_COMPLETED" => Head(toPage[w]).jobIndex \in Jobs
<1>1. toPage[w] \in Seq(WorkerMessages)
  BY DEF TypeOK, SharedTypeOK
<1>2. Head(toPage[w]) \in WorkerMessages /\ Tail(toPage[w]) \in Seq(WorkerMessages)
  BY <1>1, HeadTailProperties
<1>3. Head(toPage[w]).event = "TRACE_COMPLETED" => Head(toPage[w]).jobIndex \in Jobs
  BY <1>2 DEF WorkerMessages, MemoryInitialized, Initialized
<1>. QED  BY <1>2, <1>3

LEMMA MessageTypes ==
    /\ InitMemory \in PageMessages
    /\ InitTracer \in PageMessages
    /\ MemoryInitialized \in WorkerMessages
    /\ Initialized \in WorkerMessages
    /\ \A j \in Jobs, n \in Nat : Trace(j, n) \in PageMessages
    /\ \A j \in Jobs : TraceCompleted(j) \in WorkerMessages
BY DEF InitMemory, InitTracer, MemoryInitialized, Initialized, PageMessages,
       WorkerMessages, Trace, TraceCompleted, JobData

LEMMA InitTypeOK == Init => TypeOK
<1> SUFFICES ASSUME Init PROVE TypeOK
  OBVIOUS
<1> USE SharedAssumption, PageAssumption, SystemAssumption
    DEF Init, Workers, Jobs, Pixels
<1>1. SharedTypeOK
  <2>1. toWorker \in [Workers -> Seq(PageMessages)]
    BY MessageTypes DEF SharedInit
  <2>2. toPage \in [Workers -> Seq(WorkerMessages)]
    BY DEF SharedInit
  <2>. QED  BY <2>1, <2>2 DEF SharedInit, SharedTypeOK, Black, Shade
<1>2. PageTypeOK
  <2>1. traceJobs \in Seq(Jobs)
    BY DEF PageInit
  <2>2. canvas \in [Jobs -> [Pixels -> [samples : Nat, iterations : Nat]]]
    BY DEF PageInit, Black, Shade
  <2>3. ready \in [Workers -> BOOLEAN] /\ interruptTracing \in BOOLEAN
    BY DEF PageInit
  <2>4. deferredQueue \in Seq(Jobs) /\ refJobs \in [Jobs -> Nat]
    BY DEF PageInit
  <2>5. /\ numReady \in Nat /\ numBusy \in Int
        /\ iterations_target \in Nat /\ iterations_completed \in Nat
        /\ maximum_time \in Nat /\ elapsed_time \in Nat
    BY DEF PageInit
  <2>. QED  BY <2>1, <2>2, <2>3, <2>4, <2>5 DEF PageTypeOK
<1>3. WorkerTypeOK
  BY DEF WorkerInit, WorkerTypeOK, Labels, Storing, JobData
<1>. QED  BY <1>1, <1>2, <1>3 DEF TypeOK

\* Posting the next jobs to the workers.
LEMMA TraceTypes ==
    ASSUME TypeOK, NEW next \in Seq(Jobs), NEW posted \in Seq(Jobs), NEW busy \in Int,
           refJobs' \in [Jobs -> Nat], trace(next, posted, busy)
    PROVE  /\ traceJobs' \in Seq(Jobs)
           /\ deferredQueue' \in Seq(Jobs)
           /\ numBusy' \in Int
           /\ toWorker' \in [Workers -> Seq(PageMessages)]
<1> DEFINE n == IF Len(next) < CPU_available THEN Len(next) ELSE CPU_available
<1>1. n \in Nat /\ n <= Len(next) /\ CPU_available \in Nat
  BY SharedAssumption, LenProperties
<1>2. SubSeq(next, n + 1, Len(next)) \in Seq(Jobs) /\ SubSeq(next, 1, n) \in Seq(Jobs)
  BY <1>1, SubSeqProperties, ElementOfSeq
<1>3. posted \o SubSeq(next, 1, n) \in Seq(Jobs)
  BY <1>2, ConcatProperties
<1>4. ASSUME NEW w \in Workers, w <= n
      PROVE  Append(toWorker[w], Trace(next[w], refJobs'[next[w]])) \in Seq(PageMessages)
  <2>1. next[w] \in Jobs
    BY <1>1, <1>4, ElementOfSeq DEF Workers
  <2>2. Trace(next[w], refJobs'[next[w]]) \in PageMessages
    BY <2>1, MessageTypes
  <2>. QED  BY <2>2, AppendProperties DEF TypeOK, SharedTypeOK
<1>5. toWorker' \in [Workers -> Seq(PageMessages)]
  BY <1>4 DEF trace, TypeOK, SharedTypeOK
<1>. QED  BY <1>1, <1>2, <1>3, <1>5 DEF trace

\* A worker's step types what it assigns and keeps pixel[w] inside the bucket.
LEMMA GotoTypes ==
    ASSUME WorkerTypeOK, NEW w \in Workers, NEW label \in Labels, Goto(w, label),
           pixel' \in [Workers -> 1 .. NumPixels + 1],
           \A v \in Workers : v # w => pixel'[v] = pixel[v],
           label \in Storing \cup {"update"} => pixel'[w] \in Pixels
    PROVE  /\ pc' \in [Workers -> Labels]
           /\ \A v \in Workers : pc'[v] \in Storing \cup {"update"} => pixel'[v] \in Pixels
BY DEF WorkerTypeOK, Goto

LEMMA WorkerTypes ==
    ASSUME TypeOK, NEW w \in Workers, Worker(w)
    PROVE  TypeOK'
<1>1. PageTypeOK' /\ (calls \in 0 .. MaxCalls)'
  BY DEF Worker, TypeOK, PageTypeOK, pageVars, queueVars, requestVars, progressVars
<1>2. SharedTypeOK' /\ WorkerTypeOK'
  <2> USE SharedAssumption DEF TypeOK
  <2>1. CASE Boot(w)
    BY <2>1 DEF Boot, SharedTypeOK, WorkerTypeOK, sharedVars, At, Goto, Labels, Storing
  <2>2. CASE HandleInitMemory(w)
    BY <2>2, TakenMessage, MessageTypes, AppendProperties
       DEF HandleInitMemory, Take, Post, SharedTypeOK, WorkerTypeOK
  <2>3. CASE HandleInit(w)
    BY <2>3, TakenMessage, MessageTypes, AppendProperties
       DEF HandleInit, Take, Post, SharedTypeOK, WorkerTypeOK
  <2>4. CASE HandleTrace(w)
    <3>1. SharedTypeOK'
      BY <2>4, TakenMessage DEF HandleTrace, Take, SharedTypeOK
    <3>2. jobData' \in [Workers -> JobData] /\ jobData'[w] \in JobData
      BY <2>4, TakenMessage DEF HandleTrace, Take, WorkerTypeOK
    <3>a. iterations' \in [Workers -> Nat]
      <4>1. jobData'[w].init_iterations \in Nat
        BY <3>2 DEF JobData
      <4>2. CASE UNCHANGED iterations
        BY <4>2 DEF WorkerTypeOK
      <4>3. CASE iterations' = [iterations EXCEPT ![w] = jobData'[w].init_iterations]
        BY <4>1, <4>3 DEF WorkerTypeOK
      <4>. QED  BY <2>4, <4>2, <4>3 DEF HandleTrace
    <3>b. pixel' \in [Workers -> 1 .. NumPixels + 1] /\ \A v \in Workers : v # w => pixel'[v] = pixel[v]
      <4>1. 1 \in 1 .. NumPixels + 1
        OBVIOUS
      <4>2. CASE UNCHANGED pixel
        BY <4>2 DEF WorkerTypeOK
      <4>3. CASE pixel' = [pixel EXCEPT ![w] = 1]
        BY <4>1, <4>3 DEF WorkerTypeOK
      <4>. QED  BY <2>4, <4>2, <4>3 DEF HandleTrace
    <3>3. /\ iterations' \in [Workers -> Nat]
          /\ pixel' \in [Workers -> 1 .. NumPixels + 1]
          /\ \A v \in Workers : v # w => pixel'[v] = pixel[v]
      BY <3>a, <3>b
    <3>4. locked' \in [Workers -> BOOLEAN]
      BY <2>4 DEF HandleTrace, WorkerTypeOK, lock
    <3>5. PICK label \in {"reply", "enter"} : Goto(w, label)
      BY <2>4 DEF HandleTrace
    <3>6. /\ pc' \in [Workers -> Labels]
          /\ \A v \in Workers : pc'[v] \in Storing \cup {"update"} => pixel'[v] \in Pixels
      BY <3>3, <3>5, GotoTypes DEF Labels, Storing
    <3>. QED  BY <2>4, <3>1, <3>2, <3>3, <3>4, <3>6 DEF HandleTrace, WorkerTypeOK
  <2>5. CASE EnterRun(w)
    <3>1. SharedTypeOK'
      BY <2>5 DEF EnterRun, SharedTypeOK, sharedVars
    <3>2. iterations' \in [Workers -> Nat]
      BY <2>5 DEF EnterRun, WorkerTypeOK
    <3>3. locked' \in [Workers -> BOOLEAN]
      BY <2>5 DEF EnterRun, WorkerTypeOK, lock
    <3>4. PICK label \in {"reply", "pixel"} : Goto(w, label)
      BY <2>5 DEF EnterRun
    <3>5. /\ pc' \in [Workers -> Labels]
          /\ \A v \in Workers : pc'[v] \in Storing \cup {"update"} => pixel'[v] \in Pixels
      BY <2>5, <3>4, GotoTypes DEF EnterRun, WorkerTypeOK, Labels, Storing
    <3>. QED  BY <2>5, <3>1, <3>2, <3>3, <3>5 DEF EnterRun, WorkerTypeOK, sharedVars
  <2>6. CASE NextPixel(w)
    <3>1. SharedTypeOK'
      BY <2>6 DEF NextPixel, SharedTypeOK, sharedVars
    <3>2. locked' \in [Workers -> BOOLEAN]
      BY <2>6 DEF NextPixel, WorkerTypeOK, lock
    <3>3. PICK label \in {"leave", "update"} :
             Goto(w, label) /\ (label = "update" => pixel[w] <= NumPixels)
      BY <2>6 DEF NextPixel
    <3>4. pixel[w] <= NumPixels => pixel[w] \in Pixels
      BY DEF WorkerTypeOK, Pixels
    <3>5. /\ pc' \in [Workers -> Labels]
          /\ \A v \in Workers : pc'[v] \in Storing \cup {"update"} => pixel'[v] \in Pixels
      BY <2>6, <3>3, <3>4, GotoTypes DEF NextPixel, WorkerTypeOK, Labels, Storing
    <3>. QED  BY <2>6, <3>1, <3>2, <3>5 DEF NextPixel, WorkerTypeOK, sharedVars
  <2>7. CASE UpdatePixel(w)
    <3>1. SharedTypeOK'
      BY <2>7 DEF UpdatePixel, SharedTypeOK, sharedVars
    <3>2. locked' \in [Workers -> BOOLEAN]
      BY <2>7 DEF UpdatePixel, WorkerTypeOK, lock
    <3>3. pixel[w] \in Pixels
      BY <2>7 DEF UpdatePixel, WorkerTypeOK, At
    <3>4. /\ pixel' \in [Workers -> 1 .. NumPixels + 1]
          /\ \A v \in Workers : v # w => pixel'[v] = pixel[v]
      BY <2>7, <3>3 DEF UpdatePixel, WorkerTypeOK, Pixels
    <3>5. PICK label \in {"pixel", "load"} :
             Goto(w, label) /\ (label = "load" => pixel' = pixel)
      BY <2>7 DEF UpdatePixel
    <3>6. /\ pc' \in [Workers -> Labels]
          /\ \A v \in Workers : pc'[v] \in Storing \cup {"update"} => pixel'[v] \in Pixels
      BY <3>3, <3>4, <3>5, GotoTypes DEF Labels, Storing
    <3>. QED  BY <2>7, <3>1, <3>2, <3>4, <3>6 DEF UpdatePixel, WorkerTypeOK, sharedVars
  <2>8. CASE LoadSample(w)
    <3>1. SharedTypeOK'
      BY <2>8 DEF LoadSample, SharedTypeOK, sharedVars
    <3>2. pixel[w] \in Pixels /\ jobData[w].index \in Jobs
      BY <2>8 DEF LoadSample, WorkerTypeOK, At, Storing, JobData
    <3>3. sample' \in [Workers -> Nat]
      BY <2>8, <3>2 DEF LoadSample, WorkerTypeOK, SharedTypeOK
    <3>4. /\ pc' \in [Workers -> Labels]
          /\ \A v \in Workers : pc'[v] \in Storing \cup {"update"} => pixel'[v] \in Pixels
      BY <2>8, <3>2, GotoTypes DEF LoadSample, WorkerTypeOK, Labels
    <3>. QED  BY <2>8, <3>1, <3>3, <3>4 DEF LoadSample, WorkerTypeOK, sharedVars
  <2>9. CASE StoreSample(w)
    <3>1. pixel[w] \in Pixels /\ sample[w] + 1 \in Nat
      BY <2>9 DEF StoreSample, WorkerTypeOK, At, Storing
    <3>2. sampleMemory' \in [Jobs -> [Pixels -> Nat]]
      BY <2>9, <3>1 DEF StoreSample, SharedTypeOK
    <3>3. /\ pc' \in [Workers -> Labels]
          /\ \A v \in Workers : pc'[v] \in Storing \cup {"update"} => pixel'[v] \in Pixels
      BY <2>9, <3>1, GotoTypes DEF StoreSample, WorkerTypeOK, Labels
    <3>. QED  BY <2>9, <3>2, <3>3 DEF StoreSample, WorkerTypeOK, SharedTypeOK
  <2>10. CASE ShadePixel(w)
    <3>1. pixel[w] \in Pixels /\ jobData[w].index \in Jobs /\ iterations[w] \in Nat
      BY <2>10 DEF ShadePixel, WorkerTypeOK, At, Storing, JobData
    <3>2. Shade(sampleMemory[jobData[w].index][pixel[w]], iterations[w])
            \in [samples : Nat, iterations : Nat]
      BY <3>1 DEF SharedTypeOK, Shade
    <3>3. pixelMemory' \in [Jobs -> [Pixels -> [samples : Nat, iterations : Nat]]]
      BY <2>10, <3>2 DEF ShadePixel, SharedTypeOK
    <3>4. /\ pixel' \in [Workers -> 1 .. NumPixels + 1]
          /\ \A v \in Workers : v # w => pixel'[v] = pixel[v]
      BY <2>10, <3>1 DEF ShadePixel, WorkerTypeOK, Pixels
    <3>5. /\ pc' \in [Workers -> Labels]
          /\ \A v \in Workers : pc'[v] \in Storing \cup {"update"} => pixel'[v] \in Pixels
      BY <2>10, <3>4, GotoTypes DEF ShadePixel, Labels, Storing
    <3>. QED  BY <2>10, <3>3, <3>4, <3>5 DEF ShadePixel, WorkerTypeOK, SharedTypeOK
  <2>11. CASE LeaveRun(w)
    <3>1. SharedTypeOK'
      BY <2>11 DEF LeaveRun, SharedTypeOK, sharedVars
    <3>2. locked' \in [Workers -> BOOLEAN]
      BY <2>11 DEF LeaveRun, WorkerTypeOK, lock
    <3>3. /\ pc' \in [Workers -> Labels]
          /\ \A v \in Workers : pc'[v] \in Storing \cup {"update"} => pixel'[v] \in Pixels
      BY <2>11, GotoTypes DEF LeaveRun, WorkerTypeOK, Labels, Storing
    <3>. QED  BY <2>11, <3>1, <3>2, <3>3 DEF LeaveRun, WorkerTypeOK, sharedVars
  <2>12. CASE Reply(w)
    <3>1. TraceCompleted(jobData[w].index) \in WorkerMessages
      BY MessageTypes DEF WorkerTypeOK, JobData
    <3>2. toPage' \in [Workers -> Seq(WorkerMessages)]
      BY <2>12, <3>1, AppendProperties DEF Reply, Post, SharedTypeOK
    <3>3. /\ pc' \in [Workers -> Labels]
          /\ \A v \in Workers : pc'[v] \in Storing \cup {"update"} => pixel'[v] \in Pixels
      BY <2>12, GotoTypes DEF Reply, WorkerTypeOK, Labels, Storing
    <3>. QED  BY <2>12, <3>2, <3>3 DEF Reply, WorkerTypeOK, SharedTypeOK
  <2>. QED  BY <2>1, <2>2, <2>3, <2>4, <2>5, <2>6, <2>7, <2>8, <2>9, <2>10,
               <2>11, <2>12 DEF Worker, WorkerStep
<1>. QED  BY <1>1, <1>2 DEF TypeOK

LEMMA CompletedTypes ==
    ASSUME TypeOK, NEW busy \in Int, refJobs' \in [Jobs -> Nat],
           iteration_completed(busy)
    PROVE  /\ traceJobs' \in Seq(Jobs) /\ deferredQueue' \in Seq(Jobs)
           /\ numBusy' \in Int
           /\ toWorker' \in [Workers -> Seq(PageMessages)]
           /\ iterations_completed' \in Nat /\ elapsed_time' \in Nat
<1>1. iterations_completed' \in Nat /\ elapsed_time' \in Nat
  <2>1. iterations_completed' \in Nat
    BY DEF iteration_completed, TypeOK, PageTypeOK
  <2>2. elapsed_time' = elapsed_time \/ elapsed_time' \in ElapsedTimes
    BY DEF iteration_completed
  <2>. QED  BY <2>1, <2>2, PageAssumption DEF TypeOK, PageTypeOK
<1>2. CASE Continues /\ next_iteration(busy)
  <2>1. deferredQueue \in Seq(Jobs) /\ <<>> \in Seq(Jobs)
    BY DEF TypeOK, PageTypeOK
  <2>. QED  BY <1>1, <1>2, <2>1, TraceTypes DEF next_iteration
<1>3. CASE numBusy' = busy /\ UNCHANGED <<traceJobs, deferredQueue, toWorker>>
  BY <1>1, <1>3 DEF TypeOK, PageTypeOK, SharedTypeOK
<1>. QED  BY <1>2, <1>3 DEF iteration_completed

LEMMA QueueTypes ==
    ASSUME TypeOK, NEW w \in Workers, NEW busy \in Int, refJobs' \in [Jobs -> Nat],
           process_queue(w, busy)
    PROVE  /\ traceJobs' \in Seq(Jobs) /\ deferredQueue' \in Seq(Jobs)
           /\ numBusy' \in Int
           /\ toWorker' \in [Workers -> Seq(PageMessages)]
           /\ iterations_completed' \in Nat /\ elapsed_time' \in Nat
<1>1. traceJobs \in Seq(Jobs) /\ deferredQueue \in Seq(Jobs)
      /\ toWorker \in [Workers -> Seq(PageMessages)]
      /\ iterations_completed \in Nat /\ elapsed_time \in Nat
  BY DEF TypeOK, PageTypeOK, SharedTypeOK
<1>2. CASE /\ traceJobs # <<>>
           /\ traceJobs' = Tail(traceJobs)
           /\ deferredQueue' = Append(deferredQueue, Head(traceJobs))
           /\ toWorker' = [toWorker EXCEPT ![w] =
                 Append(@, Trace(Head(traceJobs), refJobs'[Head(traceJobs)]))]
           /\ numBusy' = busy + 1
           /\ UNCHANGED progressVars
  <2>1. Head(traceJobs) \in Jobs /\ Tail(traceJobs) \in Seq(Jobs)
    BY <1>1, <1>2, HeadTailProperties
  <2>2. Trace(Head(traceJobs), refJobs'[Head(traceJobs)]) \in PageMessages
    BY <2>1, MessageTypes
  <2>3. Append(toWorker[w], Trace(Head(traceJobs), refJobs'[Head(traceJobs)]))
           \in Seq(PageMessages)
    BY <1>1, <2>2, AppendProperties
  <2>4. Append(deferredQueue, Head(traceJobs)) \in Seq(Jobs)
    BY <1>1, <2>1, AppendProperties
  <2>. QED  BY <1>1, <1>2, <2>1, <2>3, <2>4 DEF progressVars
<1>3. CASE iteration_completed(busy)
  BY <1>3, CompletedTypes
<1>4. CASE /\ numBusy' = busy
           /\ UNCHANGED <<traceJobs, deferredQueue, toWorker, progressVars>>
  BY <1>1, <1>4 DEF progressVars
<1>. QED  BY <1>2, <1>3, <1>4 DEF process_queue

LEMMA StartTypes ==
    ASSUME TypeOK, NEW n \in Nat, NEW t \in Nat, start_trace(n, t)
    PROVE  /\ iterations_target' \in Nat /\ maximum_time' \in Nat
           /\ interruptTracing' \in BOOLEAN
           /\ refJobs' \in [Jobs -> Nat]
           /\ traceJobs' \in Seq(Jobs) /\ deferredQueue' \in Seq(Jobs)
           /\ numBusy' \in Int
           /\ toWorker' \in [Workers -> Seq(PageMessages)]
<1>1. /\ iterations_target' \in Nat /\ maximum_time' \in Nat
      /\ refJobs' \in [Jobs -> Nat]
  BY DEF start_trace, TypeOK, PageTypeOK
<1>2. interruptTracing' \in BOOLEAN
  BY DEF start_trace
<1>3. /\ traceJobs \in Seq(Jobs) /\ deferredQueue \in Seq(Jobs) /\ <<>> \in Seq(Jobs)
      /\ numBusy \in Int
  BY DEF TypeOK, PageTypeOK
<1>4. \/ trace(deferredQueue, <<>>, numBusy)
      \/ trace(traceJobs, deferredQueue, numBusy)
  BY DEF start_trace, next_iteration
<1>. QED  BY <1>1, <1>2, <1>3, <1>4, TraceTypes

LEMMA PageTypes ==
    ASSUME TypeOK, NEW w \in Workers, Page(w)
    PROVE  TypeOK'
<1>1. WorkerTypeOK' /\ (calls \in 0 .. MaxCalls)'
  BY DEF Page, TypeOK, WorkerTypeOK, workerVars
<1>2. ASSUME NEW event, Receive(w, event)
      PROVE  toPage' \in [Workers -> Seq(WorkerMessages)]
  BY <1>2, TakenReply DEF Receive, TypeOK, SharedTypeOK
<1>3. CASE OnMemoryInitialized(w)
  <2>1. toWorker' \in [Workers -> Seq(PageMessages)]
    BY <1>3, MessageTypes, AppendProperties DEF OnMemoryInitialized, TypeOK, SharedTypeOK
  <2>2. SharedTypeOK'
    BY <1>2, <1>3, <2>1 DEF OnMemoryInitialized, TypeOK, SharedTypeOK
  <2>3. PageTypeOK'
    BY <1>3 DEF OnMemoryInitialized, TypeOK, PageTypeOK,
                pageVars, queueVars, requestVars, progressVars
  <2>. QED  BY <1>1, <2>2, <2>3 DEF TypeOK
<1>4. CASE OnInitialized(w)
  <2>1. /\ iterations_target' \in Nat /\ maximum_time' \in Nat
        /\ interruptTracing' \in BOOLEAN
        /\ refJobs' \in [Jobs -> Nat]
        /\ traceJobs' \in Seq(Jobs) /\ deferredQueue' \in Seq(Jobs)
        /\ numBusy' \in Int
        /\ toWorker' \in [Workers -> Seq(PageMessages)]
    <3>1. CASE start_trace(1, 0)
      BY <3>1, StartTypes
    <3>2. CASE UNCHANGED <<refJobs, queueVars, requestVars, toWorker>>
      BY <3>2 DEF TypeOK, PageTypeOK, SharedTypeOK, queueVars, requestVars
    <3>. QED  BY <1>4, <3>1, <3>2 DEF OnInitialized
  <2>2. ready' \in [Workers -> BOOLEAN] /\ numReady' \in Nat
    BY <1>4 DEF OnInitialized, TypeOK, PageTypeOK
  <2>3. SharedTypeOK'
    BY <1>2, <1>4, <2>1 DEF OnInitialized, TypeOK, SharedTypeOK
  <2>4. PageTypeOK'
    BY <1>4, <2>1, <2>2 DEF OnInitialized, TypeOK, PageTypeOK, progressVars
  <2>. QED  BY <1>1, <2>3, <2>4 DEF TypeOK
<1>5. CASE OnTraceCompleted(w)
  <2>1. Head(toPage[w]).jobIndex \in Jobs
    BY <1>5, TakenReply DEF OnTraceCompleted, Receive
  <2>2. refJobs' \in [Jobs -> Nat]
    BY <1>5, <2>1 DEF OnTraceCompleted, TypeOK, PageTypeOK
  <2>3. canvas' \in [Jobs -> [Pixels -> [samples : Nat, iterations : Nat]]]
    BY <1>5, <2>1 DEF OnTraceCompleted, TypeOK, PageTypeOK, SharedTypeOK
  <2>4. numBusy - 1 \in Int
    BY DEF TypeOK, PageTypeOK
  <2>5. /\ traceJobs' \in Seq(Jobs) /\ deferredQueue' \in Seq(Jobs)
        /\ numBusy' \in Int
        /\ toWorker' \in [Workers -> Seq(PageMessages)]
        /\ iterations_completed' \in Nat /\ elapsed_time' \in Nat
    BY <1>5, <2>2, <2>4, QueueTypes DEF OnTraceCompleted
  <2>6. SharedTypeOK'
    BY <1>2, <1>5, <2>5 DEF OnTraceCompleted, TypeOK, SharedTypeOK
  <2>7. PageTypeOK'
    BY <1>5, <2>2, <2>3, <2>5 DEF OnTraceCompleted, TypeOK, PageTypeOK, requestVars
  <2>. QED  BY <1>1, <2>6, <2>7 DEF TypeOK
<1>. QED  BY <1>3, <1>4, <1>5 DEF Page, OnTracerMessage

LEMMA CallTypes ==
    ASSUME TypeOK, CallStart \/ CallStop \/ CallReset
    PROVE  TypeOK'
<1>1. WorkerTypeOK' /\ (calls \in 0 .. MaxCalls)'
  BY SystemAssumption DEF CallStart, CallStop, CallReset, Call, TypeOK, WorkerTypeOK, workerVars
<1>2. CASE CallStart
  <2>1. PICK n \in Nat, t \in Nat : StartTrace(n, t)
    BY <1>2, SystemAssumption DEF CallStart
  <2>2. /\ iterations_target' \in Nat /\ maximum_time' \in Nat
        /\ interruptTracing' \in BOOLEAN
        /\ refJobs' \in [Jobs -> Nat]
        /\ traceJobs' \in Seq(Jobs) /\ deferredQueue' \in Seq(Jobs)
        /\ numBusy' \in Int
        /\ toWorker' \in [Workers -> Seq(PageMessages)]
    BY <2>1, StartTypes DEF StartTrace
  <2>3. SharedTypeOK'
    BY <2>1, <2>2 DEF StartTrace, TypeOK, SharedTypeOK
  <2>4. PageTypeOK'
    BY <2>1, <2>2 DEF StartTrace, TypeOK, PageTypeOK, progressVars
  <2>. QED  BY <1>1, <2>3, <2>4 DEF TypeOK
<1>3. CASE CallStop
  <2>1. SharedTypeOK'
    BY <1>3 DEF CallStop, StopTrace, TypeOK, SharedTypeOK
  <2>2. PageTypeOK'
    BY <1>3 DEF CallStop, StopTrace, TypeOK, PageTypeOK, queueVars, progressVars
  <2>. QED  BY <1>1, <2>1, <2>2 DEF TypeOK
<1>4. CASE CallReset
  <2>1. SharedTypeOK'
    BY <1>4 DEF CallReset, ResetTrace, TypeOK, SharedTypeOK, sharedVars
  <2>2. PageTypeOK'
    BY <1>4 DEF CallReset, ResetTrace, TypeOK, PageTypeOK, queueVars
  <2>. QED  BY <1>1, <2>1, <2>2 DEF TypeOK
<1>. QED  BY <1>2, <1>3, <1>4

\* Every variable keeps its type, for any number of workers, buckets and pixels
\* and any schedule of calls, start_trace during an iteration included; a worker
\* that stores a pixel stores one of its bucket.
THEOREM TypeCorrect == Spec => []TypeOK
<1>1. Init => TypeOK
  BY InitTypeOK
<1>2. TypeOK /\ [Next]_vars => TypeOK'
  <2> SUFFICES ASSUME TypeOK, [Next]_vars PROVE TypeOK'
    OBVIOUS
  <2>1. ASSUME NEW w \in Workers, Page(w) PROVE TypeOK'
    BY <2>1, PageTypes
  <2>2. ASSUME NEW w \in Workers, Worker(w) PROVE TypeOK'
    BY <2>2, WorkerTypes
  <2>3. CASE CallStart \/ CallStop \/ CallReset
    BY <2>3, CallTypes
  <2>4. CASE UNCHANGED vars
    BY <2>4 DEF vars, pageVars, workerVars, sharedVars, queueVars, requestVars,
                progressVars, TypeOK, SharedTypeOK, PageTypeOK, WorkerTypeOK
  <2>. QED  BY <2>1, <2>2, <2>3, <2>4 DEF Next
<1>. QED  BY <1>1, <1>2, PTL DEF Spec

-----------------------------------------------------------------------------
AllJobs == [j \in Jobs |-> j]

-----------------------------------------------------------------------------
(***************************************************************************)
(* Two queues that hold all jobs in order.                                 *)
(***************************************************************************)
LEMMA AllJobsSeq == AllJobs \in Seq(Jobs) /\ Len(AllJobs) = NumJobs
BY SharedAssumption DEF AllJobs, Jobs

LEMMA RegroupQueues ==
    ASSUME NEW p \in Seq(Jobs), NEW q \in Seq(Jobs), NEW r \in Seq(Jobs)
    PROVE  (p \o q) \o r = p \o (q \o r)
BY ConcatAssociative

LEMMA QueuesSplit ==
    ASSUME NEW p \in Seq(Jobs), NEW q \in Seq(Jobs)
    PROVE  p \o q = AllJobs <=> /\ Len(p) + Len(q) = NumJobs
                                /\ \A i \in 1 .. Len(p) : p[i] = i
                                /\ \A i \in 1 .. Len(q) : q[i] = Len(p) + i
<1> USE SharedAssumption
<1>1. /\ p \o q \in Seq(Jobs)
      /\ Len(p \o q) = Len(p) + Len(q)
      /\ \A i \in 1 .. Len(p) + Len(q) :
            (p \o q)[i] = IF i <= Len(p) THEN p[i] ELSE q[i - Len(p)]
  BY ConcatProperties
<1>2. Len(p) \in Nat /\ Len(q) \in Nat
  BY LenProperties
<1>3. ASSUME p \o q = AllJobs
      PROVE  /\ Len(p) + Len(q) = NumJobs
             /\ \A i \in 1 .. Len(p) : p[i] = i
             /\ \A i \in 1 .. Len(q) : q[i] = Len(p) + i
  <2>1. Len(p) + Len(q) = NumJobs
    BY <1>1, <1>3, AllJobsSeq
  <2>2. \A i \in Jobs : (p \o q)[i] = i
    BY <1>3 DEF AllJobs
  <2>3. ASSUME NEW i \in 1 .. Len(p) PROVE p[i] = i
    BY <1>1, <1>2, <2>1, <2>2 DEF Jobs
  <2>4. ASSUME NEW i \in 1 .. Len(q) PROVE q[i] = Len(p) + i
    <3>1. Len(p) + i \in Jobs /\ Len(p) + i > Len(p)
      BY <1>2, <2>1 DEF Jobs
    <3>. QED  BY <1>1, <1>2, <2>1, <2>2, <3>1 DEF Jobs
  <2>. QED  BY <2>1, <2>3, <2>4
<1>4. ASSUME Len(p) + Len(q) = NumJobs,
             \A i \in 1 .. Len(p) : p[i] = i,
             \A i \in 1 .. Len(q) : q[i] = Len(p) + i
      PROVE  p \o q = AllJobs
  <2>1. \A i \in 1 .. NumJobs : (p \o q)[i] = AllJobs[i]
    BY <1>1, <1>2, <1>4 DEF AllJobs, Jobs
  <2>. QED  BY <1>1, <1>4, <2>1, AllJobsSeq, SeqEqual
<1>. QED  BY <1>3, <1>4

-----------------------------------------------------------------------------
(***************************************************************************)
(* A worker's place in its conversation determines the job it has.         *)
(***************************************************************************)
LEMMA JobUnique ==
    ASSUME NEW w \in Workers, NEW j \in Jobs, NEW k \in Jobs, HasJob(w, j), HasJob(w, k)
    PROVE  j = k
BY DEF HasJob, HasPosted, IsTracingJob, HasReported, IsTracing, Tracing, Labels, At,
       Trace, TraceCompleted

LEMMA JobUniqueNext ==
    ASSUME NEW w \in Workers, NEW j \in Jobs, NEW k \in Jobs, HasJob(w, j)', HasJob(w, k)'
    PROVE  j = k
BY DEF HasJob, HasPosted, IsTracingJob, HasReported, IsTracing, Tracing, Labels, At,
       Trace, TraceCompleted

LEMMA NoJob ==
    ASSUME NEW w \in Workers, Booting(w) \/ Waiting(w), NEW j \in Jobs
    PROVE  ~HasJob(w, j)
BY DEF HasJob, HasPosted, IsTracingJob, HasReported, Booting, Waiting, IsTracing,
       Tracing, Labels, At, Trace, TraceCompleted, InitMemory, InitTracer,
       MemoryInitialized, Initialized

LEMMA NoJobNext ==
    ASSUME NEW w \in Workers, Booting(w)' \/ Waiting(w)', NEW j \in Jobs
    PROVE  ~HasJob(w, j)'
BY DEF HasJob, HasPosted, IsTracingJob, HasReported, Booting, Waiting, IsTracing,
       Tracing, Labels, At, Trace, TraceCompleted, InitMemory, InitTracer,
       MemoryInitialized, Initialized

\* When no worker gains or loses a job, what IInv says of all workers stays.
LEMMA SameJobs ==
    ASSUME \A v \in Workers, j \in Jobs : HasJob(v, j)' <=> HasJob(v, j)
    PROVE  Busy' = Busy /\ (OneWorkerPerJob => OneWorkerPerJob')
BY DEF Busy, OneWorkerPerJob

\* The positions of deferredQueue are jobs.
LEMMA DeferredAreJobs ==
    ASSUME TypeOK, QueuesKeepJobs
    PROVE  /\ Len(deferredQueue) \in Nat /\ Len(traceJobs) \in Nat
           /\ Len(deferredQueue) + Len(traceJobs) = NumJobs
           /\ 1 .. Len(deferredQueue) \subseteq Jobs
           /\ \A i \in 1 .. Len(traceJobs) : traceJobs[i] = Len(deferredQueue) + i
<1>1. deferredQueue \in Seq(Jobs) /\ traceJobs \in Seq(Jobs)
  BY DEF TypeOK, PageTypeOK
<1>2. /\ Len(deferredQueue) + Len(traceJobs) = NumJobs
      /\ \A i \in 1 .. Len(traceJobs) : traceJobs[i] = Len(deferredQueue) + i
  BY <1>1, QueuesSplit DEF QueuesKeepJobs, AllJobs
<1>. QED  BY <1>1, <1>2, LenProperties, SharedAssumption DEF Jobs

\* Nothing a step leaves alone about a worker and its job changes the two.
LEMMA OtherWorker ==
    ASSUME NEW v \in Workers, NEW j \in Jobs,
           toWorker'[v] = toWorker[v], toPage'[v] = toPage[v],
           pc'[v] = pc[v], jobData'[v] = jobData[v], refJobs'[j] = refJobs[j]
    PROVE  HasJob(v, j)' <=> HasJob(v, j)
BY DEF HasJob, HasPosted, IsTracingJob, HasReported, IsTracing, At

LEMMA OtherPorts ==
    ASSUME NEW v \in Workers,
           toWorker'[v] = toWorker[v], toPage'[v] = toPage[v], pc'[v] = pc[v],
           buffers'[v] = buffers[v], xTracer'[v] = xTracer[v]
    PROVE  (Waiting(v)' <=> Waiting(v)) /\ (Booting(v)' <=> Booting(v))
BY DEF Waiting, Booting, At

\* A worker's own step touches nothing of another worker.
LEMMA WorkerTouches ==
    ASSUME TypeOK, NEW w \in Workers, WorkerStep(w), NEW v \in Workers, v # w
    PROVE  /\ toWorker'[v] = toWorker[v] /\ toPage'[v] = toPage[v]
           /\ pc'[v] = pc[v] /\ jobData'[v] = jobData[v]
           /\ buffers'[v] = buffers[v] /\ xTracer'[v] = xTracer[v]
BY DEF TypeOK, SharedTypeOK, WorkerTypeOK, WorkerStep, sharedVars, At, Goto, Take, Post,
       Boot, HandleInitMemory, HandleInit, HandleTrace, EnterRun, NextPixel, UpdatePixel,
       LoadSample, StoreSample, ShadePixel, LeaveRun, Reply

\* The steps inside a trace leave the ports and the job as they are.
TracerStep(w) ==
    \/ EnterRun(w) \/ NextPixel(w) \/ UpdatePixel(w)
    \/ LoadSample(w) \/ StoreSample(w) \/ ShadePixel(w) \/ LeaveRun(w)

LEMMA TracerStepKeeps ==
    ASSUME TypeOK, NEW w \in Workers, TracerStep(w)
    PROVE  /\ pc[w] \in Tracing /\ pc'[w] \in Tracing
           /\ UNCHANGED <<toWorker, toPage, jobData, buffers, xTracer, flags>>
BY DEF TypeOK, WorkerTypeOK, TracerStep, sharedVars, At, Goto, Labels, Tracing,
       EnterRun, NextPixel, UpdatePixel, LoadSample, StoreSample, ShadePixel, LeaveRun

\* A worker keeps its job until the page has handled its report.
LEMMA WorkerKeepsJob ==
    ASSUME TypeOK, NEW w \in Workers, WorkerStep(w), refJobs' = refJobs,
           NEW j \in Jobs, HasJob(w, j), xTracer[w]
    PROVE  HasJob(w, j)' /\ xTracer'[w]
<1>1. CASE Boot(w) \/ HandleInitMemory(w) \/ HandleInit(w)
  <2>1. ~Boot(w)
    BY DEF Boot, At, HasJob, HasPosted, IsTracingJob, HasReported, IsTracing, Tracing, Labels
  <2>2. ~HandleInitMemory(w) /\ ~HandleInit(w)
    BY DEF HandleInitMemory, HandleInit, Take, At, HasJob, HasPosted, IsTracingJob,
           HasReported, IsTracing, Tracing, Labels, Trace
  <2>. QED  BY <1>1, <2>1, <2>2
<1>2. CASE HandleTrace(w)
  <2>1. HasPosted(w, j)
    BY <1>2 DEF HandleTrace, Take, At, HasJob, HasPosted, IsTracingJob, HasReported,
                IsTracing, Tracing, Labels
  <2>2. toWorker'[w] = <<>> /\ toPage'[w] = <<>>
    BY <1>2, <2>1 DEF HandleTrace, Take, HasPosted, TypeOK, SharedTypeOK
  <2>3. jobData'[w] = [index |-> j, init_iterations |-> refJobs[j]]
    BY <1>2, <2>1 DEF HandleTrace, HasPosted, Trace, TypeOK, WorkerTypeOK
  <2>4. pc'[w] \in Tracing
    BY <1>2 DEF HandleTrace, Goto, Tracing, Labels, TypeOK, WorkerTypeOK
  <2>5. xTracer'[w]
    BY <1>2 DEF HandleTrace
  <2>. QED  BY <2>2, <2>3, <2>4, <2>5 DEF HasJob, IsTracingJob, IsTracing
<1>3. CASE TracerStep(w)
  BY <1>3, TracerStepKeeps DEF HasJob, HasPosted, IsTracingJob, HasReported, IsTracing,
                               At, Tracing, Labels
<1>4. CASE Reply(w)
  <2>1. IsTracingJob(w, j)
    BY <1>4 DEF Reply, At, HasJob, HasPosted, IsTracingJob, HasReported
  <2>2. /\ toWorker'[w] = <<>> /\ toPage'[w] = <<TraceCompleted(j)>>
        /\ pc'[w] = "listen" /\ xTracer'[w]
    BY <1>4, <2>1 DEF Reply, Post, Goto, IsTracingJob, TypeOK, SharedTypeOK, WorkerTypeOK
  <2>. QED  BY <2>2 DEF HasJob, HasReported, At
<1>. QED  BY <1>1, <1>2, <1>3, <1>4 DEF WorkerStep, TracerStep

\* The worker's half of the handshake.
LEMMA WorkerBoots ==
    ASSUME TypeOK, NEW w \in Workers, WorkerStep(w), Booting(w)
    PROVE  Booting(w)'
<1>1. CASE Boot(w)
  BY <1>1 DEF Boot, Booting, At, Goto, sharedVars, TypeOK, WorkerTypeOK
<1>2. CASE HandleInitMemory(w)
  <2>1. toWorker[w] = <<InitMemory>> /\ toPage[w] = <<>>
    BY <1>2 DEF HandleInitMemory, Booting, Take, InitMemory, InitTracer
  <2>2. toWorker'[w] = <<>> /\ toPage'[w] = <<MemoryInitialized>>
    BY <1>2, <2>1 DEF HandleInitMemory, Take, Post, TypeOK, SharedTypeOK
  <2>3. pc'[w] = "listen" /\ buffers'[w]
    BY <1>2 DEF HandleInitMemory, Take, At, TypeOK, WorkerTypeOK
  <2>. QED  BY <2>2, <2>3 DEF Booting, At
<1>3. CASE HandleInit(w)
  <2>1. toWorker[w] = <<InitTracer>> /\ toPage[w] = <<>>
    BY <1>3 DEF HandleInit, Booting, Take, InitMemory, InitTracer
  <2>2. toWorker'[w] = <<>> /\ toPage'[w] = <<Initialized>>
    BY <1>3, <2>1 DEF HandleInit, Take, Post, TypeOK, SharedTypeOK
  <2>3. pc'[w] = "listen" /\ xTracer'[w]
    BY <1>3 DEF HandleInit, Take, At, TypeOK, WorkerTypeOK
  <2>. QED  BY <2>2, <2>3 DEF Booting, At
<1>4. ~HandleTrace(w)
  BY DEF HandleTrace, Booting, Take, At, InitMemory, InitTracer
<1>5. ~TracerStep(w)
  BY TracerStepKeeps DEF Booting, At, Tracing, Labels
<1>6. ~Reply(w)
  BY DEF Reply, Booting, At
<1>. QED  BY <1>1, <1>2, <1>3, <1>4, <1>5, <1>6 DEF WorkerStep, TracerStep

\* A worker with nothing to do does nothing.
LEMMA WaitingRests ==
    ASSUME TypeOK, NEW w \in Workers, Waiting(w)
    PROVE  ~WorkerStep(w)
<1>1. ~TracerStep(w)
  BY TracerStepKeeps DEF Waiting, At, Tracing, Labels
<1>2. ~Boot(w) /\ ~HandleInitMemory(w) /\ ~HandleInit(w) /\ ~HandleTrace(w) /\ ~Reply(w)
  BY DEF Waiting, Boot, HandleInitMemory, HandleInit, HandleTrace, Reply, Take, At
<1>. QED  BY <1>1, <1>2 DEF WorkerStep, TracerStep

-----------------------------------------------------------------------------
(***************************************************************************)
(* A step of a worker preserves IInv.                                      *)
(***************************************************************************)
\* No worker's step gives a worker a job or takes one from it.
LEMMA WorkerKeepsJobs ==
    ASSUME TypeOK, IInv, NEW w \in Workers, Worker(w), NEW v \in Workers, NEW k \in Jobs
    PROVE  HasJob(v, k)' <=> HasJob(v, k)
<1>1. WorkerStep(w) /\ UNCHANGED <<refJobs>>
  BY DEF Worker, pageVars
<1>2. CASE v # w
  BY <1>1, <1>2, WorkerTouches, OtherWorker
<1>3. CASE v = w /\ ready[w]
  <2>1. PICK j \in Jobs : HasJob(w, j)
    BY <1>1, <1>3, WaitingRests, DeferredAreJobs DEF IInv, Conversations
  <2>2. HasJob(w, j)'
    BY <1>1, <1>3, <2>1, WorkerKeepsJob DEF IInv, Conversations
  <2>3. HasJob(w, k)' => k = j
    BY <2>2, JobUniqueNext
  <2>4. HasJob(w, k) => k = j
    BY <2>1, JobUnique
  <2>. QED  BY <1>3, <2>1, <2>2, <2>3, <2>4
<1>4. CASE v = w /\ ~ready[w]
  <2>1. Booting(w) /\ Booting(w)'
    BY <1>1, <1>4, WorkerBoots DEF IInv, Conversations
  <2>. QED  BY <1>4, <2>1, NoJob, NoJobNext
<1>. QED  BY <1>2, <1>3, <1>4

LEMMA WorkerSafe ==
    ASSUME TypeOK, IInv, NEW w \in Workers, Worker(w)
    PROVE  IInv'
<1>1. WorkerStep(w) /\ UNCHANGED pageVars
  BY DEF Worker
<1>2. UNCHANGED <<ready, numReady, numBusy, refJobs, traceJobs, deferredQueue,
                  iterations_completed>>
  BY <1>1 DEF pageVars, queueVars, progressVars
<1>3. \A v \in Workers, j \in Jobs : HasJob(v, j)' <=> HasJob(v, j)
  BY WorkerKeepsJobs
<1>4. Busy' = Busy /\ OneWorkerPerJob'
  BY <1>3, SameJobs DEF IInv
<1>5. Conversations'
  <2> SUFFICES ASSUME NEW v \in Workers
               PROVE  IF ready[v]
                        THEN /\ xTracer'[v]
                             /\ \/ Waiting(v)'
                                \/ \E k \in 1 .. Len(deferredQueue) : HasJob(v, k)'
                        ELSE Booting(v)'
    BY <1>2 DEF Conversations
  <2>1. CASE v # w
    <3>1. /\ Waiting(v)' <=> Waiting(v)
          /\ Booting(v)' <=> Booting(v)
          /\ xTracer'[v] = xTracer[v]
      BY <1>1, <2>1, WorkerTouches, OtherPorts
    <3>. QED  BY <1>3, <3>1, DeferredAreJobs DEF IInv, Conversations
  <2>2. CASE v = w /\ ready[w]
    <3>1. PICK j \in 1 .. Len(deferredQueue) : HasJob(w, j)
      BY <1>1, <2>2, WaitingRests DEF IInv, Conversations
    <3>2. j \in Jobs
      BY DeferredAreJobs DEF IInv
    <3>3. HasJob(w, j)' /\ xTracer'[w]
      BY <1>1, <1>2, <2>2, <3>1, <3>2, WorkerKeepsJob DEF IInv, Conversations
    <3>. QED  BY <2>2, <3>1, <3>3
  <2>3. CASE v = w /\ ~ready[w]
    BY <1>1, <2>3, WorkerBoots DEF IInv, Conversations
  <2>. QED  BY <2>1, <2>2, <2>3
<1>. QED  BY <1>2, <1>4, <1>5 DEF IInv, Counters, Boundaries, QueuesKeepJobs

-----------------------------------------------------------------------------
(***************************************************************************)
(* Steps of the page and of its console.                                   *)
(***************************************************************************)

\* How many of the next jobs trace posts.
HandedOut(next) == IF Len(next) < CPU_available THEN Len(next) ELSE CPU_available

\* trace moves the first jobs from one queue to the other and posts one to each of as many
\* workers.
LEMMA QueuesAfterTrace ==
    ASSUME NEW next \in Seq(Jobs), NEW posted \in Seq(Jobs), NEW busy,
           posted \o next = AllJobs, trace(next, posted, busy)
    PROVE  /\ QueuesKeepJobs'
           /\ HandedOut(next) \in 0 .. CPU_available /\ HandedOut(next) <= Len(next)
           /\ Len(deferredQueue') = Len(posted) + HandedOut(next)
           /\ \A w \in Workers : toWorker'[w] =
                 IF w <= HandedOut(next)
                   THEN Append(toWorker[w], Trace(Len(posted) + w, refJobs'[Len(posted) + w]))
                   ELSE toWorker[w]
<1> DEFINE n == HandedOut(next)
           k == Len(posted)
<1>1. /\ Len(next) \in Nat /\ k \in Nat /\ k + Len(next) = NumJobs
      /\ \A i \in 1 .. k : posted[i] = i
      /\ \A i \in 1 .. Len(next) : next[i] = k + i
  BY QueuesSplit, LenProperties
<1>2. n \in Nat /\ n <= Len(next) /\ n <= CPU_available /\ CPU_available \in Nat \ {0}
  BY <1>1, SharedAssumption DEF HandedOut
<1>3. /\ traceJobs' = SubSeq(next, n + 1, Len(next))
      /\ deferredQueue' = posted \o SubSeq(next, 1, n)
      /\ toWorker' = [w \in Workers |->
            IF w <= n THEN Append(toWorker[w], Trace(next[w], refJobs'[next[w]]))
                      ELSE toWorker[w]]
  BY DEF trace, HandedOut
<1> HIDE DEF n
<1>4. SubSeq(next, 1, n) \in Seq(Jobs) /\ Len(SubSeq(next, 1, n)) = n
  BY <1>1, <1>2, SubSeqProperties, ElementOfSeq
<1>5. deferredQueue' \o traceJobs' = AllJobs
  <2> DEFINE front == SubSeq(next, 1, n)
             back  == SubSeq(next, n + 1, Len(next))
  <2>1. front \in Seq(Jobs) /\ back \in Seq(Jobs)
    BY <1>1, <1>2, SubSeqProperties, ElementOfSeq
  <2>2. front \o back = SubSeq(next, 1, Len(next))
    <3>1. /\ 1 \in 1 .. Len(next) + 1
          /\ n \in 1 - 1 .. Len(next)
          /\ Len(next) \in n .. Len(next)
      BY <1>1, <1>2
    <3>. QED  BY <3>1, ConcatAdjacentSubSeq, Zenon
  <2>3. SubSeq(next, 1, Len(next)) = next
    BY SubSeqFull
  <2> HIDE DEF front, back
  <2>4. (posted \o front) \o back = posted \o (front \o back)
    BY <2>1, RegroupQueues
  <2>. QED  BY <1>3, <2>2, <2>3, <2>4 DEF front, back
<1>6. Len(deferredQueue') = k + n
  BY <1>3, <1>4, ConcatProperties
<1>7. ASSUME NEW w \in Workers, w <= n PROVE next[w] = k + w
  BY <1>1, <1>2, <1>7 DEF Workers
<1>8. \A w \in Workers : toWorker'[w] =
            IF w <= n THEN Append(toWorker[w], Trace(k + w, refJobs'[k + w]))
                      ELSE toWorker[w]
  BY <1>3, <1>7
<1>. QED  BY <1>1, <1>2, <1>5, <1>6, <1>8 DEF QueuesKeepJobs, AllJobs, n

\* Handing out jobs to workers that all wait: the first n workers get the next
\* n jobs, one each.
LEMMA JobsHandedOut ==
    ASSUME TypeOK, NEW next \in Seq(Jobs), NEW posted \in Seq(Jobs),
           posted \o next = AllJobs,
           trace(next, posted, 0), refJobs' \in [Jobs -> Nat],
           \A v \in Workers : /\ toWorker[v] = <<>> /\ toPage'[v] = <<>>
                              /\ pc'[v] = "listen" /\ ready'[v] /\ xTracer'[v]
    PROVE  /\ Conversations' /\ OneWorkerPerJob' /\ QueuesKeepJobs'
           /\ numBusy' = Cardinality(Busy')
           /\ numBusy' = 0 <=> next = <<>>
           /\ numBusy' = 0 => traceJobs' = <<>>
           /\ \A j \in Len(posted) + 1 .. Len(deferredQueue') : \E w \in Workers : HasJob(w, j)'
<1> DEFINE n == HandedOut(next)
           k == Len(posted)
<1>1. /\ Len(next) \in Nat /\ k \in Nat /\ k + Len(next) = NumJobs
      /\ \A i \in 1 .. k : posted[i] = i
      /\ \A i \in 1 .. Len(next) : next[i] = k + i
  BY QueuesSplit, LenProperties
<1>2. n \in Nat /\ n <= Len(next) /\ n <= CPU_available /\ CPU_available \in Nat \ {0}
  BY <1>1, SharedAssumption DEF HandedOut
<1>3. /\ traceJobs' = SubSeq(next, n + 1, Len(next))
      /\ deferredQueue' = posted \o SubSeq(next, 1, n)
      /\ numBusy' = n
      /\ toWorker' = [w \in Workers |->
            IF w <= n THEN Append(toWorker[w], Trace(next[w], refJobs'[next[w]]))
                      ELSE toWorker[w]]
  BY <1>2 DEF trace, HandedOut
<1>4. QueuesKeepJobs'
  BY QueuesAfterTrace
<1>5. Len(deferredQueue') = k + n
  BY QueuesAfterTrace
<1> HIDE DEF n
<1>6. ASSUME NEW w \in Workers, w <= n
      PROVE  k + w \in Jobs /\ k + w \in 1 .. Len(deferredQueue') /\ HasJob(w, k + w)'
  <2>1. w \in 1 .. Len(next) /\ k + w \in Jobs /\ k + w \in 1 .. k + n
    BY <1>1, <1>2, <1>6 DEF Workers, Jobs
  <2>2. toWorker'[w] = Append(<<>>, Trace(k + w, refJobs'[k + w]))
    BY <1>1, <1>3, <1>6, <2>1
  <2>3. toWorker'[w] = <<Trace(k + w, refJobs'[k + w])>>
    BY <2>2
  <2>4. HasPosted(w, k + w)'
    BY <2>3 DEF HasPosted, At
  <2>. QED  BY <1>5, <2>1, <2>4 DEF HasJob
<1>7. ASSUME NEW w \in Workers, ~(w <= n)
      PROVE  Waiting(w)'
  BY <1>3, <1>7 DEF Waiting, At
<1>8. ASSUME NEW w \in Workers, NEW j \in Jobs
      PROVE  HasJob(w, j)' <=> (w <= n /\ j = k + w)
  BY <1>6, <1>7, JobUniqueNext, NoJobNext
<1>9. Busy' = 1 .. n
  <2>1. \A w \in Workers : (\E j \in Jobs : HasJob(w, j)') <=> w <= n
    BY <1>6, <1>8
  <2>2. Busy' = {w \in Workers : \E j \in Jobs : HasJob(w, j)'}
    BY DEF Busy
  <2>. QED  BY <1>2, <2>1, <2>2 DEF Workers
<1>10. numBusy' = Cardinality(Busy')
  BY <1>2, <1>3, <1>9, FS_Interval
<1>11. OneWorkerPerJob'
  BY <1>1, <1>8 DEF OneWorkerPerJob, Workers
<1>12. Conversations'
  BY <1>6, <1>7 DEF Conversations
<1>13. numBusy' = 0 <=> next = <<>>
  <2>1. n = 0 <=> Len(next) = 0
    BY <1>1, <1>2 DEF n, HandedOut
  <2>. QED  BY <1>3, <2>1, EmptySeq
<1>14. numBusy' = 0 => traceJobs' = <<>>
  <2>1. n = 0 => Len(next) = 0
    BY <1>1, <1>2 DEF n, HandedOut
  <2>. QED  BY <1>3, <2>1, SubSeqEmpty
<1>15. ASSUME NEW j \in k + 1 .. Len(deferredQueue')
       PROVE  \E w \in Workers : HasJob(w, j)'
  <2>1. j - k \in Workers /\ j - k <= n /\ k + (j - k) = j
    BY <1>1, <1>2, <1>5 DEF Workers
  <2>. QED  BY <1>6, <2>1
<1>. QED  BY <1>4, <1>10, <1>11, <1>12, <1>13, <1>14, <1>15

\* Once every worker has reported, all are ready; a worker without a job waits.
LEMMA AllReady ==
    ASSUME TypeOK, IInv, numReady = CPU_available
    PROVE  /\ \A v \in Workers : ready[v] /\ xTracer[v]
           /\ \A v \in Workers : v \notin Busy => Waiting(v)
<1>1. IsFiniteSet(Workers) /\ Cardinality(Workers) = CPU_available
  BY SharedAssumption, FS_Interval DEF Workers
<1>2. {w \in Workers : ready[w]} = Workers
  BY <1>1, FS_Subset DEF IInv, Counters
<1>3. \A v \in Workers : ready[v]
  BY <1>2
<1>4. \A v \in Workers : v \notin Busy => Waiting(v)
  BY <1>3, DeferredAreJobs DEF IInv, Conversations, Busy
<1>. QED  BY <1>3, <1>4 DEF IInv, Conversations

LEMMA BusyFinite ==
    /\ IsFiniteSet(Workers)
    /\ IsFiniteSet(Busy)
    /\ Cardinality(Busy) = 0 <=> Busy = {}
<1>1. IsFiniteSet(Workers)
  BY SharedAssumption, FS_Interval DEF Workers
<1>2. IsFiniteSet(Busy)
  BY <1>1, FS_Subset DEF Busy
<1>. QED  BY <1>1, <1>2, FS_EmptySet

\* The page's half of the handshake: INIT answers MEMORY_INITIALIZED.
LEMMA MemoryBoots ==
    ASSUME TypeOK, NEW w \in Workers, Booting(w), OnMemoryInitialized(w), UNCHANGED workerVars
    PROVE  Booting(w)'
<1>1. toPage[w] = <<MemoryInitialized>> /\ toWorker[w] = <<>> /\ pc[w] = "listen" /\ buffers[w]
  BY DEF OnMemoryInitialized, Receive, Booting, At, Initialized
<1>2. toWorker'[w] = <<InitTracer>> /\ toPage'[w] = <<>>
  BY <1>1 DEF OnMemoryInitialized, Receive, TypeOK, SharedTypeOK
<1>. QED  BY <1>1, <1>2 DEF Booting, At, workerVars

LEMMA MemoryInitializedBoots ==
    ASSUME TypeOK, IInv, NEW w \in Workers, OnMemoryInitialized(w), UNCHANGED workerVars
    PROVE  /\ ~ready[w] /\ Booting(w) /\ Booting(w)'
           /\ \A v \in Workers \ {w} : toWorker'[v] = toWorker[v] /\ toPage'[v] = toPage[v]
<1>1. \A v \in Workers \ {w} : toWorker'[v] = toWorker[v] /\ toPage'[v] = toPage[v]
  BY DEF OnMemoryInitialized, Receive, TypeOK, SharedTypeOK
<1>2. toPage[w] # <<>> /\ Head(toPage[w]).event = "MEMORY_INITIALIZED"
  BY DEF OnMemoryInitialized, Receive
<1>3. ~Waiting(w) /\ \A j \in Jobs : ~HasJob(w, j)
  BY <1>2 DEF Waiting, HasJob, HasPosted, IsTracingJob, HasReported, TraceCompleted
<1>4. ~ready[w] /\ Booting(w)
  BY <1>3, DeferredAreJobs DEF IInv, Conversations
<1>. QED  BY <1>1, <1>4, MemoryBoots

LEMMA MemoryInitializedSafe ==
    ASSUME TypeOK, IInv, NEW w \in Workers, OnMemoryInitialized(w), UNCHANGED workerVars
    PROVE  IInv'
<1>1. UNCHANGED <<ready, numReady, numBusy, refJobs, traceJobs, deferredQueue,
                  iterations_completed>>
  BY DEF OnMemoryInitialized, pageVars, queueVars, progressVars
<1>2. UNCHANGED <<pc, jobData, buffers, xTracer>>
  BY DEF workerVars
<1>3. \A v \in Workers : v # w => toWorker'[v] = toWorker[v] /\ toPage'[v] = toPage[v]
  BY MemoryInitializedBoots
<1>4. ~ready[w] /\ Booting(w)
  BY MemoryInitializedBoots
<1>5. \A j \in Jobs : ~HasJob(w, j)
  BY <1>4, NoJob
<1>6. Booting(w)'
  BY MemoryInitializedBoots
<1>7. ASSUME NEW v \in Workers, NEW j \in Jobs
      PROVE  HasJob(v, j)' <=> HasJob(v, j)
  <2>1. CASE v = w
    BY <1>5, <1>6, <2>1, NoJobNext
  <2>2. CASE v # w
    BY <1>1, <1>2, <1>3, <2>2, OtherWorker
  <2>. QED  BY <2>1, <2>2
<1>8. Busy' = Busy /\ OneWorkerPerJob'
  BY <1>7, SameJobs DEF IInv
<1>9. Conversations'
  <2> SUFFICES ASSUME NEW v \in Workers
               PROVE  IF ready[v]
                        THEN /\ xTracer'[v]
                             /\ \/ Waiting(v)'
                                \/ \E k \in 1 .. Len(deferredQueue) : HasJob(v, k)'
                        ELSE Booting(v)'
    BY <1>1 DEF Conversations
  <2>1. CASE v = w
    BY <1>4, <1>6, <2>1
  <2>2. CASE v # w
    BY <1>2, <1>3, <1>7, <2>2, OtherPorts, DeferredAreJobs DEF IInv, Conversations
  <2>. QED  BY <2>1, <2>2
<1>. QED  BY <1>1, <1>8, <1>9 DEF IInv, Counters, Boundaries, QueuesKeepJobs

\* While a worker has yet to report, nobody has a job.
LEMMA InitializedBoots ==
    ASSUME TypeOK, IInv, NEW w \in Workers, OnInitialized(w)
    PROVE  /\ ~ready[w] /\ Booting(w) /\ numReady # CPU_available
           /\ deferredQueue = <<>> /\ iterations_completed = 0 /\ Busy = {} /\ numBusy = 0
           /\ \A v \in Workers : IF ready[v] THEN xTracer[v] /\ Waiting(v) ELSE Booting(v)
           /\ toWorker[w] = <<>> /\ toPage[w] = <<Initialized>> /\ toPage'[w] = <<>>
           /\ pc[w] = "listen" /\ xTracer[w]
<1>1. toPage[w] # <<>> /\ Head(toPage[w]).event = "INITIALIZED"
  BY DEF OnInitialized, Receive
<1>2. ~Waiting(w) /\ \A j \in Jobs : ~HasJob(w, j)
  BY <1>1 DEF Waiting, HasJob, HasPosted, IsTracingJob, HasReported, TraceCompleted
<1>3. ~ready[w] /\ Booting(w)
  BY <1>2, DeferredAreJobs DEF IInv, Conversations
<1>4. toWorker[w] = <<>> /\ toPage[w] = <<Initialized>> /\ pc[w] = "listen" /\ xTracer[w]
  BY <1>1, <1>3 DEF Booting, At, MemoryInitialized
<1>5. toPage'[w] = <<>>
  BY <1>4 DEF OnInitialized, Receive, TypeOK, SharedTypeOK
<1>6. IsFiniteSet({v \in Workers : ready[v]}) /\ Cardinality(Workers) = CPU_available
  BY BusyFinite, SharedAssumption, FS_Interval, FS_Subset DEF Workers
<1>7. numReady # CPU_available
  BY <1>3, <1>6, BusyFinite, FS_Subset DEF IInv, Counters
<1>8. deferredQueue = <<>> /\ iterations_completed = 0
  BY <1>7 DEF IInv, Boundaries
<1>9. \A v \in Workers : IF ready[v] THEN xTracer[v] /\ Waiting(v) ELSE Booting(v)
  BY <1>8 DEF IInv, Conversations
<1>10. Busy = {} /\ numBusy = 0
  BY <1>9, NoJob, BusyFinite DEF Busy, IInv, Counters
<1>. QED  BY <1>3, <1>4, <1>5, <1>7, <1>8, <1>9, <1>10

\* The last worker to become ready starts the first iteration.
LEMMA InitializedSafe ==
    ASSUME TypeOK, IInv, NEW w \in Workers, OnInitialized(w), UNCHANGED workerVars
    PROVE  IInv'
<1>1. UNCHANGED <<refJobs, iterations_completed>>
  BY DEF OnInitialized, start_trace, progressVars
<1>2. UNCHANGED <<pc, jobData, buffers, xTracer>>
  BY DEF workerVars
<1>3. \A v \in Workers : v # w => toPage'[v] = toPage[v] /\ ready'[v] = ready[v]
  BY DEF OnInitialized, Receive, TypeOK, SharedTypeOK, PageTypeOK
<1>4. ~ready[w]
  BY InitializedBoots
<1>5. toWorker[w] = <<>> /\ pc[w] = "listen" /\ xTracer[w]
  BY InitializedBoots
<1>6. toPage'[w] = <<>> /\ ready'[w] = TRUE
  BY InitializedBoots DEF OnInitialized, TypeOK, PageTypeOK
<1>7. /\ IsFiniteSet({v \in Workers : ready[v]})
      /\ Cardinality(Workers) = CPU_available
      /\ CPU_available \in Nat \ {0}
  BY BusyFinite, SharedAssumption, FS_Interval, FS_Subset DEF Workers
<1>8. deferredQueue = <<>> /\ iterations_completed = 0
  BY InitializedBoots
<1>9. \A v \in Workers : IF ready[v] THEN xTracer[v] /\ Waiting(v) ELSE Booting(v)
  BY InitializedBoots
<1>10. Busy = {} /\ numBusy = 0
  BY InitializedBoots
<1>11. numReady' = Cardinality({v \in Workers : ready'[v]})
  <2>1. {v \in Workers : ready'[v]} = {v \in Workers : ready[v]} \cup {w}
    BY <1>3, <1>6
  <2>2. w \notin {v \in Workers : ready[v]}
    BY <1>4
  <2>3. numReady' = numReady + 1
    BY DEF OnInitialized
  <2>. QED  BY <1>7, <2>1, <2>2, <2>3, FS_AddElement DEF IInv, Counters
<1>12. traceJobs \in Seq(Jobs) /\ deferredQueue \in Seq(Jobs)
  BY DEF TypeOK, PageTypeOK
<1>13. CASE numReady' = CPU_available /\ start_trace(1, 0)
  <2>1. {v \in Workers : ready'[v]} = Workers
    BY <1>7, <1>11, <1>13, BusyFinite, FS_Subset
  <2>2. \A v \in Workers : ready'[v]
    BY <2>1
  <2>3. \A v \in Workers : v # w => ready[v]
    BY <1>3, <2>2
  <2>4. \A v \in Workers : /\ toWorker[v] = <<>> /\ toPage'[v] = <<>>
                           /\ pc'[v] = "listen" /\ ready'[v] /\ xTracer'[v]
    BY <1>2, <1>3, <1>5, <1>6, <1>9, <2>2, <2>3 DEF Waiting, At
  <2>5. trace(traceJobs, deferredQueue, 0)
    BY <1>8, <1>10, <1>13 DEF start_trace
  <2>6. refJobs' \in [Jobs -> Nat]
    BY <1>1 DEF TypeOK, PageTypeOK
  <2>7. deferredQueue \o traceJobs = AllJobs
    BY DEF IInv, QueuesKeepJobs, AllJobs
  <2>8. /\ Conversations' /\ OneWorkerPerJob' /\ QueuesKeepJobs'
        /\ numBusy' = Cardinality(Busy')
        /\ numBusy' = 0 => traceJobs' = <<>>
    BY <1>12, <2>4, <2>5, <2>6, <2>7, JobsHandedOut
  <2>. QED  BY <1>11, <1>13, <2>8 DEF IInv, Counters, Boundaries
<1>14. CASE UNCHANGED <<refJobs, queueVars, requestVars, toWorker>>
  <2>1. UNCHANGED <<numBusy, traceJobs, deferredQueue, toWorker>>
    BY <1>14 DEF queueVars
  <2>2. \A v \in Workers : IF ready'[v] THEN xTracer'[v] /\ Waiting(v)' ELSE Booting(v)'
    <3> SUFFICES ASSUME NEW v \in Workers
                 PROVE  IF ready'[v] THEN xTracer'[v] /\ Waiting(v)' ELSE Booting(v)'
      OBVIOUS
    <3>1. CASE v = w
      BY <1>2, <1>5, <1>6, <2>1, <3>1 DEF Waiting, At
    <3>2. CASE v # w
      BY <1>2, <1>3, <1>9, <2>1, <3>2, OtherPorts
    <3>. QED  BY <3>1, <3>2
  <2>3. \A v \in Workers, j \in Jobs : ~HasJob(v, j)'
    BY <2>2, NoJobNext
  <2>4. Busy' = {} /\ OneWorkerPerJob' /\ Conversations'
    <3>1. Busy' = {} /\ OneWorkerPerJob'
      BY <2>3 DEF Busy, OneWorkerPerJob
    <3>. QED  BY <2>2, <3>1 DEF Conversations
  <2>5. numBusy' = Cardinality(Busy')
    BY <1>10, <2>1, <2>4, FS_EmptySet
  <2>. QED  BY <1>1, <1>8, <1>11, <2>1, <2>4, <2>5
            DEF IInv, Counters, Boundaries, QueuesKeepJobs
<1>. QED  BY <1>13, <1>14 DEF OnInitialized

\* Only a job that was posted in this iteration is reported.
LEMMA ReportHandled ==
    ASSUME TypeOK, IInv, NEW w \in Workers, OnTraceCompleted(w)
    PROVE  \E j \in 1 .. Len(deferredQueue) :
               /\ j \in Jobs /\ HasReported(w, j) /\ toWorker[w] = <<>>
               /\ toPage[w] = <<TraceCompleted(j)>> /\ toPage'[w] = <<>> /\ pc[w] = "listen"
               /\ refJobs' = [refJobs EXCEPT ![j] = @ + 1]
               /\ canvas' = [canvas EXCEPT ![j] = pixelMemory[j]]
<1>1. toPage[w] # <<>> /\ Head(toPage[w]).event = "TRACE_COMPLETED"
  BY DEF OnTraceCompleted, Receive
<1>2. ~Waiting(w) /\ ~Booting(w)
  BY <1>1 DEF Waiting, Booting, MemoryInitialized, Initialized
<1>3. PICK j \in 1 .. Len(deferredQueue) : HasJob(w, j)
  BY <1>2 DEF IInv, Conversations
<1>4. j \in Jobs
  BY <1>3, DeferredAreJobs DEF IInv
<1>5. HasReported(w, j)
  BY <1>1, <1>3 DEF HasJob, HasPosted, IsTracingJob, HasReported
<1>6. toWorker[w] = <<>> /\ toPage[w] = <<TraceCompleted(j)>> /\ pc[w] = "listen"
  BY <1>5 DEF HasReported, At
<1>7. toPage'[w] = <<>>
  BY <1>6 DEF OnTraceCompleted, Receive, TypeOK, SharedTypeOK
<1>8. /\ refJobs' = [refJobs EXCEPT ![j] = @ + 1]
      /\ canvas' = [canvas EXCEPT ![j] = pixelMemory[j]]
  <2>1. Head(toPage[w]) = TraceCompleted(j)
    BY <1>6
  <2>2. Head(toPage[w]).jobIndex = j
    BY <2>1 DEF TraceCompleted
  <2>. QED  BY <2>2 DEF OnTraceCompleted
<1>  WITNESS j \in 1 .. Len(deferredQueue)
<1>. QED  BY <1>4, <1>5, <1>6, <1>7, <1>8

\* numBusy counts the others, once a report is taken.
LEMMA BusyWithout ==
    ASSUME IInv, NEW w \in Busy
    PROVE  /\ numBusy - 1 = Cardinality(Busy \ {w})
           /\ numBusy - 1 = 0 => Busy = {w}
<1>1. numBusy = Cardinality(Busy) /\ Cardinality(Busy) \in Nat
  BY BusyFinite, FS_CardinalityType DEF IInv, Counters
<1>2. numBusy - 1 = Cardinality(Busy \ {w})
  BY <1>1, BusyFinite, FS_RemoveElement
<1>3. IsFiniteSet(Busy \ {w})
  BY BusyFinite, FS_Subset
<1>4. numBusy - 1 = 0 => Busy \ {w} = {}
  BY <1>2, <1>3, FS_EmptySet
<1>. QED  BY <1>2, <1>4

\* While a report is handled another worker keeps its job, if nothing is posted to it.
LEMMA OthersKeepJobs ==
    ASSUME TypeOK, IInv, NEW w \in Workers, OnTraceCompleted(w), UNCHANGED workerVars,
           NEW v \in Workers, v # w, toWorker'[v] = toWorker[v], NEW k \in Jobs
    PROVE  HasJob(v, k)' <=> HasJob(v, k)
<1>1. UNCHANGED <<ready, numReady, pc, jobData, buffers, xTracer>>
  BY DEF OnTraceCompleted, workerVars
<1>2. toPage'[v] = toPage[v]
  BY DEF OnTraceCompleted, Receive, TypeOK, SharedTypeOK
<1>3. PICK j \in 1 .. Len(deferredQueue) :
          j \in Jobs /\ HasReported(w, j) /\ refJobs' = [refJobs EXCEPT ![j] = @ + 1]
  BY ReportHandled
<1>4. j \in Jobs /\ HasJob(w, j)
  BY <1>3 DEF HasJob
<1>5. \A i \in Jobs : i # j => refJobs'[i] = refJobs[i]
  BY <1>3 DEF TypeOK, PageTypeOK
<1>6. numReady = CPU_available
  BY <1>3, EmptySeq DEF IInv, Boundaries
<1>7. CASE k # j
  BY <1>1, <1>2, <1>5, <1>7, OtherWorker
<1>8. CASE k = j
  <2>1. ~HasJob(v, j)
    BY <1>4 DEF IInv, OneWorkerPerJob
  <2>2. Waiting(v) => ~HasJob(v, j)'
    BY <1>1, <1>2, <1>4, OtherPorts, NoJobNext
  <2>3. ASSUME NEW i \in Jobs, HasJob(v, i) PROVE ~HasJob(v, j)'
    <3>1. i # j
      BY <2>1, <2>3
    <3>2. HasJob(v, i)'
      BY <1>1, <1>2, <1>5, <2>3, <3>1, OtherWorker
    <3>. QED  BY <1>4, <3>1, <3>2, JobUniqueNext
  <2>. QED  BY <1>6, <1>8, <2>1, <2>2, <2>3, AllReady DEF Busy
<1>. QED  BY <1>7, <1>8

\* A report is handled: its worker is free, every other worker keeps its job,
\* and the worker gets the next job or the iteration is over.
LEMMA TraceCompletedSafe ==
    ASSUME TypeOK, IInv, NEW w \in Workers, OnTraceCompleted(w), UNCHANGED workerVars
    PROVE  IInv'
<1>1. UNCHANGED <<ready, numReady, pc, jobData, buffers, xTracer>>
  BY DEF OnTraceCompleted, workerVars
<1>2. \A v \in Workers : v # w => toPage'[v] = toPage[v]
  BY DEF OnTraceCompleted, Receive, TypeOK, SharedTypeOK
<1>3. PICK j \in 1 .. Len(deferredQueue) :
               /\ j \in Jobs /\ HasReported(w, j) /\ toWorker[w] = <<>>
               /\ toPage[w] = <<TraceCompleted(j)>> /\ toPage'[w] = <<>> /\ pc[w] = "listen"
               /\ refJobs' = [refJobs EXCEPT ![j] = @ + 1]
               /\ canvas' = [canvas EXCEPT ![j] = pixelMemory[j]]
  BY ReportHandled
<1>4. j \in Jobs /\ HasJob(w, j)
  BY <1>3 DEF HasJob
<1>5. toWorker[w] = <<>> /\ pc[w] = "listen"
  BY <1>3
<1>6. toPage'[w] = <<>>
  BY <1>3
<1>7. /\ refJobs' \in [Jobs -> Nat]
      /\ \A k \in Jobs : k # j => refJobs'[k] = refJobs[k]
  BY <1>3 DEF TypeOK, PageTypeOK
<1>8. process_queue(w, numBusy - 1)
  BY DEF OnTraceCompleted
<1>9. /\ Len(deferredQueue) \in Nat /\ Len(traceJobs) \in Nat
      /\ Len(deferredQueue) + Len(traceJobs) = NumJobs
      /\ 1 .. Len(deferredQueue) \subseteq Jobs
      /\ \A i \in 1 .. Len(traceJobs) : traceJobs[i] = Len(deferredQueue) + i
      /\ traceJobs \in Seq(Jobs) /\ deferredQueue \in Seq(Jobs)
  BY DeferredAreJobs DEF IInv, TypeOK, PageTypeOK
<1>10. numReady = CPU_available
  BY <1>3, EmptySeq DEF IInv, Boundaries
<1>11. /\ \A v \in Workers : ready[v] /\ xTracer[v]
       /\ \A v \in Workers : v \notin Busy => Waiting(v)
  BY <1>10, AllReady
<1>12. w \in Busy /\ numBusy - 1 = Cardinality(Busy \ {w})
  <2>1. w \in Busy
    BY <1>4 DEF Busy
  <2>. QED  BY <2>1, BusyWithout
<1>13. ASSUME NEW v \in Workers, v # w, toWorker'[v] = toWorker[v], NEW k \in Jobs
       PROVE  HasJob(v, k)' <=> HasJob(v, k)
  BY <1>13, OthersKeepJobs
<1>14. CASE /\ traceJobs # <<>>
            /\ traceJobs' = Tail(traceJobs)
            /\ deferredQueue' = Append(deferredQueue, Head(traceJobs))
            /\ toWorker' = [toWorker EXCEPT ![w] =
                  Append(@, Trace(Head(traceJobs), refJobs'[Head(traceJobs)]))]
            /\ numBusy' = numBusy - 1 + 1
            /\ UNCHANGED progressVars
  <2>1. PICK h \in Jobs : /\ h = Len(deferredQueue) + 1
                          /\ Head(traceJobs) = h
                          /\ Len(traceJobs) > 0
    <3>1. Len(traceJobs) > 0
      BY <1>9, <1>14, EmptySeq
    <3>2. Head(traceJobs) = traceJobs[1]
      BY <1>9, <1>14
    <3>3. Len(deferredQueue) + 1 \in Jobs /\ traceJobs[1] = Len(deferredQueue) + 1
      BY <1>9, <3>1, SharedAssumption DEF Jobs
    <3>. QED  BY <3>1, <3>2, <3>3
  <2>2. toWorker'[w] = <<Trace(h, refJobs'[h])>>
    BY <1>5, <1>14, <2>1 DEF TypeOK, SharedTypeOK
  <2>3. HasJob(w, h)'
    BY <1>1, <1>5, <1>6, <2>2 DEF HasJob, HasPosted, At
  <2>4. Len(deferredQueue') = h
    BY <1>9, <1>14, <2>1, AppendProperties
  <2>5. ASSUME NEW v \in Workers, v # w, NEW k \in Jobs
        PROVE  HasJob(v, k)' <=> HasJob(v, k)
    BY <1>13, <1>14, <2>5 DEF TypeOK, SharedTypeOK
  <2>6. ASSUME NEW v \in Workers, NEW k \in Jobs, HasJob(v, k)
        PROVE  k \in 1 .. Len(deferredQueue)
    BY <1>9, <1>11, <2>6, NoJob, JobUnique DEF IInv, Conversations
  <2>7. Busy' = Busy
    BY <1>12, <2>1, <2>3, <2>5 DEF Busy
  <2>8. OneWorkerPerJob'
    <3> SUFFICES ASSUME NEW u \in Workers, NEW v \in Workers, NEW k \in Jobs,
                        HasJob(u, k)', HasJob(v, k)'
                 PROVE  u = v
      BY DEF OneWorkerPerJob
    <3>1. CASE u # w /\ v # w
      BY <2>5, <3>1 DEF IInv, OneWorkerPerJob
    <3>2. CASE u = w
      <4>1. k = h
        BY <2>1, <2>3, <3>2, JobUniqueNext
      <4>2. v # w => k \in 1 .. Len(deferredQueue)
        BY <2>5, <2>6
      <4>. QED  BY <1>9, <2>1, <3>2, <4>1, <4>2
    <3>3. CASE v = w
      <4>1. k = h
        BY <2>1, <2>3, <3>3, JobUniqueNext
      <4>2. u # w => k \in 1 .. Len(deferredQueue)
        BY <2>5, <2>6
      <4>. QED  BY <1>9, <2>1, <3>3, <4>1, <4>2
    <3>. QED  BY <3>1, <3>2, <3>3
  <2>9. Conversations'
    <3> SUFFICES ASSUME NEW v \in Workers
                 PROVE  /\ xTracer'[v]
                        /\ \/ Waiting(v)'
                           \/ \E k \in 1 .. Len(deferredQueue') : HasJob(v, k)'
      BY <1>1, <1>11 DEF Conversations
    <3>1. CASE v = w
      BY <1>1, <1>9, <1>11, <2>1, <2>3, <2>4, <3>1
    <3>2. CASE v # w
      <4>1. Waiting(v)' <=> Waiting(v)
        BY <1>1, <1>2, <1>14, <3>2, OtherPorts DEF TypeOK, SharedTypeOK
      <4>2. ASSUME NEW k \in 1 .. Len(deferredQueue), HasJob(v, k)
            PROVE  k \in 1 .. Len(deferredQueue') /\ HasJob(v, k)'
        BY <1>9, <2>1, <2>4, <2>5, <3>2, <4>2
      <4>. QED  BY <1>1, <1>11, <4>1, <4>2 DEF IInv, Conversations
    <3>. QED  BY <3>1, <3>2
  <2>10. QueuesKeepJobs'
    <3>1. /\ deferredQueue' \in Seq(Jobs) /\ traceJobs' \in Seq(Jobs)
          /\ Len(traceJobs') = Len(traceJobs) - 1
          /\ \A i \in 1 .. Len(traceJobs') : traceJobs'[i] = traceJobs[i + 1]
      BY <1>9, <1>14, <2>1, HeadTailProperties, AppendProperties
    <3>2. \A i \in 1 .. Len(deferredQueue') : deferredQueue'[i] = i
      <4>1. \A i \in 1 .. Len(deferredQueue) : deferredQueue[i] = i
        BY <1>9, QueuesSplit DEF IInv, QueuesKeepJobs, AllJobs
      <4>2. /\ deferredQueue'[Len(deferredQueue) + 1] = h
            /\ \A i \in 1 .. Len(deferredQueue) : deferredQueue'[i] = deferredQueue[i]
        BY <1>9, <1>14, <2>1, AppendProperties
      <4>. QED  BY <1>9, <2>1, <2>4, <4>1, <4>2
    <3>3. \A i \in 1 .. Len(traceJobs') : traceJobs'[i] = Len(deferredQueue') + i
      BY <1>9, <2>1, <2>4, <3>1
    <3>4. Len(deferredQueue') + Len(traceJobs') = NumJobs
      BY <1>9, <2>1, <2>4, <3>1
    <3>. QED  BY <3>1, <3>2, <3>3, <3>4, QueuesSplit DEF QueuesKeepJobs, AllJobs
  <2>11. numBusy' = Cardinality(Busy') /\ numBusy' # 0
    <3>1. numBusy' = numBusy /\ numBusy = Cardinality(Busy)
      BY <1>14 DEF IInv, Counters, TypeOK, PageTypeOK
    <3>. QED  BY <1>12, <2>7, <3>1, BusyFinite
  <2>. QED  BY <1>1, <1>10, <2>8, <2>9, <2>10, <2>11 DEF IInv, Counters, Boundaries
<1>15. CASE traceJobs = <<>> /\ numBusy - 1 = 0 /\ iteration_completed(0)
  <2>1. Busy = {w}
    BY <1>12, <1>15, BusyWithout
  <2>2. \A v \in Workers : v # w => Waiting(v)
    BY <1>11, <2>1
  <2>3. \A v \in Workers : /\ toWorker[v] = <<>> /\ toPage'[v] = <<>>
                           /\ pc'[v] = "listen" /\ ready'[v] /\ xTracer'[v]
    BY <1>1, <1>2, <1>5, <1>6, <1>11, <2>2 DEF Waiting, At
  <2>4. deferredQueue = AllJobs
    BY <1>9, <1>15, ConcatEmptySeq DEF IInv, QueuesKeepJobs, AllJobs
  <2>5. CASE next_iteration(0)
    <3>1. <<>> \in Seq(Jobs) /\ <<>> \o deferredQueue = AllJobs
      BY <1>9, <2>4, ConcatEmptySeq, EmptySeq
    <3>2. /\ Conversations' /\ OneWorkerPerJob' /\ QueuesKeepJobs'
          /\ numBusy' = Cardinality(Busy')
          /\ numBusy' = 0 => traceJobs' = <<>>
      BY <1>7, <1>9, <2>3, <2>5, <3>1, JobsHandedOut DEF next_iteration
    <3>. QED  BY <1>1, <1>10, <3>2 DEF IInv, Counters, Boundaries
  <2>6. CASE numBusy' = 0 /\ UNCHANGED <<traceJobs, deferredQueue, toWorker>>
    <3>1. \A v \in Workers : Waiting(v)'
      BY <2>3, <2>6 DEF Waiting, At
    <3>2. Conversations'
      BY <2>3, <3>1 DEF Conversations
    <3>3. \A v \in Workers, k \in Jobs : ~HasJob(v, k)'
      BY <3>1, NoJobNext
    <3>4. Busy' = {} /\ OneWorkerPerJob'
      BY <3>3 DEF Busy, OneWorkerPerJob
    <3>. QED  BY <1>1, <1>10, <1>15, <2>6, <3>2, <3>4, FS_EmptySet
              DEF IInv, Counters, Boundaries, QueuesKeepJobs
  <2>. QED  BY <1>15, <2>5, <2>6 DEF iteration_completed
<1>16. CASE /\ traceJobs = <<>> /\ numBusy - 1 # 0 /\ numBusy' = numBusy - 1
            /\ UNCHANGED <<traceJobs, deferredQueue, toWorker, progressVars>>
  <2>1. Waiting(w)'
    BY <1>1, <1>5, <1>6, <1>16 DEF Waiting, At
  <2>2. ASSUME NEW v \in Workers, v # w, NEW k \in Jobs
        PROVE  HasJob(v, k)' <=> HasJob(v, k)
    BY <1>13, <1>16, <2>2
  <2>3. \A k \in Jobs : ~HasJob(w, k)'
    BY <2>1, NoJobNext
  <2>4. Busy' = Busy \ {w}
    BY <2>2, <2>3 DEF Busy
  <2>5. OneWorkerPerJob'
    BY <2>2, <2>3 DEF IInv, OneWorkerPerJob
  <2>6. Conversations'
    <3> SUFFICES ASSUME NEW v \in Workers
                 PROVE  /\ xTracer'[v]
                        /\ \/ Waiting(v)'
                           \/ \E k \in 1 .. Len(deferredQueue) : HasJob(v, k)'
      BY <1>1, <1>11, <1>16 DEF Conversations
    <3>1. CASE v = w
      BY <1>1, <1>11, <2>1, <3>1
    <3>2. CASE v # w
      BY <1>1, <1>2, <1>9, <1>11, <1>16, <2>2, <3>2, OtherPorts DEF IInv, Conversations
    <3>. QED  BY <3>1, <3>2
  <2>. QED  BY <1>1, <1>10, <1>12, <1>16, <2>4, <2>5, <2>6
            DEF IInv, Counters, Boundaries, QueuesKeepJobs
<1>. QED  BY <1>8, <1>14, <1>15, <1>16 DEF process_queue

\* A step that leaves ports, workers and queues alone.
LEMMA QuietSafe ==
    ASSUME TypeOK, IInv,
           UNCHANGED <<ready, numReady, numBusy, refJobs, traceJobs, deferredQueue,
                       toWorker, toPage, workerVars>>,
           iterations_completed' \in {0, iterations_completed}
    PROVE  IInv'
<1>1. UNCHANGED <<pc, jobData, buffers, xTracer>>
  BY DEF workerVars
<1>2. \A v \in Workers, j \in Jobs : HasJob(v, j)' <=> HasJob(v, j)
  BY <1>1, OtherWorker
<1>3. \A v \in Workers : (Waiting(v)' <=> Waiting(v)) /\ (Booting(v)' <=> Booting(v))
  BY <1>1, OtherPorts
<1>4. Busy' = Busy /\ OneWorkerPerJob'
  BY <1>2, SameJobs DEF IInv
<1>5. Conversations'
  BY <1>1, <1>2, <1>3, DeferredAreJobs DEF IInv, Conversations
<1>. QED  BY <1>4, <1>5 DEF IInv, Counters, Boundaries, QueuesKeepJobs

\* Between iterations every worker waits for a job.
LEMMA IdleWaits ==
    ASSUME TypeOK, IInv, ~StartWhileBusy, CallStart
    PROVE  /\ numReady = CPU_available /\ numBusy = 0 /\ Busy = {}
           /\ \A v \in Workers : ready[v] /\ xTracer[v] /\ Waiting(v)
<1>1. numReady = CPU_available /\ numBusy = 0
  BY DEF CallStart, Call
<1>2. Busy = {}
  BY <1>1, BusyFinite DEF IInv, Counters
<1>. QED  BY <1>1, <1>2, AllReady

\* start_trace between iterations: every worker waits, and the jobs it finds in
\* the queues are all of them, in order.
LEMMA StartSafe ==
    ASSUME TypeOK, IInv, ~StartWhileBusy, CallStart
    PROVE  IInv'
<1>1. numReady = CPU_available /\ numBusy = 0 /\ UNCHANGED workerVars
  BY DEF CallStart, Call
<1>2. PICK n \in Iterations, t \in Times : StartTrace(n, t)
  BY DEF CallStart
<1>3. /\ UNCHANGED <<ready, numReady, refJobs, iterations_completed, toPage>>
      /\ UNCHANGED <<pc, xTracer>>
  BY <1>1, <1>2 DEF StartTrace, start_trace, progressVars, workerVars
<1>4. \A v \in Workers : ready[v] /\ xTracer[v] /\ Waiting(v)
  BY IdleWaits
<1>5. \A v \in Workers : /\ toWorker[v] = <<>> /\ toPage'[v] = <<>>
                         /\ pc'[v] = "listen" /\ ready'[v] /\ xTracer'[v]
  BY <1>3, <1>4 DEF Waiting, At
<1>6. /\ traceJobs \in Seq(Jobs) /\ deferredQueue \in Seq(Jobs) /\ <<>> \in Seq(Jobs)
      /\ refJobs' \in [Jobs -> Nat]
  BY <1>3 DEF TypeOK, PageTypeOK
<1>7. deferredQueue \o traceJobs = AllJobs
  BY DEF IInv, QueuesKeepJobs, AllJobs
<1>8. /\ Conversations' /\ OneWorkerPerJob' /\ QueuesKeepJobs'
      /\ numBusy' = Cardinality(Busy')
      /\ numBusy' = 0 => traceJobs' = <<>>
  <2>1. CASE iterations_completed > 0
    <3>1. traceJobs = <<>>
      BY <1>1, <2>1 DEF IInv, Boundaries
    <3>2. <<>> \o deferredQueue = AllJobs
      BY <1>6, <1>7, <3>1, ConcatEmptySeq
    <3>3. trace(deferredQueue, <<>>, 0)
      BY <1>1, <1>2, <2>1 DEF StartTrace, start_trace, next_iteration
    <3>. QED  BY <1>5, <1>6, <3>2, <3>3, JobsHandedOut
  <2>2. CASE ~(iterations_completed > 0)
    <3>1. trace(traceJobs, deferredQueue, 0)
      BY <1>1, <1>2, <2>2 DEF StartTrace, start_trace
    <3>. QED  BY <1>5, <1>6, <1>7, <3>1, JobsHandedOut
  <2>. QED  BY <2>1, <2>2
<1>. QED  BY <1>1, <1>3, <1>8 DEF IInv, Counters, Boundaries

LEMMA InitSafe == Init => IInv
<1> SUFFICES ASSUME Init PROVE IInv
  OBVIOUS
<1>1. \A w \in Workers : ready[w] = FALSE /\ Booting(w)
  BY DEF Init, PageInit, SharedInit, WorkerInit, Booting
<1>2. \A w \in Workers, j \in Jobs : ~HasJob(w, j)
  BY <1>1, NoJob
<1>3. Busy = {} /\ {w \in Workers : ready[w]} = {}
  BY <1>1, <1>2 DEF Busy
<1>4. Counters
  BY <1>3, FS_EmptySet DEF Counters, Init, PageInit
<1>5. QueuesKeepJobs
  <2>1. deferredQueue = <<>> /\ traceJobs = AllJobs
    BY DEF Init, PageInit, AllJobs
  <2>. QED  BY <2>1, AllJobsSeq, ConcatEmptySeq DEF QueuesKeepJobs, AllJobs
<1>6. Boundaries
  BY DEF Boundaries, Init, PageInit
<1>. QED  BY <1>1, <1>2, <1>4, <1>5, <1>6 DEF IInv, Conversations, OneWorkerPerJob

\* While start_trace is only called between iterations, IInv holds: workers and
\* page agree on who has which job, and the queues lose and repeat none.
THEOREM IInvInvariant == ASSUME ~StartWhileBusy PROVE Spec => []IInv
<1>1. Init => IInv
  BY InitSafe
<1>2. TypeOK /\ IInv /\ [Next]_vars => IInv'
  <2> SUFFICES ASSUME TypeOK, IInv, [Next]_vars PROVE IInv'
    OBVIOUS
  <2>1. ASSUME NEW w \in Workers, Page(w) PROVE IInv'
    BY <2>1, MemoryInitializedSafe, InitializedSafe, TraceCompletedSafe
       DEF Page, OnTracerMessage
  <2>2. ASSUME NEW w \in Workers, Worker(w) PROVE IInv'
    BY <2>2, WorkerSafe
  <2>3. CASE CallStart
    BY <2>3, StartSafe
  <2>4. CASE CallStop
    BY <2>4, QuietSafe DEF CallStop, Call, StopTrace, queueVars, progressVars
  <2>5. CASE CallReset
    BY <2>5, QuietSafe DEF CallReset, Call, ResetTrace, queueVars, sharedVars
  <2>6. CASE UNCHANGED vars
    BY <2>6, QuietSafe DEF vars, pageVars, queueVars, progressVars, sharedVars
  <2>. QED  BY <2>1, <2>2, <2>3, <2>4, <2>5, <2>6 DEF Next
<1>. QED  BY <1>1, <1>2, TypeCorrect, PTL DEF Spec

\* No iteration skips or repeats a bucket.
THEOREM QueuesKeepJobsInvariant == ASSUME ~StartWhileBusy PROVE Spec => []QueuesKeepJobs
<1>1. IInv => QueuesKeepJobs
  BY DEF IInv
<1>. QED  BY <1>1, IInvInvariant, PTL

-----------------------------------------------------------------------------
(***************************************************************************)
(* What IInv says about the jobs in flight.                                *)
(***************************************************************************)
LEMMA NothingInFlight ==
    ASSUME NEW w \in Workers, Booting(w) \/ Waiting(w)
    PROVE  InFlight(w) = 0 /\ JobsInFlight(w) = {}
<1>1. Posted(w) = {} /\ Reported(w) = {}
  BY DEF Posted, Reported, Booting, Waiting, InitMemory, InitTracer,
         MemoryInitialized, Initialized
<1>2. ~IsTracing(w)
  BY DEF IsTracing, Tracing, Labels, Booting, Waiting, At
<1>. QED  BY <1>1, <1>2, FS_EmptySet DEF InFlight, JobsInFlight

LEMMA OneInFlight ==
    ASSUME NEW w \in Workers, NEW j \in Jobs, HasJob(w, j)
    PROVE  InFlight(w) = 1 /\ JobsInFlight(w) = {j}
<1>1. CASE HasPosted(w, j)
  <2>1. Posted(w) = {1} /\ Reported(w) = {} /\ ~IsTracing(w)
    BY <1>1 DEF Posted, Reported, HasPosted, Trace, IsTracing, Tracing, Labels, At
  <2>2. toWorker[w][1].job.index = j
    BY <1>1 DEF HasPosted, Trace
  <2>. QED  BY <2>1, <2>2, FS_EmptySet, FS_Singleton DEF InFlight, JobsInFlight
<1>2. CASE IsTracingJob(w, j)
  <2>1. Posted(w) = {} /\ Reported(w) = {} /\ IsTracing(w)
    BY <1>2 DEF Posted, Reported, IsTracingJob
  <2>2. jobData[w].index = j
    BY <1>2 DEF IsTracingJob
  <2>. QED  BY <2>1, <2>2, FS_EmptySet DEF InFlight, JobsInFlight
<1>3. CASE HasReported(w, j)
  <2>1. Posted(w) = {} /\ Reported(w) = {1} /\ ~IsTracing(w)
    BY <1>3 DEF Posted, Reported, HasReported, TraceCompleted, IsTracing, Tracing,
                Labels, At
  <2>2. toPage[w][1].jobIndex = j
    BY <1>3 DEF HasReported, TraceCompleted
  <2>. QED  BY <2>1, <2>2, FS_EmptySet, FS_Singleton DEF InFlight, JobsInFlight
<1>. QED  BY <1>1, <1>2, <1>3 DEF HasJob

LEMMA WorkerCases ==
    ASSUME TypeOK, IInv, NEW w \in Workers
    PROVE  \/ Booting(w) \/ Waiting(w)
           \/ \E j \in Jobs : HasJob(w, j)
BY DeferredAreJobs DEF IInv, Conversations

\* A bucket is never with two workers, nor twice with one: the workers' plain
\* loads and stores of sampleMemory and pixelMemory do not race.
THEOREM BucketsExclusiveInvariant ==
    ASSUME ~StartWhileBusy PROVE Spec => []BucketsExclusive
<1>1. TypeOK /\ IInv => BucketsExclusive
  <2> SUFFICES ASSUME TypeOK, IInv PROVE BucketsExclusive
    OBVIOUS
  <2>1. ASSUME NEW w \in Workers PROVE InFlight(w) <= 1
    BY WorkerCases, NothingInFlight, OneInFlight
  <2>2. ASSUME NEW v \in Workers, NEW w \in Workers, v # w
        PROVE  JobsInFlight(v) \cap JobsInFlight(w) = {}
    <3>1. CASE \E i \in Jobs : HasJob(v, i)
      <4>1. PICK i \in Jobs : HasJob(v, i)
        BY <3>1
      <4>2. JobsInFlight(v) = {i}
        BY <4>1, OneInFlight
      <4>3. CASE \E j \in Jobs : HasJob(w, j)
        <5>1. PICK j \in Jobs : HasJob(w, j)
          BY <4>3
        <5>2. JobsInFlight(w) = {j}
          BY <5>1, OneInFlight
        <5>3. i # j
          BY <2>2, <4>1, <5>1 DEF IInv, OneWorkerPerJob
        <5>. QED  BY <4>2, <5>2, <5>3
      <4>4. CASE Booting(w) \/ Waiting(w)
        BY <4>4, NothingInFlight
      <4>. QED  BY <4>3, <4>4, WorkerCases
    <3>2. CASE Booting(v) \/ Waiting(v)
      BY <3>2, NothingInFlight
    <3>. QED  BY <3>1, <3>2, WorkerCases
  <2>. QED  BY <2>1, <2>2 DEF BucketsExclusive
<1>. QED  BY <1>1, TypeCorrect, IInvInvariant, PTL

\* numBusy is the number of workers that have a job, so an iteration is over
\* exactly when the last of them has reported.
THEOREM BusyCountsWorkersInvariant ==
    ASSUME ~StartWhileBusy PROVE Spec => []BusyCountsWorkers
<1>1. TypeOK /\ IInv => BusyCountsWorkers
  <2> SUFFICES ASSUME TypeOK, IInv PROVE BusyCountsWorkers
    OBVIOUS
  <2>1. ASSUME NEW w \in Workers
        PROVE  JobsInFlight(w) # {} <=> \E j \in Jobs : HasJob(w, j)
    <3>1. CASE \E j \in Jobs : HasJob(w, j)
      BY <3>1, OneInFlight
    <3>2. CASE Booting(w) \/ Waiting(w)
      BY <3>2, NothingInFlight, NoJob
    <3>. QED  BY <3>1, <3>2, WorkerCases
  <2>2. {w \in Workers : JobsInFlight(w) # {}} = Busy
    BY <2>1 DEF Busy
  <2>. QED  BY <2>2 DEF IInv, Counters, BusyCountsWorkers
<1>. QED  BY <1>1, TypeCorrect, IInvInvariant, PTL

-----------------------------------------------------------------------------
(***************************************************************************)
(* Whenever start_trace is called, IInv or not.                            *)
(***************************************************************************)
OnlyJobs(w) ==
    /\ \A i \in DOMAIN toWorker[w] : toWorker[w][i].command = "TRACE"
    /\ \A i \in DOMAIN toPage[w] : toPage[w][i].event = "TRACE_COMPLETED"

\* A worker boots, then it only gets jobs and reports them; and none before all have booted.
HandshakeInv ==
    /\ \A w \in Workers : IF ready[w] THEN xTracer[w] /\ OnlyJobs(w) ELSE Booting(w)
    /\ numReady = Cardinality({w \in Workers : ready[w]})
    /\ numReady # CPU_available => \A w \in Workers : ready[w] => Waiting(w)

\* Nothing but jobs is posted to worker v.
PostsJobs(v) ==
    toWorker'[v] = toWorker[v] \/ \E j, n : toWorker'[v] = Append(toWorker[v], Trace(j, n))

LEMMA WaitingOnlyJobs ==
    ASSUME NEW w \in Workers, Waiting(w) PROVE OnlyJobs(w)
BY DEF Waiting, OnlyJobs

LEMMA OnlyJobsTaken ==
    ASSUME TypeOK, NEW w \in Workers, OnlyJobs(w), PostsJobs(w),
           toPage'[w] = toPage[w] \/ (toPage[w] # <<>> /\ toPage'[w] = Tail(toPage[w]))
    PROVE  OnlyJobs(w)'
<1>1. toWorker[w] \in Seq(PageMessages) /\ toPage[w] \in Seq(WorkerMessages)
  BY DEF TypeOK, SharedTypeOK
<1>2. \A i \in DOMAIN toWorker'[w] : toWorker'[w][i].command = "TRACE"
  <2>1. CASE toWorker'[w] = toWorker[w]
    BY <2>1 DEF OnlyJobs
  <2>2. ASSUME NEW j, NEW n, toWorker'[w] = Append(toWorker[w], Trace(j, n))
        PROVE  \A i \in DOMAIN toWorker'[w] : toWorker'[w][i].command = "TRACE"
    BY <1>1, <2>2 DEF OnlyJobs, Trace
  <2>. QED  BY <2>1, <2>2 DEF PostsJobs
<1>3. \A i \in DOMAIN toPage'[w] : toPage'[w][i].event = "TRACE_COMPLETED"
  <2>1. CASE toPage'[w] = toPage[w]
    BY <2>1 DEF OnlyJobs
  <2>2. CASE toPage[w] # <<>> /\ toPage'[w] = Tail(toPage[w])
    BY <1>1, <2>2, HeadTailProperties DEF OnlyJobs
  <2>. QED  BY <2>1, <2>2
<1>. QED  BY <1>2, <1>3 DEF OnlyJobs

LEMMA WorkerOnlyJobs ==
    ASSUME TypeOK, NEW w \in Workers, OnlyJobs(w), xTracer[w], WorkerStep(w)
    PROVE  OnlyJobs(w)' /\ xTracer'[w]
<1>1. toWorker[w] \in Seq(PageMessages) /\ toPage[w] \in Seq(WorkerMessages)
  BY DEF TypeOK, SharedTypeOK
<1>2. ~HandleInitMemory(w) /\ ~HandleInit(w)
  <2>1. toWorker[w] # <<>> => Head(toWorker[w]).command = "TRACE"
    BY <1>1, EmptySeq DEF OnlyJobs
  <2>. QED  BY <2>1 DEF HandleInitMemory, HandleInit, Take
<1>3. CASE HandleTrace(w)
  <2>1. /\ toWorker[w] # <<>> /\ toWorker'[w] = Tail(toWorker[w]) /\ toPage' = toPage
        /\ xTracer' = xTracer
    BY <1>3 DEF HandleTrace, Take, TypeOK, SharedTypeOK
  <2>. QED  BY <1>1, <2>1, HeadTailProperties DEF OnlyJobs
<1>4. CASE Reply(w)
  <2>1. /\ toWorker' = toWorker /\ toPage'[w] = Append(toPage[w], TraceCompleted(jobData[w].index))
        /\ xTracer' = xTracer
    BY <1>4 DEF Reply, Post, TypeOK, SharedTypeOK
  <2>. QED  BY <1>1, <2>1 DEF OnlyJobs, TraceCompleted
<1>5. CASE Boot(w) \/ TracerStep(w)
  BY <1>5, TracerStepKeeps DEF Boot, sharedVars, OnlyJobs
<1>. QED  BY <1>2, <1>3, <1>4, <1>5 DEF WorkerStep, TracerStep

\* trace and what calls it post jobs and nothing else.
LEMMA TracePosts ==
    ASSUME TypeOK, NEW next, NEW posted, NEW busy, trace(next, posted, busy), NEW v \in Workers
    PROVE  PostsJobs(v)
BY DEF trace, PostsJobs, TypeOK, SharedTypeOK

LEMMA QueuePosts ==
    ASSUME TypeOK, NEW w \in Workers, NEW busy, process_queue(w, busy), NEW v \in Workers
    PROVE  PostsJobs(v)
<1>1. CASE toWorker' = [toWorker EXCEPT ![w] =
                           Append(@, Trace(Head(traceJobs), refJobs'[Head(traceJobs)]))]
  BY <1>1 DEF PostsJobs, TypeOK, SharedTypeOK
<1>2. CASE iteration_completed(busy)
  BY <1>2, TracePosts DEF iteration_completed, next_iteration, PostsJobs
<1>3. CASE UNCHANGED toWorker
  BY <1>3 DEF PostsJobs
<1>. QED  BY <1>1, <1>2, <1>3 DEF process_queue

LEMMA StartPosts ==
    ASSUME TypeOK, NEW n, NEW time, start_trace(n, time), NEW v \in Workers
    PROVE  PostsJobs(v)
BY TracePosts DEF start_trace, next_iteration

\* Once numReady is complete every worker is ready.
LEMMA CountedReady ==
    ASSUME HandshakeInv, numReady = CPU_available
    PROVE  \A w \in Workers : ready[w]
<1>1. IsFiniteSet(Workers) /\ Cardinality(Workers) = CPU_available
  BY BusyFinite, SharedAssumption, FS_Interval DEF Workers
<1>2. {w \in Workers : ready[w]} = Workers
  BY <1>1, FS_Subset DEF HandshakeInv
<1>. QED  BY <1>2

LEMMA WorkerHandshake ==
    ASSUME TypeOK, HandshakeInv, NEW w \in Workers, Worker(w)
    PROVE  HandshakeInv'
<1>1. WorkerStep(w) /\ UNCHANGED <<ready, numReady>>
  BY DEF Worker, pageVars
<1>2. ASSUME NEW v \in Workers, v # w
      PROVE  /\ xTracer'[v] = xTracer[v] /\ OnlyJobs(v)' = OnlyJobs(v)
             /\ Booting(v)' = Booting(v) /\ Waiting(v)' = Waiting(v)
  BY <1>1, <1>2, WorkerTouches DEF OnlyJobs, Booting, Waiting, At
<1>3. IF ready[w] THEN xTracer'[w] /\ OnlyJobs(w)' ELSE Booting(w)'
  BY <1>1, WorkerOnlyJobs, WorkerBoots DEF HandshakeInv
<1>4. numReady # CPU_available => ~ready[w]
  BY <1>1, WaitingRests DEF HandshakeInv
<1>. QED  BY <1>1, <1>2, <1>3, <1>4 DEF HandshakeInv

LEMMA PageHandshake ==
    ASSUME TypeOK, HandshakeInv, NEW w \in Workers, Page(w)
    PROVE  HandshakeInv'
<1>1. UNCHANGED <<pc, buffers, xTracer>>
  BY DEF Page, workerVars
<1>2. CASE OnMemoryInitialized(w)
  <2>1. toPage[w] # <<>> /\ Head(toPage[w]).event = "MEMORY_INITIALIZED"
    BY <1>2 DEF OnMemoryInitialized, Receive
  <2>2. ~OnlyJobs(w) /\ ~Waiting(w)
    BY <2>1, EmptySeq DEF OnlyJobs, Waiting, TypeOK, SharedTypeOK
  <2>3. ~ready[w] /\ Booting(w)
    BY <2>2 DEF HandshakeInv
  <2>4. UNCHANGED <<ready, numReady>>
    BY <1>2 DEF OnMemoryInitialized, pageVars
  <2>5. ASSUME NEW v \in Workers, v # w
        PROVE  /\ OnlyJobs(v)' = OnlyJobs(v)
               /\ Booting(v)' = Booting(v) /\ Waiting(v)' = Waiting(v)
    BY <1>1, <1>2, <2>5 DEF OnMemoryInitialized, Receive, OnlyJobs, Booting, Waiting, At,
                            TypeOK, SharedTypeOK
  <2>6. Booting(w)'
    BY <1>1, <1>2, <2>3, MemoryBoots DEF Page
  <2>. QED  BY <1>1, <2>3, <2>4, <2>5, <2>6 DEF HandshakeInv
<1>3. CASE OnInitialized(w)
  <2>1. toPage[w] # <<>> /\ Head(toPage[w]).event = "INITIALIZED"
    BY <1>3 DEF OnInitialized, Receive
  <2>2. ~OnlyJobs(w)
    BY <2>1, EmptySeq DEF OnlyJobs, TypeOK, SharedTypeOK
  <2>3. ~ready[w] /\ Booting(w)
    BY <2>2 DEF HandshakeInv
  <2>4. toWorker[w] = <<>> /\ toPage[w] = <<Initialized>> /\ pc[w] = "listen" /\ xTracer[w]
    BY <2>1, <2>3 DEF Booting, At, MemoryInitialized
  <2>5. /\ toPage'[w] = <<>> /\ ready' = [ready EXCEPT ![w] = TRUE] /\ numReady' = numReady + 1
        /\ \A v \in Workers \ {w} : toPage'[v] = toPage[v] /\ ready'[v] = ready[v]
    BY <1>3, <2>4 DEF OnInitialized, Receive, TypeOK, SharedTypeOK, PageTypeOK
  <2>6. numReady # CPU_available
    BY <2>3, CountedReady
  <2>7. \A v \in Workers : ready[v] => Waiting(v)
    BY <2>6 DEF HandshakeInv
  <2>8. numReady' = Cardinality({v \in Workers : ready'[v]})
    <3>1. {v \in Workers : ready'[v]} = {v \in Workers : ready[v]} \cup {w}
      BY <2>3, <2>5 DEF TypeOK, PageTypeOK
    <3>2. IsFiniteSet({v \in Workers : ready[v]}) /\ w \notin {v \in Workers : ready[v]}
      BY <2>3, BusyFinite, FS_Subset
    <3>. QED  BY <2>5, <3>1, <3>2, FS_AddElement DEF HandshakeInv
  <2>9. CASE numReady' = CPU_available /\ start_trace(1, 0)
    <3>1. \A v \in Workers : ready'[v]
      <4>1. IsFiniteSet(Workers) /\ Cardinality(Workers) = CPU_available
        BY BusyFinite, SharedAssumption, FS_Interval DEF Workers
      <4>2. {v \in Workers : ready'[v]} = Workers
        BY <2>8, <2>9, <4>1, FS_Subset
      <4>. QED  BY <4>2
    <3>2. ASSUME NEW v \in Workers PROVE xTracer'[v] /\ OnlyJobs(v)'
      <4>1. PostsJobs(v)
        BY <2>9, StartPosts
      <4>2. CASE v = w
        <5>1. toWorker'[w] = <<>> \/ \E j, n : toWorker'[w] = Append(<<>>, Trace(j, n))
          BY <2>4, <4>1, <4>2 DEF PostsJobs
        <5>2. CASE toWorker'[w] = <<>>
          BY <1>1, <2>4, <2>5, <4>2, <5>2 DEF OnlyJobs
        <5>3. ASSUME NEW j, NEW n, toWorker'[w] = Append(<<>>, Trace(j, n))
              PROVE  OnlyJobs(w)'
          <6>1. Append(<<>>, Trace(j, n)) = <<Trace(j, n)>> /\ Trace(j, n).command = "TRACE"
            BY DEF Trace
          <6>2. DOMAIN toWorker'[w] = {1} /\ toWorker'[w][1].command = "TRACE"
            BY <5>3, <6>1
          <6>. QED  BY <2>5, <6>2 DEF OnlyJobs
        <5>. QED  BY <1>1, <2>4, <4>2, <5>1, <5>2, <5>3
      <4>3. CASE v # w
        <5>1. ready[v] /\ toPage'[v] = toPage[v]
          BY <2>5, <3>1, <4>3
        <5>2. OnlyJobs(v) /\ xTracer[v]
          BY <5>1 DEF HandshakeInv
        <5>. QED  BY <1>1, <4>1, <5>1, <5>2, OnlyJobsTaken
      <4>. QED  BY <4>2, <4>3
    <3>. QED  BY <2>8, <2>9, <3>1, <3>2 DEF HandshakeInv
  <2>10. CASE UNCHANGED toWorker
    <3>1. ASSUME NEW v \in Workers
          PROVE  IF ready'[v] THEN xTracer'[v] /\ Waiting(v)' ELSE Booting(v)'
      <4>1. CASE v = w
        BY <1>1, <2>4, <2>5, <2>10, <4>1 DEF Waiting, At, TypeOK, PageTypeOK
      <4>2. CASE v # w
        BY <1>1, <2>5, <2>7, <2>10, <4>2, OtherPorts DEF HandshakeInv
      <4>. QED  BY <4>1, <4>2
    <3>2. ASSUME NEW v \in Workers, ready'[v] PROVE OnlyJobs(v)'
      BY <3>1, <3>2 DEF Waiting, OnlyJobs
    <3>. QED  BY <2>8, <3>1, <3>2 DEF HandshakeInv
  <2>. QED  BY <1>3, <2>9, <2>10 DEF OnInitialized
<1>4. CASE OnTraceCompleted(w)
  <2>1. toPage[w] # <<>> /\ Head(toPage[w]).event = "TRACE_COMPLETED"
    BY <1>4 DEF OnTraceCompleted, Receive
  <2>2. ~Booting(w) /\ ~Waiting(w)
    BY <2>1 DEF Booting, Waiting, MemoryInitialized, Initialized
  <2>3. numReady = CPU_available
    BY <2>2 DEF HandshakeInv
  <2>4. \A v \in Workers : ready[v] /\ xTracer[v] /\ OnlyJobs(v)
    BY <2>3, CountedReady DEF HandshakeInv
  <2>5. UNCHANGED <<ready, numReady>>
    BY <1>4 DEF OnTraceCompleted
  <2>6. ASSUME NEW v \in Workers PROVE OnlyJobs(v)'
    <3>1. PostsJobs(v)
      BY <1>4, QueuePosts DEF OnTraceCompleted
    <3>2. toPage'[v] = toPage[v] \/ (toPage[v] # <<>> /\ toPage'[v] = Tail(toPage[v]))
      BY <1>4 DEF OnTraceCompleted, Receive, TypeOK, SharedTypeOK
    <3>. QED  BY <2>4, <3>1, <3>2, OnlyJobsTaken
  <2>. QED  BY <1>1, <2>3, <2>4, <2>5, <2>6 DEF HandshakeInv
<1>. QED  BY <1>2, <1>3, <1>4 DEF Page, OnTracerMessage

LEMMA CallHandshake ==
    ASSUME TypeOK, HandshakeInv, CallStart \/ CallStop \/ CallReset \/ UNCHANGED vars
    PROVE  HandshakeInv'
<1>1. UNCHANGED <<ready, numReady, pc, buffers, xTracer, toPage>>
  BY DEF CallStart, CallStop, CallReset, Call, StartTrace, start_trace, StopTrace, ResetTrace,
         vars, pageVars, workerVars, sharedVars
<1>2. CASE CallStart
  <2>1. numReady = CPU_available
    BY <1>2 DEF CallStart, Call
  <2>2. \A v \in Workers : PostsJobs(v)
    BY <1>2, StartPosts DEF CallStart, StartTrace
  <2>3. \A v \in Workers : ready[v] /\ xTracer[v] /\ OnlyJobs(v)
    BY <2>1, CountedReady DEF HandshakeInv
  <2>. QED  BY <1>1, <2>1, <2>2, <2>3, OnlyJobsTaken DEF HandshakeInv
<1>3. CASE CallStop \/ CallReset \/ UNCHANGED vars
  <2>1. UNCHANGED toWorker
    BY <1>3 DEF CallStop, CallReset, StopTrace, ResetTrace, vars, sharedVars
  <2>. QED  BY <1>1, <2>1 DEF HandshakeInv, OnlyJobs, Booting, Waiting, At
<1>. QED  BY <1>2, <1>3

\* Whatever is called when, a worker is told to build its tracer when it has the buffers,
\* and to trace when it has the tracer.
THEOREM HandshakeOrderedInvariant == Spec => []HandshakeOrdered
<1>1. Init => HandshakeInv
  <2> SUFFICES ASSUME Init PROVE HandshakeInv
    OBVIOUS
  <2>1. \A w \in Workers : ~ready[w] /\ Booting(w)
    BY DEF Init, SharedInit, WorkerInit, PageInit, Booting
  <2>2. {w \in Workers : ready[w]} = {} /\ numReady = 0
    BY <2>1 DEF Init, PageInit
  <2>. QED  BY <2>1, <2>2, FS_EmptySet DEF HandshakeInv
<1>2. TypeOK /\ HandshakeInv /\ [Next]_vars => HandshakeInv'
  BY WorkerHandshake, PageHandshake, CallHandshake DEF Next
<1>3. TypeOK /\ HandshakeInv => HandshakeOrdered
  <2> SUFFICES ASSUME TypeOK, HandshakeInv, NEW w \in Workers, toWorker[w] # <<>>
               PROVE  /\ Head(toWorker[w]).command = "INIT" => buffers[w]
                      /\ Head(toWorker[w]).command = "TRACE" => xTracer[w]
    BY DEF HandshakeOrdered
  <2>1. CASE ready[w]
    <3>1. toWorker[w][1].command = "TRACE" /\ xTracer[w]
      BY <2>1, EmptySeq DEF HandshakeInv, OnlyJobs, TypeOK, SharedTypeOK
    <3>. QED  BY <3>1 DEF TypeOK, SharedTypeOK
  <2>2. CASE ~ready[w]
    BY <2>2 DEF HandshakeInv, Booting, InitMemory, InitTracer
  <2>. QED  BY <2>1, <2>2
<1>. QED  BY <1>1, <1>2, <1>3, TypeCorrect, PTL DEF Spec

-----------------------------------------------------------------------------
(***************************************************************************)
(* Whenever start_trace is called during the first iteration.              *)
(***************************************************************************)
\* Before an iteration has completed, only jobs of deferredQueue are in flight, none twice.
EarlyInv ==
    iterations_completed = 0 =>
        /\ QueuesKeepJobs
        /\ \A w \in Workers : JobsInFlight(w) \subseteq 1 .. Len(deferredQueue)
        /\ \A v, w \in Workers : v # w => JobsInFlight(v) \cap JobsInFlight(w) = {}

\* The positions of a sequence with an element appended.
LEMMA AppendedAt ==
    ASSUME NEW S, NEW s \in Seq(S), NEW e, NEW i \in DOMAIN Append(s, e)
    PROVE  (i \in DOMAIN s /\ Append(s, e)[i] = s[i]) \/ Append(s, e)[i] = e
OBVIOUS

\* A worker's step adds no job to those in flight with it.
LEMMA WorkerFlight ==
    ASSUME TypeOK, NEW w \in Workers, WorkerStep(w)
    PROVE  JobsInFlight(w)' \subseteq JobsInFlight(w)
<1>1. toWorker[w] \in Seq(PageMessages) /\ toPage[w] \in Seq(WorkerMessages)
  BY DEF TypeOK, SharedTypeOK
<1>2. CASE HandleTrace(w)
  <2>1. /\ toWorker[w] # <<>> /\ Head(toWorker[w]).command = "TRACE"
        /\ toWorker'[w] = Tail(toWorker[w]) /\ toPage' = toPage
        /\ jobData'[w] = Head(toWorker[w]).job
    BY <1>2 DEF HandleTrace, Take, TypeOK, SharedTypeOK, WorkerTypeOK
  <2>2. 1 \in Posted(w) /\ Head(toWorker[w]) = toWorker[w][1]
    BY <1>1, <2>1, EmptySeq DEF Posted
  <2>3. \A i \in Posted(w)' : i + 1 \in Posted(w) /\ toWorker'[w][i] = toWorker[w][i + 1]
    BY <1>1, <2>1, HeadTailProperties DEF Posted
  <2>4. Reported(w)' = Reported(w)
    BY <2>1 DEF Reported
  <2>5. \A i \in Posted(w)' : toWorker'[w][i].job.index \in JobsInFlight(w)
    BY <2>3 DEF JobsInFlight
  <2>6. \A i \in Reported(w)' : toPage'[w][i].jobIndex \in JobsInFlight(w)
    BY <2>1, <2>4 DEF JobsInFlight
  <2>7. jobData'[w].index \in JobsInFlight(w)
    BY <2>1, <2>2 DEF JobsInFlight
  <2>. QED  BY <2>5, <2>6, <2>7 DEF JobsInFlight
<1>3. CASE Reply(w)
  <2>1. /\ toWorker' = toWorker /\ toPage'[w] = Append(toPage[w], TraceCompleted(jobData[w].index))
        /\ IsTracing(w) /\ ~IsTracing(w)'
    BY <1>3 DEF Reply, Post, At, Goto, IsTracing, Tracing, Labels, TypeOK, SharedTypeOK,
                WorkerTypeOK
  <2>2. Posted(w)' = Posted(w)
    BY <2>1 DEF Posted
  <2>3. \A i \in Reported(w)' : \/ i \in Reported(w) /\ toPage'[w][i] = toPage[w][i]
                                \/ toPage'[w][i].jobIndex = jobData[w].index
    <3>1. \A i \in DOMAIN toPage'[w] :
              \/ i \in DOMAIN toPage[w] /\ toPage'[w][i] = toPage[w][i]
              \/ toPage'[w][i] = TraceCompleted(jobData[w].index)
      <4>1. ASSUME NEW e PROVE \A i \in DOMAIN Append(toPage[w], e) :
               \/ i \in DOMAIN toPage[w] /\ Append(toPage[w], e)[i] = toPage[w][i]
               \/ Append(toPage[w], e)[i] = e
        BY <1>1, AppendedAt, Zenon
      <4>. QED  BY <2>1, <4>1, Zenon
    <3>. QED  BY <3>1 DEF Reported, TraceCompleted
  <2>. QED  BY <2>1, <2>2, <2>3 DEF JobsInFlight
<1>4. CASE TracerStep(w)
  BY <1>4, TracerStepKeeps DEF JobsInFlight, Posted, Reported, IsTracing
<1>5. CASE Boot(w) \/ HandleInitMemory(w) \/ HandleInit(w)
  <2>1. /\ ~IsTracing(w)'
        /\ toWorker'[w] = toWorker[w] \/ (toWorker[w] # <<>> /\ toWorker'[w] = Tail(toWorker[w]))
        /\ \/ toPage'[w] = toPage[w]
           \/ toPage'[w] = Append(toPage[w], MemoryInitialized)
           \/ toPage'[w] = Append(toPage[w], Initialized)
    BY <1>5 DEF Boot, HandleInitMemory, HandleInit, Take, Post, At, Goto, IsTracing, Tracing,
                Labels, sharedVars, TypeOK, SharedTypeOK, WorkerTypeOK
  <2>2. \A i \in Posted(w)' : \E k \in Posted(w) : toWorker'[w][i] = toWorker[w][k]
    <3>1. CASE toWorker'[w] = toWorker[w]
      BY <3>1 DEF Posted
    <3>2. CASE toWorker[w] # <<>> /\ toWorker'[w] = Tail(toWorker[w])
      <4>1. \A i \in Posted(w)' : i + 1 \in Posted(w) /\ toWorker'[w][i] = toWorker[w][i + 1]
        BY <1>1, <3>2, HeadTailProperties DEF Posted
      <4>. QED  BY <4>1
    <3>. QED  BY <2>1, <3>1, <3>2
  <2>3. \A i \in Reported(w)' : i \in Reported(w) /\ toPage'[w][i] = toPage[w][i]
    <3>1. \A i \in DOMAIN toPage'[w] :
              \/ i \in DOMAIN toPage[w] /\ toPage'[w][i] = toPage[w][i]
              \/ toPage'[w][i] \in {MemoryInitialized, Initialized}
      <4>1. ASSUME NEW e PROVE \A i \in DOMAIN Append(toPage[w], e) :
               \/ i \in DOMAIN toPage[w] /\ Append(toPage[w], e)[i] = toPage[w][i]
               \/ Append(toPage[w], e)[i] = e
        BY <1>1, AppendedAt, Zenon
      <4>. QED  BY <2>1, <4>1, Zenon
    <3>. QED  BY <3>1 DEF Reported, MemoryInitialized, Initialized
  <2>. QED  BY <2>1, <2>2, <2>3 DEF JobsInFlight
<1>. QED  BY <1>2, <1>3, <1>4, <1>5 DEF WorkerStep, TracerStep

\* A step of the page adds the jobs it posts.
LEMMA PageFlight ==
    ASSUME TypeOK, NEW v \in Workers, UNCHANGED <<pc, jobData>>, NEW S,
           toPage'[v] = toPage[v] \/ (toPage[v] # <<>> /\ toPage'[v] = Tail(toPage[v])),
           \/ toWorker'[v] = toWorker[v]
           \/ toWorker'[v] = Append(toWorker[v], InitTracer)
           \/ \E j \in S : \E n : toWorker'[v] = Append(toWorker[v], Trace(j, n))
    PROVE  JobsInFlight(v)' \subseteq JobsInFlight(v) \cup S
<1>1. toWorker[v] \in Seq(PageMessages) /\ toPage[v] \in Seq(WorkerMessages)
  BY DEF TypeOK, SharedTypeOK
<1>2. \A i \in Posted(v)' : \/ i \in Posted(v) /\ toWorker'[v][i] = toWorker[v][i]
                            \/ toWorker'[v][i].job.index \in S
  <2>1. CASE toWorker'[v] = toWorker[v]
    BY <2>1 DEF Posted
  <2>2. CASE toWorker'[v] = Append(toWorker[v], InitTracer)
    BY <1>1, <2>2 DEF Posted, InitTracer
  <2>3. ASSUME NEW j \in S, NEW n, toWorker'[v] = Append(toWorker[v], Trace(j, n))
        PROVE  \A i \in Posted(v)' : \/ i \in Posted(v) /\ toWorker'[v][i] = toWorker[v][i]
                                     \/ toWorker'[v][i].job.index \in S
    BY <1>1, <2>3 DEF Posted, Trace
  <2>. QED  BY <2>1, <2>2, <2>3
<1>3. \A i \in Reported(v)' : \E k \in Reported(v) : toPage'[v][i] = toPage[v][k]
  <2>1. CASE toPage'[v] = toPage[v]
    BY <2>1 DEF Reported
  <2>2. CASE toPage[v] # <<>> /\ toPage'[v] = Tail(toPage[v])
    <3>1. \A i \in Reported(v)' : i + 1 \in Reported(v) /\ toPage'[v][i] = toPage[v][i + 1]
      BY <1>1, <2>2, HeadTailProperties DEF Reported
    <3>. QED  BY <3>1
  <2>. QED  BY <2>1, <2>2
<1>4. IsTracing(v)' = IsTracing(v)
  BY DEF IsTracing
<1>. QED  BY <1>2, <1>3, <1>4 DEF JobsInFlight

\* A step that adds different jobs behind deferredQueue to different workers keeps EarlyInv.
LEMMA EarlyPosts ==
    ASSUME TypeOK, EarlyInv, iterations_completed = 0, QueuesKeepJobs',
           NEW New, \A v \in Workers : JobsInFlight(v)' \subseteq JobsInFlight(v) \cup New[v],
           Len(deferredQueue) <= Len(deferredQueue'), Len(deferredQueue') \in Nat,
           \A v \in Workers : New[v] \subseteq Len(deferredQueue) + 1 .. Len(deferredQueue'),
           \A v, w \in Workers : v # w => New[v] \cap New[w] = {}
    PROVE  EarlyInv'
<1>1. Len(deferredQueue) \in Nat
  BY DEF TypeOK, PageTypeOK
<1>2. \A v \in Workers : JobsInFlight(v) \subseteq 1 .. Len(deferredQueue)
  BY DEF EarlyInv
<1>3. ASSUME NEW v \in Workers PROVE JobsInFlight(v)' \subseteq 1 .. Len(deferredQueue')
  BY <1>1, <1>2
<1>4. ASSUME NEW v \in Workers, NEW w \in Workers, v # w
      PROVE  JobsInFlight(v)' \cap JobsInFlight(w)' = {}
  <2>1. JobsInFlight(v) \cap New[w] = {} /\ JobsInFlight(w) \cap New[v] = {}
    BY <1>1, <1>2
  <2>2. JobsInFlight(v) \cap JobsInFlight(w) = {} /\ New[v] \cap New[w] = {}
    BY <1>4 DEF EarlyInv
  <2>. QED  BY <2>1, <2>2
<1>. QED  BY <1>3, <1>4 DEF EarlyInv

\* start_trace during the first iteration hands out jobs that nobody has.
LEMMA EarlyStart ==
    ASSUME TypeOK, EarlyInv, iterations_completed = 0, NEW n, NEW time, start_trace(n, time),
           UNCHANGED <<pc, jobData>>,
           \A v \in Workers : \/ toPage'[v] = toPage[v]
                              \/ toPage[v] # <<>> /\ toPage'[v] = Tail(toPage[v])
    PROVE  EarlyInv'
<1>1. traceJobs \in Seq(Jobs) /\ deferredQueue \in Seq(Jobs)
  BY DEF TypeOK, PageTypeOK
<1>2. deferredQueue \o traceJobs = AllJobs
  BY DEF EarlyInv, QueuesKeepJobs, AllJobs
<1>3. trace(traceJobs, deferredQueue, numBusy)
  BY DEF start_trace
<1> DEFINE m == HandedOut(traceJobs)
<1>4. QueuesKeepJobs'
  BY <1>1, <1>2, <1>3, QueuesAfterTrace
<1>5. /\ m \in 0 .. CPU_available
      /\ Len(deferredQueue') = Len(deferredQueue) + m
      /\ \A w \in Workers : toWorker'[w] =
            IF w <= m
              THEN Append(toWorker[w], Trace(Len(deferredQueue) + w,
                                             refJobs'[Len(deferredQueue) + w]))
              ELSE toWorker[w]
  BY <1>1, <1>2, <1>3, QueuesAfterTrace
<1> HIDE DEF m
<1> DEFINE New == [w \in Workers |-> IF w <= m THEN {Len(deferredQueue) + w} ELSE {}]
<1>6. Len(deferredQueue) \in Nat /\ m \in Nat /\ Workers \subseteq Nat \ {0}
  BY <1>1, <1>5, SharedAssumption DEF Workers
<1>7. ASSUME NEW v \in Workers
      PROVE  JobsInFlight(v)' \subseteq JobsInFlight(v) \cup New[v]
  <2>1. \/ toWorker'[v] = toWorker[v]
        \/ \E j \in New[v] : \E r : toWorker'[v] = Append(toWorker[v], Trace(j, r))
    BY <1>5
  <2>. QED  BY <2>1, PageFlight
<1>8. \A v \in Workers : New[v] \subseteq Len(deferredQueue) + 1 .. Len(deferredQueue')
  BY <1>5, <1>6
<1>9. \A v, w \in Workers : v # w => New[v] \cap New[w] = {}
  BY <1>6
<1>10. Len(deferredQueue) <= Len(deferredQueue') /\ Len(deferredQueue') \in Nat
  BY <1>5, <1>6
<1> HIDE DEF New
<1>. QED  BY <1>4, <1>7, <1>8, <1>9, <1>10, EarlyPosts

\* A step that posts no job keeps EarlyInv.
LEMMA EarlyQuiet ==
    ASSUME TypeOK, EarlyInv, UNCHANGED queueVars, iterations_completed' = iterations_completed,
           \A v \in Workers : JobsInFlight(v)' \subseteq JobsInFlight(v)
    PROVE  EarlyInv'
<1>1. traceJobs' = traceJobs /\ deferredQueue' = deferredQueue
  BY DEF queueVars
<1>2. CASE iterations_completed = 0
  <2>1. /\ QueuesKeepJobs
        /\ \A w \in Workers : JobsInFlight(w) \subseteq 1 .. Len(deferredQueue)
        /\ \A v, w \in Workers : v # w => JobsInFlight(v) \cap JobsInFlight(w) = {}
    BY <1>2 DEF EarlyInv
  <2>2. QueuesKeepJobs'
    BY <1>1, <2>1 DEF QueuesKeepJobs
  <2>3. \A w \in Workers : JobsInFlight(w)' \subseteq 1 .. Len(deferredQueue')
    BY <1>1, <2>1
  <2>4. \A v, w \in Workers : v # w => JobsInFlight(v)' \cap JobsInFlight(w)' = {}
    BY <2>1
  <2>. QED  BY <2>2, <2>3, <2>4 DEF EarlyInv
<1>3. CASE iterations_completed # 0
  BY <1>3 DEF EarlyInv
<1>. QED  BY <1>2, <1>3

LEMMA EarlyPage ==
    ASSUME TypeOK, EarlyInv, NEW w \in Workers, Page(w)
    PROVE  EarlyInv'
<1>1. UNCHANGED <<pc, jobData>>
  BY DEF Page, workerVars
<1>2. \A v \in Workers : \/ toPage'[v] = toPage[v]
                         \/ toPage[v] # <<>> /\ toPage'[v] = Tail(toPage[v])
  BY DEF Page, OnTracerMessage, OnMemoryInitialized, OnInitialized, OnTraceCompleted, Receive,
         TypeOK, SharedTypeOK
<1>3. CASE OnMemoryInitialized(w)
  <2>1. ASSUME NEW v \in Workers PROVE JobsInFlight(v)' \subseteq JobsInFlight(v)
    <3>1. toWorker'[v] = toWorker[v] \/ toWorker'[v] = Append(toWorker[v], InitTracer)
      BY <1>3 DEF OnMemoryInitialized, TypeOK, SharedTypeOK
    <3>2. JobsInFlight(v)' \subseteq JobsInFlight(v) \cup {}
      BY <1>1, <1>2, <3>1, PageFlight
    <3>. QED  BY <3>2
  <2>. QED  BY <1>3, <2>1, EarlyQuiet DEF OnMemoryInitialized, pageVars, progressVars
<1>4. CASE OnInitialized(w)
  <2>1. iterations_completed' = iterations_completed
    BY <1>4 DEF OnInitialized, progressVars
  <2>2. CASE iterations_completed # 0
    BY <2>1, <2>2 DEF EarlyInv
  <2>3. CASE iterations_completed = 0 /\ start_trace(1, 0)
    BY <1>1, <1>2, <2>3, EarlyStart
  <2>4. CASE UNCHANGED <<queueVars, toWorker>>
    <3>1. ASSUME NEW v \in Workers PROVE JobsInFlight(v)' \subseteq JobsInFlight(v)
      <4>1. JobsInFlight(v)' \subseteq JobsInFlight(v) \cup {}
        BY <1>1, <1>2, <2>4, PageFlight
      <4>. QED  BY <4>1
    <3>. QED  BY <2>1, <2>4, <3>1, EarlyQuiet
  <2>. QED  BY <1>4, <2>2, <2>3, <2>4 DEF OnInitialized
<1>5. CASE OnTraceCompleted(w)
  <2>1. process_queue(w, numBusy - 1)
    BY <1>5 DEF OnTraceCompleted
  <2>2. CASE iteration_completed(numBusy - 1)
    <3>1. iterations_completed' # 0
      BY <2>2 DEF iteration_completed, TypeOK, PageTypeOK
    <3>. QED  BY <3>1 DEF EarlyInv
  <2>3. CASE UNCHANGED <<traceJobs, deferredQueue, toWorker, progressVars>>
    <3>1. ASSUME NEW v \in Workers PROVE JobsInFlight(v)' \subseteq JobsInFlight(v)
      <4>1. JobsInFlight(v)' \subseteq JobsInFlight(v) \cup {}
        BY <1>1, <1>2, <2>3, PageFlight
      <4>. QED  BY <4>1
    <3>2. CASE iterations_completed # 0
      BY <2>3, <3>2 DEF EarlyInv, progressVars
    <3>3. CASE iterations_completed = 0
      <4> DEFINE New == [v \in Workers |-> {}]
      <4>1. /\ QueuesKeepJobs'
            /\ Len(deferredQueue') = Len(deferredQueue) /\ Len(deferredQueue) \in Nat
        BY <2>3, <3>3 DEF EarlyInv, QueuesKeepJobs, TypeOK, PageTypeOK
      <4>2. \A v \in Workers : JobsInFlight(v)' \subseteq JobsInFlight(v) \cup New[v]
        BY <3>1
      <4>3. \A v \in Workers : New[v] = {}
        OBVIOUS
      <4> HIDE DEF New
      <4>4. /\ \A v \in Workers : New[v] \subseteq Len(deferredQueue) + 1 .. Len(deferredQueue')
            /\ \A u, v \in Workers : u # v => New[u] \cap New[v] = {}
        BY <4>3
      <4>. QED  BY <3>3, <4>1, <4>2, <4>4, EarlyPosts
    <3>. QED  BY <3>2, <3>3
  <2>4. CASE /\ traceJobs # <<>>
             /\ traceJobs' = Tail(traceJobs)
             /\ deferredQueue' = Append(deferredQueue, Head(traceJobs))
             /\ toWorker' = [toWorker EXCEPT ![w] =
                    Append(@, Trace(Head(traceJobs), refJobs'[Head(traceJobs)]))]
             /\ UNCHANGED progressVars
    <3>1. CASE iterations_completed # 0
      BY <2>4, <3>1 DEF EarlyInv, progressVars
    <3>2. CASE iterations_completed = 0
      <4>1. QueuesKeepJobs /\ traceJobs \in Seq(Jobs) /\ deferredQueue \in Seq(Jobs)
        BY <3>2 DEF EarlyInv, TypeOK, PageTypeOK
      <4>2. /\ Len(deferredQueue) \in Nat /\ Len(traceJobs) \in Nat /\ Len(traceJobs) > 0
            /\ Len(deferredQueue) + Len(traceJobs) = NumJobs
            /\ \A i \in 1 .. Len(traceJobs) : traceJobs[i] = Len(deferredQueue) + i
            /\ \A i \in 1 .. Len(deferredQueue) : deferredQueue[i] = i
        <5>1. deferredQueue \o traceJobs = AllJobs
          BY <4>1 DEF QueuesKeepJobs, AllJobs
        <5>2. Len(traceJobs) > 0 /\ Len(traceJobs) \in Nat /\ Len(deferredQueue) \in Nat
          BY <2>4, <4>1, EmptySeq, LenProperties
        <5>. QED  BY <4>1, <5>1, <5>2, QueuesSplit
      <4>3. Head(traceJobs) = Len(deferredQueue) + 1
        BY <4>1, <4>2
      <4>4. QueuesKeepJobs'
        <5>1. /\ Tail(traceJobs) \in Seq(Jobs) /\ Len(Tail(traceJobs)) = Len(traceJobs) - 1
              /\ \A i \in 1 .. Len(traceJobs) - 1 : Tail(traceJobs)[i] = traceJobs[i + 1]
          BY <2>4, <4>1, HeadTailProperties
        <5>2. /\ deferredQueue' \in Seq(Jobs) /\ Len(deferredQueue') = Len(deferredQueue) + 1
              /\ \A i \in 1 .. Len(deferredQueue) + 1 : deferredQueue'[i] = i
          BY <2>4, <4>1, <4>2, <4>3, AppendProperties, EmptySeq DEF Jobs
        <5>3. /\ Len(deferredQueue') + Len(Tail(traceJobs)) = NumJobs
              /\ \A i \in 1 .. Len(Tail(traceJobs)) : Tail(traceJobs)[i] = Len(deferredQueue') + i
              /\ \A i \in 1 .. Len(deferredQueue') : deferredQueue'[i] = i
          <6>1. \A i \in 1 .. Len(traceJobs) - 1 : i + 1 \in 1 .. Len(traceJobs)
            BY <4>2
          <6>2. \A i \in 1 .. Len(traceJobs) - 1 : Tail(traceJobs)[i] = Len(deferredQueue) + (i + 1)
            BY <4>2, <5>1, <6>1
          <6>. QED  BY <4>2, <5>1, <5>2, <6>2
        <5>4. deferredQueue' \o Tail(traceJobs) = AllJobs
          BY <5>1, <5>2, <5>3, QueuesSplit
        <5>. QED  BY <2>4, <5>4 DEF QueuesKeepJobs, AllJobs
      <4>5. Len(deferredQueue') = Len(deferredQueue) + 1
        BY <2>4, <4>1
      <4> DEFINE New == [v \in Workers |-> IF v = w THEN {Len(deferredQueue) + 1} ELSE {}]
      <4>6. ASSUME NEW v \in Workers PROVE JobsInFlight(v)' \subseteq JobsInFlight(v) \cup New[v]
        <5>1. \/ toWorker'[v] = toWorker[v]
              \/ \E j \in New[v] : \E r : toWorker'[v] = Append(toWorker[v], Trace(j, r))
          BY <2>4, <4>3 DEF TypeOK, SharedTypeOK
        <5>. QED  BY <1>1, <1>2, <5>1, PageFlight
      <4>7. /\ \A v \in Workers : New[v] \subseteq Len(deferredQueue) + 1 .. Len(deferredQueue')
            /\ \A u, v \in Workers : u # v => New[u] \cap New[v] = {}
        BY <4>2, <4>5
      <4>8. Len(deferredQueue) <= Len(deferredQueue') /\ Len(deferredQueue') \in Nat
        BY <4>2, <4>5
      <4> HIDE DEF New
      <4>. QED  BY <3>2, <4>4, <4>6, <4>7, <4>8, EarlyPosts
    <3>. QED  BY <3>1, <3>2
  <2>. QED  BY <2>1, <2>2, <2>3, <2>4 DEF process_queue
<1>. QED  BY <1>3, <1>4, <1>5 DEF Page, OnTracerMessage

LEMMA EarlyCall ==
    ASSUME TypeOK, EarlyInv, CallStart \/ CallStop \/ UNCHANGED vars
    PROVE  EarlyInv'
<1>1. UNCHANGED <<pc, jobData, toPage, iterations_completed>>
  BY DEF CallStart, CallStop, Call, StartTrace, StopTrace, vars, pageVars, progressVars,
         workerVars, sharedVars
<1>2. CASE CallStart
  <2>1. CASE iterations_completed # 0
    BY <1>1, <2>1 DEF EarlyInv
  <2>2. CASE iterations_completed = 0
    <3>1. PICK n, time : start_trace(n, time)
      BY <1>2 DEF CallStart, StartTrace
    <3>. QED  BY <1>1, <2>2, <3>1, EarlyStart
  <2>. QED  BY <2>1, <2>2
<1>3. CASE CallStop \/ UNCHANGED vars
  <2>1. UNCHANGED <<toWorker, queueVars>>
    BY <1>3 DEF CallStop, StopTrace, vars, pageVars, queueVars, sharedVars
  <2>2. \A v \in Workers : JobsInFlight(v)' \subseteq JobsInFlight(v)
    BY <1>1, <2>1 DEF JobsInFlight, Posted, Reported, IsTracing
  <2>. QED  BY <1>1, <2>1, <2>2, EarlyQuiet
<1>. QED  BY <1>2, <1>3

\* Nobody resets the counters: start_trace may be called at any time during the first
\* iteration and no bucket is lost or handed out twice.
THEOREM FirstIterationSafeInvariant ==
    ASSUME "reset" \notin Calls PROVE Spec => []FirstIterationSafe
<1>1. Init => EarlyInv
  <2> SUFFICES ASSUME Init PROVE EarlyInv
    OBVIOUS
  <2>1. \A w \in Workers : JobsInFlight(w) = {}
    BY NothingInFlight DEF Init, SharedInit, WorkerInit, PageInit, Booting
  <2>2. QueuesKeepJobs
    BY InitSafe DEF IInv
  <2>. QED  BY <2>1, <2>2 DEF EarlyInv
<1>2. TypeOK /\ EarlyInv /\ [Next]_vars => EarlyInv'
  <2> SUFFICES ASSUME TypeOK, EarlyInv, [Next]_vars PROVE EarlyInv'
    OBVIOUS
  <2>1. ASSUME NEW w \in Workers, Worker(w) PROVE EarlyInv'
    <3>1. WorkerStep(w) /\ UNCHANGED <<queueVars, iterations_completed>>
      BY <2>1 DEF Worker, pageVars, progressVars
    <3>2. ASSUME NEW v \in Workers, v # w PROVE JobsInFlight(v)' \subseteq JobsInFlight(v)
      BY <3>1, <3>2, WorkerTouches DEF JobsInFlight, Posted, Reported, IsTracing
    <3>. QED  BY <3>1, <3>2, WorkerFlight, EarlyQuiet
  <2>2. ~CallReset
    BY DEF CallReset, Call
  <2>. QED  BY <2>1, <2>2, EarlyPage, EarlyCall DEF Next
<1>3. EarlyInv => FirstIterationSafe
  BY DEF EarlyInv, FirstIterationSafe
<1>. QED  BY <1>1, <1>2, <1>3, TypeCorrect, PTL DEF Spec

-----------------------------------------------------------------------------
(***************************************************************************)
(* numBusy counts the jobs in flight, whenever start_trace is called: each *)
(* step moves a job on, or changes both by the same number.  The sum over  *)
(* the workers is a fold, a recursive function on sets; what it is worth   *)
(* is shown with the least set on which a fact about it would fail.        *)
(***************************************************************************)
\* A set that holds 0, and with n the next n + 1, holds the naturals: of the intervals
\* 1 .. n with n missing one would be minimal, and strict inclusion of finite sets is well-founded.
LEMMA NaturalsReached ==
    ASSUME NEW T, 0 \in T, \A n \in Nat : n \in T => n + 1 \in T
    PROVE  Nat \subseteq T
<1> DEFINE Missing == {1 .. n : n \in Nat \ T}
           R == StrictSubsetOrdering(Nat)
<1>1. SUFFICES ASSUME Missing # {}  PROVE  FALSE
  OBVIOUS
<1>2. \A n \in Nat : 1 .. n \in FiniteSubsetsOf(Nat)
  BY FS_Interval DEF FiniteSubsetsOf
<1>3. Missing \subseteq FiniteSubsetsOf(Nat)
  BY <1>2
<1>4. IsWellFoundedOn(R, FiniteSubsetsOf(Nat))
  BY FS_StrictSubsetOrderingWellFounded
<1>5. \E x \in Missing : \A y \in Missing : ~ (<<y, x>> \in R)
  <2>. HIDE DEF Missing, R
  <2>. QED  BY <1>1, <1>3, <1>4, WFMin
<1>6. PICK n \in Nat \ T : \A m \in Nat \ T : ~ (<<1 .. m, 1 .. n>> \in R)
  BY <1>5
<1>7. n # 0 /\ n - 1 \in Nat /\ (n - 1) + 1 = n
  BY <1>6
<1>8. n - 1 \in Nat \ T
  BY <1>6, <1>7
<1>9. <<1 .. n - 1, 1 .. n>> \in R
  <2>1. n \in 1 .. n /\ n \notin 1 .. n - 1 /\ 1 .. n - 1 \subseteq 1 .. n
    BY <1>6, <1>7
  <2>2. 1 .. n - 1 \in SUBSET Nat /\ 1 .. n \in SUBSET Nat
    BY <1>6, <1>7
  <2>. QED  BY <2>1, <2>2 DEF StrictSubsetOrdering
<1>. QED  BY <1>6, <1>8, <1>9

Some(s) == CHOOSE x \in s : TRUE
Adds(it, f, S) == it = [s \in S |-> IF s = {} THEN 0 ELSE f[Some(s)] + it[s \ {Some(s)}]]

LEMMA SomeIn == \A s : s # {} => Some(s) \in s
BY DEF Some

\* The recursive function in a sum over a finite set exists.
LEMMA AddsExists ==
    ASSUME NEW W, IsFiniteSet(W), NEW f
    PROVE  \E it : Adds(it, f, SUBSET W)
<1> DEFINE Upto(n) == {s \in SUBSET W : Cardinality(s) <= n}
           T == {n \in Nat : \E it : Adds(it, f, Upto(n))}
<1>1. \A s \in SUBSET W : /\ IsFiniteSet(s) /\ Cardinality(s) \in Nat
                          /\ Cardinality(s) <= Cardinality(W)
                          /\ Cardinality(s) = 0 <=> s = {}
  BY FS_Subset, FS_EmptySet, FS_CardinalityType
<1>2. 0 \in T
  <2>1. \A s \in Upto(0) : s = {}
    BY <1>1
  <2>2. Adds([s \in Upto(0) |-> 0], f, Upto(0))
    BY <2>1 DEF Adds
  <2>. QED  BY <2>2
<1>3. ASSUME NEW n \in Nat, n \in T  PROVE  n + 1 \in T
  <2>1. PICK g : Adds(g, f, Upto(n))
    BY <1>3
  <2> DEFINE next(s) == IF s = {} THEN 0 ELSE f[Some(s)] + g[s \ {Some(s)}]
             it == [s \in Upto(n + 1) |-> next(s)]
  <2>2. Upto(n) \subseteq Upto(n + 1)
    BY <1>1
  <2>3. \A s \in Upto(n) : it[s] = g[s]
    <3>1. \A s \in Upto(n) : g[s] = next(s)
      BY <2>1 DEF Adds
    <3>2. \A s \in Upto(n) : it[s] = next(s)
      BY <2>2
    <3>. QED  BY <3>1, <3>2
  <2>4. ASSUME NEW s \in Upto(n + 1), s # {}  PROVE  s \ {Some(s)} \in Upto(n)
    <3>1. Some(s) \in s /\ IsFiniteSet(s) /\ s \ {Some(s)} \in SUBSET W
      BY <2>4, SomeIn, <1>1
    <3>2. Cardinality(s \ {Some(s)}) = Cardinality(s) - 1
      BY <3>1, FS_RemoveElement
    <3>. QED  BY <3>1, <3>2, <1>1
  <2>5. \A s \in Upto(n + 1) : it[s] = IF s = {} THEN 0 ELSE f[Some(s)] + it[s \ {Some(s)}]
    <3>1. \A s \in Upto(n + 1) : it[s] = next(s)
      OBVIOUS
    <3>. HIDE DEF it, Upto
    <3>. QED  BY <2>3, <2>4, <3>1
  <2>6. it = [s \in Upto(n + 1) |-> it[s]]
    OBVIOUS
  <2>7. Adds(it, f, Upto(n + 1))
    <3>. HIDE DEF it, Upto
    <3>. QED  BY <2>5, <2>6 DEF Adds
  <2>8. \E h : Adds(h, f, Upto(n + 1))
    <3>. HIDE DEF it, Upto
    <3>. QED  BY <2>7
  <2>9. n + 1 \in Nat
    OBVIOUS
  <2>. HIDE DEF Upto
  <2>. QED  BY <2>8, <2>9
<1>4. Cardinality(W) \in T
  <2>. HIDE DEF T
  <2>. QED  BY <1>2, <1>3, NaturalsReached, FS_CardinalityType
<1>5. Upto(Cardinality(W)) = SUBSET W
  BY <1>1
<1>. QED  BY <1>4, <1>5

\* Two functions that differ by one on the elements of a set have sums that differ by its size.
LEMMA AddsShift ==
    ASSUME NEW W, IsFiniteSet(W), NEW f \in [W -> Int], NEW g \in [W -> Int], NEW D \in SUBSET W,
           \A w \in W : g[w] = f[w] + (IF w \in D THEN 1 ELSE 0),
           NEW it, Adds(it, f, SUBSET W), NEW jt, Adds(jt, g, SUBSET W)
    PROVE  it[W] \in Int /\ jt[W] = it[W] + Cardinality(D)
<1> DEFINE Good(s) == it[s] \in Int /\ jt[s] = it[s] + Cardinality(D \cap s)
           Bad == {s \in SUBSET W : ~ Good(s)}
           R == StrictSubsetOrdering(W)
<1>1. \A s \in SUBSET W : /\ it[s] = IF s = {} THEN 0 ELSE f[Some(s)] + it[s \ {Some(s)}]
                          /\ jt[s] = IF s = {} THEN 0 ELSE g[Some(s)] + jt[s \ {Some(s)}]
  BY DEF Adds
<1>2. Good({})
  <2>1. it[{}] = 0 /\ jt[{}] = 0 /\ D \cap {} = {}
    BY <1>1
  <2>. QED  BY <2>1, FS_EmptySet
<1>3. ASSUME NEW s \in SUBSET W, s # {}, Good(s \ {Some(s)})  PROVE  Good(s)
  <2> DEFINE x == Some(s)
             r == s \ {x}
  <2>1. x \in s /\ x \in W /\ f[x] \in Int /\ g[x] = f[x] + (IF x \in D THEN 1 ELSE 0)
    BY <1>3, SomeIn
  <2>2. it[s] = f[x] + it[r] /\ jt[s] = g[x] + jt[r]
    BY <1>1, <1>3
  <2>3. /\ IsFiniteSet(D \cap r) /\ x \notin D \cap r /\ Cardinality(D \cap r) \in Nat
        /\ D \cap s = IF x \in D THEN (D \cap r) \cup {x} ELSE D \cap r
    BY <2>1, FS_Subset, FS_CardinalityType
  <2>4. Cardinality(D \cap s) = Cardinality(D \cap r) + (IF x \in D THEN 1 ELSE 0)
    <3>1. /\ Cardinality((D \cap r) \cup {x}) = Cardinality(D \cap r) + 1
      <4>. HIDE DEF x, r
      <4>. QED  BY <2>3, FS_AddElement
    <3>2. CASE x \in D
      <4>1. D \cap s = (D \cap r) \cup {x}
        BY <2>3, <3>2
      <4>. HIDE DEF x, r
      <4>. QED  BY <3>1, <3>2, <4>1
    <3>3. CASE x \notin D
      <4>1. D \cap s = D \cap r
        BY <2>3, <3>3
      <4>2. Cardinality(D \cap r) \in Nat
        BY <2>3
      <4>3. Cardinality(D \cap s) = Cardinality(D \cap r)
        BY <4>1, Zenon
      <4>. HIDE DEF x, r
      <4>. QED  BY <3>3, <4>2, <4>3
    <3>. QED  BY <3>2, <3>3
  <2>. HIDE DEF x
  <2>. QED  BY <1>3, <2>1, <2>2, <2>3, <2>4 DEF x
<1>4. Bad = {}
  <2>1. SUFFICES ASSUME Bad # {}  PROVE  FALSE
    OBVIOUS
  <2>2. Bad \subseteq FiniteSubsetsOf(W)
    BY FS_Subset DEF FiniteSubsetsOf
  <2>3. IsWellFoundedOn(R, FiniteSubsetsOf(W))
    BY FS_StrictSubsetOrderingWellFounded
  <2>4. PICK s \in Bad : \A r \in Bad : ~ (<<r, s>> \in R)
    <3>. HIDE DEF Bad, R
    <3>. QED  BY <2>1, <2>2, <2>3, WFMin
  <2>5. s \in SUBSET W /\ s # {} /\ Some(s) \in s
    BY <1>2, <2>4, SomeIn
  <2>6. <<s \ {Some(s)}, s>> \in R
    BY <2>5 DEF StrictSubsetOrdering
  <2>7. Good(s \ {Some(s)})
    BY <2>4, <2>5, <2>6
  <2>. QED  BY <1>3, <2>4, <2>5, <2>7
<1>5. Good(W) /\ D \cap W = D
  BY <1>4
<1>. QED  BY <1>5

\* The sum of a function over the workers
Total(f) == (CHOOSE it : Adds(it, f, SUBSET Workers))[Workers]

LEMMA WorkersFinite == IsFiniteSet(Workers) /\ Cardinality(Workers) = CPU_available
BY SharedAssumption, FS_Interval DEF Workers

LEMMA AddsSame ==
    ASSUME NEW f \in [Workers -> Int],
           NEW it, Adds(it, f, SUBSET Workers), NEW jt, Adds(jt, f, SUBSET Workers)
    PROVE  jt[Workers] = it[Workers]
<1>1. {} \in SUBSET Workers /\ \A w \in Workers : f[w] = f[w] + 0
  OBVIOUS
<1>2. it[Workers] \in Int /\ jt[Workers] = it[Workers] + Cardinality({})
  BY <1>1, WorkersFinite, AddsShift
<1>. QED  BY <1>2, FS_EmptySet

LEMMA TotalShift ==
    ASSUME NEW f \in [Workers -> Int], NEW g \in [Workers -> Int], NEW D \in SUBSET Workers,
           \A w \in Workers : g[w] = f[w] + (IF w \in D THEN 1 ELSE 0)
    PROVE  Total(f) \in Int /\ Total(g) = Total(f) + Cardinality(D)
<1> DEFINE it == CHOOSE h : Adds(h, f, SUBSET Workers)
           jt == CHOOSE h : Adds(h, g, SUBSET Workers)
<1>1. Adds(it, f, SUBSET Workers) /\ Adds(jt, g, SUBSET Workers)
  BY WorkersFinite, AddsExists
<1>2. Total(f) = it[Workers] /\ Total(g) = jt[Workers]
  BY DEF Total
<1>. HIDE DEF it, jt
<1>. QED  BY <1>1, <1>2, WorkersFinite, AddsShift

LEMMA TotalZero == Total([w \in Workers |-> 0]) = 0
<1> DEFINE f == [w \in Workers |-> 0]
           it == [s \in SUBSET Workers |-> 0]
           jt == CHOOSE h : Adds(h, f, SUBSET Workers)
<1>1. Adds(it, f, SUBSET Workers)
  <2>1. ASSUME NEW s \in SUBSET Workers, s # {}  PROVE  f[Some(s)] + it[s \ {Some(s)}] = 0
    <3>1. Some(s) \in Workers /\ s \ {Some(s)} \in SUBSET Workers
      BY <2>1, SomeIn
    <3>2. f[Some(s)] = 0 /\ it[s \ {Some(s)}] = 0
      BY <3>1
    <3>. HIDE DEF f, it
    <3>. QED  BY <3>2
  <2>2. \A s \in SUBSET Workers :
            it[s] = IF s = {} THEN 0 ELSE f[Some(s)] + it[s \ {Some(s)}]
    <3>1. \A s \in SUBSET Workers : it[s] = 0
      OBVIOUS
    <3>. HIDE DEF f, it
    <3>. QED  BY <2>1, <3>1
  <2>3. it = [s \in SUBSET Workers |-> it[s]]
    OBVIOUS
  <2>. HIDE DEF f, it
  <2>. QED  BY <2>2, <2>3 DEF Adds
<1>2. Adds(jt, f, SUBSET Workers)
  BY WorkersFinite, AddsExists
<1>3. f \in [Workers -> Int]
  OBVIOUS
<1>4. Total(f) = jt[Workers] /\ it[Workers] = 0
  BY DEF Total
<1>. HIDE DEF it, jt
<1>5. jt[Workers] = it[Workers]
  <2>. HIDE DEF f
  <2>. QED  BY <1>1, <1>2, <1>3, AddsSame
<1>. QED  BY <1>4, <1>5 DEF f

Flights == [w \in Workers |-> InFlight(w)]

LEMMA InFlightTotal ==
    Flights \in [Workers -> Int] => MapThenSumSet(InFlight, Workers) = Total(Flights)
<1> SUFFICES ASSUME Flights \in [Workers -> Int]
             PROVE  MapThenSumSet(InFlight, Workers) = Total(Flights)
  OBVIOUS
<1> DEFINE by(h, s) == IF s = {} THEN 0 ELSE InFlight(Some(s)) + h[s \ {Some(s)}]
           adds(h, s) == IF s = {} THEN 0 ELSE Flights[Some(s)] + h[s \ {Some(s)}]
           it == CHOOSE h : h = [s \in SUBSET Workers |-> by(h, s)]
           jt == CHOOSE h : Adds(h, Flights, SUBSET Workers)
<1>1. MapThenSumSet(InFlight, Workers) = it[Workers]
  BY Zenon DEF MapThenSumSet, MapThenFoldSet, Some
<1>2. ASSUME NEW h
      PROVE  h = [s \in SUBSET Workers |-> by(h, s)] <=> Adds(h, Flights, SUBSET Workers)
  <2>1. ASSUME NEW s \in SUBSET Workers  PROVE  by(h, s) = adds(h, s)
    <3>1. s # {} => Some(s) \in Workers
      BY SomeIn
    <3>2. s # {} => InFlight(Some(s)) = Flights[Some(s)]
      BY <3>1 DEF Flights
    <3>. QED  BY <3>2
  <2>2. [s \in SUBSET Workers |-> by(h, s)] = [s \in SUBSET Workers |-> adds(h, s)]
    <3>. HIDE DEF by, adds
    <3>. QED  BY <2>1
  <2>3. Adds(h, Flights, SUBSET Workers) <=> h = [s \in SUBSET Workers |-> adds(h, s)]
    BY DEF Adds
  <2>. HIDE DEF by, adds
  <2>. QED  BY <2>2, <2>3
<1>3. Adds(it, Flights, SUBSET Workers) /\ Adds(jt, Flights, SUBSET Workers)
  <2>1. \E h : Adds(h, Flights, SUBSET Workers)
    BY WorkersFinite, AddsExists
  <2>2. it = [s \in SUBSET Workers |-> by(it, s)]
    <3>. HIDE DEF by
    <3>. QED  BY <2>1, <1>2
  <2>3. Adds(it, Flights, SUBSET Workers)
    <3>. HIDE DEF it, by
    <3>. QED  BY <2>2, <1>2
  <2>. QED  BY <2>1, <2>3
<1>4. Total(Flights) = jt[Workers]
  BY DEF Total
<1>. HIDE DEF it, jt, by, adds
<1>5. it[Workers] = jt[Workers]
  BY <1>3, AddsSame
<1>. QED  BY <1>1, <1>4, <1>5

LEMMA InFlightTotalNext ==
    ASSUME Flights' \in [Workers -> Int]
    PROVE  MapThenSumSet(InFlight, Workers)' = Total(Flights')
<1>1. (Flights \in [Workers -> Int] => MapThenSumSet(InFlight, Workers) = Total(Flights))'
  BY InFlightTotal, PTL
<1>2. Total(Flights)' = Total(Flights')
  BY DEF Total, Adds, Workers
<1>. QED  BY <1>1, <1>2

\* How many messages of a kind there are in a port
Of(s, K) == {i \in DOMAIN s : s[i] \in K}

LEMMA OfFinite ==
    ASSUME NEW S, NEW s \in Seq(S), NEW K
    PROVE  IsFiniteSet(Of(s, K)) /\ Cardinality(Of(s, K)) \in Nat
<1>1. IsFiniteSet(DOMAIN s) /\ Of(s, K) \subseteq DOMAIN s
  BY FS_Interval, LenProperties DEF Of
<1>. QED  BY <1>1, FS_Subset, FS_CardinalityType

LEMMA OfAppended ==
    ASSUME NEW S, NEW s \in Seq(S), NEW e \in S, NEW K
    PROVE  Cardinality(Of(Append(s, e), K)) = Cardinality(Of(s, K)) + (IF e \in K THEN 1 ELSE 0)
<1>1. /\ DOMAIN Append(s, e) = 1 .. Len(s) + 1 /\ DOMAIN s = 1 .. Len(s) /\ Len(s) \in Nat
      /\ \A i \in 1 .. Len(s) : Append(s, e)[i] = s[i]
      /\ Append(s, e)[Len(s) + 1] = e
  OBVIOUS
<1>2. IsFiniteSet(Of(s, K)) /\ Cardinality(Of(s, K)) \in Nat /\ Len(s) + 1 \notin Of(s, K)
  <2>1. Len(s) + 1 \notin Of(s, K)
    BY <1>1 DEF Of
  <2>. QED  BY <2>1, OfFinite
<1>3. CASE e \in K
  <2>1. Of(Append(s, e), K) = Of(s, K) \cup {Len(s) + 1}
    BY <1>1, <1>3 DEF Of
  <2>. QED  BY <1>2, <1>3, <2>1, FS_AddElement
<1>4. CASE e \notin K
  <2>1. Of(Append(s, e), K) = Of(s, K)
    BY <1>1, <1>4 DEF Of
  <2>. QED  BY <1>2, <1>4, <2>1
<1>. QED  BY <1>3, <1>4

LEMMA OfTail ==
    ASSUME NEW S, NEW s \in Seq(S), s # <<>>, NEW K
    PROVE  Cardinality(Of(s, K)) = Cardinality(Of(Tail(s), K)) + (IF Head(s) \in K THEN 1 ELSE 0)
<1>1. /\ Tail(s) \in Seq(S) /\ Len(Tail(s)) = Len(s) - 1 /\ Len(s) \in Nat \ {0}
      /\ \A i \in 1 .. Len(s) - 1 : Tail(s)[i] = s[i + 1]
      /\ Head(s) = s[1] /\ DOMAIN s = 1 .. Len(s) /\ DOMAIN Tail(s) = 1 .. Len(s) - 1
  BY HeadTailProperties, EmptySeq, LenProperties
<1> DEFINE Later == Of(s, K) \ {1}
           f == [i \in Of(Tail(s), K) |-> i + 1]
<1>2. f \in [Of(Tail(s), K) -> Later] /\ \A i, k \in Of(Tail(s), K) : f[i] = f[k] => i = k
  BY <1>1 DEF Of
<1>3. ASSUME NEW k \in Later  PROVE  \E i \in Of(Tail(s), K) : f[i] = k
  <2>1. k - 1 \in 1 .. Len(s) - 1 /\ (k - 1) + 1 = k
    BY <1>1 DEF Of
  <2>2. k - 1 \in Of(Tail(s), K)
    BY <1>1, <2>1 DEF Of
  <2>. QED  BY <2>1, <2>2
<1>4. ExistsBijection(Of(Tail(s), K), Later)
  <2>. HIDE DEF f, Later
  <2>1. f \in Injection(Of(Tail(s), K), Later) /\ f \in Surjection(Of(Tail(s), K), Later)
    BY <1>2, <1>3 DEF Injection, Surjection, IsInjective
  <2>. QED  BY <2>1 DEF ExistsBijection, Bijection
<1>5. Cardinality(Later) = Cardinality(Of(Tail(s), K))
  BY <1>1, <1>4, OfFinite, FS_Bijection
<1>6. IsFiniteSet(Of(s, K)) /\ Cardinality(Of(s, K)) \in Nat
  BY OfFinite
<1>7. 1 \in Of(s, K) <=> Head(s) \in K
  BY <1>1 DEF Of
<1>8. Cardinality(Later) = Cardinality(Of(s, K)) - (IF Head(s) \in K THEN 1 ELSE 0)
  <2>1. Cardinality(Later) = IF 1 \in Of(s, K) THEN Cardinality(Of(s, K)) - 1 ELSE Cardinality(Of(s, K))
    BY <1>6, FS_RemoveElement
  <2>2. Cardinality(Of(s, K)) \in Nat
    BY <1>6
  <2>. HIDE DEF Later
  <2>3. CASE Head(s) \in K
    BY <1>7, <2>1, <2>2, <2>3
  <2>4. CASE Head(s) \notin K
    BY <1>7, <2>1, <2>2, <2>4
  <2>. QED  BY <2>3, <2>4
<1>9. Cardinality(Later) \in Nat
  BY <1>1, <1>5, OfFinite
<1>. HIDE DEF Later
<1>. QED  BY <1>5, <1>6, <1>8, <1>9

Traces == {m \in PageMessages : m.command = "TRACE"}
Reports == {m \in WorkerMessages : m.event = "TRACE_COMPLETED"}

InPort(w) == Cardinality(Of(toWorker[w], Traces))
InReply(w) == Cardinality(Of(toPage[w], Reports))
FlightCounted ==
    \A w \in Workers :
        /\ toWorker[w] \in Seq(PageMessages) /\ toPage[w] \in Seq(WorkerMessages)
        /\ InPort(w) \in Nat /\ InReply(w) \in Nat
        /\ InFlight(w) = InPort(w) + InReply(w) + (IF IsTracing(w) THEN 1 ELSE 0)

LEMMA FlightCounts == TypeOK => FlightCounted
<1> SUFFICES ASSUME TypeOK, NEW w \in Workers
             PROVE  /\ toWorker[w] \in Seq(PageMessages) /\ toPage[w] \in Seq(WorkerMessages)
                    /\ InPort(w) \in Nat /\ InReply(w) \in Nat
                    /\ InFlight(w) = InPort(w) + InReply(w) + (IF IsTracing(w) THEN 1 ELSE 0)
  BY DEF FlightCounted
<1>1. toWorker[w] \in Seq(PageMessages) /\ toPage[w] \in Seq(WorkerMessages)
  BY DEF TypeOK, SharedTypeOK
<1>2. \A i \in DOMAIN toWorker[w] : toWorker[w][i] \in PageMessages
  BY <1>1
<1>3. \A i \in DOMAIN toPage[w] : toPage[w][i] \in WorkerMessages
  BY <1>1
<1>4. Posted(w) = Of(toWorker[w], Traces) /\ Reported(w) = Of(toPage[w], Reports)
  BY <1>2, <1>3 DEF Posted, Reported, Of, Traces, Reports
<1>. QED  BY <1>1, <1>4, OfFinite DEF InFlight, InPort, InReply

LEMMA FlightCountsNext == TypeOK' => FlightCounted'
BY FlightCounts, PTL

LEMMA MessageKinds ==
    /\ InitMemory \notin Traces /\ InitTracer \notin Traces
    /\ MemoryInitialized \notin Reports /\ Initialized \notin Reports
    /\ \A j \in Jobs, n \in Nat : Trace(j, n) \in Traces
    /\ \A j \in Jobs : TraceCompleted(j) \in Reports
BY MessageTypes DEF Traces, Reports, InitMemory, InitTracer, MemoryInitialized, Initialized, Trace,
   TraceCompleted

\* A worker's step moves a job on, from its port to its tracer and from there to the page's port.
LEMMA WorkerMovesJobs ==
    ASSUME TypeOK, TypeOK', NEW w \in Workers, WorkerStep(w), NEW v \in Workers
    PROVE  InFlight(v)' = InFlight(v)
<1>1. CASE v # w
  BY <1>1, WorkerTouches DEF InFlight, Posted, Reported, IsTracing
<1>2. FlightCounted /\ FlightCounted'
  BY FlightCounts, FlightCountsNext
<1>3. /\ toWorker[w] \in Seq(PageMessages) /\ toPage[w] \in Seq(WorkerMessages)
      /\ InPort(w) \in Nat /\ InReply(w) \in Nat /\ InPort(w)' \in Nat /\ InReply(w)' \in Nat
      /\ InFlight(w) = InPort(w) + InReply(w) + (IF IsTracing(w) THEN 1 ELSE 0)
      /\ InFlight(w)' = InPort(w)' + InReply(w)' + (IF IsTracing(w)' THEN 1 ELSE 0)
  BY <1>2 DEF FlightCounted
<1>4. ASSUME HandleTrace(w)  PROVE  InFlight(w)' = InFlight(w)
  <2>1. /\ toWorker[w] # <<>> /\ Head(toWorker[w]).command = "TRACE"
        /\ toWorker'[w] = Tail(toWorker[w]) /\ toPage' = toPage
        /\ ~IsTracing(w) /\ IsTracing(w)'
    BY <1>4, ZenonT(60) DEF HandleTrace, Take, At, Goto, IsTracing, Tracing, Labels, TypeOK, SharedTypeOK,
                WorkerTypeOK
  <2>2. Head(toWorker[w]) \in Traces
    BY <2>1, TakenMessage DEF Traces
  <2>3. InPort(w) = InPort(w)' + 1
    BY <1>3, <2>1, <2>2, OfTail DEF InPort
  <2>4. InReply(w)' = InReply(w)
    BY <2>1 DEF InReply
  <2>. QED  BY <1>3, <2>1, <2>3, <2>4
<1>5. ASSUME Reply(w)  PROVE  InFlight(w)' = InFlight(w)
  <2>1. /\ toWorker' = toWorker /\ toPage'[w] = Append(toPage[w], TraceCompleted(jobData[w].index))
        /\ IsTracing(w) /\ ~IsTracing(w)'
    BY <1>5 DEF Reply, Post, At, Goto, IsTracing, Tracing, Labels, TypeOK, SharedTypeOK,
                WorkerTypeOK
  <2>2. TraceCompleted(jobData[w].index) \in WorkerMessages \cap Reports
    BY MessageKinds, MessageTypes DEF TypeOK, WorkerTypeOK, JobData
  <2>3. InReply(w)' = InReply(w) + 1
    BY <1>3, <2>1, <2>2, OfAppended DEF InReply
  <2>4. InPort(w)' = InPort(w)
    BY <2>1 DEF InPort
  <2>. QED  BY <1>3, <2>1, <2>3, <2>4
<1>6. ASSUME HandleInitMemory(w) \/ HandleInit(w)  PROVE  InFlight(w)' = InFlight(w)
  <2>1. PICK m \in {MemoryInitialized, Initialized} :
            /\ toWorker[w] # <<>> /\ Head(toWorker[w]).command # "TRACE"
            /\ toWorker'[w] = Tail(toWorker[w]) /\ toPage'[w] = Append(toPage[w], m)
            /\ pc' = pc
    BY <1>6 DEF HandleInitMemory, HandleInit, Take, Post, TypeOK, SharedTypeOK
  <2>2. Head(toWorker[w]) \notin Traces
    BY <2>1 DEF Traces
  <2>3. m \in WorkerMessages \ Reports
    BY MessageKinds, MessageTypes
  <2>4. InPort(w) = InPort(w)' + 0
    BY <1>3, <2>1, <2>2, OfTail DEF InPort
  <2>5. InReply(w)' = InReply(w) + 0
    BY <1>3, <2>1, <2>3, OfAppended DEF InReply
  <2>6. IsTracing(w)' = IsTracing(w)
    BY <2>1 DEF IsTracing
  <2>. QED  BY <1>3, <2>4, <2>5, <2>6
<1>7. ASSUME TracerStep(w)  PROVE  InFlight(w)' = InFlight(w)
  BY <1>7, TracerStepKeeps DEF InFlight, Posted, Reported, IsTracing
<1>8. ASSUME Boot(w)  PROVE  InFlight(w)' = InFlight(w)
  <2>1. toWorker' = toWorker /\ toPage' = toPage /\ ~IsTracing(w) /\ ~IsTracing(w)'
    BY <1>8 DEF Boot, sharedVars, At, Goto, IsTracing, Tracing, Labels, TypeOK, WorkerTypeOK
  <2>. QED  BY <2>1 DEF InFlight, Posted, Reported
<1>9. CASE v = w
  BY <1>4, <1>5, <1>6, <1>7, <1>8, <1>9 DEF WorkerStep, TracerStep
<1>. QED  BY <1>1, <1>9

\* The page posts a job to each worker of P.
PostsTo(P) ==
    \A v \in Workers :
        IF v \in P THEN \E j, n : toWorker'[v] = Append(toWorker[v], Trace(j, n))
                   ELSE toWorker'[v] \in {toWorker[v], Append(toWorker[v], InitTracer)}

\* The page handles a report of each worker of R.
Handles(R) ==
    \A v \in Workers :
        \/ v \notin R /\ toPage'[v] = toPage[v]
        \/ /\ toPage[v] # <<>> /\ toPage'[v] = Tail(toPage[v])
           /\ v \in R <=> Head(toPage[v]).event = "TRACE_COMPLETED"

LEMMA PageMovesJobs ==
    ASSUME TypeOK, TypeOK', UNCHANGED pc, NEW P, NEW R, PostsTo(P), Handles(R), NEW v \in Workers
    PROVE  InFlight(v)' + (IF v \in R THEN 1 ELSE 0) = InFlight(v) + (IF v \in P THEN 1 ELSE 0)
<1>1. FlightCounted /\ FlightCounted'
  BY FlightCounts, FlightCountsNext
<1>2. /\ toWorker[v] \in Seq(PageMessages) /\ toPage[v] \in Seq(WorkerMessages)
      /\ toWorker'[v] \in Seq(PageMessages)
      /\ InPort(v) \in Nat /\ InReply(v) \in Nat /\ InPort(v)' \in Nat /\ InReply(v)' \in Nat
      /\ InFlight(v) = InPort(v) + InReply(v) + (IF IsTracing(v) THEN 1 ELSE 0)
      /\ InFlight(v)' = InPort(v)' + InReply(v)' + (IF IsTracing(v)' THEN 1 ELSE 0)
  BY <1>1 DEF FlightCounted
<1>3. IsTracing(v)' = IsTracing(v)
  BY DEF IsTracing
<1>4. InPort(v)' = InPort(v) + (IF v \in P THEN 1 ELSE 0)
  <2>1. ASSUME v \in P, NEW j, NEW n, toWorker'[v] = Append(toWorker[v], Trace(j, n))
        PROVE  InPort(v)' = InPort(v) + 1
    <3>1. Trace(j, n) \in PageMessages
      <4>1. /\ Len(toWorker[v]) \in Nat /\ Len(toWorker'[v]) = Len(toWorker[v]) + 1
            /\ toWorker'[v][Len(toWorker[v]) + 1] = Trace(j, n)
        BY <1>2, <2>1
      <4>. QED  BY <1>2, <4>1, ElementOfSeq
    <3>2. Trace(j, n) \in Traces
      BY <3>1 DEF Traces, Trace
    <3>. QED  BY <1>2, <2>1, <3>1, <3>2, OfAppended DEF InPort
  <2>2. ASSUME toWorker'[v] = Append(toWorker[v], InitTracer)  PROVE  InPort(v)' = InPort(v) + 0
    BY <1>2, <2>2, MessageKinds, MessageTypes, OfAppended DEF InPort
  <2>3. CASE v \in P
    BY <2>1, <2>3 DEF PostsTo
  <2>4. ASSUME v \notin P  PROVE  InPort(v)' = InPort(v)
    <3>1. InPort(v)' = InPort(v) \/ InPort(v)' = InPort(v) + 0
      BY <2>2, <2>4 DEF PostsTo, InPort
    <3>. QED  BY <1>2, <3>1
  <2>. QED  BY <1>2, <2>3, <2>4
<1>5. InReply(v) = InReply(v)' + (IF v \in R THEN 1 ELSE 0)
  <2>1. CASE v \notin R /\ toPage'[v] = toPage[v]
    <3>1. InReply(v) = InReply(v)'
      BY <2>1 DEF InReply
    <3>. QED  BY <1>2, <2>1, <3>1
  <2>2. CASE /\ toPage[v] # <<>> /\ toPage'[v] = Tail(toPage[v])
             /\ v \in R <=> Head(toPage[v]).event = "TRACE_COMPLETED"
    <3>1. Head(toPage[v]) \in Reports <=> v \in R
      BY <1>2, <2>2, HeadTailProperties DEF Reports
    <3>2. InReply(v) = InReply(v)' + (IF Head(toPage[v]) \in Reports THEN 1 ELSE 0)
      BY <1>2, <2>2, OfTail DEF InReply
    <3>. QED  BY <3>1, <3>2
  <2>. QED  BY <2>1, <2>2 DEF Handles
<1>. QED  BY <1>2, <1>3, <1>4, <1>5

\* numBusy and the jobs in flight change by the same numbers.
LEMMA CountKept ==
    ASSUME TypeOK, TypeOK', BusyCountsInFlight, UNCHANGED pc,
           NEW P \in SUBSET Workers, NEW R \in SUBSET Workers, PostsTo(P), Handles(R),
           numBusy' = numBusy - Cardinality(R) + Cardinality(P)
    PROVE  BusyCountsInFlight'
<1> DEFINE g == [v \in Workers |-> InFlight(v) + (IF v \in P THEN 1 ELSE 0)]
<1>1. FlightCounted /\ FlightCounted'
  BY FlightCounts, FlightCountsNext
<1>2. \A v \in Workers : InFlight(v) \in Int /\ InFlight(v)' \in Int
  BY <1>1 DEF FlightCounted
<1>3. Flights \in [Workers -> Int] /\ Flights' \in [Workers -> Int] /\ g \in [Workers -> Int]
  BY <1>2 DEF Flights, Workers
<1>4. ASSUME NEW v \in Workers
      PROVE  /\ g[v] = Flights[v] + (IF v \in P THEN 1 ELSE 0)
             /\ g[v] = Flights'[v] + (IF v \in R THEN 1 ELSE 0)
  BY PageMovesJobs DEF Flights, Workers
<1>. HIDE DEF g
<1>5. Total(Flights) \in Int /\ Total(g) = Total(Flights) + Cardinality(P)
  BY <1>3, <1>4, TotalShift
<1>6. Total(Flights') \in Int /\ Total(g) = Total(Flights') + Cardinality(R)
  BY <1>3, <1>4, TotalShift
<1>7. Cardinality(P) \in Nat /\ Cardinality(R) \in Nat
  BY WorkersFinite, FS_Subset, FS_CardinalityType
<1>8. numBusy = Total(Flights)
  BY <1>3, InFlightTotal DEF BusyCountsInFlight
<1>9. numBusy' = Total(Flights')
  BY <1>5, <1>6, <1>7, <1>8
<1>. QED  BY <1>3, <1>9, InFlightTotalNext DEF BusyCountsInFlight, Workers

LEMMA TracePostsTo ==
    ASSUME TypeOK, NEW next \in Seq(Jobs), NEW posted, NEW busy, trace(next, posted, busy)
    PROVE  \E P \in SUBSET Workers : PostsTo(P) /\ numBusy' = busy + Cardinality(P)
<1> DEFINE P == 1 .. HandedOut(next)
<1>1. HandedOut(next) \in 0 .. CPU_available
  BY SharedAssumption, LenProperties DEF HandedOut
<1>2. P \in SUBSET Workers /\ Cardinality(P) = HandedOut(next)
  <2>1. HandedOut(next) \in Int /\ HandedOut(next) >= 0 /\ HandedOut(next) <= CPU_available
    BY <1>1, SharedAssumption
  <2>2. ASSUME NEW k \in Int, k >= 0  PROVE  Cardinality(1 .. k) = k
    BY <2>2, FS_Interval
  <2>3. P \in SUBSET Workers
    BY <2>1, SharedAssumption DEF Workers
  <2>. QED  BY <2>1, <2>2, <2>3
<1>3. \A v \in Workers : v \in P <=> v <= HandedOut(next)
  BY <1>1, SharedAssumption DEF Workers
<1>4. numBusy' = busy + HandedOut(next)
  BY DEF trace, HandedOut
<1>5. ASSUME NEW v \in Workers
      PROVE  toWorker'[v] = IF v <= HandedOut(next)
                              THEN Append(toWorker[v], Trace(next[v], refJobs'[next[v]]))
                              ELSE toWorker[v]
  BY DEF trace, HandedOut
<1>6. PostsTo(P)
  <2>. HIDE DEF P
  <2>. QED  BY <1>3, <1>5 DEF PostsTo
<1>. HIDE DEF P
<1>. QED  BY <1>2, <1>4, <1>6

LEMMA StartPostsTo ==
    ASSUME TypeOK, NEW n, NEW time, start_trace(n, time)
    PROVE  \E P \in SUBSET Workers : PostsTo(P) /\ numBusy' = numBusy + Cardinality(P)
<1>1. traceJobs \in Seq(Jobs) /\ deferredQueue \in Seq(Jobs)
  BY DEF TypeOK, PageTypeOK
<1>. QED  BY <1>1, TracePostsTo DEF start_trace, next_iteration

LEMMA QueuePostsTo ==
    ASSUME TypeOK, NEW w \in Workers, NEW busy \in Int, process_queue(w, busy)
    PROVE  \E P \in SUBSET Workers : PostsTo(P) /\ numBusy' = busy + Cardinality(P)
<1>1. Cardinality({}) = 0 /\ Cardinality({w}) = 1 /\ {w} \in SUBSET Workers /\ {} \in SUBSET Workers
  BY FS_EmptySet, FS_Singleton
<1>2. ASSUME toWorker' = toWorker  PROVE  PostsTo({})
  BY <1>2 DEF PostsTo
<1>3. CASE iteration_completed(busy)
  <2>1. CASE next_iteration(busy)
    BY <2>1, TracePostsTo DEF next_iteration, TypeOK, PageTypeOK
  <2>2. CASE numBusy' = busy /\ toWorker' = toWorker
    BY <1>1, <1>2, <2>2
  <2>. QED  BY <1>3, <2>1, <2>2 DEF iteration_completed
<1>4. CASE numBusy' = busy /\ toWorker' = toWorker
  BY <1>1, <1>2, <1>4
<1>5. CASE /\ numBusy' = busy + 1
           /\ toWorker' = [toWorker EXCEPT ![w] =
                  Append(@, Trace(Head(traceJobs), refJobs'[Head(traceJobs)]))]
  <2>1. PostsTo({w})
    BY <1>5 DEF PostsTo, TypeOK, SharedTypeOK
  <2>. QED  BY <1>1, <1>5, <2>1
<1>. QED  BY <1>3, <1>4, <1>5 DEF process_queue

LEMMA PageCounts ==
    ASSUME TypeOK, TypeOK', BusyCountsInFlight, NEW w \in Workers, Page(w)
    PROVE  BusyCountsInFlight'
<1>1. UNCHANGED pc /\ numBusy \in Int
  BY DEF Page, workerVars, TypeOK, PageTypeOK
<1>2. Cardinality({}) = 0 /\ Cardinality({w}) = 1 /\ {w} \in SUBSET Workers /\ {} \in SUBSET Workers
  BY FS_EmptySet, FS_Singleton
<1>3. CASE OnMemoryInitialized(w)
  <2>1. Handles({}) /\ PostsTo({}) /\ numBusy' = numBusy
    BY <1>3 DEF OnMemoryInitialized, Receive, Handles, PostsTo, pageVars, queueVars, TypeOK,
                SharedTypeOK
  <2>. QED  BY <1>1, <1>2, <2>1, CountKept
<1>4. CASE OnInitialized(w)
  <2>1. Handles({})
    BY <1>4 DEF OnInitialized, Receive, Handles, TypeOK, SharedTypeOK
  <2>2. \E P \in SUBSET Workers : PostsTo(P) /\ numBusy' = numBusy + Cardinality(P)
    <3>1. CASE start_trace(1, 0)
      BY <3>1, StartPostsTo
    <3>2. CASE UNCHANGED <<queueVars, toWorker>>
      <4>1. PostsTo({}) /\ numBusy' = numBusy + 0
        BY <1>1, <3>2 DEF PostsTo, queueVars
      <4>. QED  BY <1>2, <4>1
    <3>. QED  BY <1>4, <3>1, <3>2 DEF OnInitialized
  <2>3. PICK P \in SUBSET Workers : PostsTo(P) /\ numBusy' = numBusy + Cardinality(P)
    BY <2>2
  <2>4. numBusy' = numBusy - Cardinality({}) + Cardinality(P)
    BY <1>1, <1>2, <2>3
  <2>. QED  BY <1>1, <1>2, <2>1, <2>3, <2>4, CountKept
<1>5. CASE OnTraceCompleted(w)
  <2>1. Handles({w})
    BY <1>5 DEF OnTraceCompleted, Receive, Handles, TypeOK, SharedTypeOK
  <2>2. PICK P \in SUBSET Workers : PostsTo(P) /\ numBusy' = numBusy - 1 + Cardinality(P)
    BY <1>1, <1>5, QueuePostsTo DEF OnTraceCompleted
  <2>3. numBusy' = numBusy - Cardinality({w}) + Cardinality(P)
    BY <1>1, <1>2, <2>2
  <2>. QED  BY <1>1, <1>2, <2>1, <2>2, <2>3, CountKept
<1>. QED  BY <1>3, <1>4, <1>5 DEF Page, OnTracerMessage

LEMMA CallCounts ==
    ASSUME TypeOK, TypeOK', BusyCountsInFlight, CallStart \/ CallStop \/ CallReset \/ UNCHANGED vars
    PROVE  BusyCountsInFlight'
<1>1. UNCHANGED <<pc, toPage>> /\ numBusy \in Int
  BY DEF CallStart, CallStop, CallReset, Call, StartTrace, StopTrace, ResetTrace, vars, workerVars,
         sharedVars, TypeOK, PageTypeOK
<1>2. Handles({})
  BY <1>1 DEF Handles
<1>3. Cardinality({}) = 0 /\ {} \in SUBSET Workers
  BY FS_EmptySet
<1>4. \E P \in SUBSET Workers : PostsTo(P) /\ numBusy' = numBusy + Cardinality(P)
  <2>1. CASE CallStart
    <3>1. PICK n, time : start_trace(n, time)
      BY <2>1 DEF CallStart, StartTrace
    <3>. QED  BY <3>1, StartPostsTo
  <2>2. CASE CallStop \/ CallReset \/ UNCHANGED vars
    <3>1. UNCHANGED <<toWorker, numBusy>>
      BY <2>2 DEF CallStop, CallReset, StopTrace, ResetTrace, vars, pageVars, queueVars, sharedVars
    <3>2. PostsTo({}) /\ numBusy' = numBusy + 0
      BY <1>1, <3>1 DEF PostsTo
    <3>. QED  BY <1>3, <3>2
  <2>. QED  BY <2>1, <2>2
<1>5. PICK P \in SUBSET Workers : PostsTo(P) /\ numBusy' = numBusy + Cardinality(P)
  BY <1>4
<1>6. numBusy' = numBusy - Cardinality({}) + Cardinality(P)
  BY <1>1, <1>3, <1>5
<1>. QED  BY <1>1, <1>2, <1>3, <1>5, <1>6, CountKept

\* Whatever is called at the console and whenever, process_queue finds numBusy at zero only when
\* no job is posted, traced or reported: no iteration ends before its last bucket.
THEOREM BusyCountsInFlightInvariant == Spec => []BusyCountsInFlight
<1>1. Init => BusyCountsInFlight
  <2> SUFFICES ASSUME Init  PROVE  BusyCountsInFlight
    OBVIOUS
  <2>1. ASSUME NEW w \in Workers  PROVE  InFlight(w) = 0
    <3>1. Posted(w) = {} /\ Reported(w) = {} /\ ~IsTracing(w)
      BY DEF Init, SharedInit, WorkerInit, Posted, Reported, IsTracing, Tracing, Labels, InitMemory
    <3>. QED  BY <3>1, FS_EmptySet DEF InFlight
  <2>2. Flights = [w \in Workers |-> 0]
    BY <2>1 DEF Flights
  <2>3. Flights \in [Workers -> Int]
    BY <2>2
  <2>4. MapThenSumSet(InFlight, Workers) = 0
    BY <2>2, <2>3, InFlightTotal, TotalZero
  <2>. QED  BY <2>4 DEF BusyCountsInFlight, Init, PageInit
<1>2. TypeOK /\ TypeOK' /\ BusyCountsInFlight /\ [Next]_vars => BusyCountsInFlight'
  <2> SUFFICES ASSUME TypeOK, TypeOK', BusyCountsInFlight, [Next]_vars
               PROVE  BusyCountsInFlight'
    OBVIOUS
  <2>1. ASSUME NEW w \in Workers, Worker(w)  PROVE  BusyCountsInFlight'
    <3>1. \A v \in Workers : InFlight(v)' = InFlight(v)
      BY <2>1, WorkerMovesJobs DEF Worker
    <3>2. Flights' = Flights
      BY <3>1 DEF Flights, Workers
    <3>3. FlightCounted
      BY FlightCounts
    <3>4. Flights \in [Workers -> Int]
      BY <3>3 DEF FlightCounted, Flights
    <3>5. numBusy' = numBusy
      BY <2>1 DEF Worker, pageVars, queueVars
    <3>6. numBusy = Total(Flights)
      BY <3>4, InFlightTotal DEF BusyCountsInFlight
    <3>. QED  BY <3>2, <3>4, <3>5, <3>6, InFlightTotalNext DEF BusyCountsInFlight, Workers
  <2>. QED  BY <2>1, PageCounts, CallCounts DEF Next
<1>. QED  BY <1>1, <1>2, TypeCorrect, PTL DEF Spec

-----------------------------------------------------------------------------
(***************************************************************************)
(* What the shared memory and the screen show: MemoryInv is preserved      *)
(* together with IInv.  A worker that has a bucket is alone with its       *)
(* pixels, so each of its steps is looked at for its own bucket.  And the  *)
(* refinement: the page and its workers render in rounds.                  *)
(***************************************************************************)

\* A worker's step leaves what other workers remember of their pixels.
LEMMA TracersApart ==
    ASSUME TypeOK, NEW w \in Workers, WorkerStep(w), NEW v \in Workers, v # w
    PROVE  pixel'[v] = pixel[v] /\ iterations'[v] = iterations[v] /\ sample'[v] = sample[v]
BY DEF TypeOK, WorkerTypeOK, WorkerStep, Boot, HandleInitMemory, HandleInit, HandleTrace,
       EnterRun, NextPixel, UpdatePixel, LoadSample, StoreSample, ShadePixel, LeaveRun, Reply

-----------------------------------------------------------------------------
(***************************************************************************)
(* One worker and the bucket it has.                                       *)
(***************************************************************************)
Counted(w, j) ==
    flags[w] # 2 =>
        \A p \in Pixels : sampleMemory[j][p] = refJobs[j] + (IF Stored(w, p) THEN 1 ELSE 0)

InHand(w, j) ==
    /\ At(w, "enter") => iterations[w] = refJobs[j] /\ pixel[w] = 1
    /\ pc[w] \in Storing \cup {"pixel", "update"} => iterations[w] = refJobs[j] + 1
    /\ pc[w] \in {"load", "store"} => sampleMemory[j][pixel[w]] = refJobs[j]
    /\ At(w, "store") => sample[w] = refJobs[j]
    /\ At(w, "shade") => sampleMemory[j][pixel[w]] = refJobs[j] + 1

Exposed(j) == \A p \in Pixels : pixelMemory[j][p].samples = pixelMemory[j][p].iterations

\* Each step inside a trace keeps what the worker needs, and writes to its own bucket only.
LEMMA TracerKeepsPixels ==
    ASSUME TypeOK, NEW w \in Workers, NEW j \in Jobs, TracerStep(w), refJobs' = refJobs,
           jobData[w].index = j, Counted(w, j), InHand(w, j), Exposed(j)
    PROVE  /\ Counted(w, j)' /\ InHand(w, j)' /\ Exposed(j)'
           /\ \A k \in Jobs \ {j} : /\ sampleMemory'[k] = sampleMemory[k]
                                    /\ pixelMemory'[k] = pixelMemory[k]
<1> USE DEF At, Goto, Storing
<1>1. /\ pc \in [Workers -> Labels] /\ pixel \in [Workers -> 1 .. NumPixels + 1]
      /\ iterations \in [Workers -> Nat] /\ sample \in [Workers -> Nat]
      /\ sampleMemory \in [Jobs -> [Pixels -> Nat]] /\ refJobs[j] \in Nat
      /\ pixelMemory \in [Jobs -> [Pixels -> [samples : Nat, iterations : Nat]]]
      /\ pc[w] \in Storing \cup {"update"} => pixel[w] \in Pixels
  BY DEF TypeOK, SharedTypeOK, WorkerTypeOK, PageTypeOK
<1>2. /\ pixel[w] \in Nat /\ NumPixels \in Nat
      /\ \A p \in Pixels : p \in Nat /\ p <= NumPixels
  BY <1>1, SharedAssumption DEF Pixels
<1>3. CASE EnterRun(w)
  BY <1>1, <1>3 DEF EnterRun, sharedVars, Counted, InHand, Exposed, Stored
<1>4. CASE NextPixel(w)
  <2>1. /\ pc[w] = "pixel"
        /\ UNCHANGED <<iterations, pixel, sample, flags, sampleMemory, pixelMemory>>
        /\ pc' = [pc EXCEPT ![w] = "leave"] \/ pc' = [pc EXCEPT ![w] = "update"]
        /\ pc'[w] = "leave" => pixel[w] > NumPixels \/ flags[w] = 2
    BY <1>1, <1>4 DEF NextPixel, sharedVars
  <2>2. pc'[w] \in {"leave", "update"}
    BY <1>1, <2>1
  <2>3. ASSUME NEW p \in Pixels, flags[w] # 2 PROVE Stored(w, p)' <=> Stored(w, p)
    <3>1. CASE pc'[w] = "leave"
      <4>1. Stored(w, p)'
        BY <3>1 DEF Stored
      <4>2. p < pixel[w]
        BY <1>2, <2>1, <2>3, <3>1
      <4>. QED  BY <4>1, <4>2 DEF Stored
    <3>2. CASE pc'[w] = "update"
      BY <1>1, <2>1, <3>2 DEF Stored
    <3>. QED  BY <2>2, <3>1, <3>2
  <2>4. Counted(w, j)'
    BY <2>1, <2>3 DEF Counted
  <2>5. InHand(w, j)'
    BY <2>1, <2>2 DEF InHand
  <2>. QED  BY <2>1, <2>4, <2>5 DEF Exposed
<1>5. CASE UpdatePixel(w)
  <2>1. /\ pc[w] = "update" /\ UNCHANGED <<iterations, sample, flags, sampleMemory, pixelMemory>>
        /\ \/ flags[w] = 2 /\ pc'[w] = "pixel"
           \/ flags[w] # 2 /\ pc'[w] = "load" /\ pixel' = pixel
    BY <1>1, <1>5 DEF UpdatePixel, sharedVars
  <2>2. ASSUME NEW p \in Pixels, flags[w] # 2 PROVE Stored(w, p)' <=> Stored(w, p)
    BY <1>1, <2>1, <2>2 DEF Stored
  <2>3. Counted(w, j)'
    BY <2>1, <2>2 DEF Counted
  <2>4. flags[w] # 2 => sampleMemory[j][pixel[w]] = refJobs[j]
    BY <1>1, <2>1 DEF Counted, Stored
  <2>5. InHand(w, j)'
    BY <2>1, <2>4 DEF InHand
  <2>. QED  BY <2>1, <2>3, <2>5 DEF Exposed
<1>6. CASE LoadSample(w)
  BY <1>1, <1>6 DEF LoadSample, sharedVars, Counted, InHand, Exposed, Stored
<1>7. CASE StoreSample(w)
  BY <1>1, <1>7 DEF StoreSample, Counted, InHand, Exposed, Stored
<1>8. CASE ShadePixel(w)
  <2>1. /\ pc[w] = "shade" /\ pc'[w] = "pixel" /\ pixel[w] \in Pixels
        /\ pixel'[w] = pixel[w] + 1
        /\ UNCHANGED <<iterations, flags, sampleMemory>>
        /\ pixelMemory' = [pixelMemory EXCEPT ![j][pixel[w]] =
                              Shade(sampleMemory[j][pixel[w]], iterations[w])]
    BY <1>1, <1>8 DEF ShadePixel
  <2>2. ASSUME NEW p \in Pixels PROVE Stored(w, p)' <=> Stored(w, p)
    <3>1. Stored(w, p) <=> p <= pixel[w]
      BY <1>2, <2>1 DEF Stored
    <3>2. Stored(w, p)' <=> p < pixel[w] + 1
      BY <2>1 DEF Stored
    <3>. QED  BY <1>2, <3>1, <3>2
  <2>3. Counted(w, j)'
    BY <2>1, <2>2 DEF Counted
  <2>4. InHand(w, j)'
    BY <2>1 DEF InHand
  <2>5. sampleMemory[j][pixel[w]] = iterations[w]
    BY <2>1 DEF InHand
  <2>6. /\ pixelMemory'[j] = [pixelMemory[j] EXCEPT
                                ![pixel[w]] = Shade(iterations[w], iterations[w])]
        /\ \A k \in Jobs \ {j} : pixelMemory'[k] = pixelMemory[k]
    BY <1>1, <2>1, <2>5
  <2>7. Exposed(j)'
    BY <1>1, <2>1, <2>6 DEF Shade, Exposed
  <2>. QED  BY <2>1, <2>3, <2>4, <2>6, <2>7
<1>9. CASE LeaveRun(w)
  BY <1>1, <1>9 DEF LeaveRun, sharedVars, Counted, InHand, Exposed, Stored
<1>. QED  BY <1>3, <1>4, <1>5, <1>6, <1>7, <1>8, <1>9 DEF TracerStep

\* The bucket a worker has holds the samples refJobs counts, and its own on top.
JobCounted(w, j) ==
    flags[w] # 2 =>
        \A p \in Pixels : sampleMemory[j][p] = refJobs[j] + (IF Ahead(w, j, p) THEN 1 ELSE 0)

JobMemory(w, j) == JobCounted(w, j) /\ (IsTracingJob(w, j) => InHand(w, j)) /\ Exposed(j)

\* From TRACE to TRACE_COMPLETED a worker's step keeps the memory of its job right.
LEMMA WorkerJobMemory ==
    ASSUME TypeOK, NEW w \in Workers, NEW j \in Jobs, WorkerStep(w), refJobs' = refJobs,
           HasJob(w, j), xTracer[w], JobMemory(w, j)
    PROVE  /\ HasJob(w, j)' /\ JobMemory(w, j)' /\ flags' = flags
           /\ \A k \in Jobs \ {j} : /\ sampleMemory'[k] = sampleMemory[k]
                                    /\ pixelMemory'[k] = pixelMemory[k]
<1>1. HasJob(w, j)'
  BY WorkerKeepsJob
<1>2. CASE Boot(w) \/ HandleInitMemory(w) \/ HandleInit(w)
  <2>1. ~Boot(w)
    BY DEF Boot, At, HasJob, HasPosted, IsTracingJob, HasReported, IsTracing, Tracing, Labels
  <2>2. ~HandleInitMemory(w) /\ ~HandleInit(w)
    BY DEF HandleInitMemory, HandleInit, Take, At, HasJob, HasPosted, IsTracingJob,
           HasReported, IsTracing, Tracing, Labels, Trace
  <2>. QED  BY <1>2, <2>1, <2>2
<1>3. CASE HandleTrace(w)
  <2>1. HasPosted(w, j) /\ ~HasReported(w, j) /\ ~IsTracingJob(w, j)
    BY <1>3 DEF HandleTrace, Take, At, HasJob, HasPosted, IsTracingJob, HasReported,
                IsTracing, Tracing, Labels
  <2>2. /\ toPage'[w] = <<>> /\ UNCHANGED <<flags, sampleMemory, pixelMemory>>
        /\ \/ flags[w] = 2 /\ pc'[w] = "reply"
           \/ pc'[w] = "enter" /\ pixel'[w] = 1 /\ iterations'[w] = refJobs[j]
    BY <1>3, <2>1 DEF HandleTrace, HasPosted, Trace, Goto, TypeOK, WorkerTypeOK
  <2>3. ~HasReported(w, j)'
    BY <2>2 DEF HasReported
  <2>4. \A p \in Pixels : ~Ahead(w, j, p)
    BY <2>1 DEF Ahead
  <2>5. flags[w] # 2 => \A p \in Pixels : ~Ahead(w, j, p)'
    BY <2>2, <2>3 DEF Ahead, Stored, At, Pixels
  <2>6. JobCounted(w, j)'
    BY <2>2, <2>4, <2>5 DEF JobMemory, JobCounted
  <2>7. InHand(w, j)'
    BY <2>2 DEF InHand, At, Storing
  <2>. QED  BY <1>1, <2>2, <2>6, <2>7 DEF JobMemory, Exposed
<1>4. CASE TracerStep(w)
  <2>1. IsTracingJob(w, j) /\ ~HasReported(w, j)
    BY <1>4, TracerStepKeeps DEF HasJob, HasPosted, HasReported, IsTracingJob, At,
                                 Tracing, Labels
  <2>2. IsTracingJob(w, j)' /\ ~HasReported(w, j)' /\ flags' = flags
    BY <1>4, <2>1, TracerStepKeeps DEF IsTracingJob, HasReported, IsTracing
  <2>3. Counted(w, j) /\ jobData[w].index = j
    BY <2>1 DEF JobMemory, JobCounted, Counted, Ahead, IsTracingJob
  <2>4. /\ Counted(w, j)' /\ InHand(w, j)' /\ Exposed(j)'
        /\ \A k \in Jobs \ {j} : /\ sampleMemory'[k] = sampleMemory[k]
                                 /\ pixelMemory'[k] = pixelMemory[k]
    BY <1>4, <2>1, <2>3, TracerKeepsPixels DEF JobMemory
  <2>5. JobCounted(w, j)'
    BY <2>2, <2>4 DEF JobCounted, Counted, Ahead
  <2>. QED  BY <1>1, <2>2, <2>4, <2>5 DEF JobMemory
<1>5. CASE Reply(w)
  <2>1. IsTracingJob(w, j) /\ pc[w] = "reply"
    BY <1>5 DEF Reply, At, HasJob, HasPosted, IsTracingJob, HasReported
  <2>2. /\ UNCHANGED <<flags, sampleMemory, pixelMemory>>
        /\ pc'[w] = "listen"
    BY <1>5 DEF Reply, Goto, TypeOK, WorkerTypeOK
  <2>3. HasReported(w, j)' /\ ~IsTracingJob(w, j)'
    BY <1>1, <1>5, <2>1, <2>2 DEF Reply, Post, HasJob, HasPosted, IsTracingJob, HasReported,
                    IsTracing, Tracing, TypeOK, SharedTypeOK
  <2>4. \A p \in Pixels : Ahead(w, j, p) /\ Ahead(w, j, p)'
    BY <2>1, <2>3 DEF Ahead, Stored
  <2>5. JobCounted(w, j)'
    BY <2>2, <2>4 DEF JobMemory, JobCounted
  <2>. QED  BY <1>1, <2>2, <2>3, <2>5 DEF JobMemory, Exposed
<1>. QED  BY <1>2, <1>3, <1>4, <1>5 DEF WorkerStep, TracerStep

-----------------------------------------------------------------------------
(***************************************************************************)
(* All workers and all buckets.                                            *)
(***************************************************************************)

\* MemoryInv speaks of the job a worker has.
LEMMA MemoryOfJob ==
    ASSUME IInv, MemoryInv, NEW w \in Workers, NEW j \in Jobs, HasJob(w, j)
    PROVE  JobMemory(w, j)
<1>1. ASSUME NEW p \in Pixels
      PROVE  (\E v \in Workers : Ahead(v, j, p)) <=> Ahead(w, j, p)
  BY DEF Ahead, HasJob, IInv, OneWorkerPerJob
<1>2. flags[w] # 2 => \A v \in Workers : flags[v] # 2
  BY DEF MemoryInv, FlagsAgree
<1>3. JobCounted(w, j)
  BY <1>1, <1>2 DEF MemoryInv, SamplesCounted, JobCounted
<1>. QED  BY <1>3 DEF MemoryInv, PixelInHand, InHand, ExposureCorrect, Exposed, JobMemory

\* A step that leaves the memory, the screen and every worker's job alone.
LEMMA QuietMemory ==
    ASSUME TypeOK, MemoryInv,
           UNCHANGED <<sampleMemory, pixelMemory, canvas, refJobs, pc, iterations, pixel, sample>>,
           flags' = flags \/ \A w \in Workers : flags'[w] = 2,
           \A v \in Workers, j \in Jobs :
               /\ HasJob(v, j)' <=> HasJob(v, j)
               /\ IsTracingJob(v, j)' <=> IsTracingJob(v, j)
               /\ HasReported(v, j)' <=> HasReported(v, j)
    PROVE  MemoryInv'
<1>1. FlagsAgree'
  BY DEF MemoryInv, FlagsAgree
<1>2. \A v \in Workers, j \in Jobs, p \in Pixels : Ahead(v, j, p)' <=> Ahead(v, j, p)
  BY DEF Ahead, Stored, At
<1>3. SamplesCounted'
  <2>1. CASE flags' = flags
    BY <1>2, <2>1 DEF MemoryInv, SamplesCounted
  <2>2. CASE \A w \in Workers : flags'[w] = 2
    <3>1. Workers # {}
      BY SharedAssumption DEF Workers
    <3>. QED  BY <2>2, <3>1 DEF SamplesCounted
  <2>. QED  BY <2>1, <2>2
<1>4. PixelInHand'
  BY DEF MemoryInv, PixelInHand, At
<1>5. Shown'
  BY DEF MemoryInv, Shown
<1>6. ExposureCorrect'
  BY DEF MemoryInv, ExposureCorrect
<1>. QED  BY <1>1, <1>3, <1>4, <1>5, <1>6 DEF MemoryInv

\* A worker's step.
LEMMA WorkerMemory ==
    ASSUME TypeOK, IInv, MemoryInv, NEW w \in Workers, Worker(w)
    PROVE  MemoryInv'
<1>1. WorkerStep(w) /\ UNCHANGED <<refJobs, canvas>>
  BY DEF Worker, pageVars
<1>2. ASSUME NEW v \in Workers, v # w
      PROVE  UNCHANGED <<toWorker[v], toPage[v], pc[v], jobData[v],
                         pixel[v], iterations[v], sample[v]>>
  BY <1>1, <1>2, WorkerTouches, TracersApart
<1>3. ASSUME NEW v \in Workers, v # w, NEW k \in Jobs
      PROVE  /\ HasJob(v, k)' <=> HasJob(v, k)
             /\ IsTracingJob(v, k)' <=> IsTracingJob(v, k)
             /\ HasReported(v, k)' <=> HasReported(v, k)
  BY <1>1, <1>2, <1>3 DEF HasJob, HasPosted, IsTracingJob, HasReported, IsTracing, At
<1>4. CASE ready[w]
  <2>1. PICK j \in Jobs : HasJob(w, j)
    BY <1>1, <1>4, WaitingRests, DeferredAreJobs DEF IInv, Conversations
  <2>2. xTracer[w] /\ JobMemory(w, j)
    BY <1>4, <2>1, MemoryOfJob DEF IInv, Conversations
  <2>3. /\ HasJob(w, j)' /\ JobMemory(w, j)' /\ flags' = flags
        /\ \A k \in Jobs \ {j} : /\ sampleMemory'[k] = sampleMemory[k]
                                 /\ pixelMemory'[k] = pixelMemory[k]
    BY <1>1, <2>1, <2>2, WorkerJobMemory
  <2>4. \A k \in Jobs \ {j} : ~HasJob(w, k) /\ ~HasJob(w, k)'
    BY <2>1, <2>3, JobUnique, JobUniqueNext
  <2>5. \A v \in Workers \ {w} : ~HasJob(v, j) /\ ~HasJob(v, j)'
    BY <1>3, <2>1 DEF IInv, OneWorkerPerJob
  <2>6. SamplesCounted'
    <3> SUFFICES ASSUME \A v \in Workers : flags'[v] # 2, NEW k \in Jobs, NEW p \in Pixels
                 PROVE  sampleMemory'[k][p] =
                          refJobs[k] + (IF \E v \in Workers : Ahead(v, k, p)' THEN 1 ELSE 0)
      BY <1>1 DEF SamplesCounted
    <3>1. CASE k = j
      <4>1. (\E v \in Workers : Ahead(v, k, p)') <=> Ahead(w, j, p)'
        BY <2>5, <3>1 DEF Ahead, HasJob
      <4>. QED  BY <1>1, <2>3, <3>1, <4>1 DEF JobMemory, JobCounted
    <3>2. CASE k # j
      <4>1. ASSUME NEW v \in Workers PROVE Ahead(v, k, p)' <=> Ahead(v, k, p)
        <5>1. CASE v = w
          BY <2>4, <3>2, <5>1 DEF Ahead, HasJob
        <5>2. CASE v # w
          BY <1>2, <1>3, <5>2 DEF Ahead, Stored, At
        <5>. QED  BY <5>1, <5>2
      <4>. QED  BY <2>3, <3>2, <4>1 DEF MemoryInv, SamplesCounted
    <3>. QED  BY <3>1, <3>2
  <2>7. PixelInHand'
    <3> SUFFICES ASSUME NEW v \in Workers, NEW k \in Jobs, IsTracingJob(v, k)'
                 PROVE  InHand(v, k)'
      BY DEF PixelInHand, InHand
    <3>1. CASE v = w
      <4>1. k = j
        BY <2>4, <3>1 DEF HasJob
      <4>. QED  BY <2>3, <3>1, <4>1 DEF JobMemory
    <3>2. CASE v # w
      <4>1. IsTracingJob(v, k) /\ k # j
        BY <1>3, <2>5, <3>2 DEF HasJob
      <4>2. InHand(v, k)
        BY <4>1 DEF MemoryInv, PixelInHand, InHand
      <4>. QED  BY <1>1, <1>2, <2>3, <3>2, <4>1, <4>2 DEF InHand, At
    <3>. QED  BY <3>1, <3>2
  <2>8. Shown'
    <3> SUFFICES ASSUME NEW k \in Jobs, \A v \in Workers : ~HasJob(v, k)'
                 PROVE  canvas[k] = pixelMemory'[k]
      BY <1>1 DEF Shown
    <3>1. k # j
      BY <2>3
    <3>2. \A v \in Workers : ~HasJob(v, k)
      BY <1>3, <2>4, <3>1
    <3>. QED  BY <2>3, <3>1, <3>2 DEF MemoryInv, Shown
  <2>9. ExposureCorrect'
    <3> SUFFICES ASSUME NEW k \in Jobs, NEW p \in Pixels
                 PROVE  /\ pixelMemory'[k][p].samples = pixelMemory'[k][p].iterations
                        /\ canvas[k][p].samples = canvas[k][p].iterations
      BY <1>1 DEF ExposureCorrect
    <3>1. CASE k = j
      BY <2>3, <3>1 DEF JobMemory, Exposed, MemoryInv, ExposureCorrect
    <3>2. CASE k # j
      BY <2>3, <3>2 DEF MemoryInv, ExposureCorrect
    <3>. QED  BY <3>1, <3>2
  <2>. QED  BY <2>3, <2>6, <2>7, <2>8, <2>9 DEF MemoryInv, FlagsAgree
<1>5. CASE ~ready[w]
  <2>1. Booting(w) /\ Booting(w)'
    BY <1>1, <1>5, WorkerBoots DEF IInv, Conversations
  <2>2. ~HandleTrace(w) /\ ~Reply(w) /\ ~TracerStep(w)
    <3>1. ~TracerStep(w)
      BY <2>1, TracerStepKeeps DEF Booting, At, Tracing, Labels
    <3>2. ~HandleTrace(w) /\ ~Reply(w)
      BY <2>1 DEF HandleTrace, Reply, Booting, Take, At, InitMemory, InitTracer
    <3>. QED  BY <3>1, <3>2
  <2>3. UNCHANGED <<sampleMemory, pixelMemory, flags, pixel, iterations, sample>>
    BY <1>1, <2>2 DEF WorkerStep, TracerStep, Boot, HandleInitMemory, HandleInit, sharedVars
  <2>4. \A k \in Jobs : ~HasJob(w, k) /\ ~HasJob(w, k)'
    BY <2>1, NoJob, NoJobNext
  <2>5. \A v \in Workers, k \in Jobs, p \in Pixels : Ahead(v, k, p)' <=> Ahead(v, k, p)
    <3> TAKE v \in Workers, k \in Jobs, p \in Pixels
    <3>1. CASE v = w
      BY <2>4, <3>1 DEF Ahead, HasJob
    <3>2. CASE v # w
      BY <1>2, <1>3, <3>2 DEF Ahead, Stored, At
    <3>. QED  BY <3>1, <3>2
  <2>6. PixelInHand'
    <3> SUFFICES ASSUME NEW v \in Workers, NEW k \in Jobs, IsTracingJob(v, k)'
                 PROVE  InHand(v, k)'
      BY DEF PixelInHand, InHand
    <3>1. v # w
      BY <2>4 DEF HasJob
    <3>2. InHand(v, k)
      BY <1>3, <3>1 DEF MemoryInv, PixelInHand, InHand
    <3>. QED  BY <1>1, <1>2, <2>3, <3>1, <3>2 DEF InHand, At
  <2>7. SamplesCounted'
    BY <1>1, <2>3, <2>5 DEF MemoryInv, SamplesCounted
  <2>8. Shown'
    BY <1>1, <1>3, <2>3, <2>4 DEF MemoryInv, Shown
  <2>9. ExposureCorrect' /\ FlagsAgree'
    BY <1>1, <2>3 DEF MemoryInv, ExposureCorrect, FlagsAgree
  <2>. QED  BY <2>6, <2>7, <2>8, <2>9 DEF MemoryInv
<1>. QED  BY <1>4, <1>5

\* Jobs are handed out to workers of which none has one.
LEMMA IdleMemory ==
    ASSUME TypeOK, MemoryInv,
           UNCHANGED <<flags, sampleMemory, pixelMemory, canvas, refJobs, pc>>,
           \A v \in Workers : Booting(v) \/ Waiting(v),
           \A v \in Workers : toPage'[v] \in {<<>>, toPage[v]}
    PROVE  MemoryInv'
<1>1. \A v \in Workers, j \in Jobs : ~HasJob(v, j)
  BY NoJob
<1>2. \A v \in Workers, j \in Jobs : ~HasReported(v, j)' /\ ~IsTracingJob(v, j)'
  BY DEF HasReported, IsTracingJob, IsTracing, Tracing, Labels, Booting, Waiting, At,
         TraceCompleted, MemoryInitialized, Initialized
<1>3. SamplesCounted'
  BY <1>1, <1>2 DEF MemoryInv, SamplesCounted, Ahead, HasJob
<1>4. PixelInHand'
  BY <1>2 DEF PixelInHand
<1>5. Shown'
  BY <1>1 DEF MemoryInv, Shown
<1>6. ExposureCorrect' /\ FlagsAgree'
  BY DEF MemoryInv, ExposureCorrect, FlagsAgree
<1>. QED  BY <1>3, <1>4, <1>5, <1>6 DEF MemoryInv

\* When a report is taken, a worker that has a job keeps its port; no port is emptied.
LEMMA BusyPortsKept ==
    ASSUME TypeOK, IInv, NEW w \in Busy, OnTraceCompleted(w), NEW v \in Workers, v # w
    PROVE  /\ v \in Busy => toWorker'[v] = toWorker[v]
           /\ toWorker'[v] = <<>> => toWorker[v] = <<>>
<1>1. process_queue(w, numBusy - 1)
  BY DEF OnTraceCompleted
<1>2. CASE numBusy - 1 = 0 /\ iteration_completed(numBusy - 1)
  <2>1. v \notin Busy
    BY <1>2, BusyWithout
  <2>2. toWorker'[v] = <<>> => toWorker[v] = <<>>
    BY <1>2 DEF iteration_completed, next_iteration, trace, TypeOK, SharedTypeOK
  <2>. QED  BY <2>1, <2>2
<1>3. CASE toWorker' = [toWorker EXCEPT ![w] =
                           Append(@, Trace(Head(traceJobs), refJobs'[Head(traceJobs)]))]
  BY <1>3 DEF TypeOK, SharedTypeOK
<1>4. CASE UNCHANGED toWorker
  BY <1>4
<1>. QED  BY <1>1, <1>2, <1>3, <1>4 DEF process_queue

\* A report is handled: the samples of its bucket are counted and shown.
LEMMA CompletedMemory ==
    ASSUME TypeOK, IInv, MemoryInv, NEW w \in Workers, OnTraceCompleted(w),
           UNCHANGED workerVars
    PROVE  MemoryInv'
<1>1. UNCHANGED <<flags, sampleMemory, pixelMemory>>
  BY DEF OnTraceCompleted
<1>2. UNCHANGED <<pc, jobData, pixel, iterations, sample>>
  BY DEF workerVars
<1>3. \A v \in Workers : v # w => toPage'[v] = toPage[v]
  BY DEF OnTraceCompleted, Receive, TypeOK, SharedTypeOK
<1>4. PICK j \in 1 .. Len(deferredQueue) :
               /\ j \in Jobs /\ HasReported(w, j) /\ toWorker[w] = <<>>
               /\ toPage[w] = <<TraceCompleted(j)>> /\ toPage'[w] = <<>> /\ pc[w] = "listen"
               /\ refJobs' = [refJobs EXCEPT ![j] = @ + 1]
               /\ canvas' = [canvas EXCEPT ![j] = pixelMemory[j]]
  BY ReportHandled
<1>5. /\ refJobs'[j] = refJobs[j] + 1 /\ refJobs[j] \in Nat
      /\ canvas'[j] = pixelMemory[j]
      /\ \A k \in Jobs \ {j} : refJobs'[k] = refJobs[k] /\ canvas'[k] = canvas[k]
  BY <1>4 DEF TypeOK, PageTypeOK
<1>6. HasJob(w, j) /\ w \in Busy
  BY <1>4 DEF HasJob, Busy
<1>7. \A v \in Workers : ready[v] /\ (v \notin Busy => Waiting(v))
  <2>1. numReady = CPU_available
    BY <1>4, EmptySeq DEF IInv, Boundaries
  <2>. QED  BY <2>1, AllReady
<1>8. \A k \in Jobs : ~HasReported(w, k)' /\ ~IsTracingJob(w, k)'
  BY <1>2, <1>4 DEF HasReported, IsTracingJob, IsTracing, Tracing
<1>9. ASSUME NEW v \in Workers, v # w, NEW k \in Jobs
      PROVE  /\ HasReported(v, k)' <=> HasReported(v, k)
             /\ IsTracingJob(v, k)' <=> IsTracingJob(v, k)
             /\ HasJob(v, k) => HasJob(v, k)' /\ k # j
  <2>1. HasJob(v, k) => k # j /\ v \in Busy
    BY <1>4, <1>6, <1>9 DEF IInv, OneWorkerPerJob, Busy
  <2>2. HasJob(v, k) => toWorker'[v] = toWorker[v] /\ refJobs'[k] = refJobs[k]
    BY <1>5, <1>6, <1>9, <2>1, BusyPortsKept
  <2>3. HasJob(v, k) =>
            (HasReported(v, k) => HasReported(v, k)') /\ (IsTracingJob(v, k) => IsTracingJob(v, k)')
    BY <1>2, <1>3, <1>9, <2>2 DEF HasReported, IsTracingJob, IsTracing, At
  <2>4. HasReported(v, k)' => HasReported(v, k)
    BY <1>2, <1>3, <1>6, <1>9, BusyPortsKept DEF HasReported, At
  <2>5. ASSUME IsTracingJob(v, k)' PROVE IsTracingJob(v, k)
    <3>1. IsTracing(v) /\ jobData[v].index = k
      BY <1>2, <2>5 DEF IsTracingJob, IsTracing
    <3>2. PICK i \in Jobs : HasJob(v, i)
      BY <1>7, <3>1 DEF Busy, Waiting, IsTracing, Tracing, At
    <3>3. IsTracingJob(v, i)
      BY <3>1, <3>2 DEF HasJob, HasPosted, HasReported, IsTracing, Tracing, At
    <3>. QED  BY <3>1, <3>3 DEF IsTracingJob
  <2>6. HasJob(v, k) => HasJob(v, k)'
    BY <1>2, <1>3, <1>9, <2>2, OtherWorker
  <2>. QED  BY <2>1, <2>3, <2>4, <2>5, <2>6 DEF HasJob
<1>10. ASSUME NEW v \in Workers, NEW k \in Jobs, NEW p \in Pixels, v # w
       PROVE  Ahead(v, k, p)' <=> Ahead(v, k, p)
  BY <1>2, <1>9, <1>10 DEF Ahead, Stored, At
<1>11. SamplesCounted'
  <2> SUFFICES ASSUME \A v \in Workers : flags[v] # 2, NEW k \in Jobs, NEW p \in Pixels
               PROVE  sampleMemory[k][p] =
                        refJobs'[k] + (IF \E v \in Workers : Ahead(v, k, p)' THEN 1 ELSE 0)
    BY <1>1 DEF SamplesCounted
  <2>1. ~Ahead(w, k, p)'
    BY <1>8 DEF Ahead
  <2>2. CASE k = j
    <3>1. Ahead(w, j, p)
      BY <1>4 DEF Ahead
    <3>2. \A v \in Workers : ~Ahead(v, j, p)'
      BY <1>4, <1>9, <2>1, <2>2 DEF Ahead, HasJob
    <3>3. sampleMemory[j][p] = refJobs[j] + 1
      BY <1>4, <3>1 DEF MemoryInv, SamplesCounted
    <3>. QED  BY <1>5, <2>2, <3>2, <3>3
  <2>3. CASE k # j
    <3>1. ~Ahead(w, k, p)
      BY <1>4, <1>6, <2>3, JobUnique DEF Ahead, HasJob
    <3>2. \A v \in Workers : Ahead(v, k, p)' <=> Ahead(v, k, p)
      BY <1>10, <2>1, <3>1
    <3>. QED  BY <1>5, <2>3, <3>2 DEF MemoryInv, SamplesCounted
  <2>. QED  BY <2>2, <2>3
<1>12. PixelInHand'
  <2> SUFFICES ASSUME NEW v \in Workers, NEW k \in Jobs, IsTracingJob(v, k)'
               PROVE  InHand(v, k)'
    BY DEF PixelInHand, InHand
  <2>1. v # w
    BY <1>8
  <2>2. IsTracingJob(v, k) /\ k # j
    BY <1>9, <2>1 DEF HasJob
  <2>3. InHand(v, k)
    BY <2>2 DEF MemoryInv, PixelInHand, InHand
  <2>. QED  BY <1>1, <1>2, <1>5, <2>2, <2>3 DEF InHand, At
<1>13. Shown'
  <2> SUFFICES ASSUME NEW k \in Jobs, \A v \in Workers : ~HasJob(v, k)'
               PROVE  canvas'[k] = pixelMemory[k]
    BY <1>1 DEF Shown
  <2>1. CASE k # j
    <3>1. \A v \in Workers : ~HasJob(v, k)
      BY <1>4, <1>6, <1>9, <2>1, JobUnique
    <3>. QED  BY <1>5, <2>1, <3>1 DEF MemoryInv, Shown
  <2>. QED  BY <1>5, <2>1
<1>14. ExposureCorrect'
  <2> SUFFICES ASSUME NEW k \in Jobs, NEW p \in Pixels
               PROVE  /\ pixelMemory[k][p].samples = pixelMemory[k][p].iterations
                      /\ canvas'[k][p].samples = canvas'[k][p].iterations
    BY <1>1 DEF ExposureCorrect
  <2>1. CASE k = j
    BY <1>5, <2>1 DEF MemoryInv, ExposureCorrect
  <2>2. CASE k # j
    BY <1>5, <2>2 DEF MemoryInv, ExposureCorrect
  <2>. QED  BY <2>1, <2>2
<1>15. FlagsAgree'
  BY <1>1 DEF MemoryInv, FlagsAgree
<1>. QED  BY <1>11, <1>12, <1>13, <1>14, <1>15 DEF MemoryInv

\* Nothing is sampled yet and the screen is black.
LEMMA InitMemorySafe == Init => MemoryInv
<1> SUFFICES ASSUME Init PROVE MemoryInv
  OBVIOUS
<1>1. \A w \in Workers : Booting(w) /\ toPage[w] = <<>> /\ pc[w] = "script"
  BY DEF Init, SharedInit, WorkerInit, Booting
<1>2. \A w \in Workers, j \in Jobs : ~HasReported(w, j) /\ ~IsTracingJob(w, j)
  BY <1>1 DEF HasReported, IsTracingJob, IsTracing, Tracing, At
<1>3. SamplesCounted
  BY <1>2 DEF SamplesCounted, Ahead, Init, SharedInit, PageInit
<1>4. PixelInHand
  BY <1>2 DEF PixelInHand
<1>5. Shown /\ FlagsAgree /\ ExposureCorrect
  BY DEF Shown, FlagsAgree, ExposureCorrect, Init, SharedInit, PageInit, Black, Shade
<1>. QED  BY <1>3, <1>4, <1>5 DEF MemoryInv

\* While start_trace is only called between iterations, the samples, the pixels and the
\* screen are what refJobs and the workers' places say they are.
THEOREM MemoryInvInvariant == ASSUME ~StartWhileBusy PROVE Spec => []MemoryInv
<1>1. TypeOK /\ IInv /\ MemoryInv /\ [Next]_vars => MemoryInv'
  <2> SUFFICES ASSUME TypeOK, IInv, MemoryInv, [Next]_vars PROVE MemoryInv'
    OBVIOUS
  <2>1. ASSUME NEW w \in Workers, OnMemoryInitialized(w), UNCHANGED workerVars
        PROVE  MemoryInv'
    <3>1. /\ Booting(w) /\ Booting(w)'
          /\ \A v \in Workers \ {w} : toWorker'[v] = toWorker[v] /\ toPage'[v] = toPage[v]
      BY <2>1, MemoryInitializedBoots
    <3>2. UNCHANGED <<flags, sampleMemory, pixelMemory, canvas, refJobs,
                      pc, jobData, iterations, pixel, sample>>
      BY <2>1 DEF OnMemoryInitialized, pageVars, workerVars
    <3>3. \A k \in Jobs : ~HasJob(w, k) /\ ~HasJob(w, k)'
      BY <3>1, NoJob, NoJobNext
    <3>4. ASSUME NEW v \in Workers, NEW j \in Jobs
          PROVE  /\ HasJob(v, j)' <=> HasJob(v, j)
                 /\ IsTracingJob(v, j)' <=> IsTracingJob(v, j)
                 /\ HasReported(v, j)' <=> HasReported(v, j)
      <4>1. CASE v = w
        BY <3>3, <4>1 DEF HasJob
      <4>2. CASE v # w
        BY <3>1, <3>2, <4>2 DEF HasJob, HasPosted, IsTracingJob, HasReported, IsTracing, At
      <4>. QED  BY <4>1, <4>2
    <3>. QED  BY <3>2, <3>4, QuietMemory
  <2>2. ASSUME NEW w \in Workers, OnInitialized(w), UNCHANGED workerVars
        PROVE  MemoryInv'
    <3>1. \A v \in Workers : Booting(v) \/ Waiting(v)
      BY <2>2, InitializedBoots
    <3>2. \A v \in Workers : toPage'[v] \in {<<>>, toPage[v]}
      BY <2>2, InitializedBoots DEF OnInitialized, Receive, TypeOK, SharedTypeOK
    <3>3. UNCHANGED <<flags, sampleMemory, pixelMemory, canvas, refJobs, pc>>
      BY <2>2 DEF OnInitialized, start_trace, workerVars
    <3>. QED  BY <3>1, <3>2, <3>3, IdleMemory
  <2>3. ASSUME NEW w \in Workers, Page(w) PROVE MemoryInv'
    BY <2>1, <2>2, <2>3, CompletedMemory DEF Page, OnTracerMessage
  <2>4. ASSUME NEW w \in Workers, Worker(w) PROVE MemoryInv'
    BY <2>4, WorkerMemory
  <2>5. CASE CallStart
    <3>1. \A v \in Workers : Waiting(v)
      BY <2>5, IdleWaits
    <3>2. UNCHANGED <<flags, sampleMemory, pixelMemory, canvas, refJobs, pc, toPage>>
      BY <2>5 DEF CallStart, Call, StartTrace, start_trace, workerVars
    <3>. QED  BY <3>1, <3>2, IdleMemory
  <2>6. CASE CallStop
    <3>1. UNCHANGED <<sampleMemory, pixelMemory, canvas, refJobs, toWorker, toPage, workerVars>>
      BY <2>6 DEF CallStop, Call, StopTrace
    <3>2. \A v \in Workers : flags'[v] = 2
      BY <2>6 DEF CallStop, StopTrace
    <3>. QED  BY <3>1, <3>2, QuietMemory DEF workerVars, HasJob, HasPosted, IsTracingJob,
                                            HasReported, IsTracing, At
  <2>7. CASE CallReset \/ UNCHANGED vars
    <3>1. UNCHANGED <<flags, sampleMemory, pixelMemory, canvas, refJobs, toWorker, toPage,
                      workerVars>>
      BY <2>7 DEF CallReset, Call, ResetTrace, vars, pageVars, sharedVars
    <3>. QED  BY <3>1, QuietMemory DEF workerVars, HasJob, HasPosted, IsTracingJob,
                                       HasReported, IsTracing, At
  <2>. QED  BY <2>3, <2>4, <2>5, <2>6, <2>7 DEF Next
<1>. QED  BY <1>1, InitMemorySafe, TypeCorrect, IInvInvariant, PTL DEF Spec

\* No pixel in the memory or on the screen is divided by another number of samples than
\* it has: the count a job carries is the one its bucket has when the job is traced.
THEOREM ExposureCorrectInvariant ==
    ASSUME ~StartWhileBusy PROVE Spec => []ExposureCorrect
<1>1. MemoryInv => ExposureCorrect
  BY DEF MemoryInv
<1>. QED  BY <1>1, MemoryInvInvariant, PTL

\* Unless it was stopped, a bucket nobody works on has exactly the samples counted for it
\* in every pixel, and the screen shows them.
THEOREM BucketsCompleteInvariant ==
    ASSUME ~StartWhileBusy PROVE Spec => []BucketsComplete
<1>1. TypeOK /\ IInv /\ MemoryInv => BucketsComplete
  <2> SUFFICES ASSUME TypeOK, IInv, MemoryInv, \A w \in Workers : flags[w] # 2,
                      NEW j \in Jobs, Idle(j)
               PROVE  /\ \A p \in Pixels : sampleMemory[j][p] = refJobs[j]
                      /\ canvas[j] = pixelMemory[j]
    BY DEF BucketsComplete
  <2>1. \A w \in Workers : ~HasJob(w, j)
    BY OneInFlight DEF Idle
  <2>2. \A w \in Workers, p \in Pixels : ~Ahead(w, j, p)
    BY <2>1 DEF Ahead, HasJob
  <2>3. refJobs[j] \in Nat
    BY DEF TypeOK, PageTypeOK
  <2>. QED  BY <2>1, <2>2, <2>3 DEF MemoryInv, SamplesCounted, Shown
<1>. QED  BY <1>1, TypeCorrect, IInvInvariant, MemoryInvInvariant, PTL

-----------------------------------------------------------------------------
(***************************************************************************)
(* A step at a time.                                                       *)
(***************************************************************************)

\* A worker only gets to the pixel's memory past the look updatePixel takes at the flag.
LEMMA StoringAfterLook ==
    ASSUME TypeOK, NEW w \in Workers, WorkerStep(w), flags[w] = 2, pc[w] \notin Storing
    PROVE  pc'[w] \notin Storing
<1>1. pc \in [Workers -> Labels]
  BY DEF TypeOK, WorkerTypeOK
<1>2. CASE Boot(w) \/ HandleInitMemory(w) \/ HandleInit(w) \/ HandleTrace(w) \/ Reply(w)
  BY <1>1, <1>2 DEF Boot, HandleInitMemory, HandleInit, HandleTrace, Reply, Goto, Storing
<1>3. CASE EnterRun(w) \/ NextPixel(w) \/ UpdatePixel(w) \/ LeaveRun(w)
  BY <1>1, <1>3 DEF EnterRun, NextPixel, UpdatePixel, LeaveRun, Goto, Storing
<1>4. ~(LoadSample(w) \/ StoreSample(w) \/ ShadePixel(w))
  BY DEF LoadSample, StoreSample, ShadePixel, At, Storing
<1>. QED  BY <1>2, <1>3, <1>4 DEF WorkerStep

\* Whoever calls what when, a worker that is told to stop completes the pixel it is
\* storing and starts on no other.
THEOREM StopBoundsWritesHolds == Spec => StopBoundsWrites
<1>1. TypeOK /\ [Next]_vars =>
          [\A w \in Workers : (flags[w] = 2 /\ pc[w] \notin Storing) => pc'[w] \notin Storing]_vars
  <2> SUFFICES ASSUME TypeOK, [Next]_vars, NEW w \in Workers, flags[w] = 2, pc[w] \notin Storing
               PROVE  pc'[w] \notin Storing
    OBVIOUS
  <2>1. ASSUME NEW v \in Workers, Worker(v) PROVE pc'[w] \notin Storing
    BY <2>1, StoringAfterLook, WorkerTouches DEF Worker
  <2>2. CASE \E v \in Workers : Page(v)
    BY <2>2 DEF Page, workerVars
  <2>3. CASE CallStart \/ CallStop \/ CallReset
    BY <2>3 DEF CallStart, CallStop, CallReset, Call, workerVars
  <2>4. CASE UNCHANGED vars
    BY <2>4 DEF vars, workerVars
  <2>. QED  BY <2>1, <2>2, <2>3, <2>4 DEF Next
<1>. QED  BY <1>1, TypeCorrect, PTL DEF Spec, StopBoundsWrites

-----------------------------------------------------------------------------
(***************************************************************************)
(* The page and its workers implement ProgressiveRender.                   *)
(***************************************************************************)
\* What ProgressiveRender is given for pending.
Pending ==
    IF numBusy = 0 THEN {}
    ELSE {j \in Jobs : ~Idle(j) \/ \E i \in DOMAIN traceJobs : traceJobs[i] = j}

\* The buckets of the iteration that are not finished: with a worker, or not yet posted.
Unfinished == {j \in Jobs : (\E w \in Workers : HasJob(w, j)) \/ j > Len(deferredQueue)}

\* While an iteration runs, what is pending is what is unfinished.
PendingUnfinished == Pending = IF numBusy = 0 THEN {} ELSE Unfinished

\* IInv says so: a bucket is with a worker, behind the workers in traceJobs, or done.
LEMMA PendingIsUnfinished == TypeOK /\ IInv => PendingUnfinished
<1> SUFFICES ASSUME TypeOK, IInv PROVE PendingUnfinished
  OBVIOUS
<1>1. ASSUME NEW j \in Jobs PROVE ~Idle(j) <=> \E w \in Workers : HasJob(w, j)
  <2>1. ASSUME NEW w \in Workers PROVE j \in JobsInFlight(w) <=> HasJob(w, j)
    <3>1. CASE Booting(w) \/ Waiting(w)
      BY <3>1, NothingInFlight, NoJob
    <3>2. CASE \E k \in Jobs : HasJob(w, k)
      BY <3>2, OneInFlight, JobUnique
    <3>. QED  BY <3>1, <3>2, WorkerCases
  <2>. QED  BY <2>1 DEF Idle
<1>2. ASSUME NEW j \in Jobs
      PROVE  (\E i \in DOMAIN traceJobs : traceJobs[i] = j) <=> j > Len(deferredQueue)
  <2>1. /\ Len(deferredQueue) \in Nat /\ Len(traceJobs) \in Nat
        /\ Len(deferredQueue) + Len(traceJobs) = NumJobs
        /\ \A i \in 1 .. Len(traceJobs) : traceJobs[i] = Len(deferredQueue) + i
        /\ DOMAIN traceJobs = 1 .. Len(traceJobs)
    BY DeferredAreJobs DEF IInv, TypeOK, PageTypeOK
  <2>2. ASSUME j > Len(deferredQueue)
        PROVE  \E i \in DOMAIN traceJobs : traceJobs[i] = j
    <3>1. j - Len(deferredQueue) \in 1 .. Len(traceJobs)
      BY <2>1, <2>2 DEF Jobs
    <3>2. traceJobs[j - Len(deferredQueue)] = j
      BY <2>1, <3>1 DEF Jobs
    <3>. QED  BY <2>1, <3>1, <3>2
  <2>. QED  BY <2>1, <2>2
<1>. QED  BY <1>1, <1>2 DEF PendingUnfinished, Pending, Unfinished

\* A step of the page and its workers, seen in rounds.
RenderStutter == refJobs' = refJobs /\ Pending' = Pending
RenderBegins  == Pending = {} /\ Pending' = Jobs /\ refJobs' = refJobs
RenderFinishes(j) ==
    /\ j \in Pending
    /\ refJobs' = [refJobs EXCEPT ![j] = @ + 1]
    /\ Pending' = Pending \ {j} \/ (Pending = {j} /\ Pending' = Jobs)

\* While nobody gains or loses a job and the queues stay, the round stays.
LEMMA SameRound ==
    ASSUME PendingUnfinished, PendingUnfinished',
           UNCHANGED <<numBusy, deferredQueue>>,
           \A v \in Workers, j \in Jobs : HasJob(v, j)' <=> HasJob(v, j)
    PROVE  Pending' = Pending
BY DEF PendingUnfinished, Unfinished

\* Jobs handed out from a full queue begin a round.
LEMMA RoundBegins ==
    ASSUME TypeOK, TypeOK', PendingUnfinished', NEW next \in Seq(Jobs), next = AllJobs,
           trace(next, <<>>, 0), refJobs' \in [Jobs -> Nat],
           \A v \in Workers : /\ toWorker[v] = <<>> /\ toPage'[v] = <<>>
                              /\ pc'[v] = "listen" /\ ready'[v] /\ xTracer'[v]
    PROVE  Pending' = Jobs
<1>1. <<>> \in Seq(Jobs) /\ <<>> \o next = AllJobs /\ Len(<<>>) = 0
  BY ConcatEmptySeq, EmptySeq
<1>2. /\ numBusy' = 0 <=> next = <<>>
      /\ \A j \in 1 .. Len(deferredQueue') : \E w \in Workers : HasJob(w, j)'
  <2>1. /\ numBusy' = 0 <=> next = <<>>
        /\ \A j \in Len(<<>>) + 1 .. Len(deferredQueue') : \E w \in Workers : HasJob(w, j)'
    BY <1>1, JobsHandedOut
  <2>2. Len(<<>>) + 1 = 1
    BY <1>1
  <2>. QED  BY <2>1, <2>2
<1>3. next # <<>>
  BY AllJobsSeq, SharedAssumption, EmptySeq
<1>4. Len(deferredQueue') \in Nat
  <2>1. deferredQueue' \in Seq(Jobs)
    BY DEF TypeOK, PageTypeOK
  <2>. QED  BY <2>1, LenProperties
<1>5. ASSUME NEW j \in Jobs PROVE j \in Unfinished'
  <2>1. j \in 1 .. Len(deferredQueue') \/ j > Len(deferredQueue')
    BY <1>4 DEF Jobs
  <2>. QED  BY <1>2, <2>1 DEF Unfinished
<1>6. Unfinished' \subseteq Jobs
  BY DEF Unfinished
<1>. QED  BY <1>2, <1>3, <1>5, <1>6 DEF PendingUnfinished

\* A report finishes its bucket; the last one of a round may begin the next.
LEMMA ReportFinishes ==
    ASSUME TypeOK, IInv, TypeOK', IInv', PendingUnfinished, PendingUnfinished',
           NEW w \in Workers, OnTraceCompleted(w), UNCHANGED workerVars
    PROVE  \E j \in Jobs : RenderFinishes(j)
<1>1. UNCHANGED <<ready, pc, xTracer>>
  BY DEF OnTraceCompleted, workerVars
<1>2. PICK j \in 1 .. Len(deferredQueue) :
               /\ j \in Jobs /\ HasReported(w, j) /\ toWorker[w] = <<>>
               /\ toPage[w] = <<TraceCompleted(j)>> /\ toPage'[w] = <<>> /\ pc[w] = "listen"
               /\ refJobs' = [refJobs EXCEPT ![j] = @ + 1]
               /\ canvas' = [canvas EXCEPT ![j] = pixelMemory[j]]
  BY ReportHandled
<1>3. HasJob(w, j) /\ w \in Busy
  BY <1>2 DEF HasJob, Busy
<1>4. numBusy # 0
  BY <1>3, BusyFinite DEF IInv, Counters
<1>5. j \in Pending
  BY <1>2, <1>3, <1>4 DEF PendingUnfinished, Unfinished
<1>6. \A v \in Workers : ready[v] /\ xTracer[v] /\ (v \notin Busy => Waiting(v))
  <2>1. numReady = CPU_available
    BY <1>2, EmptySeq DEF IInv, Boundaries
  <2>. QED  BY <2>1, AllReady
<1>7. /\ Len(deferredQueue) \in Nat /\ Len(traceJobs) \in Nat
      /\ deferredQueue \in Seq(Jobs) /\ traceJobs \in Seq(Jobs)
      /\ \A i \in 1 .. Len(traceJobs) : traceJobs[i] = Len(deferredQueue) + i
  BY DeferredAreJobs DEF IInv, TypeOK, PageTypeOK
<1>8. process_queue(w, numBusy - 1)
  BY DEF OnTraceCompleted
<1>9. CASE /\ traceJobs # <<>>
           /\ deferredQueue' = Append(deferredQueue, Head(traceJobs))
           /\ toWorker' = [toWorker EXCEPT ![w] =
                 Append(@, Trace(Head(traceJobs), refJobs'[Head(traceJobs)]))]
           /\ numBusy' = numBusy - 1 + 1
  <2>1. PICK h \in Jobs : h = Head(traceJobs)
    BY <1>7, <1>9, HeadTailProperties
  <2>2. h = Len(deferredQueue) + 1 /\ Len(deferredQueue') = h
    BY <1>7, <1>9, <2>1, EmptySeq, AppendProperties
  <2>3. toWorker'[w] = <<Trace(h, refJobs'[h])>>
    BY <1>2, <1>9, <2>1 DEF TypeOK, SharedTypeOK
  <2>4. HasJob(w, h)'
    BY <1>1, <1>2, <2>3 DEF HasJob, HasPosted, At
  <2>5. ASSUME NEW k \in Jobs
        PROVE  (\E v \in Workers : HasJob(v, k)') <=>
                   \/ k = h
                   \/ k # j /\ \E v \in Workers : HasJob(v, k)
    <3>1. HasJob(w, k)' <=> k = h
      BY <2>4, JobUniqueNext
    <3>2. HasJob(w, k) <=> k = j
      BY <1>2, <1>3, JobUnique
    <3>3. \A v \in Workers \ {w} : HasJob(v, k)' <=> HasJob(v, k)
      BY <1>9, OthersKeepJobs DEF TypeOK, SharedTypeOK
    <3>4. k = j => \A v \in Workers \ {w} : ~HasJob(v, k)
      BY <1>3 DEF IInv, OneWorkerPerJob
    <3>. QED  BY <3>1, <3>2, <3>3, <3>4
  <2>6. numBusy' # 0
    BY <1>4, <1>9 DEF TypeOK, PageTypeOK
  <2>7. Unfinished' = Unfinished \ {j}
    <3>1. ASSUME NEW k \in Jobs PROVE k \in Unfinished' <=> k \in Unfinished /\ k # j
      BY <1>2, <1>7, <2>2, <2>5 DEF Unfinished, Jobs
    <3>. QED  BY <3>1 DEF Unfinished
  <2>8. Pending' = Pending \ {j}
    BY <1>4, <2>6, <2>7 DEF PendingUnfinished
  <2>. QED  BY <1>2, <1>5, <2>8 DEF RenderFinishes
<1>10. CASE traceJobs = <<>> /\ numBusy - 1 = 0 /\ iteration_completed(0)
  <2>1. Busy = {w}
    BY <1>3, <1>10, BusyWithout
  <2>2. deferredQueue = AllJobs
    BY <1>7, <1>10, ConcatEmptySeq DEF IInv, QueuesKeepJobs, AllJobs
  <2>3. Pending = {j}
    <3>1. ASSUME NEW v \in Workers, NEW k \in Jobs, HasJob(v, k) PROVE k = j
      BY <1>2, <1>3, <2>1, <3>1, JobUnique DEF Busy
    <3>2. Len(deferredQueue) = NumJobs
      BY <2>2, AllJobsSeq
    <3>3. Unfinished = {j}
      BY <1>2, <1>3, <3>1, <3>2, SharedAssumption DEF Unfinished, Jobs
    <3>. QED  BY <1>4, <3>3 DEF PendingUnfinished
  <2>4. CASE next_iteration(0)
    <3>1. \A v \in Workers : /\ toWorker[v] = <<>> /\ toPage'[v] = <<>>
                             /\ pc'[v] = "listen" /\ ready'[v] /\ xTracer'[v]
      BY <1>1, <1>2, <1>6, <2>1 DEF Waiting, At, OnTraceCompleted, Receive, TypeOK, SharedTypeOK
    <3>2. Pending' = Jobs
      BY <1>7, <2>2, <2>4, <3>1, RoundBegins DEF next_iteration, TypeOK, PageTypeOK
    <3>. QED  BY <1>2, <1>5, <2>3, <3>2 DEF RenderFinishes
  <2>5. CASE numBusy' = 0
    BY <1>2, <1>5, <2>3, <2>5 DEF RenderFinishes, PendingUnfinished
  <2>. QED  BY <1>10, <2>4, <2>5 DEF iteration_completed
<1>11. CASE /\ traceJobs = <<>> /\ numBusy - 1 # 0 /\ numBusy' = numBusy - 1
            /\ UNCHANGED <<deferredQueue, toWorker>>
  <2>1. Waiting(w)'
    BY <1>1, <1>2, <1>11 DEF Waiting, At
  <2>2. ASSUME NEW k \in Jobs
        PROVE  (\E v \in Workers : HasJob(v, k)') <=> k # j /\ \E v \in Workers : HasJob(v, k)
    <3>1. ~HasJob(w, k)'
      BY <2>1, NoJobNext
    <3>2. HasJob(w, k) <=> k = j
      BY <1>2, <1>3, JobUnique
    <3>3. \A v \in Workers \ {w} : HasJob(v, k)' <=> HasJob(v, k)
      BY <1>11, OthersKeepJobs
    <3>4. k = j => \A v \in Workers \ {w} : ~HasJob(v, k)
      BY <1>3 DEF IInv, OneWorkerPerJob
    <3>. QED  BY <3>1, <3>2, <3>3, <3>4
  <2>3. Unfinished' = Unfinished \ {j}
    <3>1. ASSUME NEW k \in Jobs PROVE k \in Unfinished' <=> k \in Unfinished /\ k # j
      BY <1>2, <1>7, <1>11, <2>2 DEF Unfinished, Jobs
    <3>. QED  BY <3>1 DEF Unfinished
  <2>4. Pending' = Pending \ {j}
    BY <1>4, <1>11, <2>3 DEF PendingUnfinished, TypeOK, PageTypeOK
  <2>. QED  BY <1>2, <1>5, <2>4 DEF RenderFinishes
<1>. QED  BY <1>8, <1>9, <1>10, <1>11 DEF process_queue

\* start_trace between iterations begins a round, unless reset_trace has made it look for
\* jobs in the wrong queue: then nothing happens.
LEMMA StartBegins ==
    ASSUME TypeOK, TypeOK', IInv, PendingUnfinished, PendingUnfinished', numBusy = 0,
           NEW n \in Nat, NEW time \in Nat, start_trace(n, time),
           \A v \in Workers : /\ toWorker[v] = <<>> /\ toPage'[v] = <<>>
                              /\ pc'[v] = "listen" /\ ready'[v] /\ xTracer'[v]
    PROVE  RenderBegins \/ RenderStutter
<1>1. /\ traceJobs \in Seq(Jobs) /\ deferredQueue \in Seq(Jobs)
      /\ refJobs' = refJobs /\ refJobs' \in [Jobs -> Nat]
      /\ deferredQueue \o traceJobs = AllJobs
  BY DEF IInv, QueuesKeepJobs, AllJobs, TypeOK, PageTypeOK, start_trace
<1>2. Pending = {}
  BY DEF PendingUnfinished
<1>3. CASE traceJobs = <<>> /\ iterations_completed > 0
  <2>1. deferredQueue = AllJobs
    BY <1>1, <1>3, ConcatEmptySeq
  <2>2. Pending' = Jobs
    BY <1>1, <1>3, <2>1, RoundBegins DEF start_trace, next_iteration
  <2>. QED  BY <1>1, <1>2, <2>2 DEF RenderBegins
<1>4. CASE traceJobs = <<>> /\ ~(iterations_completed > 0)
  <2>1. trace(traceJobs, deferredQueue, 0)
    BY <1>4 DEF start_trace
  <2>2. numBusy' = 0
    BY <1>1, <1>4, <2>1, JobsHandedOut
  <2>3. Pending' = {}
    BY <2>2 DEF PendingUnfinished
  <2>. QED  BY <1>1, <1>2, <2>3 DEF RenderStutter
<1>5. CASE deferredQueue = <<>> /\ iterations_completed = 0
  <2>1. traceJobs = AllJobs
    BY <1>1, <1>5, ConcatEmptySeq
  <2>2. trace(traceJobs, <<>>, 0)
    BY <1>5 DEF start_trace
  <2>3. Pending' = Jobs
    BY <1>1, <2>1, <2>2, RoundBegins
  <2>. QED  BY <1>1, <1>2, <2>3 DEF RenderBegins
<1>. QED  BY <1>3, <1>4, <1>5 DEF IInv, Boundaries

\* Each step of the system keeps the round, begins one, or finishes a bucket.
LEMMA RoundStep ==
    ASSUME TypeOK, IInv, TypeOK', IInv', PendingUnfinished, PendingUnfinished',
           ~StartWhileBusy, [Next]_vars
    PROVE  RenderStutter \/ RenderBegins \/ \E j \in Jobs : RenderFinishes(j)
<1>1. ASSUME NEW w \in Workers, OnMemoryInitialized(w), UNCHANGED workerVars
      PROVE  RenderStutter
  <2>1. /\ Booting(w) /\ Booting(w)'
        /\ \A v \in Workers \ {w} : toWorker'[v] = toWorker[v] /\ toPage'[v] = toPage[v]
    BY <1>1, MemoryInitializedBoots
  <2>2. UNCHANGED <<refJobs, numBusy, deferredQueue, pc, jobData>>
    BY <1>1 DEF OnMemoryInitialized, pageVars, queueVars, workerVars
  <2>3. \A v \in Workers, j \in Jobs : HasJob(v, j)' <=> HasJob(v, j)
    BY <2>1, <2>2, NoJob, NoJobNext, OtherWorker
  <2>. QED  BY <2>2, <2>3, SameRound DEF RenderStutter
<1>2. ASSUME NEW w \in Workers, OnInitialized(w), UNCHANGED workerVars
      PROVE  RenderStutter \/ RenderBegins
  <2>1. numBusy = 0 /\ toPage'[w] = <<>>
    BY <1>2, InitializedBoots
  <2>2. CASE numReady' = CPU_available /\ start_trace(1, 0)
    <3>1. \A v \in Workers : ready'[v]
      <4>1. /\ IsFiniteSet(Workers) /\ Cardinality(Workers) = CPU_available
            /\ Cardinality({v \in Workers : ready'[v]}) = CPU_available
        BY <2>2, BusyFinite, SharedAssumption, FS_Interval DEF Workers, IInv, Counters
      <4>2. {v \in Workers : ready'[v]} = Workers
        BY <4>1, FS_Subset
      <4>. QED  BY <4>2
    <3>2. \A v \in Workers : v # w => ready[v] /\ toPage'[v] = toPage[v]
      BY <1>2, <3>1 DEF OnInitialized, Receive, TypeOK, PageTypeOK, SharedTypeOK
    <3>3. ASSUME NEW v \in Workers
          PROVE  /\ toWorker[v] = <<>> /\ toPage'[v] = <<>>
                 /\ pc'[v] = "listen" /\ ready'[v] /\ xTracer'[v]
      BY <1>2, <2>1, <3>1, <3>2, InitializedBoots DEF Waiting, At, workerVars
    <3>. QED  BY <2>1, <2>2, <3>3, StartBegins
  <2>3. CASE UNCHANGED <<refJobs, queueVars, requestVars, toWorker>>
    <3>1. Pending = {} /\ Pending' = {}
      BY <2>1, <2>3 DEF queueVars, PendingUnfinished
    <3>. QED  BY <2>3, <3>1 DEF RenderStutter
  <2>. QED  BY <1>2, <2>2, <2>3 DEF OnInitialized
<1>3. ASSUME NEW w \in Workers, Page(w)
      PROVE  RenderStutter \/ RenderBegins \/ \E j \in Jobs : RenderFinishes(j)
  BY <1>1, <1>2, <1>3, ReportFinishes DEF Page, OnTracerMessage
<1>4. ASSUME NEW w \in Workers, Worker(w)
      PROVE  RenderStutter
  <2>1. UNCHANGED <<refJobs, numBusy, deferredQueue>>
    BY <1>4 DEF Worker, pageVars, queueVars
  <2>. QED  BY <1>4, <2>1, WorkerKeepsJobs, SameRound DEF RenderStutter
<1>5. CASE CallStart
  <2>1. PICK n \in Iterations, time \in Times : StartTrace(n, time)
    BY <1>5 DEF CallStart
  <2>2. numBusy = 0 /\ \A v \in Workers : ready[v] /\ xTracer[v] /\ Waiting(v)
    BY <1>5, IdleWaits
  <2>3. /\ UNCHANGED <<pc, xTracer, ready, toPage>>
        /\ start_trace(n, time)
    BY <1>5, <2>1 DEF CallStart, Call, StartTrace, workerVars
  <2>4. \A v \in Workers : /\ toWorker[v] = <<>> /\ toPage'[v] = <<>>
                           /\ pc'[v] = "listen" /\ ready'[v] /\ xTracer'[v]
    BY <2>2, <2>3 DEF Waiting, At
  <2>5. n \in Nat /\ time \in Nat
    BY SystemAssumption
  <2>. QED  BY <2>2, <2>3, <2>4, <2>5, StartBegins
<1>6. CASE CallStop \/ CallReset \/ UNCHANGED vars
  <2>1. UNCHANGED <<refJobs, numBusy, deferredQueue, toWorker, toPage, pc, jobData>>
    BY <1>6 DEF CallStop, CallReset, Call, StopTrace, ResetTrace, vars, pageVars, queueVars,
                workerVars, sharedVars
  <2>2. \A v \in Workers, j \in Jobs : HasJob(v, j)' <=> HasJob(v, j)
    BY <2>1, OtherWorker
  <2>. QED  BY <2>1, <2>2, SameRound DEF RenderStutter
<1>. QED  BY <1>3, <1>4, <1>5, <1>6 DEF Next

\* What ProgressiveRender calls these steps.
LEMMA RoundStepMaps ==
    ASSUME RenderStutter \/ RenderBegins \/ \E j \in Jobs : RenderFinishes(j)
    PROVE  [Render!RenderNext]_(Render!renderVars)
<1>1. CASE RenderStutter
  BY <1>1 DEF RenderStutter, Pending, Render!renderVars
<1>2. CASE RenderBegins
  BY <1>2 DEF RenderBegins, Pending, Render!BeginRound, Render!RenderNext
<1>3. ASSUME NEW j \in Jobs, RenderFinishes(j) PROVE Render!RenderNext
  <2>1. Render!FinishBucket(j)
    BY <1>3 DEF RenderFinishes, Pending, Render!FinishBucket
  <2>. QED  BY <2>1 DEF Render!RenderNext
<1>. QED  BY <1>1, <1>2, <1>3

\* The page starts between rounds, none rendered.
LEMMA RoundInit == Init => Render!RenderInit
BY DEF Init, PageInit, Render!RenderInit

\* However the messages interleave, the page and its workers refine the image in rounds:
\* every bucket once in each, and no round before the last bucket of the one before it.
THEOREM RendersInRoundsRefinement == ASSUME ~StartWhileBusy PROVE Spec => RendersInRounds
<1>1. TypeOK /\ IInv /\ TypeOK' /\ IInv' /\ PendingUnfinished /\ PendingUnfinished'
        /\ [Next]_vars => [Render!RenderNext]_(Render!renderVars)
  BY RoundStep, RoundStepMaps
<1>2. Spec => []PendingUnfinished
  BY TypeCorrect, IInvInvariant, PendingIsUnfinished, PTL
<1>. QED  BY <1>1, <1>2, RoundInit, TypeCorrect, IInvInvariant, PTL
          DEF Spec, RendersInRounds, Render!RenderSpec

\* Buckets that are finished in this round are one sample ahead of those that are not.
LEMMA RoundBalanced ==
    ASSUME TypeOK, Render!Balanced,
           RenderStutter \/ RenderBegins \/ \E j \in Jobs : RenderFinishes(j)
    PROVE  Render!Balanced'
<1> DEFINE Difference(a, b, P) == (IF a \notin P /\ b \in P THEN 1 ELSE 0)
                                   - (IF a \in P /\ b \notin P THEN 1 ELSE 0)
<1>1. refJobs \in [Jobs -> Nat]
  BY DEF TypeOK, PageTypeOK
<1>2. \A a, b \in Jobs : refJobs[a] = refJobs[b] + Difference(a, b, Pending)
  BY <1>1 DEF Render!Balanced, Pending
<1>3. SUFFICES ASSUME NEW a \in Jobs, NEW b \in Jobs
               PROVE  refJobs'[a] = refJobs'[b] + Difference(a, b, Pending')
  BY <1>1 DEF Render!Balanced, Pending, RenderStutter, RenderBegins, RenderFinishes
<1>4. CASE RenderStutter
  BY <1>2, <1>4 DEF RenderStutter
<1>5. CASE RenderBegins
  BY <1>1, <1>2, <1>5 DEF RenderBegins
<1>6. ASSUME NEW j \in Jobs, RenderFinishes(j)
      PROVE  refJobs'[a] = refJobs'[b] + Difference(a, b, Pending')
  BY <1>1, <1>2, <1>6 DEF RenderFinishes
<1>. QED  BY <1>4, <1>5, <1>6

\* No two parts of the image differ by more than one sample per pixel.
THEOREM BucketsBalanced == ASSUME ~StartWhileBusy PROVE Spec => []Render!Balanced
<1>1. TypeOK /\ IInv /\ TypeOK' /\ IInv' /\ PendingUnfinished /\ PendingUnfinished'
        /\ Render!Balanced /\ [Next]_vars => Render!Balanced'
  BY RoundStep, RoundBalanced
<1>2. Init => Render!Balanced
  BY DEF Init, PageInit, Render!Balanced
<1>3. Spec => []PendingUnfinished
  BY TypeCorrect, IInvInvariant, PendingIsUnfinished, PTL
<1>. QED  BY <1>1, <1>2, <1>3, TypeCorrect, IInvInvariant, PTL DEF Spec
=============================================================================
