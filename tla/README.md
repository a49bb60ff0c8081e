# A verification of x-ray-kernel

x-ray-kernel is a path tracer. Its newest part, under `src/kernel/turbo`, runs
in a browser: a page (`test/main.js`) cuts the image into buckets of 32 x 32
pixels and hands them to a pool of Web Workers (`test/thread.js`,
`src/worker/xray-tracer.ts`) that trace them into memory they all share. The
tracing itself is written in turbo.js (`turbo/src/**/*.tts`), translated by hand
from the Go path tracer kept beside it (`src/kernel/pt-go`). The repository also
carries its intersection kernels, Embree, as source of its own (`src/embree`):
most of the lines, and most of the concurrency.

This directory holds TLA+ modules that model the system, TLC configurations
that check them on small instances, and proofs for TLAPS. Paths below are
relative to the repository, mostly to `src/kernel/` or to `src/embree/`.

## 1. The parts of the system

| part | code | state | operations | how it interacts |
|---|---|---|---|---|
| page scheduler | `turbo/test/main.js` | job queues `traceJobs`, `deferredQueue`, per-job counts in `refJobs`, counters `numReady`, `numBusy`, the request (`iterations_target`, `maximum_time`, `interruptTracing`), the canvas | `init`, `initTracers`, `onTracerMessage`, `start_trace`, `stop_trace`, `reset_trace`, `trace`, `process_queue`, `iteration_completed`, `next_iteration` | posts messages to workers, writes their stop flags, reads the pixels they write |
| worker handler | `turbo/test/thread.js` | shared buffers, the tracer object | `INIT_MEMORY`, `INIT`, `TRACE` | one message at a time; answers each with an event |
| worker tracer | `turbo/src/worker/xray-tracer.ts` | `iterations`, `locked`, the loop position | `trace`, `run`, `updatePixel`, `lock` | reads its flag, loads and stores shared samples and pixels |
| Go renderer | `pt-go/renderer.go`, `buffer.go` | one pixel buffer, a channel of finished rows, a WaitGroup of image writers | `run`, `Render`, `IterativeRender`, `FrameRender`, `TimedRender`, `ChannelRender` | goroutines share the buffer without locks |
| k-d tree | `pt-go/tree.go`, `box.go`, `turbo/src/turbo/{tree,box}.tts` | immutable nodes | `Split`, `Partition`, `Intersect` | called by the scene and by meshes |
| scene and caches | `turbo/src/turbo/scene.tts`, `shapes/*.tts`, `pt-go/{scene,mesh,shape}.go` | shapes, lights, tree, ray counter, cached boxes | `Add`, `Commit`, `Clear`, `Compile`, mesh transforms | built by the page, read by every worker |
| sampler, material | `tracer/sampler.tts`, `turbo/material.tts` | shared material records | `sample`, `sampleLights`, `MaterialAt` | overwrite colours in shared memory |
| pixel statistics, indices | `tracer/buffer.tts`, `utils/util.tts`, `pt-go/{obj,texture,poisson}.go` | one pixel, an index, a grid | `AddSample`, `Median`, `parseIndex`, bilinear filter | pure |
| geometry and colour | `turbo/{vector,matrix,color,camera}.tts`, `shapes/*.tts` | none | floating-point formulas | pure |
| C++ copies, API stubs, build | `pt`, `common`, `src/api`, `src/x-ray-kernel.cpp` | | | `pt` is the Go text again; the stubs are connected to nothing |
| Embree: scene | `kernels/common/{scene,geometry,buffer}.cpp`, `kernels/bvh/bvh_builder_twolevel.cpp` | meshes by ID, free IDs, counters, flags, the hierarchies | new, enable, disable, update, map, set filter, delete, commit | the application calls; builders read the counters |
| Embree: scene commit | `kernels/common/scene.cpp` (`build`) | `scheduler`, two mutexes | `rtcCommit`, `rtcCommitThread` | threads that find a scheduler join it |
| Embree: task scheduler | `common/tasking/taskschedulerinternal.{h,cpp}` | a task stack per thread, dependency counters, counters of threads and busy threads | `spawn_root`, `spawn`, `wait`, `join`, `steal` | threads steal from each other's stacks |
| Embree: tessellation cache | `kernels/subdiv/tessellation_cache.{h,cpp}` | a ring of segments, a time, a counter per render thread, a tag per patch | `lookup`, `malloc`, `allocNextSegment`, `realloc` | every render thread, without a lock on the fast path |
| Embree: fast allocator | `kernels/common/alloc.h` | lists of blocks, a current block per slot, a block per thread | `malloc`, `reset`, `cleanup`, `shrink`, `clear` | all threads of a build |
| Embree: linear barrier | `common/sys/barrier.cpp` | two arrays of flags, a mode | `wait` | thread 0 collects, the others spin |
| Embree: the rest | `common/{simd,math,sys}`, `kernels/{bvh,geometry,builders,subdiv}`, `kernels/common/rtcore.cpp` | | vector instructions, box heuristics, patches, API wrappers | |

What makes each part correct:

- page and workers: every bucket is traced exactly once per iteration; no two
  workers are in one bucket; the brightness a pixel is shown with is the mean of
  the samples it really got; a stop is obeyed and a trace ends;
- Go renderer: each row is finished once per run, whatever the number of
  goroutines; `run` returns; a snapshot is a whole number of iterations;
- k-d tree: the hit found is the nearest of a linear scan;
- scene and caches: what is traced is what was added;
- pure parts: they compute what their names say at the edges of their domains;
- Embree's scene: rays see what the application wrote last, IDs and counters
  agree with the meshes; a commit that reports success has built the scene, and
  concurrent commits all return;
- task scheduler: every task runs once, parents outlive their children, nobody
  reaches into a freed structure, exceptions reach the caller;
- tessellation cache: nothing is written over a patch in use, and no
  thread waits for ever;
- allocator: pieces never overlap, blocks are neither lost nor freed twice;
- barrier: nobody leaves a round that a thread has not entered.

Hard to test, and listed line by line in `PROJECT.json` under `hazards`:
completions from several workers in any order, unsynchronised shared memory,
flags read before a store, calls from the console at a bad moment, counters
that must return to zero, caches that go stale; in Embree, counters and locks
that are given back on every path, structures freed by the last thread, and what a
failed build leaves behind.

## 2. Plan

| step | modules | state |
|---|---|---|
| A | `TraceShared`, `TracePage`, `TraceWorker`, composed in `TraceSystem`; abstract `ProgressiveRender`; `TraceInvariant`, proofs | done |
| B | `Renderer` (the Go renderer), its proofs, the refinement of `ProgressiveRender` | done |
| C | `KdTree`: building and traversal, against a linear scan | done |
| D | `SceneCache` and its proofs: what Go's meshes and scene remember | done |
| E | `TessellationCache`, its proofs | done |
| F | `TaskScheduler`, its proofs, the refinement of the abstract `ForkJoin` | done |
| G | `EmbreeScene`: one application thread; `SceneBuild`: many threads that commit; the proofs of both | done |
| H | `FastAllocator`, its proofs | done |
| I | `LinearBarrier`, its proofs (in `SceneBuild_proofs`), the refinement of the abstract `BarrierSpec` | done |

No module with proofs uses RECURSIVE operators; `KdTree` has them, and TLC alone
checks it.

## 3. The modules

### Step A: the page and its workers

`TraceShared` declares what page and workers share: `flags`, `sampleMemory`,
`pixelMemory` (the three SharedArrayBuffers of main.js:34-36) and the two message
ports of every worker (`toWorker`, `toPage`), FIFO queues as the browser
guarantees. Workers and jobs are numbered from 1. A bucket is its job's number
and a pixel is a place in a bucket, because the buckets are disjoint rectangles.
A colour is abstracted to the number of samples that were added: `sampleMemory`
counts them, and a shaded pixel is the pair [samples, iterations] whose quotient
the code writes. Messages that no handler acts on (`BOOTED`, `LOCKED`, and the
`STOP_TRACE` nobody sends) are left out.

`TracePage` has one action per event of `onTracerMessage` and one per function
offered at the console. Functions that a handler calls (`trace`,
`next_iteration`, `iteration_completed`, `process_queue`, `start_trace`) are
operators with the source's names; a JavaScript handler runs to completion, so
each is part of its caller's action. `ElapsedTimes` stands for the clock.

`TraceWorker` follows one worker with a program counter. Taking a message and
running up to the first access of memory that another thread writes is one step;
each later look at the stop flag, each load and each store is its own. `sampleMemory[si]
+= x` is a load and a store. `data.blockIterations` is in no job the page makes,
so the branch of xray-tracer.ts:109-116 is dead. `HandleInit` and `HandleTrace` are guarded
by what the code would throw without; `HandshakeOrdered` says that the guards are
never what holds a message back.

`TraceSystem` composes them with a user at the console (`CallStart`, `CallStop`,
`CallReset`). Only calls after the workers are ready are modelled. `StartWhileBusy`
says whether `start_trace` may be called while an iteration runs: the page does
not check, and if it happens after the first iteration buckets are posted twice
or lost (see the run trace_busy_start for what survives). The properties that
need it to be FALSE are checked and proved with it FALSE.

`ProgressiveRender` is the promise: the image is refined in rounds, each tracing
every bucket once, and a round begins when the previous one is finished.
`TraceSystem!Render` maps `rounds` to the `init_iterations` of the jobs and
`pending` to the buckets queued or in flight.

`TraceInvariant` holds the two inductive invariants of step A: `IInv` (the conversations of the page
with its workers) and `MemoryInv` (what the shared memory holds at each point of
a worker's loop). `MCTraceSystem` is the instance for TLC; every other step but I has an `MC` module
too.

### Step B: the Go renderer

`Renderer` models `pt-go/renderer.go`. One goroutine (`Main`) calls `run`, which
starts `NumCPU` goroutines over the rows; goroutine `i` takes rows `i`, `i + NumCPU`,
... and sends a token for each into a channel of `Height` places. The five
functions that call `run` are told apart by `operation`; `mainPc` says where the call
is. A goroutine's pixel is sampled in three loops (base, adaptive, firefly); how
many samples the last two take depends on the colours and is chosen freely
within the code's bounds. `Pixel.AddSample` is a read (`Sample`) and a write
(`AddSample`), so a lost update would be seen. A pixel is the number of its
samples. `writeImage` goroutines create a file, then encode a copy of the buffer
into it; a path without `%` is one file for all iterations. A failed save panics,
which ends the program. The clock of `TimedRender` is a free choice, and
`ChannelRender`'s caller receives when it likes.

`Renderer!Render` maps the promise `ProgressiveRender`, with rows for buckets: a row is
pending until its goroutine has passed it, and a round begins with `StartRun`.

### Step C: the k-d tree

`KdTree` models `Split`, `Partition`, `PartitionScore`, `Median` and the two
`Intersect`s of pt-go/tree.go and of turbo's tree.tts, with the box test of
box.go and box.tts; the variable `turbo`, set with the scene, picks the language where they differ
(NaN in `math.Max`, the 85% bound of a good split, the box that starts at the origin, the T of a miss).
Coordinates are even integers and the components of a direction are 1, -1, 0 and
the negative zero, so that every quotient of the code is an integer, an infinity or
NaN, and the comparisons with NaN are those of the processor. `Compile` builds the
tree, and `Intersect` sends one ray through it. Shapes are right triangles in the planes of the
grid and, in Go, cubes; in turbo a tree of a mesh, so triangles.
(Nothing the page loads calls turbo's `Compile` at this commit: the call in `Commit` is
commented out, scene.tts:210. The model is of the tree it would build.)
That a hit carries the shape it belongs to is left out: a hit is its T.

`NearestHit` has one exception, `InFace`. A ray whose origin lies in a face of the tree's
box and whose direction has a negative zero across that face is lost, in both
languages: one quotient is NaN, the pair is not exchanged, and
the infinity that remains makes the interval empty. No comment or test of
the repository speaks of it; the model states where the guarantee ends.

### Step D: what meshes and the scene remember

`SceneCache` models pt-go/mesh.go and scene.go. A mesh remembers its box and its
tree, and `dirty` drops both; the scene builds its own tree once. Triangles are held by pointer, in a slice, so
after `a.Add(b)` the two meshes have triangles in common and a transformation of
one moves the other's, whose box and tree are then stale. The model
keeps that (`StaleOnlyByAliasing` says it is the only way to go stale) and a triangle is reduced
to a place on one axis, a box to its ends, and a transformation to a translation.
A slice is kept as how often each triangle is in it (`tris[m][t]`): after `a.Add(a)`, or a second `Add`
of a shared mesh, a triangle is in it twice, and `Transform` moves it twice. `MoveTo` then
tears the mesh apart and its corner misses the position, which is why `MoveToLands` asks that no triangle be held
twice. `Copy` clones every pointer into an unused triangle, so that its copy holds each once. `SceneAdd`, `Compile`: a
shape added or moved after the first `Compile` is looked for where it was, which
`CompileIndexes` leaves open. Calls are made one at a time, as the
examples make them; nothing in the code protects a render that is running.

### Step E: Embree's tessellation cache

`TessellationCache` models a ring of `NUM_CACHE_SEGMENTS` segments in one buffer. A render
thread raises its own counter, probes the tag of its patch, and either uses what is
there or takes the entry's mutex, allocates (an atomic addition to `next_block`),
fills, and publishes a tag with the time it began. A tag keeps 24 bits of that time, which are
read back with their sign and compared as unsigned (`extractCommitIndex`, `validCacheIndex`); `TAG_SIGN` is the first time
that sets the sign bit, 2^23 in the code. The thread that finds a segment
full takes `reset_state`, raises the counters of all threads in the list, one at a time, waits
for each to fall to its own hold, and moves the cache on. A patch is the set of its blocks;
a block remembers who wrote it, for which entry, time and buffers. An
allocation is a sequence of block counts, since a constructor may allocate more than once. `updateBuffer`
is what raises the time from outside: `setBuffer` and `updateBuffer` of a subdivision mesh, at once and not when
the scene is committed.

Three weaknesses of the code are kept and named in the properties. From time `TAG_SIGN` on expired tags read as
valid, so that `PatchIntact` claims nothing from then on (with no such exception TLC finds a patch in use that
another thread has written over). Two have history variables: a
thread's state that is added to the list during a switch is not blocked (`intruded`), and a patch that
expires while it is built may be replaced before the answer is read
(`outlived`). A patch larger than a segment throws with its entry and its
thread still locked; `LookupsReturn` claims nothing from then on.

### Step F: Embree's task scheduler

`TaskScheduler` follows every thread through two layers. `frames` is its stack of calls of
`Task::run`, each with a phase; `mode` is the place in `spawn_root`, `join`, the
thread pool's loop or `steal_loop` outside of them; `thief` is a steal in progress, whose
look, claim, test and take are separate steps, as the code has no lock. A closure spawns any of its
children in any order, waits if it likes, and may throw if it is in `Throwers`. A stack is an
array with `left` and `right`; a task that was stolen is a copy whose parent is
the task it was taken from. `Room` is a bound of the model: the code asserts in `push_right` that its stack has room,
and does not look when it steals, and what a full stack overwrites is not modelled.

`ForkJoin` is the promise: a tree of tasks, each spawned by a running parent, run
once, and completed after its children. `ForksAndJoins` is its refinement, with
`status` computed from the stacks. The tree of tasks is a constant: the closures of a program
decide what is spawned, and the scheduler only keeps to it.

### Step G: Embree's scene and its commit

`EmbreeScene` takes the calls of an application on triangle meshes one at a time. A
mesh's content is a number that every write raises; `tree` is what rays see,
`objects` the hierarchy of each mesh below it. The size of an
array is 0 or 1. `Commit` is the whole of `build_task`: hierarchies of
modified meshes, the tree over enabled ones, the intersectors, and the reset of the flags;
`CommitFails` is the same with an exception, and clears. With TBB the next commit builds again; with Embree's
own tasks it finds the scheduler of the failed one and does nothing, which is no step here. `WORD` is the width of a counter that may
fall below zero. The invariant names what the code does not keep: filters set on a disabled mesh
are counted twice (`drift`), a mesh deleted with a mapped buffer keeps
the scene from ever being built (`lost`), and two kinds of meshes are not in the tree (`missing`): those that were
not modified when a failed commit cleared their hierarchies, and those added to a static scene after
its build. Every other mesh is, in static scenes too.

`SceneBuild` is `Scene::build` by many threads. The first makes a scheduler, waits for
`threadCount` threads under `rtcCommitThread`, and spawns the root task; others find `this->scheduler`
and join. The root task is one action per step that another thread can notice, and a thread that joins may be
the one that runs it. A build that throws leaves its scheduler in the scene (`thrown`): later
commits join it, find nothing to do and report success, or wait with each other. Schedulers are numbers, and
one is taken again when nobody refers to it.

### Step H: Embree's allocator

`FastAllocator` counts memory in units. A thread cuts small pieces from a block of its own
(`local`), which it takes from the current block of its slot by an atomic addition
(`AddUnchecked`, `Add`) whose result may lie beyond the end. If so it grows the block, takes a free
one or creates one, under the one mutex or its slot's. `BeginBuild` to
`EndBuild` are the calls that builders make: `init_estimate` and `reset`, the part that the Morton
builder takes at once (`SpecialAlloc`), `cleanup`, `shrink`, `clear`. The memory monitor or the system may refuse a
block at any time, and the memory of a piece after the cursor has moved past it: the thread throws, and that piece is lost. A second `reset` before a `cleanup` forgets the blocks of the slots (`dropped`).

### Step I: Embree's linear barrier

`LinearBarrier` has one action per load or store of the flags of `LinearBarrierActive`, with
sequentially consistent memory. `BarrierSpec` says what its `wait` promises; that it is
implemented is proved, for every number of threads, at the end of `SceneBuild_proofs`; no run repeats it.

Each definition marked "Mutant" is a plausible bug in the operator that
follows it, used to see that a property notices it. Conjunctions such as `CacheInv` name the
parts of one invariant, each with its own comment.

## 4. The runs

| run | instance | what it shows |
|---|---|---|
| trace_memory | 2 workers, 3 buckets of 2 pixels, start, stop and reset, timed traces | safety of counters, queues, shared buffers, screen; the inductive invariant; the refinement of `ProgressiveRender` |
| trace_rounds | 2 workers, 3 buckets of 1 pixel, start and stop, fair | type correctness, a stopped trace drains, a trace completes, every bucket of every round is finished |
| trace_busy_start | 2 workers, 3 buckets, `StartWhileBusy` | `numBusy` still counts the jobs in flight; the first iteration is not disturbed |
| trace_restart | 1 worker, 1 bucket, start and stop | violated: a tracer that was stopped is never restarted |
| renderer | 2 goroutines, 3 rows of 1 pixel, every function, adaptive and firefly samples, saves that fail, fair | rows are exclusive, no send blocks, images and copies are whole, files are complete; the refinement of `ProgressiveRender`; runs and calls return |
| kd_tree | 8 to 15 triangles in turbo, 10 to 13 triangles and cubes in Go, 35 origins, 14 directions | every leaf holds what reaches its cell; the first hit is that of a linear scan |
| scene_cache | 2 meshes, 3 triangles, 3 places, a triangle held twice at most | a mesh whose triangles are its own is never stale, and others only by aliasing; `MoveTo` lands unless a triangle is held twice; `Compile` indexes every shape |
| tess_cache | 2 threads, 2 patches, 2 segments of 2 or 3 blocks, patches of 1 or 2 blocks, 3 lookups, a resize, an updated buffer, tags that overflow at time 9, fair | `CacheInv`: patches in use are intact until tags overflow, switches exclude users, fills are disjoint, counters balance; lookups return |
| task_tree | a tree of 4 tasks, 2 that may throw, the caller and one thread that joins or comes from the pool, fair | `SchedulerInv`: tasks run once, dependencies count, victims are alive, busy threads are counted, exceptions arrive, with the inductive invariant of the proofs; the refinement of `ForkJoin`; calls return |
| scene | 2 meshes, 4 contents, static and dynamic | `SceneInv`: nothing stale, nothing missing but what no build takes, IDs free or used, the four counters |
| scene_build | 3 threads, `rtcCommit` or all with `rtcCommitThread`, builds that throw, fair | `BuildInv`: one build at a time, joiners find a builder, reports are true; commits return |
| allocator | 3 threads in 2 slots, 3 blocks, pieces of 1 unit, of 9 and the Morton builder's 3, 2 builds, one lock or one per slot | `AllocatorInv`: pieces apart, blocks in one list, current blocks in use |

Bounds. `MaxIterations` caps the iterations the page completes (an endless trace
after `reset_trace` would count for ever); it is above what the calls of the
fair runs can ask for, so it cuts no liveness. `MaxCalls` = 2 gives stop/start,
start/start and reset/start. Three buckets for two workers make one worker
take a second bucket while the other is busy, and leave the last completion to
either; two pixels are enough for a stop between pixels. In the renderer's run `MaxRuns` = 2 shows
what an earlier run leaves to a later one; three rows for two goroutines give one of them a
second row; it caps only `TimedRender` and `ChannelRender`, for which no progress is claimed, since the
arguments of the other calls are at most `MaxRuns`. A tree is split from 8 shapes on; the scenes of the k-d run also
split a child again; origins lie inside, outside, on the faces and on the splitting planes, and the shapes
begin and end in those planes. In scene_cache, three triangles let two meshes share some
and not others, and give a copy room; `PointerBound` lets a mesh hold two pointers (two triangles or one twice),
which is what tells the two apart, and three places are what a triangle moved twice by one passes through. In
trace_rounds there is no limit of time and no `reset_trace`.

In tess_cache the ring wraps within three lookups, `MaxTime` is above what three lookups, a
resize and an updated buffer can reach, and `TAG_SIGN` lies between: times on both sides of it are reached. Four tasks are a child that has a child beside a sibling: one thread waits for a
task while the other has stolen from it. `TASK_STACK_SIZE` = 4 holds the whole tree, as the code
requires of its users, and `Room` never holds back a thief there. Two meshes show an ID used again beside one that is not;
four contents let each be written, committed, changed and committed. Three threads that
commit are a builder, one that joins it and one that finds the scene without a scheduler while
the first has not returned. In the allocator's run a block after the first holds what two threads take of it, so
their pieces lie in one block; three blocks and a thread of another slot, which takes the last free block
between the question and the lock, let two threads of a slot replace its block under two locks. A piece of nine units
is larger than any block, so that asking for it throws; pieces that are large but fit a block (which the thread's own block
does not serve) are left to the proof. `FewPieces` stops when four pieces are in use, and two are enough to overlap. In every run `CHECK_DEADLOCK FALSE`: the system
stops when the bounds are used up or nobody calls.

Fairness. `WF` of every worker's step and of the page's handling of each port:
the browser delivers every posted message and runs every thread. Console calls
have no fairness. In `Renderer`, `WF` of the calling goroutine, of each goroutine of
`run` and of the image writers: Go's scheduler runs every goroutine that can
run. The caller that receives from `ChannelRender` has none; a failed save panics, and
then nothing more is claimed. In `TessellationCache` and `TaskScheduler`, `WF` of each
thread's own steps; looking for a victim has none of its own, since a thread that finds
nothing looks again; the application's calls have none. In `SceneBuild`, `WF`
of each thread inside a commit and of the root task; `SF` of a thread that enters under
`rtcCommitThread`, since it competes for a mutex that others release and take again, and all are
required to call. `EmbreeScene` has one caller, and an
allocation that races others may try again without bound: both are checked for safety only.

The disagreement found (trace_restart): `stop_trace` sets a worker's flag to 2 and
nothing sets it back. xray-tracer.ts:104-107 is written to restart a locked
tracer, but the check of the flag at line 86 always returns first; after a stop
every later job comes back untraced and is counted as traced.

## 5. What is proved

`TraceSafety_proofs`: `Spec => []TypeOK` for all constants allowed by the
assumptions, whatever is called at the console; it includes that a worker's
pixel is in its bucket whenever it touches shared memory.
For `~StartWhileBusy`, `IInv` is inductive. `QueuesKeepJobs` and
`BucketsExclusive` are not inductive alone: that a handler does not post a bucket
twice depends on each ready worker having at most one job (`Conversations`), on
jobs differing between workers (`OneWorkerPerJob`), on `numBusy` counting them
(`Counters`), and on the queue being used up between iterations (`Boundaries`).
From it follow `QueuesKeepJobs`, `BucketsExclusive` and `BusyCountsWorkers`.
Three results need no such assumption and have invariants of their own there.
`HandshakeOrdered` holds for every behaviour of the console: a worker is in the handshake until it is ready, from
then on it has its tracer and is sent nothing but jobs, and none is sent before all are ready (`HandshakeInv`).
`FirstIterationSafe` holds wherever `reset_trace` is not called, even if `start_trace` interrupts the first
iteration: until that is complete, the jobs in flight are among those that have been handed out, and each is with
one worker (`EarlyInv`).
`BusyCountsInFlight` holds for every behaviour of the console and is inductive with `TypeOK`: a worker's step moves a job
on, the page takes a report and posts to a set of workers. What needs work is the sum over the workers, a fold, that is
a recursive function on sets: that it exists (`AddsExists`) and that raising some terms by one raises it by
their number (`AddsShift`) are shown with the least set on which it would fail, since strict inclusion is
well-founded on finite sets; the ports are counted by `OfAppended` and `OfTail`.

The same module proves, for `~StartWhileBusy`, what the shared memory holds: `MemoryInv` is inductive together
with `IInv`. A worker that has a bucket is alone with its pixels, so the proof follows one worker through `updatePixel`: before the pixel it is at, the
bucket's samples have the new iteration, after it they have the old, and the value it loaded is still what memory holds
when it stores. From it follow `ExposureCorrect` and `BucketsComplete`. `StopBoundsWrites` is an action property and
needs no assumption. `RendersInRoundsRefinement`: the page and its workers implement `ProgressiveRender`; the page's
handler of a `TRACED` event finishes a bucket, the one that begins the next iteration begins a round, every other step
stutters. `BucketsBalanced` carries the abstract promise over.

`Renderer_proofs`, for all numbers of goroutines, rows, columns and samples:
`Spec => []TypeOK`, and `RunInv`, the inductive invariant of `run`: `y[i] % NumCPU = i`, tokens
sent = rows finished, and outside `run` every goroutine has returned. From it follow
`RowsExclusive` (two goroutines in one row would have the same remainder),
`SendNeverBlocks` (a sender's row is not finished, so fewer than `Height` tokens exist) and
`SnapshotQuiescent` (`Height` tokens received mean every row finished, so every
goroutine is past the last row). `RowsInRoundsRefinement` proves that the renderer
implements `ProgressiveRender`: `StartRun` begins a round, `SendRow` finishes a bucket,
every other step stutters. `ImagesWhole` needs `BufferInv`, what a pixel holds in each of the three sampling loops,
and `CopiesInv`, since an image is copied at rest and never changes after; `FilesComplete` needs `FilesInv`, that each
iteration so far has a writer still at work or a complete file, and that the WaitGroup counts the writers. The lemmas
on `%` are proved from the definition of remainder.

`TessellationCache_proofs`, for all numbers of threads, entries, segments and blocks: `Spec => []CacheInv`. The
promises are not inductive: that a patch in use is intact depends on what nobody may write any more.
`CacheIndInv` therefore joins

- what holds always (`CoreInv`): who holds which lock (`LocksHeld`), that the list of threads has every thread and
  the resetter passes each once (`ListKept`), what a call remembers (`CallsKept`), `CountersBalanced`, and that no
  patch is younger than the clock (`TimesPast`);
- what holds until a thread enters the list during a switch (`Unintruded`): a thread that the resetter has shut
  out is not inside (`BlockedOut`), what is taken of the open segment lies in it and apart (`Placed`, `ClaimsApart`),
  and the blocks of a patch that is valid hold it, are not given out again, and were
  written in a segment not reused before the patch expires (`PatchesKept`, `TagsKept`, `UseFresh`).

The heart is arithmetic on the ring: two local times less than `NUM_CACHE_SEGMENTS` apart are segments without a
common block (`Residues`, `Apart`), so moving on to the next segment cannot reach a
patch that has not expired. That what a tag keeps of a time is the time itself before `TAG_SIGN`, so
that a valid tag is one that has not expired, is arithmetic of its own.

`SceneCache_proofs`, for all sets of meshes and triangles and all bounded sets of places:
`CacheInv` is inductive. It joins `TypeOK`, `UnsharedFresh` and `MadeOnly` (a mesh that does not exist yet remembers
nothing and is not in the scene), which `NewMesh` and `Copy` need, since they do not reset what is remembered. From
it follow the action properties `StaleOnlyByAliasing`, `MoveToLands` and `CompileIndexes`.

`EmbreeScene_proofs`, for all numbers of meshes and contents and every width `WORD` of a counter that is above the
number of meshes: `Spec => []SceneInv`. That rays see what was written last needs, between commits too, that the
hierarchy of a mesh that is not marked as modified holds its content or nothing (`ObjectsKept`), that a static scene
has no such hierarchies and cannot be changed once its builder is gone (`StaticKept`), and that no ID is free twice
(`UsedDistinct`). That they see all of it needs that in a dynamic scene a mesh that is neither `missing` nor
modified has a hierarchy with its content (`ObjectsThere`), and that the tree of a static scene that has been built has every enabled
mesh that is not `missing` (`TreeWhole`). The counters follow because a call changes one mesh at most (`Apart`), and that they are exact
modulo `WORD` is arithmetic (`CountSum`).

`SceneBuild_proofs`, for all finite sets of threads: `BuildInv` is inductive. What it promises
(`BuildExclusive`, `JoinersFindABuild`, `CommitBuilds`, `ErrorMeansUnbuilt`) is not inductive alone:
`Places` ties each place in the code to the mutex and the scheduler that a thread has there,
`Outcomes` ties what a root task has done and what threads have heard of it to the scene, and
`ThreadsCounted` says that a scheduler counts the threads inside it, so that none
counts itself out below zero. A scheduler that nobody refers to is used again, so
`ThreadsCounted` speaks of the others only.

`FastAllocator_proofs`, for all finite or infinite sets of threads and blocks, every number of slots and all sizes:
`Spec => []AllocatorInv`. The assumptions are that sizes are positive, that `allocBlockSize` is at most
`maxAllocationSize` and that a block holds at least what is taken of it. The promise is not inductive;
`AllocatorIndInv` adds what the code relies on:

- each list holds a block once and no two lists share one (`ListsApart`), which is what lets `reset` join the lists of
  the slots to the used blocks, and `clear` empty them, without losing a block or freeing one twice;
- what a slot uses, and what a thread is about to hand to its slot, is in use, and a thread that takes a free block under
  the lock finds one (`HeldInUse`), however long ago it looked at the slot;
- a piece lies below its block's cursor and within what is reserved (`PiecesTaken`), and so does
  what a thread keeps to allocate from, apart from that of every other thread and from the pieces others
  got (`LocalsTaken`): the cursor is moved by all, and only the difference that a thread's own addition makes is its own.

The blocks of the slots are joined by `FlattenSeq`, a recursive function. What it holds is shown by induction on sets:
a set of naturals has a least element (`LeastNatural`, from strict inclusion of finite sets being well-founded), so
a set with 1 and every successor is the whole interval (`IntervalInduction`). The library's induction theorems take an
operator as a parameter and cannot be used.

At its end `SceneBuild_proofs` proves of `LinearBarrier`, for every number of threads and rounds: `BarrierInvariant`,
that each phase of thread 0 and of the others agrees with the flags and the mode, and `ImplementsRendezvous`: nobody
leaves a round that a thread has not entered. That everybody leaves is liveness and is left to the reader
of the code; there is no run of this module.

`TaskScheduler_proofs`, for every tree of tasks, every finite set of helpers, of which any may join and the rest are
the pool's, every size of the stacks and whatever closures throw: `Spec => []SchedulerInv`. The assumptions are that
the helpers are finitely many, as the code counts them, and that every task descends from the root task. The promises
(`RunOnce`, `DependenciesCount`, `RootLast`, `BusyCounted`, `ThreadsAlive`, `ExceptionReachesRoot`) are not
inductive: that a counter is exact says nothing of who may still write to it. `Inductive` adds

- `FramesNested`: a thread's calls of `Task::run` are on ever higher slots of its stack, and all but the last wait for
  what lies above them, so what a call works on is at the right end of its stack;
- `StacksKept`: what a slot may hold, which is the root task, a child above its parent, or a thief's copy of the task in
  the slot that its parent pointer names, and that this slot stays for as long as the copy may signal it;
- `Grounded`: the parent pointers make no circle. Of any set of tasks that are not finished, one has a parent, the task it
  will signal, outside of the set; a task that is pushed or stolen is new, so nobody's parent yet;
- `OnePlace`: a task that is still to run is so in one place, the slot it was pushed to or that of a copy, never both,
  although thieves look, claim, test and take in separate steps and `left` may be wrong in between;
- `NoneSkipped`: unless something was thrown, what was spawned has run or will, with all its children;
- `ThreadsCounted` and `RootOutlasts`: what the two counters count, and that the root thread leaves the work last.

There is one lemma per action (`StartKeeps` to `PushRootKeeps`); where an action writes a slot, steps of their own say how
the cardinality in `DependenciesCount` changes when a task begins, moves to a thief, signals or is given back. From
`Grounded` follows that once the root thread's stack is empty every task has signalled (`NothingUnfinished`), so that a
thread that is not counted as busy has nothing left: `BusyCounted` and `RootLast`.

`SchedulerForksAndJoins` proves the refinement of `ForkJoin` from it. Each step leaves `status` alone (`Still`), or
begins, spawns or completes one task (`StartedOne`, `SpawnedOne`, `PoppedOne`). That a task completes after its children,
and that a child's parent is still running, needs `Chain`: if any copy of a task is unfinished, so is the
original, by `Grounded` again. A closure that throws may leave children unspawned; `Complete` allows that.
The module has some 7,500 obligations; `tlapm` takes a quarter of an hour for it, and a few minutes for each of the others.

Only model-checked: the k-d tree (`LeavesComplete` and `NearestHit`; its operators are recursive), and everything
temporal with fairness (liveness and ENABLED are out of the prover's reach).

## 6. What is not modelled

The map covers a small share of the repository's lines, because most of them, some 70,000, are Embree's
kernels: one template per kind of primitive, width of vector and instruction set, each a formula
over floating-point vectors without shared state (`common/simd`, `common/math`, `kernels/geometry`,
most of `kernels/bvh`, `kernels/builders`, `kernels/subdiv`). A model checker has nothing to
interleave there, and TLA+ has no floating-point numbers; what could be
checked is not control. What carries Embree's state and concurrency is modelled. In detail:

- the colours and the optics, vectors, matrices and shapes (floating-point formulas); loading of models
  and textures (input); pixel statistics (floating-point sums); the generated bundles
  `xray-kernel-turbo.{ts,js}` and `bin/`; the API stubs;
- turbo's scene: `Commit` leaves its tree pointer at zero (the call of `Compile` is commented out), so nothing
  is built that a worker could find stale; its ray counter and the shared material that `MaterialAt`
  overwrites are data races on values that no control depends on;
- a worker whose tracer throws: `numBusy` never returns to zero, and nothing handles it;
- of Go's meshes, `FitInside`, `UnitCube`, normals and materials: transformations, or data;
- the C++ in `pt` holds the Go text under other names and has no concurrency of its own; the map names
  its lines where the two are the same;
- Embree's scene: meshes with two time steps, the other kinds of geometry (the same calls with
  counters of their own), instances, and the opening of large nodes, which changes no content;
- how threads wait for a commit with TBB (`TASKING_TBB`), where they do not join; what the commit does to the meshes
  is the same, and is modelled;
- Embree's barriers of the operating systems, `BarrierActive` (unused by the library), condition
  variables and the thread pool's start and end: calls of the operating system;
- memory orders: every model is sequentially consistent. The copy of a
  reference-counted pointer is one step;
- wrappers of the API (`rtcore.cpp`), options and detection of the processor.

Constants of Embree that are sizes (`TASK_STACK_SIZE`, `NUM_CACHE_SEGMENTS`, block sizes) are small in the
runs; alignment and statistics are left out.
