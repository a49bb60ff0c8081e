-------------------------- MODULE TessellationCache --------------------------
(* The lazy tessellation cache that Embree's render threads share: a ring of  *)
(* segments of one buffer, filled one after the other.  A thread holds its    *)
(* own counter while it uses a patch; whoever switches to the next segment    *)
(* first raises every counter and waits for the patches in use.               *)
(* Source: src/embree/kernels/subdiv/tessellation_cache.{h,cpp}.              *)
EXTENDS Integers, Sequences, FiniteSets

CONSTANTS Threads,               \* render threads
          Entries,               \* cache entries, one per patch of the scene
          NUM_CACHE_SEGMENTS,
          TAG_SIGN,              \* the first time that sets the sign bit of a tag: 2^23
          BlockCounts,           \* the sizes of the buffer, in blocks
          Shapes,                \* what a constructor allocates: a sequence of block counts
          MaxLookups,            \* bound: lookups in all
          MaxResizes,            \* bound: calls of resizeTessellationCache
          MaxUpdates,            \* bound: buffers that are set or updated
          MaxTime,               \* bound: the local time
          NoThread

ASSUME CacheAssumption ==
    /\ NUM_CACHE_SEGMENTS \in Nat \ {0, 1} /\ TAG_SIGN \in Nat \ {0}
    /\ BlockCounts # {} /\ BlockCounts \subseteq Nat
    /\ Shapes \subseteq Seq(Nat \ {0}) /\ <<>> \notin Shapes
    /\ MaxLookups \in Nat /\ MaxResizes \in Nat /\ MaxUpdates \in Nat /\ MaxTime \in Nat
    /\ NoThread \notin Threads

VARIABLES maxBlocks, localTime, next_block, switch_block_threshold,
          reset_state, linkedlist_mtx,  \* the thread that holds each lock, or NoThread
          current_t_state,              \* the threads in the list
          counter,                      \* a thread's lock: its own hold, and a resetter's
          tag, mutex,                   \* of an entry
          memory,                       \* what was written last to a block
          commitCounterSubdiv,
          pc, entry, time, todo, index, patch, outlived,  \* of a thread
          cursor, waitsFor, resizing,   \* of the thread that holds reset_state
          lookups, resizes,             \* how many were made
          intruded                      \* a thread has entered while the others were blocked

cacheVars == <<maxBlocks, localTime, next_block, switch_block_threshold>>
lockVars == <<reset_state, linkedlist_mtx, current_t_state>>
entryVars == <<tag, mutex, memory, commitCounterSubdiv>>
callVars == <<entry, time, todo, index, patch, outlived>>
resetVars == <<cursor, waitsFor, resizing>>
boundVars == <<lookups, resizes>>
vars == <<cacheVars, lockVars, counter, entryVars, pc, callVars, resetVars, boundVars, intruded>>

NoTag == [index |-> 0, patch |-> {}, time |-> 0]
Free == [entry |-> NoThread, time |-> 0, commit |-> 0]
SegmentBlocks(n) == n \div NUM_CACHE_SEGMENTS
getTime == localTime + NUM_CACHE_SEGMENTS * commitCounterSubdiv

\* A tag has 24 bits for the time, in the upper bits of an int64_t: what extractCommitIndex gets
\* back is the time modulo 2^24, and negative from 2^23 on.
extractCommitIndex(T) ==
    LET low == T % (2 * TAG_SIGN) IN IF low < TAG_SIGN THEN low ELSE low - 2 * TAG_SIGN
\* The comparison is one of size_t: a negative number is larger than any time.
validCacheIndex(i) ==
    \/ i + (NUM_CACHE_SEGMENTS - 1) < 0
    \/ i + (NUM_CACHE_SEGMENTS - 1) >= getTime
validTag(g) == g.patch # {} /\ validCacheIndex(g.index)

\* For the properties: is a patch of this time, had all its bits been kept, one of the segments
\* that are not reused yet?
Current(T) == T + (NUM_CACHE_SEGMENTS - 1) >= getTime

Goto(t, label) == pc' = [pc EXCEPT ![t] = label]
At(t, label) == pc[t] = label
lockThread(t) == counter' = [counter EXCEPT ![t] = @ + 1]
unlockThread(t) == counter' = [counter EXCEPT ![t] = @ - 1]

\* After the device has given the cache its first buffer: the first segment is open.
Init == /\ maxBlocks \in BlockCounts
        /\ localTime = 2 * NUM_CACHE_SEGMENTS /\ next_block = 0
        /\ switch_block_threshold = SegmentBlocks(maxBlocks)
        /\ reset_state = NoThread /\ linkedlist_mtx = NoThread /\ current_t_state = {}
        /\ counter = [t \in Threads |-> 0]
        /\ tag = [e \in Entries |-> NoTag] /\ mutex = [e \in Entries |-> NoThread]
        /\ memory = [b \in 0 .. maxBlocks - 1 |-> Free]
        /\ commitCounterSubdiv = 0
        /\ pc = [t \in Threads |-> "new"]
        /\ entry = [t \in Threads |-> NoThread] /\ time = [t \in Threads |-> 0]
        /\ todo = [t \in Threads |-> <<>>] /\ index = [t \in Threads |-> 0]
        /\ patch = [t \in Threads |-> {}] /\ outlived = [t \in Threads |-> FALSE]
        /\ cursor = {} /\ waitsFor = NoThread /\ resizing = FALSE
        /\ lookups = 0 /\ resizes = 0
        /\ intruded = FALSE

\* The first threadState() of a thread: its counter joins the list.
getNextRenderThreadWorkState(t) ==
    /\ At(t, "new") /\ linkedlist_mtx = NoThread
    /\ current_t_state' = current_t_state \union {t}
    /\ Goto(t, "idle")
    /\ UNCHANGED <<cacheVars, reset_state, linkedlist_mtx, counter, entryVars, callVars,
                   resetVars, boundVars, intruded>>

------------------------------------------------------------------------------
\* lookup(entry, globalTime, constructor)

Lookup(t, e) ==
    /\ At(t, "idle") /\ lookups < MaxLookups
    /\ lookups' = lookups + 1
    /\ entry' = [entry EXCEPT ![t] = e]
    /\ Goto(t, "lock")
    /\ UNCHANGED <<cacheVars, lockVars, counter, entryVars, time, todo, index, patch, outlived,
                   resetVars, resizes, intruded>>

\* Mutant: the loop of lockThreadLoop is forgotten.
LockThreadOnce(t) ==
    /\ At(t, "lock") /\ lockThread(t) /\ Goto(t, "probe")
    /\ UNCHANGED <<cacheVars, lockVars, entryVars, callVars, resetVars, boundVars, intruded>>

\* lockThreadLoop: a counter that was one belongs to a resetter.
LockThread(t) ==
    /\ At(t, "lock") /\ lockThread(t)
    /\ Goto(t, IF counter[t] = 1 THEN "backoff" ELSE "probe")
    /\ UNCHANGED <<cacheVars, lockVars, entryVars, callVars, resetVars, boundVars, intruded>>

BackOff(t) ==
    /\ At(t, "backoff") /\ unlockThread(t) /\ Goto(t, "await")
    /\ UNCHANGED <<cacheVars, lockVars, entryVars, callVars, resetVars, boundVars, intruded>>

\* waitForUsersLessEqual(t_state, 0)
AwaitReset(t) ==
    /\ At(t, "await") /\ counter[t] = 0 /\ Goto(t, "lock")
    /\ UNCHANGED <<cacheVars, lockVars, counter, entryVars, callVars, resetVars, boundVars,
                   intruded>>

Probe(t) ==
    /\ At(t, "probe")
    /\ \/ /\ validTag(tag[entry[t]])
          /\ patch' = [patch EXCEPT ![t] = tag[entry[t]].patch]
          /\ outlived' = [outlived EXCEPT ![t] = FALSE]
          /\ time' = [time EXCEPT ![t] = tag[entry[t]].time]
          /\ Goto(t, "use")
       \/ /\ ~validTag(tag[entry[t]])
          /\ Goto(t, "try")
          /\ UNCHANGED <<patch, outlived, time>>
    /\ UNCHANGED <<cacheVars, lockVars, counter, entryVars, entry, todo, index, resetVars,
                   boundVars, intruded>>

\* try_lock of the entry: another thread may build it, or have built it meanwhile.
TryBuild(t) ==
    LET e == entry[t] IN
    /\ At(t, "try")
    /\ \/ /\ mutex[e] = NoThread /\ ~validTag(tag[e])
          /\ mutex' = [mutex EXCEPT ![e] = t]
          /\ time' = [time EXCEPT ![t] = getTime]
          /\ \E shape \in Shapes : todo' = [todo EXCEPT ![t] = shape]
          /\ patch' = [patch EXCEPT ![t] = {}]
          /\ Goto(t, "alloc")
          /\ UNCHANGED counter
       \/ /\ mutex[e] # NoThread \/ validTag(tag[e])
          /\ unlockThread(t) /\ Goto(t, "lock")
          /\ UNCHANGED <<mutex, time, todo, patch>>
    /\ UNCHANGED <<cacheVars, lockVars, tag, memory, commitCounterSubdiv, entry, index, outlived,
                   resetVars, boundVars, intruded>>

\* alloc(blocks): a request that cannot fit throws, through lookup and its locks.
Alloc(t) ==
    /\ At(t, "alloc")
    /\ \/ /\ Head(todo[t]) >= switch_block_threshold
          /\ Goto(t, "thrown")
          /\ UNCHANGED <<next_block, index>>
       \/ /\ Head(todo[t]) < switch_block_threshold
          /\ index' = [index EXCEPT ![t] = next_block]
          /\ next_block' = next_block + Head(todo[t])
          /\ Goto(t, "check")
    /\ UNCHANGED <<maxBlocks, localTime, switch_block_threshold, lockVars, counter, entryVars,
                   entry, time, todo, patch, outlived, resetVars, boundVars, intruded>>

CheckAlloc(t) ==
    /\ At(t, "check")
    /\ Goto(t, IF index[t] + Head(todo[t]) >= switch_block_threshold THEN "release" ELSE "fill")
    /\ UNCHANGED <<cacheVars, lockVars, counter, entryVars, callVars, resetVars, boundVars,
                   intruded>>

Blocks(t) == index[t] .. index[t] + Head(todo[t]) - 1
Stamp(t) == [entry |-> entry[t], time |-> time[t], commit |-> commitCounterSubdiv]

\* Each piece is written as soon as it is allocated; the root comes last.
Fill(t) ==
    /\ At(t, "fill")
    /\ memory' = [b \in DOMAIN memory |-> IF b \in Blocks(t) THEN Stamp(t) ELSE memory[b]]
    /\ patch' = [patch EXCEPT ![t] = @ \union Blocks(t)]
    /\ todo' = [todo EXCEPT ![t] = Tail(@)]
    /\ Goto(t, IF Len(todo[t]) = 1 THEN "publish" ELSE "alloc")
    /\ UNCHANGED <<cacheVars, lockVars, counter, tag, mutex, commitCounterSubdiv, entry, time,
                   index, outlived, resetVars, boundVars, intruded>>

\* The tag carries the time read before the constructor ran, as far as its bits go; the
\* whole time is kept beside it for the properties.
Publish(t) ==
    LET e == entry[t] IN
    /\ At(t, "publish")
    /\ tag' = [tag EXCEPT ![e] = [index |-> extractCommitIndex(time[t]), patch |-> patch[t],
                                  time |-> time[t]]]
    /\ outlived' = [outlived EXCEPT ![t] = ~Current(time[t])]
    /\ mutex' = [mutex EXCEPT ![e] = NoThread]
    /\ Goto(t, "answer")
    /\ UNCHANGED <<cacheVars, lockVars, counter, memory, commitCounterSubdiv, entry, time, todo,
                   index, patch, resetVars, boundVars, intruded>>

\* The entry is read again after its lock is free: null when the tag has expired.
Answer(t) ==
    /\ At(t, "answer")
    /\ patch' = [patch EXCEPT ![t] = IF validTag(tag[entry[t]]) THEN @ ELSE {}]
    /\ Goto(t, "use")
    /\ UNCHANGED <<cacheVars, lockVars, counter, entryVars, entry, time, todo, index, outlived,
                   resetVars, boundVars, intruded>>

\* The caller is done with the patch.
Unlock(t) ==
    /\ At(t, "use") /\ unlockThread(t) /\ Goto(t, "idle")
    /\ patch' = [patch EXCEPT ![t] = {}] /\ outlived' = [outlived EXCEPT ![t] = FALSE]
    /\ entry' = [entry EXCEPT ![t] = NoThread] /\ time' = [time EXCEPT ![t] = 0]
    /\ index' = [index EXCEPT ![t] = 0]
    /\ UNCHANGED <<cacheVars, lockVars, entryVars, todo, resetVars, boundVars, intruded>>

------------------------------------------------------------------------------
\* malloc after a failed alloc, allocNextSegment, and realloc

\* Mutant: the thread waits for the switch while its patch is still counted as in use.
ReleaseStillCounted(t) ==
    /\ At(t, "release") /\ UNCHANGED counter /\ Goto(t, "next")
    /\ UNCHANGED <<cacheVars, lockVars, entryVars, callVars, resetVars, boundVars, intruded>>

Release(t) ==
    /\ At(t, "release") /\ unlockThread(t) /\ Goto(t, "next")
    /\ UNCHANGED <<cacheVars, lockVars, entryVars, callVars, resetVars, boundVars, intruded>>

\* try_lock of reset_state, else wait for who has it.
allocNextSegment(t) ==
    /\ At(t, "next")
    /\ \/ /\ reset_state = NoThread /\ reset_state' = t /\ Goto(t, "full")
       \/ /\ reset_state # NoThread /\ Goto(t, "wait") /\ UNCHANGED reset_state
    /\ UNCHANGED <<cacheVars, linkedlist_mtx, current_t_state, counter, entryVars, callVars,
                   resetVars, boundVars, intruded>>

WaitUntilUnlocked(t) ==
    /\ At(t, "wait") /\ reset_state = NoThread /\ Goto(t, "relock")
    /\ UNCHANGED <<cacheVars, lockVars, counter, entryVars, callVars, resetVars, boundVars,
                   intruded>>

CheckFull(t) ==
    /\ At(t, "full")
    /\ Goto(t, IF next_block >= switch_block_threshold THEN "list" ELSE "leave")
    /\ UNCHANGED <<cacheVars, lockVars, counter, entryVars, callVars, resetVars, boundVars,
                   intruded>>

\* resizeTessellationCache of a thread that is not rendering.
Resize(t) ==
    /\ At(t, "idle") /\ resizes < MaxResizes /\ reset_state = NoThread
    /\ resizes' = resizes + 1
    /\ reset_state' = t /\ resizing' = TRUE
    /\ Goto(t, "list")
    /\ UNCHANGED <<cacheVars, linkedlist_mtx, current_t_state, counter, entryVars, callVars,
                   cursor, waitsFor, lookups, intruded>>

LockList(t) ==
    /\ At(t, "list") /\ linkedlist_mtx = NoThread
    /\ linkedlist_mtx' = t /\ cursor' = current_t_state
    /\ Goto(t, "block")
    /\ UNCHANGED <<cacheVars, reset_state, current_t_state, counter, entryVars, callVars,
                   waitsFor, resizing, boundVars, intruded>>

\* Raise every counter of the list; one that is one already is in use: wait for its thread.
BlockThread(t, u) ==
    /\ At(t, "block") /\ u \in cursor /\ lockThread(u)
    /\ cursor' = cursor \ {u}
    /\ \/ counter[u] = 1 /\ waitsFor' = u /\ Goto(t, "drain")
       \/ counter[u] # 1 /\ UNCHANGED <<waitsFor, pc>>
    /\ UNCHANGED <<cacheVars, lockVars, entryVars, callVars, resizing, boundVars, intruded>>

\* waitForUsersLessEqual(t, 1)
Drain(t) ==
    /\ At(t, "drain") /\ counter[waitsFor] <= 1
    /\ waitsFor' = NoThread /\ Goto(t, "block")
    /\ UNCHANGED <<cacheVars, lockVars, counter, entryVars, callVars, cursor, resizing,
                   boundVars, intruded>>

\* addCurrentIndex; realloc takes a new buffer and expires all segments at once.
AdvanceTime(t) ==
    /\ At(t, "block") /\ cursor = {}
    /\ \/ /\ ~resizing /\ localTime < MaxTime
          /\ localTime' = localTime + 1 /\ UNCHANGED <<maxBlocks, memory>>
       \/ /\ resizing /\ localTime' = localTime + NUM_CACHE_SEGMENTS
          /\ maxBlocks' \in BlockCounts \ {maxBlocks}
          /\ memory' = [b \in 0 .. maxBlocks' - 1 |-> Free]
    /\ Goto(t, "place")
    /\ UNCHANGED <<next_block, switch_block_threshold, lockVars, counter, tag, mutex,
                   commitCounterSubdiv, callVars, resetVars, boundVars, intruded>>

PlaceNextBlock(t) ==
    /\ At(t, "place")
    /\ next_block' = (localTime % NUM_CACHE_SEGMENTS) * SegmentBlocks(maxBlocks)
    /\ Goto(t, "limit")
    /\ UNCHANGED <<maxBlocks, localTime, switch_block_threshold, lockVars, counter, entryVars,
                   callVars, resetVars, boundVars, intruded>>

\* next_block is read again: a thread that entered meanwhile has moved it.
SetThreshold(t) ==
    /\ At(t, "limit")
    /\ switch_block_threshold' = next_block + SegmentBlocks(maxBlocks)
    /\ cursor' = current_t_state /\ Goto(t, "unblock")
    /\ UNCHANGED <<maxBlocks, localTime, next_block, lockVars, counter, entryVars, callVars,
                   waitsFor, resizing, boundVars, intruded>>

UnblockThread(t, u) ==
    /\ At(t, "unblock") /\ u \in cursor /\ unlockThread(u)
    /\ cursor' = cursor \ {u}
    /\ UNCHANGED <<cacheVars, lockVars, entryVars, pc, callVars, waitsFor, resizing, boundVars,
                   intruded>>

UnlockList(t) ==
    /\ At(t, "unblock") /\ cursor = {}
    /\ linkedlist_mtx' = NoThread /\ Goto(t, "leave")
    /\ UNCHANGED <<cacheVars, reset_state, current_t_state, counter, entryVars, callVars,
                   resetVars, boundVars, intruded>>

LeaveReset(t) ==
    /\ At(t, "leave")
    /\ reset_state' = NoThread /\ resizing' = FALSE
    /\ Goto(t, IF resizing THEN "idle" ELSE "relock")
    /\ UNCHANGED <<cacheVars, linkedlist_mtx, current_t_state, counter, entryVars, callVars,
                   cursor, waitsFor, boundVars, intruded>>

\* malloc locks its thread again without looking whether a resetter has it blocked.
Relock(t) ==
    /\ At(t, "relock") /\ lockThread(t) /\ Goto(t, "alloc")
    /\ intruded' = (intruded \/ counter[t] > 0)
    /\ UNCHANGED <<cacheVars, lockVars, entryVars, callVars, resetVars, boundVars>>

------------------------------------------------------------------------------
\* setBuffer and updateBuffer of a subdivision mesh (for any buffer but the levels) raise the
\* counter of the scene at once, while nobody renders.  Nothing else does: neither the commit nor
\* update, setMask, setTessellationRate or setDisplacementFunction.
updateBuffer ==
    /\ commitCounterSubdiv < MaxUpdates
    /\ \A t \in Threads : pc[t] \in {"new", "idle"}
    /\ commitCounterSubdiv' = commitCounterSubdiv + 1
    /\ UNCHANGED <<cacheVars, lockVars, counter, tag, mutex, memory, pc, callVars, resetVars,
                   boundVars, intruded>>

Render(t) ==
    \/ getNextRenderThreadWorkState(t)
    \/ LockThread(t) \/ BackOff(t) \/ AwaitReset(t) \/ Probe(t) \/ TryBuild(t)
    \/ Alloc(t) \/ CheckAlloc(t) \/ Fill(t) \/ Publish(t) \/ Answer(t) \/ Unlock(t)
    \/ Release(t) \/ allocNextSegment(t) \/ WaitUntilUnlocked(t) \/ CheckFull(t)
    \/ LockList(t) \/ (\E u \in Threads : BlockThread(t, u) \/ UnblockThread(t, u)) \/ Drain(t)
    \/ AdvanceTime(t) \/ PlaceNextBlock(t) \/ SetThreshold(t) \/ UnlockList(t) \/ LeaveReset(t)
    \/ Relock(t)

Call(t) == Resize(t) \/ \E e \in Entries : Lookup(t, e)

Next == updateBuffer \/ \E t \in Threads : Render(t) \/ Call(t)

Spec == Init /\ [][Next]_vars

\* Every thread runs; nobody has to call.
FairSpec == Spec /\ \A t \in Threads : WF_vars(Render(t))

------------------------------------------------------------------------------
Labels == {"new", "idle", "lock", "backoff", "await", "probe", "try", "alloc", "check", "fill",
           "publish", "answer", "use", "thrown", "release", "next", "wait", "full", "list",
           "block", "drain", "place", "limit", "unblock", "leave", "relock"}
\* Where a thread holds its own counter for a patch.
Inside(t) == pc[t] \in {"probe", "try", "alloc", "check", "fill", "publish", "answer", "use",
                        "release", "thrown"}
Switching(t) == pc[t] \in {"place", "limit"}
Region == localTime % NUM_CACHE_SEGMENTS

\* The kinds of the state.
TypeOK ==
    /\ maxBlocks \in BlockCounts /\ localTime \in Nat
    /\ next_block \in Nat /\ switch_block_threshold \in Nat
    /\ reset_state \in Threads \union {NoThread}
    /\ linkedlist_mtx \in Threads \union {NoThread}
    /\ current_t_state \subseteq Threads
    /\ counter \in [Threads -> Nat]
    /\ tag \in [Entries -> [index : Int, patch : SUBSET Nat, time : Nat]]
    /\ mutex \in [Entries -> Threads \union {NoThread}]
    /\ memory \in [0 .. maxBlocks - 1 ->
           [entry : Entries \union {NoThread}, time : Nat, commit : Nat]]
    /\ commitCounterSubdiv \in Nat
    /\ pc \in [Threads -> Labels]
    /\ entry \in [Threads -> Entries \union {NoThread}]
    /\ time \in [Threads -> Nat] /\ index \in [Threads -> Nat]
    /\ todo \in [Threads -> Seq(Nat \ {0})]
    /\ patch \in [Threads -> SUBSET Nat] /\ outlived \in [Threads -> BOOLEAN]
    /\ cursor \subseteq Threads /\ waitsFor \in Threads \union {NoThread}
    /\ resizing \in BOOLEAN /\ intruded \in BOOLEAN
    /\ lookups \in Nat /\ resizes \in Nat

------------------------------------------------------------------------------
\* A patch in use is what was built for its entry from the buffers as they are, and nothing
\* has been written over it, however many segments were switched meanwhile.  Three exceptions,
\* all of the code: the time has used up the bits of a tag, so that expired tags read as valid;
\* a thread has entered during a switch; and a patch that expired while it was built and whose
\* entry another thread has built again before the answer.
PatchIntact ==
    ~intruded /\ getTime < TAG_SIGN => \A t \in Threads : At(t, "use") /\ ~outlived[t] =>
        \A b \in patch[t] : /\ b \in DOMAIN memory
                            /\ memory[b].entry = entry[t] /\ memory[b].time = time[t]
                            /\ memory[b].commit = commitCounterSubdiv

\* While the cache is moved to another segment, no thread holds a patch.
SwitchExclusive ==
    ~intruded => \A t, u \in Threads : Switching(t) => ~Inside(u)

\* No two threads are ever writing the same blocks, and they write in the open segment only.
FillsDisjoint ==
    ~intruded => \A t \in Threads : At(t, "fill") =>
        /\ Blocks(t) \subseteq Region * SegmentBlocks(maxBlocks) ..
                               (Region + 1) * SegmentBlocks(maxBlocks) - 1
        /\ \A u \in Threads \ {t} : At(u, "fill") => Blocks(t) \cap Blocks(u) = {}

\* A counter is its thread's own hold and the resetter's, and nothing else: none is lost
\* or given back twice, on any path.
Raised(u) == \E t \in Threads :
    \/ pc[t] \in {"block", "drain"} /\ u \in current_t_state \ cursor
    \/ pc[t] \in {"place", "limit"} /\ u \in current_t_state
    \/ pc[t] = "unblock" /\ u \in cursor
CountersBalanced ==
    \A u \in Threads : counter[u] = (IF Inside(u) \/ At(u, "backoff") THEN 1 ELSE 0)
                                    + (IF Raised(u) THEN 1 ELSE 0)

\* The cache keeps every promise above at once.
CacheInv == /\ TypeOK /\ PatchIntact /\ SwitchExclusive /\ FillsDisjoint /\ CountersBalanced

\* Every lookup returns: nobody waits for ever for a counter, a lock or a segment, unless a patch
\* was larger than a segment: that exception leaves its entry and its thread locked.
LookupsReturn ==
    \A t \in Threads : At(t, "lock") ~> (At(t, "use") \/ \E u \in Threads : At(u, "thrown"))
==============================================================================
