---------------------- MODULE TessellationCache_proofs ----------------------
(* The invariant of the tessellation cache, for every number of threads,      *)
(* entries, segments and sizes: Spec => []CacheInv.  The inductive invariant  *)
(* says where each lock is, that nobody who is shut out by a switch is inside, *)
(* what of the open segment is taken, and of each patch that is still valid   *)
(* that its blocks hold it and lie in no segment that is reused before it     *)
(* expires.  All but the first part holds until a thread enters in a switch;  *)
(* that what is read from a tag is so, while the bits of a tag suffice.       *)
(* Source: src/embree/kernels/subdiv/tessellation_cache.{h,cpp}.              *)
EXTENDS TessellationCache, SequenceTheorems, TLAPS

\* Where a thread holds the list of the threads, and where it holds reset_state.
ListLabels == {"block", "drain", "place", "limit", "unblock"}
ResetLabels == ListLabels \union {"full", "list", "leave"}

\* A thread that is where a lock is held holds it: one thread at most is there.
LocksHeld == \A t \in Threads : /\ pc[t] \in ListLabels => linkedlist_mtx = t
                                /\ pc[t] \in ResetLabels => reset_state = t

\* The list has every thread that has started, and the resetter goes through it.
ListKept == /\ cursor \subseteq current_t_state
            /\ \A t \in Threads : /\ pc[t] # "new" => t \in current_t_state
                                  /\ pc[t] = "drain" => waitsFor \in current_t_state \ cursor
                                  /\ pc[t] \in {"place", "limit"} => cursor = {}

\* A call knows its entry while it searches and what it still has to allocate while it builds.
CallsKept ==
    \A t \in Threads :
        /\ pc[t] \in {"lock", "backoff", "await", "probe", "try"} => entry[t] \in Entries
        /\ pc[t] \in {"alloc", "check", "fill", "release", "next", "wait", "full", "relock"}
               => todo[t] # <<>>
        /\ pc[t] \in ResetLabels /\ ~resizing => todo[t] # <<>>
        /\ outlived[t] => pc[t] \in {"answer", "use"}

\* Where a thread is says what it has.
Places == LocksHeld /\ ListKept /\ CallsKept

\* No patch is younger than the clock, and a tag has what it can keep of its time.
TimesPast == /\ \A t \in Threads : time[t] <= getTime
             /\ \A e \in Entries : /\ tag[e].time <= getTime
                                   /\ tag[e].index = extractCommitIndex(tag[e].time)

\* The resetter has raised the counter of a thread and does not wait for it any more.
Shut(u) == \E t \in Threads : /\ pc[t] \in {"block", "drain", "place", "limit"}
                              /\ u \in current_t_state \ cursor
                              /\ ~(pc[t] = "drain" /\ waitsFor = u)

\* A thread that is shut out holds no patch.
BlockedOut == \A u \in Threads : Shut(u) => ~Inside(u)

\* The blocks of the segment that is open at a local time, and where the open one lies.
Segment(w) == (w % NUM_CACHE_SEGMENTS) * SegmentBlocks(maxBlocks) ..
              ((w % NUM_CACHE_SEGMENTS) + 1) * SegmentBlocks(maxBlocks) - 1
SegStart == Region * SegmentBlocks(maxBlocks)
SegEnd == (Region + 1) * SegmentBlocks(maxBlocks)

\* A thread that has taken blocks, and one whose blocks are inside the open segment.
Taken(t) == pc[t] \in {"check", "fill"}
Claims(t) == Taken(t) /\ index[t] + Head(todo[t]) < switch_block_threshold

\* Between the switches the open segment is filled from its start; what is taken is in it.
Placed ==
    /\ (\A t \in Threads : ~Switching(t)) => switch_block_threshold = SegEnd
    /\ (\A t \in Threads : ~At(t, "place")) => next_block >= SegStart
    /\ \A t \in Threads : At(t, "limit") => next_block = SegStart
    /\ \A t \in Threads : Taken(t) => index[t] >= SegStart /\ index[t] + Head(todo[t]) <= next_block
    /\ \A t \in Threads : At(t, "fill") => Claims(t)

\* No two threads have taken the same block.
ClaimsApart == \A t, u \in Threads : t # u /\ Taken(t) /\ Taken(u) => Blocks(t) \cap Blocks(u) = {}

\* What the open segment has not given out yet starts here.
OpenFrom == IF \E t \in Threads : At(t, "place") THEN SegStart ELSE next_block

\* A block was written in a segment that was open at a time the patch has seen.
WrittenSince(b, T) == \E w \in 0 .. localTime :
    w + NUM_CACHE_SEGMENTS * commitCounterSubdiv >= T /\ b \in Segment(w)

\* A block of a patch holds the patch, and nobody is about to write over it.
KeptAt(b, e, T) ==
    /\ b \in DOMAIN memory
    /\ memory[b] = [entry |-> e, time |-> T, commit |-> commitCounterSubdiv]
    /\ b \notin OpenFrom .. SegEnd - 1
    /\ \A u \in Threads : Claims(u) => b \notin Blocks(u)
    /\ WrittenSince(b, T)
Kept(P, e, T) == \A b \in P : KeptAt(b, e, T)

\* The patch that a thread builds or uses is kept while it is valid.
PatchesKept == \A t \in Threads :
    /\ pc[t] \notin {"lock", "backoff", "await", "probe", "try"}
    /\ ~outlived[t] /\ Current(time[t])
    => Kept(patch[t], entry[t], time[t])

\* So is the patch of an entry.
TagsKept == \A e \in Entries : Current(tag[e].time) => Kept(tag[e].patch, e, tag[e].time)

\* While the bits of a tag suffice, a patch in use that was valid when it was answered is valid
\* now.
UseFresh == getTime < TAG_SIGN => \A t \in Threads :
    pc[t] \in {"answer", "use"} /\ ~outlived[t] => Current(time[t])

\* What holds always, what holds until a thread enters in a switch, and both.
CoreInv == TypeOK /\ LocksHeld /\ ListKept /\ CallsKept /\ CountersBalanced /\ TimesPast
Unintruded == BlockedOut /\ Placed /\ ClaimsApart /\ PatchesKept /\ TagsKept /\ UseFresh
CacheIndInv == CoreInv /\ (~intruded => Unintruded)

\* A number is its quotient's multiple and its remainder.
LEMMA Division == ASSUME NEW n \in Nat \ {0}, NEW a \in Nat
                  PROVE  a \div n \in Int /\ a % n \in Nat /\ a = n * (a \div n) + (a % n)
  <1>1. a \div n \in Int /\ a % n \in Nat
    OBVIOUS
  <1>2. a = n * (a \div n) + (a % n)
    OBVIOUS
  <1> QED BY <1>1, <1>2

\* Two times less than a round apart are in different segments of the ring.
LEMMA Residues == ASSUME NEW n \in Nat \ {0}, NEW a \in Nat, NEW b \in Nat, a < b, b < a + n
                  PROVE a % n # b % n
 <1>1. SUFFICES ASSUME a % n = b % n PROVE FALSE
   OBVIOUS
 <1>2. PICK p \in Int : a = n * p + (a % n)
   BY Division
 <1>3. PICK q \in Int : b = n * q + (b % n)
   BY Division
 <1>4. a % n \in Int /\ b % n \in Int
   BY Division
 <1>5. b - a = n * (q - p)
   BY <1>1, <1>2, <1>3, <1>4
 <1>6. q - p < 1
   <2>1. CASE q - p >= 1
     <3>1. n * (q - p) >= n
       BY <2>1
     <3> QED BY <3>1, <1>5
   <2> QED BY <2>1
 <1>7. n * (q - p) <= 0
   BY <1>6
 <1> QED BY <1>5, <1>7

\* A segment ends before a later one begins.
LEMMA Order == ASSUME NEW s \in Nat, NEW i \in Nat, NEW j \in Nat, i < j PROVE (i+1) * s <= j * s
  OBVIOUS

\* Two segments of the ring share no block.
LEMMA Apart == ASSUME NEW s \in Nat, NEW i \in Nat, NEW j \in Nat, i # j,
                      NEW b \in i * s .. (i+1) * s - 1
               PROVE b \notin j * s .. (j+1) * s - 1
  <1>1. CASE i < j
    <2>1. (i+1)*s <= j*s
      BY <1>1, Order
    <2> QED BY <2>1
  <1>2. CASE j < i
    <2>1. (j+1)*s <= i*s
      BY <1>2, Order
    <2> QED BY <2>1
  <1> QED BY <1>1, <1>2

USE CacheAssumption

\* The size of a segment is a number.
LEMMA SegmentTyped == ASSUME NEW n \in Nat PROVE SegmentBlocks(n) \in Nat
  BY DEF SegmentBlocks

\* The product of two numbers is one.
LEMMA Product == ASSUME NEW m \in Nat, NEW n \in Nat PROVE m * n \in Nat
  OBVIOUS

\* The clock is a number, and the open segment is one of the ring's.
LEMMA ClockTyped == TypeOK => getTime \in Nat /\ Region \in Nat /\ Region < NUM_CACHE_SEGMENTS
  <1> SUFFICES ASSUME TypeOK PROVE getTime \in Nat /\ Region \in Nat /\ Region < NUM_CACHE_SEGMENTS
    OBVIOUS
  <1>1. localTime \in Nat /\ commitCounterSubdiv \in Nat /\ NUM_CACHE_SEGMENTS \in Nat \ {0}
    BY DEF TypeOK
  <1>2. NUM_CACHE_SEGMENTS * commitCounterSubdiv \in Nat
    BY <1>1, Product
  <1> QED BY <1>1, <1>2 DEF getTime, Region

\* A time below the sign bit is read back from a tag as it was stored.
LEMMA ReadBack == ASSUME NEW T \in Nat, T < TAG_SIGN PROVE extractCommitIndex(T) = T
  <1>1. 2 * TAG_SIGN \in Nat /\ T < 2 * TAG_SIGN
    OBVIOUS
  <1>2. T % (2 * TAG_SIGN) = T
    BY <1>1
  <1> QED BY <1>2 DEF extractCommitIndex

\* What is read back can be stored.
LEMMA ReadBackTyped == ASSUME NEW T \in Nat PROVE extractCommitIndex(T) \in Int
  <1>1. 2 * TAG_SIGN \in Nat \ {0}
    OBVIOUS
  <1>2. T % (2 * TAG_SIGN) \in Int
    BY <1>1
  <1> QED BY <1>1, <1>2 DEF extractCommitIndex

\* The labels are labels.
LEMMA Named == /\ "idle" \in Labels /\ "lock" \in Labels /\ "backoff" \in Labels
               /\ "await" \in Labels /\ "probe" \in Labels /\ "try" \in Labels
               /\ "alloc" \in Labels /\ "check" \in Labels /\ "fill" \in Labels
               /\ "publish" \in Labels /\ "answer" \in Labels /\ "use" \in Labels
               /\ "thrown" \in Labels /\ "release" \in Labels /\ "next" \in Labels
               /\ "wait" \in Labels /\ "full" \in Labels /\ "list" \in Labels
               /\ "block" \in Labels /\ "drain" \in Labels /\ "place" \in Labels
               /\ "limit" \in Labels /\ "unblock" \in Labels /\ "leave" \in Labels
               /\ "relock" \in Labels
  BY DEF Labels

\* The head and the tail of a list of allocations.
LEMMA Tails == ASSUME NEW s \in Seq(Nat \ {0}), s # <<>>
               PROVE  /\ Head(s) \in Nat \ {0} /\ Tail(s) \in Seq(Nat \ {0})
                      /\ Len(s) # 1 => Tail(s) # <<>>
  <1>1. Len(s) \in Nat \ {0}
    BY EmptySeq
  <1>2. Head(s) \in Nat \ {0} /\ Tail(s) \in Seq(Nat \ {0}) /\ Len(Tail(s)) = Len(s) - 1
    BY HeadTailProperties
  <1>3. Len(s) # 1 => Len(Tail(s)) # 0
    BY <1>1, <1>2
  <1>4. Tail(s) = <<>> => Len(Tail(s)) = 0
    BY EmptySeq
  <1> QED BY <1>2, <1>3, <1>4, Zenon

\* A constructor allocates something.
LEMMA ShapesNamed == ASSUME NEW shape \in Shapes
                     PROVE  shape \in Seq(Nat \ {0}) /\ shape # <<>>
  OBVIOUS

\* Each lock stays with the thread that is where it is held, the list changes only while no
\* resetter goes through it, and a call keeps its entry and what it has to allocate.
LEMMA PlacesStay == TypeOK /\ LocksHeld /\ ListKept /\ CallsKept /\ Next => Places'
  <1> SUFFICES ASSUME TypeOK, LocksHeld, ListKept, CallsKept, Next PROVE Places'
    OBVIOUS
  <1> /\ pc \in [Threads -> Labels] /\ entry \in [Threads -> Entries \union {NoThread}]
      /\ todo \in [Threads -> Seq(Nat \ {0})] /\ outlived \in [Threads -> BOOLEAN]
    BY DEF TypeOK
  <1> USE DEF cacheVars, lockVars, entryVars, callVars, resetVars, boundVars, Goto, At, lockThread,
              unlockThread, Places, LocksHeld, ListLabels, ResetLabels, ListKept, CallsKept
  <1>1. CASE updateBuffer
    BY <1>1 DEF updateBuffer
  <1>2. ASSUME NEW t \in Threads, getNextRenderThreadWorkState(t) PROVE Places'
    BY <1>2 DEF getNextRenderThreadWorkState
  <1>3. ASSUME NEW t \in Threads, NEW e \in Entries, Lookup(t, e) PROVE Places'
    BY <1>3 DEF Lookup
  <1>4. ASSUME NEW t \in Threads, LockThread(t) PROVE Places'
    BY <1>4 DEF LockThread
  <1>5. ASSUME NEW t \in Threads, BackOff(t) PROVE Places'
    BY <1>5 DEF BackOff
  <1>6. ASSUME NEW t \in Threads, AwaitReset(t) PROVE Places'
    BY <1>6 DEF AwaitReset
  <1>7. ASSUME NEW t \in Threads, Probe(t) PROVE Places'
    BY <1>7, ZenonT(60) DEF Probe
  <1>8. ASSUME NEW t \in Threads, TryBuild(t) PROVE Places'
    <2>1. \A u \in Threads \ {t} : pc'[u] = pc[u] /\ todo'[u] = todo[u]
      BY <1>8 DEF TryBuild
    <2>2. /\ pc[t] = "try" /\ entry' = entry /\ outlived' = outlived
          /\ pc'[t] \in {"alloc", "lock"} /\ UNCHANGED <<lockVars, resetVars>>
      BY <1>8 DEF TryBuild
    <2>3. pc'[t] = "alloc" => todo'[t] # <<>>
      BY <1>8, ShapesNamed DEF TryBuild
    <2> QED BY <2>1, <2>2, <2>3
  <1>9. ASSUME NEW t \in Threads, Alloc(t) PROVE Places'
    BY <1>9 DEF Alloc
  <1>10. ASSUME NEW t \in Threads, CheckAlloc(t) PROVE Places'
    BY <1>10 DEF CheckAlloc
  <1>11. ASSUME NEW t \in Threads, Fill(t) PROVE Places'
    BY <1>11, Tails DEF Fill
  <1>12. ASSUME NEW t \in Threads, Publish(t) PROVE Places'
    BY <1>12 DEF Publish
  <1>13. ASSUME NEW t \in Threads, Answer(t) PROVE Places'
    BY <1>13 DEF Answer
  <1>14. ASSUME NEW t \in Threads, Unlock(t) PROVE Places'
    BY <1>14 DEF Unlock
  <1>15. ASSUME NEW t \in Threads, Release(t) PROVE Places'
    BY <1>15 DEF Release
  <1>16. ASSUME NEW t \in Threads, WaitUntilUnlocked(t) PROVE Places'
    BY <1>16 DEF WaitUntilUnlocked
  <1>17. ASSUME NEW t \in Threads, Relock(t) PROVE Places'
    BY <1>17 DEF Relock
  <1>18. ASSUME NEW t \in Threads, allocNextSegment(t) PROVE Places'
    BY <1>18 DEF allocNextSegment
  <1>19. ASSUME NEW t \in Threads, CheckFull(t) PROVE Places'
    BY <1>19 DEF CheckFull
  <1>20. ASSUME NEW t \in Threads, Resize(t) PROVE Places'
    BY <1>20 DEF Resize
  <1>21. ASSUME NEW t \in Threads, LockList(t) PROVE Places'
    BY <1>21 DEF LockList
  <1>22. ASSUME NEW t \in Threads, NEW u \in Threads, BlockThread(t, u) PROVE Places'
    BY <1>22 DEF BlockThread
  <1>23. ASSUME NEW t \in Threads, NEW u \in Threads, UnblockThread(t, u) PROVE Places'
    BY <1>23 DEF UnblockThread
  <1>24. ASSUME NEW t \in Threads, Drain(t) PROVE Places'
    BY <1>24 DEF Drain
  <1>25. ASSUME NEW t \in Threads, AdvanceTime(t) PROVE Places'
    BY <1>25 DEF AdvanceTime
  <1>26. ASSUME NEW t \in Threads, PlaceNextBlock(t) PROVE Places'
    BY <1>26 DEF PlaceNextBlock
  <1>27. ASSUME NEW t \in Threads, SetThreshold(t) PROVE Places'
    BY <1>27 DEF SetThreshold
  <1>28. ASSUME NEW t \in Threads, UnlockList(t) PROVE Places'
    BY <1>28 DEF UnlockList
  <1>29. ASSUME NEW t \in Threads, LeaveReset(t) PROVE Places'
    BY <1>29 DEF LeaveReset
  <1> QED BY <1>1, <1>2, <1>3, <1>4, <1>5, <1>6, <1>7, <1>8, <1>9, <1>10, <1>11, <1>12, <1>13,
             <1>14, <1>15, <1>16, <1>17, <1>18, <1>19, <1>20, <1>21, <1>22, <1>23, <1>24, <1>25,
             <1>26, <1>27, <1>28, <1>29 DEF Next, Render, Call

\* A thread with a hold has raised its counter, and so has the resetter for a thread it blocks.
LEMMA Held == ASSUME TypeOK, CountersBalanced, NEW t \in Threads,
                     Inside(t) \/ At(t, "backoff") \/ Raised(t)
              PROVE  counter[t] \in Nat \ {0}
  BY DEF TypeOK, CountersBalanced

\* The kinds of the state are kept.
LEMMA TypesStay ==
    TypeOK /\ LocksHeld /\ ListKept /\ CallsKept /\ CountersBalanced /\ Next
    => TypeOK'
  <1> SUFFICES ASSUME TypeOK, LocksHeld, ListKept, CallsKept, CountersBalanced, Next PROVE TypeOK'
    OBVIOUS
  <1>0. /\ pc \in [Threads -> Labels] /\ counter \in [Threads -> Nat]
      /\ patch \in [Threads -> SUBSET Nat] /\ outlived \in [Threads -> BOOLEAN]
      /\ time \in [Threads -> Nat] /\ index \in [Threads -> Nat]
      /\ todo \in [Threads -> Seq(Nat \ {0})]
      /\ entry \in [Threads -> Entries \union {NoThread}]
      /\ tag \in [Entries -> [index : Int, patch : SUBSET Nat, time : Nat]]
      /\ mutex \in [Entries -> Threads \union {NoThread}]
      /\ localTime \in Nat /\ next_block \in Nat /\ commitCounterSubdiv \in Nat
      /\ lookups \in Nat /\ resizes \in Nat /\ intruded \in BOOLEAN
      /\ current_t_state \subseteq Threads /\ cursor \subseteq Threads
    BY DEF TypeOK
  <1> USE DEF cacheVars, lockVars, entryVars, callVars, resetVars, boundVars, Goto, At, lockThread,
              unlockThread
  <1>1. CASE updateBuffer
    <2>1. (commitCounterSubdiv \in Nat)'
      BY <1>1, <1>0 DEF updateBuffer
    <2> QED BY <1>1, <2>1 DEF updateBuffer, TypeOK
  <1>2. ASSUME NEW t \in Threads, getNextRenderThreadWorkState(t) PROVE TypeOK'
    <2>1. (current_t_state \subseteq Threads /\ pc \in [Threads -> Labels])'
      BY <1>2, <1>0, Named DEF getNextRenderThreadWorkState
    <2> QED BY <1>2, <2>1 DEF getNextRenderThreadWorkState, TypeOK
  <1>3. ASSUME NEW t \in Threads, NEW e \in Entries, Lookup(t, e) PROVE TypeOK'
    <2>1. (/\ lookups \in Nat /\ entry \in [Threads -> Entries \union {NoThread}]
           /\ pc \in [Threads -> Labels])'
      BY <1>3, <1>0, Named DEF Lookup
    <2> QED BY <1>3, <2>1 DEF Lookup, TypeOK
  <1>4. ASSUME NEW t \in Threads, LockThread(t) PROVE TypeOK'
    <2>1. (counter \in [Threads -> Nat] /\ pc \in [Threads -> Labels])'
      BY <1>4, <1>0, Named DEF LockThread
    <2> QED BY <1>4, <2>1 DEF LockThread, TypeOK
  <1>5. ASSUME NEW t \in Threads, BackOff(t) PROVE TypeOK'
    <2>1. counter[t] \in Nat \ {0}
      BY <1>5, Held DEF BackOff, Inside
    <2>2. (counter \in [Threads -> Nat] /\ pc \in [Threads -> Labels])'
      BY <1>5, <1>0, <2>1, Named DEF BackOff
    <2> QED BY <1>5, <2>2 DEF BackOff, TypeOK
  <1>6. ASSUME NEW t \in Threads, AwaitReset(t) PROVE TypeOK'
    <2>1. (pc \in [Threads -> Labels])'
      BY <1>6, <1>0, Named DEF AwaitReset
    <2> QED BY <1>6, <2>1 DEF AwaitReset, TypeOK
  <1>7. ASSUME NEW t \in Threads, Probe(t) PROVE TypeOK'
    <2>1. entry[t] \in Entries
      BY <1>7 DEF Probe, CallsKept
    <2>2. tag[entry[t]].time \in Nat /\ tag[entry[t]].patch \in SUBSET Nat
      BY <2>1 DEF TypeOK
    <2>3. /\ patch \in [Threads -> SUBSET Nat] /\ time \in [Threads -> Nat]
          /\ outlived \in [Threads -> BOOLEAN] /\ pc \in [Threads -> Labels]
      BY DEF TypeOK
    <2>4. (patch \in [Threads -> SUBSET Nat])'
      BY <1>7, <2>2, <2>3 DEF Probe
    <2>5. (time \in [Threads -> Nat] /\ outlived \in [Threads -> BOOLEAN])'
      BY <1>7, <2>2, <2>3 DEF Probe
    <2>6. (pc \in [Threads -> Labels])'
      BY <1>7, <2>3, Named DEF Probe
    <2> QED BY <1>7, <2>4, <2>5, <2>6 DEF Probe, TypeOK
  <1>8. ASSUME NEW t \in Threads, TryBuild(t) PROVE TypeOK'
    <2>1. At(t, "try") /\ counter[t] \in Nat \ {0}
      BY <1>8, Held DEF TryBuild, Inside
    <2>2. /\ counter \in [Threads -> Nat] /\ pc \in [Threads -> Labels]
          /\ time \in [Threads -> Nat] /\ todo \in [Threads -> Seq(Nat \ {0})]
          /\ patch \in [Threads -> SUBSET Nat]
          /\ mutex \in [Entries -> Threads \union {NoThread}]
      BY DEF TypeOK
    <2>3. counter' = counter \/ unlockThread(t)
      BY <1>8 DEF TryBuild
    <2>4. (counter \in [Threads -> Nat])'
      <3>1. CASE counter' = counter
        BY <2>2, <3>1
      <3>2. CASE unlockThread(t)
        BY <2>1, <2>2, <3>2
      <3> QED BY <2>3, <3>1, <3>2
    <2>5. (mutex \in [Entries -> Threads \union {NoThread}])'
      BY <1>8, <2>2 DEF TryBuild
    <2>6. (time \in [Threads -> Nat] /\ patch \in [Threads -> SUBSET Nat])'
      <3>1. \/ time' = [time EXCEPT ![t] = getTime] /\ patch' = [patch EXCEPT ![t] = {}]
            \/ time' = time /\ patch' = patch
        BY <1>8 DEF TryBuild
      <3>2. getTime \in Nat
        BY ClockTyped
      <3>3. CASE time' = time /\ patch' = patch
        BY <2>2, <3>3
      <3>4. CASE time' = [time EXCEPT ![t] = getTime] /\ patch' = [patch EXCEPT ![t] = {}]
        <4>1. (time \in [Threads -> Nat])'
          BY <2>2, <3>2, <3>4
        <4> QED BY <2>2, <3>4, <4>1
      <3> QED BY <3>1, <3>3, <3>4
    <2>7. (todo \in [Threads -> Seq(Nat \ {0})])'
      BY <1>8, <2>2, ShapesNamed DEF TryBuild
    <2>8. (pc \in [Threads -> Labels])'
      BY <1>8, <2>2, Named DEF TryBuild
    <2> QED BY <1>8, <2>4, <2>5, <2>6, <2>7, <2>8 DEF TryBuild, TypeOK
  <1>9. ASSUME NEW t \in Threads, Alloc(t) PROVE TypeOK'
    <2>1. Head(todo[t]) \in Nat /\ Tail(todo[t]) \in Seq(Nat \ {0})
      BY <1>9, Tails DEF Alloc, CallsKept, TypeOK
    <2>2. /\ index \in [Threads -> Nat] /\ next_block \in Nat /\ pc \in [Threads -> Labels]
          /\ todo \in [Threads -> Seq(Nat \ {0})]
      BY DEF TypeOK
    <2>3. (index \in [Threads -> Nat] /\ next_block \in Nat)'
      BY <1>9, <2>1, <2>2 DEF Alloc
    <2>4. (pc \in [Threads -> Labels])'
      BY <1>9, <2>1, <2>2, Named DEF Alloc
    <2> QED BY <1>9, <2>3, <2>4 DEF Alloc, TypeOK
  <1>10. ASSUME NEW t \in Threads, CheckAlloc(t) PROVE TypeOK'
    <2>1. (pc \in [Threads -> Labels])'
      BY <1>10, <1>0, Named DEF CheckAlloc
    <2> QED BY <1>10, <2>1 DEF CheckAlloc, TypeOK
  <1>11. ASSUME NEW t \in Threads, Fill(t) PROVE TypeOK'
    <2>1. Head(todo[t]) \in Nat /\ Tail(todo[t]) \in Seq(Nat \ {0})
      BY <1>11, Tails DEF Fill, CallsKept, TypeOK
    <2>2. Blocks(t) \subseteq Nat
      BY <2>1 DEF Blocks, TypeOK
    <2>3. /\ commitCounterSubdiv \in Nat /\ entry \in [Threads -> Entries \union {NoThread}]
          /\ index \in [Threads -> Nat]
          /\ memory \in [0 .. maxBlocks - 1 ->
                   [entry : Entries \union {NoThread}, time : Nat, commit : Nat]]
          /\ patch \in [Threads -> SUBSET Nat] /\ pc \in [Threads -> Labels]
          /\ time \in [Threads -> Nat] /\ todo \in [Threads -> Seq(Nat \ {0})]
      BY DEF TypeOK
    <2>4. (/\ memory \in [0 .. maxBlocks - 1 ->
                    [entry : Entries \union {NoThread}, time : Nat, commit : Nat]])'
      BY <1>11, <2>1, <2>2, <2>3 DEF Fill, Stamp
    <2>5. (patch \in [Threads -> SUBSET Nat])'
      BY <1>11, <2>1, <2>2, <2>3 DEF Fill
    <2>6. (todo \in [Threads -> Seq(Nat \ {0})])'
      BY <1>11, <2>1, <2>2, <2>3 DEF Fill
    <2>7. (pc \in [Threads -> Labels])'
      BY <1>11, <2>1, <2>2, <2>3, Named DEF Fill
    <2> QED BY <1>11, <2>4, <2>5, <2>6, <2>7 DEF Fill, TypeOK
  <1>12. ASSUME NEW t \in Threads, Publish(t) PROVE TypeOK'
    <2>1. (/\ tag \in [Entries -> [index : Int, patch : SUBSET Nat, time : Nat]]
           /\ outlived \in [Threads -> BOOLEAN]
           /\ mutex \in [Entries -> Threads \union {NoThread}] /\ pc \in [Threads -> Labels])'
      <3>1. extractCommitIndex(time[t]) \in Int
        BY <1>0, ReadBackTyped
      <3>2. [index |-> extractCommitIndex(time[t]), patch |-> patch[t], time |-> time[t]]
              \in [index : Int, patch : SUBSET Nat, time : Nat]
        BY <1>0, <3>1
      <3> QED BY <1>12, <1>0, <3>2, Named DEF Publish
    <2> QED BY <1>12, <2>1 DEF Publish, TypeOK
  <1>13. ASSUME NEW t \in Threads, Answer(t) PROVE TypeOK'
    <2>1. (patch \in [Threads -> SUBSET Nat] /\ pc \in [Threads -> Labels])'
      BY <1>13, <1>0, Named DEF Answer
    <2> QED BY <1>13, <2>1 DEF Answer, TypeOK
  <1>14. ASSUME NEW t \in Threads, Unlock(t) PROVE TypeOK'
    <2>1. counter[t] \in Nat \ {0}
      BY <1>14, Held DEF Unlock, Inside
    <2>2. (/\ counter \in [Threads -> Nat] /\ patch \in [Threads -> SUBSET Nat]
           /\ outlived \in [Threads -> BOOLEAN]
           /\ entry \in [Threads -> Entries \union {NoThread}] /\ time \in [Threads -> Nat]
           /\ index \in [Threads -> Nat] /\ pc \in [Threads -> Labels])'
      BY <1>14, <1>0, <2>1, Named DEF Unlock
    <2> QED BY <1>14, <2>2 DEF Unlock, TypeOK
  <1>15. ASSUME NEW t \in Threads, Release(t) PROVE TypeOK'
    <2>1. counter[t] \in Nat \ {0}
      BY <1>15, Held DEF Release, Inside
    <2>2. (counter \in [Threads -> Nat] /\ pc \in [Threads -> Labels])'
      BY <1>15, <1>0, <2>1, Named DEF Release
    <2> QED BY <1>15, <2>2 DEF Release, TypeOK
  <1>16. ASSUME NEW t \in Threads, WaitUntilUnlocked(t) PROVE TypeOK'
    <2>1. (pc \in [Threads -> Labels])'
      BY <1>16, <1>0, Named DEF WaitUntilUnlocked
    <2> QED BY <1>16, <2>1 DEF WaitUntilUnlocked, TypeOK
  <1>17. ASSUME NEW t \in Threads, Relock(t) PROVE TypeOK'
    <2>1. (counter \in [Threads -> Nat] /\ intruded \in BOOLEAN /\ pc \in [Threads -> Labels])'
      BY <1>17, <1>0, Named DEF Relock
    <2> QED BY <1>17, <2>1 DEF Relock, TypeOK
  <1>18. ASSUME NEW t \in Threads, allocNextSegment(t) PROVE TypeOK'
    <2>1. (pc \in [Threads -> Labels]) /\ (reset_state \in Threads \union {NoThread})
      BY DEF TypeOK
    <2>2. (reset_state \in Threads \union {NoThread})'
      BY <1>18, <2>1 DEF allocNextSegment
    <2>3. (pc \in [Threads -> Labels])'
      BY <1>18, <2>1, Named DEF allocNextSegment
    <2> QED BY <1>18, <2>2, <2>3 DEF allocNextSegment, TypeOK
  <1>19. ASSUME NEW t \in Threads, CheckFull(t) PROVE TypeOK'
    <2>1. (pc \in [Threads -> Labels])'
      BY <1>19, <1>0, Named DEF CheckFull
    <2> QED BY <1>19, <2>1 DEF CheckFull, TypeOK
  <1>20. ASSUME NEW t \in Threads, Resize(t) PROVE TypeOK'
    <2>1. (/\ resizes \in Nat /\ reset_state \in Threads \union {NoThread}
           /\ resizing \in BOOLEAN /\ pc \in [Threads -> Labels])'
      BY <1>20, <1>0, Named DEF Resize
    <2> QED BY <1>20, <2>1 DEF Resize, TypeOK
  <1>21. ASSUME NEW t \in Threads, LockList(t) PROVE TypeOK'
    <2>1. (/\ linkedlist_mtx \in Threads \union {NoThread} /\ cursor \subseteq Threads
           /\ pc \in [Threads -> Labels])'
      BY <1>21, <1>0, Named DEF LockList
    <2> QED BY <1>21, <2>1 DEF LockList, TypeOK
  <1>22. ASSUME NEW t \in Threads, NEW u \in Threads, BlockThread(t, u) PROVE TypeOK'
    <2>1. /\ counter \in [Threads -> Nat] /\ cursor \subseteq Threads
          /\ pc \in [Threads -> Labels] /\ waitsFor \in Threads \union {NoThread}
      BY DEF TypeOK
    <2>2. (counter \in [Threads -> Nat])'
      BY <1>22, <2>1 DEF BlockThread
    <2>3. (cursor \subseteq Threads /\ waitsFor \in Threads \union {NoThread})'
      BY <1>22, <2>1 DEF BlockThread
    <2>4. (pc \in [Threads -> Labels])'
      BY <1>22, <2>1, Named DEF BlockThread
    <2> QED BY <1>22, <2>2, <2>3, <2>4 DEF BlockThread, TypeOK
  <1>23. ASSUME NEW t \in Threads, NEW u \in Threads, UnblockThread(t, u) PROVE TypeOK'
    <2>1. counter[u] \in Nat \ {0}
      BY <1>23, Held DEF UnblockThread, Raised
    <2>2. (counter \in [Threads -> Nat] /\ cursor \subseteq Threads)'
      BY <1>23, <1>0, <2>1 DEF UnblockThread
    <2> QED BY <1>23, <2>2 DEF UnblockThread, TypeOK
  <1>24. ASSUME NEW t \in Threads, Drain(t) PROVE TypeOK'
    <2>1. (waitsFor \in Threads \union {NoThread} /\ pc \in [Threads -> Labels])'
      BY <1>24, <1>0, Named DEF Drain
    <2> QED BY <1>24, <2>1 DEF Drain, TypeOK
  <1>25. ASSUME NEW t \in Threads, AdvanceTime(t) PROVE TypeOK'
    <2>1. /\ localTime \in Nat /\ maxBlocks \in BlockCounts
          /\ memory \in [0 .. maxBlocks - 1 ->
                   [entry : Entries \union {NoThread}, time : Nat, commit : Nat]]
          /\ pc \in [Threads -> Labels]
      BY DEF TypeOK
    <2>2. (localTime \in Nat /\ maxBlocks \in BlockCounts)'
      BY <1>25, <2>1 DEF AdvanceTime
    <2>3. (/\ memory \in [0 .. maxBlocks - 1 ->
                    [entry : Entries \union {NoThread}, time : Nat, commit : Nat]])'
      BY <1>25, <2>1 DEF AdvanceTime, Free
    <2>4. (pc \in [Threads -> Labels])'
      BY <1>25, <2>1, Named DEF AdvanceTime
    <2> QED BY <1>25, <2>2, <2>3, <2>4 DEF AdvanceTime, TypeOK
  <1>26. ASSUME NEW t \in Threads, PlaceNextBlock(t) PROVE TypeOK'
    <2>1. maxBlocks \in Nat /\ pc \in [Threads -> Labels]
      BY DEF TypeOK
    <2>2. SegmentBlocks(maxBlocks) \in Nat /\ Region \in Nat
      BY <2>1, ClockTyped, SegmentTyped
    <2>3. Region * SegmentBlocks(maxBlocks) \in Nat
      BY <2>2, Product
    <2>4. (next_block \in Nat)'
      BY <1>26, <2>3 DEF PlaceNextBlock, Region
    <2>5. (pc \in [Threads -> Labels])'
      BY <1>26, <2>1, Named DEF PlaceNextBlock
    <2> QED BY <1>26, <2>4, <2>5 DEF PlaceNextBlock, TypeOK
  <1>27. ASSUME NEW t \in Threads, SetThreshold(t) PROVE TypeOK'
    <2>1. /\ maxBlocks \in Nat /\ next_block \in Nat /\ current_t_state \subseteq Threads
          /\ pc \in [Threads -> Labels]
      BY DEF TypeOK
    <2>2. SegmentBlocks(maxBlocks) \in Nat
      BY <2>1, SegmentTyped
    <2>3. (switch_block_threshold \in Nat /\ cursor \subseteq Threads)'
      BY <1>27, <2>1, <2>2 DEF SetThreshold
    <2>4. (pc \in [Threads -> Labels])'
      BY <1>27, <2>1, Named DEF SetThreshold
    <2> QED BY <1>27, <2>3, <2>4 DEF SetThreshold, TypeOK
  <1>28. ASSUME NEW t \in Threads, UnlockList(t) PROVE TypeOK'
    <2>1. (linkedlist_mtx \in Threads \union {NoThread} /\ pc \in [Threads -> Labels])'
      BY <1>28, <1>0, Named DEF UnlockList
    <2> QED BY <1>28, <2>1 DEF UnlockList, TypeOK
  <1>29. ASSUME NEW t \in Threads, LeaveReset(t) PROVE TypeOK'
    <2>1. (/\ reset_state \in Threads \union {NoThread} /\ resizing \in BOOLEAN
           /\ pc \in [Threads -> Labels])'
      BY <1>29, <1>0, Named DEF LeaveReset
    <2> QED BY <1>29, <2>1 DEF LeaveReset, TypeOK
  <1> QED BY <1>1, <1>2, <1>3, <1>4, <1>5, <1>6, <1>7, <1>8, <1>9, <1>10, <1>11, <1>12, <1>13,
             <1>14, <1>15, <1>16, <1>17, <1>18, <1>19, <1>20, <1>21, <1>22, <1>23, <1>24, <1>25,
             <1>26, <1>27, <1>28, <1>29 DEF Next, Render, Call

\* Every step that moves a thread's hold or a resetter's moves its counter with it.
LEMMA CountersStay ==
    TypeOK /\ LocksHeld /\ ListKept /\ CallsKept /\ CountersBalanced /\ Next
    => CountersBalanced'
  <1> SUFFICES ASSUME TypeOK, LocksHeld, ListKept, CallsKept, CountersBalanced, Next PROVE
                      CountersBalanced'
    OBVIOUS
  <1> /\ pc \in [Threads -> Labels] /\ counter \in [Threads -> Nat]
      /\ NoThread \notin Threads
    BY DEF TypeOK
  <1> USE DEF cacheVars, lockVars, entryVars, callVars, resetVars, boundVars, Goto, At, lockThread,
              unlockThread
  <1>1. CASE updateBuffer
    BY <1>1 DEF updateBuffer, CountersBalanced, Raised, Inside, LocksHeld, ListKept, ListLabels
  <1>2. ASSUME NEW t \in Threads, getNextRenderThreadWorkState(t) PROVE CountersBalanced'
    BY <1>2 DEF getNextRenderThreadWorkState, CountersBalanced, Raised, Inside, LocksHeld, ListKept,
       ListLabels
  <1>3. ASSUME NEW t \in Threads, NEW e \in Entries, Lookup(t, e) PROVE CountersBalanced'
    BY <1>3 DEF Lookup, CountersBalanced, Raised, Inside, LocksHeld, ListKept, ListLabels
  <1>4. ASSUME NEW t \in Threads, LockThread(t) PROVE CountersBalanced'
    BY <1>4 DEF LockThread, CountersBalanced, Raised, Inside, LocksHeld, ListKept, ListLabels
  <1>5. ASSUME NEW t \in Threads, BackOff(t) PROVE CountersBalanced'
    BY <1>5 DEF BackOff, CountersBalanced, Raised, Inside, LocksHeld, ListKept, ListLabels
  <1>6. ASSUME NEW t \in Threads, AwaitReset(t) PROVE CountersBalanced'
    BY <1>6 DEF AwaitReset, CountersBalanced, Raised, Inside, LocksHeld, ListKept, ListLabels
  <1>7. ASSUME NEW t \in Threads, Probe(t) PROVE CountersBalanced'
    <2>1. \A v \in Threads : Raised(v)' = Raised(v)
      BY <1>7 DEF Probe, Raised
    <2>2. \A v \in Threads : (Inside(v) \/ At(v, "backoff"))' = (Inside(v) \/ At(v, "backoff"))
      BY <1>7 DEF Probe, Inside
    <2> QED BY <1>7, <2>1, <2>2 DEF Probe, CountersBalanced
  <1>8. ASSUME NEW t \in Threads, TryBuild(t) PROVE CountersBalanced'
    BY <1>8 DEF TryBuild, CountersBalanced, Raised, Inside, LocksHeld, ListKept, ListLabels
  <1>9. ASSUME NEW t \in Threads, Alloc(t) PROVE CountersBalanced'
    <2>1. \A v \in Threads : Raised(v)' = Raised(v)
      BY <1>9 DEF Alloc, Raised
    <2>2. \A v \in Threads : (Inside(v) \/ At(v, "backoff"))' = (Inside(v) \/ At(v, "backoff"))
      BY <1>9 DEF Alloc, Inside
    <2> QED BY <1>9, <2>1, <2>2 DEF Alloc, CountersBalanced
  <1>10. ASSUME NEW t \in Threads, CheckAlloc(t) PROVE CountersBalanced'
    BY <1>10 DEF CheckAlloc, CountersBalanced, Raised, Inside, LocksHeld, ListKept, ListLabels
  <1>11. ASSUME NEW t \in Threads, Fill(t) PROVE CountersBalanced'
    <2>1. \A v \in Threads : Raised(v)' = Raised(v)
      BY <1>11 DEF Fill, Raised
    <2>2. \A v \in Threads : (Inside(v) \/ At(v, "backoff"))' = (Inside(v) \/ At(v, "backoff"))
      BY <1>11 DEF Fill, Inside
    <2> QED BY <1>11, <2>1, <2>2 DEF Fill, CountersBalanced
  <1>12. ASSUME NEW t \in Threads, Publish(t) PROVE CountersBalanced'
    BY <1>12, ZenonT(60) DEF Publish, CountersBalanced, Raised, Inside, LocksHeld, ListKept, ListLabels
  <1>13. ASSUME NEW t \in Threads, Answer(t) PROVE CountersBalanced'
    BY <1>13 DEF Answer, CountersBalanced, Raised, Inside, LocksHeld, ListKept, ListLabels
  <1>14. ASSUME NEW t \in Threads, Unlock(t) PROVE CountersBalanced'
    <2>1. \A v \in Threads : Raised(v)' = Raised(v)
      BY <1>14 DEF Unlock, Raised
    <2>2. \A v \in Threads \ {t} : (Inside(v) \/ At(v, "backoff"))'
                                 = (Inside(v) \/ At(v, "backoff"))
      BY <1>14 DEF Unlock, Inside
    <2>3. Inside(t) /\ ~(Inside(t) \/ At(t, "backoff"))'
      BY <1>14 DEF Unlock, Inside
    <2> QED BY <1>14, <2>1, <2>2, <2>3 DEF Unlock, CountersBalanced
  <1>15. ASSUME NEW t \in Threads, Release(t) PROVE CountersBalanced'
    BY <1>15 DEF Release, CountersBalanced, Raised, Inside, LocksHeld, ListKept, ListLabels
  <1>16. ASSUME NEW t \in Threads, WaitUntilUnlocked(t) PROVE CountersBalanced'
    BY <1>16 DEF WaitUntilUnlocked, CountersBalanced, Raised, Inside, LocksHeld, ListKept,
       ListLabels
  <1>17. ASSUME NEW t \in Threads, Relock(t) PROVE CountersBalanced'
    BY <1>17 DEF Relock, CountersBalanced, Raised, Inside, LocksHeld, ListKept, ListLabels
  <1>18. ASSUME NEW t \in Threads, allocNextSegment(t) PROVE CountersBalanced'
    BY <1>18 DEF allocNextSegment, CountersBalanced, Raised, Inside, LocksHeld, ListKept, ListLabels
  <1>19. ASSUME NEW t \in Threads, CheckFull(t) PROVE CountersBalanced'
    BY <1>19 DEF CheckFull, CountersBalanced, Raised, Inside, LocksHeld, ListKept, ListLabels
  <1>20. ASSUME NEW t \in Threads, Resize(t) PROVE CountersBalanced'
    BY <1>20 DEF Resize, CountersBalanced, Raised, Inside, LocksHeld, ListKept, ListLabels
  <1>21. ASSUME NEW t \in Threads, LockList(t) PROVE CountersBalanced'
    BY <1>21 DEF LockList, CountersBalanced, Raised, Inside, LocksHeld, ListKept, ListLabels
  <1>22. ASSUME NEW t \in Threads, NEW u \in Threads, BlockThread(t, u) PROVE CountersBalanced'
    <2>1. /\ linkedlist_mtx = t /\ u \in current_t_state /\ cursor' = cursor \ {u}
          /\ current_t_state' = current_t_state /\ At(t, "block") /\ u \in cursor
          /\ pc'[t] \in {"block", "drain"} /\ \A v \in Threads \ {t} : pc'[v] = pc[v]
      BY <1>22 DEF BlockThread, LocksHeld, ListLabels, ListKept
    <2>2. \A v \in Threads \ {t} : pc[v] \notin ListLabels
      BY <2>1 DEF LocksHeld
    <2>3. ~Raised(u) /\ Raised(u)'
      BY <2>1, <2>2 DEF Raised, ListLabels
    <2>4. \A v \in Threads \ {u} : Raised(v)' = Raised(v)
      BY <2>1, <2>2 DEF Raised, ListLabels
    <2>5. \A v \in Threads : (Inside(v) \/ At(v, "backoff"))' = (Inside(v) \/ At(v, "backoff"))
      BY <2>1 DEF Inside
    <2> QED BY <1>22, <2>3, <2>4, <2>5 DEF BlockThread, CountersBalanced
  <1>23. ASSUME NEW t \in Threads, NEW u \in Threads, UnblockThread(t, u) PROVE CountersBalanced'
    BY <1>23 DEF UnblockThread, CountersBalanced, Raised, Inside, LocksHeld, ListKept, ListLabels
  <1>24. ASSUME NEW t \in Threads, Drain(t) PROVE CountersBalanced'
    BY <1>24 DEF Drain, CountersBalanced, Raised, Inside, LocksHeld, ListKept, ListLabels
  <1>25. ASSUME NEW t \in Threads, AdvanceTime(t) PROVE CountersBalanced'
    BY <1>25 DEF AdvanceTime, CountersBalanced, Raised, Inside, LocksHeld, ListKept, ListLabels
  <1>26. ASSUME NEW t \in Threads, PlaceNextBlock(t) PROVE CountersBalanced'
    BY <1>26 DEF PlaceNextBlock, CountersBalanced, Raised, Inside, LocksHeld, ListKept, ListLabels
  <1>27. ASSUME NEW t \in Threads, SetThreshold(t) PROVE CountersBalanced'
    BY <1>27 DEF SetThreshold, CountersBalanced, Raised, Inside, LocksHeld, ListKept, ListLabels
  <1>28. ASSUME NEW t \in Threads, UnlockList(t) PROVE CountersBalanced'
    BY <1>28 DEF UnlockList, CountersBalanced, Raised, Inside, LocksHeld, ListKept, ListLabels
  <1>29. ASSUME NEW t \in Threads, LeaveReset(t) PROVE CountersBalanced'
    BY <1>29 DEF LeaveReset, CountersBalanced, Raised, Inside, LocksHeld, ListKept, ListLabels
  <1> QED BY <1>1, <1>2, <1>3, <1>4, <1>5, <1>6, <1>7, <1>8, <1>9, <1>10, <1>11, <1>12, <1>13,
             <1>14, <1>15, <1>16, <1>17, <1>18, <1>19, <1>20, <1>21, <1>22, <1>23, <1>24, <1>25,
             <1>26, <1>27, <1>28, <1>29 DEF Next, Render, Call

\* Once a thread has entered during a switch, the state says so for ever.
LEMMA IntrudedStays == TypeOK /\ Next /\ ~intruded' => ~intruded
  <1> SUFFICES ASSUME TypeOK, Next, ~intruded' PROVE ~intruded
    OBVIOUS
  <1>1. CASE updateBuffer
    BY <1>1 DEF updateBuffer
  <1>2. ASSUME NEW t \in Threads, Call(t) PROVE ~intruded
    BY <1>2 DEF Call, Resize, Lookup
  <1>3. ASSUME NEW t \in Threads, Render(t) PROVE ~intruded
    BY <1>3 DEF Render, getNextRenderThreadWorkState, LockThread, BackOff, AwaitReset, Probe,
           TryBuild, Alloc, CheckAlloc, Fill, Publish, Answer, Unlock, Release, allocNextSegment,
           WaitUntilUnlocked, CheckFull, LockList, BlockThread, UnblockThread, Drain, AdvanceTime,
           PlaceNextBlock, SetThreshold, UnlockList, LeaveReset, Relock
  <1> QED BY <1>1, <1>2, <1>3 DEF Next

\* A step that moves no memory, no clock and no taken block, and those that may.
Spaces == {"check", "fill", "place", "limit"}
SpaceUnchanged ==
    /\ UNCHANGED <<maxBlocks, localTime, next_block, switch_block_threshold, memory,
                   commitCounterSubdiv>>
    /\ \A u \in Threads : pc[u] \in Spaces \/ pc'[u] \in Spaces =>
           pc'[u] = pc[u] /\ index'[u] = index[u] /\ todo'[u] = todo[u]
SpaceStep(t) == \/ Alloc(t) \/ CheckAlloc(t) \/ Fill(t)
                \/ AdvanceTime(t) \/ PlaceNextBlock(t) \/ SetThreshold(t)

\* The steps sorted by what they do to the space.
LEMMA SpaceSteps == TypeOK /\ Next => \/ SpaceUnchanged \/ updateBuffer
                                      \/ \E t \in Threads : SpaceStep(t)
  <1> SUFFICES ASSUME TypeOK, Next, ~updateBuffer, \A t \in Threads : ~SpaceStep(t)
               PROVE  SpaceUnchanged
    OBVIOUS
  <1> /\ pc \in [Threads -> Labels] /\ todo \in [Threads -> Seq(Nat \ {0})]
      /\ index \in [Threads -> Nat]
    BY DEF TypeOK
  <1> USE DEF cacheVars, lockVars, entryVars, callVars, resetVars, boundVars, Goto, At, Spaces,
              SpaceUnchanged
  <1>1. ASSUME NEW t \in Threads, getNextRenderThreadWorkState(t) PROVE SpaceUnchanged
    BY <1>1 DEF getNextRenderThreadWorkState
  <1>2. ASSUME NEW t \in Threads, NEW e \in Entries, Lookup(t, e) PROVE SpaceUnchanged
    BY <1>2 DEF Lookup
  <1>3. ASSUME NEW t \in Threads, LockThread(t) PROVE SpaceUnchanged
    BY <1>3 DEF LockThread
  <1>4. ASSUME NEW t \in Threads, BackOff(t) PROVE SpaceUnchanged
    BY <1>4 DEF BackOff
  <1>5. ASSUME NEW t \in Threads, AwaitReset(t) PROVE SpaceUnchanged
    BY <1>5 DEF AwaitReset
  <1>6. ASSUME NEW t \in Threads, Probe(t) PROVE SpaceUnchanged
    BY <1>6 DEF Probe
  <1>7. ASSUME NEW t \in Threads, TryBuild(t) PROVE SpaceUnchanged
    BY <1>7 DEF TryBuild
  <1>8. ASSUME NEW t \in Threads, Publish(t) PROVE SpaceUnchanged
    BY <1>8 DEF Publish
  <1>9. ASSUME NEW t \in Threads, Answer(t) PROVE SpaceUnchanged
    BY <1>9 DEF Answer
  <1>10. ASSUME NEW t \in Threads, Unlock(t) PROVE SpaceUnchanged
    BY <1>10 DEF Unlock
  <1>11. ASSUME NEW t \in Threads, Release(t) PROVE SpaceUnchanged
    BY <1>11 DEF Release
  <1>12. ASSUME NEW t \in Threads, WaitUntilUnlocked(t) PROVE SpaceUnchanged
    BY <1>12 DEF WaitUntilUnlocked
  <1>13. ASSUME NEW t \in Threads, Relock(t) PROVE SpaceUnchanged
    BY <1>13 DEF Relock
  <1>14. ASSUME NEW t \in Threads, allocNextSegment(t) PROVE SpaceUnchanged
    BY <1>14 DEF allocNextSegment
  <1>15. ASSUME NEW t \in Threads, CheckFull(t) PROVE SpaceUnchanged
    BY <1>15 DEF CheckFull
  <1>16. ASSUME NEW t \in Threads, Resize(t) PROVE SpaceUnchanged
    BY <1>16 DEF Resize
  <1>17. ASSUME NEW t \in Threads, LockList(t) PROVE SpaceUnchanged
    BY <1>17 DEF LockList
  <1>18. ASSUME NEW t \in Threads, NEW u \in Threads, BlockThread(t, u) PROVE SpaceUnchanged
    BY <1>18 DEF BlockThread
  <1>19. ASSUME NEW t \in Threads, NEW u \in Threads, UnblockThread(t, u) PROVE SpaceUnchanged
    BY <1>19 DEF UnblockThread
  <1>20. ASSUME NEW t \in Threads, Drain(t) PROVE SpaceUnchanged
    BY <1>20 DEF Drain
  <1>21. ASSUME NEW t \in Threads, UnlockList(t) PROVE SpaceUnchanged
    BY <1>21 DEF UnlockList
  <1>22. ASSUME NEW t \in Threads, LeaveReset(t) PROVE SpaceUnchanged
    BY <1>22 DEF LeaveReset
  <1> QED BY <1>1, <1>2, <1>3, <1>4, <1>5, <1>6, <1>7, <1>8, <1>9, <1>10, <1>11, <1>12, <1>13,
             <1>14, <1>15, <1>16, <1>17, <1>18, <1>19, <1>20, <1>21, <1>22
             DEF Next, Render, Call, SpaceStep

\* The clock only goes forward.
LEMMA ClockSteps ==
    TypeOK /\ Next =>
        \/ /\ getTime' = getTime /\ localTime' = localTime
           /\ commitCounterSubdiv' = commitCounterSubdiv
        \/ updateBuffer /\ getTime' = getTime + NUM_CACHE_SEGMENTS
        \/ \E t \in Threads : /\ AdvanceTime(t)
                              /\ \/ ~resizing /\ getTime' = getTime + 1
                                 \/ resizing /\ getTime' = getTime + NUM_CACHE_SEGMENTS
  <1> SUFFICES ASSUME TypeOK, Next
               PROVE  \/ getTime' = getTime /\ localTime' = localTime
                         /\ commitCounterSubdiv' = commitCounterSubdiv
                      \/ updateBuffer /\ getTime' = getTime + NUM_CACHE_SEGMENTS
                      \/ \E t \in Threads : /\ AdvanceTime(t)
                            /\ \/ ~resizing /\ getTime' = getTime + 1
                               \/ resizing /\ getTime' = getTime + NUM_CACHE_SEGMENTS
    OBVIOUS
  <1>1. localTime \in Nat /\ commitCounterSubdiv \in Nat
    BY DEF TypeOK
  <1>2. CASE SpaceUnchanged
    BY <1>2 DEF SpaceUnchanged, getTime
  <1>3. CASE updateBuffer
    <2>1. localTime' = localTime /\ commitCounterSubdiv' = commitCounterSubdiv + 1
      BY <1>3 DEF updateBuffer, cacheVars
    <2>2. NUM_CACHE_SEGMENTS * (commitCounterSubdiv + 1)
          = NUM_CACHE_SEGMENTS * commitCounterSubdiv + NUM_CACHE_SEGMENTS
      BY <1>1
    <2>3. NUM_CACHE_SEGMENTS * commitCounterSubdiv \in Nat
      BY <1>1, Product
    <2> QED BY <1>1, <1>3, <2>1, <2>2, <2>3 DEF getTime
  <1>4. ASSUME NEW t \in Threads, AdvanceTime(t)
        PROVE  \/ ~resizing /\ getTime' = getTime + 1
               \/ resizing /\ getTime' = getTime + NUM_CACHE_SEGMENTS
    <2>1. /\ commitCounterSubdiv' = commitCounterSubdiv
          /\ \/ ~resizing /\ localTime' = localTime + 1
             \/ resizing /\ localTime' = localTime + NUM_CACHE_SEGMENTS
      BY <1>4 DEF AdvanceTime
    <2>2. NUM_CACHE_SEGMENTS * commitCounterSubdiv \in Nat
      BY <1>1, Product
    <2> QED BY <1>1, <2>1, <2>2 DEF getTime
  <1>5. ASSUME NEW t \in Threads, SpaceStep(t), ~AdvanceTime(t)
        PROVE  localTime' = localTime /\ commitCounterSubdiv' = commitCounterSubdiv
    BY <1>5 DEF SpaceStep, Alloc, CheckAlloc, Fill, PlaceNextBlock, SetThreshold, cacheVars,
                entryVars
  <1> QED BY <1>2, <1>3, <1>4, <1>5, SpaceSteps DEF getTime

\* The clock never goes back.
LEMMA ClockForward == TypeOK /\ TypeOK' /\ Next => getTime' \in Nat /\ getTime <= getTime'
  <1> SUFFICES ASSUME TypeOK, TypeOK', Next PROVE getTime' \in Nat /\ getTime <= getTime'
    OBVIOUS
  <1>1. getTime \in Nat
    BY ClockTyped
  <1> QED BY <1>1, ClockSteps

\* A patch is never younger than the clock.
LEMMA TimesStay == TypeOK /\ TypeOK' /\ CallsKept /\ TimesPast /\ Next => TimesPast'
  <1> SUFFICES ASSUME TypeOK, TypeOK', CallsKept, TimesPast, Next PROVE TimesPast'
    OBVIOUS
  <1>1. getTime \in Nat /\ getTime' \in Nat /\ getTime <= getTime'
    BY ClockTyped, ClockForward
  <1>2. /\ time \in [Threads -> Nat] /\ tag \in [Entries -> [index : Int, patch : SUBSET Nat, time : Nat]]
        /\ entry \in [Threads -> Entries \union {NoThread}]
    BY DEF TypeOK
  <1>3. CASE UNCHANGED <<time, tag>>
    BY <1>1, <1>2, <1>3 DEF TimesPast
  <1>4. ASSUME NEW t \in Threads, Probe(t) PROVE TimesPast'
    <2>1. entry[t] \in Entries /\ tag' = tag
      BY <1>4 DEF Probe, CallsKept, At, entryVars
    <2>2. time' = time \/ time' = [time EXCEPT ![t] = tag[entry[t]].time]
      BY <1>4 DEF Probe
    <2> QED BY <1>1, <1>2, <2>1, <2>2 DEF TimesPast
  <1>5. ASSUME NEW t \in Threads, TryBuild(t) PROVE TimesPast'
    <2>1. tag' = tag /\ (time' = time \/ time' = [time EXCEPT ![t] = getTime])
      BY <1>5 DEF TryBuild
    <2> QED BY <1>1, <1>2, <2>1 DEF TimesPast
  <1>6. ASSUME NEW t \in Threads, Publish(t) PROVE TimesPast'
    <2>1. /\ time' = time
          /\ tag' = [tag EXCEPT ![entry[t]] = [index |-> extractCommitIndex(time[t]),
                                              patch |-> patch[t], time |-> time[t]]]
      BY <1>6 DEF Publish
    <2>2. \A e \in Entries :
            \/ tag'[e] = tag[e]
            \/ tag'[e].time = time[t] /\ tag'[e].index = extractCommitIndex(time[t])
      BY <1>2, <2>1
    <2> QED BY <1>1, <1>2, <2>1, <2>2 DEF TimesPast
  <1>7. ASSUME NEW t \in Threads, Unlock(t) PROVE TimesPast'
    <2>1. tag' = tag /\ time' = [time EXCEPT ![t] = 0]
      BY <1>7 DEF Unlock, entryVars
    <2> QED BY <1>1, <1>2, <2>1 DEF TimesPast
  <1>8. CASE updateBuffer
    BY <1>3, <1>8 DEF updateBuffer, callVars
  <1>9. ASSUME NEW t \in Threads, Call(t) PROVE UNCHANGED <<time, tag>>
    BY <1>9 DEF Call, Resize, Lookup, callVars, entryVars
  <1>10. ASSUME NEW t \in Threads, Render(t), ~Probe(t), ~TryBuild(t), ~Publish(t), ~Unlock(t)
         PROVE  UNCHANGED <<time, tag>>
    BY <1>10 DEF Render, getNextRenderThreadWorkState, LockThread, BackOff, AwaitReset,
           Alloc, CheckAlloc, Fill, Answer, Release, allocNextSegment, WaitUntilUnlocked,
           CheckFull, LockList, BlockThread, UnblockThread, Drain, AdvanceTime, PlaceNextBlock,
           SetThreshold, UnlockList, LeaveReset, Relock, callVars, entryVars
  <1> QED BY <1>3, <1>4, <1>5, <1>6, <1>7, <1>8, <1>9, <1>10 DEF Next

\* A thread that is shut out has been raised.
LEMMA ShutRaised == ASSUME LocksHeld, ListKept, NEW u \in Threads, Shut(u) PROVE Raised(u)
  BY DEF Shut, Raised

\* A raised thread whose counter is at most one has no hold of its own.
LEMMA LowIsOutside == ASSUME TypeOK, CountersBalanced, NEW u \in Threads, counter[u] <= 1, Raised(u)
                      PROVE  ~Inside(u)
  BY DEF CountersBalanced, TypeOK

\* Who is shut out stays outside: a thread that does come in has found its counter low.
LEMMA BlockedOutStays ==
    TypeOK /\ LocksHeld /\ ListKept /\ CountersBalanced /\ BlockedOut /\ ~intruded' /\ Next
    => BlockedOut'
  <1> SUFFICES ASSUME TypeOK, LocksHeld, ListKept, CountersBalanced, BlockedOut, ~intruded', Next
                      PROVE BlockedOut'
    OBVIOUS
  <1> /\ pc \in [Threads -> Labels] /\ counter \in [Threads -> Nat] /\ NoThread \notin Threads
      /\ intruded \in BOOLEAN
    BY DEF TypeOK
  <1> USE DEF cacheVars, lockVars, entryVars, callVars, resetVars, boundVars, Goto, At, lockThread,
              unlockThread
  <1>1. CASE updateBuffer
    BY <1>1 DEF updateBuffer, BlockedOut, Inside, Shut
  <1>2. ASSUME NEW t \in Threads, getNextRenderThreadWorkState(t) PROVE BlockedOut'
    <2>1. \A u \in Threads : ~Shut(u)'
      BY <1>2 DEF getNextRenderThreadWorkState, Shut, LocksHeld, ListLabels
    <2> QED BY <2>1 DEF BlockedOut
  <1>3. ASSUME NEW t \in Threads, NEW e \in Entries, Lookup(t, e) PROVE BlockedOut'
    BY <1>3 DEF Lookup, BlockedOut, Inside, Shut
  <1>4. ASSUME NEW t \in Threads, LockThread(t) PROVE BlockedOut'
    <2>1. \A u \in Threads : Shut(u)' => Shut(u)
      BY <1>4 DEF LockThread, Shut
    <2>2. \A u \in Threads \ {t} : Inside(u)' => Inside(u)
      BY <1>4 DEF LockThread, Inside
    <2>3. ASSUME Inside(t)' PROVE ~Raised(t)
      <3>1. counter[t] # 1
        BY <1>4, <2>3 DEF LockThread, Inside
      <3>2. counter[t] \in {0, 1}
        BY <1>4 DEF LockThread, CountersBalanced, Inside
      <3> QED BY <3>1, <3>2 DEF CountersBalanced
    <2> QED BY <2>1, <2>2, <2>3, ShutRaised DEF BlockedOut
  <1>5. ASSUME NEW t \in Threads, BackOff(t) PROVE BlockedOut'
    BY <1>5 DEF BackOff, BlockedOut, Inside, Shut
  <1>6. ASSUME NEW t \in Threads, AwaitReset(t) PROVE BlockedOut'
    BY <1>6 DEF AwaitReset, BlockedOut, Inside, Shut
  <1>7. ASSUME NEW t \in Threads, Probe(t) PROVE BlockedOut'
    BY <1>7 DEF Probe, BlockedOut, Inside, Shut
  <1>8. ASSUME NEW t \in Threads, TryBuild(t) PROVE BlockedOut'
    BY <1>8 DEF TryBuild, BlockedOut, Inside, Shut
  <1>9. ASSUME NEW t \in Threads, Alloc(t) PROVE BlockedOut'
    BY <1>9 DEF Alloc, BlockedOut, Inside, Shut
  <1>10. ASSUME NEW t \in Threads, CheckAlloc(t) PROVE BlockedOut'
    BY <1>10 DEF CheckAlloc, BlockedOut, Inside, Shut
  <1>11. ASSUME NEW t \in Threads, Fill(t) PROVE BlockedOut'
    BY <1>11 DEF Fill, BlockedOut, Inside, Shut
  <1>12. ASSUME NEW t \in Threads, Publish(t) PROVE BlockedOut'
    BY <1>12 DEF Publish, BlockedOut, Inside, Shut
  <1>13. ASSUME NEW t \in Threads, Answer(t) PROVE BlockedOut'
    BY <1>13 DEF Answer, BlockedOut, Inside, Shut
  <1>14. ASSUME NEW t \in Threads, Unlock(t) PROVE BlockedOut'
    BY <1>14 DEF Unlock, BlockedOut, Inside, Shut
  <1>15. ASSUME NEW t \in Threads, Release(t) PROVE BlockedOut'
    BY <1>15 DEF Release, BlockedOut, Inside, Shut
  <1>16. ASSUME NEW t \in Threads, WaitUntilUnlocked(t) PROVE BlockedOut'
    BY <1>16 DEF WaitUntilUnlocked, BlockedOut, Inside, Shut
  <1>17. ASSUME NEW t \in Threads, Relock(t) PROVE BlockedOut'
    <2>1. \A u \in Threads : Shut(u)' => Shut(u)
      BY <1>17 DEF Relock, Shut
    <2>2. \A u \in Threads \ {t} : Inside(u)' => Inside(u)
      BY <1>17 DEF Relock, Inside
    <2>3. ~Raised(t)
      <3>1. ~(counter[t] > 0)
        BY <1>17 DEF Relock
      <3> QED BY <3>1 DEF CountersBalanced
    <2> QED BY <2>1, <2>2, <2>3, ShutRaised DEF BlockedOut
  <1>18. ASSUME NEW t \in Threads, allocNextSegment(t) PROVE BlockedOut'
    BY <1>18 DEF allocNextSegment, BlockedOut, Inside, Shut
  <1>19. ASSUME NEW t \in Threads, CheckFull(t) PROVE BlockedOut'
    BY <1>19 DEF CheckFull, BlockedOut, Inside, Shut
  <1>20. ASSUME NEW t \in Threads, Resize(t) PROVE BlockedOut'
    BY <1>20 DEF Resize, BlockedOut, Inside, Shut
  <1>21. ASSUME NEW t \in Threads, LockList(t) PROVE BlockedOut'
    <2>1. \A u \in Threads : ~Shut(u)'
      BY <1>21 DEF LockList, Shut, LocksHeld, ListLabels
    <2> QED BY <2>1 DEF BlockedOut
  <1>22. ASSUME NEW t \in Threads, NEW u \in Threads, BlockThread(t, u) PROVE BlockedOut'
    <2>1. /\ linkedlist_mtx = t /\ u \in current_t_state /\ cursor' = cursor \ {u}
          /\ current_t_state' = current_t_state /\ At(t, "block") /\ u \in cursor
          /\ pc'[t] \in {"block", "drain"} /\ \A v \in Threads \ {t} : pc'[v] = pc[v]
      BY <1>22 DEF BlockThread, LocksHeld, ListLabels, ListKept
    <2>2. \A v \in Threads \ {t} : pc[v] \notin ListLabels
      BY <2>1 DEF LocksHeld
    <2>3. \A v \in Threads : Inside(v)' => Inside(v)
      BY <2>1 DEF Inside
    <2>4. \A v \in Threads \ {u} : Shut(v)' => Shut(v)
      BY <2>1, <2>2 DEF Shut, ListLabels
    <2>5. ASSUME Shut(u)' PROVE ~Inside(u)
      <3>1. ~Raised(u)
        BY <2>1, <2>2 DEF Raised, ListLabels
      <3>2. counter[u] # 1
        <4>1. CASE counter[u] = 1
          <5>1. pc'[t] = "drain" /\ waitsFor' = u
            BY <1>22, <4>1 DEF BlockThread
          <5>2. \A v \in Threads \ {t} : pc'[v] \notin ListLabels
            BY <2>1, <2>2
          <5> QED BY <2>5, <5>1, <5>2 DEF Shut, ListLabels
        <4> QED BY <4>1
      <3>3. counter[u] = 0
        BY <3>1, <3>2 DEF CountersBalanced
      <3> QED BY <3>3, <3>1 DEF CountersBalanced
    <2> QED BY <2>3, <2>4, <2>5 DEF BlockedOut
  <1>23. ASSUME NEW t \in Threads, NEW u \in Threads, UnblockThread(t, u) PROVE BlockedOut'
    <2>1. linkedlist_mtx = t /\ At(t, "unblock") /\ pc' = pc
      BY <1>23 DEF UnblockThread, LocksHeld, ListLabels
    <2>2. \A v \in Threads : pc[v] \in ListLabels => v = t
      BY <2>1 DEF LocksHeld
    <2>3. \A v \in Threads : ~Shut(v)'
      BY <2>1, <2>2 DEF Shut, ListLabels
    <2> QED BY <2>3 DEF BlockedOut
  <1>24. ASSUME NEW t \in Threads, Drain(t) PROVE BlockedOut'
    <2>1. /\ counter[waitsFor] <= 1 /\ waitsFor \in current_t_state \ cursor
          /\ current_t_state \subseteq Threads
      BY <1>24 DEF Drain, ListKept, TypeOK
    <2>2. waitsFor \in Threads /\ Raised(waitsFor)
      BY <1>24, <2>1 DEF Drain, Raised
    <2>3. ~Inside(waitsFor)
      BY <2>1, <2>2, LowIsOutside
    <2>4. \A v \in Threads : Inside(v)' => Inside(v)
      BY <1>24 DEF Drain, Inside
    <2>5. \A v \in Threads \ {waitsFor} : Shut(v)' => Shut(v)
      BY <1>24 DEF Drain, Shut
    <2> QED BY <2>3, <2>4, <2>5 DEF BlockedOut
  <1>25. ASSUME NEW t \in Threads, AdvanceTime(t) PROVE BlockedOut'
    BY <1>25 DEF AdvanceTime, BlockedOut, Inside, Shut
  <1>26. ASSUME NEW t \in Threads, PlaceNextBlock(t) PROVE BlockedOut'
    BY <1>26 DEF PlaceNextBlock, BlockedOut, Inside, Shut
  <1>27. ASSUME NEW t \in Threads, SetThreshold(t) PROVE BlockedOut'
    <2>1. linkedlist_mtx = t /\ pc' = [pc EXCEPT ![t] = "unblock"]
      BY <1>27 DEF SetThreshold, LocksHeld, ListLabels
    <2>2. \A v \in Threads : pc[v] \in ListLabels => v = t
      BY <2>1 DEF LocksHeld
    <2>3. \A v \in Threads : ~Shut(v)'
      BY <2>1, <2>2 DEF Shut, ListLabels
    <2> QED BY <2>3 DEF BlockedOut
  <1>28. ASSUME NEW t \in Threads, UnlockList(t) PROVE BlockedOut'
    BY <1>28 DEF UnlockList, BlockedOut, Inside, Shut
  <1>29. ASSUME NEW t \in Threads, LeaveReset(t) PROVE BlockedOut'
    BY <1>29 DEF LeaveReset, BlockedOut, Inside, Shut
  <1> QED BY <1>1, <1>2, <1>3, <1>4, <1>5, <1>6, <1>7, <1>8, <1>9, <1>10, <1>11, <1>12, <1>13,
             <1>14, <1>15, <1>16, <1>17, <1>18, <1>19, <1>20, <1>21, <1>22, <1>23, <1>24, <1>25,
             <1>26, <1>27, <1>28, <1>29 DEF Next, Render, Call


\* While the cache is moved to another segment nobody is inside.
LEMMA NobodyInside == ASSUME ListKept, BlockedOut, NEW t \in Threads, NEW u \in Threads,
                             (At(t, "block") /\ cursor = {}) \/ Switching(t)
                      PROVE  ~Inside(u)
  <1>1. u \notin current_t_state => ~Inside(u)
    BY DEF ListKept, Inside
  <1>2. u \in current_t_state => Shut(u)
    BY DEF Shut, Switching, At, ListKept
  <1> QED BY <1>1, <1>2 DEF BlockedOut

\* Where a segment lies.
LEMMA SegmentLies == TypeOK => /\ SegStart \in Nat /\ SegEnd \in Nat
                               /\ SegmentBlocks(maxBlocks) \in Nat
                               /\ SegEnd = SegStart + SegmentBlocks(maxBlocks)
                               /\ Segment(localTime) = SegStart .. SegEnd - 1
  <1> SUFFICES ASSUME TypeOK
               PROVE  /\ SegStart \in Nat /\ SegEnd \in Nat
                      /\ SegmentBlocks(maxBlocks) \in Nat
                      /\ SegEnd = SegStart + SegmentBlocks(maxBlocks)
                      /\ Segment(localTime) = SegStart .. SegEnd - 1
    OBVIOUS
  <1>1. SegmentBlocks(maxBlocks) \in Nat /\ Region \in Nat
    <2>1. maxBlocks \in Nat
      BY DEF TypeOK
    <2> QED BY <2>1, SegmentTyped, ClockTyped
  <1>2. ASSUME NEW s \in Nat, NEW r \in Nat
        PROVE  r * s \in Nat /\ (r + 1) * s = r * s + s
    BY <1>2
  <1>3. SegStart \in Nat /\ SegEnd = SegStart + SegmentBlocks(maxBlocks)
    BY <1>1, <1>2 DEF SegStart, SegEnd
  <1>4. Segment(localTime) = SegStart .. SegEnd - 1
    BY DEF Segment, SegStart, SegEnd, Region
  <1> QED BY <1>1, <1>3, <1>4

\* The thread that holds the list is alone in the part of the switch that holds it.
LEMMA OneHolder == ASSUME LocksHeld, NEW t \in Threads, pc[t] \in ListLabels,
                          NEW u \in Threads, pc[u] \in ListLabels
                   PROVE  u = t
  BY DEF LocksHeld

\* What a thread in the middle of an allocation asks for.
LEMMA TakenTyped == ASSUME TypeOK, CallsKept, NEW t \in Threads, Taken(t) \/ At(t, "alloc")
                    PROVE  index[t] \in Nat /\ Head(todo[t]) \in Nat \ {0}
  <1>1. todo[t] \in Seq(Nat \ {0}) /\ todo[t] # <<>> /\ index[t] \in Nat
    BY DEF TypeOK, CallsKept, Taken, At
  <1> QED BY <1>1, Tails

\* A step that leaves the space alone leaves everything that is taken alone.
LEMMA SpaceStays == ASSUME SpaceUnchanged
                    PROVE  /\ SegStart' = SegStart /\ SegEnd' = SegEnd /\ OpenFrom' = OpenFrom
                           /\ \A u \in Threads : /\ Taken(u)' => Taken(u) /\ Blocks(u)' = Blocks(u)
                                                 /\ Claims(u)' => Claims(u)
  <1>1. SegStart' = SegStart /\ SegEnd' = SegEnd
    BY DEF SpaceUnchanged, SegStart, SegEnd, Region, SegmentBlocks
  <1>2. \A u \in Threads : At(u, "place")' = At(u, "place")
    BY DEF SpaceUnchanged, Spaces, At
  <1>3. OpenFrom' = OpenFrom
    BY <1>1, <1>2 DEF OpenFrom, SpaceUnchanged
  <1>4. ASSUME NEW u \in Threads, Taken(u)'
        PROVE  Taken(u) /\ Blocks(u)' = Blocks(u) /\ (Claims(u)' => Claims(u))
    BY <1>4 DEF SpaceUnchanged, Spaces, Taken, Blocks, Claims
  <1> QED BY <1>1, <1>3, <1>4 DEF Claims

\* The open segment, and what is taken of it.
LEMMA PlacedStays ==
    TypeOK /\ LocksHeld /\ ListKept /\ CallsKept /\ BlockedOut /\ Placed /\ Next
    => Placed'
  <1> SUFFICES ASSUME TypeOK, LocksHeld, ListKept, CallsKept, BlockedOut, Placed, Next
               PROVE  Placed'
    OBVIOUS
  <1> /\ pc \in [Threads -> Labels] /\ todo \in [Threads -> Seq(Nat \ {0})]
      /\ index \in [Threads -> Nat] /\ next_block \in Nat /\ switch_block_threshold \in Nat
      /\ SegStart \in Nat /\ SegEnd \in Nat
    BY SegmentLies DEF TypeOK
  <1>1. CASE SpaceUnchanged
    <2>1. \A u \in Threads : /\ At(u, "place")' = At(u, "place") /\ At(u, "limit")' = At(u, "limit")
                             /\ Taken(u)' => index'[u] = index[u] /\ todo'[u] = todo[u]
                             /\ At(u, "fill")' => At(u, "fill")
      BY <1>1 DEF SpaceUnchanged, Spaces, At, Taken
    <2>2. next_block' = next_block /\ switch_block_threshold' = switch_block_threshold
      BY <1>1 DEF SpaceUnchanged
    <2>3. \A u \in Threads : Switching(u)' = Switching(u)
      BY <2>1 DEF Switching, At
    <2>4. SegStart' = SegStart /\ SegEnd' = SegEnd
      BY <1>1, SpaceStays
    <2>5. ASSUME NEW u \in Threads, Taken(u)'
          PROVE  index'[u] >= SegStart /\ index'[u] + Head(todo'[u]) <= next_block
      BY <1>1, <2>1, <2>5, SpaceStays DEF Placed
    <2>6. ASSUME NEW u \in Threads, At(u, "fill")' PROVE Claims(u)'
      <3>1. Claims(u) /\ Taken(u)'
        BY <2>1, <2>6 DEF Placed, Taken, At
      <3> QED BY <2>1, <2>2, <3>1 DEF Claims
    <2> QED BY <2>1, <2>2, <2>3, <2>4, <2>5, <2>6 DEF Placed
  <1>2. CASE updateBuffer
    BY <1>2 DEF updateBuffer, cacheVars, callVars, Placed, Switching, At, Taken, Claims, SegStart,
           SegEnd, Region, SegmentBlocks
  <1>3. ASSUME NEW t \in Threads, Alloc(t) \/ CheckAlloc(t) \/ Fill(t) PROVE Placed'
    <2>1. /\ localTime' = localTime /\ maxBlocks' = maxBlocks
          /\ switch_block_threshold' = switch_block_threshold /\ Inside(t)
      BY <1>3 DEF Alloc, CheckAlloc, Fill, cacheVars, Inside, At
    <2>2. SegStart' = SegStart /\ SegEnd' = SegEnd
      BY <2>1 DEF SegStart, SegEnd, Region, SegmentBlocks
    <2>3. \A u \in Threads : ~Switching(u)
      BY <2>1, NobodyInside
    <2>4. /\ pc'[t] \notin {"place", "limit"} /\ \A u \in Threads \ {t} : pc'[u] = pc[u]
      BY <1>3 DEF Alloc, CheckAlloc, Fill, Goto, At
    <2>5. \A u \in Threads : ~Switching(u)' /\ ~At(u, "place")' /\ ~At(u, "limit")'
      BY <2>3, <2>4 DEF Switching, At
    <2>6. switch_block_threshold = SegEnd /\ next_block >= SegStart
      BY <2>3 DEF Placed, Switching, At
    <2>7. \A u \in Threads \ {t} : index'[u] = index[u] /\ todo'[u] = todo[u]
      BY <1>3 DEF Alloc, CheckAlloc, Fill, callVars, At
    <2>8. /\ next_block' \in Nat /\ next_block' >= next_block
          /\ Taken(t)' => index'[t] >= SegStart /\ index'[t] + Head(todo'[t]) <= next_block'
          /\ At(t, "fill")' => Claims(t)'
      <3>1. CASE Alloc(t)
        <4>1. Head(todo[t]) \in Nat
          BY <3>1, TakenTyped DEF Alloc
        <4>2. CASE pc'[t] = "thrown" /\ next_block' = next_block
          BY <4>2 DEF Taken, At
        <4>3. CASE /\ pc'[t] = "check" /\ index'[t] = next_block /\ todo' = todo
                   /\ next_block' = next_block + Head(todo[t])
          BY <2>6, <4>1, <4>3 DEF Taken, At
        <4> QED BY <3>1, <4>2, <4>3 DEF Alloc, Goto, At
      <3>2. CASE CheckAlloc(t)
        <4>1. /\ index' = index /\ todo' = todo /\ next_block' = next_block
              /\ pc'[t] \in {"release", "fill"} /\ Taken(t)
              /\ pc'[t] = "fill" => ~(index[t] + Head(todo[t]) >= switch_block_threshold)
          BY <3>2 DEF CheckAlloc, callVars, cacheVars, Goto, At, Taken
        <4>2. index[t] + Head(todo[t]) \in Nat
          BY <4>1, TakenTyped
        <4> QED BY <2>1, <4>1, <4>2 DEF Placed, Taken, Claims, At
      <3>3. CASE Fill(t)
        BY <3>3 DEF Fill, cacheVars, Goto, At, Taken
      <3> QED BY <1>3, <3>1, <3>2, <3>3
    <2>9. \A u \in Threads :
              Taken(u)' => index'[u] >= SegStart /\ index'[u] + Head(todo'[u]) <= next_block'
      <3> SUFFICES ASSUME NEW u \in Threads \ {t}, Taken(u)'
                   PROVE  index'[u] >= SegStart /\ index'[u] + Head(todo'[u]) <= next_block'
        BY <2>8
      <3>1. Taken(u)
        BY <2>4 DEF Taken
      <3>2. index[u] >= SegStart /\ index[u] + Head(todo[u]) <= next_block
        BY <3>1 DEF Placed
      <3>3. index[u] + Head(todo[u]) \in Nat
        BY <3>1, TakenTyped
      <3> QED BY <2>7, <2>8, <3>2, <3>3
    <2>10. \A u \in Threads : At(u, "fill")' => Claims(u)'
      <3> SUFFICES ASSUME NEW u \in Threads \ {t}, At(u, "fill")' PROVE Claims(u)'
        BY <2>8
      <3> QED BY <2>1, <2>4, <2>7 DEF Placed, At, Claims, Taken
    <2>11. next_block' >= SegStart
      BY <2>6, <2>8
    <2> QED BY <2>1, <2>2, <2>5, <2>6, <2>9, <2>10, <2>11 DEF Placed
  <1>4. ASSUME NEW t \in Threads, AdvanceTime(t) \/ PlaceNextBlock(t) \/ SetThreshold(t)
        PROVE  Placed'
    <2>1. /\ pc[t] \in ListLabels /\ ((At(t, "block") /\ cursor = {}) \/ Switching(t))
          /\ pc' = [pc EXCEPT ![t] = pc'[t]] /\ pc'[t] \in {"place", "limit", "unblock"}
      BY <1>4 DEF AdvanceTime, PlaceNextBlock, SetThreshold, At, Goto, Switching, ListLabels
    <2>2. \A u \in Threads : ~Inside(u)
      BY <2>1, NobodyInside
    <2>3. \A u \in Threads \ {t} : pc[u] \notin ListLabels /\ pc'[u] = pc[u]
      BY <2>1, OneHolder
    <2>4. \A u \in Threads : ~Taken(u)' /\ ~At(u, "fill")'
      BY <2>1, <2>2, <2>3 DEF Taken, Inside, At
    <2>5. \A u \in Threads \ {t} : ~Switching(u)' /\ ~At(u, "place")' /\ ~At(u, "limit")'
      BY <2>3 DEF Switching, At, ListLabels
    <2>6. CASE AdvanceTime(t)
      <3>1. At(t, "place")'
        BY <2>6 DEF AdvanceTime, Goto, At
      <3> QED BY <2>4, <2>5, <3>1 DEF Placed, Switching, At
    <2>7. CASE PlaceNextBlock(t)
      <3>1. At(t, "limit")' /\ next_block' = SegStart /\ SegStart' = SegStart
        BY <2>7 DEF PlaceNextBlock, Goto, At, SegStart, Region, SegmentBlocks
      <3> QED BY <2>4, <2>5, <3>1 DEF Placed, Switching, At
    <2>8. CASE SetThreshold(t)
      <3>1. /\ At(t, "unblock")' /\ next_block' = next_block /\ next_block = SegStart
            /\ switch_block_threshold' = next_block + SegmentBlocks(maxBlocks)
            /\ maxBlocks' = maxBlocks /\ localTime' = localTime
        BY <2>8 DEF SetThreshold, Goto, At, Placed
      <3>2. SegStart' = SegStart /\ SegEnd' = SegEnd
        BY <3>1 DEF SegStart, SegEnd, Region, SegmentBlocks
      <3>3. switch_block_threshold' = SegEnd
        BY <3>1, SegmentLies
      <3> QED BY <2>4, <2>5, <3>1, <3>2, <3>3 DEF Placed, Switching, At
    <2> QED BY <1>4, <2>6, <2>7, <2>8
  <1> QED BY <1>1, <1>2, <1>3, <1>4, SpaceSteps DEF SpaceStep

\* Two threads never take the same blocks.
LEMMA ClaimsStayApart ==
    TypeOK /\ LocksHeld /\ ListKept /\ CallsKept /\ BlockedOut /\ Placed /\ ClaimsApart /\
    Next
    => ClaimsApart'
  <1> SUFFICES ASSUME TypeOK, LocksHeld, ListKept, CallsKept, BlockedOut, Placed, ClaimsApart, Next
               PROVE  ClaimsApart'
    OBVIOUS
  <1> /\ pc \in [Threads -> Labels] /\ todo \in [Threads -> Seq(Nat \ {0})]
      /\ index \in [Threads -> Nat] /\ next_block \in Nat /\ switch_block_threshold \in Nat
    BY DEF TypeOK
  <1>1. CASE SpaceUnchanged
    BY <1>1, SpaceStays DEF ClaimsApart
  <1>2. CASE updateBuffer
    BY <1>2 DEF updateBuffer, callVars, ClaimsApart, Taken, Blocks
  <1>3. ASSUME NEW t \in Threads, CheckAlloc(t) \/ Fill(t) PROVE ClaimsApart'
    <2>1. \A u \in Threads : Taken(u)' => Taken(u) /\ index'[u] = index[u] /\ todo'[u] = todo[u]
      BY <1>3 DEF CheckAlloc, Fill, callVars, Taken, At, Goto
    <2>2. \A u \in Threads : Taken(u)' => Taken(u) /\ Blocks(u)' = Blocks(u)
      BY <2>1 DEF Blocks
    <2> QED BY <2>2 DEF ClaimsApart
  <1>4. ASSUME NEW t \in Threads, Alloc(t) PROVE ClaimsApart'
    <2>1. Head(todo[t]) \in Nat
      BY <1>4, TakenTyped DEF Alloc
    <2>2. \A u \in Threads \ {t} : pc'[u] = pc[u] /\ index'[u] = index[u] /\ todo'[u] = todo[u]
      BY <1>4 DEF Alloc, Goto, At
    <2>3. \A u \in Threads \ {t} : Taken(u)' => Taken(u) /\ Blocks(u)' = Blocks(u)
      BY <2>2 DEF Taken, Blocks
    <2>4. ASSUME Taken(t)', NEW u \in Threads \ {t}, Taken(u)' PROVE Blocks(t)' \cap Blocks(u)' = {}
      <3>1. index'[t] = next_block /\ todo' = todo
        BY <1>4, <2>4 DEF Alloc, Goto, At, Taken
      <3>2. Blocks(t)' = next_block .. next_block + Head(todo[t]) - 1
        BY <3>1 DEF Blocks
      <3>3. Blocks(u)' = index[u] .. index[u] + Head(todo[u]) - 1
        BY <2>3, <2>4 DEF Blocks
      <3>4. index[u] \in Nat /\ Head(todo[u]) \in Nat /\ index[u] + Head(todo[u]) <= next_block
        BY <2>3, <2>4, TakenTyped DEF Placed
      <3> QED BY <2>1, <3>2, <3>3, <3>4
    <2> QED BY <2>3, <2>4 DEF ClaimsApart
  <1>5. ASSUME NEW t \in Threads, AdvanceTime(t) \/ PlaceNextBlock(t) \/ SetThreshold(t)
        PROVE  ClaimsApart'
    <2>1. \A u \in Threads : Taken(u)' => Taken(u) /\ index'[u] = index[u] /\ todo'[u] = todo[u]
      BY <1>5 DEF AdvanceTime, PlaceNextBlock, SetThreshold, callVars, Taken, At, Goto
    <2>2. \A u \in Threads : Taken(u)' => Taken(u) /\ Blocks(u)' = Blocks(u)
      BY <2>1 DEF Blocks
    <2> QED BY <2>2 DEF ClaimsApart
  <1> QED BY <1>1, <1>2, <1>3, <1>4, <1>5, SpaceSteps DEF SpaceStep

\* A patch that is valid still is where it was built, and in no segment that is reused.
LEMMA KeptStays == ASSUME TypeOK, TypeOK', LocksHeld, ListKept, CallsKept, BlockedOut, Placed, Next,
                          NEW P \in SUBSET Nat, NEW e, NEW T \in Nat, T <= getTime,
                          Current(T)', Kept(P, e, T)
                   PROVE  Kept(P, e, T)'
  <1> /\ pc \in [Threads -> Labels] /\ todo \in [Threads -> Seq(Nat \ {0})]
      /\ index \in [Threads -> Nat] /\ next_block \in Nat /\ switch_block_threshold \in Nat
      /\ localTime \in Nat /\ commitCounterSubdiv \in Nat /\ getTime \in Nat
      /\ SegStart \in Nat /\ SegEnd \in Nat /\ NUM_CACHE_SEGMENTS \in Nat \ {0, 1}
    BY SegmentLies, ClockTyped DEF TypeOK
  <1>1. getTime' # getTime + NUM_CACHE_SEGMENTS
    BY DEF Current
  <1> SUFFICES ASSUME NEW b \in P PROVE KeptAt(b, e, T)'
    BY Zenon DEF Kept
  <1>2. /\ b \in DOMAIN memory
        /\ memory[b] = [entry |-> e, time |-> T, commit |-> commitCounterSubdiv]
        /\ b \notin OpenFrom .. SegEnd - 1
        /\ \A u \in Threads : Claims(u) => b \notin Blocks(u)
        /\ WrittenSince(b, T)
    BY Zenon DEF Kept, KeptAt
  <1>3. ASSUME maxBlocks' = maxBlocks, localTime' \in Nat, localTime' >= localTime,
               commitCounterSubdiv' = commitCounterSubdiv
        PROVE  WrittenSince(b, T)'
    <2>1. PICK w \in 0 .. localTime : /\ w + NUM_CACHE_SEGMENTS * commitCounterSubdiv >= T
                                      /\ b \in Segment(w)
      BY <1>2 DEF WrittenSince
    <2>2. w \in 0 .. localTime' /\ b \in Segment(w)'
      BY <1>3, <2>1 DEF Segment, SegmentBlocks
    <2> QED BY <1>3, <2>1, <2>2 DEF WrittenSince
  <1>4. CASE SpaceUnchanged
    <2>1. /\ memory' = memory /\ commitCounterSubdiv' = commitCounterSubdiv
          /\ maxBlocks' = maxBlocks /\ localTime' = localTime
      BY <1>4 DEF SpaceUnchanged
    <2> QED BY <1>2, <1>3, <1>4, <2>1, SpaceStays DEF KeptAt, Claims
  <1>5. CASE updateBuffer
    <2>1. localTime' = localTime /\ \A t \in Threads : ~AdvanceTime(t)
      BY <1>5 DEF updateBuffer, AdvanceTime, cacheVars, At
    <2>2. commitCounterSubdiv' # commitCounterSubdiv
      BY <1>5 DEF updateBuffer
    <2> QED BY <1>1, <2>1, <2>2, ClockSteps
  <1>6. ASSUME NEW t \in Threads, Alloc(t) \/ CheckAlloc(t) \/ Fill(t)
        PROVE  /\ \A u \in Threads : ~Switching(u) /\ ~Switching(u)'
               /\ OpenFrom = next_block /\ OpenFrom' = next_block' /\ SegEnd' = SegEnd
               /\ switch_block_threshold = SegEnd /\ switch_block_threshold' = SegEnd
               /\ maxBlocks' = maxBlocks /\ localTime' = localTime
               /\ commitCounterSubdiv' = commitCounterSubdiv
               /\ DOMAIN memory' = DOMAIN memory
    <2>1. /\ localTime' = localTime /\ maxBlocks' = maxBlocks
          /\ commitCounterSubdiv' = commitCounterSubdiv
          /\ switch_block_threshold' = switch_block_threshold /\ Inside(t)
      BY <1>6 DEF Alloc, CheckAlloc, Fill, cacheVars, entryVars, Inside, At
    <2>2. \A u \in Threads : ~Switching(u)
      BY <2>1, NobodyInside
    <2>3. pc'[t] \notin {"place", "limit"} /\ \A u \in Threads \ {t} : pc'[u] = pc[u]
      BY <1>6 DEF Alloc, CheckAlloc, Fill, Goto, At
    <2>4. \A u \in Threads : ~Switching(u)' /\ ~At(u, "place") /\ ~At(u, "place")'
      BY <2>2, <2>3 DEF Switching, At
    <2>5. SegEnd' = SegEnd
      BY <2>1 DEF SegEnd, Region, SegmentBlocks
    <2>6. DOMAIN memory' = DOMAIN memory
      BY <1>6 DEF Alloc, CheckAlloc, Fill, entryVars
    <2> QED BY <2>1, <2>2, <2>4, <2>5, <2>6 DEF Placed, OpenFrom
  <1>7. ASSUME NEW t \in Threads, CheckAlloc(t) PROVE KeptAt(b, e, T)'
    <2>1. memory' = memory /\ next_block' = next_block
      BY <1>7 DEF CheckAlloc, entryVars, cacheVars
    <2>2. \A u \in Threads : Claims(u)' => Claims(u) /\ Blocks(u)' = Blocks(u)
      BY <1>7 DEF CheckAlloc, callVars, cacheVars, Claims, Taken, Blocks, Goto, At
    <2> QED BY <1>2, <1>3, <1>6, <1>7, <2>1, <2>2 DEF KeptAt
  <1>8. ASSUME NEW t \in Threads, Fill(t) PROVE KeptAt(b, e, T)'
    <2>1. Claims(t)
      BY <1>8 DEF Fill, Placed
    <2>2. b \notin Blocks(t)
      BY <1>2, <2>1
    <2>3. b \in DOMAIN memory' /\ memory'[b] = memory[b]
      BY <1>2, <1>8, <2>2 DEF Fill
    <2>4. \A u \in Threads : Claims(u)' => Claims(u) /\ Blocks(u)' = Blocks(u)
      BY <1>8 DEF Fill, cacheVars, Claims, Taken, Blocks, Goto, At
    <2>5. next_block' = next_block
      BY <1>8 DEF Fill, cacheVars
    <2> QED BY <1>2, <1>3, <1>6, <1>8, <2>3, <2>4, <2>5 DEF KeptAt
  <1>9. ASSUME NEW t \in Threads, Alloc(t) PROVE KeptAt(b, e, T)'
    <2>1. Head(todo[t]) \in Nat
      BY <1>9, TakenTyped DEF Alloc
    <2>2. memory' = memory /\ todo' = todo
      BY <1>9 DEF Alloc, entryVars
    <2>3. \A u \in Threads \ {t} : Claims(u)' => Claims(u) /\ Blocks(u)' = Blocks(u)
      BY <1>9 DEF Alloc, Claims, Taken, Blocks, Goto, At
    <2>4. next_block' >= next_block /\ next_block' \in Nat
      BY <1>9, <2>1 DEF Alloc
    <2>5. Claims(t)' => b \notin Blocks(t)'
      <3> SUFFICES ASSUME Claims(t)' PROVE b \notin Blocks(t)'
        OBVIOUS
      <3>1. index'[t] = next_block
        BY <1>9 DEF Alloc, Claims, Taken, Goto, At
      <3>2. next_block + Head(todo[t]) < SegEnd
        BY <1>6, <1>9, <2>2, <3>1 DEF Claims
      <3>3. Blocks(t)' = next_block .. next_block + Head(todo[t]) - 1
        BY <2>2, <3>1 DEF Blocks
      <3>4. Blocks(t)' \subseteq OpenFrom .. SegEnd - 1
        BY <1>6, <1>9, <2>1, <3>2, <3>3
      <3> QED BY <1>2, <3>4
    <2>6. b \notin (OpenFrom .. SegEnd - 1)'
      BY <1>2, <1>6, <1>9, <2>4
    <2>7. \A u \in Threads : Claims(u)' => b \notin Blocks(u)'
      BY <1>2, <2>3, <2>5
    <2> QED BY <1>2, <1>3, <1>6, <1>9, <2>2, <2>6, <2>7 DEF KeptAt
  <1>10. ASSUME NEW t \in Threads, AdvanceTime(t) \/ PlaceNextBlock(t) \/ SetThreshold(t)
         PROVE  /\ \A u \in Threads : ~Claims(u)'
                /\ \A u \in Threads \ {t} : ~At(u, "place") /\ ~At(u, "place")'
    <2>1. /\ pc[t] \in ListLabels /\ ((At(t, "block") /\ cursor = {}) \/ Switching(t))
          /\ pc' = [pc EXCEPT ![t] = pc'[t]] /\ pc'[t] \in {"place", "limit", "unblock"}
      BY <1>10 DEF AdvanceTime, PlaceNextBlock, SetThreshold, At, Goto, Switching, ListLabels
    <2>2. \A u \in Threads : ~Inside(u)
      BY <2>1, NobodyInside
    <2>3. \A u \in Threads \ {t} : pc[u] \notin ListLabels /\ pc'[u] = pc[u]
      BY <2>1, OneHolder
    <2>4. \A u \in Threads : ~Claims(u)'
      BY <2>1, <2>2, <2>3 DEF Claims, Taken, Inside
    <2> QED BY <2>3, <2>4 DEF At, ListLabels
  <1>11. ASSUME NEW t \in Threads, AdvanceTime(t) PROVE KeptAt(b, e, T)'
    <2>1. ~resizing /\ getTime' = getTime + 1
      <3>1. \/ ~resizing /\ getTime' = getTime + 1
            \/ resizing /\ getTime' = getTime + NUM_CACHE_SEGMENTS
            \/ getTime' = getTime /\ localTime' = localTime
        BY <1>1, <1>11, ClockSteps DEF AdvanceTime
      <3>2. localTime' # localTime
        BY <1>11 DEF AdvanceTime
      <3> QED BY <1>1, <3>1, <3>2
    <2>2. /\ localTime' = localTime + 1 /\ maxBlocks' = maxBlocks /\ memory' = memory
          /\ commitCounterSubdiv' = commitCounterSubdiv /\ At(t, "place")'
      BY <1>11, <2>1 DEF AdvanceTime, Goto, At
    <2>3. b \notin Segment(localTime')
      <3>1. PICK w \in 0 .. localTime : /\ w + NUM_CACHE_SEGMENTS * commitCounterSubdiv >= T
                                        /\ b \in Segment(w)
        BY <1>2 DEF WrittenSince
      <3>2. NUM_CACHE_SEGMENTS * commitCounterSubdiv \in Nat
        BY Product
      <3>3. T + (NUM_CACHE_SEGMENTS - 1) >= getTime + 1
        BY <2>1 DEF Current
      <3>4. localTime' < w + NUM_CACHE_SEGMENTS
        BY <2>2, <3>1, <3>2, <3>3 DEF getTime
      <3>5. w % NUM_CACHE_SEGMENTS # localTime' % NUM_CACHE_SEGMENTS
        <4>1. /\ w \in Nat /\ localTime' \in Nat /\ NUM_CACHE_SEGMENTS \in Nat \ {0}
              /\ w < localTime' /\ localTime' < w + NUM_CACHE_SEGMENTS
          BY <2>2, <3>1, <3>4
        <4> QED BY <4>1, Residues, Zenon
      <3>6. w % NUM_CACHE_SEGMENTS \in Nat /\ localTime' % NUM_CACHE_SEGMENTS \in Nat
        BY <2>2, <3>1, Division
      <3>7. SegmentBlocks(maxBlocks) \in Nat
        BY SegmentLies
      <3> QED BY <3>1, <3>5, <3>6, <3>7, Apart DEF Segment
    <2>4. (OpenFrom .. SegEnd - 1)' = Segment(localTime')
      BY <2>2 DEF OpenFrom, SegStart, SegEnd, Region, Segment, SegmentBlocks
    <2>5. WrittenSince(b, T)'
      BY <1>3, <2>2
    <2> QED BY <1>2, <1>10, <1>11, <2>2, <2>3, <2>4, <2>5, Zenon DEF KeptAt
  <1>12. ASSUME NEW t \in Threads, PlaceNextBlock(t) PROVE KeptAt(b, e, T)'
    <2>1. /\ At(t, "place") /\ ~At(t, "place")' /\ next_block' = SegStart
          /\ localTime' = localTime /\ maxBlocks' = maxBlocks /\ memory' = memory
          /\ commitCounterSubdiv' = commitCounterSubdiv
      BY <1>12 DEF PlaceNextBlock, Goto, At, SegStart, Region, entryVars
    <2>2. SegEnd' = SegEnd
      BY <2>1 DEF SegEnd, Region, SegmentBlocks
    <2>3. OpenFrom' = OpenFrom
      BY <1>10, <1>12, <2>1 DEF OpenFrom
    <2> QED BY <1>2, <1>3, <1>10, <1>12, <2>1, <2>2, <2>3 DEF KeptAt
  <1>13. ASSUME NEW t \in Threads, SetThreshold(t) PROVE KeptAt(b, e, T)'
    <2>1. /\ ~At(t, "place") /\ ~At(t, "place")' /\ next_block' = next_block
          /\ localTime' = localTime /\ maxBlocks' = maxBlocks /\ memory' = memory
          /\ commitCounterSubdiv' = commitCounterSubdiv
      BY <1>13 DEF SetThreshold, Goto, At, entryVars
    <2>2. SegEnd' = SegEnd /\ OpenFrom' = OpenFrom
      BY <1>10, <1>13, <2>1 DEF OpenFrom, SegEnd, Region, SegmentBlocks
    <2> QED BY <1>2, <1>3, <1>10, <1>13, <2>1, <2>2 DEF KeptAt
  <1> QED BY <1>4, <1>5, <1>7, <1>8, <1>9, <1>11, <1>12, <1>13, SpaceSteps DEF SpaceStep

\* A step that leaves the patch of a thread alone, and those of its own that do not.
Searching == {"lock", "backoff", "await", "probe", "try"}
CallUnchanged(u) ==
    /\ patch'[u] = patch[u] /\ entry'[u] = entry[u] /\ time'[u] = time[u]
    /\ outlived'[u] = outlived[u]
    /\ pc[u] \in Searching => pc'[u] \in Searching
    /\ pc'[u] \in {"answer", "use"} => pc[u] = pc'[u]
CallStep(u) == \/ Probe(u) \/ TryBuild(u) \/ Fill(u) \/ Publish(u) \/ Answer(u) \/ Unlock(u)
               \/ \E e \in Entries : Lookup(u, e)

\* What a step does to a call of a thread, its own or another's.
LEMMA CallSteps == TypeOK /\ Next => \A u \in Threads : CallUnchanged(u) \/ CallStep(u)
  <1> SUFFICES ASSUME TypeOK, Next, NEW v \in Threads, ~CallStep(v) PROVE CallUnchanged(v)
    OBVIOUS
  <1> /\ pc \in [Threads -> Labels] /\ patch \in [Threads -> SUBSET Nat]
      /\ entry \in [Threads -> Entries \union {NoThread}] /\ time \in [Threads -> Nat]
      /\ outlived \in [Threads -> BOOLEAN]
    BY DEF TypeOK
  <1> USE DEF callVars, Goto, At, Searching, CallUnchanged, CallStep
  <1>1. CASE updateBuffer
    BY <1>1 DEF updateBuffer
  <1>2. ASSUME NEW t \in Threads, getNextRenderThreadWorkState(t) PROVE CallUnchanged(v)
    BY <1>2 DEF getNextRenderThreadWorkState
  <1>3. ASSUME NEW t \in Threads, NEW e \in Entries, Lookup(t, e) PROVE CallUnchanged(v)
    BY <1>3 DEF Lookup
  <1>4. ASSUME NEW t \in Threads, LockThread(t) PROVE CallUnchanged(v)
    BY <1>4 DEF LockThread
  <1>5. ASSUME NEW t \in Threads, BackOff(t) PROVE CallUnchanged(v)
    BY <1>5 DEF BackOff
  <1>6. ASSUME NEW t \in Threads, AwaitReset(t) PROVE CallUnchanged(v)
    BY <1>6 DEF AwaitReset
  <1>7. ASSUME NEW t \in Threads, Probe(t) PROVE CallUnchanged(v)
    BY <1>7 DEF Probe
  <1>8. ASSUME NEW t \in Threads, TryBuild(t) PROVE CallUnchanged(v)
    BY <1>8 DEF TryBuild
  <1>9. ASSUME NEW t \in Threads, Alloc(t) PROVE CallUnchanged(v)
    BY <1>9 DEF Alloc
  <1>10. ASSUME NEW t \in Threads, CheckAlloc(t) PROVE CallUnchanged(v)
    BY <1>10 DEF CheckAlloc
  <1>11. ASSUME NEW t \in Threads, Fill(t) PROVE CallUnchanged(v)
    BY <1>11 DEF Fill
  <1>12. ASSUME NEW t \in Threads, Publish(t) PROVE CallUnchanged(v)
    BY <1>12 DEF Publish
  <1>13. ASSUME NEW t \in Threads, Answer(t) PROVE CallUnchanged(v)
    BY <1>13 DEF Answer
  <1>14. ASSUME NEW t \in Threads, Unlock(t) PROVE CallUnchanged(v)
    BY <1>14 DEF Unlock
  <1>15. ASSUME NEW t \in Threads, Release(t) PROVE CallUnchanged(v)
    BY <1>15 DEF Release
  <1>16. ASSUME NEW t \in Threads, WaitUntilUnlocked(t) PROVE CallUnchanged(v)
    BY <1>16 DEF WaitUntilUnlocked
  <1>17. ASSUME NEW t \in Threads, Relock(t) PROVE CallUnchanged(v)
    BY <1>17 DEF Relock
  <1>18. ASSUME NEW t \in Threads, allocNextSegment(t) PROVE CallUnchanged(v)
    BY <1>18 DEF allocNextSegment
  <1>19. ASSUME NEW t \in Threads, CheckFull(t) PROVE CallUnchanged(v)
    BY <1>19 DEF CheckFull
  <1>20. ASSUME NEW t \in Threads, Resize(t) PROVE CallUnchanged(v)
    BY <1>20 DEF Resize
  <1>21. ASSUME NEW t \in Threads, LockList(t) PROVE CallUnchanged(v)
    BY <1>21 DEF LockList
  <1>22. ASSUME NEW t \in Threads, NEW u \in Threads, BlockThread(t, u) PROVE CallUnchanged(v)
    BY <1>22 DEF BlockThread
  <1>23. ASSUME NEW t \in Threads, NEW u \in Threads, UnblockThread(t, u) PROVE CallUnchanged(v)
    BY <1>23 DEF UnblockThread
  <1>24. ASSUME NEW t \in Threads, Drain(t) PROVE CallUnchanged(v)
    BY <1>24 DEF Drain
  <1>25. ASSUME NEW t \in Threads, AdvanceTime(t) PROVE CallUnchanged(v)
    BY <1>25 DEF AdvanceTime
  <1>26. ASSUME NEW t \in Threads, PlaceNextBlock(t) PROVE CallUnchanged(v)
    BY <1>26 DEF PlaceNextBlock
  <1>27. ASSUME NEW t \in Threads, SetThreshold(t) PROVE CallUnchanged(v)
    BY <1>27 DEF SetThreshold
  <1>28. ASSUME NEW t \in Threads, UnlockList(t) PROVE CallUnchanged(v)
    BY <1>28 DEF UnlockList
  <1>29. ASSUME NEW t \in Threads, LeaveReset(t) PROVE CallUnchanged(v)
    BY <1>29 DEF LeaveReset
  <1> QED BY <1>1, <1>2, <1>3, <1>4, <1>5, <1>6, <1>7, <1>8, <1>9, <1>10, <1>11, <1>12, <1>13,
             <1>14, <1>15, <1>16, <1>17, <1>18, <1>19, <1>20, <1>21, <1>22, <1>23, <1>24, <1>25,
             <1>26, <1>27, <1>28, <1>29
             DEF Next, Render, Call

\* Only the end of a lookup changes a tag.
LEMMA TagSteps == TypeOK /\ Next => tag' = tag \/ \E t \in Threads : Publish(t)
  <1> SUFFICES ASSUME TypeOK, Next, \A t \in Threads : ~Publish(t) PROVE tag' = tag
    OBVIOUS
  <1>1. CASE updateBuffer
    BY <1>1 DEF updateBuffer
  <1>2. ASSUME NEW t \in Threads, Call(t) PROVE tag' = tag
    BY <1>2 DEF Call, Resize, Lookup, entryVars
  <1>3. ASSUME NEW t \in Threads, Render(t) PROVE tag' = tag
    BY <1>3 DEF Render, getNextRenderThreadWorkState, LockThread, BackOff, AwaitReset, Probe,
           TryBuild, Alloc, CheckAlloc, Fill, Answer, Unlock, Release, allocNextSegment,
           WaitUntilUnlocked, CheckFull, LockList, BlockThread, UnblockThread, Drain, AdvanceTime,
           PlaceNextBlock, SetThreshold, UnlockList, LeaveReset, Relock, entryVars
  <1> QED BY <1>1, <1>2, <1>3 DEF Next

\* What the lemmas about patches take from the rest of the invariant.
Steady == TypeOK /\ LocksHeld /\ ListKept /\ CallsKept /\ TimesPast /\ BlockedOut /\ Placed

\* Kept speaks of the blocks one by one, and its arguments may be states.
LEMMA KeptIs == ASSUME NEW P, NEW e, NEW T, NEW u \in Threads,
                       Kept(P, e, T)', P = patch'[u], e = entry'[u], T = time'[u]
                PROVE  Kept(patch[u], entry[u], time[u])'
  BY DEF Kept, KeptAt, WrittenSince

\* A patch that a step leaves alone and that is still valid is kept.
LEMMA PatchStays == ASSUME Steady, TypeOK', Next, NEW u \in Threads, patch'[u] = patch[u],
                           entry'[u] = entry[u], time'[u] = time[u], Current(time[u])',
                           Kept(patch[u], entry[u], time[u])
                    PROVE  Kept(patch[u], entry[u], time[u])'
  <1>1. patch[u] \in SUBSET Nat /\ time[u] \in Nat /\ time[u] <= getTime
    BY DEF Steady, TypeOK, TimesPast
  <1>2. PICK P \in SUBSET Nat : P = patch[u]
    BY <1>1
  <1>3. PICK e : e = entry[u]
    OBVIOUS
  <1>4. PICK T \in Nat : T = time[u]
    BY <1>1
  <1>5. Kept(P, e, T)
    BY <1>2, <1>3, <1>4
  <1>6. Current(T)'
    BY <1>4 DEF Current
  <1>7. Kept(P, e, T)'
    BY <1>1, <1>4, <1>5, <1>6, KeptStays DEF Steady
  <1> QED BY <1>2, <1>3, <1>4, <1>7, KeptIs

\* The tag of an entry that is still valid is kept, also if it is new.
LEMMA TagStays == ASSUME Steady, TypeOK', Next, NEW e \in Entries, NEW T, T = tag'[e].time,
                         NEW P, P = tag'[e].patch, T \in Nat, P \in SUBSET Nat, T <= getTime,
                         Current(tag[e].time)', Kept(P, e, T)
                  PROVE  Kept(tag[e].patch, e, tag[e].time)'
  <1>1. Current(T)'
    BY DEF Current
  <1>2. Kept(P, e, T)'
    BY <1>1, KeptStays DEF Steady
  <1> QED BY <1>2 DEF Kept, KeptAt, WrittenSince

\* What is written now is in the open segment, and nobody else has it.
LEMMA FillKeeps == ASSUME Steady, ClaimsApart, TypeOK', Next, NEW t \in Threads, Fill(t),
                          NEW b \in Blocks(t)
                   PROVE  /\ b \in DOMAIN memory' /\ memory'[b] = Stamp(t)
                          /\ b \notin (OpenFrom .. SegEnd - 1)'
                          /\ \A u \in Threads : Claims(u)' => b \notin Blocks(u)'
                          /\ WrittenSince(b, time[t])'
  <1> USE DEF Steady
  <1> /\ pc \in [Threads -> Labels] /\ todo \in [Threads -> Seq(Nat \ {0})]
      /\ index \in [Threads -> Nat] /\ next_block \in Nat /\ switch_block_threshold \in Nat
      /\ localTime \in Nat /\ commitCounterSubdiv \in Nat /\ maxBlocks \in Nat
      /\ SegStart \in Nat /\ SegEnd \in Nat /\ NUM_CACHE_SEGMENTS \in Nat \ {0, 1}
    BY SegmentLies DEF TypeOK
  <1>1. /\ Taken(t) /\ Claims(t) /\ Inside(t)
        /\ index[t] >= SegStart /\ index[t] + Head(todo[t]) <= next_block
    BY DEF Fill, Placed, Taken, Inside, At
  <1>2. index[t] \in Nat /\ Head(todo[t]) \in Nat \ {0}
    BY <1>1, TakenTyped
  <1>3. \A u \in Threads : ~Switching(u)
    BY <1>1, NobodyInside
  <1>4. switch_block_threshold = SegEnd
    BY <1>3 DEF Placed
  <1>5. b \in SegStart .. SegEnd - 1 /\ b < next_block /\ b \in Nat
    BY <1>1, <1>2, <1>4 DEF Blocks, Claims
  <1>6. SegEnd <= maxBlocks
    <2>1. Region \in Nat /\ Region < NUM_CACHE_SEGMENTS
      BY ClockTyped
    <2>2. /\ SegmentBlocks(maxBlocks) \in Nat
          /\ NUM_CACHE_SEGMENTS * SegmentBlocks(maxBlocks) <= maxBlocks
      <3>1. /\ SegmentBlocks(maxBlocks) \in Nat /\ maxBlocks % NUM_CACHE_SEGMENTS \in Nat
            /\ maxBlocks = NUM_CACHE_SEGMENTS * SegmentBlocks(maxBlocks)
                           + (maxBlocks % NUM_CACHE_SEGMENTS)
        BY Division, SegmentLies DEF SegmentBlocks
      <3>2. NUM_CACHE_SEGMENTS * SegmentBlocks(maxBlocks) \in Nat
        BY <3>1, Product
      <3> QED BY <3>1, <3>2
    <2>3. (Region + 1) * SegmentBlocks(maxBlocks) <= NUM_CACHE_SEGMENTS * SegmentBlocks(maxBlocks)
      BY <2>1, <2>2, Order
    <2>4. (Region + 1) * SegmentBlocks(maxBlocks) \in Nat
      BY DEF SegEnd
    <2> QED BY <2>2, <2>3, <2>4 DEF SegEnd
  <1>7. b \in DOMAIN memory' /\ memory'[b] = Stamp(t)
    <2>1. DOMAIN memory = 0 .. maxBlocks - 1
      BY DEF TypeOK
    <2>2. b \in DOMAIN memory
      BY <1>5, <1>6, <2>1
    <2> QED BY <2>2 DEF Fill
  <1>8. /\ maxBlocks' = maxBlocks /\ localTime' = localTime /\ next_block' = next_block
        /\ commitCounterSubdiv' = commitCounterSubdiv
    BY DEF Fill, cacheVars
  <1>9. \A u \in Threads : ~At(u, "place")'
    BY <1>3 DEF Fill, Goto, At, Switching
  <1>10. b \notin (OpenFrom .. SegEnd - 1)'
    BY <1>5, <1>8, <1>9 DEF OpenFrom
  <1>11. \A u \in Threads : Claims(u)' => b \notin Blocks(u)'
    <2>1. \A u \in Threads : Claims(u)' => u # t /\ Taken(u) /\ Blocks(u)' = Blocks(u)
      BY DEF Fill, Claims, Taken, Blocks, Goto, At
    <2> QED BY <1>1, <2>1 DEF ClaimsApart
  <1>12. WrittenSince(b, time[t])'
    <2>1. b \in Segment(localTime)
      BY <1>5, SegmentLies
    <2>2. Segment(localTime)' = Segment(localTime)
      BY <1>8 DEF Segment, SegmentBlocks
    <2>3. localTime + NUM_CACHE_SEGMENTS * commitCounterSubdiv >= time[t]
      BY DEF TimesPast, getTime
    <2>4. time' = time
      BY DEF Fill
    <2> QED BY <1>8, <2>1, <2>2, <2>3, <2>4 DEF WrittenSince
  <1> QED BY <1>7, <1>10, <1>11, <1>12

\* The patches that threads have, finished or not, are kept while they are valid.
LEMMA PatchesStayKept ==
    Steady /\ ClaimsApart /\ PatchesKept /\ TagsKept /\ TypeOK' /\ Next
    => PatchesKept'
  <1> SUFFICES ASSUME Steady, ClaimsApart, PatchesKept, TagsKept, TypeOK', Next, NEW u \in Threads,
                      pc'[u] \notin Searching, ~outlived'[u], Current(time[u])'
               PROVE  Kept(patch[u], entry[u], time[u])'
    BY DEF PatchesKept, Searching
  <1> /\ pc \in [Threads -> Labels] /\ patch \in [Threads -> SUBSET Nat]
      /\ entry \in [Threads -> Entries \union {NoThread}] /\ time \in [Threads -> Nat]
      /\ outlived \in [Threads -> BOOLEAN]
      /\ tag \in [Entries -> [index : Int, patch : SUBSET Nat, time : Nat]]
    BY DEF Steady, TypeOK
  <1>1. getTime \in Nat /\ getTime' \in Nat /\ getTime <= getTime'
    BY ClockTyped, ClockForward DEF Steady
  <1>2. CASE patch'[u] = {}
    BY <1>2 DEF Kept
  <1>3. ASSUME patch'[u] = patch[u], entry'[u] = entry[u], time'[u] = time[u],
               pc[u] \notin Searching, ~outlived[u]
        PROVE  Kept(patch[u], entry[u], time[u])'
    <2>1. Current(time[u])
      BY <1>1, <1>3 DEF Current
    <2>2. Kept(patch[u], entry[u], time[u])
      BY <1>3, <2>1 DEF PatchesKept, Searching
    <2> QED BY <1>3, <2>2, PatchStays
  <1>4. CASE CallUnchanged(u)
    BY <1>3, <1>4 DEF CallUnchanged
  <1>5. ASSUME NEW e \in Entries, Lookup(u, e) PROVE FALSE
    BY <1>5 DEF Lookup, Goto, Searching
  <1>6. CASE Probe(u)
    <2>1. pc'[u] = "use"
      BY <1>6 DEF Probe, Goto, Searching
    <2>2. entry[u] \in Entries /\ entry' = entry
      BY <1>6 DEF Probe, At, Steady, CallsKept
    <2>3. /\ patch'[u] = tag[entry[u]].patch /\ time'[u] = tag[entry[u]].time
          /\ Current(tag[entry[u]].time)
      <3>1. patch'[u] = tag[entry[u]].patch /\ time'[u] = tag[entry[u]].time
        BY <1>6, <2>1 DEF Probe, Goto
      <3>2. tag[entry[u]].time \in Nat
        BY <2>2
      <3>3. Current(tag[entry[u]].time)
        BY <1>1, <3>1, <3>2 DEF Current
      <3> QED BY <3>1, <3>3
    <2>4. PICK e \in Entries : e = entry[u]
      BY <2>2
    <2>5. PICK P \in SUBSET Nat : P = tag[e].patch
      BY <2>4
    <2>6. PICK T \in Nat : T = tag[e].time
      BY <2>4
    <2>7. Kept(P, e, T)
      BY <2>3, <2>4, <2>5, <2>6 DEF TagsKept
    <2>8. Current(T)'
      BY <2>3, <2>4, <2>6 DEF Current
    <2>9. T <= getTime
      BY <2>6 DEF Steady, TimesPast
    <2>10. Kept(P, e, T)'
      BY <2>7, <2>8, <2>9, KeptStays DEF Steady
    <2> QED BY <2>2, <2>3, <2>4, <2>5, <2>6, <2>10, KeptIs
  <1>7. CASE TryBuild(u)
    BY <1>2, <1>7 DEF TryBuild, Goto, Searching
  <1>8. CASE Fill(u)
    <2>1. /\ patch'[u] = patch[u] \union Blocks(u) /\ entry' = entry /\ time' = time
          /\ outlived' = outlived /\ pc[u] = "fill" /\ commitCounterSubdiv' = commitCounterSubdiv
      BY <1>8 DEF Fill, At
    <2>2. PICK P \in SUBSET Nat : P = patch[u]
      OBVIOUS
    <2>3. PICK e : e = entry[u]
      OBVIOUS
    <2>4. PICK T \in Nat : T = time[u]
      OBVIOUS
    <2>5. Current(time[u]) /\ T <= getTime
      BY <1>1, <2>1, <2>4 DEF Current, Steady, TimesPast
    <2>6. Kept(P, e, T)
      BY <2>1, <2>2, <2>3, <2>4, <2>5 DEF PatchesKept, Searching
    <2>7. Current(T)'
      BY <2>1, <2>4 DEF Current
    <2>8. Kept(P, e, T)'
      BY <2>5, <2>6, <2>7, KeptStays DEF Steady
    <2>9. ASSUME NEW b \in Blocks(u) PROVE KeptAt(b, e, T)'
      <3>1. /\ b \in DOMAIN memory' /\ memory'[b] = Stamp(u)
            /\ b \notin (OpenFrom .. SegEnd - 1)'
            /\ \A v \in Threads : Claims(v)' => b \notin Blocks(v)'
            /\ WrittenSince(b, time[u])'
        BY <1>8, <2>9, FillKeeps
      <3>2. WrittenSince(b, T)'
        BY <2>1, <2>4, <3>1 DEF WrittenSince
      <3> QED BY <2>1, <2>3, <2>4, <3>1, <3>2 DEF KeptAt, Stamp
    <2>10. ASSUME NEW b \in P PROVE KeptAt(b, e, T)'
      BY <2>8, <2>10, Zenon DEF Kept
    <2>11. \A b \in patch'[u] : KeptAt(b, e, T)'
      BY <2>1, <2>2, <2>9, <2>10
    <2> QED BY <2>1, <2>3, <2>4, <2>11 DEF Kept, KeptAt, WrittenSince
  <1>9. CASE Publish(u)
    <2>1. /\ patch' = patch /\ entry' = entry /\ time' = time /\ pc[u] = "publish"
      BY <1>9 DEF Publish, At
    <2>2. ~outlived[u]
      BY <2>1 DEF Steady, CallsKept
    <2> QED BY <1>3, <2>1, <2>2 DEF Searching
  <1>10. CASE Answer(u)
    <2>1. /\ patch'[u] \in {patch[u], {}} /\ entry' = entry /\ time' = time
          /\ outlived' = outlived /\ pc[u] = "answer"
      BY <1>10 DEF Answer, At
    <2> QED BY <1>2, <1>3, <2>1 DEF Searching
  <1>11. CASE Unlock(u)
    BY <1>2, <1>11 DEF Unlock
  <1> QED BY <1>4, <1>5, <1>6, <1>7, <1>8, <1>9, <1>10, <1>11, CallSteps DEF CallStep, Steady

\* So are the patches of the entries.
LEMMA TagsStayKept == Steady /\ PatchesKept /\ TagsKept /\ TypeOK' /\ Next => TagsKept'
  <1> SUFFICES ASSUME Steady, PatchesKept, TagsKept, TypeOK', Next, NEW e \in Entries,
                      Current(tag[e].time)'
               PROVE  Kept(tag[e].patch, e, tag[e].time)'
    BY DEF TagsKept
  <1> /\ patch \in [Threads -> SUBSET Nat] /\ time \in [Threads -> Nat]
      /\ tag \in [Entries -> [index : Int, patch : SUBSET Nat, time : Nat]]
    BY DEF Steady, TypeOK
  <1>1. getTime \in Nat /\ getTime' \in Nat /\ getTime <= getTime'
    BY ClockTyped, ClockForward DEF Steady
  <1>2. CASE tag'[e] = tag[e]
    <2>1. PICK P \in SUBSET Nat : P = tag[e].patch
      OBVIOUS
    <2>2. PICK T \in Nat : T = tag[e].time
      OBVIOUS
    <2>3. T <= getTime /\ Current(tag[e].time)
      BY <1>1, <1>2, <2>2 DEF Steady, TimesPast, Current
    <2>4. Kept(P, e, T)
      BY <2>1, <2>2, <2>3 DEF TagsKept
    <2> QED BY <1>2, <2>1, <2>2, <2>3, <2>4, TagStays
  <1>3. ASSUME NEW t \in Threads, Publish(t), entry[t] = e
        PROVE  Kept(tag[e].patch, e, tag[e].time)'
    <2>1. tag'[e].time = time[t] /\ tag'[e].patch = patch[t]
      BY <1>3 DEF Publish
    <2>2. PICK P \in SUBSET Nat : P = patch[t]
      OBVIOUS
    <2>3. PICK T \in Nat : T = time[t]
      OBVIOUS
    <2>4. ~outlived[t] /\ pc[t] = "publish"
      BY <1>3 DEF Steady, CallsKept, Publish, At
    <2>5. T <= getTime /\ Current(time[t])
      BY <1>1, <2>1, <2>3 DEF Steady, TimesPast, Current
    <2>6. Kept(P, e, T)
      BY <1>3, <2>2, <2>3, <2>4, <2>5 DEF PatchesKept
    <2> QED BY <2>1, <2>2, <2>3, <2>5, <2>6, TagStays
  <1>4. tag' = tag \/ \E t \in Threads : Publish(t)
    BY TagSteps DEF Steady
  <1>5. ASSUME NEW t \in Threads, Publish(t), entry[t] # e PROVE tag'[e] = tag[e]
    BY <1>5 DEF Publish
  <1> QED BY <1>2, <1>3, <1>4, <1>5

\* A patch in use that was valid when it was answered is valid still.
LEMMA UseStaysFresh == Steady /\ UseFresh /\ TypeOK' /\ Next => UseFresh'
  <1> SUFFICES ASSUME Steady, UseFresh, TypeOK', Next, getTime' < TAG_SIGN, NEW u \in Threads,
                      pc'[u] \in {"answer", "use"}, ~outlived'[u]
               PROVE  Current(time[u])'
    BY DEF UseFresh
  <1> /\ pc \in [Threads -> Labels] /\ time \in [Threads -> Nat]
      /\ outlived \in [Threads -> BOOLEAN]
    BY DEF Steady, TypeOK
  <1>0. getTime < TAG_SIGN
    <2>1. getTime \in Nat /\ getTime' \in Nat /\ getTime <= getTime'
      BY ClockTyped, ClockForward DEF Steady
    <2> QED BY <2>1
  <1>1. ASSUME pc[u] \in {"probe", "publish", "answer", "use"} PROVE getTime' = getTime
    <2>1. ~updateBuffer
      BY <1>1 DEF updateBuffer
    <2>2. \A t \in Threads : ~AdvanceTime(t)
      BY <1>1, NobodyInside DEF AdvanceTime, Steady, Inside
    <2> QED BY <2>1, <2>2, ClockSteps DEF Steady
  <1>2. ASSUME time'[u] = time[u], outlived'[u] = outlived[u], pc[u] \in {"answer", "use"}
        PROVE  Current(time[u])'
    BY <1>0, <1>1, <1>2 DEF UseFresh, Current
  <1>3. CASE CallUnchanged(u)
    BY <1>2, <1>3 DEF CallUnchanged
  <1>4. CASE Answer(u)
    BY <1>2, <1>4 DEF Answer, At
  <1>5. CASE Probe(u)
    <2>1. pc'[u] = "use" /\ pc[u] = "probe"
      BY <1>5 DEF Probe, Goto, At
    <2>2. entry[u] \in Entries
      BY <2>1 DEF Steady, CallsKept
    <2>3. time'[u] = tag[entry[u]].time /\ validCacheIndex(tag[entry[u]].index)
      BY <1>5, <2>1 DEF Probe, Goto, validTag
    <2>4. PICK T \in Nat : T = tag[entry[u]].time
      BY <2>2 DEF Steady, TypeOK
    <2>5. T < TAG_SIGN /\ tag[entry[u]].index = extractCommitIndex(T)
      <3>1. getTime \in Nat /\ T <= getTime /\ tag[entry[u]].index = extractCommitIndex(T)
        BY <2>2, <2>4, ClockTyped DEF Steady, TimesPast
      <3> QED BY <1>0, <3>1
    <2>6. validCacheIndex(T)
      BY <2>3, <2>5, ReadBack
    <2>7. Current(T)
      BY <2>6 DEF validCacheIndex, Current
    <2> QED BY <1>1, <2>1, <2>3, <2>4, <2>7 DEF Current
  <1>6. CASE Publish(u)
    <2>1. /\ pc[u] = "publish" /\ time' = time
          /\ outlived'[u] = ~Current(time[u])
      BY <1>6 DEF Publish, At
    <2> QED BY <1>1, <2>1 DEF Current
  <1>7. ~TryBuild(u) /\ ~Fill(u) /\ ~Unlock(u) /\ \A e \in Entries : ~Lookup(u, e)
    BY DEF TryBuild, Fill, Unlock, Lookup, Goto
  <1> QED BY <1>3, <1>4, <1>5, <1>6, <1>7, CallSteps DEF CallStep, Steady

\* The invariant holds at the start.
LEMMA CacheIndInvStarts == Init => CacheIndInv
  <1> SUFFICES ASSUME Init PROVE CacheIndInv
    OBVIOUS
  <1>1. TypeOK
    <2>1. SegmentBlocks(maxBlocks) \in Nat
      BY SegmentTyped DEF Init
    <2>2. memory \in [0 .. maxBlocks - 1 ->
              [entry : Entries \union {NoThread}, time : Nat, commit : Nat]]
      BY DEF Init, Free
    <2>3. tag \in [Entries -> [index : Int, patch : SUBSET Nat, time : Nat]]
      BY DEF Init, NoTag
    <2>4. localTime \in Nat
      BY DEF Init
    <2>5. pc \in [Threads -> Labels]
      BY DEF Init, Labels
    <2>6. todo \in [Threads -> Seq(Nat \ {0})]
      BY DEF Init
    <2>7. switch_block_threshold \in Nat
      BY <2>1 DEF Init
    <2> QED BY <2>2, <2>3, <2>4, <2>5, <2>6, <2>7 DEF Init, TypeOK
  <1>2. LocksHeld /\ ListKept /\ CallsKept
    BY DEF Init, LocksHeld, ListKept, CallsKept, ListLabels, ResetLabels
  <1>3. CountersBalanced
    BY DEF Init, CountersBalanced, Raised, Inside, At
  <1>4. TimesPast
    BY <1>1, ClockTyped, ReadBack DEF Init, TimesPast, NoTag
  <1>5. BlockedOut
    BY DEF Init, BlockedOut, Shut
  <1>6. Placed
    <2>1. Region = 0
      <3>1. 2 * NUM_CACHE_SEGMENTS = NUM_CACHE_SEGMENTS * 2
        OBVIOUS
      <3>2. ASSUME NEW n \in Nat \ {0} PROVE (2 * n) % n = 0
        BY <3>2
      <3> QED BY <3>2 DEF Init, Region
    <2>2. SegStart = 0 /\ SegEnd = SegmentBlocks(maxBlocks)
      BY <1>1, <2>1, SegmentLies DEF SegStart, SegEnd
    <2> QED BY <2>2 DEF Init, Placed, Switching, Taken, Claims, At
  <1>7. ClaimsApart
    BY DEF Init, ClaimsApart, Taken
  <1>8. PatchesKept /\ TagsKept
    BY DEF Init, PatchesKept, TagsKept, Kept, NoTag
  <1>9. UseFresh
    BY DEF Init, UseFresh
  <1> QED BY <1>1, <1>2, <1>3, <1>4, <1>5, <1>6, <1>7, <1>8, <1>9 DEF CacheIndInv, CoreInv,
             Unintruded

\* Every step keeps it.
LEMMA CacheIndInvSteps == CacheIndInv /\ Next => CacheIndInv'
  <1> SUFFICES ASSUME CacheIndInv, Next PROVE CacheIndInv'
    OBVIOUS
  <1>1. TypeOK /\ LocksHeld /\ ListKept /\ CallsKept /\ CountersBalanced /\ TimesPast
    BY DEF CacheIndInv, CoreInv
  <1>2. TypeOK' /\ LocksHeld' /\ ListKept' /\ CallsKept' /\ CountersBalanced'
    BY <1>1, TypesStay, PlacesStay, CountersStay DEF Places
  <1>3. CoreInv'
    BY <1>1, <1>2, TimesStay DEF CoreInv
  <1>4. ASSUME ~intruded' PROVE Unintruded'
    <2>1. ~intruded
      BY <1>1, <1>4, IntrudedStays
    <2>2. Unintruded
      BY <2>1 DEF CacheIndInv
    <2>3. Steady /\ ClaimsApart /\ PatchesKept /\ TagsKept /\ UseFresh
      BY <1>1, <2>2 DEF Steady, Unintruded
    <2>4. BlockedOut'
      BY <1>1, <1>4, <2>2, BlockedOutStays DEF Unintruded
    <2>5. Placed' /\ ClaimsApart'
      BY <1>1, <2>2, PlacedStays, ClaimsStayApart DEF Unintruded
    <2>6. PatchesKept' /\ TagsKept' /\ UseFresh'
      BY <1>2, <2>3, PatchesStayKept, TagsStayKept, UseStaysFresh
    <2> QED BY <2>4, <2>5, <2>6 DEF Unintruded
  <1> QED BY <1>3, <1>4 DEF CacheIndInv

\* Nothing in it moves while the state stands still.
LEMMA CacheIndInvStutters == CacheIndInv /\ UNCHANGED vars => CacheIndInv'
  <1> SUFFICES ASSUME CacheIndInv, UNCHANGED vars PROVE CacheIndInv'
    OBVIOUS
  <1> USE DEF vars, cacheVars, lockVars, entryVars, callVars, resetVars, boundVars
  <1>1. TypeOK' = TypeOK
    BY DEF TypeOK
  <1>2. LocksHeld' = LocksHeld /\ ListKept' = ListKept /\ CallsKept' = CallsKept
    BY DEF LocksHeld, ListKept, CallsKept
  <1>3. \A u \in Threads : At(u, "backoff")' = At(u, "backoff") /\ Inside(u)' = Inside(u)
    BY DEF At, Inside
  <1>4. \A u \in Threads : Raised(u)' = Raised(u) /\ Shut(u)' = Shut(u)
    BY DEF Raised, Shut
  <1>5. CountersBalanced' = CountersBalanced /\ BlockedOut' = BlockedOut
    BY <1>3, <1>4 DEF CountersBalanced, BlockedOut
  <1>6. TimesPast' = TimesPast
    BY DEF TimesPast, getTime, extractCommitIndex
  <1>7. SegStart' = SegStart /\ SegEnd' = SegEnd /\ OpenFrom' = OpenFrom
    BY DEF SegStart, SegEnd, Region, SegmentBlocks, OpenFrom, At
  <1>8. \A u \in Threads : /\ Taken(u)' = Taken(u) /\ Claims(u)' = Claims(u)
                           /\ Blocks(u)' = Blocks(u) /\ Switching(u)' = Switching(u)
    BY DEF Taken, Claims, Blocks, Switching
  <1>9. Placed' = Placed /\ ClaimsApart' = ClaimsApart
    BY <1>7, <1>8 DEF Placed, ClaimsApart, At
  <1>10. ASSUME NEW P, NEW e, NEW T PROVE Kept(P, e, T)' = Kept(P, e, T)
    <2>1. ASSUME NEW b PROVE WrittenSince(b, T)' = WrittenSince(b, T)
      BY DEF WrittenSince, Segment, SegmentBlocks
    <2>2. ASSUME NEW b PROVE KeptAt(b, e, T)' = KeptAt(b, e, T)
      BY <1>7, <1>8, <2>1 DEF KeptAt
    <2> QED BY <2>2, Zenon DEF Kept
  <1>11. PatchesKept' = PatchesKept /\ TagsKept' = TagsKept
    BY <1>10 DEF PatchesKept, TagsKept, Current, getTime
  <1>12. UseFresh' = UseFresh
    BY DEF UseFresh, Current, getTime
  <1> QED BY <1>1, <1>2, <1>5, <1>6, <1>9, <1>11, <1>12 DEF CacheIndInv, CoreInv, Unintruded

\* It implies what the run checks.
LEMMA CacheIndInvImplies == CacheIndInv => CacheInv
  <1> SUFFICES ASSUME CacheIndInv PROVE CacheInv
    OBVIOUS
  <1>1. TypeOK /\ LocksHeld /\ ListKept /\ CallsKept /\ CountersBalanced
    BY DEF CacheIndInv, CoreInv
  <1>2. ASSUME ~intruded PROVE Unintruded
    BY <1>2 DEF CacheIndInv
  <1>3. PatchIntact
    <2> SUFFICES ASSUME ~intruded, getTime < TAG_SIGN, NEW t \in Threads,
                        At(t, "use"), ~outlived[t], NEW b \in patch[t]
                 PROVE  /\ b \in DOMAIN memory
                        /\ memory[b].entry = entry[t] /\ memory[b].time = time[t]
                        /\ memory[b].commit = commitCounterSubdiv
      BY DEF PatchIntact
    <2>1. Current(time[t])
      BY <1>2 DEF Unintruded, UseFresh, At
    <2>2. Kept(patch[t], entry[t], time[t])
      BY <1>2, <2>1 DEF Unintruded, PatchesKept, At
    <2> QED BY <2>2 DEF Kept, KeptAt
  <1>4. SwitchExclusive
    BY <1>1, <1>2, NobodyInside DEF SwitchExclusive, Unintruded
  <1>5. FillsDisjoint
    <2> SUFFICES ASSUME ~intruded, NEW t \in Threads, At(t, "fill")
                 PROVE  /\ Blocks(t) \subseteq SegStart .. SegEnd - 1
                        /\ \A u \in Threads \ {t} : At(u, "fill") => Blocks(t) \cap Blocks(u) = {}
      BY DEF FillsDisjoint, SegStart, SegEnd
    <2>1. Placed /\ ClaimsApart /\ BlockedOut
      BY <1>2 DEF Unintruded
    <2>2. Inside(t) /\ Taken(t) /\ Claims(t) /\ index[t] >= SegStart
      BY <2>1 DEF Placed, Inside, Taken, At
    <2>3. switch_block_threshold = SegEnd
      BY <1>1, <2>1, <2>2, NobodyInside DEF Placed
    <2>4. index[t] \in Nat /\ Head(todo[t]) \in Nat /\ SegStart \in Nat /\ SegEnd \in Nat
      BY <1>1, <2>2, TakenTyped, SegmentLies
    <2>5. Blocks(t) \subseteq SegStart .. SegEnd - 1
      BY <2>2, <2>3, <2>4 DEF Blocks, Claims
    <2> QED BY <2>1, <2>2, <2>5 DEF ClaimsApart, Taken, At
  <1> QED BY <1>1, <1>3, <1>4, <1>5 DEF CacheInv

\* The cache keeps its promises: a patch in use is intact, a switch is exclusive, writers are
\* apart and inside the open segment, and no counter is lost.  The invariant a run checks.
THEOREM CacheInvInvariant == Spec => []CacheInv
  <1>1. CacheIndInv /\ [Next]_vars => CacheIndInv'
    BY CacheIndInvSteps, CacheIndInvStutters
  <1>2. Spec => []CacheIndInv
    BY CacheIndInvStarts, <1>1, PTL DEF Spec
  <1> QED BY <1>2, CacheIndInvImplies, PTL
=============================================================================
