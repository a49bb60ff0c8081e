----------------------------- MODULE FastAllocator -----------------------------
(* The allocator for nodes and leaves: each thread hands out pieces of a block   *)
(* of its own, which it takes from the current block of its slot, which all      *)
(* threads of the slot share; blocks are kept from one build to the next.        *)
(* Memory is counted in units; alignment and the headers of blocks are left out. *)
(* Source: src/embree/kernels/common/alloc.h, FastAllocator                      *)
EXTENDS Integers, FiniteSets, FiniteSetsExt, SequencesExt

CONSTANTS Threads, numSlots,
          slotOf,              \* the slot of a thread: threadIndex & slotMask
          Blocks,              \* numbers of the blocks; bound: the system gives no more at a time
          Sizes,               \* of the pieces asked for
          allocBlockSize,      \* of a thread's own block: defaultBlockSize
          maxAllocationSize,
          bytesAllocate, bytesReserve,   \* of the first block
          Special,             \* what the Morton builder takes of the first block
          MaxBuilds,           \* bound
          Null

Slots == 1 .. numSlots

ASSUME AllocatorAssumption ==
    /\ numSlots \in Nat /\ slotOf \in [Threads -> Slots]
    /\ Sizes \subseteq Nat \ {0} /\ Null \notin Blocks \union Threads
    /\ {allocBlockSize, maxAllocationSize, bytesAllocate, bytesReserve} \subseteq Nat \ {0} /\ Special \in Nat
    /\ allocBlockSize <= maxAllocationSize /\ bytesAllocate <= bytesReserve

VARIABLES Parallel,            \* ENABLE_PARALLEL_BLOCK_ALLOCATION, of the build
          Static,              \* the scene is static: memory is shrunk after a build
          cur, allocEnd, reserveEnd,                 \* of a block
          usedBlocks, freeBlocks, threadBlocks,      \* lists; one per slot
          threadUsedBlocks,                          \* of a slot: the current block
          growSize, mutex, slotMutex,
          pc, size, myUsedBlocks,             \* of a thread that allocates
          local,                                     \* of a thread: its own block
          building, builds,
          alive,                                     \* the blocks that the system has given
          handedOut,                                 \* the pieces in use: block, begin, end
          dropped                                    \* history: blocks that reset has forgotten

blockVars == <<cur, allocEnd, reserveEnd>>
listVars == <<usedBlocks, freeBlocks, threadBlocks, threadUsedBlocks, growSize, alive>>
threadVars == <<pc, size, myUsedBlocks>>
vars == <<blockVars, listVars, mutex, slotMutex, threadVars, local, building, builds, handedOut, dropped>>
flags == <<Parallel, Static>>

NoLocal == [block |-> Null, ptr |-> 0, cur |-> 0, end |-> 0]

Init ==
    /\ cur = [b \in Blocks |-> 0] /\ allocEnd = cur /\ reserveEnd = cur
    /\ Parallel \in BOOLEAN /\ Static \in BOOLEAN /\ dropped = {}
    /\ usedBlocks = <<>> /\ freeBlocks = <<>> /\ threadBlocks = [s \in Slots |-> <<>>]
    /\ threadUsedBlocks = [s \in Slots |-> Null]
    /\ growSize = allocBlockSize /\ mutex = Null /\ slotMutex = [s \in Slots |-> Null]
    /\ pc = [t \in Threads |-> "idle"] /\ size = [t \in Threads |-> 0]
    /\ myUsedBlocks = [t \in Threads |-> Null] /\ local = [t \in Threads |-> NoLocal]
    /\ building = FALSE /\ builds = 0 /\ alive = {} /\ handedOut = {}

Goto(t, l) == pc' = [pc EXCEPT ![t] = l]
Forget(ts) == /\ size' = [t \in Threads |-> IF t \in ts THEN 0 ELSE size[t]]
              /\ myUsedBlocks' = [t \in Threads |-> IF t \in ts THEN Null ELSE myUsedBlocks[t]]
\* The thread tries again, and forgets the block that it has seen; it gives up; it is done.
Retry(t) == Goto(t, "malloc") /\ myUsedBlocks' = [myUsedBlocks EXCEPT ![t] = Null] /\ UNCHANGED size
Throw(t) == Goto(t, "threw") /\ Forget({t})
Idle == \A t \in Threads : pc[t] = "idle"
Current(t) == threadUsedBlocks[slotOf[t]]
Small(t) == 4 * size[t] <= allocBlockSize
Bytes(t) == IF Small(t) THEN allocBlockSize ELSE size[t]      \* asked of the shared block

\* Block::create, of a block b that the system gives.  It may throw instead, for want of memory or
\* because the memory monitor refuses: the locks are left and the lists are as they were.
Create(b, allocate, reserve) ==
    /\ b \in Blocks \ alive /\ \A c \in Blocks \ alive : b <= c
    /\ alive' = alive \union {b}
    /\ cur' = [cur EXCEPT ![b] = 0]
    /\ allocEnd' = [allocEnd EXCEPT ![b] = allocate]
    /\ reserveEnd' = [reserveEnd EXCEPT ![b] = reserve]

------------------------------------------------------------------------------
\* ThreadLocal::malloc: a piece of the thread's own block, or a call of the allocator for a large
\* piece or for a new block
LocalMalloc(t) ==
    /\ building /\ pc[t] = "idle"
    /\ \E n \in Sizes :
          IF local[t].cur + n <= local[t].end
          THEN /\ local' = [local EXCEPT ![t].cur = @ + n]
               /\ handedOut' = handedOut \union {[block |-> local[t].block, from |-> local[t].ptr + local[t].cur,
                                                  to |-> local[t].ptr + local[t].cur + n]}
               /\ UNCHANGED <<pc, size>>
          ELSE /\ size' = [size EXCEPT ![t] = n]
               /\ Goto(t, "malloc") /\ UNCHANGED <<local, handedOut>>
    /\ UNCHANGED <<blockVars, listVars, mutex, slotMutex, myUsedBlocks, building, builds, dropped>>

\* FastAllocator::malloc
Malloc(t) ==
    /\ pc[t] = "malloc"
    /\ myUsedBlocks' = [myUsedBlocks EXCEPT ![t] = Current(t)]
    /\ LET b == Current(t) IN
       Goto(t, IF b # Null /\ cur[b] + Bytes(t) <= reserveEnd[b] THEN "add" ELSE "grow")
    /\ UNCHANGED <<blockVars, listVars, mutex, slotMutex, size, local, building, builds, handedOut, dropped>>

\* Mutant of Add.
AddUnchecked(t) ==
    /\ pc[t] = "add"
    /\ LET b == myUsedBlocks[t]
           i == cur[b]
           end == i + Bytes(t)
       IN  /\ cur' = [cur EXCEPT ![b] = end]
           /\ \/ /\ i > reserveEnd[b]
                 /\ Goto(t, "grow") /\ UNCHANGED <<local, handedOut, size, myUsedBlocks>>
              \/ /\ i <= reserveEnd[b]
                 /\ Goto(t, "idle") /\ Forget({t})
                 /\ handedOut' = handedOut \union {[block |-> b, from |-> i, to |-> i + size[t]]}
                 /\ local' = IF Small(t) THEN [local EXCEPT ![t] = [block |-> b, ptr |-> i, cur |-> size[t],
                                                                 end |-> Bytes(t)]]
                                      ELSE local
              \/ /\ i <= reserveEnd[b] /\ end > allocEnd[b]
                 /\ Throw(t) /\ UNCHANGED <<local, handedOut>>
    /\ UNCHANGED <<allocEnd, reserveEnd, listVars, mutex, slotMutex, building, builds, dropped>>

\* The piece is taken by adding to cur, and too late when others have added meanwhile.  The memory
\* monitor may refuse to commit it: then it is lost, and the thread throws.
Add(t) ==
    /\ pc[t] = "add"
    /\ LET b == myUsedBlocks[t]
           i == cur[b]
           end == i + Bytes(t)
       IN  /\ cur' = [cur EXCEPT ![b] = end]
           /\ \/ /\ end > reserveEnd[b]
                 /\ Goto(t, "grow") /\ UNCHANGED <<local, handedOut, size, myUsedBlocks>>
              \/ /\ end <= reserveEnd[b]
                 /\ Goto(t, "idle") /\ Forget({t})
                 /\ handedOut' = handedOut \union {[block |-> b, from |-> i, to |-> i + size[t]]}
                 /\ local' = IF Small(t) THEN [local EXCEPT ![t] = [block |-> b, ptr |-> i, cur |-> size[t],
                                                                 end |-> Bytes(t)]]
                                      ELSE local
              \/ /\ end <= reserveEnd[b] /\ end > allocEnd[b]
                 /\ Throw(t) /\ UNCHANGED <<local, handedOut>>
    /\ UNCHANGED <<allocEnd, reserveEnd, listVars, mutex, slotMutex, building, builds, dropped>>

Grow(t) ==
    /\ pc[t] = "grow"
    /\ IF Bytes(t) > maxAllocationSize THEN Throw(t)
       ELSE /\ Goto(t, IF Parallel /\ freeBlocks = <<>> THEN "lockSlot" ELSE "lock")
            /\ UNCHANGED <<size, myUsedBlocks>>
    /\ UNCHANGED <<blockVars, listVars, mutex, slotMutex, local, building, builds,
                   handedOut, dropped>>

LockSlot(t) ==
    /\ pc[t] = "lockSlot" /\ slotMutex[slotOf[t]] = Null
    /\ IF myUsedBlocks[t] = Current(t)
       THEN /\ Goto(t, "createInSlot") /\ slotMutex' = [slotMutex EXCEPT ![slotOf[t]] = t]
            /\ UNCHANGED <<size, myUsedBlocks>>
       ELSE Retry(t) /\ UNCHANGED slotMutex
    /\ UNCHANGED <<blockVars, listVars, mutex, local, building, builds, handedOut, dropped>>

CreateInSlot(t) ==
    /\ pc[t] = "createInSlot"
    /\ \/ /\ Retry(t)
          /\ \E b \in Blocks :
                /\ Create(b, maxAllocationSize, maxAllocationSize)
                /\ threadBlocks' = [threadBlocks EXCEPT ![slotOf[t]] = <<b>> \o @]
                /\ threadUsedBlocks' = [threadUsedBlocks EXCEPT ![slotOf[t]] = b]
       \/ /\ Throw(t)
          /\ UNCHANGED <<blockVars, alive, threadBlocks, threadUsedBlocks>>
    /\ slotMutex' = [slotMutex EXCEPT ![slotOf[t]] = Null]
    /\ UNCHANGED <<usedBlocks, freeBlocks, growSize, mutex, local, building, builds,
                   handedOut, dropped>>

Lock(t) ==
    /\ pc[t] = "lock" /\ mutex = Null
    /\ IF myUsedBlocks[t] = Current(t)
       THEN /\ Goto(t, IF freeBlocks # <<>> THEN "take" ELSE "create") /\ mutex' = t
            /\ UNCHANGED <<size, myUsedBlocks>>
       ELSE Retry(t) /\ UNCHANGED mutex
    /\ UNCHANGED <<blockVars, listVars, slotMutex, local, building, builds, handedOut, dropped>>

TakeFree(t) ==
    /\ pc[t] = "take" /\ Retry(t) /\ mutex' = Null
    /\ usedBlocks' = <<Head(freeBlocks)>> \o usedBlocks
    /\ threadUsedBlocks' = [threadUsedBlocks EXCEPT ![slotOf[t]] = Head(freeBlocks)]
    /\ freeBlocks' = Tail(freeBlocks)
    /\ UNCHANGED <<blockVars, threadBlocks, growSize, alive, slotMutex, local, building, builds,
                   handedOut, dropped>>

CreateUsed(t) ==
    /\ pc[t] = "create" /\ mutex' = Null
    /\ growSize' = Min({2 * growSize, maxAllocationSize})
    /\ \/ /\ Retry(t)
          /\ \E b \in Blocks :
                /\ Create(b, growSize', growSize')
                /\ usedBlocks' = <<b>> \o usedBlocks
                /\ threadUsedBlocks' = [threadUsedBlocks EXCEPT ![slotOf[t]] = b]
       \/ /\ Throw(t)
          /\ UNCHANGED <<blockVars, alive, usedBlocks, threadUsedBlocks>>
    /\ UNCHANGED <<freeBlocks, threadBlocks, slotMutex, local, building, builds, handedOut,
                   dropped>>

------------------------------------------------------------------------------
\* Between builds, by one thread

\* reset: the blocks are kept, the pieces are not.
Reset ==
    /\ allocEnd' = [b \in Blocks |-> IF Contains(usedBlocks, b) THEN Max({allocEnd[b], cur[b]}) ELSE allocEnd[b]]
    /\ cur' = [b \in Blocks |-> IF Contains(usedBlocks, b) THEN 0 ELSE cur[b]]
    /\ freeBlocks' = Reverse(usedBlocks) \o freeBlocks /\ usedBlocks' = <<>>
    /\ threadBlocks' = [s \in Slots |-> <<>>]
    /\ threadUsedBlocks' = [s \in Slots |-> Null]
    /\ local' = [t \in Threads |-> NoLocal] /\ handedOut' = {}
    /\ dropped' = dropped \union Range(FlattenSeq(threadBlocks))
    /\ UNCHANGED <<reserveEnd, growSize, alive>>

\* init, of the Morton builder, and init_estimate, of the others; blocks there are are used again.
BeginBuild ==
    /\ ~building /\ Idle /\ building' = TRUE
    /\ builds < MaxBuilds /\ builds' = builds + 1
    /\ IF usedBlocks # <<>> \/ freeBlocks # <<>> THEN Reset
       ELSE \/ /\ growSize' = Max({allocBlockSize, bytesReserve})
               /\ \E b \in Blocks : Create(b, bytesAllocate, bytesReserve) /\ freeBlocks' = <<b>>
               /\ UNCHANGED <<usedBlocks, threadBlocks, threadUsedBlocks, local, handedOut, dropped>>
            \/ /\ growSize' = allocBlockSize
               /\ UNCHANGED <<blockVars, usedBlocks, freeBlocks, threadBlocks, threadUsedBlocks,
                              alive, local, handedOut, dropped>>
    /\ UNCHANGED <<mutex, slotMutex, threadVars>>

Allocated(b) == Min({Max({allocEnd[b], cur[b]}), reserveEnd[b]})

\* specialAlloc: the Morton builder sorts in the first free block, before any node is allocated.
SpecialAlloc ==
    /\ building /\ Idle /\ usedBlocks = <<>>
    /\ (IF freeBlocks = <<>> THEN 0 ELSE Allocated(Head(freeBlocks))) < Special
    /\ \E b \in Blocks : Create(b, Special, Special) /\ freeBlocks' = <<b>> \o freeBlocks
    /\ UNCHANGED <<usedBlocks, threadBlocks, threadUsedBlocks, growSize, mutex, slotMutex, threadVars, local,
                   building, builds, handedOut, dropped>>

\* The regression test resets the allocator again and again, without a cleanup.
ResetAgain ==
    /\ building /\ Idle /\ Reset
    /\ builds < MaxBuilds /\ builds' = builds + 1
    /\ UNCHANGED <<mutex, slotMutex, threadVars, building>>

\* cleanup: the blocks of the slots, one after the other, go to the front of the used ones.
Moved == Reverse(FlattenSeq(threadBlocks)) \o usedBlocks
Cleanup(used) ==
    /\ usedBlocks' = used
    /\ threadBlocks' = [s \in Slots |-> <<>>]
    /\ local' = [t \in Threads |-> NoLocal]

\* shrink: the used blocks are cut, the free ones are given back.
Shrink ==
    LET cut(b) == Min({cur[b], reserveEnd[b]})
        shrunk == Range(usedBlocks)
    IN  /\ allocEnd' = [b \in Blocks |-> IF b \in shrunk THEN cut(b) ELSE allocEnd[b]]
        /\ reserveEnd' = [b \in Blocks |-> IF b \in shrunk THEN cut(b) ELSE reserveEnd[b]]
        /\ freeBlocks' = <<>> /\ alive' = alive \ Range(freeBlocks)
        /\ UNCHANGED cur

\* What a builder does with the memory at its end
EndBuild ==
    /\ building /\ Idle /\ building' = FALSE
    /\ IF Static THEN Shrink ELSE UNCHANGED <<blockVars, freeBlocks, alive>>
    /\ Cleanup(Moved)
    /\ UNCHANGED <<threadUsedBlocks, growSize, mutex, slotMutex, threadVars, builds, handedOut, dropped>>

\* clear, after an exception of a builder and when the tree is deleted or its size has changed
Clear ==
    /\ \A t \in Threads : pc[t] \in {"idle", "threw"}
    /\ building => \E t \in Threads : pc[t] = "threw"
    /\ ~building => usedBlocks # <<>> \/ freeBlocks # <<>>
    /\ building' = FALSE /\ pc' = [t \in Threads |-> "idle"] /\ Forget(Threads)
    /\ Cleanup(<<>>) /\ freeBlocks' = <<>> /\ threadUsedBlocks' = [s \in Slots |-> Null]
    /\ alive' = alive \ Range(Moved \o freeBlocks)
    /\ handedOut' = {}
    /\ UNCHANGED <<blockVars, growSize, mutex, slotMutex, builds, dropped>>

Step ==
    \/ BeginBuild \/ SpecialAlloc \/ ResetAgain \/ EndBuild \/ Clear
    \/ \E t \in Threads : \/ LocalMalloc(t) \/ Malloc(t) \/ Add(t) \/ Grow(t) \/ LockSlot(t) \/ CreateInSlot(t)
                           \/ Lock(t) \/ TakeFree(t) \/ CreateUsed(t)

\* How the code is built and what the scene is do not change.
Next == Step /\ UNCHANGED flags

Spec == Init /\ [][Next]_<<vars, flags>>

------------------------------------------------------------------------------
\* The kinds of the state, the bound of the blocks' growth, and the owners of the locks (alloc.h 475-505)
TypeOK ==
    /\ alive \subseteq Blocks /\ usedBlocks \in Seq(alive) /\ freeBlocks \in Seq(alive)
    /\ threadBlocks \in [Slots -> Seq(alive)] /\ threadUsedBlocks \in [Slots -> Blocks \union {Null}]
    /\ growSize \in allocBlockSize .. Max({maxAllocationSize, bytesReserve})
    /\ \A t \in Threads : /\ pc[t] \in {"take", "create"} <=> mutex = t
                          /\ pc[t] = "createInSlot" <=> slotMutex[slotOf[t]] = t

\* The block of a thread and the pieces taken from it, or from the shared block, never overlap, and
\* none goes past the end of its block, however many threads add to the same block at the same time.
PiecesApart ==
    /\ \A p \in handedOut : p.block \in alive /\ p.to <= reserveEnd[p.block]
    /\ \A p, q \in handedOut : p # q /\ p.block = q.block => p.to <= q.from \/ q.to <= p.from

\* Every block the system has given is in one list, once: none is freed twice, and none is lost
\* but those of the slots that reset finds before a cleanup.
BlocksListed ==
    LET all == usedBlocks \o freeBlocks \o FlattenSeq(threadBlocks)
    IN  Range(all) = alive \ dropped /\ Len(all) = Cardinality(alive \ dropped)

\* The block that the threads of a slot take their memory from is one of those in use, so that it is
\* not given to another slot, nor freed, under them.
CurrentInUse ==
    building => \A s \in Slots : \/ threadUsedBlocks[s] = Null
                                \/ threadUsedBlocks[s] \in Range(usedBlocks \o FlattenSeq(threadBlocks))

\* The allocator keeps every promise above at once.
AllocatorInv == TypeOK /\ PiecesApart /\ BlocksListed /\ CurrentInUse
===============================================================================
