\* Three threads, two of them on one slot, and three blocks, so that these two can both replace the
\* block of their slot.  The first block holds one thread's block, those that follow hold two.
\* Pieces are of one unit, or larger than any block: asking for such a piece throws.
SPECIFICATION Spec
CONSTANTS
    t1 = t1
    t2 = t2
    t3 = t3
    Null = Null
    Threads <- MCThree
    numSlots = 2
    slotOf <- MCTwoSlots
    Blocks = {1, 2, 3}
    Sizes = {1, 9}
    allocBlockSize = 4
    maxAllocationSize = 8
    bytesAllocate = 2
    bytesReserve = 4
    Special = 3
    MaxBuilds = 2
CONSTRAINT FewPieces
SYMMETRY MCPair
INVARIANT AllocatorInv
CHECK_DEADLOCK FALSE
