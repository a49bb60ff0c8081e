\* Two threads and three lookups of two entries, a resize and an updated buffer; one shape is
\* larger than a segment of the smaller buffer.  The time starts at 4 and passes the bits of a tag at 9.
SPECIFICATION FairSpec
CONSTANTS
    Threads = {t1, t2}
    Entries = {e1, e2}
    NUM_CACHE_SEGMENTS = 2
    TAG_SIGN = 9
    BlockCounts = {4, 6}
    Shapes <- WithTooLarge
    MaxLookups = 3
    MaxResizes = 1
    MaxUpdates = 1
    MaxTime = 11
    NoThread = NoThread
INVARIANT CacheInv
PROPERTY LookupsReturn
CHECK_DEADLOCK FALSE
