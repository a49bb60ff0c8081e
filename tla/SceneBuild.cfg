\* Three threads commit, with rtcCommit or, all three, with rtcCommitThread; builds may throw.
SPECIFICATION FairSpec
CONSTANTS
    Threads = {t1, t2, t3}
    ThreadCounts = {0, 3}
    Null = Null
INVARIANT BuildInv
PROPERTY CommitReturns
CHECK_DEADLOCK FALSE
