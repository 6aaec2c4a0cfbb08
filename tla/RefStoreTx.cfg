SPECIFICATION TxFairSpec
CONSTANTS
    a = a  b = b  t1 = t1  t2 = t2   p1 = p1  p2 = p2
    Null = Null  Skip = Skip  Free = Free
    Name <- MCName
    Id <- MCId
    Process <- OneProcess
    Thread <- TwoThreads
    ProcessOf <- SameProcess
    Batches <- MCBatches
    Calls = {}
    MaxCalls = 3
    MaxCrashes = 2
    MaxIoErrors = 0
INVARIANT PreconditionsHold
PROPERTIES CommitPoint AtomicRefsSpec JournalsDrain
CHECK_DEADLOCK FALSE
