SPECIFICATION FairSpec
CONSTANTS
    a = a  b = b  t1 = t1  t2 = t2   p1 = p1  p2 = p2
    Null = Null  Skip = Skip  Free = Free
    Name <- MCName
    Id <- MCId
    Process <- TwoProcesses
    Thread <- TwoThreads
    ProcessOf <- OwnProcess
    Batches <- FewBatches
    Calls <- CallOps
    MaxCalls = 2
    MaxCrashes = 1
    MaxIoErrors = 1
PROPERTIES CallsReturn
CHECK_DEADLOCK FALSE
