CONSTANTS
    main = main
    side = side
    w = w
    g = g
    p1 = p1
    p2 = p2
    Null = Null
    Id <- History
    Child <- HistoryChild
    PolicyChild <- NoPolicy
    Target <- Snapshots
    Content <- Commits
    RefName = {main}
    Process = {p1}
    Task = {g}
    ProcessOf <- OneTask
    Ops <- AnyOp
    Reuse = TRUE
    MaxOps = 4
    MaxFaults = 1
SPECIFICATION Spec
CHECK_DEADLOCK FALSE
INVARIANTS
    RepackKeepsHeads
    IndexesAreBacked
PROPERTY
    GcCollects
