CONSTANTS
    main = main
    side = side
    w = w
    g = g
    p1 = p1
    p2 = p2
    Null = Null
    Id <- History
    Child <- HistoryChild
    PolicyChild <- NoPolicy
    Target <- Snapshots
    Content <- Commits
    RefName = {main, side}
    Process = {p1, p2}
    Task = {w, g}
    ProcessOf <- OwnProcess
    Ops <- OneCollects
    Reuse = FALSE
    MaxOps = 4
    MaxFaults = 0
SPECIFICATION Spec
CHECK_DEADLOCK FALSE
INVARIANT
    RepackKeepsHeads
