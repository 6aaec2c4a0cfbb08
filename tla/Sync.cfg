CONSTANTS
    a = a
    b = b
    main = main
    mine = mine
    pol = pol
    s1 = s1
    s2 = s2
    s3 = s3
    t1 = t1
    t2 = t2
    t3 = t3
    Server = Server
    None = None
    Client = {a, b}
    Name = {main, mine, pol}
    Object = {s1, s2, s3, t1, t2, t3}
    Snapshot = {s1, s2, s3}
    Edges <- Graph
    Reserved = {pol}
    Namespace <- Owners
    HubName <- HubNames
    Readable <- Reads
    Writable <- Writers
    PushSets <- Pushes
    Starts <- BothStarts
    Transports = {"wire", "http", "hub", "local"}
    Breaks = {"wire", "http", "hub"}
    MaxCalls = 2
    MaxCommits = 1
    MaxBreaks = 1
    MaxPolicies = 1
SPECIFICATION Spec
INVARIANTS HeadsComplete TrackingSeen Fenced
PROPERTIES LineageKept SessionsEnd
CHECK_DEADLOCK FALSE
