CONSTANTS
    main = main
    feature = feature
    owner = owner
    guest = guest
    p = p
    q = q
    x = x
    y = y
    None = None
    Unresolvable = Unresolvable
    Task = {owner, guest}
    Timeline = {main, feature}
    Path = {p, q}
    Blob = {x, y}
    Key = {"k1"}
    Initial <- History
    Heads <- AtStart
    FastForward = {main}
    Expired = {feature}
    Clearance <- Grants
    Labelled = {q}
    Taggable = {3}
    Attestable <- Approvals
    Proposal <- Proposals
    Root <- Roots
    Local <- LocalApproval
    MaxSnapshots = 4
    MaxCalls = 2
    MaxEdits = 2
SPECIFICATION Spec
INVARIANTS AuditTrue
PROPERTIES LineageKept MergeKeepsTarget WritesPermitted ApprovedLanding
CHECK_DEADLOCK FALSE
