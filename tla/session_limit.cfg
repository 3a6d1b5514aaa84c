SPECIFICATION Spec
CONSTANTS
    Slots = {"s1"}
    Entries = {}
    Kind <- AllDirect
    Rotating = {}
    IPs = {"a1"}
    InitialIP <- NoIPs
    ExitIPs <- NoExitIPs
    Names = {"n1", "n2"}
    BatchNames = {}
    Targets = {}
    NoSlot = NoSlot
    NoName = NoName
    NoTarget = NoTarget
    NoIP = NoIP
    Requests = {r1, r2}
    opts <- SessionOpts
    Calls <- TwoSessions
    ReportInputs = {}
    PreferInputs = {}
    Rotations = {"n1"}
    WarmCounts = {}
    ProbeTargets = {}
    Cancellable = {}
    MayClose = FALSE
    ClockStep = 1
    MaxTime = 1
    FailureCap = 1
INVARIANTS
    SessionLimit
SYMMETRY SymmetricRequests
