SPECIFICATION Spec
CONSTANTS
    Slots = {"s1", "s3"}
    Entries = {}
    Kind <- AllWireGuard
    Rotating = {}
    IPs = {"a1", "a2"}
    InitialIP <- SharedIPs
    ExitIPs <- NoExitIPs
    Names = {}
    BatchNames = {"b1"}
    Targets = {"t1"}
    NoSlot = NoSlot
    NoName = NoName
    NoTarget = NoTarget
    NoIP = NoIP
    Requests = {r1, r2}
    opts <- RollbackOpts
    Calls <- BatchCalls
    ReportInputs <- ScopedComplaint
    PreferInputs = {}
    Rotations = {}
    WarmCounts = {}
    ProbeTargets = {}
    Cancellable = {}
    MayClose = FALSE
    ClockStep = 1
    MaxTime = 1
    FailureCap = 1
INVARIANTS
    ServedStays
SYMMETRY SymmetricRequests
