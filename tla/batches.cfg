SPECIFICATION Spec
CONSTANTS
    Slots = {"s1", "s2", "s3"}
    Entries = {}
    Kind <- AllWireGuard
    Rotating = {}
    IPs = {"a1", "a2"}
    InitialIP <- SharedIPs
    ExitIPs <- NoExitIPs
    Names = {}
    BatchNames = {"b1", "b2"}
    Targets = {}
    NoSlot = NoSlot
    NoName = NoName
    NoTarget = NoTarget
    NoIP = NoIP
    Requests = {r1, r2}
    opts <- BatchOpts
    Calls <- BatchCalls
    ReportInputs = {}
    PreferInputs = {}
    Rotations = {}
    WarmCounts = {}
    ProbeTargets = {}
    Cancellable = {}
    MayClose = FALSE
    ClockStep = 2
    MaxTime = 3
    FailureCap = 1
INVARIANTS
    UniqueExits
    ConsumedStays
SYMMETRY SymmetricRequests
