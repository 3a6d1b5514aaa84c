SPECIFICATION Spec
CONSTANTS
    Slots = {"s1", "s2", "s3"}
    Entries = {}
    Kind <- OneWireGuard
    Rotating = {}
    IPs = {"a1"}
    InitialIP <- NoIPs
    ExitIPs <- NoExitIPs
    Names = {"n1"}
    BatchNames = {}
    Targets = {}
    NoSlot = NoSlot
    NoName = NoName
    NoTarget = NoTarget
    NoIP = NoIP
    Requests = {r1, r2, r3}
    opts <- ConnOpts
    Calls <- ConnCalls
    ReportInputs = {}
    PreferInputs = {}
    Rotations = {"n1"}
    WarmCounts = {}
    ProbeTargets = {}
    Cancellable = {}
    MayClose = FALSE
    ClockStep = 1
    MaxTime = 1
    FailureCap = 1
INVARIANTS
    TypeOK
    LeaseAccounting
    ConnLimits
    SessionAccounting
PROPERTIES
    ImplementsAllocator
SYMMETRY SymmetricRequests
