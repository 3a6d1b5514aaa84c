SPECIFICATION HSpec
CONSTANTS
    Slots = {"s1", "s2", "s3"}
    Entries = {}
    Kind <- AllDirect
    Rotating = {}
    IPs = {"a1", "a2", "a3"}
    InitialIP <- TwoKnownIPs
    ExitIPs <- FoundIPs
    Names = {}
    BatchNames = {}
    Targets = {"t1"}
    NoSlot = NoSlot
    NoName = NoName
    NoTarget = NoTarget
    NoIP = NoIP
    Requests = {r1}
    opts <- HealthOpts
    Calls <- HealthCalls
    ReportInputs <- HealthReports
    PreferInputs <- HealthPraise
    Rotations = {}
    WarmCounts = {}
    ProbeTargets = {}
    Cancellable = {}
    MayClose = FALSE
    ClockStep = 1
    MaxTime = 2
    FailureCap = 1
ACTION_CONSTRAINT NoneFails
INVARIANTS
    RingSane
PROPERTIES
    CooldownHolds
