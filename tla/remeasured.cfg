SPECIFICATION Spec
CONSTANTS
    Slots = {"s1", "s3"}
    Entries = {}
    Kind <- AllDirect
    Rotating = {}
    IPs = {"a1", "a2"}
    InitialIP <- SharedIPs
    ExitIPs <- ChangingIPs
    Names = {}
    BatchNames = {"b1"}
    Targets = {}
    NoSlot = NoSlot
    NoName = NoName
    NoTarget = NoTarget
    NoIP = NoIP
    Requests = {r1, r2}
    opts <- MeasureOpts
    Calls <- RecycleCalls
    ReportInputs <- PlainComplaint
    PreferInputs = {}
    Rotations = {}
    WarmCounts = {}
    ProbeTargets = {}
    Cancellable = {}
    MayClose = FALSE
    ClockStep = 1
    MaxTime = 3
    FailureCap = 1
INVARIANTS
    BatchConsistent
    MeasuredStays
SYMMETRY SymmetricRequests
