SPECIFICATION Spec
CONSTANTS
    Slots = {"s1"}
    Entries = {}
    Kind <- AllWireGuard
    Rotating = {}
    IPs = {"a1"}
    InitialIP <- NoIPs
    ExitIPs <- NoExitIPs
    Names = {}
    BatchNames = {}
    Targets = {}
    NoSlot = NoSlot
    NoName = NoName
    NoTarget = NoTarget
    NoIP = NoIP
    Requests = {r1}
    opts <- TunnelOpts
    Calls <- PlainCalls
    ReportInputs = {}
    PreferInputs = {}
    Rotations = {}
    WarmCounts = {}
    ProbeTargets = {}
    Cancellable = {}
    MayClose = FALSE
    ClockStep = 1
    MaxTime = 3
    FailureCap = 1
PROPERTIES
    LeaseStartsAlive
