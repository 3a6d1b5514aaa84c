SPECIFICATION Spec
CONSTANTS
    Slots = {"s1", "s2"}
    Entries = {}
    Kind <- AllWireGuard
    Rotating = {}
    IPs = {"a1"}
    InitialIP <- AllKnown
    ExitIPs <- AnyIP
    Names = {"n1"}
    BatchNames = {}
    Targets = {}
    NoSlot = NoSlot
    NoName = NoName
    NoTarget = NoTarget
    NoIP = NoIP
    Requests = {r1}
    opts <- TunnelOpts
    Calls <- OneSession
    ReportInputs = {}
    PreferInputs = {}
    Rotations = {}
    WarmCounts = {1}
    ProbeTargets = {{"s2"}}
    Cancellable <- ProbeOfS2
    MayClose = FALSE
    ClockStep = 2
    MaxTime = 3
    FailureCap = 1
CONSTRAINT ProbedApart
ACTION_CONSTRAINT ProbedFirst
INVARIANTS
    SingleOpener
    BudgetLimit
    ActiveLimit
PROPERTIES
    UsedTunnelKept
