SPECIFICATION LiveSpec
CONSTANTS
    Slots = {"s1", "s2"}
    Entries = {"e1"}
    Kind <- SlotAndEntry
    Rotating = {}
    IPs = {"a1"}
    InitialIP <- AllKnown
    ExitIPs <- AnyIP
    Names = {}
    BatchNames = {}
    Targets = {}
    NoSlot = NoSlot
    NoName = NoName
    NoTarget = NoTarget
    NoIP = NoIP
    Requests = {r1, r2}
    opts <- EntryOpts
    Calls <- PlainCalls
    ReportInputs = {}
    PreferInputs = {}
    Rotations = {}
    WarmCounts = {}
    ProbeTargets = {{"s2"}}
    Cancellable = {r1}
    MayClose = TRUE
    ClockStep = 1
    MaxTime = 2
    FailureCap = 2
ACTION_CONSTRAINTS ProbedAtStart MeasuredLate
INVARIANTS
    SingleOpener
    ActiveLimit
PROPERTIES
    UsedTunnelKept
    AcquireReturns
    CloseEnds
