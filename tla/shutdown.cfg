SPECIFICATION ServiceSpec
ACTION_CONSTRAINT FirstLife
CONSTANTS
    Slots = {"s1"}
    Entries = {}
    Kind <- OneWireGuard
    Rotating = {}
    IPs = {"a1"}
    InitialIP <- NoIPs
    ExitIPs <- AnyIP
    Names = {"n1"}
    BatchNames = {}
    Targets = {"t1"}
    NoSlot = NoSlot
    NoName = NoName
    NoTarget = NoTarget
    NoIP = NoIP
    Requests = {r1}
    opts <- ServiceOpts
    Calls <- ServiceCalls
    ReportInputs = {}
    PreferInputs = {}
    Rotations = {}
    WarmCounts = {}
    ProbeTargets = {}
    Cancellable = {}
    MayClose = TRUE
    ClockStep = 1
    MaxTime = 2
    FailureCap = 1
    Codes = {}
    Places = {}
    Addresses = {"a1", "a2"}
    Seconds <- Sec
    Truths = {"1"}
    Falsehoods = {}
    Unsafe = {""}
    Lower <- Lows
    Loopback = {"local"}
    ControlRequests <- MCControl
    access <- Guarded
INVARIANTS
    ClosedIsQuiet
    AcceptedIsSaved
PROPERTIES
    CooldownHolds
    ServiceStops
