SPECIFICATION ProxySpec
CONSTANTS
    Codes = {"jp"}
    Places = {"jp-tyo"}
    Addresses = {"a1", "a2"}
    Seconds <- Sec
    Truths = {"1"}
    Falsehoods = {"no"}
    Unsafe = {"a b"}
    Lower <- Lows
    DeniedAddrs = {"in4", "link"}
    Zoned = {"link"}
    Unmapped <- V4
    Literals = {"out", "in4", "map4", "link"}
    LocalNames = {"localhost"}
    AllowedPorts = {80, 443}
    Conns = {"c1", "c2"}
    Exits = {"x1", "x2"}
    NoExit = NoExit
    PerExit = 1
    Total = 2
    Chained = {"x1"}
    Resolve <- Dns
    Requests <- MCRequests
    conf <- Locked
    PoolErrors = {"nocandidate", "exhausted"}
    DialAttempts = 2
CHECK_DEADLOCK FALSE
INVARIANTS
    ProxyTypeOK
    NothingLeaks
    RefusedTakesNothing
    OutsideOnly
    EchoParses
PROPERTIES
    SuccessIsReal
    AbandonedEnds
    ServeStops
