----------------------------- MODULE PoolState -----------------------------
(***************************************************************************)
(* The state of internal/pool (type Pool, slotState, entryState, Lease)    *)
(* and what its *Locked helpers compute from it.  Everything here is a     *)
(* state function: the critical sections that use them are the actions of  *)
(* module Pool.                                                            *)
(*                                                                         *)
(* Time is a natural number; 0 is Go's zero time and the program starts at *)
(* 1.  now.Before(t) is now < t and now.After(t) is now > t.               *)
(***************************************************************************)
EXTENDS Naturals, Batch, PreferredSet

CONSTANTS
    Slots,          \* slot IDs of the catalog
    Entries,        \* entry tunnels that relay-socks slots ride on
    Kind,           \* Slots -> {"wireguard", "relay-socks", "direct-socks"}
    Rotating,       \* slots whose provider changes the exit address at will
    IPs,            \* public addresses
    InitialIP,      \* Slots -> address known when serving starts, or NoIP
    ExitIPs,        \* Slots -> addresses an IP check of the slot may return
    Names,          \* sticky-session names
    BatchNames,     \* unique-batch names
    Targets,        \* health scopes: destination hosts or health= values
    NoSlot, NoName, NoTarget,
    Requests,       \* concurrent callers of Acquire
    opts            \* type Options; a cap of 0 means "no cap", as in the code

CONSTANTS           \* the environment's inputs
    Calls,          \* (policy, target) pairs a client may ask for
    ReportInputs, PreferInputs, Rotations,  \* control-API calls
    WarmCounts,     \* arguments of Warmup
    ProbeTargets,   \* sets of slots that Probe may be asked to measure
    Cancellable,    \* processes whose context may be cancelled
    MayClose,       \* whether Close is called
    ClockStep,      \* what one tick adds: with 2 and odd lifetimes the clock
                    \* never reads the very instant something expires
    MaxTime,        \* bound on the clock
    FailureCap      \* bound on the counters of consecutive failures

Kinds   == {"wireguard", "relay-socks", "direct-socks"}
Holders == Slots \cup Entries        \* what may own a WireGuard tunnel

\* The goroutines besides the callers of Acquire: the IP check of a slot, the
\* opener Warmup starts for a slot or an entry, the goroutine Probe starts for a
\* slot, and the Maintain loop.
Checker(s)  == <<"check", s>>
Warmer(h)   == <<"warm", h>>
Prober(s)   == <<"probe", s>>
Housekeeper == <<"maintain">>
Checkers    == {Checker(s) : s \in Slots}
Warmers     == {Warmer(h) : h \in Holders}
Probers     == {Prober(s) : s \in Slots}
Workers     == Checkers \cup Warmers \cup Probers \cup {Housekeeper}
Procs       == Requests \cup Workers

Options ==
    [MaxActive : Nat, MaxConnsPerExit : Nat, MaxConcurrentConns : Nat,
     SessionTTL : Nat, MaxSessionTTL : Nat, MaxSessions : Nat,
     BatchTTL : Nat, MaxBatchTTL : Nat, MaxUniqueBatches : Nat,
     Cooldown : Nat, PreferredTTL : Nat, PreferredMax : Nat,
     IdleTimeout : Nat, DialAttempts : Nat, FailureBackoff : Nat,
     MaxSlotBackoff : Nat, MaxEntryBackoff : Nat, EntryFailureThreshold : Nat,
     NewTunnelBudget : Nat, NewTunnelWindow : Nat,
     IPCheck : BOOLEAN, IPRefreshInterval : Nat, IPCheckConcurrency : Nat]

\* A request as pick sees it.  `admits' is what the slot=, provider=, cc= and
\* city= directives leave of the catalog; `target' is the health scope after
\* health= has replaced the destination host.
CallType ==
    [session : Names \cup {NoName}, ttl : Nat, uniq : BatchNames \cup {NoName},
     bttl : Nat, recycle : BOOLEAN, admits : SUBSET Slots,
     exclude : SUBSET IPs, target : Targets \cup {NoTarget}]

\* A complaint and a praise as the control API passes them on.
ReportType == [session : Names \cup {NoName}, slot : Slots \cup {NoSlot},
               publicIP : IPs \cup {NoIP}, target : Targets \cup {NoTarget}, cooldown : Nat]
PreferType == [slot : Slots, publicIP : IPs \cup {NoIP}, target : Targets, ttl : Nat]

ASSUME FiniteAssumption == /\ IsFiniteSet(Slots) /\ IsFiniteSet(Entries)
                           /\ IsFiniteSet(Requests) /\ IsFiniteSet(Names)
                           /\ IsFiniteSet(BatchNames)
ASSUME DistinctAssumption == /\ Slots \cap Entries = {}
                             /\ Requests \cap Workers = {}
                             /\ NoSlot \notin Holders
                             /\ NoName \notin Names \cup BatchNames
                             /\ NoIP \notin IPs
ASSUME InputAssumption == /\ opts \in Options
                          /\ Calls \subseteq CallType
                          /\ ReportInputs \subseteq ReportType
                          /\ PreferInputs \subseteq PreferType
                          /\ Rotations \subseteq Names
                          /\ ProbeTargets \subseteq SUBSET Slots
                          /\ Kind \in [Slots -> Kinds]
                          /\ InitialIP \in [Slots -> IPs \cup {NoIP}]
                          /\ ExitIPs \in [Slots -> SUBSET IPs]
                          /\ MaxTime \in Nat /\ FailureCap \in Nat
                          /\ ClockStep \in Nat \ {0}
Saturated(first, max) == \/ FailureCap - first >= 5
                         \/ opts.FailureBackoff * 2 ^ (FailureCap - first) >= max
ASSUME SaturationAssumption ==
    /\ FailureCap >= opts.EntryFailureThreshold
    /\ opts.EntryFailureThreshold >= 1
    /\ Saturated(1, opts.MaxSlotBackoff)
    /\ Saturated(1, opts.MaxEntryBackoff)
    /\ Saturated(opts.EntryFailureThreshold, opts.MaxEntryBackoff)
\* applyDefaults replaces a backoff that is not positive; the two caps are constants.
ASSUME BackoffAssumption == /\ opts.FailureBackoff > 0
                            /\ opts.MaxSlotBackoff > 0
                            /\ opts.MaxEntryBackoff > 0

VARIABLES
    now,
    \* control state of each process, and what it works on
    pc, call, attempt, slot, hold, cands, sticky, ctxDone, lost,
    \* the acquisition reservation of each request
    sres, bres,
    \* connection accounting
    leases, pending, leased, pendingLeases,
    sessions, pendingSessions,
    batches,
    preferred, ipCooldowns, cooldowns,
    failures, disabledUntil,
    publicIP, ipCheckedAt,
    tunnel, lastUsed, draining,
    opens, pendingTunnelOpens, probeTunnels,
    closing

callVars    == <<call, attempt, sticky, ctxDone>>
leaseVars   == <<leases, pending, leased, pendingLeases>>
sessionVars == <<sessions, pendingSessions, sres>>
batchVars   == <<batches, bres>>
healthVars  == <<preferred, ipCooldowns, cooldowns>>
failVars    == <<failures, disabledUntil>>
ipVars      == <<publicIP, ipCheckedAt>>
tunnelVars  == <<tunnel, lastUsed, draining, lost>>
budgetVars  == <<opens, pendingTunnelOpens, probeTunnels>>
vars == <<now, pc, slot, hold, cands, callVars, leaseVars, sessionVars,
          batchVars, healthVars, failVars, ipVars, tunnelVars, budgetVars,
          closing>>

NoCall    == [none |-> "call"]
NoSession == [none |-> "session"]
NoBatch   == [none |-> "batch"]

\* Where a process stands.  A request passes through "pick" ... "drop" inside
\* Acquire, runs maybeCheckIP in "check", is "leased" while the caller holds its
\* Lease, and "broken" between a failed dial and the Release that follows it.
Opening   == {"reserved", "aborting", "contact"}  \* owns hold's `opening' channel
Reserving == {"dial", "entry", "open", "wait", "got", "failed"} \cup Opening
Leasing   == {"check", "leased", "broken"}
\* A probe waits in "probe" for its turn.  For a WireGuard slot it asks in "alone"
\* for room for a tunnel of its own, contacts the relay in "hello", measures in
\* "shown", and gives the room back in "spent", or in "wasted" when it has failed.
ProbeTunnel == {"promised", "hello", "shown", "spent", "wasted"}
PCs       == {"idle", "sem", "warm", "refresh", "pick", "note", "drop", "probe", "alone"}
             \cup Reserving \cup Leasing \cup ProbeTunnel

-----------------------------------------------------------------------------
(* Expiry.  An entry that has expired and one that is absent are the same  *)
(* to every reader except where a map's size is read (sessions, batches):  *)
(* those two keep the code's exact boundary, now.After.                    *)

LiveSessions ==
    [n \in Names |-> IF sessions[n] # NoSession /\ now > sessions[n].expiresAt
                     THEN NoSession ELSE sessions[n]]
ExpiredBatches == {n \in BatchNames : /\ batches[n] # NoBatch
                                      /\ now > batches[n].expiresAt}
LiveBatches ==
    [n \in BatchNames |-> IF n \in ExpiredBatches THEN NoBatch ELSE batches[n]]
LivePreferred == [t \in Targets |-> prune(preferred[t], now)]
LiveCooldowns ==
    [s \in Slots |-> [t \in Targets |->
        IF now < cooldowns[s][t] THEN cooldowns[s][t] ELSE 0]]
LiveIPCooldowns ==
    [t \in Targets |-> [ip \in IPs |->
        IF now < ipCooldowns[t][ip] THEN ipCooldowns[t][ip] ELSE 0]]

\* A reservation points at the batch object it was made in; once that object
\* leaves the map the pointer matches no batch of the same name again.
Orphaned(dead) ==
    [r \in Requests |-> IF bres[r] = "live" /\ call[r].uniq \in dead
                        THEN "stale" ELSE bres[r]]

-----------------------------------------------------------------------------
(* Eligibility (eligibleLocked and its variants).                          *)

coolingDown(s, t) == t # NoTarget /\ now < cooldowns[s][t]
ipCoolingDownLocked(t, ip) ==
    t # NoTarget /\ ip # NoIP /\ now < ipCooldowns[t][ip]

\* Faulty: the latest complaint decides.
FaultySetIPCooldown(t, ip, until) ==
    IF ip = NoIP THEN ipCooldowns ELSE [ipCooldowns EXCEPT ![t][ip] = until]

\* The cooldowns once ip is kept from t until the given time or longer.
setIPCooldownLocked(t, ip, until) ==
    IF ip = NoIP THEN ipCooldowns ELSE [ipCooldowns EXCEPT ![t][ip] = Max({@, until})]

exitLoad(s) == leases[s] + pending[s]
\* Faulty: does not count the connections being set up.
FaultyAtExitCap(s) == opts.MaxConnsPerExit > 0 /\ leases[s] >= opts.MaxConnsPerExit

AtExitCap(s) == opts.MaxConnsPerExit > 0 /\ exitLoad(s) >= opts.MaxConnsPerExit

ipFresh(s) == /\ publicIP[s] # NoIP
              /\ ipCheckedAt[s] # 0
              /\ now < ipCheckedAt[s] + opts.IPRefreshInterval

\* requiresFreshIP is decided by uniq= as well, so waiving the batch (the
\* code clears pol.UniqueBatch) also waives freshness unless not= is given.
RuledOut(s, c, uniq) ==
    LET requiresFreshIP == uniq # NoName \/ c.exclude # {}
        b == batches[uniq]
    IN  \/ requiresFreshIP /\ (s \in Rotating \/ ~ipFresh(s))
        \/ publicIP[s] \in c.exclude
        \/ /\ uniq # NoName
           /\ b # NoBatch
           /\ now < b.expiresAt
           /\ s \in b.usedSlots \/ publicIP[s] \in usedIPs(b)

eligible(s, c, uniq) ==
    /\ ~(now < disabledUntil[s])
    /\ s \in c.admits
    /\ ~coolingDown(s, c.target)
    /\ ~ipCoolingDownLocked(c.target, publicIP[s])
    /\ ~AtExitCap(s)
    /\ ~RuledOut(s, c, uniq)

eligibleLocked(s, c) == eligible(s, c, c.uniq)
eligibleIgnoringBatchLocked(s, c) == eligible(s, c, NoName)

-----------------------------------------------------------------------------
(* Tunnel capacity and the new-tunnel budget.                              *)

isOpen(h) == tunnel[h] = "open"
ready(s)  == Kind[s] # "wireguard" \/ isOpen(s)
Up        == {h \in Holders : tunnel[h] # "closed"}     \* open or opening

\* Faulty: does not see that a tunnel is promised to a request.
FaultyIdleOpen == {s \in Slots : isOpen(s) /\ leases[s] = 0}

IdleOpen == {s \in Slots : isOpen(s) /\ exitLoad(s) = 0}
LeastRecentlyUsed(S) == {s \in S : \A t \in S : lastUsed[s] <= lastUsed[t]}

\* Faulty: does not count the tunnels that are coming up.
FaultyReserveCapacity ==
    IF \/ opts.MaxActive = 0
       \/ Cardinality({h \in Holders : isOpen(h)}) + probeTunnels < opts.MaxActive
    THEN {NoSlot}
    ELSE LeastRecentlyUsed(IdleOpen)

\* reserveCapacityLocked: {NoSlot} when there is room, else the tunnels it
\* may evict (map order breaks ties); {} is ErrCapacity.
reserveCapacityLocked ==
    IF opts.MaxActive = 0 \/ Cardinality(Up) + probeTunnels < opts.MaxActive
    THEN {NoSlot}
    ELSE LeastRecentlyUsed(IdleOpen)

\* pruneOpensLocked drops the leading timestamps that left the window.
pruneOpensLocked ==
    LET Gone(i) == opens[i] + opts.NewTunnelWindow <= now
        keep == Cardinality({k \in 1 .. Len(opens) : \A i \in 1 .. k : Gone(i)})
    IN  SubSeq(opens, keep + 1, Len(opens))

\* Faulty: does not count the contacts promised to other openers.
FaultyTunnelBudget ==
    \/ opts.NewTunnelBudget = 0
    \/ Len(pruneOpensLocked) < opts.NewTunnelBudget

tunnelBudgetAvailableLocked ==
    \/ opts.NewTunnelBudget = 0
    \/ Len(pruneOpensLocked) + pendingTunnelOpens < opts.NewTunnelBudget
\* What asking for the budget leaves of the timestamps.
OpensAfterCheck == IF opts.NewTunnelBudget = 0 THEN opens ELSE pruneOpensLocked

-----------------------------------------------------------------------------
(* Backoff.  The counters stop at FailureCap, where by SaturationAssumption *)
(* one more failure no longer makes the backoff longer.                    *)

Bump(n)    == Min({n + 1, FailureCap})
Doubled == <<1, 2, 4, 8, 16, 32>>       \* 1 << k, for k of 0 .. 5
Backoff(n, first, cap) == Min({opts.FailureBackoff * Doubled[1 + Min({n - first, 5})], cap})

-----------------------------------------------------------------------------
(* Sticky sessions and unique batches: the room for one more name.         *)

sessionTTL(c) == IF c.ttl > 0 THEN c.ttl ELSE opts.SessionTTL
batchTTL(c)   == IF c.bttl > 0 THEN c.bttl ELSE opts.BatchTTL

BoundNames(S)  == {n \in Names : S[n] # NoSession}
PendingNames   == {n \in Names : pendingSessions[n] > 0}
NeedsName(c, S) == c.session # NoName /\ S[c.session] = NoSession

\* reserveSessionLocked refuses exactly when this is false.
SessionRoom(c, S) ==
    NeedsName(c, S) /\ pendingSessions[c.session] = 0
      => Cardinality(BoundNames(S)) + Cardinality(PendingNames) < opts.MaxSessions

\* reserveBatchLocked refuses exactly when this is false.
BatchRoom(c, B) ==
    c.uniq # NoName /\ B[c.uniq] = NoBatch
      => Cardinality({n \in BatchNames : B[n] # NoBatch}) < opts.MaxUniqueBatches

\* The batch c asked for once slot s is reserved in it.
Reserved(c, s, B) ==
    LET b == IF B[c.uniq] = NoBatch THEN newBatch(now) ELSE B[c.uniq]
    IN  reserve([b EXCEPT !.expiresAt = now + batchTTL(c)], s, publicIP[s])

\* A batch with no slot left leaves the map.
OrDropped(b) == IF b.usedSlots = {} THEN NoBatch ELSE b
=============================================================================
