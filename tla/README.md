# Verification of global-egress

global-egress is a forward proxy that sends every connection out through one of
many exits: WireGuard tunnels, SOCKS relays reached through WireGuard *entry*
tunnels, or plain SOCKS servers.  Clients steer the choice with a policy (sticky
sessions, unique batches, locations, excluded addresses, a health scope), and
report back which exits worked.  The logic that can go wrong is, above all, the
*pool* (`internal/pool`): one mutex, many goroutines that drop it for a handshake,
and a dozen maps and counters that have to agree afterwards.  Around it are the
proxy front ends that hold its leases, the control API that gives it feedback, the
process that starts, saves and closes it, and the commands that replace the files
it is built from.  This directory models these parts in TLA+, checks them with TLC
on small instances, and proves most of their safety properties with TLAPS for every
value of the constants.

## 1. The system and its parts

| Part | State it keeps | Operations | Interacts with |
|---|---|---|---|
| Acquisition (`pool.go`) | `leases`, `pendingLeases` per slot and pool-wide, `sessions`, `pendingSessions` | `Acquire` = pick, ensureDialer, commit or rollback, retry; `Release`, `Rotate` | everything below |
| Unique batches (`pool.go`) | `batches`: used slots, burned addresses, per-slot addresses, expiry | reserve, rollback, recycle, release by `Report` | IP measurement (new addresses), expiry |
| Tunnels (`pool.go`) | `tunnel`, `opening` channel, `lastUsed`, `opens`, `pendingTunnelOpens` | `ensureOpen`, eviction, budget, `Warmup`, idle sweep | requests, IP checks, `Close` |
| Entries (`entry.go`) | as tunnels, plus `failures`, `disabledUntil`, latencies | `dialerForSocksSlot`, `ensureEntryOpen`, `noteEntryFailure`, `recordEntryLatency` | share capacity and budget with slots |
| Health (`pool.go`) | `cooldowns`, `ipCooldowns`, `preferred` rings, backoff | `Report`, `Prefer`, `noteFailure`, expiry | pick |
| IP measurement (`inventory.go`) | `publicIP`, `ipCheckedAt`, `ipChecking`, semaphore | `maybeCheckIP`, `setPublicIPLocked`, `housekeep` | batches, `Close` |
| Probe (`inventory.go`) | `probeTunnels` | `Probe`, `probeDialer` | capacity, budget, batches |
| Inventory (`inventory.go`) | the inventory file | `SaveInventory`, `LoadInventory` | health, addresses |
| Serving (`serve.go`) | `serveCtx`, a WaitGroup | start, stop, save, close, exit | all of the above and below |
| Relay refresh (`relay_reconcile.go`, `relay_refresh.go`, `internal/mullvad`) | the relay slots, the cached list | fetch, reconcile, save; `LoadOrFetch` | slots, sessions, leases |
| Catalog (`internal/catalog`, `nordvpn_catalog.go`, `entries.go`) | a directory of files | the `nordvpn` and `import` commands, `LoadDir`, `autoEntries` | start |
| Proxy front ends (`internal/proxy`) | per connection | HTTP, CONNECT, SOCKS5 around one lease | `Acquire`, `NoteDialFailure`, `Release`, guard, policy |
| Control API (`internal/control`) | none | decodes calls of `Rotate`, `Report`, `Prefer` | pool |
| Policy, guard | none | `Parse`, `String`; `CheckPort`, `CheckHost`, `CheckResolved` | front ends |
| config, provider lists, wgtunnel, socksdial, georoute, metrics | devices; none | parsing, network I/O, tables, counters | constants and outcomes in the models |

What is hard here: a decision is taken under the lock (there is room, the name is
free, nobody opens this tunnel, the tunnel is up) and acted on after the lock was
dropped; openers fail, are cancelled and are waited for; a batch or a binding may
vanish or be replaced between a reservation and its commit; time passes at any
point; and `Close` runs beside all of it.  Outside the pool, a handler has a dozen
ways out and owes a close and a release on each; feedback arrives while the
process is going down; and several commands replace files that others read, and
may die in the middle.  `PROJECT.json` lists these hazards one
by one, at the lines where they bite, with the properties that cover them.

## 2. Modules

| Module | What it is |
|---|---|
| `Subsequence` | `Sift`: what a filter loop leaves of a slice |
| `Batch` | type `batch` as a value: `reserve`, `addIP`, `release`, `stampLocked` |
| `PreferredSet` | type `preferredSet`: the ring of last-good exits |
| `PoolState` | constants, assumptions, variables, and what the `*Locked` helpers compute |
| `Pool` | the state machine: one action per critical section, `Init`, `Next`, `Spec` |
| `PoolProps` | type invariant, safety, action and liveness properties, fairness |
| `PoolHistory` | `Pool` with a history variable: the longest complaint in force per scope and address |
| `LeaseAllocator` | what the pool promises about connections, as a specification of its own |
| `Policy`, `Netguard` | the user-name directives and the destination guard, as operators |
| `Proxy` | the front ends, on `LeaseAllocator`, `Policy` and `Netguard` |
| `Control` | the control API's checks, as operators |
| `Service` | `Pool` and `Control` in a process that is stopped, killed and started again |
| `Catalog` | the catalog directory and the commands that change it |
| `Relays` | relay membership, the refresher, the cache, and the start from the catalog |
| `MCPool`, `MCHistory`, `MCService`, `MCProxy`, `MCRelays` | the small instances for TLC |
| `PoolProofs` | theorems about connections, and the refinement of `LeaseAllocator` |
| `PoolTunnelProofs` | theorems about tunnels, entries, capacity and the budget |
| `PoolSessionProofs` | theorems about session names and `Close` |
| `PoolDataProofs` | lemmas on sequences, batches and rings, as values |
| `PoolBatchProofs` | theorems about unique batches and rings, and `TypeOK` |
| `ServiceProofs` | theorems about complaints, and about the pool through shutdown, inventory and restarts |
| `ProxyProofs` | theorems about the front ends, and about `Parse` and `String` |
| `RelaysProofs` | theorems about relays, the cache and the catalog directory |

How they compose: `Proxy` is written on `LeaseAllocator`, and `Pool` implements
`LeaseAllocator` (`ImplementsAllocator`, checked and proved), so a handler's
`Acquire` and `Release` mean the same in both.  `Service` extends the pool with
history (`PoolHistory`) by the life of the process and the control API.  `Relays`
extends `Catalog`; it has its own, smaller pool in which slots are objects,
because only there does it matter that a slot can be replaced under a request; with
slot objects for exits it implements `LeaseAllocator` too (`ObjectsAllocate`).

### How state and actions correspond to the code

Every action is one critical section of `Pool.mu`, or one step outside it that
other goroutines can observe.  A process (a call of `Acquire`, the IP check of a
slot, an opener started by `Warmup`, the `Maintain` loop) has a control point
`pc[p]`, the slot it works for `slot[p]`, and the owner of the tunnel it opens or
holds `hold[p]`:

    pick -> dial -> [entry ->] open -> (wait) -> reserved -> contact -> got -> check -> leased -> (broken)
                         |                         |           |
                       failed <-------------- aborting <-------+     failed -> note -> (drop) -> pick or return

* `PickSlot` is the whole of `pick` when it settles on a slot: expiry, the search
  (`Selections`), the refresh or loss of a binding, the ring written back, the
  eviction `reserveCapacityLocked` makes, and the reservation of name, batch entry
  and pending lease, or their refusal.  `PickNothing` is every other outcome.
* `EnsureOpen...`, `AbortOpen`, `CommitTunnelOpen`, `OpenSucceeds` and `OpenFails`
  are the pieces of `ensureOpen` and of `ensureEntryOpen`, which has the same shape;
  `tunnel[h] = "opening"` is a non-nil `opening` channel.
* `CommitAcquisition`, `RollbackAcquisition`, `NoteAcquireFailure` and
  `DropSession` end an attempt in the order the code ends it: rollback and blame
  are two critical sections and the session is dropped in a third.
* `CloseTunnels` is `closeLocked`: the tunnel is gone at once, its device is closed
  later (`draining`, what the WaitGroup counts), and a request that already holds
  it is marked `lost`.
* `Report`, `Prefer`, `Rotate` are whole handlers.  A refused call changes nothing
  and is not a step.

* `Probe` starts a goroutine per slot.  For a tunnel slot it takes room, budget and
  a handshake of its own (`alone -> promised -> hello -> shown -> spent`, or
  `wasted`), for a proxy slot it goes the way of a request.  At most
  `IPCheckConcurrency` work at a time, which is what both callers pass.  A measurement or
  a probe through an entry that connects clears the entry's failures, as a
  client's connection does, if the exit's country is known (`DialLeaves`).

The other modules:

* `Proxy`: one process per connection, `negotiate -> try -> acquire -> setup -> dial ->
  [vet ->] answer -> relay -> end -> release`, with `blame` between a failed dial and
  the next attempt.  A connection through a tunnel exists (`vet`) before
  `CheckResolved` looks where it leads.  `Verdict` is everything that can be decided
  without an exit.  `gone` and `late` are a client that has left and a SOCKS handshake
  deadline that has passed.  The deferred calls are two steps, in their order.
* `Service`: `life` is the process, `ctl` the one control request being handled, `file`
  the inventory.  A control request is `Admitted`, then `Authorized`, then `Decodes`,
  in the code's order.  `SaveInventory` and `LoadInventory` are whole; `Forget` is what
  a crash or an exit does to memory.  History variable `promised` carries the
  complaints that the saved file obliges the next process to honour.
* `Catalog`: each rename is a step that may fail, the command may die between any two,
  and both `import` and `LoadDir` work file by file.  Every run of the command moves
  the previous catalog to a name of its own, so what earlier runs left behind
  (`orphans`) stays.
* `Relays`: `<<id, n>>` is the n-th slot object made for a relay.  A request keeps
  the object it picked; the refresher replaces the map from IDs to objects.

Data is reduced to what decisions read.  A policy is a record with the set of slots its
location directives admit; addresses, names and scopes are atoms; the guard's ranges
are the set of addresses they contain (`prefix.Contains`, which no address with a zone
is in); burn times and sequence numbers of a batch are the order of one sequence (see
`Batch`); random choice among equals, map order and the order of entries are
nondeterministic.  A batch reservation's pointer is its state `bres[r]`: "live" while
the batch object it points to is the one in the map, "stale" afterwards.

Time is a natural number moved by `Tick`.  Cooldowns and rings are dropped on
expiry with the comparison their readers use, which nobody can tell from the
code's; sessions and batches, whose maps are counted, keep the exact comparison.

## 3. Runs

All constants are given in the `.cfg` files; the options of each run are operators
of `MCPool`.  Requests are symmetric in the safety runs where no constant names one.

| Run | Instance | Shows |
|---|---|---|
| `connections` | 3 requests, 1 tunnel and 2 proxy slots, 1 session name, 1 connection per exit, 2 in the pool, 2 attempts | counters equal the requests they count, limits hold, pending names are reference-counted correctly; every step is one of `LeaseAllocator`; `TypeOK` |
| `tunnels` | 1 sticky request beside `Warmup`'s openers or a cancellable probe, 2 tunnel slots, budget 2 per window, idle sweep, a clock that passes both | one opener per tunnel, budget and capacity hold with what is promised and what is made, a probe gives its room back on every path, no tunnel in use is swept, none in use or promised to a request is evicted |
| `entries` | 2 requests (one cancellable), a tunnel slot and a relay slot whose entry compete for 1 place, a probe of the relay at the start, measurements of stale addresses with one at work at a time, `Close`, failure threshold 2 | one opener per tunnel or entry, capacity holds, no tunnel in use or promised and no entry is evicted; every `Acquire` returns, and so does `Close` |
| `batches` | 2 requests, 3 slots behind 2 addresses, 2 batch names of which 1 may live, expiry | unique identities, no rollback across generations |
| `remeasured` | 2 requests, 2 proxy slots, one of which changes its address, a recycling batch, complaints | the two views a batch keeps of its addresses agree; a served slot's present address is consumed |
| `health` | 1 request, 3 slots, complaints of two lengths, praise, a slot whose address is measured while serving and may be that of another; 3 addresses for a ring of 2 | the longest complaint in force wins; a full ring forgets its oldest member, and no ring names an address twice |
| `shutdown` | 1 request, a tunnel slot, IP checks, housekeeping, 13 control requests, stop or crash at any point, restart from the file | the process goes down whatever its clients do, no measurement survives `Close`, accepted complaints are saved and honoured after a restart |
| `proxying` | 2 connections, one of which tries some 40 requests of every front end (good ones, wrong passwords, missing policies, names and addresses inside), a chained and a direct exit, 2 attempts | no way out leaks a lease or a connection, nothing refused takes an exit, a connection that turns out to lead inside is closed before it is used, success is real, the echoed policy parses back, abandoned connections end |
| `relays` | 3 requests, 2 relays and a direct slot, 5 lists (one empty, one colliding, one with an ID that is empty or there twice), 2 catalogs over 2 regions, 3 automatic entries, another provider's file | counters follow slot objects, these are an allocator while a process lives, listed relays keep their cap, serving never runs dry, catalog and cache stay usable, entries spread |

Why these bounds are enough to be interesting: each limit is smaller than the number of
requests that compete for it (so it is reached and refuses), each kind of slot occurs,
and two owners of a tunnel suffice for eviction.  A relay gets at most `MaxObjects = 2`
objects per life of the process, enough for one to be replaced while a request holds
it; three snapshots of the catalog, enough for a second one to be moved aside after a
command died and left the first beside its place.  The clock starts at 1 and `MaxTime`
bounds it: in `connections` it stands still (lifetimes play no part in what it checks),
in `entries` it moves once, at the start or not at all, and makes all addresses stale,
in `shutdown` a complaint runs out, in `tunnels` it passes the window and the idle
timeout, in `batches` a batch's life, in `health` a cooldown of the shorter length and
what a ring remembers, and in `remeasured` the refresh interval, within the life of the
batch.  `FailureCap` stops the failure counters where, by `SaturationAssumption`, a
further failure no longer lengthens the backoff, so it changes nothing the pool can
observe.  `ClockStep = 2` with odd lifetimes keeps the clock off the exact instant of
expiry in `batches` and `tunnels`; at that instant a batch is ignored by eligibility
(`Before`) but not yet swept (`After`), a boundary of one nanosecond that the runs
leave out.

Seven constraints keep runs small; each leaves the interesting order in.  `ProbedApart`
and `ProbedFirst` (`tunnels`): a probe starts at the first instant, takes as long as it
likes, and overlaps the request and the sweep but not `Warmup` and the refresh of
addresses.  `ProbedAtStart` (`entries`): the relay is probed once, from the initial
state, beside at most one request; cancellation and `Close` wait until the probe is
over, `Close` does not follow a cancellation, and no request arrives after it (in
`shutdown` some do).  `MeasuredLate` (`entries`): addresses become stale only before
the first request, and requests then come one at a time and are not cancelled; the
measurements they start run beside each other, beside later requests and into `Close`.
`FirstLife` (`shutdown`): feedback and rotations arrive at the first instant and before
the first restart, though they may be handled later, and what follows is how the new
process honours it; that process may crash but does not save again.  `NoneFails`
(`health`): no exit fails of itself, so only complaints keep exits away.  `Reduced`
(`relays`): while the process serves it reads neither the catalog nor the cache of the
relay list, and the commands that write the catalog do not look at that cache, so such
steps commute; catalog steps are explored while the process is down or starting and
before there is a cache, requests and refreshes with one catalog and a young cache.
serve itself probes only direct-SOCKS slots at start, and the probe command has a pool
to itself; tunnels probed beside requests are what the pool's API allows and its
`reservation_test.go` does.

Three more runs show where the code and what is written about it differ after an
interleaving that no single handler shows; each checks the written statement and
TLC finds the trace:

| Run | Statement | What happens |
|---|---|---|
| `session_limit` | names stay within `max_sessions` | a bound name reserves nothing; rotate it during its next acquisition and another name takes the room |
| `idle_sweep` | `ensureOpen` returns a live tunnel | the sweep ignores pending leases |
| `report_rollback` | concurrent attempts of a batch never reuse an identity | a rollback by slot ID frees what another request was served |

Differences met on the way that the model reproduces and no run is kept for,
because one handler decides them or no document is contradicted outright:

* two overlapping first requests of a session bind two exits (`pool.go:592`);
* the request after a rotation may get the slot that was rotated off, although
  README.md:384 announces a new one (`pool.go:1474`);
* an opener `Close` does not wait for installs its tunnel after `Close` returned
  (`pool.go:1801`);
* `pick` writes back the preferred ring as filtered for one request, so an exit
  that request could not use is forgotten for everybody (`pool.go:905`);
* `Warmup` sends a proxy slot to `ensureOpen`, which fails and backs it off
  (`pool.go:1732`);
* when no entry can be opened, `Acquire` backs off the relay slot it never reached
  (`pool.go:574`);
* a failed acquisition that had recycled a served exit makes it look unused
  (`pool.go:856`);
* `String` does not render `brecycle=`, and `cc=|` parses to no constraint
  (`policy.go:88`, `350`);
* `String` writes each excluded address as a `not=` of its own, and durations in
  full, so what it makes of a user name near `MaxUsernameLen` can be too long to
  parse back (`policy.go:122`, `172`); `EchoParses` is about renderings that fit;
* `health=` keeps capitals, the control API lower-cases a scope (`control.go:389`);
* the retry loop backs off a healthy exit when the destination resolved inwards or
  the client went away; a forwarded request neither retries nor blames
  (`proxy.go:162`); an earlier attempt's error hides a later one of `Acquire`
  (`proxy.go:151`);
* a guard's denial is a general failure to SOCKS, 502 to CONNECT, 403 to a forwarded
  request, and a destination that the exit refused reads "connection refused"
  (`proxy.go:196`);
* a SOCKS success reply is lost when connecting took longer than the handshake
  deadline (`socks5.go:93`, `131`);
* a relay that leaves the list and comes back has fresh counters, no address and no
  cooldowns (`relay_reconcile.go:63`);
* `LoadOrFetch` caches a list without usable relays over a good one, and restarts
  within the refresh interval keep failing (`relays.go:239`);
* a crash between the two renames leaves the catalog beside its place
  (`nordvpn_catalog.go:113`), and files imported during the command are deleted with
  the backup (`nordvpn_catalog.go:29`);
* a control handler that outlasts the five seconds of `Shutdown` acknowledges
  feedback after the snapshot (`serve.go:185`).

### Fairness

`LiveSpec` assumes that a goroutine that can run does run (weak fairness of each
request's own steps, each opener, each IP check, `Warmup`'s goroutines, the
refresh after housekeeping, the closing of devices, and `Close`'s wait).  Go's
scheduler gives that.  A handshake ends because `openTunnel` bounds it with
`HandshakeTimeout`, a measurement because of `IPCheckTimeout`, the wait for a place
because of its 30-second timer; `tunnel.Close` is assumed to return.  Nothing is
assumed of clients (a lease may be held for ever), of the clock, or of control
calls.

`ServiceFairness` adds the goroutines of `runServe`: `Shutdown` returns within five
seconds, and saving, closing and exiting follow.  `ProxyFairness`: a handler goes
on (dials, handshakes and `Acquire` end by their timeouts), and once a client is
gone both directions end, one by the closed connection, the other by the half-close
or `IdleTimeout`.  A connected client owes nothing, so a relay may last for ever and
`ServeStops` may not wait for it.  `Relays` has no liveness property and no fairness.

## 4. Proofs

Each theorem holds for every catalog, every choice of options, every set of calls,
complaints, lists or requests a client or provider may send, and any number of
processes.  `Spec`, `HSpec`, `ServiceSpec`, `ProxySpec` and `RelaysSpec` are the
specifications the runs check.

| Module | Theorem | Property |
|---|---|---|
| `PoolProofs` | `ControlTypes` | control state, work and counters keep their types |
| | `LeasesCounted` | `LeaseAccounting` |
| | `ConnectionsBounded` | `ConnLimits` |
| | `PoolAllocates` | `ImplementsAllocator` |
| `PoolTunnelProofs` | `OneOpenerEach` | `SingleOpener` |
| | `TunnelsBounded` | `ActiveLimit` |
| | `ContactsBounded` | `BudgetLimit` |
| | `UsedTunnelsKept` | `UsedTunnelKept` |
| `PoolSessionProofs` | `NamesAccounted` | `SessionAccounting` |
| | `CloseSilences` | `ClosedIsQuiet` |
| `PoolBatchProofs` | `AllTypes` | `TypeOK` |
| | `BatchesAgree` | `BatchConsistent` |
| | `BatchesBounded` | `BatchLimit`, which one critical section decides and no run checks |
| | `RingsSane` | `RingSane` |
| | `MeasurementsReach` | `ServedStays => MeasuredStays` |
| | `ConsumptionKept` | `ConsumedStays`, for behaviours that take nothing back (below) |
| | `ExitsStayUnique` | `UniqueExits`, for the same |
| | `ConsumptionStays`, `ExitsUnique` | the same two, from hypotheses about the inputs |
| `ServiceProofs` | `CooldownsHeld` | `CooldownHolds`, of the pool with history |
| | `CooldownsHeldAgain` | `CooldownHolds`, of the service |
| | `ComplaintsSaved` | `AcceptedIsSaved` |
| | `CloseSilencesAgain`, `LeasesCountedAgain` | `ClosedIsQuiet`, `LeaseAccounting`, of the service |
| | `ConnectionsBoundedAgain` | `ConnLimits` and `SessionAccounting`, of the service |
| | `TunnelsBoundedAgain` | `SingleOpener`, `ActiveLimit` and `BudgetLimit`, of the service |
| | `BatchesSoundAgain`, `RingsSaneAgain` | `BatchConsistent` and `BatchLimit`, `RingSane`, of the service |
| | `AllTypesAgain` | `TypeOK`, of the service |
| | `UsedTunnelsKeptAgain` | `UsedTunnelKept` between deaths of the process |
| | `PoolAllocatesAgain` | the refinement of `LeaseAllocator` between deaths of the process |
| | `ConsumptionKeptAgain`, `ExitsUniqueAgain` | `ConsumedStays`, `UniqueExits`, of the service, as above |
| `ProxyProofs` | `HandlersTyped` | `ProxyTypeOK` |
| | `HandlersGiveBack` | `NothingLeaks` |
| | `RefusalsTakeNothing` | `RefusedTakesNothing` |
| | `TunnelsStayOutside` | `OutsideOnly` |
| | `SuccessesAreReal` | `SuccessIsReal` |
| | `EchoesParse` | `EchoParses` |
| `RelaysProofs` | `LoadsAgree`, `ListedRelaysCapped` | `LoadsMatch`, `ListedCap` |
| | `RelaysAllocate` | `ObjectsAllocate`, the refinement of `LeaseAllocator` while a process serves |
| | `AlwaysServing`, `CacheStaysUsable` | `KeepsServing`, `CacheServes` |
| | `CatalogsSurvive`, `ForeignFilesKept` | `CatalogSurvives`, `ForeignKept` |
| | `EntriesSpreadOut` | `EntriesSpread` |

### Assumptions

All are named, stand in the module that declares the constants, and are evaluated by
TLC in every run of that module.

* `FiniteAssumption`, `DistinctAssumption`, `InputAssumption` (`PoolState`): finite
  sets of slots, entries, requests and names; sentinels are distinct; calls,
  complaints and praise have the types of their Go structs.
* `SaturationAssumption`: `FailureCap` is high enough to lose nothing.
  `BackoffAssumption`: the three backoffs are positive, which `applyDefaults` and two
  constants see to.  `UsedTunnelKept` tells a tunnel cut by its own failure by the
  backoff that follows, so none may be zero.
* `ControlAssumption` (`Service`): the scope of a request that the control API lets
  through is one of the scopes the instance names.
* `DurationAssumption` (`Policy`): a parsed duration is an integer, possibly
  negative, and the empty value is none.  `TruthAssumption`: `1`, which `String`
  writes for true, is read as true (`policy.go:263`).  `LowerAssumption`: lower case
  stays lower case.  `UserAssumption` (`Proxy`): a user name is a sequence of
  directives, each a key and strings.
* `AttemptAssumption` (`Proxy`): at least one dial attempt (`proxy.go:66`).
  `ResolveAssumption`: the two marks that `upstream` uses beside addresses are no
  addresses.
* `CatalogAssumption` (`Catalog`): file sets are finite, the command's own files and
  the others' differ, and no two files are at one place in `autoEntries`' order.
  `RelayAssumption` (`Relays`): requests are finite, relays and direct slots differ,
  lists name known IDs or `BadID`, which stands for an ID that is empty or there twice
and is no relay, and the cap on connections is positive.

### The argument

Every proof module has the same shape.  One lemma goes through all actions once and
classifies a step by what it does to the part of the state in question (`StepKinds`,
`TunnelKinds`, `BatchKinds`, `ServiceKinds`); the inductive invariant is then shown to
survive each kind, not each action.  The invariants build on one another:
`LeaseInv`, `TunnelInv`, `SessionInv`, `BatchInv`, `HeldInv`, `ApartInv`, each the
one before it and more.  They are shown to survive `AnyNext`, the pool's `Next` with
any feedback of the right type, and to hold of any `Blank` pool: one in which nothing
is held, whatever the time is and whatever is known of addresses and health.  `Init`
is such a pool, and so is one that `LoadInventory` has filled.

* `LeaseInv`.  `ConnLimits` speaks of the requests, `pick` only sees counters, so the
  counters have to be right first, and they are right only if every request that
  settles or releases is still counted on the slot it thinks it holds.  Hence: control
  types; a request that reserves or leases names a slot of the catalog;
  `LeaseAccounting`; and the caps, stated of the counters.  A by-product: the guards
  "if x > 0" in commit, rollback and `Release` never take effect.
* `PoolAllocates` rests on it.  The mapping reads a request as "pending" between pick
  and commit and as "leased" from commit to `Release` (`phaseBar`, `exitBar`).  The
  counters that `pick` compares with the limits are the abstract claims, so a pick is
  an abstract `Reserve` that finds room; a commit is `Commit`, a rollback `GiveUp`, a
  release `Release`, and every other step a stutter.
* `TunnelInv` adds who owns an `opening` channel (`SingleOpener`), that
  `pendingTunnelOpens` and `probeTunnels` count the processes that were promised a
  contact or hold a probe's room, and the two caps stated of these counters.  Neither
  cap is inductive alone: a slot in the map says nothing about who will give a promise
  back, so the processes at every stage of an opening are part of it.
* `SessionInv` adds that `pendingSessions` counts the reservations in flight, and that
  a reservation is for a name: a rollback that ran twice, or for another name, would
  break it.
* `BatchInv` adds the types of health and batches, `Rings` (length and no repeats,
  stated with the limit `remember` is called with), `AllSound` (each batch is one that
  its methods can have made: an address is in the burn order once, and exactly when a
  slot accounts for it; every consumed slot's *present* address is there) and `Pointed`
  (a reservation marked live belongs to a batch that exists).  `MeasurementsReach` is
  the last clause of `AllSound` at work: `setPublicIPLocked` reaches all batches.
* `HeldInv` and `ApartInv` add that two live reservations of a batch are on different
  slots, and behind different addresses, and that no live reservation is on a slot
  already served.  Both survive every step that takes nothing in use back
  (`GentleMove`).  `ExclusiveInv` and `UniqueInv` add what keeps such steps out when
  only inputs are restricted.
* `RecordInv`: a promise in force (`promised`, the history variable) is on record in
  `ipCooldowns`.  It survives measurements, praise, shorter complaints and expiry; that
  `pick` reads the record gives `CooldownHolds` as an action property.
* `ServiceInv` is `BatchInv` and `RecordInv` with what the life of the process adds:
  the file has the types `SaveInventory` writes (`FileOK`); a control handler works on
  a request that passed every check, and on none once the server was drained, which it
  was, or was given up on, before the inventory is saved (`HandlersOK`); and while the
  process is down its memory is `Blank`.  A step of the service forgets everything,
  boots, or is a step of the pool (`ServiceKinds`).  The first two leave a new pool
  (`ForgottenFresh`, `BootedFresh`), about which everything holds, and the third keeps
  what it keeps in the pool; so each invariant of the pool holds in every process
  without going through its actions again.
* `HandlerInv`: for each connection and each stage of its handler, what it has asked
  for (`Vetted`), what it holds (`Holds`), and what it was told (`Told`).
* `EchoesParse` says nothing of steps, it is about `Parse` and `String`.  `Parse` never
  leaves an accepted policy other than `Wellformed`: finite lists in lower case,
  excluded addresses that are addresses, lifetimes that some spelling has.
  Each of the eleven pieces that `String` writes then takes `Parse` from
  a policy with the fields written so far (`Upto`) to one with one field more
  (`SaysMore`), whatever the fields still missing are; an empty piece belongs to
  a field that is as nothing was said.  After the last piece every field but
  `brecycle=` is what it was.
* `RelaysInv`: requests hold slot objects and objects count requests (`Held`), and only
  a process that is up serves and refreshes (`Serving`).  `ListedCap` needs both: a
  relay that was never off the list has one object that carries its whole load.  That
  objects count requests also gives `RelaysAllocate`: `Usable` compares an object's
  claims with the cap, and what is given back is the object, not the relay.
  `DirInv`: from the command's look at the directory on, what it may drop holds a
  foreign file only if that file came later.

`PoolDataProofs` has what these need to know of the data: what `Sift` keeps of a
sequence, what each method of a batch does to both of its views, and what `remember`,
`removeIP`, `rotateToTail` and `prune` do to a ring.  Go's filter loops are written
with `Sift` (the kept indices, in order) and not with a recursion or `SelectSeq`,
because facts about it follow by counting, from the smallest counterexample.  The two
loops that do compute with an accumulator, over the directives in `Parse` (`Applied`)
and over the saved ring in `LoadInventory` (`RememberedAgain`), are recursive functions
over the number of elements taken so far; what holds of every prefix is again shown by
the smallest one of which it does not.  For the same reason the backoff's shift is the
table `Doubled`: the code shifts by at most 5.

### Hypotheses of the batch theorems

What a batch promises is taken back in three ways that the code means to have: a
complaint gives up the exit it is about, `brecycle=` serves an exit again, and a
measurement may find two exits behind one address.  `ConsumptionKept` and
`ExitsStayUnique` are about all behaviours in which this does not happen to an exit
*in use*, and assume nothing of the inputs:

* `SparesServing`: no complaint is about an exit that a request of a batch is on.
  Complaints about any other exit may come at any time.
* `PicksProperly`: no request of a batch is given an exit by recycling, nor at the very
  instant its batch runs out.  At that instant `pick` takes the batch for gone
  (`now.Before`) and `expireLocked` keeps it (`now.After`), so its slots are eligible
  again while its promises still stand.
* `AddressesHold` (for unique addresses): no exit in use changes its address.  Two
  exits may be given to a batch and be measured later to be behind one address;
  nothing the pool does at that point can make them differ.

`ConsumptionStays` and `ExitsUnique` draw the same conclusions, for every behaviour,
from what a run can be configured with:

* `NothingTakenBack` (no complaint, no `brecycle=`): both give a served exit back on
  purpose.  With complaints, `ServedStays` itself fails (run `report_rollback`), which
  is also why `MeasurementsReach` is stated under it: its content is the
  address, the consumed slot is the other half.
* `NeverTheInstant`: no lifetime of a batch is a multiple of the clock's step.
  Lifetimes of one in the run `batches`, with `ClockStep = 2`, satisfy it.
* `AddressesStay` (for `UniqueExits`): an exit whose address is known keeps it.

### What stays with TLC

* Liveness (`AcquireReturns`, `CloseEnds`, `AbandonedEnds`, `ServeStops`,
  `ServiceStops`): fairness and `ENABLED` are outside the prover's reach.
* `ImplementsAllocator` is a property of the pool, not of the service: a crash frees all
  claims at once, which is no step of the allocator, so `PoolAllocatesAgain` holds from
  one death of the process to the next.  Likewise the budget is counted in memory: a
  restart begins a new window, and `BudgetLimit` is a statement about each process.
* The three statements that the code does not keep (section 3).

## 5. Not modelled

* Metrics: nothing reads them to decide.
* Configuration, provider-list parsing, rendering and parsing of configuration
  files: pure conversions without state; the models start from their results.
* Network I/O inside `wgtunnel` and `socksdial`: a handshake succeeds or fails, a
  dial has one of the outcomes `DialErrors` lists.  A dial that `http.Transport` lets go
  on after the forwarded request that asked for it has ended belongs to the transport,
  which closes what it still connects.
* `georoute`: tables.  The order in which entries are tried (latency, distance,
  exploration) is nondeterministic.
* The `inspect`, `healthcheck` and `probe` commands around what is modelled, and the
  addresses of relays, which a refresh may change (`PROJECT.json` records the data
  race on them).
