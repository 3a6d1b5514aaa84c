----------------------------- MODULE PoolProps -----------------------------
(***************************************************************************)
(* What makes the pool correct: invariants and action properties of        *)
(* module Pool.  Each is about several critical sections, usually of       *)
(* several goroutines.                                                     *)
(***************************************************************************)
EXTENDS Pool

\* Requests that hold a lease, and requests between pick's reservation and its
\* commit or rollback: the truth the pool's counters have to agree with.
Leased(s)    == {r \in Requests : pc[r] \in Leasing /\ slot[r] = s}
InFlight(s)  == {r \in Requests : pc[r] \in Reserving /\ slot[r] = s}
AllLeased    == {r \in Requests : pc[r] \in Leasing}
AllInFlight  == {r \in Requests : pc[r] \in Reserving}

SessionType == [slotID : Slots, expiresAt : Nat]
BatchType   == [usedSlots : SUBSET Slots, slotIPs : SUBSET (Slots \X IPs),
                burned : Seq(IPs), expiresAt : Nat, served : SUBSET Slots]
PrefType    == [slotID : Slots, publicIP : IPs, expiresAt : Nat]

ControlTypeOK ==
    /\ pc \in [Procs -> PCs]
    /\ slot \in [Procs -> Slots \cup {NoSlot}]
    /\ hold \in [Procs -> Holders \cup {NoSlot}]
    /\ cands \in [Procs -> SUBSET Holders]
    /\ ctxDone \in [Procs -> BOOLEAN]
    /\ call \in [Requests -> Calls \cup {NoCall}]
    /\ attempt \in [Requests -> Nat]
    /\ sticky \in [Requests -> BOOLEAN]
    /\ closing \in {"no", "waiting", "done"}

\* Where a process stands determines what it works on: a request that reserves
\* or leases names its slot, as does a process about to ask for a dialer; one that
\* opens or waits names the owner of the tunnel; housekeeping measures slots.
WorkOK ==
    /\ \A r \in Requests :
         /\ pc[r] # "idle" => call[r] \in Calls
         /\ pc[r] \in Reserving \cup Leasing \cup {"note"} => slot[r] \in Slots
    /\ \A p \in Procs :
         /\ pc[p] = "dial" => slot[p] \in Slots
         /\ pc[p] \in {"warm", "open", "wait"} \cup Opening => hold[p] \in Holders
         /\ pc[p] = "refresh" => cands[p] \subseteq Slots

LeaseTypeOK ==
    /\ leases \in [Slots -> Nat]
    /\ pending \in [Slots -> Nat]
    /\ leased \in Nat
    /\ pendingLeases \in Nat

SessionTypeOK ==
    /\ sres \in [Requests -> BOOLEAN]
    /\ sessions \in [Names -> SessionType \cup {NoSession}]
    /\ pendingSessions \in [Names -> Nat]

BatchTypeOK ==
    /\ bres \in [Requests -> {"none", "live", "stale"}]
    /\ batches \in [BatchNames -> BatchType \cup {NoBatch}]

HealthTypeOK ==
    /\ preferred \in [Targets -> Seq(PrefType)]
    /\ ipCooldowns \in [Targets -> [IPs -> Nat]]
    /\ cooldowns \in [Slots -> [Targets -> Nat]]
    /\ publicIP \in [Slots -> IPs \cup {NoIP}]
    /\ ipCheckedAt \in [Slots -> Nat]

TunnelTypeOK ==
    /\ now \in Nat
    /\ failures \in [Holders -> Nat]
    /\ disabledUntil \in [Holders -> Nat]
    /\ tunnel \in [Holders -> {"closed", "opening", "open"}]
    /\ lastUsed \in [Slots -> Nat]
    /\ draining \in Nat
    /\ lost \in [Requests -> BOOLEAN]
    /\ opens \in Seq(Nat)
    /\ pendingTunnelOpens \in Nat
    /\ probeTunnels \in Nat

\* Every variable stays within its type.  No counter goes below zero, and a
\* process always knows the slot or the tunnel its next step is about.
TypeOK == /\ ControlTypeOK /\ WorkOK /\ LeaseTypeOK /\ SessionTypeOK
          /\ BatchTypeOK /\ HealthTypeOK /\ TunnelTypeOK

-----------------------------------------------------------------------------
(* Connections.                                                            *)

\* The counters the admission tests read (slotState.leases, pendingLeases and
\* the pool-wide pair) count exactly the requests that hold a lease and the
\* ones between pick and commit: no commit, rollback or release is lost or
\* applied twice, on any path through failures and cancellations.
LeaseAccounting ==
    /\ \A s \in Slots : /\ leases[s] = Cardinality(Leased(s))
                        /\ pending[s] = Cardinality(InFlight(s))
    /\ leased = Cardinality(AllLeased)
    /\ pendingLeases = Cardinality(AllInFlight)

\* However Acquire calls interleave, an exit never serves or prepares more
\* than MaxConnsPerExit connections, nor the pool more than MaxConcurrentConns:
\* pick checks and reserves in one critical section.
ConnLimits ==
    /\ opts.MaxConnsPerExit > 0 =>
         \A s \in Slots :
           Cardinality(Leased(s) \cup InFlight(s)) <= opts.MaxConnsPerExit
    /\ opts.MaxConcurrentConns > 0 =>
         Cardinality(AllLeased \cup AllInFlight) <= opts.MaxConcurrentConns

\* pendingSessions counts the requests that are between pick and commit and
\* have reserved a name: the name stays reserved until the last of them commits
\* or rolls back, and no error path leaks one.
SessionAccounting ==
    /\ \A n \in Names :
         pendingSessions[n] =
             Cardinality({r \in Requests : sres[r] /\ call[r].session = n})
    /\ \A r \in Requests : sres[r] => pc[r] \in Reserving

\* Sticky names, bound or reserved by an acquisition in flight, stay within
\* max_sessions.
SessionLimit ==
    Cardinality(BoundNames(sessions) \cup PendingNames) <= opts.MaxSessions

\* The pool as an allocator of connections: a reservation is pending, a lease is
\* leased, and the exit is the slot.
phaseBar == [r \in Requests |-> IF pc[r] \in Reserving THEN "pending"
                               ELSE IF pc[r] \in Leasing THEN "leased" ELSE "free"]
exitBar  == [r \in Requests |->
               IF pc[r] \in Reserving \cup Leasing THEN slot[r] ELSE NoSlot]
Alloc == INSTANCE LeaseAllocator
           WITH Clients <- Requests, Exits <- Slots, NoExit <- NoSlot,
                PerExit <- opts.MaxConnsPerExit, Total <- opts.MaxConcurrentConns,
                phase <- phaseBar, exit <- exitBar

\* Whatever fails, is cancelled or is retried inside Acquire, a caller sees an
\* allocator: each request takes one exit at a time, only where both limits leave
\* room, gets a lease only out of its own reservation, and gives it back once.
ImplementsAllocator == Alloc!AllocSpec

-----------------------------------------------------------------------------
(* Tunnels.                                                                *)

\* A slot or an entry is marked as opening exactly while one process is opening
\* it: no two handshakes for one owner, and no mark left behind that would make
\* every later caller of ensureOpen wait for nobody.
SingleOpener ==
    /\ \A h \in Holders : tunnel[h] = "opening" <=>
                           \E p \in Procs : pc[p] \in Opening /\ hold[p] = h
    /\ \A p, q \in Procs : pc[p] \in Opening /\ pc[q] \in Opening /\ hold[p] = hold[q]
                           => p = q

\* pool.max_active bounds the tunnels that are up or coming up, those of slots, of
\* entries and of probes together, although the check and the handshake are far
\* apart; and a probe that is over holds no room, whichever way it ended.
ActiveLimit ==
    opts.MaxActive > 0 =>
        /\ probeTunnels = Cardinality({p \in Probers : pc[p] \in ProbeTunnel})
        /\ Cardinality(Up) + probeTunnels <= opts.MaxActive

\* No window sees more relay contacts than the budget, counting the contacts
\* already promised to openers that have yet to make them.
BudgetLimit ==
    opts.NewTunnelBudget > 0 =>
        /\ pendingTunnelOpens = Cardinality({p \in Procs : pc[p] \in {"reserved", "promised"}})
        /\ Len(opens) + pendingTunnelOpens <= opts.NewTunnelBudget

\* The idle sweep may close the tunnel of a slot: nothing is leased on it, and the
\* last lease ended more than IdleTimeout ago.
OutOfUse(s) == /\ opts.IdleTimeout > 0
               /\ leases[s] = 0 /\ lastUsed[s] # 0
               /\ now - lastUsed[s] > opts.IdleTimeout

\* A tunnel that carries leases or is promised to a request, and any entry's tunnel,
\* is closed only because its own slot or entry has just failed, or because the pool
\* shuts down: making room for another tunnel, and idle housekeeping, never cut a
\* connection in use.  A promise alone does not hold off the idle sweep (see
\* LeaseStartsAlive).
UsedTunnelKept ==
    [][\A h \in Holders :
         /\ tunnel[h] = "open" /\ tunnel'[h] # "open"
         /\ h \in Entries \/ exitLoad(h) > 0
         => \/ now < disabledUntil'[h] \/ closing' = "waiting"
            \/ h \in Slots /\ OutOfUse(h)]_vars

\* The tunnel Acquire leases out is live when the lease begins: nothing closes
\* it between ensureOpen and the commit.
LeaseStartsAlive ==
    [][\A r \in Requests : pc[r] = "got" /\ pc'[r] = "check" => ~lost'[r]]_vars

-----------------------------------------------------------------------------
(* Unique batches.                                                         *)

LiveIn(n) == {r \in Requests : bres[r] = "live" /\ call[r].uniq = n}

\* Two requests served or being served by one unique batch are on different
\* slots with different public addresses, also when they run concurrently.
UniqueExits ==
    \A n \in BatchNames : \A q, r \in LiveIn(n) :
        q # r => /\ slot[q] # slot[r]
                 /\ publicIP[slot[q]] # publicIP[slot[r]]

\* What a live batch has given out stays consumed while the batch lives: an
\* acquisition that fails, expires or belongs to an earlier generation of the
\* same name gives back its own exit and nobody else's.
ConsumedStays ==
    \A n \in BatchNames : batches[n] # NoBatch =>
        /\ batches[n].served \subseteq batches[n].usedSlots
        /\ \A r \in LiveIn(n) : slot[r] \in batches[n].usedSlots
        /\ \A s \in batches[n].served \cup {slot[r] : r \in LiveIn(n)} :
             <<s, publicIP[s]>> \in batches[n].slotIPs

\* The part of it that a complaint must leave alone as well: an exit whose
\* connection was set up stays consumed unless it is complained about itself.
ServedStays ==
    \A n \in BatchNames :
        batches[n] # NoBatch => batches[n].served \subseteq batches[n].usedSlots

\* A batch keeps up with measurements: the address an exit has now is consumed by
\* every live batch it was served to, also when it was measured again between
\* pick and commit, recycled, or shares its address with an exit complained about.
MeasuredStays ==
    \A n \in BatchNames : batches[n] # NoBatch =>
        \A s \in batches[n].served : /\ s \in batches[n].usedSlots
                                     /\ publicIP[s] \in usedIPs(batches[n])

\* The two views a batch keeps of its addresses agree: an address is burned
\* exactly when some slot still accounts for it, and is burned once.
BatchConsistent ==
    \A n \in BatchNames : batches[n] # NoBatch =>
        LET b == batches[n] IN
        /\ usedIPs(b) = {pair[2] : pair \in b.slotIPs}
        /\ \A i, j \in DOMAIN b.burned : b.burned[i] = b.burned[j] => i = j
        /\ \A pair \in b.slotIPs : pair[1] \in b.usedSlots

\* max_unique_batches bounds the batches that are alive.
BatchLimit ==
    Cardinality({n \in BatchNames : batches[n] # NoBatch}) <= opts.MaxUniqueBatches

-----------------------------------------------------------------------------
(* Health.                                                                 *)

\* A scope's ring of last-good exits holds an address once and never more
\* than PreferredMax of them, whichever slots reported it.
RingSane ==
    \A t \in Targets :
        /\ Len(preferred[t]) <= opts.PreferredMax
        /\ \A i, j \in DOMAIN preferred[t] :
             preferred[t][i].publicIP = preferred[t][j].publicIP => i = j

-----------------------------------------------------------------------------
(* Shutdown and progress.                                                  *)

\* Once Close has returned no public-IP measurement is running or will run.
ClosedIsQuiet == closing = "done" => \A p \in Checkers : pc[p] = "idle"

\* Go schedules every runnable goroutine; a handshake ends by HandshakeTimeout,
\* a measurement by IPCheckTimeout and its wait for a place after 30 seconds;
\* closing a WireGuard device returns.  Clients owe nothing: leases may be held
\* for ever and no request need arrive.
Fairness ==
    /\ \A r \in Requests : WF_vars(Acquirer(r))
    /\ \A p \in Procs : WF_vars(Opener(p))
    /\ \A s \in Slots : WF_vars(IPCheck(s)) /\ WF_vars(Probing(s))
    /\ \A h \in Holders : WF_vars(WarmupRuns(h) \/ WarmupDone(h))
    /\ WF_vars(RefreshIP)
    /\ WF_vars(DrainDone)
    /\ WF_vars(CloseReturns)
LiveSpec == Spec /\ Fairness

\* Every Acquire returns a lease or an error: whoever a request waits for in
\* ensureOpen always closes the channel it waits on.
AcquireReturns ==
    \A r \in Requests : pc[r] = "pick" ~> pc[r] \in {"idle", "leased"}

\* Close returns: the measurements it waits for, which may themselves wait for a
\* place, for the opener of an entry's tunnel or for the echo service, all end.
CloseEnds == closing = "waiting" ~> closing = "done"
=============================================================================
