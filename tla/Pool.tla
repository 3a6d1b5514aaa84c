-------------------------------- MODULE Pool --------------------------------
(***************************************************************************)
(* The egress pool of internal/pool as a state machine.  Each action is    *)
(* one critical section of Pool.mu (or one step outside it), so steps of   *)
(* concurrent Acquire calls, IP checks, warm-up openers, housekeeping and  *)
(* control-API calls interleave exactly where the code drops the lock.     *)
(***************************************************************************)
EXTENDS PoolState

Min0(n) == IF n > 0 THEN n - 1 ELSE n     \* "if x > 0 { x-- }"

Init ==
    /\ now = 1
    /\ pc = [p \in Procs |-> "idle"]
    /\ slot = [p \in Procs |-> NoSlot]
    /\ hold = [p \in Procs |-> NoSlot]
    /\ cands = [p \in Procs |-> {}]
    /\ ctxDone = [p \in Procs |-> FALSE]
    /\ call = [r \in Requests |-> NoCall]
    /\ attempt = [r \in Requests |-> 0]
    /\ sticky = [r \in Requests |-> FALSE]
    /\ lost = [r \in Requests |-> FALSE]
    /\ sres = [r \in Requests |-> FALSE]
    /\ bres = [r \in Requests |-> "none"]
    /\ leases = [s \in Slots |-> 0]
    /\ pending = [s \in Slots |-> 0]
    /\ leased = 0
    /\ pendingLeases = 0
    /\ sessions = [n \in Names |-> NoSession]
    /\ pendingSessions = [n \in Names |-> 0]
    /\ batches = [n \in BatchNames |-> NoBatch]
    /\ preferred = [t \in Targets |-> <<>>]
    /\ ipCooldowns = [t \in Targets |-> [ip \in IPs |-> 0]]
    /\ cooldowns = [s \in Slots |-> [t \in Targets |-> 0]]
    /\ failures = [h \in Holders |-> 0]
    /\ disabledUntil = [h \in Holders |-> 0]
    /\ publicIP = InitialIP
    /\ ipCheckedAt = [s \in Slots |-> IF InitialIP[s] = NoIP THEN 0 ELSE 1]
    /\ tunnel = [h \in Holders |-> "closed"]
    /\ lastUsed = [s \in Slots |-> 0]
    /\ draining = 0
    /\ opens = <<>>
    /\ pendingTunnelOpens = 0
    /\ probeTunnels = 0
    /\ closing = "no"

Tick ==
    /\ now < MaxTime
    /\ now' = now + ClockStep
    /\ UNCHANGED <<pc, slot, hold, cands, callVars, leaseVars, sessionVars,
                   batchVars, healthVars, failVars, ipVars, tunnelVars,
                   budgetVars, closing>>

Goto(p, label) == pc' = [pc EXCEPT ![p] = label]

\* expireLocked for everything but sessions, batches and the preferred rings,
\* which its callers go on to change.
ExpireCooldowns == /\ cooldowns' = LiveCooldowns
                   /\ ipCooldowns' = LiveIPCooldowns

\* closeLocked on every slot or entry of C: the tunnel is detached at once and
\* its device is closed by a goroutine Close waits for.  A request that holds
\* the tunnel as its dialer is left with a closed device.
CloseTunnels(C) ==
    /\ draining' = draining + Cardinality(C)
    /\ lost' = [r \in Requests |->
                  lost[r] \/ (hold[r] \in C /\ pc[r] \in {"got"} \cup Leasing)]
Detached(C) == [h \in Holders |-> IF h \in C THEN "closed" ELSE tunnel[h]]

DrainDone ==
    /\ draining > 0
    /\ draining' = draining - 1
    /\ UNCHANGED <<now, pc, slot, hold, cands, callVars, leaseVars, sessionVars,
                   batchVars, healthVars, failVars, ipVars, tunnel, lastUsed,
                   lost, budgetVars, closing>>

-----------------------------------------------------------------------------
(* Acquire: the call, its context, and pick.                               *)

Start(r, c) ==
    /\ pc[r] = "idle"
    /\ Goto(r, "pick")
    /\ call' = [call EXCEPT ![r] = c]
    /\ UNCHANGED <<now, slot, hold, cands, attempt, sticky, ctxDone, leaseVars,
                   sessionVars, batchVars, healthVars, failVars, ipVars,
                   tunnelVars, budgetVars, closing>>

\* The client disconnects, a deadline passes or the server shuts down; the
\* openers of one Warmup, and the goroutines of one Probe, share its context.
Cancel(p) ==
    /\ pc[p] \notin {"idle"} \cup Leasing
    /\ ~ctxDone[p]
    /\ ctxDone' = [q \in Procs |-> \/ ctxDone[q] \/ q = p
                                   \/ /\ pc[q] # "idle"
                                      /\ {p, q} \subseteq Warmers \/ {p, q} \subseteq Probers]
    /\ UNCHANGED <<now, pc, slot, hold, cands, call, attempt, sticky, leaseVars,
                   sessionVars, batchVars, healthVars, failVars, ipVars,
                   tunnelVars, budgetVars, closing>>

\* The process is done with what it was asked to do.
ResetWork(p) == /\ slot' = [slot EXCEPT ![p] = NoSlot]
                /\ hold' = [hold EXCEPT ![p] = NoSlot]
                /\ cands' = [cands EXCEPT ![p] = {}]
Return(r) == /\ Goto(r, "idle")
             /\ ResetWork(r)
             /\ call' = [call EXCEPT ![r] = NoCall]
             /\ attempt' = [attempt EXCEPT ![r] = 0]
             /\ sticky' = [sticky EXCEPT ![r] = FALSE]
             /\ ctxDone' = [ctxDone EXCEPT ![r] = FALSE]

\* Faulty: counts the connections that are set up and not those in preparation.
FaultyBusy == opts.MaxConcurrentConns > 0 /\ leased >= opts.MaxConcurrentConns

Busy == /\ opts.MaxConcurrentConns > 0
        /\ leased + pendingLeases >= opts.MaxConcurrentConns
OverPolicy(c) == c.ttl > opts.MaxSessionTTL \/ c.bttl > opts.MaxBatchTTL
TurnedAway(c) == OverPolicy(c) \/ Busy

\* The session is bound and has not run out (now.Before(sess.expiresAt)).
Pinned(c) == /\ c.session # NoName
             /\ sessions[c.session] # NoSession
             /\ now < sessions[c.session].expiresAt
StickyUsable(c) == Pinned(c) /\ eligibleLocked(sessions[c.session].slotID, c)

\* pickPreferredLocked: what it keeps of the ring, and the member it picks.
KeptRing(c) ==
    LET ring == LivePreferred[c.target]
        Keep(pref) == /\ publicIP[pref.slotID] = pref.publicIP
                      /\ eligibleIgnoringBatchLocked(pref.slotID, c)
    IN  Sift(ring, {i \in DOMAIN ring : Keep(ring[i])})
BestPreferred(c) ==
    LET ring  == KeptRing(c)
        Fit   == {i \in DOMAIN ring : eligibleLocked(ring[i].slotID, c)}
        Load(i) == exitLoad(ring[i].slotID)
        Least == {i \in Fit : \A j \in Fit : Load(i) <= Load(j)}
    IN  IF c.target = NoTarget THEN {}
        ELSE {ring[i].slotID : i \in {i \in Least : \A j \in Least : i <= j}}

Candidates(c) == {s \in Slots : eligibleLocked(s, c)}

\* recycleOldestBatchExitLocked: the usable exits of the address burned
\* longest ago.
Recyclable(c) ==
    LET b == batches[c.uniq]
        usable == {s \in Slots : /\ eligibleIgnoringBatchLocked(s, c)
                                 /\ publicIP[s] \in usedIPs(b)}
        Age(s) == CHOOSE i \in DOMAIN b.burned : b.burned[i] = publicIP[s]
    IN  IF c.recycle /\ c.uniq # NoName /\ b # NoBatch /\ now < b.expiresAt
        THEN {s \in usable : \A t \in usable : Age(s) <= Age(t)}
        ELSE {}

\* Every outcome of pick's search: <<which rule chose, the slot>>.
Selections(c) ==
    IF TurnedAway(c) THEN {}
    ELSE IF StickyUsable(c) THEN {<<"sticky", sessions[c.session].slotID>>}
    ELSE IF BestPreferred(c) # {} THEN {"preferred"} \X BestPreferred(c)
    ELSE IF Candidates(c) = {} THEN {"recycled"} \X Recyclable(c)
    ELSE IF \E s \in Candidates(c) : ready(s)
         THEN {"ready"} \X {s \in Candidates(c) : ready(s)}
    ELSE IF tunnelBudgetAvailableLocked /\ reserveCapacityLocked # {}
         THEN {"open"} \X Candidates(c)
    ELSE {}

\* Whether the search got as far as the new-tunnel budget.
AsksForTunnel(c) == /\ ~TurnedAway(c) /\ ~StickyUsable(c)
                    /\ BestPreferred(c) = {} /\ Candidates(c) # {}
                    /\ ~\E s \in Candidates(c) : ready(s)

\* The maps as the search leaves them, before the reservation.
SessionsAfter(c, how) ==
    IF TurnedAway(c) \/ ~Pinned(c) THEN LiveSessions
    ELSE [LiveSessions EXCEPT ![c.session] =
            IF how = "sticky" THEN [@ EXCEPT !.expiresAt = now + sessionTTL(c)]
            ELSE NoSession]
BatchesAfter(c, how, s) ==
    IF how = "recycled"
    THEN [LiveBatches EXCEPT ![c.uniq] = stampLocked(@, publicIP[s])]
    ELSE LiveBatches
PreferredAfter(c, how, s) ==
    IF TurnedAway(c) \/ how = "sticky" \/ c.target = NoTarget THEN LivePreferred
    ELSE [LivePreferred EXCEPT ![c.target] =
            IF how = "preferred" THEN rotateToTail(KeptRing(c), s) ELSE KeptRing(c)]

\* pick finds nothing, or is refused before it searches: Acquire returns.
PickNothing(r) ==
    LET c == call[r] IN
    /\ pc[r] = "pick"
    /\ Selections(c) = {}
    /\ Return(r)
    /\ ExpireCooldowns
    /\ sessions' = SessionsAfter(c, "none")
    /\ batches' = LiveBatches
    /\ bres' = Orphaned(ExpiredBatches)
    /\ preferred' = PreferredAfter(c, "none", NoSlot)
    /\ opens' = IF AsksForTunnel(c) THEN OpensAfterCheck ELSE opens
    /\ UNCHANGED <<now, sres, pendingSessions, leaseVars, failVars, ipVars,
                   tunnelVars, pendingTunnelOpens, probeTunnels, closing>>

\* pick settles on slot s: reserveAcquisitionLocked either takes the session
\* name, the batch's slot and address and a pending lease together, or fails
\* on a full map and Acquire returns.
PickSlot(r) ==
    LET c == call[r] IN
    /\ pc[r] = "pick"
    /\ ExpireCooldowns
    /\ opens' = IF AsksForTunnel(c) THEN OpensAfterCheck ELSE opens
    /\ \E sel \in Selections(c) :
         LET how == sel[1]
             s   == sel[2]
             S   == SessionsAfter(c, how)
             B   == BatchesAfter(c, how, s)
         IN
         /\ preferred' = PreferredAfter(c, how, s)
         /\ sessions' = S
         /\ \E victim \in IF how = "open" THEN reserveCapacityLocked ELSE {NoSlot} :
              /\ tunnel' = Detached({victim} \ {NoSlot})
              /\ CloseTunnels({victim} \ {NoSlot})
         /\ \/ /\ SessionRoom(c, S) /\ BatchRoom(c, B)
               /\ Goto(r, "dial")
               /\ slot' = [slot EXCEPT ![r] = s]
               /\ sticky' = [sticky EXCEPT ![r] = (how = "sticky")]
               /\ pending' = [pending EXCEPT ![s] = @ + 1]
               /\ pendingLeases' = pendingLeases + 1
               /\ sres' = [sres EXCEPT ![r] = NeedsName(c, S)]
               /\ pendingSessions' =
                    IF NeedsName(c, S)
                    THEN [pendingSessions EXCEPT ![c.session] = @ + 1]
                    ELSE pendingSessions
               /\ batches' = IF c.uniq = NoName THEN B
                             ELSE [B EXCEPT ![c.uniq] = Reserved(c, s, B)]
               /\ bres' = [Orphaned(ExpiredBatches) EXCEPT ![r] =
                             IF c.uniq = NoName THEN "none" ELSE "live"]
               /\ UNCHANGED <<hold, cands, call, attempt, ctxDone>>
            \/ /\ ~(SessionRoom(c, S) /\ BatchRoom(c, B))
               /\ Return(r)
               /\ batches' = B
               /\ bres' = Orphaned(ExpiredBatches)
               /\ UNCHANGED <<pending, pendingLeases, sres, pendingSessions>>
    /\ UNCHANGED <<now, leases, leased, failVars, ipVars, lastUsed,
                   pendingTunnelOpens, probeTunnels, closing>>

-----------------------------------------------------------------------------
(* ensureDialer: a direct-socks slot needs nothing, a WireGuard slot its   *)
(* own tunnel, a relay-socks slot the tunnel of some healthy entry.        *)

EnsureDialer(p) ==
    LET s == slot[p] IN
    /\ pc[p] = "dial"
    /\ \/ /\ Kind[s] = "direct-socks"
          /\ Goto(p, "got")
          /\ UNCHANGED <<hold, cands>>
       \/ /\ Kind[s] = "wireguard"
          /\ Goto(p, "open")
          /\ hold' = [hold EXCEPT ![p] = s]
          /\ UNCHANGED cands
       \/ /\ Kind[s] = "relay-socks"
          /\ Goto(p, "entry")
          /\ cands' = [cands EXCEPT ![p] =
                         {e \in Entries : ~(now < disabledUntil[e])}]
          /\ UNCHANGED hold
    /\ UNCHANGED <<now, slot, callVars, leaseVars, sessionVars, batchVars,
                   healthVars, failVars, ipVars, tunnelVars, budgetVars, closing>>

\* dialerForSocksSlot takes the candidates one by one; the order (measured
\* latency, else distance, and exploration) is left open.
NextEntry(p) ==
    /\ pc[p] = "entry"
    /\ \/ \E e \in cands[p] :
            /\ Goto(p, "open")
            /\ hold' = [hold EXCEPT ![p] = e]
            /\ cands' = [cands EXCEPT ![p] = @ \ {e}]
       \/ /\ cands[p] = {}
          /\ Goto(p, "failed")
          /\ UNCHANGED <<hold, cands>>
    /\ UNCHANGED <<now, slot, callVars, leaseVars, sessionVars, batchVars,
                   healthVars, failVars, ipVars, tunnelVars, budgetVars, closing>>

\* Faulty: tries again although there is nothing left to open.
FaultyOpenFailed(p) == /\ Goto(p, "open")
                       /\ hold' = [hold EXCEPT ![p] = NoSlot]

\* ensureOpen (ensureEntryOpen) returns an error: a failed entry moves the
\* caller on to the next one, a failed slot fails the acquisition.
OpenFailed(p) == /\ Goto(p, IF hold[p] \in Entries THEN "entry" ELSE "failed")
                 /\ hold' = [hold EXCEPT ![p] = NoSlot]

\* The tunnel is up already.
EnsureOpenUp(p) ==
    /\ pc[p] = "open"
    /\ tunnel[hold[p]] = "open"
    /\ Goto(p, "got")
    /\ UNCHANGED <<now, slot, hold, cands, callVars, leaseVars, sessionVars,
                   batchVars, healthVars, failVars, ipVars, tunnelVars,
                   budgetVars, closing>>

\* Somebody else is opening it: wait for their channel.
EnsureOpenWait(p) ==
    /\ pc[p] = "open"
    /\ tunnel[hold[p]] = "opening"
    /\ Goto(p, "wait")
    /\ UNCHANGED <<now, slot, hold, cands, callVars, leaseVars, sessionVars,
                   batchVars, healthVars, failVars, ipVars, tunnelVars,
                   budgetVars, closing>>

\* Faulty: overlooks that somebody else is opening the tunnel.
FaultyNobodyOpened(h) == tunnel[h] # "open"

NobodyOpened(h) == tunnel[h] = "closed"

\* Nobody is: take the capacity (evicting if need be), then the budget, then
\* the opening channel.  An eviction is not undone when the budget says no.
EnsureOpenReserve(p) ==
    /\ pc[p] = "open"
    /\ NobodyOpened(hold[p])
    /\ ~ctxDone[p]
    /\ opens' = OpensAfterCheck
    /\ \E victim \in reserveCapacityLocked :
         /\ CloseTunnels({victim} \ {NoSlot})
         /\ \/ /\ tunnelBudgetAvailableLocked
               /\ tunnel' = [Detached({victim} \ {NoSlot}) EXCEPT ![hold[p]] = "opening"]
               /\ pendingTunnelOpens' = pendingTunnelOpens + 1
               /\ Goto(p, "reserved")
               /\ UNCHANGED hold
            \/ /\ ~tunnelBudgetAvailableLocked
               /\ tunnel' = Detached({victim} \ {NoSlot})
               /\ OpenFailed(p)
               /\ UNCHANGED pendingTunnelOpens
    /\ UNCHANGED <<now, slot, cands, callVars, leaseVars, sessionVars, batchVars,
                   healthVars, failVars, ipVars, lastUsed, probeTunnels, closing>>

EnsureOpenRefused(p) ==
    /\ \/ /\ pc[p] = "open"
          /\ NobodyOpened(hold[p])
          /\ ctxDone[p] \/ reserveCapacityLocked = {}
       \/ pc[p] = "wait" /\ ctxDone[p]
    /\ OpenFailed(p)
    /\ UNCHANGED <<now, slot, cands, callVars, leaseVars, sessionVars,
                   batchVars, healthVars, failVars, ipVars, tunnelVars,
                   budgetVars, closing>>

\* The opener closed the channel: look again.
WakeUp(p) ==
    /\ pc[p] = "wait"
    /\ tunnel[hold[p]] # "opening"
    /\ Goto(p, "open")
    /\ UNCHANGED <<now, slot, hold, cands, callVars, leaseVars, sessionVars,
                   batchVars, healthVars, failVars, ipVars, tunnelVars,
                   budgetVars, closing>>

\* Faulty: returns without giving the channel up.
FaultyClearOpening(h) == UNCHANGED tunnel

\* The opening channel goes; whoever waits for it looks again.
ClearOpening(h) == tunnel' = [tunnel EXCEPT ![h] = "closed"]

\* rollbackTunnelOpen, then a second critical section gives the channel up.
AbortOpen(p) ==
    /\ pc[p] = "reserved"
    /\ ctxDone[p]
    /\ Goto(p, "aborting")
    /\ pendingTunnelOpens' = Min0(pendingTunnelOpens)
    /\ UNCHANGED <<now, slot, hold, cands, callVars, leaseVars, sessionVars,
                   batchVars, healthVars, failVars, ipVars, tunnelVars,
                   opens, probeTunnels, closing>>
AbortOpenDone(p) ==
    /\ pc[p] = "aborting"
    /\ ClearOpening(hold[p])
    /\ OpenFailed(p)
    /\ UNCHANGED <<now, slot, cands, callVars, leaseVars, sessionVars,
                   batchVars, healthVars, failVars, ipVars, lastUsed, draining,
                   lost, budgetVars, closing>>

\* commitTunnelOpen charges the budget before the relay is contacted.
CommitTunnelOpen(p) ==
    /\ pc[p] = "reserved"
    /\ ~ctxDone[p]
    /\ Goto(p, "contact")
    /\ pendingTunnelOpens' = Min0(pendingTunnelOpens)
    /\ opens' = Append(pruneOpensLocked, now)
    /\ UNCHANGED <<now, slot, hold, cands, callVars, leaseVars, sessionVars, batchVars,
                   healthVars, failVars, ipVars, tunnelVars, probeTunnels, closing>>

\* A proxy slot has no WireGuard configuration for wgtunnel.Open to use.
OpenSucceeds(p) ==
    LET h == hold[p] IN
    /\ pc[p] = "contact"
    /\ h \in Slots => Kind[h] = "wireguard"
    /\ Goto(p, "got")
    /\ tunnel' = [tunnel EXCEPT ![h] = "open"]
    /\ failures' = IF h \in Entries THEN [failures EXCEPT ![h] = 0] ELSE failures
    /\ UNCHANGED <<now, slot, hold, cands, callVars, leaseVars, sessionVars,
                   batchVars, healthVars, disabledUntil, ipVars, lastUsed,
                   draining, lost, budgetVars, closing>>

OpenFails(p) ==
    LET h == hold[p]
        n == Bump(failures[h])
    IN
    /\ pc[p] = "contact"
    /\ OpenFailed(p)
    /\ ClearOpening(h)
    /\ IF h \in Entries
       THEN /\ failures' = [failures EXCEPT ![h] = n]
            /\ disabledUntil' = [disabledUntil EXCEPT ![h] =
                                   now + Backoff(n, 1, opts.MaxEntryBackoff)]
       ELSE UNCHANGED failVars
    /\ UNCHANGED <<now, slot, cands, callVars, leaseVars, sessionVars,
                   batchVars, healthVars, ipVars, lastUsed, draining, lost,
                   budgetVars, closing>>

-----------------------------------------------------------------------------
(* The end of an attempt: commit, or roll back, blame the slot and retry.  *)

\* Faulty: drops the name although other requests have reserved it too.
FaultyReleasePendingSession(r) ==
    /\ pendingSessions' = IF sres[r] THEN [pendingSessions EXCEPT ![call[r].session] = 0]
                          ELSE pendingSessions
    /\ sres' = [sres EXCEPT ![r] = FALSE]

\* releasePendingSessionLocked for the name r reserved, if any.
ReleasePendingSession(r) ==
    /\ pendingSessions' = IF sres[r]
                          THEN [pendingSessions EXCEPT ![call[r].session] = Min0(@)]
                          ELSE pendingSessions
    /\ sres' = [sres EXCEPT ![r] = FALSE]

\* Faulty: forgets the pool-wide counter.
FaultySettlePending(r) == /\ pending' = [pending EXCEPT ![slot[r]] = Min0(@)]
                          /\ UNCHANGED pendingLeases

\* commitAcquisitionLocked: the pending lease is no longer pending.
SettlePending(r) == /\ pending' = [pending EXCEPT ![slot[r]] = Min0(@)]
                    /\ pendingLeases' = Min0(pendingLeases)

\* Faulty: goes by the name, not by the generation.
FaultyOwnsBatch(r) == bres[r] # "none" /\ batches[call[r].uniq] # NoBatch

\* Whether the batch r reserved in is still the one the map holds.
OwnsBatch(r) == bres[r] = "live"

CommitAcquisition(r) ==
    LET s == slot[r]
        c == call[r]
    IN
    /\ pc[r] = "got"
    /\ Goto(r, "check")
    /\ SettlePending(r)
    /\ ReleasePendingSession(r)
    /\ batches' = IF OwnsBatch(r)
                  THEN [batches EXCEPT ![c.uniq].served =
                          @ \cup ({s} \cap batches[c.uniq].usedSlots)]
                  ELSE batches
    /\ UNCHANGED bres
    /\ leases' = [leases EXCEPT ![s] = @ + 1]
    /\ leased' = leased + 1
    /\ lastUsed' = [lastUsed EXCEPT ![s] = now]
    /\ failures' = [failures EXCEPT ![s] = 0]
    /\ sessions' = IF c.session = NoName THEN sessions
                   ELSE [sessions EXCEPT ![c.session] =
                           [slotID |-> s, expiresAt |-> now + sessionTTL(c)]]
    /\ UNCHANGED <<now, slot, hold, cands, callVars, healthVars,
                   disabledUntil, ipVars, tunnel, draining, lost, budgetVars,
                   closing>>

\* Faulty: starts a measurement although the pool is closing.
FaultyCheckDue(s) ==
    /\ opts.IPCheck
    /\ ~(publicIP[s] # NoIP /\ now - ipCheckedAt[s] < opts.IPRefreshInterval)
    /\ pc[Checker(s)] = "idle"
    /\ Kind[s] = "wireguard" => isOpen(s)

\* maybeCheckIP: a slot whose address is unknown or stale gets a goroutine that
\* measures it, unless one is at work (ipChecking) or the pool is closing; a
\* WireGuard slot must have its tunnel up.
CheckDue(s) ==
    /\ opts.IPCheck
    /\ ~(publicIP[s] # NoIP /\ now - ipCheckedAt[s] < opts.IPRefreshInterval)
    /\ pc[Checker(s)] = "idle"
    /\ Kind[s] = "wireguard" => isOpen(s)
    /\ closing = "no"

\* The process goes on to `label' once maybeCheckIP(s) has returned.
MaybeCheckIP(p, s, label) ==
    pc' = [q \in Procs |-> CASE q = p -> label
                           [] q # p /\ q = Checker(s) /\ CheckDue(s) -> "sem"
                           [] OTHER -> pc[q]]

\* Acquire's own check of the slot it has just leased.
CheckLeasedIP(r) ==
    /\ pc[r] = "check"
    /\ MaybeCheckIP(r, slot[r], "leased")
    /\ UNCHANGED <<now, slot, hold, cands, callVars, leaseVars, sessionVars,
                   batchVars, healthVars, failVars, ipVars, tunnelVars,
                   budgetVars, closing>>

RollbackAcquisition(r) ==
    LET n == call[r].uniq
        b == OrDropped(release(batches[n], slot[r]))
    IN
    /\ pc[r] = "failed"
    /\ Goto(r, "note")
    /\ SettlePending(r)
    /\ ReleasePendingSession(r)
    /\ IF OwnsBatch(r)
       THEN /\ batches' = [batches EXCEPT ![n] = b]
            /\ bres' = [Orphaned(IF b = NoBatch THEN {n} ELSE {}) EXCEPT ![r] = "none"]
       ELSE /\ bres' = [bres EXCEPT ![r] = "none"]
            /\ UNCHANGED batches
    /\ UNCHANGED <<now, slot, hold, cands, callVars, leases, leased, sessions,
                   healthVars, failVars, ipVars, tunnelVars, budgetVars, closing>>

\* noteFailure: back the slot off and close its tunnel, whoever else uses it.
NoteFailure(s) ==
    LET n == Bump(failures[s])
        C == {h \in {s} : isOpen(h)}
    IN  /\ failures' = [failures EXCEPT ![s] = n]
        /\ disabledUntil' = [disabledUntil EXCEPT ![s] =
                               now + Backoff(n, 1, opts.MaxSlotBackoff)]
        /\ tunnel' = Detached(C)
        /\ CloseTunnels(C)
        /\ UNCHANGED lastUsed

\* The next attempt, or ErrExhausted after the last one.
NextAttempt(r) ==
    \/ /\ attempt[r] + 1 < opts.DialAttempts
       /\ Goto(r, "pick")
       /\ attempt' = [attempt EXCEPT ![r] = @ + 1]
       /\ ResetWork(r)
       /\ UNCHANGED <<call, sticky, ctxDone>>
    \/ /\ ~(attempt[r] + 1 < opts.DialAttempts)
       /\ Return(r)

NoteAcquireFailure(r) ==
    /\ pc[r] = "note"
    /\ NoteFailure(slot[r])
    /\ \/ /\ sticky[r]
          /\ Goto(r, "drop")
          /\ UNCHANGED <<slot, hold, cands, callVars>>
       \/ ~sticky[r] /\ NextAttempt(r)
    /\ UNCHANGED <<now, leaseVars, sessionVars, batchVars, healthVars, ipVars,
                   budgetVars, closing>>

DropSession(r) ==
    /\ pc[r] = "drop"
    /\ sessions' = [sessions EXCEPT ![call[r].session] = NoSession]
    /\ NextAttempt(r)
    /\ UNCHANGED <<now, pendingSessions, sres, leaseVars, batchVars, healthVars,
                   failVars, ipVars, tunnelVars, budgetVars, closing>>

-----------------------------------------------------------------------------
(* The life of a lease.                                                    *)

\* A completed dial through an entry clears its failures (recordEntryLatency).
DialSucceeds(r) ==
    LET e == hold[r] IN
    /\ pc[r] = "leased"
    /\ e \in Entries
    /\ failures[e] # 0
    /\ failures' = [failures EXCEPT ![e] = 0]
    /\ UNCHANGED <<now, pc, slot, hold, cands, callVars, leaseVars, sessionVars,
                   batchVars, healthVars, disabledUntil, ipVars, tunnelVars,
                   budgetVars, closing>>

\* noteEntryFailure: the entry is taken out once the threshold is reached.
NoteEntryFailure(e) ==
    LET n   == Bump(failures[e])
        out == n >= opts.EntryFailureThreshold
        C   == {h \in {e} : out /\ isOpen(h)}
    IN  /\ failures' = [failures EXCEPT ![e] = n]
        /\ disabledUntil' =
             IF out THEN [disabledUntil EXCEPT ![e] =
                            now + Backoff(n, opts.EntryFailureThreshold,
                                          opts.MaxEntryBackoff)]
             ELSE disabledUntil
        /\ tunnel' = Detached(C)
        /\ CloseTunnels(C)
        /\ UNCHANGED lastUsed

\* NoteDialFailure: the entry is blamed unless the relay itself refused
\* (socksdial.ErrDestination) or there is no entry.
NoteDialFailure(r) ==
    /\ pc[r] = "leased"
    /\ Goto(r, "broken")
    /\ \/ hold[r] \in Entries /\ NoteEntryFailure(hold[r])
       \/ NoteFailure(slot[r])
    /\ UNCHANGED <<now, slot, hold, cands, callVars, leaseVars, sessionVars,
                   batchVars, healthVars, ipVars, budgetVars, closing>>

Release(r) ==
    /\ pc[r] \in {"leased", "broken"}
    /\ Return(r)
    /\ leases' = [leases EXCEPT ![slot[r]] = Min0(@)]
    /\ leased' = Min0(leased)
    /\ lastUsed' = [lastUsed EXCEPT ![slot[r]] = now]
    /\ lost' = [lost EXCEPT ![r] = FALSE]
    /\ bres' = [bres EXCEPT ![r] = "none"]
    /\ UNCHANGED <<now, pending, pendingLeases, sessionVars, batches,
                   healthVars, failVars, ipVars, tunnel, draining, budgetVars,
                   closing>>

-----------------------------------------------------------------------------
(* Goroutines of the pool: Warmup, IP checks, housekeeping, Close.         *)

\* A worker process ends and forgets what it worked on.
WorkerDone(p) == /\ Goto(p, "idle")
                 /\ ResetWork(p)
                 /\ ctxDone' = [ctxDone EXCEPT ![p] = FALSE]
                 /\ UNCHANGED <<call, attempt, sticky>>

WarmTargets == {s \in Slots : tunnel[s] = "closed" /\ ~(now < disabledUntil[s])}

\* Warmup: with entries configured it opens every entry, else up to count
\* slots within MaxActive and what is left of the budget.  Every target gets a
\* goroutine that runs ensureOpen.  The targets are not filtered by kind: a
\* direct-socks slot is sent to ensureOpen like a WireGuard one.
Warmup(count) ==
    LET limit == Min({count} \cup
                     (IF opts.MaxActive > 0 THEN {opts.MaxActive} ELSE {}) \cup
                     (IF opts.NewTunnelBudget > 0
                      THEN {Max({0, opts.NewTunnelBudget - Len(pruneOpensLocked)
                                      - pendingTunnelOpens})}
                      ELSE {}))
        Chosen == IF Entries # {} THEN {Entries}
                  ELSE {T \in SUBSET WarmTargets :
                          Cardinality(T) = Min({limit, Cardinality(WarmTargets)})}
    IN
    /\ count > 0
    /\ \A h \in Holders : pc[Warmer(h)] = "idle"
    /\ \E T \in Chosen :
         /\ T # {}
         /\ pc' = [p \in Procs |-> IF p \in {Warmer(h) : h \in T} THEN "warm" ELSE pc[p]]
         /\ hold' = [p \in Procs |-> IF p \in {Warmer(h) : h \in T} THEN p[2] ELSE hold[p]]
         /\ slot' = [p \in Procs |-> IF p \in {Warmer(h) : h \in T \cap Slots}
                                     THEN p[2] ELSE slot[p]]
    /\ opens' = IF Entries = {} THEN OpensAfterCheck ELSE opens
    /\ UNCHANGED <<now, cands, callVars, leaseVars, sessionVars, batchVars,
                   healthVars, failVars, ipVars, tunnelVars, pendingTunnelOpens,
                   probeTunnels, closing>>

\* The goroutine runs, unless the context is done already.
WarmupRuns(h) ==
    LET p == Warmer(h) IN
    /\ pc[p] = "warm"
    /\ \/ ctxDone[p] /\ WorkerDone(p)
       \/ /\ ~ctxDone[p]
          /\ Goto(p, "open")
          /\ UNCHANGED <<slot, hold, cands, callVars>>
    /\ UNCHANGED <<now, leaseVars, sessionVars, batchVars, healthVars, failVars,
                   ipVars, tunnelVars, budgetVars, closing>>

\* Only a slot is measured once it is up, and only a slot is blamed when not.
WarmupDone(h) ==
    LET p == Warmer(h) IN
    /\ \/ /\ pc[p] = "got" \/ (pc[p] = "failed" /\ h \in Entries)
          /\ IF pc[p] = "got" /\ h \in Slots THEN MaybeCheckIP(p, h, "idle")
                                            ELSE Goto(p, "idle")
          /\ UNCHANGED <<failVars, tunnelVars>>
       \/ /\ pc[p] = "failed" /\ h \in Slots
          /\ Goto(p, "idle")
          /\ NoteFailure(h)
    /\ ResetWork(p)
    /\ ctxDone' = [ctxDone EXCEPT ![p] = FALSE]
    /\ UNCHANGED <<call, attempt, sticky>>
    /\ UNCHANGED <<now, leaseVars, sessionVars, batchVars, healthVars, ipVars,
                   budgetVars, closing>>

\* One of IPCheckConcurrency places is free; a WireGuard check already holds
\* the tunnel it captured when it was started.
IPCheckAdmitted(s) ==
    LET p == Checker(s) IN
    /\ pc[p] = "sem"
    /\ Cardinality({q \in Checkers : pc[q] \notin {"idle", "sem"}})
         < opts.IPCheckConcurrency
    /\ Goto(p, IF Kind[s] = "wireguard" THEN "got" ELSE "dial")
    /\ slot' = [slot EXCEPT ![p] = s]
    /\ UNCHANGED <<now, hold, cands, callVars, leaseVars, sessionVars,
                   batchVars, healthVars, failVars, ipVars, tunnelVars,
                   budgetVars, closing>>

\* What a worker's dial to the echo service makes of the failures: it clears those
\* of the entry it went through, if it connected (and the exit's country is known).
DialLeaves(p) == {failures} \cup {[failures EXCEPT ![e] = 0] : e \in {hold[p]} \cap Entries}

\* The check gives up: no place within 30 seconds, shutdown, no dialer, or
\* the echo service did not answer.
IPCheckFails(s) ==
    /\ pc[Checker(s)] \in {"sem", "got", "failed"}
    /\ WorkerDone(Checker(s))
    /\ failures' \in IF pc[Checker(s)] = "got" THEN DialLeaves(Checker(s)) ELSE {failures}
    /\ UNCHANGED <<now, leaseVars, sessionVars, batchVars, healthVars, disabledUntil,
                   ipVars, tunnelVars, budgetVars, closing>>

\* Faulty: the batches do not learn the new address.
FaultySetPublicIP(s, ip) ==
    /\ publicIP' = [publicIP EXCEPT ![s] = ip]
    /\ batches' = LiveBatches
    /\ bres' = Orphaned(ExpiredBatches)
    /\ ipCheckedAt' = [ipCheckedAt EXCEPT ![s] = now]

\* Every live batch that consumed the slot consumes the new address too.
setPublicIPLocked(s, ip) ==
    /\ publicIP' = [publicIP EXCEPT ![s] = ip]
    /\ batches' = [n \in BatchNames |->
                     IF LiveBatches[n] # NoBatch /\ s \in LiveBatches[n].usedSlots
                     THEN addIP(LiveBatches[n], s, ip) ELSE LiveBatches[n]]
    /\ bres' = Orphaned(ExpiredBatches)
    /\ ipCheckedAt' = [ipCheckedAt EXCEPT ![s] = now]

IPMeasured(s) ==
    /\ pc[Checker(s)] = "got"
    /\ WorkerDone(Checker(s))
    /\ \E ip \in ExitIPs[s] : setPublicIPLocked(s, ip)
    /\ failures' \in DialLeaves(Checker(s))
    /\ UNCHANGED <<now, leaseVars, sessionVars, healthVars, disabledUntil, tunnelVars,
                   budgetVars, closing>>

-----------------------------------------------------------------------------
(* Probe: a goroutine per slot, IPCheckConcurrency of them at work.        *)

Probe(T) ==
    /\ opts.IPCheck
    /\ \A s \in Slots : pc[Prober(s)] = "idle"
    /\ pc' = [p \in Procs |-> IF p \in {Prober(s) : s \in T} THEN "probe" ELSE pc[p]]
    /\ UNCHANGED <<now, slot, hold, cands, callVars, leaseVars, sessionVars, batchVars,
                   healthVars, failVars, ipVars, tunnelVars, budgetVars, closing>>

\* The probe's turn comes, or its context ends first.
ProbeRuns(s) ==
    LET p == Prober(s) IN
    /\ pc[p] = "probe"
    /\ \/ ctxDone[p] /\ WorkerDone(p)
       \/ /\ Cardinality({q \in Probers : pc[q] \notin {"idle", "probe"}})
               < opts.IPCheckConcurrency
          /\ Goto(p, IF Kind[s] = "wireguard" THEN "alone" ELSE "dial")
          /\ slot' = [slot EXCEPT ![p] = s]
          /\ UNCHANGED <<hold, cands, callVars>>
    /\ UNCHANGED <<now, leaseVars, sessionVars, batchVars, healthVars, failVars,
                   ipVars, tunnelVars, budgetVars, closing>>

\* probeDialer for a WireGuard slot: capacity, then budget, then the handshake, all
\* beside the slot's serving tunnel.
ProbeReserve(s) ==
    LET p == Prober(s) IN
    /\ pc[p] = "alone"
    /\ ~ctxDone[p]
    /\ opens' = OpensAfterCheck
    /\ \E victim \in reserveCapacityLocked :
         /\ tunnel' = Detached({victim} \ {NoSlot})
         /\ CloseTunnels({victim} \ {NoSlot})
    /\ \/ /\ tunnelBudgetAvailableLocked
          /\ Goto(p, "promised")
          /\ pendingTunnelOpens' = pendingTunnelOpens + 1
          /\ probeTunnels' = probeTunnels + 1
       \/ /\ ~tunnelBudgetAvailableLocked
          /\ Goto(p, "failed")
          /\ UNCHANGED <<pendingTunnelOpens, probeTunnels>>
    /\ UNCHANGED <<now, slot, hold, cands, callVars, leaseVars, sessionVars, batchVars,
                   healthVars, failVars, ipVars, lastUsed, closing>>
ProbeRefused(s) ==
    LET p == Prober(s) IN
    /\ pc[p] = "alone"
    /\ ctxDone[p] \/ reserveCapacityLocked = {}
    /\ Goto(p, "failed")
    /\ UNCHANGED <<now, slot, hold, cands, callVars, leaseVars, sessionVars, batchVars,
                   healthVars, failVars, ipVars, tunnelVars, budgetVars, closing>>
ProbeContacts(s) ==
    LET p == Prober(s) IN
    /\ pc[p] = "promised"
    /\ Goto(p, IF ctxDone[p] THEN "wasted" ELSE "hello")
    /\ opens' = IF ctxDone[p] THEN opens ELSE Append(pruneOpensLocked, now)
    /\ pendingTunnelOpens' = Min0(pendingTunnelOpens)
    /\ UNCHANGED <<now, slot, hold, cands, callVars, leaseVars, sessionVars, batchVars,
                   healthVars, failVars, ipVars, tunnelVars, probeTunnels, closing>>
\* The handshake succeeds or not; the echo service does not answer.
ProbeGoesOn(s) ==
    LET p == Prober(s) IN
    /\ \/ pc[p] = "hello" /\ (Goto(p, "shown") \/ Goto(p, "wasted")) /\ UNCHANGED failures
       \/ pc[p] = "shown" /\ Goto(p, "wasted") /\ UNCHANGED failures
       \/ pc[p] = "got" /\ Goto(p, "failed") /\ failures' \in DialLeaves(p)
    /\ UNCHANGED <<now, slot, hold, cands, callVars, leaseVars, sessionVars, batchVars,
                   healthVars, disabledUntil, ipVars, tunnelVars, budgetVars, closing>>

\* A measured slot is healthy, whatever it was backed off for.
ProbeMeasures(s) ==
    LET p == Prober(s) IN
    /\ \/ pc[p] = "shown" /\ Goto(p, "spent") /\ UNCHANGED <<slot, hold, cands, callVars>>
       \/ pc[p] = "got" /\ WorkerDone(p)
    /\ \E ip \in ExitIPs[s] : setPublicIPLocked(s, ip)
    /\ \E f \in DialLeaves(p) : failures' = [f EXCEPT ![s] = 0]
    /\ disabledUntil' = [disabledUntil EXCEPT ![s] = 0]
    /\ UNCHANGED <<now, leaseVars, sessionVars, healthVars, tunnelVars, budgetVars, closing>>

\* Faulty: only a probe that measured gives its room back.
FaultyReleaseProbe(s) == probeTunnels' = IF pc[Prober(s)] = "spent"
                                         THEN Min0(probeTunnels) ELSE probeTunnels

releaseProbeCapacity(s) == probeTunnels' = Min0(probeTunnels)

\* The tunnel is closed and its room given back.
ProbeReleases(s) ==
    LET p == Prober(s) IN
    /\ \/ pc[p] = "spent" /\ WorkerDone(p)
       \/ pc[p] = "wasted" /\ Goto(p, "failed") /\ UNCHANGED <<slot, hold, cands, callVars>>
    /\ releaseProbeCapacity(s)
    /\ UNCHANGED <<now, leaseVars, sessionVars, batchVars, healthVars, failVars, ipVars,
                   tunnelVars, opens, pendingTunnelOpens, closing>>

\* A failure is counted but backs nothing off.
ProbeFails(s) ==
    /\ pc[Prober(s)] = "failed"
    /\ WorkerDone(Prober(s))
    /\ failures' = [failures EXCEPT ![s] = Bump(@)]
    /\ UNCHANGED <<now, leaseVars, sessionVars, batchVars, healthVars, disabledUntil,
                   ipVars, tunnelVars, budgetVars, closing>>

-----------------------------------------------------------------------------
(* The Maintain loop and Close.                                            *)

\* Faulty: looks at the time of the last lease only.
FaultyIdleTunnels == {s \in Slots : /\ Kind[s] = "wireguard" /\ isOpen(s)
                                    /\ lastUsed[s] # 0
                                    /\ now - lastUsed[s] > opts.IdleTimeout}

\* housekeep: expire everything, close what has been idle for too long, and
\* note at most two slots to measure again.  A pending lease does not keep a
\* tunnel open here.
IdleTunnels == {s \in Slots : /\ Kind[s] = "wireguard" /\ isOpen(s)
                              /\ leases[s] = 0 /\ lastUsed[s] # 0
                              /\ now - lastUsed[s] > opts.IdleTimeout}
StaleIPs(closed) ==
    {s \in Slots : /\ pc[Checker(s)] = "idle"
                   /\ Kind[s] = "wireguard" => isOpen(s) /\ s \notin closed
                   /\ \/ publicIP[s] = NoIP
                      \/ now - ipCheckedAt[s] > opts.IPRefreshInterval}
Housekeep ==
    LET idle  == IF opts.IdleTimeout > 0 THEN IdleTunnels ELSE {}
        stale == StaleIPs(idle)
    IN
    /\ pc[Housekeeper] = "idle"
    /\ \E T \in SUBSET stale :
         /\ Cardinality(T) = Min({2, Cardinality(stale)})
         /\ cands' = [cands EXCEPT ![Housekeeper] = T]
         /\ Goto(Housekeeper, IF T = {} THEN "idle" ELSE "refresh")
    /\ sessions' = LiveSessions
    /\ batches' = LiveBatches
    /\ bres' = Orphaned(ExpiredBatches)
    /\ preferred' = LivePreferred
    /\ ExpireCooldowns
    /\ tunnel' = Detached(idle)
    /\ CloseTunnels(idle)
    /\ UNCHANGED <<now, slot, hold, callVars, leaseVars, pendingSessions, sres,
                   failVars, ipVars, lastUsed, budgetVars, closing>>

\* ... then maybeCheckIP for each of them.
RefreshIP ==
    /\ pc[Housekeeper] = "refresh"
    /\ \E s \in cands[Housekeeper] :
         LET rest == cands[Housekeeper] \ {s} IN
         /\ cands' = [cands EXCEPT ![Housekeeper] = rest]
         /\ MaybeCheckIP(Housekeeper, s, IF rest = {} THEN "idle" ELSE "refresh")
    /\ UNCHANGED <<now, slot, hold, callVars, leaseVars, sessionVars, batchVars,
                   healthVars, failVars, ipVars, tunnelVars, budgetVars, closing>>

\* Close: mark the pool, detach every tunnel, cancel background work ...
Close ==
    LET open == {h \in Holders : isOpen(h)} IN
    /\ MayClose
    /\ closing = "no"
    /\ closing' = "waiting"
    /\ tunnel' = Detached(open)
    /\ CloseTunnels(open)
    /\ ctxDone' = [p \in Procs |-> ctxDone[p] \/ (p \in Checkers /\ pc[p] # "idle")]
    /\ UNCHANGED <<now, pc, slot, hold, cands, call, attempt, sticky, leaseVars,
                   sessionVars, batchVars, healthVars, failVars, ipVars,
                   lastUsed, budgetVars>>
\* Faulty: waits for the clients' leases too.
FaultyCloseReturns ==
    /\ closing = "waiting"
    /\ draining = 0 /\ leased = 0
    /\ \A p \in Checkers : pc[p] = "idle"
    /\ closing' = "done"
    /\ UNCHANGED <<now, pc, slot, hold, cands, callVars, leaseVars, sessionVars,
                   batchVars, healthVars, failVars, ipVars, tunnelVars, budgetVars>>

\* ... and return once the goroutines the pool owns are gone.
CloseReturns ==
    /\ closing = "waiting"
    /\ draining = 0
    /\ \A p \in Checkers : pc[p] = "idle"
    /\ closing' = "done"
    /\ UNCHANGED <<now, pc, slot, hold, cands, callVars, leaseVars, sessionVars,
                   batchVars, healthVars, failVars, ipVars, tunnelVars, budgetVars>>

-----------------------------------------------------------------------------
(* The control API: Rotate, Report, Prefer.                                *)

Rotate(n) ==
    /\ sessions[n] # NoSession
    /\ sessions' = [sessions EXCEPT ![n] = NoSession]
    /\ UNCHANGED <<now, pc, slot, hold, cands, callVars, leaseVars,
                   pendingSessions, sres, batchVars, healthVars, failVars,
                   ipVars, tunnelVars, budgetVars, closing>>

\* releaseSlotFromBatchesLocked
ReleasedFromBatches(s) ==
    [n \in BatchNames |-> IF batches[n] # NoBatch /\ s \in batches[n].usedSlots
                          THEN OrDropped([release(batches[n], s) EXCEPT
                                            !.served = @ \ {s}])
                          ELSE batches[n]]

\* A complaint about slot in.slot, or about the slot session in.session is
\* bound to.  in.publicIP is NoIP or the identity the client saw; a call that
\* names an unknown session or another identity is refused and changes nothing.
Report(in) ==
    LET s == IF in.slot # NoSlot THEN in.slot ELSE sessions[in.session].slotID
        t == in.target
        until == now + (IF in.cooldown > 0 THEN in.cooldown ELSE opts.Cooldown)
        ip == publicIP[s]
        B == ReleasedFromBatches(s)
    IN
    /\ in.slot = NoSlot => in.session # NoName /\ sessions[in.session] # NoSession
    /\ in.publicIP \in {NoIP, ip}
    /\ \/ /\ t = NoTarget
          /\ disabledUntil' = [disabledUntil EXCEPT ![s] = until]
          /\ UNCHANGED healthVars
       \/ /\ t # NoTarget
          /\ cooldowns' = [cooldowns EXCEPT ![s][t] = until]
          /\ ipCooldowns' = setIPCooldownLocked(t, ip, until)
          /\ preferred' = [preferred EXCEPT ![t] = removeIP(@, ip)]
          /\ UNCHANGED disabledUntil
    /\ batches' = B
    /\ bres' = Orphaned({n \in BatchNames : batches[n] # NoBatch /\ B[n] = NoBatch})
    /\ sessions' = IF in.session = NoName THEN sessions
                   ELSE [sessions EXCEPT ![in.session] = NoSession]
    /\ UNCHANGED <<now, pc, slot, hold, cands, callVars, leaseVars,
                   pendingSessions, sres, failures, ipVars, tunnelVars,
                   budgetVars, closing>>

\* Praise for a measured, non-rotating exit.
Prefer(in) ==
    LET until == now + (IF in.ttl > 0 THEN in.ttl ELSE opts.PreferredTTL) IN
    /\ in.slot \notin Rotating
    /\ publicIP[in.slot] # NoIP
    /\ in.publicIP \in {NoIP, publicIP[in.slot]}
    /\ preferred' = [preferred EXCEPT ![in.target] =
                       remember(@, in.slot, publicIP[in.slot], until, opts.PreferredMax)]
    /\ UNCHANGED <<now, pc, slot, hold, cands, callVars, leaseVars, sessionVars,
                   batchVars, ipCooldowns, cooldowns, failVars, ipVars,
                   tunnelVars, budgetVars, closing>>

-----------------------------------------------------------------------------
\* What a process does next on its own, once it has work.
Opener(p) == \/ EnsureDialer(p) \/ NextEntry(p)
             \/ EnsureOpenUp(p) \/ EnsureOpenWait(p)
             \/ EnsureOpenReserve(p) \/ EnsureOpenRefused(p) \/ WakeUp(p)
             \/ AbortOpen(p) \/ AbortOpenDone(p) \/ CommitTunnelOpen(p)
             \/ OpenSucceeds(p) \/ OpenFails(p)
Acquirer(r) == \/ PickNothing(r) \/ PickSlot(r)
               \/ CommitAcquisition(r) \/ CheckLeasedIP(r) \/ RollbackAcquisition(r)
               \/ NoteAcquireFailure(r) \/ DropSession(r)
Holder(r) == DialSucceeds(r) \/ NoteDialFailure(r) \/ Release(r)
IPCheck(s) == IPCheckAdmitted(s) \/ IPCheckFails(s) \/ IPMeasured(s)
Probing(s) == \/ ProbeRuns(s) \/ ProbeReserve(s) \/ ProbeRefused(s) \/ ProbeContacts(s)
              \/ ProbeGoesOn(s) \/ ProbeMeasures(s) \/ ProbeReleases(s) \/ ProbeFails(s)

\* What goes on whether or not the Maintain loop is running.
Working ==
    \/ Tick
    \/ DrainDone
    \/ \E r \in Requests, c \in Calls : Start(r, c)
    \/ \E r \in Requests : Acquirer(r) \/ Holder(r)
    \/ \E p \in Procs : Opener(p)
    \/ \E p \in Procs \cap Cancellable : Cancel(p)
    \/ \E count \in WarmCounts : Warmup(count)
    \/ \E h \in Holders : WarmupRuns(h) \/ WarmupDone(h)
    \/ \E T \in ProbeTargets : Probe(T)
    \/ \E s \in Slots : IPCheck(s) \/ Probing(s)
    \/ RefreshIP
    \/ CloseReturns
    \/ \E in \in PreferInputs : Prefer(in)

\* Everything but the control API's rotations and complaints.
Serve == Working \/ Housekeep \/ Close
Next == \/ Serve
        \/ \E n \in Rotations : Rotate(n)
        \/ \E in \in ReportInputs : Report(in)

Spec == Init /\ [][Next]_vars
=============================================================================
