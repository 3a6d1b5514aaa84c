------------------------------ MODULE Service ------------------------------
(***************************************************************************)
(* cmd/global-egress serve: the life of the process around one pool, and   *)
(* the control API on it.  runServe cancels serveCtx, waits for the        *)
(* goroutines of its WaitGroup (the accept loops, the control server's     *)
(* Shutdown, Maintain), saves the inventory, closes the pool and exits;    *)
(* clients' requests and late control handlers are not waited for.  A      *)
(* crash loses everything but the inventory file.                          *)
(***************************************************************************)
EXTENDS PoolHistory, Control

CONSTANTS ControlRequests,
          access        \* AllowedClients and Token of the control API

\* The pool keeps a scope for every health scope the API lets through.
ASSUME ControlAssumption ==
    \A rq \in ControlRequests :
        ControlVerdict(access, rq) = "call" /\ rq.op # "rotate"
          => normalizeHealthScope(rq.scope) \in Targets

VARIABLES
    life,       \* "up", "stopping", "saved" or "unsaved", "down"
    ctl,        \* the request a control handler works on, or NoRequest
    ctlDown,    \* the control server: "no", "drained", "timeout"
    file        \* the inventory on disk, or NoFile

serviceVars == <<life, ctl, ctlDown, file>>
svars == <<hvars, serviceVars>>

NoRequest == [op |-> "none"]
NoFile    == [none |-> "file"]
Nothing   == [t \in Targets |-> [ip \in IPs |-> 0]]

\* What SaveInventory keeps of the measured addresses.
Saved == [s \in Slots |-> IF s \in Rotating THEN NoIP ELSE publicIP[s]]

ServiceInit ==
    /\ HInit
    /\ life = "up"
    /\ ctl = NoRequest
    /\ ctlDown = "no"
    /\ file = NoFile

-----------------------------------------------------------------------------
(* The control API at work.                                                *)

\* A request that does not get as far as the pool is answered on sight.
ControlAccept(rq) ==
    /\ life # "down" /\ ctlDown = "no"
    /\ ctl = NoRequest
    /\ ctl' = IF ControlVerdict(access, rq) = "call" THEN rq ELSE NoRequest
    /\ UNCHANGED <<hvars, life, ctlDown, file>>

Duration(rq) == IF rq.lasting = "" THEN 0 ELSE Seconds[rq.lasting]
Bound(n)  == n \in Names /\ sessions[n] # NoSession
SlotOf(rq) == IF rq.slot # "" THEN rq.slot
              ELSE IF Bound(rq.session) THEN sessions[rq.session].slotID ELSE ""
ReportOf(rq) == [session |-> IF rq.session \in Names THEN rq.session ELSE NoName,
                 slot |-> IF rq.slot = "" THEN NoSlot ELSE rq.slot, publicIP |-> rq.ip,
                 target |-> normalizeHealthScope(rq.scope), cooldown |-> Duration(rq)]
PreferOf(rq) == [slot |-> rq.slot, publicIP |-> rq.ip,
                 target |-> normalizeHealthScope(rq.scope), ttl |-> Duration(rq)]

\* The addresses Report and Prefer compare with; "" is one Prefer does not accept.
AddressFor(rq) ==
    [s \in Slots |-> IF rq.op = "prefer" /\ (s \in Rotating \/ publicIP[s] = NoIP)
                     THEN "" ELSE publicIP[s]]

\* The handler calls the pool, which may not accept the feedback, and answers.
ControlHandle ==
    LET accepted == PoolStatus(ctl, SlotOf(ctl), AddressFor(ctl)) = "200" IN
    /\ life # "down"
    /\ ctl # NoRequest
    /\ ctl' = NoRequest
    /\ \/ accepted /\ ctl.op = "report" /\ HReport(ReportOf(ctl))
       \/ accepted /\ ctl.op = "prefer" /\ Prefer(PreferOf(ctl)) /\ UNCHANGED promised
       \/ ctl.op = "rotate" /\ Bound(ctl.session) /\ Rotate(ctl.session) /\ UNCHANGED promised
       \/ ctl.op = "rotate" /\ ~Bound(ctl.session) /\ UNCHANGED hvars
       \/ ~accepted /\ UNCHANGED hvars
    /\ UNCHANGED <<life, ctlDown, file>>

-----------------------------------------------------------------------------
(* Going down.                                                             *)

\* A signal, or a listener that failed: serveCtx is cancelled.  Requests learn of
\* it one by one (Cancel).
Stop ==
    /\ life = "up"
    /\ life' = "stopping"
    /\ UNCHANGED <<hvars, ctl, ctlDown, file>>

\* server.Shutdown closes the listener and returns when no handler is left, or
\* after five seconds.
ControlShutdown ==
    /\ life = "stopping"
    /\ ctlDown = "no"
    /\ ctlDown' \in {"timeout"} \cup {d \in {"drained"} : ctl = NoRequest}
    /\ UNCHANGED <<hvars, life, ctl, file>>

\* Faulty: does not wait for the control server.
FaultyWaited == life = "stopping" /\ pc[Housekeeper] = "idle"

\* wg.Wait returns.
Waited == /\ life = "stopping"
          /\ ctlDown \in {"drained", "timeout"}
          /\ pc[Housekeeper] = "idle"

\* SaveInventory: expireLocked and a snapshot in one critical section, written to
\* a temporary file and renamed over the old one.  Nothing is written when there is
\* nothing to remember, and a write that fails leaves the old file.
SaveInventory ==
    LET worth == \/ \E s \in Slots : Saved[s] # NoIP
                 \/ \E t \in Targets : \/ LivePreferred[t] # <<>>
                                       \/ \E ip \in IPs : LiveIPCooldowns[t][ip] # 0
    IN
    /\ Waited
    /\ sessions' = LiveSessions
    /\ batches' = LiveBatches
    /\ bres' = Orphaned(ExpiredBatches)
    /\ preferred' = LivePreferred
    /\ ExpireCooldowns
    /\ \/ /\ life' = "saved"
          /\ worth
          /\ file' = [slots |-> Saved, checkedAt |-> ipCheckedAt,
                      preferred |-> LivePreferred, cooldowns |-> LiveIPCooldowns]
       \/ ~worth /\ life' = "saved" /\ UNCHANGED file
       \/ worth /\ life' = "unsaved" /\ UNCHANGED file
    /\ UNCHANGED <<now, pc, slot, hold, cands, callVars, leaseVars, pendingSessions,
                   sres, failVars, ipVars, tunnelVars, budgetVars, closing, promised,
                   ctl, ctlDown>>

ClosePool ==
    /\ life \in {"saved", "unsaved"}
    /\ Close
    /\ UNCHANGED <<promised, serviceVars>>

\* The memory of the process is gone.
Forget ==
    /\ pc' = [p \in Procs |-> "idle"]
    /\ slot' = [p \in Procs |-> NoSlot]
    /\ hold' = [p \in Procs |-> NoSlot]
    /\ cands' = [p \in Procs |-> {}]
    /\ ctxDone' = [p \in Procs |-> FALSE]
    /\ call' = [r \in Requests |-> NoCall]
    /\ attempt' = [r \in Requests |-> 0]
    /\ sticky' = [r \in Requests |-> FALSE]
    /\ lost' = [r \in Requests |-> FALSE]
    /\ sres' = [r \in Requests |-> FALSE]
    /\ bres' = [r \in Requests |-> "none"]
    /\ leases' = [s \in Slots |-> 0]
    /\ pending' = [s \in Slots |-> 0]
    /\ leased' = 0 /\ pendingLeases' = 0
    /\ sessions' = [n \in Names |-> NoSession]
    /\ pendingSessions' = [n \in Names |-> 0]
    /\ batches' = [n \in BatchNames |-> NoBatch]
    /\ preferred' = [t \in Targets |-> <<>>]
    /\ ipCooldowns' = Nothing
    /\ cooldowns' = [s \in Slots |-> [t \in Targets |-> 0]]
    /\ failures' = [h \in Holders |-> 0]
    /\ disabledUntil' = [h \in Holders |-> 0]
    /\ publicIP' = [s \in Slots |-> NoIP]
    /\ ipCheckedAt' = [s \in Slots |-> 0]
    /\ tunnel' = [h \in Holders |-> "closed"]
    /\ lastUsed' = [s \in Slots |-> 0]
    /\ draining' = 0
    /\ opens' = <<>> /\ pendingTunnelOpens' = 0 /\ probeTunnels' = 0
    /\ closing' = "no"
    /\ promised' = Nothing
    /\ life' = "down"
    /\ ctl' = NoRequest
    /\ ctlDown' = "no"
    /\ UNCHANGED <<now, file>>

\* The process exits under the requests that are left, or is killed at any time.
Exit  == closing = "done" /\ Forget
Crash == life # "down" /\ Forget

TimePasses == life = "down" /\ Tick /\ UNCHANGED <<promised, serviceVars>>

-----------------------------------------------------------------------------
(* Coming up: NewWithSpecs and LoadInventory.                              *)

\* Faulty: restores health before the addresses it refers to.
FaultyLoadedCooldowns ==
    [t \in Targets |-> [ip \in IPs |->
        IF now < file.cooldowns[t][ip] /\ ip \in {publicIP[s] : s \in Slots}
        THEN file.cooldowns[t][ip] ELSE 0]]

\* A cooldown is restored when it is in force and some slot has the address
\* (hasMeasuredIPLocked), as the slots have been restored.
LoadedCooldowns ==
    [t \in Targets |-> [ip \in IPs |->
        IF now < file.cooldowns[t][ip] /\ ip \in {file.slots[s] : s \in Slots}
        THEN file.cooldowns[t][ip] ELSE 0]]

\* What has expired or names a slot that has another address is left out ...
StillValid(t) ==
    LET ring == file.preferred[t] IN
    Sift(ring, {i \in DOMAIN ring : /\ now < ring[i].expiresAt
                                    /\ file.slots[ring[i].slotID] = ring[i].publicIP})

\* ... and the rest is remembered again, in its order: the ring after k of them.
RememberedAgain(kept) ==
    LET ring[k \in 0 .. Len(kept)] ==
          IF k = 0 THEN <<>>
          ELSE remember(ring[k - 1], kept[k].slotID, kept[k].publicIP, kept[k].expiresAt,
                        opts.PreferredMax)
    IN  ring

LoadedPreferred ==
    [t \in Targets |-> RememberedAgain(StillValid(t))[Len(StillValid(t))]]

\* History: the complaints in the file that the new pool must honour.
StillPromised ==
    [t \in Targets |-> [ip \in IPs |->
        IF \E s \in Slots : file.slots[s] = ip THEN file.cooldowns[t][ip] ELSE 0]]

\* A missing file is no error; one that cannot be read is logged and ignored.
Boot ==
    /\ life = "down"
    /\ life' = "up"
    /\ \/ /\ file # NoFile
          /\ publicIP' = file.slots
          /\ ipCheckedAt' = [s \in Slots |-> IF file.slots[s] = NoIP THEN 0
                                             ELSE file.checkedAt[s]]
          /\ preferred' = LoadedPreferred
          /\ ipCooldowns' = LoadedCooldowns
          /\ promised' = StillPromised
       \/ UNCHANGED <<ipVars, preferred, ipCooldowns, promised>>
    /\ UNCHANGED <<now, pc, slot, hold, cands, callVars, leaseVars, sessionVars, batchVars,
                   cooldowns, failVars, tunnelVars, budgetVars, closing, ctl, ctlDown, file>>

ServiceNext ==
    \/ life # "down" /\ Working /\ UNCHANGED <<promised, serviceVars>>
    \/ life = "up" /\ Housekeep /\ UNCHANGED <<promised, serviceVars>>
    \/ \E rq \in ControlRequests : ControlAccept(rq)
    \/ ControlHandle
    \/ Stop \/ ControlShutdown \/ SaveInventory \/ ClosePool
    \/ Exit \/ Crash \/ TimePasses \/ Boot

\* As in module PoolProps; the goroutines of runServe run too, and Shutdown ends
\* after five seconds.  Clients owe nothing.
ServiceFairness ==
    /\ \A p \in Procs : WF_svars(life # "down" /\ Opener(p) /\ UNCHANGED <<promised, serviceVars>>)
    /\ \A s \in Slots : WF_svars(life # "down" /\ IPCheck(s) /\ UNCHANGED <<promised, serviceVars>>)
    /\ WF_svars(life # "down" /\ (RefreshIP \/ DrainDone \/ CloseReturns)
                /\ UNCHANGED <<promised, serviceVars>>)
    /\ WF_svars(ControlShutdown) /\ WF_svars(SaveInventory)
    /\ WF_svars(ClosePool) /\ WF_svars(Exit)
ServiceSpec == ServiceInit /\ [][ServiceNext]_svars /\ ServiceFairness

-----------------------------------------------------------------------------
(* Properties.                                                             *)

\* A complaint the API has accepted is in the inventory that is saved, for as long
\* as it is in force, also when it arrived during shutdown; only a handler that
\* outlasts the five seconds of Shutdown may be too late.
AcceptedIsSaved ==
    life = "saved" /\ ctlDown # "timeout" =>
        \A t \in Targets, ip \in IPs :
            now < promised[t][ip] => /\ file # NoFile
                                     /\ file.cooldowns[t][ip] >= promised[t][ip]

\* Once told to, the process goes down, whatever its clients do.
ServiceStops == life = "stopping" ~> life = "down"
=============================================================================
