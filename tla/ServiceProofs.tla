---------------------------- MODULE ServiceProofs ----------------------------
(***************************************************************************)
(* Theorems about complaints, for every catalog, any options, inputs and   *)
(* number of requests: whatever is promised about an address is on record  *)
(* in its scope for as long as it is in force.  First in the pool, through *)
(* every measurement, praise, later complaint and forgetting of what has   *)
(* run out; then in the service around it, through feedback that arrives   *)
(* at the control API during shutdown, the inventory and restarts, killed  *)
(* or not.                                                                 *)
(* The same invariant carries everything the other modules prove about the *)
(* pool over to the service: a process that dies leaves a pool in which    *)
(* nothing is held, the next one fills it from the file, and feedback that *)
(* outlasts a shutdown is one more step of the pool.                       *)
(***************************************************************************)
EXTENDS PoolBatchProofs, Service

PromiseTypeOK == promised \in [Targets -> [IPs -> Nat]]
RecordTypes == /\ now \in Nat
               /\ ipCooldowns \in [Targets -> [IPs -> Nat]]
               /\ publicIP \in [Slots -> IPs \cup {NoIP}]
               /\ PromiseTypeOK

\* A promise in force is on record.
OnRecord ==
    \A t \in Targets : \A ip \in IPs :
        now < promised[t][ip] => promised[t][ip] <= ipCooldowns[t][ip]

RecordInv == RecordTypes /\ OnRecord

LEMMA MaxOfTwo ==
    ASSUME NEW x \in Nat, NEW y \in Nat
    PROVE  Max({x, y}) \in {x, y} /\ Max({x, y}) \in Nat /\ Max({x, y}) >= x /\ Max({x, y}) >= y
  <1>1. \E m \in {x, y} : \A z \in {x, y} : m >= z
    OBVIOUS
  <1>2. Max({x, y}) \in {x, y} /\ \A z \in {x, y} : Max({x, y}) >= z
    BY <1>1 DEF Max
  <1>3. QED
    BY <1>2

\* Entering a time for one address of one scope.
Timed(f) == f \in [Targets -> [IPs -> Nat]]
Differs(g, f, t, ip, m) ==
    \A u \in Targets : \A a \in IPs : g[u][a] = IF u = t /\ a = ip THEN m ELSE f[u][a]

LEMMA Entered ==
    ASSUME NEW f, Timed(f), NEW t, NEW ip, NEW m, t \in Targets /\ ip \in IPs => m \in Nat,
           NEW g, g = [f EXCEPT ![t][ip] = m]
    PROVE  Timed(g) /\ Differs(g, f, t, ip, m)
  <1> DEFINE row == [f[t] EXCEPT ![ip] = m]
  <1>1. f \in [Targets -> [IPs -> Nat]] /\ g = [f EXCEPT ![t] = row]
    BY DEF Timed
  <1>2. t \in Targets => /\ row \in [IPs -> Nat]
                          /\ \A a \in IPs : row[a] = IF a = ip THEN m ELSE f[t][a]
    <2>1. t \in Targets => f[t] \in [IPs -> Nat]
      BY <1>1
    <2>2. QED
      BY <2>1
  <1> HIDE DEF row
  <1>3. g \in [Targets -> [IPs -> Nat]]
    BY <1>1, <1>2
  <1>4. \A u \in Targets : g[u] = IF u = t THEN row ELSE f[u]
    BY <1>1
  <1>5. ASSUME NEW u \in Targets, NEW a \in IPs
        PROVE  g[u][a] = IF u = t /\ a = ip THEN m ELSE f[u][a]
    BY <1>2, <1>4
  <1>6. QED
    BY <1>3, <1>5 DEF Timed, Differs

\* The later of what is entered and a new time.
LEMMA LaterOne ==
    ASSUME NEW f, Timed(f), NEW t \in Targets, NEW ip \in IPs, NEW until \in Nat,
           NEW m, m = Max({f[t][ip], until})
    PROVE  f[t][ip] \in Nat /\ m \in Nat /\ m \in {f[t][ip], until} /\ m >= f[t][ip] /\ m >= until
  <1> DEFINE n == f[t][ip]
  <1>1. n \in Nat /\ m = Max({n, until})
    BY DEF Timed
  <1> HIDE DEF n
  <1>2. m \in Nat /\ m \in {n, until} /\ m >= n /\ m >= until
    BY <1>1, MaxOfTwo
  <1>3. QED
    BY <1>1, <1>2 DEF n

\* A record in force is neither dropped nor shortened: expiry drops what has run out,
\* and a complaint only adds to it.
LEMMA RecordsLast ==
    ASSUME RecordTypes, [AnyNext]_vars
    PROVE  /\ ipCooldowns' \in [Targets -> [IPs -> Nat]]
           /\ \A t \in Targets : \A ip \in IPs :
                now < ipCooldowns[t][ip] => ipCooldowns[t][ip] <= ipCooldowns'[t][ip]
  <1>1. now \in Nat /\ ipCooldowns \in [Targets -> [IPs -> Nat]]
    BY DEF RecordTypes
  <1>2. CASE UNCHANGED ipCooldowns
    BY <1>1, <1>2
  <1>3. CASE ipCooldowns' = LiveIPCooldowns
    BY <1>1, <1>3 DEF LiveIPCooldowns
  <1>4. CASE \E in \in ReportType : Report(in)
    <2>1. PICK in \in ReportType : Report(in)
      BY <1>4
    <2> DEFINE s == IF in.slot # NoSlot THEN in.slot ELSE sessions[in.session].slotID
               u == in.target
               until == now + (IF in.cooldown > 0 THEN in.cooldown ELSE opts.Cooldown)
               a == publicIP[s]
    <2>2. until \in Nat
      BY <1>1, InputAssumption DEF ReportType, Options
    <2>3. \/ ipCooldowns' = ipCooldowns
          \/ ipCooldowns' = [ipCooldowns EXCEPT ![u][a] = Max({ipCooldowns[u][a], until})]
      BY <2>1 DEF Report, setIPCooldownLocked, healthVars
    <2> HIDE DEF s, u, until, a
    <2> DEFINE m == Max({ipCooldowns[u][a], until})
    <2>4. m = Max({ipCooldowns[u][a], until})
      OBVIOUS
    <2> HIDE DEF m
    <2>5. CASE ipCooldowns' = [ipCooldowns EXCEPT ![u][a] = m]
      <3>1. Timed(ipCooldowns)
        BY <1>1 DEF Timed
      <3>2. u \in Targets /\ a \in IPs => m \in Nat
        BY <2>2, <2>4, <3>1, LaterOne
      <3>3. u \in Targets /\ a \in IPs => m >= ipCooldowns[u][a]
        BY <2>2, <2>4, <3>1, LaterOne
      <3>4. Timed(ipCooldowns')
        BY <2>5, <3>1, <3>2, Entered
      <3>5. Differs(ipCooldowns', ipCooldowns, u, a, m)
        BY <2>5, <3>1, <3>2, Entered
      <3>6. \A t \in Targets : \A ip \in IPs : ipCooldowns[t][ip] \in Nat
        BY <1>1
      <3>7. ASSUME NEW t \in Targets, NEW ip \in IPs
            PROVE  ipCooldowns[t][ip] <= ipCooldowns'[t][ip]
        BY <3>2, <3>3, <3>5, <3>6 DEF Differs
      <3>8. QED
        BY <3>4, <3>7 DEF Timed
    <2>6. QED
      BY <1>2, <2>3, <2>5 DEF m
  <1>5. ASSUME NEW r \in Requests, PickNothing(r) \/ PickSlot(r)
        PROVE  ipCooldowns' = LiveIPCooldowns
    BY <1>5 DEF PickNothing, PickSlot, ExpireCooldowns
  <1>6. ASSUME NEW r \in Requests, CommitAcquisition(r) \/ RollbackAcquisition(r) \/ Release(r)
        PROVE  UNCHANGED ipCooldowns
    BY <1>6 DEF CommitAcquisition, RollbackAcquisition, Release, healthVars
  <1>7. ASSUME NEW s \in Slots, IPMeasured(s) \/ ProbeMeasures(s)
        PROVE  UNCHANGED ipCooldowns
    BY <1>7 DEF IPMeasured, ProbeMeasures, healthVars
  <1>8. CASE Housekeep \/ Expires
    BY <1>3, <1>8 DEF Housekeep, Expires, ExpireCooldowns
  <1>9. ASSUME NEW in \in PreferType, Prefer(in)
        PROVE  UNCHANGED ipCooldowns
    BY <1>9 DEF Prefer
  <1>10. QED
    BY <1>2, <1>3, <1>4, <1>5, <1>6, <1>7, <1>8, <1>9, Writers DEF Writer, CalmWriter, healthVars

\* Measured addresses are addresses.
LEMMA AddressTypes ==
    ASSUME RecordTypes, [AnyNext]_vars
    PROVE  publicIP' \in [Slots -> IPs \cup {NoIP}]
  <1>1. CASE UNCHANGED publicIP
    BY <1>1 DEF RecordTypes
  <1>2. ASSUME NEW s \in Slots, IPMeasured(s) \/ ProbeMeasures(s)
        PROVE  publicIP' \in [Slots -> IPs \cup {NoIP}]
    <2>1. PICK ip \in ExitIPs[s] : publicIP' = [publicIP EXCEPT ![s] = ip]
      BY <1>2 DEF IPMeasured, ProbeMeasures, setPublicIPLocked
    <2>2. ip \in IPs
      BY <2>1, InputAssumption
    <2>3. QED
      BY <2>1, <2>2 DEF RecordTypes
  <1>3. ASSUME NEW r \in Requests, \/ PickNothing(r) \/ PickSlot(r) \/ CommitAcquisition(r)
                                   \/ RollbackAcquisition(r) \/ Release(r)
        PROVE  UNCHANGED publicIP
    BY <1>3 DEF PickNothing, PickSlot, CommitAcquisition, RollbackAcquisition, Release, ipVars
  <1>4. ASSUME NEW in, Report(in) \/ Prefer(in)
        PROVE  UNCHANGED publicIP
    BY <1>4 DEF Report, Prefer, ipVars
  <1>5. CASE Housekeep \/ Expires
    BY <1>1, <1>5 DEF Housekeep, Expires, ipVars
  <1>6. QED
    BY <1>1, <1>2, <1>3, <1>4, <1>5, Writers DEF Writer, CalmWriter, ipVars

\* Time never runs backwards.
LEMMA ClockForward ==
    ASSUME now \in Nat, [AnyNext]_vars
    PROVE  now' \in Nat /\ now <= now'
  BY ClockMoves, InputAssumption

\* What the pool does otherwise keeps the record.
LEMMA RecordKept ==
    ASSUME RecordInv, [AnyNext]_vars, promised' = promised
    PROVE  RecordInv'
  <1>1. RecordTypes'
    BY ClockForward, RecordsLast, AddressTypes DEF RecordInv, RecordTypes, PromiseTypeOK
  <1>2. now \in Nat /\ now' \in Nat /\ now <= now'
    BY ClockForward DEF RecordInv, RecordTypes
  <1>3. ASSUME NEW t \in Targets, NEW ip \in IPs, now' < promised'[t][ip]
        PROVE  promised'[t][ip] <= ipCooldowns'[t][ip]
    <2>1. /\ ipCooldowns[t][ip] \in Nat /\ ipCooldowns'[t][ip] \in Nat /\ promised[t][ip] \in Nat
      BY <1>1 DEF RecordInv, RecordTypes, PromiseTypeOK
    <2>2. now < promised[t][ip] /\ promised[t][ip] <= ipCooldowns[t][ip]
      BY <1>2, <1>3, <2>1 DEF RecordInv, OnRecord
    <2>3. now < ipCooldowns[t][ip] => ipCooldowns[t][ip] <= ipCooldowns'[t][ip]
      BY RecordsLast DEF RecordInv
    <2>4. QED
      BY <1>2, <2>1, <2>2, <2>3
  <1>4. QED
    BY <1>1, <1>3 DEF RecordInv, OnRecord

\* A complaint is entered where the promise is made, and lasts as long.
LEMMA ComplaintRecorded ==
    ASSUME RecordInv, NEW in, in.cooldown \in Int, HReport(in)
    PROVE  RecordInv'
  <1> DEFINE s == IF in.slot # NoSlot THEN in.slot ELSE sessions[in.session].slotID
             t == in.target
             until == now + (IF in.cooldown > 0 THEN in.cooldown ELSE opts.Cooldown)
             ip == publicIP[s]
  <1>1. now \in Nat /\ now' = now /\ publicIP' = publicIP
    BY DEF HReport, Report, ipVars, RecordInv, RecordTypes
  <1>2. until \in Nat
    BY <1>1, InputAssumption DEF Options
  <1> DEFINE p == promised[t][ip]
             c == ipCooldowns[t][ip]
             pm == Max({p, until})
             cm == Max({c, until})
  <1>3. \/ UNCHANGED <<promised, ipCooldowns>>
        \/ /\ promised' = [promised EXCEPT ![t][ip] = pm]
           /\ ipCooldowns' = [ipCooldowns EXCEPT ![t][ip] = cm]
    BY DEF HReport, Report, setIPCooldownLocked, healthVars
  <1> HIDE DEF s, t, until, ip
  <1>4. CASE UNCHANGED <<promised, ipCooldowns>>
    BY <1>1, <1>4 DEF RecordInv, RecordTypes, PromiseTypeOK, OnRecord
  <1>5. CASE /\ promised' = [promised EXCEPT ![t][ip] = pm]
             /\ ipCooldowns' = [ipCooldowns EXCEPT ![t][ip] = cm]
    <2>1. /\ promised \in [Targets -> [IPs -> Nat]]
          /\ ipCooldowns \in [Targets -> [IPs -> Nat]]
      BY DEF RecordInv, RecordTypes, PromiseTypeOK
    <2>2. Timed(promised) /\ Timed(ipCooldowns)
      BY <2>1 DEF Timed
    <2>3. pm = Max({promised[t][ip], until}) /\ cm = Max({ipCooldowns[t][ip], until})
      OBVIOUS
    <2> HIDE DEF p, c, pm, cm
    <2>4. t \in Targets /\ ip \in IPs => pm \in Nat /\ cm \in Nat
      BY <1>2, <2>2, <2>3, LaterOne
    <2>5. /\ Timed(promised')
          /\ Timed(ipCooldowns')
      BY <1>5, <2>2, <2>4, Entered
    <2>6. Differs(promised', promised, t, ip, pm)
      BY <1>5, <2>2, <2>4, Entered
    <2>7. Differs(ipCooldowns', ipCooldowns, t, ip, cm)
      BY <1>5, <2>2, <2>4, Entered
    <2>8. ASSUME t \in Targets, ip \in IPs, now < pm
          PROVE  pm <= cm
      <3>1. p \in Nat /\ c \in Nat /\ (now < p => p <= c)
        BY <2>1, <2>8 DEF p, c, RecordInv, OnRecord
      <3>2. pm = Max({p, until}) /\ cm = Max({c, until})
        BY DEF pm, cm
      <3>3. pm \in {p, until} /\ cm \in Nat /\ cm >= c /\ cm >= until
        BY <1>2, <3>1, <3>2, MaxOfTwo
      <3>4. QED
        BY <1>1, <1>2, <2>8, <3>1, <3>3
    <2>9. ASSUME NEW u \in Targets, NEW a \in IPs, now < promised'[u][a]
          PROVE  promised'[u][a] <= ipCooldowns'[u][a]
      <3>1. CASE u = t /\ a = ip
        BY <2>6, <2>7, <2>8, <2>9, <3>1 DEF Differs
      <3>2. CASE ~(u = t /\ a = ip)
        BY <2>6, <2>7, <2>9, <3>2 DEF Differs, RecordInv, OnRecord
      <3>3. QED
        BY <3>1, <3>2
    <2>10. QED
      BY <1>1, <2>5, <2>9 DEF RecordInv, RecordTypes, PromiseTypeOK, OnRecord, Timed
  <1>6. QED
    BY <1>3, <1>4, <1>5

\* Nobody but a request's own pick reserves an exit for it.
LEMMA OnlyPickReserves ==
    ASSUME TypeInv, [AnyNext]_vars, NEW r \in Requests, pc[r] = "pick", pc'[r] = "dial"
    PROVE  PickSlot(r)
  <1>1. ~LeaseStill
    BY DEF LeaseStill, Reserving, Opening
  <1>2. ~(UNCHANGED pc)
    OBVIOUS
  <1>3. ~(UNCHANGED vars \/ Tick \/ DrainDone \/ CloseReturns \/ Close \/ Expires)
    BY <1>2 DEF vars, callVars, Tick, DrainDone, CloseReturns, Close, Expires
  <1>4. \A p : ~(Cancel(p) \/ Rotate(p) \/ Report(p) \/ Prefer(p))
    BY <1>2 DEF Cancel, Rotate, Report, Prefer
  <1>5. \A x : ~(\/ Warmup(x) \/ (x \in ProbeTargets /\ Probe(x))
                 \/ (x \in Holders /\ (WarmupRuns(x) \/ WarmupDone(x)))
                 \/ (x \in Slots /\ (IPCheck(x) \/ Probing(x)))
                 \/ (x \in Procs /\ Opener(x)))
    BY <1>1, WarmupStep, ProbeStep, WarmerStep, IPCheckStep, ProberStep, OpenerStep
  <1>6. ~(Housekeep \/ RefreshIP)
    BY <1>1, HousekeeperStep
  <1>7. \A q \in Requests, c \in Calls : ~Start(q, c)
    BY <1>1, StartStep
  <1>8. PICK q \in Requests : Acquirer(q) \/ Holder(q)
    BY <1>3, <1>4, <1>5, <1>6, <1>7 DEF AnyNext, Calm, Serve, Working
  <1>9. \/ PickSlot(q) \/ CommitAcquisition(q) \/ RollbackAcquisition(q) \/ Release(q)
    BY <1>1, <1>8, PickNothingStep, CheckLeasedIPStep, NoteAcquireFailureStep, DropSessionStep,
       HoldingStep DEF Acquirer, Holder
  <1>10. q = r
    <2>1. PICK label : pc' = [pc EXCEPT ![q] = label]
      BY <1>9 DEF PickSlot, CommitAcquisition, RollbackAcquisition, Release, Return, Goto
    <2>2. QED
      BY <2>1 DEF TypeInv, ControlTypeOK
  <1>11. QED
    BY <1>9, <1>10 DEF CommitAcquisition, RollbackAcquisition, Release

\* pick looks at the records of the scope it picks for.
LEMMA PickHeeds ==
    ASSUME TypeInv, NEW r \in Requests, PickSlot(r), pc'[r] = "dial"
    PROVE  /\ slot'[r] \in Slots /\ call[r] \in Calls
           /\ ~ipCoolingDownLocked(call[r].target, publicIP[slot'[r]])
  <1>1. call[r] \in Calls /\ pc \in [Procs -> PCs] /\ slot \in [Procs -> Slots \cup {NoSlot}]
    BY DEF PickSlot, TypeInv, WorkOK, ControlTypeOK
  <1>2. PICK sel \in Selections(call[r]) : \/ slot' = [slot EXCEPT ![r] = sel[2]]
                                           \/ Return(r)
    BY DEF PickSlot
  <1>3. slot' = [slot EXCEPT ![r] = sel[2]]
    BY <1>1, <1>2, WorkersApart DEF Return, Goto
  <1>4. slot'[r] = sel[2]
    BY <1>1, <1>3, WorkersApart
  <1>5. sel[2] \in Slots
    BY <1>1, SelectionRule
  <1>6. eligibleLocked(sel[2], call[r]) \/ sel[2] \in Recyclable(call[r])
    BY <1>1, SelectionRule
  <1>7. ~ipCoolingDownLocked(call[r].target, publicIP[sel[2]])
    BY <1>6 DEF eligibleLocked, Recyclable, eligibleIgnoringBatchLocked, eligible
  <1>8. QED
    BY <1>1, <1>4, <1>5, <1>7

\* No request is given an exit that is promised to be kept from its scope.
Heeded ==
    \A r \in Requests :
      pc[r] = "pick" /\ pc'[r] = "dial" /\ call[r].target # NoTarget =>
        LET ip == publicIP[slot'[r]]
        IN  ip # NoIP => ~(now < promised[call[r].target][ip])

LEMMA PicksHeed ==
    ASSUME TypeInv, RecordInv, [AnyNext]_vars
    PROVE  Heeded
  <1> SUFFICES ASSUME NEW r \in Requests, pc[r] = "pick", pc'[r] = "dial",
                      call[r].target # NoTarget, publicIP[slot'[r]] # NoIP
               PROVE  ~(now < promised[call[r].target][publicIP[slot'[r]]])
    BY DEF Heeded
  <1>1. /\ slot'[r] \in Slots /\ call[r] \in Calls
        /\ ~ipCoolingDownLocked(call[r].target, publicIP[slot'[r]])
    BY OnlyPickReserves, PickHeeds
  <1> DEFINE t == call[r].target
             ip == publicIP[slot'[r]]
  <1>2. t \in Targets /\ ip \in IPs
    BY <1>1, InputAssumption DEF CallType, RecordInv, RecordTypes
  <1>3. ~(now < ipCooldowns[t][ip])
    BY <1>1 DEF ipCoolingDownLocked
  <1> HIDE DEF t, ip
  <1>4. /\ now \in Nat /\ promised[t][ip] \in Nat /\ ipCooldowns[t][ip] \in Nat
        /\ now < promised[t][ip] => promised[t][ip] <= ipCooldowns[t][ip]
    BY <1>2 DEF RecordInv, RecordTypes, PromiseTypeOK, OnRecord
  <1>5. QED
    BY <1>3, <1>4 DEF t, ip

LEMMA HistoryInit == HInit => TypeInv /\ RecordInv
  <1> SUFFICES ASSUME HInit PROVE TypeInv /\ RecordInv
    OBVIOUS
  <1>1. TypeInv
    BY LeaseInit DEF HInit, LeaseInv
  <1>2. RecordInv
    BY InputAssumption DEF HInit, Init, RecordInv, RecordTypes, PromiseTypeOK, OnRecord
  <1>3. QED
    BY <1>1, <1>2

LEMMA HistoryNext ==
    ASSUME TypeInv, RecordInv, [HNext]_hvars
    PROVE  TypeInv' /\ RecordInv' /\ Heeded
  <1>1. [AnyNext]_vars
    <2>1. [Next]_vars
      BY DEF HNext, HReport, Next, hvars
    <2>2. QED
      BY <2>1, NextIsAny
  <1>2. CASE \E in \in ReportInputs : HReport(in)
    <2>1. \A in \in ReportInputs : in.cooldown \in Int
      BY InputAssumption DEF ReportType
    <2>2. QED
      BY <1>1, <1>2, <2>1, ComplaintRecorded, StepKinds, PicksHeed
  <1>3. CASE promised' = promised
    BY <1>1, <1>3, RecordKept, StepKinds, PicksHeed
  <1>4. QED
    BY <1>2, <1>3 DEF HNext, hvars

\* "Active failures dominate later success reports until cooldown expiry": pick gives no
\* request an exit whose address a complaint in force keeps away from the request's
\* scope, whichever exit the complaint came in through.
THEOREM CooldownsHeld == HSpec => CooldownHolds
  <1>1. TypeInv /\ RecordInv /\ [HNext]_hvars => TypeInv' /\ RecordInv' /\ [Heeded]_hvars
    BY HistoryNext
  <1>2. [][Heeded]_hvars => CooldownHolds
    BY PTL DEF CooldownHolds, Heeded
  <1>3. QED
    BY <1>1, <1>2, HistoryInit, PTL DEF HSpec

-----------------------------------------------------------------------------
(* The service.                                                            *)

\* The inventory is one that SaveInventory writes.
FileOK == file # NoFile => /\ file.slots \in [Slots -> IPs \cup {NoIP}]
                           /\ file.checkedAt \in [Slots -> Nat]
                           /\ file.cooldowns \in [Targets -> [IPs -> Nat]]
                           /\ \A t \in Targets : SaneRing(file.preferred[t])

\* A control handler works on what ServeHTTP let through, and on nothing once the
\* control server has been drained, which it has been, or given up on, before the
\* inventory is saved.
HandlersOK ==
    /\ ctl # NoRequest => ctl \in ControlRequests /\ ControlVerdict(access, ctl) = "call"
    /\ ctlDown \in {"no", "drained", "timeout"}
    /\ ctlDown = "drained" => ctl = NoRequest
    /\ life \in {"saved", "unsaved"} => ctlDown # "no"

\* A pool nobody has used yet, whatever its clock, its addresses and their health are.
Fresh == Blank /\ now \in Nat /\ HealthTypeOK /\ Rings

ServiceInv == /\ BatchInv /\ RecordInv /\ FileOK /\ HandlersOK
              /\ life = "down" => Blank

-----------------------------------------------------------------------------
(* The pool is called with what its own module calls it with.              *)

\* What has passed ServeHTTP has a duration that is not negative.
LEMMA AdmittedDuration ==
    ASSUME NEW rq, rq.op \in {"report", "prefer"}, ControlVerdict(access, rq) = "call"
    PROVE  Duration(rq) \in Nat
  <1>1. rq.op # "rotate" /\ ControlVerdict(access, rq) = "call"
    OBVIOUS
  <1>2. rq.lasting # "" => rq.lasting \in DOMAIN Seconds /\ Seconds[rq.lasting] >= 0
    BY <1>1, Zenon DEF ControlVerdict, Decodes
  <1>3. CASE rq.lasting = ""
    <2>1. Duration(rq) = 0
      BY <1>3, Zenon DEF Duration
    <2>2. QED
      BY <2>1
  <1>4. CASE rq.lasting # ""
    <2> DEFINE n == Seconds[rq.lasting]
    <2>1. n \in Int /\ n >= 0
      BY <1>2, <1>4, DurationAssumption, Zenon
    <2>2. Duration(rq) = n
      BY <1>4, Zenon DEF Duration
    <2> HIDE DEF n
    <2>3. QED
      BY <2>1, <2>2
  <1>5. QED
    BY <1>3, <1>4

\* What the pool accepts is about a slot of the catalog and the address it has.
LEMMA AcceptedIdentity ==
    ASSUME NEW rq, rq.op # "rotate", PoolStatus(rq, SlotOf(rq), AddressFor(rq)) = "200"
    PROVE  /\ SlotOf(rq) \in Slots /\ rq.ip = AddressFor(rq)[SlotOf(rq)]
           /\ rq.op = "prefer" => AddressFor(rq)[SlotOf(rq)] # ""
  <1>1. DOMAIN AddressFor(rq) = Slots
    BY DEF AddressFor
  <1> DEFINE s == SlotOf(rq)
             addrOf == AddressFor(rq)
  <1> HIDE DEF s, addrOf
  <1>2. /\ s \in DOMAIN addrOf /\ rq.ip = addrOf[s]
        /\ rq.op = "prefer" => addrOf[s] # ""
    BY Zenon DEF PoolStatus, s, addrOf
  <1>3. QED
    BY <1>1, <1>2 DEF s, addrOf

\* A complaint or a praise that is accepted is one the pool can be called with.
LEMMA HandledCall ==
    ASSUME HealthTypeOK, HandlersOK, ControlHandle
    PROVE  [AnyNext]_vars
  <1> DEFINE accepted == PoolStatus(ctl, SlotOf(ctl), AddressFor(ctl)) = "200"
  <1>1. ctl \in ControlRequests /\ ControlVerdict(access, ctl) = "call"
    BY DEF ControlHandle, HandlersOK
  <1>2. CASE UNCHANGED hvars
    BY <1>2 DEF hvars
  <1>3. CASE ctl.op = "rotate" /\ Bound(ctl.session) /\ Rotate(ctl.session)
    BY <1>3 DEF Bound, AnyNext, Calm
  <1>4. ASSUME ctl.op \in {"report", "prefer"}
        PROVE  /\ Duration(ctl) \in Nat
               /\ normalizeHealthScope(ctl.scope) \in Targets
    <2>1. ctl.op # "rotate"
      BY <1>4
    <2>2. QED
      BY <1>1, <1>4, <2>1, AdmittedDuration, ControlAssumption
  <1>5. CASE accepted /\ ctl.op = "report" /\ HReport(ReportOf(ctl))
    <2>1. SlotOf(ctl) \in Slots /\ ctl.ip = AddressFor(ctl)[SlotOf(ctl)]
      BY <1>5, AcceptedIdentity
    <2>2. ctl.ip = publicIP[SlotOf(ctl)]
      BY <1>5, <2>1 DEF AddressFor
    <2>3. ctl.ip \in IPs \cup {NoIP}
      BY <2>1, <2>2 DEF HealthTypeOK
    <2>4. ctl.slot # "" => ctl.slot \in Slots
      BY <2>1 DEF SlotOf
    <2>5. ReportOf(ctl) \in ReportType
      BY <1>4, <1>5, <2>3, <2>4 DEF ReportOf, ReportType
    <2>6. Report(ReportOf(ctl))
      BY <1>5 DEF HReport
    <2>7. QED
      BY <2>5, <2>6 DEF AnyNext
  <1>6. CASE accepted /\ ctl.op = "prefer" /\ Prefer(PreferOf(ctl))
    <2>1. /\ SlotOf(ctl) \in Slots /\ ctl.ip = AddressFor(ctl)[SlotOf(ctl)]
          /\ AddressFor(ctl)[SlotOf(ctl)] # ""
      BY <1>6, AcceptedIdentity
    <2>2. ctl.ip = publicIP[SlotOf(ctl)]
      BY <1>6, <2>1 DEF AddressFor
    <2>3. ctl.ip \in IPs \cup {NoIP}
      BY <2>1, <2>2 DEF HealthTypeOK
    <2>4. ctl.slot # ""
      BY <1>1, <1>6, Zenon DEF ControlVerdict, Decodes
    <2>5. ctl.slot \in Slots
      BY <2>1, <2>4 DEF SlotOf
    <2>6. PreferOf(ctl) \in PreferType
      BY <1>4, <1>6, <2>3, <2>5 DEF PreferOf, PreferType
    <2>7. QED
      BY <1>6, <2>6 DEF AnyNext, Calm
  <1>7. QED
    BY <1>2, <1>3, <1>5, <1>6 DEF ControlHandle

\* A new process begins, or its pool goes on by itself, hears from the control API or is
\* saved.
LEMMA ServiceKinds ==
    ASSUME HealthTypeOK, HandlersOK, [ServiceNext]_svars
    PROVE  \/ Forget \/ Boot
           \/ /\ [AnyNext]_vars
              /\ \/ promised' = promised /\ (life = "saved" => UNCHANGED file)
                 \/ ControlHandle \/ SaveInventory
  <1>1. CASE Exit \/ Crash
    BY <1>1 DEF Exit, Crash
  <1>2. CASE \/ life # "down" /\ Working /\ UNCHANGED <<promised, serviceVars>>
             \/ life = "up" /\ Housekeep /\ UNCHANGED <<promised, serviceVars>>
             \/ ClosePool \/ TimePasses
    <2>1. Working \/ Housekeep \/ Close \/ Tick
      BY <1>2 DEF ClosePool, TimePasses
    <2>2. [AnyNext]_vars
      BY <2>1 DEF AnyNext, Calm, Serve, Working
    <2>3. UNCHANGED <<promised, serviceVars>>
      BY <1>2 DEF ClosePool, TimePasses
    <2>4. QED
      BY <2>2, <2>3 DEF serviceVars
  <1>3. CASE (\E rq \in ControlRequests : ControlAccept(rq)) \/ Stop \/ ControlShutdown
             \/ UNCHANGED svars
    BY <1>3 DEF ControlAccept, Stop, ControlShutdown, svars, hvars, serviceVars
  <1>4. CASE ControlHandle
    BY <1>4, HandledCall
  <1>5. CASE SaveInventory
    <2>1. Expires
      BY <1>5 DEF SaveInventory, Expires
    <2>2. QED
      BY <1>5, <2>1 DEF AnyNext, Calm
  <1>6. QED
    BY <1>1, <1>2, <1>3, <1>4, <1>5 DEF ServiceNext

-----------------------------------------------------------------------------
(* Feedback, the inventory and restarts keep the record.                   *)

LEMMA HandledRecord ==
    ASSUME RecordInv, HandlersOK, ControlHandle
    PROVE  RecordInv'
  <1>1. CASE ctl.op = "report" /\ HReport(ReportOf(ctl))
    <2>1. Duration(ctl) \in Int
      BY <1>1, AdmittedDuration DEF ControlHandle, HandlersOK
    <2>2. ReportOf(ctl).cooldown = Duration(ctl)
      BY DEF ReportOf
    <2>3. QED
      BY <1>1, <2>1, <2>2, ComplaintRecorded
  <1>2. ASSUME NEW in, Prefer(in) \/ Rotate(in), UNCHANGED promised
        PROVE  RecordInv'
    <2>1. UNCHANGED <<now, ipCooldowns, publicIP>>
      BY <1>2 DEF Prefer, Rotate, healthVars, ipVars
    <2>2. QED
      BY <1>2, <2>1 DEF RecordInv, RecordTypes, PromiseTypeOK, OnRecord
  <1>3. CASE UNCHANGED hvars
    BY <1>3 DEF hvars, vars, ipVars, healthVars, RecordInv, RecordTypes, PromiseTypeOK, OnRecord
  <1>4. QED
    BY <1>1, <1>2, <1>3 DEF ControlHandle

\* Expiry and the snapshot are one critical section: what is in force stays on record
\* and goes into the file.
LEMMA SavedRecord ==
    ASSUME RecordInv, SaveInventory
    PROVE  /\ RecordInv'
           /\ \A t \in Targets : \A ip \in IPs : now < promised[t][ip] =>
                LiveIPCooldowns[t][ip] # 0 /\ promised[t][ip] <= LiveIPCooldowns[t][ip]
  <1>1. /\ now' = now /\ promised' = promised /\ publicIP' = publicIP
        /\ ipCooldowns' = LiveIPCooldowns
    BY DEF SaveInventory, ExpireCooldowns, ipVars
  <1>2. LiveIPCooldowns \in [Targets -> [IPs -> Nat]]
    BY DEF LiveIPCooldowns, RecordInv, RecordTypes
  <1>3. ASSUME NEW t \in Targets, NEW ip \in IPs, now < promised[t][ip]
        PROVE  LiveIPCooldowns[t][ip] # 0 /\ promised[t][ip] <= LiveIPCooldowns[t][ip]
    <2>1. /\ now \in Nat /\ promised[t][ip] \in Nat /\ ipCooldowns[t][ip] \in Nat
          /\ promised[t][ip] <= ipCooldowns[t][ip]
      BY <1>3 DEF RecordInv, RecordTypes, PromiseTypeOK, OnRecord
    <2>2. LiveIPCooldowns[t][ip] = ipCooldowns[t][ip]
      BY <1>3, <2>1 DEF LiveIPCooldowns
    <2>3. QED
      BY <1>3, <2>1, <2>2
  <1>4. RecordTypes'
    BY <1>1, <1>2 DEF RecordInv, RecordTypes, PromiseTypeOK
  <1>5. OnRecord'
    BY <1>1, <1>3 DEF OnRecord
  <1>6. QED
    BY <1>3, <1>4, <1>5 DEF RecordInv

\* One member after another is remembered.
Grows(f, kept, k) ==
    f[k] = remember(f[k - 1], kept[k].slotID, kept[k].publicIP, kept[k].expiresAt,
                    opts.PreferredMax)
Prefix(f, kept, m) ==
    /\ f = [k \in 0 .. m |-> f[k]]
    /\ f[0] = <<>> /\ \A k \in 1 .. m : Grows(f, kept, k)

\* RememberedAgain is a function defined by recursion: that there is one is shown by the
\* smallest counterexample.
LEMMA PrefixesExist ==
    ASSUME NEW kept, NEW n \in Nat
    PROVE  \A m \in 0 .. n : \E f : Prefix(f, kept, m)
  <1> DEFINE T == {m \in 0 .. n : ~ \E f : Prefix(f, kept, m)}
  <1>1. SUFFICES ASSUME T # {} PROVE FALSE
    OBVIOUS
  <1>2. T \subseteq Nat
    OBVIOUS
  <1>3. PICK m \in T : \A y \in T : m <= y
    BY <1>1, <1>2, Smallest
  <1>4. m # 0
    <2>1. Prefix([k \in 0 .. 0 |-> <<>>], kept, 0)
      BY DEF Prefix
    <2>2. QED
      BY <1>3, <2>1
  <1>5. m \in 1 .. n /\ m - 1 \in 0 .. n /\ m - 1 \notin T
    BY <1>3, <1>4
  <1>6. PICK f : Prefix(f, kept, m - 1)
    BY <1>5
  <1> DEFINE r == remember(f[m - 1], kept[m].slotID, kept[m].publicIP, kept[m].expiresAt,
                           opts.PreferredMax)
             g == [k \in 0 .. m |-> IF k = m THEN r ELSE f[k]]
  <1>7. /\ g[0] = f[0] /\ g[m] = r
        /\ \A k \in 0 .. m - 1 : g[k] = f[k]
        /\ g = [k \in 0 .. m |-> g[k]]
    <2> HIDE DEF r
    <2>1. QED
      BY <1>5
  <1>8. Grows(g, kept, m)
    <2>1. g[m - 1] = f[m - 1]
      BY <1>5, <1>7
    <2>2. g[m] = r
      BY <1>7
    <2> HIDE DEF g
    <2>3. QED
      BY <2>1, <2>2 DEF Grows
  <1> HIDE DEF g, r
  <1>9. ASSUME NEW k \in 1 .. m PROVE Grows(g, kept, k)
    <2>1. CASE k = m
      BY <1>8, <2>1
    <2>2. CASE k # m
      <3>1. k \in 1 .. m - 1 /\ k \in 0 .. m - 1 /\ k - 1 \in 0 .. m - 1
        BY <1>5, <2>2
      <3>2. Grows(f, kept, k) /\ g[k] = f[k] /\ g[k - 1] = f[k - 1]
        BY <1>6, <1>7, <3>1 DEF Prefix
      <3>3. QED
        BY <3>2 DEF Grows
    <2>3. QED
      BY <2>1, <2>2
  <1>10. Prefix(g, kept, m)
    BY <1>6, <1>7, <1>9 DEF Prefix
  <1>11. QED
    BY <1>3, <1>10

LEMMA AgainRule ==
    ASSUME NEW kept, Len(kept) \in Nat
    PROVE  Prefix(RememberedAgain(kept), kept, Len(kept))
  <1> DEFINE n == Len(kept)
             F(f) == [k \in 0 .. n |-> IF k = 0 THEN <<>>
                        ELSE remember(f[k - 1], kept[k].slotID, kept[k].publicIP,
                                      kept[k].expiresAt, opts.PreferredMax)]
             ring == RememberedAgain(kept)
  <1>1. ring = CHOOSE f : f = F(f)
    BY DEF RememberedAgain
  <1>2. PICK f : Prefix(f, kept, n)
    <2>1. n \in Nat /\ n \in 0 .. n
      OBVIOUS
    <2> HIDE DEF n
    <2>2. QED
      BY <2>1, PrefixesExist
  <1>3. f = F(f)
    <2>1. \A k \in 0 .. n : k # 0 => k \in 1 .. n
      OBVIOUS
    <2>2. \A k \in 0 .. n : f[k] = F(f)[k]
      BY <1>2, <2>1 DEF Prefix, Grows
    <2>3. f = [k \in 0 .. n |-> f[k]]
      BY <1>2 DEF Prefix
    <2>4. F(f) = [k \in 0 .. n |-> F(f)[k]]
      OBVIOUS
    <2> HIDE DEF F, n
    <2>5. QED
      BY <2>2, <2>3, <2>4
  <1>4. ring = F(ring)
    <2> HIDE DEF F, ring
    <2>1. QED
      BY <1>1, <1>3
  <1>5. ring[0] = <<>> /\ \A k \in 1 .. n : Grows(ring, kept, k)
    BY <1>4 DEF Grows
  <1>6. ring = [k \in 0 .. n |-> ring[k]]
    BY <1>4
  <1>7. QED
    BY <1>5, <1>6 DEF Prefix

\* However long the ring that was saved is, what is remembered of it is a sane ring.
LEMMA AgainSane ==
    ASSUME NEW kept \in Seq(PrefType)
    PROVE  SaneRing(RememberedAgain(kept)[Len(kept)])
  <1> DEFINE n == Len(kept)
             ring == RememberedAgain(kept)
             T == {k \in 0 .. n : ~SaneRing(ring[k])}
  <1>1. n \in Nat /\ \A k \in 1 .. n : kept[k] \in PrefType
    BY LenProperties, ElementOfSeq
  <1>2. ring[0] = <<>> /\ \A k \in 1 .. n : Grows(ring, kept, k)
    BY <1>1, AgainRule DEF Prefix
  <1> HIDE DEF ring
  <1>3. SUFFICES ASSUME T # {} PROVE FALSE
    BY <1>1 DEF ring
  <1>4. T \subseteq Nat
    BY <1>1
  <1>5. PICK k \in T : \A y \in T : k <= y
    BY <1>3, <1>4, Smallest
  <1>6. SaneRing(<<>>)
    BY InputAssumption DEF SaneRing, Options
  <1>7. k # 0
    BY <1>2, <1>5, <1>6
  <1>8. k \in 1 .. n /\ k - 1 \in 0 .. n /\ k - 1 \notin T
    BY <1>1, <1>5, <1>7
  <1>9. SaneRing(ring[k - 1]) /\ kept[k] \in PrefType /\ Grows(ring, kept, k)
    BY <1>1, <1>2, <1>8
  <1>10. kept[k].slotID \in Slots /\ kept[k].publicIP \in IPs /\ kept[k].expiresAt \in Nat
    BY <1>9 DEF PrefType
  <1>11. SaneRing(ring[k])
    BY <1>9, <1>10, RememberRing DEF Grows
  <1>12. QED
    BY <1>5, <1>11

\* What LoadInventory restores is well-formed.
LEMMA LoadedHealth ==
    ASSUME FileOK, file # NoFile
    PROVE  /\ LoadedPreferred \in [Targets -> Seq(PrefType)]
           /\ \A t \in Targets : SaneRing(LoadedPreferred[t])
           /\ LoadedCooldowns \in [Targets -> [IPs -> Nat]]
  <1>1. ASSUME NEW t \in Targets
        PROVE  SaneRing(RememberedAgain(StillValid(t))[Len(StillValid(t))])
    <2> DEFINE ring == file.preferred[t]
               I == {i \in DOMAIN ring : /\ now < ring[i].expiresAt
                                         /\ file.slots[ring[i].slotID] = ring[i].publicIP}
    <2>1. SaneRing(ring) /\ I \subseteq DOMAIN ring /\ StillValid(t) = Sift(ring, I)
      BY DEF FileOK, StillValid
    <2> HIDE DEF ring, I
    <2>2. SaneRing(StillValid(t))
      BY <2>1, SiftRing
    <2>3. QED
      BY <2>2, AgainSane DEF SaneRing
  <1>2. \A t \in Targets :
          LoadedPreferred[t] = RememberedAgain(StillValid(t))[Len(StillValid(t))]
    BY DEF LoadedPreferred
  <1>3. \A t \in Targets : SaneRing(LoadedPreferred[t])
    BY <1>1, <1>2
  <1>4. LoadedPreferred \in [Targets -> Seq(PrefType)]
    <2>1. \A t \in Targets : LoadedPreferred[t] \in Seq(PrefType)
      BY <1>3 DEF SaneRing
    <2>2. LoadedPreferred = [t \in Targets |-> LoadedPreferred[t]]
      BY DEF LoadedPreferred
    <2> HIDE DEF LoadedPreferred
    <2>3. QED
      BY <2>1, <2>2
  <1>5. LoadedCooldowns \in [Targets -> [IPs -> Nat]]
    BY DEF FileOK, LoadedCooldowns
  <1>6. QED
    BY <1>3, <1>4, <1>5

\* What is promised after a restart is what LoadInventory restores.
LEMMA LoadedRecord ==
    ASSUME RecordInv, FileOK, Boot
    PROVE  RecordInv'
  <1>1. now' = now /\ now \in Nat
    BY DEF Boot, RecordInv, RecordTypes
  <1>2. CASE UNCHANGED <<ipVars, preferred, ipCooldowns, promised>>
    BY <1>1, <1>2 DEF ipVars, RecordInv, RecordTypes, PromiseTypeOK, OnRecord
  <1>3. CASE file # NoFile /\ publicIP' = file.slots /\ ipCooldowns' = LoadedCooldowns
             /\ promised' = StillPromised
    <2>1. /\ file.slots \in [Slots -> IPs \cup {NoIP}]
          /\ file.cooldowns \in [Targets -> [IPs -> Nat]]
      BY <1>3 DEF FileOK
    <2>2. LoadedCooldowns \in [Targets -> [IPs -> Nat]]
      BY <2>1 DEF LoadedCooldowns
    <2>3. StillPromised \in [Targets -> [IPs -> Nat]]
      BY <2>1 DEF StillPromised
    <2>4. ASSUME NEW t \in Targets, NEW ip \in IPs, now < StillPromised[t][ip]
          PROVE  StillPromised[t][ip] <= LoadedCooldowns[t][ip]
      <3>1. file.cooldowns[t][ip] \in Nat
        BY <2>1
      <3>2. StillPromised[t][ip] = IF \E s \in Slots : file.slots[s] = ip
                                   THEN file.cooldowns[t][ip] ELSE 0
        BY DEF StillPromised
      <3>3. \E s \in Slots : file.slots[s] = ip
        BY <1>1, <2>4, <3>2
      <3>4. StillPromised[t][ip] = file.cooldowns[t][ip]
        BY <3>2, <3>3
      <3>5. LoadedCooldowns[t][ip] = file.cooldowns[t][ip]
        BY <2>4, <3>3, <3>4 DEF LoadedCooldowns
      <3>6. QED
        BY <3>1, <3>4, <3>5
    <2>5. QED
      BY <1>1, <1>3, <2>1, <2>2, <2>3, <2>4 DEF RecordInv, RecordTypes, PromiseTypeOK, OnRecord
  <1>4. QED
    BY <1>2, <1>3 DEF Boot

\* Nothing is on record, and nothing promised, once everything is forgotten.
LEMMA ForgottenRecord ==
    ASSUME RecordInv, Forget
    PROVE  RecordInv'
  BY DEF Forget, Nothing, RecordInv, RecordTypes, PromiseTypeOK, OnRecord

LEMMA ServiceRecord ==
    ASSUME RecordInv, HealthTypeOK, FileOK, HandlersOK, [ServiceNext]_svars
    PROVE  RecordInv'
  BY RecordKept, HandledRecord, SavedRecord, LoadedRecord, ForgottenRecord, ServiceKinds

\* The file is written by SaveInventory only.
LEMMA ServiceFile ==
    ASSUME HealthTypeOK, Rings, now \in Nat, FileOK, [ServiceNext]_svars
    PROVE  FileOK'
  <1>1. CASE UNCHANGED file
    BY <1>1 DEF FileOK
  <1>2. CASE SaveInventory
    <2>1. CASE file' = [slots |-> Saved, checkedAt |-> ipCheckedAt,
                        preferred |-> LivePreferred, cooldowns |-> LiveIPCooldowns]
      <3>1. Saved \in [Slots -> IPs \cup {NoIP}] /\ ipCheckedAt \in [Slots -> Nat]
        BY DEF Saved, HealthTypeOK
      <3>2. /\ LiveIPCooldowns \in [Targets -> [IPs -> Nat]]
            /\ \A t \in Targets : SaneRing(LivePreferred[t])
        BY ExpiryHealth
      <3>3. /\ file'.slots = Saved /\ file'.cooldowns = LiveIPCooldowns
            /\ file'.checkedAt = ipCheckedAt /\ file'.preferred = LivePreferred
        BY <2>1
      <3>4. QED
        BY <3>1, <3>2, <3>3 DEF FileOK
    <2>2. QED
      BY <1>1, <1>2, <2>1 DEF SaveInventory
  <1>3. QED
    BY <1>1, <1>2 DEF ServiceNext, svars, serviceVars, ControlAccept, ControlHandle, Stop,
       ControlShutdown, ClosePool, Exit, Crash, Forget, TimePasses, Boot

LEMMA ServiceHandlers ==
    ASSUME HandlersOK, [ServiceNext]_svars
    PROVE  HandlersOK'
  <1>1. CASE UNCHANGED serviceVars
    BY <1>1 DEF HandlersOK, serviceVars
  <1>2. ASSUME NEW rq \in ControlRequests, ControlAccept(rq)
        PROVE  HandlersOK'
    BY <1>2 DEF HandlersOK, ControlAccept
  <1>3. CASE ControlHandle
    BY <1>3 DEF HandlersOK, ControlHandle
  <1>4. CASE Stop
    BY <1>4 DEF HandlersOK, Stop
  <1>5. CASE ControlShutdown
    BY <1>5 DEF HandlersOK, ControlShutdown
  <1>6. CASE SaveInventory
    BY <1>6 DEF HandlersOK, SaveInventory, Waited
  <1>7. CASE Exit \/ Crash
    BY <1>7 DEF HandlersOK, Exit, Crash, Forget
  <1>8. CASE Boot
    BY <1>8 DEF HandlersOK, Boot
  <1>9. QED
    BY <1>1, <1>2, <1>3, <1>4, <1>5, <1>6, <1>7, <1>8 DEF ServiceNext, svars, ClosePool, TimePasses

-----------------------------------------------------------------------------
(* One pool after the other.                                               *)

\* Nothing has been forgotten before it is new.
LEMMA FreshSound == Fresh => BatchInv /\ Exclusive /\ Apart /\ ClosedIsQuiet
  BY BatchBlank DEF Fresh, Blank, Exclusive, ServedStays, Apart, ClosedIsQuiet

LEMMA FreshNext == Fresh' => BatchInv' /\ Exclusive' /\ Apart' /\ ClosedIsQuiet'
  BY FreshSound, PTL

\* The memory that is left behind is a new pool's ...
LEMMA ForgottenFresh ==
    ASSUME now \in Nat, Forget
    PROVE  Fresh'
  <1>1. Blank' /\ (now \in Nat)'
    BY DEF Forget, Blank
  <1>2. HealthTypeOK'
    BY DEF Forget, Nothing, HealthTypeOK
  <1>3. Rings'
    BY InputAssumption DEF Forget, Rings, SaneRing, Options
  <1>4. QED
    BY <1>1, <1>2, <1>3 DEF Fresh

\* ... and so is the one the next process makes of the catalog and the inventory.
LEMMA BootedFresh ==
    ASSUME ServiceInv, Boot
    PROVE  Fresh'
  <1>1. Blank
    BY DEF ServiceInv, Boot
  <1>2. Blank' /\ now' = now /\ cooldowns' = cooldowns
    BY <1>1 DEF Boot, Blank, callVars, leaseVars, sessionVars, batchVars, failVars, tunnelVars,
       budgetVars
  <1>3. HealthTypeOK /\ Rings /\ now \in Nat /\ FileOK
    BY DEF ServiceInv, BatchInv, RecordInv, RecordTypes
  <1>4. CASE UNCHANGED <<ipVars, preferred, ipCooldowns, promised>>
    BY <1>2, <1>3, <1>4 DEF Fresh, HealthTypeOK, Rings, ipVars
  <1>5. CASE /\ file # NoFile
             /\ publicIP' = file.slots
             /\ ipCheckedAt' = [s \in Slots |-> IF file.slots[s] = NoIP THEN 0
                                                ELSE file.checkedAt[s]]
             /\ preferred' = LoadedPreferred
             /\ ipCooldowns' = LoadedCooldowns
    <2>1. publicIP' \in [Slots -> IPs \cup {NoIP}] /\ ipCheckedAt' \in [Slots -> Nat]
      BY <1>3, <1>5 DEF FileOK
    <2>2. HealthTypeOK'
      BY <1>2, <1>3, <1>5, <2>1, LoadedHealth DEF HealthTypeOK
    <2>3. Rings'
      BY <1>3, <1>5, LoadedHealth DEF Rings
    <2>4. QED
      BY <1>2, <1>3, <2>2, <2>3 DEF Fresh
  <1>6. QED
    BY <1>4, <1>5 DEF Boot

\* Between two pools the pool at hand goes on as its own module says.
LEMMA PoolLife ==
    ASSUME ServiceInv, [ServiceNext]_svars
    PROVE  Fresh' \/ [AnyNext]_vars
  BY ServiceKinds, ForgottenFresh, BootedFresh
     DEF ServiceInv, BatchInv, RecordInv, RecordTypes

\* While the process is down there is nothing in its memory.
LEMMA DownBlank ==
    ASSUME ServiceInv, [ServiceNext]_svars, life' = "down"
    PROVE  Blank'
  <1>1. CASE Forget
    BY <1>1, ForgottenFresh DEF ServiceInv, RecordInv, RecordTypes, Fresh
  <1>2. CASE TimePasses \/ UNCHANGED svars
    <2>1. Blank
      BY <1>2 DEF ServiceInv, TimePasses, svars, serviceVars
    <2>2. QED
      BY <1>2, <2>1 DEF TimePasses, Tick, svars, hvars, vars, Blank, callVars, leaseVars,
         sessionVars, batchVars, healthVars, failVars, ipVars, tunnelVars, budgetVars
  <1>3. QED
    BY <1>1, <1>2 DEF ServiceNext, ControlAccept, ControlHandle, Stop, ControlShutdown,
       SaveInventory, Waited, ClosePool, Exit, Crash, Boot, serviceVars

LEMMA ServiceStart == ServiceInit => ServiceInv
  <1> SUFFICES ASSUME ServiceInit PROVE ServiceInv
    OBVIOUS
  <1>1. BatchInv /\ RecordInv
    BY HistoryInit, BatchInit DEF ServiceInit, HInit
  <1>2. QED
    BY <1>1 DEF ServiceInit, ServiceInv, FileOK, HandlersOK

LEMMA ServiceStep == ServiceInv /\ [ServiceNext]_svars => ServiceInv'
  <1> SUFFICES ASSUME ServiceInv, [ServiceNext]_svars PROVE ServiceInv'
    OBVIOUS
  <1>1. /\ BatchInv /\ HealthTypeOK /\ Rings /\ RecordInv /\ now \in Nat /\ FileOK
        /\ HandlersOK
    BY DEF ServiceInv, BatchInv, RecordInv, RecordTypes
  <1>2. BatchInv'
    BY <1>1, PoolLife, FreshNext, BatchNext
  <1>3. RecordInv' /\ FileOK' /\ HandlersOK'
    BY <1>1, ServiceRecord, ServiceFile, ServiceHandlers
  <1>4. QED
    BY <1>2, <1>3, DownBlank DEF ServiceInv

-----------------------------------------------------------------------------
(* The theorems.                                                           *)

\* The connection counters still count the connections when the process has been
\* killed and started again, whatever its inventory holds.
THEOREM LeasesCountedAgain == ServiceSpec => []LeaseAccounting
  <1>1. ServiceInv => LeaseAccounting
    BY DEF ServiceInv, BatchInv, SessionInv, TunnelInv, LeaseInv
  <1>2. QED
    BY <1>1, ServiceStart, ServiceStep, PTL DEF ServiceSpec

\* A complaint in force holds through shutdown, the inventory and restarts: no request
\* is given an exit whose address is promised to be kept from its scope.
THEOREM CooldownsHeldAgain == ServiceSpec => CooldownHolds
  <1>1. ServiceInv /\ [ServiceNext]_svars => [Heeded]_hvars
    <2> SUFFICES ASSUME ServiceInv, [ServiceNext]_svars PROVE Heeded
      OBVIOUS
    <2>1. TypeInv /\ RecordInv
      BY DEF ServiceInv, BatchInv, SessionInv, TunnelInv, LeaseInv
    <2>2. CASE Fresh'
      BY <2>2, WorkersApart DEF Fresh, Blank, Heeded
    <2>3. QED
      BY <2>1, <2>2, PicksHeed, PoolLife
  <1>2. [][Heeded]_hvars => CooldownHolds
    BY PTL DEF CooldownHolds, Heeded
  <1>3. QED
    BY <1>1, <1>2, ServiceStart, ServiceStep, PTL DEF ServiceSpec

\* After Close has returned no IP check is at work, also when feedback or a kill comes
\* between the steps of the shutdown.
THEOREM CloseSilencesAgain == ServiceSpec => []ClosedIsQuiet
  <1>1. ServiceInit => ClosedIsQuiet
    BY DEF ServiceInit, HInit, Init, ClosedIsQuiet
  <1>2. ASSUME ServiceInv, ClosedIsQuiet, [ServiceNext]_svars
        PROVE  ClosedIsQuiet'
    <2>1. TypeInv
      BY <1>2 DEF ServiceInv, BatchInv, SessionInv, TunnelInv, LeaseInv
    <2>2. QED
      BY <1>2, <2>1, PoolLife, FreshNext, QuietNext
  <1>3. QED
    BY <1>1, <1>2, ServiceStart, ServiceStep, PTL DEF ServiceSpec

LEMMA SavedNext ==
    ASSUME ServiceInv, AcceptedIsSaved, [ServiceNext]_svars
    PROVE  AcceptedIsSaved'
  <1> SUFFICES ASSUME life' = "saved", ctlDown' # "timeout",
                      NEW t \in Targets, NEW ip \in IPs, now' < promised'[t][ip]
               PROVE  file' # NoFile /\ file'.cooldowns[t][ip] >= promised'[t][ip]
    BY DEF AcceptedIsSaved
  <1>1. /\ now \in Nat /\ promised \in [Targets -> [IPs -> Nat]]
        /\ HandlersOK /\ FileOK /\ RecordInv /\ HealthTypeOK
    BY DEF ServiceInv, BatchInv, RecordInv, RecordTypes, PromiseTypeOK
  <1>2. ~Forget /\ ~Boot
    BY DEF Forget, Boot
  <1>3. CASE SaveInventory
    <2>1. now' = now /\ promised' = promised
      BY <1>3 DEF SaveInventory
    <2>2. LiveIPCooldowns[t][ip] # 0 /\ promised[t][ip] <= LiveIPCooldowns[t][ip]
      BY <1>1, <1>3, <2>1, SavedRecord
    <2>3. file' = [slots |-> Saved, checkedAt |-> ipCheckedAt,
                   preferred |-> LivePreferred, cooldowns |-> LiveIPCooldowns]
      BY <1>3, <2>2 DEF SaveInventory
    <2>4. file' # NoFile /\ file'.cooldowns = LiveIPCooldowns
      BY <2>3 DEF NoFile
    <2>5. LiveIPCooldowns[t][ip] \in Nat /\ promised[t][ip] \in Nat
      BY <1>1 DEF LiveIPCooldowns, RecordInv, RecordTypes
    <2>6. QED
      BY <2>1, <2>2, <2>4, <2>5
  <1>4. CASE ~SaveInventory
    <2>1. life = "saved"
      BY <1>2, <1>4 DEF ServiceNext, svars, serviceVars, ControlAccept, ControlHandle, Stop,
         ControlShutdown, ClosePool, Exit, Crash, TimePasses
    <2>2. ctlDown = ctlDown' /\ ctl = NoRequest
      BY <1>1, <1>2, <1>4, <2>1 DEF HandlersOK, ServiceNext, svars, serviceVars, ControlAccept,
         ControlHandle, Stop, ControlShutdown, ClosePool, Exit, Crash, TimePasses
    <2>3. [AnyNext]_vars /\ promised' = promised /\ UNCHANGED file
      BY <1>1, <1>2, <1>4, <2>1, <2>2, ServiceKinds DEF ControlHandle
    <2>4. now <= now' /\ now' \in Nat
      BY <1>1, <2>3, ClockForward
    <2>5. promised[t][ip] \in Nat
      BY <1>1
    <2>6. now < promised[t][ip]
      BY <1>1, <2>3, <2>4, <2>5
    <2>7. QED
      BY <2>1, <2>2, <2>3, <2>6 DEF AcceptedIsSaved
  <1>5. QED
    BY <1>3, <1>4

\* A complaint the API has accepted is in the inventory that is saved: SaveInventory
\* runs when the control server has been drained, and expires nothing that is in force.
THEOREM ComplaintsSaved == ServiceSpec => []AcceptedIsSaved
  <1>1. ServiceInit => AcceptedIsSaved
    BY DEF ServiceInit, AcceptedIsSaved
  <1>2. QED
    BY <1>1, SavedNext, ServiceStart, ServiceStep, PTL DEF ServiceSpec

\* In every process the caps on connections hold, and pendingSessions counts the requests
\* that have reserved a name: none survives from the process before.
THEOREM ConnectionsBoundedAgain == ServiceSpec => [](ConnLimits /\ SessionAccounting)
  <1>1. ServiceInv => ConnLimits /\ SessionAccounting
    BY LeaseInvLimits DEF ServiceInv, BatchInv, SessionInv, TunnelInv
  <1>2. QED
    BY <1>1, ServiceStart, ServiceStep, PTL DEF ServiceSpec

\* Every variable of the pool keeps its type in every process: no feedback the control API
\* lets through and no inventory, whenever it was saved, puts anything else into it.
THEOREM AllTypesAgain == ServiceSpec => []TypeOK
  <1>1. ServiceInv => TypeOK
    BY DEF ServiceInv, BatchInv, AllSound, SessionInv, TunnelInv, LeaseInv, TypeInv, TypeOK
  <1>2. QED
    BY <1>1, ServiceStart, ServiceStep, PTL DEF ServiceSpec

\* A killed process leaves nothing half open to the next: in each of them a tunnel is
\* opened by one goroutine at a time, and tunnels and relay contacts stay within
\* max_active and new_tunnel_budget.
THEOREM TunnelsBoundedAgain == ServiceSpec => [](SingleOpener /\ ActiveLimit /\ BudgetLimit)
  <1>1. ServiceInv => SingleOpener /\ ActiveLimit /\ BudgetLimit
    BY DEF ServiceInv, BatchInv, SessionInv, TunnelInv, TunnelCounts, TunnelCaps, ActiveLimit,
       BudgetLimit, ProbesUp, Promisers, Promised
  <1>2. QED
    BY <1>1, ServiceStart, ServiceStep, PTL DEF ServiceSpec

\* Rings of last-good exits stay within preferred_max and hold an address once, also those
\* that LoadInventory builds of the members of the saved ones that are still valid.
THEOREM RingsSaneAgain == ServiceSpec => []RingSane
  <1>1. ServiceInv => RingSane
    BY DEF ServiceInv, BatchInv, Rings, SaneRing, RingSane
  <1>2. QED
    BY <1>1, ServiceStart, ServiceStep, PTL DEF ServiceSpec

\* Feedback that comes during shutdown, the expiry in SaveInventory and restarts leave the
\* batches bounded and their two views of the addresses in agreement.
THEOREM BatchesSoundAgain == ServiceSpec => [](BatchConsistent /\ BatchLimit)
  <1>1. ServiceInv => BatchConsistent /\ BatchLimit
    BY DEF ServiceInv, BatchInv, AllSound, Sound, SaneBatch, Once, BatchConsistent
  <1>2. QED
    BY <1>1, ServiceStart, ServiceStep, PTL DEF ServiceSpec

\* Short of the death of the process, a tunnel that carries leases or is promised, and an
\* entry's tunnel, is closed only after its owner has failed, by Close, or, when nothing is
\* leased on it, by the idle sweep.
THEOREM UsedTunnelsKeptAgain ==
    ServiceSpec => [][Forget \/ \A h \in Holders :
                        /\ tunnel[h] = "open" /\ tunnel'[h] # "open"
                        /\ h \in Entries \/ exitLoad(h) > 0
                        => \/ now < disabledUntil'[h] \/ closing' = "waiting"
                           \/ h \in Slots /\ OutOfUse(h)]_svars
  <1> DEFINE Kept == \A h \in Holders :
                       /\ tunnel[h] = "open" /\ tunnel'[h] # "open"
                       /\ h \in Entries \/ exitLoad(h) > 0
                       => \/ now < disabledUntil'[h] \/ closing' = "waiting"
                          \/ h \in Slots /\ OutOfUse(h)
  <1>1. ASSUME ServiceInv, [ServiceNext]_svars
        PROVE  [Forget \/ Kept]_svars
    <2>1. TunnelInv /\ HealthTypeOK /\ HandlersOK
      BY <1>1 DEF ServiceInv, BatchInv, SessionInv
    <2>2. CASE Boot
      BY <2>2 DEF Boot, tunnelVars
    <2>3. CASE [AnyNext]_vars
      BY <2>1, <2>3, MoveKeepsUsed
    <2>4. QED
      BY <1>1, <2>1, <2>2, <2>3, ServiceKinds
  <1>2. QED
    BY <1>1, ServiceStart, ServiceStep, PTL DEF ServiceSpec

\* Between two deaths of the process, and through feedback, shutdown and restart, callers
\* of the pool see the allocator of module LeaseAllocator, which module Proxy is written
\* on; a process that dies takes all its connections with it.
THEOREM PoolAllocatesAgain ==
    ServiceSpec => /\ Alloc!AllocInit
                   /\ [][Forget \/ [Alloc!AllocNext]_<<phaseBar, exitBar>>]_svars
  <1>1. ServiceInit => Alloc!AllocInit
    BY InitRefines DEF ServiceInit, HInit
  <1>2. ASSUME ServiceInv, [ServiceNext]_svars
        PROVE  [Forget \/ [Alloc!AllocNext]_<<phaseBar, exitBar>>]_svars
    <2>1. LeaseInv /\ HealthTypeOK /\ HandlersOK
      BY <1>2 DEF ServiceInv, BatchInv, SessionInv, TunnelInv
    <2>2. CASE Boot
      BY <2>2 DEF Boot, phaseBar, exitBar
    <2>3. CASE [AnyNext]_vars
      BY <2>1, <2>3, StepRefines
    <2>4. QED
      BY <1>2, <2>1, <2>2, <2>3, ServiceKinds
  <1>3. QED
    BY <1>1, <1>2, ServiceStart, ServiceStep, PTL DEF ServiceSpec

LEMMA ServiceApart ==
    ASSUME ServiceInv, ApartInv, [ServiceNext]_svars,
           [SparesServing /\ PicksProperly /\ AddressesHold]_svars
    PROVE  ApartInv'
  <1>1. CASE Fresh'
    BY <1>1, FreshNext DEF ApartInv, HeldInv
  <1>2. CASE [AnyNext]_vars
    <2>1. BatchInv /\ [SparesServing /\ PicksProperly]_vars
      BY DEF ServiceInv, svars, hvars
    <2>2. GentleMove
      BY <1>2, <2>1, GentleStep
    <2>3. AddressesHold
      BY DEF AddressesHold, svars, hvars, vars, ipVars
    <2>4. QED
      BY <1>2, <2>2, <2>3, ApartStep
  <1>3. QED
    BY <1>1, <1>2, PoolLife

\* The guarantee of a unique batch for the service: as long as nobody complains about an
\* exit in use, no exit is recycled and no exit in use changes its address, no two
\* requests of a batch are on the same exit or behind the same public address, in the
\* process that was started first and in every one after it.
THEOREM ExitsUniqueAgain ==
    ServiceSpec /\ [][SparesServing /\ PicksProperly /\ AddressesHold]_svars => []UniqueExits
  <1>1. ServiceInit => ApartInv
    BY ApartInit DEF ServiceInit, HInit
  <1>2. QED
    BY <1>1, ServiceStart, ServiceStep, ServiceApart, ApartUnique, PTL DEF ServiceSpec

\* What a live batch has given out stays consumed under the same hypotheses but the last,
\* whatever shutdown, SaveInventory and restarts do.
THEOREM ConsumptionKeptAgain ==
    ServiceSpec /\ [][SparesServing /\ PicksProperly]_svars => []ConsumedStays
  <1>1. ServiceInit => HeldInv
    BY HeldInit DEF ServiceInit, HInit
  <1>2. ASSUME ServiceInv, HeldInv, [ServiceNext]_svars, [SparesServing /\ PicksProperly]_svars
        PROVE  HeldInv'
    <2>1. CASE Fresh'
      BY <2>1, FreshNext DEF HeldInv
    <2>2. CASE [AnyNext]_vars
      <3>1. BatchInv /\ [SparesServing /\ PicksProperly]_vars
        BY <1>2 DEF ServiceInv, svars, hvars
      <3>2. QED
        BY <1>2, <2>2, <3>1, GentleStep, HeldStep
    <2>3. QED
      BY <1>2, <2>1, <2>2, PoolLife
  <1>3. QED
    BY <1>1, <1>2, HeldConsumed, ServiceStart, ServiceStep, PTL DEF ServiceSpec
=============================================================================
