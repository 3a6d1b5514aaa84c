-------------------------- MODULE PoolBatchProofs --------------------------
(***************************************************************************)
(* Theorems about unique batches and about health in module Pool, for any  *)
(* catalog, any options and any number of requests.  The types of all      *)
(* variables (TypeOK), the rings of last-good exits (RingSane), and of the *)
(* batches their two views (BatchConsistent), their number (BatchLimit)    *)
(* and that measurements reach them hold of every behaviour.  That what a  *)
(* batch gives out stays consumed (ConsumedStays) and is given out once    *)
(* (UniqueExits) needs the hypotheses named below: a complaint and a       *)
(* recycled exit take those promises back on purpose.                      *)
(***************************************************************************)
EXTENDS PoolSessionProofs, PoolDataProofs

\* The critical sections that write batches, health or addresses.
CalmWriter ==
    \/ \E r \in Requests : \/ PickNothing(r) \/ PickSlot(r) \/ CommitAcquisition(r)
                           \/ RollbackAcquisition(r) \/ Release(r)
    \/ \E s \in Slots : IPMeasured(s) \/ ProbeMeasures(s)
    \/ Housekeep \/ Expires
    \/ \E in \in PreferType : Prefer(in)
Writer == CalmWriter \/ \E in \in ReportType : Report(in)

\* Every other step leaves them alone.
LEMMA CalmWriters ==
    ASSUME [Calm]_vars
    PROVE  CalmWriter \/ UNCHANGED <<batchVars, healthVars, ipVars>>
  <1> DEFINE Aside == UNCHANGED <<batchVars, healthVars, ipVars>>
  <1>1. CASE UNCHANGED vars \/ Tick \/ DrainDone \/ CloseReturns \/ Close \/ RefreshIP
    BY <1>1 DEF vars, Tick, DrainDone, CloseReturns, Close, RefreshIP
  <1>2. ASSUME NEW p, Cancel(p) \/ Rotate(p) \/ Warmup(p) \/ Probe(p)
        PROVE  Aside
    BY <1>2 DEF Cancel, Rotate, Warmup, Probe
  <1>3. ASSUME NEW r \in Requests, Acquirer(r) \/ Holder(r)
        PROVE  CalmWriter \/ Aside
    BY <1>3 DEF Acquirer, Holder, CheckLeasedIP, NoteAcquireFailure, DropSession, DialSucceeds,
       NoteDialFailure, CalmWriter
  <1>4. ASSUME NEW r \in Requests, NEW c \in Calls, Start(r, c)
        PROVE  Aside
    BY <1>4 DEF Start
  <1>5. ASSUME NEW p \in Procs, Opener(p)
        PROVE  Aside
    BY <1>5 DEF Opener, EnsureDialer, NextEntry, EnsureOpenUp, EnsureOpenWait, EnsureOpenReserve,
       EnsureOpenRefused, WakeUp, AbortOpen, AbortOpenDone, CommitTunnelOpen, OpenSucceeds,
       OpenFails
  <1>6. ASSUME NEW h \in Holders, WarmupRuns(h) \/ WarmupDone(h)
        PROVE  Aside
    BY <1>6 DEF WarmupRuns, WarmupDone
  <1>7. ASSUME NEW s \in Slots, IPCheck(s) \/ Probing(s)
        PROVE  CalmWriter \/ Aside
    BY <1>7 DEF IPCheck, IPCheckAdmitted, IPCheckFails, Probing, ProbeRuns, ProbeReserve,
       ProbeRefused, ProbeContacts, ProbeGoesOn, ProbeReleases, ProbeFails, CalmWriter
  <1>8. CASE Serve
    BY <1>1, <1>2, <1>3, <1>4, <1>5, <1>6, <1>7, <1>8, InputAssumption
       DEF Serve, Working, CalmWriter
  <1>9. QED
    BY <1>1, <1>2, <1>8 DEF Calm, CalmWriter

LEMMA Writers ==
    ASSUME [AnyNext]_vars
    PROVE  Writer \/ UNCHANGED <<batchVars, healthVars, ipVars>>
  BY CalmWriters DEF AnyNext, Writer

-----------------------------------------------------------------------------
(* Health.                                                                 *)

Rings == \A t \in Targets : SaneRing(preferred[t])

\* Expiry leaves well-formed rings and cooldowns.
LEMMA ExpiryHealth ==
    ASSUME HealthTypeOK, Rings, now \in Nat
    PROVE  /\ \A t \in Targets : SaneRing(LivePreferred[t])
           /\ LivePreferred \in [Targets -> Seq(PrefType)]
           /\ LiveCooldowns \in [Slots -> [Targets -> Nat]]
           /\ LiveIPCooldowns \in [Targets -> [IPs -> Nat]]
  <1>1. ASSUME NEW t \in Targets
        PROVE  LivePreferred[t] = prune(preferred[t], now) /\ SaneRing(LivePreferred[t])
    <2>1. LivePreferred[t] = prune(preferred[t], now)
      BY DEF LivePreferred
    <2>2. SaneRing(prune(preferred[t], now))
      <3> DEFINE I == {i \in DOMAIN preferred[t] : now < preferred[t][i].expiresAt}
      <3>1. prune(preferred[t], now) = Sift(preferred[t], I) /\ SaneRing(preferred[t])
        BY DEF prune, Rings
      <3>2. I \subseteq DOMAIN preferred[t]
        OBVIOUS
      <3>3. QED
        BY <3>1, <3>2, SiftRing
    <2>3. QED
      BY <2>1, <2>2
  <1>2. LivePreferred \in [Targets -> Seq(PrefType)]
    <2>1. \A t \in Targets : prune(preferred[t], now) \in Seq(PrefType)
      BY <1>1 DEF SaneRing
    <2>2. QED
      BY <2>1 DEF LivePreferred
  <1>3. LiveCooldowns \in [Slots -> [Targets -> Nat]]
    <2>1. \A s \in Slots : \A t \in Targets : (IF now < cooldowns[s][t] THEN cooldowns[s][t] ELSE 0) \in Nat
      BY DEF HealthTypeOK
    <2>2. QED
      BY <2>1 DEF LiveCooldowns
  <1>4. LiveIPCooldowns \in [Targets -> [IPs -> Nat]]
    <2>1. \A t \in Targets : \A ip \in IPs :
            (IF now < ipCooldowns[t][ip] THEN ipCooldowns[t][ip] ELSE 0) \in Nat
      BY DEF HealthTypeOK
    <2>2. QED
      BY <2>1 DEF LiveIPCooldowns
  <1>5. QED
    BY <1>1, <1>2, <1>3, <1>4

\* What pickPreferredLocked leaves of the ring it looked at.
LEMMA PickedRings ==
    ASSUME HealthTypeOK, Rings, now \in Nat, NEW c \in Calls, NEW how, NEW s
    PROVE  /\ PreferredAfter(c, how, s) \in [Targets -> Seq(PrefType)]
           /\ \A t \in Targets : SaneRing(PreferredAfter(c, how, s)[t])
  <1> DEFINE P == PreferredAfter(c, how, s)
  <1>1. CASE P = LivePreferred
    BY <1>1, ExpiryHealth
  <1>2. CASE P # LivePreferred
    <2>1. c.target # NoTarget /\ c.target \in Targets
      BY <1>2, InputAssumption DEF PreferredAfter, CallType
    <2>2. SaneRing(KeptRing(c))
      <3> DEFINE ring == LivePreferred[c.target]
                 I == {i \in DOMAIN ring : /\ publicIP[ring[i].slotID] = ring[i].publicIP
                                           /\ eligibleIgnoringBatchLocked(ring[i].slotID, c)}
      <3>1. KeptRing(c) = Sift(ring, I)
        BY DEF KeptRing
      <3>2. SaneRing(ring) /\ I \subseteq DOMAIN ring
        BY <2>1, ExpiryHealth
      <3> HIDE DEF ring, I
      <3>3. QED
        BY <3>1, <3>2, SiftRing
    <2>3. PICK ring : SaneRing(ring) /\ P = [LivePreferred EXCEPT ![c.target] = ring]
      BY <1>2, <2>2, RotateRing DEF PreferredAfter
    <2> HIDE DEF P
    <2>4. ring \in Seq(PrefType)
      BY <2>3 DEF SaneRing
    <2>5. QED
      BY <2>1, <2>3, <2>4, ExpiryHealth DEF P
  <1>3. QED
    BY <1>1, <1>2

\* Measurement.
LEMMA MeasuredHealth ==
    ASSUME HealthTypeOK, now \in Nat, NEW s \in Slots, NEW ip \in ExitIPs[s],
           setPublicIPLocked(s, ip)
    PROVE  /\ ip \in IPs
           /\ publicIP' \in [Slots -> IPs \cup {NoIP}] /\ ipCheckedAt' \in [Slots -> Nat]
  <1>1. ip \in IPs
    BY InputAssumption
  <1>2. QED
    BY <1>1 DEF setPublicIPLocked, HealthTypeOK

\* A complaint about an exit.
LEMMA ComplaintHealth ==
    ASSUME TypeInv, SessionTypeOK, HealthTypeOK, Rings, now \in Nat, NEW in \in ReportType,
           Report(in)
    PROVE  HealthTypeOK' /\ Rings'
  <1> DEFINE s == IF in.slot # NoSlot THEN in.slot ELSE sessions[in.session].slotID
             t == in.target
             until == now + (IF in.cooldown > 0 THEN in.cooldown ELSE opts.Cooldown)
             ip == publicIP[s]
  <1>1. in \in ReportType
    BY InputAssumption
  <1>2. s \in Slots
    <2>1. CASE in.slot # NoSlot
      BY <1>1, <2>1 DEF ReportType
    <2>2. CASE in.slot = NoSlot
      <3>1. in.session \in Names /\ sessions[in.session] # NoSession
        BY <1>1, <2>2 DEF Report, ReportType
      <3>2. sessions[in.session] \in SessionType
        BY <3>1 DEF SessionTypeOK
      <3>3. QED
        BY <2>2, <3>2 DEF SessionType
    <2>3. QED
      BY <2>1, <2>2
  <1>3. until \in Nat
    BY <1>1, InputAssumption DEF ReportType, Options
  <1>4. UNCHANGED ipVars
    BY DEF Report
  <1>5. CASE t = NoTarget
    BY <1>4, <1>5 DEF Report, HealthTypeOK, Rings, healthVars, ipVars
  <1>6. CASE t # NoTarget
    <2>1. /\ cooldowns' = [cooldowns EXCEPT ![s][t] = until]
          /\ ipCooldowns' = setIPCooldownLocked(t, ip, until)
          /\ preferred' = [preferred EXCEPT ![t] = removeIP(@, ip)]
      BY <1>6 DEF Report
    <2> HIDE DEF s, until
    <2>2. t \in Targets
      BY <1>1, <1>6 DEF ReportType
    <2>3. cooldowns' \in [Slots -> [Targets -> Nat]]
      BY <1>2, <1>3, <2>1, <2>2 DEF HealthTypeOK
    <2>4. ipCooldowns' \in [Targets -> [IPs -> Nat]]
      <3>1. CASE ip = NoIP
        BY <2>1, <3>1 DEF setIPCooldownLocked, HealthTypeOK
      <3>2. CASE ip # NoIP
        <4>1. ip \in IPs /\ ipCooldowns[t] \in [IPs -> Nat] /\ ipCooldowns[t][ip] \in Nat
          BY <1>2, <2>2, <3>2 DEF HealthTypeOK
        <4>2. Max({ipCooldowns[t][ip], until}) \in Nat
          <5> DEFINE old == ipCooldowns[t][ip]
          <5>1. \E x \in {old, until} : \A y \in {old, until} : x >= y
            BY <1>3, <4>1
          <5>2. Max({old, until}) \in {old, until}
            BY <5>1 DEF Max
          <5>3. QED
            BY <1>3, <4>1, <5>2
        <4> HIDE DEF ip
        <4>3. ipCooldowns' = [ipCooldowns EXCEPT ![t][ip] = Max({ipCooldowns[t][ip], until})]
          BY <2>1, <3>2 DEF setIPCooldownLocked
        <4>4. QED
          BY <4>1, <4>2, <4>3 DEF HealthTypeOK
      <3>3. QED
        BY <3>1, <3>2
    <2>5. SaneRing(removeIP(preferred[t], ip))
      <3> DEFINE I == {i \in DOMAIN preferred[t] : preferred[t][i].publicIP # ip}
      <3>1. removeIP(preferred[t], ip) = Sift(preferred[t], I) /\ SaneRing(preferred[t])
        BY <2>2 DEF removeIP, Rings
      <3>2. I \subseteq DOMAIN preferred[t]
        OBVIOUS
      <3>3. QED
        BY <3>1, <3>2, SiftRing
    <2> HIDE DEF ip
    <2>6. removeIP(preferred[t], ip) \in Seq(PrefType)
      BY <2>5 DEF SaneRing
    <2>7. preferred' \in [Targets -> Seq(PrefType)] /\ Rings'
      BY <2>1, <2>2, <2>5, <2>6 DEF HealthTypeOK, Rings
    <2>8. QED
      BY <1>4, <2>3, <2>4, <2>7 DEF HealthTypeOK, ipVars
  <1>7. QED
    BY <1>5, <1>6

\* Praise of a measured exit.
LEMMA PraiseHealth ==
    ASSUME HealthTypeOK, Rings, now \in Nat, NEW in \in PreferType, Prefer(in)
    PROVE  HealthTypeOK' /\ Rings'
  <1> DEFINE until == now + (IF in.ttl > 0 THEN in.ttl ELSE opts.PreferredTTL)
             t == in.target
             ring == remember(preferred[t], in.slot, publicIP[in.slot], until, opts.PreferredMax)
  <1>1. in.slot \in Slots /\ t \in Targets /\ in.ttl \in Nat /\ opts.PreferredTTL \in Nat
    BY InputAssumption DEF PreferType, Options
  <1>2. publicIP[in.slot] \in IPs /\ until \in Nat
    BY <1>1 DEF Prefer, HealthTypeOK
  <1>3. preferred' = [preferred EXCEPT ![t] = ring] /\ UNCHANGED <<ipCooldowns, cooldowns, ipVars>>
    BY DEF Prefer
  <1> HIDE DEF until
  <1>4. SaneRing(ring)
    BY <1>1, <1>2, RememberRing DEF Rings
  <1> HIDE DEF ring
  <1>5. ring \in Seq(PrefType)
    BY <1>4 DEF SaneRing
  <1>6. QED
    BY <1>1, <1>3, <1>4, <1>5 DEF HealthTypeOK, Rings, ipVars

\* Whatever happens, the types and the rings of last-good exits survive.
LEMMA HealthNext ==
    ASSUME TypeInv, SessionTypeOK, HealthTypeOK, Rings, now \in Nat, [AnyNext]_vars
    PROVE  HealthTypeOK' /\ Rings'
  <1>1. CASE UNCHANGED <<healthVars, ipVars>>
    BY <1>1 DEF HealthTypeOK, Rings, healthVars, ipVars
  <1>2. ASSUME NEW c \in Calls, NEW how, NEW s, preferred' = PreferredAfter(c, how, s),
               ExpireCooldowns, UNCHANGED ipVars
        PROVE  HealthTypeOK' /\ Rings'
    BY <1>2, ExpiryHealth, PickedRings DEF ExpireCooldowns, HealthTypeOK, Rings, ipVars
  <1>3. ASSUME NEW r \in Requests, PickNothing(r)
        PROVE  HealthTypeOK' /\ Rings'
    <2>1. /\ call[r] \in Calls /\ preferred' = PreferredAfter(call[r], "none", NoSlot)
          /\ ExpireCooldowns /\ UNCHANGED ipVars
      BY <1>3 DEF PickNothing, TypeInv, WorkOK
    <2>2. QED
      BY <1>2, <2>1
  <1>4. ASSUME NEW r \in Requests, PickSlot(r)
        PROVE  HealthTypeOK' /\ Rings'
    <2>1. call[r] \in Calls /\ ExpireCooldowns /\ UNCHANGED ipVars
      BY <1>4 DEF PickSlot, TypeInv, WorkOK
    <2>2. PICK how, s : preferred' = PreferredAfter(call[r], how, s)
      BY <1>4 DEF PickSlot
    <2>3. QED
      BY <1>2, <2>1, <2>2
  <1>5. CASE Housekeep \/ Expires
    <2>1. preferred' = LivePreferred /\ ExpireCooldowns /\ UNCHANGED ipVars
      BY <1>5 DEF Housekeep, Expires
    <2>2. QED
      BY <2>1, ExpiryHealth DEF ExpireCooldowns, HealthTypeOK, Rings, ipVars
  <1>6. ASSUME NEW s \in Slots, IPMeasured(s) \/ ProbeMeasures(s)
        PROVE  HealthTypeOK' /\ Rings'
    <2>1. UNCHANGED healthVars /\ \E ip \in ExitIPs[s] : setPublicIPLocked(s, ip)
      BY <1>6 DEF IPMeasured, ProbeMeasures
    <2>2. QED
      BY <2>1, MeasuredHealth DEF HealthTypeOK, Rings, healthVars
  <1>7. ASSUME NEW r \in Requests, CommitAcquisition(r) \/ RollbackAcquisition(r) \/ Release(r)
        PROVE  UNCHANGED <<healthVars, ipVars>>
    BY <1>7 DEF CommitAcquisition, RollbackAcquisition, Release
  <1>8. QED
    BY <1>1, <1>3, <1>4, <1>5, <1>6, <1>7, ComplaintHealth, PraiseHealth, Writers
       DEF Writer, CalmWriter

-----------------------------------------------------------------------------
(* Batches, one at a time.  A sound batch is sane and accounts for the     *)
(* address each of its slots has now.                                      *)

Sound(b) == SaneBatch(b) /\ \A s \in b.usedSlots : <<s, publicIP[s]>> \in b.slotIPs

LEMMA BatchApart ==
    ASSUME NEW b \in BatchType
    PROVE  b # NoBatch
  BY DEF BatchType, NoBatch

\* A batch that consumes a slot stays sound and keeps what it has.
LEMMA ReserveSound ==
    ASSUME NEW b, Sound(b), NEW s \in Slots, NEW ip \in IPs, publicIP[s] = ip, NEW e \in Nat
    PROVE  LET q == reserve([b EXCEPT !.expiresAt = e], s, ip) IN
           /\ Sound(q) /\ q.usedSlots = b.usedSlots \cup {s}
           /\ q.served = b.served /\ q.expiresAt = e
           /\ q.slotIPs = b.slotIPs \cup {<<s, ip>>}
  <1> DEFINE a == [[b EXCEPT !.expiresAt = e] EXCEPT !.usedSlots = @ \cup {s}]
             q == addIP(a, s, ip)
  <1>1. /\ a \in BatchType /\ a.usedSlots = b.usedSlots \cup {s} /\ a.slotIPs = b.slotIPs
        /\ a.burned = b.burned /\ a.served = b.served /\ a.expiresAt = e
    BY DEF Sound, SaneBatch, BatchType
  <1>2. reserve([b EXCEPT !.expiresAt = e], s, ip) = q
    BY DEF reserve
  <1> HIDE DEF a
  <1>3. SaneBatch(a) /\ s \in a.usedSlots
    BY <1>1 DEF Sound, SaneBatch, usedIPs
  <1>4. ip # NoIP
    BY DistinctAssumption
  <1>5. /\ SaneBatch(q) /\ q.usedSlots = a.usedSlots /\ q.served = a.served
        /\ q.expiresAt = a.expiresAt
        /\ q.slotIPs = IF ip = NoIP THEN a.slotIPs ELSE a.slotIPs \cup {<<s, ip>>}
    BY <1>3, AddIPSane
  <1> HIDE DEF q
  <1>6. QED
    BY <1>1, <1>2, <1>4, <1>5 DEF Sound

\* A new batch is sound, and so is one that gives a slot back.
LEMMA NewSound ==
    ASSUME NEW e \in Nat
    PROVE  Sound(newBatch(e))
  <1>1. /\ newBatch(e) \in BatchType /\ newBatch(e).slotIPs = {} /\ newBatch(e).usedSlots = {}
        /\ newBatch(e).burned = <<>>
    BY DEF newBatch, BatchType
  <1>2. usedIPs(newBatch(e)) = {}
    BY <1>1 DEF usedIPs, ToSet
  <1>3. QED
    BY <1>1, <1>2 DEF Sound, SaneBatch, Once

LEMMA ReleaseSound ==
    ASSUME NEW b, Sound(b), NEW s \in Slots
    PROVE  /\ Sound(release(b, s)) /\ release(b, s).usedSlots = b.usedSlots \ {s}
           /\ release(b, s).served = b.served /\ release(b, s).expiresAt = b.expiresAt
  BY ReleaseSane DEF Sound

\* An address burned again is burned already.
LEMMA StampSound ==
    ASSUME NEW b, Sound(b), NEW ip \in IPs, ip \in usedIPs(b)
    PROVE  LET q == stampLocked(b, ip) IN
           /\ Sound(q) /\ q.usedSlots = b.usedSlots /\ q.served = b.served
           /\ q.expiresAt = b.expiresAt /\ usedIPs(q) = usedIPs(b)
  <1> DEFINE q == stampLocked(b, ip)
  <1>1. /\ q \in BatchType /\ Once(q.burned) /\ usedIPs(q) = usedIPs(b) \cup {ip}
        /\ q.slotIPs = b.slotIPs /\ q.usedSlots = b.usedSlots /\ q.served = b.served
        /\ q.expiresAt = b.expiresAt
    BY StampSane DEF Sound, SaneBatch
  <1> HIDE DEF q
  <1>2. usedIPs(q) = usedIPs(b)
    BY <1>1
  <1>3. QED
    BY <1>1, <1>2 DEF Sound, SaneBatch, q

-----------------------------------------------------------------------------
(* The map of batches.                                                     *)

AllSound == /\ BatchTypeOK
            /\ \A n \in BatchNames : batches[n] # NoBatch => Sound(batches[n])

\* A reservation's pointer leads to the batch in the map.
Pointed == \A r \in Requests : bres[r] = "live" =>
              /\ pc[r] \in Reserving \cup Leasing
              /\ call[r].uniq \in BatchNames /\ batches[call[r].uniq] # NoBatch

\* The claims of requests, and what they asked for, stay as they are.
ClaimsStay ==
    \A r \in Requests : pc[r] \in Reserving \cup Leasing =>
        /\ pc'[r] \in Reserving \cup Leasing /\ (pc'[r] \in Reserving <=> pc[r] \in Reserving)
        /\ call'[r] = call[r] /\ slot'[r] = slot[r]

\* Nothing is consumed: batches leave the map, and their pointers with them, or they
\* go on without the slots T.
Fades(T) ==
    /\ ClaimsStay /\ AllSound'
    /\ \A n \in BatchNames : batches'[n] # NoBatch =>
         /\ batches[n] # NoBatch /\ batches'[n].expiresAt = batches[n].expiresAt
         /\ batches'[n].usedSlots = batches[n].usedSlots \ T
         /\ batches'[n].served = batches[n].served \ (T \cap batches[n].usedSlots)
    /\ \A r \in Requests : bres'[r] = "live" =>
         bres[r] = "live" /\ batches'[call[r].uniq] # NoBatch

LEMMA StillClaims ==
    ASSUME LeaseStill, NEW r \in Requests, pc[r] \notin Reserving \cup Leasing,
           TypeInv, UNCHANGED call \/ \E c : call' = [call EXCEPT ![r] = c]
    PROVE  ClaimsStay
  BY ClaimSets DEF LeaseStill, ClaimsStay, TypeInv, ControlTypeOK

\* Only pick, commit, rollback and Release change a claim.
LEMMA ClaimSteps ==
    ASSUME TypeInv, [AnyNext]_vars
    PROVE  \/ ClaimsStay
           \/ \E r \in Requests : \/ PickSlot(r) \/ CommitAcquisition(r)
                                  \/ RollbackAcquisition(r) \/ Release(r)
  <1> USE DEF callVars
  <1>1. ASSUME LeaseStill, UNCHANGED call
        PROVE  ClaimsStay
    BY <1>1, ClaimSets DEF LeaseStill, ClaimsStay
  <1>2. CASE UNCHANGED vars \/ Tick \/ DrainDone \/ CloseReturns \/ Close
    <2>1. UNCHANGED <<pc, slot, call>>
      BY <1>2 DEF vars, Tick, DrainDone, CloseReturns, Close
    <2>2. QED
      BY <2>1 DEF ClaimsStay
  <1>3. ASSUME NEW p, Cancel(p) \/ Rotate(p) \/ Report(p) \/ Prefer(p) \/ Expires
        PROVE  ClaimsStay
    <2>1. UNCHANGED <<pc, slot, call>>
      BY <1>3 DEF Cancel, Rotate, Report, Prefer, Expires
    <2>2. QED
      BY <2>1 DEF ClaimsStay
  <1>4. ASSUME NEW r \in Requests,
               \/ \E c \in Calls : Start(r, c)
               \/ PickNothing(r) \/ NoteAcquireFailure(r) \/ DropSession(r)
        PROVE  ClaimsStay
    <2>1. LeaseStill
      BY <1>4, StartStep, PickNothingStep, NoteAcquireFailureStep, DropSessionStep
    <2>2. pc[r] \notin Reserving \cup Leasing
      BY <1>4 DEF Start, PickNothing, NoteAcquireFailure, DropSession, Reserving, Leasing, Opening
    <2>3. UNCHANGED call \/ \E c : call' = [call EXCEPT ![r] = c]
      BY <1>4 DEF Start, PickNothing, NoteAcquireFailure, DropSession, NextAttempt, Return
    <2>4. QED
      BY <2>1, <2>2, <2>3, StillClaims
  <1>5. ASSUME NEW r \in Requests, CheckLeasedIP(r) \/ DialSucceeds(r) \/ NoteDialFailure(r)
        PROVE  ClaimsStay
    <2>1. UNCHANGED call
      BY <1>5 DEF CheckLeasedIP, DialSucceeds, NoteDialFailure
    <2>2. QED
      BY <1>1, <1>5, <2>1, CheckLeasedIPStep, HoldingStep
  <1>6. ASSUME NEW p \in Procs, Opener(p)
        PROVE  ClaimsStay
    <2>1. UNCHANGED call
      BY <1>6 DEF Opener, EnsureDialer, NextEntry, EnsureOpenUp, EnsureOpenWait, EnsureOpenReserve,
         EnsureOpenRefused, WakeUp, AbortOpen, AbortOpenDone, CommitTunnelOpen, OpenSucceeds,
         OpenFails
    <2>2. QED
      BY <1>1, <1>6, <2>1, OpenerStep
  <1>7. ASSUME NEW x, \/ Warmup(x) \/ (x \in ProbeTargets /\ Probe(x))
                      \/ (x \in Holders /\ (WarmupRuns(x) \/ WarmupDone(x)))
                      \/ (x \in Slots /\ IPCheck(x))
        PROVE  ClaimsStay
    <2>1. UNCHANGED call
      BY <1>7 DEF Warmup, Probe, WarmupRuns, WarmupDone, WorkerDone, IPCheck, IPCheckAdmitted,
         IPCheckFails, IPMeasured
    <2>2. QED
      BY <1>1, <1>7, <2>1, WarmupStep, ProbeStep, WarmerStep, IPCheckStep
  <1>8. ASSUME NEW s \in Slots, Probing(s)
        PROVE  ClaimsStay
    <2>1. UNCHANGED call
      BY <1>8 DEF WorkerDone, Probing, ProbeRuns, ProbeReserve, ProbeRefused, ProbeContacts,
         ProbeGoesOn, ProbeMeasures, ProbeReleases, ProbeFails
    <2>2. QED
      BY <1>1, <1>8, <2>1, ProberStep
  <1>9. CASE Housekeep \/ RefreshIP
    <2>1. UNCHANGED call
      BY <1>9 DEF Housekeep, RefreshIP
    <2>2. QED
      BY <1>1, <1>9, <2>1, HousekeeperStep
  <1>10. CASE \E r \in Requests : Acquirer(r) \/ Holder(r)
    BY <1>4, <1>5, <1>10 DEF Acquirer, Holder
  <1>11. CASE Serve
    BY <1>2, <1>3, <1>4, <1>6, <1>7, <1>8, <1>9, <1>10, <1>11 DEF Serve, Working
  <1>12. QED
    BY <1>2, <1>3, <1>11 DEF AnyNext, Calm

\* What expiry leaves of the map.
LEMMA ExpiryBatches ==
    ASSUME AllSound
    PROVE  /\ LiveBatches \in [BatchNames -> BatchType \cup {NoBatch}]
           /\ \A n \in BatchNames : LiveBatches[n] # NoBatch =>
                /\ LiveBatches[n] = batches[n] /\ Sound(LiveBatches[n])
                /\ n \notin ExpiredBatches
           /\ \A n \in BatchNames : n \notin ExpiredBatches => LiveBatches[n] = batches[n]
           /\ ExpiredBatches \subseteq BatchNames
  BY DEF AllSound, BatchTypeOK, LiveBatches, ExpiredBatches

\* Pointers into the batches that left the map are dropped with them.
LEMMA OrphanedPointers ==
    ASSUME BatchTypeOK, NEW D
    PROVE  /\ Orphaned(D) \in [Requests -> {"none", "live", "stale"}]
           /\ \A r \in Requests : Orphaned(D)[r] = "live" <=> bres[r] = "live" /\ call[r].uniq \notin D
  BY DEF BatchTypeOK, Orphaned

\* Expiry, on whichever occasion.
LEMMA ExpiryFades ==
    ASSUME AllSound, Pointed, ClaimsStay, UNCHANGED ipVars,
           batches' = LiveBatches, bres' = Orphaned(ExpiredBatches)
    PROVE  Fades({})
  <1>1. AllSound'
    BY ExpiryBatches, OrphanedPointers DEF AllSound, BatchTypeOK, Sound, ipVars
  <1>2. \A n \in BatchNames : batches'[n] # NoBatch => batches'[n] = batches[n]
    BY ExpiryBatches
  <1>3. \A r \in Requests : bres'[r] = "live" =>
          bres[r] = "live" /\ batches'[call[r].uniq] # NoBatch
    BY ExpiryBatches, OrphanedPointers DEF AllSound, Pointed
  <1>4. QED
    BY <1>1, <1>2, <1>3 DEF Fades

\* Steps that leave the batches and the addresses alone.
LEMMA AsideFades ==
    ASSUME AllSound, Pointed, ClaimsStay, UNCHANGED <<batchVars, ipVars>>
    PROVE  Fades({})
  BY DEF AllSound, BatchTypeOK, Pointed, Fades, Sound, batchVars, ipVars

\* A measurement reaches every batch the exit was consumed by.
LEMMA MeasurementFades ==
    ASSUME AllSound, Pointed, HealthTypeOK, ClaimsStay, NEW s \in Slots, NEW ip \in ExitIPs[s],
           setPublicIPLocked(s, ip)
    PROVE  Fades({})
  <1>1. /\ ip \in IPs /\ ip # NoIP
        /\ publicIP' = [publicIP EXCEPT ![s] = ip] /\ publicIP \in [Slots -> IPs \cup {NoIP}]
        /\ bres' = Orphaned(ExpiredBatches)
    BY InputAssumption, DistinctAssumption DEF setPublicIPLocked, HealthTypeOK
  <1>2. ASSUME NEW n \in BatchNames, batches'[n] # NoBatch
        PROVE  /\ batches[n] # NoBatch /\ Sound(batches[n])' /\ n \notin ExpiredBatches
               /\ batches'[n].usedSlots = batches[n].usedSlots
               /\ batches'[n].served = batches[n].served
               /\ batches'[n].expiresAt = batches[n].expiresAt
    <2> DEFINE b == LiveBatches[n]
    <2>1. batches'[n] = IF b # NoBatch /\ s \in b.usedSlots THEN addIP(b, s, ip) ELSE b
      BY DEF setPublicIPLocked
    <2>2. b # NoBatch /\ b = batches[n] /\ Sound(b) /\ n \notin ExpiredBatches
      BY <1>2, <2>1, ExpiryBatches
    <2> HIDE DEF b
    <2>3. CASE s \notin b.usedSlots
      <3>1. batches'[n] = b
        BY <2>1, <2>3
      <3>2. \A t \in b.usedSlots : publicIP'[t] = publicIP[t]
        BY <1>1, <2>2, <2>3 DEF Sound, SaneBatch, BatchType
      <3>3. QED
        BY <2>2, <3>1, <3>2 DEF Sound
    <2>4. CASE s \in b.usedSlots
      <3> DEFINE q == addIP(b, s, ip)
      <3>1. batches'[n] = q
        BY <2>1, <2>2, <2>4
      <3>2. ip \in IPs \cup {NoIP}
        BY <1>1
      <3>3. /\ SaneBatch(q) /\ q.usedSlots = b.usedSlots /\ q.served = b.served
            /\ q.expiresAt = b.expiresAt
            /\ q.slotIPs = IF ip = NoIP THEN b.slotIPs ELSE b.slotIPs \cup {<<s, ip>>}
        BY <2>2, <2>4, <3>2, AddIPSane DEF Sound
      <3> HIDE DEF q
      <3>4. \A t \in q.usedSlots : <<t, publicIP'[t]>> \in q.slotIPs
        BY <1>1, <2>2, <3>3 DEF Sound, SaneBatch, BatchType
      <3>5. QED
        BY <2>2, <3>1, <3>3, <3>4 DEF Sound
    <2>5. QED
      BY <2>3, <2>4
  <1>3. batches' \in [BatchNames -> BatchType \cup {NoBatch}]
    <2>1. \A n \in BatchNames : batches'[n] \in BatchType \cup {NoBatch}
      BY <1>2 DEF Sound, SaneBatch
    <2>2. QED
      BY <2>1 DEF setPublicIPLocked
  <1>4. AllSound'
    BY <1>1, <1>2, <1>3, OrphanedPointers DEF AllSound, BatchTypeOK
  <1>5. ASSUME NEW r \in Requests, bres'[r] = "live"
        PROVE  bres[r] = "live" /\ batches'[call[r].uniq] # NoBatch
    <2>1. bres[r] = "live" /\ call[r].uniq \in BatchNames \ ExpiredBatches
      BY <1>1, <1>5, OrphanedPointers DEF AllSound, Pointed
    <2> DEFINE n == call[r].uniq
               b == LiveBatches[n]
    <2>2. b # NoBatch /\ Sound(b)
      BY <2>1, ExpiryBatches DEF Pointed
    <2>3. batches'[n] = IF b # NoBatch /\ s \in b.usedSlots THEN addIP(b, s, ip) ELSE b
      BY <2>1 DEF setPublicIPLocked
    <2> HIDE DEF b
    <2>4. s \in b.usedSlots => addIP(b, s, ip) \in BatchType
      BY <1>1, <2>2, AddIPSane DEF Sound, SaneBatch
    <2>5. batches'[n] # NoBatch
      BY <2>2, <2>3, <2>4, BatchApart
    <2>6. QED
      BY <2>1, <2>5
  <1>6. QED
    BY <1>2, <1>4, <1>5 DEF Fades

\* The exit a complaint is about.
AboutSlot(in) == IF in.slot # NoSlot THEN in.slot ELSE sessions[in.session].slotID

\* A complaint takes one slot out of every batch.
LEMMA ComplaintFades ==
    ASSUME AllSound, Pointed, SessionTypeOK, ClaimsStay, NEW in \in ReportType, Report(in)
    PROVE  AboutSlot(in) \in Slots /\ Fades({AboutSlot(in)})
  <1> DEFINE s == AboutSlot(in)
  <1>1. /\ s \in Slots /\ batches' = ReleasedFromBatches(s)
        /\ bres' = Orphaned({n \in BatchNames : /\ batches[n] # NoBatch
                                                /\ ReleasedFromBatches(s)[n] = NoBatch})
    <2>1. s \in Slots
      <3>1. CASE in.slot # NoSlot
        BY <3>1 DEF ReportType, AboutSlot
      <3>2. CASE in.slot = NoSlot
        <4>1. in.session \in Names /\ sessions[in.session] # NoSession
          BY <3>2 DEF Report, ReportType
        <4>2. sessions[in.session] \in SessionType
          BY <4>1 DEF SessionTypeOK
        <4>3. QED
          BY <3>2, <4>2 DEF SessionType, AboutSlot
      <3>3. QED
        BY <3>1, <3>2
    <2>2. QED
      BY <2>1 DEF Report, AboutSlot
  <1> HIDE DEF s
  <1> DEFINE dead == {n \in BatchNames : batches[n] # NoBatch /\ ReleasedFromBatches(s)[n] = NoBatch}
  <1>2. UNCHANGED ipVars /\ bres' = Orphaned(dead)
    BY <1>1 DEF Report
  <1>3. ASSUME NEW n \in BatchNames, batches'[n] # NoBatch
        PROVE  /\ batches[n] # NoBatch /\ Sound(batches'[n])
               /\ batches'[n].expiresAt = batches[n].expiresAt
               /\ batches'[n].usedSlots = batches[n].usedSlots \ {s}
               /\ batches'[n].served = batches[n].served \ ({s} \cap batches[n].usedSlots)
    <2> DEFINE b == batches[n]
               f == release(b, s)
               g == [f EXCEPT !.served = @ \ {s}]
    <2>1. batches'[n] = IF b # NoBatch /\ s \in b.usedSlots THEN OrDropped(g) ELSE b
      BY <1>1 DEF ReleasedFromBatches
    <2>2. b # NoBatch /\ Sound(b)
      BY <1>3, <2>1 DEF AllSound
    <2> HIDE DEF b
    <2>3. /\ Sound(f) /\ f.expiresAt = b.expiresAt
          /\ f.usedSlots = b.usedSlots \ {s} /\ f.served = b.served
      BY <1>1, <2>2, ReleaseSound
    <2> HIDE DEF f
    <2>4. /\ g \in BatchType /\ g.usedSlots = f.usedSlots /\ g.slotIPs = f.slotIPs
          /\ g.burned = f.burned /\ g.expiresAt = f.expiresAt /\ g.served = f.served \ {s}
      BY <2>3 DEF Sound, SaneBatch, BatchType
    <2> HIDE DEF g
    <2>5. Sound(g)
      BY <2>3, <2>4 DEF Sound, SaneBatch, usedIPs
    <2>6. CASE s \in b.usedSlots
      BY <1>3, <2>1, <2>2, <2>3, <2>4, <2>5, <2>6 DEF OrDropped, b
    <2>7. CASE s \notin b.usedSlots
      <3>1. batches'[n] = b
        BY <2>1, <2>7
      <3>2. QED
        BY <2>2, <2>7, <3>1 DEF b
    <2>8. QED
      BY <2>6, <2>7
  <1>4. batches' \in [BatchNames -> BatchType \cup {NoBatch}]
    <2>1. \A n \in BatchNames : batches'[n] \in BatchType \cup {NoBatch}
      BY <1>3 DEF Sound, SaneBatch
    <2>2. QED
      BY <1>1, <2>1 DEF ReleasedFromBatches
  <1>5. AllSound'
    <2>1. bres' \in [Requests -> {"none", "live", "stale"}]
      BY <1>2, OrphanedPointers DEF AllSound
    <2>2. \A n \in BatchNames : batches'[n] # NoBatch => Sound(batches[n])'
      BY <1>2, <1>3 DEF Sound, ipVars
    <2>3. QED
      BY <1>4, <2>1, <2>2 DEF AllSound, BatchTypeOK
  <1>6. ASSUME NEW r \in Requests, bres'[r] = "live"
        PROVE  bres[r] = "live" /\ batches'[call[r].uniq] # NoBatch
    <2>1. bres[r] = "live" /\ call[r].uniq \notin dead
      BY <1>2, <1>6, OrphanedPointers DEF AllSound
    <2>2. QED
      BY <1>1, <2>1 DEF Pointed
  <1>7. Fades({s})
    BY <1>3, <1>5, <1>6 DEF Fades
  <1>8. QED
    BY <1>1, <1>7 DEF s

-----------------------------------------------------------------------------
(* pick.                                                                   *)

\* Either pick found an exit that is eligible for the call as it stands, or it recycles.
LEMMA SelectionRule ==
    ASSUME NEW c \in Calls, NEW sel \in Selections(c)
    PROVE  /\ sel[2] \in Slots
           /\ IF sel[1] = "recycled" THEN sel[2] \in Recyclable(c) ELSE eligibleLocked(sel[2], c)
  <1>1. sel[2] \in Slots /\ ~TurnedAway(c)
    BY SelectionsSound
  <1>2. CASE StickyUsable(c)
    <2>1. sel = <<"sticky", sessions[c.session].slotID>>
      BY <1>1, <1>2 DEF Selections
    <2>2. QED
      BY <1>1, <1>2, <2>1 DEF StickyUsable
  <1>3. CASE ~StickyUsable(c) /\ BestPreferred(c) # {}
    <2>1. sel[1] = "preferred" /\ sel[2] \in BestPreferred(c)
      BY <1>1, <1>3 DEF Selections
    <2>2. eligibleLocked(sel[2], c)
      BY <2>1, <1>3 DEF BestPreferred
    <2>3. QED
      BY <1>1, <2>1, <2>2
  <1>4. CASE ~StickyUsable(c) /\ BestPreferred(c) = {} /\ Candidates(c) = {}
    <2>1. sel[1] = "recycled" /\ sel[2] \in Recyclable(c)
      BY <1>1, <1>4 DEF Selections
    <2>2. QED
      BY <1>1, <2>1
  <1>5. CASE ~StickyUsable(c) /\ BestPreferred(c) = {} /\ Candidates(c) # {}
    <2>1. sel[1] \in {"ready", "open"} /\ sel[2] \in Candidates(c)
      BY <1>1, <1>5 DEF Selections
    <2>2. QED
      BY <1>1, <2>1 DEF Candidates
  <1>6. QED
    BY <1>2, <1>3, <1>4, <1>5

\* The exit of a unique request has an address the pool knows.  Unless it is recycled, a
\* batch that has not run out has consumed neither the slot nor the address.
LEMMA UniqueSelection ==
    ASSUME HealthTypeOK, AllSound, NEW c \in Calls, NEW sel \in Selections(c), c.uniq \in BatchNames
    PROVE  LET s == sel[2]
               b == batches[c.uniq]
           IN
           /\ s \in Slots /\ publicIP[s] \in IPs
           /\ sel[1] = "recycled" => /\ c.recycle /\ b # NoBatch /\ now < b.expiresAt
                                     /\ publicIP[s] \in usedIPs(b)
           /\ sel[1] # "recycled" =>
                \/ b = NoBatch \/ ~(now < b.expiresAt)
                \/ s \notin b.usedSlots /\ publicIP[s] \notin usedIPs(b)
  <1> DEFINE s == sel[2]
             b == batches[c.uniq]
  <1>1. s \in Slots /\ publicIP[s] \in IPs \cup {NoIP} /\ c.uniq # NoName
    BY SelectionRule, DistinctAssumption DEF HealthTypeOK
  <1>2. CASE sel[1] = "recycled"
    <2>1. s \in Recyclable(c)
      BY <1>2, SelectionRule
    <2>2. c.recycle /\ b # NoBatch /\ now < b.expiresAt /\ publicIP[s] \in usedIPs(b)
      BY <2>1 DEF Recyclable
    <2>3. Sound(b)
      BY <2>2 DEF AllSound
    <2>4. usedIPs(b) \subseteq IPs
      BY <2>3 DEF Sound, SaneBatch, BatchType
    <2>5. QED
      BY <1>1, <1>2, <2>2, <2>4
  <1>3. CASE sel[1] # "recycled"
    <2>1. ~RuledOut(s, c, c.uniq)
      BY <1>3, SelectionRule DEF eligibleLocked, eligible
    <2>2. publicIP[s] # NoIP
      BY <1>1, <2>1 DEF RuledOut, ipFresh
    <2>3. \/ b = NoBatch \/ ~(now < b.expiresAt)
          \/ s \notin b.usedSlots /\ publicIP[s] \notin usedIPs(b)
      BY <1>1, <2>1 DEF RuledOut
    <2>4. QED
      BY <1>1, <1>3, <2>2, <2>3
  <1>4. QED
    BY <1>2, <1>3

\* The map of batches when the search is over: expired ones are gone, and a recycled
\* address has moved to the back of its ring.
LEMMA SearchBatches ==
    ASSUME HealthTypeOK, AllSound, now \in Nat, NEW c \in Calls, NEW sel \in Selections(c)
    PROVE  LET B == BatchesAfter(c, sel[1], sel[2]) IN
           /\ B \in [BatchNames -> BatchType \cup {NoBatch}]
           /\ \A n \in BatchNames : B[n] # NoBatch =>
                /\ batches[n] # NoBatch /\ n \notin ExpiredBatches /\ Sound(B[n])
                /\ B[n].usedSlots = batches[n].usedSlots /\ B[n].served = batches[n].served
                /\ B[n].expiresAt = batches[n].expiresAt
                /\ usedIPs(B[n]) = usedIPs(batches[n])
           /\ \A n \in BatchNames : n \notin ExpiredBatches /\ batches[n] # NoBatch => B[n] # NoBatch
  <1> DEFINE s == sel[2]
             n == c.uniq
             q == stampLocked(LiveBatches[n], publicIP[s])
  <1>1. CASE BatchesAfter(c, sel[1], s) = LiveBatches
    BY <1>1, ExpiryBatches
  <1>2. CASE BatchesAfter(c, sel[1], s) # LiveBatches
    <2>1. sel[1] = "recycled" /\ BatchesAfter(c, sel[1], s) = [LiveBatches EXCEPT ![n] = q]
      BY <1>2 DEF BatchesAfter
    <2>2. n \in BatchNames
      <3>1. sel[2] \in Recyclable(c)
        BY <2>1, SelectionRule
      <3>2. n # NoName
        BY <3>1 DEF Recyclable
      <3>3. QED
        BY <3>2, CallTypes
    <2>3. PICK ip \in IPs : ip = publicIP[s] /\ ip \in usedIPs(batches[n]) /\ batches[n] # NoBatch
      BY <2>1, <2>2, UniqueSelection
    <2>4. now < batches[n].expiresAt
      BY <2>1, <2>2, UniqueSelection
    <2>5. n \notin ExpiredBatches
      <3>1. batches[n].expiresAt \in Nat
        BY <2>2, <2>3 DEF AllSound, Sound, SaneBatch, BatchType
      <3>2. QED
        BY <2>4, <3>1 DEF ExpiredBatches
    <2>6. CASE LiveBatches[n] # NoBatch
      <3>1. LiveBatches[n] = batches[n] /\ Sound(batches[n])
        BY <2>2, <2>6, ExpiryBatches
      <3>2. /\ Sound(q) /\ q.usedSlots = batches[n].usedSlots /\ q.served = batches[n].served
            /\ q.expiresAt = batches[n].expiresAt /\ usedIPs(q) = usedIPs(batches[n])
        BY <2>3, <3>1, StampSound
      <3> HIDE DEF q
      <3>3. q \in BatchType /\ q # NoBatch
        BY <3>2, BatchApart DEF Sound, SaneBatch
      <3>4. QED
        BY <2>1, <2>2, <2>3, <2>6, <3>2, <3>3, ExpiryBatches
    <2>7. LiveBatches[n] # NoBatch
      BY <2>2, <2>3, <2>5, ExpiryBatches
    <2>8. QED
      BY <2>6, <2>7
  <1>3. QED
    BY <1>1, <1>2

\* pick consumes slot'[r] in the batch of its call: of a batch that is new, or of one that
\* has consumed neither the slot nor its address, unless the call recycles or the batch
\* runs out at this very instant.
Consumes(r) ==
    LET n == call[r].uniq
        s == slot'[r]
        q == batches'[n]
        fresh == batches[n] = NoBatch \/ n \in ExpiredBatches
    IN
    /\ pc[r] = "pick" /\ pc'[r] \in Reserving /\ UNCHANGED <<call, ipVars>>
    /\ \A p \in Requests \ {r} : pc'[p] = pc[p] /\ slot'[p] = slot[p]
    /\ call[r] \in Calls /\ n \in BatchNames /\ s \in Slots /\ publicIP[s] \in IPs
    /\ AllSound' /\ q # NoBatch
    /\ q.expiresAt = now + batchTTL(call[r])
    /\ fresh => q.usedSlots = {s} /\ q.served = {}
    /\ ~fresh => /\ q.usedSlots = batches[n].usedSlots \cup {s} /\ q.served = batches[n].served
                 /\ \/ call[r].recycle \/ ~(now < batches[n].expiresAt)
                    \/ s \notin batches[n].usedSlots /\ publicIP[s] \notin usedIPs(batches[n])
    /\ batches[n] = NoBatch =>
         Cardinality({m \in BatchNames : batches'[m] # NoBatch} \ {n}) < opts.MaxUniqueBatches
    /\ \A m \in BatchNames \ {n} : batches'[m] # NoBatch =>
         /\ batches[m] # NoBatch /\ batches'[m].expiresAt = batches[m].expiresAt
         /\ batches'[m].usedSlots = batches[m].usedSlots /\ batches'[m].served = batches[m].served
    /\ bres' = [Orphaned(ExpiredBatches) EXCEPT ![r] = "live"]
    /\ \A m \in BatchNames : m \notin ExpiredBatches /\ batches[m] # NoBatch => batches'[m] # NoBatch

LEMMA PickKinds ==
    ASSUME TypeInv, HealthTypeOK, AllSound, Pointed, now \in Nat, NEW r \in Requests, PickSlot(r)
    PROVE  Fades({}) \/ Consumes(r)
  <1> DEFINE c == call[r]
             n == c.uniq
  <1>1. pc[r] = "pick" /\ c \in Calls /\ UNCHANGED ipVars
    BY DEF PickSlot, TypeInv, WorkOK
  <1>2. PICK sel \in Selections(c) :
          LET B == BatchesAfter(c, sel[1], sel[2]) IN
          \/ /\ BatchRoom(c, B)
             /\ Goto(r, "dial") /\ slot' = [slot EXCEPT ![r] = sel[2]] /\ UNCHANGED call
             /\ batches' = IF n = NoName THEN B ELSE [B EXCEPT ![n] = Reserved(c, sel[2], B)]
             /\ bres' = [Orphaned(ExpiredBatches) EXCEPT ![r] =
                           IF n = NoName THEN "none" ELSE "live"]
          \/ Return(r) /\ batches' = B /\ bres' = Orphaned(ExpiredBatches)
    BY DEF PickSlot
  <1> DEFINE s == sel[2]
             B == BatchesAfter(c, sel[1], s)
  <1>3. /\ B \in [BatchNames -> BatchType \cup {NoBatch}]
        /\ \A m \in BatchNames : B[m] # NoBatch =>
             /\ batches[m] # NoBatch /\ m \notin ExpiredBatches /\ Sound(B[m])
             /\ B[m].usedSlots = batches[m].usedSlots /\ B[m].served = batches[m].served
             /\ B[m].expiresAt = batches[m].expiresAt /\ usedIPs(B[m]) = usedIPs(batches[m])
        /\ \A m \in BatchNames : m \notin ExpiredBatches /\ batches[m] # NoBatch => B[m] # NoBatch
    BY <1>1, SearchBatches
  <1> HIDE DEF B
  <1>4. ASSUME batches' = B, ClaimsStay, bres' \in [Requests -> {"none", "live", "stale"}],
               \A p \in Requests : bres'[p] = "live" => Orphaned(ExpiredBatches)[p] = "live"
        PROVE  Fades({})
    <2>1. AllSound'
      BY <1>1, <1>3, <1>4 DEF AllSound, BatchTypeOK, Sound, ipVars
    <2>2. ASSUME NEW p \in Requests, bres'[p] = "live"
          PROVE  bres[p] = "live" /\ batches'[call[p].uniq] # NoBatch
      <3>1. bres[p] = "live" /\ call[p].uniq \notin ExpiredBatches
        BY <1>4, <2>2, OrphanedPointers DEF AllSound
      <3>2. QED
        BY <1>3, <1>4, <3>1 DEF Pointed
    <2>3. QED
      BY <1>3, <1>4, <2>1, <2>2 DEF Fades
  <1>5. pc[r] \notin Reserving \cup Leasing
    BY <1>1 DEF Reserving, Leasing, Opening
  <1>6. CASE Return(r) /\ batches' = B /\ bres' = Orphaned(ExpiredBatches)
    <2>1. ClaimsStay
      BY <1>5, <1>6, WorkersApart DEF ClaimsStay, Return, ResetWork, Goto, TypeInv, ControlTypeOK
    <2>2. QED
      BY <1>4, <1>6, <2>1, OrphanedPointers DEF AllSound
  <1>7. CASE /\ BatchRoom(c, B)
             /\ Goto(r, "dial") /\ slot' = [slot EXCEPT ![r] = s] /\ UNCHANGED call
             /\ batches' = IF n = NoName THEN B ELSE [B EXCEPT ![n] = Reserved(c, s, B)]
             /\ bres' = [Orphaned(ExpiredBatches) EXCEPT ![r] =
                           IF n = NoName THEN "none" ELSE "live"]
    <2>1. \A p \in Requests \ {r} : pc'[p] = pc[p] /\ slot'[p] = slot[p]
      BY <1>7, WorkersApart DEF Goto, TypeInv, ControlTypeOK
    <2>2. CASE n = NoName
      <3>1. ClaimsStay
        BY <1>5, <1>7, <2>1 DEF ClaimsStay
      <3>2. Orphaned(ExpiredBatches) \in [Requests -> {"none", "live", "stale"}]
        BY OrphanedPointers DEF AllSound
      <3>3. /\ bres' \in [Requests -> {"none", "live", "stale"}]
            /\ \A p \in Requests : bres'[p] = "live" => Orphaned(ExpiredBatches)[p] = "live"
        BY <1>7, <2>2, <3>2
      <3>4. QED
        BY <1>4, <1>7, <2>2, <3>1, <3>3
    <2>3. CASE n # NoName
      <3>1. n \in BatchNames
        BY <1>1, <2>3, CallTypes
      <3>2. PICK ip \in IPs : ip = publicIP[s]
        BY <1>1, <3>1, UniqueSelection
      <3> DEFINE old == IF B[n] = NoBatch THEN newBatch(now) ELSE B[n]
                 e == now + batchTTL(c)
                 q == reserve([old EXCEPT !.expiresAt = e], s, ip)
      <3>3. q = Reserved(c, s, B)
        BY <3>2 DEF Reserved
      <3>4. /\ s \in Slots /\ e \in Nat
            /\ Sound(old)
        <4>1. s \in Slots /\ batchTTL(c) \in Nat
          BY <1>1, SelectionRule, CallTypes
        <4>2. Sound(newBatch(now))
          BY NewSound
        <4>3. QED
          BY <1>3, <3>1, <4>1, <4>2
      <3>5. B[n] = NoBatch => old.usedSlots = {} /\ old.served = {}
        BY DEF newBatch
      <3>6. B[n] # NoBatch => old = B[n]
        OBVIOUS
      <3> HIDE DEF old, e
      <3>7. /\ Sound(q) /\ q.usedSlots = old.usedSlots \cup {s}
            /\ q.served = old.served /\ q.expiresAt = e
        BY <3>2, <3>4, ReserveSound
      <3> HIDE DEF q
      <3>8. q \in BatchType /\ q # NoBatch
        BY <3>7, BatchApart DEF Sound, SaneBatch
      <3>9. /\ batches' = [B EXCEPT ![n] = q] /\ batches'[n] = q
            /\ \A m \in BatchNames \ {n} : batches'[m] = B[m]
            /\ bres' = [Orphaned(ExpiredBatches) EXCEPT ![r] = "live"]
        BY <1>3, <1>7, <2>3, <3>1, <3>3
      <3>10. AllSound'
        <4>1. Orphaned(ExpiredBatches) \in [Requests -> {"none", "live", "stale"}]
          BY OrphanedPointers DEF AllSound
        <4>2. BatchTypeOK'
          BY <1>3, <3>8, <3>9, <4>1 DEF BatchTypeOK
        <4>3. ASSUME NEW m \in BatchNames, batches'[m] # NoBatch
              PROVE  Sound(batches[m])'
          <5>1. Sound(batches'[m])
            BY <1>3, <3>7, <3>9, <4>3
          <5>2. QED
            BY <1>1, <5>1 DEF Sound, ipVars
        <4>4. QED
          BY <4>2, <4>3 DEF AllSound
      <3>11. slot'[r] = s
        BY <1>7, WorkersApart DEF TypeInv, ControlTypeOK
      <3>12. ASSUME ~(batches[n] = NoBatch \/ n \in ExpiredBatches)
             PROVE  /\ q.usedSlots = batches[n].usedSlots \cup {s} /\ q.served = batches[n].served
                    /\ \/ c.recycle \/ ~(now < batches[n].expiresAt)
                       \/ s \notin batches[n].usedSlots /\ publicIP[s] \notin usedIPs(batches[n])
        <4>1. B[n] # NoBatch /\ old = B[n]
          BY <1>3, <3>1, <3>6, <3>12
        <4>2. /\ old.usedSlots = batches[n].usedSlots /\ old.served = batches[n].served
          BY <1>3, <3>1, <4>1
        <4>3. \/ c.recycle \/ ~(now < batches[n].expiresAt)
              \/ s \notin batches[n].usedSlots /\ publicIP[s] \notin usedIPs(batches[n])
          BY <1>1, <3>1, <3>12, UniqueSelection
        <4>4. QED
          BY <3>7, <4>2, <4>3
      <3>13. ASSUME batches[n] = NoBatch \/ n \in ExpiredBatches
             PROVE  q.usedSlots = {s} /\ q.served = {}
        <4>1. B[n] = NoBatch
          BY <1>3, <3>1, <3>13
        <4>2. QED
          BY <3>5, <3>7, <4>1
      <3>14. ASSUME batches[n] = NoBatch
             PROVE  Cardinality({m \in BatchNames : batches'[m] # NoBatch} \ {n})
                      < opts.MaxUniqueBatches
        <4>1. B[n] = NoBatch
          BY <1>3, <3>1, <3>14
        <4>2. {m \in BatchNames : batches'[m] # NoBatch} \ {n} = {m \in BatchNames : B[m] # NoBatch}
          BY <3>9, <4>1
        <4>3. QED
          BY <1>7, <2>3, <4>1, <4>2 DEF BatchRoom
      <3>15. \A m \in BatchNames \ {n} : batches'[m] # NoBatch =>
               /\ batches[m] # NoBatch /\ batches'[m].expiresAt = batches[m].expiresAt
               /\ batches'[m].usedSlots = batches[m].usedSlots
               /\ batches'[m].served = batches[m].served
        BY <1>3, <3>9
      <3>16. \A m \in BatchNames : m \notin ExpiredBatches /\ batches[m] # NoBatch
                                   => batches'[m] # NoBatch
        BY <1>3, <3>8, <3>9
      <3>17. pc'[r] \in Reserving
        BY <1>7, WorkersApart DEF Goto, TypeInv, ControlTypeOK, Reserving
      <3>18. Consumes(r)
        BY <1>1, <1>7, <2>1, <3>1, <3>2, <3>4, <3>7, <3>8, <3>9, <3>10, <3>11, <3>12, <3>13, <3>14,
           <3>15, <3>16, <3>17 DEF Consumes, e
      <3>19. QED
        BY <3>18
    <2>4. QED
      BY <2>2, <2>3
  <1>8. QED
    BY <1>2, <1>6, <1>7 DEF B

-----------------------------------------------------------------------------
(* commit, rollback and Release.                                           *)

\* commit makes the consumption of the exit last; r's lease begins.
Confirms(r) ==
    /\ pc[r] \in Reserving /\ pc'[r] \in Leasing /\ UNCHANGED <<call, slot, bres, ipVars>>
    /\ \A p \in Requests \ {r} : pc'[p] = pc[p]
    /\ AllSound'
    /\ \A m \in BatchNames : batches[m] # NoBatch <=> batches'[m] # NoBatch
    /\ \A m \in BatchNames : batches[m] # NoBatch =>
         /\ batches'[m].expiresAt = batches[m].expiresAt
         /\ batches'[m].usedSlots = batches[m].usedSlots
         /\ batches'[m].served = IF bres[r] = "live" /\ m = call[r].uniq
                                 THEN batches[m].served \cup ({slot[r]} \cap batches[m].usedSlots)
                                 ELSE batches[m].served

\* rollback gives r's exit back.
GivesBack(r) ==
    /\ pc[r] \in Reserving /\ pc'[r] = "note" /\ UNCHANGED <<call, slot, ipVars>>
    /\ \A p \in Requests \ {r} : pc'[p] = pc[p]
    /\ AllSound' /\ bres'[r] = "none"
    /\ \A p \in Requests : bres'[p] = "live" =>
         bres[p] = "live" /\ batches'[call[p].uniq] # NoBatch
    /\ \A m \in BatchNames : batches'[m] # NoBatch =>
         /\ batches[m] # NoBatch /\ batches'[m].expiresAt = batches[m].expiresAt
         /\ batches'[m].served = batches[m].served
         /\ batches'[m].usedSlots = IF bres[r] = "live" /\ m = call[r].uniq
                                    THEN batches[m].usedSlots \ {slot[r]} ELSE batches[m].usedSlots

\* Release consumes nothing and gives nothing back.
Leaves(r) ==
    /\ pc[r] \in Leasing /\ UNCHANGED <<batches, ipVars>> /\ bres' = [bres EXCEPT ![r] = "none"]
    /\ \A p \in Requests \ {r} : pc'[p] = pc[p] /\ slot'[p] = slot[p] /\ call'[p] = call[p]

LEMMA CommitKinds ==
    ASSUME TypeInv, AllSound, Pointed, NEW r \in Requests, CommitAcquisition(r)
    PROVE  Confirms(r)
  <1> DEFINE n == call[r].uniq
             b == batches[n]
             q == [b EXCEPT !.served = @ \cup ({slot[r]} \cap b.usedSlots)]
  <1>1. /\ pc[r] \in Reserving /\ slot[r] \in Slots /\ UNCHANGED <<call, slot, bres, ipVars>>
        /\ batches' = IF bres[r] = "live" THEN [batches EXCEPT ![n] = q] ELSE batches
    BY DEF CommitAcquisition, OwnsBatch, TypeInv, WorkOK, callVars, Reserving
  <1>2. pc'[r] \in Leasing /\ \A p \in Requests \ {r} : pc'[p] = pc[p]
    BY WorkersApart DEF CommitAcquisition, Goto, TypeInv, ControlTypeOK, Leasing
  <1>3. CASE bres[r] # "live"
    <2>1. batches' = batches
      BY <1>1, <1>3
    <2>2. AllSound'
      BY <1>1, <2>1 DEF AllSound, BatchTypeOK, Sound, ipVars
    <2>3. QED
      BY <1>1, <1>2, <1>3, <2>1, <2>2 DEF Confirms
  <1>4. CASE bres[r] = "live"
    <2>1. n \in BatchNames /\ b # NoBatch /\ Sound(b)
      BY <1>4 DEF Pointed, AllSound
    <2>2. batches' = [batches EXCEPT ![n] = q]
      BY <1>1, <1>4
    <2> HIDE DEF b
    <2>3. /\ q \in BatchType /\ q.usedSlots = b.usedSlots /\ q.slotIPs = b.slotIPs
          /\ q.burned = b.burned /\ q.expiresAt = b.expiresAt
          /\ q.served = b.served \cup ({slot[r]} \cap b.usedSlots)
      BY <1>1, <2>1 DEF Sound, SaneBatch, BatchType
    <2> HIDE DEF q
    <2>4. Sound(q) /\ q # NoBatch
      BY <2>1, <2>3, BatchApart DEF Sound, SaneBatch, usedIPs
    <2>5. /\ batches'[n] = q /\ \A m \in BatchNames \ {n} : batches'[m] = batches[m]
          /\ batches' \in [BatchNames -> BatchType \cup {NoBatch}]
      BY <2>1, <2>2, <2>3 DEF AllSound, BatchTypeOK
    <2>6. AllSound'
      BY <1>1, <2>4, <2>5 DEF AllSound, BatchTypeOK, Sound, ipVars
    <2>7. QED
      BY <1>1, <1>2, <1>4, <2>1, <2>3, <2>4, <2>5, <2>6 DEF Confirms, b
  <1>5. QED
    BY <1>3, <1>4

LEMMA RollbackKinds ==
    ASSUME TypeInv, AllSound, Pointed, NEW r \in Requests, RollbackAcquisition(r)
    PROVE  GivesBack(r)
  <1> DEFINE n == call[r].uniq
             f == release(batches[n], slot[r])
             b == OrDropped(f)
  <1>1. /\ pc[r] \in Reserving /\ slot[r] \in Slots /\ UNCHANGED <<call, slot, ipVars>>
        /\ IF bres[r] = "live"
           THEN /\ batches' = [batches EXCEPT ![n] = b]
                /\ bres' = [Orphaned(IF b = NoBatch THEN {n} ELSE {}) EXCEPT ![r] = "none"]
           ELSE bres' = [bres EXCEPT ![r] = "none"] /\ UNCHANGED batches
    BY DEF RollbackAcquisition, OwnsBatch, TypeInv, WorkOK, callVars, Reserving
  <1>2. pc'[r] = "note" /\ \A p \in Requests \ {r} : pc'[p] = pc[p]
    BY WorkersApart DEF RollbackAcquisition, Goto, TypeInv, ControlTypeOK
  <1>3. CASE bres[r] # "live"
    <2>1. UNCHANGED batches /\ bres' = [bres EXCEPT ![r] = "none"]
      BY <1>1, <1>3
    <2>2. AllSound'
      BY <1>1, <2>1 DEF AllSound, BatchTypeOK, Sound, ipVars
    <2>3. bres'[r] = "none" /\ \A p \in Requests : bres'[p] = "live" => bres[p] = "live"
      BY <2>1 DEF AllSound, BatchTypeOK
    <2>4. QED
      BY <1>1, <1>2, <1>3, <2>1, <2>2, <2>3 DEF GivesBack, Pointed
  <1>4. CASE bres[r] = "live"
    <2> DEFINE D == IF b = NoBatch THEN {n} ELSE {}
    <2>1. n \in BatchNames /\ batches[n] # NoBatch /\ Sound(batches[n])
      BY <1>4 DEF Pointed, AllSound
    <2>2. batches' = [batches EXCEPT ![n] = b] /\ bres' = [Orphaned(D) EXCEPT ![r] = "none"]
      BY <1>1, <1>4
    <2>3. /\ Sound(f) /\ f.usedSlots = batches[n].usedSlots \ {slot[r]}
          /\ f.served = batches[n].served /\ f.expiresAt = batches[n].expiresAt
      BY <1>1, <2>1, ReleaseSound
    <2> HIDE DEF f
    <2>4. b = NoBatch \/ b = f
      BY DEF OrDropped
    <2>5. b # NoBatch => Sound(b) /\ b = f
      BY <2>3, <2>4
    <2> HIDE DEF b
    <2>6. /\ batches'[n] = b /\ \A m \in BatchNames \ {n} : batches'[m] = batches[m]
          /\ batches' \in [BatchNames -> BatchType \cup {NoBatch}]
      BY <2>1, <2>2, <2>5 DEF AllSound, BatchTypeOK, Sound, SaneBatch
    <2>7. /\ bres' \in [Requests -> {"none", "live", "stale"}] /\ bres'[r] = "none"
          /\ \A p \in Requests : bres'[p] = "live" => bres[p] = "live" /\ call[p].uniq \notin D
      <3>1. /\ Orphaned(D) \in [Requests -> {"none", "live", "stale"}]
            /\ \A p \in Requests : Orphaned(D)[p] = "live" => bres[p] = "live" /\ call[p].uniq \notin D
        BY OrphanedPointers DEF AllSound
      <3> HIDE DEF D
      <3>2. QED
        BY <2>2, <3>1
    <2>8. AllSound'
      BY <1>1, <2>5, <2>6, <2>7 DEF AllSound, BatchTypeOK, Sound, ipVars
    <2>9. \A p \in Requests : bres'[p] = "live" =>
            bres[p] = "live" /\ batches'[call[p].uniq] # NoBatch
      BY <2>6, <2>7 DEF Pointed
    <2>10. QED
      BY <1>1, <1>2, <1>4, <2>1, <2>3, <2>5, <2>6, <2>7, <2>8, <2>9 DEF GivesBack
  <1>5. QED
    BY <1>3, <1>4

\* The kinds of steps without a complaint, and with one.
CalmMove == \/ Fades({})
            \/ \E r \in Requests : Consumes(r) \/ Confirms(r) \/ GivesBack(r) \/ Leaves(r)
BatchMove == CalmMove \/ \E s \in Slots : Fades({s})

LEMMA CalmKinds ==
    ASSUME TypeInv, SessionTypeOK, HealthTypeOK, AllSound, Pointed, now \in Nat, [Calm]_vars
    PROVE  CalmMove
  <1>1. ASSUME NEW r \in Requests, Release(r)
        PROVE  Leaves(r)
    <2>1. /\ pc[r] \in Leasing /\ UNCHANGED <<batches, ipVars>> /\ bres' = [bres EXCEPT ![r] = "none"]
          /\ Return(r)
      BY <1>1 DEF Release, Leasing
    <2>2. \A p \in Requests \ {r} : pc'[p] = pc[p] /\ slot'[p] = slot[p] /\ call'[p] = call[p]
      BY <2>1, WorkersApart DEF Return, ResetWork, Goto, TypeInv, ControlTypeOK
    <2>3. QED
      BY <2>1, <2>2 DEF Leaves
  <1>2. CASE \E r \in Requests : \/ PickSlot(r) \/ CommitAcquisition(r)
                                 \/ RollbackAcquisition(r) \/ Release(r)
    BY <1>1, <1>2, PickKinds, CommitKinds, RollbackKinds DEF CalmMove
  <1>3. CASE ClaimsStay /\ ~\E r \in Requests : \/ PickSlot(r) \/ CommitAcquisition(r)
                                                \/ RollbackAcquisition(r) \/ Release(r)
    <2>1. ASSUME NEW r \in Requests, PickNothing(r)
          PROVE  Fades({})
      BY <1>3, <2>1, ExpiryFades DEF PickNothing
    <2>2. ASSUME NEW s \in Slots, IPMeasured(s) \/ ProbeMeasures(s)
          PROVE  Fades({})
      BY <1>3, <2>2, MeasurementFades DEF IPMeasured, ProbeMeasures
    <2>3. CASE Housekeep \/ Expires
      BY <1>3, <2>3, ExpiryFades DEF Housekeep, Expires, CalmMove
    <2>4. ASSUME NEW in \in PreferType, Prefer(in)
          PROVE  Fades({})
      BY <1>3, <2>4, AsideFades DEF Prefer
    <2>5. CASE UNCHANGED <<batchVars, healthVars, ipVars>>
      BY <1>3, <2>5, AsideFades DEF CalmMove
    <2>6. QED
      BY <1>3, <2>1, <2>2, <2>3, <2>4, <2>5, CalmWriters DEF CalmWriter, CalmMove
  <1>4. QED
    BY <1>2, <1>3, ClaimSteps, CalmIsAny

LEMMA BatchKinds ==
    ASSUME TypeInv, SessionTypeOK, HealthTypeOK, AllSound, Pointed, now \in Nat, [AnyNext]_vars
    PROVE  /\ BatchMove
           /\ \/ CalmMove
              \/ \E in \in ReportType : Report(in) /\ Fades({AboutSlot(in)})
  <1>1. ASSUME NEW in \in ReportType, Report(in)
        PROVE  AboutSlot(in) \in Slots /\ Fades({AboutSlot(in)})
    <2>1. UNCHANGED <<pc, slot, call>>
      BY <1>1 DEF Report, callVars
    <2>2. ClaimsStay
      BY <2>1 DEF ClaimsStay
    <2>3. QED
      BY <1>1, <2>2, ComplaintFades
  <1>2. QED
    BY <1>1, CalmKinds DEF AnyNext, BatchMove

-----------------------------------------------------------------------------
(* What holds of every behaviour.                                          *)

BatchInv == /\ SessionInv /\ HealthTypeOK /\ Rings
            /\ AllSound /\ Pointed /\ BatchLimit

\* A new pool has no batches.
LEMMA BatchBlank == Blank /\ now \in Nat /\ HealthTypeOK /\ Rings => BatchInv
  <1> SUFFICES ASSUME Blank, now \in Nat, HealthTypeOK, Rings PROVE BatchInv
    OBVIOUS
  <1>1. AllSound /\ Pointed
    BY DEF Blank, AllSound, BatchTypeOK, Pointed
  <1>2. BatchLimit
    <2>1. {n \in BatchNames : batches[n] # NoBatch} = {}
      BY DEF Blank
    <2>2. opts.MaxUniqueBatches \in Nat
      BY InputAssumption DEF Options
    <2>3. QED
      BY <2>1, <2>2, FS_EmptySet DEF BatchLimit
  <1>3. QED
    BY <1>1, <1>2, SessionBlank DEF BatchInv

LEMMA BatchInit == Init => BatchInv
  <1> SUFFICES ASSUME Init PROVE BatchInv
    OBVIOUS
  <1>1. HealthTypeOK
    BY InputAssumption DEF Init, HealthTypeOK
  <1>2. Rings
    BY InputAssumption DEF Init, Rings, SaneRing, Options
  <1>3. QED
    BY <1>1, <1>2, InitBlank, BatchBlank

\* Pointers lead to the map.
LEMMA PointedNext ==
    ASSUME AllSound, Pointed, BatchMove
    PROVE  AllSound' /\ Pointed'
  <1>1. ASSUME NEW T, Fades(T)
        PROVE  AllSound' /\ Pointed'
    BY <1>1 DEF Fades, Pointed, ClaimsStay
  <1>2. ASSUME NEW r \in Requests, Consumes(r)
        PROVE  AllSound' /\ Pointed'
    <2>1. /\ AllSound' /\ UNCHANGED call /\ pc'[r] \in Reserving /\ call[r].uniq \in BatchNames
          /\ batches'[call[r].uniq] # NoBatch
          /\ \A p \in Requests \ {r} : pc'[p] = pc[p]
          /\ \A m \in BatchNames : m \notin ExpiredBatches /\ batches[m] # NoBatch => batches'[m] # NoBatch
          /\ bres' = [Orphaned(ExpiredBatches) EXCEPT ![r] = "live"]
      BY <1>2 DEF Consumes
    <2>2. ASSUME NEW p \in Requests \ {r}, bres'[p] = "live"
          PROVE  bres[p] = "live" /\ call[p].uniq \notin ExpiredBatches
      <3>1. Orphaned(ExpiredBatches)[p] = "live"
        BY <2>1, <2>2
      <3>2. QED
        BY <3>1, OrphanedPointers DEF AllSound
    <2>3. QED
      BY <2>1, <2>2 DEF Pointed
  <1>3. ASSUME NEW r \in Requests, Confirms(r)
        PROVE  AllSound' /\ Pointed'
    BY <1>3 DEF Confirms, Pointed
  <1>4. ASSUME NEW r \in Requests, GivesBack(r)
        PROVE  AllSound' /\ Pointed'
    BY <1>4 DEF GivesBack, Pointed
  <1>5. ASSUME NEW r \in Requests, Leaves(r)
        PROVE  AllSound' /\ Pointed'
    BY <1>5 DEF Leaves, Pointed, AllSound, BatchTypeOK, Sound, ipVars
  <1>6. QED
    BY <1>1, <1>2, <1>3, <1>4, <1>5 DEF BatchMove, CalmMove

\* Only pick adds a batch to the map, and only where there is room.
LEMMA LimitNext ==
    ASSUME BatchLimit, BatchMove
    PROVE  BatchLimit'
  <1> DEFINE old == {n \in BatchNames : batches[n] # NoBatch}
             new == {n \in BatchNames : batches'[n] # NoBatch}
  <1>1. opts.MaxUniqueBatches \in Nat /\ Cardinality(old) <= opts.MaxUniqueBatches
    BY InputAssumption DEF BatchLimit, Options
  <1>2. /\ IsFiniteSet(old) /\ Cardinality(old) \in Nat
        /\ IsFiniteSet(new) /\ Cardinality(new) \in Nat
    BY FS_Subset, FS_CardinalityType, FiniteAssumption
  <1>3. ASSUME new \subseteq old
        PROVE  BatchLimit'
    <2>1. Cardinality(new) <= Cardinality(old)
      BY <1>2, <1>3, FS_Subset
    <2> HIDE DEF old
    <2>2. QED
      BY <1>1, <1>2, <2>1 DEF BatchLimit
  <1>4. ASSUME NEW n \in BatchNames, n \in new, Cardinality(new \ {n}) < opts.MaxUniqueBatches
        PROVE  BatchLimit'
    <2>1. Cardinality(new \ {n}) = Cardinality(new) - 1
      BY <1>2, <1>4, FS_RemoveElement
    <2>2. QED
      BY <1>1, <1>2, <1>4, <2>1 DEF BatchLimit
  <1>5. CASE \/ \E T : Fades(T)
             \/ \E r \in Requests : Confirms(r) \/ GivesBack(r) \/ Leaves(r)
             \/ \E r \in Requests : Consumes(r) /\ batches[call[r].uniq] # NoBatch
    <2>1. new \subseteq old
      BY <1>5 DEF Fades, Confirms, GivesBack, Leaves, Consumes
    <2>2. QED
      BY <1>3, <2>1
  <1>6. ASSUME NEW r \in Requests, Consumes(r), batches[call[r].uniq] = NoBatch
        PROVE  BatchLimit'
    BY <1>4, <1>6 DEF Consumes
  <1>7. QED
    BY <1>5, <1>6 DEF BatchMove, CalmMove

LEMMA BatchNext == BatchInv /\ [AnyNext]_vars => BatchInv'
  <1> SUFFICES ASSUME BatchInv, [AnyNext]_vars PROVE BatchInv'
    OBVIOUS
  <1>1. SessionInv /\ TypeInv /\ SessionTypeOK /\ now \in Nat
    BY DEF BatchInv, SessionInv, TunnelInv, LeaseInv, TunnelTypeOK
  <1>2. SessionInv'
    BY <1>1, SessionNext
  <1>3. HealthTypeOK' /\ Rings'
    BY <1>1, HealthNext DEF BatchInv
  <1>4. BatchMove
    BY <1>1, BatchKinds DEF BatchInv
  <1>5. QED
    BY <1>2, <1>3, <1>4, PointedNext, LimitNext DEF BatchInv

\* Every variable of the pool keeps its type: no counter goes below zero, no batch or ring
\* holds anything but slots and addresses, and every process knows what it works on.
THEOREM AllTypes == Spec => []TypeOK
  <1>1. BatchInv => TypeOK
    BY DEF BatchInv, AllSound, SessionInv, TunnelInv, LeaseInv, TypeInv, TypeOK
  <1>2. QED
    BY <1>1, BatchInit, BatchNext, NextIsAny, PTL DEF Spec

\* reserve, addIP, release, stampLocked and setPublicIPLocked never let usedIPs and slotIPs
\* of a batch drift apart, and an address is in the burn order once, for any number of
\* slots behind one address and any order of measurements, complaints and rollbacks.
THEOREM BatchesAgree == Spec => []BatchConsistent
  <1>1. BatchInv => BatchConsistent
    BY DEF BatchInv, AllSound, Sound, SaneBatch, Once, BatchConsistent
  <1>2. QED
    BY <1>1, BatchInit, BatchNext, NextIsAny, PTL DEF Spec

\* max_unique_batches bounds the map of batches (reserveBatchLocked).
THEOREM BatchesBounded == Spec => []BatchLimit
  <1>1. BatchInv => BatchLimit
    BY DEF BatchInv
  <1>2. QED
    BY <1>1, BatchInit, BatchNext, NextIsAny, PTL DEF Spec

\* remember, removeIP, rotateToTail and prune, in any order, keep a scope's ring within
\* preferred_max and free of duplicate addresses.
THEOREM RingsSane == Spec => []RingSane
  <1>1. BatchInv => RingSane
    BY DEF BatchInv, Rings, SaneRing, RingSane
  <1>2. QED
    BY <1>1, BatchInit, BatchNext, NextIsAny, PTL DEF Spec

\* setPublicIPLocked reaches every batch: the address an exit has now is consumed wherever
\* the slot is.  What a rollback or a complaint may take from a batch is its slots
\* (ServedStays); no measurement takes anything else.
THEOREM MeasurementsReach == Spec => [](ServedStays => MeasuredStays)
  <1>1. BatchInv => (ServedStays => MeasuredStays)
    <2> SUFFICES ASSUME BatchInv, ServedStays, NEW n \in BatchNames, batches[n] # NoBatch,
                        NEW s \in batches[n].served
                 PROVE  s \in batches[n].usedSlots /\ publicIP[s] \in usedIPs(batches[n])
      BY DEF MeasuredStays
    <2> DEFINE b == batches[n]
    <2>1. s \in b.usedSlots
      BY DEF ServedStays
    <2>2. Sound(b)
      BY DEF BatchInv, AllSound
    <2> HIDE DEF b
    <2>3. <<s, publicIP[s]>> \in b.slotIPs
      BY <2>1, <2>2 DEF Sound
    <2>4. <<s, publicIP[s]>>[2] \in {pair[2] : pair \in b.slotIPs}
      BY <2>3, Zenon
    <2>5. QED
      BY <2>1, <2>2, <2>4 DEF Sound, SaneBatch, b
  <1>2. QED
    BY <1>1, BatchInit, BatchNext, NextIsAny, PTL DEF Spec

-----------------------------------------------------------------------------
(* What a batch promises.  A complaint and recycle= take back on purpose   *)
(* what was given out; and at the very instant a batch runs out, pick      *)
(* takes it for gone (now.Before) while expireLocked still keeps it        *)
(* (now.After), so that instant is left out: no lifetime is a multiple of  *)
(* the clock's step.                                                       *)

NothingTakenBack == ReportInputs = {} /\ \A c \in Calls : ~c.recycle
NeverTheInstant  == \A c \in Calls : \A k \in Nat : batchTTL(c) # k * ClockStep

\* Exits whose address is known keep it.
AddressesStay ==
    \A s \in Slots : \A x, y \in ExitIPs[s] \cup ({InitialIP[s]} \ {NoIP}) : x = y

OffBeat == \A n \in BatchNames : batches[n] # NoBatch =>
              \A k \in Nat : batches[n].expiresAt # now + k * ClockStep

\* What is served or being served is consumed, by one request each.
Exclusive ==
    /\ ServedStays
    /\ \A r \in Requests : bres[r] = "live" =>
         /\ slot[r] \in batches[call[r].uniq].usedSlots
         /\ pc[r] \in Reserving => slot[r] \notin batches[call[r].uniq].served
    /\ \A q, r \in Requests :
         bres[q] = "live" /\ bres[r] = "live" /\ call[q].uniq = call[r].uniq /\ q # r
           => slot[q] # slot[r]

\* The clock ticks, or it stands still.
LEMMA ClockMoves ==
    ASSUME [AnyNext]_vars
    PROVE  now' = now \/ (now' = now + ClockStep /\ UNCHANGED batchVars)
  <1>1. CASE UNCHANGED vars \/ Tick \/ DrainDone \/ CloseReturns \/ Close \/ RefreshIP \/ Housekeep
             \/ Expires
    BY <1>1 DEF vars, Tick, DrainDone, CloseReturns, Close, RefreshIP, Housekeep, Expires
  <1>2. ASSUME NEW p, Cancel(p) \/ Rotate(p) \/ Report(p) \/ Prefer(p) \/ Warmup(p) \/ Probe(p)
        PROVE  now' = now
    BY <1>2 DEF Cancel, Rotate, Report, Prefer, Warmup, Probe
  <1>3. ASSUME NEW r \in Requests, Acquirer(r) \/ Holder(r)
        PROVE  now' = now
    BY <1>3 DEF Acquirer, Holder, PickNothing, PickSlot, CommitAcquisition, CheckLeasedIP,
       RollbackAcquisition, NoteAcquireFailure, DropSession, DialSucceeds, NoteDialFailure, Release
  <1>4. ASSUME NEW r \in Requests, NEW c \in Calls, Start(r, c)
        PROVE  now' = now
    BY <1>4 DEF Start
  <1>5. ASSUME NEW p \in Procs, Opener(p)
        PROVE  now' = now
    BY <1>5 DEF Opener, EnsureDialer, NextEntry, EnsureOpenUp, EnsureOpenWait, EnsureOpenReserve,
       EnsureOpenRefused, WakeUp, AbortOpen, AbortOpenDone, CommitTunnelOpen, OpenSucceeds,
       OpenFails
  <1>6. ASSUME NEW h \in Holders, WarmupRuns(h) \/ WarmupDone(h)
        PROVE  now' = now
    BY <1>6 DEF WarmupRuns, WarmupDone
  <1>7. ASSUME NEW s \in Slots, IPCheck(s) \/ Probing(s)
        PROVE  now' = now
    BY <1>7 DEF IPCheck, IPCheckAdmitted, IPCheckFails, IPMeasured, Probing, ProbeRuns,
       ProbeReserve, ProbeRefused, ProbeContacts, ProbeGoesOn, ProbeMeasures, ProbeReleases,
       ProbeFails
  <1>8. CASE Serve
    BY <1>1, <1>2, <1>3, <1>4, <1>5, <1>6, <1>7, <1>8 DEF Serve, Working
  <1>9. QED
    BY <1>1, <1>2, <1>8 DEF AnyNext, Calm

\* No batch meets the instant it runs out.
LEMMA OffBeatNext ==
    ASSUME NeverTheInstant, now \in Nat, OffBeat, BatchMove, [AnyNext]_vars, AllSound, AllSound'
    PROVE  OffBeat'
  <1>1. ASSUME NEW e \in Nat, NEW k \in Nat, e = (now + ClockStep) + k * ClockStep
        PROVE  \E j \in Nat : e = now + j * ClockStep
    <2>1. ClockStep \in Nat /\ k + 1 \in Nat
      BY InputAssumption
    <2>2. (k + 1) * ClockStep = k * ClockStep + ClockStep
      BY <2>1
    <2>3. k * ClockStep \in Nat
      BY <2>1
    <2>4. e = now + (k + 1) * ClockStep
      BY <1>1, <2>1, <2>2, <2>3
    <2>5. QED
      BY <2>1, <2>4
  <1>2. CASE now' = now + ClockStep /\ UNCHANGED batchVars
    <2>1. \A n \in BatchNames : batches[n] # NoBatch => batches[n].expiresAt \in Nat
      BY DEF AllSound, Sound, SaneBatch, BatchType
    <2>2. QED
      BY <1>1, <1>2, <2>1 DEF OffBeat, batchVars
  <1>3. CASE now' = now
    <2>1. ASSUME NEW n \in BatchNames, batches'[n] # NoBatch, batches[n] # NoBatch,
                 batches'[n].expiresAt = batches[n].expiresAt
          PROVE  \A k \in Nat : batches'[n].expiresAt # now + k * ClockStep
      BY <2>1 DEF OffBeat
    <2>2. ASSUME NEW c \in Calls, NEW k \in Nat
          PROVE  now + batchTTL(c) # now + k * ClockStep
      <3>1. batchTTL(c) \in Nat /\ ClockStep \in Nat /\ batchTTL(c) # k * ClockStep
        BY CallTypes, InputAssumption DEF NeverTheInstant
      <3>2. k * ClockStep \in Nat
        BY <3>1
      <3>3. QED
        BY <3>1, <3>2
    <2>3. ASSUME NEW r \in Requests, Consumes(r), NEW n \in BatchNames, batches'[n] # NoBatch
          PROVE  \A k \in Nat : batches'[n].expiresAt # now + k * ClockStep
      <3>1. CASE n = call[r].uniq
        <4>1. call[r] \in Calls /\ batches'[n].expiresAt = now + batchTTL(call[r])
          BY <2>3, <3>1 DEF Consumes
        <4>2. QED
          BY <2>2, <4>1
      <3>2. CASE n # call[r].uniq
        BY <2>1, <2>3, <3>2 DEF Consumes
      <3>3. QED
        BY <3>1, <3>2
    <2>4. ASSUME ~\E r \in Requests : Consumes(r), NEW n \in BatchNames, batches'[n] # NoBatch
          PROVE  batches[n] # NoBatch /\ batches'[n].expiresAt = batches[n].expiresAt
      BY <2>4 DEF BatchMove, CalmMove, Fades, Confirms, GivesBack, Leaves
    <2>5. QED
      BY <1>3, <2>1, <2>3, <2>4 DEF OffBeat
  <1>4. QED
    BY <1>2, <1>3, ClockMoves

\* Request r does not ask for a recycled exit, nor at the instant its batch runs out.
Proper(r) == /\ ~call[r].recycle
             /\ batches[call[r].uniq] # NoBatch => batches[call[r].uniq].expiresAt # now

\* No exit that a request of a batch is on is taken from it, and picks are proper.
GentleMove == /\ CalmMove \/ \E s \in Slots :
                              Fades({s}) /\ \A r \in Requests : bres[r] = "live" => slot[r] # s
              /\ \A r \in Requests : Consumes(r) => Proper(r)

\* pick of a batch that goes on finds an exit new to it.
LEMMA ConsumesNew ==
    ASSUME AllSound, Pointed, now \in Nat, NEW r \in Requests, Consumes(r), Proper(r)
    PROVE  LET n == call[r].uniq
               s == slot'[r]
           IN
           /\ n \in BatchNames
           /\ \A p \in Requests \ {r} : bres'[p] = "live" =>
                /\ bres[p] = "live" /\ pc'[p] = pc[p] /\ slot'[p] = slot[p] /\ call'[p] = call[p]
                /\ call[p].uniq \in BatchNames \ ExpiredBatches /\ batches[call[p].uniq] # NoBatch
           /\ n \notin ExpiredBatches /\ batches[n] # NoBatch =>
                /\ s \notin batches[n].usedSlots /\ publicIP[s] \notin usedIPs(batches[n])
                /\ batches'[n].usedSlots = batches[n].usedSlots \cup {s}
                /\ batches'[n].served = batches[n].served
  <1> DEFINE n == call[r].uniq
             s == slot'[r]
  <1>1. n \in BatchNames /\ call[r] \in Calls
    BY DEF Consumes
  <1>2. ASSUME NEW p \in Requests \ {r}, bres'[p] = "live"
        PROVE  /\ bres[p] = "live" /\ pc'[p] = pc[p] /\ slot'[p] = slot[p] /\ call'[p] = call[p]
               /\ call[p].uniq \in BatchNames \ ExpiredBatches /\ batches[call[p].uniq] # NoBatch
    <2>1. Orphaned(ExpiredBatches)[p] = "live"
      BY <1>2 DEF Consumes
    <2>2. bres[p] = "live" /\ call[p].uniq \notin ExpiredBatches
      BY <2>1, OrphanedPointers DEF AllSound
    <2>3. QED
      BY <1>2, <2>2 DEF Consumes, Pointed
  <1>3. ASSUME n \notin ExpiredBatches, batches[n] # NoBatch
        PROVE  /\ s \notin batches[n].usedSlots /\ publicIP[s] \notin usedIPs(batches[n])
               /\ batches'[n].usedSlots = batches[n].usedSlots \cup {s}
               /\ batches'[n].served = batches[n].served
    <2>1. batches[n].expiresAt \in Nat
      BY <1>1, <1>3 DEF AllSound, Sound, SaneBatch, BatchType
    <2>2. now < batches[n].expiresAt
      BY <1>1, <1>3, <2>1 DEF ExpiredBatches, Proper
    <2>3. QED
      BY <1>3, <2>2 DEF Consumes, Proper
  <1>4. QED
    BY <1>1, <1>2, <1>3

LEMMA ExclusiveNext ==
    ASSUME AllSound, Pointed, now \in Nat, Exclusive, GentleMove
    PROVE  Exclusive'
  <1>1. ASSUME NEW T, Fades(T), \A r \in Requests : bres[r] = "live" => slot[r] \notin T
        PROVE  Exclusive'
    <2>1. \A n \in BatchNames : batches'[n] # NoBatch =>
            /\ batches[n] # NoBatch /\ batches'[n].usedSlots = batches[n].usedSlots \ T
            /\ batches'[n].served = batches[n].served \ (T \cap batches[n].usedSlots)
      BY <1>1 DEF Fades
    <2>2. \A r \in Requests : bres'[r] = "live" =>
            /\ bres[r] = "live" /\ call[r].uniq \in BatchNames /\ batches'[call[r].uniq] # NoBatch
            /\ pc'[r] \in Reserving => pc[r] \in Reserving
            /\ call'[r] = call[r] /\ slot'[r] = slot[r] /\ slot[r] \notin T
      BY <1>1 DEF Fades, ClaimsStay, Pointed
    <2>3. ServedStays'
      BY <2>1 DEF Exclusive, ServedStays
    <2>4. QED
      BY <2>1, <2>2, <2>3 DEF Exclusive
  <1>2. ASSUME NEW r \in Requests, Consumes(r), Proper(r)
        PROVE  Exclusive'
    <2> DEFINE n == call[r].uniq
               s == slot'[r]
               others == {p \in Requests \ {r} : bres'[p] = "live"}
    <2>1. /\ n \in BatchNames /\ s \in Slots /\ call'[r] = call[r]
          /\ \A p \in others :
               /\ bres[p] = "live" /\ pc'[p] = pc[p] /\ slot'[p] = slot[p] /\ call'[p] = call[p]
               /\ call[p].uniq \in BatchNames \ ExpiredBatches /\ batches[call[p].uniq] # NoBatch
      BY <1>2, ConsumesNew DEF Consumes
    <2>2. ASSUME NEW m \in BatchNames \ {n}, batches'[m] # NoBatch
          PROVE  /\ batches[m] # NoBatch /\ batches'[m].usedSlots = batches[m].usedSlots
                 /\ batches'[m].served = batches[m].served
      BY <1>2, <2>2 DEF Consumes
    <2>3. \A m \in BatchNames : m \notin ExpiredBatches /\ batches[m] # NoBatch => batches'[m] # NoBatch
      BY <1>2 DEF Consumes
    <2>4. CASE n \in ExpiredBatches \/ batches[n] = NoBatch
      <3>1. batches'[n].usedSlots = {s} /\ batches'[n].served = {}
        BY <1>2, <2>4 DEF Consumes
      <3>2. \A p \in others : call[p].uniq # n
        BY <2>1, <2>4
      <3>3. ServedStays'
        BY <2>1, <2>2, <3>1 DEF Exclusive, ServedStays
      <3>4. ASSUME NEW p \in Requests, bres'[p] = "live"
            PROVE  /\ slot'[p] \in batches'[call'[p].uniq].usedSlots
                   /\ pc'[p] \in Reserving => slot'[p] \notin batches'[call'[p].uniq].served
        <4>1. CASE p = r
          BY <2>1, <3>1, <4>1
        <4>2. CASE p # r
          BY <2>1, <2>2, <2>3, <3>2, <3>4, <4>2 DEF Exclusive
        <4>3. QED
          BY <4>1, <4>2
      <3>5. ASSUME NEW p \in Requests, NEW q \in Requests, bres'[p] = "live", bres'[q] = "live",
                   call'[p].uniq = call'[q].uniq, p # q
            PROVE  slot'[p] # slot'[q]
        BY <2>1, <3>2, <3>5 DEF Exclusive
      <3>6. QED
        BY <3>3, <3>4, <3>5 DEF Exclusive
    <2>5. CASE n \notin ExpiredBatches /\ batches[n] # NoBatch
      <3>1. /\ s \notin batches[n].usedSlots /\ batches'[n].served = batches[n].served
            /\ batches'[n].usedSlots = batches[n].usedSlots \cup {s}
        BY <1>2, <2>5, ConsumesNew
      <3>2. s \notin batches[n].served
        BY <2>1, <2>5, <3>1 DEF Exclusive, ServedStays
      <3>3. ServedStays'
        BY <2>1, <2>2, <2>5, <3>1 DEF Exclusive, ServedStays
      <3>4. ASSUME NEW p \in Requests, bres'[p] = "live"
            PROVE  /\ slot'[p] \in batches'[call'[p].uniq].usedSlots
                   /\ pc'[p] \in Reserving => slot'[p] \notin batches'[call'[p].uniq].served
        <4>1. CASE p = r
          BY <2>1, <3>1, <3>2, <4>1
        <4>2. CASE p # r
          BY <2>1, <2>2, <2>3, <3>1, <3>4, <4>2 DEF Exclusive
        <4>3. QED
          BY <4>1, <4>2
      <3>5. ASSUME NEW p \in others, call[p].uniq = n
            PROVE  slot'[p] # s
        BY <2>1, <3>1, <3>5 DEF Exclusive
      <3>6. ASSUME NEW p \in Requests, NEW q \in Requests, bres'[p] = "live", bres'[q] = "live",
                   call'[p].uniq = call'[q].uniq, p # q
            PROVE  slot'[p] # slot'[q]
        BY <2>1, <3>5, <3>6 DEF Exclusive
      <3>7. QED
        BY <3>3, <3>4, <3>6 DEF Exclusive
    <2>6. QED
      BY <2>4, <2>5
  <1>3. ASSUME NEW r \in Requests, Confirms(r)
        PROVE  Exclusive'
    <2>1. /\ UNCHANGED <<call, slot, bres>> /\ pc'[r] \notin Reserving
          /\ \A p \in Requests \ {r} : pc'[p] = pc[p]
      BY <1>3, ClaimSets DEF Confirms
    <2>2. \A m \in BatchNames : batches'[m] # NoBatch =>
            /\ batches[m] # NoBatch /\ batches'[m].usedSlots = batches[m].usedSlots
            /\ batches'[m].served = IF bres[r] = "live" /\ m = call[r].uniq
                                    THEN batches[m].served \cup ({slot[r]} \cap batches[m].usedSlots)
                                    ELSE batches[m].served
      BY <1>3 DEF Confirms
    <2>3. ServedStays'
      BY <2>2 DEF Exclusive, ServedStays
    <2>4. \A p \in Requests : bres[p] = "live" =>
            /\ call[p].uniq \in BatchNames /\ batches'[call[p].uniq] # NoBatch
      BY <1>3 DEF Pointed, Confirms
    <2>5. ASSUME NEW p \in Requests, bres[p] = "live"
          PROVE  /\ slot[p] \in batches'[call[p].uniq].usedSlots
                 /\ pc'[p] \in Reserving => slot[p] \notin batches'[call[p].uniq].served
      <3>1. CASE p = r
        BY <2>1, <2>2, <2>4, <2>5, <3>1 DEF Exclusive
      <3>2. CASE p # r
        <4>1. /\ slot[p] \in batches[call[p].uniq].usedSlots
              /\ pc[p] \in Reserving => slot[p] \notin batches[call[p].uniq].served
              /\ bres[r] = "live" /\ call[p].uniq = call[r].uniq => slot[p] # slot[r]
          BY <2>5, <3>2 DEF Exclusive
        <4> DEFINE m == call[p].uniq
        <4>2. /\ m \in BatchNames /\ batches'[m] # NoBatch /\ call'[p] = call[p]
              /\ batches'[m].usedSlots = batches[m].usedSlots
              /\ batches'[m].served = IF bres[r] = "live" /\ m = call[r].uniq
                                      THEN batches[m].served \cup ({slot[r]} \cap batches[m].usedSlots)
                                      ELSE batches[m].served
          BY <2>1, <2>2, <2>4, <2>5
        <4>3. pc'[p] = pc[p]
          BY <2>1, <3>2
        <4> HIDE DEF m
        <4>4. /\ slot[p] \in batches'[m].usedSlots
              /\ pc'[p] \in Reserving => slot[p] \notin batches'[m].served
          BY <4>1, <4>2, <4>3 DEF m
        <4>5. QED
          BY <4>2, <4>4 DEF m
      <3>3. QED
        BY <3>1, <3>2
    <2>6. QED
      BY <2>1, <2>3, <2>5 DEF Exclusive
  <1>4. ASSUME NEW r \in Requests, GivesBack(r)
        PROVE  Exclusive'
    <2>1. /\ UNCHANGED <<call, slot>> /\ bres'[r] = "none"
          /\ \A p \in Requests \ {r} : pc'[p] = pc[p]
          /\ \A p \in Requests : bres'[p] = "live" =>
               bres[p] = "live" /\ call[p].uniq \in BatchNames /\ batches'[call[p].uniq] # NoBatch
      BY <1>4 DEF GivesBack, Pointed
    <2>2. \A m \in BatchNames : batches'[m] # NoBatch =>
            /\ batches[m] # NoBatch /\ batches'[m].served = batches[m].served
            /\ batches'[m].usedSlots = IF bres[r] = "live" /\ m = call[r].uniq
                                       THEN batches[m].usedSlots \ {slot[r]}
                                       ELSE batches[m].usedSlots
      BY <1>4 DEF GivesBack
    <2>3. bres[r] = "live" => slot[r] \notin batches[call[r].uniq].served
      BY <1>4 DEF GivesBack, Exclusive
    <2>4. ServedStays'
      <3>1. ASSUME NEW m \in BatchNames, batches'[m] # NoBatch
            PROVE  batches'[m].served \subseteq batches'[m].usedSlots
        <4>1. batches[m] # NoBatch /\ batches'[m].served = batches[m].served
          BY <2>2, <3>1
        <4>2. batches[m].served \subseteq batches[m].usedSlots
          BY <4>1 DEF Exclusive, ServedStays
        <4>3. CASE bres[r] = "live" /\ m = call[r].uniq
          <5>1. batches'[m].usedSlots = batches[m].usedSlots \ {slot[r]}
            BY <2>2, <3>1, <4>3
          <5>2. slot[r] \notin batches[m].served
            BY <2>3, <4>3
          <5>3. QED
            BY <4>1, <4>2, <5>1, <5>2
        <4>4. CASE ~(bres[r] = "live" /\ m = call[r].uniq)
          <5>1. batches'[m].usedSlots = batches[m].usedSlots
            BY <2>2, <3>1, <4>4
          <5>2. QED
            BY <4>1, <4>2, <5>1
        <4>5. QED
          BY <4>3, <4>4
      <3>2. QED
        BY <3>1 DEF ServedStays
    <2>5. ASSUME NEW p \in Requests, bres'[p] = "live"
          PROVE  /\ slot[p] \in batches'[call[p].uniq].usedSlots
                 /\ pc'[p] \in Reserving => slot[p] \notin batches'[call[p].uniq].served
      <3>1. p # r /\ bres[p] = "live"
        BY <2>1, <2>5
      <3>2. bres[r] = "live" /\ call[p].uniq = call[r].uniq => slot[p] # slot[r]
        BY <3>1 DEF Exclusive
      <3>3. QED
        BY <2>1, <2>2, <2>5, <3>1, <3>2 DEF Exclusive
    <2>6. QED
      BY <2>1, <2>4, <2>5 DEF Exclusive
  <1>5. ASSUME NEW r \in Requests, Leaves(r)
        PROVE  Exclusive'
    <2>1. /\ UNCHANGED batches /\ bres' = [bres EXCEPT ![r] = "none"]
          /\ \A p \in Requests \ {r} : pc'[p] = pc[p] /\ slot'[p] = slot[p] /\ call'[p] = call[p]
      BY <1>5 DEF Leaves
    <2>2. \A p \in Requests : bres'[p] = "live" => p # r /\ bres[p] = "live"
      BY <2>1 DEF AllSound, BatchTypeOK
    <2>3. ServedStays'
      BY <2>1 DEF Exclusive, ServedStays
    <2>4. QED
      BY <2>1, <2>2, <2>3 DEF Exclusive
  <1>6. QED
    BY <1>1, <1>2, <1>3, <1>4, <1>5 DEF GentleMove, CalmMove

HeldInv == BatchInv /\ Exclusive

LEMMA HeldInit == Init => HeldInv
  BY BatchInit DEF Init, HeldInv, Exclusive, ServedStays

LEMMA HeldStep ==
    ASSUME HeldInv, [AnyNext]_vars, GentleMove
    PROVE  HeldInv'
  <1>1. BatchInv' /\ AllSound /\ Pointed /\ now \in Nat
    BY BatchNext DEF HeldInv, BatchInv, SessionInv, TunnelInv, TunnelTypeOK
  <1>2. QED
    BY <1>1, ExclusiveNext DEF HeldInv

\* What is consumed is consumed with the address it has.
LEMMA HeldConsumed == HeldInv => ConsumedStays
  <1> SUFFICES ASSUME HeldInv, NEW n \in BatchNames, batches[n] # NoBatch
               PROVE  /\ batches[n].served \subseteq batches[n].usedSlots
                      /\ \A r \in LiveIn(n) : slot[r] \in batches[n].usedSlots
                      /\ \A s \in batches[n].served \cup {slot[r] : r \in LiveIn(n)} :
                           <<s, publicIP[s]>> \in batches[n].slotIPs
    BY DEF ConsumedStays
  <1>1. /\ batches[n].served \subseteq batches[n].usedSlots
        /\ \A r \in LiveIn(n) : slot[r] \in batches[n].usedSlots
    BY DEF HeldInv, Exclusive, ServedStays, LiveIn
  <1>2. \A s \in batches[n].usedSlots : <<s, publicIP[s]>> \in batches[n].slotIPs
    BY DEF HeldInv, BatchInv, AllSound, Sound
  <1>3. QED
    BY <1>1, <1>2

-----------------------------------------------------------------------------
(* The promise of a batch, for every behaviour in which nobody takes back  *)
(* what is still in use.                                                   *)

\* No complaint is about an exit that a request of a batch is on,
SparesServing == \A in \in ReportType : Report(in) =>
                   \A r \in Requests : bres[r] = "live" => slot[r] # AboutSlot(in)

\* and no request of a batch is given an exit by recycle=, nor at the instant at which
\* its batch runs out.
PicksProperly == \A r \in Requests :
                   pc[r] = "pick" /\ pc'[r] \in Reserving /\ call[r].uniq \in BatchNames => Proper(r)

\* No measurement finds the exit that a request of a batch is on behind a new address.
AddressesHold == \A r \in Requests : bres[r] = "live" /\ bres'[r] = "live"
                                       => publicIP'[slot[r]] = publicIP[slot[r]]

LEMMA GentleStep ==
    ASSUME BatchInv, [AnyNext]_vars, [SparesServing /\ PicksProperly]_vars
    PROVE  GentleMove
  <1>1. /\ TypeInv /\ SessionTypeOK /\ HealthTypeOK /\ AllSound /\ Pointed /\ now \in Nat
    BY DEF BatchInv, SessionInv, TunnelInv, LeaseInv, TunnelTypeOK
  <1>2. ASSUME NEW r \in Requests, Consumes(r)
        PROVE  Proper(r)
    <2>1. /\ pc[r] = "pick" /\ pc'[r] \in Reserving /\ pc'[r] # pc[r] /\ call[r].uniq \in BatchNames
      BY <1>2 DEF Consumes, Reserving, Opening
    <2>2. QED
      BY <2>1 DEF PicksProperly, vars
  <1>3. CASE UNCHANGED vars
    <2>1. CalmMove
      BY <1>1, <1>3, CalmKinds
    <2>2. QED
      BY <1>2, <2>1 DEF GentleMove
  <1>4. CASE SparesServing
    <2>1. ASSUME NEW in \in ReportType, Report(in), Fades({AboutSlot(in)})
          PROVE  AboutSlot(in) \in Slots
      <3>1. UNCHANGED <<pc, slot, call>>
        BY <2>1 DEF Report, callVars
      <3>2. ClaimsStay
        BY <3>1 DEF ClaimsStay
      <3>3. QED
        BY <1>1, <2>1, <3>2, ComplaintFades
    <2>2. QED
      BY <1>1, <1>2, <1>4, <2>1, BatchKinds DEF SparesServing, GentleMove
  <1>5. QED
    BY <1>3, <1>4

\* As long as nobody complains about an exit in use, and no exit is recycled, what a live
\* batch has given out stays consumed, slot and address, until the batch ends: a rollback
\* gives back the exit of its own acquisition only, and a complaint takes one slot.
THEOREM ConsumptionKept ==
    Spec /\ [][SparesServing /\ PicksProperly]_vars => []ConsumedStays
  <1>1. HeldInv /\ [Next]_vars /\ [SparesServing /\ PicksProperly]_vars => HeldInv'
    BY NextIsAny, HeldStep, GentleStep DEF HeldInv
  <1>2. QED
    BY <1>1, HeldInit, HeldConsumed, PTL DEF Spec

-----------------------------------------------------------------------------
(* The same from hypotheses about the inputs alone.                        *)

\* A step that is no complaint takes nothing, and without recycle= every pick is proper.
LEMMA InputsGentle ==
    ASSUME NothingTakenBack, OffBeat, BatchInv, [Next]_vars
    PROVE  GentleMove
  <1>1. /\ TypeInv /\ SessionTypeOK /\ HealthTypeOK /\ AllSound /\ Pointed /\ now \in Nat
    BY DEF BatchInv, SessionInv, TunnelInv, LeaseInv, TunnelTypeOK
  <1>2. [Calm]_vars
    BY InputAssumption DEF NothingTakenBack, Next, Calm
  <1>3. ASSUME NEW r \in Requests, Consumes(r)
        PROVE  Proper(r)
    <2>1. call[r] \in Calls /\ call[r].uniq \in BatchNames
      BY <1>3 DEF Consumes
    <2>2. 0 * ClockStep = 0
      BY InputAssumption
    <2>3. batches[call[r].uniq] # NoBatch => batches[call[r].uniq].expiresAt # now
      BY <1>1, <2>1, <2>2 DEF OffBeat
    <2>4. QED
      BY <2>1, <2>3 DEF NothingTakenBack, Proper
  <1>4. QED
    BY <1>1, <1>2, <1>3, CalmKinds DEF GentleMove

ExclusiveInv == HeldInv /\ OffBeat

LEMMA ExclusiveInit == Init => ExclusiveInv
  BY HeldInit DEF Init, ExclusiveInv, OffBeat

LEMMA ExclusiveStep ==
    ASSUME NothingTakenBack, NeverTheInstant
    PROVE  ExclusiveInv /\ [Next]_vars => ExclusiveInv'
  <1> SUFFICES ASSUME ExclusiveInv, [Next]_vars PROVE ExclusiveInv'
    OBVIOUS
  <1>1. [AnyNext]_vars /\ BatchInv
    BY NextIsAny DEF ExclusiveInv, HeldInv
  <1>2. HeldInv'
    BY <1>1, HeldStep, InputsGentle DEF ExclusiveInv
  <1>3. AllSound /\ AllSound' /\ Pointed /\ now \in Nat
    BY <1>1, <1>2 DEF HeldInv, BatchInv, SessionInv, TunnelInv, TunnelTypeOK
  <1>4. BatchMove
    BY <1>1, BatchKinds DEF BatchInv, SessionInv, TunnelInv, LeaseInv, TunnelTypeOK
  <1>5. OffBeat'
    BY <1>1, <1>3, <1>4, OffBeatNext DEF ExclusiveInv
  <1>6. QED
    BY <1>2, <1>5 DEF ExclusiveInv

\* What a live batch has given out stays consumed, slot and address, until the batch ends:
\* a rollback gives back the exit of its own acquisition only, and only to the generation
\* of the batch it was reserved in.
THEOREM ConsumptionStays ==
    ASSUME NothingTakenBack, NeverTheInstant
    PROVE  Spec => []ConsumedStays
  <1>1. ExclusiveInv => ConsumedStays
    BY HeldConsumed DEF ExclusiveInv
  <1>2. QED
    BY <1>1, ExclusiveInit, ExclusiveStep, PTL DEF Spec

-----------------------------------------------------------------------------
(* Unique exits.                                                           *)

\* Addresses come from the catalog's knowledge or from a measurement.
KnownAddresses == \A s \in Slots : publicIP[s] \in ExitIPs[s] \cup {InitialIP[s]}

LEMMA AddressesKept ==
    ASSUME AddressesStay, HealthTypeOK, KnownAddresses, [AnyNext]_vars
    PROVE  /\ KnownAddresses'
           /\ \A s \in Slots : publicIP[s] # NoIP => publicIP'[s] = publicIP[s]
  <1>1. CASE UNCHANGED ipVars
    BY <1>1 DEF KnownAddresses, ipVars
  <1>2. ASSUME NEW s \in Slots, IPMeasured(s) \/ ProbeMeasures(s)
        PROVE  /\ KnownAddresses'
               /\ \A t \in Slots : publicIP[t] # NoIP => publicIP'[t] = publicIP[t]
    <2>1. PICK ip \in ExitIPs[s] : publicIP' = [publicIP EXCEPT ![s] = ip]
      BY <1>2 DEF IPMeasured, ProbeMeasures, setPublicIPLocked
    <2>2. publicIP[s] # NoIP => publicIP[s] = ip
      BY <2>1 DEF AddressesStay, KnownAddresses
    <2>3. QED
      BY <2>1, <2>2 DEF KnownAddresses, HealthTypeOK
  <1>3. ASSUME NEW r \in Requests, \/ PickNothing(r) \/ PickSlot(r) \/ CommitAcquisition(r)
                                   \/ RollbackAcquisition(r) \/ Release(r)
        PROVE  UNCHANGED ipVars
    BY <1>3 DEF PickNothing, PickSlot, CommitAcquisition, RollbackAcquisition, Release
  <1>4. ASSUME NEW in, Report(in) \/ Prefer(in)
        PROVE  UNCHANGED ipVars
    BY <1>4 DEF Report, Prefer
  <1>5. CASE Housekeep \/ Expires
    BY <1>1, <1>5 DEF Housekeep, Expires
  <1>6. QED
    BY <1>1, <1>2, <1>3, <1>4, <1>5, Writers DEF Writer, CalmWriter

\* Requests of one batch are on different addresses.
Apart == \A q, r \in Requests :
            bres[q] = "live" /\ bres[r] = "live" /\ call[q].uniq = call[r].uniq /\ q # r
              => publicIP[slot[q]] # publicIP[slot[r]]

\* The address of a request that is served by a batch is one the batch has consumed.
LEMMA HeldAddress ==
    ASSUME AllSound, Pointed, Exclusive, NEW r \in Requests, bres[r] = "live"
    PROVE  /\ slot[r] \in Slots /\ publicIP[slot[r]] \in IPs /\ publicIP[slot[r]] # NoIP
           /\ publicIP[slot[r]] \in usedIPs(batches[call[r].uniq])
  <1> DEFINE b == batches[call[r].uniq]
             ip == publicIP[slot[r]]
  <1>1. Sound(b) /\ slot[r] \in b.usedSlots
    BY DEF Pointed, AllSound, Exclusive
  <1> HIDE DEF b
  <1>2. <<slot[r], ip>> \in b.slotIPs
    BY <1>1 DEF Sound
  <1>3. slot[r] \in Slots /\ ip \in IPs
    BY <1>1, <1>2 DEF Sound, SaneBatch, BatchType
  <1>4. <<slot[r], ip>>[2] \in {pair[2] : pair \in b.slotIPs}
    BY <1>2, Zenon
  <1>5. ip \in usedIPs(b)
    BY <1>1, <1>4 DEF Sound, SaneBatch
  <1>6. QED
    BY <1>3, <1>5, DistinctAssumption DEF b

LEMMA ApartNext ==
    ASSUME AllSound, Pointed, now \in Nat, Exclusive, Apart, GentleMove, AddressesHold
    PROVE  Apart'
  <1>1. ASSUME NEW p \in Requests, bres[p] = "live"
        PROVE  publicIP[slot[p]] \in usedIPs(batches[call[p].uniq])
    BY <1>1, HeldAddress
  <1>2. ASSUME NEW q \in Requests, NEW r \in Requests, bres[q] = "live", bres[r] = "live",
               bres'[q] = "live", bres'[r] = "live", call[q].uniq = call[r].uniq, q # r
        PROVE  publicIP'[slot[q]] # publicIP'[slot[r]]
    BY <1>2 DEF Apart, AddressesHold
  <1>3. ASSUME \A p \in Requests : bres'[p] = "live" =>
                 bres[p] = "live" /\ call'[p] = call[p] /\ slot'[p] = slot[p]
        PROVE  Apart'
    BY <1>2, <1>3 DEF Apart
  <1>4. ASSUME NEW T, Fades(T)
        PROVE  Apart'
    BY <1>3, <1>4 DEF Fades, ClaimsStay, Pointed
  <1>5. ASSUME NEW r \in Requests, Confirms(r) \/ GivesBack(r) \/ Leaves(r)
        PROVE  Apart'
    <2>1. CASE Confirms(r) \/ GivesBack(r)
      BY <1>3, <2>1 DEF Confirms, GivesBack
    <2>2. CASE Leaves(r)
      <3>1. \A p \in Requests : bres'[p] = "live" => p # r /\ bres[p] = "live"
        BY <2>2 DEF Leaves, AllSound, BatchTypeOK
      <3>2. QED
        BY <1>3, <2>2, <3>1 DEF Leaves
    <2>3. QED
      BY <1>5, <2>1, <2>2
  <1>6. ASSUME NEW r \in Requests, Consumes(r), Proper(r)
        PROVE  Apart'
    <2> DEFINE n == call[r].uniq
               s == slot'[r]
    <2>1. call'[r] = call[r] /\ publicIP' = publicIP
      BY <1>6 DEF Consumes, ipVars
    <2>2. ASSUME NEW p \in Requests \ {r}, bres'[p] = "live"
          PROVE  /\ bres[p] = "live" /\ slot'[p] = slot[p] /\ call'[p] = call[p]
                 /\ call[p].uniq \notin ExpiredBatches /\ batches[call[p].uniq] # NoBatch
      BY <1>6, <2>2, ConsumesNew
    <2>3. ASSUME NEW p \in Requests \ {r}, bres'[p] = "live", call[p].uniq = n
          PROVE  publicIP'[slot'[p]] # publicIP'[s]
      <3>1. publicIP[s] \notin usedIPs(batches[n])
        BY <1>6, <2>2, <2>3, ConsumesNew
      <3>2. publicIP[slot[p]] \in usedIPs(batches[n])
        BY <1>1, <2>2, <2>3
      <3>3. QED
        BY <2>1, <2>2, <2>3, <3>1, <3>2
    <2>4. SUFFICES ASSUME NEW q \in Requests, NEW p \in Requests, bres'[q] = "live",
                          bres'[p] = "live", call'[q].uniq = call'[p].uniq, q # p
                   PROVE  publicIP'[slot'[q]] # publicIP'[slot'[p]]
      BY DEF Apart
    <2>5. CASE p # r /\ q # r
      BY <1>2, <2>2, <2>4, <2>5
    <2>6. CASE p = r
      BY <2>1, <2>2, <2>3, <2>4, <2>6
    <2>7. CASE q = r
      BY <2>1, <2>2, <2>3, <2>4, <2>7
    <2>8. QED
      BY <2>5, <2>6, <2>7
  <1>7. QED
    BY <1>4, <1>5, <1>6 DEF GentleMove, CalmMove

ApartInv == HeldInv /\ Apart

LEMMA ApartInit == Init => ApartInv
  BY HeldInit DEF Init, ApartInv, Apart

LEMMA ApartStep ==
    ASSUME ApartInv, [AnyNext]_vars, GentleMove, AddressesHold
    PROVE  ApartInv'
  <1>1. HeldInv' /\ AllSound /\ Pointed /\ now \in Nat
    BY HeldStep DEF ApartInv, HeldInv, BatchInv, SessionInv, TunnelInv, TunnelTypeOK
  <1>2. QED
    BY <1>1, ApartNext DEF ApartInv, HeldInv

LEMMA ApartUnique == ApartInv => UniqueExits
  BY DEF ApartInv, HeldInv, Exclusive, Apart, UniqueExits, LiveIn

\* The guarantee of a unique batch: as long as nobody complains about an exit in use, no
\* exit is recycled and no exit in use changes its address, no two requests of the batch,
\* concurrent ones included, are on the same exit or behind the same public address.
THEOREM ExitsStayUnique ==
    Spec /\ [][SparesServing /\ PicksProperly /\ AddressesHold]_vars => []UniqueExits
  <1>1. ASSUME ApartInv, [Next]_vars, [SparesServing /\ PicksProperly /\ AddressesHold]_vars
        PROVE  ApartInv'
    <2>1. [AnyNext]_vars /\ BatchInv
      BY <1>1, NextIsAny DEF ApartInv, HeldInv
    <2>2. GentleMove
      BY <1>1, <2>1, GentleStep
    <2>3. AddressesHold
      BY <1>1 DEF AddressesHold, vars, ipVars
    <2>4. QED
      BY <1>1, <2>1, <2>2, <2>3, ApartStep
  <1>2. QED
    BY <1>1, ApartInit, ApartUnique, PTL DEF Spec

UniqueInv == ApartInv /\ OffBeat /\ KnownAddresses

LEMMA UniqueStep ==
    ASSUME NothingTakenBack, NeverTheInstant, AddressesStay
    PROVE  UniqueInv /\ [Next]_vars => UniqueInv'
  <1> SUFFICES ASSUME UniqueInv, [Next]_vars PROVE UniqueInv'
    OBVIOUS
  <1>1. /\ [AnyNext]_vars /\ BatchInv /\ AllSound /\ Pointed /\ HealthTypeOK
        /\ OffBeat /\ Exclusive /\ KnownAddresses /\ ApartInv /\ ExclusiveInv
    BY NextIsAny DEF UniqueInv, ApartInv, ExclusiveInv, HeldInv, BatchInv
  <1>2. /\ KnownAddresses'
        /\ \A s \in Slots : publicIP[s] # NoIP => publicIP'[s] = publicIP[s]
    BY <1>1, AddressesKept
  <1>3. AddressesHold
    BY <1>1, <1>2, HeldAddress DEF AddressesHold
  <1>4. ApartInv'
    BY <1>1, <1>3, ApartStep, InputsGentle
  <1>5. OffBeat'
    BY <1>1, ExclusiveStep DEF ExclusiveInv
  <1>6. QED
    BY <1>2, <1>4, <1>5 DEF UniqueInv

\* The same for every behaviour of clients that neither complain nor recycle, with batches
\* that never run out at the tick of the clock and exits that keep their addresses.
THEOREM ExitsUnique ==
    ASSUME NothingTakenBack, NeverTheInstant, AddressesStay
    PROVE  Spec => []UniqueExits
  <1>1. Init => UniqueInv
    BY ApartInit DEF Init, UniqueInv, KnownAddresses, OffBeat
  <1>2. UniqueInv => UniqueExits
    BY ApartUnique DEF UniqueInv
  <1>3. QED
    BY <1>1, <1>2, UniqueStep, PTL DEF Spec
=============================================================================
