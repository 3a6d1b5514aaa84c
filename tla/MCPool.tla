------------------------------- MODULE MCPool -------------------------------
(***************************************************************************)
(* Small instances of the pool for TLC.  Slots, entries, names, targets    *)
(* and addresses are strings named in the .cfg files; the requests are     *)
(* model values, so that they can be permuted.                             *)
(***************************************************************************)
EXTENDS PoolProps

SymmetricRequests == Permutations(Requests)

\* A client's request, and options with every limit off.
Plain == [session |-> NoName, ttl |-> 0, uniq |-> NoName, bttl |-> 0,
          recycle |-> FALSE, admits |-> Slots, exclude |-> {}, target |-> NoTarget]
BaseOpts ==
    [MaxActive |-> 0, MaxConnsPerExit |-> 0, MaxConcurrentConns |-> 0,
     SessionTTL |-> 9, MaxSessionTTL |-> 9, MaxSessions |-> 9,
     BatchTTL |-> 9, MaxBatchTTL |-> 9, MaxUniqueBatches |-> 9,
     Cooldown |-> 1, PreferredTTL |-> 2, PreferredMax |-> 8,
     IdleTimeout |-> 0, DialAttempts |-> 1, FailureBackoff |-> 1,
     MaxSlotBackoff |-> 1, MaxEntryBackoff |-> 1, EntryFailureThreshold |-> 1,
     NewTunnelBudget |-> 0, NewTunnelWindow |-> 1,
     IPCheck |-> FALSE, IPRefreshInterval |-> 99, IPCheckConcurrency |-> 1]

AllDirect    == [s \in Slots |-> "direct-socks"]
AllWireGuard == [s \in Slots |-> "wireguard"]
OneWireGuard == [s \in Slots |-> IF s = "s1" THEN "wireguard" ELSE "direct-socks"]

NoIPs      == [s \in Slots |-> NoIP]
NoExitIPs  == [s \in Slots |-> {}]
\* s1 and s2 are two servers behind one address.
SharedIPs  == [s \in Slots |-> IF s = "s3" THEN "a2" ELSE "a1"]

-----------------------------------------------------------------------------
(* Connections and sessions: two proxy slots and one tunnel slot.          *)

ConnOpts == [BaseOpts EXCEPT !.MaxConnsPerExit = 1, !.MaxConcurrentConns = 2,
                             !.MaxSessions = 1, !.DialAttempts = 2,
                             !.NewTunnelBudget = 1, !.NewTunnelWindow = 3]
PlainCalls == {Plain}
OneSession == {[Plain EXCEPT !.session = "n1"]}
ConnCalls  == PlainCalls \cup OneSession

SessionOpts  == [BaseOpts EXCEPT !.MaxSessions = 1]
TwoSessions  == {[Plain EXCEPT !.session = n] : n \in {"n1", "n2"}}

-----------------------------------------------------------------------------
(* Tunnels: two contacts per window.  Three tunnels compete for two places *)
(* when a probe runs, a slot and an entry for one in the entries' run.     *)

TunnelOpts == [BaseOpts EXCEPT !.MaxActive = 2, !.NewTunnelBudget = 2,
                               !.NewTunnelWindow = 2, !.IdleTimeout = 1,
                               !.IPCheck = TRUE]
\* Every address is known and fresh, so only the probe of s2 measures.  It may be
\* cancelled.  Bounds: it starts at the first instant and does not overlap with
\* Warmup or the Maintain loop.
AllKnown    == [s \in Slots |-> "a1"]
AnyIP       == [s \in Slots |-> IPs]
ProbeOfS2   == {Prober("s2")}
ProbedApart == pc[Prober("s2")] # "idle" => \A p \in Warmers \cup {Housekeeper} : pc[p] = "idle"
ProbedFirst == pc[Prober("s2")] = "idle" /\ pc'[Prober("s2")] # "idle" => now = 1

\* A tunnel slot and a relay slot whose entry competes with it for one place.
EntryOpts == [TunnelOpts EXCEPT !.MaxActive = 1, !.EntryFailureThreshold = 2,
                                !.IPRefreshInterval = 1]
\* Bounds: the relay slot is probed once, from the start, beside at most one request,
\* and neither a cancellation nor Close comes meanwhile; Close does not follow a
\* cancellation, and no request comes after it.
ProbedAtStart ==
    /\ pc[Prober("s2")] = "idle" /\ pc'[Prober("s2")] # "idle" => Init
    /\ pc[Prober("s2")] # "idle" =>
         /\ \A r \in Requests : ctxDone'[r] => ctxDone[r]
         /\ closing' = "no"
         /\ Cardinality({r \in Requests : pc'[r] # "idle"}) <= 1
    /\ closing' # "no" => \A r \in Requests : ~ctxDone'[r]
    /\ closing # "no" => \A r \in Requests : pc[r] = "idle" => pc'[r] = "idle"
\* Bounds: the addresses are old enough to be measured again only when time passes at
\* the start, and then requests come one at a time and are not cancelled.
MeasuredLate ==
    now' > 1 => /\ now > 1 \/ Init
                /\ pc'[Prober("s2")] = "idle"
                /\ \A r \in Requests : ~ctxDone'[r]
                /\ Cardinality({r \in Requests : pc'[r] # "idle"}) <= 1
SlotAndEntry == [s \in Slots |-> IF s = "s1" THEN "wireguard" ELSE "relay-socks"]

-----------------------------------------------------------------------------
(* Unique batches: three tunnel slots behind two addresses.                *)

BatchOpts == [BaseOpts EXCEPT !.BatchTTL = 1, !.MaxUniqueBatches = 1,
                              !.NewTunnelBudget = 2, !.NewTunnelWindow = 9]
RollbackOpts == [BatchOpts EXCEPT !.BatchTTL = 5, !.NewTunnelBudget = 3]
MeasureOpts  == [BatchOpts EXCEPT !.BatchTTL = 3, !.IPCheck = TRUE,
                                  !.IPRefreshInterval = 2]
BatchCalls   == {[Plain EXCEPT !.uniq = n] : n \in BatchNames}
ChangingIPs  == [s \in Slots |-> IF s = "s3" THEN IPs ELSE {"a1"}]
RecycleCalls == {[Plain EXCEPT !.uniq = n, !.recycle = TRUE] : n \in BatchNames}

\* Complaints about s1, for a scope and for every destination.
Complaint == [session |-> NoName, slot |-> "s1", publicIP |-> NoIP,
              target |-> NoTarget, cooldown |-> 1]
PlainComplaint  == {Complaint}
ScopedComplaint == {[Complaint EXCEPT !.target = "t1"]}

-----------------------------------------------------------------------------
(* Health: proxy slots; the address of s3 is measured while serving and    *)
(* may turn out to be the one s1 has.  A scope remembers two of the three   *)
(* addresses.                                                              *)

HealthOpts    == [BaseOpts EXCEPT !.IPCheck = TRUE, !.PreferredMax = 2, !.PreferredTTL = 1]
TwoKnownIPs   == [s \in Slots |-> CASE s = "s1" -> "a1" [] s = "s2" -> "a2" [] s = "s3" -> NoIP]
FoundIPs      == [s \in Slots |-> IF s = "s3" THEN {"a1", "a3"} ELSE {InitialIP[s]}]
HealthCalls   == {[Plain EXCEPT !.target = "t1"]}
HealthReports == {[Complaint EXCEPT !.target = "t1", !.cooldown = d] : d \in {1, 2}}
HealthPraise  == {[slot |-> s, publicIP |-> NoIP, target |-> "t1", ttl |-> 0] :
                    s \in Slots}
=============================================================================
