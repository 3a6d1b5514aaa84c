-------------------------- MODULE PoolTunnelProofs --------------------------
(***************************************************************************)
(* Theorems about the tunnels of module Pool, for any catalog, any options *)
(* and any number of requests: one opener per tunnel (SingleOpener), the   *)
(* bounds on tunnels and on relay contacts (ActiveLimit, BudgetLimit), and *)
(* that a tunnel in use is cut by its own failure or by Close alone        *)
(* (UsedTunnelKept).                                                       *)
(*                                                                         *)
(* A process matters to these while it owns an opening channel (Opening),  *)
(* has been promised a contact (Promised) or holds a probe's room          *)
(* (ProbeTunnel).  TunnelKinds shows that every step either leaves all of  *)
(* these alone and at most cuts tunnels (TunnelStill), or is one of five   *)
(* moves of one process; TunnelInv survives each of them.                  *)
(***************************************************************************)
EXTENDS PoolProofs, SequenceTheorems

-----------------------------------------------------------------------------
(* The operators the steps compute with.                                   *)

\* There are finitely many tunnels and goroutines.
LEMMA FiniteProcs == IsFiniteSet(Holders) /\ IsFiniteSet(Procs)
  <1>1. IsFiniteSet(Holders)
    BY FS_Union, FiniteAssumption DEF Holders
  <1>2. IsFiniteSet(Checkers)
    <2>1. [s \in Slots |-> Checker(s)] \in Surjection(Slots, Checkers)
      BY DEF Checkers, Surjection
    <2>2. QED
      BY <2>1, FS_Surjection, FiniteAssumption
  <1>3. IsFiniteSet(Warmers)
    <2>1. [h \in Holders |-> Warmer(h)] \in Surjection(Holders, Warmers)
      BY DEF Warmers, Surjection
    <2>2. QED
      BY <1>1, <2>1, FS_Surjection
  <1>4. IsFiniteSet(Probers)
    <2>1. [s \in Slots |-> Prober(s)] \in Surjection(Slots, Probers)
      BY DEF Probers, Surjection
    <2>2. QED
      BY <2>1, FS_Surjection, FiniteAssumption
  <1>5. IsFiniteSet(Workers)
    BY <1>2, <1>3, <1>4, FS_Union, FS_Singleton DEF Workers
  <1>6. QED
    BY <1>1, <1>5, FS_Union, FiniteAssumption DEF Procs

\* A finite set of processes or tunnels changes size by one as a member joins or leaves.
LEMMA MovingMember ==
    ASSUME NEW U, IsFiniteSet(U), NEW S \in SUBSET U, NEW x
    PROVE  /\ IsFiniteSet(S) /\ Cardinality(S) \in Nat
           /\ IsFiniteSet(S \ {x}) /\ IsFiniteSet(S \cup {x})
           /\ x \notin S => Cardinality(S \cup {x}) = Cardinality(S) + 1
           /\ x \in S => Cardinality(S \ {x}) = Cardinality(S) - 1 /\ Cardinality(S) > 0
  <1>1. IsFiniteSet(S) /\ IsFiniteSet(S \ {x}) /\ IsFiniteSet(S \cup {x})
    BY FS_Subset, FS_AddElement, FS_RemoveElement
  <1>2. Cardinality(S) \in Nat /\ Cardinality(S \ {x}) \in Nat
    BY <1>1, FS_CardinalityType
  <1>3. QED
    BY <1>1, <1>2, FS_AddElement, FS_RemoveElement

\* Writing one place of a function keeps its type.
LEMMA WriteOne ==
    ASSUME NEW S, NEW T, NEW f \in [S -> T], NEW x, NEW v \in T
    PROVE  [f EXCEPT ![x] = v] \in [S -> T]
  OBVIOUS

\* The lesser of two numbers.
LEMMA MinOfTwo ==
    ASSUME NEW a \in Nat, NEW b \in Nat
    PROVE  Min({a, b}) = IF a <= b THEN a ELSE b
  <1>1. \E x \in {a, b} : \A y \in {a, b} : x =< y
    OBVIOUS
  <1>2. /\ Min({a, b}) \in {a, b}
        /\ \A y \in {a, b} : Min({a, b}) =< y
    BY <1>1 DEF Min
  <1>3. QED
    BY <1>2

\* A counted failure is a positive number of failures ...
LEMMA BumpCounts ==
    ASSUME NEW n \in Nat
    PROVE  Bump(n) \in Nat \ {0}
  BY MinOfTwo, InputAssumption, SaturationAssumption DEF Bump, Options

\* ... and what it backs off lasts beyond the instant it starts.
LEMMA BackoffLasts ==
    ASSUME NEW n \in Nat, NEW first \in Nat, first <= n, NEW cap \in Nat \ {0}
    PROVE  Backoff(n, first, cap) \in Nat \ {0}
  <1>1. opts.FailureBackoff \in Nat \ {0}
    BY InputAssumption, BackoffAssumption DEF Options
  <1>2. 1 + Min({n - first, 5}) \in 1 .. 6
    BY MinOfTwo
  <1>3. ASSUME NEW k \in 1 .. 6
        PROVE  opts.FailureBackoff * Doubled[k] \in Nat \ {0}
    <2>1. Doubled[k] \in {1, 2, 4, 8, 16, 32}
      BY DEF Doubled
    <2>2. QED
      BY <1>1, <2>1
  <1>4. QED
    BY <1>2, <1>3, MinOfTwo DEF Backoff

\* pruneOpensLocked keeps timestamps, at most as many as there were.
LEMMA PruneShrinks ==
    ASSUME opens \in Seq(Nat)
    PROVE  pruneOpensLocked \in Seq(Nat) /\ Len(pruneOpensLocked) <= Len(opens)
  <1> DEFINE G == {k \in 1 .. Len(opens) : \A i \in 1 .. k :
                     opens[i] + opts.NewTunnelWindow <= now}
             keep == Cardinality(G)
  <1>1. keep \in Nat
    <2>1. IsFiniteSet(1 .. Len(opens)) /\ G \in SUBSET (1 .. Len(opens))
      BY FS_Interval
    <2>2. QED
      BY <2>1, FS_Subset, FS_CardinalityType
  <1>2. pruneOpensLocked = SubSeq(opens, keep + 1, Len(opens))
    BY DEF pruneOpensLocked
  <1>3. \A i \in keep + 1 .. Len(opens) : opens[i] \in Nat
    BY <1>1
  <1> HIDE DEF keep
  <1>4. QED
    BY <1>1, <1>2, <1>3, SubSeqProperties

-----------------------------------------------------------------------------
(* The kinds of steps.                                                     *)

Promised     == {"reserved", "promised"}
TunnelStates == Opening \cup ProbeTunnel    \* every state that counts for a tunnel

\* The step does not change what p owns of a tunnel ...
Stays(p) == /\ pc[p] \in Opening <=> pc'[p] \in Opening
            /\ pc[p] \in Promised <=> pc'[p] \in Promised
            /\ pc[p] \in ProbeTunnel <=> pc'[p] \in ProbeTunnel
            /\ pc[p] \in Opening => hold'[p] = hold[p]

\* ... and here because p stands still, or owns nothing before and after it.
Uninvolved(p) == \/ pc'[p] = pc[p] /\ hold'[p] = hold[p]
                 \/ pc[p] \notin TunnelStates /\ pc'[p] \notin TunnelStates

\* The open tunnels of C are detached, each for a reason.
Cuts(C) == /\ \A h \in C : /\ isOpen(h)
                           /\ \/ h \in Slots /\ (exitLoad(h) = 0 \/ OutOfUse(h))
                              \/ now < disabledUntil'[h]
                              \/ closing' = "waiting"
           /\ tunnel' = Detached(C)

TunnelStill ==
    /\ \A p \in Procs : Stays(p)
    /\ \E C \in SUBSET Holders : Cuts(C)
    /\ opens' \in {opens, pruneOpensLocked}
    /\ UNCHANGED <<pendingTunnelOpens, probeTunnels>>

\* What a budget check and an eviction leave: room for one tunnel more.
MakesRoom(C) == /\ \/ C = {} /\ opts.MaxActive = 0
                   \/ C = {} /\ Cardinality(Up) + probeTunnels < opts.MaxActive
                   \/ \E v \in IdleOpen : C = {v}
                /\ tunnelBudgetAvailableLocked
                /\ opens' = OpensAfterCheck
                /\ pendingTunnelOpens' = pendingTunnelOpens + 1

\* p takes the opening channel of a closed tunnel.
Reserves(p) ==
    /\ pc[p] = "open" /\ pc'[p] = "reserved"
    /\ tunnel[hold[p]] = "closed" /\ hold'[p] = hold[p]
    /\ \E C \in SUBSET Holders :
         /\ MakesRoom(C)
         /\ tunnel' = [Detached(C) EXCEPT ![hold[p]] = "opening"]
    /\ UNCHANGED probeTunnels

\* p makes the contact it was promised, or gives up before it.
Contacts(p) ==
    /\ pc[p] \in Promised /\ pc'[p] \notin Promised
    /\ pc[p] \in Opening <=> pc'[p] \in Opening
    /\ pc[p] \in ProbeTunnel <=> pc'[p] \in ProbeTunnel
    /\ hold'[p] = hold[p]
    /\ opens' \in {opens, Append(pruneOpensLocked, now)}
    /\ pendingTunnelOpens' = Min0(pendingTunnelOpens)
    /\ UNCHANGED <<tunnel, probeTunnels>>

\* p gives the opening channel up: the tunnel is up or it is not.
Ends(p) ==
    /\ pc[p] \in {"aborting", "contact"} /\ pc'[p] \notin TunnelStates
    /\ \E end \in {"closed", "open"} : tunnel' = [tunnel EXCEPT ![hold[p]] = end]
    /\ UNCHANGED <<opens, pendingTunnelOpens, probeTunnels>>

\* A probe takes room for a tunnel of its own, and gives it back.
ProbeTakes(p) ==
    /\ p \in Probers /\ pc[p] = "alone" /\ pc'[p] = "promised"
    /\ \E C \in SUBSET Holders : MakesRoom(C) /\ tunnel' = Detached(C)
    /\ probeTunnels' = probeTunnels + 1
ProbeGives(p) ==
    /\ p \in Probers /\ pc[p] \in {"spent", "wasted"} /\ pc'[p] \notin TunnelStates
    /\ probeTunnels' = Min0(probeTunnels)
    /\ UNCHANGED <<tunnel, opens, pendingTunnelOpens>>

TunnelMove ==
    \/ TunnelStill
    \/ \E p \in Procs : /\ \A q \in Procs \ {p} : Stays(q)
                        /\ \/ Reserves(p) \/ Contacts(p) \/ Ends(p)
                           \/ ProbeTakes(p) \/ ProbeGives(p)

\* Processes that are not involved own what they owned.
LEMMA UninvolvedStays ==
    ASSUME NEW p \in Procs, Uninvolved(p)
    PROVE  Stays(p)
  BY DEF Uninvolved, Stays, TunnelStates, Opening, Promised, ProbeTunnel

\* Detaching nothing is no change.
LEMMA NothingCut ==
    ASSUME TunnelTypeOK, UNCHANGED tunnel
    PROVE  \E C \in SUBSET Holders : Cuts(C)
  <1>1. tunnel = Detached({})
    BY DEF Detached, TunnelTypeOK
  <1>2. Cuts({})
    BY <1>1 DEF Cuts
  <1>3. QED
    BY <1>2

\* A step of processes that own nothing, with no word about tunnels.
LEMMA QuietStep ==
    ASSUME TunnelTypeOK, UNCHANGED <<tunnel, budgetVars>>, \A p \in Procs : Uninvolved(p)
    PROVE  TunnelMove
  BY NothingCut, UninvolvedStays DEF TunnelMove, TunnelStill, budgetVars

\* One process goes from one place to another and no other process moves.
LEMMA OneMoves ==
    ASSUME TypeInv, NEW p \in Procs, NEW label, Goto(p, label),
           \A q \in Procs \ {p} : hold'[q] = hold[q]
    PROVE  /\ pc'[p] = label
           /\ \A q \in Procs \ {p} : Uninvolved(q) /\ Stays(q)
           /\ pc[p] \notin TunnelStates /\ label \notin TunnelStates
                => \A q \in Procs : Uninvolved(q)
  <1>1. pc'[p] = label /\ \A q \in Procs \ {p} : pc'[q] = pc[q]
    BY DEF Goto, TypeInv, ControlTypeOK
  <1>2. QED
    BY <1>1, UninvolvedStays DEF Uninvolved

\* maybeCheckIP moves its caller and a checker that was idle.
LEMMA CheckStarts ==
    ASSUME NEW p \in Procs, NEW s \in Slots, NEW label, MaybeCheckIP(p, s, label)
    PROVE  /\ pc'[p] = label
           /\ \A q \in Procs \ {p} : pc'[q] = pc[q] \/ (pc[q] = "idle" /\ pc'[q] = "sem")
  <1>1. \A q \in Procs : pc'[q] = IF q = p THEN label
                                  ELSE IF q = Checker(s) /\ CheckDue(s) THEN "sem"
                                  ELSE pc[q]
    BY DEF MaybeCheckIP
  <1>2. CheckDue(s) => pc[Checker(s)] = "idle"
    BY DEF CheckDue
  <1>3. QED
    BY <1>1, <1>2

-----------------------------------------------------------------------------
(* Every action is of one of the kinds and keeps the types.                *)

\* Nothing that TunnelTypeOK speaks of changes, and nobody involved moves.
LEMMA AsideStep ==
    ASSUME TunnelTypeOK, UNCHANGED <<now, failVars, tunnelVars, budgetVars>>,
           \A p \in Procs : Uninvolved(p)
    PROVE  TunnelTypeOK' /\ TunnelMove
  <1>1. TunnelTypeOK'
    BY DEF TunnelTypeOK, failVars, tunnelVars, budgetVars
  <1>2. QED
    BY <1>1, QuietStep DEF tunnelVars

\* A worker's dial leaves counters of failures.
LEMMA DialLeavesCounters ==
    ASSUME TunnelTypeOK, NEW p \in Procs, NEW f \in DialLeaves(p)
    PROVE  f \in [Holders -> Nat]
  <1>1. failures \in [Holders -> Nat]
    BY DEF TunnelTypeOK
  <1>2. \A e \in Holders : [failures EXCEPT ![e] = 0] \in [Holders -> Nat]
    BY <1>1
  <1>3. QED
    BY <1>1, <1>2 DEF DialLeaves, Holders

\* The parts of Acquire and of a lease that open and close nothing.
LEMMA RequestAside ==
    ASSUME TypeInv, TunnelTypeOK, NEW r \in Requests,
           \/ \E c \in Calls : Start(r, c)
           \/ CheckLeasedIP(r) \/ RollbackAcquisition(r) \/ DropSession(r)
    PROVE  TunnelTypeOK' /\ TunnelMove
  <1>1. r \in Procs /\ UNCHANGED <<now, failVars, tunnelVars, budgetVars>>
    BY WorkersApart DEF Start, CheckLeasedIP, RollbackAcquisition, DropSession
  <1>2. CASE CheckLeasedIP(r)
    <2>1. /\ pc[r] = "check" /\ slot[r] \in Slots
          /\ MaybeCheckIP(r, slot[r], "leased") /\ UNCHANGED hold
      BY <1>2, <1>1 DEF CheckLeasedIP, TypeInv, WorkOK, Leasing
    <2>2. \A q \in Procs : Uninvolved(q)
      BY <1>1, <2>1, CheckStarts DEF Uninvolved, TunnelStates, Opening, ProbeTunnel
    <2>3. QED
      BY <1>1, <2>2, AsideStep
  <1>3. CASE ~CheckLeasedIP(r)
    <2>1. \E label \in {"pick", "note", "idle"} : Goto(r, label)
      BY <1>3 DEF Start, RollbackAcquisition, DropSession, NextAttempt, Return
    <2>2. pc[r] \in {"idle", "failed", "drop"} /\ \A q \in Procs \ {r} : hold'[q] = hold[q]
      BY <1>3, <1>1 DEF Start, RollbackAcquisition, DropSession, NextAttempt, Return,
         ResetWork, TypeInv, ControlTypeOK
    <2>3. \A q \in Procs : Uninvolved(q)
      BY <1>1, <2>1, <2>2, OneMoves DEF TunnelStates, Opening, ProbeTunnel
    <2>4. QED
      BY <1>1, <2>3, AsideStep
  <1>4. QED
    BY <1>2, <1>3

\* ensureDialer and the parts of ensureOpen that find or await a tunnel.
LEMMA OpenerAside ==
    ASSUME TypeInv, TunnelTypeOK, NEW p \in Procs,
           \/ EnsureDialer(p) \/ NextEntry(p) \/ EnsureOpenUp(p) \/ EnsureOpenWait(p)
           \/ EnsureOpenRefused(p) \/ WakeUp(p)
    PROVE  TunnelTypeOK' /\ TunnelMove
  <1>1. UNCHANGED <<now, failVars, tunnelVars, budgetVars>>
    BY DEF EnsureDialer, NextEntry, EnsureOpenUp, EnsureOpenWait, EnsureOpenRefused, WakeUp
  <1>2. /\ pc[p] \in {"dial", "entry", "open", "wait"}
        /\ \E label \in {"got", "open", "entry", "failed", "wait"} : Goto(p, label)
    BY DEF EnsureDialer, NextEntry, EnsureOpenUp, EnsureOpenWait, EnsureOpenRefused, WakeUp,
       OpenFailed
  <1>3. \A q \in Procs \ {p} : hold'[q] = hold[q]
    BY DEF EnsureDialer, NextEntry, EnsureOpenUp, EnsureOpenWait, EnsureOpenRefused, WakeUp,
       OpenFailed, TypeInv, ControlTypeOK
  <1>4. \A q \in Procs : Uninvolved(q)
    BY <1>2, <1>3, OneMoves DEF TunnelStates, Opening, ProbeTunnel
  <1>5. QED
    BY <1>1, <1>4, AsideStep

\* The measurements of maybeCheckIP's goroutines.
LEMMA CheckerAside ==
    ASSUME TypeInv, TunnelTypeOK, NEW s \in Slots, IPCheck(s)
    PROVE  TunnelTypeOK' /\ TunnelMove
  <1> DEFINE p == Checker(s)
  <1>1. p \in Procs /\ UNCHANGED <<now, disabledUntil, tunnelVars, budgetVars>>
    BY WorkersApart DEF IPCheck, IPCheckAdmitted, IPCheckFails, IPMeasured, failVars
  <1>2. /\ pc[p] \in {"sem", "got", "failed"}
        /\ \E label \in {"got", "dial", "idle"} : Goto(p, label)
    BY DEF IPCheck, IPCheckAdmitted, IPCheckFails, IPMeasured, WorkerDone
  <1>3. \A q \in Procs \ {p} : hold'[q] = hold[q]
    BY <1>1 DEF IPCheck, IPCheckAdmitted, IPCheckFails, IPMeasured, WorkerDone, ResetWork,
       TypeInv, ControlTypeOK
  <1>4. \A q \in Procs : Uninvolved(q)
    BY <1>1, <1>2, <1>3, OneMoves DEF TunnelStates, Opening, ProbeTunnel
  <1>5. failures' \in [Holders -> Nat]
    <2>1. failures' = failures \/ failures' \in DialLeaves(p)
      BY DEF IPCheck, IPCheckAdmitted, IPCheckFails, IPMeasured, failVars
    <2>2. QED
      BY <1>1, <2>1, DialLeavesCounters DEF TunnelTypeOK
  <1>6. TunnelTypeOK'
    BY <1>1, <1>5 DEF TunnelTypeOK, tunnelVars, budgetVars
  <1>7. QED
    BY <1>1, <1>4, <1>6, QuietStep DEF tunnelVars

\* Steps in which no process moves, the pool stays as it is or has closed.
LEMMA StandingAside ==
    ASSUME TunnelTypeOK, UNCHANGED <<pc, hold, now, failVars, tunnelVars, budgetVars>>
    PROVE  TunnelTypeOK' /\ TunnelMove
  BY AsideStep DEF Uninvolved

\* The Maintain loop starts a measurement.
LEMMA RefreshAside ==
    ASSUME TypeInv, TunnelTypeOK, RefreshIP
    PROVE  TunnelTypeOK' /\ TunnelMove
  <1>1. PICK s \in cands[Housekeeper], label \in {"idle", "refresh"} :
          MaybeCheckIP(Housekeeper, s, label)
    BY DEF RefreshIP
  <1>2. /\ s \in Slots /\ Housekeeper \in Procs /\ pc[Housekeeper] = "refresh"
        /\ UNCHANGED <<hold, now, failVars, tunnelVars, budgetVars>>
    BY <1>1, WorkersApart DEF RefreshIP, TypeInv, WorkOK
  <1>3. \A q \in Procs : Uninvolved(q)
    BY <1>1, <1>2, CheckStarts DEF Uninvolved, TunnelStates, Opening, ProbeTunnel
  <1>4. QED
    BY <1>2, <1>3, AsideStep

\* Closing the devices of C leaves the counters and marks well typed.
LEMMA CloseTunnelsTypes ==
    ASSUME TunnelTypeOK, NEW C \in SUBSET Holders, CloseTunnels(C), tunnel' = Detached(C)
    PROVE  /\ draining' \in Nat /\ lost' \in [Requests -> BOOLEAN]
           /\ tunnel' \in [Holders -> {"closed", "opening", "open"}]
  <1>1. Cardinality(C) \in Nat
    BY FiniteProcs, FS_Subset, FS_CardinalityType
  <1>2. draining' \in Nat
    BY <1>1 DEF CloseTunnels, TunnelTypeOK
  <1>3. lost' \in [Requests -> BOOLEAN]
    BY DEF CloseTunnels
  <1>4. QED
    BY <1>2, <1>3 DEF Detached, TunnelTypeOK

\* noteFailure cuts the tunnel of the slot it has just backed off.
LEMMA NoteFailureCuts ==
    ASSUME TunnelTypeOK, NEW s \in Slots, NoteFailure(s), UNCHANGED <<now, budgetVars>>
    PROVE  TunnelTypeOK' /\ \E C \in SUBSET Holders : Cuts(C)
  <1> DEFINE n == Bump(failures[s])
             C == {h \in {s} : isOpen(h)}
  <1>1. s \in Holders /\ C \in SUBSET Holders
    BY DEF Holders
  <1>2. n \in Nat \ {0}
    BY <1>1, BumpCounts DEF TunnelTypeOK
  <1>3. Backoff(n, 1, opts.MaxSlotBackoff) \in Nat \ {0}
    <2>1. opts.MaxSlotBackoff \in Nat \ {0}
      BY InputAssumption, BackoffAssumption DEF Options
    <2>2. QED
      BY <1>2, <2>1, BackoffLasts
  <1>4. /\ failures' = [failures EXCEPT ![s] = n]
        /\ disabledUntil' = [disabledUntil EXCEPT ![s] =
                               now + Backoff(n, 1, opts.MaxSlotBackoff)]
        /\ tunnel' = Detached(C) /\ CloseTunnels(C) /\ UNCHANGED lastUsed
    BY DEF NoteFailure
  <1> HIDE DEF n
  <1>5. /\ failures' \in [Holders -> Nat] /\ disabledUntil' \in [Holders -> Nat]
        /\ now < disabledUntil'[s]
    BY <1>1, <1>2, <1>3, <1>4 DEF TunnelTypeOK
  <1>6. TunnelTypeOK'
    BY <1>1, <1>4, <1>5, CloseTunnelsTypes DEF TunnelTypeOK, budgetVars
  <1>7. Cuts(C)
    BY <1>4, <1>5 DEF Cuts
  <1>8. QED
    BY <1>1, <1>6, <1>7

\* noteEntryFailure cuts the tunnel of an entry it has just taken out.
LEMMA NoteEntryFailureCuts ==
    ASSUME TunnelTypeOK, NEW e \in Entries, NoteEntryFailure(e), UNCHANGED <<now, budgetVars>>
    PROVE  TunnelTypeOK' /\ \E C \in SUBSET Holders : Cuts(C)
  <1> DEFINE n == Bump(failures[e])
             out == n >= opts.EntryFailureThreshold
             C == {h \in {e} : out /\ isOpen(h)}
             until == now + Backoff(n, opts.EntryFailureThreshold, opts.MaxEntryBackoff)
  <1>1. e \in Holders /\ C \in SUBSET Holders
    BY DEF Holders
  <1>2. n \in Nat \ {0} /\ opts.EntryFailureThreshold \in Nat
    BY <1>1, BumpCounts, InputAssumption DEF TunnelTypeOK, Options
  <1>3. out => until \in Nat /\ now < until
    <2>1. out => Backoff(n, opts.EntryFailureThreshold, opts.MaxEntryBackoff) \in Nat \ {0}
      BY <1>2, BackoffLasts, InputAssumption, BackoffAssumption DEF Options
    <2>2. QED
      BY <2>1 DEF TunnelTypeOK
  <1>4. /\ failures' = [failures EXCEPT ![e] = n]
        /\ disabledUntil' = IF out THEN [disabledUntil EXCEPT ![e] = until] ELSE disabledUntil
        /\ tunnel' = Detached(C) /\ CloseTunnels(C) /\ UNCHANGED lastUsed
    BY DEF NoteEntryFailure
  <1> HIDE DEF n, out, until
  <1>5. /\ failures' \in [Holders -> Nat] /\ disabledUntil' \in [Holders -> Nat]
        /\ out => now < disabledUntil'[e]
    BY <1>1, <1>2, <1>3, <1>4 DEF TunnelTypeOK
  <1>6. TunnelTypeOK'
    BY <1>1, <1>4, <1>5, CloseTunnelsTypes DEF TunnelTypeOK, budgetVars
  <1>7. Cuts(C)
    BY <1>4, <1>5 DEF Cuts
  <1>8. QED
    BY <1>1, <1>6, <1>7

\* A failed acquisition blames its slot, a failed dial the slot or the entry.
LEMMA BlameStep ==
    ASSUME TypeInv, TunnelTypeOK, NEW r \in Requests,
           NoteAcquireFailure(r) \/ NoteDialFailure(r)
    PROVE  TunnelTypeOK' /\ TunnelMove
  <1>1. /\ r \in Procs /\ slot[r] \in Slots /\ pc[r] \in {"note", "leased"}
        /\ UNCHANGED <<now, budgetVars>>
    BY WorkersApart DEF NoteAcquireFailure, NoteDialFailure, TypeInv, WorkOK, Leasing
  <1>2. /\ \E label \in {"drop", "pick", "idle", "broken"} : Goto(r, label)
        /\ \A q \in Procs \ {r} : hold'[q] = hold[q]
    BY <1>1 DEF NoteAcquireFailure, NoteDialFailure, NextAttempt, Return, ResetWork, TypeInv,
       ControlTypeOK
  <1>3. \A q \in Procs : Uninvolved(q)
    BY <1>1, <1>2, OneMoves DEF TunnelStates, Opening, ProbeTunnel
  <1>4. NoteFailure(slot[r]) \/ \E e \in Entries : NoteEntryFailure(e)
    BY DEF NoteAcquireFailure, NoteDialFailure
  <1>5. TunnelTypeOK' /\ \E C \in SUBSET Holders : Cuts(C)
    BY <1>1, <1>4, NoteFailureCuts, NoteEntryFailureCuts
  <1>6. QED
    BY <1>1, <1>3, <1>5, UninvolvedStays DEF TunnelMove, TunnelStill, budgetVars

\* A commit, a dial and a release write what is known of the slot or the entry.
LEMMA LeaseWrites ==
    ASSUME TypeInv, TunnelTypeOK, NEW r \in Requests,
           CommitAcquisition(r) \/ DialSucceeds(r) \/ Release(r)
    PROVE  TunnelTypeOK' /\ TunnelMove
  <1>1. /\ r \in Procs /\ pc[r] \in {"got", "leased", "broken"}
        /\ UNCHANGED <<now, disabledUntil, tunnel, draining, budgetVars>>
    BY WorkersApart DEF CommitAcquisition, DialSucceeds, Release, failVars, tunnelVars
  <1>2. \A q \in Procs : Uninvolved(q)
    <2>1. CASE DialSucceeds(r)
      BY <2>1 DEF DialSucceeds, Uninvolved
    <2>2. CASE ~DialSucceeds(r)
      <3>1. /\ \E label \in {"check", "idle"} : Goto(r, label)
            /\ \A q \in Procs \ {r} : hold'[q] = hold[q]
        BY <1>1, <2>2 DEF CommitAcquisition, Release, Return, ResetWork, TypeInv, ControlTypeOK
      <3>2. QED
        BY <1>1, <3>1, OneMoves DEF TunnelStates, Opening, ProbeTunnel
    <2>3. QED
      BY <2>1, <2>2
  <1>3. failures' \in [Holders -> Nat]
    BY DEF CommitAcquisition, DialSucceeds, Release, failVars, TunnelTypeOK
  <1>4. lastUsed' \in [Slots -> Nat]
    BY DEF CommitAcquisition, DialSucceeds, Release, tunnelVars, TunnelTypeOK
  <1>5. lost' \in [Requests -> BOOLEAN]
    BY DEF CommitAcquisition, DialSucceeds, Release, tunnelVars, TunnelTypeOK
  <1>6. TunnelTypeOK'
    BY <1>1, <1>3, <1>4, <1>5 DEF TunnelTypeOK, budgetVars
  <1>7. QED
    BY <1>1, <1>2, <1>6, QuietStep

\* The clock, the devices that finish closing, and complaints move nobody.
LEMMA WorldStep ==
    ASSUME TunnelTypeOK, Tick \/ DrainDone \/ \E in \in ReportType : Report(in)
    PROVE  TunnelTypeOK' /\ TunnelMove
  <1>1. UNCHANGED <<pc, hold, failures, tunnel, lastUsed, lost, budgetVars>>
    BY DEF Tick, DrainDone, Report, failVars, tunnelVars
  <1>2. now' \in Nat /\ draining' \in Nat
    <2>1. CASE Tick
      BY <2>1, InputAssumption DEF Tick, tunnelVars, TunnelTypeOK
    <2>2. CASE DrainDone
      BY <2>2 DEF DrainDone, TunnelTypeOK
    <2>3. CASE \E in \in ReportType : Report(in)
      BY <2>3 DEF Report, tunnelVars, TunnelTypeOK
    <2>4. QED
      BY <2>1, <2>2, <2>3
  <1>3. disabledUntil' \in [Holders -> Nat]
    <2>1. CASE Tick \/ DrainDone
      BY <2>1 DEF Tick, DrainDone, failVars, TunnelTypeOK
    <2>2. ASSUME NEW in \in ReportType, Report(in)
          PROVE  disabledUntil' \in [Holders -> Nat]
      <3>1. now + (IF in.cooldown > 0 THEN in.cooldown ELSE opts.Cooldown) \in Nat
        <4>1. in.cooldown \in Nat
          BY InputAssumption DEF ReportType
        <4>2. opts.Cooldown \in Nat /\ now \in Nat
          BY InputAssumption DEF Options, TunnelTypeOK
        <4>3. QED
          BY <4>1, <4>2
      <3> DEFINE until == now + (IF in.cooldown > 0 THEN in.cooldown ELSE opts.Cooldown)
      <3>2. \/ UNCHANGED disabledUntil
            \/ \E s : disabledUntil' = [disabledUntil EXCEPT ![s] = until]
        BY <2>2, Zenon DEF Report
      <3>3. disabledUntil \in [Holders -> Nat] /\ until \in Nat
        BY <3>1 DEF TunnelTypeOK
      <3> HIDE DEF until
      <3>4. QED
        BY <3>2, <3>3
    <2>3. QED
      BY <2>1, <2>2
  <1>4. TunnelTypeOK'
    BY <1>1, <1>2, <1>3 DEF TunnelTypeOK, budgetVars
  <1>5. QED
    BY <1>1, <1>4, QuietStep DEF Uninvolved

\* Housekeeping cuts idle tunnels without leases, Close every tunnel.
LEMMA SweepStep ==
    ASSUME TypeInv, TunnelTypeOK, Housekeep \/ Close
    PROVE  TunnelTypeOK' /\ TunnelMove
  <1>1. UNCHANGED <<now, hold, failVars, lastUsed, budgetVars>>
    BY DEF Housekeep, Close
  <1>2. \A q \in Procs : Uninvolved(q)
    <2>1. CASE Housekeep
      <3>1. pc[Housekeeper] = "idle" /\ \E label \in {"idle", "refresh"} : Goto(Housekeeper, label)
        BY <2>1 DEF Housekeep
      <3>2. QED
        BY <1>1, <3>1, WorkersApart, OneMoves DEF TunnelStates, Opening, ProbeTunnel
    <2>2. CASE Close
      BY <2>2 DEF Close, Uninvolved
    <2>3. QED
      BY <2>1, <2>2
  <1>3. PICK C \in SUBSET Holders : Cuts(C) /\ CloseTunnels(C)
    <2>1. CASE Housekeep
      <3>1. IdleTunnels \in SUBSET Holders
        BY DEF IdleTunnels, Holders
      <3>2. opts.IdleTimeout > 0 => \A h \in IdleTunnels : isOpen(h) /\ h \in Slots /\ OutOfUse(h)
        BY DEF IdleTunnels, OutOfUse
      <3>3. \E C \in {{}, IdleTunnels} : /\ C = {} \/ opts.IdleTimeout > 0
                                        /\ tunnel' = Detached(C) /\ CloseTunnels(C)
        BY <2>1 DEF Housekeep
      <3>4. QED
        BY <3>1, <3>2, <3>3 DEF Cuts
    <2>2. CASE Close
      BY <2>2 DEF Close, Cuts
    <2>3. QED
      BY <2>1, <2>2
  <1>4. TunnelTypeOK'
    <2>1. /\ draining' \in Nat /\ lost' \in [Requests -> BOOLEAN]
          /\ tunnel' \in [Holders -> {"closed", "opening", "open"}]
      BY <1>3, CloseTunnelsTypes DEF Cuts
    <2>2. QED
      BY <1>1, <2>1 DEF TunnelTypeOK, failVars, budgetVars
  <1>5. QED
    BY <1>1, <1>2, <1>3, <1>4, UninvolvedStays DEF TunnelMove, TunnelStill, budgetVars

\* What asking for the budget leaves of the timestamps.
LEMMA AfterCheck ==
    ASSUME TunnelTypeOK, opens' \in {opens, pruneOpensLocked, OpensAfterCheck}
    PROVE  opens' \in {opens, pruneOpensLocked} /\ opens' \in Seq(Nat)
  BY PruneShrinks DEF OpensAfterCheck, TunnelTypeOK

\* Whom reserveCapacityLocked evicts has no connection.
LEMMA VictimIdle ==
    ASSUME LeaseTypeOK, NEW v \in reserveCapacityLocked
    PROVE  /\ {v} \ {NoSlot} \in SUBSET Holders
           /\ \A h \in {v} \ {NoSlot} : isOpen(h) /\ h \in Slots /\ exitLoad(h) = 0
           /\ \/ {v} \ {NoSlot} = {} /\ opts.MaxActive = 0
              \/ /\ {v} \ {NoSlot} = {}
                 /\ Cardinality(Up) + probeTunnels < opts.MaxActive
              \/ \E w \in IdleOpen : {v} \ {NoSlot} = {w}
  <1>1. CASE v = NoSlot /\ (opts.MaxActive = 0 \/ Cardinality(Up) + probeTunnels < opts.MaxActive)
    BY <1>1
  <1>2. CASE v \in IdleOpen
    <2>1. v \in Slots /\ isOpen(v) /\ exitLoad(v) = 0
      BY <1>2 DEF IdleOpen
    <2>2. v # NoSlot /\ v \in Holders
      BY <2>1, DistinctAssumption DEF Holders
    <2>3. QED
      BY <1>2, <2>1, <2>2
  <1>3. QED
    BY <1>1, <1>2 DEF reserveCapacityLocked, LeastRecentlyUsed

\* pick may evict for the tunnel it is about to ask for.
LEMMA PickCuts ==
    ASSUME TypeInv, LeaseTypeOK, TunnelTypeOK, NEW r \in Requests,
           PickNothing(r) \/ PickSlot(r)
    PROVE  TunnelTypeOK' /\ TunnelMove
  <1>1. /\ r \in Procs /\ pc[r] = "pick"
        /\ UNCHANGED <<now, failVars, lastUsed, pendingTunnelOpens, probeTunnels>>
    BY WorkersApart DEF PickNothing, PickSlot, tunnelVars
  <1>2. /\ \E label \in {"idle", "dial"} : Goto(r, label)
        /\ \A q \in Procs \ {r} : hold'[q] = hold[q]
    BY <1>1 DEF PickNothing, PickSlot, Return, ResetWork, TypeInv, ControlTypeOK
  <1>3. \A q \in Procs : Uninvolved(q)
    BY <1>1, <1>2, OneMoves DEF TunnelStates, Opening, ProbeTunnel
  <1>4. opens' \in {opens, pruneOpensLocked} /\ opens' \in Seq(Nat)
    BY AfterCheck DEF PickNothing, PickSlot
  <1>5. /\ \E C \in SUBSET Holders : Cuts(C)
        /\ draining' \in Nat /\ lost' \in [Requests -> BOOLEAN]
        /\ tunnel' \in [Holders -> {"closed", "opening", "open"}]
    <2>1. CASE PickNothing(r)
      BY <2>1, NothingCut DEF PickNothing, tunnelVars, TunnelTypeOK
    <2>2. CASE PickSlot(r)
      <3>1. PICK v \in reserveCapacityLocked \cup {NoSlot} :
              tunnel' = Detached({v} \ {NoSlot}) /\ CloseTunnels({v} \ {NoSlot})
        BY <2>2 DEF PickSlot
      <3>2. Cuts({v} \ {NoSlot}) /\ {v} \ {NoSlot} \in SUBSET Holders
        BY <3>1, VictimIdle DEF Cuts
      <3>3. QED
        BY <3>1, <3>2, CloseTunnelsTypes
    <2>3. QED
      BY <2>1, <2>2
  <1>6. TunnelTypeOK'
    BY <1>1, <1>4, <1>5 DEF TunnelTypeOK, failVars
  <1>7. QED
    BY <1>1, <1>3, <1>4, <1>5, <1>6, UninvolvedStays DEF TunnelMove, TunnelStill

\* ensureOpen's reservation: capacity, then budget, then the channel.
LEMMA ReserveStep ==
    ASSUME TypeInv, LeaseTypeOK, TunnelTypeOK, NEW p \in Procs, EnsureOpenReserve(p)
    PROVE  TunnelTypeOK' /\ TunnelMove
  <1>1. /\ pc[p] = "open" /\ hold[p] \in Holders /\ tunnel[hold[p]] = "closed"
        /\ opens' = OpensAfterCheck
        /\ UNCHANGED <<now, failVars, lastUsed, probeTunnels>>
    BY DEF EnsureOpenReserve, NobodyOpened, TypeInv, WorkOK
  <1>2. PICK v \in reserveCapacityLocked :
          /\ CloseTunnels({v} \ {NoSlot})
          /\ \/ /\ tunnelBudgetAvailableLocked
                /\ tunnel' = [Detached({v} \ {NoSlot}) EXCEPT ![hold[p]] = "opening"]
                /\ pendingTunnelOpens' = pendingTunnelOpens + 1
                /\ Goto(p, "reserved")
                /\ UNCHANGED hold
             \/ /\ tunnel' = Detached({v} \ {NoSlot})
                /\ OpenFailed(p)
                /\ UNCHANGED pendingTunnelOpens
    BY DEF EnsureOpenReserve
  <1> DEFINE C == {v} \ {NoSlot}
  <1>3. C \in SUBSET Holders /\ draining' \in Nat /\ lost' \in [Requests -> BOOLEAN]
    <2>1. C \in SUBSET Holders /\ Cardinality(C) \in Nat
      BY VictimIdle, FiniteProcs, FS_Subset, FS_CardinalityType
    <2>2. QED
      BY <1>2, <2>1 DEF CloseTunnels, TunnelTypeOK
  <1>4. opens' \in {opens, pruneOpensLocked} /\ opens' \in Seq(Nat)
    BY <1>1, AfterCheck
  <1>5. Detached(C) \in [Holders -> {"closed", "opening", "open"}]
    BY DEF Detached, TunnelTypeOK
  <1>6. CASE tunnelBudgetAvailableLocked /\ Goto(p, "reserved") /\ UNCHANGED hold
             /\ tunnel' = [Detached(C) EXCEPT ![hold[p]] = "opening"]
             /\ pendingTunnelOpens' = pendingTunnelOpens + 1
    <2>1. MakesRoom(C)
      BY <1>1, <1>2, <1>6, VictimIdle DEF MakesRoom
    <2>2. Reserves(p) /\ \A q \in Procs \ {p} : Stays(q)
      BY <1>1, <1>3, <1>6, <2>1, OneMoves DEF Reserves
    <2>3. tunnel' \in [Holders -> {"closed", "opening", "open"}]
      BY <1>5, <1>6
    <2>4. pendingTunnelOpens' \in Nat
      BY <1>6 DEF TunnelTypeOK
    <2>5. TunnelTypeOK'
      BY <1>1, <1>3, <1>4, <2>3, <2>4 DEF TunnelTypeOK, failVars
    <2>6. QED
      BY <2>2, <2>5 DEF TunnelMove
  <1>7. CASE tunnel' = Detached(C) /\ OpenFailed(p) /\ UNCHANGED pendingTunnelOpens
    <2>1. /\ \E label \in {"entry", "failed"} : Goto(p, label)
          /\ \A q \in Procs \ {p} : hold'[q] = hold[q]
      BY <1>7 DEF OpenFailed, TypeInv, ControlTypeOK
    <2>2. \A q \in Procs : Uninvolved(q)
      BY <1>1, <2>1, OneMoves DEF TunnelStates, Opening, ProbeTunnel
    <2>3. Cuts(C)
      BY <1>2, <1>7, VictimIdle DEF Cuts
    <2>4. TunnelTypeOK'
      BY <1>1, <1>3, <1>4, <1>5, <1>7 DEF TunnelTypeOK, failVars
    <2>5. QED
      BY <1>1, <1>3, <1>4, <1>7, <2>2, <2>3, <2>4, UninvolvedStays DEF TunnelMove, TunnelStill
  <1>8. QED
    BY <1>2, <1>6, <1>7

\* The counter's guard against zero keeps it a number.
LEMMA Min0Type == ASSUME NEW n \in Nat PROVE Min0(n) \in Nat
  BY DEF Min0

\* The opener contacts the relay or aborts before it does.
LEMMA ContactStep ==
    ASSUME TypeInv, TunnelTypeOK, NEW p \in Procs, AbortOpen(p) \/ CommitTunnelOpen(p)
    PROVE  TunnelTypeOK' /\ TunnelMove
  <1>1. /\ pc[p] = "reserved"
        /\ \E label \in {"aborting", "contact"} : Goto(p, label)
        /\ opens' \in {opens, Append(pruneOpensLocked, now)}
        /\ pendingTunnelOpens' = Min0(pendingTunnelOpens)
        /\ UNCHANGED <<now, hold, failVars, tunnelVars, probeTunnels>>
    BY DEF AbortOpen, CommitTunnelOpen
  <1>2. Contacts(p) /\ \A q \in Procs \ {p} : Stays(q)
    BY <1>1, OneMoves DEF Contacts, Promised, Opening, ProbeTunnel, tunnelVars
  <1>3. opens' \in Seq(Nat)
    <2>1. opens \in Seq(Nat) /\ now \in Nat
      BY DEF TunnelTypeOK
    <2>2. Append(pruneOpensLocked, now) \in Seq(Nat)
      BY <2>1, PruneShrinks, AppendProperties
    <2>3. QED
      BY <1>1, <2>1, <2>2
  <1>4. TunnelTypeOK'
    BY <1>1, <1>3, Min0Type DEF TunnelTypeOK, failVars, tunnelVars
  <1>5. QED
    BY <1>2, <1>4 DEF TunnelMove

\* The opener is done with the channel, one way or the other.
LEMMA EndStep ==
    ASSUME TypeInv, TunnelTypeOK, NEW p \in Procs,
           AbortOpenDone(p) \/ OpenSucceeds(p) \/ OpenFails(p)
    PROVE  TunnelTypeOK' /\ TunnelMove
  <1> DEFINE h == hold[p]
  <1>1. /\ pc[p] \in {"aborting", "contact"} /\ h \in Holders
        /\ UNCHANGED <<now, lastUsed, draining, lost, budgetVars>>
    BY DEF AbortOpenDone, OpenSucceeds, OpenFails, TypeInv, WorkOK, Opening
  <1>2. /\ \E label \in {"got", "entry", "failed"} : Goto(p, label)
        /\ \A q \in Procs \ {p} : hold'[q] = hold[q]
    BY DEF AbortOpenDone, OpenSucceeds, OpenFails, OpenFailed, TypeInv, ControlTypeOK
  <1>3. \E end \in {"closed", "open"} : tunnel' = [tunnel EXCEPT ![h] = end]
    BY DEF AbortOpenDone, OpenSucceeds, OpenFails, ClearOpening
  <1>4. Ends(p) /\ \A q \in Procs \ {p} : Stays(q)
    BY <1>1, <1>2, <1>3, OneMoves DEF Ends, TunnelStates, Opening, ProbeTunnel, budgetVars
  <1>5. failures' \in [Holders -> Nat] /\ disabledUntil' \in [Holders -> Nat]
    <2>1. CASE AbortOpenDone(p) \/ OpenSucceeds(p)
      <3>1. failures' \in {failures, [failures EXCEPT ![h] = 0]} /\ UNCHANGED disabledUntil
        BY <2>1 DEF AbortOpenDone, OpenSucceeds, failVars
      <3>2. QED
        BY <3>1, WriteOne DEF TunnelTypeOK
    <2>2. CASE OpenFails(p)
      <3>1. Bump(failures[h]) \in Nat \ {0}
        BY <1>1, BumpCounts DEF TunnelTypeOK
      <3>2. opts.MaxEntryBackoff \in Nat \ {0}
        BY InputAssumption, BackoffAssumption DEF Options
      <3>3. Backoff(Bump(failures[h]), 1, opts.MaxEntryBackoff) \in Nat
        <4>1. ASSUME NEW n \in Nat \ {0}
              PROVE  Backoff(n, 1, opts.MaxEntryBackoff) \in Nat
          <5>1. 1 \in Nat /\ 1 <= n /\ n \in Nat
            OBVIOUS
          <5>2. QED
            BY <3>2, <5>1, BackoffLasts
        <4>2. QED
          BY <3>1, <4>1
      <3>4. \/ UNCHANGED failVars
            \/ /\ failures' = [failures EXCEPT ![h] = Bump(failures[h])]
               /\ disabledUntil' = [disabledUntil EXCEPT ![h] =
                                      now + Backoff(Bump(failures[h]), 1, opts.MaxEntryBackoff)]
        BY <2>2 DEF OpenFails
      <3>5. now + Backoff(Bump(failures[h]), 1, opts.MaxEntryBackoff) \in Nat
        BY <3>3 DEF TunnelTypeOK
      <3>6. CASE UNCHANGED failVars
        BY <3>6 DEF failVars, TunnelTypeOK
      <3>7. CASE ~UNCHANGED failVars
        <4>1. failures \in [Holders -> Nat] /\ disabledUntil \in [Holders -> Nat]
          BY DEF TunnelTypeOK
        <4>2. Bump(failures[h]) \in Nat
          BY <3>1
        <4>3. [failures EXCEPT ![h] = Bump(failures[h])] \in [Holders -> Nat]
          BY <4>1, <4>2
        <4>4. [disabledUntil EXCEPT ![h] = now + Backoff(Bump(failures[h]), 1,
                                                         opts.MaxEntryBackoff)]
                \in [Holders -> Nat]
          BY <3>5, <4>1
        <4>5. QED
          BY <3>4, <3>7, <4>3, <4>4, Zenon
      <3>8. QED
        BY <3>6, <3>7
    <2>3. QED
      BY <2>1, <2>2
  <1>6. tunnel' \in [Holders -> {"closed", "opening", "open"}]
    BY <1>3 DEF TunnelTypeOK
  <1>7. TunnelTypeOK'
    BY <1>1, <1>5, <1>6 DEF TunnelTypeOK, budgetVars
  <1>8. QED
    BY <1>4, <1>7 DEF TunnelMove

\* Warmup's goroutines start where a process owns nothing.
LEMMA WarmupAside ==
    ASSUME TypeInv, TunnelTypeOK, NEW count, Warmup(count)
    PROVE  TunnelTypeOK' /\ TunnelMove
  <1>1. /\ \A h \in Holders : pc[Warmer(h)] = "idle"
        /\ UNCHANGED <<now, failVars, tunnelVars, pendingTunnelOpens, probeTunnels>>
    BY DEF Warmup
  <1>2. PICK T \in SUBSET Holders :
          /\ pc' = [p \in Procs |-> IF p \in {Warmer(h) : h \in T} THEN "warm" ELSE pc[p]]
          /\ hold' = [p \in Procs |-> IF p \in {Warmer(h) : h \in T} THEN p[2] ELSE hold[p]]
    BY DEF Warmup, WarmTargets, Holders
  <1>3. \A p \in {Warmer(h) : h \in T} : pc[p] = "idle"
    BY <1>1
  <1>4. \A p \in Procs : Uninvolved(p)
    BY <1>2, <1>3 DEF Uninvolved, TunnelStates, Opening, ProbeTunnel
  <1>5. opens' \in {opens, pruneOpensLocked} /\ opens' \in Seq(Nat)
    BY AfterCheck DEF Warmup
  <1>6. TunnelTypeOK'
    BY <1>1, <1>5 DEF TunnelTypeOK, failVars, tunnelVars
  <1>7. QED
    BY <1>1, <1>4, <1>5, <1>6, NothingCut, UninvolvedStays DEF TunnelMove, TunnelStill, tunnelVars

\* What they do before and after they have asked for the tunnel.
LEMMA WarmerMoves ==
    ASSUME TypeInv, TunnelTypeOK, NEW h \in Holders, WarmupRuns(h) \/ WarmupDone(h)
    PROVE  TunnelTypeOK' /\ TunnelMove
  <1> DEFINE p == Warmer(h)
  <1>1. /\ p \in Procs /\ pc[p] \in {"warm", "got", "failed"} /\ UNCHANGED <<now, budgetVars>>
        /\ \A q \in Procs \ {p} : hold'[q] = hold[q]
    BY WorkersApart DEF WarmupRuns, WarmupDone, WorkerDone, ResetWork, TypeInv, ControlTypeOK
  <1>2. \A q \in Procs : Uninvolved(q)
    <2>1. CASE h \in Slots /\ MaybeCheckIP(p, h, "idle")
      BY <1>1, <2>1, CheckStarts DEF Uninvolved, TunnelStates, Opening, ProbeTunnel
    <2>2. CASE \E label \in {"idle", "open"} : Goto(p, label)
      BY <1>1, <2>2, OneMoves DEF TunnelStates, Opening, ProbeTunnel
    <2>3. QED
      BY <2>1, <2>2 DEF WarmupRuns, WarmupDone, WorkerDone
  <1>3. CASE UNCHANGED <<failVars, tunnelVars>>
    BY <1>1, <1>2, <1>3, AsideStep
  <1>4. CASE h \in Slots /\ NoteFailure(h)
    <2>1. TunnelTypeOK' /\ \E C \in SUBSET Holders : Cuts(C)
      BY <1>1, <1>4, NoteFailureCuts
    <2>2. QED
      BY <1>1, <1>2, <2>1, UninvolvedStays DEF TunnelMove, TunnelStill, budgetVars
  <1>5. QED
    BY <1>3, <1>4 DEF WarmupRuns, WarmupDone

\* Probe's goroutines start where a process owns nothing.
LEMMA ProbeAside ==
    ASSUME TypeInv, TunnelTypeOK, NEW T \in ProbeTargets, Probe(T)
    PROVE  TunnelTypeOK' /\ TunnelMove
  <1>1. /\ UNCHANGED <<hold, now, failVars, tunnelVars, budgetVars>>
        /\ pc' = [p \in Procs |-> IF p \in {Prober(s) : s \in T} THEN "probe" ELSE pc[p]]
        /\ \A s \in Slots : pc[Prober(s)] = "idle"
    BY DEF Probe
  <1>2. \A p \in {Prober(s) : s \in T} : pc[p] = "idle"
    BY <1>1, InputAssumption
  <1>3. \A p \in Procs : Uninvolved(p)
    BY <1>1, <1>2 DEF Uninvolved, TunnelStates, Opening, ProbeTunnel
  <1>4. QED
    BY <1>1, <1>3, AsideStep

\* probeDialer takes room for a tunnel beside the slot's own.
LEMMA ProbeReserveStep ==
    ASSUME TypeInv, LeaseTypeOK, TunnelTypeOK, NEW s \in Slots, ProbeReserve(s)
    PROVE  TunnelTypeOK' /\ TunnelMove
  <1> DEFINE p == Prober(s)
  <1>1. /\ p \in Procs /\ p \in Probers /\ pc[p] = "alone" /\ opens' = OpensAfterCheck
        /\ UNCHANGED <<now, hold, failVars, lastUsed>>
    BY WorkersApart DEF ProbeReserve, Probers
  <1>2. PICK v \in reserveCapacityLocked :
          tunnel' = Detached({v} \ {NoSlot}) /\ CloseTunnels({v} \ {NoSlot})
    BY DEF ProbeReserve
  <1> DEFINE C == {v} \ {NoSlot}
  <1>3. /\ C \in SUBSET Holders /\ draining' \in Nat /\ lost' \in [Requests -> BOOLEAN]
        /\ tunnel' \in [Holders -> {"closed", "opening", "open"}]
    BY <1>2, VictimIdle, CloseTunnelsTypes
  <1>4. opens' \in {opens, pruneOpensLocked} /\ opens' \in Seq(Nat)
    BY <1>1, AfterCheck
  <1>5. CASE /\ tunnelBudgetAvailableLocked /\ Goto(p, "promised")
             /\ pendingTunnelOpens' = pendingTunnelOpens + 1
             /\ probeTunnels' = probeTunnels + 1
    <2>1. MakesRoom(C)
      BY <1>1, <1>2, <1>5, VictimIdle DEF MakesRoom
    <2>2. ProbeTakes(p) /\ \A q \in Procs \ {p} : Stays(q)
      BY <1>1, <1>2, <1>3, <1>5, <2>1, OneMoves DEF ProbeTakes
    <2>3. pendingTunnelOpens' \in Nat /\ probeTunnels' \in Nat
      BY <1>5 DEF TunnelTypeOK
    <2>4. TunnelTypeOK'
      BY <1>1, <1>3, <1>4, <2>3 DEF TunnelTypeOK, failVars
    <2>5. QED
      BY <1>1, <2>2, <2>4 DEF TunnelMove
  <1>6. CASE Goto(p, "failed") /\ UNCHANGED <<pendingTunnelOpens, probeTunnels>>
    <2>1. \A q \in Procs : Uninvolved(q)
      BY <1>1, <1>6, OneMoves DEF TunnelStates, Opening, ProbeTunnel
    <2>2. Cuts(C)
      BY <1>2, VictimIdle DEF Cuts
    <2>3. TunnelTypeOK'
      BY <1>1, <1>3, <1>4, <1>6 DEF TunnelTypeOK, failVars
    <2>4. QED
      BY <1>3, <1>4, <1>6, <2>1, <2>2, <2>3, UninvolvedStays DEF TunnelMove, TunnelStill
  <1>7. QED
    BY <1>5, <1>6 DEF ProbeReserve

\* The rest of a probe: its contact, its measurement, the room it gives back.
LEMMA ProberMoves ==
    ASSUME TypeInv, LeaseTypeOK, TunnelTypeOK, NEW s \in Slots, Probing(s)
    PROVE  TunnelTypeOK' /\ TunnelMove
  <1> DEFINE p == Prober(s)
  <1>1. /\ p \in Procs /\ p \in Probers /\ s \in Holders
        /\ WorkerDone(p) => Goto(p, "idle") /\ \A q \in Procs \ {p} : hold'[q] = hold[q]
    BY WorkersApart DEF Probers, Holders, WorkerDone, ResetWork, TypeInv, ControlTypeOK
  <1>2. CASE ProbeReserve(s)
    BY <1>2, ProbeReserveStep
  <1>3. CASE ProbeContacts(s)
    <2>1. /\ pc[p] = "promised" /\ \E label \in {"wasted", "hello"} : Goto(p, label)
          /\ opens' \in {opens, Append(pruneOpensLocked, now)}
          /\ pendingTunnelOpens' = Min0(pendingTunnelOpens)
          /\ UNCHANGED <<now, hold, failVars, tunnelVars, probeTunnels>>
      BY <1>3 DEF ProbeContacts
    <2>2. Contacts(p) /\ \A q \in Procs \ {p} : Stays(q)
      BY <1>1, <2>1, OneMoves DEF Contacts, Promised, Opening, ProbeTunnel, tunnelVars
    <2>3. opens' \in Seq(Nat)
      <3>1. opens \in Seq(Nat) /\ now \in Nat
        BY DEF TunnelTypeOK
      <3>2. Append(pruneOpensLocked, now) \in Seq(Nat)
        BY <3>1, PruneShrinks, AppendProperties
      <3>3. QED
        BY <2>1, <3>1, <3>2
    <2>4. TunnelTypeOK'
      BY <2>1, <2>3, Min0Type DEF TunnelTypeOK, failVars, tunnelVars
    <2>5. QED
      BY <1>1, <2>2, <2>4 DEF TunnelMove
  <1>4. CASE ProbeReleases(s)
    <2>1. /\ pc[p] \in {"spent", "wasted"} /\ \E label \in {"idle", "failed"} : Goto(p, label)
          /\ \A q \in Procs \ {p} : hold'[q] = hold[q]
          /\ probeTunnels' = Min0(probeTunnels)
          /\ UNCHANGED <<now, failVars, tunnelVars, opens, pendingTunnelOpens>>
      BY <1>1, <1>4 DEF ProbeReleases, releaseProbeCapacity, WorkerDone
    <2>2. ProbeGives(p) /\ \A q \in Procs \ {p} : Stays(q)
      BY <1>1, <2>1, OneMoves DEF ProbeGives, TunnelStates, Opening, ProbeTunnel, tunnelVars
    <2>3. TunnelTypeOK'
      BY <2>1, Min0Type DEF TunnelTypeOK, failVars, tunnelVars
    <2>4. QED
      BY <1>1, <2>2, <2>3 DEF TunnelMove
  <1>5. CASE ProbeRuns(s) \/ ProbeRefused(s) \/ ProbeGoesOn(s) \/ ProbeMeasures(s) \/ ProbeFails(s)
    <2>1. /\ \E label \in {"idle", "alone", "dial", "failed", "shown", "wasted", "spent"} :
               /\ Goto(p, label)
               /\ \/ /\ pc[p] \in {"probe", "alone", "got", "failed"}
                     /\ label \in {"idle", "alone", "dial", "failed"}
                  \/ pc[p] \in {"hello", "shown"} /\ label \in {"shown", "wasted", "spent"}
          /\ \A q \in Procs \ {p} : hold'[q] = hold[q]
          /\ UNCHANGED <<now, tunnelVars, budgetVars>>
      BY <1>1, <1>5 DEF ProbeRuns, ProbeRefused, ProbeGoesOn, ProbeMeasures, ProbeFails, WorkerDone
    <2>2. \A q \in Procs : Stays(q)
      BY <1>1, <2>1, OneMoves DEF Stays, Opening, Promised, ProbeTunnel
    <2>3. failures' \in [Holders -> Nat] /\ disabledUntil' \in [Holders -> Nat]
      <3>1. Bump(failures[s]) \in Nat
        BY <1>1, BumpCounts DEF TunnelTypeOK
      <3>2. PICK f \in DialLeaves(p) :
              /\ failures' \in {f, [f EXCEPT ![s] = 0], [failures EXCEPT ![s] = Bump(failures[s])]}
              /\ disabledUntil' \in {disabledUntil, [disabledUntil EXCEPT ![s] = 0]}
        <4>1. failures \in DialLeaves(p)
          BY DEF DialLeaves
        <4>2. CASE ProbeGoesOn(s) \/ ProbeMeasures(s)
          BY <4>1, <4>2 DEF ProbeGoesOn, ProbeMeasures
        <4>3. CASE ProbeRuns(s) \/ ProbeRefused(s) \/ ProbeFails(s)
          BY <4>1, <4>3 DEF ProbeRuns, ProbeRefused, ProbeFails, failVars
        <4>4. QED
          BY <1>5, <4>2, <4>3
      <3>3. f \in [Holders -> Nat]
        BY <1>1, DialLeavesCounters
      <3>4. /\ [failures EXCEPT ![s] = Bump(failures[s])] \in [Holders -> Nat]
            /\ [f EXCEPT ![s] = 0] \in [Holders -> Nat]
            /\ [disabledUntil EXCEPT ![s] = 0] \in [Holders -> Nat]
        BY <3>1, <3>3 DEF TunnelTypeOK
      <3>5. QED
        BY <3>2, <3>3, <3>4 DEF TunnelTypeOK
    <2>4. TunnelTypeOK'
      BY <2>1, <2>3 DEF TunnelTypeOK, tunnelVars, budgetVars
    <2>5. QED
      BY <2>1, <2>2, <2>4, NothingCut DEF TunnelMove, TunnelStill, tunnelVars, budgetVars
  <1>6. QED
    BY <1>2, <1>3, <1>4, <1>5 DEF Probing

\* Every step of the pool keeps the types and is of one of the kinds.
LEMMA TunnelKinds ==
    ASSUME TypeInv, LeaseTypeOK, TunnelTypeOK, [AnyNext]_vars
    PROVE  TunnelTypeOK' /\ TunnelMove
  <1>1. CASE UNCHANGED vars
    BY <1>1, StandingAside DEF vars
  <1>2. CASE CloseReturns \/ (\E p \in Procs : Cancel(p)) \/ (\E n : Rotate(n) \/ Prefer(n))
             \/ Expires
    <2>1. UNCHANGED <<pc, hold, now, failVars, tunnelVars, budgetVars>>
      BY <1>2 DEF CloseReturns, Cancel, Rotate, Prefer, Expires
    <2>2. QED
      BY <2>1, StandingAside
  <1>3. CASE Tick \/ DrainDone \/ \E in \in ReportType : Report(in)
    BY <1>3, WorldStep
  <1>4. CASE Housekeep \/ Close
    BY <1>4, SweepStep
  <1>5. ASSUME NEW r \in Requests, NEW c \in Calls, Start(r, c)
        PROVE  TunnelTypeOK' /\ TunnelMove
    BY <1>5, RequestAside
  <1>6. ASSUME NEW r \in Requests, Acquirer(r) \/ Holder(r)
        PROVE  TunnelTypeOK' /\ TunnelMove
    BY <1>6, RequestAside, PickCuts, BlameStep, LeaseWrites DEF Acquirer, Holder
  <1>7. ASSUME NEW p \in Procs, Opener(p)
        PROVE  TunnelTypeOK' /\ TunnelMove
    BY <1>7, OpenerAside, ReserveStep, ContactStep, EndStep DEF Opener
  <1>8. ASSUME NEW count, Warmup(count)
        PROVE  TunnelTypeOK' /\ TunnelMove
    BY <1>8, WarmupAside
  <1>9. ASSUME NEW h \in Holders, WarmupRuns(h) \/ WarmupDone(h)
        PROVE  TunnelTypeOK' /\ TunnelMove
    BY <1>9, WarmerMoves
  <1>10. ASSUME NEW T \in ProbeTargets, Probe(T)
         PROVE  TunnelTypeOK' /\ TunnelMove
    BY <1>10, ProbeAside
  <1>11. ASSUME NEW s \in Slots, IPCheck(s) \/ Probing(s)
         PROVE  TunnelTypeOK' /\ TunnelMove
    BY <1>11, CheckerAside, ProberMoves
  <1>12. CASE RefreshIP
    BY <1>12, RefreshAside
  <1>13. CASE Serve
    BY <1>2, <1>3, <1>4, <1>5, <1>6, <1>7, <1>8, <1>9, <1>10, <1>11, <1>12, <1>13
       DEF Serve, Working
  <1>14. QED
    BY <1>1, <1>2, <1>3, <1>13 DEF AnyNext, Calm

-----------------------------------------------------------------------------
(* The inductive invariant: the counters count, and the bounds hold.       *)

Promisers == {p \in Procs : pc[p] \in Promised}
ProbesUp  == {p \in Probers : pc[p] \in ProbeTunnel}

TunnelCounts == /\ pendingTunnelOpens = Cardinality(Promisers)
                /\ probeTunnels = Cardinality(ProbesUp)
TunnelCaps ==
    /\ opts.MaxActive > 0 => Cardinality(Up) + probeTunnels <= opts.MaxActive
    /\ opts.NewTunnelBudget > 0 =>
         Len(opens) + pendingTunnelOpens <= opts.NewTunnelBudget
TunnelInv == LeaseInv /\ TunnelTypeOK /\ SingleOpener /\ TunnelCounts /\ TunnelCaps

\* The sets that are counted are finite; a probe is a process.
LEMMA CountedSets ==
    /\ Promisers \in SUBSET Procs /\ ProbesUp \in SUBSET Procs /\ Up \in SUBSET Holders
    /\ Cardinality(Up) \in Nat /\ Probers \in SUBSET Procs
    /\ opts.MaxActive \in Nat /\ opts.NewTunnelBudget \in Nat
  <1>1. Probers \in SUBSET Procs
    BY DEF Procs, Workers
  <1>2. Up \in SUBSET Holders /\ Promisers \in SUBSET Procs /\ ProbesUp \in SUBSET Procs
    BY <1>1 DEF Up, Promisers, ProbesUp
  <1>3. QED
    BY <1>1, <1>2, FiniteProcs, MovingMember, InputAssumption DEF Options

\* A new pool has no tunnels.
LEMMA TunnelBlank == Blank /\ now \in Nat => TunnelInv
  <1> SUFFICES ASSUME Blank, now \in Nat PROVE TunnelInv
    OBVIOUS
  <1>1. TunnelTypeOK
    BY DEF Blank, TunnelTypeOK
  <1>2. \A p \in Procs : pc[p] = "idle"
    BY DEF Blank
  <1>3. Promisers = {} /\ ProbesUp = {} /\ Up = {}
    BY <1>2, CountedSets DEF Blank, Promisers, ProbesUp, Up, Promised, ProbeTunnel
  <1>4. TunnelCounts
    BY <1>3, FS_EmptySet DEF Blank, TunnelCounts
  <1>5. Len(opens) = 0
    BY DEF Blank
  <1>6. TunnelCaps
    BY <1>3, <1>5, FS_EmptySet, CountedSets DEF Blank, TunnelCaps
  <1>7. SingleOpener
    BY <1>2 DEF Blank, SingleOpener, Opening
  <1>8. QED
    BY <1>1, <1>4, <1>6, <1>7, LeaseBlank DEF TunnelInv

LEMMA TunnelInit == Init => TunnelInv
  BY InitBlank, TunnelBlank

\* Nobody who is counted joins or leaves when everybody stays.
LEMMA StillCounts ==
    ASSUME \A p \in Procs : Stays(p)
    PROVE  Promisers' = Promisers /\ ProbesUp' = ProbesUp
  BY CountedSets DEF Stays, Promisers, ProbesUp

\* Cutting open tunnels takes them from those that are up.
LEMMA CutsUp ==
    ASSUME TunnelTypeOK, NEW C \in SUBSET Holders, \A h \in C : isOpen(h), tunnel' = Detached(C)
    PROVE  /\ Up' = Up \ C
           /\ \A h \in Holders : tunnel'[h] = "opening" <=> tunnel[h] = "opening"
  <1>1. \A h \in Holders : tunnel'[h] = IF h \in C THEN "closed" ELSE tunnel[h]
    BY DEF Detached
  <1>2. \A h \in C : tunnel[h] = "open"
    BY DEF isOpen
  <1>3. QED
    BY <1>1, <1>2 DEF Up

\* Steps that cut, prune or do neither.
LEMMA StillKeepsTunnels ==
    ASSUME TunnelInv, LeaseInv', TunnelTypeOK', TunnelStill
    PROVE  TunnelInv'
  <1>1. PICK C \in SUBSET Holders : Cuts(C)
    BY DEF TunnelStill
  <1>2. /\ Up' = Up \ C
        /\ \A h \in Holders : tunnel'[h] = "opening" <=> tunnel[h] = "opening"
    BY <1>1, CutsUp DEF Cuts, TunnelInv
  <1>3. SingleOpener'
    <2>1. \A p \in Procs : /\ pc[p] \in Opening <=> pc'[p] \in Opening
                           /\ pc[p] \in Opening => hold'[p] = hold[p]
      BY DEF TunnelStill, Stays
    <2>2. QED
      BY <1>2, <2>1 DEF TunnelInv, SingleOpener
  <1>4. TunnelCounts'
    BY StillCounts DEF TunnelStill, TunnelInv, TunnelCounts
  <1>5. TunnelCaps'
    <2>1. Cardinality(Up') \in Nat /\ Cardinality(Up') <= Cardinality(Up)
      BY <1>2, CountedSets, FiniteProcs, FS_Subset, FS_CardinalityType
    <2>2. Len(opens') \in Nat /\ Len(opens') <= Len(opens) /\ Len(opens) \in Nat
      BY PruneShrinks DEF TunnelStill, TunnelInv, TunnelTypeOK
    <2>3. /\ UNCHANGED <<pendingTunnelOpens, probeTunnels>>
          /\ pendingTunnelOpens \in Nat /\ probeTunnels \in Nat
      BY DEF TunnelStill, TunnelInv, TunnelTypeOK
    <2>4. QED
      BY <2>1, <2>2, <2>3, CountedSets DEF TunnelInv, TunnelCaps
  <1>6. QED
    BY <1>3, <1>4, <1>5 DEF TunnelInv

\* A budget check that says yes leaves room for the contact it promises.
LEMMA RoomForContact ==
    ASSUME TunnelInv, NEW C, MakesRoom(C)
    PROVE  opts.NewTunnelBudget > 0 =>
             Len(opens') + pendingTunnelOpens' <= opts.NewTunnelBudget
  <1>1. /\ Len(pruneOpensLocked) \in Nat /\ pendingTunnelOpens \in Nat
        /\ opts.NewTunnelBudget \in Nat
    BY PruneShrinks, CountedSets DEF TunnelInv, TunnelTypeOK
  <1>2. opts.NewTunnelBudget > 0 =>
          /\ opens' = pruneOpensLocked
          /\ Len(pruneOpensLocked) + pendingTunnelOpens < opts.NewTunnelBudget
    BY <1>1 DEF MakesRoom, OpensAfterCheck, tunnelBudgetAvailableLocked
  <1>3. QED
    BY <1>1, <1>2 DEF MakesRoom

\* An eviction is of open tunnels of slots without a connection.
LEMMA VictimsOpen ==
    ASSUME LeaseTypeOK, NEW C \in SUBSET Holders, MakesRoom(C)
    PROVE  \A h \in C : isOpen(h) /\ h \in Slots /\ exitLoad(h) = 0 /\ leases[h] = 0
  <1>1. ASSUME NEW v \in IdleOpen
        PROVE  isOpen(v) /\ v \in Slots /\ exitLoad(v) = 0 /\ leases[v] = 0
    BY <1>1 DEF IdleOpen, exitLoad, LeaseTypeOK
  <1>2. QED
    BY <1>1 DEF MakesRoom

\* An eviction is of one open tunnel, or there was room without it.
LEMMA RoomForTunnel ==
    ASSUME TunnelInv, NEW C \in SUBSET Holders, MakesRoom(C), opts.MaxActive > 0
    PROVE  /\ \A h \in C : isOpen(h)
           /\ Cardinality(Up \ C) \in Nat
           /\ Cardinality(Up \ C) + probeTunnels < opts.MaxActive
  <1>1. opts.MaxActive \in Nat /\ probeTunnels \in Nat /\ Cardinality(Up) \in Nat
    BY CountedSets DEF TunnelInv, TunnelTypeOK
  <1>2. CASE C = {} /\ Cardinality(Up) + probeTunnels < opts.MaxActive
    <2>1. Up \ C = Up
      BY <1>2
    <2>2. QED
      BY <1>1, <1>2, <2>1
  <1>3. ASSUME NEW v \in IdleOpen, C = {v}
        PROVE  /\ \A h \in C : isOpen(h)
               /\ Cardinality(Up \ C) \in Nat
               /\ Cardinality(Up \ C) + probeTunnels < opts.MaxActive
    <2>1. isOpen(v) /\ v \in Up
      BY <1>3 DEF IdleOpen, Up, Holders, isOpen
    <2>2. Cardinality(Up \ {v}) = Cardinality(Up) - 1 /\ Cardinality(Up) > 0
      BY <2>1, CountedSets, FiniteProcs, MovingMember
    <2>3. Cardinality(Up) + probeTunnels <= opts.MaxActive
      BY DEF TunnelInv, TunnelCaps
    <2>4. QED
      BY <1>1, <1>3, <2>1, <2>2, <2>3
  <1>4. opts.MaxActive # 0
    BY <1>1
  <1>5. \/ C = {} /\ Cardinality(Up) + probeTunnels < opts.MaxActive
        \/ \E v \in IdleOpen : C = {v}
    BY <1>4 DEF MakesRoom
  <1>6. QED
    BY <1>2, <1>3, <1>5

\* A new opener: its tunnel was closed, so nobody else is opening it.
LEMMA ReservesKeepsTunnels ==
    ASSUME TunnelInv, LeaseInv', TunnelTypeOK', NEW p \in Procs, Reserves(p),
           \A q \in Procs \ {p} : Stays(q)
    PROVE  TunnelInv'
  <1> DEFINE h == hold[p]
  <1>1. /\ pc[p] = "open" /\ pc'[p] = "reserved" /\ h \in Holders /\ tunnel[h] = "closed"
        /\ hold'[p] = h /\ UNCHANGED probeTunnels
    BY DEF Reserves, TunnelInv, LeaseInv, TypeInv, WorkOK
  <1>2. PICK C \in SUBSET Holders :
          MakesRoom(C) /\ tunnel' = [Detached(C) EXCEPT ![h] = "opening"]
    BY DEF Reserves
  <1>3. \A g \in C : tunnel[g] = "open"
    BY <1>2, VictimsOpen DEF TunnelInv, LeaseInv, isOpen
  <1>4. \A g \in Holders : tunnel'[g] = IF g = h THEN "opening"
                                       ELSE IF g \in C THEN "closed" ELSE tunnel[g]
    BY <1>1, <1>2 DEF Detached
  <1>5. SingleOpener'
    <2>1. \A q \in Procs \ {p} : /\ pc[q] \in Opening <=> pc'[q] \in Opening
                                 /\ pc[q] \in Opening => hold'[q] = hold[q] /\ hold[q] # h
      BY <1>1 DEF Stays, TunnelInv, SingleOpener
    <2>2. pc[p] \notin Opening /\ pc'[p] \in Opening
      BY <1>1 DEF Opening
    <2>3. \A g \in Holders \ {h} : tunnel'[g] = "opening" <=> tunnel[g] = "opening"
      BY <1>3, <1>4
    <2>4. QED
      BY <1>1, <1>4, <2>1, <2>2, <2>3 DEF TunnelInv, SingleOpener
  <1>6. TunnelCounts'
    <2>1. Promisers' = Promisers \cup {p} /\ p \notin Promisers /\ ProbesUp' = ProbesUp
      BY <1>1, CountedSets DEF Promisers, ProbesUp, Stays, Promised, ProbeTunnel
    <2>2. Cardinality(Promisers') = Cardinality(Promisers) + 1
      BY <2>1, CountedSets, FiniteProcs, MovingMember
    <2>3. QED
      BY <1>1, <1>2, <2>1, <2>2 DEF TunnelInv, TunnelCounts, MakesRoom
  <1>7. opts.MaxActive > 0 => Cardinality(Up') + probeTunnels' <= opts.MaxActive
    <2>1. SUFFICES ASSUME opts.MaxActive > 0
                   PROVE  Cardinality(Up') + probeTunnels' <= opts.MaxActive
      OBVIOUS
    <2>2. /\ Cardinality(Up \ C) \in Nat /\ probeTunnels \in Nat /\ opts.MaxActive \in Nat
          /\ Cardinality(Up \ C) + probeTunnels < opts.MaxActive
      BY <1>2, <2>1, RoomForTunnel, CountedSets DEF TunnelInv, TunnelTypeOK
    <2>3. Up' = (Up \ C) \cup {h} /\ h \notin Up \ C /\ Up \ C \in SUBSET Holders
      BY <1>1, <1>3, <1>4 DEF Up
    <2>4. Cardinality(Up') = Cardinality(Up \ C) + 1
      BY <2>3, FiniteProcs, MovingMember
    <2>5. QED
      BY <1>1, <2>2, <2>4
  <1>8. TunnelCaps'
    BY <1>2, <1>7, RoomForContact DEF TunnelCaps
  <1>9. QED
    BY <1>5, <1>6, <1>8 DEF TunnelInv

\* A contact is charged as its promise ends; the counter counts the promise, so
\* its guard against zero has no effect.
LEMMA ContactsKeepsTunnels ==
    ASSUME TunnelInv, LeaseInv', TunnelTypeOK', NEW p \in Procs, Contacts(p),
           \A q \in Procs \ {p} : Stays(q)
    PROVE  TunnelInv'
  <1>1. /\ pc[p] \in Promised /\ pc'[p] \notin Promised /\ hold'[p] = hold[p]
        /\ pc[p] \in Opening <=> pc'[p] \in Opening
        /\ pc[p] \in ProbeTunnel <=> pc'[p] \in ProbeTunnel
        /\ UNCHANGED <<tunnel, probeTunnels>>
    BY DEF Contacts
  <1>2. SingleOpener'
    <2>1. \A q \in Procs : /\ pc[q] \in Opening <=> pc'[q] \in Opening
                           /\ pc[q] \in Opening => hold'[q] = hold[q]
      BY <1>1 DEF Stays
    <2>2. QED
      BY <1>1, <2>1 DEF TunnelInv, SingleOpener
  <1>3. /\ Promisers' = Promisers \ {p} /\ p \in Promisers /\ ProbesUp' = ProbesUp
    BY <1>1, CountedSets DEF Promisers, ProbesUp, Stays
  <1>4. /\ Cardinality(Promisers') = Cardinality(Promisers) - 1 /\ Cardinality(Promisers) > 0
        /\ Cardinality(Promisers) \in Nat
    BY <1>3, CountedSets, FiniteProcs, MovingMember
  <1>5. pendingTunnelOpens' = pendingTunnelOpens - 1 /\ pendingTunnelOpens \in Nat \ {0}
    BY <1>4 DEF TunnelInv, TunnelCounts, Contacts, Min0
  <1>6. TunnelCounts'
    BY <1>1, <1>3, <1>4, <1>5 DEF TunnelInv, TunnelCounts
  <1>7. TunnelCaps'
    <2>1. Up' = Up
      BY <1>1 DEF Up
    <2>2. Len(opens') \in Nat /\ Len(opens) \in Nat /\ Len(opens') <= Len(opens) + 1
      <3>1. /\ opens \in Seq(Nat) /\ now \in Nat /\ pruneOpensLocked \in Seq(Nat)
            /\ Len(pruneOpensLocked) <= Len(opens)
        BY PruneShrinks DEF TunnelInv, TunnelTypeOK
      <3>2. Len(Append(pruneOpensLocked, now)) = Len(pruneOpensLocked) + 1
        BY <3>1, AppendProperties
      <3>3. QED
        BY <3>1, <3>2 DEF Contacts
    <2>3. QED
      BY <1>1, <1>5, <2>1, <2>2, CountedSets DEF TunnelInv, TunnelCaps
  <1>8. QED
    BY <1>2, <1>6, <1>7 DEF TunnelInv

\* An opener that ends leaves one tunnel up or closed that was coming up.
LEMMA EndsKeepsTunnels ==
    ASSUME TunnelInv, LeaseInv', TunnelTypeOK', NEW p \in Procs, Ends(p),
           \A q \in Procs \ {p} : Stays(q)
    PROVE  TunnelInv'
  <1> DEFINE h == hold[p]
  <1>1. /\ pc[p] \in {"aborting", "contact"} /\ pc'[p] \notin TunnelStates /\ h \in Holders
        /\ UNCHANGED <<opens, pendingTunnelOpens, probeTunnels>>
    BY DEF Ends, TunnelInv, LeaseInv, TypeInv, WorkOK, Opening
  <1>2. pc[p] \in Opening /\ pc'[p] \notin Opening
    BY <1>1 DEF Opening, TunnelStates
  <1>3. tunnel[h] = "opening"
    BY <1>1, <1>2 DEF TunnelInv, SingleOpener
  <1>4. /\ tunnel'[h] \in {"closed", "open"}
        /\ \A g \in Holders \ {h} : tunnel'[g] = tunnel[g]
    BY <1>1 DEF Ends, TunnelInv, TunnelTypeOK
  <1>5. SingleOpener'
    <2>1. \A q \in Procs \ {p} : /\ pc[q] \in Opening <=> pc'[q] \in Opening
                                 /\ pc[q] \in Opening => hold'[q] = hold[q] /\ hold[q] # h
      BY <1>1, <1>2 DEF Stays, TunnelInv, SingleOpener
    <2>2. QED
      BY <1>1, <1>2, <1>4, <2>1 DEF TunnelInv, SingleOpener
  <1>6. TunnelCounts'
    <2>1. Promisers' = Promisers /\ ProbesUp' = ProbesUp
      BY <1>1, CountedSets DEF Promisers, ProbesUp, Stays, Promised, ProbeTunnel, TunnelStates,
         Opening
    <2>2. QED
      BY <1>1, <2>1 DEF TunnelInv, TunnelCounts
  <1>7. TunnelCaps'
    <2>1. Up' \in SUBSET Up
      BY <1>3, <1>4 DEF Up
    <2>2. Cardinality(Up') \in Nat /\ Cardinality(Up') <= Cardinality(Up)
      BY <2>1, CountedSets, FiniteProcs, FS_Subset, FS_CardinalityType
    <2>3. QED
      BY <1>1, <2>2, CountedSets DEF TunnelInv, TunnelCaps, TunnelTypeOK
  <1>8. QED
    BY <1>5, <1>6, <1>7 DEF TunnelInv

\* A probe takes room where there is some.
LEMMA ProbeTakesKeepsTunnels ==
    ASSUME TunnelInv, LeaseInv', TunnelTypeOK', NEW p \in Procs, ProbeTakes(p),
           \A q \in Procs \ {p} : Stays(q)
    PROVE  TunnelInv'
  <1>1. p \in Probers /\ pc[p] = "alone" /\ pc'[p] = "promised" /\ probeTunnels' = probeTunnels + 1
    BY DEF ProbeTakes
  <1>2. PICK C \in SUBSET Holders : MakesRoom(C) /\ tunnel' = Detached(C)
    BY DEF ProbeTakes
  <1>3. /\ Up' = Up \ C
        /\ \A h \in Holders : tunnel'[h] = "opening" <=> tunnel[h] = "opening"
    <2>1. \A h \in C : isOpen(h)
      BY <1>2, VictimsOpen DEF TunnelInv, LeaseInv
    <2>2. QED
      BY <1>2, <2>1, CutsUp DEF TunnelInv
  <1>4. SingleOpener'
    <2>1. \A q \in Procs : /\ pc[q] \in Opening <=> pc'[q] \in Opening
                           /\ pc[q] \in Opening => hold'[q] = hold[q]
      BY <1>1 DEF Stays, Opening
    <2>2. QED
      BY <1>3, <2>1 DEF TunnelInv, SingleOpener
  <1>5. TunnelCounts'
    <2>1. /\ Promisers' = Promisers \cup {p} /\ p \notin Promisers
          /\ ProbesUp' = ProbesUp \cup {p} /\ p \notin ProbesUp
      BY <1>1, CountedSets DEF Promisers, ProbesUp, Stays, Promised, ProbeTunnel
    <2>2. /\ Cardinality(Promisers') = Cardinality(Promisers) + 1
          /\ Cardinality(ProbesUp') = Cardinality(ProbesUp) + 1
      BY <2>1, CountedSets, FiniteProcs, MovingMember
    <2>3. QED
      BY <1>1, <1>2, <2>2 DEF TunnelInv, TunnelCounts, MakesRoom
  <1>6. opts.MaxActive > 0 => Cardinality(Up') + probeTunnels' <= opts.MaxActive
    <2>1. SUFFICES ASSUME opts.MaxActive > 0
                   PROVE  Cardinality(Up') + probeTunnels' <= opts.MaxActive
      OBVIOUS
    <2>2. /\ Cardinality(Up \ C) \in Nat /\ probeTunnels \in Nat /\ opts.MaxActive \in Nat
          /\ Cardinality(Up \ C) + probeTunnels < opts.MaxActive
      BY <1>2, <2>1, RoomForTunnel, CountedSets DEF TunnelInv, TunnelTypeOK
    <2>3. QED
      BY <1>1, <1>3, <2>2
  <1>7. TunnelCaps'
    BY <1>2, <1>6, RoomForContact DEF TunnelCaps
  <1>8. QED
    BY <1>4, <1>5, <1>7 DEF TunnelInv

\* A probe that is over gives its room back, once.
LEMMA ProbeGivesKeepsTunnels ==
    ASSUME TunnelInv, LeaseInv', TunnelTypeOK', NEW p \in Procs, ProbeGives(p),
           \A q \in Procs \ {p} : Stays(q)
    PROVE  TunnelInv'
  <1>1. /\ p \in Probers /\ pc[p] \in {"spent", "wasted"} /\ pc'[p] \notin TunnelStates
        /\ UNCHANGED <<tunnel, opens, pendingTunnelOpens>>
    BY DEF ProbeGives
  <1>2. SingleOpener'
    <2>1. \A q \in Procs : /\ pc[q] \in Opening <=> pc'[q] \in Opening
                           /\ pc[q] \in Opening => hold'[q] = hold[q]
      BY <1>1 DEF Stays, Opening, TunnelStates
    <2>2. QED
      BY <1>1, <2>1 DEF TunnelInv, SingleOpener
  <1>3. /\ ProbesUp' = ProbesUp \ {p} /\ p \in ProbesUp /\ Promisers' = Promisers
    BY <1>1, CountedSets DEF Promisers, ProbesUp, Stays, Promised, ProbeTunnel, TunnelStates,
       Opening
  <1>4. /\ Cardinality(ProbesUp') = Cardinality(ProbesUp) - 1 /\ Cardinality(ProbesUp) > 0
        /\ Cardinality(ProbesUp) \in Nat
    BY <1>3, CountedSets, FiniteProcs, MovingMember
  <1>5. probeTunnels' = probeTunnels - 1 /\ probeTunnels \in Nat \ {0}
    BY <1>4 DEF TunnelInv, TunnelCounts, ProbeGives, Min0
  <1>6. TunnelCounts'
    BY <1>1, <1>3, <1>4, <1>5 DEF TunnelInv, TunnelCounts
  <1>7. TunnelCaps'
    <2>1. Up' = Up
      BY <1>1 DEF Up
    <2>2. QED
      BY <1>1, <1>5, <2>1, CountedSets DEF TunnelInv, TunnelCaps
  <1>8. QED
    BY <1>2, <1>6, <1>7 DEF TunnelInv

\* The invariant is inductive.
LEMMA TunnelNext ==
    ASSUME TunnelInv, [AnyNext]_vars
    PROVE  TunnelInv'
  <1>1. LeaseInv'
    BY LeaseNext DEF TunnelInv
  <1>2. TunnelTypeOK' /\ TunnelMove
    BY TunnelKinds DEF TunnelInv, LeaseInv
  <1>3. QED
    BY <1>1, <1>2, StillKeepsTunnels, ReservesKeepsTunnels, ContactsKeepsTunnels,
       EndsKeepsTunnels, ProbeTakesKeepsTunnels, ProbeGivesKeepsTunnels DEF TunnelMove

\* A step that takes an open tunnel down has a reason for that very tunnel.
LEMMA MoveKeepsUsed ==
    ASSUME TunnelInv, [AnyNext]_vars, NEW h \in Holders, tunnel[h] = "open", tunnel'[h] # "open",
           h \in Entries \/ exitLoad(h) > 0
    PROVE  \/ now < disabledUntil'[h] \/ closing' = "waiting"
           \/ h \in Slots /\ OutOfUse(h)
  <1>1. TunnelMove
    BY TunnelKinds DEF TunnelInv, LeaseInv
  <1>2. ~(h \in Slots /\ exitLoad(h) = 0)
    BY DistinctAssumption DEF TunnelInv, LeaseInv, LeaseTypeOK
  <1>3. CASE TunnelStill
    <2>1. PICK C \in SUBSET Holders : Cuts(C)
      BY <1>3 DEF TunnelStill
    <2>2. h \in C
      BY <2>1 DEF Cuts, Detached
    <2>3. QED
      BY <1>2, <2>1, <2>2 DEF Cuts
  <1>4. ASSUME NEW p \in Procs, Reserves(p)
        PROVE  FALSE
    <2>1. PICK C \in SUBSET Holders :
            MakesRoom(C) /\ tunnel' = [Detached(C) EXCEPT ![hold[p]] = "opening"]
      BY <1>4 DEF Reserves
    <2>2. h # hold[p]
      BY <1>4 DEF Reserves
    <2>3. h \in C
      BY <2>1, <2>2 DEF Detached
    <2>4. QED
      BY <1>2, <2>1, <2>3, VictimsOpen DEF TunnelInv, LeaseInv
  <1>5. ASSUME NEW p \in Procs, ProbeTakes(p)
        PROVE  FALSE
    <2>1. PICK C \in SUBSET Holders : MakesRoom(C) /\ tunnel' = Detached(C)
      BY <1>5 DEF ProbeTakes
    <2>2. h \in C
      BY <2>1 DEF Detached
    <2>3. QED
      BY <1>2, <2>1, <2>2, VictimsOpen DEF TunnelInv, LeaseInv
  <1>6. ASSUME NEW p \in Procs, Ends(p)
        PROVE  FALSE
    <2>1. pc[p] \in Opening /\ hold[p] \in Holders
      BY <1>6 DEF Ends, Opening, TunnelInv, LeaseInv, TypeInv, WorkOK
    <2>2. tunnel[hold[p]] = "opening"
      BY <2>1 DEF TunnelInv, SingleOpener
    <2>3. tunnel'[h] = tunnel[h]
      BY <1>6, <2>2 DEF Ends, TunnelInv, TunnelTypeOK
    <2>4. QED
      BY <2>3
  <1>7. QED
    BY <1>1, <1>3, <1>4, <1>5, <1>6 DEF TunnelMove, Contacts, ProbeGives

-----------------------------------------------------------------------------
(* The theorems.                                                           *)

\* For any catalog, options and number of goroutines, a slot or an entry is marked
\* as opening exactly while one process is opening it (ensureOpen, ensureEntryOpen).
THEOREM OneOpenerEach == Spec => []SingleOpener
  <1>1. TunnelInv => SingleOpener
    BY DEF TunnelInv
  <1>2. QED
    BY TunnelInit, TunnelNext, <1>1, NextIsAny, PTL DEF Spec

\* reserveCapacityLocked keeps the tunnels of slots, entries and probes within
\* max_active, and releaseProbeCapacity is called once for every probe's tunnel.
THEOREM TunnelsBounded == Spec => []ActiveLimit
  <1>1. TunnelInv => ActiveLimit
    BY DEF TunnelInv, TunnelCounts, TunnelCaps, ActiveLimit, ProbesUp
  <1>2. QED
    BY TunnelInit, TunnelNext, <1>1, NextIsAny, PTL DEF Spec

\* The contacts of one window, made and promised, stay within new_tunnel_budget
\* however reservations, commits and rollbacks of tunnel opens interleave.
THEOREM ContactsBounded == Spec => []BudgetLimit
  <1>1. TunnelInv => BudgetLimit
    BY DEF TunnelInv, TunnelCounts, TunnelCaps, BudgetLimit, Promisers, Promised
  <1>2. QED
    BY TunnelInit, TunnelNext, <1>1, NextIsAny, PTL DEF Spec

\* No eviction takes a tunnel that carries leases or is promised to a request, no idle
\* sweep one that carries leases or was used lately, and neither takes an entry's
\* tunnel: only the failure of its owner or Close does.
THEOREM UsedTunnelsKept == Spec => UsedTunnelKept
  <1> DEFINE Kept == \A h \in Holders :
                       /\ tunnel[h] = "open" /\ tunnel'[h] # "open"
                       /\ h \in Entries \/ exitLoad(h) > 0
                       => \/ now < disabledUntil'[h] \/ closing' = "waiting"
                          \/ h \in Slots /\ OutOfUse(h)
  <1>1. TunnelInv /\ [AnyNext]_vars => [Kept]_vars
    BY MoveKeepsUsed
  <1>2. QED
    BY TunnelInit, TunnelNext, <1>1, NextIsAny, PTL DEF Spec, UsedTunnelKept

=============================================================================
