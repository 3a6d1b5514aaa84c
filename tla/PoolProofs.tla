----------------------------- MODULE PoolProofs -----------------------------
(***************************************************************************)
(* Theorems about connection accounting in module Pool, for any catalog,   *)
(* any options and any number of requests.                                 *)
(*                                                                         *)
(* A request has a claim on a slot while it leases it (Leasing) or prepares *)
(* to (Reserving).  Every step of the pool is one of four kinds: it moves   *)
(* no claim (LeaseStill), or one request picks a slot (Picks), settles its  *)
(* reservation by commit or rollback (Settles), or gives its lease up       *)
(* (GivesUp).  StepKinds shows that, action by action; the inductive       *)
(* invariant LeaseInv is then shown to survive the four kinds.             *)
(***************************************************************************)
EXTENDS PoolProps, FiniteSetTheorems, TLAPS

\* What SaveInventory does to the pool before it takes its snapshot: expireLocked.
Expires == /\ sessions' = LiveSessions
           /\ batches' = LiveBatches
           /\ bres' = Orphaned(ExpiredBatches)
           /\ preferred' = LivePreferred
           /\ ExpireCooldowns
           /\ UNCHANGED <<now, pc, slot, hold, cands, callVars, leaseVars, pendingSessions, sres,
                          failVars, ipVars, tunnelVars, budgetVars, closing>>

\* The pool at work for whoever calls it, complaints apart and with them: the steps are
\* classified once, for Next and for the process around the pool, whose control API
\* complains, praises and rotates as its clients please.
Calm    == \/ Serve \/ Expires
           \/ \E n \in Names : Rotate(n)
           \/ \E in \in PreferType : Prefer(in)
AnyNext == Calm \/ \E in \in ReportType : Report(in)

LEMMA NextIsAny == [Next]_vars => [AnyNext]_vars
  BY InputAssumption DEF Next, AnyNext, Calm

LEMMA CalmIsAny == [Calm]_vars => [AnyNext]_vars
  BY DEF AnyNext

\* What the steps rely on: the control state and what each process works on.
TypeInv == ControlTypeOK /\ WorkOK

\* Sets of requests are finite and change size by one as a request joins or leaves.
LEMMA MovingRequests ==
    ASSUME NEW S, S \subseteq Requests, NEW r \in Requests
    PROVE  /\ IsFiniteSet(S) /\ Cardinality(S) \in Nat
           /\ r \notin S => Cardinality(S \cup {r}) = Cardinality(S) + 1
           /\ r \in S => Cardinality(S \ {r}) = Cardinality(S) - 1
  <1>1. IsFiniteSet(S)
    BY FS_Subset, FiniteAssumption
  <1>2. QED
    BY <1>1, FS_CardinalityType, FS_AddElement, FS_RemoveElement

\* The pool's own goroutines are processes and are not requests.
LEMMA WorkersApart ==
    /\ \A s \in Slots : Checker(s) \in Procs /\ Checker(s) \notin Requests
    /\ \A h \in Holders : Warmer(h) \in Procs /\ Warmer(h) \notin Requests
    /\ \A s \in Slots : Prober(s) \in Procs /\ Prober(s) \notin Requests
    /\ Housekeeper \in Procs /\ Housekeeper \notin Requests
    /\ Requests \subseteq Procs
  BY DistinctAssumption DEF Procs, Workers, Checkers, Warmers, Probers

\* eligibleLocked only admits slots of the catalog with room for a connection.
LEMMA EligibleSlot ==
    ASSUME NEW s, NEW c \in Calls, NEW uniq, eligible(s, c, uniq)
    PROVE  s \in Slots /\ ~AtExitCap(s)
  BY InputAssumption DEF eligible, CallType

\* Whichever rule of pick chooses (sticky, preferred, ready, to be opened,
\* recycled), the slot has room and the pool is not at its connection limit.
LEMMA SelectionsSound ==
    ASSUME NEW c \in Calls, NEW sel \in Selections(c)
    PROVE  sel[2] \in Slots /\ ~AtExitCap(sel[2]) /\ ~TurnedAway(c)
  <1>1. ~TurnedAway(c)
    BY DEF Selections
  <1>2. CASE StickyUsable(c)
    <2>1. sel[2] = sessions[c.session].slotID
      BY <1>1, <1>2 DEF Selections
    <2>2. QED
      BY <1>1, <1>2, <2>1, EligibleSlot DEF StickyUsable, eligibleLocked
  <1>3. CASE ~StickyUsable(c) /\ BestPreferred(c) # {}
    <2>1. sel[2] \in BestPreferred(c)
      BY <1>1, <1>3 DEF Selections
    <2>2. eligibleLocked(sel[2], c)
      BY <2>1, <1>3 DEF BestPreferred
    <2>3. QED
      BY <1>1, <2>2, EligibleSlot DEF eligibleLocked
  <1>4. CASE ~StickyUsable(c) /\ BestPreferred(c) = {} /\ Candidates(c) = {}
    <2>1. sel[2] \in Recyclable(c)
      BY <1>1, <1>4 DEF Selections
    <2>2. eligibleIgnoringBatchLocked(sel[2], c)
      BY <2>1 DEF Recyclable
    <2>3. QED
      BY <1>1, <2>2, EligibleSlot DEF eligibleIgnoringBatchLocked
  <1>5. CASE ~StickyUsable(c) /\ BestPreferred(c) = {} /\ Candidates(c) # {}
    <2>1. sel[2] \in Candidates(c)
      BY <1>1, <1>5 DEF Selections
    <2>2. QED
      BY <1>1, <2>1, EligibleSlot DEF Candidates, eligibleLocked
  <1>6. QED
    BY <1>2, <1>3, <1>4, <1>5

\* The step moves no request into or out of a lease or a reservation.
LeaseStill ==
    /\ UNCHANGED leaseVars
    /\ \A r \in Requests :
         /\ pc[r] \in Leasing <=> pc'[r] \in Leasing
         /\ pc[r] \in Reserving <=> pc'[r] \in Reserving
         /\ pc[r] \in Leasing \cup Reserving => slot'[r] = slot[r]

\* ensureDialer, ensureOpen and dialerForSocksSlot never touch a claim: only pick,
\* commit, rollback and Release do.
LEMMA OpenerStep ==
    ASSUME TypeInv, NEW p \in Procs, Opener(p)
    PROVE  TypeInv' /\ LeaseStill
  <1> USE DEF TypeInv, ControlTypeOK, WorkOK, LeaseStill, Goto, Opening, Reserving,
              Leasing, PCs, callVars, leaseVars
  <1>0. Slots \subseteq Holders /\ Entries \subseteq Holders /\ Kind \in [Slots -> Kinds]
    BY InputAssumption DEF Holders
  <1>1. CASE EnsureDialer(p)
    <2>1. /\ pc[p] = "dial" /\ slot[p] \in Slots
          /\ UNCHANGED <<slot, callVars, leaseVars, closing>>
      BY <1>1 DEF EnsureDialer
    <2>2. CASE Kind[slot[p]] = "direct-socks"
      <3>1. pc' = [pc EXCEPT ![p] = "got"] /\ UNCHANGED <<hold, cands>>
        BY <1>1, <2>1, <2>2 DEF EnsureDialer
      <3>2. QED
        BY <2>1, <3>1
    <2>3. CASE Kind[slot[p]] = "wireguard"
      <3>1. /\ pc' = [pc EXCEPT ![p] = "open"]
            /\ hold' = [hold EXCEPT ![p] = slot[p]]
            /\ UNCHANGED cands
        BY <1>1, <2>1, <2>3 DEF EnsureDialer
      <3>2. QED
        BY <1>0, <2>1, <3>1
    <2>4. CASE Kind[slot[p]] = "relay-socks"
      <3>1. /\ pc' = [pc EXCEPT ![p] = "entry"]
            /\ cands' = [cands EXCEPT ![p] = {e \in Entries : ~(now < disabledUntil[e])}]
            /\ UNCHANGED hold
        BY <1>1, <2>1, <2>4 DEF EnsureDialer
      <3>2. {e \in Entries : ~(now < disabledUntil[e])} \subseteq Holders
        BY <1>0
      <3>3. cands' \in [Procs -> SUBSET Holders]
        BY <3>1, <3>2
      <3>4. QED
        BY <2>1, <3>1, <3>3
    <2>5. QED
      BY <1>0, <2>1, <2>2, <2>3, <2>4 DEF Kinds
  <1>2. CASE NextEntry(p)
    <2>1. CASE cands[p] = {}
      <3>1. /\ pc[p] = "entry" /\ pc' = [pc EXCEPT ![p] = "failed"]
            /\ UNCHANGED <<slot, hold, cands, callVars, leaseVars, closing>>
        BY <1>2, <2>1 DEF NextEntry
      <3>2. QED
        BY <3>1
    <2>2. ASSUME NEW e \in cands[p],
                 /\ pc' = [pc EXCEPT ![p] = "open"]
                 /\ hold' = [hold EXCEPT ![p] = e]
                 /\ cands' = [cands EXCEPT ![p] = @ \ {e}]
          PROVE  TypeInv' /\ LeaseStill
      <3>1. pc[p] = "entry" /\ UNCHANGED <<slot, callVars, leaseVars, closing>>
        BY <1>2 DEF NextEntry
      <3>2. e \in Holders /\ cands' \in [Procs -> SUBSET Holders]
        BY <2>2
      <3>3. QED
        BY <2>2, <3>1, <3>2
    <2>3. QED
      BY <1>2, <2>1, <2>2 DEF NextEntry
  <1>3. CASE EnsureOpenUp(p)
    BY <1>3 DEF EnsureOpenUp
  <1>4. CASE EnsureOpenWait(p)
    BY <1>4 DEF EnsureOpenWait
  <1>5. CASE EnsureOpenReserve(p)
    <2>1. /\ pc[p] = "open" /\ hold[p] \in Holders
          /\ UNCHANGED <<slot, cands, callVars, leaseVars, closing>>
          /\ \/ pc' = [pc EXCEPT ![p] = "reserved"] /\ UNCHANGED hold
             \/ OpenFailed(p)
      BY <1>5 DEF EnsureOpenReserve
    <2>2. CASE pc' = [pc EXCEPT ![p] = "reserved"] /\ UNCHANGED hold
      BY <2>1, <2>2
    <2>3. CASE OpenFailed(p)
      BY <2>1, <2>3 DEF OpenFailed
    <2>4. QED
      BY <2>1, <2>2, <2>3
  <1>6. CASE EnsureOpenRefused(p)
    BY <1>6 DEF EnsureOpenRefused, OpenFailed
  <1>7. CASE WakeUp(p)
    BY <1>7 DEF WakeUp
  <1>8. CASE AbortOpen(p)
    BY <1>8 DEF AbortOpen
  <1>9. CASE AbortOpenDone(p)
    BY <1>9 DEF AbortOpenDone, OpenFailed
  <1>10. CASE CommitTunnelOpen(p)
    BY <1>10 DEF CommitTunnelOpen
  <1>11. CASE OpenSucceeds(p)
    BY <1>11 DEF OpenSucceeds
  <1>12. CASE OpenFails(p)
    BY <1>12 DEF OpenFails, OpenFailed
  <1>13. QED
    BY <1>1, <1>2, <1>3, <1>4, <1>5, <1>6, <1>7, <1>8, <1>9, <1>10, <1>11,
       <1>12 DEF Opener

\* Acquire returning, with or without a lease to give back, keeps the types.
LEMMA ReturnStep ==
    ASSUME TypeInv, NEW r \in Requests, Return(r), UNCHANGED closing
    PROVE  TypeInv'
  BY WorkersApart DEF TypeInv, ControlTypeOK, WorkOK, Return, ResetWork, Goto,
     PCs, Reserving, Leasing, Opening

\* After the rollback, a retry or ErrExhausted concerns no claim.
LEMMA NextAttemptStep ==
    ASSUME TypeInv, NEW r \in Requests, NextAttempt(r), UNCHANGED closing,
           pc[r] \in {"note", "drop"}, UNCHANGED leaseVars
    PROVE  TypeInv' /\ LeaseStill
  <1>1. CASE Return(r)
    BY <1>1, ReturnStep, WorkersApart DEF TypeInv, ControlTypeOK, LeaseStill,
       Return, ResetWork, Goto, Reserving, Leasing, Opening
  <1>2. CASE ~Return(r)
    <2>1. /\ pc' = [pc EXCEPT ![r] = "pick"] /\ ResetWork(r)
          /\ attempt' = [attempt EXCEPT ![r] = @ + 1]
          /\ UNCHANGED <<call, sticky, ctxDone, closing>>
      BY <1>2 DEF NextAttempt, Goto
    <2>2. r \in Procs /\ Requests \subseteq Procs
      BY WorkersApart
    <2>3. ControlTypeOK'
      BY <2>1, <2>2 DEF TypeInv, ControlTypeOK, ResetWork, PCs
    <2>4. WorkOK'
      BY <2>1, <2>2 DEF TypeInv, ControlTypeOK, WorkOK, ResetWork, Reserving, Leasing, Opening
    <2>5. LeaseStill
      BY <2>1, <2>2 DEF TypeInv, ControlTypeOK, LeaseStill, ResetWork, Reserving, Leasing, Opening
    <2>6. QED
      BY <2>3, <2>4, <2>5 DEF TypeInv
  <1>3. QED
    BY <1>1, <1>2

\* maybeCheckIP starts a worker and moves no request but its caller.
LEMMA MaybeCheckIPStep ==
    ASSUME TypeInv, NEW p \in Procs, NEW s \in Slots, NEW label, MaybeCheckIP(p, s, label),
           label \in PCs
    PROVE  /\ pc' \in [Procs -> PCs]
           /\ pc'[p] = label
           /\ \A q \in Procs \ {p} : pc'[q] = pc[q] \/ (q \notin Requests /\ pc'[q] = "sem")
  <1>1. \A q \in Procs : pc'[q] = IF q = p THEN label
                                  ELSE IF q = Checker(s) /\ CheckDue(s) THEN "sem"
                                  ELSE pc[q]
    BY DEF MaybeCheckIP
  <1>2. pc' \in [Procs -> PCs]
    BY DEF MaybeCheckIP, TypeInv, ControlTypeOK, PCs
  <1>3. QED
    BY <1>1, <1>2, WorkersApart

\* Acquire's own maybeCheckIP leaves the lease as it is.
LEMMA CheckLeasedIPStep ==
    ASSUME TypeInv, NEW r \in Requests, CheckLeasedIP(r)
    PROVE  TypeInv' /\ LeaseStill
  <1>1. /\ pc[r] = "check" /\ slot[r] \in Slots /\ r \in Procs
        /\ MaybeCheckIP(r, slot[r], "leased")
        /\ UNCHANGED <<slot, hold, cands, callVars, leaseVars, closing>>
    BY WorkersApart DEF CheckLeasedIP, TypeInv, WorkOK, Leasing
  <1>2. /\ pc' \in [Procs -> PCs] /\ pc'[r] = "leased"
        /\ \A q \in Procs \ {r} : pc'[q] = pc[q] \/ (q \notin Requests /\ pc'[q] = "sem")
    BY <1>1, MaybeCheckIPStep DEF PCs, Leasing
  <1>3. QED
    BY <1>1, <1>2, WorkersApart DEF TypeInv, ControlTypeOK, WorkOK, LeaseStill, callVars,
       leaseVars, Reserving, Leasing, Opening

\* pick that finds nothing made no claim.
LEMMA PickNothingStep ==
    ASSUME TypeInv, NEW r \in Requests, PickNothing(r)
    PROVE  TypeInv' /\ LeaseStill
  <1>1. pc[r] = "pick" /\ Return(r) /\ UNCHANGED <<closing, leaseVars>>
    BY DEF PickNothing
  <1>2. QED
    BY <1>1, ReturnStep, WorkersApart DEF TypeInv, ControlTypeOK, LeaseStill, Return,
       ResetWork, Goto, Reserving, Leasing, Opening

\* noteFailure after a rollback concerns no claim.
LEMMA NoteAcquireFailureStep ==
    ASSUME TypeInv, NEW r \in Requests, NoteAcquireFailure(r)
    PROVE  TypeInv' /\ LeaseStill
  <1>1. pc[r] = "note" /\ UNCHANGED <<closing, leaseVars>>
    BY DEF NoteAcquireFailure
  <1>2. CASE NextAttempt(r)
    BY <1>1, <1>2, NextAttemptStep
  <1>3. CASE Goto(r, "drop") /\ UNCHANGED <<slot, hold, cands, callVars>>
    BY <1>1, <1>3, WorkersApart DEF TypeInv, ControlTypeOK, WorkOK, LeaseStill, Goto,
       callVars, PCs, Reserving, Leasing, Opening
  <1>4. QED
    BY <1>2, <1>3 DEF NoteAcquireFailure

\* Neither does forgetting the session that named the failed slot.
LEMMA DropSessionStep ==
    ASSUME TypeInv, NEW r \in Requests, DropSession(r)
    PROVE  TypeInv' /\ LeaseStill
  BY NextAttemptStep DEF DropSession

\* A dial through the lease, good or bad, leaves the lease to Release.
LEMMA HoldingStep ==
    ASSUME TypeInv, NEW r \in Requests, DialSucceeds(r) \/ NoteDialFailure(r)
    PROVE  TypeInv' /\ LeaseStill
  <1>1. /\ pc[r] = "leased"
        /\ pc' \in {pc, [pc EXCEPT ![r] = "broken"]}
        /\ UNCHANGED <<slot, hold, cands, callVars, leaseVars, closing>>
    BY DEF DialSucceeds, NoteDialFailure, Goto
  <1>2. QED
    BY <1>1, WorkersApart DEF TypeInv, ControlTypeOK, WorkOK, LeaseStill,
       callVars, leaseVars, PCs, Reserving, Leasing, Opening

\* The three ways a request changes its claim on a slot.
Picks(r, s) == /\ pc[r] = "pick"
               /\ ~AtExitCap(s) /\ ~Busy
               /\ pc' = [pc EXCEPT ![r] = "dial"]
               /\ slot' = [slot EXCEPT ![r] = s]
               /\ pending' = [pending EXCEPT ![s] = @ + 1]
               /\ pendingLeases' = pendingLeases + 1
               /\ UNCHANGED <<leases, leased>>
Settles(r) == /\ \/ /\ pc[r] = "got" /\ pc' = [pc EXCEPT ![r] = "check"]
                    /\ leases' = [leases EXCEPT ![slot[r]] = @ + 1]
                    /\ leased' = leased + 1
                 \/ /\ pc[r] = "failed" /\ pc' = [pc EXCEPT ![r] = "note"]
                    /\ UNCHANGED <<leases, leased>>
              /\ SettlePending(r)
              /\ UNCHANGED slot
GivesUp(r) == /\ pc[r] \in {"leased", "broken"}
              /\ pc' = [pc EXCEPT ![r] = "idle"]
              /\ slot' = [slot EXCEPT ![r] = NoSlot]
              /\ leases' = [leases EXCEPT ![slot[r]] = Min0(@)]
              /\ leased' = Min0(leased)
              /\ UNCHANGED <<pending, pendingLeases>>

\* pick claims one slot that has room, or nothing.
LEMMA PickSlotStep ==
    ASSUME TypeInv, NEW r \in Requests, PickSlot(r)
    PROVE  TypeInv' /\ (LeaseStill \/ \E s \in Slots : Picks(r, s))
  <1> DEFINE c == call[r]
  <1>1. /\ pc[r] = "pick" /\ c \in Calls /\ UNCHANGED <<leases, leased, closing>>
    BY DEF PickSlot, TypeInv, WorkOK
  <1>2. PICK sel \in Selections(c) :
          \/ /\ Goto(r, "dial")
             /\ slot' = [slot EXCEPT ![r] = sel[2]]
             /\ sticky' = [sticky EXCEPT ![r] = (sel[1] = "sticky")]
             /\ pending' = [pending EXCEPT ![sel[2]] = @ + 1]
             /\ pendingLeases' = pendingLeases + 1
             /\ UNCHANGED <<hold, cands, call, attempt, ctxDone>>
          \/ Return(r) /\ UNCHANGED <<pending, pendingLeases>>
    BY DEF PickSlot
  <1>3. sel[2] \in Slots /\ ~AtExitCap(sel[2]) /\ ~Busy
    BY <1>1, SelectionsSound DEF TurnedAway
  <1>4. CASE Return(r) /\ UNCHANGED <<pending, pendingLeases>>
    BY <1>1, <1>4, ReturnStep, WorkersApart DEF TypeInv, ControlTypeOK, LeaseStill,
       Return, ResetWork, Goto, leaseVars, Reserving, Leasing, Opening
  <1>5. CASE /\ Goto(r, "dial")
             /\ slot' = [slot EXCEPT ![r] = sel[2]]
             /\ sticky' = [sticky EXCEPT ![r] = (sel[1] = "sticky")]
             /\ pending' = [pending EXCEPT ![sel[2]] = @ + 1]
             /\ pendingLeases' = pendingLeases + 1
             /\ UNCHANGED <<hold, cands, call, attempt, ctxDone>>
    <2>1. Picks(r, sel[2])
      BY <1>1, <1>3, <1>5 DEF Picks, Goto
    <2>2. sticky' \in [Requests -> BOOLEAN]
      BY <1>5 DEF TypeInv, ControlTypeOK
    <2>3. TypeInv'
      BY <1>1, <1>3, <1>5, <2>2, WorkersApart DEF TypeInv, ControlTypeOK, WorkOK, Goto,
         PCs, Reserving, Leasing, Opening
    <2>4. QED
      BY <1>3, <2>1, <2>3
  <1>6. QED
    BY <1>2, <1>4, <1>5

\* commitAcquisitionLocked and rollbackAcquisitionLocked settle one pending lease.
LEMMA SettleStep ==
    ASSUME TypeInv, NEW r \in Requests, CommitAcquisition(r) \/ RollbackAcquisition(r)
    PROVE  TypeInv' /\ Settles(r)
  <1>1. Settles(r) /\ UNCHANGED <<hold, cands, callVars, closing>>
    <2>1. CASE CommitAcquisition(r)
      BY <2>1 DEF CommitAcquisition, Settles, Goto
    <2>2. CASE RollbackAcquisition(r)
      BY <2>2 DEF RollbackAcquisition, Settles, Goto
    <2>3. QED
      BY <2>1, <2>2
  <1>2. QED
    BY <1>1, WorkersApart DEF Settles, TypeInv, ControlTypeOK, WorkOK, callVars,
       PCs, Reserving, Leasing, Opening

\* Release gives one lease back.
LEMMA ReleaseStep ==
    ASSUME TypeInv, NEW r \in Requests, Release(r)
    PROVE  TypeInv' /\ GivesUp(r)
  <1>1. Return(r) /\ UNCHANGED closing
    BY DEF Release
  <1>2. QED
    BY <1>1, ReturnStep DEF Release, GivesUp, Return, ResetWork, Goto

\* A new call of Acquire has no claim yet.
LEMMA StartStep ==
    ASSUME TypeInv, NEW r \in Requests, NEW c \in Calls, Start(r, c)
    PROVE  TypeInv' /\ LeaseStill
  BY WorkersApart DEF Start, Goto, TypeInv, ControlTypeOK, WorkOK, LeaseStill,
     leaseVars, PCs, Reserving, Leasing, Opening

\* Steps that move no process: the clock, the devices, the control API.
LEMMA StandingStep ==
    ASSUME TypeInv, UNCHANGED <<pc, slot, hold, cands, call, attempt, sticky, leaseVars>>,
           ctxDone' \in [Procs -> BOOLEAN], closing' \in {"no", "waiting", "done"}
    PROVE  TypeInv' /\ LeaseStill
  BY DEF TypeInv, ControlTypeOK, WorkOK, LeaseStill, leaseVars

\* A worker that ends leaves the requests alone.
LEMMA WorkerDoneStep ==
    ASSUME TypeInv, NEW p \in Procs \ Requests, WorkerDone(p), UNCHANGED <<leaseVars, closing>>
    PROVE  TypeInv' /\ LeaseStill
  BY DEF WorkerDone, ResetWork, Goto, TypeInv, ControlTypeOK, WorkOK, LeaseStill,
     leaseVars, PCs, Reserving, Leasing, Opening

\* So do the measurements of maybeCheckIP's goroutine ...
LEMMA IPCheckStep ==
    ASSUME TypeInv, NEW s \in Slots, IPCheck(s)
    PROVE  TypeInv' /\ LeaseStill
  <1>1. Checker(s) \in Procs \ Requests
    BY WorkersApart
  <1>2. CASE IPCheckAdmitted(s)
    <2>1. \/ pc' = [pc EXCEPT ![Checker(s)] = "got"]
          \/ pc' = [pc EXCEPT ![Checker(s)] = "dial"]
      BY <1>2 DEF IPCheckAdmitted, Goto
    <2>2. /\ slot' = [slot EXCEPT ![Checker(s)] = s]
          /\ UNCHANGED <<hold, cands, callVars, leaseVars, closing>>
      BY <1>2 DEF IPCheckAdmitted
    <2>3. LeaseStill
      BY <1>1, <2>1, <2>2, WorkersApart DEF TypeInv, ControlTypeOK, LeaseStill
    <2>4. ControlTypeOK'
      BY <1>1, <2>1, <2>2 DEF TypeInv, ControlTypeOK, callVars, PCs, Reserving, Leasing
    <2>5. WorkOK'
      <3>1. /\ pc'[Checker(s)] \in {"got", "dial"} /\ slot'[Checker(s)] = s
            /\ \A q \in Procs \ {Checker(s)} : pc'[q] = pc[q] /\ slot'[q] = slot[q]
        BY <1>1, <2>1, <2>2 DEF TypeInv, ControlTypeOK
      <3>2. \A r \in Requests : pc'[r] = pc[r] /\ slot'[r] = slot[r] /\ call'[r] = call[r]
        BY <1>1, <2>2, <3>1, WorkersApart DEF callVars
      <3>3. ASSUME NEW q \in Procs
            PROVE  /\ pc'[q] = "dial" => slot'[q] \in Slots
                   /\ pc'[q] \in {"warm", "open", "wait"} \cup Opening => hold'[q] \in Holders
                   /\ pc'[q] = "refresh" => cands'[q] \subseteq Slots
        BY <2>2, <3>1 DEF TypeInv, WorkOK, Opening
      <3>4. QED
        BY <3>2, <3>3 DEF TypeInv, WorkOK
    <2>6. QED
      BY <2>3, <2>4, <2>5 DEF TypeInv
  <1>3. CASE IPCheckFails(s) \/ IPMeasured(s)
    BY <1>1, <1>3, WorkerDoneStep DEF IPCheckFails, IPMeasured
  <1>4. QED
    BY <1>2, <1>3 DEF IPCheck

\* ... the goroutines Warmup starts ...
LEMMA WarmupStep ==
    ASSUME TypeInv, NEW count, Warmup(count)
    PROVE  TypeInv' /\ LeaseStill
  <1>1. UNCHANGED <<cands, callVars, leaseVars, closing>>
    BY DEF Warmup
  <1>2. PICK T \in SUBSET Holders :
          /\ pc' = [p \in Procs |-> IF p \in {Warmer(h) : h \in T} THEN "warm" ELSE pc[p]]
          /\ hold' = [p \in Procs |-> IF p \in {Warmer(h) : h \in T} THEN p[2] ELSE hold[p]]
          /\ slot' = [p \in Procs |-> IF p \in {Warmer(h) : h \in T \cap Slots}
                                      THEN p[2] ELSE slot[p]]
    BY DEF Warmup, WarmTargets, Holders
  <1>3. /\ \A p \in {Warmer(h) : h \in T} : p \notin Requests /\ p[2] \in Holders
        /\ \A p \in {Warmer(h) : h \in T \cap Slots} : p \notin Requests /\ p[2] \in Slots
    BY WorkersApart DEF Warmer
  <1>4. \A r \in Requests : pc'[r] = pc[r] /\ slot'[r] = slot[r]
    BY <1>2, <1>3, WorkersApart
  <1>5. LeaseStill
    BY <1>1, <1>4 DEF LeaseStill
  <1>6. ControlTypeOK'
    <2>1. pc' \in [Procs -> PCs] /\ hold' \in [Procs -> Holders \cup {NoSlot}]
      BY <1>2, <1>3 DEF TypeInv, ControlTypeOK, PCs
    <2>2. slot' \in [Procs -> Slots \cup {NoSlot}]
      BY <1>2, <1>3 DEF TypeInv, ControlTypeOK
    <2>3. QED
      BY <1>1, <2>1, <2>2 DEF TypeInv, ControlTypeOK, callVars
  <1>7. WorkOK'
    <2>1. ASSUME NEW p \in Procs
          PROVE  /\ pc'[p] = "dial" => slot'[p] \in Slots
                 /\ pc'[p] \in {"warm", "open", "wait"} \cup Opening => hold'[p] \in Holders
                 /\ pc'[p] = "refresh" => cands'[p] \subseteq Slots
      BY <1>1, <1>2, <1>3 DEF TypeInv, WorkOK
    <2>2. QED
      BY <1>1, <1>4, <2>1 DEF TypeInv, WorkOK, callVars
  <1>8. QED
    BY <1>5, <1>6, <1>7 DEF TypeInv

\* ... what they do afterwards ...
LEMMA WarmerStep ==
    ASSUME TypeInv, NEW h \in Holders, WarmupRuns(h) \/ WarmupDone(h)
    PROVE  TypeInv' /\ LeaseStill
  <1> DEFINE p == Warmer(h)
  <1>1. p \in Procs \ Requests /\ UNCHANGED <<leaseVars, closing>>
    BY WorkersApart DEF WarmupRuns, WarmupDone
  <1>2. CASE WorkerDone(p)
    BY <1>1, <1>2, WorkerDoneStep
  <1>3. CASE pc[p] = "warm" /\ Goto(p, "open") /\ UNCHANGED <<slot, hold, cands, callVars>>
    BY <1>1, <1>3 DEF Goto, TypeInv, ControlTypeOK, WorkOK, LeaseStill, callVars,
       leaseVars, PCs, Reserving, Leasing, Opening
  <1>4. CASE WarmupDone(h)
    <2>1. /\ ResetWork(p) /\ ctxDone' = [ctxDone EXCEPT ![p] = FALSE]
          /\ UNCHANGED <<call, attempt, sticky>>
      BY <1>4 DEF WarmupDone
    <2>2. CASE Goto(p, "idle")
      BY <1>1, <2>1, <2>2, WorkerDoneStep DEF WorkerDone
    <2>3. CASE h \in Slots /\ MaybeCheckIP(p, h, "idle")
      <3>1. /\ pc' \in [Procs -> PCs] /\ pc'[p] = "idle"
            /\ \A q \in Procs \ {p} : pc'[q] = pc[q] \/ (q \notin Requests /\ pc'[q] = "sem")
        BY <1>1, <2>3, MaybeCheckIPStep DEF PCs
      <3>2. QED
        BY <1>1, <2>1, <3>1, WorkersApart DEF ResetWork, TypeInv, ControlTypeOK, WorkOK,
           LeaseStill, leaseVars, Opening, Reserving, Leasing
    <2>4. QED
      BY <1>4, <2>2, <2>3 DEF WarmupDone
  <1>5. QED
    BY <1>2, <1>3, <1>4 DEF WarmupRuns

\* ... those Probe starts ...
LEMMA ProbeStep ==
    ASSUME TypeInv, NEW T \in ProbeTargets, Probe(T)
    PROVE  TypeInv' /\ LeaseStill
  <1>1. /\ UNCHANGED <<slot, hold, cands, callVars, leaseVars, closing>>
        /\ pc' = [p \in Procs |-> IF p \in {Prober(s) : s \in T} THEN "probe" ELSE pc[p]]
        /\ \A s \in Slots : pc[Prober(s)] = "idle"
    BY DEF Probe
  <1>2. \A p \in Procs : pc'[p] = pc[p] \/ pc'[p] = "probe"
    BY <1>1
  <1>3. \A r \in Requests : pc'[r] = pc[r]
    <2>1. \A s \in T : Prober(s) \notin Requests
      BY InputAssumption, WorkersApart
    <2>2. QED
      BY <1>1, <2>1, WorkersApart
  <1>4. QED
    BY <1>1, <1>2, <1>3, WorkersApart DEF TypeInv, ControlTypeOK, WorkOK, LeaseStill,
       callVars, leaseVars, PCs, Reserving, Leasing, Opening

\* ... what those do, at points where a worker is about to open nothing ...
LEMMA ProberGoes ==
    ASSUME TypeInv, NEW p \in Procs \ Requests, NEW label \in {"alone", "failed"} \cup ProbeTunnel,
           Goto(p, label), cands' = cands, hold' = hold, UNCHANGED <<callVars, leaseVars, closing>>,
           slot' = slot \/ \E s \in Slots : slot' = [slot EXCEPT ![p] = s]
    PROVE  TypeInv' /\ LeaseStill
  <1>1. /\ pc' = [pc EXCEPT ![p] = label] /\ label \in PCs
        /\ label \notin {"warm", "open", "wait", "dial", "refresh"} \cup Opening
    BY DEF Goto, PCs, ProbeTunnel, Opening, Reserving
  <1>2. ControlTypeOK'
    BY <1>1 DEF TypeInv, ControlTypeOK, callVars
  <1>3. \A r \in Requests : pc'[r] = pc[r] /\ slot'[r] = slot[r] /\ call'[r] = call[r]
    BY <1>1, WorkersApart DEF TypeInv, ControlTypeOK, callVars
  <1>4. WorkOK'
    <2>1. \A q \in Procs \ {p} : pc'[q] = pc[q] /\ slot'[q] = slot[q]
      BY <1>1 DEF TypeInv, ControlTypeOK
    <2>2. pc'[p] = label
      BY <1>1 DEF TypeInv, ControlTypeOK
    <2>3. QED
      BY <1>1, <1>3, <2>1, <2>2 DEF TypeInv, WorkOK
  <1>5. QED
    BY <1>2, <1>3, <1>4 DEF TypeInv, LeaseStill

\* ... or at the end of their work, or on their way to a shared dialer ...
LEMMA ProberStep ==
    ASSUME TypeInv, NEW s \in Slots, Probing(s)
    PROVE  TypeInv' /\ LeaseStill
  <1> DEFINE p == Prober(s)
  <1>1. p \in Procs \ Requests /\ UNCHANGED <<leaseVars, closing>>
    BY WorkersApart DEF Probing, ProbeRuns, ProbeReserve, ProbeRefused, ProbeContacts,
       ProbeGoesOn, ProbeMeasures, ProbeReleases, ProbeFails
  <1>2. CASE WorkerDone(p)
    BY <1>1, <1>2, WorkerDoneStep
  <1>3. CASE /\ \E label \in {"alone", "failed"} \cup ProbeTunnel : Goto(p, label)
             /\ UNCHANGED <<hold, cands, callVars>>
             /\ slot' = slot \/ slot' = [slot EXCEPT ![p] = s]
    BY <1>1, <1>3, ProberGoes
  <1>4. CASE /\ Goto(p, "dial") /\ slot' = [slot EXCEPT ![p] = s]
             /\ UNCHANGED <<hold, cands, callVars>>
    BY <1>1, <1>4, WorkersApart DEF Goto, TypeInv, ControlTypeOK, WorkOK, LeaseStill,
       callVars, leaseVars, PCs, Reserving, Leasing, Opening
  <1>5. CASE ProbeRuns(s)
    BY <1>2, <1>3, <1>4, <1>5 DEF ProbeRuns
  <1>6. CASE ProbeReserve(s) \/ ProbeRefused(s) \/ ProbeContacts(s) \/ ProbeGoesOn(s)
    BY <1>3, <1>6 DEF ProbeReserve, ProbeRefused, ProbeContacts, ProbeGoesOn, ProbeTunnel
  <1>7. CASE ProbeMeasures(s) \/ ProbeReleases(s) \/ ProbeFails(s)
    BY <1>2, <1>3, <1>7 DEF ProbeMeasures, ProbeReleases, ProbeFails, ProbeTunnel
  <1>8. QED
    BY <1>5, <1>6, <1>7 DEF Probing

\* ... and housekeeping.
LEMMA HousekeeperStep ==
    ASSUME TypeInv, Housekeep \/ RefreshIP
    PROVE  TypeInv' /\ LeaseStill
  <1> DEFINE p == Housekeeper
  <1>1. p \in Procs \ Requests /\ UNCHANGED <<slot, hold, callVars, leaseVars, closing>>
    BY WorkersApart DEF Housekeep, RefreshIP
  <1>2. CASE Housekeep
    <2>1. PICK T \in SUBSET Slots :
            /\ cands' = [cands EXCEPT ![p] = T]
            /\ Goto(p, IF T = {} THEN "idle" ELSE "refresh")
      BY <1>2 DEF Housekeep, StaleIPs
    <2>2. cands' \in [Procs -> SUBSET Holders]
      BY <2>1 DEF TypeInv, ControlTypeOK, Holders
    <2>3. QED
      BY <1>1, <2>1, <2>2, WorkersApart DEF Goto, TypeInv, ControlTypeOK, WorkOK,
         LeaseStill, callVars, leaseVars, PCs, Opening, Reserving, Leasing
  <1>3. CASE RefreshIP
    <2>1. PICK s \in cands[p] :
            /\ cands' = [cands EXCEPT ![p] = cands[p] \ {s}]
            /\ MaybeCheckIP(p, s, IF cands[p] \ {s} = {} THEN "idle" ELSE "refresh")
      BY <1>3 DEF RefreshIP
    <2>2. cands' \in [Procs -> SUBSET Holders]
      BY <1>1, <2>1 DEF TypeInv, ControlTypeOK
    <2>3. s \in Slots /\ pc[p] = "refresh" /\ cands[p] \subseteq Slots
      BY <1>1, <1>3, <2>1 DEF RefreshIP, TypeInv, WorkOK
    <2>4. /\ pc' \in [Procs -> PCs] /\ pc'[p] \in {"idle", "refresh"}
          /\ \A q \in Procs \ {p} : pc'[q] = pc[q] \/ (q \notin Requests /\ pc'[q] = "sem")
      BY <1>1, <2>1, <2>3, MaybeCheckIPStep DEF PCs
    <2>5. cands'[p] \subseteq Slots /\ \A q \in Procs \ {p} : cands'[q] = cands[q]
      BY <1>1, <2>1, <2>3 DEF TypeInv, ControlTypeOK
    <2>6. QED
      BY <1>1, <2>2, <2>4, <2>5, WorkersApart DEF TypeInv, ControlTypeOK, WorkOK,
         LeaseStill, callVars, leaseVars, Opening, Reserving, Leasing
  <1>4. QED
    BY <1>2, <1>3

\* What one step of the pool can do to the requests' claims.
LeaseMove == \/ LeaseStill
             \/ \E r \in Requests : \/ \E s \in Slots : Picks(r, s)
                                   \/ Settles(r)
                                   \/ GivesUp(r)

\* Every step keeps the types and is one of the four kinds.
LEMMA StepKinds ==
    ASSUME TypeInv, [AnyNext]_vars
    PROVE  TypeInv' /\ LeaseMove
  <1>1. CASE UNCHANGED vars
    BY <1>1, StandingStep DEF vars, callVars, LeaseMove, TypeInv, ControlTypeOK
  <1>2. CASE Tick \/ DrainDone \/ CloseReturns
    BY <1>2, StandingStep DEF Tick, DrainDone, CloseReturns, callVars, LeaseMove,
       TypeInv, ControlTypeOK
  <1>3. ASSUME NEW p \in Procs, Cancel(p)
        PROVE  TypeInv' /\ LeaseMove
    <2>1. ctxDone' \in [Procs -> BOOLEAN]
      BY <1>3 DEF Cancel
    <2>2. UNCHANGED <<pc, slot, hold, cands, call, attempt, sticky, leaseVars, closing>>
      BY <1>3 DEF Cancel
    <2>3. QED
      BY <2>1, <2>2, StandingStep DEF LeaseMove, TypeInv, ControlTypeOK
  <1>4. CASE Close
    <2>1. ctxDone' \in [Procs -> BOOLEAN] /\ closing' = "waiting"
      BY <1>4 DEF Close
    <2>2. UNCHANGED <<pc, slot, hold, cands, call, attempt, sticky, leaseVars>>
      BY <1>4 DEF Close
    <2>3. QED
      BY <2>1, <2>2, StandingStep DEF LeaseMove
  <1>5. ASSUME NEW n, Rotate(n) \/ Report(n) \/ Prefer(n) \/ Expires
        PROVE  TypeInv' /\ LeaseMove
    <2>1. UNCHANGED <<pc, slot, hold, cands, callVars, leaseVars, closing>>
      BY <1>5 DEF Rotate, Report, Prefer, Expires
    <2>2. QED
      BY <2>1, StandingStep DEF callVars, LeaseMove, TypeInv, ControlTypeOK
  <1>6. ASSUME NEW r \in Requests, Acquirer(r) \/ Holder(r)
        PROVE  TypeInv' /\ LeaseMove
    BY <1>6, PickNothingStep, PickSlotStep, SettleStep, CheckLeasedIPStep,
       NoteAcquireFailureStep, DropSessionStep, HoldingStep, ReleaseStep
       DEF Acquirer, Holder, LeaseMove
  <1>7. ASSUME NEW r \in Requests, NEW c \in Calls, Start(r, c)
        PROVE  TypeInv' /\ LeaseMove
    BY <1>7, StartStep DEF LeaseMove
  <1>8. ASSUME NEW p \in Procs, Opener(p)
        PROVE  TypeInv' /\ LeaseMove
    BY <1>8, OpenerStep DEF LeaseMove
  <1>9. ASSUME NEW count, Warmup(count)
        PROVE  TypeInv' /\ LeaseMove
    BY <1>9, WarmupStep DEF LeaseMove
  <1>10. ASSUME NEW h \in Holders, WarmupRuns(h) \/ WarmupDone(h)
         PROVE  TypeInv' /\ LeaseMove
    BY <1>10, WarmerStep DEF LeaseMove
  <1>11. ASSUME NEW s \in Slots, IPCheck(s)
         PROVE  TypeInv' /\ LeaseMove
    BY <1>11, IPCheckStep DEF LeaseMove
  <1>12. CASE Housekeep \/ RefreshIP
    BY <1>12, HousekeeperStep DEF LeaseMove
  <1>13. ASSUME NEW s \in Slots, Probing(s)
         PROVE  TypeInv' /\ LeaseMove
    BY <1>13, ProberStep DEF LeaseMove
  <1>14. ASSUME NEW T \in ProbeTargets, Probe(T)
         PROVE  TypeInv' /\ LeaseMove
    BY <1>14, ProbeStep DEF LeaseMove
  <1>15. CASE Serve
    BY <1>2, <1>3, <1>4, <1>5, <1>6, <1>7, <1>8, <1>9, <1>10, <1>11, <1>12, <1>13, <1>14,
       <1>15 DEF Serve, Working
  <1>16. QED
    BY <1>1, <1>5, <1>15 DEF AnyNext, Calm

\* The counters agree with the requests, and the caps hold of the counters.
LeaseInv ==
    /\ TypeInv /\ LeaseTypeOK /\ LeaseAccounting
    /\ opts.MaxConnsPerExit > 0 =>
         \A s \in Slots : exitLoad(s) <= opts.MaxConnsPerExit
    /\ opts.MaxConcurrentConns > 0 =>
         leased + pendingLeases <= opts.MaxConcurrentConns

\* A pool as NewWithSpecs makes it, whatever time it is and whatever it is then told
\* about the addresses and the health of its exits.
Blank ==
    /\ pc = [p \in Procs |-> "idle"]
    /\ slot = [p \in Procs |-> NoSlot] /\ hold = [p \in Procs |-> NoSlot]
    /\ cands = [p \in Procs |-> {}] /\ ctxDone = [p \in Procs |-> FALSE]
    /\ call = [r \in Requests |-> NoCall] /\ attempt = [r \in Requests |-> 0]
    /\ sticky = [r \in Requests |-> FALSE] /\ lost = [r \in Requests |-> FALSE]
    /\ sres = [r \in Requests |-> FALSE] /\ bres = [r \in Requests |-> "none"]
    /\ leases = [s \in Slots |-> 0] /\ pending = [s \in Slots |-> 0]
    /\ leased = 0 /\ pendingLeases = 0
    /\ sessions = [n \in Names |-> NoSession] /\ pendingSessions = [n \in Names |-> 0]
    /\ batches = [n \in BatchNames |-> NoBatch]
    /\ cooldowns = [s \in Slots |-> [t \in Targets |-> 0]]
    /\ failures = [h \in Holders |-> 0] /\ disabledUntil = [h \in Holders |-> 0]
    /\ tunnel = [h \in Holders |-> "closed"] /\ lastUsed = [s \in Slots |-> 0]
    /\ draining = 0
    /\ opens = <<>> /\ pendingTunnelOpens = 0 /\ probeTunnels = 0
    /\ closing = "no"

LEMMA InitBlank == Init => Blank /\ now \in Nat
  BY DEF Init, Blank

\* A new pool has no claims.
LEMMA LeaseBlank == Blank => LeaseInv
  <1> SUFFICES ASSUME Blank PROVE LeaseInv
    OBVIOUS
  <1>1. TypeInv
    BY WorkersApart DEF Blank, TypeInv, ControlTypeOK, WorkOK, PCs, Reserving, Leasing, Opening
  <1>2. LeaseTypeOK
    BY DEF Blank, LeaseTypeOK
  <1>3. /\ \A s \in Slots : Leased(s) = {} /\ InFlight(s) = {}
        /\ AllLeased = {} /\ AllInFlight = {}
    BY WorkersApart DEF Blank, Leased, InFlight, AllLeased, AllInFlight, Reserving,
       Leasing, Opening
  <1>4. LeaseAccounting
    BY <1>3, FS_EmptySet DEF Blank, LeaseAccounting
  <1>5. opts \in Options
    BY InputAssumption
  <1>6. QED
    BY <1>1, <1>2, <1>4, <1>5 DEF Blank, LeaseInv, exitLoad, Options

LEMMA LeaseInit == Init => LeaseInv
  BY InitBlank, LeaseBlank

\* Each kind of claim is a set of requests, and a claim is of one kind.
LEMMA ClaimSets ==
    /\ \A s \in Slots : Leased(s) \subseteq Requests /\ InFlight(s) \subseteq Requests
    /\ AllLeased \subseteq Requests /\ AllInFlight \subseteq Requests
    /\ Leasing \cap Reserving = {}
  BY DEF Leased, InFlight, AllLeased, AllInFlight, Leasing, Reserving, Opening

\* Steps that move nobody keep the invariant.
LEMMA StillKeepsClaims ==
    ASSUME LeaseInv, TypeInv', LeaseStill
    PROVE  LeaseInv'
  <1>1. /\ \A s \in Slots : Leased(s)' = Leased(s) /\ InFlight(s)' = InFlight(s)
        /\ AllLeased' = AllLeased /\ AllInFlight' = AllInFlight
    BY DEF LeaseStill, Leased, InFlight, AllLeased, AllInFlight
  <1>2. UNCHANGED <<leases, pending, leased, pendingLeases>>
    BY DEF LeaseStill, leaseVars
  <1>3. QED
    BY <1>1, <1>2 DEF LeaseInv, LeaseTypeOK, LeaseAccounting, exitLoad

\* A step that adds to no load keeps the caps.
LEMMA LoadShrinks ==
    ASSUME LeaseInv, TypeInv', LeaseTypeOK', LeaseAccounting',
           \A t \in Slots : exitLoad(t)' <= exitLoad(t),
           leased' + pendingLeases' <= leased + pendingLeases
    PROVE  LeaseInv'
  <1>1. opts.MaxConnsPerExit \in Nat /\ opts.MaxConcurrentConns \in Nat
    BY InputAssumption DEF Options
  <1>2. \A t \in Slots : exitLoad(t) \in Nat /\ exitLoad(t)' \in Nat
    BY DEF LeaseInv, LeaseTypeOK, exitLoad
  <1>3. opts.MaxConnsPerExit > 0 => \A t \in Slots : exitLoad(t)' <= opts.MaxConnsPerExit
    BY <1>1, <1>2 DEF LeaseInv
  <1>4. opts.MaxConcurrentConns > 0 => leased' + pendingLeases' <= opts.MaxConcurrentConns
    <2>1. leased \in Nat /\ pendingLeases \in Nat /\ leased' \in Nat /\ pendingLeases' \in Nat
      BY Zenon DEF LeaseInv, LeaseTypeOK
    <2>2. opts.MaxConcurrentConns > 0 => leased + pendingLeases <= opts.MaxConcurrentConns
      BY DEF LeaseInv
    <2>3. \A a, b, c, d, m \in Nat : a + b <= c + d /\ c + d <= m => a + b <= m
      OBVIOUS
    <2>4. QED
      BY <1>1, <2>1, <2>2, <2>3, Zenon
  <1>5. QED
    BY <1>3, <1>4 DEF LeaseInv

\* pick adds one pending lease where the caps leave room for it.
LEMMA PicksKeepsClaims ==
    ASSUME LeaseInv, TypeInv', NEW r \in Requests, NEW s \in Slots, Picks(r, s)
    PROVE  LeaseInv'
  <1>1. r \notin InFlight(s) /\ r \notin AllInFlight
    BY DEF Picks, InFlight, AllInFlight, Reserving, Opening
  <1>2. /\ pc'[r] = "dial" /\ slot'[r] = s
        /\ \A q \in Requests \ {r} : pc'[q] = pc[q] /\ slot'[q] = slot[q]
    BY WorkersApart DEF Picks, LeaseInv, TypeInv, ControlTypeOK
  <1>3. /\ InFlight(s)' = InFlight(s) \cup {r}
        /\ AllInFlight' = AllInFlight \cup {r}
        /\ \A t \in Slots \ {s} : InFlight(t)' = InFlight(t)
    BY <1>2 DEF Picks, InFlight, AllInFlight, Reserving, Opening
  <1>4. AllLeased' = AllLeased /\ \A t \in Slots : Leased(t)' = Leased(t)
    BY <1>2 DEF Picks, Leased, AllLeased, Leasing
  <1>5. /\ Cardinality(InFlight(s)') = Cardinality(InFlight(s)) + 1
        /\ Cardinality(AllInFlight') = Cardinality(AllInFlight) + 1
    BY <1>1, <1>3, ClaimSets, MovingRequests
  <1>6. LeaseTypeOK' /\ LeaseAccounting'
    <2>1. /\ \A t \in Slots : pending'[t] = IF t = s THEN pending[s] + 1 ELSE pending[t]
          /\ pendingLeases' = pendingLeases + 1
          /\ UNCHANGED <<leases, leased>>
      BY DEF Picks, LeaseInv, LeaseTypeOK
    <2>2. LeaseTypeOK'
      BY DEF Picks, LeaseInv, LeaseTypeOK
    <2>3. \A t \in Slots : pending'[t] = Cardinality(InFlight(t)')
      BY <1>3, <1>5, <2>1 DEF LeaseInv, LeaseAccounting
    <2>4. \A t \in Slots : leases'[t] = Cardinality(Leased(t)')
      BY <1>4, <2>1 DEF LeaseInv, LeaseAccounting
    <2>5. leased' = Cardinality(AllLeased') /\ pendingLeases' = Cardinality(AllInFlight')
      BY <1>4, <1>5, <2>1 DEF LeaseInv, LeaseAccounting
    <2>6. QED
      BY <2>2, <2>3, <2>4, <2>5 DEF LeaseAccounting
  <1>7. opts.MaxConnsPerExit \in Nat /\ opts.MaxConcurrentConns \in Nat
    BY InputAssumption DEF Options
  <1>8. opts.MaxConnsPerExit > 0 => \A t \in Slots : exitLoad(t)' <= opts.MaxConnsPerExit
    BY <1>7 DEF Picks, LeaseInv, LeaseTypeOK, exitLoad, AtExitCap
  <1>9. opts.MaxConcurrentConns > 0 => leased' + pendingLeases' <= opts.MaxConcurrentConns
    BY <1>7 DEF Picks, LeaseInv, LeaseTypeOK, Busy
  <1>10. QED
    BY <1>6, <1>8, <1>9 DEF LeaseInv

\* Commit turns a pending lease into a lease, rollback drops it; the zero guards
\* ("if x > 0") never take effect because the request itself is counted.
LEMMA SettlesKeepsClaims ==
    ASSUME LeaseInv, TypeInv', NEW r \in Requests, Settles(r)
    PROVE  LeaseInv'
  <1>1. PICK s \in Slots : /\ s = slot[r]
                           /\ r \in InFlight(s) /\ r \in AllInFlight
                           /\ r \notin Leased(s) /\ r \notin AllLeased
    BY DEF Settles, LeaseInv, TypeInv, WorkOK, InFlight, AllInFlight, Leased, AllLeased,
       Reserving, Leasing
  <1>2. /\ \A q \in Requests : slot'[q] = slot[q]
        /\ \A q \in Requests \ {r} : pc'[q] = pc[q]
        /\ pc'[r] \in {"check", "note"}
    BY WorkersApart DEF Settles, LeaseInv, TypeInv, ControlTypeOK
  <1>3. /\ InFlight(s)' = InFlight(s) \ {r}
        /\ AllInFlight' = AllInFlight \ {r}
        /\ \A t \in Slots \ {s} : InFlight(t)' = InFlight(t)
    BY <1>1, <1>2 DEF InFlight, AllInFlight, Reserving, Opening
  <1>4. /\ Cardinality(InFlight(s)') = Cardinality(InFlight(s)) - 1
        /\ Cardinality(AllInFlight') = Cardinality(AllInFlight) - 1
        /\ Cardinality(InFlight(s)') \in Nat /\ Cardinality(AllInFlight') \in Nat
    BY <1>1, <1>3, ClaimSets, MovingRequests
  <1>5. /\ pending' = [pending EXCEPT ![s] = pending[s] - 1]
        /\ pendingLeases' = pendingLeases - 1
        /\ pending[s] > 0 /\ pendingLeases > 0
    <2>1. /\ pending[s] = Cardinality(InFlight(s)) /\ pending[s] \in Nat
          /\ pendingLeases = Cardinality(AllInFlight) /\ pendingLeases \in Nat
      BY <1>1 DEF LeaseInv, LeaseTypeOK, LeaseAccounting
    <2>2. pending[s] > 0 /\ pendingLeases > 0
      BY <1>4, <2>1
    <2>3. QED
      BY <1>1, <2>1, <2>2 DEF Settles, SettlePending, Min0
  <1>6. /\ \A t \in Slots : pending'[t] = Cardinality(InFlight(t)')
        /\ pendingLeases' = Cardinality(AllInFlight')
    BY <1>1, <1>3, <1>4, <1>5 DEF LeaseInv, LeaseTypeOK, LeaseAccounting
  <1>7. CASE pc[r] = "failed"
    <2>1. UNCHANGED <<leases, leased>>
      BY <1>7 DEF Settles
    <2>2. pc'[r] = "note"
      BY <1>7, WorkersApart DEF Settles, LeaseInv, TypeInv, ControlTypeOK
    <2>3. AllLeased' = AllLeased /\ \A t \in Slots : Leased(t)' = Leased(t)
      BY <1>2, <1>7, <2>2 DEF Leased, AllLeased, Leasing
    <2>4. LeaseTypeOK'
      BY <1>1, <1>5, <2>1 DEF LeaseInv, LeaseTypeOK
    <2>5. LeaseAccounting'
      <3>1. \A t \in Slots : leases'[t] = Cardinality(Leased(t)')
        BY <2>1, <2>3 DEF LeaseInv, LeaseAccounting
      <3>2. leased' = Cardinality(AllLeased')
        BY <2>1, <2>3 DEF LeaseInv, LeaseAccounting
      <3>3. QED
        BY <1>6, <3>1, <3>2 DEF LeaseAccounting
    <2>6. \A t \in Slots : exitLoad(t)' <= exitLoad(t)
      BY <1>1, <1>5, <2>1 DEF LeaseInv, LeaseTypeOK, exitLoad
    <2>7. leased' + pendingLeases' <= leased + pendingLeases
      BY <1>5, <2>1 DEF LeaseInv, LeaseTypeOK
    <2>8. QED
      BY <2>4, <2>5, <2>6, <2>7, LoadShrinks
  <1>8. CASE pc[r] = "got"
    <2>1. /\ leases' = [leases EXCEPT ![s] = leases[s] + 1]
          /\ leased' = leased + 1
      BY <1>1, <1>8 DEF Settles
    <2>2. pc'[r] = "check"
      BY <1>8, WorkersApart DEF Settles, LeaseInv, TypeInv, ControlTypeOK
    <2>3. /\ Leased(s)' = Leased(s) \cup {r}
          /\ AllLeased' = AllLeased \cup {r}
          /\ \A t \in Slots \ {s} : Leased(t)' = Leased(t)
      BY <1>1, <1>2, <2>2 DEF Leased, AllLeased, Leasing
    <2>4. /\ Cardinality(Leased(s)') = Cardinality(Leased(s)) + 1
          /\ Cardinality(AllLeased') = Cardinality(AllLeased) + 1
      BY <1>1, <2>3, ClaimSets, MovingRequests
    <2>5. LeaseTypeOK'
      BY <1>1, <1>5, <2>1 DEF LeaseInv, LeaseTypeOK
    <2>6. LeaseAccounting'
      <3>1. \A t \in Slots : leases'[t] = Cardinality(Leased(t)')
        BY <1>1, <2>1, <2>3, <2>4 DEF LeaseInv, LeaseTypeOK, LeaseAccounting
      <3>2. leased' = Cardinality(AllLeased')
        BY <2>1, <2>4 DEF LeaseInv, LeaseAccounting
      <3>3. QED
        BY <1>6, <3>1, <3>2 DEF LeaseAccounting
    <2>7. \A t \in Slots : exitLoad(t)' = exitLoad(t)
      BY <1>1, <1>5, <2>1 DEF LeaseInv, LeaseTypeOK, exitLoad
    <2>8. leased' + pendingLeases' = leased + pendingLeases
      BY <1>5, <2>1 DEF LeaseInv, LeaseTypeOK
    <2>9. QED
      BY <2>5, <2>6, <2>7, <2>8 DEF LeaseInv
  <1>9. QED
    BY <1>7, <1>8 DEF Settles

\* Release takes one lease off a counter that counts it.
LEMMA GivesUpKeepsClaims ==
    ASSUME LeaseInv, TypeInv', NEW r \in Requests, GivesUp(r)
    PROVE  LeaseInv'
  <1>1. PICK s \in Slots : s = slot[r] /\ r \in Leased(s) /\ r \in AllLeased
    BY DEF GivesUp, LeaseInv, TypeInv, WorkOK, Leased, AllLeased, Leasing
  <1>2. /\ pc'[r] = "idle"
        /\ \A q \in Requests \ {r} : pc'[q] = pc[q] /\ slot'[q] = slot[q]
    BY WorkersApart DEF GivesUp, LeaseInv, TypeInv, ControlTypeOK
  <1>3. /\ Leased(s)' = Leased(s) \ {r}
        /\ AllLeased' = AllLeased \ {r}
        /\ \A t \in Slots \ {s} : Leased(t)' = Leased(t)
    BY <1>1, <1>2 DEF Leased, AllLeased, Leasing
  <1>4. AllInFlight' = AllInFlight /\ \A t \in Slots : InFlight(t)' = InFlight(t)
    BY <1>2 DEF GivesUp, InFlight, AllInFlight, Reserving, Opening
  <1>5. /\ Cardinality(Leased(s)') = Cardinality(Leased(s)) - 1
        /\ Cardinality(AllLeased') = Cardinality(AllLeased) - 1
        /\ Cardinality(Leased(s)') \in Nat /\ Cardinality(AllLeased') \in Nat
    BY <1>1, <1>3, ClaimSets, MovingRequests
  <1>6. /\ leases' = [leases EXCEPT ![s] = leases[s] - 1]
        /\ leased' = leased - 1
        /\ leases[s] > 0 /\ leased > 0
    <2>1. /\ leases[s] = Cardinality(Leased(s)) /\ leases[s] \in Nat
          /\ leased = Cardinality(AllLeased) /\ leased \in Nat
      BY <1>1 DEF LeaseInv, LeaseTypeOK, LeaseAccounting
    <2>2. leases[s] > 0 /\ leased > 0
      BY <1>5, <2>1
    <2>3. QED
      BY <1>1, <2>1, <2>2 DEF GivesUp, Min0
  <1>7. UNCHANGED <<pending, pendingLeases>>
    BY DEF GivesUp
  <1>8. LeaseTypeOK'
    BY <1>1, <1>6, <1>7 DEF LeaseInv, LeaseTypeOK
  <1>9. LeaseAccounting'
    <2>1. \A t \in Slots : leases'[t] = Cardinality(Leased(t)')
      BY <1>1, <1>3, <1>5, <1>6 DEF LeaseInv, LeaseTypeOK, LeaseAccounting
    <2>2. \A t \in Slots : pending'[t] = Cardinality(InFlight(t)')
      BY <1>4, <1>7 DEF LeaseInv, LeaseAccounting
    <2>3. leased' = Cardinality(AllLeased') /\ pendingLeases' = Cardinality(AllInFlight')
      BY <1>4, <1>5, <1>6, <1>7 DEF LeaseInv, LeaseAccounting
    <2>4. QED
      BY <2>1, <2>2, <2>3 DEF LeaseAccounting
  <1>10. \A t \in Slots : exitLoad(t)' <= exitLoad(t)
    BY <1>1, <1>6, <1>7 DEF LeaseInv, LeaseTypeOK, exitLoad
  <1>11. leased' + pendingLeases' <= leased + pendingLeases
    BY <1>6, <1>7 DEF LeaseInv, LeaseTypeOK
  <1>12. QED
    BY <1>8, <1>9, <1>10, <1>11, LoadShrinks

\* The invariant is inductive.
LEMMA LeaseNext ==
    ASSUME LeaseInv, [AnyNext]_vars
    PROVE  LeaseInv'
  <1>1. TypeInv' /\ LeaseMove
    BY StepKinds DEF LeaseInv
  <1>2. QED
    BY <1>1, StillKeepsClaims, PicksKeepsClaims, SettlesKeepsClaims, GivesUpKeepsClaims
       DEF LeaseMove

\* The counters bound the sets of requests they count.
LEMMA LeaseInvLimits == LeaseInv => ConnLimits
  <1> SUFFICES ASSUME LeaseInv PROVE ConnLimits
    OBVIOUS
  <1>1. opts.MaxConnsPerExit \in Nat /\ opts.MaxConcurrentConns \in Nat
    BY InputAssumption DEF Options
  <1>2. ASSUME NEW S \in SUBSET Requests, NEW T \in SUBSET Requests
        PROVE  Cardinality(S \cup T) <= Cardinality(S) + Cardinality(T)
    <2>1. IsFiniteSet(S) /\ IsFiniteSet(T) /\ IsFiniteSet(S \cap T)
      BY FS_Subset, FiniteAssumption
    <2>2. /\ Cardinality(S) \in Nat /\ Cardinality(T) \in Nat
          /\ Cardinality(S \cap T) \in Nat
      BY <2>1, FS_CardinalityType
    <2>3. QED
      BY <2>1, <2>2, FS_Union
  <1>3. ASSUME NEW s \in Slots, opts.MaxConnsPerExit > 0
        PROVE  Cardinality(Leased(s) \cup InFlight(s)) <= opts.MaxConnsPerExit
    <2>1. /\ Cardinality(Leased(s) \cup InFlight(s)) \in Nat
          /\ Cardinality(Leased(s) \cup InFlight(s)) <= leases[s] + pending[s]
      BY <1>2, ClaimSets, MovingRequests, FiniteAssumption, FS_Subset, FS_CardinalityType
         DEF LeaseInv, LeaseAccounting
    <2>2. leases[s] + pending[s] <= opts.MaxConnsPerExit
      BY <1>3 DEF LeaseInv, exitLoad
    <2>3. QED
      BY <1>1, <2>1, <2>2 DEF LeaseInv, LeaseTypeOK
  <1>4. ASSUME opts.MaxConcurrentConns > 0
        PROVE  Cardinality(AllLeased \cup AllInFlight) <= opts.MaxConcurrentConns
    <2>1. /\ Cardinality(AllLeased \cup AllInFlight) \in Nat
          /\ Cardinality(AllLeased \cup AllInFlight) <= leased + pendingLeases
      BY <1>2, ClaimSets, FiniteAssumption, FS_Subset, FS_CardinalityType
         DEF LeaseInv, LeaseAccounting
    <2>2. QED
      BY <1>1, <1>4, <2>1 DEF LeaseInv, LeaseTypeOK
  <1>5. QED
    BY <1>3, <1>4 DEF ConnLimits

\* The control state of every goroutine, and the connection counters, keep their
\* types on every path through Acquire, ensureOpen, Warmup, the IP checks and
\* Close; a process that reserves, opens or measures knows what it works on.
THEOREM ControlTypes == Spec => [](ControlTypeOK /\ WorkOK /\ LeaseTypeOK)
  <1>1. LeaseInv => ControlTypeOK /\ WorkOK /\ LeaseTypeOK
    BY DEF LeaseInv, TypeInv
  <1>2. QED
    BY LeaseInit, LeaseNext, NextIsAny, <1>1, PTL DEF Spec

\* slotState.leases, slotState.pendingLeases, Pool.leased and Pool.pendingLeases
\* always count exactly the connections that are leased or being set up, for any
\* number of requests, slots and entries and any options.
THEOREM LeasesCounted == Spec => []LeaseAccounting
  <1>1. LeaseInv => LeaseAccounting
    BY DEF LeaseInv
  <1>2. QED
    BY LeaseInit, LeaseNext, NextIsAny, <1>1, PTL DEF Spec

\* No interleaving of Acquire, Release and their failures exceeds MaxConnsPerExit
\* on an exit or MaxConcurrentConns in the pool.
THEOREM ConnectionsBounded == Spec => []ConnLimits
  BY LeaseInit, LeaseNext, NextIsAny, LeaseInvLimits, PTL DEF Spec

-----------------------------------------------------------------------------
(* The pool implements module LeaseAllocator: each of the four kinds of    *)
(* steps that StepKinds distinguishes maps to a step of the allocator.     *)

\* Each request's phase and exit follow from its pc and slot.
LEMMA BarValues ==
    ASSUME NEW r \in Requests
    PROVE  /\ pc[r] \in Reserving => phaseBar[r] = "pending" /\ exitBar[r] = slot[r]
           /\ pc[r] \in Leasing => phaseBar[r] = "leased" /\ exitBar[r] = slot[r]
           /\ pc[r] \notin Reserving \cup Leasing => phaseBar[r] = "free" /\ exitBar[r] = NoSlot
  BY ClaimSets DEF phaseBar, exitBar

\* The instance counts the way the pool's own module does.
LEMMA SameCount == \A S : Alloc!Cardinality(S) = Cardinality(S)
  BY DEF Cardinality, Alloc!Cardinality, IsFiniteSet, Alloc!IsFiniteSet

\* The allocator's claims are the requests the pool's counters count.
LEMMA ClaimsCounted ==
    ASSUME LeaseInv, NEW s \in Slots
    PROVE  /\ Cardinality(Alloc!Claims(s)) \in Nat
           /\ Cardinality(Alloc!Claims(s)) <= leases[s] + pending[s]
           /\ Cardinality(Alloc!AllClaims) \in Nat
           /\ Cardinality(Alloc!AllClaims) <= leased + pendingLeases
  <1>1. ASSUME NEW S \in SUBSET Requests, NEW T \in SUBSET Requests
        PROVE  /\ Cardinality(S \cup T) \in Nat
               /\ Cardinality(S \cup T) <= Cardinality(S) + Cardinality(T)
    <2>1. IsFiniteSet(S) /\ IsFiniteSet(T) /\ IsFiniteSet(S \cap T) /\ IsFiniteSet(S \cup T)
      BY FS_Subset, FiniteAssumption
    <2>2. /\ Cardinality(S) \in Nat /\ Cardinality(T) \in Nat
          /\ Cardinality(S \cap T) \in Nat /\ Cardinality(S \cup T) \in Nat
      BY <2>1, FS_CardinalityType
    <2>3. Cardinality(S \cup T) = Cardinality(S) + Cardinality(T) - Cardinality(S \cap T)
      BY <2>1, FS_Union
    <2>4. QED
      BY <2>2, <2>3
  <1>2. Alloc!Claims(s) = Leased(s) \cup InFlight(s)
    BY BarValues DEF Alloc!Claims, Leased, InFlight, phaseBar
  <1>3. Alloc!AllClaims = AllLeased \cup AllInFlight
    BY BarValues DEF Alloc!AllClaims, AllLeased, AllInFlight, phaseBar
  <1>4. /\ leases[s] = Cardinality(Leased(s)) /\ pending[s] = Cardinality(InFlight(s))
        /\ leased = Cardinality(AllLeased) /\ pendingLeases = Cardinality(AllInFlight)
    BY DEF LeaseInv, LeaseAccounting
  <1>5. QED
    BY <1>1, <1>2, <1>3, <1>4, ClaimSets

\* A pool in which nobody has asked for anything is an unused allocator.
LEMMA InitRefines == Init => Alloc!AllocInit
  BY WorkersApart DEF Init, Alloc!AllocInit, phaseBar, exitBar, Reserving, Leasing, Opening

\* Steps that move no claim are invisible.
LEMMA StillRefines ==
    ASSUME TypeInv, TypeInv', LeaseStill
    PROVE  UNCHANGED <<phaseBar, exitBar>>
  BY DEF LeaseStill, phaseBar, exitBar

\* The mapped state of one request changes and that of the others does not.
LEMMA OneClaimMoves ==
    ASSUME NEW r \in Requests,
           \A q \in Requests \ {r} : pc'[q] = pc[q] /\ slot'[q] = slot[q]
    PROVE  /\ phaseBar' = [phaseBar EXCEPT ![r] = phaseBar'[r]]
           /\ exitBar' = [exitBar EXCEPT ![r] = exitBar'[r]]
  <1>1. /\ phaseBar' = [q \in Requests |-> phaseBar'[q]]
        /\ exitBar' = [q \in Requests |-> exitBar'[q]]
    BY DEF phaseBar, exitBar
  <1>2. \A q \in Requests \ {r} : phaseBar'[q] = phaseBar[q] /\ exitBar'[q] = exitBar[q]
    BY DEF phaseBar, exitBar
  <1>3. DOMAIN phaseBar = Requests /\ DOMAIN exitBar = Requests
    BY DEF phaseBar, exitBar
  <1>4. QED
    BY <1>1, <1>2, <1>3

\* pick reserves where both limits leave room.
LEMMA PicksRefines ==
    ASSUME LeaseInv, NEW r \in Requests, NEW s \in Slots, Picks(r, s)
    PROVE  Alloc!Reserve(r, s)
  <1>1. /\ pc'[r] = "dial" /\ slot'[r] = s
        /\ \A q \in Requests \ {r} : pc'[q] = pc[q] /\ slot'[q] = slot[q]
    BY WorkersApart DEF Picks, LeaseInv, TypeInv, ControlTypeOK
  <1>2. phaseBar[r] = "free" /\ phaseBar'[r] = "pending" /\ exitBar'[r] = s
    BY <1>1 DEF Picks, phaseBar, exitBar, Reserving, Leasing, Opening
  <1>3. Alloc!Room(s)
    <2>1. opts.MaxConnsPerExit \in Nat /\ opts.MaxConcurrentConns \in Nat
      BY InputAssumption DEF Options
    <2>2. /\ leases[s] \in Nat /\ pending[s] \in Nat
          /\ leased \in Nat /\ pendingLeases \in Nat
      BY DEF LeaseInv, LeaseTypeOK
    <2>3. /\ opts.MaxConnsPerExit > 0 => leases[s] + pending[s] < opts.MaxConnsPerExit
          /\ opts.MaxConcurrentConns > 0 => leased + pendingLeases < opts.MaxConcurrentConns
      BY <2>1, <2>2 DEF Picks, AtExitCap, exitLoad, Busy
    <2>4. /\ Cardinality(Alloc!Claims(s)) \in Nat
          /\ Cardinality(Alloc!Claims(s)) <= leases[s] + pending[s]
          /\ Cardinality(Alloc!AllClaims) \in Nat
          /\ Cardinality(Alloc!AllClaims) <= leased + pendingLeases
      BY ClaimsCounted
    <2>5. \A a, b, d, m \in Nat : a <= b + d /\ b + d < m => a < m
      OBVIOUS
    <2>6. /\ opts.MaxConnsPerExit > 0 => Cardinality(Alloc!Claims(s)) < opts.MaxConnsPerExit
          /\ opts.MaxConcurrentConns > 0 =>
               Cardinality(Alloc!AllClaims) < opts.MaxConcurrentConns
      BY <2>1, <2>2, <2>3, <2>4, <2>5, Zenon
    <2>7. QED
      BY <2>6, SameCount, Zenon DEF Alloc!Room
  <1>4. QED
    BY <1>1, <1>2, <1>3, OneClaimMoves DEF Alloc!Reserve

\* commitAcquisitionLocked turns the reservation into a lease, rollback frees it.
LEMMA SettlesRefines ==
    ASSUME LeaseInv, NEW r \in Requests, Settles(r)
    PROVE  Alloc!Commit(r) \/ Alloc!GiveUp(r)
  <1>1. /\ \A q \in Requests : slot'[q] = slot[q]
        /\ \A q \in Requests \ {r} : pc'[q] = pc[q]
        /\ \/ pc[r] = "got" /\ pc'[r] = "check"
           \/ pc[r] = "failed" /\ pc'[r] = "note"
    BY WorkersApart DEF Settles, LeaseInv, TypeInv, ControlTypeOK
  <1>2. /\ phaseBar' = [phaseBar EXCEPT ![r] = phaseBar'[r]]
        /\ exitBar' = [exitBar EXCEPT ![r] = exitBar'[r]]
    BY <1>1, OneClaimMoves
  <1>3. CASE pc[r] = "got"
    <2>1. /\ phaseBar[r] = "pending" /\ phaseBar'[r] = "leased"
          /\ exitBar'[r] = exitBar[r]
      BY <1>1, <1>3 DEF phaseBar, exitBar, Reserving, Leasing, Opening
    <2>2. exitBar' = exitBar
      BY <1>2, <2>1 DEF exitBar
    <2>3. QED
      BY <1>2, <2>1, <2>2 DEF Alloc!Commit
  <1>4. CASE pc[r] = "failed"
    <2>1. phaseBar[r] = "pending" /\ phaseBar'[r] = "free" /\ exitBar'[r] = NoSlot
      BY <1>1, <1>4 DEF phaseBar, exitBar, Reserving, Leasing, Opening
    <2>2. QED
      BY <1>2, <2>1 DEF Alloc!GiveUp, Alloc!Free
  <1>5. QED
    BY <1>3, <1>4 DEF Settles

\* Release frees a lease.
LEMMA GivesUpRefines ==
    ASSUME LeaseInv, NEW r \in Requests, GivesUp(r)
    PROVE  Alloc!Release(r)
  <1>1. /\ pc[r] \in {"leased", "broken"} /\ pc'[r] = "idle"
        /\ \A q \in Requests \ {r} : pc'[q] = pc[q] /\ slot'[q] = slot[q]
    BY WorkersApart DEF GivesUp, LeaseInv, TypeInv, ControlTypeOK
  <1>2. phaseBar[r] = "leased" /\ phaseBar'[r] = "free" /\ exitBar'[r] = NoSlot
    BY <1>1 DEF phaseBar, exitBar, Reserving, Leasing, Opening
  <1>3. QED
    BY <1>1, <1>2, OneClaimMoves DEF Alloc!Release, Alloc!Free

\* Every step of the pool is a step of the allocator or none at all.
LEMMA StepRefines ==
    ASSUME LeaseInv, [AnyNext]_vars
    PROVE  [Alloc!AllocNext]_<<phaseBar, exitBar>>
  <1>1. TypeInv' /\ LeaseMove
    BY StepKinds DEF LeaseInv
  <1>2. CASE LeaseStill
    BY <1>1, <1>2, StillRefines DEF LeaseInv
  <1>3. ASSUME NEW r \in Requests, \E s \in Slots : Picks(r, s)
        PROVE  Alloc!AllocNext
    BY <1>3, PicksRefines DEF Alloc!AllocNext
  <1>4. ASSUME NEW r \in Requests, Settles(r)
        PROVE  Alloc!AllocNext
    BY <1>4, SettlesRefines DEF Alloc!AllocNext
  <1>5. ASSUME NEW r \in Requests, GivesUp(r)
        PROVE  Alloc!AllocNext
    BY <1>5, GivesUpRefines DEF Alloc!AllocNext
  <1>6. QED
    BY <1>1, <1>2, <1>3, <1>4, <1>5 DEF LeaseMove

\* Whatever happens inside Acquire and Release, in any order and with any failures,
\* callers see the allocator of module LeaseAllocator.
THEOREM PoolAllocates == Spec => ImplementsAllocator
  <1>1. Init /\ [][Next]_vars => []LeaseInv
    BY LeaseInit, LeaseNext, NextIsAny, PTL
  <1>2. LeaseInv /\ [Next]_vars => [Alloc!AllocNext]_<<phaseBar, exitBar>>
    BY StepRefines, NextIsAny
  <1>3. QED
    BY <1>1, <1>2, InitRefines, PTL
       DEF Spec, ImplementsAllocator, Alloc!AllocSpec, Alloc!avars
=============================================================================
