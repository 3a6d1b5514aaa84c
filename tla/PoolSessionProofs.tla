------------------------- MODULE PoolSessionProofs -------------------------
(***************************************************************************)
(* Theorems about sticky-session reservations and about shutdown in module *)
(* Pool, for any catalog, any options and any number of requests:          *)
(* pendingSessions counts the reservations in flight (SessionAccounting),  *)
(* and nothing is measured once Close has returned (ClosedIsQuiet).        *)
(*                                                                         *)
(* A step leaves every reservation of a name alone (NamesStill), or one    *)
(* request reserves a name as it picks a slot (TakesName), or settles its  *)
(* reservation by commit or rollback (SettlesName).                        *)
(***************************************************************************)
EXTENDS PoolTunnelProofs

Owing(n) == {r \in Requests : sres[r] /\ call[r].session = n}

NamesStill ==
    /\ UNCHANGED <<pendingSessions, sres>>
    /\ \A r \in Requests : pc[r] \in Reserving => pc'[r] \in Reserving /\ call'[r] = call[r]
TakesName(r) ==
    /\ pc[r] = "pick" /\ pc'[r] \in Reserving
    /\ \/ UNCHANGED pendingSessions /\ sres' = [sres EXCEPT ![r] = FALSE]
       \/ /\ call[r].session \in Names
          /\ pendingSessions' = [pendingSessions EXCEPT ![call[r].session] = @ + 1]
          /\ sres' = [sres EXCEPT ![r] = TRUE]
    /\ UNCHANGED call
    /\ \A q \in Requests \ {r} : pc'[q] = pc[q]
SettlesName(r) ==
    /\ pc[r] \in Reserving /\ ReleasePendingSession(r)
    /\ UNCHANGED call
    /\ \A q \in Requests \ {r} : pc'[q] = pc[q]
NamesMove == NamesStill \/ \E r \in Requests : TakesName(r) \/ SettlesName(r)

\* A step that moves no claim and leaves the calls behind claims alone.
LEMMA StillNames ==
    ASSUME LeaseStill, UNCHANGED <<pendingSessions, sres>>,
           \A r \in Requests : pc[r] \in Reserving => call'[r] = call[r]
    PROVE  NamesMove
  BY DEF LeaseStill, NamesMove, NamesStill

\* The same, when sessions are not written either.
LEMMA SessionsAside ==
    ASSUME SessionTypeOK, LeaseStill, UNCHANGED sessionVars,
           \A r \in Requests : pc[r] \in Reserving => call'[r] = call[r]
    PROVE  SessionTypeOK' /\ NamesMove
  BY StillNames DEF SessionTypeOK, sessionVars

\* The limits a call may set are numbers, and so are the lifetimes they yield.
LEMMA CallTypes ==
    ASSUME NEW c \in Calls
    PROVE  /\ c.session \in Names \cup {NoName} /\ c.ttl \in Nat
           /\ c.uniq \in BatchNames \cup {NoName} /\ c.bttl \in Nat
           /\ sessionTTL(c) \in Nat /\ batchTTL(c) \in Nat
  <1>1. /\ c.session \in Names \cup {NoName} /\ c.ttl \in Nat
        /\ c.uniq \in BatchNames \cup {NoName} /\ c.bttl \in Nat
    BY InputAssumption DEF CallType
  <1>2. opts.SessionTTL \in Nat /\ opts.BatchTTL \in Nat
    BY InputAssumption DEF Options
  <1>3. QED
    BY <1>1, <1>2 DEF sessionTTL, batchTTL

\* Expiry and pick's search leave well-typed sessions.
LEMMA SessionsTyped ==
    ASSUME SessionTypeOK, now \in Nat, NEW c \in Calls, NEW how
    PROVE  /\ LiveSessions \in [Names -> SessionType \cup {NoSession}]
           /\ SessionsAfter(c, how) \in [Names -> SessionType \cup {NoSession}]
  <1>1. LiveSessions \in [Names -> SessionType \cup {NoSession}]
    BY DEF LiveSessions, SessionTypeOK
  <1>2. CASE TurnedAway(c) \/ ~Pinned(c)
    BY <1>1, <1>2 DEF SessionsAfter
  <1>3. CASE ~TurnedAway(c) /\ Pinned(c)
    <2>1. /\ c.session \in Names /\ sessions[c.session] \in SessionType
          /\ now < sessions[c.session].expiresAt
      BY <1>3, CallTypes DEF Pinned, SessionTypeOK
    <2>2. LiveSessions[c.session] \in SessionType
      BY <2>1 DEF LiveSessions, SessionType
    <2>3. now + sessionTTL(c) \in Nat
      BY CallTypes
    <2>4. [LiveSessions[c.session] EXCEPT !.expiresAt = now + sessionTTL(c)] \in SessionType
      BY <2>2, <2>3 DEF SessionType
    <2>5. SessionsAfter(c, how) \in
            {[LiveSessions EXCEPT ![c.session] = NoSession],
             [LiveSessions EXCEPT ![c.session] =
                [LiveSessions[c.session] EXCEPT !.expiresAt = now + sessionTTL(c)]]}
      BY <1>3 DEF SessionsAfter
    <2>6. QED
      BY <1>1, <2>4, <2>5
  <1>4. QED
    BY <1>1, <1>2, <1>3

\* The requests that return had no reservation left.
LEMMA ReturningCalls ==
    ASSUME TypeInv, NEW r \in Requests, pc[r] \notin Reserving,
           \/ UNCHANGED call
           \/ \E c : call' = [call EXCEPT ![r] = c]
    PROVE  \A q \in Requests : pc[q] \in Reserving => call'[q] = call[q]
  BY DEF TypeInv, ControlTypeOK

\* Acquire and the life of a lease, apart from the reservation and its end.
LEMMA RequestNames ==
    ASSUME TypeInv, SessionTypeOK, now \in Nat, NEW r \in Requests,
           \/ \E c \in Calls : Start(r, c)
           \/ PickNothing(r) \/ CheckLeasedIP(r) \/ NoteAcquireFailure(r) \/ DropSession(r)
           \/ DialSucceeds(r) \/ NoteDialFailure(r) \/ Release(r)
    PROVE  SessionTypeOK' /\ NamesMove
  <1>1. /\ pc[r] \notin Reserving
        /\ UNCHANGED <<pendingSessions, sres>>
    BY DEF Start, PickNothing, CheckLeasedIP, NoteAcquireFailure, DropSession, DialSucceeds,
       NoteDialFailure, Release, sessionVars, Reserving, Opening
  <1>2. \A q \in Requests : pc[q] \in Reserving => call'[q] = call[q]
    <2>1. UNCHANGED call \/ \E c : call' = [call EXCEPT ![r] = c]
      BY DEF Start, PickNothing, CheckLeasedIP, NoteAcquireFailure, DropSession, DialSucceeds,
         NoteDialFailure, Release, NextAttempt, Return, callVars
    <2>2. QED
      BY <1>1, <2>1, ReturningCalls
  <1>3. NamesMove
    <2>1. CASE ~Release(r)
      <3>1. LeaseStill
        BY <2>1, StartStep, PickNothingStep, CheckLeasedIPStep, NoteAcquireFailureStep,
           DropSessionStep, HoldingStep
      <3>2. QED
        BY <1>1, <1>2, <3>1, StillNames
    <2>2. CASE Release(r)
      <3>1. \A q \in Requests \ {r} : pc'[q] = pc[q]
        BY <2>2, ReleaseStep, WorkersApart DEF GivesUp, TypeInv, ControlTypeOK
      <3>2. QED
        BY <1>1, <1>2, <3>1 DEF NamesMove, NamesStill
    <2>3. QED
      BY <2>1, <2>2
  <1>4. SessionTypeOK'
    <2>1. CASE UNCHANGED sessions
      BY <1>1, <2>1 DEF SessionTypeOK
    <2>2. CASE PickNothing(r)
      <3>1. call[r] \in Calls
        BY <2>2 DEF PickNothing, TypeInv, WorkOK
      <3>2. sessions' = SessionsAfter(call[r], "none")
        BY <2>2 DEF PickNothing
      <3>3. QED
        BY <1>1, <3>1, <3>2, SessionsTyped DEF SessionTypeOK
    <2>3. CASE DropSession(r)
      <3>1. sessions' = [sessions EXCEPT ![call[r].session] = NoSession]
        BY <2>3 DEF DropSession
      <3>2. QED
        BY <1>1, <3>1 DEF SessionTypeOK
    <2>4. QED
      BY <2>1, <2>2, <2>3 DEF Start, CheckLeasedIP, NoteAcquireFailure, DialSucceeds,
         NoteDialFailure, Release, sessionVars
  <1>5. QED
    BY <1>3, <1>4

\* pick reserves the name it will bind, unless the session is bound already.
LEMMA PickTakesName ==
    ASSUME TypeInv, SessionTypeOK, now \in Nat, NEW r \in Requests, PickSlot(r)
    PROVE  SessionTypeOK' /\ NamesMove
  <1> DEFINE c == call[r]
  <1>1. pc[r] = "pick" /\ c \in Calls
    BY DEF PickSlot, TypeInv, WorkOK
  <1>2. PICK how : /\ sessions' = SessionsAfter(c, how)
                   /\ \/ /\ Goto(r, "dial")
                         /\ sres' = [sres EXCEPT ![r] = NeedsName(c, SessionsAfter(c, how))]
                         /\ pendingSessions' =
                              IF NeedsName(c, SessionsAfter(c, how))
                              THEN [pendingSessions EXCEPT ![c.session] = @ + 1]
                              ELSE pendingSessions
                         /\ UNCHANGED call
                      \/ Return(r) /\ UNCHANGED <<sres, pendingSessions>>
    BY DEF PickSlot
  <1> DEFINE needs == NeedsName(c, SessionsAfter(c, how))
  <1>3. sessions' \in [Names -> SessionType \cup {NoSession}]
    BY <1>1, <1>2, SessionsTyped
  <1>4. needs => c.session \in Names
    BY <1>1, CallTypes DEF NeedsName
  <1>5. CASE Return(r) /\ UNCHANGED <<sres, pendingSessions>>
    <2>1. SessionTypeOK'
      BY <1>3, <1>5 DEF SessionTypeOK
    <2>2. NamesStill
      BY <1>1, <1>5, WorkersApart DEF NamesStill, Return, Goto, TypeInv, ControlTypeOK, Reserving,
         Opening
    <2>3. QED
      BY <2>1, <2>2 DEF NamesMove
  <1> HIDE DEF needs
  <1>6. CASE /\ Goto(r, "dial") /\ sres' = [sres EXCEPT ![r] = needs] /\ UNCHANGED call
             /\ pendingSessions' = IF needs THEN [pendingSessions EXCEPT ![c.session] = @ + 1]
                                   ELSE pendingSessions
    <2>1. pc'[r] \in Reserving /\ \A q \in Requests \ {r} : pc'[q] = pc[q]
      BY <1>6, WorkersApart DEF Goto, TypeInv, ControlTypeOK, Reserving
    <2>2. CASE needs
      <3>1. sres' = [sres EXCEPT ![r] = TRUE]
        <4>1. needs = TRUE
          BY <2>2 DEF needs, NeedsName
        <4>2. QED
          BY <1>6, <4>1
      <3>2. TakesName(r)
        BY <1>1, <1>4, <1>6, <2>1, <2>2, <3>1 DEF TakesName
      <3>3. SessionTypeOK'
        BY <1>3, <1>4, <1>6, <2>2, <3>1 DEF SessionTypeOK
      <3>4. QED
        BY <3>2, <3>3 DEF NamesMove
    <2>3. CASE ~needs
      <3>1. sres' = [sres EXCEPT ![r] = FALSE]
        <4>1. needs = FALSE
          BY <2>3 DEF needs, NeedsName
        <4>2. QED
          BY <1>6, <4>1
      <3>2. TakesName(r)
        BY <1>1, <1>6, <2>1, <2>3, <3>1 DEF TakesName
      <3>3. SessionTypeOK'
        BY <1>3, <1>6, <2>3, <3>1 DEF SessionTypeOK
      <3>4. QED
        BY <3>2, <3>3 DEF NamesMove
    <2>4. QED
      BY <2>2, <2>3
  <1>7. QED
    BY <1>2, <1>5, <1>6 DEF needs

\* Commit binds the session; commit and rollback give the reservation back.
LEMMA SettleName ==
    ASSUME TypeInv, SessionTypeOK, now \in Nat, NEW r \in Requests,
           CommitAcquisition(r) \/ RollbackAcquisition(r)
    PROVE  SessionTypeOK' /\ NamesMove
  <1>1. /\ pc[r] \in Reserving /\ call[r] \in Calls /\ slot[r] \in Slots
        /\ ReleasePendingSession(r) /\ UNCHANGED call
    BY DEF CommitAcquisition, RollbackAcquisition, TypeInv, WorkOK, callVars, Reserving
  <1>2. \A q \in Requests \ {r} : pc'[q] = pc[q]
    BY WorkersApart DEF CommitAcquisition, RollbackAcquisition, Goto, TypeInv, ControlTypeOK
  <1>3. SettlesName(r)
    BY <1>1, <1>2 DEF SettlesName
  <1>4. sres' \in [Requests -> BOOLEAN]
    BY <1>1 DEF ReleasePendingSession, SessionTypeOK
  <1>5. pendingSessions' \in [Names -> Nat]
    <2>1. ASSUME NEW n \in Names
          PROVE  [pendingSessions EXCEPT ![n] = Min0(pendingSessions[n])] \in [Names -> Nat]
      BY Min0Type DEF SessionTypeOK
    <2>2. CASE call[r].session \in Names
      BY <1>1, <2>1, <2>2 DEF ReleasePendingSession, SessionTypeOK
    <2>3. CASE call[r].session \notin Names
      <3>1. pendingSessions' = pendingSessions
        BY <1>1, <2>3 DEF ReleasePendingSession, SessionTypeOK
      <3>2. QED
        BY <3>1 DEF SessionTypeOK
    <2>4. QED
      BY <2>2, <2>3
  <1>6. sessions' \in [Names -> SessionType \cup {NoSession}]
    <2>1. now + sessionTTL(call[r]) \in Nat
      BY <1>1, CallTypes
    <2>2. [slotID |-> slot[r], expiresAt |-> now + sessionTTL(call[r])] \in SessionType
      BY <1>1, <2>1 DEF SessionType
    <2>3. sessions' \in
            {sessions, [sessions EXCEPT ![call[r].session] =
                          [slotID |-> slot[r], expiresAt |-> now + sessionTTL(call[r])]]}
      BY DEF CommitAcquisition, RollbackAcquisition
    <2>4. QED
      BY <2>2, <2>3 DEF SessionTypeOK
  <1>7. QED
    BY <1>3, <1>4, <1>5, <1>6 DEF SessionTypeOK, NamesMove

\* The pool's goroutines, the clock, the control API and Close settle no name; what
\* they write of the sessions is at most to forget some.
LEMMA OtherNames ==
    ASSUME TypeInv, SessionTypeOK, now \in Nat, LeaseStill, UNCHANGED <<call, pendingSessions, sres>>,
           \/ UNCHANGED sessions
           \/ sessions' = LiveSessions
           \/ \E n : sessions' = [sessions EXCEPT ![n] = NoSession]
    PROVE  SessionTypeOK' /\ NamesMove
  <1>1. NamesMove
    BY StillNames
  <1>2. sessions' \in [Names -> SessionType \cup {NoSession}]
    BY DEF SessionTypeOK, LiveSessions
  <1>3. QED
    BY <1>1, <1>2 DEF SessionTypeOK

\* Every step keeps the sessions typed and moves at most one reservation of a name.
LEMMA SessionKinds ==
    ASSUME TypeInv, SessionTypeOK, now \in Nat, [AnyNext]_vars
    PROVE  SessionTypeOK' /\ NamesMove
  <1> USE DEF callVars, sessionVars
  <1>1. CASE UNCHANGED vars \/ Tick \/ DrainDone \/ CloseReturns \/ Close
    <2>1. UNCHANGED <<pc, slot, call, leaseVars, sessionVars>>
      BY <1>1 DEF vars, Tick, DrainDone, CloseReturns, Close
    <2>2. LeaseStill
      BY <2>1 DEF LeaseStill
    <2>3. QED
      BY <2>1, <2>2, OtherNames
  <1>2. ASSUME NEW p, Cancel(p) \/ Rotate(p) \/ Report(p) \/ Prefer(p)
        PROVE  SessionTypeOK' /\ NamesMove
    <2>1. UNCHANGED <<pc, slot, call, leaseVars, pendingSessions, sres>>
      BY <1>2 DEF Cancel, Rotate, Report, Prefer
    <2>2. LeaseStill
      BY <2>1 DEF LeaseStill
    <2>3. UNCHANGED sessions \/ \E n : sessions' = [sessions EXCEPT ![n] = NoSession]
      BY <1>2 DEF Cancel, Rotate, Report, Prefer
    <2>4. QED
      BY <2>1, <2>2, <2>3, OtherNames
  <1>3. ASSUME NEW r \in Requests, Acquirer(r) \/ Holder(r)
        PROVE  SessionTypeOK' /\ NamesMove
    BY <1>3, RequestNames, PickTakesName, SettleName DEF Acquirer, Holder
  <1>4. ASSUME NEW r \in Requests, NEW c \in Calls, Start(r, c)
        PROVE  SessionTypeOK' /\ NamesMove
    BY <1>4, RequestNames
  <1>5. ASSUME NEW p \in Procs, Opener(p)
        PROVE  SessionTypeOK' /\ NamesMove
    <2>1. UNCHANGED <<call, sessionVars>>
      BY <1>5 DEF Opener, EnsureDialer, NextEntry, EnsureOpenUp, EnsureOpenWait, EnsureOpenReserve,
         EnsureOpenRefused, WakeUp, AbortOpen, AbortOpenDone, CommitTunnelOpen, OpenSucceeds,
         OpenFails
    <2>2. QED
      BY <1>5, <2>1, OpenerStep, OtherNames
  <1>6. ASSUME NEW count, Warmup(count)
        PROVE  SessionTypeOK' /\ NamesMove
    <2>1. UNCHANGED <<call, sessionVars>>
      BY <1>6 DEF Warmup
    <2>2. QED
      BY <1>6, <2>1, WarmupStep, OtherNames
  <1>7. ASSUME NEW h \in Holders, WarmupRuns(h) \/ WarmupDone(h)
        PROVE  SessionTypeOK' /\ NamesMove
    <2>1. UNCHANGED <<call, sessionVars>>
      BY <1>7 DEF WarmupRuns, WarmupDone, WorkerDone
    <2>2. QED
      BY <1>7, <2>1, WarmerStep, OtherNames
  <1>8. ASSUME NEW s \in Slots, IPCheck(s) \/ Probing(s)
        PROVE  SessionTypeOK' /\ NamesMove
    <2>1. UNCHANGED <<call, sessionVars>>
      BY <1>8 DEF IPCheck, IPCheckAdmitted, IPCheckFails, IPMeasured, WorkerDone, Probing,
         ProbeRuns, ProbeReserve, ProbeRefused, ProbeContacts, ProbeGoesOn, ProbeMeasures,
         ProbeReleases, ProbeFails
    <2>2. QED
      BY <1>8, <2>1, IPCheckStep, ProberStep, OtherNames
  <1>9. ASSUME NEW T \in ProbeTargets, Probe(T)
        PROVE  SessionTypeOK' /\ NamesMove
    <2>1. UNCHANGED <<call, sessionVars>>
      BY <1>9 DEF Probe
    <2>2. QED
      BY <1>9, <2>1, ProbeStep, OtherNames
  <1>10. CASE Housekeep \/ RefreshIP
    <2>1. /\ UNCHANGED <<call, pendingSessions, sres>>
          /\ UNCHANGED sessions \/ sessions' = LiveSessions
      BY <1>10 DEF Housekeep, RefreshIP
    <2>2. QED
      BY <1>10, <2>1, HousekeeperStep, OtherNames
  <1>11. CASE Serve
    BY <1>1, <1>2, <1>3, <1>4, <1>5, <1>6, <1>7, <1>8, <1>9, <1>10, <1>11 DEF Serve, Working
  <1>12. CASE Expires
    <2>1. LeaseStill
      BY <1>12 DEF Expires, LeaseStill
    <2>2. QED
      BY <1>12, <2>1, OtherNames DEF Expires
  <1>13. QED
    BY <1>1, <1>2, <1>11, <1>12 DEF AnyNext, Calm

\* What a reservation of a name is: counted, made by a request in flight, of a name.
SessionInv ==
    /\ TunnelInv /\ SessionTypeOK /\ SessionAccounting
    /\ \A r \in Requests : sres[r] => call[r].session \in Names

\* A new pool has promised no name.
LEMMA SessionBlank == Blank /\ now \in Nat => SessionInv
  <1> SUFFICES ASSUME Blank, now \in Nat PROVE SessionInv
    OBVIOUS
  <1>1. SessionTypeOK
    BY DEF Blank, SessionTypeOK
  <1>2. \A n \in Names : {r \in Requests : sres[r] /\ call[r].session = n} = {}
    BY DEF Blank
  <1>3. SessionAccounting
    BY <1>2, FS_EmptySet DEF Blank, SessionAccounting
  <1>4. QED
    BY <1>1, <1>3, TunnelBlank DEF Blank, SessionInv

LEMMA SessionInit == Init => SessionInv
  BY InitBlank, SessionBlank

\* The accounting survives the three kinds of steps.
LEMMA NamesCounted ==
    ASSUME SessionInv, TypeInv', SessionTypeOK', NamesMove
    PROVE  /\ SessionAccounting'
           /\ \A r \in Requests : sres'[r] => call'[r].session \in Names
  <1> DEFINE Good == /\ \A n \in Names : pendingSessions'[n] = Cardinality(Owing(n)')
                     /\ \A r \in Requests : sres'[r] => /\ pc'[r] \in Reserving
                                                        /\ call'[r].session \in Names
  <1>1. /\ \A n \in Names : pendingSessions[n] = Cardinality(Owing(n))
        /\ \A r \in Requests : sres[r] => pc[r] \in Reserving /\ call[r].session \in Names
        /\ sres \in [Requests -> BOOLEAN] /\ pendingSessions \in [Names -> Nat]
        /\ sres' \in [Requests -> BOOLEAN] /\ pendingSessions' \in [Names -> Nat]
    BY DEF SessionInv, SessionAccounting, SessionTypeOK, Owing
  <1>2. CASE NamesStill
    <2>1. \A n \in Names : Owing(n)' = Owing(n)
      BY <1>1, <1>2 DEF NamesStill, Owing
    <2>2. Good
      BY <1>1, <1>2, <2>1 DEF NamesStill
    <2>3. QED
      BY <2>2 DEF SessionAccounting, Owing
  <1>3. ASSUME NEW r \in Requests, TakesName(r)
        PROVE  Good
    <2>1. ~sres[r] /\ pc[r] = "pick"
      BY <1>1, <1>3 DEF TakesName, Reserving, Opening
    <2>2. \A q \in Requests : sres'[q] => pc'[q] \in Reserving
      BY <1>1, <1>3 DEF TakesName
    <2>3. CASE UNCHANGED pendingSessions /\ sres' = [sres EXCEPT ![r] = FALSE]
      <3>1. \A n \in Names : Owing(n)' = Owing(n)
        BY <1>1, <1>3, <2>1, <2>3 DEF TakesName, Owing
      <3>2. QED
        BY <1>1, <1>3, <2>2, <2>3, <3>1 DEF TakesName
    <2>4. CASE /\ call[r].session \in Names
               /\ pendingSessions' = [pendingSessions EXCEPT ![call[r].session] = @ + 1]
               /\ sres' = [sres EXCEPT ![r] = TRUE]
      <3> DEFINE m == call[r].session
      <3>1. \A n \in Names \ {m} : Owing(n)' = Owing(n) /\ pendingSessions'[n] = pendingSessions[n]
        BY <1>1, <1>3, <2>1, <2>4 DEF TakesName, Owing
      <3>2. Owing(m)' = Owing(m) \cup {r} /\ r \notin Owing(m) /\ Owing(m) \subseteq Requests
        <4>1. UNCHANGED call
          BY <1>3 DEF TakesName
        <4>2. QED
          BY <1>1, <2>1, <2>4, <4>1 DEF Owing
      <3>3. pendingSessions'[m] = Cardinality(Owing(m)')
        BY <1>1, <2>4, <3>2, MovingRequests
      <3>4. QED
        BY <1>1, <1>3, <2>2, <2>4, <3>1, <3>3 DEF TakesName
    <2>5. QED
      BY <1>3, <2>3, <2>4 DEF TakesName
  <1>4. ASSUME NEW r \in Requests, SettlesName(r)
        PROVE  Good
    <2>1. /\ sres' = [sres EXCEPT ![r] = FALSE] /\ UNCHANGED call
          /\ \A q \in Requests \ {r} : pc'[q] = pc[q]
      BY <1>4 DEF SettlesName, ReleasePendingSession
    <2>2. \A q \in Requests : sres'[q] => pc'[q] \in Reserving /\ call'[q].session \in Names
      BY <1>1, <2>1
    <2>3. CASE ~sres[r]
      <3>1. UNCHANGED pendingSessions
        BY <1>4, <2>3 DEF SettlesName, ReleasePendingSession
      <3>2. \A n \in Names : Owing(n)' = Owing(n)
        BY <1>1, <2>1, <2>3 DEF Owing
      <3>3. QED
        BY <1>1, <2>2, <3>1, <3>2
    <2>4. CASE sres[r]
      <3> DEFINE m == call[r].session
      <3>1. m \in Names /\ pendingSessions' = [pendingSessions EXCEPT ![m] = Min0(@)]
        BY <1>1, <1>4, <2>4 DEF SettlesName, ReleasePendingSession
      <3>2. \A n \in Names \ {m} : Owing(n)' = Owing(n) /\ pendingSessions'[n] = pendingSessions[n]
        BY <1>1, <2>1, <2>4, <3>1 DEF Owing
      <3>3. Owing(m)' = Owing(m) \ {r} /\ r \in Owing(m) /\ Owing(m) \subseteq Requests
        BY <1>1, <2>1, <2>4 DEF Owing
      <3>4. Cardinality(Owing(m)') = Cardinality(Owing(m)) - 1 /\ Cardinality(Owing(m)') \in Nat
        <4>1. Owing(m)' \subseteq Requests
          BY <3>3
        <4>2. QED
          BY <3>3, <4>1, MovingRequests
      <3>5. pendingSessions'[m] = Cardinality(Owing(m)')
        BY <1>1, <2>1, <3>1, <3>4 DEF Min0
      <3>6. QED
        BY <1>1, <2>1, <2>2, <3>1, <3>2, <3>5
    <2>5. QED
      BY <2>3, <2>4
  <1>5. QED
    BY <1>2, <1>3, <1>4 DEF NamesMove, SessionAccounting, Owing

LEMMA SessionNext == SessionInv /\ [AnyNext]_vars => SessionInv'
  <1> SUFFICES ASSUME SessionInv, [AnyNext]_vars PROVE SessionInv'
    OBVIOUS
  <1>1. TunnelInv /\ TypeInv /\ now \in Nat
    BY DEF SessionInv, TunnelInv, LeaseInv, TunnelTypeOK
  <1>2. TunnelInv' /\ TypeInv'
    BY <1>1, TunnelNext DEF TunnelInv, LeaseInv
  <1>3. SessionTypeOK' /\ NamesMove
    BY <1>1, SessionKinds DEF SessionInv
  <1>4. QED
    BY <1>2, <1>3, NamesCounted DEF SessionInv

\* A name reserved for a session (pendingSessions) is owed by exactly the requests
\* between pick and commit that reserved it: reserveSessionLocked's promises all end in
\* commitAcquisitionLocked or rollbackAcquisitionLocked.
THEOREM NamesAccounted == Spec => []SessionAccounting
  <1>1. SessionInv => SessionAccounting
    BY DEF SessionInv
  <1>2. QED
    BY <1>1, SessionInit, SessionNext, NextIsAny, PTL DEF Spec

-----------------------------------------------------------------------------
(* Shutdown.  Only maybeCheckIP starts a measurement, and it looks at      *)
(* closing in the critical section that starts the goroutine.              *)

CheckersRest == /\ UNCHANGED closing
                /\ closing = "done" =>
                     \A p \in Checkers : pc[p] = "idle" => pc'[p] = "idle"

\* The measurements' goroutines are processes of their own.
LEMMA CheckersApart ==
    /\ Checkers \subseteq Procs /\ Checkers \cap Requests = {}
    /\ \A h \in Holders : Warmer(h) \notin Checkers
    /\ \A s \in Slots : Prober(s) \notin Checkers
    /\ Housekeeper \notin Checkers
  BY WorkersApart DEF Checkers, Checker, Warmer, Prober, Housekeeper

\* A process that moves on its own is no resting measurement.
LEMMA MoverRests ==
    ASSUME TypeInv, UNCHANGED closing, NEW p \in Procs, NEW label, Goto(p, label),
           pc[p] # "idle" \/ p \notin Checkers
    PROVE  CheckersRest
  BY CheckersApart DEF CheckersRest, Goto, TypeInv, ControlTypeOK

\* maybeCheckIP starts nothing once the pool is closing.
LEMMA MaybeCheckIPRests ==
    ASSUME TypeInv, UNCHANGED closing, NEW p \in Procs \ Checkers, NEW s, NEW label,
           MaybeCheckIP(p, s, label)
    PROVE  CheckersRest
  BY CheckersApart DEF CheckersRest, MaybeCheckIP, CheckDue

\* Requests are not measurements, whatever they do.
LEMMA RequestsRest ==
    ASSUME TypeInv, NEW r \in Requests, Acquirer(r) \/ Holder(r) \/ \E c \in Calls : Start(r, c)
    PROVE  CheckersRest
  <1>1. r \in Procs \ Checkers
    BY CheckersApart, WorkersApart
  <1>2. UNCHANGED closing
    BY DEF Acquirer, Holder, Start, PickNothing, PickSlot, CommitAcquisition, CheckLeasedIP,
       RollbackAcquisition, NoteAcquireFailure, DropSession, DialSucceeds, NoteDialFailure, Release
  <1>3. CASE CheckLeasedIP(r)
    BY <1>1, <1>2, <1>3, MaybeCheckIPRests DEF CheckLeasedIP
  <1>4. CASE DialSucceeds(r)
    BY <1>2, <1>4 DEF DialSucceeds, CheckersRest
  <1>5. CASE ~CheckLeasedIP(r) /\ ~DialSucceeds(r)
    <2>1. \E label : Goto(r, label)
      BY <1>5 DEF Acquirer, Holder, Start, PickNothing, PickSlot, CommitAcquisition,
         RollbackAcquisition, NoteAcquireFailure, DropSession, NoteDialFailure, Release, NextAttempt,
         Return
    <2>2. QED
      BY <1>1, <1>2, <2>1, MoverRests
  <1>6. QED
    BY <1>3, <1>4, <1>5

\* A process inside ensureDialer is at work already.
LEMMA OpenersRest ==
    ASSUME TypeInv, NEW p \in Procs, Opener(p)
    PROVE  CheckersRest
  <1>1. UNCHANGED closing /\ pc[p] # "idle" /\ \E label : Goto(p, label)
    BY DEF Opener, EnsureDialer, NextEntry, EnsureOpenUp, EnsureOpenWait, EnsureOpenReserve,
       EnsureOpenRefused, WakeUp, AbortOpen, AbortOpenDone, CommitTunnelOpen, OpenSucceeds,
       OpenFails, OpenFailed
  <1>2. QED
    BY <1>1, MoverRests

\* So is a measurement that goes on, and the other goroutines are no measurements.
LEMMA WorkersRest ==
    ASSUME TypeInv,
           \/ \E s \in Slots : IPCheck(s) \/ Probing(s)
           \/ \E h \in Holders : WarmupRuns(h) \/ WarmupDone(h)
           \/ Housekeep \/ RefreshIP
    PROVE  CheckersRest
  <1>1. ASSUME NEW s \in Slots, IPCheck(s)
        PROVE  CheckersRest
    <2>1. UNCHANGED closing /\ pc[Checker(s)] # "idle" /\ \E label : Goto(Checker(s), label)
      BY <1>1 DEF IPCheck, IPCheckAdmitted, IPCheckFails, IPMeasured, WorkerDone
    <2>2. QED
      BY <2>1, MoverRests, WorkersApart
  <1>2. ASSUME NEW s \in Slots, Probing(s)
        PROVE  CheckersRest
    <2>1. UNCHANGED closing /\ \E label : Goto(Prober(s), label)
      BY <1>2 DEF Probing, ProbeRuns, ProbeReserve, ProbeRefused, ProbeContacts, ProbeGoesOn,
         ProbeMeasures, ProbeReleases, ProbeFails, WorkerDone
    <2>2. QED
      BY <2>1, MoverRests, WorkersApart, CheckersApart
  <1>3. ASSUME NEW h \in Holders, WarmupRuns(h) \/ WarmupDone(h)
        PROVE  CheckersRest
    <2>1. /\ UNCHANGED closing
          /\ \/ \E label : Goto(Warmer(h), label)
             \/ MaybeCheckIP(Warmer(h), h, "idle")
      BY <1>3 DEF WarmupRuns, WarmupDone, WorkerDone
    <2>2. QED
      BY <2>1, MoverRests, MaybeCheckIPRests, WorkersApart, CheckersApart
  <1>4. CASE Housekeep \/ RefreshIP
    <2>1. /\ UNCHANGED closing
          /\ \/ \E label : Goto(Housekeeper, label)
             \/ \E s, label : MaybeCheckIP(Housekeeper, s, label)
      BY <1>4 DEF Housekeep, RefreshIP
    <2>2. QED
      BY <2>1, MoverRests, MaybeCheckIPRests, WorkersApart, CheckersApart
  <1>5. QED
    BY <1>1, <1>2, <1>3, <1>4

\* Once Close has returned, a step leaves the measurements at rest; Close itself
\* returns only when they are.
LEMMA QuietNext ==
    ASSUME TypeInv, ClosedIsQuiet, [AnyNext]_vars
    PROVE  ClosedIsQuiet'
  <1>1. CASE CloseReturns
    BY <1>1 DEF CloseReturns, ClosedIsQuiet
  <1>2. CASE Close
    BY <1>2 DEF Close, ClosedIsQuiet
  <1>3. CASE CheckersRest
    BY <1>3 DEF CheckersRest, ClosedIsQuiet
  <1>4. CASE UNCHANGED vars \/ Tick \/ DrainDone
    BY <1>4 DEF vars, Tick, DrainDone, ClosedIsQuiet
  <1>5. ASSUME NEW p, Cancel(p) \/ Rotate(p) \/ Report(p) \/ Prefer(p) \/ Expires
        PROVE  ClosedIsQuiet'
    BY <1>5 DEF Cancel, Rotate, Report, Prefer, Expires, ClosedIsQuiet
  <1>6. ASSUME NEW count, Warmup(count)
        PROVE  ClosedIsQuiet'
    <2>1. PICK T \in SUBSET Holders :
            /\ pc' = [p \in Procs |-> IF p \in {Warmer(h) : h \in T} THEN "warm" ELSE pc[p]]
            /\ hold' = [p \in Procs |-> IF p \in {Warmer(h) : h \in T} THEN p[2] ELSE hold[p]]
            /\ slot' = [p \in Procs |-> IF p \in {Warmer(h) : h \in T \cap Slots}
                                        THEN p[2] ELSE slot[p]]
      BY <1>6 DEF Warmup, WarmTargets, Holders
    <2>2. UNCHANGED closing
      BY <1>6 DEF Warmup
    <2>3. QED
      BY <2>1, <2>2, CheckersApart DEF ClosedIsQuiet
  <1>7. ASSUME NEW T \in ProbeTargets, Probe(T)
        PROVE  ClosedIsQuiet'
    <2>1. /\ pc' = [p \in Procs |-> IF p \in {Prober(s) : s \in T} THEN "probe" ELSE pc[p]]
          /\ T \subseteq Slots /\ UNCHANGED closing
      BY <1>7, InputAssumption DEF Probe
    <2>2. QED
      BY <2>1, CheckersApart DEF ClosedIsQuiet
  <1>8. CASE Serve
    BY <1>1, <1>2, <1>3, <1>4, <1>5, <1>6, <1>7, <1>8, RequestsRest, OpenersRest, WorkersRest
       DEF Serve, Working
  <1>9. QED
    BY <1>4, <1>5, <1>8 DEF AnyNext, Calm

\* After Close has returned no public-IP measurement runs and none is ever started:
\* maybeCheckIP and Close serialise on the pool's lock.
THEOREM CloseSilences == Spec => []ClosedIsQuiet
  <1>1. Init => ClosedIsQuiet
    BY DEF Init, ClosedIsQuiet
  <1>2. SessionInv => TypeInv
    BY DEF SessionInv, TunnelInv, LeaseInv
  <1>3. QED
    BY <1>1, <1>2, SessionInit, SessionNext, QuietNext, NextIsAny, PTL DEF Spec
=============================================================================
