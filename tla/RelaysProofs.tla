---------------------------- MODULE RelaysProofs ----------------------------
(***************************************************************************)
(* Relays come and go under the requests that use them, and catalogs under *)
(* the process that reads them, for any lists a provider may serve, any    *)
(* catalogs and any number of requests.                                    *)
(***************************************************************************)
EXTENDS Relays, FiniteSetTheorems, WellFoundedInduction, TLAPS

-----------------------------------------------------------------------------
(* Requests and slot objects.                                              *)

\* What the cache may hold: a list, or nothing usable.
CacheLists == (SUBSET (IDs \cup {BadID})) \cup {NoList}

RelayTypes ==
    /\ life \in {"down", "boot", "up"}
    /\ slots \in [IDs -> 0 .. MaxObjects] /\ made \in [IDs -> 0 .. MaxObjects]
    /\ load \in [Objects -> Nat]
    /\ at \in [Requests -> {"idle", "pending", "leased"}]
    /\ on \in [Requests -> Objects \cup {NoSlot}]
    /\ job \in {"idle", "reconcile", "save"}
    /\ cache \in CacheLists
    /\ gap \subseteq IDs

\* Only a process that is up serves and refreshes, and what it serves is worth it.
Serving ==
    /\ life # "up" => /\ slots = Empty /\ gap = {} /\ job = "idle"
                      /\ \A r \in Requests : at[r] = "idle"
    /\ KeepsServing
    /\ job # "idle" => fetched \subseteq IDs \cup {BadID}
    /\ job = "save" => ~Refused(fetched)

\* Who holds an object: requests at work, as many as it counts and may carry, and of
\* a relay that was never taken off the list only the object that is listed.
Held ==
    /\ \A r \in Requests : at[r] = "idle" <=> on[r] = NoSlot
    /\ LoadsMatch
    /\ \A o \in Objects : load[o] <= PerExit
    /\ \A r \in Requests : \A id \in IDs \ gap : on[r][1] = id => on[r] = Obj(id)

RelaysInv == RelayTypes /\ Serving /\ Held

LEMMA ObjectShapes ==
    /\ \A o \in Objects : o[1] \in IDs /\ o[2] \in 1 .. MaxObjects /\ o = <<o[1], o[2]>> /\ o # NoSlot
    /\ NoSlot[1] = NoID /\ NoID \notin IDs /\ NoSlot \notin Objects
    /\ \A id \in IDs, n \in 1 .. MaxObjects : <<id, n>> \in Objects
  BY RelayAssumption DEF Objects, NoSlot

\* A request that comes to hold o, or lets go of it, changes o's count by one.
LEMMA HoldersCount ==
    ASSUME on \in [Requests -> Objects \cup {NoSlot}], LoadsMatch, load \in [Objects -> Nat],
           NEW r \in Requests, NEW o \in Objects,
           \/ /\ on[r] = NoSlot
              /\ on' = [on EXCEPT ![r] = o] /\ load' = [load EXCEPT ![o] = @ + 1]
           \/ /\ on[r] = o
              /\ on' = [on EXCEPT ![r] = NoSlot] /\ load' = [load EXCEPT ![o] = @ - 1]
    PROVE  LoadsMatch' /\ load' \in [Objects -> Nat] /\ on' \in [Requests -> Objects \cup {NoSlot}]
           /\ (on[r] = o => load[o] > 0)
  <1> DEFINE On(x) == {q \in Requests : on[q] = x}
             After(x) == {q \in Requests : on'[q] = x}
  <1>1. \A x : IsFiniteSet(On(x)) /\ IsFiniteSet(After(x))
    BY RelayAssumption, FS_Subset
  <1>2. \A x \in Objects : load[x] = Cardinality(On(x)) /\ Cardinality(On(x)) \in Nat
    BY <1>1, FS_CardinalityType DEF LoadsMatch
  <1>3. \A x \in Objects \ {o} : After(x) = On(x)
    BY ObjectShapes
  <1>4. CASE on[r] = NoSlot
    <2>1. on' = [on EXCEPT ![r] = o] /\ load' = [load EXCEPT ![o] = @ + 1]
      BY <1>4, ObjectShapes
    <2>2. After(o) = On(o) \cup {r} /\ r \notin On(o)
      BY <1>4, <2>1, ObjectShapes
    <2>3. Cardinality(After(o)) = Cardinality(On(o)) + 1
      <3> HIDE DEF On, After
      <3>1. IsFiniteSet(On(o))
        BY <1>1
      <3>2. Cardinality(On(o) \cup {r}) = Cardinality(On(o)) + 1
        BY <3>1, <2>2, FS_AddElement
      <3>3. QED
        BY <3>2, <2>2
    <2>4. \A x \in Objects : load'[x] = Cardinality(After(x)) /\ load'[x] \in Nat
      BY <1>2, <1>3, <2>1, <2>3
    <2>5. QED
      BY <1>4, <2>1, <2>4, ObjectShapes DEF LoadsMatch
  <1>5. CASE on[r] = o
    <2>1. on' = [on EXCEPT ![r] = NoSlot] /\ load' = [load EXCEPT ![o] = @ - 1]
      BY <1>5, ObjectShapes
    <2>2. After(o) = On(o) \ {r} /\ r \in On(o)
      BY <1>5, <2>1, ObjectShapes
    <2>3. Cardinality(After(o)) = Cardinality(On(o)) - 1
      <3> HIDE DEF On, After
      <3>1. IsFiniteSet(On(o))
        BY <1>1
      <3>2. Cardinality(On(o) \ {r}) = Cardinality(On(o)) - 1
        BY <3>1, <2>2, FS_RemoveElement
      <3>3. QED
        BY <3>2, <2>2
    <2>4. Cardinality(After(o)) \in Nat
      BY <1>1, FS_CardinalityType
    <2>5. \A x \in Objects : load'[x] = Cardinality(After(x)) /\ load'[x] \in Nat
      BY <1>2, <1>3, <2>1, <2>3, <2>4
    <2>6. load[o] > 0
      BY <1>2, <2>3, <2>4
    <2>7. QED
      BY <2>1, <2>5, <2>6 DEF LoadsMatch
  <1>6. QED
    BY <1>4, <1>5

LEMMA RelaysInitial == RelaysInit => RelaysInv
  <1> SUFFICES ASSUME RelaysInit PROVE RelaysInv
    OBVIOUS
  <1>1. RelayTypes
    BY RelayAssumption DEF RelaysInit, RelayTypes, CacheLists, Empty
  <1>2. Serving
    BY DEF RelaysInit, Serving, KeepsServing
  <1>3. \A o \in Objects : {r \in Requests : on[r] = o} = {}
    BY ObjectShapes DEF RelaysInit
  <1>4. LoadsMatch
    BY <1>3, FS_EmptySet DEF RelaysInit, LoadsMatch
  <1>5. Held
    BY <1>4, ObjectShapes, RelayAssumption DEF RelaysInit, Held
  <1>6. QED
    BY <1>1, <1>2, <1>5 DEF RelaysInv

\* A step that leaves the pool alone, and the process as it was.
LEMMA PoolStays ==
    ASSUME RelaysInv, UNCHANGED <<life, poolVars>>,
           job' = "idle" \/ UNCHANGED jobVars, cache' \in CacheLists
    PROVE  RelaysInv'
  <1> USE DEF poolVars, jobVars
  <1>1. RelayTypes'
    BY DEF RelaysInv, RelayTypes
  <1>2. Serving'
    BY DEF RelaysInv, Serving, KeepsServing, Refused, WorthIt
  <1>3. Held'
    BY DEF RelaysInv, Held, LoadsMatch, Obj
  <1>4. QED
    BY <1>1, <1>2, <1>3 DEF RelaysInv

LEMMA Picked ==
    ASSUME RelaysInv, NEW r \in Requests, NEW session \in BOOLEAN, Pick(r, session)
    PROVE  RelaysInv'
  <1> USE DEF jobVars, cacheVars
  <1>1. PICK id \in Usable : /\ on' = [on EXCEPT ![r] = Obj(id)]
                             /\ load' = [load EXCEPT ![Obj(id)] = @ + 1]
    BY DEF Pick
  <1> DEFINE o == Obj(id)
  <1>2. o \in Objects /\ load[o] < PerExit /\ id \in IDs /\ o[1] = id
    BY <1>1, ObjectShapes DEF Usable, Obj, RelaysInv, RelayTypes
  <1>3. on[r] = NoSlot /\ at[r] = "idle"
    BY DEF Pick, RelaysInv, Held
  <1>4. LoadsMatch' /\ load' \in [Objects -> Nat] /\ on' \in [Requests -> Objects \cup {NoSlot}]
    <2>1. on \in [Requests -> Objects \cup {NoSlot}] /\ LoadsMatch /\ load \in [Objects -> Nat]
      BY DEF RelaysInv, RelayTypes, Held
    <2> QED
      BY <1>1, <1>2, <1>3, <2>1, HoldersCount
  <1>5. RelayTypes'
    BY <1>4 DEF RelaysInv, RelayTypes, Pick
  <1>6. Serving'
    BY DEF RelaysInv, Serving, KeepsServing, Refused, WorthIt, Pick
  <1>7. Held'
    <2>1. \A q \in Requests : at'[q] = "idle" <=> on'[q] = NoSlot
      BY <1>1, <1>2, ObjectShapes DEF RelaysInv, RelayTypes, Held, Pick
    <2>2. \A x \in Objects : load'[x] <= PerExit
      BY <1>1, <1>2, RelayAssumption DEF RelaysInv, RelayTypes, Held
    <2>3. \A q \in Requests : \A i \in IDs \ gap : on'[q][1] = i => on'[q] = Obj(i)
      BY <1>1, <1>2 DEF RelaysInv, RelayTypes, Held
    <2>4. QED
      BY <1>4, <2>1, <2>2, <2>3 DEF Held, Pick, Obj
  <1>8. QED
    BY <1>5, <1>6, <1>7 DEF RelaysInv

LEMMA GivenBack ==
    ASSUME RelaysInv, NEW r \in Requests, GiveBack(r)
    PROVE  RelaysInv'
  <1> USE DEF jobVars, cacheVars
  <1> DEFINE o == on[r]
  <1>1. o \in Objects
    BY DEF GiveBack, RelaysInv, RelayTypes, Held
  <1>2. on' = [on EXCEPT ![r] = NoSlot] /\ load' = [load EXCEPT ![o] = @ - 1]
    BY DEF GiveBack, LetGo
  <1>3. LoadsMatch' /\ load' \in [Objects -> Nat] /\ on' \in [Requests -> Objects \cup {NoSlot}]
    <2>1. on \in [Requests -> Objects \cup {NoSlot}] /\ LoadsMatch /\ load \in [Objects -> Nat]
      BY DEF RelaysInv, RelayTypes, Held
    <2> QED
      BY <1>1, <1>2, <2>1, HoldersCount
  <1>4. RelayTypes'
    BY <1>3 DEF RelaysInv, RelayTypes, GiveBack
  <1>5. Serving'
    BY DEF RelaysInv, Serving, KeepsServing, Refused, WorthIt, GiveBack
  <1>6. Held'
    <2>1. \A q \in Requests : at'[q] = "idle" <=> on'[q] = NoSlot
      BY <1>2 DEF RelaysInv, RelayTypes, Held, GiveBack
    <2>2. \A x \in Objects : load'[x] <= PerExit
      BY <1>1, <1>2, RelayAssumption DEF RelaysInv, RelayTypes, Held
    <2>3. \A q \in Requests : \A i \in IDs \ gap : on'[q][1] = i => on'[q] = Obj(i)
      BY <1>2, ObjectShapes DEF RelaysInv, RelayTypes, Held
    <2>4. QED
      BY <1>3, <2>1, <2>2, <2>3 DEF Held, GiveBack, Obj
  <1>7. QED
    BY <1>4, <1>5, <1>6 DEF RelaysInv

LEMMA Committed ==
    ASSUME RelaysInv, NEW r \in Requests, Commit(r)
    PROVE  RelaysInv'
  <1> USE DEF jobVars, cacheVars
  <1>1. RelayTypes'
    BY DEF RelaysInv, RelayTypes, Commit
  <1>2. Serving'
    BY DEF RelaysInv, Serving, KeepsServing, Refused, WorthIt, Commit
  <1>3. Held'
    BY DEF RelaysInv, RelayTypes, Held, LoadsMatch, Obj, Commit
  <1>4. QED
    BY <1>1, <1>2, <1>3 DEF RelaysInv
LEMMA Reconciled ==
    ASSUME RelaysInv, Reconcile
    PROVE  RelaysInv'
  <1> USE DEF cacheVars
  <1> DEFINE add     == {id \in fetched : ~Kept(id)}
             dropped == {id \in Relay \ fetched : slots[id] # 0}
  <1>1. /\ job = "reconcile" /\ ~Refused(fetched) /\ fetched \subseteq IDs \cup {BadID}
        /\ life = "up"
        /\ \A id \in add : made[id] < MaxObjects
        /\ made' = [id \in IDs |-> IF id \in add THEN made[id] + 1 ELSE made[id]]
        /\ slots' = [id \in IDs |-> CASE id \in add -> made[id] + 1
                                     [] id \in dropped -> 0
                                     [] OTHER -> slots[id]]
        /\ gap' = gap \cup dropped /\ job' = "save"
        /\ UNCHANGED <<load, at, on, fetched, life, cache>>
    BY DEF Reconcile, RelaysInv, Serving
  <1>2. \A id \in IDs : /\ made[id] \in 0 .. MaxObjects /\ slots[id] \in 0 .. MaxObjects
                        /\ id \in add => made[id] + 1 \in 1 .. MaxObjects /\ slots[id] = 0
    BY <1>1, RelayAssumption DEF RelaysInv, RelayTypes, Kept
  <1>3. \A id \in IDs : slots'[id] = IF id \in add THEN made[id] + 1
                                     ELSE IF id \in dropped THEN 0 ELSE slots[id]
    BY <1>1
  <1>4. add \cap dropped = {} /\ dropped \subseteq Relay
    OBVIOUS
  <1>5. RelayTypes'
    <2>1. slots' \in [IDs -> 0 .. MaxObjects]
      <3>1. \A id \in IDs : slots'[id] \in 0 .. MaxObjects
        BY <1>2, <1>3, RelayAssumption
      <3>2. QED
        BY <3>1, <1>1
    <2>2. made' \in [IDs -> 0 .. MaxObjects]
      BY <1>1, <1>2
    <2>3. gap' \subseteq IDs
      BY <1>1 DEF RelaysInv, RelayTypes, IDs
    <2>4. QED
      BY <1>1, <2>1, <2>2, <2>3 DEF RelaysInv, RelayTypes
  <1>6. Serving'
    <2>1. \E id \in Relay : slots'[id] # 0
      <3>1. PICK id \in fetched : id \in Relay /\ id \in IDs
        BY <1>1 DEF Refused, WorthIt, IDs
      <3>2. slots'[id] # 0
        BY <3>1, <1>1, <1>2, <1>3 DEF Kept
      <3>3. QED
        BY <3>1, <3>2
    <2>2. \A id \in Direct : slots'[id] = 1
      <3>1. \A id \in Direct : id \in IDs /\ id \notin fetched /\ id \notin Relay /\ slots[id] = 1
        BY <1>1, RelayAssumption DEF IDs, Refused, RelaysInv, Serving, KeepsServing
      <3>2. QED
        BY <3>1, <1>3
    <2>3. QED
      BY <1>1, <2>1, <2>2 DEF Serving, KeepsServing, Refused, WorthIt
  <1>7. Held'
    <2>1. ASSUME NEW r \in Requests, NEW id \in IDs \ gap', on'[r][1] = id
          PROVE  on'[r] = Obj(id)'
      <3>1. id \in IDs \ gap /\ on[r] = Obj(id) /\ on'[r] = on[r] /\ id \notin dropped
        BY <1>1, <2>1 DEF RelaysInv, Held
      <3>2. on[r] \in Objects
        BY <2>1, <1>1, ObjectShapes DEF RelaysInv, RelayTypes
      <3>3. slots[id] # 0
        BY <3>1, <3>2, ObjectShapes DEF Obj, Objects
      <3>4. slots'[id] = slots[id]
        BY <3>1, <3>3, <1>2, <1>3
      <3>5. QED
        BY <3>1, <3>4 DEF Obj
    <2>2. QED
      BY <1>1, <2>1 DEF RelaysInv, Held, LoadsMatch
  <1>8. QED
    BY <1>5, <1>6, <1>7 DEF RelaysInv

\* What serve makes of a list when it starts.
LEMMA Started ==
    ASSUME RelaysInv, life = "boot", NEW list \in SUBSET (IDs \cup {BadID}), Start(list),
           UNCHANGED <<load, at, on, named, gap, job>>, cache' \in CacheLists
    PROVE  RelaysInv'
  <1>1. \A r \in Requests : on[r] = NoSlot /\ on'[r] = NoSlot
    BY DEF RelaysInv, Serving, Held
  <1>2. Held'
    BY <1>1, ObjectShapes DEF RelaysInv, Serving, Held, LoadsMatch
  <1>3. CASE Refused(list)
    <2>1. life' = "down" /\ UNCHANGED <<slots, made>>
      BY <1>3 DEF Start
    <2>2. RelayTypes' /\ Serving'
      BY <2>1 DEF RelaysInv, RelayTypes, Serving, KeepsServing
    <2>3. QED
      BY <1>2, <2>2 DEF RelaysInv
  <1>4. CASE ~Refused(list)
    <2>1. /\ life' = "up" /\ made' = slots'
          /\ slots' = [id \in IDs |-> IF id \in list \cup Direct THEN 1 ELSE 0]
      BY <1>4 DEF Start
    <2>2. slots' \in [IDs -> 0 .. MaxObjects]
      BY <2>1, RelayAssumption
    <2>3. RelayTypes'
      BY <2>1, <2>2 DEF RelaysInv, RelayTypes
    <2>4. \E id \in list : id \in Relay /\ id \in IDs
      BY <1>4 DEF Refused, WorthIt, IDs
    <2>5. KeepsServing'
      BY <2>1, <2>4 DEF KeepsServing, IDs
    <2>6. job' = "idle"
      BY DEF RelaysInv, Serving
    <2>7. Serving'
      BY <2>1, <2>5, <2>6 DEF Serving
    <2>8. QED
      BY <1>2, <2>3, <2>7 DEF RelaysInv
  <1>5. QED
    BY <1>3, <1>4

LEMMA Booted == RelaysInv /\ LoadOrFetch => RelaysInv'
  <1> SUFFICES ASSUME RelaysInv, LoadOrFetch PROVE RelaysInv'
    OBVIOUS
  <1> USE DEF jobVars, cacheVars
  <1>1. life = "boot" /\ UNCHANGED <<load, at, on, named, gap, job>>
    BY DEF LoadOrFetch
  <1>2. cache \in CacheLists
    BY DEF RelaysInv, RelayTypes
  <1>3. CASE cache # NoList /\ Start(cache) /\ UNCHANGED cacheVars
    <2>1. cache \in SUBSET (IDs \cup {BadID}) /\ cache' \in CacheLists
      BY <1>2, <1>3 DEF CacheLists
    <2>2. QED
      BY <1>1, <1>3, <2>1, Started
  <1>4. ASSUME NEW list \in Lists, Start(list),
               (cache' = list /\ fresh' = TRUE) \/ UNCHANGED cacheVars
        PROVE  RelaysInv'
    <2>1. list \in SUBSET (IDs \cup {BadID})
      BY RelayAssumption
    <2>2. cache' \in CacheLists
      BY <1>2, <1>4, <2>1 DEF CacheLists
    <2>3. QED
      BY <1>1, <1>4, <2>1, <2>2, Started
  <1>5. CASE cache = NoList /\ life' = "down" /\ UNCHANGED <<entries, slots, made, cacheVars>>
    <2>1. \A r \in Requests : on[r] = NoSlot /\ on'[r] = NoSlot
      BY <1>1 DEF RelaysInv, Serving, Held
    <2>2. Held'
      BY <1>1, <1>5, <2>1, ObjectShapes DEF RelaysInv, Serving, Held, LoadsMatch
    <2>3. RelayTypes' /\ Serving'
      BY <1>1, <1>5 DEF RelaysInv, RelayTypes, Serving, KeepsServing
    <2>4. QED
      BY <2>2, <2>3 DEF RelaysInv
  <1>6. QED
    BY <1>3, <1>4, <1>5 DEF LoadOrFetch

LEMMA Crashed == RelaysInv /\ Crash => RelaysInv'
  <1> SUFFICES ASSUME RelaysInv, Crash PROVE RelaysInv'
    OBVIOUS
  <1>1. RelayTypes'
    BY RelayAssumption DEF Crash, cacheVars, RelaysInv, RelayTypes, Empty
  <1>2. Serving'
    BY DEF Crash, Serving, KeepsServing
  <1>3. \A o \in Objects : {r \in Requests : on'[r] = o} = {}
    BY ObjectShapes DEF Crash
  <1>4. LoadsMatch'
    BY <1>3, FS_EmptySet DEF Crash, LoadsMatch
  <1>5. Held'
    BY <1>4, ObjectShapes, RelayAssumption DEF Crash, Held
  <1>6. QED
    BY <1>1, <1>2, <1>5 DEF RelaysInv

LEMMA RelaysStep == RelaysInv /\ [RelaysNext]_fvars => RelaysInv'
  <1> SUFFICES ASSUME RelaysInv, [RelaysNext]_fvars PROVE RelaysInv'
    OBVIOUS
  <1>1. cache \in CacheLists
    BY DEF RelaysInv, RelayTypes
  <1>2. CASE UNCHANGED fvars \/ (CatalogNext /\ UNCHANGED relayVars) \/ BootReads \/ CacheAges
    <2>1. UNCHANGED <<life, poolVars, jobVars, cache>>
      BY <1>2 DEF fvars, relayVars, cacheVars, BootReads, CacheAges
    <2>2. QED
      BY <1>1, <2>1, PoolStays
  <1>3. CASE \E r \in Requests : \/ \E session \in BOOLEAN : Pick(r, session)
                                 \/ Commit(r)
                                 \/ GiveBack(r)
    BY <1>3, Picked, Committed, GivenBack
  <1>4. CASE PickNothing
    <2>1. UNCHANGED <<life, slots, made, load, at, on, gap, jobVars, cache>>
      BY <1>4 DEF PickNothing, cacheVars
    <2>2. RelayTypes' /\ Serving' /\ Held'
      BY <2>1 DEF RelaysInv, RelayTypes, Serving, KeepsServing, Held, LoadsMatch, Obj, jobVars,
                  Refused, WorthIt
    <2>3. QED
      BY <2>2 DEF RelaysInv
  <1>5. ASSUME NEW list \in Lists, RefreshFetches(list)
        PROVE  RelaysInv'
    <2>1. list \subseteq IDs \cup {BadID}
      BY RelayAssumption
    <2>2. /\ life = "up" /\ job' = "reconcile" /\ fetched' = list
          /\ UNCHANGED <<life, poolVars, cache>>
      BY <1>5 DEF RefreshFetches, cacheVars
    <2>3. RelayTypes' /\ Serving' /\ Held'
      BY <2>1, <2>2 DEF RelaysInv, RelayTypes, Serving, KeepsServing, Held, LoadsMatch, Obj, poolVars
    <2>4. QED
      BY <2>3 DEF RelaysInv
  <1>6. ASSUME NEW list \in Lists, RelaysCommand(list)
        PROVE  RelaysInv'
    <2>1. cache' \in CacheLists /\ UNCHANGED <<life, poolVars, jobVars>>
      BY <1>6, RelayAssumption DEF RelaysCommand, CacheLists
    <2>2. QED
      BY <2>1, PoolStays
  <1>7. CASE ReconcileFails \/ RefreshSaves
    <2>1. UNCHANGED <<life, poolVars>> /\ job' = "idle"
      BY <1>7 DEF ReconcileFails, RefreshSaves
    <2>2. cache' \in CacheLists
      BY <1>1, <1>7 DEF ReconcileFails, RefreshSaves, cacheVars, RelaysInv, Serving, RelayTypes, CacheLists
    <2>3. QED
      BY <2>1, <2>2, PoolStays
  <1>8. CASE Boot \/ BootFails
    <2>1. /\ UNCHANGED <<poolVars, jobVars, cache>> /\ life # "up" /\ life' # "up"
          /\ life' \in {"down", "boot", "up"}
      BY <1>8 DEF Boot, BootFails, cacheVars
    <2>2. RelayTypes' /\ Serving' /\ Held'
      BY <2>1 DEF RelaysInv, RelayTypes, Serving, KeepsServing, Held, LoadsMatch, Obj, jobVars, poolVars
    <2>3. QED
      BY <2>2 DEF RelaysInv
  <1>9. QED
    BY <1>2, <1>3, <1>4, <1>5, <1>6, <1>7, <1>8, Reconciled, Booted, Crashed DEF RelaysNext

LEMMA RelaysAlways == RelaysSpec => []RelaysInv
  BY RelaysInitial, RelaysStep, PTL DEF RelaysSpec

\* What no reconciliation may lose: a slot object counts exactly the requests that hold
\* it (Release decrements the object it was given, pool.go), whatever has become of the
\* relay in the meantime.
THEOREM LoadsAgree == RelaysSpec => []LoadsMatch
  <1>1. RelaysInv => LoadsMatch
    BY DEF RelaysInv, Held
  <1>2. QED
    BY <1>1, RelaysAlways, PTL

\* ReconcileRelaySlots keeps the object of a relay that stays listed, so MaxConnsPerExit
\* holds for the relay and not only for each object made for it.
THEOREM ListedRelaysCapped == RelaysSpec => []ListedCap
  <1>1. ASSUME RelaysInv PROVE ListedCap
    <2> SUFFICES ASSUME NEW id \in IDs \ gap
                 PROVE  Cardinality({r \in Requests : on[r][1] = id}) <= PerExit
      BY DEF ListedCap
    <2> DEFINE H == {r \in Requests : on[r][1] = id}
    <2>1. H \subseteq {r \in Requests : on[r] = Obj(id)}
      BY <1>1 DEF RelaysInv, Held
    <2>2. {r \in Requests : on[r] = Obj(id)} \subseteq H
      BY DEF Obj
    <2>3. CASE H = {}
      <3>1. Cardinality({}) = 0 /\ 0 <= PerExit
        BY FS_EmptySet, RelayAssumption
      <3>2. QED
        BY <2>3, <3>1
    <2>4. CASE H # {}
      <3>1. PICK r \in Requests : on[r][1] = id /\ on[r] = Obj(id)
        BY <2>1, <2>4
      <3>2. Obj(id) \in Objects
        BY <1>1, <3>1, ObjectShapes DEF RelaysInv, RelayTypes
      <3>3. Cardinality(H) = load[Obj(id)]
        BY <1>1, <2>1, <2>2, <3>2 DEF RelaysInv, Held, LoadsMatch
      <3>4. QED
        BY <1>1, <3>2, <3>3 DEF RelaysInv, Held
    <2>5. QED
      BY <2>3, <2>4
  <1>2. QED
    BY <1>1, RelaysAlways, PTL

\* Neither the start nor a refresh leaves the pool without relays or replaces a slot of
\* another kind, whatever list is served.
THEOREM AlwaysServing == RelaysSpec => []KeepsServing
  <1>1. RelaysInv => KeepsServing
    BY DEF RelaysInv, Serving
  <1>2. QED
    BY <1>1, RelaysAlways, PTL

\* The refresher saves a list only after the pool has taken it.
THEOREM CacheStaysUsable == RelaysSpec => CacheServes
  <1> DEFINE Served == job = "save" /\ job' = "idle" /\ cache' # cache =>
                         cache' # {} /\ cache' \subseteq Relay
  <1>1. ASSUME RelaysInv, RelaysNext, job = "save", job' = "idle", cache' # cache
        PROVE  cache' # {} /\ cache' \subseteq Relay
    <2>1. RefreshSaves
      <3>1. ~Boot /\ ~BootFails /\ ~LoadOrFetch
        BY <1>1 DEF Boot, BootFails, LoadOrFetch, RelaysInv, Serving
      <3>2. ~(CatalogNext /\ UNCHANGED relayVars) /\ ~PickNothing /\ ~BootReads /\ ~Crash
        BY <1>1 DEF relayVars, cacheVars, PickNothing, BootReads, Crash
      <3>3. \A r \in Requests : /\ \A session \in BOOLEAN : ~Pick(r, session)
                               /\ ~Commit(r) /\ ~GiveBack(r)
        BY <1>1 DEF cacheVars, Pick, Commit, GiveBack
      <3>4. \A list \in Lists : ~RefreshFetches(list) /\ ~RelaysCommand(list)
        BY <1>1 DEF cacheVars, jobVars, RefreshFetches, RelaysCommand
      <3>5. ~ReconcileFails /\ ~Reconcile /\ ~CacheAges
        BY <1>1 DEF cacheVars, jobVars, ReconcileFails, Reconcile, CacheAges
      <3>6. QED
        BY <1>1, <3>1, <3>2, <3>3, <3>4, <3>5 DEF RelaysNext
    <2>2. cache' = fetched /\ ~Refused(fetched)
      BY <1>1, <2>1 DEF RefreshSaves, cacheVars, RelaysInv, Serving
    <2>3. fetched \subseteq IDs \cup {BadID}
      BY <1>1 DEF RelaysInv, Serving
    <2>4. QED
      BY <2>2, <2>3 DEF Refused, WorthIt, IDs
  <1>2. RelaysInv /\ [RelaysNext]_fvars => [Served]_fvars
    BY <1>1
  <1>3. QED
    BY <1>2, RelaysAlways, PTL DEF RelaysSpec, CacheServes
-----------------------------------------------------------------------------
(* Slot objects are an allocator's exits.                                  *)

\* Both modules take Cardinality from FiniteSets.
LEMMA SameCount == \A S : Alloc!Cardinality(S) = Cardinality(S)
  BY DEF Cardinality, Alloc!Cardinality, IsFiniteSet, Alloc!IsFiniteSet

\* An object's claims are the requests that hold it, so room in its counters is room.
LEMMA RoomIsRoom ==
    ASSUME RelaysInv, NEW o \in Objects, load[o] < PerExit
    PROVE  Alloc!Room(o)
  <1>1. Alloc!Claims(o) = {r \in Requests : on[r] = o}
    BY ObjectShapes DEF Alloc!Claims, claimBar, RelaysInv, RelayTypes, Held
  <1>2. Cardinality(Alloc!Claims(o)) = load[o]
    BY <1>1 DEF RelaysInv, Held, LoadsMatch
  <1>3. Alloc!Cardinality(Alloc!Claims(o)) < PerExit
    BY <1>2, SameCount, Zenon
  <1>4. QED
    BY <1>3 DEF Alloc!Room

LEMMA PickReserves ==
    ASSUME RelaysInv, NEW r \in Requests, NEW session \in BOOLEAN, Pick(r, session)
    PROVE  \E o \in Objects : Alloc!Reserve(r, o)
  <1>1. PICK id \in Usable : on' = [on EXCEPT ![r] = Obj(id)]
    BY DEF Pick
  <1>2. Obj(id) \in Objects /\ load[Obj(id)] < PerExit
    BY <1>1, ObjectShapes DEF Usable, Obj, RelaysInv, RelayTypes
  <1>3. Alloc!Room(Obj(id))
    BY <1>2, RoomIsRoom
  <1>4. claimBar[r] = "free" /\ claimBar' = [claimBar EXCEPT ![r] = "pending"]
    BY DEF Pick, claimBar, RelaysInv, RelayTypes
  <1>5. QED
    BY <1>1, <1>2, <1>3, <1>4 DEF Alloc!Reserve

LEMMA CommitCommits ==
    ASSUME RelaysInv, NEW r \in Requests, Commit(r)
    PROVE  Alloc!Commit(r)
  <1>1. claimBar[r] = "pending" /\ claimBar' = [claimBar EXCEPT ![r] = "leased"]
    BY DEF Commit, claimBar, RelaysInv, RelayTypes
  <1>2. QED
    BY <1>1 DEF Commit, Alloc!Commit

LEMMA GiveBackFrees ==
    ASSUME RelaysInv, NEW r \in Requests, GiveBack(r)
    PROVE  Alloc!GiveUp(r) \/ Alloc!Release(r)
  <1>1. /\ claimBar[r] \in {"pending", "leased"}
        /\ claimBar' = [claimBar EXCEPT ![r] = "free"]
    BY DEF GiveBack, claimBar, RelaysInv, RelayTypes
  <1>2. QED
    BY <1>1 DEF GiveBack, Alloc!GiveUp, Alloc!Release, Alloc!Free

\* Whatever a refresh does to the relays under them, callers see the allocator of module
\* LeaseAllocator as long as the process lives: ReconcileRelaySlots replaces the map of
\* the slots, and neither Acquire nor Release goes by that map for what is already held.
THEOREM RelaysAllocate == RelaysSpec => Alloc!AllocInit /\ ObjectsAllocate
  <1>1. RelaysInit => Alloc!AllocInit
    BY DEF RelaysInit, Alloc!AllocInit, claimBar
  <1>2. ASSUME RelaysInv, [RelaysNext]_fvars, life = "up", life' = "up"
        PROVE  [Alloc!AllocNext]_<<claimBar, on>>
    <2>1. CASE \E r \in Requests : \/ \E session \in BOOLEAN : Pick(r, session)
                                   \/ Commit(r)
                                   \/ GiveBack(r)
      BY <1>2, <2>1, PickReserves, CommitCommits, GiveBackFrees DEF Alloc!AllocNext
    <2>2. CASE UNCHANGED <<at, on>>
      BY <2>2 DEF claimBar
    <2>3. CASE Boot \/ BootFails \/ LoadOrFetch \/ Crash
      BY <1>2, <2>3 DEF Boot, BootFails, LoadOrFetch, Crash
    <2>4. UNCHANGED fvars \/ (CatalogNext /\ UNCHANGED relayVars) \/ PickNothing \/ BootReads
            \/ (\E list \in Lists : RefreshFetches(list) \/ RelaysCommand(list))
            \/ ReconcileFails \/ Reconcile \/ RefreshSaves \/ CacheAges => UNCHANGED <<at, on>>
      BY DEF fvars, relayVars, poolVars, PickNothing, BootReads, RefreshFetches, RelaysCommand,
         ReconcileFails, Reconcile, RefreshSaves, CacheAges
    <2>5. QED
      BY <1>2, <2>1, <2>2, <2>3, <2>4 DEF RelaysNext
  <1>3. RelaysInv /\ [RelaysNext]_fvars
          => [life = "up" /\ life' = "up" => [Alloc!AllocNext]_<<claimBar, on>>]_fvars
    BY <1>2
  <1>4. QED
    BY <1>1, <1>3, RelaysAlways, PTL DEF RelaysSpec, ObjectsAllocate

-----------------------------------------------------------------------------
(* The catalog directory.                                                  *)

Catalogs == [files : SUBSET Files, manifest : Offered \cup {NoManifest}, version : Nat]

DirTypes ==
    /\ dir \in Catalogs \cup {NoDir} /\ backup \in Catalogs \cup {NoDir}
    /\ writer \in {"staged", "moved"} => stage \in Catalogs
    /\ version \in Nat
    /\ listed \subseteq Files /\ bundle \subseteq Files /\ IsFiniteSet(bundle)

\* From its look at the directory on, the command may drop a directory that holds a
\* foreign file only when that file came later.
Dropped(d) == d # NoDir => d.files \cap Foreign \subseteq late
DirKept ==
    /\ CatalogSurvives
    /\ writer = "cleanup" => live = dir
    /\ writer = "staged" => Dropped(dir)
    /\ writer \in {"moved", "cleanup"} => Dropped(backup)

DirInv == DirTypes /\ DirKept

LEMMA FilesPlaced ==
    /\ \A S \in Offered : S \subseteq Files /\ S \cap Foreign = {}
    /\ \A f \in Files : Place[f] \in Nat
    /\ \A f, g \in Files : Place[f] = Place[g] => f = g
    /\ EntriesAuto \in Nat /\ Foreign \subseteq Files
  <1>1. \A S \in Offered : S \subseteq Files /\ S \cap Foreign = {}
    BY CatalogAssumption DEF Files
  <1>2. (\A f \in Files : Place[f] \in Nat) /\ EntriesAuto \in Nat
    BY CatalogAssumption
  <1>3. \A f, g \in Files : Place[f] = Place[g] => f = g
    BY CatalogAssumption, Zenon
  <1>4. QED
    BY <1>1, <1>2, <1>3 DEF Files

LEMMA NoDirIsNone == \A d \in Catalogs : d # NoDir
  <1> SUFFICES ASSUME NEW d \in Catalogs, d = NoDir PROVE FALSE
    OBVIOUS
  <1>1. DOMAIN d = {"files", "manifest", "version"}
    BY DEF Catalogs
  <1>2. DOMAIN d = {"none"}
    BY DEF NoDir
  <1>3. QED
    BY <1>1, <1>2

LEMMA RenderStep ==
    ASSUME DirInv, NEW S \in Offered, Render(S)
    PROVE  DirInv'
  <1>1. S \subseteq Files /\ S \cap Foreign = {}
    BY FilesPlaced
  <1>2. stage' \in Catalogs
    BY <1>1 DEF Render, DirInv, DirTypes, Catalogs
  <1>3. DirTypes'
    BY <1>2 DEF Render, DirInv, DirTypes
  <1>4. dir # NoDir => dir.files \cap Foreign = {}
    <2> SUFFICES ASSUME dir # NoDir PROVE dir.files \cap Foreign = {}
      OBVIOUS
    <2>1. CASE dir = EmptyDir
      BY <2>1 DEF EmptyDir
    <2>2. CASE dir # EmptyDir
      <3>1. dir \in Catalogs /\ dir.manifest # NoManifest /\ dir.files \subseteq dir.manifest
        BY <2>2 DEF DirInv, DirTypes, Render, Owned
      <3>2. dir.manifest \in Offered
        BY <3>1 DEF Catalogs
      <3>3. QED
        BY <3>1, <3>2, FilesPlaced
    <2>3. QED
      BY <2>1, <2>2
  <1>5. DirKept'
    BY <1>4 DEF Render, DirInv, DirKept, CatalogSurvives, Dropped
  <1>6. QED
    BY <1>3, <1>5 DEF DirInv

LEMMA RenameStep ==
    ASSUME DirInv, Install \/ MoveAside \/ Swap \/ Cleanup \/ WriterCrash
    PROVE  DirInv'
  <1>1. CASE Install
    BY <1>1 DEF Install, WriterDone, DirInv, DirTypes, DirKept, CatalogSurvives
  <1>2. CASE MoveAside
    BY <1>2 DEF MoveAside, WriterDone, DirInv, DirTypes, DirKept, CatalogSurvives, Dropped
  <1>3. CASE Swap
    BY <1>3 DEF Swap, WriterDone, DirInv, DirTypes, DirKept, CatalogSurvives, Dropped
  <1>4. CASE Cleanup
    BY <1>4 DEF Cleanup, WriterDone, DirInv, DirTypes, DirKept, CatalogSurvives
  <1>5. CASE WriterCrash
    BY <1>5 DEF WriterCrash, DirInv, DirTypes, DirKept, CatalogSurvives
  <1>6. QED
    BY <1>1, <1>2, <1>3, <1>4, <1>5

LEMMA ImportStep ==
    ASSUME DirInv, ImportDir \/ \E x \in Foreign : Import(x)
    PROVE  /\ DirInv'
           /\ dir' \in Catalogs
           /\ dir # NoDir => dir.files \subseteq dir'.files
  <1>1. UNCHANGED <<stage, backup, orphans, writer, version, listed, bundle>>
        /\ live' = IF live = dir THEN dir' ELSE live
    BY DEF ImportDir, Import, writerVars
  <1>2. CatalogSurvives' /\ (writer' = "cleanup" => live' = dir')
    BY <1>1 DEF DirInv, DirKept, CatalogSurvives
  <1>3. CASE ImportDir
    <2>1. dir = NoDir /\ dir' = EmptyDir /\ late' = late
      BY <1>3 DEF ImportDir
    <2>2. dir' \in Catalogs /\ dir'.files = {}
      BY <2>1 DEF EmptyDir, Catalogs
    <2>3. DirTypes'
      BY <1>1, <2>2 DEF DirInv, DirTypes
    <2>4. DirKept'
      BY <1>1, <1>2, <2>1, <2>2 DEF DirInv, DirKept, Dropped
    <2>5. QED
      BY <2>1, <2>2, <2>3, <2>4 DEF DirInv
  <1>4. ASSUME NEW x \in Foreign, Import(x)
        PROVE  /\ DirInv' /\ dir' \in Catalogs
               /\ dir # NoDir => dir.files \subseteq dir'.files
    <2>1. dir # NoDir /\ dir' = [dir EXCEPT !.files = @ \cup {x}]
          /\ late' = IF writer = "idle" THEN late \ {x} ELSE late \cup {x}
      BY <1>4 DEF Import
    <2>2. dir \in Catalogs /\ x \in Files
      BY <2>1, FilesPlaced DEF DirInv, DirTypes
    <2>3. dir' \in Catalogs /\ dir'.files = dir.files \cup {x}
      BY <2>1, <2>2 DEF Catalogs
    <2>4. DirTypes'
      BY <1>1, <2>3 DEF DirInv, DirTypes
    <2>5. writer # "idle" => x \in late' /\ late \subseteq late'
      BY <2>1
    <2>6. DirKept'
      BY <1>1, <1>2, <2>1, <2>3, <2>5 DEF DirInv, DirKept, Dropped
    <2>7. QED
      BY <2>3, <2>4, <2>6 DEF DirInv
  <1>5. QED
    BY <1>3, <1>4

\* The steps of LoadDir, and those of a process that does not look at the directory.
LEMMA ReaderStep ==
    ASSUME DirInv, UNCHANGED <<dir, live, late, writerVars>>,
           \/ UNCHANGED <<listed, bundle>>
           \/ Forget
           \/ ListDir
           \/ \E f \in listed : ReadConf(f)
    PROVE  DirInv'
  <1>1. DirKept'
    BY DEF writerVars, DirInv, DirKept, CatalogSurvives, Dropped
  <1>2. listed' \subseteq Files /\ bundle' \subseteq Files /\ IsFiniteSet(bundle')
    <2>1. CASE Forget
      BY <2>1, FS_EmptySet DEF Forget
    <2>2. CASE ListDir
      BY <2>2 DEF ListDir, DirInv, DirTypes, Catalogs
    <2>3. CASE \E f \in listed : ReadConf(f)
      BY <2>3, FS_AddElement DEF ReadConf, DirInv, DirTypes
    <2>4. QED
      BY <2>1, <2>2, <2>3 DEF DirInv, DirTypes
  <1>3. DirTypes'
    BY <1>2 DEF writerVars, DirInv, DirTypes
  <1>4. QED
    BY <1>1, <1>3 DEF DirInv

\* A step of the relays' specification, as the directory sees it.
LEMMA DirSteps ==
    ASSUME [RelaysNext]_fvars
    PROVE  \/ CatalogNext
           \/ /\ UNCHANGED <<dir, live, late, writerVars>>
              /\ \/ UNCHANGED <<listed, bundle>>
                 \/ Forget
                 \/ ListDir
                 \/ \E f \in listed : ReadConf(f)
  <1> USE DEF catalogVars
  <1>1. CASE UNCHANGED fvars \/ (CatalogNext /\ UNCHANGED relayVars)
    BY <1>1 DEF fvars
  <1>2. CASE \E r \in Requests : \/ \E session \in BOOLEAN : Pick(r, session)
                                 \/ Commit(r)
                                 \/ GiveBack(r)
    BY <1>2 DEF Pick, Commit, GiveBack
  <1>3. CASE PickNothing
    BY <1>3 DEF PickNothing
  <1>4. CASE \E list \in Lists : RefreshFetches(list) \/ RelaysCommand(list)
    BY <1>4 DEF RefreshFetches, RelaysCommand
  <1>5. CASE ReconcileFails \/ Reconcile \/ RefreshSaves \/ CacheAges
    BY <1>5 DEF ReconcileFails, Reconcile, RefreshSaves, CacheAges
  <1>6. CASE Boot
    BY <1>6 DEF Boot, ListDir
  <1>7. CASE BootReads
    BY <1>7 DEF BootReads, ReadConf
  <1>8. CASE BootFails \/ LoadOrFetch \/ Crash
    BY <1>8 DEF BootFails, LoadOrFetch, Crash
  <1>9. QED
    BY <1>1, <1>2, <1>3, <1>4, <1>5, <1>6, <1>7, <1>8 DEF RelaysNext

LEMMA DirAlways == RelaysSpec => []DirInv
  <1>1. RelaysInit => DirInv
    <2> SUFFICES ASSUME RelaysInit PROVE DirInv
      OBVIOUS
    <2>1. DirTypes
      BY FS_EmptySet DEF RelaysInit, CatalogInit, DirTypes
    <2>2. DirKept
      BY DEF RelaysInit, CatalogInit, DirKept, CatalogSurvives
    <2>3. QED
      BY <2>1, <2>2 DEF DirInv
  <1>2. DirInv /\ [RelaysNext]_fvars => DirInv'
    BY DirSteps, RenderStep, RenameStep, ImportStep, ReaderStep DEF CatalogNext
  <1>3. QED
    BY <1>1, <1>2, PTL DEF RelaysSpec

\* replaceCatalogSnapshot: whichever rename fails and wherever the nordvpn command is
\* killed, with imports between its steps, the last complete catalog stays on disk.
THEOREM CatalogsSurvive == RelaysSpec => []CatalogSurvives
  <1>1. DirInv => CatalogSurvives
    BY DEF DirInv, DirKept
  <1>2. QED
    BY <1>1, DirAlways, PTL

\* nordvpn_catalog.go: a directory with files of another provider is refused, and one
\* that was moved aside stays on disk until its replacement is in place; only what
\* was imported while the command was under way may go with it.
THEOREM ForeignFilesKept == RelaysSpec => ForeignKept
  <1> DEFINE Keeps == \A f \in Foreign \ late :
                        (\E d \in OnDisk : f \in d.files) => \E d \in OnDisk' : f \in d.files
  <1>1. ASSUME DirInv, CatalogNext
        PROVE  Keeps
    <2> SUFFICES ASSUME NEW f \in Foreign \ late, NEW d \in OnDisk, f \in d.files
                 PROVE  \E e \in OnDisk' : f \in e.files
      OBVIOUS
    <2>1. d # NoDir /\ d \in {dir, backup} \cup orphans
      BY DEF OnDisk
    <2>2. CASE (\E S \in Offered : Render(S)) \/ WriterCrash
      BY <2>1, <2>2 DEF Render, WriterCrash, OnDisk
    <2>3. CASE Install
      BY <2>1, <2>3 DEF Install, WriterDone, OnDisk
    <2>4. CASE MoveAside
      BY <2>1, <2>4 DEF MoveAside, WriterDone, OnDisk
    <2>5. CASE Swap
      BY <2>1, <2>5 DEF Swap, WriterDone, OnDisk
    <2>6. CASE Cleanup
      <3>1. d # backup
        BY <1>1, <2>1, <2>6 DEF Cleanup, DirInv, DirKept, Dropped
      <3>2. QED
        BY <2>1, <2>6, <3>1 DEF Cleanup, WriterDone, OnDisk
    <2>7. CASE ImportDir \/ \E x \in Foreign : Import(x)
      <3>1. UNCHANGED <<backup, orphans>>
        BY <2>7 DEF ImportDir, Import, writerVars
      <3>2. dir' # NoDir /\ (d = dir => f \in dir'.files)
        BY <1>1, <2>1, <2>7, ImportStep, NoDirIsNone
      <3>3. QED
        BY <2>1, <3>1, <3>2 DEF OnDisk
    <2>8. QED
      BY <1>1, <2>2, <2>3, <2>4, <2>5, <2>6, <2>7 DEF CatalogNext
  <1>2. ASSUME UNCHANGED <<dir, live, late, writerVars>>
        PROVE  Keeps
    BY <1>2 DEF writerVars, OnDisk
  <1>3. DirInv /\ [RelaysNext]_fvars => [Keeps]_catalogVars
    BY <1>1, <1>2, DirSteps
  <1>4. QED
    BY <1>3, DirAlways, PTL DEF RelaysSpec, ForeignKept

-----------------------------------------------------------------------------
(* The entries.                                                            *)

LEMMA FirstPlaced ==
    ASSUME NEW F \in SUBSET Files, F # {}
    PROVE  \E k \in F : \A h \in F : ~(Place[h] < Place[k])
  <1> DEFINE T == {Place[h] : h \in F}
  <1>1. T \subseteq Nat /\ T # {}
    BY FilesPlaced
  <1>2. \E x \in T : \A y \in T : ~(<<y, x>> \in OpToRel(<, Nat))
    <2> HIDE DEF T
    <2> QED
      BY <1>1, WFMin, NatLessThanWellFounded
  <1>3. PICK k \in F : \A y \in T : ~(<<y, Place[k]>> \in OpToRel(<, Nat))
    BY <1>2
  <1>4. \A h \in F : ~(<<Place[h], Place[k]>> \in OpToRel(<, Nat))
    BY <1>3
  <1>5. QED
    BY <1>4, FilesPlaced DEF OpToRel

\* A region's entries come one a round: no region is ahead of one that still has a slot
\* by more than a round.
LEMMA RoundsEven ==
    ASSUME NEW F \in SUBSET Files, IsFiniteSet(F),
           NEW f \in autoEntries(F), NEW h \in F \ autoEntries(F)
    PROVE  Cardinality({k \in autoEntries(F) : RegionOf[k] = RegionOf[f]})
             <= Cardinality({k \in autoEntries(F) : RegionOf[k] = RegionOf[h]}) + 1
  <1> DEFINE E        == autoEntries(F)
             In(r)    == {x \in F : RegionOf[x] = r}
             Taken(r) == {x \in E : RegionOf[x] = r}
             Before(x) == {y \in In(RegionOf[x]) : Place[y] < Place[x]}
             Round(x) == Cardinality(Before(x))
             Size(x)  == Cardinality(In(RegionOf[x]))
             Over(x)  == {y \in F \ {x} : Ahead(y, x, F)}
             A == Taken(RegionOf[f])
             B == Taken(RegionOf[h])
  <1>1. E \subseteq F /\ \A x \in F : x \in E <=> Cardinality(Over(x)) < EntriesAuto
    BY DEF autoEntries
  <1>2. \A r : IsFiniteSet(Taken(r)) /\ Cardinality(Taken(r)) \in Nat
    <2> TAKE r
    <2>1. Taken(r) \in SUBSET F
      BY <1>1
    <2> HIDE DEF Taken
    <2>2. QED
      BY <2>1, FS_Subset, FS_CardinalityType
  <1>3. \A x \in F : IsFiniteSet(Before(x)) /\ Round(x) \in Nat
    <2> TAKE x \in F
    <2>1. Before(x) \in SUBSET F
      OBVIOUS
    <2> HIDE DEF Before
    <2>2. QED
      BY <2>1, FS_Subset, FS_CardinalityType
  <1>4. \A x, y \in F : Ahead(y, x, F) <=>
          \/ Round(y) < Round(x)
          \/ Round(y) = Round(x) /\ Size(y) > Size(x)
          \/ Round(y) = Round(x) /\ Size(y) = Size(x) /\ RegionOf[y] < RegionOf[x]
    BY DEF Ahead
  <1>5. \A x, y \in F : RegionOf[x] = RegionOf[y] /\ Place[x] < Place[y] => Round(x) < Round(y)
    <2> SUFFICES ASSUME NEW x \in F, NEW y \in F, RegionOf[x] = RegionOf[y], Place[x] < Place[y]
                 PROVE  Round(x) < Round(y)
      OBVIOUS
    <2>1. Before(x) \in SUBSET Before(y) /\ x \in Before(y) /\ x \notin Before(x)
      BY FilesPlaced
    <2>2. IsFiniteSet(Before(y)) /\ Cardinality(Before(x)) \in Nat /\ Cardinality(Before(y)) \in Nat
      BY <1>3
    <2> HIDE DEF Before
    <2>3. Cardinality(Before(x)) <= Cardinality(Before(y))
          /\ Cardinality(Before(x)) # Cardinality(Before(y))
      BY <2>1, <2>2, FS_Subset
    <2>4. QED
      BY <2>2, <2>3
  <1> HIDE DEF Before, Round, Size, E
  <1>6. ASSUME NEW x \in E, NEW y \in F, Round(y) < Round(x)
        PROVE  y \in E
    <2>1. x \in F /\ Cardinality(Over(x)) < EntriesAuto
      BY <1>1
    <2>2. Over(y) \subseteq Over(x)
      <3> SUFFICES ASSUME NEW z \in F, Ahead(z, y, F) PROVE z \in Over(x)
        OBVIOUS
      <3>1. Round(z) < Round(x)
        BY <1>3, <1>4, <1>6, <2>1
      <3>2. QED
        BY <1>3, <1>4, <2>1, <3>1
    <2>3. IsFiniteSet(Over(x))
      BY FS_Subset
    <2> HIDE DEF Over
    <2>4. /\ Cardinality(Over(y)) <= Cardinality(Over(x))
          /\ Cardinality(Over(x)) \in Nat /\ Cardinality(Over(y)) \in Nat
      BY <2>2, <2>3, FS_Subset, FS_CardinalityType
    <2>5. QED
      BY <1>1, <2>1, <2>4, FilesPlaced
  <1>7. PICK k \in In(RegionOf[h]) \ E : \A y \in In(RegionOf[h]) \ E : ~(Place[y] < Place[k])
    <2>1. In(RegionOf[h]) \ E \in SUBSET Files /\ In(RegionOf[h]) \ E # {}
      BY DEF E
    <2>2. QED
      BY <2>1, FirstPlaced
  <1>8. Round(k) <= Cardinality(B)
    <2>1. Before(k) \in SUBSET B
      BY <1>7 DEF Before
    <2>2. IsFiniteSet(B)
      BY <1>2
    <2> HIDE DEF B
    <2>3. QED
      BY <2>1, <2>2, FS_Subset DEF Round
  <1> DEFINE b == Cardinality(B)
  <1>9. \A x \in A : x \in F /\ Round(x) \in 0 .. b
    <2> SUFFICES ASSUME NEW x \in A PROVE x \in F /\ Round(x) \in 0 .. b
      OBVIOUS
    <2>1. x \in E /\ x \in F /\ k \in F /\ k \notin E
      BY <1>1, <1>7
    <2>2. ~(Round(k) < Round(x))
      BY <1>6, <2>1
    <2>3. b \in Nat /\ Round(x) \in Nat /\ Round(k) \in Nat
      BY <1>2, <1>3, <2>1
    <2> HIDE DEF b
    <2>4. Round(k) <= b
      BY <1>8 DEF b
    <2>5. QED
      BY <2>1, <2>2, <2>3, <2>4
  <1>10. \A x, y \in A : Round(x) = Round(y) => x = y
    <2> SUFFICES ASSUME NEW x \in A, NEW y \in A, x # y PROVE Round(x) # Round(y)
      OBVIOUS
    <2>1. x \in F /\ y \in F /\ RegionOf[x] = RegionOf[y]
      BY <1>1
    <2>2. Place[x] < Place[y] \/ Place[y] < Place[x]
      BY <2>1, FilesPlaced
    <2>3. Round(x) \in Nat /\ Round(y) \in Nat
      BY <1>3, <2>1
    <2>4. QED
      BY <1>5, <2>1, <2>2, <2>3
  <1>11. Cardinality(A) <= Cardinality(0 .. b)
    <2> DEFINE m == [x \in A |-> Round(x)]
    <2>1. m \in [A -> 0 .. b] /\ \A x, y \in A : m[x] = m[y] => x = y
      BY <1>9, <1>10
    <2>2. b \in Nat
      BY <1>2
    <2> HIDE DEF m, A, b
    <2>3. m \in Injection(A, 0 .. b)
      BY <2>1 DEF Injection, IsInjective
    <2>4. IsFiniteSet(0 .. b)
      BY <2>2, FS_Interval
    <2>5. QED
      BY <2>3, <2>4, FS_Injection
  <1>12. b \in Nat /\ Cardinality(0 .. b) = b + 1
    <2>1. b \in Nat
      BY <1>2
    <2> HIDE DEF b
    <2>2. Cardinality(0 .. b) = IF 0 > b THEN 0 ELSE b - 0 + 1
      BY <2>1, FS_Interval
    <2>3. QED
      BY <2>1, <2>2
  <1>13. Cardinality(A) <= Cardinality(B) + 1
    BY <1>11, <1>12
  <1>14. QED
    BY <1>13 DEF E

\* autoEntries: the entries are spread over the regions of the catalog as evenly as its
\* slots allow.
THEOREM EntriesSpreadOut == RelaysSpec => EntriesSpread
  <1> DEFINE Taken(f) == Cardinality({k \in entries' : RegionOf[k] = RegionOf[f]})
             Spread == life = "boot" /\ life' = "up" =>
                         \A f \in entries', h \in bundle \ entries' : Taken(f) <= Taken(h) + 1
  <1>1. ASSUME DirInv, RelaysNext, life = "boot", life' = "up",
               NEW f \in entries', NEW h \in bundle \ entries'
        PROVE  Taken(f) <= Taken(h) + 1
    <2>1. LoadOrFetch
      <3>1. ~(CatalogNext /\ UNCHANGED relayVars) /\ ~PickNothing /\ ~BootReads /\ ~Crash
        BY <1>1 DEF relayVars, PickNothing, BootReads, Crash
      <3>2. \A r \in Requests : /\ \A session \in BOOLEAN : ~Pick(r, session)
                               /\ ~Commit(r) /\ ~GiveBack(r)
        BY <1>1 DEF Pick, Commit, GiveBack
      <3>3. \A list \in Lists : ~RefreshFetches(list) /\ ~RelaysCommand(list)
        BY <1>1 DEF RefreshFetches, RelaysCommand
      <3>4. ~ReconcileFails /\ ~Reconcile /\ ~RefreshSaves /\ ~CacheAges /\ ~Boot /\ ~BootFails
        BY <1>1 DEF ReconcileFails, Reconcile, RefreshSaves, CacheAges, Boot, BootFails
      <3>5. QED
        BY <1>1, <3>1, <3>2, <3>3, <3>4 DEF RelaysNext
    <2>2. entries' = autoEntries(bundle)
      BY <1>1, <2>1 DEF LoadOrFetch, Start
    <2>3. bundle \in SUBSET Files /\ IsFiniteSet(bundle)
      BY <1>1 DEF DirInv, DirTypes
    <2>4. QED
      BY <1>1, <2>2, <2>3, RoundsEven
  <1>2. DirInv /\ [RelaysNext]_fvars => [Spread]_fvars
    BY <1>1
  <1>3. QED
    BY <1>2, DirAlways, PTL DEF RelaysSpec, EntriesSpread
=============================================================================
