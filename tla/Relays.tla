------------------------------- MODULE Relays -------------------------------
(***************************************************************************)
(* Relay membership while serving: the relay list and its cache            *)
(* (internal/mullvad), the refresher (relay_refresh.go) and                *)
(* ReconcileRelaySlots, which replaces the relay slots of a pool under the *)
(* requests that use them.  A slot is an object: <<id, n>> is the n-th one *)
(* made for relay id, and a request keeps the pointer it picked.  serve    *)
(* builds the pool from the catalog and the relay list when it starts.     *)
(***************************************************************************)
EXTENDS Catalog

CONSTANTS
    Relay,          \* relay IDs the provider may list
    Direct,         \* slots that are not relays
    NoID,
    Lists,          \* usable relays of the lists the provider may serve
    BadID,          \* in a list: an ID that is empty or there twice
    Requests,
    PerExit,        \* MaxConnsPerExit
    MaxObjects      \* bound on the objects made for one relay

VARIABLES
    life,           \* "down", "boot", "up"
    entries,        \* the entry tunnels chosen at start
    slots,          \* id -> n for the object <<id, n>> in the pool, or 0
    made,           \* id -> objects made so far
    load,           \* object -> leases + pendingLeases
    at, on,         \* request -> "idle", "pending" or "leased", and the object it holds
    named,          \* request -> whether it asked for the session
    bound,          \* the slot the session is bound to, or NoID
    job, fetched,   \* the refresher: "idle", "reconcile", "save", and its list
    cache, fresh,   \* the relay list on disk, and whether it is young enough
    gap             \* history: relays that were taken off the list

poolVars  == <<slots, made, load, at, on, named, bound, gap>>
jobVars   == <<job, fetched>>
cacheVars == <<cache, fresh>>
relayVars == <<life, entries, poolVars, jobVars, cacheVars>>
fvars     == <<catalogVars, relayVars>>

IDs     == Relay \cup Direct
Objects == IDs \X (1 .. MaxObjects)
NoList  == {NoID}
NoSlot  == <<NoID, 0>>
Obj(id) == <<id, slots[id]>>

\* An ID is a relay's or another slot's: what the provider lists may collide with
\* either.
ASSUME RelayAssumption ==
    /\ Relay \cap Direct = {} /\ NoID \notin IDs /\ BadID \notin IDs /\ BadID # NoID
    /\ \A list \in Lists : list \subseteq IDs \cup {BadID}
    /\ IsFiniteSet(Requests)
    /\ PerExit \in Nat \ {0} /\ MaxObjects \in Nat \ {0}

Empty == [id \in IDs |-> 0]
RelaysInit ==
    /\ CatalogInit
    /\ life = "down" /\ entries = {}
    /\ slots = Empty /\ made = Empty
    /\ load = [o \in Objects |-> 0]
    /\ at = [r \in Requests |-> "idle"]
    /\ on = [r \in Requests |-> NoSlot]
    /\ named = [r \in Requests |-> FALSE]
    /\ bound = NoID
    /\ job = "idle" /\ fetched = NoList
    /\ cache = NoList /\ fresh = FALSE
    /\ gap = {}

-----------------------------------------------------------------------------
(* Acquire and Release, as far as membership matters to them.              *)

Usable == {id \in IDs : slots[id] # 0 /\ load[Obj(id)] < PerExit}

Pick(r, session) ==
    /\ life = "up" /\ at[r] = "idle"
    /\ \E id \in IF session /\ bound \in Usable THEN {bound} ELSE Usable :
         /\ on' = [on EXCEPT ![r] = Obj(id)]
         /\ load' = [load EXCEPT ![Obj(id)] = @ + 1]
         /\ bound' = IF session /\ bound # id THEN NoID ELSE bound
    /\ at' = [at EXCEPT ![r] = "pending"]
    /\ named' = [named EXCEPT ![r] = session]
    /\ UNCHANGED <<life, entries, slots, made, gap, jobVars, cacheVars, catalogVars>>

\* No slot has room: the session's binding, to a slot without room, is dropped.
PickNothing ==
    /\ life = "up" /\ \E r \in Requests : at[r] = "idle"
    /\ Usable = {} /\ bound # NoID
    /\ bound' = NoID
    /\ UNCHANGED <<life, entries, slots, made, load, at, on, named, gap, jobVars, cacheVars,
                   catalogVars>>

\* The session is bound to the slot's ID, listed or not by now.
Commit(r) ==
    /\ at[r] = "pending"
    /\ at' = [at EXCEPT ![r] = "leased"]
    /\ bound' = IF named[r] THEN on[r][1] ELSE bound
    /\ UNCHANGED <<life, entries, slots, made, load, on, named, gap, jobVars, cacheVars,
                   catalogVars>>

\* Faulty: looks the slot up again by its ID.
FaultyLetGo(o) == load' = [load EXCEPT ![<<o[1], slots[o[1]]>>] = @ - 1]

\* The counters of the object itself go down.
LetGo(o) == load' = [load EXCEPT ![o] = @ - 1]

\* rollbackAcquisition, or Release.
GiveBack(r) ==
    /\ at[r] \in {"pending", "leased"}
    /\ LetGo(on[r])
    /\ at' = [at EXCEPT ![r] = "idle"]
    /\ on' = [on EXCEPT ![r] = NoSlot]
    /\ named' = [named EXCEPT ![r] = FALSE]
    /\ UNCHANGED <<life, entries, slots, made, bound, gap, jobVars, cacheVars, catalogVars>>

-----------------------------------------------------------------------------
(* The refresher.                                                          *)

\* Faulty: takes whatever was served.
FaultyWorthIt(list) == TRUE
\* Neither refreshRelaySlots nor ReconcileRelaySlots takes a list without relays.
WorthIt(list) == list # {}

\* Faulty: a relay takes over the ID of another kind of slot.
FaultyRefused(list) == ~WorthIt(list) \/ BadID \in list
\* What ReconcileRelaySlots, and NewWithSpecs at the start, return an error for.  A
\* pool that is closed is none: serve waits for the refresher before it closes it.
Refused(list) == ~WorthIt(list) \/ BadID \in list \/ list \cap Direct # {}

\* Faulty: every slot starts afresh.
FaultyKept(id) == FALSE
\* A relay that is still listed keeps its object.
Kept(id) == slots[id] # 0

\* The list arrives; a fetch that fails, and a list without relays, end here.
RefreshFetches(list) ==
    /\ life = "up" /\ job = "idle"
    /\ WorthIt(list)
    /\ job' = "reconcile"
    /\ fetched' = list
    /\ UNCHANGED <<life, entries, poolVars, cacheVars, catalogVars>>

ReconcileFails ==
    /\ job = "reconcile" /\ Refused(fetched)
    /\ job' = "idle" /\ fetched' = NoList
    /\ UNCHANGED <<life, entries, poolVars, cacheVars, catalogVars>>

Reconcile ==
    LET add     == {id \in fetched : ~Kept(id)}
        dropped == {id \in Relay \ fetched : slots[id] # 0}
    IN  /\ job = "reconcile" /\ ~Refused(fetched)
        /\ \A id \in add : made[id] < MaxObjects
        /\ made' = [id \in IDs |-> IF id \in add THEN made[id] + 1 ELSE made[id]]
        /\ slots' = [id \in IDs |-> CASE id \in add -> made[id] + 1
                                     [] id \in dropped -> 0
                                     [] OTHER -> slots[id]]
        /\ gap' = gap \cup dropped
        /\ bound' = IF bound # NoID /\ slots'[bound] = 0 THEN NoID ELSE bound
        /\ job' = "save"
        /\ UNCHANGED <<load, at, on, named, fetched, life, entries, cacheVars, catalogVars>>

\* Save replaces the cache in one rename, or fails and leaves it.
RefreshSaves ==
    /\ job = "save"
    /\ \/ cache' = fetched /\ fresh' = TRUE
       \/ UNCHANGED cacheVars
    /\ job' = "idle" /\ fetched' = NoList
    /\ UNCHANGED <<life, entries, poolVars, catalogVars>>

CacheAges ==
    /\ fresh
    /\ fresh' = FALSE
    /\ UNCHANGED <<life, entries, poolVars, jobVars, cache, catalogVars>>

\* The relays command: LoadOrFetch, which caches whatever list it fetched.
RelaysCommand(list) ==
    /\ cache' = list /\ fresh' = TRUE
    /\ UNCHANGED <<life, entries, poolVars, jobVars, catalogVars>>

-----------------------------------------------------------------------------
(* Starting and dying.                                                     *)

\* catalog.Load, a file at a time.
Boot ==
    /\ life = "down"
    /\ ListDir
    /\ life' = "boot"
    /\ UNCHANGED <<entries, poolVars, jobVars, cacheVars>>
BootReads ==
    /\ life = "boot"
    /\ \E f \in listed : ReadConf(f)
    /\ UNCHANGED relayVars

\* serve returns the error and is started again some time.
BootFails ==
    /\ life = "boot" /\ (IF listed = {} THEN bundle = {} ELSE Unreadable)
    /\ life' = "down"
    /\ Forget
    /\ UNCHANGED <<dir, live, late, writerVars, entries, poolVars, jobVars, cacheVars>>

\* buildSlots and NewWithSpecs with the list: an error when it has no relay or one
\* with the ID of another slot.
Start(list) ==
    IF Refused(list)
    THEN life' = "down" /\ UNCHANGED <<entries, slots, made>>
    ELSE /\ life' = "up"
         /\ slots' = [id \in IDs |-> IF id \in list \cup Direct THEN 1 ELSE 0]
         /\ made' = slots'
         /\ entries' = autoEntries(bundle)

\* A young cache, else the network (and the cache is written, or not), else an old
\* cache, else serve returns the error.
LoadOrFetch ==
    /\ life = "boot" /\ listed = {} /\ bundle # {}
    /\ \/ cache # NoList /\ Start(cache) /\ UNCHANGED cacheVars
       \/ /\ ~fresh
          /\ \E list \in Lists : /\ Start(list)
                                 /\ \/ cache' = list /\ fresh' = TRUE
                                    \/ UNCHANGED cacheVars
       \/ cache = NoList /\ life' = "down" /\ UNCHANGED <<entries, slots, made, cacheVars>>
    /\ Forget
    /\ UNCHANGED <<load, at, on, named, bound, gap, jobVars, dir, live, late, writerVars>>

\* The process ends, by itself or not: its memory is gone.
Crash ==
    /\ life # "down"
    /\ life' = "down" /\ entries' = {}
    /\ slots' = Empty /\ made' = Empty
    /\ load' = [o \in Objects |-> 0]
    /\ at' = [r \in Requests |-> "idle"]
    /\ on' = [r \in Requests |-> NoSlot]
    /\ named' = [r \in Requests |-> FALSE]
    /\ bound' = NoID
    /\ job' = "idle" /\ fetched' = NoList
    /\ gap' = {}
    /\ Forget
    /\ UNCHANGED <<cacheVars, dir, live, late, writerVars>>

RelaysNext ==
    \/ CatalogNext /\ UNCHANGED relayVars
    \/ \E r \in Requests : \/ \E session \in BOOLEAN : Pick(r, session)
                           \/ Commit(r)
                           \/ GiveBack(r)
    \/ PickNothing
    \/ \E list \in Lists : RefreshFetches(list) \/ RelaysCommand(list)
    \/ ReconcileFails \/ Reconcile \/ RefreshSaves \/ CacheAges
    \/ Boot \/ BootReads \/ BootFails \/ LoadOrFetch \/ Crash
RelaysSpec == RelaysInit /\ [][RelaysNext]_fvars

-----------------------------------------------------------------------------
(* Properties.                                                             *)

\* A slot object's counters are exactly the requests that hold it, also after the
\* relay was taken off the list, and put back on it, under them.
LoadsMatch ==
    \A o \in Objects : load[o] = Cardinality({r \in Requests : on[r] = o})

\* A relay that stays listed never carries more than MaxConnsPerExit connections,
\* however often the list is refreshed: a refresh forgets none of them.
ListedCap ==
    \A id \in IDs \ gap : Cardinality({r \in Requests : on[r][1] = id}) <= PerExit

\* A request, whatever became of its relay meanwhile: what it has claimed of a slot object.
claimBar == [r \in Requests |-> IF at[r] = "idle" THEN "free" ELSE at[r]]
Alloc == INSTANCE LeaseAllocator
           WITH Clients <- Requests, Exits <- Objects, NoExit <- NoSlot,
                PerExit <- PerExit, Total <- 0, phase <- claimBar, exit <- on

\* While a process serves, its slot objects are an allocator as module Pool's fixed slots
\* are one: each takes a request only where it has room, and a request keeps and gives
\* back the one object it was given, also when a refresh has dropped or replaced it.
ObjectsAllocate ==
    [][life = "up" /\ life' = "up" => [Alloc!AllocNext]_<<claimBar, on>>]_fvars

\* Serving never runs out of relays to choose from, and keeps the slots of other
\* kinds, whatever the provider lists.
KeepsServing ==
    life = "up" => /\ \E id \in Relay : slots[id] # 0
                   /\ \A id \in Direct : slots[id] = 1

\* The refresher replaces the cache only by a list that a restart can serve from
\* (it contains relays and nothing else, and the pool has taken it).
CacheServes ==
    [][job = "save" /\ job' = "idle" /\ cache' # cache =>
         cache' # {} /\ cache' \subseteq Relay]_fvars

\* "So a single regional outage cannot take every entry with it": the entries spread
\* over the regions of the bundle as evenly as its slots allow, wherever the last
\* round over them stops.  A region has at most one entry more than any region with a
\* slot to spare; in particular two only where every region has one.
EntriesSpread ==
    [][life = "boot" /\ life' = "up" =>
         LET Taken(f) == Cardinality({k \in entries' : RegionOf[k] = RegionOf[f]})
         IN  \A f \in entries', h \in bundle \ entries' : Taken(f) <= Taken(h) + 1]_fvars
=============================================================================
