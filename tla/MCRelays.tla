------------------------------ MODULE MCRelays ------------------------------
(***************************************************************************)
(* A small instance of module Relays.                                      *)
(***************************************************************************)
EXTENDS Relays, TLC

Order   == "f1" :> 1 @@ "f2" :> 2 @@ "f3" :> 3 @@ "f4" :> 4 @@ "x1" :> 5
Asia    == 1
Europe  == 2
Regions == "f1" :> Europe @@ "f2" :> Europe @@ "f3" :> Asia @@ "x1" :> Europe
           @@ "f4" :> Asia
MCLists == {{"m1", "m2"}, {"m2"}, {}, {"m1", "d1"}, {"m2", "bad"}}

Symmetry == Permutations(Requests)

\* While it serves, the process reads neither the catalog nor the cache of the relay
\* list, and the commands that write the catalog do not look at that cache: such steps
\* commute.  Requests and refreshes are explored with one catalog and a young cache,
\* which only the refresher writes meanwhile, and the catalog's commands before there is
\* a cache.
OneSet     == {"f1", "f2", "f3", "f4"}
OneCatalog == version = 1 /\ live = dir /\ writer = "idle" /\ backup = NoDir /\ late = {}
              /\ dir = [files |-> OneSet, manifest |-> OneSet, version |-> 1]
Reduced ==
    /\ life = "up" => /\ UNCHANGED catalogVars
                      /\ UNCHANGED <<at, job>> \/ (OneCatalog /\ fresh)
                      /\ UNCHANGED cacheVars \/ job = "save"
    /\ cache # NoList => \/ OneCatalog /\ UNCHANGED <<dir, writerVars>>
                         \/ UNCHANGED <<dir, writerVars, cacheVars>> /\ life' = "down"
=============================================================================
