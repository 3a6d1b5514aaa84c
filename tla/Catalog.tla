------------------------------ MODULE Catalog ------------------------------
(***************************************************************************)
(* The catalog directory on disk: the nordvpn command that replaces it as  *)
(* a whole (nordvpn_cmd.go, nordvpn_catalog.go), the import command that   *)
(* adds files to it, and LoadDir, which serve reads it with.  A directory  *)
(* is its files, the names in its ownership manifest and the run of the    *)
(* nordvpn command that rendered it (0: none did).                         *)
(***************************************************************************)
EXTENDS Naturals, FiniteSets

CONSTANTS
    Offered,        \* sets of servers that Usable, -country and -limit may leave
    Foreign,        \* files of another provider's bundle
    RegionOf,       \* file -> the place of its region's name in their order
    Place,          \* file -> its place in the order of slot IDs
    EntriesAuto,    \* entries.auto
    MaxVersion      \* bound on the snapshots rendered

VARIABLES
    dir,            \* the live directory: NoDir or [files, manifest, version]
    stage, backup,  \* its replacement, and the last one that was moved aside
    orphans,        \* those that earlier runs moved aside and left behind
    writer,         \* the nordvpn command: "idle", "staged", "moved", "cleanup"
    version,
    live,           \* history: the last directory that was complete and in place
    late,           \* history: files imported while the nordvpn command ran
    listed, bundle  \* LoadDir: names still to read, and what has been read

writerVars  == <<stage, backup, orphans, writer, version>>
catalogVars == <<dir, live, late, writerVars, listed, bundle>>

Files == Foreign \cup UNION Offered

\* The command names its files after servers of its own provider; the places of
\* slot IDs are an order.
ASSUME CatalogAssumption ==
    /\ \A S \in Offered : IsFiniteSet(S) /\ S \cap Foreign = {}
    /\ IsFiniteSet(Foreign)
    /\ \A f \in Files : Place[f] \in Nat
    /\ \A f, g \in Files : Place[f] = Place[g] => f = g
    /\ EntriesAuto \in Nat

NoDir      == [none |-> "dir"]
NoManifest == {"no manifest"}
EmptyDir   == [files |-> {}, manifest |-> NoManifest, version |-> 0]

CatalogInit ==
    /\ dir = NoDir
    /\ stage = NoDir /\ backup = NoDir /\ orphans = {}
    /\ writer = "idle"
    /\ version = 0
    /\ live = NoDir /\ late = {}
    /\ listed = {} /\ bundle = {}

-----------------------------------------------------------------------------
(* The nordvpn command.                                                    *)

\* Faulty: takes a directory with a manifest for its own whatever else is in it.
FaultyOwned(d) == d \notin {NoDir, EmptyDir} => d.manifest # NoManifest

\* validateCatalogOwnership: an empty directory is anybody's.
Owned(d) == d \notin {NoDir, EmptyDir} => d.manifest # NoManifest /\ d.files \subseteq d.manifest

\* runNordVPN up to a complete stage.  A list it cannot load, a filter that leaves
\* nothing, a bad key, a directory it does not own and a failed write end it
\* before it touches the directory.
Render(S) ==
    /\ writer = "idle"
    /\ version < MaxVersion
    /\ S # {} /\ Owned(dir)
    /\ version' = version + 1
    /\ stage' = [files |-> S, manifest |-> S, version |-> version + 1]
    /\ writer' = "staged"
    /\ UNCHANGED <<dir, backup, orphans, live, late, listed, bundle>>

\* writeCatalog returns; its deferred RemoveAll(stage) runs.
WriterDone == stage' = NoDir /\ writer' = "idle" /\ UNCHANGED <<version, orphans>>

\* replaceCatalogSnapshot, one rename at a time; each may fail.
Install ==
    /\ writer = "staged" /\ dir = NoDir
    /\ \/ dir' = stage /\ live' = stage
       \/ UNCHANGED <<dir, live>>
    /\ WriterDone
    /\ UNCHANGED <<backup, late, listed, bundle>>

\* Faulty: removes the previous directory to make room.
FaultyMoveAside ==
    /\ writer = "staged" /\ dir # NoDir
    /\ dir' = NoDir
    /\ writer' = "moved"
    /\ UNCHANGED <<live, late, stage, backup, orphans, version, listed, bundle>>

\* Each run moves it to a name of its own.
MoveAside ==
    /\ writer = "staged" /\ dir # NoDir
    /\ \/ /\ dir' = NoDir
          /\ backup' = dir
          /\ orphans' = orphans \cup ({backup} \ {NoDir})
          /\ writer' = "moved"
          /\ UNCHANGED <<stage, version>>
       \/ WriterDone /\ UNCHANGED <<dir, backup>>
    /\ UNCHANGED <<live, late, listed, bundle>>

\* The second rename, or its rollback, which may fail as well; both do when
\* something has made the directory again.
Swap ==
    /\ writer = "moved"
    /\ \/ /\ dir = NoDir /\ dir' = stage /\ live' = stage
          /\ stage' = NoDir /\ writer' = "cleanup"
          /\ UNCHANGED <<backup, orphans, version>>
       \/ dir = NoDir /\ dir' = backup /\ backup' = NoDir /\ WriterDone /\ UNCHANGED live
       \/ UNCHANGED <<dir, backup, live>> /\ WriterDone
    /\ UNCHANGED <<late, listed, bundle>>

\* RemoveAll(backup): what is left of it when that fails is of no use.
Cleanup ==
    /\ writer = "cleanup"
    /\ backup' = NoDir
    /\ WriterDone
    /\ UNCHANGED <<dir, live, late, listed, bundle>>

\* The command is killed and leaves its directories behind.
WriterCrash ==
    /\ writer # "idle"
    /\ writer' = "idle"
    /\ stage' = NoDir
    /\ UNCHANGED <<dir, backup, orphans, live, late, version, listed, bundle>>

\* runImport (ExtractZip) makes the directory if need be, and writes into it one
\* file after the other, into whatever directory is there by now.  It may end with
\* an error at any of them.
ImportDir ==
    /\ dir = NoDir
    /\ dir' = EmptyDir
    /\ live' = IF live = dir THEN dir' ELSE live
    /\ UNCHANGED <<late, writerVars, listed, bundle>>
Import(f) ==
    /\ dir # NoDir /\ f \notin dir.files
    /\ dir' = [dir EXCEPT !.files = @ \cup {f}]
    /\ live' = IF live = dir THEN dir' ELSE live
    /\ late' = IF writer = "idle" THEN late \ {f} ELSE late \cup {f}
    /\ UNCHANGED <<writerVars, listed, bundle>>

-----------------------------------------------------------------------------
(* LoadDir, and the entries serve takes from the bundle.                   *)

\* ReadDir; Load fails without a directory.
ListDir ==
    /\ dir # NoDir /\ listed = {} /\ bundle = {}
    /\ listed' = dir.files
    /\ UNCHANGED <<dir, live, late, writerVars, bundle>>

\* Each file is opened by its path, in whatever directory is there by now.
Readable(f) == dir # NoDir /\ f \in dir.files
ReadConf(f) ==
    /\ f \in listed /\ Readable(f)
    /\ \A g \in listed : Place[f] <= Place[g]
    /\ listed' = listed \ {f}
    /\ bundle' = bundle \cup {f}
    /\ UNCHANGED <<dir, live, late, writerVars>>
Unreadable == dir = NoDir \/ \E f \in listed : ~Readable(f)

Forget == listed' = {} /\ bundle' = {}

\* Faulty: takes the largest region's slots first.
FaultyAhead(f, g, F) ==
    LET Size(r)  == Cardinality({h \in F : RegionOf[h] = r})
    IN  \/ Size(RegionOf[f]) > Size(RegionOf[g])
        \/ Size(RegionOf[f]) = Size(RegionOf[g]) /\ Place[f] < Place[g]

\* autoEntries goes round the regions, largest first, and takes the next slot of
\* each: whether f of the files F is taken before g.
Ahead(f, g, F) ==
    LET In(r)    == {h \in F : RegionOf[h] = r}
        Round(h) == Cardinality({k \in In(RegionOf[h]) : Place[k] < Place[h]})
        Size(h)  == Cardinality(In(RegionOf[h]))
    IN  \/ Round(f) < Round(g)
        \/ Round(f) = Round(g) /\ Size(f) > Size(g)
        \/ Round(f) = Round(g) /\ Size(f) = Size(g) /\ RegionOf[f] < RegionOf[g]
autoEntries(F) == {f \in F : Cardinality({g \in F \ {f} : Ahead(g, f, F)}) < EntriesAuto}

-----------------------------------------------------------------------------
CatalogNext ==
    \/ \E S \in Offered : Render(S)
    \/ Install \/ MoveAside \/ Swap \/ Cleanup \/ WriterCrash
    \/ ImportDir \/ \E f \in Foreign : Import(f)

\* The catalogs on disk, complete or not.
OnDisk == ({dir, backup} \cup orphans) \ {NoDir}

\* "A failed refresh leaves the previous catalog intact": whichever rename fails
\* and wherever the command dies, the last complete catalog is on disk, in place
\* or where it was moved aside.
CatalogSurvives == live # NoDir => live \in {dir, backup} \cup orphans

\* "Another provider's files are never deleted": no step takes a file the command
\* did not write off the disk, unless it was imported behind the command's back,
\* between its look at the directory and the end of its work.
ForeignKept ==
    [][\A f \in Foreign \ late :
         (\E d \in OnDisk : f \in d.files) => \E d \in OnDisk' : f \in d.files]_catalogVars
=============================================================================
