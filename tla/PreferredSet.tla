---------------------------- MODULE PreferredSet ----------------------------
(***************************************************************************)
(* The ring of last-good exits a health scope remembers                    *)
(* (internal/pool/pool.go, type preferredSet): a sequence of records       *)
(* [slotID, publicIP, expiresAt], the next one to prefer first.  An empty  *)
(* ring stands for a scope that is absent from Pool.preferred.             *)
(***************************************************************************)
EXTENDS Subsequence

\* Faulty: trims the ring before it appends to it.
FaultyRemember(ring, slotID, publicIP, until, max) ==
    LET known   == {i \in DOMAIN ring : ring[i].publicIP = publicIP}
        pref    == [slotID |-> slotID, publicIP |-> publicIP, expiresAt |-> until]
        trimmed == SubSeq(ring, Max({1, Len(ring) - max + 1}), Len(ring))
    IN  IF known # {}
        THEN [ring EXCEPT ![Min(known)] = pref]
        ELSE Append(trimmed, pref)

remember(ring, slotID, publicIP, until, max) ==
    LET known == {i \in DOMAIN ring : ring[i].publicIP = publicIP}
        pref  == [slotID |-> slotID, publicIP |-> publicIP, expiresAt |-> until]
        grown == Append(ring, pref)
    IN  IF known # {}
        THEN [ring EXCEPT ![Min(known)] = pref]
        ELSE SubSeq(grown, Max({1, Len(grown) - max + 1}), Len(grown))

removeIP(ring, publicIP) == Sift(ring, {i \in DOMAIN ring : ring[i].publicIP # publicIP})

rotateToTail(ring, slotID) ==
    LET here == {i \in 1 .. (Len(ring) - 1) : ring[i].slotID = slotID}
    IN  IF here = {}
        THEN ring
        ELSE Append(RemoveAt(ring, Min(here)), ring[Min(here)])

prune(ring, now) == Sift(ring, {i \in DOMAIN ring : now < ring[i].expiresAt})
=============================================================================
