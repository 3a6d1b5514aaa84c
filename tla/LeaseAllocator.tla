--------------------------- MODULE LeaseAllocator ---------------------------
(***************************************************************************)
(* What the pool promises its callers about connections, and nothing else: *)
(* a client reserves an exit, settles the reservation into a lease or      *)
(* gives it up, and releases the lease once.  An exit never carries more   *)
(* than PerExit clients, nor all exits together more than Total; 0 means   *)
(* no limit.  Module Pool implements this; module Proxy is written on it.  *)
(***************************************************************************)
EXTENDS Naturals, FiniteSets

CONSTANTS Clients, Exits, NoExit, PerExit, Total

VARIABLES phase,    \* phase[c]: "free", "pending" or "leased"
          exit      \* exit[c]: the exit the client's claim is on, or NoExit

avars == <<phase, exit>>

Claims(e) == {c \in Clients : phase[c] # "free" /\ exit[c] = e}
AllClaims == {c \in Clients : phase[c] # "free"}
Room(e)   == /\ PerExit > 0 => Cardinality(Claims(e)) < PerExit
             /\ Total > 0 => Cardinality(AllClaims) < Total

AllocInit == /\ phase = [c \in Clients |-> "free"]
             /\ exit = [c \in Clients |-> NoExit]

Reserve(c, e) == /\ phase[c] = "free"
                 /\ Room(e)
                 /\ phase' = [phase EXCEPT ![c] = "pending"]
                 /\ exit' = [exit EXCEPT ![c] = e]

Commit(c) == /\ phase[c] = "pending"
             /\ phase' = [phase EXCEPT ![c] = "leased"]
             /\ UNCHANGED exit

\* The claim, a reservation or a lease, ends.
Free(c) == /\ phase' = [phase EXCEPT ![c] = "free"]
           /\ exit' = [exit EXCEPT ![c] = NoExit]
GiveUp(c)    == phase[c] = "pending" /\ Free(c)
Release(c)   == phase[c] = "leased" /\ Free(c)

AllocNext == \E c \in Clients : \/ \E e \in Exits : Reserve(c, e)
                                \/ Commit(c)
                                \/ GiveUp(c)
                                \/ Release(c)
AllocSpec == AllocInit /\ [][AllocNext]_avars
=============================================================================
