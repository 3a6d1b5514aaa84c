----------------------------- MODULE MCHistory -----------------------------
(***************************************************************************)
(* Module PoolHistory on the small instances of module MCPool.             *)
(***************************************************************************)
EXTENDS MCPool, PoolHistory

\* Bound: no exit fails by itself meanwhile.
NoneFails == UNCHANGED failures
=============================================================================
