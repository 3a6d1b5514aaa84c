---------------------------- MODULE PoolHistory ----------------------------
(***************************************************************************)
(* The pool with a history variable, for a promise that outlives the state *)
(* the code keeps: promised[t][ip] is until when the complaints so far     *)
(* keep address ip away from health scope t.                               *)
(***************************************************************************)
EXTENDS PoolProps

VARIABLE promised
hvars == <<vars, promised>>

HInit == /\ Init
         /\ promised = [t \in Targets |-> [ip \in IPs |-> 0]]

HReport(in) ==
    LET s     == IF in.slot # NoSlot THEN in.slot ELSE sessions[in.session].slotID
        until == now + (IF in.cooldown > 0 THEN in.cooldown ELSE opts.Cooldown)
    IN
    /\ Report(in)
    /\ promised' = IF in.target = NoTarget \/ publicIP[s] = NoIP THEN promised
                   ELSE [promised EXCEPT ![in.target][publicIP[s]] = Max({@, until})]

HNext == \/ Serve /\ UNCHANGED promised
         \/ \E n \in Rotations : Rotate(n) /\ UNCHANGED promised
         \/ \E in \in ReportInputs : HReport(in)
HSpec == HInit /\ [][HNext]_hvars

\* "Active failures dominate later success reports until cooldown expiry": no
\* request for a scope is given an exit whose address was complained about,
\* through whichever slot, while any of the complaints is in force; praise, a
\* shorter complaint and a re-measured slot change nothing about it.
CooldownHolds ==
    [][\A r \in Requests :
         pc[r] = "pick" /\ pc'[r] = "dial" /\ call[r].target # NoTarget =>
           LET ip == publicIP[slot'[r]]
           IN  ip # NoIP => ~(now < promised[call[r].target][ip])]_hvars
=============================================================================
