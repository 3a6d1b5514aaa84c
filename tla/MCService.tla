----------------------------- MODULE MCService -----------------------------
(***************************************************************************)
(* Module Service with one tunnel slot, one request and the control API.   *)
(***************************************************************************)
EXTENDS MCPool, Service

ServiceOpts == [BaseOpts EXCEPT !.IPCheck = TRUE]
Sec  == "1s" :> 1 @@ "-1s" :> -1
Lows == "T1" :> "t1"
ServiceCalls == {[Plain EXCEPT !.target = "t1", !.session = "n1"]}

Guarded  == [allowed |-> {"lan"}, token |-> "tk"]
Complain == [op |-> "report", client |-> "lan", token |-> "tk", body |-> "ok",
             slot |-> "s1", session |-> "", scope |-> "T1", ip |-> "a1", lasting |-> ""]
\* Feedback in order, and what the API refuses on sight.
MCControl ==
    {Complain, [Complain EXCEPT !.op = "prefer", !.lasting = "1s"],
     [Complain EXCEPT !.slot = "", !.session = "n1"],
     [Complain EXCEPT !.op = "rotate", !.session = "n1"]} \cup
    {[Complain EXCEPT !.client = "wan"], [Complain EXCEPT !.token = ""],
     [Complain EXCEPT !.slot = ""], [Complain EXCEPT !.op = "rotate"],
     [Complain EXCEPT !.body = "malformed"], [Complain EXCEPT !.scope = ""],
     [Complain EXCEPT !.ip = "site"], [Complain EXCEPT !.lasting = "-1s"],
     [Complain EXCEPT !.op = "read", !.client = "local"]}

\* Bounds: feedback and rotations arrive before the first restart and at the first
\* instant, though they may be handled later; what a restart loads is not saved again.
FirstLife == /\ file # NoFile \/ now > 1 => ctl' \in {ctl, NoRequest}
             /\ file # NoFile /\ life = "up" => life' # "stopping"
=============================================================================
