------------------------------ MODULE Control ------------------------------
(***************************************************************************)
(* internal/control: what the control API makes of a request.  A request   *)
(* has an op ("read" stands for every GET), the client's address, the      *)
(* bearer token and, for feedback, a JSON body; "" is a field not given.   *)
(***************************************************************************)
EXTENDS Policy

CONSTANT Loopback   \* loopback client addresses

\* A scope is lower-cased and must then be a safe token; "" is a rejected one.
normalizeHealthScope(s) == IF isSafeOpaqueToken(lower(s)) THEN lower(s) ELSE ""

mutates(rq) == rq.op \in {"report", "prefer", "rotate"}
tokenOK(cf, rq) == cf.token # "" /\ rq.token = cf.token

\* ServeHTTP: no client from outside the list, and no change from afar without the token.
Admitted(cf, rq)   == cf.allowed = {} \/ rq.client \in Loopback \cup cf.allowed
Authorized(cf, rq) == \/ (mutates(rq) => rq.client \in Loopback) /\ cf.token = ""
                      \/ tokenOK(cf, rq)

\* handleRotate, handleReport and handlePrefer: the name or the body can be used.
Decodes(rq) ==
    IF rq.op = "rotate" THEN rq.session # ""
    ELSE /\ rq.body # "malformed"
         /\ rq.slot # "" \/ (rq.op = "report" /\ rq.session # "")
         /\ normalizeHealthScope(rq.scope) # ""
         /\ rq.ip \in Addresses
         /\ rq.lasting = "" \/ (rq.lasting \in DOMAIN Seconds /\ Seconds[rq.lasting] >= 0)

\* The status of a request, or "call" when the pool is called.
ControlVerdict(cf, rq) ==
    IF ~Admitted(cf, rq) THEN "403"
    ELSE IF ~Authorized(cf, rq) THEN "401"
    ELSE IF rq.op = "read" THEN "200"
    ELSE IF Decodes(rq) THEN "call" ELSE "400"

\* The status for what Rotate, Report or Prefer returns about the slot s named,
\* or the session's one: ErrIdentityMismatch when its address is another one,
\* another error for a slot they do not know, for a session that is not bound, and
\* for praise of a slot without a stable, measured address ("").
PoolStatus(rq, s, addrOf) ==
    IF rq.op = "rotate" THEN "200"
    ELSE IF s \notin DOMAIN addrOf THEN "404"
    ELSE IF rq.op = "prefer" /\ addrOf[s] = "" THEN "404"
    ELSE IF rq.ip # addrOf[s] THEN "409"
    ELSE "200"
=============================================================================
