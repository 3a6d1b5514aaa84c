------------------------------- MODULE Proxy -------------------------------
(***************************************************************************)
(* internal/proxy: the SOCKS5 and HTTP front ends, one handler goroutine   *)
(* per connection c.  A handler vets the client and the destination, asks  *)
(* the pool for an exit, dials, answers, relays and cleans up.  The pool   *)
(* is module LeaseAllocator, which module Pool implements; an Acquire that *)
(* tries several exits is one reservation here, of the last one.           *)
(***************************************************************************)
EXTENDS Policy, Netguard

CONSTANTS
    Conns,          \* client connections; each is a goroutine while it is served
    Exits, NoExit, PerExit, Total,
    Chained,        \* exits reached through a SOCKS hop
    Resolve,        \* host -> addresses a tunnel may connect to for it
    Requests,       \* connection -> what its client may send
    conf,           \* type Deps: allowed, password, RequireAuth, RequirePolicy
    PoolErrors,     \* what Acquire may return
    DialAttempts

VARIABLES
    life,           \* of the process: "up", "stopping" (serveCtx is done), "exited"
    listening,
    at, req, tries, lastErr, upstream, reply, copying, gone, late,
    phase, exit

handlerVars == <<req, tries, lastErr, upstream, reply, copying, gone, late>>
leaseVars   == <<phase, exit>>
proxyVars   == <<life, listening, at, handlerVars, leaseVars>>

A == INSTANCE LeaseAllocator WITH Clients <- Conns

\* Deps defaults to three attempts.
ASSUME AttemptAssumption == DialAttempts \in Nat \ {0}

NoRequest == [front |-> "none"]
Fronts == {"socks5", "connect", "forward"}

-----------------------------------------------------------------------------
(* What a request is answered before any exit is asked for.                *)

checkClient(rq) == conf.allowed = {} \/ rq.client \in conf.allowed

\* The user name only counts together with a password (proxyCredentials,
\* negotiate); pass = "none" is a client that presents no credentials.
UserOf(rq) == IF rq.pass = "none" THEN NoUser ELSE rq.user
\* Every user name the clients send, parsed once.
Policies == [u \in {UserOf(rq) : rq \in UNION {Requests[c] : c \in Conns}} |-> Parse(u)]
policyOf(rq) == Policies[UserOf(rq)]

\* strings.FieldsFunc and strings.Split return slices of strings.
ASSUME UserAssumption ==
    \A c \in Conns : \A rq \in Requests[c] : UserOf(rq).fields \in Directives

authorize(rq) ==
    IF \/ conf.password # "" /\ rq.pass # conf.password
       \/ conf.RequireAuth /\ rq.pass = "none"
    THEN "unauthorized"
    ELSE IF policyOf(rq) = Refused THEN "badpolicy"
    ELSE IF conf.RequirePolicy /\ IsZero(policyOf(rq)) THEN "nopolicy"
    ELSE "ok"

\* splitTargetHostPort: 0 is a missing port.
defaultPort(rq) == IF rq.front = "forward" /\ rq.form # "https" THEN 80 ELSE 443
Port(rq) == IF rq.front # "socks5" /\ rq.port = 0 THEN defaultPort(rq) ELSE rq.port

replyCodeFor(err) ==
    CASE err \in {"policy", "nocandidate", "capacity", "budget", "busy"} -> "notallowed"
      [] err \in {"batchfull", "sessionfull"} -> "general"
      [] err \in {"exhausted", "deadline"} -> "unreachable"
      [] err \in {"refused", "destination"} -> "refused"
      [] OTHER -> "general"
statusCodeFor(err) ==
    CASE err = "policy" -> "400"
      [] err = "nocandidate" -> "409"
      [] err \in {"batchfull", "busy", "sessionfull", "capacity", "budget"} -> "503"
      [] err = "deadline" -> "504"
      [] OTHER -> "502"
Answer(rq, err) == IF rq.front = "socks5" THEN replyCodeFor(err) ELSE statusCodeFor(err)

Guarded(rq) == CheckPort(Port(rq)) /\ CheckHost(rq.host)

\* ServeHTTP, handleConnect and handleForward up to the guard.  form is "ok",
\* "https", "relative" (no absolute URI) or "scheme" (one it does not serve).
HTTPVerdict(rq) ==
    LET auth == authorize(rq) IN
    IF rq.client = "unparsable" \/ ~checkClient(rq) THEN "403"
    ELSE IF auth \in {"unauthorized", "nopolicy"} THEN "407"
    ELSE IF auth = "badpolicy" THEN "400"
    ELSE IF rq.front = "forward" /\ rq.form \notin {"ok", "https"} THEN "400"
    ELSE IF (rq.host = "" /\ rq.port = 0) \/ ~PortNumber(Port(rq)) THEN "400"
    ELSE IF ~Guarded(rq) THEN IF rq.front = "forward" THEN "403" ELSE Answer(rq, "guard")
    ELSE "proceed"

\* handle, negotiate, readUserPass, readRequest.  form is "ok", "version" (of
\* any message), "method", "command" or "address".
SOCKSVerdict(rq) ==
    IF ~checkClient(rq) \/ rq.form = "version" THEN "closed"
    ELSE IF rq.form = "method" THEN "nomethod"
    ELSE IF authorize(rq) # "ok" THEN IF rq.pass = "none" THEN "nomethod" ELSE "rejected"
    ELSE IF rq.form = "command" THEN "unsupported"
    ELSE IF rq.form = "address" THEN "addrtype"
    ELSE IF rq.host = "" \/ rq.port = 0 THEN "closed"
    ELSE IF ~Guarded(rq) THEN Answer(rq, "guard")
    ELSE "proceed"

Verdict(rq) == IF rq.front = "socks5" THEN SOCKSVerdict(rq) ELSE HTTPVerdict(rq)

\* "none" and "hop" are no addresses.
ASSUME ResolveAssumption ==
    \A c \in Conns : \A rq \in Requests[c] :
        Verdict(rq) = "proceed" => Resolve[rq.host] \cap {"none", "hop"} = {}

-----------------------------------------------------------------------------
(* The life of a connection.                                               *)

ProxyInit ==
    /\ life = "up"
    /\ listening = TRUE
    /\ at = [c \in Conns |-> "idle"]
    /\ req = [c \in Conns |-> NoRequest]
    /\ tries = [c \in Conns |-> 0]
    /\ lastErr = [c \in Conns |-> "none"]
    /\ upstream = [c \in Conns |-> "none"]
    /\ reply = [c \in Conns |-> "none"]
    /\ copying = [c \in Conns |-> {}]
    /\ gone = [c \in Conns |-> FALSE]
    /\ late = [c \in Conns |-> FALSE]
    /\ A!AllocInit

Running == life # "exited"
Goto(c, label) == /\ Running
                  /\ at' = [at EXCEPT ![c] = label]
                  /\ UNCHANGED <<life, listening>>

\* A handler's context: serveCtx, and for HTTP the client's connection too.
ctxDone(c) == life # "up" \/ (gone[c] /\ req[c].front # "socks5")

Accept(c, rq) ==
    /\ listening
    /\ at[c] = "idle"
    /\ Goto(c, "negotiate")
    /\ req' = [req EXCEPT ![c] = rq]
    /\ UNCHANGED <<tries, lastErr, upstream, reply, copying, gone, late, leaseVars>>

\* The client closes its end, or dies.
ClientLeaves(c) ==
    /\ at[c] # "idle"
    /\ ~gone[c]
    /\ Goto(c, at[c])
    /\ gone' = [gone EXCEPT ![c] = TRUE]
    /\ UNCHANGED <<req, tries, lastErr, upstream, reply, copying, late, leaseVars>>

\* The handshake deadline of a SOCKS client covers everything up to its reply.
HandshakeExpires(c) ==
    /\ req[c].front = "socks5"
    /\ at[c] \notin {"idle", "relay", "end", "release"}
    /\ ~late[c]
    /\ Goto(c, at[c])
    /\ late' = [late EXCEPT ![c] = TRUE]
    /\ UNCHANGED <<req, tries, lastErr, upstream, reply, copying, gone, leaseVars>>

\* connectUpstream returns, and its local variables are gone.
ForgetAttempts(c) == /\ tries' = [tries EXCEPT ![c] = 0]
                     /\ lastErr' = [lastErr EXCEPT ![c] = "none"]

\* The handler answers code, if the client can still be told, and is done.
EndWith(c, code) ==
    /\ Goto(c, "end")
    /\ reply' = [reply EXCEPT ![c] = IF gone[c] \/ late[c] THEN "none" ELSE code]
    /\ late' = [late EXCEPT ![c] = FALSE]
    /\ ForgetAttempts(c)

\* Faulty: leaves the destination to the check after the dial.
FaultyNegotiate(c) ==
    LET v == Verdict(req[c]) IN
    /\ at[c] = "negotiate"
    /\ \/ /\ v = "proceed" \/ ~Guarded(req[c])
          /\ Goto(c, IF req[c].front = "forward" THEN "acquire" ELSE "try")
          /\ UNCHANGED <<tries, lastErr, reply, late>>
       \/ v # "proceed" /\ EndWith(c, v)
       \/ (gone[c] \/ late[c]) /\ EndWith(c, "none")
    /\ UNCHANGED <<req, upstream, copying, gone, leaseVars>>

\* The handshake, or the request head: it ends in a verdict, or because the
\* client went away or let the deadline pass.
Negotiate(c) ==
    LET v == Verdict(req[c]) IN
    /\ at[c] = "negotiate"
    /\ \/ /\ v = "proceed"
          /\ Goto(c, IF req[c].front = "forward" THEN "acquire" ELSE "try")
          /\ UNCHANGED <<tries, lastErr, reply, late>>
       \/ v # "proceed" /\ EndWith(c, v)
       \/ (gone[c] \/ late[c]) /\ EndWith(c, "none")
    /\ UNCHANGED <<req, upstream, copying, gone, leaseVars>>

-----------------------------------------------------------------------------
(* connectUpstream, and handleForward's single attempt.                    *)

\* Faulty: one attempt too many.
FaultyTry(c) ==
    /\ at[c] = "try"
    /\ \/ ctxDone(c) /\ EndWith(c, Answer(req[c], "canceled"))
       \/ /\ ~ctxDone(c) /\ tries[c] > DialAttempts
          /\ EndWith(c, Answer(req[c], lastErr[c]))
       \/ /\ ~ctxDone(c) /\ tries[c] <= DialAttempts
          /\ Goto(c, "acquire")
          /\ UNCHANGED <<tries, lastErr, reply, late>>
    /\ UNCHANGED <<req, upstream, copying, gone, leaseVars>>

\* The head of the retry loop.
Try(c) ==
    /\ at[c] = "try"
    /\ \/ ctxDone(c) /\ EndWith(c, Answer(req[c], "canceled"))
       \/ /\ ~ctxDone(c) /\ tries[c] = DialAttempts
          /\ EndWith(c, Answer(req[c], lastErr[c]))
       \/ /\ ~ctxDone(c) /\ tries[c] < DialAttempts
          /\ Goto(c, "acquire")
          /\ UNCHANGED <<tries, lastErr, reply, late>>
    /\ UNCHANGED <<req, upstream, copying, gone, leaseVars>>

AcquirePicks(c) ==
    /\ at[c] = "acquire"
    /\ \E e \in Exits : A!Reserve(c, e)
    /\ Goto(c, "setup")
    /\ UNCHANGED handlerVars

AcquireReturns(c) ==
    /\ at[c] = "setup"
    /\ A!Commit(c)
    /\ Goto(c, "dial")
    /\ UNCHANGED handlerVars

\* Acquire fails in pick, or after a reservation it rolls back.  The error of an
\* earlier attempt takes precedence.
AcquireFails(c) ==
    /\ \/ at[c] = "acquire" /\ UNCHANGED leaseVars
       \/ at[c] = "setup" /\ A!GiveUp(c)
    /\ \E err \in PoolErrors \cup {e \in {"canceled"} : ctxDone(c)} :
         EndWith(c, Answer(req[c], IF lastErr[c] # "none" THEN lastErr[c] ELSE err))
    /\ UNCHANGED <<req, upstream, copying, gone>>

\* An attempt failed: the retry loop blames the exit (NoteDialFailure) and goes
\* on; the transport of a forwarded request does neither.
AttemptFails(c, err) ==
    IF req[c].front = "forward"
    THEN EndWith(c, "502")
    ELSE /\ Goto(c, "blame")
         /\ lastErr' = [lastErr EXCEPT ![c] = err]
         /\ UNCHANGED <<tries, reply, late>>

Peers(c) == IF exit[c] \in Chained THEN {"hop"} ELSE Resolve[req[c].host]

\* dialOnce, and the forwarding transport's DialContext.  Behind a SOCKS hop the
\* peer is the hop; through a tunnel it is the destination, still to be vetted.
DialConnects(c) ==
    /\ at[c] = "dial"
    /\ \E peer \in Peers(c) : upstream' = [upstream EXCEPT ![c] = peer]
    /\ \/ exit[c] \in Chained /\ Goto(c, "answer") /\ ForgetAttempts(c)
       \/ exit[c] \notin Chained /\ Goto(c, "vet") /\ UNCHANGED <<tries, lastErr>>
    /\ UNCHANGED <<req, reply, copying, gone, late, leaseVars>>

\* The rest of it: a connection to a forbidden address is closed at once.
Vet(c) ==
    /\ at[c] = "vet"
    /\ \/ /\ CheckResolved(upstream[c])
          /\ Goto(c, "answer")
          /\ ForgetAttempts(c)
          /\ UNCHANGED <<upstream, reply, late>>
       \/ /\ ~CheckResolved(upstream[c])
          /\ AttemptFails(c, "guard")
          /\ upstream' = [upstream EXCEPT ![c] = "none"]
    /\ UNCHANGED <<req, copying, gone, leaseVars>>

\* The tunnel or the hop fails, the exit refuses the destination (ErrDestination,
\* from a hop only), DialTimeout passes, or the context ends.  The transport may let
\* a dial outlive the forwarded request that asked for it: what such a dial still
\* connects is the transport's, which closes it, and is left out.
DialErrors(c) == {"dial", "refused", "deadline"}
                 \cup (IF exit[c] \in Chained THEN {"destination"} ELSE {})
                 \cup (IF ctxDone(c) THEN {"canceled"} ELSE {})
DialFails(c) ==
    /\ at[c] = "dial"
    /\ \E err \in DialErrors(c) : AttemptFails(c, err)
    /\ UNCHANGED <<req, upstream, copying, gone, leaseVars>>

\* NoteDialFailure has been called; Release, then the next attempt.
Retry(c) ==
    /\ at[c] = "blame"
    /\ A!Release(c)
    /\ Goto(c, "try")
    /\ tries' = [tries EXCEPT ![c] = @ + 1]
    /\ UNCHANGED <<req, lastErr, upstream, reply, copying, gone, late>>

-----------------------------------------------------------------------------
(* The answer, the relay, and the deferred cleanup.                        *)

\* writeReply, writeConnectEstablished or the response head.  It fails when the
\* client is gone or the handshake deadline has passed; a forwarded request may
\* also fail upstream (ResponseHeaderTimeout among others).
Respond(c) ==
    /\ at[c] = "answer"
    /\ \/ /\ ~gone[c] /\ ~late[c]
          /\ Goto(c, "relay")
          /\ reply' = [reply EXCEPT ![c] = "ok"]
          /\ copying' = [copying EXCEPT ![c] = IF req[c].front = "forward"
                                               THEN {"down"} ELSE {"up", "down"}]
          /\ UNCHANGED <<tries, lastErr, late>>
       \/ (gone[c] \/ late[c]) /\ EndWith(c, "none") /\ UNCHANGED copying
       \/ req[c].front = "forward" /\ EndWith(c, "502") /\ UNCHANGED copying
    /\ UNCHANGED <<req, upstream, gone, leaseVars>>

\* Faulty: only the download direction reports that it is done.
FaultyDirectionEnds(c, d) ==
    /\ at[c] = "relay"
    /\ d \in copying[c]
    /\ copying' = [copying EXCEPT ![c] = @ \ {d}]
    /\ Goto(c, IF copying[c] = {d} /\ d = "down" THEN "end" ELSE "relay")
    /\ UNCHANGED <<req, tries, lastErr, upstream, reply, gone, late, leaseVars>>

\* One direction of relay ends: end of stream, an error, or IdleTimeout.  The
\* other goes on; the handler leaves when both are done.
DirectionEnds(c, d) ==
    /\ at[c] = "relay"
    /\ d \in copying[c]
    /\ copying' = [copying EXCEPT ![c] = @ \ {d}]
    /\ Goto(c, IF copying[c] = {d} THEN "end" ELSE "relay")
    /\ UNCHANGED <<req, tries, lastErr, upstream, reply, gone, late, leaseVars>>

\* Faulty: answers an error on the connection it has already hijacked.
FaultyPipelineFails(c) ==
    /\ at[c] = "relay"
    /\ req[c].front = "connect"
    /\ copying[c] = {"up", "down"}
    /\ copying' = [copying EXCEPT ![c] = {}]
    /\ EndWith(c, "502")
    /\ UNCHANGED <<req, upstream, gone, leaseVars>>

\* What the client pipelined behind CONNECT cannot be forwarded: no relay.
PipelineFails(c) ==
    /\ at[c] = "relay"
    /\ req[c].front = "connect"
    /\ copying[c] = {"up", "down"}
    /\ copying' = [copying EXCEPT ![c] = {}]
    /\ Goto(c, "end")
    /\ UNCHANGED <<req, tries, lastErr, upstream, reply, gone, late, leaseVars>>

\* Faulty: an answer that could not be written leaves the connection open.
FaultyCloseUpstream(c) ==
    /\ at[c] = "end"
    /\ Goto(c, "release")
    /\ upstream' = [upstream EXCEPT ![c] = IF reply[c] = "none" THEN @ ELSE "none"]
    /\ reply' = [reply EXCEPT ![c] = "none"]
    /\ UNCHANGED <<req, tries, lastErr, copying, gone, late, leaseVars>>

\* The deferred calls run last to first: upstream.Close ...
CloseUpstream(c) ==
    /\ at[c] = "end"
    /\ Goto(c, "release")
    /\ upstream' = [upstream EXCEPT ![c] = "none"]
    /\ reply' = [reply EXCEPT ![c] = "none"]
    /\ UNCHANGED <<req, tries, lastErr, copying, gone, late, leaseVars>>

\* ... then lease.Release, when there is a lease.
Finish(c) ==
    /\ at[c] = "release"
    /\ \/ A!Release(c)
       \/ phase[c] = "free" /\ UNCHANGED leaseVars
    /\ Goto(c, "idle")
    /\ req' = [req EXCEPT ![c] = NoRequest]
    /\ gone' = [gone EXCEPT ![c] = FALSE]
    /\ UNCHANGED <<tries, lastErr, upstream, reply, copying, late>>

\* What a handler does on its own.
Handler(c) == \/ Negotiate(c) \/ Try(c)
              \/ AcquirePicks(c) \/ AcquireReturns(c) \/ AcquireFails(c)
              \/ DialConnects(c) \/ DialFails(c) \/ Vet(c) \/ Retry(c) \/ Respond(c)
              \/ CloseUpstream(c) \/ Finish(c)

\* A signal, or a listener that failed: serveCtx is cancelled ...
Stop == /\ life = "up"
        /\ life' = "stopping"
        /\ UNCHANGED <<listening, at, handlerVars, leaseVars>>

\* ... which makes the accept loops close their listeners and return ...
ListenersClose == /\ life = "stopping" /\ listening
                  /\ listening' = FALSE
                  /\ UNCHANGED <<life, at, handlerVars, leaseVars>>

\* Faulty: waits for the connections as well.
FaultyExit == /\ ~listening /\ \A c \in Conns : at[c] = "idle"
              /\ life' = "exited"
              /\ UNCHANGED <<listening, at, handlerVars, leaseVars>>

\* ... and the process exits under the handlers that are left.
Exit == /\ life = "stopping" /\ ~listening
        /\ life' = "exited"
        /\ UNCHANGED <<listening, at, handlerVars, leaseVars>>

ProxyNext ==
    \/ \E c \in Conns : \/ \E rq \in Requests[c] : Accept(c, rq)
                        \/ ClientLeaves(c)
                        \/ HandshakeExpires(c)
                        \/ Handler(c)
                        \/ \E d \in {"up", "down"} : DirectionEnds(c, d)
                        \/ PipelineFails(c)
    \/ Stop \/ ListenersClose \/ Exit

\* Goroutines that can run do; dials, handshakes and Acquire end by their timeouts;
\* once the client is gone reading from it ends at once, and the other direction
\* ends because the upstream sees the half-close or IdleTimeout passes.  Nothing
\* obliges a connected client to finish.
ProxyFairness ==
    /\ \A c \in Conns : WF_proxyVars(Handler(c))
    /\ \A c \in Conns, d \in {"up", "down"} : WF_proxyVars(gone[c] /\ DirectionEnds(c, d))
    /\ WF_proxyVars(ListenersClose) /\ WF_proxyVars(Exit)
ProxySpec == ProxyInit /\ [][ProxyNext]_proxyVars /\ ProxyFairness

-----------------------------------------------------------------------------
(* Properties.                                                             *)

\* Types of the handlers' state.
ProxyTypeOK ==
    /\ life \in {"up", "stopping", "exited"} /\ listening \in BOOLEAN
    /\ at \in [Conns -> {"idle", "negotiate", "try", "acquire", "setup", "dial", "vet",
                         "blame", "answer", "relay", "end", "release"}]
    /\ \A c \in Conns : /\ req[c] \in Requests[c] \cup {NoRequest}
                        /\ tries[c] \in 0 .. DialAttempts
                        /\ exit[c] \in Exits \cup {NoExit}
                        /\ copying[c] \subseteq {"up", "down"}

\* Every path out of a handler (refusal, retry, lost reply, failed pipelining, a
\* client that leaves, shutdown) gives back exactly what it took: a connection to
\* the destination is only open under a lease, and a connection that is over has
\* neither.
NothingLeaks ==
    \A c \in Conns :
        /\ upstream[c] # "none" => phase[c] = "leased"
        /\ at[c] = "setup" <=> phase[c] = "pending"
        /\ at[c] \in {"idle", "negotiate", "try", "acquire"}
             => phase[c] = "free" /\ upstream[c] = "none"

\* "Reject forbidden destinations before acquiring a lease": a client that is not
\* allowed, a wrong or missing password, a user name that does not parse or selects
\* nothing where a policy is required, and a forbidden destination never take a
\* place in the pool, whichever front end they use.
RefusedTakesNothing ==
    \A c \in Conns : phase[c] # "free" => /\ Guarded(req[c])
                                          /\ authorize(req[c]) = "ok"
                                          /\ checkClient(req[c])

\* A tunnel never relays to an address inside a denied range, also when the name
\* passed the guard and resolved there, and on a retry through another exit: such
\* a connection is gone before anything else happens on it.
OutsideOnly ==
    \A c \in Conns : at[c] # "vet" /\ upstream[c] \notin {"none", "hop"}
                       => CheckAddr(upstream[c])

\* The client is told of success only while its connection exists, and a client
\* that was told so is relayed or hung up on, never told an error afterwards.
SuccessIsReal ==
    [][\A c \in Conns :
         /\ reply[c] # "ok" /\ reply'[c] = "ok"
              => upstream[c] # "none" /\ upstream'[c] = upstream[c] /\ phase'[c] = "leased"
         /\ reply[c] = "ok" => reply'[c] = "ok" \/ at'[c] = "release"]_proxyVars

\* The policy a CONNECT response echoes (X-Egress-Policy) selects what the
\* client's own user name selected; brecycle= alone is not echoed.  This is about
\* echoes that are not too long for a user name (see String).
Echoes == [p \in {Policies[u] : u \in DOMAIN Policies} \ {Refused} |-> Parse(String(p))]
EchoParses ==
    \A c \in Conns : at[c] # "idle" /\ policyOf(req[c]) # Refused =>
        Echoes[policyOf(req[c])] = [policyOf(req[c]) EXCEPT !.RecycleBatch = FALSE]

\* A client that leaves is cleaned up after, whatever its handler was doing.
AbandonedEnds == \A c \in Conns : gone[c] ~> (at[c] = "idle" \/ life = "exited")

\* The process goes down once told to, even if a client never finishes.
ServeStops == life = "stopping" ~> life = "exited"
=============================================================================
