---------------------------- MODULE ProxyProofs ----------------------------
(***************************************************************************)
(* The front ends clean up after themselves and let nothing forbidden      *)
(* through, for any number of clients and exits and for whatever the       *)
(* clients send: every action of a handler moves its connection from one   *)
(* stage to the next, and a stage says what the connection holds.          *)
(* The second half is about the policy a response echoes: what String      *)
(* writes, field by field, Parse reads back.                               *)
(***************************************************************************)
EXTENDS Proxy, FiniteSetTheorems, SequenceTheorems, WellFoundedInduction, TLAPS

Labels == {"idle", "negotiate", "try", "acquire", "setup", "dial", "vet", "blame", "answer",
           "relay", "end", "release"}

\* Every variable of the handlers has a value for every connection.
Shapes ==
    /\ life \in {"up", "stopping", "exited"} /\ listening \in BOOLEAN
    /\ at \in [Conns -> Labels]
    /\ DOMAIN req = Conns /\ DOMAIN upstream = Conns /\ DOMAIN reply = Conns
    /\ DOMAIN lastErr = Conns
    /\ tries \in [Conns -> Nat]
    /\ copying \in [Conns -> SUBSET {"up", "down"}]
    /\ gone \in [Conns -> BOOLEAN] /\ late \in [Conns -> BOOLEAN]
    /\ phase \in [Conns -> {"free", "pending", "leased"}]
    /\ exit \in [Conns -> Exits \cup {NoExit}]

\* What a connection asked for, by its stage: beyond the handshake, and wherever it has
\* a claim on the pool, it was let through.
Vetted(c) ==
    /\ req[c] \in Requests[c] \cup {NoRequest}
    /\ at[c] # "idle" => req[c] \in Requests[c]
    /\ at[c] \notin {"idle", "negotiate", "end", "release"} \/ phase[c] # "free"
         => Verdict(req[c]) = "proceed"

\* What it holds.
Holds(c) ==
    /\ at[c] \in {"idle", "negotiate", "try", "acquire"} => phase[c] = "free"
    /\ at[c] = "setup" <=> phase[c] = "pending"
    /\ at[c] \in {"dial", "vet", "blame", "answer", "relay"} => phase[c] = "leased"
    /\ at[c] \in {"vet", "answer", "relay"} => upstream[c] # "none"
    /\ at[c] \notin {"vet", "answer", "relay", "end"} => upstream[c] = "none"
    /\ upstream[c] # "none" => phase[c] = "leased"
    /\ at[c] # "vet" /\ upstream[c] \notin {"none", "hop"} => CheckAddr(upstream[c])

\* How often it has tried, and what it was told.
Told(c) ==
    /\ tries[c] <= DialAttempts
    /\ at[c] \in {"acquire", "setup", "dial", "vet", "blame"} => tries[c] < DialAttempts
    /\ at[c] \notin {"try", "acquire", "setup", "dial", "vet", "blame"} => tries[c] = 0
    /\ reply[c] = "ok" => at[c] \in {"relay", "end"}

Stage(c) == Vetted(c) /\ Holds(c) /\ Told(c)

HandlerInv == Shapes /\ \A c \in Conns : Stage(c)

\* What a handler is told by the verdict on its request.
LEMMA ProceedMeans ==
    ASSUME NEW rq, Verdict(rq) = "proceed"
    PROVE  Guarded(rq) /\ authorize(rq) = "ok" /\ checkClient(rq)
  <1>1. CASE rq.front = "socks5"
    <2>1. SOCKSVerdict(rq) = "proceed"
      BY <1>1 DEF Verdict
    <2>2. checkClient(rq) /\ authorize(rq) = "ok" /\ Guarded(rq)
      BY <1>1, <2>1 DEF SOCKSVerdict, Answer, replyCodeFor
    <2>3. QED
      BY <2>2
  <1>2. CASE rq.front # "socks5"
    <2>1. HTTPVerdict(rq) = "proceed"
      BY <1>2 DEF Verdict
    <2>2. checkClient(rq) /\ authorize(rq) \notin {"unauthorized", "nopolicy", "badpolicy"} /\ Guarded(rq)
      BY <1>2, <2>1 DEF HTTPVerdict, Answer, statusCodeFor
    <2>3. QED
      BY <2>2 DEF authorize
  <1>3. QED
    BY <1>1, <1>2

\* No error is an "ok".
LEMMA ErrorsAreNotOk ==
    ASSUME NEW rq, NEW err
    PROVE  Answer(rq, err) # "ok" /\ Verdict(rq) # "ok"
  <1>1. Answer(rq, err) # "ok" /\ Answer(rq, "guard") # "ok"
    BY DEF Answer, replyCodeFor, statusCodeFor
  <1>2. SOCKSVerdict(rq) # "ok"
    BY <1>1 DEF SOCKSVerdict
  <1>3. HTTPVerdict(rq) # "ok"
    BY <1>1 DEF HTTPVerdict
  <1>4. QED
    BY <1>1, <1>2, <1>3 DEF Verdict

LEMMA ProxyStart == ProxyInit => HandlerInv
  BY AttemptAssumption
     DEF ProxyInit, A!AllocInit, HandlerInv, Shapes, Stage, Vetted, Holds, Told, Labels

\* What ends a connection's attempts, when what it holds is in order.
LEMMA EndWithStage ==
    ASSUME Shapes, NEW c \in Conns, NEW code, EndWith(c, code), code # "ok"
    PROVE  /\ at' = [at EXCEPT ![c] = "end"] /\ tries' = [tries EXCEPT ![c] = 0]
           /\ DOMAIN reply' = Conns /\ DOMAIN lastErr' = Conns /\ late' \in [Conns -> BOOLEAN]
           /\ \A d \in Conns \ {c} : reply'[d] = reply[d]
           /\ reply'[c] # "ok" /\ UNCHANGED <<life, listening>>
  BY DEF EndWith, Goto, ForgetAttempts, Shapes

\* The connections a step is not about stay as they are.
LEMMA OthersStay ==
    ASSUME NEW c \in Conns, HandlerInv,
           \A d \in Conns \ {c} :
             /\ at'[d] = at[d] /\ req'[d] = req[d] /\ tries'[d] = tries[d] /\ reply'[d] = reply[d]
             /\ upstream'[d] = upstream[d] /\ phase'[d] = phase[d],
           Shapes', Stage(c)'
    PROVE  HandlerInv'
  BY DEF HandlerInv, Stage, Vetted, Holds, Told

\* From the client's first byte to the verdict.
LEMMA ArrivalStage ==
    ASSUME HandlerInv, NEW c \in Conns,
           (\E rq \in Requests[c] : Accept(c, rq)) \/ ClientLeaves(c) \/ HandshakeExpires(c)
           \/ Negotiate(c)
    PROVE  HandlerInv'
  <1> USE AttemptAssumption
  <1>1. Shapes /\ Stage(c)
    BY DEF HandlerInv
  <1>2. ASSUME NEW rq \in Requests[c], Accept(c, rq)
        PROVE  HandlerInv'
    <2>1. Shapes' /\ Stage(c)'
      BY <1>1, <1>2 DEF Accept, Goto, leaseVars, Shapes, Stage, Vetted, Holds, Told, Labels
    <2>2. QED
      BY <1>1, <1>2, <2>1, OthersStay DEF Accept, Goto, leaseVars, Shapes
  <1>3. CASE ClientLeaves(c) \/ HandshakeExpires(c)
    <2>1. /\ UNCHANGED <<life, listening, req, tries, lastErr, upstream, reply, copying, leaseVars>>
          /\ at' = [at EXCEPT ![c] = at[c]]
          /\ \/ gone' = [gone EXCEPT ![c] = TRUE] /\ late' = late
             \/ gone' = gone /\ late' = [late EXCEPT ![c] = TRUE]
      BY <1>3 DEF ClientLeaves, HandshakeExpires, Goto
    <2>2. at' = at
      BY <1>1, <2>1 DEF Shapes
    <2>3. Shapes'
      BY <1>1, <2>1, <2>2 DEF leaseVars, Shapes
    <2>4. QED
      BY <2>1, <2>2, <2>3 DEF HandlerInv, Stage, Vetted, Holds, Told, leaseVars
  <1>4. CASE Negotiate(c)
    <2>1. at[c] = "negotiate" /\ UNCHANGED <<req, upstream, copying, gone, leaseVars>>
      BY <1>4 DEF Negotiate
    <2>2. ASSUME NEW code, EndWith(c, code), code # "ok"
          PROVE  HandlerInv'
      <3>1. Shapes' /\ Stage(c)'
        BY <1>1, <2>1, <2>2, EndWithStage DEF leaseVars, Shapes, Stage, Vetted, Holds, Told, Labels
      <3>2. QED
        BY <1>1, <2>1, <2>2, <3>1, EndWithStage, OthersStay DEF leaseVars, Shapes
    <2>3. CASE /\ Verdict(req[c]) = "proceed"
               /\ Goto(c, IF req[c].front = "forward" THEN "acquire" ELSE "try")
               /\ UNCHANGED <<tries, lastErr, reply, late>>
      <3>1. PICK label \in {"acquire", "try"} : Goto(c, label)
        BY <2>3
      <3>2. Shapes' /\ Stage(c)'
        BY <1>1, <2>1, <2>3, <3>1 DEF Goto, leaseVars, Shapes, Stage, Vetted, Holds, Told, Labels
      <3>3. QED
        BY <1>1, <2>1, <2>3, <3>1, <3>2, OthersStay DEF Goto, leaseVars, Shapes
    <2>4. QED
      BY <1>4, <2>2, <2>3, ErrorsAreNotOk DEF Negotiate
  <1>5. QED
    BY <1>2, <1>3, <1>4

\* The retry loop and the pool.
LEMMA AttemptStage ==
    ASSUME HandlerInv, NEW c \in Conns,
           Try(c) \/ AcquirePicks(c) \/ AcquireReturns(c) \/ AcquireFails(c) \/ Retry(c)
    PROVE  HandlerInv'
  <1> USE AttemptAssumption
  <1>1. Shapes /\ Stage(c)
    BY DEF HandlerInv
  <1>2. ASSUME NEW code, EndWith(c, code), code # "ok", at[c] \in {"try", "acquire"},
               UNCHANGED <<req, upstream, copying, gone, leaseVars>>
        PROVE  HandlerInv'
    <2>1. Shapes' /\ Stage(c)'
      BY <1>1, <1>2, EndWithStage DEF leaseVars, Shapes, Stage, Vetted, Holds, Told, Labels
    <2>2. QED
      BY <1>1, <1>2, <2>1, EndWithStage, OthersStay DEF leaseVars, Shapes
  <1>3. CASE Try(c)
    <2>1. at[c] = "try" /\ UNCHANGED <<req, upstream, copying, gone, leaseVars>>
      BY <1>3 DEF Try
    <2>2. CASE /\ tries[c] < DialAttempts /\ Goto(c, "acquire")
               /\ UNCHANGED <<tries, lastErr, reply, late>>
      <3>1. Shapes' /\ Stage(c)'
        BY <1>1, <2>1, <2>2 DEF Goto, leaseVars, Shapes, Stage, Vetted, Holds, Told, Labels
      <3>2. QED
        BY <1>1, <2>1, <2>2, <3>1, OthersStay DEF Goto, leaseVars, Shapes
    <2>3. QED
      BY <1>2, <1>3, <2>1, <2>2, ErrorsAreNotOk DEF Try
  <1>4. CASE AcquirePicks(c)
    <2>1. PICK e \in Exits : A!Reserve(c, e)
      BY <1>4 DEF AcquirePicks
    <2>2. at[c] = "acquire" /\ Goto(c, "setup") /\ UNCHANGED handlerVars
      BY <1>4 DEF AcquirePicks
    <2>3. Shapes' /\ Stage(c)'
      BY <1>1, <2>1, <2>2 DEF A!Reserve, Goto, handlerVars, Shapes, Stage, Vetted, Holds, Told, Labels
    <2>4. QED
      BY <1>1, <2>1, <2>2, <2>3, OthersStay DEF A!Reserve, Goto, handlerVars, Shapes
  <1>5. CASE AcquireReturns(c)
    <2>1. Shapes' /\ Stage(c)'
      BY <1>1, <1>5 DEF AcquireReturns, A!Commit, Goto, handlerVars, Shapes, Stage, Vetted, Holds,
         Told, Labels
    <2>2. QED
      BY <1>1, <1>5, <2>1, OthersStay DEF AcquireReturns, A!Commit, Goto, handlerVars, Shapes
  <1>6. CASE AcquireFails(c)
    <2>1. PICK code : EndWith(c, code) /\ code # "ok"
      BY <1>6, ErrorsAreNotOk DEF AcquireFails
    <2>2. UNCHANGED <<req, upstream, copying, gone>>
      BY <1>6 DEF AcquireFails
    <2>3. CASE at[c] = "acquire" /\ UNCHANGED leaseVars
      BY <1>2, <2>1, <2>2, <2>3
    <2>4. CASE at[c] = "setup" /\ A!GiveUp(c)
      <3>1. Shapes' /\ Stage(c)'
        BY <1>1, <2>1, <2>2, <2>4, EndWithStage
           DEF A!GiveUp, A!Free, Shapes, Stage, Vetted, Holds, Told, Labels
      <3>2. QED
        BY <1>1, <2>1, <2>2, <2>4, <3>1, EndWithStage, OthersStay DEF A!GiveUp, A!Free, Shapes
    <2>5. QED
      BY <1>6, <2>3, <2>4 DEF AcquireFails
  <1>7. CASE Retry(c)
    <2>1. Shapes' /\ Stage(c)'
      BY <1>1, <1>7 DEF Retry, A!Release, A!Free, Goto, Shapes, Stage, Vetted, Holds, Told, Labels
    <2>2. QED
      BY <1>1, <1>7, <2>1, OthersStay DEF Retry, A!Release, A!Free, Goto, Shapes
  <1>8. QED
    BY <1>3, <1>4, <1>5, <1>6, <1>7

\* The dial, and the look at what it connected to, unless a hop does the connecting.
LEMMA DialStage ==
    ASSUME HandlerInv, NEW c \in Conns, DialConnects(c) \/ DialFails(c) \/ Vet(c)
    PROVE  HandlerInv'
  <1> USE AttemptAssumption
  <1>1. Shapes /\ Stage(c)
    BY DEF HandlerInv
  <1>2. at[c] \in {"dial", "vet"} /\ UNCHANGED <<req, copying, gone, leaseVars>>
    BY DEF DialConnects, DialFails, Vet
  <1>3. ASSUME NEW err, AttemptFails(c, err), DOMAIN upstream' = Conns, upstream'[c] = "none",
               \A d \in Conns \ {c} : upstream'[d] = upstream[d]
        PROVE  HandlerInv'
    <2>1. CASE EndWith(c, "502")
      <3>1. Shapes' /\ Stage(c)'
        BY <1>1, <1>2, <1>3, <2>1, EndWithStage
           DEF leaseVars, Shapes, Stage, Vetted, Holds, Told, Labels
      <3>2. QED
        BY <1>1, <1>2, <1>3, <2>1, <3>1, EndWithStage, OthersStay DEF leaseVars, Shapes
    <2>2. CASE /\ Goto(c, "blame") /\ lastErr' = [lastErr EXCEPT ![c] = err]
               /\ UNCHANGED <<tries, reply, late>>
      <3>1. Shapes' /\ Stage(c)'
        BY <1>1, <1>2, <1>3, <2>2 DEF Goto, leaseVars, Shapes, Stage, Vetted, Holds, Told, Labels
      <3>2. QED
        BY <1>1, <1>2, <1>3, <2>2, <3>1, OthersStay DEF Goto, leaseVars, Shapes
    <2>3. QED
      BY <1>3, <2>1, <2>2 DEF AttemptFails
  <1>4. CASE DialFails(c)
    <2>1. PICK err : AttemptFails(c, err)
      BY <1>4 DEF DialFails
    <2>2. at[c] = "dial" /\ UNCHANGED upstream
      BY <1>4 DEF DialFails
    <2>3. upstream[c] = "none"
      BY <1>1, <2>2 DEF Stage, Holds
    <2>4. QED
      BY <1>1, <1>3, <2>1, <2>2, <2>3 DEF Shapes
  <1>5. CASE DialConnects(c)
    <2>1. req[c] \in Requests[c] /\ Verdict(req[c]) = "proceed" /\ at[c] = "dial"
      BY <1>1, <1>5 DEF DialConnects, Stage, Vetted
    <2>2. PICK peer \in Peers(c) : upstream' = [upstream EXCEPT ![c] = peer]
      BY <1>5 DEF DialConnects
    <2>3. peer # "none" /\ (exit[c] \in Chained => peer = "hop")
      BY <2>1, ResolveAssumption DEF Peers
    <2>4. CASE exit[c] \in Chained /\ Goto(c, "answer") /\ ForgetAttempts(c)
      <3>1. UNCHANGED <<reply, late>>
        BY <1>5 DEF DialConnects
      <3>2. Shapes' /\ Stage(c)'
        BY <1>1, <1>2, <2>1, <2>2, <2>3, <2>4, <3>1
           DEF Goto, ForgetAttempts, leaseVars, Shapes, Stage, Vetted, Holds, Told, Labels
      <3>3. QED
        BY <1>1, <1>2, <2>2, <2>4, <3>1, <3>2, OthersStay
           DEF Goto, ForgetAttempts, leaseVars, Shapes
    <2>5. CASE Goto(c, "vet") /\ UNCHANGED <<tries, lastErr>>
      <3>1. UNCHANGED <<reply, late>>
        BY <1>5 DEF DialConnects
      <3>2. Shapes' /\ Stage(c)'
        BY <1>1, <1>2, <2>1, <2>2, <2>3, <2>5, <3>1
           DEF Goto, leaseVars, Shapes, Stage, Vetted, Holds, Told, Labels
      <3>3. QED
        BY <1>1, <1>2, <2>2, <2>5, <3>1, <3>2, OthersStay DEF Goto, leaseVars, Shapes
    <2>6. QED
      BY <1>5, <2>4, <2>5 DEF DialConnects
  <1>6. CASE Vet(c)
    <2>1. at[c] = "vet"
      BY <1>6 DEF Vet
    <2>2. CASE /\ CheckResolved(upstream[c]) /\ Goto(c, "answer") /\ ForgetAttempts(c)
               /\ UNCHANGED <<upstream, reply, late>>
      <3>1. CheckAddr(upstream[c])
        BY <2>2 DEF CheckResolved
      <3>2. Shapes'
        BY <1>1, <1>2, <2>2 DEF Goto, ForgetAttempts, leaseVars, Shapes, Labels
      <3>3. Stage(c)'
        BY <1>1, <1>2, <2>1, <2>2, <3>1
           DEF Goto, ForgetAttempts, leaseVars, Shapes, Stage, Vetted, Holds, Told
      <3>4. QED
        BY <1>1, <1>2, <2>2, <3>2, <3>3, OthersStay DEF Goto, ForgetAttempts, leaseVars, Shapes
    <2>3. CASE AttemptFails(c, "guard") /\ upstream' = [upstream EXCEPT ![c] = "none"]
      BY <1>1, <1>3, <2>3 DEF Shapes
    <2>4. QED
      BY <1>6, <2>2, <2>3 DEF Vet
  <1>7. QED
    BY <1>4, <1>5, <1>6

\* The answer, the relay and the cleanup.
LEMMA AnswerStage ==
    ASSUME HandlerInv, NEW c \in Conns,
           Respond(c) \/ (\E d \in {"up", "down"} : DirectionEnds(c, d)) \/ PipelineFails(c)
           \/ CloseUpstream(c) \/ Finish(c)
    PROVE  HandlerInv'
  <1> USE AttemptAssumption
  <1>1. Shapes /\ Stage(c)
    BY DEF HandlerInv
  <1>2. CASE Respond(c)
    <2>1. at[c] = "answer" /\ UNCHANGED <<req, upstream, gone, leaseVars>>
      BY <1>2 DEF Respond
    <2>2. ASSUME NEW code, EndWith(c, code), code # "ok", UNCHANGED copying
          PROVE  HandlerInv'
      <3>1. Shapes' /\ Stage(c)'
        BY <1>1, <2>1, <2>2, EndWithStage DEF leaseVars, Shapes, Stage, Vetted, Holds, Told, Labels
      <3>2. QED
        BY <1>1, <2>1, <2>2, <3>1, EndWithStage, OthersStay DEF leaseVars, Shapes
    <2>3. ASSUME NEW D \in SUBSET {"up", "down"}, copying' = [copying EXCEPT ![c] = D],
                 Goto(c, "relay"), reply' = [reply EXCEPT ![c] = "ok"],
                 UNCHANGED <<tries, lastErr, late>>
          PROVE  HandlerInv'
      <3>1. Shapes' /\ Stage(c)'
        BY <1>1, <2>1, <2>3 DEF Goto, leaseVars, Shapes, Stage, Vetted, Holds, Told, Labels
      <3>2. QED
        BY <1>1, <2>1, <2>3, <3>1, OthersStay DEF Goto, leaseVars, Shapes
    <2>4. QED
      BY <1>2, <2>2, <2>3 DEF Respond
  <1>3. ASSUME NEW label \in {"end", "relay"}, NEW D \in SUBSET {"up", "down"}, at[c] = "relay",
               copying' = [copying EXCEPT ![c] = D], Goto(c, label),
               UNCHANGED <<req, tries, lastErr, upstream, reply, gone, late, leaseVars>>
        PROVE  HandlerInv'
    <2>1. Shapes' /\ Stage(c)'
      BY <1>1, <1>3 DEF Goto, leaseVars, Shapes, Stage, Vetted, Holds, Told, Labels
    <2>2. QED
      BY <1>1, <1>3, <2>1, OthersStay DEF Goto, leaseVars, Shapes
  <1>4. ASSUME NEW d \in {"up", "down"}, DirectionEnds(c, d)
        PROVE  HandlerInv'
    <2>1. copying[c] \ {d} \in SUBSET {"up", "down"}
      BY <1>1 DEF Shapes
    <2>2. QED
      BY <1>3, <1>4, <2>1 DEF DirectionEnds
  <1>5. CASE PipelineFails(c)
    BY <1>3, <1>5 DEF PipelineFails
  <1>6. CASE CloseUpstream(c)
    <2>1. Shapes' /\ Stage(c)'
      BY <1>1, <1>6 DEF CloseUpstream, Goto, leaseVars, Shapes, Stage, Vetted, Holds, Told, Labels
    <2>2. QED
      BY <1>1, <1>6, <2>1, OthersStay DEF CloseUpstream, Goto, leaseVars, Shapes
  <1>7. CASE Finish(c)
    <2>1. \/ A!Release(c)
          \/ phase[c] = "free" /\ UNCHANGED leaseVars
      BY <1>7 DEF Finish
    <2>2. phase' \in [Conns -> {"free", "pending", "leased"}] /\ phase'[c] = "free"
          /\ exit' \in [Conns -> Exits \cup {NoExit}]
          /\ \A d \in Conns \ {c} : phase'[d] = phase[d]
      BY <1>1, <2>1 DEF A!Release, A!Free, leaseVars, Shapes
    <2>3. /\ at[c] = "release" /\ Goto(c, "idle") /\ req' = [req EXCEPT ![c] = NoRequest]
          /\ gone' = [gone EXCEPT ![c] = FALSE]
          /\ UNCHANGED <<tries, lastErr, upstream, reply, copying, late>>
      BY <1>7 DEF Finish
    <2>4. Shapes' /\ Stage(c)'
      BY <1>1, <2>2, <2>3 DEF Goto, Shapes, Stage, Vetted, Holds, Told, Labels
    <2>5. QED
      BY <1>1, <2>2, <2>3, <2>4, OthersStay DEF Goto, Shapes
  <1>8. QED
    BY <1>2, <1>4, <1>5, <1>6, <1>7

LEMMA ProxyStep == HandlerInv /\ [ProxyNext]_proxyVars => HandlerInv'
  <1> SUFFICES ASSUME HandlerInv, [ProxyNext]_proxyVars PROVE HandlerInv'
    OBVIOUS
  <1>1. CASE UNCHANGED proxyVars \/ Stop \/ ListenersClose \/ Exit
    <2>1. Shapes'
      BY <1>1 DEF HandlerInv, Shapes, proxyVars, Stop, ListenersClose, Exit, handlerVars, leaseVars
    <2>2. UNCHANGED <<at, handlerVars, leaseVars>>
      BY <1>1 DEF proxyVars, Stop, ListenersClose, Exit
    <2>3. QED
      BY <2>1, <2>2 DEF HandlerInv, Stage, Vetted, Holds, Told, handlerVars, leaseVars
  <1>2. QED
    BY <1>1, ArrivalStage, AttemptStage, DialStage, AnswerStage DEF ProxyNext, Handler

LEMMA ProxyInvariant == ProxySpec => []HandlerInv
  BY ProxyStart, ProxyStep, PTL DEF ProxySpec

\* The handlers' state stays of its types; no request is tried more often than DialAttempts.
THEOREM HandlersTyped == ProxySpec => []ProxyTypeOK
  <1>1. HandlerInv => ProxyTypeOK
    BY AttemptAssumption DEF HandlerInv, Shapes, Stage, Vetted, Told, ProxyTypeOK, Labels
  <1>2. QED
    BY <1>1, ProxyInvariant, PTL

\* Whatever way out a handler takes, the lease and the connection it took are given back,
\* and a connection to a destination exists under a lease only.
THEOREM HandlersGiveBack == ProxySpec => []NothingLeaks
  <1>1. HandlerInv => NothingLeaks
    BY DEF HandlerInv, Stage, Holds, NothingLeaks
  <1>2. QED
    BY <1>1, ProxyInvariant, PTL

\* No place in the pool for a client that is not allowed, credentials or a policy that are
\* not accepted, or a forbidden destination.
THEOREM RefusalsTakeNothing == ProxySpec => []RefusedTakesNothing
  <1>1. HandlerInv => RefusedTakesNothing
    BY ProceedMeans DEF HandlerInv, Stage, Vetted, RefusedTakesNothing
  <1>2. QED
    BY <1>1, ProxyInvariant, PTL

\* No tunnel relays into a denied range, whatever names resolve to and however often the
\* dial is tried again.
THEOREM TunnelsStayOutside == ProxySpec => []OutsideOnly
  <1>1. HandlerInv => OutsideOnly
    BY DEF HandlerInv, Stage, Holds, OutsideOnly
  <1>2. QED
    BY <1>1, ProxyInvariant, PTL

\* Which steps tell the client anything, and from where.
LEMMA ReplySteps ==
    ASSUME HandlerInv, [ProxyNext]_proxyVars
    PROVE  \/ UNCHANGED reply
           \/ \E c \in Conns :
                /\ \A d \in Conns \ {c} : reply'[d] = reply[d]
                /\ \/ reply'[c] # "ok" /\ at[c] \notin {"relay", "end"}
                   \/ at[c] = "end" /\ at'[c] = "release" /\ reply'[c] # "ok"
                   \/ at[c] = "answer" /\ UNCHANGED <<upstream, leaseVars>>
  <1>1. Shapes
    BY DEF HandlerInv
  <1>2. ASSUME NEW c \in Conns, NEW code, EndWith(c, code), code # "ok", at[c] \notin {"relay", "end"}
        PROVE  /\ \A d \in Conns \ {c} : reply'[d] = reply[d]
               /\ reply'[c] # "ok" /\ at[c] \notin {"relay", "end"}
    BY <1>1, <1>2, EndWithStage
  <1>3. ASSUME NEW c \in Conns, Negotiate(c) \/ Try(c) \/ AcquireFails(c)
        PROVE  \/ UNCHANGED reply
               \/ \E code : EndWith(c, code) /\ code # "ok" /\ at[c] \notin {"relay", "end"}
    BY <1>3, ErrorsAreNotOk DEF Negotiate, Try, AcquireFails
  <1>4. ASSUME NEW c \in Conns, DialConnects(c) \/ DialFails(c) \/ Vet(c)
        PROVE  \/ UNCHANGED reply
               \/ \E code : EndWith(c, code) /\ code # "ok" /\ at[c] \notin {"relay", "end"}
    BY <1>4 DEF DialConnects, DialFails, Vet, AttemptFails
  <1>5. ASSUME NEW c \in Conns, Respond(c)
        PROVE  /\ \A d \in Conns \ {c} : reply'[d] = reply[d]
               /\ at[c] = "answer" /\ UNCHANGED <<upstream, leaseVars>>
    BY <1>1, <1>5, EndWithStage DEF Respond, EndWith, Shapes
  <1>6. ASSUME NEW c \in Conns, CloseUpstream(c)
        PROVE  /\ \A d \in Conns \ {c} : reply'[d] = reply[d]
               /\ at[c] = "end" /\ at'[c] = "release" /\ reply'[c] # "ok"
    BY <1>1, <1>6 DEF CloseUpstream, Goto, Shapes
  <1>7. ASSUME NEW c \in Conns,
               \/ \E rq \in Requests[c] : Accept(c, rq)
               \/ ClientLeaves(c) \/ HandshakeExpires(c) \/ PipelineFails(c)
               \/ \E d \in {"up", "down"} : DirectionEnds(c, d)
               \/ AcquirePicks(c) \/ AcquireReturns(c) \/ Retry(c) \/ Finish(c)
        PROVE  UNCHANGED reply
    BY <1>7 DEF Accept, ClientLeaves, HandshakeExpires, PipelineFails, DirectionEnds, AcquirePicks,
       AcquireReturns, Retry, Finish, handlerVars
  <1>8. CASE UNCHANGED proxyVars \/ Stop \/ ListenersClose \/ Exit
    BY <1>8 DEF proxyVars, Stop, ListenersClose, Exit, handlerVars
  <1>9. QED
    BY <1>2, <1>3, <1>4, <1>5, <1>6, <1>7, <1>8 DEF ProxyNext, Handler

\* A client is told of success about a connection that exists, and is told nothing else
\* afterwards.
THEOREM SuccessesAreReal == ProxySpec => SuccessIsReal
  <1>1. ASSUME HandlerInv, [ProxyNext]_proxyVars
        PROVE  [\A c \in Conns :
                  /\ reply[c] # "ok" /\ reply'[c] = "ok"
                       => upstream[c] # "none" /\ upstream'[c] = upstream[c] /\ phase'[c] = "leased"
                  /\ reply[c] = "ok" => reply'[c] = "ok" \/ at'[c] = "release"]_proxyVars
    <2> SUFFICES ASSUME NEW c \in Conns
                 PROVE  /\ reply[c] # "ok" /\ reply'[c] = "ok"
                             => /\ upstream[c] # "none" /\ upstream'[c] = upstream[c]
                                /\ phase'[c] = "leased"
                        /\ reply[c] = "ok" => reply'[c] = "ok" \/ at'[c] = "release"
      OBVIOUS
    <2>1. Stage(c)
      BY <1>1 DEF HandlerInv
    <2>2. \/ reply'[c] = reply[c]
          \/ reply'[c] # "ok" /\ at[c] \notin {"relay", "end"}
          \/ at[c] = "end" /\ at'[c] = "release" /\ reply'[c] # "ok"
          \/ at[c] = "answer" /\ UNCHANGED <<upstream, leaseVars>>
      BY <1>1, ReplySteps
    <2>3. CASE reply[c] = "ok"
      BY <2>1, <2>2, <2>3 DEF Stage, Told
    <2>4. CASE reply[c] # "ok" /\ reply'[c] = "ok"
      <3>1. at[c] = "answer" /\ UNCHANGED <<upstream, leaseVars>>
        BY <2>2, <2>4
      <3>2. QED
        BY <2>1, <2>4, <3>1 DEF Stage, Holds, leaseVars
    <2>5. QED
      BY <2>3, <2>4
  <1>2. QED
    BY <1>1, ProxyInvariant, PTL DEF ProxySpec, SuccessIsReal

-----------------------------------------------------------------------------
(* What Parse makes of a sequence of directives: each is applied to what   *)
(* the ones before it amount to.  Induction is by the smallest             *)
(* counterexample.                                                         *)

Directive == [key : STRING, items : Seq(STRING)]

LEMMA Smallest ==
    ASSUME NEW T, T \subseteq Nat, T # {}
    PROVE  \E x \in T : \A y \in T : x <= y
  <1>1. \E x \in T : \A y \in T : ~(<<y, x>> \in OpToRel(<, Nat))
    BY WFMin, NatLessThanWellFounded
  <1>2. \E x \in T : \A y \in T : ~(y < x)
    BY <1>1 DEF OpToRel
  <1>3. QED
    BY <1>2

\* f gives what the first 0, 1, ..., m directives amount to.
Run(f, fields, m) ==
    /\ f = [i \in 0 .. m |-> f[i]]
    /\ f[0] = ZeroPolicy
    /\ \A i \in 1 .. m : f[i] = apply(f[i - 1], fields[i])

LEMMA RunsExist ==
    ASSUME NEW fields, NEW n \in Nat
    PROVE  \A m \in 0 .. n : \E f : Run(f, fields, m)
  <1> DEFINE T == {m \in 0 .. n : ~ \E f : Run(f, fields, m)}
  <1>1. SUFFICES ASSUME T # {} PROVE FALSE
    OBVIOUS
  <1>2. T \subseteq Nat
    OBVIOUS
  <1>3. PICK m \in T : \A y \in T : m <= y
    BY <1>1, <1>2, Smallest
  <1>4. m # 0
    <2>1. Run([i \in 0 .. 0 |-> ZeroPolicy], fields, 0)
      BY DEF Run
    <2>2. QED
      BY <1>3, <2>1
  <1>5. m \in 1 .. n /\ m - 1 \in 0 .. n /\ m - 1 \notin T
    BY <1>3, <1>4
  <1>6. PICK f : Run(f, fields, m - 1)
    BY <1>5
  <1> DEFINE r == apply(f[m - 1], fields[m])
             g == [i \in 0 .. m |-> IF i = m THEN r ELSE f[i]]
  <1>7. /\ g[0] = f[0] /\ g[m] = r
        /\ \A i \in 0 .. m - 1 : g[i] = f[i]
        /\ g = [i \in 0 .. m |-> g[i]]
    <2> HIDE DEF r
    <2>1. QED
      BY <1>5
  <1>8. g[m] = apply(g[m - 1], fields[m])
    <2>1. g[m - 1] = f[m - 1]
      BY <1>5, <1>7
    <2>2. QED
      BY <1>7, <2>1
  <1> HIDE DEF g, r
  <1>9. ASSUME NEW i \in 1 .. m PROVE g[i] = apply(g[i - 1], fields[i])
    <2>1. CASE i = m
      BY <1>8, <2>1
    <2>2. CASE i # m
      <3>1. i \in 1 .. m - 1 /\ i \in 0 .. m - 1 /\ i - 1 \in 0 .. m - 1
        BY <1>5, <2>2
      <3>2. f[i] = apply(f[i - 1], fields[i]) /\ g[i] = f[i] /\ g[i - 1] = f[i - 1]
        BY <1>6, <1>7, <3>1 DEF Run
      <3>3. QED
        BY <3>2
    <2>3. QED
      BY <2>1, <2>2
  <1>10. Run(g, fields, m)
    BY <1>6, <1>7, <1>9 DEF Run
  <1>11. QED
    BY <1>3, <1>10

\* What the first directives amount to does not depend on the ones that follow.
LEMMA RunsAgree ==
    ASSUME NEW f, NEW g, NEW s, NEW t, NEW m \in Nat, NEW n \in Nat, m <= n,
           Run(f, s, m), Run(g, t, n), \A i \in 1 .. m : s[i] = t[i]
    PROVE  f[m] = g[m]
  <1> DEFINE T == {i \in 0 .. m : f[i] # g[i]}
  <1>1. SUFFICES ASSUME T # {} PROVE FALSE
    OBVIOUS
  <1>2. T \subseteq Nat
    OBVIOUS
  <1>3. PICK i \in T : \A y \in T : i <= y
    BY <1>1, <1>2, Smallest
  <1>4. i # 0
    BY <1>3 DEF Run
  <1>5. i \in 1 .. m /\ i \in 1 .. n /\ i - 1 \in 0 .. m /\ i - 1 \notin T
    BY <1>3, <1>4
  <1>6. f[i - 1] = g[i - 1] /\ s[i] = t[i]
    BY <1>5
  <1>7. f[i] = apply(f[i - 1], s[i]) /\ g[i] = apply(g[i - 1], t[i])
    BY <1>5 DEF Run
  <1>8. QED
    BY <1>3, <1>6, <1>7

LEMMA AppliedRuns ==
    ASSUME NEW fields, Len(fields) \in Nat
    PROVE  \E f : Run(f, fields, Len(fields)) /\ Applied(fields) = f[Len(fields)]
  <1> DEFINE n == Len(fields)
             F(f) == [i \in 0 .. n |-> IF i = 0 THEN ZeroPolicy ELSE apply(f[i - 1], fields[i])]
             after == CHOOSE f : f = F(f)
  <1>1. Applied(fields) = after[n]
    BY DEF Applied
  <1>2. PICK f : Run(f, fields, n)
    <2>1. n \in Nat /\ n \in 0 .. n
      OBVIOUS
    <2> HIDE DEF n
    <2>2. QED
      BY <2>1, RunsExist
  <1>3. f = F(f)
    <2>1. \A i \in 0 .. n : i # 0 => i \in 1 .. n
      OBVIOUS
    <2>2. \A i \in 0 .. n : f[i] = F(f)[i]
      BY <1>2, <2>1 DEF Run
    <2>3. f = [i \in 0 .. n |-> f[i]]
      BY <1>2 DEF Run
    <2>4. F(f) = [i \in 0 .. n |-> F(f)[i]]
      OBVIOUS
    <2> HIDE DEF F, n
    <2>5. QED
      BY <2>2, <2>3, <2>4
  <1>4. after = F(after)
    <2> HIDE DEF F
    <2>1. QED
      BY <1>3
  <1> HIDE DEF after
  <1>5. after[0] = ZeroPolicy /\ \A i \in 1 .. n : after[i] = apply(after[i - 1], fields[i])
    BY <1>4
  <1>6. after = [i \in 0 .. n |-> after[i]]
    BY <1>4
  <1>7. Run(after, fields, n)
    BY <1>5, <1>6 DEF Run
  <1>8. QED
    BY <1>1, <1>7

LEMMA AppliedNone == Applied(<<>>) = ZeroPolicy
  BY AppliedRuns, EmptySeq DEF Run

LEMMA AppliedOneMore ==
    ASSUME NEW D, NEW s \in Seq(D), NEW d \in D
    PROVE  Applied(s \o <<d>>) = apply(Applied(s), d)
  <1> DEFINE t == s \o <<d>>
             n == Len(s)
  <1>1. n \in Nat /\ Len(t) = n + 1 /\ t[n + 1] = d /\ \A i \in 1 .. n : t[i] = s[i]
    BY LenProperties
  <1>2. PICK f : Run(f, s, n) /\ Applied(s) = f[n]
    BY <1>1, AppliedRuns
  <1>3. PICK g : Run(g, t, n + 1) /\ Applied(t) = g[n + 1]
    <2> HIDE DEF t, n
    <2>1. QED
      BY <1>1, AppliedRuns
  <1> HIDE DEF t, n
  <1>4. f[n] = g[n]
    <2>1. n \in Nat /\ n + 1 \in Nat /\ n <= n + 1
      BY <1>1
    <2>2. Run(f, s, n) /\ Run(g, t, n + 1) /\ \A i \in 1 .. n : s[i] = t[i]
      BY <1>1, <1>2, <1>3
    <2> DEFINE m == n + 1
    <2> HIDE DEF m
    <2>3. m \in Nat /\ n <= m /\ Run(g, t, m)
      BY <2>1, <2>2 DEF m
    <2>4. QED
      BY <2>1, <2>2, <2>3, RunsAgree
  <1>5. n \in Nat => n + 1 \in 1 .. n + 1 /\ (n + 1) - 1 = n
    OBVIOUS
  <1>6. g[n + 1] = apply(g[n], t[n + 1])
    BY <1>1, <1>3, <1>5 DEF Run
  <1>7. QED
    BY <1>1, <1>2, <1>3, <1>4, <1>6 DEF t

-----------------------------------------------------------------------------
(* What one directive does, key by key, and what is true of every policy.  *)

Fields == {"AnyExit", "Countries", "Cities", "Slot", "Provider", "Session", "TTL", "UniqueBatch",
           "BatchTTL", "RecycleBatch", "HealthScope", "ExcludeIPs"}
Shaped(p) == p = [f \in Fields |-> p[f]] /\ p.AnyExit \in BOOLEAN

Absent == ""

\* A list of lower-cased names, a lifetime that can be written down, a list of addresses.
Lowered(S) == IsFiniteSet(S) /\ Absent \notin S /\ \A x \in S : lower(x) = x
Spelt(n) == n \in Nat /\ (n = 0 \/ \E v \in DOMAIN Seconds : Seconds[v] = n)
Addressed(S) == IsFiniteSet(S) /\ S \subseteq Addresses

Wellformed(p) ==
    /\ Shaped(p)
    /\ Lowered(p.Countries) /\ Lowered(p.Cities)
    /\ Spelt(p.TTL) /\ Spelt(p.BatchTTL)
    /\ Addressed(p.ExcludeIPs)

\* A value that is not a list, and the values that are one, as apply reads them.
Scalar(d) == IF Len(d.items) = 1 THEN d.items[1] ELSE "|"
Items(d) == {lower(d.items[i]) : i \in DOMAIN d.items} \ {Absent}
Listing(d) == {d.items[i] : i \in DOMAIN d.items}

LEMMA ShapedIsNoRefusal == \A p : Shaped(p) => p # Refused
  <1> SUFFICES ASSUME NEW p, Shaped(p) PROVE p # Refused
    OBVIOUS
  <1>1. "AnyExit" \in DOMAIN p
    BY DEF Shaped, Fields
  <1>2. "AnyExit" \notin DOMAIN Refused
    BY DEF Refused
  <1>3. QED
    BY <1>1, <1>2

LEMMA ZeroIsWellformed == Wellformed(ZeroPolicy)
  <1>1. Shaped(ZeroPolicy)
    BY DEF ZeroPolicy, Shaped, Fields
  <1>2. QED
    BY <1>1, FS_EmptySet DEF Wellformed, ZeroPolicy, Lowered, Spelt, Addressed

\* A policy of which one field is changed.
LEMMA ShapeKept ==
    ASSUME NEW p, Shaped(p), NEW v
    PROVE  \A f \in Fields \ {"AnyExit"} :
             Shaped([p EXCEPT ![f] = v]) /\ [p EXCEPT ![f] = v][f] = v
  BY DEF Shaped, Fields

\* The directives with one value.
LEMMA AppliesScalars ==
    ASSUME NEW p, p # Refused, NEW d, d.items # <<>>
    PROVE  /\ d.key = "slot" => apply(p, d) = [p EXCEPT !.Slot = Scalar(d)]
           /\ d.key = "provider" => apply(p, d) = [p EXCEPT !.Provider = Scalar(d)]
           /\ d.key = "sess" => apply(p, d) = [p EXCEPT !.Session = Scalar(d)]
           /\ d.key = "uniq" => apply(p, d) = [p EXCEPT !.UniqueBatch = Scalar(d)]
           /\ d.key = "health" => apply(p, d) = [p EXCEPT !.HealthScope = Scalar(d)]
  BY DEF apply, Scalar

LEMMA AppliesLists ==
    ASSUME NEW p, p # Refused, NEW d, d.items # <<>>
    PROVE  /\ d.key = "cc" => apply(p, d) = [p EXCEPT !.Countries = @ \cup Items(d)]
           /\ d.key = "city" => apply(p, d) = [p EXCEPT !.Cities = @ \cup Items(d)]
           /\ d.key = "not" =>
                apply(p, d) = IF \A i \in DOMAIN d.items : d.items[i] \in Addresses
                              THEN [p EXCEPT !.ExcludeIPs = @ \cup Listing(d)] ELSE Refused
  BY Zenon DEF apply, Items, Listing, Absent

LEMMA AppliesChoices ==
    ASSUME NEW p, p # Refused, NEW d, d.items # <<>>
    PROVE  /\ d.key = "any" =>
                apply(p, d) = IF Scalar(d) \in Truths \cup Falsehoods
                              THEN [p EXCEPT !.AnyExit = Scalar(d) \in Truths] ELSE Refused
           /\ d.key = "brecycle" =>
                apply(p, d) = IF Scalar(d) \in Truths \cup Falsehoods
                              THEN [p EXCEPT !.RecycleBatch = Scalar(d) \in Truths] ELSE Refused
           /\ d.key = "ttl" =>
                apply(p, d) = IF Scalar(d) \in DOMAIN Seconds /\ Seconds[Scalar(d)] >= 0
                              THEN [p EXCEPT !.TTL = Seconds[Scalar(d)]] ELSE Refused
           /\ d.key = "bttl" =>
                apply(p, d) = IF Scalar(d) \in DOMAIN Seconds /\ Seconds[Scalar(d)] > 0
                              THEN [p EXCEPT !.BatchTTL = Seconds[Scalar(d)]] ELSE Refused
  BY DEF apply, Scalar

Keys == {"any", "cc", "city", "slot", "provider", "sess", "ttl", "uniq", "brecycle", "bttl",
         "health", "not"}

LEMMA AppliesNothingElse ==
    ASSUME NEW p, NEW d, p = Refused \/ d.items = <<>> \/ d.key \notin Keys
    PROVE  apply(p, d) = Refused
  <1>1. CASE p = Refused \/ d.items = <<>>
    BY <1>1, Zenon DEF apply
  <1>2. CASE ~(p = Refused \/ d.items = <<>>)
    <2>1. d.key \notin Keys
      BY <1>2
    <2>2. QED
      BY <1>2, <2>1, ZenonT(60) DEF apply, Keys
  <1>3. QED
    BY <1>1, <1>2

\* A list grows by the items of one directive.
LEMMA ItemsLowered ==
    ASSUME NEW d, d.items \in Seq(STRING), NEW S, Lowered(S)
    PROVE  Lowered(S \cup Items(d))
  <1> DEFINE n == Len(d.items)
             L == {lower(d.items[i]) : i \in 1 .. n}
  <1>1. n \in Nat /\ DOMAIN d.items = 1 .. n
    BY LenProperties
  <1> DEFINE f == [i \in 1 .. n |-> lower(d.items[i])]
  <1>2. f \in Surjection(1 .. n, L)
    BY DEF Surjection
  <1>3. IsFiniteSet(L)
    <2> HIDE DEF f, L
    <2>1. QED
      BY <1>1, <1>2, FS_Interval, FS_Surjection
  <1>4. Items(d) = L \ {Absent}
    BY <1>1 DEF Items
  <1> HIDE DEF L, f, n
  <1>5. IsFiniteSet(S \cup Items(d))
    BY <1>3, <1>4, FS_Difference, FS_Union DEF Lowered
  <1>6. \A x \in Items(d) : lower(x) = x
    <2>1. \A v : lower(lower(v)) = lower(v)
      BY LowerAssumption DEF lower
    <2>2. \A x \in L : lower(x) = x
      BY <2>1 DEF L
    <2>3. QED
      BY <1>4, <2>2
  <1>7. QED
    BY <1>4, <1>5, <1>6 DEF Lowered

LEMMA ListingAddressed ==
    ASSUME NEW d, d.items \in Seq(STRING), NEW S, Addressed(S),
           \A i \in DOMAIN d.items : d.items[i] \in Addresses
    PROVE  Addressed(S \cup Listing(d))
  <1> DEFINE n == Len(d.items)
  <1>1. n \in Nat /\ DOMAIN d.items = 1 .. n
    BY LenProperties
  <1> DEFINE f == [i \in 1 .. n |-> d.items[i]]
  <1>2. f \in Surjection(1 .. n, Listing(d))
    BY <1>1 DEF Surjection, Listing
  <1>3. IsFiniteSet(Listing(d))
    <2> HIDE DEF f
    <2>1. QED
      BY <1>1, <1>2, FS_Interval, FS_Surjection
  <1>4. Listing(d) \subseteq Addresses
    BY DEF Listing
  <1>5. QED
    BY <1>3, <1>4, FS_Union DEF Addressed

\* Whatever it says, a directive makes of a well-formed policy another one, or none.
LEMMA ApplyKeeps ==
    ASSUME NEW p, Wellformed(p), NEW d \in Directive
    PROVE  apply(p, d) = Refused \/ Wellformed(apply(p, d))
  <1> DEFINE q == apply(p, d)
  <1>1. Shaped(p) /\ p # Refused /\ d.items \in Seq(STRING)
    BY ShapedIsNoRefusal DEF Wellformed, Directive
  <1>2. CASE d.items = <<>> \/ d.key \notin Keys
    BY <1>2, AppliesNothingElse
  <1>3. CASE d.items # <<>> /\ d.key = "cc"
    <2>1. q = [p EXCEPT !.Countries = p.Countries \cup Items(d)]
      BY <1>1, <1>3, AppliesLists
    <2>2. Lowered(p.Countries \cup Items(d))
      BY <1>1, ItemsLowered DEF Wellformed
    <2>3. QED
      BY <1>1, <2>1, <2>2 DEF Wellformed, Shaped, Fields
  <1>4. CASE d.items # <<>> /\ d.key = "city"
    <2>1. q = [p EXCEPT !.Cities = p.Cities \cup Items(d)]
      BY <1>1, <1>4, AppliesLists
    <2>2. Lowered(p.Cities \cup Items(d))
      BY <1>1, ItemsLowered DEF Wellformed
    <2>3. QED
      BY <1>1, <2>1, <2>2 DEF Wellformed, Shaped, Fields
  <1>5. CASE d.items # <<>> /\ d.key = "not"
    <2>1. CASE \A i \in DOMAIN d.items : d.items[i] \in Addresses
      <3>1. q = [p EXCEPT !.ExcludeIPs = p.ExcludeIPs \cup Listing(d)]
        BY <1>1, <1>5, <2>1, AppliesLists
      <3>2. Addressed(p.ExcludeIPs \cup Listing(d))
        BY <1>1, <2>1, ListingAddressed DEF Wellformed
      <3>3. QED
        BY <1>1, <3>1, <3>2 DEF Wellformed, Shaped, Fields
    <2>2. CASE ~ \A i \in DOMAIN d.items : d.items[i] \in Addresses
      BY <1>1, <1>5, <2>2, AppliesLists
    <2>3. QED
      BY <2>1, <2>2
  <1>6. CASE d.items # <<>> /\ d.key \in {"slot", "provider", "sess", "uniq", "health"}
    <2>1. PICK f \in {"Slot", "Provider", "Session", "UniqueBatch", "HealthScope"} :
            q = [p EXCEPT ![f] = Scalar(d)]
      BY <1>1, <1>6, AppliesScalars
    <2>2. QED
      BY <1>1, <2>1 DEF Wellformed, Shaped, Fields
  <1>7. CASE d.items # <<>> /\ d.key \in {"any", "brecycle"}
    <2> DEFINE b == Scalar(d) \in Truths
    <2>1. b \in BOOLEAN
      OBVIOUS
    <2>2. q = Refused \/ q = [p EXCEPT !.AnyExit = b] \/ q = [p EXCEPT !.RecycleBatch = b]
      BY <1>1, <1>7, AppliesChoices, Zenon
    <2> HIDE DEF b, q
    <2>3. q = Refused \/ Wellformed(q)
      BY <1>1, <2>1, <2>2 DEF Wellformed, Shaped, Fields
    <2>4. QED
      BY <2>3 DEF q
  <1>8. CASE d.items # <<>> /\ d.key \in {"ttl", "bttl"}
    <2> DEFINE v == Scalar(d)
    <2>1. v \in DOMAIN Seconds => Seconds[v] \in Int
      BY DurationAssumption
    <2>2. \/ q = Refused
          \/ /\ v \in DOMAIN Seconds /\ (Seconds[v] >= 0 \/ Seconds[v] > 0)
             /\ q = [p EXCEPT !.TTL = Seconds[v]] \/ q = [p EXCEPT !.BatchTTL = Seconds[v]]
      BY <1>1, <1>8, AppliesChoices
    <2> HIDE DEF v, q
    <2>3. q # Refused => v \in DOMAIN Seconds /\ Seconds[v] \in Nat
      BY <2>1, <2>2
    <2>4. q # Refused => Spelt(Seconds[v])
      BY <2>3 DEF Spelt
    <2>5. q = Refused \/ Wellformed(q)
      BY <1>1, <2>2, <2>4 DEF Wellformed, Shaped, Fields
    <2>6. QED
      BY <2>5 DEF q
  <1>9. QED
    BY <1>2, <1>3, <1>4, <1>5, <1>6, <1>7, <1>8 DEF Keys

LEMMA AppliedWellformed ==
    ASSUME NEW fields \in Seq(Directive)
    PROVE  Applied(fields) = Refused \/ Wellformed(Applied(fields))
  <1> DEFINE n == Len(fields)
  <1>1. n \in Nat /\ \A i \in 1 .. n : fields[i] \in Directive
    BY LenProperties, ElementOfSeq
  <1>2. PICK f : Run(f, fields, n) /\ Applied(fields) = f[n]
    BY <1>1, AppliedRuns
  <1> HIDE DEF n
  <1> DEFINE T == {i \in 0 .. n : ~(f[i] = Refused \/ Wellformed(f[i]))}
  <1>3. SUFFICES ASSUME T # {} PROVE FALSE
    BY <1>1, <1>2
  <1>4. T \subseteq Nat
    BY <1>1
  <1>5. PICK i \in T : \A y \in T : i <= y
    BY <1>3, <1>4, Smallest
  <1>6. i # 0
    BY <1>2, <1>5, ZeroIsWellformed DEF Run
  <1>7. i \in 1 .. n /\ i - 1 \in 0 .. n /\ i - 1 \notin T
    BY <1>1, <1>5, <1>6
  <1>8. f[i] = apply(f[i - 1], fields[i])
    BY <1>2, <1>7 DEF Run
  <1>9. f[i - 1] = Refused \/ Wellformed(f[i - 1])
    BY <1>7
  <1>10. f[i] = Refused \/ Wellformed(f[i])
    BY <1>1, <1>7, <1>8, <1>9, ApplyKeeps, AppliesNothingElse
  <1>11. QED
    BY <1>5, <1>10

-----------------------------------------------------------------------------
(* What String writes, piece by piece, and what Parse makes of it.         *)

\* The policy with the fields F of p, all others being as nothing was said.
Upto(p, F) == [f \in Fields |-> IF f \in F THEN p[f] ELSE ZeroPolicy[f]]

LEMMA UptoNext ==
    ASSUME NEW p, NEW F, NEW f \in Fields \ F
    PROVE  /\ [Upto(p, F) EXCEPT ![f] = p[f]] = Upto(p, F \cup {f})
           /\ Upto(p, F)[f] = ZeroPolicy[f]
           /\ p[f] = ZeroPolicy[f] => Upto(p, F) = Upto(p, F \cup {f})
  BY DEF Upto

LEMMA UptoIsNoRefusal ==
    ASSUME NEW p, Shaped(p), NEW F
    PROVE  Upto(p, F) # Refused
  <1>1. Shaped(Upto(p, F))
    BY DEF Upto, Shaped, Fields, ZeroPolicy
  <1>2. QED
    BY <1>1, ShapedIsNoRefusal

\* The values that p is written with, and the directives with such values.
Values(p) == {"1", p.Slot, p.Provider, p.Session, p.UniqueBatch, p.HealthScope}
             \cup p.Countries \cup p.Cities \cup p.ExcludeIPs \cup DOMAIN Seconds
Written(V) == [key : Keys, items : Seq(V)]

LEMMA GivenPiece ==
    ASSUME NEW V, NEW v, v \in V, v # Absent, NEW key, key \in Keys
    PROVE  \E d \in Written(V) : /\ Given(key, v) = <<d>>
                                /\ d.key = key /\ d.items # <<>> /\ Scalar(d) = v
  <1> DEFINE d == [key |-> key, items |-> <<v>>]
  <1>1. <<v>> \in Seq(V) /\ <<v>> # <<>> /\ Len(<<v>>) = 1 /\ <<v>>[1] = v
    OBVIOUS
  <1>2. d \in Written(V) /\ d.key = key /\ d.items = <<v>>
    BY <1>1 DEF Written
  <1>3. d.items # <<>> /\ Scalar(d) = v
    BY <1>1, <1>2 DEF Scalar
  <1>4. Given(key, v) = <<d>>
    BY Zenon DEF Given, Absent
  <1> HIDE DEF d
  <1>5. QED
    BY <1>2, <1>3, <1>4

\* SetToSeq writes down every element of a finite set.
LEMMA AllWritten ==
    ASSUME NEW V, NEW S \in SUBSET V, IsFiniteSet(S), S # {}
    PROVE  /\ SetToSeq(S) \in Seq(V) /\ SetToSeq(S) # <<>>
           /\ {SetToSeq(S)[i] : i \in DOMAIN SetToSeq(S)} = S
  <1> DEFINE n == Cardinality(S)
             s == SetToSeq(S)
  <1>1. n \in Nat /\ n # 0 /\ ExistsBijection(1 .. n, S)
    BY FS_CardinalityType, FS_EmptySet
  <1>2. \E f \in [1 .. n -> S] : IsInjective(f)
    BY <1>1 DEF ExistsBijection, Bijection, Injection
  <1>3. s \in [1 .. n -> S] /\ IsInjective(s)
    BY <1>2 DEF SetToSeq
  <1> HIDE DEF s
  <1>4. s \in Injection(1 .. n, S)
    BY <1>3 DEF Injection
  <1>5. IsFiniteSet(1 .. n) /\ Cardinality(1 .. n) = n
    BY <1>1, FS_Interval
  <1>6. s \in Surjection(1 .. n, S)
    <2> DEFINE I == 1 .. n
    <2>1. Cardinality(I) = Cardinality(S)
      BY <1>5
    <2> HIDE DEF I
    <2>2. s \in Surjection(I, S)
      BY <1>4, <2>1, FS_Injection DEF I
    <2>3. QED
      BY <2>2 DEF I
  <1>7. {s[i] : i \in DOMAIN s} = S
    BY <1>3, <1>6 DEF Surjection
  <1>8. s \in Seq(V) /\ s # <<>>
    <2>1. s \in Seq(S)
      BY <1>1, <1>3
    <2>2. s \in Seq(V)
      BY <2>1, SeqMonotonic
    <2>3. QED
      BY <1>1, <1>3, <2>2
  <1>9. QED
    BY <1>7, <1>8 DEF s

\* One directive with values in V, d, lists S; one gives the lifetime n.
Lists(d, V, key, S) ==
    /\ d \in Written(V) /\ Listed(key, S) = <<d>>
    /\ d.key = key /\ d.items # <<>> /\ Listing(d) = S
Gives(d, V, key, n) ==
    /\ d \in Written(V) /\ Lasting(key, n) = <<d>> /\ d.key = key /\ d.items # <<>>
    /\ Scalar(d) \in DOMAIN Seconds /\ Seconds[Scalar(d)] = n

LEMMA ListedPiece ==
    ASSUME NEW V, NEW S \in SUBSET V, IsFiniteSet(S), S # {}, NEW key \in Keys
    PROVE  \E d : Lists(d, V, key, S)
  <1> DEFINE s == SetToSeq(S)
             d == [key |-> key, items |-> s]
  <1>1. s \in Seq(V) /\ s # <<>> /\ {s[i] : i \in DOMAIN s} = S
    BY AllWritten
  <1>2. Listed(key, S) = <<d>>
    BY DEF Listed
  <1> HIDE DEF s
  <1>3. d \in Written(V) /\ d.key = key /\ d.items = s
    BY <1>1 DEF Written
  <1> HIDE DEF d
  <1>4. QED
    BY <1>1, <1>2, <1>3 DEF Lists, Listing

LEMMA LastingPiece ==
    ASSUME NEW V, DOMAIN Seconds \subseteq V, NEW n, Spelt(n), n # 0, NEW key \in Keys
    PROVE  \E d : Gives(d, V, key, n)
  <1> DEFINE v == CHOOSE v \in DOMAIN Seconds : Seconds[v] = n
  <1>1. v \in DOMAIN Seconds /\ Seconds[v] = n
    BY DEF Spelt
  <1>2. Lasting(key, n) = Given(key, v)
    BY DEF Lasting
  <1> HIDE DEF v
  <1>3. v # Absent
    BY <1>1, DurationAssumption, Zenon DEF Absent
  <1>4. v \in V
    BY <1>1
  <1>5. \E d \in Written(V) :
          /\ Given(key, v) = <<d>>
          /\ d.key = key /\ d.items # <<>> /\ Scalar(d) = v
    BY <1>3, <1>4, GivenPiece
  <1>6. QED
    BY <1>1, <1>2, <1>5 DEF Gives

\* The directives t make a policy with the fields F of p.
Says(p, t, F) == t \in Seq(Written(Values(p))) /\ Applied(t) = Upto(p, F)

LEMMA OnePieceMore ==
    ASSUME NEW D, NEW t \in Seq(D)
    PROVE  /\ t \o <<>> = t
           /\ \A d \in D : /\ t \o <<d>> \in Seq(D)
                           /\ Applied(t \o <<d>>) = apply(Applied(t), d)
  <1>1. t \o <<>> = t
    BY ConcatEmptySeq
  <1>2. ASSUME NEW d \in D PROVE t \o <<d>> \in Seq(D)
    BY ConcatProperties
  <1>3. QED
    BY <1>1, <1>2, AppliedOneMore

\* Nothing is written of a field that has no value ...
LEMMA SaysNone ==
    ASSUME NEW p, NEW F, NEW t, Says(p, t, F), NEW f, p[f] = ZeroPolicy[f]
    PROVE  Says(p, t \o <<>>, F \cup {f})
  <1> DEFINE D == Written(Values(p))
  <1>1. t \in Seq(D) /\ Applied(t) = Upto(p, F)
    BY DEF Says
  <1>2. Upto(p, F) = Upto(p, F \cup {f})
    BY DEF Upto
  <1> HIDE DEF D
  <1>3. t \o <<>> = t
    BY <1>1, OnePieceMore, Zenon
  <1>4. QED
    BY <1>1, <1>2, <1>3 DEF Says, D

\* ... and a directive that is written sets its field.
LEMMA SaysOne ==
    ASSUME NEW p, NEW F, NEW t, Says(p, t, F), NEW f, NEW d \in Written(Values(p)),
           apply(Upto(p, F), d) = [Upto(p, F) EXCEPT ![f] = p[f]]
    PROVE  Says(p, t \o <<d>>, F \cup {f})
  <1> DEFINE D == Written(Values(p))
  <1>1. t \in Seq(D) /\ d \in D /\ Applied(t) = Upto(p, F)
    BY DEF Says
  <1>2. [Upto(p, F) EXCEPT ![f] = p[f]] = Upto(p, F \cup {f})
    BY DEF Upto
  <1> HIDE DEF D
  <1>3. t \o <<d>> \in Seq(D) /\ Applied(t \o <<d>>) = apply(Applied(t), d)
    BY <1>1, OnePieceMore, Zenon
  <1>4. Applied(t \o <<d>>) = Upto(p, F \cup {f})
    BY <1>1, <1>2, <1>3
  <1>5. QED
    BY <1>3, <1>4 DEF Says, D

\* The field that a directive with a value, or with a list of names, is about.
SetsScalar(key, f) ==
    \A p, d : p # Refused /\ d.items # <<>> /\ d.key = key
                => apply(p, d) = [p EXCEPT ![f] = Scalar(d)]
AddsItems(key, f) ==
    \A p, d : p # Refused /\ d.items # <<>> /\ d.key = key
                => apply(p, d) = [p EXCEPT ![f] = p[f] \cup Items(d)]

LEMMA KeysAndFields ==
    /\ SetsScalar("slot", "Slot") /\ SetsScalar("provider", "Provider")
    /\ SetsScalar("sess", "Session") /\ SetsScalar("uniq", "UniqueBatch")
    /\ SetsScalar("health", "HealthScope")
    /\ AddsItems("cc", "Countries") /\ AddsItems("city", "Cities")
  <1>1. SetsScalar("slot", "Slot")
    BY AppliesScalars DEF SetsScalar
  <1>2. SetsScalar("provider", "Provider")
    BY AppliesScalars DEF SetsScalar
  <1>3. SetsScalar("sess", "Session")
    BY AppliesScalars DEF SetsScalar
  <1>4. SetsScalar("uniq", "UniqueBatch")
    BY AppliesScalars DEF SetsScalar
  <1>5. SetsScalar("health", "HealthScope")
    BY AppliesScalars DEF SetsScalar
  <1>6. AddsItems("cc", "Countries")
    BY AppliesLists DEF AddsItems
  <1>7. AddsItems("city", "Cities")
    BY AppliesLists DEF AddsItems
  <1>8. QED
    BY <1>1, <1>2, <1>3, <1>4, <1>5, <1>6, <1>7

LEMMA SaysGiven ==
    ASSUME NEW p, Shaped(p), NEW F, NEW t, Says(p, t, F), NEW f, NEW key \in Keys,
           SetsScalar(key, f), p[f] \in Values(p), ZeroPolicy[f] = Absent
    PROVE  Says(p, t \o Given(key, p[f]), F \cup {f})
  <1>1. Upto(p, F) # Refused
    BY UptoIsNoRefusal
  <1>2. CASE p[f] = Absent
    <2>1. Given(key, p[f]) = <<>>
      BY <1>2, Zenon DEF Given, Absent
    <2>2. Says(p, t \o <<>>, F \cup {f})
      BY <1>2, SaysNone
    <2>3. QED
      BY <2>1, <2>2
  <1>3. CASE p[f] # Absent
    <2> DEFINE v == p[f]
    <2>1. v \in Values(p) /\ v # Absent
      BY <1>3
    <2> HIDE DEF v
    <2>2. PICK d \in Written(Values(p)) :
            Given(key, v) = <<d>> /\ d.key = key /\ d.items # <<>> /\ Scalar(d) = v
      BY <2>1, GivenPiece
    <2>3. apply(Upto(p, F), d) = [Upto(p, F) EXCEPT ![f] = Scalar(d)]
      BY <1>1, <2>2 DEF SetsScalar
    <2>4. Says(p, t \o <<d>>, F \cup {f})
      BY <2>2, <2>3, SaysOne DEF v
    <2>5. QED
      BY <2>2, <2>4 DEF v
  <1>4. QED
    BY <1>2, <1>3

LEMMA SaysListed ==
    ASSUME NEW p, Shaped(p), NEW F, NEW t, Says(p, t, F), NEW f \in Fields \ F,
           NEW key \in Keys, AddsItems(key, f), NEW S, S = p[f], S \subseteq Values(p), Lowered(S),
           ZeroPolicy[f] = {}
    PROVE  Says(p, t \o Listed(key, S), F \cup {f})
  <1>1. Upto(p, F) # Refused
    BY UptoIsNoRefusal
  <1>2. Upto(p, F)[f] = {}
    BY DEF Upto
  <1>3. CASE S = {}
    <2>1. Listed(key, S) = <<>>
      BY <1>3 DEF Listed
    <2>2. Says(p, t \o <<>>, F \cup {f})
      BY <1>3, SaysNone
    <2>3. QED
      BY <2>1, <2>2
  <1>4. CASE S # {}
    <2>1. IsFiniteSet(S) /\ S \in SUBSET Values(p)
      BY DEF Lowered
    <2>2. PICK d : Lists(d, Values(p), key, S)
      BY <1>4, <2>1, ListedPiece
    <2>3. Items(d) = S
      <3>1. Items(d) = {lower(x) : x \in Listing(d)} \ {Absent}
        BY DEF Items, Listing
      <3>2. {lower(x) : x \in S} = S
        BY DEF Lowered
      <3>3. QED
        BY <2>2, <3>1, <3>2 DEF Lowered, Lists
    <2>4. apply(Upto(p, F), d) = [Upto(p, F) EXCEPT ![f] = Upto(p, F)[f] \cup Items(d)]
      BY <1>1, <2>2 DEF AddsItems, Lists
    <2>5. apply(Upto(p, F), d) = [Upto(p, F) EXCEPT ![f] = p[f]]
      BY <1>2, <2>3, <2>4
    <2>6. Says(p, t \o <<d>>, F \cup {f})
      BY <2>2, <2>5, SaysOne DEF Lists
    <2>7. QED
      BY <2>2, <2>6 DEF Lists
  <1>5. QED
    BY <1>3, <1>4

LEMMA SaysExcluded ==
    ASSUME NEW p, Shaped(p), NEW F, NEW t, Says(p, t, F), "ExcludeIPs" \notin F,
           Addressed(p.ExcludeIPs)
    PROVE  Says(p, t \o Listed("not", p.ExcludeIPs), F \cup {"ExcludeIPs"})
  <1> DEFINE S == p.ExcludeIPs
  <1>1. Upto(p, F) # Refused
    BY UptoIsNoRefusal
  <1>2. Upto(p, F).ExcludeIPs = {}
    BY DEF Upto, ZeroPolicy, Fields
  <1>3. CASE S = {}
    <2>1. Listed("not", S) = <<>>
      BY <1>3 DEF Listed
    <2>2. p.ExcludeIPs = ZeroPolicy.ExcludeIPs
      BY <1>3 DEF ZeroPolicy
    <2>3. Says(p, t \o <<>>, F \cup {"ExcludeIPs"})
      BY <2>2, SaysNone
    <2>4. QED
      BY <2>1, <2>3
  <1>4. CASE S # {}
    <2>1. IsFiniteSet(S) /\ S \in SUBSET Values(p) /\ "not" \in Keys
      BY DEF Addressed, Values, Keys
    <2> HIDE DEF S
    <2>2. PICK d : Lists(d, Values(p), "not", S)
      BY <1>4, <2>1, ListedPiece
    <2>3. \A i \in DOMAIN d.items : d.items[i] \in Addresses
      BY <2>2 DEF Addressed, Listing, S, Lists
    <2>4. apply(Upto(p, F), d)
            = [Upto(p, F) EXCEPT !.ExcludeIPs = Upto(p, F).ExcludeIPs \cup Listing(d)]
      BY <1>1, <2>2, <2>3, AppliesLists DEF Lists
    <2>5. apply(Upto(p, F), d) = [Upto(p, F) EXCEPT !.ExcludeIPs = p.ExcludeIPs]
      BY <1>2, <2>2, <2>4 DEF S, Lists
    <2>6. Says(p, t \o <<d>>, F \cup {"ExcludeIPs"})
      BY <2>2, <2>5, SaysOne DEF Lists
    <2>7. QED
      BY <2>2, <2>6 DEF S, Lists
  <1>5. QED
    BY <1>3, <1>4

LEMMA SaysLasting ==
    ASSUME NEW p, Shaped(p), NEW F, NEW t, Says(p, t, F), NEW f, NEW key \in Keys,
           \/ key = "ttl" /\ f = "TTL"
           \/ key = "bttl" /\ f = "BatchTTL",
           NEW n, n = p[f], Spelt(n), ZeroPolicy[f] = 0
    PROVE  Says(p, t \o Lasting(key, n), F \cup {f})
  <1>1. Upto(p, F) # Refused
    BY UptoIsNoRefusal
  <1>2. CASE n = 0
    <2>1. Lasting(key, n) = <<>>
      BY <1>2 DEF Lasting
    <2>2. Says(p, t \o <<>>, F \cup {f})
      BY <1>2, SaysNone
    <2>3. QED
      BY <2>1, <2>2
  <1>3. CASE n # 0
    <2>1. DOMAIN Seconds \subseteq Values(p)
      BY DEF Values
    <2>2. n > 0
      BY <1>3 DEF Spelt
    <2>3. PICK d : Gives(d, Values(p), key, n)
      BY <1>3, <2>1, LastingPiece
    <2>4. /\ d.key = key /\ d.items # <<>>
          /\ Scalar(d) \in DOMAIN Seconds /\ Seconds[Scalar(d)] = p[f]
      BY <2>3 DEF Gives
    <2>5. apply(Upto(p, F), d) = [Upto(p, F) EXCEPT ![f] = p[f]]
      <3> DEFINE q == Upto(p, F)
      <3>1. q # Refused /\ p[f] > 0 /\ p[f] >= 0
        BY <1>1, <2>2 DEF Spelt
      <3> HIDE DEF q
      <3>2. CASE key = "ttl" /\ f = "TTL"
        <4>1. apply(q, d) = IF Scalar(d) \in DOMAIN Seconds /\ Seconds[Scalar(d)] >= 0
                            THEN [q EXCEPT !.TTL = Seconds[Scalar(d)]] ELSE Refused
          BY <2>4, <3>1, <3>2, AppliesChoices, Zenon
        <4>2. QED
          BY <2>4, <3>1, <3>2, <4>1 DEF q
      <3>3. CASE key = "bttl" /\ f = "BatchTTL"
        <4>1. apply(q, d) = IF Scalar(d) \in DOMAIN Seconds /\ Seconds[Scalar(d)] > 0
                            THEN [q EXCEPT !.BatchTTL = Seconds[Scalar(d)]] ELSE Refused
          BY <2>4, <3>1, <3>3, AppliesChoices, Zenon
        <4>2. QED
          BY <2>4, <3>1, <3>3, <4>1 DEF q
      <3>4. QED
        BY <3>2, <3>3 DEF q
    <2>6. Says(p, t \o <<d>>, F \cup {f})
      BY <2>3, <2>5, SaysOne DEF Gives
    <2>7. QED
      BY <2>3, <2>6 DEF Gives
  <1>4. QED
    BY <1>2, <1>3

\* The first piece.
LEMMA SaysAny ==
    ASSUME NEW p, Shaped(p)
    PROVE  Says(p, IF p.AnyExit THEN Given("any", "1") ELSE <<>>, {"AnyExit"})
  <1> DEFINE s == IF p.AnyExit THEN Given("any", "1") ELSE <<>>
             D == Written(Values(p))
  <1>1. Says(p, <<>>, {})
    <2>1. Upto(p, {}) = ZeroPolicy
      BY Zenon, ZeroIsWellformed DEF Upto, Wellformed, Shaped
    <2>2. QED
      BY <2>1, AppliedNone, EmptySeq DEF Says
  <1>2. Upto(p, {}) # Refused
    BY UptoIsNoRefusal
  <1>3. {} \cup {"AnyExit"} = {"AnyExit"}
    OBVIOUS
  <1>4. CASE p.AnyExit = FALSE
    <2>1. s = <<>>
      BY <1>4
    <2>2. p.AnyExit = ZeroPolicy.AnyExit
      BY <1>4, Zenon DEF ZeroPolicy
    <2>3. Says(p, <<>> \o <<>>, {} \cup {"AnyExit"})
      BY <1>1, <2>2, SaysNone
    <2>4. <<>> \o <<>> = <<>>
      OBVIOUS
    <2> HIDE DEF s
    <2>5. Says(p, s, {"AnyExit"})
      BY <1>3, <2>1, <2>3, <2>4
    <2>6. QED
      BY <2>5 DEF s
  <1>5. CASE p.AnyExit = TRUE
    <2>1. s = Given("any", "1")
      BY <1>5
    <2>2. "1" # Absent
      BY Zenon DEF Absent
    <2>3. "1" \in Values(p) /\ "any" \in Keys
      BY DEF Values, Keys
    <2> HIDE DEF s
    <2>4. PICK d \in D : /\ Given("any", "1") = <<d>>
                         /\ d.key = "any" /\ d.items # <<>> /\ Scalar(d) = "1"
      BY <2>2, <2>3, GivenPiece
    <2>5. apply(Upto(p, {}), d) = [Upto(p, {}) EXCEPT !.AnyExit = TRUE]
      <3>1. Scalar(d) \in Truths
        BY <2>4, TruthAssumption
      <3>2. Scalar(d) \in Truths \cup Falsehoods /\ (Scalar(d) \in Truths) = TRUE
        BY <3>1
      <3>3. apply(Upto(p, {}), d) = [Upto(p, {}) EXCEPT !.AnyExit = Scalar(d) \in Truths]
        BY <1>2, <2>4, <3>2, AppliesChoices, Zenon
      <3>4. QED
        BY <3>2, <3>3
    <2>6. Says(p, <<>> \o <<d>>, {} \cup {"AnyExit"})
      BY <1>1, <1>5, <2>4, <2>5, SaysOne
    <2>7. <<>> \o <<d>> = <<d>>
      OBVIOUS
    <2>8. Says(p, s, {"AnyExit"})
      BY <1>3, <2>1, <2>4, <2>6, <2>7
    <2>9. QED
      BY <2>8 DEF s
  <1>6. QED
    BY <1>4, <1>5 DEF Shaped

\* What is written of a policy makes that policy again.
LEMMA StringSays ==
    ASSUME NEW p, Wellformed(p)
    PROVE  Says(p, String(p).fields, Fields \ {"RecycleBatch"})
  <1>1. Shaped(p)
    BY DEF Wellformed
  <1>2. /\ p.Slot \in Values(p) /\ p.Provider \in Values(p) /\ p.Session \in Values(p)
        /\ p.UniqueBatch \in Values(p) /\ p.HealthScope \in Values(p)
        /\ p.Countries \subseteq Values(p) /\ p.Cities \subseteq Values(p)
    BY DEF Values
  <1>3. /\ {"cc", "city", "slot", "provider", "sess", "ttl", "uniq", "bttl", "health"} \subseteq Keys
        /\ "Countries" \in Fields /\ "Cities" \in Fields
    BY DEF Keys, Fields
  <1>4. /\ ZeroPolicy.Slot = Absent /\ ZeroPolicy.Provider = Absent /\ ZeroPolicy.Session = Absent
        /\ ZeroPolicy.UniqueBatch = Absent /\ ZeroPolicy.HealthScope = Absent
        /\ ZeroPolicy.Countries = {} /\ ZeroPolicy.Cities = {}
        /\ ZeroPolicy.TTL = 0 /\ ZeroPolicy.BatchTTL = 0
    BY Zenon DEF ZeroPolicy, Absent
  <1> DEFINE t1 == IF p.AnyExit THEN Given("any", "1") ELSE <<>>
             t2 == t1 \o Listed("cc", p.Countries)
             t3 == t2 \o Listed("city", p.Cities)
             t4 == t3 \o Given("slot", p.Slot)
             t5 == t4 \o Given("provider", p.Provider)
             t6 == t5 \o Given("sess", p.Session)
             t7 == t6 \o Lasting("ttl", p.TTL)
             t8 == t7 \o Given("uniq", p.UniqueBatch)
             t9 == t8 \o Lasting("bttl", p.BatchTTL)
             t10 == t9 \o Given("health", p.HealthScope)
             t11 == t10 \o Listed("not", p.ExcludeIPs)
             F1 == {"AnyExit"}
             F2 == F1 \cup {"Countries"}
             F3 == F2 \cup {"Cities"}
             F4 == F3 \cup {"Slot"}
             F5 == F4 \cup {"Provider"}
             F6 == F5 \cup {"Session"}
             F7 == F6 \cup {"TTL"}
             F8 == F7 \cup {"UniqueBatch"}
             F9 == F8 \cup {"BatchTTL"}
             F10 == F9 \cup {"HealthScope"}
             F11 == F10 \cup {"ExcludeIPs"}
  <1>5. String(p).fields = t11
    BY DEF String, User
  <1>6. F11 = Fields \ {"RecycleBatch"}
    BY DEF Fields
  <1>7. "Countries" \notin F1 /\ "Cities" \notin F2 /\ "ExcludeIPs" \notin F10
    OBVIOUS
  <1>8. Says(p, t1, F1)
    BY <1>1, SaysAny
  <1> HIDE DEF t1, F1
  <1>9. Says(p, t2, F2)
    BY <1>1, <1>2, <1>3, <1>4, <1>7, <1>8, KeysAndFields, SaysListed DEF Wellformed
  <1> HIDE DEF t2, F2
  <1>10. Says(p, t3, F3)
    BY <1>1, <1>2, <1>3, <1>4, <1>7, <1>9, KeysAndFields, SaysListed DEF Wellformed
  <1> HIDE DEF t3, F3
  <1>11. Says(p, t4, F4)
    BY <1>1, <1>2, <1>3, <1>4, <1>10, KeysAndFields, SaysGiven
  <1> HIDE DEF t4, F4
  <1>12. Says(p, t5, F5)
    BY <1>1, <1>2, <1>3, <1>4, <1>11, KeysAndFields, SaysGiven
  <1> HIDE DEF t5, F5
  <1>13. Says(p, t6, F6)
    BY <1>1, <1>2, <1>3, <1>4, <1>12, KeysAndFields, SaysGiven
  <1> HIDE DEF t6, F6
  <1>14. Says(p, t7, F7)
    BY <1>1, <1>3, <1>4, <1>13, SaysLasting DEF Wellformed
  <1> HIDE DEF t7, F7
  <1>15. Says(p, t8, F8)
    BY <1>1, <1>2, <1>3, <1>4, <1>14, KeysAndFields, SaysGiven
  <1> HIDE DEF t8, F8
  <1>16. Says(p, t9, F9)
    BY <1>1, <1>3, <1>4, <1>15, SaysLasting DEF Wellformed
  <1> HIDE DEF t9, F9
  <1>17. Says(p, t10, F10)
    BY <1>1, <1>2, <1>3, <1>4, <1>16, KeysAndFields, SaysGiven
  <1> HIDE DEF t10, F10
  <1>18. Says(p, t11, F11)
    BY <1>1, <1>7, <1>17, SaysExcluded DEF Wellformed
  <1> HIDE DEF t11, F11
  <1>19. QED
    BY <1>5, <1>6, <1>18

LEMMA StringParses ==
    ASSUME NEW u, u.fields \in Directives, Parse(u) # Refused
    PROVE  Parse(String(Parse(u))) = [Parse(u) EXCEPT !.RecycleBatch = FALSE]
  <1> DEFINE p == Parse(u)
             F == Fields \ {"RecycleBatch"}
             q == Upto(p, F)
  <1>1. p = Applied(u.fields) /\ valid(p) /\ p # Refused
    BY DEF Parse
  <1> HIDE DEF p
  <1>2. Wellformed(p) /\ Shaped(p)
    BY <1>1, AppliedWellformed DEF Directives, Directive, Wellformed
  <1>3. Applied(String(p).fields) = q
    BY <1>2, StringSays DEF Says
  <1>4. q # Refused
    BY <1>2, UptoIsNoRefusal
  <1>5. q = [p EXCEPT !.RecycleBatch = FALSE]
    <2>1. ZeroPolicy["RecycleBatch"] = FALSE
      BY Zenon DEF ZeroPolicy
    <2>2. q = [f \in Fields |-> IF f = "RecycleBatch" THEN FALSE ELSE p[f]]
      BY <2>1 DEF Upto
    <2>3. p = [f \in Fields |-> p[f]] /\ "RecycleBatch" \in Fields
      BY <1>2 DEF Shaped, Fields
    <2> HIDE DEF q
    <2>4. QED
      BY <2>2, <2>3
  <1>6. /\ q.Session = p.Session /\ q.Slot = p.Slot /\ q.Provider = p.Provider
        /\ q.UniqueBatch = p.UniqueBatch /\ q.HealthScope = p.HealthScope
        /\ q.Countries = p.Countries /\ q.Cities = p.Cities
        /\ q.BatchTTL = p.BatchTTL /\ q.AnyExit = p.AnyExit
    BY DEF Upto, Fields
  <1> HIDE DEF q
  <1>7. valid(q)
    BY <1>1, <1>6, Zenon DEF valid
  <1>8. String(p).long = FALSE
    BY DEF String, User
  <1>9. Parse(String(p)) = q
    BY <1>3, <1>4, <1>7, <1>8 DEF Parse
  <1>10. QED
    BY <1>5, <1>9 DEF p

\* The policy that a CONNECT response echoes selects what the client's own user name
\* selected, whatever the client sent: policy.String writes every field so that
\* policy.Parse reads it back.
THEOREM EchoesParse == ProxySpec => []EchoParses
  <1>1. ASSUME HandlerInv, NEW c \in Conns, at[c] # "idle", policyOf(req[c]) # Refused
        PROVE  Echoes[policyOf(req[c])] = [policyOf(req[c]) EXCEPT !.RecycleBatch = FALSE]
    <2> DEFINE rq == req[c]
               u == UserOf(rq)
               p == Policies[u]
    <2>1. rq \in Requests[c]
      BY <1>1 DEF HandlerInv, Stage, Vetted
    <2>2. u \in DOMAIN Policies /\ p = Parse(u)
      BY <2>1 DEF Policies
    <2>3. u.fields \in Directives
      BY <2>1, UserAssumption
    <2>4. policyOf(rq) = p /\ p # Refused
      BY <1>1 DEF policyOf
    <2> HIDE DEF p, u
    <2>5. Parse(String(p)) = [p EXCEPT !.RecycleBatch = FALSE]
      BY <2>2, <2>3, <2>4, StringParses
    <2>6. p \in {Policies[v] : v \in DOMAIN Policies} \ {Refused}
      BY <2>2, <2>4 DEF p
    <2>7. Echoes[p] = Parse(String(p))
      BY <2>6 DEF Echoes
    <2>8. QED
      BY <2>4, <2>5, <2>7
  <1>2. HandlerInv => EchoParses
    BY <1>1 DEF EchoParses
  <1>3. QED
    BY <1>2, ProxyInvariant, PTL
=============================================================================
