------------------------------ MODULE Upstream ------------------------------
(* A load-balanced pool (internal/lb/upstream.go, resolve.go, snapshot.go):   *)
(* requests that pick a backend, take its capacity, fail over and keep the    *)
(* capacity until the caller closes the body; the re-resolution loop that     *)
(* replaces the backend set; the health loop; passive ejection.               *)
(*                                                                            *)
(* A backend object is <<id, generation>>: an endpoint that vanishes and      *)
(* comes back gets a new object, while requests may still hold the old one.   *)
(* Time is abstracted: an ejection lapses at any moment after it began.       *)
EXTENDS Integers, FiniteSets, Sequences

CONSTANTS
    Ids,          \* endpoint ids
    Targets,      \* cfg.Backends, in order
    TargetOf,     \* the target each endpoint belongs to
    Static,       \* the ids of static targets
    Buildable,    \* the ids an origin client can be built for
    Fetches,      \* requests
    Policies,     \* the balancing policies considered
    RingOrder,    \* the ids clockwise from the routing key's point
    MaxConns,     \* max_conns, 0 for none
    Window, Threshold,   \* the health spec; Window = 0 when there is none
    PassiveThreshold,    \* consecutive failures that eject
    MaxGen,       \* bound: times an endpoint may appear
    MaxFails      \* bound: resolutions that fail

ASSUME UpstreamAssumptions ==
    /\ IsFiniteSet(Ids) /\ IsFiniteSet(Fetches)
    /\ Static \subseteq Ids /\ Buildable \subseteq Ids
    /\ Targets \in Seq({Targets[i] : i \in DOMAIN Targets})
    /\ \A id \in Ids : \E i \in DOMAIN Targets : TargetOf[id] = Targets[i]
    /\ Policies \subseteq {"round_robin", "least_conn", "sticky", "shard"}
    /\ MaxConns \in Nat /\ PassiveThreshold \in Nat \ {0} /\ MaxGen \in Nat \ {0}
    /\ MaxFails \in Nat

VARIABLES
    byID,       \* the generation of each id's backend in the pool, 0 if none
    made,       \* generations made so far of each id
    backend,    \* the backend objects: inflight, sem, fsm, consecFail, ejected
    inflight,   \* the pool's own counter
    policy,     \* cfg.Policy, a routing key being present
    req,        \* each request: pc, body, tried, at, sent, and errBody, the
                \* backend whose live body its last error carries
    endpoints,  \* what the resolvers would answer now
    notify,     \* an endpoint changed and the watch has not called back yet
    poke,       \* the poke channel holds a token
    round,      \* the resolution in progress, or the last one
    fails       \* resolutions that failed so far

poolVars == <<byID, made>>
resolveVars == <<endpoints, notify, poke, round, fails>>
vars == <<byID, made, backend, inflight, policy, req, resolveVars>>

-----------------------------------------------------------------------------
(* The active health state machine of one backend (internal/lb/health.go): a  *)
(* ring buffer of the last window probe outcomes that goes up on threshold    *)
(* successes in the buffer and down on threshold failures.                    *)

\* newHealthFSM: the window and the threshold are clamped to 1..window.
NewFSM(window, threshold, startUp) ==
    LET w == IF window <= 0 THEN 1 ELSE window
        t == IF threshold <= 0 THEN 1 ELSE IF threshold > w THEN w ELSE threshold
    IN  [window |-> w, threshold |-> t, results |-> [i \in 0..(w - 1) |-> FALSE],
         idx |-> 0, filled |-> 0, up |-> startUp]

\* Mutant: the write position is not wrapped to the window in use.
WrapLate(f) == (f.idx + 1) % (f.window + 1)

NextIdx(f) == (f.idx + 1) % f.window

\* healthFSM.record
Record(f, success) ==
    LET results == [f.results EXCEPT ![f.idx] = success]
        filled == IF f.filled < f.window THEN f.filled + 1 ELSE f.filled
        succ == Cardinality({i \in 0..(filled - 1) : results[i]})
        fail == filled - succ
        up == CASE ~f.up /\ succ >= f.threshold -> TRUE
                [] f.up /\ fail >= f.threshold -> FALSE
                [] OTHER -> f.up
    IN  [f EXCEPT !.results = results, !.idx = NextIdx(f), !.filled = filled, !.up = up]

-----------------------------------------------------------------------------
Objects == Ids \X (1..MaxGen)
Current == {o \in Objects : byID[o[1]] = o[2]}
Present == {id \in Ids : byID[id] # 0}

\* makeBackend: a backend starts up unless there is a health spec to pass.
FreshBackend ==
    [inflight |-> 0, sem |-> 0, consecFail |-> 0, ejected |-> FALSE,
     fsm |-> NewFSM(Window, Threshold, Window = 0)]

NewRequest(b) ==
    [pc |-> "idle", body |-> b, tried |-> {}, at |-> <<>>, errBody |-> <<>>, sent |-> {}]
Over == [NewRequest(FALSE) EXCEPT !.pc = "done"]

\* New has resolved once, before the informers of dynamic targets had synced
\* or after; Start has registered the watches; resolveLoop resolves at entry.
Init ==
    /\ endpoints \in {e \in SUBSET Ids : Static \subseteq e}
    /\ \E first \in {Static, endpoints} :
         /\ byID = [id \in Ids |-> IF id \in first \cap Buildable THEN 1 ELSE 0]
         /\ made = byID
    /\ backend = [o \in Objects |-> FreshBackend]
    /\ inflight = 0 /\ policy \in Policies
    /\ req \in [Fetches -> {NewRequest(b) : b \in BOOLEAN}]
    /\ notify = FALSE /\ poke = FALSE /\ fails = 0
    /\ round = [on |-> TRUE, next |-> 1, desired |-> {}, failed |-> {}]
-----------------------------------------------------------------------------
(* Choosing a backend.                                                        *)

\* backend.eligible
Eligible(o) == backend[o].fsm.up /\ ~backend[o].ejected

\* backend.underCap, a check that nothing holds until the request acquires.
UnderCap(o) == MaxConns = 0 \/ backend[o].inflight < MaxConns

\* The filter pick passes to every policy.
Ok(f, o) == o[1] \notin req[f].tried /\ Eligible(o) /\ UnderCap(o)

\* Where lookup's clockwise walk meets an id.
RingPos(o) == CHOOSE i \in DOMAIN RingOrder : RingOrder[i] = o[1]

\* pickRoundRobin: the cursor runs over a list that reconcile fills in map order,
\* so it may stand anywhere.
PickRoundRobin(ok) == ok

PickLeastConn(ok) == {o \in ok : \A p \in ok : backend[o].inflight <= backend[p].inflight}

\* pickRing: the first admissible id clockwise.
PickRing(ok) == {o \in ok : \A p \in ok : RingPos(o) <= RingPos(p)}

\* pick, for the policy the request's routing key leaves in force.
Candidates(f) ==
    LET ok == {o \in Current : Ok(f, o)}
    IN  CASE policy = "round_robin" -> PickRoundRobin(ok)
          [] policy = "least_conn" -> PickLeastConn(ok)
          [] policy \in {"sticky", "shard"} -> PickRing(ok)

-----------------------------------------------------------------------------
(* Fetch.                                                                     *)

poolUnchanged == UNCHANGED <<byID, made, policy, resolveVars>>

Arrive(f) ==
    /\ req[f].pc = "idle"
    /\ req' = [req EXCEPT ![f] = [@ EXCEPT !.pc = "pick"]]
    /\ UNCHANGED <<backend, inflight>> /\ poolUnchanged

\* The top of the loop: no candidate is left, or the client went away, which
\* it may do at any time and which nothing else looks at.
GiveUp(f) ==
    /\ req[f].pc = "pick"
    /\ req' = [req EXCEPT ![f] = [@ EXCEPT !.pc = "failed"]]
    /\ UNCHANGED <<backend, inflight>> /\ poolUnchanged

Pick(f) ==
    /\ req[f].pc = "pick"
    /\ \E o \in Candidates(f) :
         req' = [req EXCEPT ![f] = [@ EXCEPT !.pc = "acquire", !.at = o, !.tried = req[f].tried \cup {o[1]}]]
    /\ UNCHANGED <<backend, inflight>> /\ poolUnchanged

\* Mutant: the body does not matter.
RetryAlways(f) == "pick"

\* retriable: after a connection error, a 5xx or a capacity miss the loop goes
\* on to another backend, unless the request carries a body.
AfterRetriable(f) == IF req[f].body THEN "failed" ELSE "pick"

\* lastErr = err: the error kept so far is dropped, with the body it may carry.
NewError(f, pc, hasBody) ==
    req' = [req EXCEPT ![f] = [@ EXCEPT !.pc = pc, !.errBody = IF hasBody THEN req[f].at ELSE <<>>]]

\* fetchOne at a full semaphore: errAtCapacity, and no outcome is recorded.
AtCapacity(f) ==
    /\ req[f].pc = "acquire" /\ MaxConns > 0 /\ backend[req[f].at].sem = MaxConns
    /\ NewError(f, AfterRetriable(f), FALSE)
    /\ UNCHANGED <<backend, inflight>> /\ poolUnchanged

Taken(b) ==
    [b EXCEPT !.inflight = @ + 1, !.sem = IF MaxConns > 0 THEN @ + 1 ELSE @]

\* fetchOne: the token, the two counters, and the request goes out.
Acquire(f) ==
    /\ req[f].pc = "acquire" /\ ~(MaxConns > 0 /\ backend[req[f].at].sem = MaxConns)
    /\ backend' = [backend EXCEPT ![req[f].at] = Taken(@)]
    /\ inflight' = inflight + 1
    /\ req' = [req EXCEPT ![f] = [@ EXCEPT !.pc = "origin", !.sent = req[f].sent \cup {req[f].at}]]
    /\ poolUnchanged

\* Mutant: the token stays when the counters are given back.
FreedNoToken(b) == [b EXCEPT !.inflight = @ - 1]

\* release
Freed(b) ==
    [b EXCEPT !.inflight = @ - 1, !.sem = IF MaxConns > 0 THEN @ - 1 ELSE @]

\* backend.passiveSuccess
PassiveSuccess(b) == [b EXCEPT !.consecFail = 0, !.ejected = FALSE]

\* backend.passiveFailure; a streak at the threshold or past it ejects at each
\* further failure, so the count is kept only up to one below.
PassiveFailure(b) ==
    LET eject == b.consecFail + 1 >= PassiveThreshold
    IN  [b EXCEPT !.consecFail = IF eject THEN PassiveThreshold - 1 ELSE @ + 1,
                  !.ejected = @ \/ eject]

\* The origin answers: recordOutcome resets the streak, the body is wrapped and
\* handed over with the capacity still held.
Answered(f) ==
    /\ req[f].pc = "origin"
    /\ backend' = [backend EXCEPT ![req[f].at] = PassiveSuccess(@)]
    /\ req' = [req EXCEPT ![f] = [@ EXCEPT !.pc = "open", !.errBody = <<>>]]
    /\ UNCHANGED inflight /\ poolUnchanged

\* A 4xx other than 404 and 410: a definitive answer, no failover.
Refused(f) ==
    /\ req[f].pc = "origin"
    /\ backend' = [backend EXCEPT ![req[f].at] = PassiveSuccess(Freed(@))]
    /\ inflight' = inflight - 1
    /\ NewError(f, "failed", TRUE)
    /\ poolUnchanged

\* A connection error (a request its client cancelled is one), or a 5xx with a live body:
\* release, recordOutcome, and the next backend.
Failed(f) ==
    /\ req[f].pc = "origin"
    /\ backend' = [backend EXCEPT ![req[f].at] = PassiveFailure(Freed(@))]
    /\ inflight' = inflight - 1
    /\ \E hasBody \in BOOLEAN : NewError(f, AfterRetriable(f), hasBody)
    /\ poolUnchanged

\* trackedBody.Close by the caller: release, once.
CloseBody(f) ==
    /\ req[f].pc = "open"
    /\ backend' = [backend EXCEPT ![req[f].at] = Freed(@)]
    /\ inflight' = inflight - 1
    /\ req' = [req EXCEPT ![f] = Over]
    /\ poolUnchanged

\* The caller streams or drops the error it was given and closes its body.
CloseError(f) ==
    /\ req[f].pc = "failed"
    /\ req' = [req EXCEPT ![f] = Over]
    /\ UNCHANGED <<backend, inflight>> /\ poolUnchanged

FetchStep(f) ==
    \/ GiveUp(f) \/ Pick(f) \/ AtCapacity(f) \/ Acquire(f)
    \/ Answered(f) \/ Refused(f) \/ Failed(f) \/ CloseBody(f) \/ CloseError(f)
-----------------------------------------------------------------------------
(* Re-resolution.                                                             *)

fetchUnchanged == UNCHANGED <<inflight, policy, req>>

\* A pod comes or goes (external): the informer's store first, its callback later.
EndpointChange(id) ==
    /\ id \notin Static
    /\ \/ id \in endpoints /\ endpoints' = endpoints \ {id}
       \/ id \notin endpoints /\ made[id] < MaxGen /\ endpoints' = endpoints \cup {id}
    /\ notify' = TRUE
    /\ UNCHANGED <<poolVars, backend, poke, round, fails>> /\ fetchUnchanged

\* Mutant: a channel without a buffer drops the token unless the loop waits.
SentIfIdle == ~round.on

\* The non-blocking send: a full buffer already holds a token.
Sent == TRUE

\* The watch calls signalPoke.
SignalPoke ==
    /\ notify /\ notify' = FALSE /\ poke' = (poke \/ Sent)
    /\ UNCHANGED <<poolVars, backend, endpoints, round, fails>> /\ fetchUnchanged

StartRound == round' = [on |-> TRUE, next |-> 1, desired |-> {}, failed |-> {}]

\* resolveLoop: a poke, or the ticker.
PokeRound ==
    /\ ~round.on /\ poke /\ poke' = FALSE /\ StartRound
    /\ UNCHANGED <<poolVars, backend, endpoints, notify, fails>> /\ fetchUnchanged

TickRound ==
    /\ ~round.on /\ StartRound
    /\ UNCHANGED <<poolVars, backend, endpoints, notify, poke, fails>> /\ fetchUnchanged

\* resolveOnce, one target after another; a dynamic one may fail.
ResolveTarget ==
    /\ round.on /\ round.next <= Len(Targets)
    /\ LET t == Targets[round.next]
           ids == {id \in Ids : TargetOf[id] = t}
       IN  \/ /\ round' = [round EXCEPT !.next = @ + 1, !.desired = @ \cup (ids \cap endpoints)]
              /\ UNCHANGED fails
           \/ /\ ids \cap Static = {} /\ fails < MaxFails
              /\ round' = [round EXCEPT !.next = @ + 1, !.failed = @ \cup {t}]
              /\ fails' = fails + 1
    /\ UNCHANGED <<poolVars, backend, endpoints, notify, poke>> /\ fetchUnchanged

\* Mutant: a target that did not resolve this round loses its backends.
RetainNone == {}

\* reconcile: backends kept although their target named none of them.
Retained == {id \in Present : TargetOf[id] \in round.failed}

\* reconcile: surviving ids keep their object, new ids get a fresh one.
Reconcile ==
    /\ round.on /\ round.next > Len(Targets)
    /\ LET kept == Present \cap (round.desired \cup Retained)
           new == (round.desired \cap Buildable) \ Present
       IN  /\ byID' = [id \in Ids |-> IF id \in kept THEN byID[id]
                                      ELSE IF id \in new THEN made[id] + 1 ELSE 0]
           /\ made' = [id \in Ids |-> IF id \in new THEN made[id] + 1 ELSE made[id]]
    /\ round' = [round EXCEPT !.on = FALSE, !.next = 1, !.desired = {}]
    /\ UNCHANGED <<backend, endpoints, notify, poke, fails>> /\ fetchUnchanged
-----------------------------------------------------------------------------
(* Health.                                                                    *)

\* An ejection lapses (nobody looks at a backend that left the pool).
EjectionEnds(o) ==
    /\ o \in Current /\ backend[o].ejected
    /\ backend' = [backend EXCEPT ![o].ejected = FALSE]
    /\ UNCHANGED <<poolVars, resolveVars>> /\ fetchUnchanged

\* healthLoop: probeAll probes each backend of a snapshot of the pool on its own
\* goroutine (the verdict on one that has left the pool is read by nobody).
Probe(o) ==
    /\ Window > 0 /\ o \in Current
    /\ \E success \in BOOLEAN :
         backend' = [backend EXCEPT ![o].fsm = Record(@, success)]
    /\ UNCHANGED <<poolVars, resolveVars>> /\ fetchUnchanged
-----------------------------------------------------------------------------
Resolver == PokeRound \/ TickRound \/ ResolveTarget \/ Reconcile

Next ==
    \/ \E f \in Fetches : Arrive(f) \/ FetchStep(f)
    \/ \E id \in Ids : EndpointChange(id)
    \/ SignalPoke \/ Resolver
    \/ \E o \in Objects : EjectionEnds(o) \/ Probe(o)

Spec == Init /\ [][Next]_vars

-----------------------------------------------------------------------------
(* Properties.                                                                *)

Pcs == {"idle", "pick", "acquire", "origin", "open", "failed", "done"}

\* Every variable has the type its declaration gives it.
TypeOK ==
    /\ byID \in [Ids -> 0..MaxGen] /\ made \in [Ids -> 0..MaxGen]
    /\ \A o \in Objects : backend[o].inflight \in Nat /\ backend[o].sem \in Nat
    /\ inflight \in Nat
    /\ \A f \in Fetches : req[f].pc \in Pcs /\ req[f].tried \subseteq Ids
    /\ endpoints \subseteq Ids /\ fails \in 0..MaxFails

\* The requests that hold a backend.
Holders(o) == {f \in Fetches : req[f].pc \in {"origin", "open"} /\ req[f].at = o}

\* Capacity is accounted exactly whatever fails, is cancelled or is re-resolved:
\* an object's counter and tokens are its holders, the pool's counter is all of
\* them, and no object ever serves more than max_conns at once.
CapacityExact ==
    /\ \A o \in Objects :
         /\ backend[o].inflight = Cardinality(Holders(o))
         /\ backend[o].sem = IF MaxConns > 0 THEN Cardinality(Holders(o)) ELSE 0
         /\ MaxConns > 0 => backend[o].inflight <= MaxConns
    /\ inflight = Cardinality(UNION {Holders(o) : o \in Objects})

\* A request with a body reaches at most one backend, and no request reaches an
\* endpoint twice, not even through the object that replaced the first.
SentOnce ==
    \A f \in Fetches :
        /\ req[f].body => Cardinality(req[f].sent) <= 1
        /\ \A o, p \in req[f].sent : o[1] = p[1] => o = p

\* No wake-up is lost: when the loop sleeps with nothing pending and its last
\* round answered, the pool holds exactly the endpoints that exist.
NoLostPoke ==
    (~round.on /\ ~poke /\ ~notify /\ round.failed = {}) => Present = endpoints \cap Buildable

\* A failing resolution never empties a working target: between rounds a backend
\* leaves the pool only because its own target answered without it.
FailureKeepsBackends ==
    \A id \in Ids : (byID[id] # 0 /\ byID'[id] = 0) => TargetOf[id] \notin round.failed

\* Whatever fails, is cancelled or is re-resolved, every counter and token of a
\* backend is exactly its holders, max_conns is never exceeded, a request is sent
\* to no endpoint twice, one with a body to one endpoint only, and no wake-up of
\* the resolver is lost (lb Fetch, fetchOne, trackedBody, signalPoke).
PoolSound == CapacityExact /\ SentOnce /\ NoLostPoke

\* A resolution that fails takes no backend away: one leaves the pool only because
\* its own target answered without it (lb resolveOnce, reconcile).
PoolFollowsAnswers == [][FailureKeepsBackends]_vars

\* After any outcomes the verdict is the one a sliding window of the last probes
\* gives: it flips up at threshold successes and down at threshold failures among
\* them, and otherwise stays (healthFSM.record's ring buffer).
VerdictOfWindow(window, threshold, startUp, outcomes, f) ==
    LET w == IF window < 1 THEN 1 ELSE window
        t == IF threshold < 1 THEN 1 ELSE IF threshold > w THEN w ELSE threshold
        Recent(n, result) == Cardinality({i \in 1..n : i > n - w /\ outcomes[i] = result})
        up[n \in 0..Len(outcomes)] ==
            IF n = 0 THEN startUp
            ELSE IF up[n - 1] THEN Recent(n, FALSE) < t ELSE Recent(n, TRUE) >= t
    IN  f.up = up[Len(outcomes)]
=============================================================================
