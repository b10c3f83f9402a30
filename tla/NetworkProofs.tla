--------------------------- MODULE NetworkProofs ---------------------------
(* Theorems about the parts around the request path: the load balancer, for    *)
(* any finite sets of endpoints and requests, any targets, any max_conns and   *)
(* any health and ejection settings; then the geo database, the certificates,  *)
(* the rate limiter and the two log sinks, each a section with its own         *)
(* constants and variables.                                                    *)
EXTENDS Upstream, FiniteSetTheorems, WellFoundedInduction, TLAPS

\* The steps are propositional and about sets and functions; those with arithmetic
\* cite SMT.
USE ZenonT(90)

-----------------------------------------------------------------------------
(* The requests.                                                              *)

Requests ==
    [pc : Pcs, body : BOOLEAN, tried : SUBSET Ids, at : Objects \cup {<<>>},
     errBody : Objects \cup {<<>>}, sent : SUBSET Objects]

Holding == {"origin", "open"}

\* A request holds a backend it picked; where it has been sent is on its list of
\* tried ids, and the backend it is about to take is not one it was sent to.
RequestOK(r) ==
    /\ r.pc \in Holding \cup {"acquire"} => r.at \in Objects
    /\ \A o \in r.sent : o[1] \in r.tried
    /\ \A o, p \in r.sent : o[1] = p[1] => o = p
    /\ r.pc = "acquire" => r.at[1] \in r.tried /\ \A o \in r.sent : o[1] # r.at[1]
    /\ r.body /\ r.pc \in {"idle", "pick", "acquire"} => r.sent = {}
    /\ r.body => r.sent \subseteq {r.at}

RequestInv == req \in [Fetches -> Requests] /\ \A f \in Fetches : RequestOK(req[f])

\* A step of a request changes that request alone.
LEMMA OneRequest ==
    ASSUME RequestInv, NEW f \in Fetches, NEW r \in Requests, RequestOK(r),
           req' = [req EXCEPT ![f] = r]
    PROVE  RequestInv'
<1>1. req' \in [Fetches -> Requests]
  BY DEF RequestInv
<1>2. \A g \in Fetches : RequestOK(req'[g])
  <2> SUFFICES ASSUME NEW g \in Fetches PROVE RequestOK(req'[g])
    OBVIOUS
  <2>1. req'[g] = IF g = f THEN r ELSE req[g]
    BY DEF RequestInv
  <2> QED  BY <2>1 DEF RequestInv
<1>3. \A g \in Fetches : RequestOK(req[g])'
  BY <1>2 DEF RequestOK
<1> QED  BY <1>1, <1>3 DEF RequestInv

\* pick takes a backend of the pool whose id was not tried.
LEMMA CandidatesFresh ==
    ASSUME policy \in Policies, NEW f \in Fetches, NEW o \in Candidates(f)
    PROVE  o \in Objects /\ o[1] \in Ids /\ o[1] \notin req[f].tried
<1> DEFINE S == {x \in Current : Ok(f, x)}
<1>1. S \subseteq Objects
  BY DEF Current
<1>2. PickLeastConn(S) \subseteq S /\ PickRing(S) \subseteq S /\ PickRoundRobin(S) \subseteq S
  BY DEF PickLeastConn, PickRing, PickRoundRobin
<1>3. policy \in {"round_robin", "least_conn", "sticky", "shard"}
  BY UpstreamAssumptions DEF UpstreamAssumptions
<1>4. o \in S
  <2> HIDE DEF S
  <2>1. Candidates(f) = CASE policy = "round_robin" -> PickRoundRobin(S)
                          [] policy = "least_conn" -> PickLeastConn(S)
                          [] policy \in {"sticky", "shard"} -> PickRing(S)
    BY DEF Candidates, S
  <2> QED  BY <1>2, <1>3, <2>1
<1> QED  BY <1>1, <1>4 DEF Ok, Objects

\* What a step of a request leaves of the requests.
LEMMA FetchRequest ==
    ASSUME RequestInv, policy \in Policies, NEW f \in Fetches, Arrive(f) \/ FetchStep(f)
    PROVE  RequestInv'
<1> DEFINE r == req[f]
<1>0. r \in Requests /\ RequestOK(r)
  BY DEF RequestInv
<1>1. CASE Arrive(f) \/ GiveUp(f)
  <2>1. PICK pc \in {"pick", "failed"} : /\ req' = [req EXCEPT ![f] = [r EXCEPT !.pc = pc]]
                                        /\ r.pc \in {"idle", "pick"}
    BY <1>1 DEF Arrive, GiveUp
  <2> DEFINE q == [r EXCEPT !.pc = pc]
  <2>2. q \in Requests
    BY <1>0, <2>1 DEF Requests, Pcs
  <2>3. q.pc = pc /\ q.at = r.at /\ q.sent = r.sent /\ q.tried = r.tried /\ q.body = r.body
    BY <1>0 DEF Requests
  <2>4. RequestOK(q)
    <3> HIDE DEF q, r
    <3>1. r.body \in BOOLEAN
      BY <1>0 DEF Requests
    <3> QED  BY <1>0, <2>1, <2>3, <3>1 DEF RequestOK, Holding
  <2> QED  BY <2>1, <2>2, <2>4, OneRequest
<1>2. CASE Pick(f)
  <2>1. PICK o \in Candidates(f) :
          req' = [req EXCEPT ![f] = [r EXCEPT !.pc = "acquire", !.at = o, !.tried = r.tried \cup {o[1]}]]
    BY <1>2 DEF Pick
  <2>2. o \in Objects /\ o[1] \in Ids /\ o[1] \notin r.tried /\ r.pc = "pick"
    BY <1>2, CandidatesFresh DEF Pick
  <2> DEFINE q == [r EXCEPT !.pc = "acquire", !.at = o, !.tried = r.tried \cup {o[1]}]
  <2>3. q \in Requests
    BY <1>0, <2>2 DEF Requests, Pcs
  <2>4. RequestOK(q)
    BY <1>0, <2>2 DEF Requests, RequestOK, Holding
  <2> QED  BY <2>1, <2>3, <2>4, OneRequest
<1>3. CASE AtCapacity(f) \/ Refused(f) \/ Failed(f)
  <2>1. PICK pc \in {"pick", "failed"}, e \in {r.at, <<>>} :
          /\ req' = [req EXCEPT ![f] = [r EXCEPT !.pc = pc, !.errBody = e]]
          /\ r.pc \in {"acquire", "origin"} /\ (r.body => pc = "failed")
    BY <1>3 DEF AtCapacity, Refused, Failed, NewError, AfterRetriable
  <2> DEFINE q == [r EXCEPT !.pc = pc, !.errBody = e]
  <2>2. q \in Requests
    BY <1>0, <2>1 DEF Requests, Pcs
  <2>3. q.pc = pc /\ q.at = r.at /\ q.sent = r.sent /\ q.tried = r.tried /\ q.body = r.body
    BY <1>0 DEF Requests
  <2>4. RequestOK(q)
    <3> HIDE DEF q, r
    <3>1. r.body \in BOOLEAN
      BY <1>0 DEF Requests
    <3> QED  BY <1>0, <2>1, <2>3, <3>1 DEF RequestOK, Holding
  <2> QED  BY <2>1, <2>2, <2>4, OneRequest
<1>4. CASE Acquire(f)
  <2> DEFINE q == [r EXCEPT !.pc = "origin", !.sent = r.sent \cup {r.at}]
  <2>1. r.pc = "acquire" /\ req' = [req EXCEPT ![f] = q]
    BY <1>4 DEF Acquire
  <2>2. r.at \in Objects /\ r.sent \subseteq Objects
    BY <1>0, <2>1 DEF Requests, RequestOK
  <2>3. q \in Requests
    BY <1>0, <2>2 DEF Requests, Pcs
  <2>4. RequestOK(q)
    BY <1>0, <2>1, <2>2 DEF Requests, RequestOK, Holding
  <2> QED  BY <2>1, <2>3, <2>4, OneRequest
<1>5. CASE Answered(f)
  <2> DEFINE q == [r EXCEPT !.pc = "open", !.errBody = <<>>]
  <2>1. r.pc = "origin" /\ req' = [req EXCEPT ![f] = q]
    BY <1>5 DEF Answered
  <2>2. q \in Requests /\ RequestOK(q)
    BY <1>0, <2>1 DEF Requests, RequestOK, Holding, Pcs
  <2> QED  BY <2>1, <2>2, OneRequest
<1>6. CASE CloseBody(f) \/ CloseError(f)
  <2>1. req' = [req EXCEPT ![f] = Over]
    BY <1>6 DEF CloseBody, CloseError
  <2>2. Over \in Requests /\ RequestOK(Over)
    BY DEF Over, NewRequest, Requests, RequestOK, Holding, Pcs
  <2> QED  BY <2>1, <2>2, OneRequest
<1> QED  BY <1>1, <1>2, <1>3, <1>4, <1>5, <1>6 DEF FetchStep

-----------------------------------------------------------------------------
(* The capacity.                                                              *)

\* What the proof needs to know of a backend object: its two counters.
BackendOK(b) == "inflight" \in DOMAIN b /\ "sem" \in DOMAIN b /\ b.inflight \in Nat /\ b.sem \in Nat

\* fetchOne counts one request more, release one less, and nothing else that is
\* recorded of a backend touches the counters.
LEMMA TakenFacts ==
    ASSUME NEW b, BackendOK(b)
    PROVE  /\ BackendOK(Taken(b)) /\ Taken(b).inflight = b.inflight + 1
           /\ Taken(b).sem = IF MaxConns > 0 THEN b.sem + 1 ELSE b.sem
  BY SMT DEF BackendOK, Taken

\* Giving back a backend's slot (fetchOne, trackedBody.Close).
LEMMA FreedFacts ==
    ASSUME NEW b, BackendOK(b), b.inflight > 0, MaxConns > 0 => b.sem > 0
    PROVE  /\ BackendOK(Freed(b)) /\ Freed(b).inflight = b.inflight - 1
           /\ Freed(b).sem = IF MaxConns > 0 THEN b.sem - 1 ELSE b.sem
  BY SMT DEF BackendOK, Freed

\* Passive health counts on a backend and leaves its slots alone.
LEMMA PassiveFacts ==
    ASSUME NEW b, BackendOK(b)
    PROVE  /\ BackendOK(PassiveSuccess(b)) /\ PassiveSuccess(b).inflight = b.inflight
           /\ PassiveSuccess(b).sem = b.sem
           /\ BackendOK(PassiveFailure(b)) /\ PassiveFailure(b).inflight = b.inflight
           /\ PassiveFailure(b).sem = b.sem
<1>1. BackendOK(PassiveSuccess(b)) /\ PassiveSuccess(b).inflight = b.inflight /\ PassiveSuccess(b).sem = b.sem
  BY DEF BackendOK, PassiveSuccess
<1>2. BackendOK(PassiveFailure(b)) /\ PassiveFailure(b).inflight = b.inflight /\ PassiveFailure(b).sem = b.sem
  BY DEF BackendOK, PassiveFailure
<1> QED  BY <1>1, <1>2

\* Neither does an ejection that lapses or a probe.
LEMMA HealthFacts ==
    ASSUME NEW b, BackendOK(b), NEW v
    PROVE  /\ BackendOK([b EXCEPT !.ejected = v]) /\ BackendOK([b EXCEPT !.fsm = v])
           /\ [b EXCEPT !.ejected = v].inflight = b.inflight /\ [b EXCEPT !.ejected = v].sem = b.sem
           /\ [b EXCEPT !.fsm = v].inflight = b.inflight /\ [b EXCEPT !.fsm = v].sem = b.sem
  BY DEF BackendOK

\* CapacityExact, with what its proof needs of the objects.
CapacityInv ==
    /\ backend = [o \in Objects |-> backend[o]] /\ \A o \in Objects : BackendOK(backend[o])
    /\ CapacityExact

\* All the requests that hold a backend.
AllHolders == {f \in Fetches : req[f].pc \in Holding}

\* The holders of one backend, and of all, are finitely many.
LEMMA HoldersFacts ==
    ASSUME RequestInv
    PROVE  /\ \A o \in Objects : IsFiniteSet(Holders(o)) /\ Cardinality(Holders(o)) \in Nat
           /\ UNION {Holders(o) : o \in Objects} = AllHolders
           /\ IsFiniteSet(AllHolders) /\ Cardinality(AllHolders) \in Nat
<1>1. IsFiniteSet(Fetches)
  BY UpstreamAssumptions DEF UpstreamAssumptions
<1>2. \A o \in Objects : Holders(o) \in SUBSET Fetches
  BY DEF Holders
<1>3. AllHolders \in SUBSET Fetches
  BY DEF AllHolders
<1>4. \A S \in SUBSET Fetches : IsFiniteSet(S) /\ Cardinality(S) \in Nat
  BY <1>1, FS_Subset, FS_CardinalityType
<1>5. UNION {Holders(o) : o \in Objects} = AllHolders
  BY SMT DEF Holders, AllHolders, Holding, RequestInv, RequestOK
<1> QED  BY <1>2, <1>3, <1>4, <1>5

\* A step that leaves the holders and the counters alone.
LEMMA SameHolders ==
    ASSUME CapacityInv, RequestInv, RequestInv',
           \A f \in Fetches : /\ req'[f].pc \in Holding <=> req[f].pc \in Holding
                              /\ req[f].pc \in Holding => req'[f].at = req[f].at,
           backend' = [o \in Objects |-> backend'[o]],
           \A o \in Objects : /\ BackendOK(backend'[o]) /\ backend'[o].inflight = backend[o].inflight
                              /\ backend'[o].sem = backend[o].sem,
           inflight' = inflight
    PROVE  CapacityInv'
<1>1. ASSUME NEW o \in Objects PROVE Holders(o)' = Holders(o)
  BY DEF Holders, Holding
<1>3. (UNION {Holders(o) : o \in Objects})' = UNION {Holders(o) : o \in Objects}
  BY <1>1
<1>4. CapacityExact'
  BY <1>1, <1>3 DEF CapacityInv, CapacityExact
<1>5. \A o \in Objects : BackendOK(backend[o])'
  BY DEF BackendOK
<1> QED  BY <1>4, <1>5 DEF CapacityInv

\* A request that takes a backend becomes one holder more, of that backend.
LEMMA AcquireStep ==
    ASSUME CapacityInv, RequestInv, RequestInv', NEW f \in Fetches, Acquire(f)
    PROVE  CapacityInv'
<1>0. PICK at \in Objects : at = req[f].at
  BY DEF Acquire, RequestInv, RequestOK
<1>1. /\ req[f].pc = "acquire" /\ (MaxConns > 0 => backend[at].sem # MaxConns)
      /\ backend' = [backend EXCEPT ![at] = Taken(backend[at])] /\ inflight' = inflight + 1
  BY <1>0 DEF Acquire
<1>2. /\ req'[f].pc = "origin" /\ req'[f].at = at
      /\ \A g \in Fetches \ {f} : req'[g] = req[g]
  BY <1>0 DEF Acquire, RequestInv, Requests
<1>3. f \notin AllHolders /\ \A o \in Objects : f \notin Holders(o)
  BY <1>1 DEF AllHolders, Holders, Holding
<1>4. Holders(at)' = Holders(at) \cup {f} /\ \A o \in Objects \ {at} : Holders(o)' = Holders(o)
  BY <1>0, <1>1, <1>2 DEF Holders
<1>5. AllHolders' = AllHolders \cup {f}
  BY <1>1, <1>2 DEF AllHolders, Holding
<1>6. /\ backend' = [o \in Objects |-> backend'[o]] /\ backend'[at] = Taken(backend[at])
      /\ \A o \in Objects \ {at} : backend'[o] = backend[o]
  BY <1>1 DEF CapacityInv
<1>7. /\ Cardinality(Holders(at)') = Cardinality(Holders(at)) + 1
      /\ Cardinality(AllHolders') = Cardinality(AllHolders) + 1
  BY <1>1, <1>3, <1>4, <1>5, HoldersFacts, FS_AddElement
<1>8. /\ BackendOK(Taken(backend[at])) /\ Taken(backend[at]).inflight = backend[at].inflight + 1
      /\ Taken(backend[at]).sem = IF MaxConns > 0 THEN backend[at].sem + 1 ELSE backend[at].sem
  BY <1>1, TakenFacts DEF CapacityInv
<1>9. \A o \in Objects : BackendOK(backend[o])'
  BY <1>6, <1>8 DEF CapacityInv, BackendOK
<1>10. inflight' = Cardinality(AllHolders')
  BY <1>1, <1>7, HoldersFacts DEF CapacityInv, CapacityExact
<1>11. (UNION {Holders(o) : o \in Objects})' = AllHolders'
  BY SMT DEF Holders, AllHolders, Holding, RequestInv, RequestOK
<1>12. ASSUME NEW o \in Objects
       PROVE  /\ backend'[o].inflight = Cardinality(Holders(o)')
              /\ backend'[o].sem = IF MaxConns > 0 THEN Cardinality(Holders(o)') ELSE 0
              /\ MaxConns > 0 => backend'[o].inflight <= MaxConns
  <2>1. CASE o = at
    BY SMT, <1>1, <1>6, <1>7, <1>8, <2>1, HoldersFacts, UpstreamAssumptions
    DEF CapacityInv, CapacityExact, UpstreamAssumptions
  <2>2. CASE o # at
    BY <1>4, <1>6, <2>2 DEF CapacityInv, CapacityExact
  <2> QED  BY <2>1, <2>2
<1> QED  BY <1>6, <1>9, <1>10, <1>11, <1>12 DEF CapacityInv, CapacityExact

\* A request that gives its backend back is one holder less.
LEMMA ReleaseStep ==
    ASSUME CapacityInv, RequestInv, RequestInv',
           NEW f \in Fetches, req[f].pc \in Holding, req'[f].pc \notin Holding,
           \A g \in Fetches \ {f} : req'[g] = req[g],
           NEW b, backend' = [backend EXCEPT ![req[f].at] = b],
           BackendOK(Freed(backend[req[f].at])) => /\ BackendOK(b)
                                                   /\ b.inflight = Freed(backend[req[f].at]).inflight
                                                   /\ b.sem = Freed(backend[req[f].at]).sem,
           inflight' = inflight - 1
    PROVE  CapacityInv'
<1>1. PICK at \in Objects : at = req[f].at
  BY DEF RequestInv, RequestOK
<1>2. f \in AllHolders /\ f \in Holders(at) /\ \A o \in Objects \ {at} : f \notin Holders(o)
  BY <1>1 DEF AllHolders, Holders, Holding
<1>3. Holders(at)' = Holders(at) \ {f} /\ \A o \in Objects \ {at} : Holders(o)' = Holders(o)
  BY SMT, <1>1, <1>2 DEF Holders, Holding
<1>4. AllHolders' = AllHolders \ {f}
  BY DEF AllHolders
<1>5. /\ backend' = [o \in Objects |-> backend'[o]] /\ backend'[at] = b
      /\ \A o \in Objects \ {at} : backend'[o] = backend[o]
  BY <1>1 DEF CapacityInv
<1>6. /\ Cardinality(Holders(at)') = Cardinality(Holders(at)) - 1
      /\ Cardinality(AllHolders') = Cardinality(AllHolders) - 1
  <2>1. IsFiniteSet(Holders(at)) /\ IsFiniteSet(AllHolders)
    BY HoldersFacts
  <2>2. /\ Cardinality(Holders(at) \ {f}) = Cardinality(Holders(at)) - 1
        /\ Cardinality(AllHolders \ {f}) = Cardinality(AllHolders) - 1
    BY <1>2, <2>1, FS_RemoveElement
  <2> QED  BY <1>3, <1>4, <2>2
<1>7. Cardinality(Holders(at)) > 0
  BY SMT, <1>1, <1>2, HoldersFacts, FS_EmptySet
<1>8. /\ BackendOK(b) /\ b.inflight = backend[at].inflight - 1
      /\ b.sem = IF MaxConns > 0 THEN backend[at].sem - 1 ELSE backend[at].sem
  BY <1>1, <1>7, FreedFacts DEF CapacityInv, CapacityExact
<1>9. \A o \in Objects : BackendOK(backend[o])'
  BY <1>5, <1>8 DEF CapacityInv, BackendOK
<1>10. inflight' = Cardinality(AllHolders')
  BY <1>6, HoldersFacts DEF CapacityInv, CapacityExact
<1>11. (UNION {Holders(o) : o \in Objects})' = AllHolders'
  BY SMT DEF Holders, AllHolders, Holding, RequestInv, RequestOK
<1>12. ASSUME NEW o \in Objects
       PROVE  /\ backend'[o].inflight = Cardinality(Holders(o)')
              /\ backend'[o].sem = IF MaxConns > 0 THEN Cardinality(Holders(o)') ELSE 0
              /\ MaxConns > 0 => backend'[o].inflight <= MaxConns
  <2>1. CASE o = at
    BY SMT, <1>1, <1>5, <1>6, <1>8, <2>1, HoldersFacts, UpstreamAssumptions
    DEF CapacityInv, CapacityExact, UpstreamAssumptions
  <2>2. CASE o # at
    BY SMT, <1>3, <1>5, <2>2 DEF CapacityInv, CapacityExact
  <2> QED  BY <2>1, <2>2
<1> QED  BY <1>5, <1>9, <1>10, <1>11, <1>12 DEF CapacityInv, CapacityExact

\* A step of a request keeps the accounts.
LEMMA FetchCapacity ==
    ASSUME CapacityInv, RequestInv, RequestInv', NEW f \in Fetches, Arrive(f) \/ FetchStep(f)
    PROVE  CapacityInv'
<1>0. /\ req \in [Fetches -> Requests] /\ backend = [o \in Objects |-> backend[o]]
      /\ \A o \in Objects : BackendOK(backend[o])
  BY DEF RequestInv, CapacityInv
<1>1. CASE Arrive(f) \/ GiveUp(f) \/ Pick(f) \/ AtCapacity(f) \/ CloseError(f)
  <2>1. UNCHANGED <<backend, inflight>>
    BY <1>1 DEF Arrive, GiveUp, Pick, AtCapacity, CloseError
  <2>2. /\ req[f].pc \notin Holding /\ req'[f].pc \notin Holding
        /\ \A g \in Fetches \ {f} : req'[g] = req[g]
    <3>1. CASE Arrive(f) \/ GiveUp(f)
      BY <1>0, <3>1 DEF Arrive, GiveUp, Requests, Holding
    <3>2. CASE Pick(f)
      BY <1>0, <3>2 DEF Pick, Requests, Holding
    <3>3. CASE AtCapacity(f)
      BY <1>0, <3>3 DEF AtCapacity, NewError, AfterRetriable, Requests, Holding
    <3>4. CASE CloseError(f)
      BY <1>0, <3>4 DEF CloseError, Over, NewRequest, Holding
    <3> QED  BY <1>1, <3>1, <3>2, <3>3, <3>4
  <2>3. \A g \in Fetches : /\ req'[g].pc \in Holding <=> req[g].pc \in Holding
                           /\ req[g].pc \in Holding => req'[g].at = req[g].at
    BY <2>2
  <2> QED  BY <1>0, <2>1, <2>3, SameHolders
<1>2. CASE Acquire(f)
  BY <1>2, AcquireStep
<1>3. CASE Answered(f)
  <2>1. PICK at \in Objects : at = req[f].at
    BY <1>3 DEF Answered, RequestInv, RequestOK, Holding
  <2>2. /\ backend' = [backend EXCEPT ![at] = PassiveSuccess(backend[at])] /\ inflight' = inflight
        /\ req' = [req EXCEPT ![f] = [req[f] EXCEPT !.pc = "open", !.errBody = <<>>]]
        /\ req[f].pc = "origin"
    BY <1>3, <2>1 DEF Answered
  <2>3. \A g \in Fetches : /\ req'[g].pc \in Holding <=> req[g].pc \in Holding
                           /\ req[g].pc \in Holding => req'[g].at = req[g].at
    BY <1>0, <2>2 DEF Holding, Requests
  <2>4. \A o \in Objects : backend'[o] = IF o = at THEN PassiveSuccess(backend[o]) ELSE backend[o]
    BY <1>0, <2>2
  <2>5. backend' = [o \in Objects |-> backend'[o]]
    BY <1>0, <2>2
  <2>6. \A o \in Objects : /\ BackendOK(backend'[o]) /\ backend'[o].inflight = backend[o].inflight
                           /\ backend'[o].sem = backend[o].sem
    BY <1>0, <2>4, PassiveFacts
  <2> QED  BY <2>2, <2>3, <2>5, <2>6, SameHolders
<1>4. CASE Refused(f) \/ Failed(f) \/ CloseBody(f)
  <2>1. PICK at \in Objects : at = req[f].at
    BY <1>4 DEF Refused, Failed, CloseBody, RequestInv, RequestOK, Holding
  <2>2. req[f].pc \in Holding /\ inflight' = inflight - 1
    BY <1>4 DEF Refused, Failed, CloseBody, Holding
  <2>3. req'[f].pc \notin Holding /\ \A g \in Fetches \ {f} : req'[g] = req[g]
    <3>1. CASE Refused(f) \/ Failed(f)
      <4>1. PICK pc \in {"pick", "failed"}, e \in {req[f].at, <<>>} :
              req' = [req EXCEPT ![f] = [req[f] EXCEPT !.pc = pc, !.errBody = e]]
        BY <3>1 DEF Refused, Failed, NewError, AfterRetriable
      <4> QED  BY <1>0, <4>1 DEF Requests, Holding
    <3>2. CASE CloseBody(f)
      BY <1>0, <3>2 DEF CloseBody, Over, NewRequest, Holding
    <3> QED  BY <1>4, <3>1, <3>2
  <2> DEFINE b == Freed(backend[at])
  <2>4. PICK c \in {b, PassiveSuccess(b), PassiveFailure(b)} : backend' = [backend EXCEPT ![at] = c]
    <3>1. CASE Refused(f)
      BY <2>1, <3>1 DEF Refused
    <3>2. CASE Failed(f)
      BY <2>1, <3>2 DEF Failed
    <3>3. CASE CloseBody(f)
      BY <2>1, <3>3 DEF CloseBody
    <3> QED  BY <1>4, <3>1, <3>2, <3>3
  <2>5. BackendOK(b) => BackendOK(c) /\ c.inflight = b.inflight /\ c.sem = b.sem
    BY <2>4, PassiveFacts
  <2> QED  BY <2>1, <2>2, <2>3, <2>4, <2>5, ReleaseStep
<1> QED  BY <1>1, <1>2, <1>3, <1>4 DEF FetchStep

-----------------------------------------------------------------------------
(* The pool and its re-resolution.                                            *)

AllTargets == {Targets[i] : i \in DOMAIN Targets}

\* While no change is pending, what a round has collected is what exists now of
\* the targets that answered; between rounds, if all answered, the pool is it.
RoundInv ==
    /\ byID \in [Ids -> Nat] /\ made \in [Ids -> Nat] /\ policy \in Policies
    /\ Present \subseteq Buildable /\ endpoints \subseteq Ids /\ notify \in BOOLEAN /\ poke \in BOOLEAN
    /\ round \in [on : BOOLEAN, next : Nat \ {0}, desired : SUBSET Ids, failed : SUBSET AllTargets]
    /\ ~poke /\ ~notify /\ round.on =>
         /\ round.desired \subseteq endpoints
         /\ \A i \in 1..(round.next - 1), id \in endpoints :
              TargetOf[id] = Targets[i] /\ Targets[i] \notin round.failed => id \in round.desired
    /\ NoLostPoke

\* Requests, probes and lapsing ejections do not touch the pool.
LEMMA PoolSame ==
    ASSUME RoundInv, UNCHANGED <<byID, made, policy, endpoints, notify, poke, round>>
    PROVE  RoundInv'
  BY DEF RoundInv, NoLostPoke, Present

\* A change is pending until a round has begun after it.
LEMMA SignalStep ==
    ASSUME RoundInv, SignalPoke \/ PokeRound \/ TickRound \/ \E id \in Ids : EndpointChange(id)
    PROVE  RoundInv'
<1>1. UNCHANGED <<byID, made, policy>> /\ Present' = Present
  BY DEF SignalPoke, PokeRound, TickRound, EndpointChange, poolVars, fetchUnchanged, Present
<1>2. CASE SignalPoke \/ \E id \in Ids : EndpointChange(id)
  BY <1>1, <1>2 DEF SignalPoke, EndpointChange, Sent, RoundInv, NoLostPoke
<1>3. CASE PokeRound \/ TickRound
  <2>1. /\ round' = [on |-> TRUE, next |-> 1, desired |-> {}, failed |-> {}] /\ poke' \in BOOLEAN
        /\ UNCHANGED <<endpoints, notify>>
    BY <1>3 DEF PokeRound, TickRound, StartRound, RoundInv
  <2> QED  BY SMT, <1>1, <2>1 DEF RoundInv, NoLostPoke
<1> QED  BY <1>2, <1>3

\* A target that answers contributes what exists of it now.
LEMMA ResolveStep ==
    ASSUME RoundInv, ResolveTarget
    PROVE  RoundInv'
<1>1. UNCHANGED <<byID, made, policy, endpoints, notify, poke>> /\ Present' = Present
  BY DEF ResolveTarget, poolVars, fetchUnchanged, Present
<1>2. PICK t : t = Targets[round.next]
  OBVIOUS
<1>3. /\ round.on /\ round.next \in Nat \ {0} /\ round.next <= Len(Targets) /\ t \in AllTargets
      /\ round \in [on : BOOLEAN, next : Nat \ {0}, desired : SUBSET Ids, failed : SUBSET AllTargets]
  BY SMT, <1>2, UpstreamAssumptions DEF RoundInv, ResolveTarget, UpstreamAssumptions, AllTargets
<1> DEFINE ids == {id \in Ids : TargetOf[id] = t}
<1>4. CASE round' = [round EXCEPT !.next = @ + 1, !.desired = @ \cup (ids \cap endpoints)]
  <2>1. /\ round'.on /\ round'.next = round.next + 1 /\ round'.failed = round.failed
        /\ round'.desired = round.desired \cup (ids \cap endpoints)
    BY <1>3, <1>4
  <2>2. round' \in [on : BOOLEAN, next : Nat \ {0}, desired : SUBSET Ids, failed : SUBSET AllTargets]
    <3>1. round' = [on |-> round.on, next |-> round.next + 1,
                    desired |-> round.desired \cup (ids \cap endpoints), failed |-> round.failed]
      BY <1>3, <1>4
    <3> QED  BY SMT, <1>3, <3>1
  <2>3. \A i \in 1..(round'.next - 1) : i \in 1..(round.next - 1) \/ i = round.next
    BY SMT, <1>3, <2>1
  <2>4. ASSUME ~poke, ~notify
        PROVE  /\ round'.desired \subseteq endpoints
               /\ \A i \in 1..(round'.next - 1), id \in endpoints :
                    TargetOf[id] = Targets[i] /\ Targets[i] \notin round'.failed => id \in round'.desired
    <3>1. /\ round.desired \subseteq endpoints /\ endpoints \subseteq Ids
          /\ \A i \in 1..(round.next - 1), id \in endpoints :
               TargetOf[id] = Targets[i] /\ Targets[i] \notin round.failed => id \in round.desired
      BY <1>3, <2>4 DEF RoundInv
    <3> QED  BY <1>2, <2>1, <2>3, <3>1
  <2> QED  BY <1>1, <2>1, <2>2, <2>4 DEF RoundInv, NoLostPoke
<1>5. CASE round' = [round EXCEPT !.next = @ + 1, !.failed = @ \cup {t}]
  <2>1. /\ round'.on /\ round'.next = round.next + 1 /\ round'.failed = round.failed \cup {t}
        /\ round'.desired = round.desired
    BY <1>3, <1>5
  <2>2. round' \in [on : BOOLEAN, next : Nat \ {0}, desired : SUBSET Ids, failed : SUBSET AllTargets]
    <3>1. round' = [on |-> round.on, next |-> round.next + 1, desired |-> round.desired,
                    failed |-> round.failed \cup {t}]
      BY <1>3, <1>5
    <3> QED  BY SMT, <1>3, <3>1
  <2>3. \A i \in 1..(round'.next - 1) : i \in 1..(round.next - 1) \/ i = round.next
    BY SMT, <1>3, <2>1
  <2>4. ASSUME ~poke, ~notify
        PROVE  /\ round'.desired \subseteq endpoints
               /\ \A i \in 1..(round'.next - 1), id \in endpoints :
                    TargetOf[id] = Targets[i] /\ Targets[i] \notin round'.failed => id \in round'.desired
    <3>1. /\ round.desired \subseteq endpoints /\ endpoints \subseteq Ids
          /\ \A i \in 1..(round.next - 1), id \in endpoints :
               TargetOf[id] = Targets[i] /\ Targets[i] \notin round.failed => id \in round.desired
      BY <1>3, <2>4 DEF RoundInv
    <3> QED  BY <1>2, <2>1, <2>3, <3>1
  <2> QED  BY <1>1, <2>1, <2>2, <2>4 DEF RoundInv, NoLostPoke
<1> QED  BY <1>2, <1>4, <1>5 DEF ResolveTarget

\* What reconcile makes of the pool.
LEMMA ReconcileFacts ==
    ASSUME RoundInv, Reconcile
    PROVE  /\ byID' \in [Ids -> Nat] /\ made' \in [Ids -> Nat]
           /\ Present' = (Present \cap (round.desired \cup Retained))
                          \cup ((round.desired \cap Buildable) \ Present)
           /\ \A id \in Ids : byID[id] # 0 /\ byID'[id] = 0 => TargetOf[id] \notin round.failed
<1>1. byID \in [Ids -> Nat] /\ made \in [Ids -> Nat] /\ round.desired \subseteq Ids
  BY DEF RoundInv
<1> DEFINE kept == Present \cap (round.desired \cup Retained)
           new == (round.desired \cap Buildable) \ Present
<1>2. /\ byID' = [id \in Ids |-> IF id \in kept THEN byID[id] ELSE IF id \in new THEN made[id] + 1 ELSE 0]
      /\ made' = [id \in Ids |-> IF id \in new THEN made[id] + 1 ELSE made[id]]
  BY DEF Reconcile
<1>3. byID' \in [Ids -> Nat] /\ made' \in [Ids -> Nat]
  BY SMT, <1>1, <1>2
<1>4. \A id \in Ids : byID'[id] # 0 <=> id \in kept \cup new
  BY SMT, <1>1, <1>2 DEF Present
<1>5. Present' = kept \cup new
  BY <1>1, <1>4 DEF Present
<1>6. \A id \in Ids : byID[id] # 0 /\ byID'[id] = 0 => TargetOf[id] \notin round.failed
  BY <1>4 DEF Present, Retained
<1> QED  BY <1>3, <1>5, <1>6

\* When all targets answered and nothing changed since, the pool is what exists.
LEMMA ReconcileStep ==
    ASSUME RoundInv, Reconcile
    PROVE  RoundInv'
<1>1. /\ round.on /\ round.next > Len(Targets) /\ UNCHANGED <<policy, endpoints, notify, poke>>
      /\ round' = [round EXCEPT !.on = FALSE, !.next = 1, !.desired = {}]
  BY DEF Reconcile, fetchUnchanged
<1>2. round \in [on : BOOLEAN, next : Nat \ {0}, desired : SUBSET Ids, failed : SUBSET AllTargets]
  BY DEF RoundInv
<1>3. /\ round' \in [on : BOOLEAN, next : Nat \ {0}, desired : SUBSET Ids, failed : SUBSET AllTargets]
      /\ ~round'.on /\ round'.failed = round.failed
  <2>1. round' = [on |-> FALSE, next |-> 1, desired |-> {}, failed |-> round.failed]
    BY <1>1, <1>2
  <2> QED  BY SMT, <1>2, <2>1
<1>4. Present' \subseteq Buildable
  BY ReconcileFacts DEF RoundInv
<1>5. ASSUME ~poke, ~notify, round.failed = {} PROVE Present' = endpoints \cap Buildable
  <2>1. round.desired \subseteq endpoints
    BY <1>1, <1>5 DEF RoundInv
  <2>2. ASSUME NEW id \in endpoints PROVE id \in round.desired
    <3>1. PICK i \in 1..Len(Targets) : TargetOf[id] = Targets[i]
      BY SMT, UpstreamAssumptions DEF UpstreamAssumptions, RoundInv
    <3>2. i \in 1..(round.next - 1)
      BY SMT, <1>1, <1>2, UpstreamAssumptions DEF UpstreamAssumptions
    <3> QED  BY <1>1, <1>5, <3>1, <3>2 DEF RoundInv
  <2>3. Retained = {}
    BY <1>5 DEF Retained
  <2> QED  BY <2>1, <2>2, <2>3, ReconcileFacts DEF RoundInv
<1> QED  BY <1>1, <1>3, <1>4, <1>5, ReconcileFacts DEF RoundInv, NoLostPoke

-----------------------------------------------------------------------------
(* Invariance, and the theorems.                                              *)

IInv == RequestInv /\ CapacityInv /\ RoundInv

\* A pool that New has just made satisfies it.
LEMMA InitIInv == Init => IInv
<1> SUFFICES ASSUME Init PROVE IInv
  OBVIOUS
<1>1. RequestInv
  <2>1. \A b \in BOOLEAN : NewRequest(b) \in Requests /\ RequestOK(NewRequest(b))
    BY DEF NewRequest, Requests, RequestOK, Pcs, Holding
  <2>2. req \in [Fetches -> {NewRequest(b) : b \in BOOLEAN}]
    BY DEF Init
  <2> QED  BY <2>1, <2>2 DEF RequestInv
<1>2. CapacityInv
  <2>1. /\ backend = [o \in Objects |-> FreshBackend] /\ inflight = 0
        /\ \A f \in Fetches : req[f].pc = "idle"
    BY SMT DEF Init, NewRequest
  <2>2. BackendOK(FreshBackend) /\ FreshBackend.inflight = 0 /\ FreshBackend.sem = 0
    BY DEF BackendOK, FreshBackend
  <2>3. AllHolders = {} /\ \A o \in Objects : Holders(o) = {}
    BY <2>1 DEF AllHolders, Holders, Holding
  <2>4. UNION {Holders(o) : o \in Objects} = {}
    BY <2>3
  <2>5. Cardinality({}) = 0
    BY FS_EmptySet
  <2>6. ASSUME NEW o \in Objects
        PROVE  /\ backend[o].inflight = Cardinality(Holders(o)) /\ backend[o].inflight = 0
               /\ backend[o].sem = IF MaxConns > 0 THEN Cardinality(Holders(o)) ELSE 0
    BY <2>1, <2>2, <2>3, <2>5
  <2>7. MaxConns \in Nat
    BY UpstreamAssumptions DEF UpstreamAssumptions
  <2>8. CapacityExact
    <3>1. inflight = Cardinality(UNION {Holders(o) : o \in Objects})
      BY <2>1, <2>4, <2>5
    <3>2. ASSUME NEW o \in Objects, MaxConns > 0 PROVE backend[o].inflight <= MaxConns
      BY SMT, <2>6, <2>7, <3>2
    <3> QED  BY <2>6, <3>1, <3>2 DEF CapacityExact
  <2> QED  BY <2>1, <2>2, <2>8 DEF CapacityInv
<1>3. RoundInv
  <2>1. PICK first \in SUBSET Ids :
          byID = [id \in Ids |-> IF id \in first \cap Buildable THEN 1 ELSE 0] /\ made = byID
    BY UpstreamAssumptions DEF Init, UpstreamAssumptions
  <2>2. /\ round = [on |-> TRUE, next |-> 1, desired |-> {}, failed |-> {}] /\ endpoints \subseteq Ids
        /\ policy \in Policies /\ notify = FALSE /\ poke = FALSE
    BY DEF Init
  <2>3. Present \subseteq Buildable
    BY <2>1 DEF Present
  <2>4. /\ round \in [on : BOOLEAN, next : Nat \ {0}, desired : SUBSET Ids, failed : SUBSET AllTargets]
        /\ round.on /\ round.desired = {} /\ 1..(round.next - 1) = {}
    BY SMT, <2>2
  <2>5. byID \in [Ids -> Nat] /\ made \in [Ids -> Nat]
    BY <2>1
  <2> QED  BY <2>2, <2>3, <2>4, <2>5 DEF RoundInv, NoLostPoke
<1> QED  BY <1>1, <1>2, <1>3 DEF IInv

\* Every step keeps it.
LEMMA NextIInv == IInv /\ [Next]_vars => IInv'
<1> SUFFICES ASSUME IInv, [Next]_vars PROVE IInv'
  OBVIOUS
<1>0. RequestInv /\ CapacityInv /\ RoundInv
  BY DEF IInv
<1>1. ASSUME NEW f \in Fetches, Arrive(f) \/ FetchStep(f) PROVE IInv'
  <2>1. RequestInv'
    BY <1>0, <1>1, FetchRequest DEF RoundInv
  <2>2. CapacityInv'
    BY <1>0, <1>1, <2>1, FetchCapacity
  <2>3. UNCHANGED <<byID, made, policy, resolveVars>>
    BY <1>1 DEF Arrive, FetchStep, GiveUp, Pick, AtCapacity, Acquire, Answered, Refused, Failed,
                CloseBody, CloseError, poolUnchanged
  <2>4. RoundInv'
    BY <1>0, <2>3, PoolSame DEF resolveVars
  <2> QED  BY <2>1, <2>2, <2>4 DEF IInv
<1>2. ASSUME UNCHANGED <<req, inflight, backend>>, RoundInv' PROVE IInv'
  BY SMT, <1>0, <1>2 DEF IInv, RequestInv, RequestOK, CapacityInv, BackendOK, CapacityExact, Holders
<1>3. CASE SignalPoke \/ Resolver \/ \E id \in Ids : EndpointChange(id)
  <2>1. UNCHANGED <<req, inflight, backend>>
    BY <1>3 DEF Resolver, SignalPoke, PokeRound, TickRound, ResolveTarget, Reconcile, EndpointChange,
                fetchUnchanged
  <2>2. RoundInv'
    BY <1>0, <1>3, SignalStep, ResolveStep, ReconcileStep DEF Resolver
  <2> QED  BY <1>2, <2>1, <2>2
<1>4. ASSUME NEW o \in Objects, EjectionEnds(o) \/ Probe(o) PROVE IInv'
  <2>1. UNCHANGED <<poolVars, resolveVars, inflight, policy, req>>
    BY <1>4 DEF EjectionEnds, Probe, fetchUnchanged
  <2>2. RoundInv' /\ RequestInv'
    BY <1>0, <2>1, PoolSame DEF poolVars, resolveVars, RequestInv, RequestOK
  <2>3. backend = [p \in Objects |-> backend[p]] /\ \A p \in Objects : BackendOK(backend[p])
    BY <1>0 DEF CapacityInv
  <2>4. PICK b : /\ backend' = [backend EXCEPT ![o] = b] /\ BackendOK(b)
                 /\ b.inflight = backend[o].inflight /\ b.sem = backend[o].sem
    <3>1. CASE EjectionEnds(o)
      BY <2>3, <3>1, HealthFacts DEF EjectionEnds
    <3>2. CASE Probe(o)
      BY <2>3, <3>2, HealthFacts DEF Probe
    <3> QED  BY <1>4, <3>1, <3>2
  <2>5. backend' = [p \in Objects |-> backend'[p]]
    BY <2>3, <2>4
  <2>6. \A p \in Objects : /\ BackendOK(backend'[p]) /\ backend'[p].inflight = backend[p].inflight
                           /\ backend'[p].sem = backend[p].sem
    BY <2>3, <2>4
  <2>7. CapacityInv'
    BY <1>0, <2>1, <2>2, <2>5, <2>6, SameHolders
  <2> QED  BY <2>2, <2>7 DEF IInv
<1>5. CASE UNCHANGED vars
  <2>1. RoundInv'
    BY <1>0, <1>5, PoolSame DEF vars, resolveVars
  <2> QED  BY <1>2, <1>5, <2>1 DEF vars
<1> QED  BY <1>1, <1>3, <1>4, <1>5 DEF Next

\* The inductive invariant holds throughout.
LEMMA Invariance == Spec => []IInv
  BY InitIInv, NextIInv, PTL DEF Spec

\* Counters and tokens are exactly the holders, max_conns holds, no request goes to
\* an endpoint twice or, with a body, to two, and no wake-up is lost: for every
\* interleaving of requests, failures, re-resolutions and probes.
THEOREM PoolSoundTheorem == Spec => []PoolSound
<1>1. IInv => PoolSound
  <2> SUFFICES ASSUME IInv PROVE PoolSound
    OBVIOUS
  <2>1. ASSUME NEW f \in Fetches, req[f].body PROVE Cardinality(req[f].sent) <= 1
    <3>1. req[f].sent \in SUBSET {req[f].at}
      BY <2>1 DEF IInv, RequestInv, RequestOK
    <3>2. IsFiniteSet({req[f].at}) /\ Cardinality({req[f].at}) = 1
      BY FS_Singleton
    <3>3. Cardinality(req[f].sent) <= Cardinality({req[f].at})
      BY <3>1, <3>2, FS_Subset
    <3> QED  BY <3>2, <3>3
  <2>2. SentOnce
    BY <2>1 DEF IInv, RequestInv, RequestOK, SentOnce
  <2> QED  BY <2>2 DEF IInv, CapacityInv, RoundInv, PoolSound
<1> QED  BY <1>1, Invariance, PTL

\* A backend leaves the pool only when its own target answered without it.
THEOREM PoolFollowsAnswersTheorem == Spec => PoolFollowsAnswers
<1>1. IInv /\ [Next]_vars => [FailureKeepsBackends]_vars
  <2> SUFFICES ASSUME IInv, Next PROVE byID' = byID \/ FailureKeepsBackends
    BY DEF FailureKeepsBackends
  <2>1. CASE Reconcile
    BY <2>1, ReconcileFacts DEF IInv, FailureKeepsBackends
  <2>2. CASE ~Reconcile
    BY <2>2 DEF Next, Arrive, FetchStep, GiveUp, Pick, AtCapacity, Acquire, Answered, Refused, Failed,
                CloseBody, CloseError, poolUnchanged, Resolver, SignalPoke, PokeRound, TickRound,
                ResolveTarget, EndpointChange, EjectionEnds, Probe, poolVars
  <2> QED  BY <2>1, <2>2
<1> QED  BY <1>1, Invariance, PTL DEF Spec, PoolFollowsAnswers

-----------------------------------------------------------------------------
(* The geo database, for any number of concurrent lookups, reloads and closes. *)

CONSTANTS Lookups, Reloaders, Closers, Countries, Headers
VARIABLES reader, mapped, edition, holders, pc, held, answer, fault
Geo == INSTANCE GeoDB

\* Each call is of one kind.
GeoCalls == Lookups \cap Geo!Writers = {} /\ Reloaders \cap Closers = {}

Replacing == {"lock", "swap", "unmap"}
Shared == {"load", "decode", "unlock"}
Exclusive == {"swap", "unmap", "unlockw"}

\* The edition a writer holds from the moment it is mapped, or taken from the
\* pointer, until it is in the pointer or unmapped.
Owns(w, e) == w \in Geo!Writers /\ pc[w] \in Replacing /\ held[w] = e

\* Every mapped edition has one owner: the pointer or a writer.
OwnInv ==
    /\ \A e \in mapped : e # 0 /\ (e = reader \/ \E w \in Geo!Procs : Owns(w, e))
    /\ reader # 0 => reader \in mapped
    /\ \A w \in Geo!Procs, e \in mapped : Owns(w, e) => e # reader
    /\ \A v, w \in Geo!Procs, e \in mapped : Owns(v, e) /\ Owns(w, e) => v = w
    /\ \A w \in Closers : pc[w] \in {"start", "lock", "swap"} => held[w] = 0
    /\ \A w \in Geo!Procs : \A e : Owns(w, e) => e = 0 \/ e \in mapped

\* The lock: a writer that holds it is alone, and a lookup that decodes holds it on
\* the reader in the pointer.
LockInv ==
    /\ \A p \in Geo!Procs : p \in holders <=> (pc[p] \in Shared \/ pc[p] \in Exclusive)
    /\ holders \subseteq Geo!Procs
    /\ \A w \in holders : w \in Geo!Writers => holders = {w}
    /\ \A p \in Geo!Procs : pc[p] \in Shared => p \in Lookups
    /\ \A p \in Geo!Procs : pc[p] \in Exclusive => p \in Geo!Writers
    /\ \A l \in Lookups : pc[l] = "decode" => held[l] = reader /\ reader # 0

GeoInv ==
    /\ edition \in Nat /\ mapped \subseteq 1..edition
    /\ DOMAIN pc = Geo!Procs /\ DOMAIN held = Geo!Procs
    /\ OwnInv /\ LockInv /\ fault = FALSE

\* One call moves and takes, keeps or releases the lock as its place says.
LEMMA LockMoves ==
  ASSUME GeoInv, NEW p \in Geo!Procs,
         \A q \in Geo!Procs : q # p => pc'[q] = pc[q] /\ held'[q] = held[q],
         reader' = reader,
         pc'[p] \in Shared => p \in Lookups,
         pc'[p] \in Exclusive => p \in Geo!Writers,
         pc'[p] = "decode" => held'[p] = reader /\ reader # 0,
         LET now == pc'[p] \in Shared \/ pc'[p] \in Exclusive
         IN  \/ holders' = holders /\ (p \in holders <=> now)
             \/ holders' = holders \cup {p} /\ now /\ p \notin Geo!Writers /\ holders \cap Geo!Writers = {}
             \/ holders' = {p} /\ now /\ holders = {}
             \/ holders' = holders \ {p} /\ ~now
  PROVE  LockInv'
<1>1. LockInv
  BY DEF GeoInv
<1>2. \A q \in Geo!Procs : q \in holders' <=> (pc'[q] \in Shared \/ pc'[q] \in Exclusive)
  <2>1. p \in holders' <=> (pc'[p] \in Shared \/ pc'[p] \in Exclusive)
    OBVIOUS
  <2>2. \A q : q # p => (q \in holders' <=> q \in holders)
    OBVIOUS
  <2> QED BY <1>1, <2>1, <2>2 DEF LockInv
<1>3. holders' \subseteq Geo!Procs
  BY <1>1 DEF LockInv
<1>4. \A w \in holders' : w \in Geo!Writers => holders' = {w}
  BY <1>1 DEF LockInv
<1>5. \A q \in Geo!Procs : pc'[q] \in Shared => q \in Lookups
  BY <1>1 DEF LockInv
<1>6. \A q \in Geo!Procs : pc'[q] \in Exclusive => q \in Geo!Writers
  BY <1>1 DEF LockInv
<1>7. \A l \in Lookups : pc'[l] = "decode" => held'[l] = reader /\ reader # 0
  BY <1>1 DEF LockInv, Geo!Procs
<1> QED BY <1>2, <1>3, <1>4, <1>5, <1>6, <1>7 DEF LockInv, Geo!Procs, Geo!Writers

\* A step of a lookup.
LEMMA LookupStep ==
  ASSUME GeoCalls, GeoInv, NEW l \in Lookups,
         Geo!StartLookup(l) \/ Geo!RLock(l) \/ Geo!Load(l) \/ Geo!Decode(l) \/ Geo!RUnlock(l)
  PROVE  GeoInv'
<1>1. l \in Geo!Procs /\ l \notin Geo!Writers
  BY DEF GeoCalls, Geo!Procs
<1>2. /\ UNCHANGED <<reader, mapped, edition>>
      /\ DOMAIN pc' = Geo!Procs /\ DOMAIN held' = Geo!Procs
      /\ \A p \in Geo!Procs : p # l => pc'[p] = pc[p] /\ held'[p] = held[p]
  BY DEF GeoInv, Geo!StartLookup, Geo!RLock, Geo!Load, Geo!Decode, Geo!RUnlock, Geo!Goto
<1>3. \A w, e : w \in Geo!Procs => (Owns(w, e)' <=> Owns(w, e))
  BY <1>1, <1>2 DEF Owns
<1>4. OwnInv'
  <2>1. \A w \in Closers : w \in Geo!Procs /\ w # l
    BY <1>1 DEF Geo!Procs, Geo!Writers
  <2> QED BY <1>2, <1>3, <2>1 DEF GeoInv, OwnInv
<1>5. LockInv' /\ fault' = FALSE
  <2>1. CASE Geo!StartLookup(l)
    <3>1. /\ pc[l] = "start" /\ pc'[l] \in {"done", "rlock"} /\ UNCHANGED <<holders, held, fault>>
      BY <1>1, <2>1 DEF GeoInv, Geo!StartLookup, Geo!Goto
    <3> QED BY <1>1, <1>2, <3>1, LockMoves DEF GeoInv, LockInv, Shared, Exclusive
  <2>2. CASE Geo!RLock(l)
    <3>1. /\ pc[l] = "rlock" /\ pc'[l] = "load" /\ holders' = holders \cup {l} /\ UNCHANGED <<held, fault>>
          /\ holders \cap Geo!Writers = {}
      BY <1>1, <2>2 DEF GeoInv, Geo!RLock, Geo!CanRLock, Geo!Acquire, Geo!Goto
    <3> QED BY <1>1, <1>2, <3>1, LockMoves DEF GeoInv, LockInv, Shared, Exclusive
  <2>3. CASE Geo!Load(l)
    <3>1. /\ pc[l] = "load" /\ pc'[l] = (IF reader = 0 THEN "unlock" ELSE "decode") /\ held'[l] = reader
          /\ UNCHANGED <<holders, fault>>
      BY <1>1, <2>3 DEF GeoInv, Geo!Load, Geo!Goto
    <3> QED BY <1>1, <1>2, <3>1, LockMoves DEF GeoInv, LockInv, Shared, Exclusive
  <2>4. CASE Geo!Decode(l)
    <3>1. /\ pc[l] = "decode" /\ pc'[l] = "unlock" /\ fault' = (fault \/ held[l] \notin mapped)
          /\ UNCHANGED <<holders, held>>
      BY <1>1, <2>4 DEF GeoInv, Geo!Decode, Geo!Goto
    <3>2. held[l] \in mapped
      BY <3>1 DEF GeoInv, LockInv, OwnInv
    <3> QED BY <1>1, <1>2, <3>1, <3>2, LockMoves DEF GeoInv, LockInv, Shared, Exclusive
  <2>5. CASE Geo!RUnlock(l)
    <3>1. /\ pc[l] = "unlock" /\ pc'[l] = "done" /\ holders' = holders \ {l} /\ UNCHANGED <<held, fault>>
      BY <1>1, <2>5 DEF GeoInv, Geo!RUnlock, Geo!Release, Geo!Goto
    <3> QED BY <1>1, <1>2, <3>1, LockMoves DEF GeoInv, LockInv, Shared, Exclusive
  <2> QED BY <2>1, <2>2, <2>3, <2>4, <2>5
<1> QED BY <1>2, <1>4, <1>5 DEF GeoInv

\* A reload maps a new edition, which no other call has.
LEMMA OpenStep ==
  ASSUME GeoCalls, GeoInv, NEW w \in Geo!Procs, Geo!Open(w)
  PROVE  GeoInv'
<1>1. /\ w \in Reloaders /\ w \in Geo!Writers /\ w \notin Closers /\ w \notin Lookups /\ pc[w] = "start"
      /\ UNCHANGED <<reader, holders, fault>>
  BY DEF GeoCalls, Geo!Open, Geo!Writers
<1>2. LockInv' 
  <2>1. /\ pc'[w] \in {"lock", "done"}
        /\ \A p \in Geo!Procs : p # w => pc'[p] = pc[p] /\ held'[p] = held[p]
    BY DEF Geo!Open, Geo!Goto, GeoInv
  <2> QED BY <1>1, <2>1, LockMoves DEF GeoInv, LockInv, Shared, Exclusive
<1>3. CASE Geo!Goto(w, "done") /\ UNCHANGED <<edition, mapped, held>>
  <2>1. /\ pc'[w] = "done" /\ DOMAIN pc' = Geo!Procs
        /\ \A p \in Geo!Procs : p # w => pc'[p] = pc[p]
    BY <1>3 DEF Geo!Goto, GeoInv
  <2>2. \A p, e : p \in Geo!Procs => (Owns(p, e)' <=> Owns(p, e))
    BY <1>1, <1>3, <2>1 DEF Owns, Replacing
  <2>3. OwnInv'
    <3>1. \A v \in Closers : v \in Geo!Procs /\ v # w
      BY <1>1 DEF Geo!Procs, Geo!Writers
    <3> QED BY <1>1, <1>3, <2>1, <2>2, <3>1 DEF GeoInv, OwnInv
  <2> QED BY <1>1, <1>2, <1>3, <2>1, <2>3 DEF GeoInv
<1>4. CASE /\ edition' = edition + 1 /\ mapped' = mapped \cup {edition + 1}
           /\ held' = [held EXCEPT ![w] = edition + 1] /\ Geo!Goto(w, "lock")
  <2> DEFINE n == edition + 1
  <2>1. /\ pc'[w] = "lock" /\ DOMAIN pc' = Geo!Procs /\ held'[w] = n /\ DOMAIN held' = Geo!Procs
        /\ \A p \in Geo!Procs : p # w => pc'[p] = pc[p] /\ held'[p] = held[p]
    BY <1>4 DEF Geo!Goto, GeoInv
  <2>2. /\ n # 0 /\ n \notin mapped /\ n # reader /\ n \in Nat /\ mapped \cup {n} \subseteq 1..n
    <3>1. edition \in Nat /\ mapped \subseteq 1..edition /\ (reader # 0 => reader \in mapped)
      BY DEF GeoInv, OwnInv
    <3>2. n # 0 /\ n \in Nat /\ n \notin 1..edition /\ n \in 1..n /\ 1..edition \subseteq 1..n
      BY <3>1, SMT
    <3> HIDE DEF n
    <3> QED BY <3>1, <3>2
  <2> HIDE DEF n
  <2>3. \A p, e : p \in Geo!Procs => (Owns(p, e)' <=> Owns(p, e) \/ (p = w /\ e = n))
    BY <1>1, <2>1 DEF Owns, Replacing
  <2>4. \A p \in Geo!Procs : ~Owns(p, n)
    BY <2>2 DEF GeoInv, OwnInv
  <2>5. OwnInv'
    <3>1. \A v \in Closers : v \in Geo!Procs /\ v # w
      BY <1>1 DEF Geo!Procs, Geo!Writers
    <3>2. mapped' = mapped \cup {n}
      BY <1>4 DEF n
    <3>3. \A e \in mapped' : e # 0 /\ (e = reader' \/ \E v \in Geo!Procs : Owns(v, e)')
      BY <1>1, <2>2, <2>3, <3>2 DEF GeoInv, OwnInv
    <3>4. \A v \in Geo!Procs, e \in mapped' : Owns(v, e)' => e # reader'
      BY <1>1, <2>2, <2>3, <2>4, <3>2 DEF GeoInv, OwnInv
    <3>5. \A u, v \in Geo!Procs, e \in mapped' : Owns(u, e)' /\ Owns(v, e)' => u = v
      BY SMT, <2>2, <2>3, <2>4, <3>2 DEF GeoInv, OwnInv
    <3>6. \A v \in Geo!Procs : \A e : Owns(v, e)' => e = 0 \/ e \in mapped'
      BY <2>3, <3>2 DEF GeoInv, OwnInv
    <3>7. \A v \in Closers : pc'[v] \in {"start", "lock", "swap"} => held'[v] = 0
      BY <2>1, <3>1 DEF GeoInv, OwnInv
    <3>8. reader' # 0 => reader' \in mapped'
      BY <1>1, <3>2 DEF GeoInv, OwnInv
    <3> QED BY <3>3, <3>4, <3>5, <3>6, <3>7, <3>8 DEF OwnInv, Owns
  <2>6. edition' \in Nat /\ mapped' \subseteq 1..edition'
    BY <1>4, <2>2 DEF n
  <2> QED BY <1>1, <1>2, <2>1, <2>5, <2>6 DEF GeoInv
<1> QED BY <1>3, <1>4 DEF Geo!Open

\* The other steps of Reload and Close: under the lock the pointer and the writer
\* exchange what they own, and what the writer then owns is unmapped.
LEMMA WriterStep ==
  ASSUME GeoCalls, GeoInv, NEW w \in Geo!Procs,
         Geo!StartClose(w) \/ Geo!Lock(w) \/ Geo!Swap(w) \/ Geo!Unmap(w) \/ Geo!Unlock(w)
  PROVE  GeoInv'
<1>1. w \in Geo!Writers /\ w \notin Lookups /\ UNCHANGED <<edition, fault>>
  BY DEF GeoCalls, Geo!Writers, Geo!StartClose, Geo!Lock, Geo!Swap, Geo!Unmap, Geo!Unlock
<1>2. /\ DOMAIN pc' = Geo!Procs /\ DOMAIN held' = Geo!Procs
      /\ \A p \in Geo!Procs : p # w => pc'[p] = pc[p] /\ held'[p] = held[p]
  BY DEF GeoInv, Geo!StartClose, Geo!Lock, Geo!Swap, Geo!Unmap, Geo!Unlock, Geo!Goto
<1>3. \A v \in Closers : v \in Geo!Procs
  BY DEF Geo!Procs, Geo!Writers
<1>4. CASE Geo!StartClose(w)
  <2>1. /\ w \in Closers /\ pc[w] = "start" /\ pc'[w] = "lock" /\ UNCHANGED <<reader, mapped, holders, held>>
    BY <1>4 DEF GeoInv, Geo!StartClose, Geo!Goto
  <2>2. held[w] = 0
    BY <2>1 DEF GeoInv, OwnInv
  <2>3. \A p, e : p \in Geo!Procs => (Owns(p, e)' <=> Owns(p, e) \/ (p = w /\ e = 0))
    BY <1>1, <1>2, <2>1, <2>2 DEF Owns, Replacing
  <2>4. OwnInv'
    BY <1>2, <1>3, <2>1, <2>2, <2>3 DEF GeoInv, OwnInv
  <2>5. LockInv'
    BY <1>1, <1>2, <2>1, LockMoves DEF GeoInv, LockInv, Shared, Exclusive
  <2> QED BY <1>1, <1>2, <2>1, <2>4, <2>5 DEF GeoInv
<1>5. CASE Geo!Lock(w)
  <2>1. /\ pc[w] = "lock" /\ pc'[w] = "swap" /\ holders = {} /\ holders' = {w} /\ UNCHANGED <<reader, mapped, held>>
    BY <1>5 DEF GeoInv, Geo!Lock, Geo!CanLock, Geo!Acquire, Geo!Goto
  <2>2. \A p, e : p \in Geo!Procs => (Owns(p, e)' <=> Owns(p, e))
    BY <1>2, <2>1 DEF Owns, Replacing
  <2>3. OwnInv'
    BY <1>2, <1>3, <2>1, <2>2 DEF GeoInv, OwnInv
  <2>4. LockInv'
    BY <1>1, <1>2, <2>1, LockMoves DEF GeoInv, LockInv, Shared, Exclusive
  <2> QED BY <1>1, <1>2, <2>1, <2>3, <2>4 DEF GeoInv
<1>6. CASE Geo!Swap(w)
  <2> DEFINE new == IF w \in Reloaders THEN held[w] ELSE 0
  <2>1. /\ pc[w] = "swap" /\ pc'[w] = "unmap" /\ reader' = new /\ held'[w] = reader
        /\ UNCHANGED <<mapped, holders>>
    BY <1>6 DEF GeoInv, Geo!Swap, Geo!Goto
  <2>2. held[w] = new
    BY <1>1, <2>1 DEF GeoInv, OwnInv, Geo!Writers
  <2> HIDE DEF new
  <2>3. Owns(w, new) /\ (new = 0 \/ new \in mapped)
    BY <1>1, <2>1, <2>2 DEF Owns, Replacing, GeoInv, OwnInv
  <2>4. \A p, e : p \in Geo!Procs => (Owns(p, e)' <=> (p # w /\ Owns(p, e)) \/ (p = w /\ e = reader))
    BY <1>1, <1>2, <2>1 DEF Owns, Replacing
  <2>5. \A e : Owns(w, e) <=> e = new
    BY <1>1, <2>1, <2>2 DEF Owns, Replacing
  <2>6. OwnInv'
    <3>1. \A e \in mapped' : e # 0 /\ (e = reader' \/ \E v \in Geo!Procs : Owns(v, e)')
      BY SMT, <2>1, <2>4, <2>5 DEF GeoInv, OwnInv
    <3>2. ASSUME NEW v \in Geo!Procs, NEW e \in mapped', Owns(v, e)'  PROVE e # reader'
      <4>1. CASE v = w
        <5>1. e = reader /\ e \in mapped
          BY <2>1, <2>4, <3>2, <4>1
        <5>2. ~Owns(w, e)
          BY <5>1 DEF GeoInv, OwnInv
        <5> QED BY <2>1, <2>5, <5>2
      <4>2. CASE v # w
        <5>1. Owns(v, e) /\ e \in mapped
          BY <2>1, <2>4, <3>2, <4>2
        <5>2. ~Owns(w, e)
          BY <4>2, <5>1 DEF GeoInv, OwnInv
        <5> QED BY <2>1, <2>5, <5>2
      <4> QED BY <4>1, <4>2
    <3>3. ASSUME NEW u \in Geo!Procs, NEW v \in Geo!Procs, NEW e \in mapped', Owns(u, e)', Owns(v, e)'
          PROVE  u = v
      <4>1. \A p \in Geo!Procs : p # w /\ Owns(p, e) => e # reader
        BY <2>1, <3>3 DEF GeoInv, OwnInv
      <4>2. \A p, q \in Geo!Procs : Owns(p, e) /\ Owns(q, e) => p = q
        BY <2>1, <3>3 DEF GeoInv, OwnInv
      <4> QED BY <2>4, <3>3, <4>1, <4>2
    <3>4. \A v \in Geo!Procs : \A e : Owns(v, e)' => e = 0 \/ e \in mapped'
      BY <2>1, <2>4 DEF GeoInv, OwnInv
    <3>5. \A v \in Closers : pc'[v] \in {"start", "lock", "swap"} => held'[v] = 0
      BY <1>2, <1>3, <2>1 DEF GeoInv, OwnInv
    <3>6. reader' # 0 => reader' \in mapped'
      BY <2>1, <2>3
    <3> QED BY <3>1, <3>2, <3>3, <3>4, <3>5, <3>6 DEF OwnInv, Owns
  <2>7. holders = {w}
    BY <1>1, <2>1 DEF GeoInv, LockInv, Shared, Exclusive
  <2>8. LockInv'
    <3>1. \A l \in Lookups : l \in Geo!Procs /\ l # w /\ pc[l] # "decode"
      BY <1>1, <2>7 DEF GeoInv, LockInv, Shared, Exclusive, Geo!Procs
    <3> QED BY <1>1, <1>2, <2>1, <2>7, <3>1 DEF GeoInv, LockInv, Shared, Exclusive
  <2> QED BY <1>1, <1>2, <2>1, <2>6, <2>8 DEF GeoInv
<1>7. CASE Geo!Unmap(w)
  <2> DEFINE old == held[w]
  <2>1. /\ pc[w] = "unmap" /\ pc'[w] = "unlockw" /\ mapped' = mapped \ {old}
        /\ UNCHANGED <<reader, holders, held>>
    BY <1>7 DEF GeoInv, Geo!Unmap, Geo!Goto
  <2>2. Owns(w, old)
    BY <1>1, <2>1 DEF Owns, Replacing
  <2>3. \A p, e : p \in Geo!Procs => (Owns(p, e)' <=> p # w /\ Owns(p, e))
    BY <1>1, <1>2, <2>1 DEF Owns, Replacing
  <2>4. \A e : Owns(w, e) => e = old
    BY DEF Owns
  <2> HIDE DEF old
  <2>5. OwnInv'
    <3>1. \A e \in mapped' : e # 0 /\ (e = reader' \/ \E v \in Geo!Procs : Owns(v, e)')
      BY SMT, <2>1, <2>3, <2>4 DEF GeoInv, OwnInv
    <3>2. \A v \in Geo!Procs, e \in mapped' : Owns(v, e)' => e # reader'
      BY <2>1, <2>3 DEF GeoInv, OwnInv
    <3>3. \A u, v \in Geo!Procs, e \in mapped' : Owns(u, e)' /\ Owns(v, e)' => u = v
      BY <2>1, <2>3 DEF GeoInv, OwnInv
    <3>4. \A v \in Geo!Procs : \A e : Owns(v, e)' => e = 0 \/ e \in mapped'
      BY <2>1, <2>2, <2>3 DEF GeoInv, OwnInv
    <3>5. \A v \in Closers : pc'[v] \in {"start", "lock", "swap"} => held'[v] = 0
      BY <1>2, <1>3, <2>1 DEF GeoInv, OwnInv
    <3>6. reader' # 0 => reader' \in mapped'
      BY <2>1, <2>2 DEF GeoInv, OwnInv
    <3> QED BY <3>1, <3>2, <3>3, <3>4, <3>5, <3>6 DEF OwnInv, Owns
  <2>6. LockInv'
    BY <1>1, <1>2, <2>1, LockMoves DEF GeoInv, LockInv, Shared, Exclusive
  <2> QED BY <1>1, <1>2, <2>1, <2>5, <2>6 DEF GeoInv
<1>8. CASE Geo!Unlock(w)
  <2>1. /\ pc[w] = "unlockw" /\ pc'[w] = "done" /\ holders' = holders \ {w} /\ UNCHANGED <<reader, mapped, held>>
    BY <1>8 DEF GeoInv, Geo!Unlock, Geo!Release, Geo!Goto
  <2>2. \A p, e : p \in Geo!Procs => (Owns(p, e)' <=> Owns(p, e))
    BY <1>2, <2>1 DEF Owns, Replacing
  <2>3. OwnInv'
    BY <1>2, <1>3, <2>1, <2>2 DEF GeoInv, OwnInv
  <2>4. LockInv'
    BY <1>1, <1>2, <2>1, LockMoves DEF GeoInv, LockInv, Shared, Exclusive
  <2> QED BY <1>1, <1>2, <2>1, <2>3, <2>4 DEF GeoInv
<1> QED BY <1>4, <1>5, <1>6, <1>7, <1>8

\* No lookup reads an unmapped reader, and once the reloads and closes returned only
\* the reader in use is mapped, whatever their number and interleaving
\* (MaxMindDB.lookupRecord, Reload, Close).
THEOREM GeoMapped ==
  ASSUME GeoCalls
  PROVE  Geo!Spec => []Geo!MappedWhileRead
<1>1. Geo!Init => GeoInv
  <2> SUFFICES ASSUME Geo!Init  PROVE GeoInv
    OBVIOUS
  <2>1. 1 \in Nat /\ 1 # 0 /\ {1} \subseteq 1..1
    BY SMT
  <2>2. /\ \A p \in Geo!Procs : pc[p] = "start" /\ held[p] = 0
        /\ DOMAIN pc = Geo!Procs /\ DOMAIN held = Geo!Procs
        /\ \A w \in Closers : w \in Geo!Procs
        /\ \A l \in Lookups : l \in Geo!Procs
    BY DEF Geo!Init, Geo!Procs, Geo!Writers
  <2>3. \A w \in Geo!Procs : \A e : ~Owns(w, e)
    BY <2>2 DEF Owns, Replacing
  <2>4. OwnInv
    BY SMT, <2>1, <2>2, <2>3 DEF Geo!Init, OwnInv
  <2>5. LockInv
    BY <2>2 DEF Geo!Init, LockInv, Shared, Exclusive
  <2> QED BY <2>1, <2>2, <2>4, <2>5 DEF Geo!Init, GeoInv
<1>2. GeoInv /\ [Geo!Next]_Geo!vars => GeoInv'
  <2>1. ASSUME GeoInv, UNCHANGED Geo!vars  PROVE GeoInv'
    BY <2>1 DEF Geo!vars, GeoInv, OwnInv, LockInv, Owns
  <2> QED BY <2>1, LookupStep, OpenStep, WriterStep DEF Geo!Next, Geo!Step
<1>3. GeoInv => Geo!MappedWhileRead
  <2> SUFFICES ASSUME GeoInv, \A w \in Geo!Writers : pc[w] = "done"
               PROVE  mapped = {reader} \ {0}
    BY DEF GeoInv, Geo!MappedWhileRead
  <2>1. \A w \in Geo!Procs : \A e : ~Owns(w, e)
    BY DEF Owns, Replacing
  <2> QED BY <2>1 DEF GeoInv, OwnInv
<1> QED BY <1>1, <1>2, <1>3, PTL DEF Geo!Spec

-----------------------------------------------------------------------------
(* Certificates, for any sets of keypairs, any number of reloads, reconciles  *)
(* and requests, and any budget of orders.                                    *)

CONSTANTS Names, States, DynamicSets, Forced, Burst, Handshakes, MaxTicks, MaxChanges
VARIABLES acme, gated, state, dynamic, gate, want, storing, issued, disk, tokens, orders, h, ticks, changed
Tl == INSTANCE TLSManager

\* The sources are lists of keypairs.
KeypairAssumption ==
    \A st \in States : /\ DOMAIN st.static = 1..Len(st.static) /\ Len(st.static) \in Nat
                       /\ \A j \in DOMAIN st.static : st.static[j].id # 0

Fields == {"kind", "name", "pc", "st", "cert", "plain", "throughout", "had"}
Ordered == {"memo", "peek", "probe", "allow", "order", "store"}

\* The name has a certificate.
Covered(name) == Tl!ByStatic(state, name) \/ Tl!Lookup(want, name) # 0 \/ (acme /\ name \in disk)

\* A request that the dynamic set served throughout did not get past it, one under
\* way knows of every certificate its name has, and what was decided was decided
\* on such knowledge.
Decided(r) ==
    /\ DOMAIN r = Fields
    /\ r.pc \in Ordered \cup {"fall"} => ~r.throughout
    /\ r.pc \in Ordered => r.kind = "tls"
    /\ r.kind = "tls" /\ r.pc = "done" /\ r.throughout => r.cert # 0
    /\ r.kind = "plain" /\ r.pc = "done" /\ gated /\ ~r.plain /\ ~Tl!Matches(Forced, r.name) => r.had

Aware(r) ==
    /\ r.throughout => Tl!ByDynamic(want, gate, r.name)
    /\ r.pc \notin {"idle", "done"} /\ Covered(r.name) => r.had

CertInv ==
    /\ state \in States /\ dynamic = want /\ DOMAIN h = Handshakes
    /\ \A k \in Handshakes : Decided(h[k]) /\ Aware(h[k])

\* A set of positions of a list that is not empty has a last one.
LEMMA LastOf ==
  ASSUME NEW n \in Nat, NEW S \in SUBSET (1..n), S # {}
  PROVE  \E m \in S : \A k \in S : k <= m
<1> DEFINE T == {n - k : k \in S}
<1>1. T \in SUBSET Nat /\ T # {}
  <2>1. \A k \in S : n - k \in Nat
    BY SMT
  <2> QED BY <2>1
<1>2. \E m \in T : \A k \in T : ~(<<k, m>> \in OpToRel(<, Nat))
  BY <1>1, NatLessThanWellFounded, WFMin
<1>3. PICK m \in T : \A k \in T : ~(<<k, m>> \in OpToRel(<, Nat))
  BY <1>2
<1>4. \A k \in T : ~(k < m)
  BY <1>1, <1>3 DEF OpToRel
<1>5. PICK j \in S : m = n - j
  BY <1>3
<1>6. \A k \in S : n - k \in T
  OBVIOUS
<1>7. \A k \in S : ~(n - k < n - j)
  BY <1>4, <1>5, <1>6
<1>8. \A k \in S : k <= j
  BY <1>7, SMT
<1> QED BY <1>8

\* hostMatcher and lookup agree: a name the static hosts match has a keypair.
LEMMA MatchedHasCert ==
  ASSUME KeypairAssumption, NEW st \in States, NEW name, Tl!Matches(Tl!HostsOf(st.static), name)
  PROVE  Tl!ByStatic(st, name)
<1> DEFINE src == st.static
           at(host) == {j \in DOMAIN src : host \in src[j].hosts}
<1>1. DOMAIN src = 1..Len(src) /\ Len(src) \in Nat /\ \A j \in DOMAIN src : src[j].id # 0
  BY DEF KeypairAssumption
<1>2. ASSUME NEW host, at(host) # {}  PROVE Tl!LatestFor(src, host) # 0
  <2>1. \E m \in at(host) : \A j \in at(host) : j <= m
    BY <1>1, <1>2, LastOf
  <2>2. (CHOOSE m \in at(host) : \A j \in at(host) : j <= m) \in DOMAIN src
    BY <2>1
  <2> QED BY <1>1, <1>2, <2>2 DEF Tl!LatestFor
<1>3. name # "" /\ (at(name) # {} \/ at("*") # {})
  BY DEF Tl!Matches, Tl!HostsOf
<1> QED BY <1>2, <1>3 DEF Tl!ByStatic, Tl!Lookup, Tl!None

\* What a change publishes, every request observes.
LEMMA ObserveStep ==
  ASSUME NEW hs, DOMAIN hs = Handshakes, \A k \in Handshakes : Decided(hs[k]),
         state' \in States, dynamic' = want', UNCHANGED <<acme, gated>>,
         h' = Tl!Observe(hs, state', want', gate', disk')
  PROVE  CertInv'
<1>1. DOMAIN h' = Handshakes
  BY DEF Tl!Observe
<1>2. ASSUME NEW k \in Handshakes  PROVE Decided(h[k])' /\ Aware(h[k])'
  <2> DEFINE r == hs[k]
             seen == Tl!ByDynamic(want', gate', r.name)
             has == Tl!ByStatic(state', r.name) \/ Tl!Lookup(want', r.name) # 0 \/ (acme /\ r.name \in disk')
  <2>1. DOMAIN r = Fields
    BY DEF Decided
  <2>2. h'[k] = [r EXCEPT !.throughout = @ /\ seen, !.had = @ \/ has]
    BY DEF Tl!Observe, Tl!None
  <2> HIDE DEF seen, has
  <2>3. /\ DOMAIN h'[k] = Fields /\ h'[k].kind = r.kind /\ h'[k].name = r.name /\ h'[k].pc = r.pc
        /\ h'[k].cert = r.cert /\ h'[k].plain = r.plain
        /\ h'[k].throughout = (r.throughout /\ seen) /\ h'[k].had = (r.had \/ has)
    BY <2>1, <2>2 DEF Fields
  <2>4. Decided(r)
    OBVIOUS
  <2> HIDE DEF r
  <2>5. Decided(h[k])'
    BY <2>3, <2>4 DEF Decided
  <2>6. Aware(h[k])'
    BY <2>3 DEF Aware, Covered, seen, has
  <2> QED BY <2>5, <2>6
<1> QED BY <1>1, <1>2 DEF CertInv

\* One request moves on, and nothing is published.
LEMMA RequestStep ==
  ASSUME CertInv, NEW k \in Handshakes, NEW r, h' = [h EXCEPT ![k] = r], Decided(r), Aware(r),
         UNCHANGED <<acme, gated, state, dynamic, gate, want, disk>>
  PROVE  CertInv'
<1>1. DOMAIN h' = Handshakes /\ h'[k] = r /\ \A j \in Handshakes : j # k => h'[j] = h[j]
  BY DEF CertInv
<1>2. \A j \in Handshakes : j # k => Decided(h[j])' /\ Aware(h[j])'
  BY <1>1 DEF CertInv, Decided, Aware, Covered
<1>3. Decided(h[k])'
  BY <1>1 DEF Decided
<1>4. Aware(h[k])'
  BY <1>1 DEF CertInv, Aware, Covered
<1> QED BY <1>1, <1>2, <1>3, <1>4 DEF CertInv

\* The two kinds of moves: to another place, and to the answer.
LEMMA GotoStep ==
  ASSUME CertInv, NEW k \in Handshakes, NEW place, h[k].pc \notin {"idle", "done"}, place \notin {"idle", "done"},
         Tl!Goto(k, place),
         place \in Ordered \cup {"fall"} => ~h[k].throughout,
         place \in Ordered => h[k].kind = "tls",
         UNCHANGED <<acme, gated, state, dynamic, gate, want, disk>>
  PROVE  CertInv'
<1> DEFINE r == [h[k] EXCEPT !.pc = place]
<1>1. DOMAIN h[k] = Fields /\ DOMAIN h = Handshakes
  BY DEF CertInv, Decided
<1>2. /\ DOMAIN r = Fields /\ r.pc = place /\ r.name = h[k].name /\ r.had = h[k].had
      /\ r.throughout = h[k].throughout /\ r.kind = h[k].kind
  BY <1>1 DEF Fields
<1>3. h' = [h EXCEPT ![k] = r]
  BY <1>1 DEF Tl!Goto
<1> HIDE DEF r
<1>4. Decided(r) /\ Aware(r)
  BY <1>2 DEF Decided, CertInv, Aware
<1> QED BY <1>3, <1>4, RequestStep

\* A request leaves with a certificate, or with none.
LEMMA DoneStep ==
  ASSUME CertInv, NEW k \in Handshakes, NEW cert, Tl!Done(k, cert),
         h[k].throughout => cert # 0,
         h[k].kind = "tls" \/ h[k].had,
         UNCHANGED <<acme, gated, state, dynamic, gate, want, disk>>
  PROVE  CertInv'
<1> DEFINE r == [h[k] EXCEPT !.pc = "done", !.cert = cert]
<1>1. DOMAIN h[k] = Fields /\ DOMAIN h = Handshakes
  BY DEF CertInv, Decided
<1>2. /\ DOMAIN r = Fields /\ r.pc = "done" /\ r.cert = cert /\ r.name = h[k].name /\ r.had = h[k].had
      /\ r.throughout = h[k].throughout /\ r.kind = h[k].kind
  BY <1>1 DEF Fields
<1>3. h' = [h EXCEPT ![k] = r]
  BY <1>1 DEF Tl!Done
<1> HIDE DEF r
<1>4. Decided(r) /\ Aware(r)
  BY <1>2 DEF Decided, Ordered, CertInv, Aware
<1> QED BY <1>3, <1>4, RequestStep

\* A reload or a reconcile publishes.
LEMMA PublishStep ==
  ASSUME CertInv, Tl!Commit \/ Tl!StoreSet \/ Tl!StoreGate
  PROVE  CertInv'
<1>1. /\ state' \in States /\ dynamic' = want' /\ UNCHANGED <<acme, gated>>
      /\ h' = Tl!Observe(h, state', want', gate', disk')
  BY DEF CertInv, Tl!Commit, Tl!StoreSet, Tl!StoreGate, Tl!Built
<1> QED BY <1>1, ObserveStep DEF CertInv

\* A request begins.
LEMMA StartStep ==
  ASSUME CertInv, NEW k \in Handshakes, Tl!Start(k) \/ Tl!ServePlain(k)
  PROVE  CertInv'
<1> USE DEF Tl!others, Tl!caStays
<1>1. DOMAIN Tl!Idle = Fields /\ Tl!Idle.throughout = FALSE
  BY DEF Tl!Idle, Fields
<1>2. CASE Tl!Start(k)
  <2>1. PICK kind, name :
          h' = Tl!Observe([h EXCEPT ![k] = [Tl!Idle EXCEPT !.kind = kind, !.name = name, !.pc = "state",
                                                           !.throughout = TRUE]],
                          state, want, gate, disk)
    BY <1>2 DEF Tl!Start
  <2> DEFINE r == [Tl!Idle EXCEPT !.kind = kind, !.name = name, !.pc = "state", !.throughout = TRUE]
             hs == [h EXCEPT ![k] = r]
  <2>2. DOMAIN r = Fields /\ r.pc = "state"
    BY <1>1 DEF Fields
  <2>3. h' = Tl!Observe(hs, state, want, gate, disk)
    BY <2>1
  <2> HIDE DEF r
  <2>4. Decided(r)
    BY <2>2 DEF Decided, Ordered
  <2>5. DOMAIN hs = Handshakes /\ \A j \in Handshakes : Decided(hs[j])
    BY <2>4 DEF CertInv
  <2> HIDE DEF hs
  <2>6. UNCHANGED <<acme, gated, state, want, gate, disk, dynamic>>
    BY <1>2 DEF Tl!Start
  <2>7. state' \in States /\ dynamic' = want' /\ h' = Tl!Observe(hs, state', want', gate', disk')
    BY <2>3, <2>6 DEF CertInv
  <2> QED BY <2>5, <2>6, <2>7, ObserveStep
<1>3. CASE Tl!ServePlain(k)
  <2>1. PICK name : h' = [h EXCEPT ![k] = [Tl!Idle EXCEPT !.kind = "plain", !.name = name, !.pc = "done",
                                                          !.plain = TRUE]]
    BY <1>3 DEF Tl!ServePlain
  <2> DEFINE r == [Tl!Idle EXCEPT !.kind = "plain", !.name = name, !.pc = "done", !.plain = TRUE]
  <2>2. DOMAIN r = Fields /\ r.pc = "done" /\ r.kind = "plain" /\ r.plain = TRUE /\ r.throughout = FALSE
    BY <1>1 DEF Fields
  <2>3. h' = [h EXCEPT ![k] = r]
    BY <2>1
  <2> HIDE DEF r
  <2>4. Decided(r) /\ Aware(r)
    BY <2>2 DEF Decided, Ordered, Aware
  <2> QED BY <1>3, <2>3, <2>4, RequestStep DEF Tl!ServePlain
<1> QED BY <1>2, <1>3

\* A request reads the host state, the gate and the dynamic set.
LEMMA ReadStep ==
  ASSUME KeypairAssumption, CertInv, NEW k \in Handshakes, Tl!ReadState(k) \/ Tl!ReadGate(k) \/ Tl!ReadDynamic(k)
  PROVE  CertInv'
<1> USE DEF Tl!others, Tl!caStays, Tl!None
<1>1. DOMAIN h[k] = Fields /\ DOMAIN h = Handshakes /\ Aware(h[k])
  BY DEF CertInv, Decided
<1>2. CASE Tl!ReadState(k)
  <2> DEFINE found == Tl!Matches(Tl!HostsOf(state.static), h[k].name)
             cert == Tl!Lookup(state.static, h[k].name)
             place == IF (h[k].kind = "plain" /\ ~gated) \/ found THEN "done" ELSE "gate"
             r == [h[k] EXCEPT !.st = state, !.cert = cert, !.pc = place, !.plain = FALSE]
  <2>1. h[k].pc = "state" /\ h' = [h EXCEPT ![k] = r]
    BY <1>1, <1>2 DEF Tl!ReadState
  <2>2. found => cert # 0 /\ h[k].had
    <3>1. found => Tl!ByStatic(state, h[k].name)
      BY MatchedHasCert DEF CertInv
    <3> QED BY <1>1, <2>1, <3>1 DEF Tl!ByStatic, Aware, Covered
  <2> HIDE DEF found, cert
  <2>3. /\ DOMAIN r = Fields /\ r.cert = cert /\ r.pc = place /\ r.name = h[k].name /\ r.had = h[k].had
        /\ r.throughout = h[k].throughout /\ r.kind = h[k].kind
    BY <1>1 DEF Fields
  <2> HIDE DEF r
  <2>4. Decided(r)
    <3>1. CASE place = "gate"
      BY <2>3, <3>1 DEF Decided, Ordered
    <3>2. CASE found
      BY <2>2, <2>3, <3>2 DEF Decided, Ordered
    <3>3. CASE place = "done" /\ h[k].kind = "plain" /\ ~gated
      BY <2>3, <3>3 DEF Decided, Ordered
    <3> QED BY <3>1, <3>2, <3>3
  <2>5. Aware(r)
    BY <1>1, <2>1, <2>3 DEF Aware
  <2> QED BY <1>2, <2>1, <2>4, <2>5, RequestStep DEF Tl!ReadState
<1>3. CASE Tl!ReadGate(k)
  <2>1. h[k].throughout => gate
    BY <1>1 DEF Aware, Tl!ByDynamic
  <2>2. h[k].pc = "gate" /\ UNCHANGED <<acme, gated, state, dynamic, gate, want, disk>>
    BY <1>3 DEF Tl!ReadGate
  <2>3. CASE gate /\ Tl!Goto(k, "dynamic")
    BY <2>2, <2>3, GotoStep DEF Ordered
  <2>4. CASE ~gate /\ Tl!Goto(k, "fall")
    BY <2>1, <2>2, <2>4, GotoStep DEF Ordered
  <2> QED BY <1>3, <2>3, <2>4 DEF Tl!ReadGate
<1>4. CASE Tl!ReadDynamic(k)
  <2> DEFINE c == Tl!Lookup(dynamic, h[k].name)
  <2>1. /\ h[k].pc = "dynamic" /\ UNCHANGED <<acme, gated, state, dynamic, gate, want, disk>>
        /\ c = Tl!Lookup(want, h[k].name)
    BY <1>4 DEF Tl!ReadDynamic, CertInv
  <2>2. h[k].throughout => c # 0
    BY <1>1, <2>1 DEF Aware, Tl!ByDynamic
  <2>3. c # 0 => h[k].had
    BY <1>1, <2>1 DEF Aware, Covered
  <2>4. (c # 0 /\ Tl!Done(k, c)) \/ (c = 0 /\ Tl!Goto(k, "fall"))
    BY <1>4 DEF Tl!ReadDynamic
  <2> HIDE DEF c
  <2>5. CASE c # 0 /\ Tl!Done(k, c)
    BY <2>1, <2>3, <2>5, DoneStep
  <2>6. CASE c = 0 /\ Tl!Goto(k, "fall")
    BY <2>1, <2>2, <2>6, GotoStep DEF Ordered
  <2> QED BY <2>4, <2>5, <2>6
<1> QED BY <1>2, <1>3, <1>4

\* A request that no keypair answers: the redirect of a plain one is decided, a
\* handshake takes the fallback, asks ACME or fails.
LEMMA FallStep ==
  ASSUME CertInv, NEW k \in Handshakes, Tl!FallPlain(k) \/ Tl!FallTLS(k)
  PROVE  CertInv'
<1> USE DEF Tl!others, Tl!caStays, Tl!None
<1>1. /\ DOMAIN h[k] = Fields /\ DOMAIN h = Handshakes /\ Aware(h[k])
      /\ h[k].pc = "fall" /\ ~h[k].throughout /\ UNCHANGED <<acme, gated, state, dynamic, gate, want, disk>>
  BY DEF CertInv, Decided, Tl!FallPlain, Tl!FallTLS
<1>2. CASE Tl!FallPlain(k)
  <2> DEFINE plain == ~Tl!Redirects(k)
             r == [h[k] EXCEPT !.pc = "done", !.plain = plain]
  <2>1. h[k].kind = "plain" /\ h' = [h EXCEPT ![k] = r]
    BY <1>1, <1>2 DEF Tl!FallPlain
  <2>2. ~plain /\ ~Tl!Matches(Forced, h[k].name) => h[k].had
    BY <1>1 DEF Aware, Covered, Tl!Redirects, Tl!HasIssuedCert
  <2> HIDE DEF plain
  <2>3. /\ DOMAIN r = Fields /\ r.pc = "done" /\ r.plain = plain /\ r.name = h[k].name /\ r.had = h[k].had
        /\ r.throughout = h[k].throughout /\ r.kind = h[k].kind
    BY <1>1 DEF Fields
  <2> HIDE DEF r
  <2>4. Decided(r) /\ Aware(r)
    BY <1>1, <2>1, <2>2, <2>3 DEF Decided, Ordered, Aware
  <2> QED BY <1>1, <2>1, <2>4, RequestStep
<1>3. CASE Tl!FallTLS(k)
  <2>1. h[k].kind = "tls" /\ (Tl!Goto(k, "memo") \/ \E c : Tl!Done(k, c))
    BY <1>3 DEF Tl!FallTLS
  <2>2. CASE Tl!Goto(k, "memo")
    BY <1>1, <2>1, <2>2, GotoStep
  <2>3. CASE \E c : Tl!Done(k, c)
    BY <1>1, <2>1, <2>3, DoneStep
  <2> QED BY <2>1, <2>2, <2>3
<1> QED BY <1>2, <1>3

\* A handshake asks ACME.
LEMMA AcmeStep ==
  ASSUME CertInv, NEW k \in Handshakes,
         Tl!Memo(k) \/ Tl!Peek(k) \/ Tl!Probe(k) \/ Tl!Allow(k) \/ Tl!Order(k) \/ Tl!Memoize(k)
  PROVE  CertInv'
<1> USE DEF Tl!others, Tl!caStays
<1>1. h[k].pc \in Ordered /\ UNCHANGED <<acme, gated, state, dynamic, gate, want>>
  BY DEF Ordered, Tl!Memo, Tl!Peek, Tl!Probe, Tl!Allow, Tl!Order, Tl!Memoize
<1>2. h[k].kind = "tls" /\ ~h[k].throughout /\ h[k].pc \notin {"idle", "done"}
  BY <1>1 DEF CertInv, Decided, Ordered
<1>3. ASSUME disk' = disk, \E place \in Ordered : Tl!Goto(k, place)  PROVE CertInv'
  BY <1>1, <1>2, <1>3, GotoStep DEF Ordered
<1>4. ASSUME disk' = disk, \E c : Tl!Done(k, c)  PROVE CertInv'
  BY <1>1, <1>2, <1>4, DoneStep
<1>5. ASSUME h' = Tl!Observe([h EXCEPT ![k].pc = "store"], state, want, gate, disk')  PROVE CertInv'
  <2> DEFINE r == [h[k] EXCEPT !.pc = "store"]
             hs == [h EXCEPT ![k] = r]
  <2>1. DOMAIN h[k] = Fields /\ DOMAIN h = Handshakes
    BY DEF CertInv, Decided
  <2>2. DOMAIN r = Fields /\ r.pc = "store" /\ r.kind = h[k].kind /\ r.throughout = h[k].throughout
    BY <2>1 DEF Fields
  <2>3. h' = Tl!Observe(hs, state, want, gate, disk')
    BY <1>5, <2>1
  <2> HIDE DEF r
  <2>4. Decided(r)
    BY <1>2, <2>2 DEF Decided
  <2>5. DOMAIN hs = Handshakes /\ \A j \in Handshakes : Decided(hs[j])
    BY <2>4 DEF CertInv
  <2> HIDE DEF hs
  <2>6. state' \in States /\ dynamic' = want' /\ h' = Tl!Observe(hs, state', want', gate', disk')
    BY <1>1, <2>3 DEF CertInv
  <2> QED BY <1>1, <2>5, <2>6, ObserveStep
<1>6. CASE Tl!Memo(k) \/ Tl!Peek(k) \/ Tl!Probe(k) \/ Tl!Allow(k) \/ Tl!Memoize(k)
  <2>1. disk' = disk /\ ((\E place \in Ordered : Tl!Goto(k, place)) \/ \E c : Tl!Done(k, c))
    BY <1>6 DEF Ordered, Tl!Memo, Tl!Peek, Tl!Probe, Tl!Allow, Tl!Memoize
  <2> QED BY <1>3, <1>4, <2>1
<1>7. CASE Tl!Order(k)
  BY <1>3, <1>4, <1>5, <1>7 DEF Ordered, Tl!Order
<1> QED BY <1>6, <1>7

\* The handshakes under order are those that took a token and have not yet sent it.
Ordering == {k \in Handshakes : h[k].pc = "order"}

BudgetInv ==
    /\ Burst \in Nat /\ tokens \in Nat /\ tokens <= Burst /\ orders \in Nat /\ ticks \in Nat
    /\ IsFiniteSet(Ordering)
    /\ orders + tokens + Cardinality(Ordering) <= Burst + ticks

\* The invariant holds throughout: one step per change of the sources and of a
\* request.
LEMMA CertInvariance ==
  ASSUME KeypairAssumption
  PROVE  Tl!Spec => []CertInv
<1>1. Tl!Init => CertInv
  <2> SUFFICES ASSUME Tl!Init  PROVE CertInv
    OBVIOUS
  <2>1. DOMAIN Tl!Idle = Fields /\ Tl!Idle.throughout = FALSE /\ Tl!Idle.pc = "idle"
    BY DEF Tl!Idle, Fields
  <2>2. Decided(Tl!Idle) /\ Aware(Tl!Idle)
    BY <2>1 DEF Decided, Ordered, Aware
  <2> QED BY <2>2 DEF Tl!Init, CertInv
<1>2. CertInv /\ [Tl!Next]_Tl!vars => CertInv'
  <2>1. ASSUME CertInv, UNCHANGED Tl!vars  PROVE CertInv'
    BY <2>1 DEF Tl!vars, CertInv, Decided, Aware, Covered
  <2>2. ASSUME CertInv, Tl!Tick  PROVE CertInv'
    BY <2>2 DEF Tl!Tick, CertInv, Decided, Aware, Covered
  <2> QED BY <2>1, <2>2, PublishStep, StartStep, ReadStep, FallStep, AcmeStep DEF Tl!Next
<1> QED BY <1>1, <1>2, PTL DEF Tl!Spec

\* One request moves to a place.
PcMoves(k, place) == h'[k].pc = place /\ \A j \in Handshakes : j # k => h'[j].pc = h[j].pc

\* Where a request goes in a step, for the budget of orders.
LEMMA Places ==
  ASSUME CertInv, NEW k \in Handshakes
  PROVE  /\ \A place : Tl!Goto(k, place) => PcMoves(k, place)
         /\ \A c : Tl!Done(k, c) => PcMoves(k, "done")
         /\ \A r : h' = [h EXCEPT ![k] = r] => PcMoves(k, r.pc)
<1>1. DOMAIN h = Handshakes /\ DOMAIN h[k] = Fields
  BY DEF CertInv, Decided
<1> QED BY <1>1 DEF Tl!Goto, Tl!Done, PcMoves, Fields

\* Recording what a change did to the requests under way moves none of them.
LEMMA ObservedPc ==
  ASSUME NEW hs, DOMAIN hs = Handshakes, \A k \in Handshakes : DOMAIN hs[k] = Fields,
         NEW st, NEW d, NEW g, NEW dk, h' = Tl!Observe(hs, st, d, g, dk)
  PROVE  \A k \in Handshakes : h'[k].pc = hs[k].pc
<1> SUFFICES ASSUME NEW k \in Handshakes  PROVE h'[k].pc = hs[k].pc
  OBVIOUS
<1>1. \E a, b : h'[k] = [hs[k] EXCEPT !.throughout = a, !.had = b]
  BY DEF Tl!Observe
<1> QED BY <1>1 DEF Fields

\* What a step does to the budget.
LEMMA OrderingStep ==
  ASSUME CertInv, Tl!Next, ~Tl!Tick
  PROVE  \/ UNCHANGED <<tokens, orders, ticks>> /\ Ordering' \subseteq Ordering
         \/ /\ tokens >= 1 /\ tokens' = tokens - 1 /\ UNCHANGED <<orders, ticks>>
            /\ \E k \in Handshakes : Ordering' = Ordering \cup {k}
         \/ /\ orders' \in {orders, orders + 1} /\ UNCHANGED <<tokens, ticks>>
            /\ \E k \in Ordering : Ordering' = Ordering \ {k}
<1> USE DEF Tl!others, Tl!caStays
<1>1. DOMAIN h = Handshakes /\ \A k \in Handshakes : DOMAIN h[k] = Fields
  BY DEF CertInv, Decided
<1>2. CASE Tl!Commit \/ Tl!StoreSet \/ Tl!StoreGate
  <2>1. h' = Tl!Observe(h, state', want', gate', disk')
    BY <1>2 DEF Tl!Commit, Tl!StoreSet, Tl!StoreGate
  <2>2. \A k \in Handshakes : h'[k].pc = h[k].pc
    BY <1>1, <2>1, ObservedPc
  <2> QED BY <1>2, <2>2 DEF Tl!Commit, Tl!StoreSet, Tl!StoreGate, Ordering
<1>3. ASSUME NEW k \in Handshakes,
             \/ Tl!Start(k) \/ Tl!ServePlain(k) \/ Tl!ReadState(k) \/ Tl!ReadGate(k) \/ Tl!ReadDynamic(k)
             \/ Tl!FallPlain(k) \/ Tl!FallTLS(k) \/ Tl!Memo(k) \/ Tl!Peek(k) \/ Tl!Probe(k) \/ Tl!Memoize(k)
      PROVE  UNCHANGED <<tokens, orders, ticks>> /\ Ordering' \subseteq Ordering
  <2>1. UNCHANGED <<tokens, orders, ticks>>
    BY <1>3 DEF Tl!Start, Tl!ServePlain, Tl!ReadState, Tl!ReadGate, Tl!ReadDynamic, Tl!FallPlain, Tl!FallTLS,
                Tl!Memo, Tl!Peek, Tl!Probe, Tl!Memoize
  <2>2. \E place : place # "order" /\ PcMoves(k, place)
    <3>1. CASE Tl!Start(k)
      <4> DEFINE begun(kind, name) == [Tl!Idle EXCEPT !.kind = kind, !.name = name, !.pc = "state",
                                                      !.throughout = TRUE]
      <4>1. PICK kind, name : h' = Tl!Observe([h EXCEPT ![k] = begun(kind, name)], state, want, gate, disk)
        BY <3>1 DEF Tl!Start
      <4>2. DOMAIN begun(kind, name) = Fields /\ begun(kind, name).pc = "state"
        BY DEF Tl!Idle, Fields
      <4> HIDE DEF begun
      <4> DEFINE hs == [h EXCEPT ![k] = begun(kind, name)]
      <4>3. /\ DOMAIN hs = Handshakes /\ hs[k] = begun(kind, name)
            /\ \A j \in Handshakes : j # k => hs[j] = h[j]
        BY <1>1
      <4>4. h' = Tl!Observe(hs, state, want, gate, disk)
        BY <4>1
      <4> HIDE DEF hs
      <4>5. \A j \in Handshakes : DOMAIN hs[j] = Fields
        BY <1>1, <4>2, <4>3
      <4>6. \A j \in Handshakes : h'[j].pc = hs[j].pc
        BY <4>3, <4>4, <4>5, ObservedPc
      <4> QED BY <4>2, <4>3, <4>6 DEF PcMoves
    <3>2. CASE Tl!ServePlain(k)
      <4> DEFINE plain(name) == [Tl!Idle EXCEPT !.kind = "plain", !.name = name, !.pc = "done", !.plain = TRUE]
      <4>1. PICK name : h' = [h EXCEPT ![k] = plain(name)]
        BY <3>2 DEF Tl!ServePlain
      <4>2. plain(name).pc = "done"
        BY DEF Tl!Idle
      <4> HIDE DEF plain
      <4> QED BY <4>1, <4>2, Places
    <3>3. CASE Tl!ReadState(k)
      <4>1. PICK st, cert, place :
              /\ place \in {"done", "gate"}
              /\ h' = [h EXCEPT ![k].st = st, ![k].cert = cert, ![k].pc = place, ![k].plain = FALSE]
        BY <3>3 DEF Tl!ReadState
      <4> DEFINE r == [h[k] EXCEPT !.st = st, !.cert = cert, !.pc = place, !.plain = FALSE]
      <4>2. r.pc = place /\ h' = [h EXCEPT ![k] = r]
        BY <1>1, <4>1 DEF Fields
      <4> HIDE DEF r
      <4> QED BY <4>1, <4>2, Places
    <3>4. CASE Tl!FallPlain(k)
      <4>1. PICK plain : h' = [h EXCEPT ![k].pc = "done", ![k].plain = plain]
        BY <3>4 DEF Tl!FallPlain
      <4> DEFINE r == [h[k] EXCEPT !.pc = "done", !.plain = plain]
      <4>2. r.pc = "done" /\ h' = [h EXCEPT ![k] = r]
        BY <1>1, <4>1 DEF Fields
      <4> HIDE DEF r
      <4> QED BY <4>2, Places
    <3>5. CASE \/ Tl!ReadGate(k) \/ Tl!ReadDynamic(k) \/ Tl!FallTLS(k) \/ Tl!Memo(k) \/ Tl!Peek(k) \/ Tl!Probe(k)
               \/ Tl!Memoize(k)
      <4>1. \/ \E place \in {"dynamic", "fall", "memo", "peek", "probe", "allow"} : Tl!Goto(k, place)
            \/ \E c : Tl!Done(k, c)
        BY <3>5 DEF Tl!ReadGate, Tl!ReadDynamic, Tl!FallTLS, Tl!Memo, Tl!Peek, Tl!Probe, Tl!Memoize
      <4> QED BY <4>1, Places
    <3> QED BY <1>3, <3>1, <3>2, <3>3, <3>4, <3>5
  <2> QED BY <2>1, <2>2 DEF PcMoves, Ordering
<1>4. ASSUME NEW k \in Handshakes, Tl!Allow(k)
      PROVE  \/ UNCHANGED <<tokens, orders, ticks>> /\ Ordering' \subseteq Ordering
             \/ /\ tokens >= 1 /\ tokens' = tokens - 1 /\ UNCHANGED <<orders, ticks>>
                /\ Ordering' = Ordering \cup {k}
  <2>1. \/ tokens >= 1 /\ tokens' = tokens - 1 /\ UNCHANGED <<orders, ticks>> /\ Tl!Goto(k, "order")
        \/ UNCHANGED <<tokens, orders, ticks>> /\ \E c : Tl!Done(k, c)
    BY <1>4 DEF Tl!Allow, Tl!Take
  <2>2. CASE tokens >= 1 /\ tokens' = tokens - 1 /\ UNCHANGED <<orders, ticks>> /\ Tl!Goto(k, "order")
    <3>1. PcMoves(k, "order")
      BY <2>2, Places
    <3>2. Ordering' = Ordering \cup {k}
      BY <3>1 DEF PcMoves, Ordering
    <3> QED BY <2>2, <3>2
  <2>3. CASE UNCHANGED <<tokens, orders, ticks>> /\ \E c : Tl!Done(k, c)
    <3>1. PcMoves(k, "done")
      BY <2>3, Places
    <3>2. Ordering' \subseteq Ordering
      BY <3>1 DEF PcMoves, Ordering
    <3> QED BY <2>3, <3>2
  <2> QED BY <2>1, <2>2, <2>3
<1>5. ASSUME NEW k \in Handshakes, Tl!Order(k)
      PROVE  /\ orders' \in {orders, orders + 1} /\ UNCHANGED <<tokens, ticks>>
             /\ k \in Ordering /\ Ordering' = Ordering \ {k}
  <2>1. orders' \in {orders, orders + 1} /\ UNCHANGED <<tokens, ticks>> /\ k \in Ordering
    BY <1>5 DEF Tl!Order, Ordering
  <2>2. PcMoves(k, "store") \/ PcMoves(k, "done")
    <3>1. \/ Tl!Goto(k, "store") \/ \E c : Tl!Done(k, c)
          \/ h' = Tl!Observe([h EXCEPT ![k].pc = "store"], state, want, gate, disk')
      BY <1>5 DEF Tl!Order
    <3>2. CASE h' = Tl!Observe([h EXCEPT ![k].pc = "store"], state, want, gate, disk')
      <4> DEFINE hs == [h EXCEPT ![k].pc = "store"]
      <4>1. /\ DOMAIN hs = Handshakes /\ hs[k].pc = "store" /\ \A j \in Handshakes : j # k => hs[j] = h[j]
            /\ DOMAIN hs[k] = Fields
        BY <1>1 DEF Fields
      <4>2. h' = Tl!Observe(hs, state, want, gate, disk')
        BY <3>2
      <4> HIDE DEF hs
      <4>3. \A j \in Handshakes : DOMAIN hs[j] = Fields
        BY <1>1, <4>1
      <4>4. \A j \in Handshakes : h'[j].pc = hs[j].pc
        BY <4>1, <4>2, <4>3, ObservedPc
      <4> QED BY <4>1, <4>4 DEF PcMoves
    <3> QED BY <3>1, <3>2, Places
  <2> QED BY <2>1, <2>2 DEF PcMoves, Ordering
<1> QED BY <1>2, <1>3, <1>4, <1>5 DEF Tl!Next

\* A handshake whose name the published sets cover from its first read to its answer
\* gets a certificate, whatever is published meanwhile (Manager.getCertificate,
\* SetDynamicCerts).
THEOREM CertificateSwaps ==
  ASSUME KeypairAssumption
  PROVE  Tl!Spec => []Tl!SwapsAreWhole
<1>1. CertInv => Tl!SwapsAreWhole
  BY DEF CertInv, Decided, Tl!SwapsAreWhole, Tl!None
<1> QED BY <1>1, CertInvariance, PTL

\* The gated port-80 handler redirects a host that was not opted in only if the host
\* had a certificate while the request was decided (Manager.hostHasTLS).
THEOREM CertificateRedirects ==
  ASSUME KeypairAssumption
  PROVE  Tl!Spec => []Tl!RedirectHasTLS
<1>1. CertInv => Tl!RedirectHasTLS
  BY DEF CertInv, Decided, Tl!RedirectHasTLS
<1> QED BY <1>1, CertInvariance, PTL

\* The CA is sent at most the burst and one order per tick, whatever handshakes race
\* between peek, probe and allow (autocertSource.GetCertificate).
THEOREM CertificateOrders ==
  ASSUME KeypairAssumption, Burst \in Nat, IsFiniteSet(Handshakes)
  PROVE  Tl!Spec => []Tl!OrdersBudgeted
<1>1. Tl!Init => BudgetInv
  <2> SUFFICES ASSUME Tl!Init  PROVE BudgetInv
    OBVIOUS
  <2>1. Ordering = {}
    BY DEF Tl!Init, Tl!Idle, Ordering
  <2>2. IsFiniteSet(Ordering) /\ Cardinality(Ordering) = 0
    BY <2>1, FS_EmptySet
  <2>3. tokens = Burst /\ orders = 0 /\ ticks = 0
    BY DEF Tl!Init
  <2> QED BY SMT, <2>2, <2>3 DEF BudgetInv
<1>2. CertInv /\ BudgetInv /\ [Tl!Next]_Tl!vars => BudgetInv'
  <2> SUFFICES ASSUME CertInv, BudgetInv, [Tl!Next]_Tl!vars  PROVE BudgetInv'
    OBVIOUS
  <2>1. IsFiniteSet(Ordering) /\ Cardinality(Ordering) \in Nat
    BY FS_CardinalityType DEF BudgetInv
  <2>2. CASE UNCHANGED <<tokens, orders, ticks>> /\ Ordering' \subseteq Ordering
    <3>1. /\ IsFiniteSet(Ordering') /\ Cardinality(Ordering') \in Nat
          /\ Cardinality(Ordering') <= Cardinality(Ordering)
      BY <2>1, <2>2, FS_Subset, FS_CardinalityType
    <3> QED BY SMTT(30), <2>1, <2>2, <3>1 DEF BudgetInv
  <2>3. CASE Tl!Tick
    <3>1. Ordering' = Ordering
      BY <2>3 DEF Tl!Tick, Ordering
    <3>2. /\ ticks' = ticks + 1 /\ orders' = orders
          /\ tokens' = IF tokens < Burst THEN tokens + 1 ELSE Burst
      BY <2>3 DEF Tl!Tick
    <3> QED BY SMTT(30), <2>1, <3>1, <3>2 DEF BudgetInv
  <2>4. CASE /\ tokens >= 1 /\ tokens' = tokens - 1 /\ UNCHANGED <<orders, ticks>>
             /\ \E k \in Handshakes : Ordering' = Ordering \cup {k}
    <3>1. PICK k \in Handshakes : Ordering' = Ordering \cup {k}
      BY <2>4
    <3>2. /\ IsFiniteSet(Ordering') /\ Cardinality(Ordering') \in Nat
          /\ Cardinality(Ordering') <= Cardinality(Ordering) + 1
      <4>1. /\ IsFiniteSet(Ordering \cup {k})
            /\ \/ Cardinality(Ordering \cup {k}) = Cardinality(Ordering)
               \/ Cardinality(Ordering \cup {k}) = Cardinality(Ordering) + 1
        BY <2>1, FS_AddElement
      <4> HIDE DEF Ordering
      <4> QED BY SMT, <2>1, <3>1, <4>1
    <3> QED BY SMTT(30), <2>1, <2>4, <3>2 DEF BudgetInv
  <2>5. CASE /\ orders' \in {orders, orders + 1} /\ UNCHANGED <<tokens, ticks>>
             /\ \E k \in Ordering : Ordering' = Ordering \ {k}
    <3>1. PICK k \in Ordering : Ordering' = Ordering \ {k}
      BY <2>5
    <3>2. /\ IsFiniteSet(Ordering') /\ Cardinality(Ordering') = Cardinality(Ordering) - 1
      BY <2>1, <3>1, FS_RemoveElement
    <3> QED BY SMTT(30), <2>1, <2>5, <3>2 DEF BudgetInv
  <2>6. CASE UNCHANGED Tl!vars
    BY <2>2, <2>6 DEF Tl!vars, Ordering
  <2> QED BY <2>2, <2>3, <2>4, <2>5, <2>6, OrderingStep
<1>3. BudgetInv => Tl!OrdersBudgeted
  <2> SUFFICES ASSUME BudgetInv  PROVE Tl!OrdersBudgeted
    OBVIOUS
  <2>1. Cardinality(Ordering) \in Nat
    BY FS_CardinalityType DEF BudgetInv
  <2> QED BY SMT, <2>1 DEF BudgetInv, Tl!OrdersBudgeted
<1> QED BY <1>1, <1>2, <1>3, CertInvariance, PTL DEF Tl!Spec

-----------------------------------------------------------------------------
(* The rate limiter, for any keys and requests, any rate, burst and limits.   *)

CONSTANTS Keys, Callers, Token, Rate, BucketBurst, IdleTTL, MaxBuckets, MaxTime, MaxRequests
VARIABLES now, buckets, ask, asked, ledger, hint, swept
Rt == INSTANCE RateLimit WITH Requests <- Callers, Burst <- BucketBurst, req <- ask

LimitAssumption ==
    Keys # {} /\ Token \in Nat /\ Token # 0 /\ Rate \in Nat /\ Rate # 0 /\ BucketBurst \in Nat

BucketFields == {"tokens", "lastFill", "lastSeen"}

\* What a bucket admitted and still holds is what it began with and gained up to its
\* last fill, which is not ahead of the clock; and the hint given leads to a token.
BucketOK(b, l, hnt) ==
    /\ DOMAIN b = BucketFields
    /\ b.tokens \in Int /\ b.lastFill \in Int /\ l.since \in Int /\ l.admitted \in Int /\ hnt \in Int
    /\ 0 <= b.tokens /\ b.lastFill <= now /\ l.since <= b.lastFill
    /\ Token * l.admitted + b.tokens <= Rt!Capacity + Rate * (b.lastFill - l.since)
    /\ hnt # 0 => b.tokens + Rate * (hnt - b.lastFill) >= Token

LimitInv ==
    /\ now \in Int
    /\ DOMAIN buckets = Keys /\ DOMAIN ledger = Keys /\ DOMAIN hint = Keys /\ DOMAIN ask = Callers
    /\ \A k \in Keys : DOMAIN ledger[k] = {"since", "admitted"}
    /\ \A q \in Callers : /\ DOMAIN ask[q] = {"pc", "key", "clock"}
                          /\ ask[q].key \in Keys /\ ask[q].clock \in Int /\ ask[q].clock <= now
    /\ \A k \in Keys : buckets[k] # Rt!NoBucket => BucketOK(buckets[k], ledger[k], hint[k])

\* Arithmetic of a rate: it adds up over intervals, and grows with them.
LEMMA RateSum ==
  ASSUME NEW rate \in Nat, NEW a \in Int, NEW b \in Int, NEW c \in Int
  PROVE  rate * (b - a) + rate * (c - b) = rate * (c - a)
BY Z3

\* A longer wait earns no less ...
LEMMA RateGrows ==
  ASSUME NEW rate \in Nat, NEW a \in Int, NEW b \in Int, a <= b
  PROVE  rate * a <= rate * b
BY Z3

\* ... one more tick earns one more rate ...
LEMMA RateNext ==
  ASSUME NEW rate \in Nat, NEW a \in Int
  PROVE  rate * a \in Int /\ rate * (a + 1) = rate * a + rate
BY Z3

\* ... and none takes tokens away.
LEMMA RateGain ==
  ASSUME NEW rate \in Nat, NEW d \in Int, 0 <= d
  PROVE  0 <= rate * d
BY Z3

\* The advertised wait, rounded up, earns what is missing.
LEMMA RoundsUp ==
  ASSUME NEW rate \in Nat, rate # 0, NEW x \in Int
  PROVE  (x + rate - 1) \div rate \in Int /\ rate * ((x + rate - 1) \div rate) >= x
BY Z3

\* A bucket always has room for one token.
LEMMA CapacityFacts ==
  ASSUME LimitAssumption
  PROVE  Rt!Capacity \in Int /\ Token <= Rt!Capacity
<1> DEFINE c == IF BucketBurst < 1 THEN 1 ELSE BucketBurst
<1>1. c \in Int /\ 1 <= c
  BY SMT DEF LimitAssumption
<1>2. Rt!Capacity = Token * c
  BY DEF Rt!Capacity
<1> HIDE DEF c
<1>3. Token * c \in Int /\ Token * 1 <= Token * c /\ Token * 1 = Token
  <2>1. Token \in Nat /\ 1 \in Int
    BY SMT DEF LimitAssumption
  <2>2. Token * c \in Int /\ Token * 1 <= Token * c
    BY <1>1, <2>1, RateNext, RateGrows
  <2>3. Token * 1 = Token
    BY <2>1, SMT
  <2> QED BY <2>2, <2>3
<1> QED BY <1>2, <1>3

\* The bucket a request meets under the lock.
LEMMA Refilled ==
  ASSUME LimitAssumption, now \in Int, NEW b, NEW l, NEW hnt, BucketOK(b, l, hnt), NEW t \in Int, t <= now,
         NEW r, r = [Rt!Refill(b, t) EXCEPT !.lastSeen = t]
  PROVE  /\ DOMAIN r = BucketFields /\ r.tokens \in Int /\ r.lastFill \in Int
         /\ 0 <= r.tokens /\ r.lastFill <= now /\ l.since <= r.lastFill
         /\ Token * l.admitted + r.tokens <= Rt!Capacity + Rate * (r.lastFill - l.since)
<1>1. /\ DOMAIN b = BucketFields /\ b.tokens \in Int /\ b.lastFill \in Int
      /\ l.since \in Int /\ l.admitted \in Int
      /\ 0 <= b.tokens /\ b.lastFill <= now /\ l.since <= b.lastFill
      /\ Token * l.admitted + b.tokens <= Rt!Capacity + Rate * (b.lastFill - l.since)
  BY DEF BucketOK
<1>2. CASE ~(t > b.lastFill)
  <2>1. r = [b EXCEPT !.lastSeen = t]
    BY <1>2 DEF Rt!Refill
  <2>2. DOMAIN r = BucketFields /\ r.tokens = b.tokens /\ r.lastFill = b.lastFill
    BY <1>1, <2>1 DEF BucketFields
  <2> QED BY <1>1, <2>2
<1>3. CASE t > b.lastFill
  <2> DEFINE gain == Rate * (t - b.lastFill)
             full == Rt!MinOf(Rt!Capacity, b.tokens + gain)
  <2>1. r = [[b EXCEPT !.tokens = full, !.lastFill = t] EXCEPT !.lastSeen = t]
    BY <1>3 DEF Rt!Refill
  <2> HIDE DEF full
  <2>2. DOMAIN r = BucketFields /\ r.tokens = full /\ r.lastFill = t
    BY <1>1, <2>1 DEF BucketFields
  <2>3. /\ gain \in Int /\ 0 <= gain
        /\ gain + Rate * (b.lastFill - l.since) = Rate * (t - l.since)
        /\ Rate * (b.lastFill - l.since) \in Int /\ Rate * (t - l.since) \in Int /\ Token * l.admitted \in Int
    <3>1. Rate \in Nat /\ Token \in Nat
      BY DEF LimitAssumption
    <3>2. Rate * (b.lastFill - l.since) + Rate * (t - b.lastFill) = Rate * (t - l.since)
      BY <1>1, <3>1, RateSum, SMTT(30)
    <3>3. /\ t - b.lastFill \in Int /\ 0 \in Int /\ 0 <= t - b.lastFill
          /\ b.lastFill - l.since \in Int /\ t - l.since \in Int
      BY <1>1, <1>3, SMT
    <3>4. 0 <= gain /\ gain \in Int
      BY <3>1, <3>3, RateGain, RateNext
    <3>5. /\ Rate * (b.lastFill - l.since) \in Int /\ Rate * (t - l.since) \in Int
          /\ Token * l.admitted \in Int
      BY <1>1, <3>1, <3>3, RateNext
    <3>6. gain = Rate * (t - b.lastFill)
      OBVIOUS
    <3> HIDE DEF gain
    <3> QED BY SMTT(30), <3>2, <3>4, <3>5, <3>6
  <2>4. full \in Int /\ 0 <= full /\ full <= b.tokens + gain
    <3> HIDE DEF gain
    <3> QED BY SMTT(30), <1>1, <2>3, CapacityFacts DEF full, Rt!MinOf, LimitAssumption
  <2> HIDE DEF gain
  <2> QED BY SMTT(30), <1>1, <1>3, <2>2, <2>3, <2>4, CapacityFacts
<1> QED BY <1>2, <1>3

\* Allow: the bucket it leaves, with or without the token, is in order.
LEMMA TokenTaken ==
  ASSUME LimitAssumption, now \in Int, NEW b, DOMAIN b = BucketFields, b.tokens \in Int, b.lastFill \in Int,
         NEW since \in Int, NEW admitted \in Int, 0 <= b.tokens, b.lastFill <= now, since <= b.lastFill,
         Token * admitted + b.tokens <= Rt!Capacity + Rate * (b.lastFill - since),
         NEW l, l.since = since, l.admitted = admitted + (IF b.tokens >= Token THEN 1 ELSE 0)
  PROVE  BucketOK(IF b.tokens >= Token THEN [b EXCEPT !.tokens = @ - Token] ELSE b, l,
                  IF b.tokens >= Token THEN 0 ELSE now + Rt!RetryAfter(b))
<1>1. Token \in Nat /\ Token \in Int /\ Rate \in Nat
  BY SMT DEF LimitAssumption
<1>2. /\ b.lastFill - since \in Int /\ Rate * (b.lastFill - since) \in Int
      /\ Token * admitted \in Int /\ Token * (admitted + 1) = Token * admitted + Token
  <2>1. b.lastFill - since \in Int
    BY SMT
  <2> QED BY <1>1, <2>1, RateNext
<1>3. CASE b.tokens >= Token
  <2> DEFINE c == [b EXCEPT !.tokens = @ - Token]
  <2>1. DOMAIN c = BucketFields /\ c.tokens = b.tokens - Token /\ c.lastFill = b.lastFill
    BY DEF BucketFields
  <2> HIDE DEF c
  <2>2. l.since = since /\ l.admitted = admitted + 1
    BY <1>3
  <2>3. 0 \in Int /\ admitted + 1 \in Int /\ b.tokens - Token \in Int /\ 0 <= b.tokens - Token
    BY <1>1, <1>3, SMTT(30)
  <2>4. Token * (admitted + 1) + (b.tokens - Token) <= Rt!Capacity + Rate * (b.lastFill - since)
    BY SMTT(30), <1>1, <1>2, CapacityFacts
  <2>5. BucketOK(c, l, 0)
    BY <2>1, <2>2, <2>3, <2>4 DEF BucketOK
  <2> QED BY <1>3, <2>5 DEF c
<1>4. CASE ~(b.tokens >= Token)
  <2> DEFINE wait == Rt!RetryAfter(b)
             gap == Token - b.tokens
  <2>1. l.since = since /\ l.admitted = admitted
    BY <1>4, SMT
  <2>2. gap \in Int
    BY <1>1, SMT
  <2>3. wait = (gap + Rate - 1) \div Rate
    BY DEF Rt!RetryAfter
  <2>4. wait \in Int /\ Rate * wait >= gap
    <3> HIDE DEF wait, gap
    <3> QED BY <1>1, <2>2, <2>3, RoundsUp DEF LimitAssumption
  <2>5. Rate * ((now + wait) - b.lastFill) >= Rate * wait /\ now + wait \in Int
    <3> HIDE DEF wait
    <3>1. now + wait \in Int /\ (now + wait) - b.lastFill \in Int /\ wait <= (now + wait) - b.lastFill
      BY <2>4, SMT
    <3>2. Rate * wait <= Rate * ((now + wait) - b.lastFill)
      BY <1>1, <2>4, <3>1, RateGrows
    <3>3. Rate * wait \in Int /\ Rate * ((now + wait) - b.lastFill) \in Int
      BY <1>1, <2>4, <3>1, RateNext
    <3> QED BY <3>1, <3>2, <3>3, SMTT(30)
  <2>6. b.tokens + Rate * ((now + wait) - b.lastFill) >= Token
    <3>1. gap = Token - b.tokens
      OBVIOUS
    <3> HIDE DEF wait, gap
    <3>2. Rate * wait \in Int /\ Rate * ((now + wait) - b.lastFill) \in Int
      <4>1. (now + wait) - b.lastFill \in Int
        BY <2>4, <2>5, SMTT(30)
      <4> QED BY <1>1, <2>4, <4>1, RateNext
    <3> QED BY SMTT(30), <1>1, <2>2, <2>4, <2>5, <3>1, <3>2
  <2> DEFINE hnt == now + wait
  <2>7. hnt \in Int /\ b.tokens + Rate * (hnt - b.lastFill) >= Token
    BY <2>5, <2>6
  <2>8. /\ l.since \in Int /\ l.admitted \in Int /\ l.since <= b.lastFill
        /\ Token * l.admitted + b.tokens <= Rt!Capacity + Rate * (b.lastFill - l.since)
    BY <2>1
  <2> HIDE DEF hnt
  <2>9. BucketOK(b, l, hnt)
    BY <2>7, <2>8 DEF BucketOK
  <2> QED BY <1>4, <2>9 DEF hnt
<1> QED BY <1>3, <1>4

\* A request is let through or refused (Limiter.Allow).
LEMMA AllowStep ==
  ASSUME LimitAssumption, LimitInv, NEW q \in Callers, Rt!Allow(q)
  PROVE  LimitInv'
<1> PICK k, t : k = ask[q].key /\ t = ask[q].clock
  OBVIOUS
<1> DEFINE new == buckets[k] = Rt!NoBucket
           b == IF new THEN [tokens |-> Rt!Capacity, lastFill |-> t, lastSeen |-> t]
                ELSE [Rt!Refill(buckets[k], t) EXCEPT !.lastSeen = t]
           ok == b.tokens >= Token
           since == IF new THEN t ELSE ledger[k].since
           admitted == IF new THEN 0 ELSE ledger[k].admitted
           l == [since |-> since, admitted |-> admitted + (IF ok THEN 1 ELSE 0)]
           bs == IF new /\ Rt!Cardinality(Rt!Live) >= MaxBuckets THEN Rt!Evict((MaxBuckets * 7) \div 8) ELSE buckets
           c == IF ok THEN [b EXCEPT !.tokens = @ - Token] ELSE b
           retry == IF ok THEN 0 ELSE now + Rt!RetryAfter(b)
<1>1. k \in Keys /\ t \in Int /\ t <= now /\ now \in Int
  BY DEF LimitInv
<1>2. /\ buckets' = [bs EXCEPT ![k] = c]
      /\ DOMAIN bs = Keys /\ \A j \in Keys : bs[j] \in {buckets[j], Rt!NoBucket}
  <2>1. buckets' = [bs EXCEPT ![k] = c]
    BY DEF Rt!Allow
  <2>2. DOMAIN bs = Keys /\ \A j \in Keys : bs[j] \in {buckets[j], Rt!NoBucket}
    <3>1. \A n : /\ DOMAIN Rt!Evict(n) = Keys
                 /\ \A j \in Keys : Rt!Evict(n)[j] \in {buckets[j], Rt!NoBucket}
      BY DEF Rt!Evict
    <3> QED BY <3>1 DEF LimitInv
  <2> QED BY <2>1, <2>2
<1>3. /\ ledger' = [ledger EXCEPT ![k] = l]
      /\ hint' = [hint EXCEPT ![k] = retry]
      /\ ask' = [ask EXCEPT ![q].pc = "idle"] /\ now' = now
  BY <1>1 DEF Rt!Allow, LimitInv
<1>4. /\ DOMAIN b = BucketFields /\ b.tokens \in Int /\ b.lastFill \in Int
      /\ since \in Int /\ admitted \in Int
      /\ 0 <= b.tokens /\ b.lastFill <= now /\ since <= b.lastFill
      /\ Token * admitted + b.tokens <= Rt!Capacity + Rate * (b.lastFill - since)
  <2>1. CASE new
    <3>1. DOMAIN b = BucketFields /\ b.tokens = Rt!Capacity /\ b.lastFill = t /\ since = t /\ admitted = 0
      BY <2>1 DEF BucketFields
    <3> HIDE DEF b, since, admitted
    <3>2. Token * 0 = 0 /\ Rate * (t - t) = 0 /\ 0 \in Int /\ t <= t
      BY <1>1, SMTT(30) DEF LimitAssumption
    <3>3. /\ Rt!Capacity \in Int /\ 0 <= Rt!Capacity
          /\ Token * 0 + Rt!Capacity <= Rt!Capacity + Rate * (t - t)
      BY SMTT(30), <3>2, CapacityFacts DEF LimitAssumption
    <3> QED BY <1>1, <3>1, <3>2, <3>3
  <2>2. CASE ~new
    <3>1. BucketOK(buckets[k], ledger[k], hint[k])
      BY <1>1, <2>2 DEF LimitInv
    <3>2. b = [Rt!Refill(buckets[k], t) EXCEPT !.lastSeen = t] /\ since = ledger[k].since /\ admitted = ledger[k].admitted
      BY <2>2
    <3>3. since \in Int /\ admitted \in Int
      BY <3>1, <3>2 DEF BucketOK
    <3> HIDE DEF b, since, admitted
    <3> QED BY <1>1, <3>1, <3>2, <3>3, Refilled
  <2> QED BY <2>1, <2>2
<1>5. l.since = since /\ l.admitted = admitted + (IF ok THEN 1 ELSE 0) /\ DOMAIN l = {"since", "admitted"}
  OBVIOUS
<1> HIDE DEF b, since, admitted, l, bs
<1>6. BucketOK(c, l, retry)
  BY <1>1, <1>4, <1>5, TokenTaken
<1> HIDE DEF c, retry, ok
<1>7. BucketOK(buckets[k], ledger[k], hint[k])'
  <2>1. buckets'[k] = c /\ ledger'[k] = l /\ hint'[k] = retry
    BY <1>1, <1>2, <1>3 DEF LimitInv
  <2> QED BY <1>3, <1>6, <2>1 DEF BucketOK
<1>8. \A j \in Keys : j # k /\ buckets'[j] # Rt!NoBucket => BucketOK(buckets[j], ledger[j], hint[j])'
  <2>1. \A j \in Keys : j # k => buckets'[j] \in {buckets[j], Rt!NoBucket} /\ ledger'[j] = ledger[j] /\ hint'[j] = hint[j]
    BY <1>1, <1>2, <1>3 DEF LimitInv
  <2> QED BY <1>3, <2>1 DEF LimitInv, BucketOK
<1>9. /\ now' \in Int
      /\ DOMAIN buckets' = Keys /\ DOMAIN ledger' = Keys /\ DOMAIN hint' = Keys /\ DOMAIN ask' = Callers
      /\ \A j \in Keys : DOMAIN ledger'[j] = {"since", "admitted"}
  BY <1>1, <1>2, <1>3, <1>5 DEF LimitInv
<1>10. \A p \in Callers : /\ DOMAIN ask'[p] = {"pc", "key", "clock"}
                          /\ ask'[p].key \in Keys /\ ask'[p].clock \in Int /\ ask'[p].clock <= now'
  <2>1. ask'[q] = [ask[q] EXCEPT !.pc = "idle"] /\ \A p \in Callers : p # q => ask'[p] = ask[p]
    BY <1>3 DEF LimitInv
  <2>2. DOMAIN ask'[q] = {"pc", "key", "clock"} /\ ask'[q].key = ask[q].key /\ ask'[q].clock = ask[q].clock
    BY <2>1 DEF LimitInv
  <2> QED BY <1>3, <2>1, <2>2 DEF LimitInv
<1>11. \A j \in Keys : buckets'[j] # Rt!NoBucket => BucketOK(buckets[j], ledger[j], hint[j])'
  BY <1>7, <1>8
<1> QED BY <1>9, <1>10, <1>11 DEF LimitInv, BucketOK, Rt!NoBucket

\* A request reads the clock, the sweep drops idle buckets, time passes.
LEMMA LimitOtherSteps ==
  ASSUME LimitAssumption, LimitInv, (\E q \in Callers : Rt!ReadClock(q)) \/ Rt!Sweep \/ Rt!Tick
  PROVE  LimitInv'
<1>1. CASE \E q \in Callers : Rt!ReadClock(q)
  <2>1. PICK q \in Callers : Rt!ReadClock(q)
    BY <1>1
  <2>2. PICK k \in Keys : ask' = [ask EXCEPT ![q] = [pc |-> "clocked", key |-> k, clock |-> now]]
    BY <2>1 DEF Rt!ReadClock
  <2>3. UNCHANGED <<now, buckets, ledger, hint>>
    BY <2>1 DEF Rt!ReadClock
  <2>4. now <= now
    BY SMT DEF LimitInv
  <2> QED BY <2>2, <2>3, <2>4 DEF LimitInv, BucketOK
<1>2. CASE Rt!Sweep
  <2>1. DOMAIN buckets' = Keys /\ \A k \in Keys : buckets'[k] \in {buckets[k], Rt!NoBucket}
    BY <1>2 DEF Rt!Sweep
  <2>2. UNCHANGED <<now, ask, ledger, hint>>
    BY <1>2 DEF Rt!Sweep
  <2> QED BY <2>1, <2>2 DEF LimitInv, BucketOK
<1>3. CASE Rt!Tick
  <2>1. UNCHANGED <<buckets, ask, ledger, hint>> /\ now' = now + 1
    BY <1>3 DEF Rt!Tick
  <2>2. now' \in Int /\ \A x \in Int : x <= now => x <= now'
    BY SMTT(30), <2>1 DEF LimitInv
  <2> QED BY <2>1, <2>2 DEF LimitInv, BucketOK
<1> QED BY <1>1, <1>2, <1>3

\* A bucket admits over its life no more than its capacity and what its rate adds,
\* whatever the order of the clock readings, and the Retry-After it gives leads to a
\* token (Limiter.Allow, evictOldestLocked, sweep).
THEOREM RateLimited ==
  ASSUME LimitAssumption
  PROVE  Rt!Spec => []Rt!LimitHonest
<1>1. Rt!Init => LimitInv
  <2> SUFFICES ASSUME Rt!Init  PROVE LimitInv
    OBVIOUS
  <2>1. 0 \in Int /\ 0 <= 0
    BY SMT
  <2>2. (CHOOSE k \in Keys : TRUE) \in Keys
    BY DEF LimitAssumption
  <2> QED BY <2>1, <2>2 DEF Rt!Init, LimitInv
<1>2. LimitInv /\ [Rt!Next]_Rt!vars => LimitInv'
  <2>1. ASSUME LimitInv, UNCHANGED Rt!vars  PROVE LimitInv'
    BY <2>1 DEF Rt!vars, LimitInv, BucketOK
  <2> QED BY <2>1, AllowStep, LimitOtherSteps DEF Rt!Next
<1>3. LimitInv => Rt!LimitHonest
  <2> SUFFICES ASSUME LimitInv, NEW k \in Rt!Live
               PROVE  /\ Token * ledger[k].admitted <= Rt!Capacity + Rate * (now - ledger[k].since)
                      /\ hint[k] # 0 => buckets[k].tokens + Rate * (hint[k] - buckets[k].lastFill) >= Token
    BY DEF Rt!LimitHonest
  <2> DEFINE b == buckets[k]
             l == ledger[k]
  <2>1. BucketOK(b, l, hint[k]) /\ now \in Int
    BY DEF Rt!Live, LimitInv
  <2>2. /\ b.tokens \in Int /\ b.lastFill \in Int /\ l.since \in Int /\ l.admitted \in Int
        /\ 0 <= b.tokens /\ b.lastFill <= now
        /\ Token * l.admitted + b.tokens <= Rt!Capacity + Rate * (b.lastFill - l.since)
    BY <2>1 DEF BucketOK
  <2>3. Rate \in Nat /\ Token \in Nat
    BY DEF LimitAssumption
  <2> HIDE DEF b, l
  <2>4. /\ b.lastFill - l.since \in Int /\ now - l.since \in Int /\ b.lastFill - l.since <= now - l.since
    BY SMTT(30), <2>1, <2>2
  <2>5. /\ Rate * (b.lastFill - l.since) <= Rate * (now - l.since)
        /\ Rate * (b.lastFill - l.since) \in Int /\ Rate * (now - l.since) \in Int /\ Token * l.admitted \in Int
    BY <2>2, <2>3, <2>4, RateGrows, RateNext
  <2>6. Token * l.admitted <= Rt!Capacity + Rate * (now - l.since)
    BY SMTT(30), <2>2, <2>5, CapacityFacts
  <2>7. hint[k] # 0 => b.tokens + Rate * (hint[k] - b.lastFill) >= Token
    BY <2>1 DEF BucketOK
  <2> QED BY <2>6, <2>7 DEF b, l
<1> QED BY <1>1, <1>2, <1>3, PTL DEF Rt!Spec

-----------------------------------------------------------------------------
(* The audit log and the access hub, for any buffer, any consumers and any    *)
(* number of records.                                                         *)

CONSTANTS Buf, MaxRecords, Consumers
VARIABLES audit, hub, sub, passed
Sk == INSTANCE Sinks WITH gated <- passed

\* Records in the order they came.
Rising(s) == \A m, n \in 1..Len(s) : m < n => s[m] < s[n]

\* The written records came before the one in the writer's hand and those before
\* the ones in the queue.
AuditOrder ==
    /\ Rising(audit.written) /\ Rising(audit.queue)
    /\ \A m \in 1..Len(audit.written) :
         /\ audit.written[m] < audit.next
         /\ audit.hand # 0 => audit.written[m] < audit.hand
         /\ \A n \in 1..Len(audit.queue) : audit.written[m] < audit.queue[n]
    /\ \A n \in 1..Len(audit.queue) : audit.hand < audit.queue[n] /\ audit.queue[n] < audit.next

\* Where the records are.
Accounted ==
    Sk!ToSet(audit.written) \cup audit.dropped \cup audit.refused \cup Sk!ToSet(audit.queue) \cup ({audit.hand} \ {0})

AuditFields == {"queue", "hand", "written", "dropped", "refused", "closed", "file", "next"}

AuditTypes ==
    /\ DOMAIN audit = AuditFields
    /\ audit.queue \in Seq(Nat) /\ audit.written \in Seq(Nat) /\ audit.hand \in Nat /\ audit.next \in Nat
    /\ audit.hand < audit.next /\ Len(audit.queue) <= Buf

AuditInv ==
    /\ AuditTypes /\ AuditOrder
    /\ Accounted = 1..(audit.next - 1)
    /\ audit.file = "closed" => audit.closed /\ audit.queue = <<>> /\ audit.hand = 0

\* The records of a queue after one is added ...
LEMMA SetOfAppend ==
  ASSUME NEW s \in Seq(Nat), NEW e \in Nat
  PROVE  Sk!ToSet(Append(s, e)) = Sk!ToSet(s) \cup {e}
BY SMT DEF Sk!ToSet

\* ... and of one whose first is taken.
LEMMA SetOfTail ==
  ASSUME NEW s \in Seq(Nat), s # <<>>
  PROVE  Sk!ToSet(s) = Sk!ToSet(Tail(s)) \cup {Head(s)}
BY SMT DEF Sk!ToSet

\* A newer record keeps the order ...
LEMMA RisingAppend ==
  ASSUME NEW s \in Seq(Nat), NEW e \in Nat, Rising(s), \A n \in 1..Len(s) : s[n] < e
  PROVE  Rising(Append(s, e))
BY SMTT(30) DEF Rising

\* ... and the first is older than the others.
LEMMA RisingTail ==
  ASSUME NEW s \in Seq(Nat), s # <<>>, Rising(s)
  PROVE  /\ Rising(Tail(s)) /\ Head(s) \in Nat /\ Tail(s) \in Seq(Nat)
         /\ \A n \in 1..Len(Tail(s)) : Head(s) < Tail(s)[n] /\ n + 1 \in 1..Len(s) /\ Tail(s)[n] = s[n + 1]
BY SMT DEF Rising

\* A request hands over a record: it is queued, dropped or refused.
LEMMA RecordStep ==
  ASSUME Buf \in Nat, AuditInv, Sk!Record
  PROVE  AuditInv'
<1> DEFINE x == audit.next
           room == ~audit.closed /\ Len(audit.queue) < Buf
<1>1. /\ DOMAIN audit' = AuditFields /\ audit'.next = x + 1 /\ audit'.hand = audit.hand
      /\ audit'.written = audit.written /\ audit'.closed = audit.closed /\ audit'.file = audit.file
      /\ audit'.queue = (IF room THEN Append(audit.queue, x) ELSE audit.queue)
      /\ audit'.refused = (IF audit.closed THEN audit.refused \cup {x} ELSE audit.refused)
      /\ audit'.dropped = (IF ~audit.closed /\ Len(audit.queue) = Buf THEN audit.dropped \cup {x} ELSE audit.dropped)
  BY DEF Sk!Record, AuditInv, AuditTypes, AuditFields
<1>2. /\ audit.queue \in Seq(Nat) /\ audit.written \in Seq(Nat) /\ audit.hand \in Nat /\ x \in Nat /\ audit.hand < x
      /\ Len(audit.queue) <= Buf /\ Rising(audit.queue) /\ Rising(audit.written)
      /\ \A m \in 1..Len(audit.queue) : audit.queue[m] < x
  BY DEF AuditInv, AuditTypes, AuditOrder
<1>3. x + 1 \in Nat /\ audit.hand < x + 1 /\ 1..((x + 1) - 1) = 1..(x - 1) \cup {x}
  BY SMTT(30), <1>2
<1>4. CASE room
  <2>1. audit'.queue = Append(audit.queue, x) /\ audit'.refused = audit.refused /\ audit'.dropped = audit.dropped
    <3>1. Len(audit.queue) # Buf
      BY SMTT(30), <1>2, <1>4
    <3> QED BY <1>1, <1>4, <3>1
  <2>2. Append(audit.queue, x) \in Seq(Nat) /\ Len(Append(audit.queue, x)) <= Buf
    BY SMTT(30), <1>2, <1>4
  <2>3. AuditTypes'
    BY <1>1, <1>2, <1>3, <2>1, <2>2 DEF AuditTypes
  <2>4. Rising(Append(audit.queue, x))
    BY <1>2, RisingAppend
  <2>5. AuditOrder'
    <3>1. \A n \in 1..Len(Append(audit.queue, x)) :
            \/ n \in 1..Len(audit.queue) /\ Append(audit.queue, x)[n] = audit.queue[n]
            \/ Append(audit.queue, x)[n] = x
      BY SMTT(30), <1>2
    <3> HIDE DEF x
    <3>2. x = audit.next
      BY DEF x
    <3>3. \A n \in Nat : n < x => n < x + 1
      BY SMTT(30), <1>2
    <3>4. x < x + 1
      BY SMTT(30), <1>2
    <3>5. \A m \in 1..Len(audit.written) : audit.written[m] \in Nat
      BY <1>2, SMTT(30)
    <3>6. \A m \in 1..Len(audit.queue) : audit.queue[m] \in Nat
      BY <1>2, SMTT(30)
    <3>7. \A n \in 1..Len(Append(audit.queue, x)) :
            audit.hand < Append(audit.queue, x)[n] /\ Append(audit.queue, x)[n] < x + 1
      BY <1>2, <3>1, <3>2, <3>3, <3>4, <3>6 DEF AuditInv, AuditOrder
    <3>8. \A m \in 1..Len(audit.written) :
            /\ audit.written[m] < x + 1
            /\ audit.hand # 0 => audit.written[m] < audit.hand
            /\ \A n \in 1..Len(Append(audit.queue, x)) : audit.written[m] < Append(audit.queue, x)[n]
      BY <3>1, <3>2, <3>3, <3>5 DEF AuditInv, AuditOrder
    <3> QED BY <1>1, <1>2, <2>1, <2>4, <3>7, <3>8 DEF AuditOrder
  <2>6. Accounted' = Accounted \cup {x}
    <3>1. Sk!ToSet(Append(audit.queue, x)) = Sk!ToSet(audit.queue) \cup {x}
      BY <1>2, SetOfAppend
    <3>2. /\ Sk!ToSet(audit.queue)' = Sk!ToSet(audit.queue) \cup {x}
          /\ Sk!ToSet(audit.written)' = Sk!ToSet(audit.written)
      BY <1>1, <2>1, <3>1 DEF Sk!ToSet
    <3> HIDE DEF x
    <3> QED BY <1>1, <2>1, <3>2 DEF Accounted
  <2>7. audit.file # "closed"
    BY <1>4 DEF AuditInv
  <2> QED BY <1>1, <1>3, <2>3, <2>5, <2>6, <2>7 DEF AuditInv
<1>5. CASE ~room
  <2>1. audit'.queue = audit.queue /\ audit'.refused \cup audit'.dropped = audit.refused \cup audit.dropped \cup {x}
    <3>1. audit.closed \/ Len(audit.queue) = Buf
      BY SMTT(30), <1>2, <1>5
    <3> QED BY <1>1, <1>5, <3>1
  <2>2. AuditTypes'
    BY <1>1, <1>2, <1>3, <2>1 DEF AuditTypes
  <2>3. AuditOrder'
    <3>1. \A n \in Nat : n < x => n < x + 1
      BY SMTT(30), <1>2
    <3>2. \A m \in 1..Len(audit.written) : audit.written[m] \in Nat
      BY <1>2, SMTT(30)
    <3>3. \A m \in 1..Len(audit.queue) : audit.queue[m] \in Nat
      BY <1>2, SMTT(30)
    <3> QED BY <1>1, <2>1, <3>1, <3>2, <3>3 DEF AuditInv, AuditOrder
  <2>4. Accounted' = Accounted \cup {x}
    <3>1. Sk!ToSet(audit.queue)' = Sk!ToSet(audit.queue) /\ Sk!ToSet(audit.written)' = Sk!ToSet(audit.written)
      BY <1>1, <2>1 DEF Sk!ToSet
    <3> HIDE DEF x
    <3> QED BY <1>1, <2>1, <3>1 DEF Accounted
  <2> QED BY <1>1, <1>3, <2>1, <2>2, <2>3, <2>4 DEF AuditInv
<1> QED BY <1>4, <1>5

\* The writer takes a record, writes or drops it, and Close ends it.
LEMMA AuditWriterStep ==
  ASSUME Buf \in Nat, AuditInv, Sk!Receive \/ Sk!Write \/ Sk!CloseAudit \/ Sk!CloseFile
  PROVE  AuditInv'
<1> DEFINE q == audit.queue
           w == audit.written
<1>1. /\ DOMAIN audit = AuditFields /\ q \in Seq(Nat) /\ w \in Seq(Nat) /\ audit.hand \in Nat /\ audit.next \in Nat
      /\ audit.hand < audit.next /\ Len(q) <= Buf /\ Rising(q) /\ Rising(w)
  BY DEF AuditInv, AuditTypes, AuditOrder
<1>2. CASE Sk!Receive
  <2> DEFINE x == Head(q)
  <2>1. /\ audit.hand = 0 /\ q # <<>>
        /\ DOMAIN audit' = AuditFields /\ audit'.hand = x /\ audit'.queue = Tail(q) /\ audit'.written = w
        /\ audit'.dropped = audit.dropped /\ audit'.refused = audit.refused /\ audit'.next = audit.next
        /\ audit'.file = audit.file
    BY <1>1, <1>2 DEF Sk!Receive, Sk!None, AuditFields
  <2>2. /\ x \in Nat /\ Tail(q) \in Seq(Nat) /\ Rising(Tail(q))
        /\ \A n \in 1..Len(Tail(q)) : x < Tail(q)[n] /\ n + 1 \in 1..Len(q) /\ Tail(q)[n] = q[n + 1]
    BY <1>1, <2>1, RisingTail
  <2>3. 1 \in 1..Len(q) /\ q[1] = x /\ Len(Tail(q)) <= Buf
    BY SMTT(30), <1>1, <2>1
  <2>4. 0 < x /\ x < audit.next
    BY <2>1, <2>3 DEF AuditInv, AuditOrder
  <2>5. AuditTypes'
    BY <1>1, <2>1, <2>2, <2>3, <2>4 DEF AuditTypes
  <2>6. AuditOrder'
    <3>1. \A m \in 1..Len(w) : w[m] < audit.next /\ w[m] < x /\ \A n \in 1..Len(Tail(q)) : w[m] < Tail(q)[n]
      BY <2>2, <2>3 DEF AuditInv, AuditOrder
    <3>2. \A n \in 1..Len(Tail(q)) : x < Tail(q)[n] /\ Tail(q)[n] < audit.next
      BY <2>2 DEF AuditInv, AuditOrder
    <3> QED BY <1>1, <2>1, <2>2, <3>1, <3>2 DEF AuditOrder
  <2>7. Accounted' = Accounted
    <3>1. Sk!ToSet(q) = Sk!ToSet(Tail(q)) \cup {x} /\ x # 0
      BY <1>1, <2>1, <2>4, SetOfTail, SMTT(30)
    <3>2. Sk!ToSet(audit.queue)' = Sk!ToSet(Tail(q)) /\ Sk!ToSet(audit.written)' = Sk!ToSet(w)
      BY <2>1 DEF Sk!ToSet
    <3> HIDE DEF x, q, w
    <3>3. Accounted' = Sk!ToSet(w) \cup audit.dropped \cup audit.refused \cup Sk!ToSet(Tail(q)) \cup ({x} \ {0})
      BY <2>1, <3>2 DEF Accounted
    <3>4. Accounted = Sk!ToSet(w) \cup audit.dropped \cup audit.refused \cup Sk!ToSet(q) \cup ({audit.hand} \ {0})
      BY DEF Accounted, q, w
    <3> QED BY <2>1, <3>1, <3>3, <3>4
  <2> QED BY <2>1, <2>5, <2>6, <2>7 DEF AuditInv
<1>3. CASE Sk!Write
  <2> DEFINE x == audit.hand
  <2>1. /\ x # 0
        /\ DOMAIN audit' = AuditFields /\ audit'.hand = 0 /\ audit'.queue = q
        /\ audit'.refused = audit.refused /\ audit'.next = audit.next /\ audit'.file = audit.file
        /\ \/ audit'.written = Append(w, x) /\ audit'.dropped = audit.dropped
           \/ audit'.written = w /\ audit'.dropped = audit.dropped \cup {x}
    BY <1>1, <1>3 DEF Sk!Write, Sk!None, AuditFields
  <2>2. Append(w, x) \in Seq(Nat) /\ 0 \in Nat /\ 0 < audit.next
    BY SMTT(30), <1>1
  <2>3. Rising(Append(w, x))
    BY <1>1, <2>1, RisingAppend DEF AuditInv, AuditOrder
  <2>4. AuditTypes'
    BY <1>1, <2>1, <2>2 DEF AuditTypes
  <2>5. AuditOrder'
    <3>1. \A n \in 1..Len(q) : q[n] \in Nat /\ x < q[n] /\ q[n] < audit.next
      <4>1. \A n \in 1..Len(q) : q[n] \in Nat
        BY SMTT(30), <1>1
      <4> QED BY <4>1 DEF AuditInv, AuditOrder
    <3>2. \A n \in 1..Len(q) : 0 < q[n]
      BY SMTT(30), <1>1, <3>1
    <3>3. \A m \in 1..Len(w) : w[m] < audit.next /\ \A n \in 1..Len(q) : w[m] < q[n]
      BY DEF AuditInv, AuditOrder
    <3>4. \A m \in 1..Len(Append(w, x)) :
            (m \in 1..Len(w) /\ Append(w, x)[m] = w[m]) \/ Append(w, x)[m] = x
      BY SMTT(30), <1>1
    <3>5. \A m \in 1..Len(Append(w, x)) :
            Append(w, x)[m] < audit.next /\ \A n \in 1..Len(q) : Append(w, x)[m] < q[n]
      BY <1>1, <3>1, <3>3, <3>4
    <3> QED BY <1>1, <2>1, <2>3, <3>1, <3>2, <3>3, <3>5 DEF AuditOrder
  <2>6. Accounted' = Accounted
    <3>1. Sk!ToSet(Append(w, x)) = Sk!ToSet(w) \cup {x}
      BY <1>1, SetOfAppend
    <3>2. Sk!ToSet(audit.queue)' = Sk!ToSet(q) /\ Sk!ToSet(audit.written)' \cup audit'.dropped = Sk!ToSet(w) \cup audit.dropped \cup {x}
      <4>1. Sk!ToSet(audit.queue)' = Sk!ToSet(audit'.queue) /\ Sk!ToSet(audit.written)' = Sk!ToSet(audit'.written)
        BY DEF Sk!ToSet
      <4>2. Sk!ToSet(audit.queue)' = Sk!ToSet(q)
        BY <2>1, <4>1
      <4>3. CASE audit'.written = Append(w, x) /\ audit'.dropped = audit.dropped
        <5>1. Sk!ToSet(audit.written)' = Sk!ToSet(w) \cup {x}
          BY <3>1, <4>1, <4>3
        <5> QED BY <4>2, <4>3, <5>1
      <4>4. CASE audit'.written = w /\ audit'.dropped = audit.dropped \cup {x}
        <5>1. Sk!ToSet(audit.written)' = Sk!ToSet(w)
          BY <4>1, <4>4
        <5> QED BY <4>2, <4>4, <5>1
      <4> QED BY <2>1, <4>3, <4>4
    <3> HIDE DEF x, q, w
    <3>3. Accounted' = Sk!ToSet(w) \cup audit.dropped \cup {x} \cup audit.refused \cup Sk!ToSet(q)
      BY <2>1, <3>2 DEF Accounted
    <3>4. Accounted = Sk!ToSet(w) \cup audit.dropped \cup audit.refused \cup Sk!ToSet(q) \cup ({x} \ {0})
      BY DEF Accounted, q, w, x
    <3> QED BY <2>1, <3>3, <3>4
  <2> QED BY <2>1, <2>4, <2>5, <2>6 DEF AuditInv
<1>4. CASE Sk!CloseAudit \/ Sk!CloseFile
  <2>1. /\ DOMAIN audit' = AuditFields /\ audit'.hand = audit.hand /\ audit'.queue = q /\ audit'.written = w
        /\ audit'.dropped = audit.dropped /\ audit'.refused = audit.refused /\ audit'.next = audit.next
        /\ audit'.file = "closed" => audit'.closed /\ q = <<>> /\ audit.hand = 0
    BY <1>1, <1>4 DEF Sk!CloseAudit, Sk!CloseFile, Sk!WriterDone, Sk!None, AuditFields, AuditInv
  <2>2. AuditTypes' /\ AuditOrder'
    BY <1>1, <2>1 DEF AuditInv, AuditTypes, AuditOrder
  <2>3. Accounted' = Accounted
    <3>1. Sk!ToSet(audit.queue)' = Sk!ToSet(q) /\ Sk!ToSet(audit.written)' = Sk!ToSet(w)
      BY <2>1 DEF Sk!ToSet
    <3> QED BY <2>1, <3>1 DEF Accounted
  <2> QED BY <2>1, <2>2, <2>3 DEF AuditInv
<1> QED BY <1>2, <1>3, <1>4

\* Every audit record handed over is written once and in order, dropped and counted,
\* refused after Close, or still held, and none is held when the file is closed
\* (AuditLog.Record, run, Close).
THEOREM AuditHeld ==
  ASSUME Buf \in Nat
  PROVE  Sk!Spec => []Sk!AuditAccounted
<1>1. Sk!Init => AuditInv
  <2> SUFFICES ASSUME Sk!Init  PROVE AuditInv
    OBVIOUS
  <2>1. /\ DOMAIN audit = AuditFields /\ audit.queue = <<>> /\ audit.hand = 0 /\ audit.written = <<>>
        /\ audit.dropped = {} /\ audit.refused = {} /\ audit.next = 1 /\ audit.file = "open"
    BY DEF Sk!Init, Sk!None, AuditFields
  <2>2. <<>> \in Seq(Nat) /\ 0 \in Nat /\ 1 \in Nat /\ 0 < 1 /\ Len(<<>>) <= Buf /\ 1..Len(<<>>) = {} /\ 1..(1 - 1) = {}
    BY SMT
  <2>3. Accounted = 1..(audit.next - 1)
    BY <2>1, <2>2 DEF Accounted, Sk!ToSet
  <2> QED BY <2>1, <2>2, <2>3 DEF AuditInv, AuditTypes, AuditOrder, Rising
<1>2. AuditInv /\ [Sk!Next]_Sk!vars => AuditInv'
  <2>1. ASSUME AuditInv, audit' = audit  PROVE AuditInv'
    <3>1. AuditTypes' /\ AuditOrder'
      BY <2>1 DEF AuditInv, AuditTypes, AuditOrder, Rising
    <3>2. Accounted' = Accounted
      BY <2>1 DEF Accounted, Sk!ToSet
    <3> QED BY <2>1, <3>1, <3>2 DEF AuditInv
  <2>2. [Sk!Next]_Sk!vars => Sk!Record \/ Sk!Receive \/ Sk!Write \/ Sk!CloseAudit \/ Sk!CloseFile \/ audit' = audit
    BY DEF Sk!Next, Sk!AuditNext, Sk!HubNext, Sk!vars, Sk!Gate, Sk!Publish, Sk!Subscribe, Sk!Stream, Sk!Leave,
           Sk!Unsubscribe
  <2> QED BY <2>1, <2>2, RecordStep, AuditWriterStep
<1>3. AuditInv => Sk!AuditAccounted
  <2> SUFFICES ASSUME AuditInv  PROVE Sk!AuditAccounted
    OBVIOUS
  <2> DEFINE kept == Sk!ToSet(audit.queue) \cup ({audit.hand} \ {Sk!None})
  <2>1. Sk!ToSet(audit.written) \cup audit.dropped \cup audit.refused \cup kept = Accounted
    BY DEF Accounted, Sk!None
  <2>2. audit.file = "closed" => kept = {}
    <3>1. Sk!ToSet(<<>>) = {}
      <4>1. 1..Len(<<>>) = {}
        BY SMT
      <4> QED BY <4>1 DEF Sk!ToSet
    <3> QED BY <3>1 DEF AuditInv, Sk!None
  <2>3. \A m, n \in 1..Len(audit.written) : m < n => audit.written[m] < audit.written[n]
    BY DEF AuditInv, AuditOrder, Rising
  <2> HIDE DEF kept
  <2> QED BY <2>1, <2>2, <2>3 DEF AuditInv, Sk!AuditAccounted, kept
<1> QED BY <1>1, <1>2, <1>3, PTL DEF Sk!Spec

HubFields == {"subs", "count", "published"}
SubFields == {"pc", "ch", "dropped", "got", "from"}

\* A consumer's record; while it is attached it has received, queued or lost every
\* record published since it attached.
SubOK(r, in, n) ==
    /\ DOMAIN r = SubFields /\ r.ch \in Seq(Nat)
    /\ r.got \in Nat /\ r.dropped \in Nat /\ r.from \in Nat
    /\ in => r.got + Len(r.ch) + r.dropped = n - r.from

HubInv ==
    /\ DOMAIN hub = HubFields /\ hub.subs \subseteq Consumers /\ hub.published \in Nat
    /\ hub.count = Sk!Cardinality(hub.subs)
    /\ DOMAIN sub = Consumers
    /\ \A c \in Consumers : SubOK(sub[c], c \in hub.subs, hub.published)
    /\ \A c \in Consumers : (c \in hub.subs) <=> (sub[c].pc # "off")

\* A consumer's record after a send ...
LEMMA SubSent ==
  ASSUME NEW r, NEW n \in Nat, SubOK(r, TRUE, n)
  PROVE  SubOK([r EXCEPT !.ch = Append(@, n + 1)], TRUE, n + 1)
<1> DEFINE t == [r EXCEPT !.ch = Append(@, n + 1)]
<1>1. /\ DOMAIN r = SubFields /\ r.ch \in Seq(Nat) /\ r.got \in Nat /\ r.dropped \in Nat /\ r.from \in Nat
      /\ r.got + Len(r.ch) + r.dropped = n - r.from
  BY DEF SubOK
<1>2. DOMAIN t = SubFields /\ t.ch = Append(r.ch, n + 1) /\ t.got = r.got /\ t.dropped = r.dropped /\ t.from = r.from
  BY <1>1 DEF SubFields
<1> HIDE DEF t
<1>3. \A s \in Seq(Nat) : /\ Len(s) \in Nat /\ Append(s, n + 1) \in Seq(Nat) /\ Len(Append(s, n + 1)) = Len(s) + 1
  BY SMT
<1>4. r.got + (Len(r.ch) + 1) + r.dropped = (n + 1) - r.from
  <2> DEFINE g == r.got
             l == Len(r.ch)
             k == r.dropped
             f == r.from
  <2>1. g \in Nat /\ l \in Nat /\ k \in Nat /\ f \in Nat /\ g + l + k = n - f
    BY <1>1, <1>3
  <2> HIDE DEF g, l, k, f
  <2>2. g + (l + 1) + k = (n + 1) - f
    BY Z3, <2>1
  <2> QED BY <2>2 DEF g, l, k, f
<1>5. SubOK(t, TRUE, n + 1)
  BY <1>1, <1>2, <1>3, <1>4 DEF SubOK
<1> QED BY <1>5 DEF t

\* ... a lost send ...
LEMMA SubLost ==
  ASSUME NEW r, NEW n \in Nat, SubOK(r, TRUE, n)
  PROVE  SubOK([r EXCEPT !.dropped = @ + 1], TRUE, n + 1)
<1> DEFINE t == [r EXCEPT !.dropped = @ + 1]
<1>1. /\ DOMAIN r = SubFields /\ r.ch \in Seq(Nat) /\ r.got \in Nat /\ r.dropped \in Nat /\ r.from \in Nat
      /\ r.got + Len(r.ch) + r.dropped = n - r.from
  BY DEF SubOK
<1>2. DOMAIN t = SubFields /\ t.ch = r.ch /\ t.got = r.got /\ t.dropped = r.dropped + 1 /\ t.from = r.from
  BY <1>1 DEF SubFields
<1> HIDE DEF t
<1>3. (\A s \in Seq(Nat) : Len(s) \in Nat) /\ \A i \in Nat : i + 1 \in Nat
  BY SMT
<1>4. r.got + Len(r.ch) + (r.dropped + 1) = (n + 1) - r.from
  <2> DEFINE g == r.got
             l == Len(r.ch)
             k == r.dropped
             f == r.from
  <2>1. g \in Nat /\ l \in Nat /\ k \in Nat /\ f \in Nat /\ g + l + k = n - f
    BY <1>1, <1>3
  <2> HIDE DEF g, l, k, f
  <2>2. g + l + (k + 1) = (n + 1) - f
    BY Z3, <2>1
  <2> QED BY <2>2 DEF g, l, k, f
<1>5. SubOK(t, TRUE, n + 1)
  BY <1>1, <1>2, <1>3, <1>4 DEF SubOK
<1> QED BY <1>5 DEF t

\* ... a receive ...
LEMMA SubRead ==
  ASSUME NEW r, NEW in \in BOOLEAN, NEW n \in Nat, SubOK(r, in, n), r.ch # <<>>
  PROVE  SubOK([r EXCEPT !.ch = Tail(@), !.got = @ + 1], in, n)
<1> DEFINE t == [r EXCEPT !.ch = Tail(@), !.got = @ + 1]
<1>1. /\ DOMAIN r = SubFields /\ r.ch \in Seq(Nat) /\ r.got \in Nat /\ r.dropped \in Nat /\ r.from \in Nat
      /\ in => r.got + Len(r.ch) + r.dropped = n - r.from
  BY DEF SubOK
<1>2. DOMAIN t = SubFields /\ t.ch = Tail(r.ch) /\ t.got = r.got + 1 /\ t.dropped = r.dropped /\ t.from = r.from
  BY <1>1 DEF SubFields
<1> HIDE DEF t
<1>3. /\ \A s \in Seq(Nat) : Len(s) \in Nat
      /\ \A s \in Seq(Nat) : s # <<>> => Tail(s) \in Seq(Nat) /\ Len(Tail(s)) = Len(s) - 1
      /\ \A i \in Nat : i + 1 \in Nat
  BY SMTT(30)
<1>4. ASSUME in  PROVE (r.got + 1) + (Len(r.ch) - 1) + r.dropped = n - r.from
  <2> DEFINE g == r.got
             l == Len(r.ch)
             k == r.dropped
             f == r.from
  <2>1. g \in Nat /\ l \in Nat /\ k \in Nat /\ f \in Nat /\ g + l + k = n - f
    BY <1>1, <1>3, <1>4
  <2> HIDE DEF g, l, k, f
  <2>2. (g + 1) + (l - 1) + k = n - f
    BY Z3, <2>1
  <2> QED BY <2>2 DEF g, l, k, f
<1>5. SubOK(t, in, n)
  BY <1>1, <1>2, <1>3, <1>4 DEF SubOK
<1> QED BY <1>5 DEF t

\* ... and a change of its place; a consumer that is not attached owes nothing.
LEMMA SubPlace ==
  ASSUME NEW r, NEW in \in BOOLEAN, NEW n, NEW p, SubOK(r, in, n)
  PROVE  /\ SubOK([r EXCEPT !.pc = p], in, n) /\ SubOK([r EXCEPT !.pc = p], FALSE, n)
         /\ [r EXCEPT !.pc = p].pc = p /\ \A m : SubOK(r, FALSE, m)
<1> DEFINE t == [r EXCEPT !.pc = p]
<1>1. DOMAIN t = SubFields /\ t.ch = r.ch /\ t.got = r.got /\ t.dropped = r.dropped /\ t.from = r.from /\ t.pc = p
  BY DEF SubOK, SubFields
<1> HIDE DEF t
<1>2. SubOK(t, in, n) /\ SubOK(t, FALSE, n) /\ \A m : SubOK(r, FALSE, m)
  BY <1>1 DEF SubOK
<1> QED BY <1>1, <1>2 DEF t

\* Publishing sends the record to every attached consumer.
LEMMA HubPublishStep ==
  ASSUME HubInv, Sk!Publish
  PROVE  HubInv'
<1>1. /\ DOMAIN hub' = HubFields /\ hub'.subs = hub.subs /\ hub'.count = hub.count
      /\ hub'.published = hub.published + 1 /\ DOMAIN sub' = Consumers
  BY DEF HubInv, HubFields, Sk!Publish
<1>2. hub.published + 1 \in Nat
  BY SMTT(30) DEF HubInv
<1>3. ASSUME NEW c \in Consumers
      PROVE  SubOK(sub'[c], c \in hub.subs, hub.published + 1) /\ sub'[c].pc = sub[c].pc
  <2>1. SubOK(sub[c], c \in hub.subs, hub.published) /\ hub.published \in Nat
    BY DEF HubInv
  <2>2. sub'[c] = IF c \notin hub.subs THEN sub[c]
                  ELSE IF Len(sub[c].ch) < Buf THEN [sub[c] EXCEPT !.ch = Append(@, hub.published + 1)]
                  ELSE [sub[c] EXCEPT !.dropped = @ + 1]
    BY DEF Sk!Publish
  <2>3. DOMAIN sub[c] = SubFields
    BY <2>1 DEF SubOK
  <2>4. sub'[c].pc = sub[c].pc
    BY <2>2, <2>3 DEF SubFields
  <2>5. CASE c \notin hub.subs
    <3>1. SubOK(sub[c], FALSE, hub.published)
      BY <2>1, <2>5 DEF SubOK
    <3>2. SubOK(sub[c], FALSE, hub.published + 1)
      BY <3>1 DEF SubOK
    <3>3. sub'[c] = sub[c]
      BY <2>2, <2>5
    <3>4. SubOK(sub'[c], c \in hub.subs, hub.published + 1)
      BY <2>5, <3>2, <3>3 DEF SubOK
    <3> QED BY <2>4, <3>4
  <2>6. CASE c \in hub.subs
    <3>1. SubOK(sub[c], TRUE, hub.published)
      BY <2>1, <2>6 DEF SubOK
    <3>2. /\ SubOK([sub[c] EXCEPT !.ch = Append(@, hub.published + 1)], TRUE, hub.published + 1)
          /\ SubOK([sub[c] EXCEPT !.dropped = @ + 1], TRUE, hub.published + 1)
      BY <2>1, <3>1, SubSent, SubLost
    <3>3. SubOK(sub'[c], TRUE, hub.published + 1)
      BY <2>2, <2>6, <3>2
    <3>4. SubOK(sub'[c], c \in hub.subs, hub.published + 1)
      BY <3>3 DEF SubOK
    <3> QED BY <2>4, <3>4
  <2> QED BY <2>5, <2>6
<1>4. \A c \in Consumers : SubOK(sub[c], c \in hub.subs, hub.published)'
  BY <1>1, <1>3
<1> QED BY <1>1, <1>2, <1>3, <1>4 DEF HubInv

\* A consumer attaches, receives, leaves and detaches.
LEMMA ConsumerStep ==
  ASSUME HubInv, NEW d \in Consumers, Sk!Subscribe(d) \/ Sk!Stream(d) \/ Sk!Leave(d) \/ Sk!Unsubscribe(d)
  PROVE  HubInv'
<1> DEFINE r == sub[d]
           n == hub.published
<1>1. /\ SubOK(r, d \in hub.subs, n) /\ DOMAIN r = SubFields /\ n \in Nat /\ DOMAIN sub = Consumers
      /\ DOMAIN hub = HubFields
  BY DEF HubInv, SubOK
<1>2. ASSUME DOMAIN hub' = HubFields, hub'.published = n, hub'.count = Sk!Cardinality(hub'.subs),
             hub'.subs \subseteq Consumers, \A c \in Consumers \ {d} : (c \in hub'.subs) <=> (c \in hub.subs),
             DOMAIN sub' = Consumers, \A c \in Consumers \ {d} : sub'[c] = sub[c],
             SubOK(sub'[d], d \in hub'.subs, n), (d \in hub'.subs) <=> (sub'[d].pc # "off")
      PROVE  HubInv'
  <2>1. ASSUME NEW c \in Consumers  PROVE SubOK(sub'[c], c \in hub'.subs, n)
    <3>1. CASE c = d
      BY <1>2, <3>1
    <3>2. CASE c # d
      <4>1. SubOK(sub[c], c \in hub.subs, n)
        BY DEF HubInv
      <4>2. sub'[c] = sub[c] /\ ((c \in hub'.subs) <=> (c \in hub.subs))
        BY <1>2, <3>2
      <4> QED BY <4>1, <4>2 DEF SubOK
    <3> QED BY <3>1, <3>2
  <2>2. \A c \in Consumers : (c \in hub'.subs) <=> (sub'[c].pc # "off")
    BY <1>2 DEF HubInv
  <2>3. \A c \in Consumers : SubOK(sub[c], c \in hub.subs, hub.published)'
    BY <1>2, <2>1
  <2> QED BY <1>1, <1>2, <2>2, <2>3 DEF HubInv
<1>3. CASE Sk!Subscribe(d)
  <2>1. /\ DOMAIN hub' = HubFields /\ hub'.published = n /\ hub'.subs = hub.subs \cup {d}
        /\ hub'.count = Sk!Cardinality(hub'.subs)
    BY <1>1, <1>3 DEF Sk!Subscribe, HubFields
  <2>2. /\ DOMAIN sub' = Consumers /\ \A c \in Consumers \ {d} : sub'[c] = sub[c]
        /\ sub'[d] = [pc |-> "recv", ch |-> <<>>, dropped |-> 0, got |-> 0, from |-> n]
    BY <1>1, <1>3 DEF Sk!Subscribe
  <2>3. SubOK(sub'[d], TRUE, n) /\ sub'[d].pc = "recv"
    <3>1. <<>> \in Seq(Nat) /\ 0 \in Nat /\ 0 + Len(<<>>) + 0 = n - n
      <4>1. \A i \in Nat : 0 + Len(<<>>) + 0 = i - i
        BY SMTT(30)
      <4>2. <<>> \in Seq(Nat) /\ 0 \in Nat
        BY SMTT(30)
      <4> QED BY <1>1, <4>1, <4>2
    <3>2. /\ DOMAIN sub'[d] = SubFields /\ sub'[d].ch = <<>> /\ sub'[d].dropped = 0 /\ sub'[d].got = 0
          /\ sub'[d].from = n /\ sub'[d].pc = "recv"
      BY SMTT(30), <2>2 DEF SubFields
    <3> QED BY <1>1, <3>1, <3>2 DEF SubOK
  <2>4. hub'.subs \subseteq Consumers
    BY <2>1 DEF HubInv
  <2>5. \A c \in Consumers \ {d} : (c \in hub'.subs) <=> (c \in hub.subs)
    BY <2>1
  <2>6. SubOK(sub'[d], d \in hub'.subs, n) /\ ((d \in hub'.subs) <=> (sub'[d].pc # "off"))
    BY <2>1, <2>3 DEF SubOK
  <2> HIDE DEF n, r
  <2> QED BY <1>2, <2>1, <2>2, <2>4, <2>5, <2>6
<1>4. CASE Sk!Stream(d)
  <2>1. /\ hub' = hub /\ DOMAIN sub' = Consumers /\ \A c \in Consumers \ {d} : sub'[c] = sub[c]
        /\ r.ch # <<>> /\ sub'[d] = [r EXCEPT !.ch = Tail(@), !.got = @ + 1] /\ r.pc = "recv"
    BY <1>1, <1>4 DEF Sk!Stream, SubFields
  <2>2. SubOK(sub'[d], d \in hub.subs, n) /\ sub'[d].pc = r.pc
    <3>1. SubOK([r EXCEPT !.ch = Tail(@), !.got = @ + 1], d \in hub.subs, n)
      <4> HIDE DEF r, n
      <4>1. (d \in hub.subs) \in BOOLEAN
        BY SMTT(30)
      <4> QED BY <1>1, <2>1, <4>1, SubRead
    <3> QED BY <1>1, <2>1, <3>1 DEF SubFields
  <2>3. /\ hub'.count = Sk!Cardinality(hub'.subs) /\ hub'.subs \subseteq Consumers
        /\ DOMAIN hub' = HubFields /\ hub'.published = n
    BY <2>1 DEF HubInv
  <2>4. (d \in hub'.subs) <=> (sub'[d].pc # "off")
    BY <2>1, <2>2 DEF HubInv
  <2>5. SubOK(sub'[d], d \in hub'.subs, n)
    BY <2>1, <2>2
  <2>6. \A c \in Consumers \ {d} : (c \in hub'.subs) <=> (c \in hub.subs)
    BY <2>1
  <2> HIDE DEF r, n
  <2> QED BY <1>2, <2>1, <2>3, <2>4, <2>5, <2>6
<1>5. CASE Sk!Leave(d)
  <2>1. /\ hub' = hub /\ DOMAIN sub' = Consumers /\ \A c \in Consumers \ {d} : sub'[c] = sub[c]
        /\ sub'[d] = [r EXCEPT !.pc = "leaving"] /\ r.pc = "recv"
    BY <1>1, <1>5 DEF Sk!Leave, SubFields
  <2>2. SubOK(sub'[d], d \in hub.subs, n) /\ sub'[d].pc = "leaving"
    <3>1. SubOK([r EXCEPT !.pc = "leaving"], d \in hub.subs, n)
      <4> HIDE DEF r, n
      <4>1. (d \in hub.subs) \in BOOLEAN
        BY SMT
      <4> QED BY <1>1, <4>1, SubPlace
    <3> QED BY <1>1, <2>1, <3>1 DEF SubFields
  <2>3. /\ hub'.count = Sk!Cardinality(hub'.subs) /\ hub'.subs \subseteq Consumers
        /\ DOMAIN hub' = HubFields /\ hub'.published = n
    BY <2>1 DEF HubInv
  <2>4. (d \in hub'.subs) <=> (sub'[d].pc # "off")
    BY <2>1, <2>2 DEF HubInv
  <2>5. SubOK(sub'[d], d \in hub'.subs, n)
    BY <2>1, <2>2
  <2>6. \A c \in Consumers \ {d} : (c \in hub'.subs) <=> (c \in hub.subs)
    BY <2>1
  <2> HIDE DEF r, n
  <2> QED BY <1>2, <2>1, <2>3, <2>4, <2>5, <2>6
<1>6. CASE Sk!Unsubscribe(d)
  <2>1. /\ DOMAIN hub' = HubFields /\ hub'.published = n /\ hub'.subs = hub.subs \ {d}
        /\ hub'.count = Sk!Cardinality(hub'.subs)
    BY <1>1, <1>6 DEF Sk!Unsubscribe, Sk!CountWithout, HubFields
  <2>2. /\ DOMAIN sub' = Consumers /\ \A c \in Consumers \ {d} : sub'[c] = sub[c]
        /\ sub'[d] = [r EXCEPT !.pc = "off"]
    BY <1>1, <1>6 DEF Sk!Unsubscribe, SubFields
  <2>3. SubOK(sub'[d], FALSE, n) /\ sub'[d].pc = "off"
    <3>1. SubOK([r EXCEPT !.pc = "off"], FALSE, n)
      <4> HIDE DEF r, n
      <4>1. (d \in hub.subs) \in BOOLEAN
        BY SMT
      <4> QED BY <1>1, <4>1, SubPlace
    <3> QED BY <1>1, <2>2, <3>1 DEF SubFields
  <2>4. hub'.subs \subseteq Consumers
    BY <2>1 DEF HubInv
  <2>5. \A c \in Consumers \ {d} : (c \in hub'.subs) <=> (c \in hub.subs)
    BY <2>1
  <2>6. SubOK(sub'[d], d \in hub'.subs, n) /\ ((d \in hub'.subs) <=> (sub'[d].pc # "off"))
    BY <2>1, <2>3 DEF SubOK
  <2> HIDE DEF n, r
  <2> QED BY <1>2, <2>1, <2>2, <2>4, <2>5, <2>6
<1> QED BY <1>3, <1>4, <1>5, <1>6

\* The count that gates the hot path is the number of attached consumers, and each
\* of them has received, queued or counted as lost every record published since it
\* attached (AccessHub.subscribe, publish, unsubscribe; AccessSocket.serveConn).
THEOREM HubRecords == Sk!Spec => []Sk!HubAccounted
<1>1. Sk!Init => HubInv
  <2> SUFFICES ASSUME Sk!Init  PROVE HubInv
    OBVIOUS
  <2>1. /\ DOMAIN hub = HubFields /\ hub.subs = {} /\ hub.count = 0 /\ hub.published = 0 /\ DOMAIN sub = Consumers
        /\ \A c \in Consumers : /\ DOMAIN sub[c] = SubFields /\ sub[c].ch = <<>> /\ sub[c].dropped = 0
                                /\ sub[c].got = 0 /\ sub[c].from = 0 /\ sub[c].pc = "off"
    BY DEF Sk!Init, HubFields, SubFields
  <2>2. <<>> \in Seq(Nat) /\ 0 \in Nat
    BY SMTT(30)
  <2>3. Sk!Cardinality({}) = 0
    BY FS_EmptySet DEF Sk!Cardinality, Cardinality
  <2> QED BY <2>1, <2>2, <2>3 DEF HubInv, SubOK
<1>2. HubInv /\ [Sk!Next]_Sk!vars => HubInv'
  <2>1. ASSUME HubInv, hub' = hub, sub' = sub  PROVE HubInv'
    BY <2>1 DEF HubInv, SubOK, Sk!Cardinality
  <2>2. [Sk!Next]_Sk!vars =>
          Sk!Publish \/ (hub' = hub /\ sub' = sub)
          \/ \E c \in Consumers : Sk!Subscribe(c) \/ Sk!Stream(c) \/ Sk!Leave(c) \/ Sk!Unsubscribe(c)
    BY DEF Sk!Next, Sk!AuditNext, Sk!HubNext, Sk!vars, Sk!hvars, Sk!Gate, Sk!Record, Sk!Receive, Sk!Write,
           Sk!CloseAudit, Sk!CloseFile
  <2> QED BY <2>1, <2>2, HubPublishStep, ConsumerStep
<1>3. HubInv => Sk!HubAccounted
  BY DEF HubInv, SubOK, Sk!HubAccounted
<1> QED BY <1>1, <1>2, <1>3, PTL DEF Sk!Spec
=============================================================================
