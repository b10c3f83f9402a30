----------------------------- MODULE MCControl -----------------------------
(***************************************************************************)
(* The long-running control of the server, for liveness: the nodes of a    *)
(* cluster, the reload of a configuration, the Kubernetes controllers, the *)
(* upgraded tunnels and the chain of origins.  They do not share state, so *)
(* each behaviour is one of the part it starts in and leaves the others at *)
(* their initial states.                                                   *)
(***************************************************************************)
EXTENDS Reload

VARIABLE part

VARIABLES mode, fallback, view, flaps, task, flight, cached, calm
Cl == INSTANCE Cluster
    WITH Nodes <- {"a", "b"}, RingOrder <- <<"a", "b">>, MaxClients <- 2, MaxTasks <- 4, MaxFlaps <- 1

VARIABLES kind, cluster, cache, notify, changes, timer, pc, snap, seen, base, lastGood, lastErr,
          warm, routed, certs, leader, status, unsent, changed, faults
Ct == INSTANCE Controller
    WITH live <- routed, Sites <- {"s", "t"}, Broken <- {"t"}, MaxChanges <- 2, MaxFaults <- 1

VARIABLES t, gauge
Tn == INSTANCE Tunnel WITH Tunnels <- {"u1", "u2"}, MaxBytes <- 2

VARIABLES i, hasBody, consumed, chainErr, lastNeg, bodies, result
Ch == INSTANCE Chain WITH lastErr <- chainErr, live <- bodies, N <- 3, FallStatuses <- {404, 500, 503}

clusterVars == <<mode, fallback, view, flaps, task, flight, cached, calm>>
controllerVars == <<kind, cluster, cache, notify, changes, timer, pc, snap, seen, base, lastGood, lastErr,
                    warm, routed, certs, leader, status, unsent, changed, faults>>
tunnelVars == <<t, gauge>>
chainVars == <<i, hasBody, consumed, chainErr, lastNeg, bodies, result>>
allVars == <<part, clusterVars, vars, controllerVars, tunnelVars, chainVars>>

\* A part that does not run rests in one of its initial states.
Resting ==
    /\ part # "cluster" => mode = "owner" /\ fallback = "degraded"
    /\ part # "reload" => cfg[0].recipe = 1 /\ cfg[0].print = 1
    /\ part # "controller" => kind = "ingress" /\ cluster.sites = {}
    /\ part # "chain" => ~hasBody

MCInit ==
    /\ part \in {"cluster", "reload", "controller", "tunnel", "chain"}
    /\ Init /\ Cl!Init /\ Ct!Init /\ Tn!Init /\ Ch!Init
    /\ Resting

Cluster(A) == part = "cluster" /\ A /\ UNCHANGED <<part, vars, controllerVars, tunnelVars, chainVars>>
Reloading(A) == part = "reload" /\ A /\ UNCHANGED <<part, clusterVars, controllerVars, tunnelVars, chainVars>>
Controller(A) == part = "controller" /\ A /\ UNCHANGED <<part, clusterVars, vars, tunnelVars, chainVars>>
Tunnel(A) == part = "tunnel" /\ A /\ UNCHANGED <<part, clusterVars, vars, controllerVars, chainVars>>
Chain(A) == part = "chain" /\ A /\ UNCHANGED <<part, clusterVars, vars, controllerVars, tunnelVars>>

\* Bound: requests run up to the first reload, the second meets none.
RequestsFirst == gen' < 2 \/ \A r \in Requests : req'[r] = Idle

MCNext ==
    \/ Cluster(Cl!Next)
    \/ Reloading(Next /\ RequestsFirst)
    \/ Controller(Ct!Next)
    \/ Tunnel(Tn!Next)
    \/ Chain(Ch!Next)

\* The fairness of each part, as its own FairSpec has it.
Fairness ==
    /\ \A x \in Cl!Tasks : WF_allVars(Cluster(Cl!Step(x) /\ ~Cl!Copying(x))) /\ WF_allVars(Cluster(Cl!PeerFailed(x)))
    /\ WF_allVars(Reloading(ApplySteps))
    /\ \A p \in Gens : WF_allVars(Reloading(DrainPool(p)))
    /\ WF_allVars(Reloading(\E x \in teardown : GraceOver(x)))
    /\ WF_allVars(Controller(Ct!Deliver)) /\ WF_allVars(Controller(Ct!Notify)) /\ WF_allVars(Controller(Ct!StatusTick))
    /\ WF_allVars(Controller(Ct!Loop))
    /\ \A x \in {"u1", "u2"} : /\ WF_allVars(Tunnel(Tn!TimerFires(x)))
                              /\ \A c \in Tn!Closers : WF_allVars(Tunnel(Tn!Close(x, c)))

MCSpec == MCInit /\ [][MCNext]_allVars /\ Fairness

-----------------------------------------------------------------------------
\* Whatever the nodes believe of each other, a request hops at most once and
\* never to itself, and without faults only the owner stores (clusterRoute,
\* PeerOrigin).
HopsOnceToOwner == Cl!ForwardedOnce /\ Cl!OwnerOnlyStores

\* Two nodes whose flights wait for each other do not wait for ever: every
\* client of the cluster is answered, if clients read their answers (ResponseHeaderTimeout).
EveryClientAnswered == Cl!EveryClientAnswered

\* Once the cluster is left alone the server routes by it or reports the error
\* that prevents it, serves the Secret's certificate, and a replica that stays
\* leader has published every status but those a gateway's last writeStatus could not
\* send, which nothing retries (the controllers' reconcile loops).
ControllersConverge == part = "controller" => Ct!RoutingConverges /\ Ct!StatusPublished

\* The gauge of tunnels counts those not torn down, and every established tunnel
\* is torn down even when neither peer closes (upgrade.go).
TunnelsEnd == []Tn!GaugeExact /\ Tn!TunnelsEnd

\* Of the bodies a chain of origins opened, only the one it returns stays open, the
\* request's body is read by one origin at most, and a negative response held is not
\* lost to a later failure (chain.go Fetch).
ChainBodiesOwned == Ch!BodiesOwned /\ Ch!BodyReadOnce /\ Ch!NegativeSurvives
=============================================================================
