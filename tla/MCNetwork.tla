----------------------------- MODULE MCNetwork -----------------------------
(***************************************************************************)
(* The server's dealings with its peers and its resources: the pool of     *)
(* upstream backends, the idle-read sweeper, the audit log and the access  *)
(* hub, the rate limiter, the client's address through proxies, the TLS    *)
(* certificates, the geo database and the edge deployment client.  They    *)
(* share no state: a behaviour is one of a single part, and the variables  *)
(* of the others are off.                                                  *)
(*                                                                         *)
(* In the pool, requests and the resolver meet only where reconcile writes *)
(* byID: every other step of the resolver touches variables no request     *)
(* reads.  So its own races are explored while no request has come, and    *)
(* once one has, requests move while the resolver is at rest and it runs   *)
(* undisturbed rounds.  Health verdicts likewise fall before the requests, *)
(* which see backends become ineligible and eligible again under them      *)
(* through ejection.                                                       *)
(***************************************************************************)
EXTENDS Upstream, TLC

CONSTANTS ida, idb, ta, tb
MCTargets == <<ta, tb>>
MCTargetOf == (ida :> ta) @@ (idb :> tb)
MCRing == <<idb, ida>>

\* Requests arrive in one order, and only the first may carry a body; the ring,
\* which picks one of the backends round robin may pick, runs on a full pool that
\* does not change.
First == CHOOSE f \in Fetches : TRUE
PoolInit ==
    /\ Init /\ \A f \in Fetches \ {First} : ~req[f].body
    /\ policy = "sticky" => ~req[First].body /\ Present = Ids /\ endpoints = Ids
InTurn(f) == f = First \/ req[First].pc # "idle"
Quiet == \A f \in Fetches : req[f].pc = "idle"
AtRest == ~round.on /\ ~notify /\ ~poke
PoolNext ==
    \/ AtRest /\ \E f \in Fetches : (InTurn(f) /\ Arrive(f)) \/ FetchStep(f)
    \/ policy # "sticky" /\ (Quiet \/ AtRest) /\ \E id \in Ids : EndpointChange(id)
    \/ SignalPoke \/ PokeRound \/ ResolveTarget \/ Reconcile
    \/ (Quiet \/ round.failed # {}) /\ TickRound
    \/ AtRest /\ \E o \in Objects : EjectionEnds(o) \/ (Quiet /\ Probe(o))

-----------------------------------------------------------------------------
VARIABLE part

VARIABLES now, reader, active, counts, interval, signalling, wake, loop
Sw == INSTANCE IdleSweeper
    WITH Readers <- {"slow", "tight"}, Timeout <- [r \in {"slow", "tight"} |-> IF r = "slow" THEN 6 ELSE 4],
         GlobalIdle <- 6, MaxTime <- 8

VARIABLES audit, hub, sub, gated
Sk == INSTANCE Sinks
    WITH Buf <- 1, MaxRecords <- 3, Consumers <- {"n1", "n2"}
\* The log and the hub share nothing: each runs while the other has not begun.
SinksNext ==
    /\ Sk!Next
    /\ audit' # audit => hub.published = 0 /\ gated = 0 /\ \A c \in {"n1", "n2"} : sub[c].pc = "off"
    /\ <<hub, sub, gated>>' # <<hub, sub, gated>> => audit.next = 1 /\ ~audit.closed

VARIABLES instant, buckets, ask, askedOf, ledger, hint, swept
Rt == INSTANCE RateLimit
    WITH now <- instant, req <- ask, asked <- askedOf,
         Keys <- {"k1", "k2", "k3"}, Requests <- {"q1", "q2"}, Token <- 2, Rate <- 1, Burst <- 2,
         IdleTTL <- 2, MaxBuckets <- 2, MaxTime <- 4, MaxRequests <- 3

VARIABLES route, path, wire, conn, remote, client
\* Direct, through proxies trusted and not, and through balancers that speak the
\* PROXY protocol to a listener that expects it, trusts it, or neither.
Hop(kind, ip) == [kind |-> kind, ip |-> ip]
AddressRoutes ==
    {<<Hop("cadish", "n1")>>, <<Hop("proxy", "p"), Hop("cadish", "n1")>>, <<Hop("proxy", "u"), Hop("cadish", "n1")>>,
     <<Hop("balancer", "lb"), Hop("cadish_pp", "n1"), Hop("cadish", "n2")>>,
     <<Hop("balancer", "lx"), Hop("cadish_pp", "n1")>>,
     <<Hop("balancer", "lb"), Hop("proxy", "p"), Hop("cadish", "n1")>>,
     <<Hop("proxy", "p"), Hop("balancer", "lb"), Hop("cadish_pp", "n1"), Hop("cadish", "n2")>>,
     <<Hop("proxy", "u"), Hop("cadish", "n1"), Hop("cadish", "n2")>>,
     <<Hop("proxy", "u"), Hop("proxy", "p"), Hop("cadish", "n1"), Hop("cadish", "n2")>>,
     <<Hop("cadish_pp", "n1")>>}
Entry(ip) == [addr |-> <<ip, FALSE>>, port |-> FALSE]
AddressClaims == {<<>>, <<<<Entry("d")>>>>, <<<<Entry("d"), Entry("")>>, <<Entry("p")>>>>}
AddressBadHeaders ==
    {[form |-> f, src |-> <<"", FALSE>>] : f \in {"local", "bad", "absent"}}
Ca == INSTANCE ClientAddress
    WITH Routes <- AddressRoutes, Clients <- {"c"}, Claims <- AddressClaims, Trusted <- {"p", "n1"},
         Balancers <- {"lb"}, BadHeaders <- AddressBadHeaders

VARIABLES acme, redirectGated, state, dynamic, gate, want, storing, issued, disk, tokens, orders, h, ticks,
          changed
\* A certificate from each of the three sources, and a wildcard before an exact
\* name among the dynamic ones.
TLSStates == {[acme |-> {"a"}, static |-> <<>>], [acme |-> {}, static |-> <<[hosts |-> {"b"}, id |-> 1]>>]}
TLSDynamicSets ==
    {<<>>, <<[hosts |-> {"a"}, id |-> 2]>>, <<[hosts |-> {"*"}, id |-> 3], [hosts |-> {"b"}, id |-> 4]>>}
\* ACME, the gate or both; the cache may hold a certificate for "a" from before.
Tl == INSTANCE TLSManager
    WITH gated <- redirectGated,
         Names <- {"a", "b"}, States <- TLSStates, DynamicSets <- TLSDynamicSets, Forced <- {"b"}, Burst <- 1,
         Handshakes <- {1, 2}, MaxTicks <- 1, MaxChanges <- 2
\* The handshakes are alike: they begin in this order.
TLSNext == Tl!Next /\ (h[1].pc = "idle" => h'[2].pc = "idle")

VARIABLES geoReader, mapped, edition, holders, pc, held, answer, fault
Gd == INSTANCE GeoDB
    WITH reader <- geoReader,
         Lookups <- {"l1", "l2"}, Reloaders <- {"r1", "r2"}, Closers <- {"c"}, Headers <- {"FR", "", "junk"},
         Countries <- <<"US", "", "ES">>

VARIABLES routes, namespaces, bound, cli, foreign, calls
Ed == INSTANCE EdgeDeploy
    WITH Operators <- {"a", "b"}, Commands <- [o \in {"a", "b"} |-> IF o = "a" THEN {"enable", "deploy"} ELSE {"enable", "disable"}],
         Worker <- "w", Routes <- <<"r1", "r2">>, Projected <- <<"x">>, Excludable <- {"x", "y"}, Title <- "kv", PerPage <- 1,
         Foreign <- {[pattern |-> "r2", script |-> "other"], [pattern |-> "n", script |-> ""],
                     [pattern |-> "y", script |-> ""]},
         MaxCalls <- 4, MaxNamespaces <- 3

\* The health state machine on its own, for every clamping of window and threshold.
VARIABLES setting, outcomes, fsm
HealthInit ==
    /\ setting \in [window : 0..3, threshold : 0..4, startUp : BOOLEAN]
    /\ outcomes = <<>> /\ fsm = NewFSM(setting.window, setting.threshold, setting.startUp)
HealthNext ==
    /\ Len(outcomes) < 6
    /\ \E success \in BOOLEAN : outcomes' = Append(outcomes, success) /\ fsm' = Record(fsm, success)
    /\ UNCHANGED setting

upstreamVars == <<byID, made, backend, inflight, policy, req, endpoints, notify, poke, round, fails>>
sweeperVars == <<now, reader, active, counts, interval, signalling, wake, loop>>
sinksVars == <<audit, hub, sub, gated>>
limiterVars == <<instant, buckets, ask, askedOf, ledger, hint, swept>>
addressVars == <<route, path, wire, conn, remote, client>>
tlsVars == <<acme, redirectGated, state, dynamic, gate, want, storing, issued, disk, tokens, orders, h, ticks,
             changed>>
geoVars == <<geoReader, mapped, edition, holders, pc, held, answer, fault>>
edgeVars == <<routes, namespaces, bound, cli, foreign, calls>>
healthVars == <<setting, outcomes, fsm>>
allVars == <<part, upstreamVars, sweeperVars, sinksVars, limiterVars, addressVars, tlsVars, geoVars, edgeVars,
             healthVars>>

\* The variables of a part that does not run; a pool is empty.
upstreamOff ==
    /\ byID = [id \in Ids |-> 0] /\ made = byID /\ backend = [o \in Objects |-> FreshBackend]
    /\ inflight = 0 /\ policy = 0 /\ req = [f \in Fetches |-> Over] /\ endpoints = {} /\ notify = FALSE
    /\ poke = FALSE /\ fails = 0 /\ round = [on |-> FALSE, next |-> 1, desired |-> {}, failed |-> {}]
sweeperOff ==
    /\ now = 0 /\ reader = 0 /\ active = 0 /\ counts = 0 /\ interval = 0 /\ signalling = 0 /\ wake = 0
    /\ loop = 0
sinksOff ==
    /\ audit = 0 /\ hub = 0 /\ sub = 0 /\ gated = 0
limiterOff ==
    /\ instant = 0 /\ buckets = 0 /\ ask = 0 /\ askedOf = 0 /\ ledger = 0 /\ hint = 0 /\ swept = 0
addressOff ==
    /\ route = 0 /\ path = 0 /\ wire = 0 /\ conn = 0 /\ remote = 0 /\ client = 0
tlsOff ==
    /\ acme = 0 /\ redirectGated = 0 /\ state = 0 /\ dynamic = 0 /\ gate = 0 /\ want = 0 /\ storing = 0
    /\ issued = 0 /\ disk = 0 /\ tokens = 0 /\ orders = 0 /\ h = 0 /\ ticks = 0 /\ changed = 0
geoOff ==
    /\ geoReader = 0 /\ mapped = 0 /\ edition = 0 /\ holders = 0 /\ pc = 0 /\ held = 0 /\ answer = 0
    /\ fault = 0
edgeOff ==
    /\ routes = 0 /\ namespaces = 0 /\ bound = 0 /\ cli = 0 /\ foreign = 0 /\ calls = 0
healthOff ==
    /\ setting = 0 /\ outcomes = 0 /\ fsm = 0

MCInit ==
    \/ /\ part = "upstream" /\ PoolInit
       /\ sweeperOff /\ sinksOff /\ limiterOff /\ addressOff /\ tlsOff /\ geoOff /\ edgeOff /\ healthOff
    \/ /\ part = "sweeper" /\ Sw!Init
       /\ upstreamOff /\ sinksOff /\ limiterOff /\ addressOff /\ tlsOff /\ geoOff /\ edgeOff /\ healthOff
    \/ /\ part = "sinks" /\ Sk!Init
       /\ upstreamOff /\ sweeperOff /\ limiterOff /\ addressOff /\ tlsOff /\ geoOff /\ edgeOff
       /\ healthOff
    \/ /\ part = "limiter" /\ Rt!Init
       /\ upstreamOff /\ sweeperOff /\ sinksOff /\ addressOff /\ tlsOff /\ geoOff /\ edgeOff /\ healthOff
    \/ /\ part = "address" /\ Ca!Init
       /\ upstreamOff /\ sweeperOff /\ sinksOff /\ limiterOff /\ tlsOff /\ geoOff /\ edgeOff /\ healthOff
    \/ /\ part = "tls" /\ Tl!Init /\ (acme \/ redirectGated) /\ disk \subseteq {"a"}
       /\ upstreamOff /\ sweeperOff /\ sinksOff /\ limiterOff /\ addressOff /\ geoOff /\ edgeOff
       /\ healthOff
    \/ /\ part = "geo" /\ Gd!Init
       /\ upstreamOff /\ sweeperOff /\ sinksOff /\ limiterOff /\ addressOff /\ tlsOff /\ edgeOff
       /\ healthOff
    \/ /\ part = "edge" /\ Ed!Init
       /\ upstreamOff /\ sweeperOff /\ sinksOff /\ limiterOff /\ addressOff /\ tlsOff /\ geoOff
       /\ healthOff
    \/ /\ part = "health" /\ HealthInit
       /\ upstreamOff /\ sweeperOff /\ sinksOff /\ limiterOff /\ addressOff /\ tlsOff /\ geoOff
       /\ edgeOff

MCNext ==
    \/ /\ part = "upstream" /\ PoolNext
       /\ UNCHANGED <<part, sweeperVars, sinksVars, limiterVars, addressVars, tlsVars, geoVars, edgeVars,
                     healthVars>>
    \/ /\ part = "sweeper" /\ Sw!Next
       /\ UNCHANGED <<part, upstreamVars, sinksVars, limiterVars, addressVars, tlsVars, geoVars, edgeVars,
                     healthVars>>
    \/ /\ part = "sinks" /\ SinksNext
       /\ UNCHANGED <<part, upstreamVars, sweeperVars, limiterVars, addressVars, tlsVars, geoVars, edgeVars,
                     healthVars>>
    \/ /\ part = "limiter" /\ Rt!Next
       /\ UNCHANGED <<part, upstreamVars, sweeperVars, sinksVars, addressVars, tlsVars, geoVars, edgeVars,
                     healthVars>>
    \/ /\ part = "address" /\ Ca!Next
       /\ UNCHANGED <<part, upstreamVars, sweeperVars, sinksVars, limiterVars, tlsVars, geoVars, edgeVars,
                     healthVars>>
    \/ /\ part = "tls" /\ TLSNext
       /\ UNCHANGED <<part, upstreamVars, sweeperVars, sinksVars, limiterVars, addressVars, geoVars,
                     edgeVars, healthVars>>
    \/ /\ part = "geo" /\ Gd!Next
       /\ UNCHANGED <<part, upstreamVars, sweeperVars, sinksVars, limiterVars, addressVars, tlsVars,
                     edgeVars, healthVars>>
    \/ /\ part = "edge" /\ Ed!Next
       /\ UNCHANGED <<part, upstreamVars, sweeperVars, sinksVars, limiterVars, addressVars, tlsVars,
                     geoVars, healthVars>>
    \/ /\ part = "health" /\ HealthNext
       /\ UNCHANGED <<part, upstreamVars, sweeperVars, sinksVars, limiterVars, addressVars, tlsVars,
                     geoVars, edgeVars>>

MCSpec == MCInit /\ [][MCNext]_allVars

-----------------------------------------------------------------------------
(* Properties.                                                                *)

\* What is limited is limited exactly: a bucket admits no more than its burst
\* and refill and the retry hint is honoured, the sweeper's next scan comes in
\* time for the tightest reader, ACME orders stay within their budget, and the
\* health verdict is that of the last window probes (ratelimit Allow,
\* idleSweeper.run, tlsacme's issuance limiter, healthFSM.record).
LimitsKept ==
    /\ part = "limiter" => Rt!LimitHonest
    /\ part = "sweeper" => Sw!ScanInTime
    /\ part = "tls" => Tl!OrdersBudgeted
    /\ part = "health" =>
         VerdictOfWindow(setting.window, setting.threshold, setting.startUp, outcomes, fsm)

\* The address a site acts on was attested by every trusted hop between it and
\* the client (geo ClientIP, proxyproto, buildOriginHeader).
AddressAttested == part = "address" => Ca!AddressAttested

\* A handshake sees each published set of certificates whole, and plain HTTP is
\* redirected only for names that have a certificate (tlsacme Manager).
CertificatesWhole == part = "tls" => Tl!SwapsAreWhole /\ Tl!RedirectHasTLS

\* What is handed over is accounted for and what is in use stays: every audit
\* record and access event is written, counted as dropped or still queued, and
\* no lookup reads a geo database that a reload or Close has unmapped (auditLog,
\* accessHub, maxmind.go).
HandedOverHeld ==
    /\ part = "sinks" => Sk!AuditAccounted /\ Sk!HubAccounted
    /\ part = "geo" => Gd!MappedWhileRead

\* Whatever calls were lost and however often commands were run again, no route
\* of another party is taken away, except one without a worker on a pattern the site may
\* exclude, and the namespace is created once (edgedeploy Deploy, Enable, Disable).
EdgeKept == part = "edge" => Ed!OthersKept /\ Ed!OneNamespace

\* A command that reports success undisturbed has left exactly what it says: no
\* route of the worker after disable, every route and exclusion after enable.
EdgeAsReported == [][part = "edge" => Ed!Reported]_allVars
=============================================================================
