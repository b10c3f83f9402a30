------------------------------- MODULE Gateway -------------------------------
(***************************************************************************)
(* The Gateway API translator (internal/gateway): which listeners are      *)
(* programmed, which namespace owns a host, which HTTPRoutes serve it, and *)
(* how the rendered site answers a request.                                *)
(*                                                                         *)
(* Hosts and paths are written as in module Ingress; a namespace, service  *)
(* or port is the sequence of its words.  A Gateway is a record            *)
(*   [id, ns, age, owned, listeners]                                       *)
(* with listeners [name, proto, host, from, kinds, cert]; a route          *)
(*   [id, ns, age, parents, hosts, rules]                                  *)
(* with parents [gw, section], rules [matches, backends], matches [path,   *)
(* type, conds] and backends [ns, svc, port, weight].  The conditions of a *)
(* match beyond its path are members of Methods, Headers and Queries, and  *)
(* a request is its path and the set of conditions it meets.               *)
(***************************************************************************)
EXTENDS Integers, FiniteSets, SequencesExt

CONSTANTS
    Methods, Headers, Queries,
    Grants,                 \* ReferenceGrants: [ns, kind, name, fromNs, fromKind]
    ValidHost(_),
    Usable(_, _),           \* tlsSecretGate.usable
    Covers(_, _, _),        \* tlsSecretGate.covers
    ServiceExists(_, _)

NoHost == <<>>
NoSecret == [ns |-> <<>>, name |-> ""]

First(S) == CHOOSE i \in S : \A j \in S : i <= j
Put(f, k, v) == [x \in DOMAIN f \union {k} |-> IF x = k THEN v ELSE f[x]]

OldestFirst(S) ==
    SetToSortSeq(S, LAMBDA a, b : a.age < b.age \/ (a.age = b.age /\ a.id < b.id))

IsWildcard(h) == h # NoHost /\ Head(h) = "*"

\* wildcardCovers: any depth of labels below the wildcard's suffix.
WildcardCovers(w, h) ==
    LET n == Len(w) - 1
    IN  IsWildcard(w) /\ Len(h) > n /\ SubSeq(h, Len(h) - n + 1, Len(h)) = Tail(w)

------------------------------------------------------------------------------
(* grants.go *)

Allows(toNs, toKind, toName, fromNs, fromKind) ==
    \E g \in Grants : /\ g.ns = toNs /\ g.kind = toKind /\ g.name \in {"", toName}
                      /\ g.fromNs = fromNs /\ g.fromKind = fromKind

------------------------------------------------------------------------------
(* translate.go: listeners *)

\* oldestCoveringWildcard, by its place in the claim order; 0 when there is none.
CoveringWildcard(order, host) ==
    LET W == {i \in DOMAIN order : WildcardCovers(order[i], host)}
    IN  IF W = {} THEN 0 ELSE First(W)

\* Mutant: the exact hostname is checked, the wildcards above it are not.
NoWildcardGuard(acc, gw, host) == host \in DOMAIN acc.owner => acc.owner[host] = gw.ns

\* The host is not another namespace's, by name or under an older wildcard of another.
MayTerminate(acc, gw, host) ==
    LET w == CoveringWildcard(acc.order, host)
    IN  /\ host \in DOMAIN acc.owner => acc.owner[host] = gw.ns
        /\ ~IsWildcard(host) /\ w # 0 => acc.owner[acc.order[w]] = gw.ns

\* programHTTPSListener
Terminates(acc, gw, l) ==
    /\ l.host # NoHost
    /\ l.cert # NoSecret
    /\ MayTerminate(acc, gw, l.host)
    /\ l.cert.ns # gw.ns => Allows(l.cert.ns, "Secret", l.cert.name, gw.ns, "Gateway")
    /\ Usable(l.cert.ns, l.cert.name)
    /\ Covers(l.cert.ns, l.cert.name, l.host)

\* claimListenerHost: the first Gateway to program the literal host keeps it.
Claim(acc, host, ns) ==
    IF host = NoHost \/ host \in DOMAIN acc.owner THEN acc
    ELSE [acc EXCEPT !.owner = Put(@, host, ns), !.order = Append(@, host)]

AddListener(acc, gw, l) ==
    LET programmed == \/ l.proto = "HTTP"
                      \/ l.proto = "HTTPS" /\ Terminates(acc, gw, l)
        kept == [gw |-> gw.id, ns |-> gw.ns, section |-> l.name, host |-> l.host,
                 from |-> l.from, kinds |-> l.kinds]
        cert == [ns |-> l.cert.ns, name |-> l.cert.name, host |-> l.host, by |-> gw.ns]
        next == [Claim(acc, l.host, gw.ns) EXCEPT !.listeners = Append(@, kept)]
    IN  IF (l.host # NoHost /\ ~ValidHost(l.host)) \/ ~programmed THEN acc
        ELSE IF l.proto = "HTTP" THEN next
        ELSE [next EXCEPT !.certs = @ \union {cert}]

Listeners(gateways) ==
    LET gws == SelectSeq(OldestFirst(gateways), LAMBDA g : g.owned)
        add(acc, gw) == FoldLeft(LAMBDA a, l : AddListener(a, gw, l), acc, gw.listeners)
    IN  FoldLeft(add, [owner |-> <<>>, order |-> <<>>, listeners |-> <<>>, certs |-> {}], gws)

------------------------------------------------------------------------------
(* attach.go *)

\* admitsRoute: the kinds the listener allows (none listed: HTTPRoute), then From.
AdmitsRoute(l, routeNs) ==
    /\ l.kinds = {} \/ "HTTPRoute" \in l.kinds
    /\ l.from = "All" \/ (l.from # "None" /\ routeNs = l.ns)

Attached(L, rt) ==
    {i \in DOMAIN L.listeners :
        /\ \E p \in Range(rt.parents) : /\ p.gw = L.listeners[i].gw
                                        /\ p.section \in {"", L.listeners[i].section}
        /\ AdmitsRoute(L.listeners[i], rt.ns)}

\* intersectHost: the more specific of two names, one of which covers the other.
IntersectHost(r, l) ==
    IF r = l THEN {r}
    ELSE IF IsWildcard(l) /\ ~IsWildcard(r) THEN IF WildcardCovers(l, r) THEN {r} ELSE {}
    ELSE IF IsWildcard(r) /\ ~IsWildcard(l) THEN IF WildcardCovers(r, l) THEN {l} ELSE {}
    ELSE IF IsWildcard(r) /\ IsWildcard(l)
         THEN IF WildcardCovers(l, Tail(r)) THEN {r}
              ELSE IF WildcardCovers(r, Tail(l)) THEN {l} ELSE {}
    ELSE {}

\* effectiveHosts: a listener without a hostname admits every route host as it is.
EffectiveHosts(L, rt) ==
    LET lhosts == {L.listeners[i].host : i \in Attached(L, rt)}
        rhosts == {h \in Range(rt.hosts) : h # NoHost /\ ValidHost(h)}
    IN  IF rhosts = {} THEN lhosts \ {NoHost}
        ELSE IF NoHost \in lhosts THEN rhosts
        ELSE UNION {IntersectHost(r, l) : r \in rhosts, l \in lhosts}

\* routingHostOwner: listener hostnames first; then route hosts, oldest route first, unless
\* a wildcard listener covers them; then concrete listener hosts below an older wildcard.
RoutingHostOwner(L, routes) ==
    LET derived(owner, rt) ==
            [h \in DOMAIN owner \union EffectiveHosts(L, rt) |->
                IF h \in DOMAIN owner THEN owner[h]
                ELSE IF CoveringWildcard(L.order, h) # 0
                     THEN L.owner[L.order[CoveringWildcard(L.order, h)]]
                     ELSE rt.ns]
        claimed == FoldLeft(derived, L.owner, OldestFirst(routes))
        rank(h) == First({i \in DOMAIN L.order : L.order[i] = h})
    IN  [h \in DOMAIN claimed |->
            LET w == CoveringWildcard(L.order, h)
            IN  IF /\ ~IsWildcard(h) /\ h \in DOMAIN L.owner
                   /\ w # 0 /\ w < rank(h)
                THEN L.owner[L.order[w]] ELSE claimed[h]]

------------------------------------------------------------------------------
(* matches.go *)

RECURSIVE TrimSlashes(_)
TrimSlashes(p) ==
    IF p # <<>> /\ Last(p) = "" THEN TrimSlashes(Front(p)) ELSE p

\* normalizePath: trailing slashes go, whatever the match type.
NormalizePath(p) == IF TrimSlashes(p) = <<>> THEN <<"">> ELSE TrimSlashes(p)

\* ruleMatches: no match at all is the "/" prefix; a regular-expression path is dropped.
RuleMatches(rule) ==
    IF rule.matches = <<>> THEN <<[path |-> <<"">>, type |-> "Prefix", conds |-> {}]>>
    ELSE LET kept == SelectSeq(rule.matches, LAMBDA m : m.type \in {"Exact", "Prefix"})
         IN  [i \in DOMAIN kept |-> [kept[i] EXCEPT !.path = NormalizePath(@)]]

\* resolveBackends: the references that are permitted, complete and exist.
ResolveBackends(rt, rule) ==
    {b \in Range(rule.backends) :
        /\ b.svc # <<>> /\ b.port # <<>>
        /\ b.ns # rt.ns => Allows(b.ns, "Service", b.svc, rt.ns, "HTTPRoute")
        /\ ServiceExists(b.ns, b.svc)}

\* The rules of the routes that may serve the host, oldest route first.
RulesFor(L, routes, host) ==
    LET owner == RoutingHostOwner(L, routes)
        mine == SelectSeq(OldestFirst(routes),
                          LAMBDA rt : host \in EffectiveHosts(L, rt) /\ owner[host] = rt.ns)
        rules(rt) == SelectSeq([i \in DOMAIN rt.rules |->
                                  [matches |-> RuleMatches(rt.rules[i]), ns |-> rt.ns,
                                   backends |-> ResolveBackends(rt, rt.rules[i])]],
                               LAMBDA r : r.backends # {} /\ r.matches # <<>>)
    IN  FlattenSeq([i \in DOMAIN mine |-> rules(mine[i])])

------------------------------------------------------------------------------
(* render.go *)

UsableBackends(bes) == {b \in bes : b.weight # 0}

Target(bes) == {[ns |-> b.ns, svc |-> b.svc, port |-> b.port] : b \in bes}

\* poolNameAndTarget: the words of every member joined by "_", the members by "__".
PoolName(bes) ==
    LET ms == SetToSeq(Target(bes))
    IN  FlattenSeq([i \in DOMAIN ms |->
            (IF i = 1 THEN <<>> ELSE <<"">>) \o ms[i].ns \o ms[i].svc \o ms[i].port])

\* pathMatcherArgs: `path /p` or `path /p /p/*`; the root's second pattern is `//*`.
PathMatches(m, q) ==
    \/ q = m.path
    \/ m.type = "Prefix" /\ Len(q) > Len(m.path) /\ SubSeq(q, 1, Len(m.path)) = m.path

LineMatches(m, q, conds) == PathMatches(m, q) /\ m.conds \subseteq conds

IsCatchAll(m) == m.type = "Prefix" /\ m.path = <<"">> /\ m.conds = {}

\* condSpecificity and the sort of writeGatewaySite, without its lexical tie-break.
Specificity(m) ==
    <<IF m.type = "Exact" THEN 1 ELSE 0,
      IF m.path = <<"">> THEN 0 ELSE Len(m.path),
      IF m.conds \intersect Methods # {} THEN 1 ELSE 0,
      Cardinality(m.conds \intersect Headers),
      Cardinality(m.conds \intersect Queries)>>

\* Mutant: the qualifiers of a match are not compared.
PathOnly(a, b) ==
    \E k \in 1..2 : /\ Specificity(a)[k] > Specificity(b)[k]
                    /\ \A j \in 1..(k - 1) : Specificity(a)[j] = Specificity(b)[j]

MoreSpecific(a, b) ==
    \E k \in 1..5 : /\ Specificity(a)[k] > Specificity(b)[k]
                    /\ \A j \in 1..(k - 1) : Specificity(a)[j] = Specificity(b)[j]

StableSort(s) ==
    LET order == SetToSortSeq(DOMAIN s, LAMBDA i, j :
                    \/ MoreSpecific(s[i].m, s[j].m)
                    \/ ~MoreSpecific(s[j].m, s[i].m) /\ i < j)
    IN  [k \in DOMAIN order |-> s[order[k]]]

\* denyCovers: by path alone.
DenyCovers(d, r) ==
    IF d.type = "Exact" THEN r.type = "Exact" /\ r.path = d.path
    ELSE \/ d.path = <<"">>
         \/ Len(r.path) >= Len(d.path) /\ SubSeq(r.path, 1, Len(d.path)) = d.path

\* writeGatewaySite: a rule without a usable backend denies, its pool is declared all the
\* same; the first pool of each name is the one written.
Site(rules) ==
    LET pool(r) == IF UsableBackends(r.backends) = {} THEN r.backends
                   ELSE UsableBackends(r.backends)
        upstream(n) == Target(pool(rules[First({i \in DOMAIN rules : PoolName(pool(rules[i])) = n})]))
        linesOf(r) == [i \in DOMAIN r.matches |->
                         [m |-> r.matches[i], deny |-> UsableBackends(r.backends) = {},
                          to |-> upstream(PoolName(pool(r)))]]
        lines == StableSort(FlattenSeq([i \in DOMAIN rules |-> linesOf(rules[i])]))
        denies == SelectSeq(lines, LAMBDA l : l.deny)
    IN  [denies |-> SelectSeq(denies, LAMBDA l : ~IsCatchAll(l.m)),
         scoped |-> SelectSeq(lines, LAMBDA l : ~l.deny /\ ~IsCatchAll(l.m)),
         bare |-> SelectSeq(lines, LAMBDA l : ~l.deny /\ IsCatchAll(l.m)),
         denyAll |-> \E l \in Range(denies) : IsCatchAll(l.m),
         pools |-> {upstream(PoolName(pool(rules[i]))) : i \in DOMAIN rules}]

Status(n) == [status |-> n, to |-> {}]
RoutedTo(t) == [status |-> 200, to |-> t]

\* The possible answers to a request: the respond lines come first, then the routes, and a
\* request no line takes goes to the site's first upstream.
AnsweredBy(site, q, conds) ==
    LET matching(ls) == {i \in DOMAIN ls : LineMatches(ls[i].m, q, conds)}
        denied == \E i \in matching(site.denies) :
                     \A j \in matching(site.scoped) :
                        ~DenyCovers(site.denies[i].m, site.scoped[j].m)
        routed == matching(site.scoped)
    IN  IF denied THEN {Status(503)}
        ELSE IF routed = {} /\ site.bare = <<>> /\ site.denyAll THEN {Status(503)}
        ELSE IF routed = {} /\ site.bare = <<>> /\ site.scoped # <<>> THEN {Status(404)}
        ELSE IF routed # {} THEN {RoutedTo(site.scoped[First(routed)].to)}
        ELSE IF site.bare # <<>> THEN {RoutedTo(site.bare[1].to)}
        ELSE {RoutedTo(t) : t \in site.pools}

------------------------------------------------------------------------------
(* What the Gateway API asks of the same rules *)

\* A prefix takes the path itself and everything below it; "/" takes every path.
Takes(m, q, conds) ==
    /\ m.conds \subseteq conds
    /\ PathMatches(m, q) \/ (m.type = "Prefix" /\ m.path = <<"">>)

\* Exact, the longer path, a method, more headers, more query parameters, in this order.
Outranks(a, b) ==
    LET x == Specificity(a)
        y == Specificity(b)
    IN  \E k \in 1..5 : x[k] > y[k] /\ SubSeq(x, 1, k - 1) = SubSeq(y, 1, k - 1)

Drained(r) == UsableBackends(r.backends) = {}

\* The matches that take the request.
Hits(rules, q, conds) ==
    {c \in UNION {{[rule |-> rules[i], at |-> i, m |-> rules[i].matches[j]] : j \in DOMAIN rules[i].matches} :
                     i \in DOMAIN rules} : Takes(c.m, q, conds)}

\* The most specific match of the host decides, then the older rule; of two equally
\* specific ones, the rule that has a backend.
Best(hits) ==
    LET wins(c, d) == \/ Outranks(c.m, d.m)
                      \/ /\ ~Outranks(d.m, c.m)
                         /\ \/ ~Drained(c.rule) /\ Drained(d.rule)
                            \/ Drained(c.rule) = Drained(d.rule) /\ c.at <= d.at
    IN  CHOOSE c \in hits : \A d \in hits : wins(c, d)

Asked(rules, q, conds) ==
    LET hits == Hits(rules, q, conds)
    IN  IF hits = {} THEN Status(404)
        ELSE IF Drained(Best(hits).rule) THEN Status(503)
        ELSE RoutedTo(Target(UsableBackends(Best(hits).rule.backends)))

\* Where the renderer departs from that: no terminal 404 is written for a host whose rules
\* are all drained, and a drained match gives way to every serving one below its path,
\* also to one that is less specific for its conditions (denyCovers ignores them).
Unanswered(rules, q, conds) == Hits(rules, q, conds) = {} /\ \A r \in Range(rules) : Drained(r)
GivesWay(rules, q, conds) ==
    LET hits == Hits(rules, q, conds)
    IN  \E c \in {d \in hits : Drained(d.rule) /\ d.m.conds # {}} :
            /\ c = Best(hits)
            /\ \E d \in hits : ~Drained(d.rule) /\ DenyCovers(c.m, d.m)

\* The rules the renderer is exact about: no two pools with one name, and conditions only
\* below the root.
Distinct(rules) ==
    LET pool(r) == IF Drained(r) THEN r.backends ELSE UsableBackends(r.backends)
    IN  \A r, s \in Range(rules) :
              PoolName(pool(r)) = PoolName(pool(s)) => Target(pool(r)) = Target(pool(s))
Plain(rules) ==
    /\ Distinct(rules)
    /\ \A r \in Range(rules) : \A m \in Range(r.matches) :
          m.type = "Prefix" /\ m.path = <<"">> => m.conds = {}

\* Every request to the host is answered as its most specific match asks; as the serving
\* rules ask where a drained match with conditions gives way to them; and, where every
\* rule is drained, a request that none of them takes goes to one of their pools.
RoutedAsAsked(rules, paths, condSets) ==
    \A site \in {Site(rules)} : \A q \in paths, c \in condSets :
        \A answers \in {AnsweredBy(site, q, c)} :
            IF Unanswered(rules, q, c) THEN answers \subseteq {RoutedTo(t) : t \in site.pools}
            ELSE IF GivesWay(rules, q, c)
            THEN answers = {Asked(SelectSeq(rules, LAMBDA r : ~Drained(r)), q, c)}
            ELSE answers = {Asked(rules, q, c)}

\* A registered certificate's Gateway and every rule of the host's site are in the
\* namespace that owns the host's routing.
OwnersAgree(L, routes) ==
    LET owner == RoutingHostOwner(L, routes)
    IN  /\ \A c \in L.certs : owner[c.host] = c.by
        /\ \A h \in DOMAIN owner : \A r \in Range(RulesFor(L, routes, h)) : r.ns = owner[h]

==============================================================================
