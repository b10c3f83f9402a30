------------------------------- MODULE Ingress -------------------------------
(***************************************************************************)
(* The Ingress translator (internal/ingress): which namespace owns a host, *)
(* which routes, default backend, policy and certificate its site gets,    *)
(* and how the rendered site answers a path.                               *)
(*                                                                         *)
(* A host is a sequence of labels, "*" first for a wildcard.  A path is a  *)
(* sequence of segments, the last one "" for a trailing slash: "/" is      *)
(* <<"">> and "/a/" is <<"a", "">>; the empty string is <<>>.  A service   *)
(* or port name is the sequence of its words, which "-" separates.  An     *)
(* Ingress is a record                                                     *)
(*   [id, ns, age, class, legacy, rules, tls, def, policy]                 *)
(* where id orders objects as "ns/name" does, a rule is [host, paths], a   *)
(* path [path, type, svc, port], a tls entry [secret, hosts], and def a    *)
(* backend [svc, port].                                                    *)
(***************************************************************************)
EXTENDS Integers, FiniteSets, SequencesExt

CONSTANTS
    MaxSitesPerNamespace,   \* 0 is unlimited
    MaxRoutesPerNamespace,
    ValidHost(_),           \* validIngressHost
    Usable(_, _),           \* the Secret ns/name exists and parses (tlsSecretGate.usable)
    Covers(_, _, _),        \* its certificate's names cover the host (certCoversHost)
    FragmentOK(_)           \* the policy ConfigMap exists, fits the cap and validates

NoBackend == [svc |-> <<>>, port |-> <<>>]
NoPolicy == [ns |-> "", name |-> ""]

------------------------------------------------------------------------------
(* identity.go, controller.go: which Ingresses are served, and their order *)

\* Matches: the spec class decides, then the legacy annotation, then the default class.
Matches(ing, isDefault) ==
    IF ing.class # "none" THEN ing.class = "ours"
    ELSE IF ing.legacy # "none" THEN ing.legacy = "ours"
    ELSE isDefault

Older(a, b) == a.age < b.age \/ (a.age = b.age /\ a.id < b.id)

\* sortIngresses
Sorted(ings) == SetToSortSeq(ings, Older)

\* The rules and the tls hosts of all Ingresses, oldest Ingress first.
RulesOf(ings) ==
    FlattenSeq([i \in DOMAIN ings |->
        [j \in DOMAIN ings[i].rules |-> [ing |-> ings[i], rule |-> ings[i].rules[j]]]])

TLSHostsOf(ings) ==
    FlattenSeq([i \in DOMAIN ings |->
        FlattenSeq([j \in DOMAIN ings[i].tls |->
            [k \in DOMAIN ings[i].tls[j].hosts |->
                [ing |-> ings[i], host |-> ings[i].tls[j].hosts[k],
                 secret |-> ings[i].tls[j].secret]]])])

------------------------------------------------------------------------------
(* tls.go: routingHostOwners *)

IsWildcard(h) == Head(h) = "*"

\* A wildcard covers every host below its suffix, however many labels deeper.
WildcardCovers(w, h) ==
    LET n == Len(w) - 1
    IN  Len(h) > n /\ SubSeq(h, Len(h) - n + 1, Len(h)) = Tail(w)

\* The claims in order: rule hosts first, then the hosts only tls entries name.
Claims(ings) ==
    LET rules == [i \in DOMAIN RulesOf(ings) |->
                    [host |-> RulesOf(ings)[i].rule.host, ns |-> RulesOf(ings)[i].ing.ns]]
        tls == [i \in DOMAIN TLSHostsOf(ings) |->
                    [host |-> TLSHostsOf(ings)[i].host, ns |-> TLSHostsOf(ings)[i].ing.ns]]
    IN  SelectSeq(rules \o tls, LAMBDA c : c.host # <<>>)

First(S) == CHOOSE i \in S : \A j \in S : i <= j

\* Mutant: any covering wildcard takes the host, however young.
AnyWildcard(w, h) == TRUE

\* Only a wildcard claimed before the host takes it from the host's own claimant.
ClaimedBefore(w, h) == w < h

\* routingHostOwners: the first claim owns a host, unless the oldest wildcard that covers
\* a concrete host was claimed earlier still, from another namespace.
OwnersByClaim(cs) ==
    LET hosts == {cs[i].host : i \in DOMAIN cs}
        rank == [h \in hosts |-> First({i \in DOMAIN cs : cs[i].host = h})]
        covering(h) == {rank[w] : w \in {w \in hosts : IsWildcard(w) /\ WildcardCovers(w, h)}}
        taker(h) == First(covering(h))
    IN  [h \in hosts |->
            IF /\ ~IsWildcard(h)
               /\ covering(h) # {}
               /\ ClaimedBefore(taker(h), rank[h])
            THEN cs[taker(h)].ns ELSE cs[rank[h]].ns]

RoutingHostOwners(ings) == OwnersByClaim(Claims(ings))

------------------------------------------------------------------------------
(* tls.go: TLSPlan *)

\* One tls host: foreign hosts are refused; a usable Secret that covers the host is
\* registered by the first Ingress to claim it, everything else falls to ACME.
PlanHost(owner, acc, t) ==
    LET byo == /\ t.secret # "" /\ Usable(t.ing.ns, t.secret)
               /\ Covers(t.ing.ns, t.secret, t.host)
        claimed == t.host \in DOMAIN acc.claims
        ref == [ns |-> t.ing.ns, name |-> t.secret, host |-> t.host]
    IN  IF owner[t.host] # t.ing.ns
        THEN [acc EXCEPT !.rejects = @ \union {<<t.ing.id, t.host, "foreign">>}]
        ELSE IF ~byo
        THEN IF claimed THEN acc ELSE [acc EXCEPT !.acme = @ \union {t.host}]
        ELSE IF claimed /\ acc.claims[t.host] # t.ing.id
        THEN acc
        ELSE [acc EXCEPT !.refs = @ \union {ref},
                         !.claims = [h \in DOMAIN @ \union {t.host} |->
                                        IF h = t.host THEN t.ing.id ELSE @[h]]]

TLSPlan(ings) ==
    LET owner == RoutingHostOwners(ings)
    IN  FoldLeft(LAMBDA acc, t : PlanHost(owner, acc, t),
                 [acme |-> {}, refs |-> {}, claims |-> <<>>, rejects |-> {}],
                 TLSHostsOf(ings))

------------------------------------------------------------------------------
(* translate.go: TranslateSites *)

\* strings.TrimRight(p, "/")
RECURSIVE TrimSlashes(_)
TrimSlashes(p) ==
    IF p # <<>> /\ Last(p) = "" THEN TrimSlashes(Front(p)) ELSE p

\* normalizePath: the empty path is "/", an Exact path is kept, others lose their slashes.
NormalizePath(p, type) ==
    IF p = <<>> THEN <<"">>
    ELSE IF type = "Exact" THEN p
    ELSE IF TrimSlashes(p) = <<>> THEN <<"">> ELSE TrimSlashes(p)

\* capCounter.admitHost and admitRoute.
AdmitsHost(acc, ns, host) ==
    \/ MaxSitesPerNamespace = 0
    \/ <<ns, host>> \in acc.sites
    \/ Cardinality({s \in acc.sites : s[1] = ns}) < MaxSitesPerNamespace

AdmitsRoute(acc, ns) ==
    MaxRoutesPerNamespace = 0 \/ acc.routes[ns] < MaxRoutesPerNamespace

Put(f, k, v) == [x \in DOMAIN f \union {k} |-> IF x = k THEN v ELSE f[x]]

\* One path of a rule: the first Ingress to name (host, path, type) keeps it.
AddPath(acc, ing, host, p) ==
    LET path == NormalizePath(p.path, p.type)
        entry == [host |-> host, path |-> path, type |-> p.type,
                  ns |-> ing.ns, svc |-> p.svc, port |-> p.port]
        taken == \E i \in DOMAIN acc.entries :
                    /\ acc.entries[i].host = host /\ acc.entries[i].path = path
                    /\ acc.entries[i].type = p.type
    IN  IF p.svc = <<>> \/ p.port = <<>> \/ taken \/ ~AdmitsRoute(acc, ing.ns)
        THEN acc
        ELSE [acc EXCEPT !.entries = Append(@, entry), !.routes[ing.ns] = @ + 1]

\* One rule: an invalid or foreign host, or one over the cap, contributes nothing; the
\* policy reference must stay in the Ingress's namespace, and the first one is kept.
AddRule(owner, acc, r) ==
    LET host == r.rule.host
        kept == [acc EXCEPT
                   !.sites = @ \union {<<r.ing.ns, host>>},
                   !.hosts[r.ing.id] = @ \union {host},
                   !.policy = IF /\ r.ing.policy # NoPolicy /\ r.ing.policy.ns = r.ing.ns
                                 /\ host \notin DOMAIN @
                              THEN Put(@, host, r.ing.policy) ELSE @]
    IN  IF host = <<>> \/ ~ValidHost(host) \/ owner[host] # r.ing.ns \/ ~AdmitsHost(acc, r.ing.ns, host)
        THEN acc
        ELSE FoldLeft(LAMBDA a, p : AddPath(a, r.ing, host, p), kept, r.rule.paths)

\* The default backend of the oldest Ingress that declares the host and has one.
DefaultOf(ings, acc, host) ==
    LET I == {i \in DOMAIN ings : ings[i].def # NoBackend /\ host \in acc.hosts[ings[i].id]}
    IN  IF I = {} THEN NoBackend ELSE ings[First(I)].def

Collect(ings) ==
    FoldLeft(LAMBDA acc, r : AddRule(RoutingHostOwners(ings), acc, r),
             [sites |-> {}, entries |-> <<>>, policy |-> <<>>,
              routes |-> [ns \in {ings[i].ns : i \in DOMAIN ings} |-> 0],
              hosts |-> [id \in {ings[i].id : i \in DOMAIN ings} |-> {}]],
             RulesOf(ings))

------------------------------------------------------------------------------
(* translate.go: writeSite *)

\* Exact before the rest, then the longer path (in bytes; here in segments).
MoreSpecific(a, b) ==
    LET rank(e) == IF e.type = "Exact" THEN 0 ELSE 1
    IN  rank(a) < rank(b) \/ (rank(a) = rank(b) /\ Len(a.path) > Len(b.path))

IsCatchAll(e) == e.type # "Exact" /\ e.path = <<"">>

\* `path /p` or `path /p /p/*`: a prefix matches whole segments only.
PathMatches(e, q) ==
    \/ q = e.path
    \/ e.type # "Exact" /\ Len(q) > Len(e.path) /\ SubSeq(q, 1, Len(e.path)) = e.path

\* Stable sort: equally specific routes keep their order.
Ordered(entries) ==
    LET before(i, j) == \/ MoreSpecific(entries[i], entries[j])
                        \/ ~MoreSpecific(entries[j], entries[i]) /\ i < j
        order == SetToSortSeq(DOMAIN entries, before)
    IN  [k \in DOMAIN order |-> entries[order[k]]]

\* upstreamName: the words of namespace, service and port joined by "_".
UpstreamName(e) == <<e.ns>> \o e.svc \o e.port

Target(e) == [ns |-> e.ns, svc |-> e.svc, port |-> e.port]

\* A site's route lines (matchers first, catch-alls after them, the default last); an
\* upstream block is written for the first target of each name.
DefaultLine(ings, host, def) ==
    IF def = NoBackend THEN <<>>
    ELSE <<[host |-> host, path |-> <<"">>, type |-> "Prefix",
            ns |-> RoutingHostOwners(ings)[host], svc |-> def.svc, port |-> def.port]>>

WriteSite(acc, host, routed, defLine) ==
    LET used == routed \o defLine
        upstream(n) == Target(used[First({i \in DOMAIN used : UpstreamName(used[i]) = n})])
        scoped == SelectSeq(routed, LAMBDA e : ~IsCatchAll(e))
        bare == SelectSeq(routed, IsCatchAll) \o defLine
    IN  [scoped |-> [i \in DOMAIN scoped |-> [match |-> scoped[i],
                                              to |-> upstream(UpstreamName(scoped[i]))]],
         bare |-> [i \in DOMAIN bare |-> upstream(UpstreamName(bare[i]))],
         terminal404 |-> bare = <<>> /\ scoped # <<>>,
         policy |-> IF host \in DOMAIN acc.policy /\ FragmentOK(acc.policy[host])
                    THEN acc.policy[host] ELSE NoPolicy]

Site(ings, acc, host) ==
    WriteSite(acc, host, Ordered(SelectSeq(acc.entries, LAMBDA e : e.host = host)),
              DefaultLine(ings, host, DefaultOf(ings, acc, host)))

NotFound == [ns |-> "", svc |-> <<>>, port |-> <<"404">>]
Uncompiled == [ns |-> "", svc |-> <<>>, port |-> <<"none">>]

\* What the site does with a path: the terminal respond fires in RECV, before any route,
\* when no route's matcher matches; otherwise the first matching route.  A host without
\* any upstream does not compile and is not served.
Answer(site, q) ==
    LET hits == {i \in DOMAIN site.scoped : PathMatches(site.scoped[i].match, q)}
    IN  IF site.scoped = <<>> /\ site.bare = <<>> THEN Uncompiled
        ELSE IF hits # {} THEN site.scoped[First(hits)].to
        ELSE IF site.terminal404 THEN NotFound ELSE site.bare[1]

------------------------------------------------------------------------------
(* What Kubernetes asks of the same objects *)

\* Every path of a rule for the host in the namespace, with its place in the order.
OwnPaths(ings, host, ns) ==
    LET rs == RulesOf(ings)
        of(i) == {[at |-> <<i, j>>, type |-> rs[i].rule.paths[j].type,
                   path |-> NormalizePath(rs[i].rule.paths[j].path, rs[i].rule.paths[j].type),
                   to |-> [ns |-> ns, svc |-> rs[i].rule.paths[j].svc,
                           port |-> rs[i].rule.paths[j].port]] :
                    j \in DOMAIN rs[i].rule.paths}
    IN  UNION {of(i) : i \in {i \in DOMAIN rs : rs[i].rule.host = host /\ rs[i].ing.ns = ns}}

\* The namespace of the oldest rule for the host or for a wildcard above it.
OldestClaim(ings, host) ==
    LET rs == RulesOf(ings)
        claims(h) == h = host \/ (IsWildcard(h) /\ ~IsWildcard(host) /\ WildcardCovers(h, host))
    IN  rs[First({i \in DOMAIN rs : rs[i].rule.host # <<>> /\ claims(rs[i].rule.host)})].ing.ns

\* An exact match wins, then the longest prefix, then the older rule.
Wins(a, b) ==
    LET exact(c) == IF c.type = "Exact" THEN 1 ELSE 0
        depth(c) == IF c.path = <<"">> THEN 0 ELSE Len(c.path)
    IN  \/ exact(a) > exact(b)
        \/ exact(a) = exact(b) /\ depth(a) > depth(b)
        \/ /\ exact(a) = exact(b) /\ depth(a) = depth(b)
           /\ a.at[1] < b.at[1] \/ (a.at[1] = b.at[1] /\ a.at[2] <= b.at[2])

Asked(ings, host, q) ==
    LET ns == OldestClaim(ings, host)
        own == {c \in OwnPaths(ings, host, ns) : c.to.svc # <<>> /\ c.to.port # <<>>}
        hits == {c \in own : (c.type # "Exact" /\ c.path = <<"">>) \/ PathMatches(c, q)}
        defs == {i \in DOMAIN ings :
                    /\ ings[i].ns = ns /\ ings[i].def # NoBackend
                    /\ \E j \in DOMAIN ings[i].rules : ings[i].rules[j].host = host}
    IN  IF hits # {} THEN (CHOOSE c \in hits : \A d \in hits : Wins(c, d)).to
        ELSE IF defs # {} THEN [ns |-> ns, svc |-> ings[First(defs)].def.svc,
                                port |-> ings[First(defs)].def.port]
        ELSE IF own = {} THEN Uncompiled ELSE NotFound

\* A namespace whose rules stay within its caps, whatever other namespaces declare.
WithinCaps(ings, ns) ==
    LET rs == RulesOf(ings)
        hosts == {rs[i].rule.host : i \in {i \in DOMAIN rs : rs[i].ing.ns = ns}}
        paths == UNION {OwnPaths(ings, h, ns) : h \in hosts}
    IN  /\ MaxSitesPerNamespace > 0 => Cardinality(hosts) <= MaxSitesPerNamespace
        /\ MaxRoutesPerNamespace > 0 => Cardinality(paths) <= MaxRoutesPerNamespace

\* The site of every host answers each path as the rules of the host's oldest claimant ask
\* (exact, longest prefix, that tenant's default backend, else 404), when that tenant is
\* within its caps; and its certificate and its policy come from the same tenant.
SiteIsTheOwners(ings, paths) ==
    \A acc \in {Collect(ings)}, plan \in {TLSPlan(ings)}, rs \in {RulesOf(ings)} :
    \A h \in {rs[i].rule.host : i \in {i \in DOMAIN rs : rs[i].rule.host # <<>> /\ ValidHost(rs[i].rule.host)}} :
    \A ns \in {OldestClaim(ings, h)}, site \in {Site(ings, acc, h)} :
        LET declared == \E i \in DOMAIN rs : rs[i].rule.host = h /\ rs[i].ing.ns = ns
        IN  /\ declared /\ WithinCaps(ings, ns) =>
                  \A q \in paths : Answer(site, q) = Asked(ings, h, q)
            /\ ~declared => \A s \in acc.sites : s[2] # h
            /\ site.policy.ns \in {"", ns}
            /\ \A ref \in plan.refs : ref.host = h => ref.ns = ns

==============================================================================
