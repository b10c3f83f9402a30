----------------------------- MODULE MCReading -----------------------------
(***************************************************************************)
(* What the server reads and what it makes of it: a request's identity and  *)
(* cache decision, the configuration text and its site bodies, Kubernetes   *)
(* routes, the text of requests and of proxy headers, the response a client *)
(* is given and its compressed variants.  A behaviour is one of a single    *)
(* part: the cache decision and the variants are state machines, every      *)
(* other part builds its input piece by piece in item and the properties    *)
(* are about what the code computes from it.                                *)
(***************************************************************************)
EXTENDS Decision, SequencesExt

CONSTANT MaxEntries

VARIABLES part, item

-----------------------------------------------------------------------------
(* Small sites: one for each way a key can cover, derive from, forward, share *)
(* or miss a credential, and one with every gate.                             *)

Tok(kind, arg) == [kind |-> kind, arg |-> arg, derives |-> {}, forward |-> {}]
Axis(tok, d, f) == [kind |-> "classify", arg |-> tok, derives |-> d, forward |-> f]
Path == Tok("path", "")

Sel(kind, scope, codes) == [kind |-> kind, scope |-> scope, codes |-> codes, respHeader |-> {}]
Default   == Sel("default", Always, {})
In(scope) == Sel("scope", scope, {})

TTL(sel, ttl, from, grace) ==
    [sel |-> sel, hfm |-> 0, ttl |-> ttl, from |-> from, grace |-> grace,
     graceFrom |-> "", maxStale |-> 0, maxStaleFrom |-> ""]

Matchers ==
    [hasA   |-> [kind |-> "cookie", name |-> "a", accepts |-> {}],
     hasB   |-> [kind |-> "cookie", name |-> "b", accepts |-> {}],
     langX  |-> [kind |-> "header", name |-> "X-Lang", accepts |-> {"x"}],
     rootP  |-> [kind |-> "path", accepts |-> {"/"}],
     adminP |-> [kind |-> "path", accepts |-> {"/admin"}],
     noAuth |-> [kind |-> "all", terms |-> {[ref |-> "anyAuth", negate |-> TRUE]}],
     anyAuth |-> [kind |-> "header_present", name |-> "Authorization"],
     tierA  |-> [kind |-> "classify", name |-> "tier", accepts |-> {"in"}, negate |-> FALSE],
     setCk  |-> [kind |-> "set_cookie", accepts |-> {}]]

Classifiers ==
    [tier |-> [rows |-> <<[conj |-> {"hasA"}, value |-> "in"]>>, def |-> "out"]]

Plain ==
    [matchers |-> Matchers, classifiers |-> Classifiers,
     routes |-> <<>>, defaultUpstream |-> "u",
     keyRules |-> <<[sel |-> Default, toks |-> <<Path>>]>>,
     cookieAllow |-> Cr!NoAllow, sticky |-> "",
     allow |-> <<>>, deny |-> <<>>, monitor |-> FALSE, respond |-> <<>>,
     redirect |-> <<>>, purge |-> <<>>, pass |-> <<>>, credRules |-> <<>>,
     ttlRules |-> <<TTL(Default, 60, "", 60)>>, strip |-> <<>>, unsafe |-> FALSE]

Keyed(toks) == [Plain EXCEPT !.keyRules = <<[sel |-> Default, toks |-> toks]>>]

MCSites ==
    { Plain,
      Keyed(<<Path, Tok("cookie", "a")>>),
      Keyed(<<Tok("header", "Cookie")>>),
      Keyed(<<Tok("header", "Authorization"), Tok("cookie", "a"), Tok("cookie", "b")>>),
      [Keyed(<<Tok("header", "X-Lang")>>) EXCEPT !.cookieAllow = {}],
      \* two recipes, chosen on a cookie that the axis of the first one strips
      [Plain EXCEPT !.keyRules = <<[sel |-> In({"hasA"}), toks |-> <<Axis("tier", {"a"}, {}), Tok("header", "X-Lang")>>],
                                   [sel |-> Default, toks |-> <<Path, Tok("cookie", "b")>>]>>],
      \* an allow list, and an axis of a recipe that is not always selected
      [Plain EXCEPT !.keyRules = <<[sel |-> In({"hasB"}), toks |-> <<Axis("tier", {"a"}, {}), Tok("cookie", "b")>>],
                                   [sel |-> Default, toks |-> <<Tok("header", "Cookie")>>]>>,
                    !.cookieAllow = {"b"}],
      \* a forward axis
      [Keyed(<<Axis("tier", {"a"}, {"a"}), Tok("cookie", "b")>>) EXCEPT
          !.pass = <<{"adminP"}>>],
      Keyed(<<Tok("sticky", "")>>),
      \* cache_credentialed: the origin's header decides, a static default beside it
      [Plain EXCEPT !.credRules = <<{"rootP"}>>, !.cookieAllow = {"b"},
                    !.ttlRules = <<TTL(Default, 0, "X-Cache-Ttl", 0), TTL(Default, 60, "", 60)>>],
      [Keyed(<<Path, Tok("header", "X-Lang")>>) EXCEPT !.unsafe = TRUE, !.strip = <<{"setCk"}>>],
      \* every gate of the request phase
      [Plain EXCEPT !.allow = <<{[ref |-> "langX", negate |-> FALSE]}>>,
                    !.deny = <<[terms |-> {[ref |-> "hasA", negate |-> FALSE], [ref |-> "anyAuth", negate |-> TRUE]},
                                monitor |-> FALSE],
                               [terms |-> {[ref |-> "hasB", negate |-> FALSE]}, monitor |-> TRUE]>>,
                    !.respond = <<{[ref |-> "adminP", negate |-> FALSE], [ref |-> "noAuth", negate |-> FALSE]}>>,
                    !.redirect = <<{"adminP"}>>, !.purge = <<{"anyAuth"}>>,
                    !.routes = <<[scope |-> {"tierA"}, upstream |-> "v"]>>,
                    !.ttlRules = <<[TTL(Sel("status_in", Always, {503}), 0, "", 0) EXCEPT !.hfm = 5],
                                   TTL(Default, 60, "", 0)>>] }

Cookies == UNION {[1..n -> [n : {"a", "b"}, v : {"1", "2"}]] : n \in 0..1}
           \cup {<<[n |-> "a", v |-> "1"], [n |-> "a", v |-> x]>> : x \in {"1", "2"}}
           \cup {<<[n |-> "a", v |-> x], [n |-> "b", v |-> "1"]>> : x \in {"", "1", "2"}}

Fields(auth, lang) == ("Authorization" :> auth) @@ ("X-Lang" :> lang)

MCRequests ==
    {[cookies |-> c, hdr |-> Fields(au, l),
      attr |-> ("path" :> p) @@ ("method" :> "GET") @@ ("host" :> "h"),
      clientIP |-> "ip", realIP |-> "", query |-> <<>>, healthy |-> NoPools,
      sel |-> Cr!Uncaptured]
       : c \in Cookies, au \in {<<>>, <<"t">>, <<"", "u">>}, l \in {<<>>, <<"x">>},
         p \in {"/"}}
    \cup {[cookies |-> <<>>, hdr |-> Fields(au, <<>>),
           attr |-> ("path" :> "/admin") @@ ("method" :> "GET") @@ ("host" :> "h"),
           clientIP |-> "ip", realIP |-> "", query |-> <<>>, healthy |-> NoPools,
           sel |-> Cr!Uncaptured] : au \in {<<>>, <<"t">>}}

Ok(h) == [kind |-> "response", status |-> 200, hdr |-> h]
MCAnswers ==
    { Ok(<<>>), Ok("Vary" :> <<"X-Lang">>), Ok("Vary" :> <<"*">>),
      Ok("Cache-Control" :> <<"private">>),
      Ok(("Set-Cookie" :> <<"s">>) @@ ("X-Cache-Ttl" :> <<"60">>)),
      Ok("X-Cache-Ttl" :> <<"soon">>),
      [kind |-> "response", status |-> 404, hdr |-> <<>>],
      [kind |-> "status", status |-> 503, hdr |-> <<>>],
      [kind |-> "not_found", status |-> 404, hdr |-> NoHeaders] }

MCParseTTL(v) == IF v = "60" THEN 60 ELSE 0

\* The runs keep at most MaxEntries keys cached at once.
MCNext == Next /\ Cardinality(DOMAIN cache') <= MaxEntries

-----------------------------------------------------------------------------
(* Kubernetes Ingress resources and Gateway API resources: shared and         *)
(* contested hosts, wildcards, every path type, TLS and backends across       *)
(* namespaces.                                                                *)

AppHost  == <<"app", "x">>
ApiHost  == <<"api", "x">>
WildHost == <<"*", "x">>
Anything(x) == TRUE
Known(x, y) == TRUE
Fits(x, y, z) == TRUE

IngPath(path, type, svc) == [path |-> path, type |-> type, svc |-> <<svc>>, port |-> <<"80">>]
IngRule(h, ps) == [host |-> h, paths |-> ps]
IngTLS(secret, hs) == [secret |-> secret, hosts |-> hs]
IngBackend(svc) == [svc |-> <<svc>>, port |-> <<"80">>]
NoDefault == [svc |-> <<>>, port |-> <<>>]
Policy(ns) == [ns |-> ns, name |-> IF ns = "" THEN "" ELSE "p"]
Ingress(id, ns, age, rules, tls, def, policy) ==
    [id |-> id, ns |-> ns, age |-> age, class |-> "ours", legacy |-> "none",
     rules |-> rules, tls |-> tls, def |-> def, policy |-> Policy(policy)]

Ingresses ==
    {Ingress(1, "a", 1, <<IngRule(AppHost, <<IngPath(<<"foo">>, "Prefix", "s1"), IngPath(<<"foo", "">>, "Exact", "s2")>>)>>,
             <<IngTLS("tls", <<AppHost>>)>>, NoDefault, ""),
     Ingress(2, "a", 2, <<IngRule(AppHost, <<IngPath(<<"foo", "bar", "">>, "Prefix", "s3"), IngPath(<<"">>, "Exact", "s1")>>)>>,
             <<>>, IngBackend("d1"), "a"),
     Ingress(3, "a", 3, <<IngRule(WildHost, <<IngPath(<<>>, "Prefix", "s4")>>)>>, <<IngTLS("tls", <<WildHost>>)>>, NoDefault, ""),
     Ingress(4, "b", 2, <<IngRule(AppHost, <<IngPath(<<"">>, "Prefix", "t1")>>), IngRule(ApiHost, <<IngPath(<<"foo">>, "Exact", "t2")>>)>>,
             <<IngTLS("tls", <<AppHost, ApiHost>>)>>, NoDefault, "a"),
     Ingress(5, "b", 1, <<IngRule(WildHost, <<IngPath(<<"foo">>, "Prefix", "t3")>>)>>, <<>>, IngBackend("d2"), ""),
     Ingress(6, "b", 4, <<IngRule(AppHost, <<IngPath(<<"foo">>, "Prefix", "t4"), IngPath(<<"foo">>, "Exact", "t5")>>), IngRule(WildHost, <<>>)>>,
             <<IngTLS("", <<ApiHost>>)>>, IngBackend("d3"), "b"),
     Ingress(7, "a", 4, <<IngRule(ApiHost, <<>>)>>, <<IngTLS("tls", <<ApiHost>>)>>, NoDefault, "a"),
     Ingress(8, "b", 5, <<>>, <<IngTLS("tls", <<WildHost, AppHost>>)>>, NoDefault, "")}
IngressPaths == {<<"">>, <<"foo">>, <<"foo", "">>, <<"foo", "bar">>, <<"foo", "bar", "x">>, <<"foob">>}

Ig == INSTANCE Ingress
    WITH MaxSitesPerNamespace <- 2, MaxRoutesPerNamespace <- 3,
         ValidHost <- Anything, Usable <- Known, Covers <- Fits, FragmentOK <- Anything

NsA == <<"a">>
NsB == <<"b">>
Listener(name, proto, host, from, certNs) ==
    [name |-> name, proto |-> proto, host |-> host, from |-> from, kinds |-> {},
     cert |-> [ns |-> certNs, name |-> IF certNs = <<>> THEN "" ELSE "tls"]]
GatewayOf(id, ns, age, ls) == [id |-> id, ns |-> ns, age |-> age, owned |-> TRUE, listeners |-> ls]
Gateways ==
    {GatewayOf(1, NsA, 1, <<Listener("web", "HTTP", <<>>, "All", <<>>)>>),
     GatewayOf(2, NsA, 2, <<Listener("web", "HTTP", AppHost, "All", <<>>), Listener("tls", "HTTPS", AppHost, "Same", NsA)>>),
     GatewayOf(3, NsB, 3, <<Listener("tls", "HTTPS", WildHost, "All", NsB)>>),
     GatewayOf(4, NsB, 1, <<Listener("star", "HTTP", WildHost, "Same", <<>>)>>),
     GatewayOf(5, NsB, 4, <<Listener("tls", "HTTPS", AppHost, "All", NsA)>>),
     GatewayOf(6, NsA, 5, <<Listener("late", "HTTPS", AppHost, "Same", NsA)>>)}

RouteMatch(path, type, conds) == [path |-> path, type |-> type, conds |-> conds]
BackendRef(ns, svc, weight) == [ns |-> ns, svc |-> <<svc>>, port |-> <<"80">>, weight |-> weight]
RouteRule(ms, bs) == [matches |-> ms, backends |-> bs]
HTTPRoute(id, ns, age, hosts, rules) ==
    [id |-> id, ns |-> ns, age |-> age, hosts |-> hosts, rules |-> rules,
     parents |-> [g \in 1..6 |-> [gw |-> g, section |-> ""]]]
HTTPRoutes ==
    {HTTPRoute(11, NsA, 1, <<AppHost>>,
        <<RouteRule(<<RouteMatch(<<"p">>, "Prefix", {})>>, <<BackendRef(NsA, "s1", 1)>>),
          RouteRule(<<RouteMatch(<<"p">>, "Prefix", {"h"}), RouteMatch(<<"p">>, "Exact", {"q"})>>,
                    <<BackendRef(NsA, "s2", 1), BackendRef(NsA, "s3", 0)>>)>>),
     HTTPRoute(12, NsB, 2, <<WildHost>>,
        <<RouteRule(<<>>, <<BackendRef(NsB, "t1", 1)>>),
          RouteRule(<<RouteMatch(<<"p", "d">>, "Prefix", {})>>, <<BackendRef(NsB, "t2", 0)>>),
          RouteRule(<<RouteMatch(<<"p", "d", "e">>, "Exact", {})>>, <<BackendRef(NsA, "s1", 1)>>)>>),
     HTTPRoute(13, NsA, 3, <<>>,
        <<RouteRule(<<RouteMatch(<<"p">>, "Prefix", {"GET"})>>, <<BackendRef(NsA, "s4", 1)>>),
          RouteRule(<<>>, <<BackendRef(NsA, "s5", 0)>>)>>),
     HTTPRoute(14, NsB, 1, <<AppHost>>,
        <<RouteRule(<<RouteMatch(<<"p">>, "Prefix", {"h", "h2"})>>, <<BackendRef(NsB, "t3", 1), BackendRef(NsA, "s2", 1)>>)>>),
     HTTPRoute(15, NsA, 4, <<WildHost, AppHost>>,
        <<RouteRule(<<RouteMatch(<<"p", "">>, "Prefix", {"GET", "q"})>>, <<BackendRef(NsA, "s1", 1), BackendRef(NsA, "s2", 1)>>)>>),
     HTTPRoute(16, NsA, 2, <<AppHost>>,
        <<RouteRule(<<RouteMatch(<<"">>, "Prefix", {"h"})>>, <<BackendRef(NsA, "s1", 1)>>)>>),
     HTTPRoute(17, NsA, 5, <<AppHost>>,
        <<RouteRule(<<RouteMatch(<<"p">>, "Prefix", {"h"})>>, <<BackendRef(NsA, "s2", 0)>>),
          RouteRule(<<RouteMatch(<<"p", "d">>, "Exact", {})>>, <<BackendRef(NsA, "s3", 0)>>)>>)}
RoutePaths == {<<"">>, <<"p">>, <<"p", "">>, <<"p", "d">>, <<"p", "d", "e">>, <<"pq">>}
RouteConds == SUBSET {"GET", "h", "h2", "q"}
Exists(ns, svc) == svc # <<"s4">>

Gw == INSTANCE Gateway
    WITH Methods <- {"GET"}, Headers <- {"h", "h2"}, Queries <- {"q"},
         Grants <- {[ns |-> NsA, kind |-> "Service", name |-> "", fromNs |-> NsB, fromKind |-> "HTTPRoute"]},
         ValidHost <- Anything, Usable <- Known, Covers <- Fits, ServiceExists <- Exists

-----------------------------------------------------------------------------
(* The configuration: characters that mean something to the lexer, with the   *)
(* runs of them that make words, blocks, comments and quotes; site bodies in   *)
(* every order, and a group with its tenants.                                  *)

Cf == INSTANCE Cadishfile
SourceChars == {"a", ".", ",", " ", "\n", "\\", "{", "}", ";", "#", "\"", "@"}
SourcePieces ==
    {<<"a", " ">>, <<"a", ".", ",">>, <<"{", "\n">>, <<"\n">>, <<"}">>, <<"#", " ", "\n">>, <<"@", "a", " ">>,
     <<"\n", "\n">>, <<"\"", " ", "\"">>, <<";">>}
ArgChars == {"a", " ", "\n", "\\", "{", "}", "$", "\"", "#", ";", "@"}

Sb == INSTANCE SiteBody
NameNodes ==
    {Sb!Matcher("a", "plain", {}), Sb!Matcher("a", "response", {}), Sb!Matcher("x", "classify", {"t"}),
     Sb!Matcher("y", "classify", {"u"}), Sb!Matcher("z", "all", {"x"}), Sb!Matcher("w", "all", {"z", "a"}),
     Sb!Dir("classify", "t", {"a"}), Sb!Dir("classify", "t", {"y"}), Sb!Dir("classify", "u", {"x"}),
     Sb!Dir("classify", "u", {"z"}), Sb!Dir("normalize", "t", {})}
TenantBodies ==
    {<<>>, <<Sb!Dir("cache", "1", {}), Sb!Matcher("a", "plain", {})>>,
     <<Sb!Dir("upstream", "p", {"q"}), Sb!Dir("normalize", "t", {})>>, <<Sb!Dir("cors", "p", {}), Sb!Dir("pass", "k", {"a"})>>}
GroupNodes ==
    {Sb!Dir("cache", "2", {}), Sb!Dir("upstream", "p", {}), Sb!Dir("upstream", "r", {}), Sb!Matcher("a", "classify", {"t"}),
     Sb!Dir("pass", "k", {}), Sb!Dir("normalize", "t", {"c"})}
    \cup {Sb!Tenant(n, h, o) : n \in {"t1", "t2"}, h \in {{"h"}, {}}, o \in TenantBodies}

-----------------------------------------------------------------------------
(* The text of requests: globs, paths, queries, JSON cookies and the header a  *)
(* balancer sends before the first byte.                                       *)

Kt == INSTANCE KeyText
GlobSubjects == UNION {[1..n -> {"a", "b"}] : n \in 0..4}
QueryNames == Kt!NameGlobSet({<<"a">>, <<"a", "*">>})
QueryTokens ==
    {[kind |-> "query"], [kind |-> "query_allow", names |-> QueryNames], [kind |-> "query_strip", names |-> QueryNames]}

Jf == INSTANCE JSONField WITH DepthCap <- 2, SizeCap <- 9
JSONPieces ==
    {<<"{">>, <<"}">>, <<"[">>, <<"]">>, <<"a", "1">>, <<"a">>, <<"1">>, <<"%a", "null">>,
     <<"b", "%{", "%a", "1", "}">>, <<"%z">>}
FieldPaths == {<<"a">>, <<"a", "a">>, <<"00", "a">>, <<"1">>, <<"b", "a">>, <<"a", "b", "a">>}

Ph == INSTANCE ProxyHeader WITH MaxV1Line <- 7
V1Pieces ==
    {<<"TCP4">>, <<"TCP6">>, <<"UNKNOWN">>, <<"4", "4">>, <<"m", "6">>, <<"4">>, <<"port", "port">>,
     <<"port", "70000">>, <<"CRLF">>, <<"LF">>, <<"GET">>}
V2Fields ==
    <<{"v2local", "v2proxy", "v1"}, {"INET", "INET6", "UNIX", "UNSPEC", "fam"}, {"len0", "len2", "len3", "len4"}>>
V2Addresses == {<<"4", "4">>, <<"m", "6">>, <<"GET">>}
HeaderPieces(s) ==
    CASE s[1] # "SIG" -> V1Pieces
      [] Len(s) <= 3  -> {<<u>> : u \in V2Fields[Len(s)]}
      [] OTHER        -> V2Addresses

-----------------------------------------------------------------------------
(* The response: header rules of up to two operations, CORS and Set-Cookie     *)
(* stripping, on responses with control, hop-by-hop and repeated fields.       *)

FieldNames ==
    {"Content-Type", "ETag", "Vary", "Cache-Control", "Expires", "Set-Cookie", "Pragma", "Connection",
     "X-Ctl", "X-App", "ACAO", "ACAM", "X-Out"}
Dl == INSTANCE Deliver WITH Names <- FieldNames, Hop <- {"Connection"}

Scopes == {[on |-> "all", of |-> ""], [on |-> "content_type", of |-> "html"], [on |-> "resp_header", of |-> "X-Ctl"],
           [on |-> "resp_header", of |-> "Vary"]}
HeaderOps ==
    {<<<<"-", "X-App">>>>, <<<<"-", "Vary">>>>, <<<<"+", "Vary">>, <<"", "raw">>>>, <<<<"+", "X-Ctl">>, <<"", "raw">>>>,
     <<<<"", "Cache-Control">>, <<"", "raw">>>>, <<<<"", "X-Out">>, <<"", "{http.Origin}">>>>, <<<<"+", "cache_status">>>>,
     <<<<"", "X-Out">>, <<"+", "cache_key">>>>, <<<<"", "X-Out">>, <<"+", "cache_age">>>>}
NoFields == [n \in FieldNames |-> <<>>]
Page ==
    [NoFields EXCEPT !["Content-Type"] = <<"html">>, !["ETag"] = <<"e">>, !["Vary"] = <<"Accept">>,
                     !["Cache-Control"] = <<"private">>, !["Expires"] = <<"x">>, !["X-Ctl"] = <<"60">>]
Sheet ==
    [NoFields EXCEPT !["Content-Type"] = <<"css">>, !["Set-Cookie"] = <<"c1", "c2">>, !["Pragma"] = <<"no-cache">>,
                     !["Connection"] = <<"X-App", "close">>, !["X-App"] = <<"v">>, !["ACAO"] = <<"o2">>]
Shared == [Sheet EXCEPT !["Vary"] = <<"Accept", "Origin">>, !["X-Ctl"] = <<"5">>]
StoreDecisions ==
    {[store |-> TRUE, ttl |-> 60, private |-> FALSE, credentialed |-> TRUE, consumed |-> {"X-Ctl"}],
     [store |-> TRUE, ttl |-> 5, private |-> TRUE, credentialed |-> FALSE, consumed |-> {}],
     [store |-> FALSE, ttl |-> 0, private |-> FALSE, credentialed |-> FALSE, consumed |-> {"X-Ctl"}]}

\* The site of an input whose header operations compile, to ones on these fields.
SiteOf(d) ==
    [rules |-> IF d.args = <<>> THEN <<>>
               ELSE <<[scope |-> d.scope, ops |-> Dl!ParseHeaderOps(d.args, <<>>).ops]>>,
     strip |-> d.strip, cors |-> Dl!CompileCORS(d.cors), corsScope |-> d.scope]
Compiles(d) ==
    LET parsed == Dl!ParseHeaderOps(d.args, <<>>)
    IN  parsed.ok /\ \A i \in DOMAIN parsed.ops : parsed.ops[i].name \in FieldNames

VARIABLES policy, identity, variant, client, asked, version
Va == INSTANCE Variants
    WITH Codecs <- <<"br", "gzip">>, Clients <- {"k1", "k2"}, MaxVersion <- 2, MaxRequests <- 3,
         Accepts <- {[named |-> [c \in {"br"} |-> FALSE], star |-> "yes"], [named |-> [c \in {} |-> TRUE], star |-> "unset"]}
\* The clients are alike: k1 asks first.
VariantsNext == Va!Next /\ (asked = 0 => client'["k2"] = client["k2"])

-----------------------------------------------------------------------------
decisionVars == <<site, cache, refreshing, served>>
variantVars  == <<policy, identity, variant, client, asked, version>>
allVars == <<part, item, decisionVars, variantVars>>

decisionOff == site = 0 /\ cache = 0 /\ refreshing = 0 /\ served = 0
variantsOff ==
    /\ policy = 0 /\ identity = 0 /\ variant = 0
    /\ client = 0 /\ asked = 0 /\ version = 0

\* An input is the sequence of its pieces: what each part's pieces are, how many
\* there may be, and the text or list they make.
Pieces ==
    [source |-> {<<c>> : c \in SourceChars}, lines |-> SourcePieces, arg |-> {<<c>> : c \in ArgChars},
     names |-> {<<n>> : n \in NameNodes}, group |-> {<<n>> : n \in GroupNodes},
     glob |-> {<<c>> : c \in {"*", "a", "b"}}, path |-> {<<c>> : c \in {"/", ".", "a", "|"}},
     query |-> {<<c>> : c \in {"a", "&", "=", "%", "1", "8"}}, json |-> JSONPieces]
MaxPieces ==
    [source |-> 4, lines |-> 5, arg |-> 4, names |-> 5, group |-> 3, glob |-> 5, path |-> 5, query |-> 5, json |-> 5]

\* A body has each of its nodes once, and a JSON document grows while its prefix
\* is within the caps.
Extends(input, piece) ==
    /\ part \in {"names", "group"} => piece[1] \notin Range(input)
    /\ part = "json" => Jf!JSONDocDepthValid(Jf!DecodeJSONCookieValue(input))

ReadInit ==
    \/ part \in DOMAIN Pieces /\ item = [input |-> IF part = "path" THEN <<"/">> ELSE <<>>, n |-> 0]
    \/ part = "proxy" /\ \E first \in {"PROXY", "SIG", "GET"} : item = [input |-> <<first>>, n |-> 0]
    \/ part = "ingress" /\ item = {}
    \/ part = "gateway" /\ item = [gateways |-> {}, routes |-> {}]
    \/ /\ part = "deliver"
       /\ item \in [args : {<<>>}, ops : {0}, scope : Scopes, strip : {{}} \cup {{c} : c \in Scopes}, resp : {Page, Sheet, Shared},
                    cors : {<<>>, <<"*">>, <<"o1", "methods", "GET">>, <<"*", "methods", "GET", "PUT">>}]

Read ==
    \/ /\ part \in DOMAIN Pieces /\ item.n < MaxPieces[part]
       /\ \E piece \in Pieces[part] :
             Extends(item.input, piece) /\ item' = [input |-> item.input \o piece, n |-> item.n + 1]
    \/ /\ part = "proxy" /\ item.n < 5
       /\ \E piece \in HeaderPieces(item.input) : item' = [input |-> item.input \o piece, n |-> item.n + 1]
    \/ /\ part = "ingress" /\ Cardinality(item) < 5
       /\ \E ing \in Ingresses \ item : item' = item \cup {ing}
    \/ /\ part = "gateway" /\ Cardinality(item.gateways) < 3
       /\ \E g \in Gateways \ item.gateways : item' = [item EXCEPT !.gateways = @ \cup {g}]
    \/ /\ part = "gateway" /\ Cardinality(item.routes) < 3
       /\ \E r \in HTTPRoutes \ item.routes : item' = [item EXCEPT !.routes = @ \cup {r}]
    \/ /\ part = "deliver" /\ item.ops < 2
       /\ \E op \in HeaderOps : item' = [item EXCEPT !.args = @ \o op, !.ops = @ + 1]

DecisionInit == part = "decision" /\ Init /\ item = 0 /\ variantsOff
DecisionNext == part = "decision" /\ MCNext /\ UNCHANGED <<part, item, variantVars>>
DecisionSpec == DecisionInit /\ [][DecisionNext]_allVars

ReadingInit ==
    \/ DecisionInit
    \/ part = "variants" /\ Va!Init /\ item = 0 /\ decisionOff
    \/ ReadInit /\ decisionOff /\ variantsOff
ReadingNext ==
    \/ DecisionNext
    \/ part = "variants" /\ VariantsNext /\ UNCHANGED <<part, item, decisionVars>>
    \/ Read /\ UNCHANGED <<part, decisionVars, variantVars>>
ReadingSpec == ReadingInit /\ [][ReadingNext]_allVars

-----------------------------------------------------------------------------
(* Properties.                                                                *)

\* A hit was stored by a request with every credential the origin saw of it, and
\* a response a key cannot tell apart by credential is shared only when the origin
\* itself signalled it (EvalRequest, CredentialKey, EvalResponse, ServeHTTP).
CacheKeepsApart == part = "decision" => HitIsOwn /\ SharedOnlyBySignal

\* Formatting a source that parses gives one that parses and settles after one pass; it
\* keeps the meaning, unless it quotes a bare reference or placeholder or an address with
\* a trailing comma stands before a ";"; and a quoted argument is read back as it was
\* (cadishfile Format, quoteArg);
\* a body whose names are well founded compiles in any order and a tenant's site is
\* the group's body with the tenant's own lines over it (resolveMatchers, groups).
ConfigurationRead ==
    /\ part \in {"source", "lines"} => Cf!FormatSound(item.input)
    /\ part = "arg" => Cf!QuotedArgExact(item.input)
    /\ part = "names" => Sb!CompilesIfWellFounded(item.input)
    /\ part = "group" => Sb!TenantSitesMerged(item.input)

\* A glob matches what its wildcards say, the origin is asked for the path that was
\* matched, keys of queries that differ in a well-escaped parameter differ, a JSON field is the one a full parse
\* gives, and a PROXY header yields its addresses and exactly the bytes after it
\* (compileGlob, normalizePath, the key tokens, jsonField, proxyproto readHeader).
RequestRead ==
    /\ part = "glob" /\ item.input # <<>> => Kt!GlobExact(item.input, GlobSubjects)
    /\ part = "path" => Kt!DialedAsMatched(item.input, {<<"/", "b">>})
    /\ part = "query" => \A t \in QueryTokens : Kt!KeyReadsBack(<<"/", "|", "a">>, item.input, t)
    /\ part = "json" => \A p \in FieldPaths : Jf!ResolvedAsParsed(item.input, p)
    /\ part = "proxy" => Ph!HeaderExact(item.input)

\* Every host is served by the rules of the namespace that owns it, and each request
\* goes where the most specific rule sends it, whatever was claimed first and however
\* sites were merged (ingress and gateway Translate and Render).  Of a Gateway's site the
\* second half is about rules whose pools have names of their own and whose root match has
\* no condition; a drained rule with a condition gives way to a serving one, and a host
\* with drained rules only has no 404.
KubernetesRouted ==
    /\ part = "ingress" =>
         Ig!SiteIsTheOwners(Ig!Sorted({i \in item : Ig!Matches(i, TRUE)}), IngressPaths)
    /\ part = "gateway" =>
         \A listeners \in {Gw!Listeners(item.gateways)} :
             /\ Gw!OwnersAgree(listeners, item.routes)
             /\ \A h \in DOMAIN Gw!RoutingHostOwner(listeners, item.routes) :
                \A rules \in {Gw!RulesFor(listeners, item.routes, h)} :
                   rules # <<>> /\ Gw!Plain(rules) => Gw!RoutedAsAsked(rules, RoutePaths, RouteConds)

\* "Within one match all conditions are ANDed" (docs/gateway-api.md): a match on the
\* root prefix keeps its conditions.
RootConditionsKept ==
    part = "gateway" =>
        \A listeners \in {Gw!Listeners(item.gateways)} :
        \A h \in DOMAIN Gw!RoutingHostOwner(listeners, item.routes) :
        \A rules \in {Gw!RulesFor(listeners, item.routes, h)} :
               rules # <<>> /\ Gw!Distinct(rules) => Gw!RoutedAsAsked(rules, RoutePaths, RouteConds)

\* A client is told the same by a hit as by the miss that stored it, fields the site
\* consumed or stripped reach nobody, a variant is of the identity body it is served
\* for, and an entity tag is given only for the bytes it names, a date only for their
\* version (EvalDeliver, sendObject, encode_variant.go).
RepliesHonest ==
    /\ part = "deliver" /\ Compiles(item) =>
         \A sd \in StoreDecisions, o \in {"", "o1"} :
            /\ Dl!HitSaysWhatMissSaid(SiteOf(item), [origin |-> o], item.resp, sd)
            /\ Dl!DroppedEverywhere(SiteOf(item), [origin |-> o], item.resp, sd)
    /\ part = "variants" => Va!VariantIsCurrent /\ Va!ValidatorsHonest

=============================================================================
