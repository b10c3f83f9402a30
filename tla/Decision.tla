------------------------------ MODULE Decision ------------------------------
(***************************************************************************)
(* The policy of one site: what the pipeline decides for a request and for *)
(* the origin's answer to it, and what the handler does with the decision   *)
(* (internal/pipeline pipeline.go and secgate.go, and their callers in      *)
(* internal/server handler.go).  Requests are the safe ones; a write, the   *)
(* coalescer and the tee are in Serve.                                      *)
(*                                                                          *)
(* A site has, besides what Credentials and Matcher read: allow, deny,      *)
(* respond, redirect, purge, pass and credRules (scopes or conjunctions),   *)
(* ttlRules, strip (strip_cookies scopes), unsafe (cache_unsafe).           *)
(* An answer of the origin is [kind, status, hdr]: a "response" (200, or a  *)
(* 404/410 with its body), a "status" error with the headers it came with   *)
(* (NoHeaders from an origin that captures none), or "not_found".           *)
(***************************************************************************)
EXTENDS Naturals, Sequences, FiniteSets, TLC
LOCAL INSTANCE SequencesExt

CONSTANTS Sites, Requests, Answers,
          ParseTTL(_)      \* seconds in a header value, 0 when it has none

VARIABLES site, cache, refreshing, served
vars == <<site, cache, refreshing, served>>

-----------------------------------------------------------------------------
(***************************************************************************)
(* Matchers, scopes, selectors and classify tables (internal/pipeline       *)
(* matcher.go, classify.go, compile.go selector).                           *)
(*                                                                          *)
(* A matcher m has a kind.  The patterns of a kind that tests one string    *)
(* (path and host globs, regexes, accepted values, IP prefixes) are the set *)
(* m.accepts of the values they accept; the kinds that name something have  *)
(* m.name.  An empty accepts of a kind that takes values is a presence      *)
(* test.  A site s maps its matchers' names to matchers (s.matchers) and    *)
(* its classify tokens to tables (s.classifiers); a reference in a scope, a *)
(* row or an `all` is such a name.  Compile resolves every reference and    *)
(* refuses a cycle, so the recursion below ends.                            *)
(*                                                                          *)
(* The context c of an evaluation: the request, the upstream it was routed  *)
(* to and the response headers (NoHeaders in the request phase).  The memo  *)
(* of matcher results holds for one context, where a matcher is a function, *)
(* so it is left out.                                                       *)
(***************************************************************************)

NoHeaders == [none |-> <<"no response headers">>]
NoPools   == {"no pool view"}

RespValues(h, n) == IF n \in DOMAIN h THEN h[n] ELSE <<>>

\* First match wins: the element of q at the index found, or what holds when none is.
FoundOr(q, i, otherwise) == IF i = 0 THEN otherwise ELSE q[i]

\* The kinds Compile refuses in a request-phase directive.
ResponsePhaseKinds == {"content_type", "resp_header", "set_cookie"}

RECURSIVE Match(_, _, _)

\* Every term of a conjunction, each with its negation (respondTermsMatch).
TermsMatch(s, c, terms) ==
    \A t \in terms : Match(s, c, s.matchers[t.ref]) # t.negate

\* classifier.resolve: the value of the first row whose matchers all match.
ClassifyValue(s, c, tok) ==
    LET cl == s.classifiers[tok]
        Holds(row) == \A n \in row.conj : Match(s, c, s.matchers[n])
    IN  FoundOr(cl.rows, SelectInSeq(cl.rows, Holds), [value |-> cl.def]).value

AnyLine(q, acc) == \E i \in DOMAIN q : q[i] \in acc

FirstCookie(r, n) ==
    FoundOr(r.cookies, SelectInSeq(r.cookies, LAMBDA k : k.n = n), [v |-> ""]).v

MatchRequest(m, r) ==
    CASE m.kind \in {"path", "path_regex"} -> r.attr["path"] \in m.accepts
      [] m.kind \in {"host", "host_regex"} -> r.attr["host"] \in m.accepts
      [] m.kind = "method"         -> r.attr["method"] \in m.accepts
      [] m.kind = "header_present" -> r.hdr[m.name] # <<>>
      [] m.kind \in {"header_regex", "header_json"} -> AnyLine(r.hdr[m.name], m.accepts)
      [] m.kind = "header" -> IF m.accepts = {} THEN r.hdr[m.name] # <<>>
                              ELSE AnyLine(r.hdr[m.name], m.accepts)
      [] m.kind = "cookie_prefix" -> \E i \in DOMAIN r.cookies : r.cookies[i].n \in m.accepts
      [] m.kind = "cookie" ->
            IF m.accepts = {} THEN \E i \in DOMAIN r.cookies : r.cookies[i].n = m.name
            ELSE FirstCookie(r, m.name) \in m.accepts
      [] m.kind = "cookie_json" ->
            /\ \E i \in DOMAIN r.cookies : r.cookies[i].n = m.name
            /\ FirstCookie(r, m.name) \in m.accepts
      [] m.kind = "geo" -> r.attr[m.name] # "" /\ r.attr[m.name] \in m.accepts
      [] m.kind = "query_present" ->
            \E n \in DOMAIN r.query : /\ n \in m.accepts
                                      /\ n \in m.nonEmpty =>
                                           \E i \in DOMAIN r.query[n] : r.query[n][i] # ""
      [] m.kind = "query" -> /\ m.name \in DOMAIN r.query
                             /\ m.accepts = {} \/ AnyLine(r.query[m.name], m.accepts)
      [] m.kind = "ip" -> r.realIP # "" /\ r.realIP \in m.accepts
      [] m.kind = "upstream_healthy" -> r.healthy # NoPools /\ m.accepts \cap r.healthy # {}

MatchResponse(m, h) ==
    /\ h # NoHeaders
    /\ CASE m.kind = "content_type" -> AnyLine(SubSeq(RespValues(h, "Content-Type"), 1, 1), m.accepts)
         [] m.kind = "resp_header"  -> IF m.accepts = {} THEN RespValues(h, m.name) # <<>>
                                       ELSE AnyLine(RespValues(h, m.name), m.accepts)
         [] m.kind = "set_cookie"   -> IF m.accepts = {} THEN RespValues(h, "Set-Cookie") # <<>>
                                       ELSE AnyLine(RespValues(h, "Set-Cookie"), m.accepts)

\* matcher.match.
Match(s, c, m) ==
    CASE m.kind = "all"      -> TermsMatch(s, c, m.terms)
      [] m.kind = "classify" -> (ClassifyValue(s, c, m.name) \in m.accepts) # m.negate
      [] m.kind = "upstream" -> c.up \in m.accepts
      [] m.kind \in ResponsePhaseKinds -> MatchResponse(m, c.resp)
      [] OTHER -> MatchRequest(m, c.req)

\* A scope: ALWAYS (nil), or a set of matcher names of which one matches.
Always == {"unscoped"}
ScopeMatches(s, c, sc) ==
    sc = Always \/ \E n \in sc : Match(s, c, s.matchers[n])

\* selector.matches: the optional resp_header term (a set of at most one
\* matcher), and then `default`, a scope, a status list or its complement.
SelectorMatches(s, c, sel, status) ==
    /\ \A m \in sel.respHeader : Match(s, c, m)
    /\ CASE sel.kind = "default"   -> TRUE
         [] sel.kind = "scope"     -> ScopeMatches(s, c, sel.scope)
         [] sel.kind = "status_in" -> status \in sel.codes
         [] sel.kind = "status_not_in" -> status \notin sel.codes

\* resolveUpstream: the first route rule that matches with no upstream yet.
ResolveUpstream(s, r) ==
    LET c == [req |-> r, up |-> "", resp |-> NoHeaders]
        i == SelectInSeq(s.routes, LAMBDA u : ScopeMatches(s, c, u.scope))
    IN  FoundOr(s.routes, i, [upstream |-> s.defaultUpstream]).upstream

Context(s, r, resp) == [req |-> r, up |-> ResolveUpstream(s, r), resp |-> resp]

-----------------------------------------------------------------------------
KeySelected(s, sel, r)  == SelectorMatches(s, Context(s, r, NoHeaders), sel, 0)
KeyClassify(s, t, r)    == ClassifyValue(s, Context(s, r, NoHeaders), t.arg)

Cr == INSTANCE Credentials WITH SelMatches <- KeySelected, Classify <- KeyClassify

None == [kind |-> "none"]

----------------------------------------------------------------------------
\* The request phase.

\* EvalSecurity, which runs with no upstream resolved: allow, then deny.
DenyVerdict(s, d) ==
    IF d = 0 THEN "pass" ELSE IF s.monitor \/ s.deny[d].monitor THEN "monitor" ELSE "block"

EvalSecurity(s, r) ==
    LET c == [req |-> r, up |-> "", resp |-> NoHeaders]
    IN  IF \E i \in DOMAIN s.allow : TermsMatch(s, c, s.allow[i]) THEN "allow"
        ELSE DenyVerdict(s, SelectInSeq(s.deny, LAMBDA u : TermsMatch(s, c, u.terms)))

Scoped(s, c, scopes) == \E i \in DOMAIN scopes : ScopeMatches(s, c, scopes[i])

\* EvalRequest's outcome: respond, redirect, purge and pass, in that order.
\* (A path of `respond PATH` is a conjunction of one path matcher.)
Outcome(s, c) ==
    CASE \E i \in DOMAIN s.respond : TermsMatch(s, c, s.respond[i]) -> "synthetic"
      [] Scoped(s, c, s.redirect) -> "redirect"
      [] Scoped(s, c, s.purge)    -> "purge"
      [] Scoped(s, c, s.pass)     -> "pass"
      [] OTHER                    -> "cache"

EvalRequest(s, r) == Outcome(s, Context(s, r, NoHeaders))

CacheCredentialedMatches(s, r) == Scoped(s, Context(s, r, NoHeaders), s.credRules)

----------------------------------------------------------------------------
\* The response phase.

IsUncacheableError(status) == status >= 400 /\ status \notin {404, 410}

\* headerTTL: the duration in the first value of a response header, 0 if none.
HeaderTTL(h, n) ==
    IF h = NoHeaders \/ RespValues(h, n) = <<>> THEN 0 ELSE ParseTTL(h[n][1])

HeaderOr(h, n, literal) ==
    IF n # "" /\ HeaderTTL(h, n) > 0 THEN HeaderTTL(h, n) ELSE literal

\* resolveGraceMaxStale: a max_stale below the grace is ignored.
ResolveGraceMaxStale(u, h) ==
    LET g == HeaderOr(h, u.graceFrom, u.grace)
        m == HeaderOr(h, u.maxStaleFrom, u.maxStale)
    IN  [grace |-> g, maxStale |-> IF m < g THEN 0 ELSE m]

RefusesError(u, status) == IsUncacheableError(status) /\ u.sel.kind # "status_in"

\* The rule ends the scan of the cache_ttl rules: a from_header rule whose
\* header is missing or unparseable lets a later rule decide.
Decides(s, c, u, status) ==
    /\ SelectorMatches(s, c, u.sel, status)
    /\ u.hfm > 0 \/ RefusesError(u, status) \/ u.from = "" \/ HeaderTTL(c.resp, u.from) > 0

VaryFields(h) == {RespValues(h, "Vary")[i] : i \in DOMAIN RespValues(h, "Vary")}

KeyHeaderNames(toks) ==
    {t.arg : t \in {u \in Cr!Tokens(toks) : u.kind = "header"}}

HasUncacheableCC(h) ==
    AnyLine(RespValues(h, "Cache-Control"), {"no-store", "private", "no-cache", "s-maxage=0"})

\* The header names whose Vary the key of this request partitions.
VaryCovered(s, r) == KeyHeaderNames(Cr!RecipeTokens(s, r))

SafelyShareable(s, r, h) ==
    /\ ~HasUncacheableCC(h)
    /\ VaryFields(h) \subseteq VaryCovered(s, r) \cup {"Accept-Encoding"}

\* Mutant: a static TTL authorizes the share of a credentialed response.
AnyTTLAuthorizes(u) == TRUE
\* perResponseSignal: the TTL came from a header the origin sent.
PerResponseSignal(u) == u.from # ""

\* What becomes of a response a cache_ttl rule u made cacheable: stored for
\* every user on the origin's own signal, refused, or stored though the
\* origin marked it private (forced).
Sharing(s, c, u) ==
    LET h == c.resp
        blocked == RespValues(h, "Set-Cookie") # <<>> /\ ~Scoped(s, c, s.strip)
    IN  CASE h = NoHeaders -> "shared"
          [] h # NoHeaders /\ Scoped(s, c, s.credRules) ->
               IF PerResponseSignal(u) THEN "signalled" ELSE "refused"
          [] OTHER ->
               IF "*" \in VaryFields(h) \/ blocked THEN "refused"
               ELSE IF SafelyShareable(s, c.req, h) THEN "shared"
               ELSE IF s.unsafe THEN "forced" ELSE "refused"

Refusal == [cacheable |-> FALSE, hfm |-> 0]
NoRule  == [from |-> "no rule"]

Stored(u, h, sharing) ==
    IF sharing = "refused" THEN Refusal
    ELSE [cacheable |-> TRUE, hfm |-> 0, sharing |-> sharing, ttl |-> HeaderOr(h, u.from, u.ttl)]
           @@ ResolveGraceMaxStale(u, h)

\* EvalResponse: what the rule u that decides makes of the response in context c.
ByRule(s, c, u, status) ==
    CASE u = NoRule -> Refusal
      [] u # NoRule /\ u.hfm > 0 -> [Refusal EXCEPT !.hfm = u.hfm]
      [] OTHER -> IF RefusesError(u, status) THEN Refusal ELSE Stored(u, c.resp, Sharing(s, c, u))

Judge(s, c, status) ==
    LET i == SelectInSeq(s.ttlRules, LAMBDA u : Decides(s, c, u, status))
    IN  ByRule(s, c, FoundOr(s.ttlRules, i, NoRule), status)

EvalResponse(s, r, status, h) == Judge(s, Context(s, r, h), status)

----------------------------------------------------------------------------
\* The handler.

\* What the origin is sent: the cookies and the headers of the request.  A
\* cache_credentialed request carries the client's own cookies again.
OriginView(s, r, r0) ==
    [cookies |-> IF CacheCredentialedMatches(s, r) /\ r0.cookies # <<>> THEN r0.cookies
                 ELSE r.cookies,
     hdr |-> r.hdr, sel |-> r.sel]

\* The detached refresh starts from an empty header set and the Cookie.
RefreshView(s, r, r0) ==
    [OriginView(s, r, r0) EXCEPT !.hdr = [n \in DOMAIN r.hdr |-> <<>>]]

\* The origin sent a TTL header that a rule of the site reads.
Signalled(s, h) == \E i \in DOMAIN s.ttlRules : HeaderOr(h, s.ttlRules[i].from, 0) > 0

\* The entry a decision d stores.  The flag that a HIT advertises private is
\* part of the metadata the foreground writes.
Entry(d, view, a, forced, bg) ==
    [view |-> view, signal |-> Signalled(site, a.hdr), status |-> a.status, body |-> a.kind = "response",
     vary |-> IF a.hdr = NoHeaders THEN {} ELSE VaryFields(a.hdr),
     sharing |-> d.sharing, forcedPrivate |-> forced, bg |-> bg,
     age |-> "fresh", grace |-> d.grace > 0]

Put(k, e) == cache' = [x \in DOMAIN cache \cup {k} |-> IF x = k THEN e ELSE cache[x]]

\* The key is no longer servable: purged, or superseded by a hit-for-miss.
Forget(k) == cache' = [x \in DOMAIN cache \ {k} |-> cache[x]]

\* A hit of the entry e by request r.
Hit(r, e) == [kind |-> "hit", req |-> r, entry |-> e]

\* serveOrigin on the cacheable path: ErrNotFound reaches EvalResponse
\* without headers; only a 200, a full negative or a cacheable error status
\* is stored.
Miss(s, r, r0, k, a) ==
    \E d \in {EvalResponse(s, r, a.status, a.hdr)} :
        /\ served' = [kind |-> "miss"]
        /\ IF d.cacheable THEN Put(k, Entry(d, OriginView(s, r, r0), a, d.sharing = "forced", FALSE))
           ELSE IF d.hfm > 0 THEN Forget(k) ELSE UNCHANGED cache
        /\ UNCHANGED refreshing

\* A HIT, which starts a refresh when the entry is past its TTL.
Lookup(s, r, r0, k) ==
    /\ served' = Hit(r, cache[k])
    /\ refreshing' = IF cache[k].age = "stale" THEN [kind |-> "refresh", key |-> k, req |-> r, orig |-> r0]
                     ELSE refreshing
    /\ UNCHANGED cache

Servable(k) == k \in DOMAIN cache /\ (cache[k].age = "fresh" \/ cache[k].grace)

Bypass(s, r) == ~CacheCredentialedMatches(s, r) /\ Cr!BypassForCredentials(s, r)

Answer(kind) == served' = [kind |-> kind] /\ UNCHANGED <<cache, refreshing>>

\* ServeHTTP for one safe request r0: n is the request and its key once its cookies
\* are filtered and stripped, out the outcome for the filtered one.
ServeHTTP(r0) ==
    /\ UNCHANGED site
    /\ \E n \in {Cr!Normalized(site, r0)}, out \in {EvalRequest(site, Cr!FilterRequestCookies(site, r0))} :
         CASE EvalSecurity(site, r0) = "block"   -> Answer("deny")
           [] OTHER ->
              CASE out \in {"synthetic", "redirect"} -> Answer(out)
                [] out = "purge" -> /\ served' = [kind |-> "purge"]
                                    /\ Forget(n.key)
                                    /\ UNCHANGED refreshing
                [] out = "pass" \/ (out = "cache" /\ Bypass(site, n.req)) -> Answer("pass")
                [] OTHER -> IF Servable(n.key) THEN Lookup(site, n.req, r0, n.key)
                            ELSE \E a \in Answers : Miss(site, n.req, r0, n.key, a)

\* The TTL of an entry runs out.
Expire(k) ==
    /\ k \in DOMAIN cache /\ cache[k].age = "fresh"
    /\ cache' = [cache EXCEPT ![k].age = "stale"]
    /\ served' = None
    /\ UNCHANGED <<site, refreshing>>

\* revalidate: a negative is judged without headers and stored bodyless, a
\* full response is stored only when it is a 200.
Revalidate(a) ==
    /\ refreshing # None
    /\ \E h \in {IF a.kind = "response" THEN a.hdr ELSE NoHeaders} :
       \E d \in {EvalResponse(site, refreshing.req, a.status, h)} :
          IF d.cacheable /\ (a.kind = "response" => a.status = 200)
          THEN Put(refreshing.key,
                   Entry(d, RefreshView(site, refreshing.req, refreshing.orig), [a EXCEPT !.hdr = h], FALSE, TRUE))
          ELSE IF d.hfm > 0 /\ a.kind = "response" THEN Forget(refreshing.key) ELSE UNCHANGED cache
    /\ refreshing' = None
    /\ served' = None
    /\ UNCHANGED site

Init ==
    /\ site \in Sites
    /\ cache = <<>>
    /\ refreshing = None
    /\ served = None

Next ==
    \/ \E r \in Requests : ServeHTTP(r)
    \/ \E k \in DOMAIN cache : Expire(k)
    \/ \E a \in Answers : Revalidate(a)

Spec == Init /\ [][Next]_vars

----------------------------------------------------------------------------
\* Two requests the origin could tell apart by their cookies: a cookie that is
\* neither covered by an axis nor empty has other values.
SameCookies(s, a, b) ==
    \A n \in (Cr!CookieNames(a) \cup Cr!CookieNames(b)) \ Cr!SelectedForward(s, a) :
        Cr!OriginCookie(a, n) = Cr!OriginCookie(b, n)

\* A stored body is served to a request only if the origin produced it for the
\* same credentials: the cookies it saw that no axis covers are the request's
\* own, and, for a body fetched in the foreground, so are the Authorization and
\* every header the response varies on (pipeline.go BypassForCredentials,
\* keyCoversAllCookies, StripDerivedCookies and the Vary check of
\* EvalResponse, against one recipe captured by EvalRequest).  Exempt are the
\* shares the origin signalled per response and, for Vary, those cache_unsafe
\* forced.
HitIsOwn ==
    served.kind = "hit" =>
        LET e == served.entry
            r == served.req
        IN  e.body /\ ~e.signal /\ e.view.sel = r.sel =>
              /\ SameCookies(site, r, e.view)
              /\ ~e.bg => /\ Cr!OriginAuth(r) = Cr!OriginAuth(e.view)
                          /\ e.sharing = "shared" =>
                               \A n \in e.vary \ {"Accept-Encoding"} :
                                    r.hdr[n] = e.view.hdr[n]

\* The origin is sent a credential the key does not cover.
Uncovered(s, v) == Cr!BypassForCredentials(s, v)

\* A body produced with a credential its key does not cover is in the cache
\* only when the origin itself marked that response as shared (EvalResponse's
\* cache_credentialed gate, together with the bypass of the request phase).
SharedOnlyBySignal ==
    \A k \in DOMAIN cache :
        cache[k].body /\ Uncovered(site, cache[k].view) => cache[k].signal

\* A HIT of a body the origin marked confidential, stored because cache_unsafe
\* overrode that, is advertised as private (pipeline.go EvalResponse's
\* ForcedPrivate, cache.ObjectMeta.ForcedPrivate).
ForcedStaysPrivate ==
    served.kind = "hit" /\ served.entry.sharing = "forced" => served.entry.forcedPrivate

\* A background refresh sends the origin what the foreground fetch of the same
\* request would have sent it: the key's own headers are among them
\* (handler.go revalidate).
RefreshSameIdentity ==
    \A k \in DOMAIN cache : cache[k].bg =>
        \A n \in KeyHeaderNames(cache[k].view.sel) \ {"Cookie"} :
            \A i \in DOMAIN cache[k].view.sel :
                LET t == cache[k].view.sel[i]
                IN  t.kind = "header" /\ t.arg = n => cache[k].view.hdr[n] = k[i]
=============================================================================
